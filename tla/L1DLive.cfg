SPECIFICATION FairSpec
CONSTANTS
  A = A
  B = B
  C = C
  NoLine = NoLine
  LINES = {A, B, C}
  NIDX = 2
  PIdx <- MCPIdx
  Low <- MCLow
  WORDS <- MCWords
  N = 2
  PROGRAMS <- Waiting
  NROB = 2
  MRQ = 3
  EBS = 2
  MaxProbe <- OneProbe
PROPERTIES Progress
