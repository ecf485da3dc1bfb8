SPECIFICATION Spec
CONSTANTS
  A = A
  B = B
  C = C
  NoLine = NoLine
  LINES = {A, B, C}
  NIDX = 2
  PIdx <- MCPIdx
  Low <- MCLow
  WORDS <- MCWords
  N = 4
  PROGRAMS <- Both
  NROB = 2
  MRQ = 5
  EBS = 2
  MaxProbe <- NopProbe
INVARIANTS TypeOK Coherent NoStop FillsAreExpected LoadsSeeStores NothingDropped
PROPERTIES Implements ProbedIsInL2 FlushEmpties
