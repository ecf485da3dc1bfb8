SPECIFICATION Spec
CONSTANTS
  LEN = 16
  NSETS = 2
  PAGE = 4
  NFQ = 4
  NTLB = 1
  NoFrame = NoFrame
  NoLine = NoLine
  NoPC = NoPC
  Frame <- MCFrame
  Kind <- MCKind
  Target <- MCTarget
  PREDICTED = {3}
  RESTARTS = {4, 13}
  MaxWait = 1

PROPERTIES FaultNamesItsMiss
