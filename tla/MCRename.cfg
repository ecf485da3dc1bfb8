CONSTANTS
  NARCH = 3
  NPRF = 6
  NROB = 2
SPECIFICATION Spec
INVARIANTS
  TypeOK
  NoRegisterLeak
  RetireListExact
