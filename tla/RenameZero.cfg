CONSTANTS
  NARCH = 4
  NPRF = 8
  NROB = 2
SPECIFICATION Spec
INVARIANT
  ZeroRegisterPinned
