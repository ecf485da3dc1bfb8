CONSTANTS
  NROB = 2
  NDQ = 3
  NMRQ = 2
  LEN = 6
  Programs <- AllPrograms
SPECIFICATION FairSpec
INVARIANTS
  TypeOK
  ProgramOrder
  NoLateCompletion
  SerializingAlone
  HostSeesMemory
  RestartsPair
PROPERTIES
  Progress
