SPECIFICATION FairSpec
CONSTANTS
  LEN = 5
  NROB = 4
  NQ = 2
  NS0 = 2
  NS1 = 2
  NSM = 2
  MUL_LAT = 3
  PROGRAMS <- TestPrograms
INVARIANTS TypeOK OldestFirst
PROPERTIES Implements Finishes
