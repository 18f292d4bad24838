SPECIFICATION FairSpec
CONSTANTS
  Clients = {"c1", "c2"}
  Names = {"d", "f"}
  ReadBlock = 2
  WriteBlock = 4
  InitDisks <- SmallDisks
  MaxSessions = 2
  MaxFaults = 1
INVARIANTS
  TypeOK
  Synchronised
  ServerEnds
  OnlyOddHangs
PROPERTIES
  NothingLost
  ClientKeeps
  SessionEnds
CHECK_DEADLOCK FALSE
