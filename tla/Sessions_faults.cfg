SPECIFICATION FairSpec
CONSTANTS
  Clients = {"a", "b"}
  InitFolders <- OneOrTwoFolders
  Editors = {"a", "b"}
  MaxEdits = 1
  MaxFaults = 1
  WriteFails = {"signal", "error"}
INVARIANTS
  TypeOK
  LocksMatch
  HalfExplained
PROPERTIES
  AskedIsGot
  EveryoneServed
CHECK_DEADLOCK FALSE
