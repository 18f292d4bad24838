SPECIFICATION FairSpec
CONSTANTS
  Paths <- LogPaths
  LogName = "log.txt"
  Data = {"", "x"}
  Kinds <- AnyKinds
  Fetched <- LogPaths
  Editors = {"server", "client"}
  AnyTime = TRUE
  SameSecond = TRUE
  MaxEdits = 2
  ChanCap = 8
INVARIANTS
  TypeOK
  Aligned
  TurnTaking
PROPERTY RoundsComplete
