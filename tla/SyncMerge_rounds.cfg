SPECIFICATION MSpec
CONSTANTS
  Paths <- ForkPaths
  LogName = "log.txt"
  Data = {"x", "y"}
  Kinds <- FixedKinds
  Fetched = {}
  Editors = {"server", "client"}
  AnyTime = FALSE
  SameSecond = FALSE
  MaxEdits = 4
  ChanCap = 2
PROPERTY ImplementsMerge
