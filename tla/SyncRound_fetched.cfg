SPECIFICATION FairSpec
CONSTANTS
  Paths <- NestedPaths
  LogName = "log.txt"
  Data = {"x", "y"}
  Kinds <- FixedKinds
  Fetched <- NestedPaths
  Editors = {"server"}
  AnyTime = FALSE
  SameSecond = FALSE
  MaxEdits = 2
  ChanCap = 2
INVARIANT RoundConverges
