SPECIFICATION FairSpec
CONSTANTS
  Paths <- NestedPaths
  LogName = "log.txt"
  Data = {"x", "y"}
  Kinds <- FixedKinds
  Fetched = {}
  Editors = {"client"}
  AnyTime = TRUE
  SameSecond = FALSE
  MaxEdits = 2
  ChanCap = 2
INVARIANT ServerSurvives
PROPERTY Converges
