SPECIFICATION FairSpec
CONSTANTS
  threadPoolSize = 2
  MaxConns = 3
  SigintAnywhere = TRUE
CHECK_DEADLOCK FALSE
INVARIANTS
  TypeOK
  BusyCount
  HandOver
  NoSessionFreed
PROPERTY AssignedServed
