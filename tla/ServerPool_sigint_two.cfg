SPECIFICATION FairSpec
CONSTANTS
  threadPoolSize = 2
  MaxConns = 2
  SigintAnywhere = FALSE
CHECK_DEADLOCK FALSE
PROPERTY ShutdownCompletes
