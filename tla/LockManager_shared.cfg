SPECIFICATION FairSpec
CONSTANTS
  Threads = {t1, t2, t3}
  Keys = {k1, k2}
CHECK_DEADLOCK FALSE
INVARIANTS
  TypeOK
  OneMutexPerPath
  MutualExclusion
  InBounds
PROPERTIES
  Progress
  ImplementsPathMutex
