SPECIFICATION FairSpec
CONSTANTS
  Threads = {t1, t2, t3}
  NoThread = NoThread
  SwMax = 2
  MaxCalls = 3
INVARIANTS
  TypeOK
  MutualExclusion
  OwnerCheckNotStale
PROPERTIES
  Refines
  AllReleased
CHECK_DEADLOCK FALSE
