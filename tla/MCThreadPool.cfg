SPECIFICATION FairSpec
CONSTANTS
  a = a
  b = b
  Callers <- MCCallers
  PoolSize = 2
  MaxTotal = 4
  MaxCalls = 3
  Nobody = Nobody
INVARIANTS
  TypeOK
  NoRunAfterReturn
  ReturnMeansDone
PROPERTIES
  ImplementsForkJoin
  NoLostWakeup
CHECK_DEADLOCK FALSE
