SPECIFICATION FairSpec
CONSTANTS
  t1 = t1
  t2 = t2
  Thread = {t1, t2}
  RawConfigs <- MCRawConfigs
  NoWait = NoWait
  Waits <- MCWaits
  Poll = 2
  DefaultInterval = 2
  Int32Max = 2
  ClockMax = 9
  LastDay = 1
  MaxNow = 4
  ClockSetBack = TRUE
INVARIANTS
  TypeOK
  RateBound
  QuotaExact
  ObserversHonest
  DeadlineRespected
PROPERTIES
  ImplementsTokenBucket
  BoundedWaitEnds
