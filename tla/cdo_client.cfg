SPECIFICATION Spec
CONSTANTS
  Caller = caller
  RawConfigs <- MCRawConfigs
  NoWait = NoWait
  Poll = 1
  DefaultInterval = 2
  Int32Max = 9
  ClockMax = 9
  LastDay = 1
  MaxNow = 5
  ClockSetBack = FALSE
  Policies <- MCPolicies
  Statuses <- MCStatuses
  NotFinite = NotFinite
  UInt8Max = 3
  MaxFetches = 5
INVARIANTS
  TypeOK
  EveryFetchIsPaid
  FetchPace
  SleepsForATokenOnly
PROPERTIES
  QuotaErrorIsHonest
CHECK_DEADLOCK FALSE
