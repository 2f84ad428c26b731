SPECIFICATION Spec
CONSTANTS
  t1 = t1
  Thread = {t1}
  RawConfigs <- MCDefaults
  NoWait = NoWait
  Waits = {}
  Poll = 1
  DefaultInterval = 1
  Int32Max = 9
  ClockMax = 9
  LastDay = 0
  MaxNow = 4
  ClockSetBack = FALSE
INVARIANTS
  AtMostMaxTokensPerSecond
