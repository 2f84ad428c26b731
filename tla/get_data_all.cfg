SPECIFICATION FairSpec
CONSTANTS
  FirstDay = 1
  LastDay = 4
  Malformed = Malformed
  Dates <- MCDates
  MaxDays = 1
  Archives <- MCArchives
  Limits <- MCLimits
  NoLimit = NoLimit
  DefaultLimit = 3
  PageCap = 3
  WithMetadata = {TRUE}
  WildNumbers <- MCWildNumbers
  Int32Max = 8
INVARIANTS
  TypeOK
  CompleteAndOrdered
  NoWastedPage
PROPERTIES
  PagesAdvance
  CallEnds
