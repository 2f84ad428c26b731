SPECIFICATION FairSpec
CONSTANTS
  Policies <- MCPolicies
  Statuses <- MCStatuses
  ErrorCodes <- MCErrorCodes
  NotFinite = NotFinite
  UInt8Max = 3
INVARIANTS
  TypeOK
  RetryDisciplined
  BackoffInBand
PROPERTIES
  CallReturns
