SPECIFICATION OperationsSpec
CONSTANTS
  Nothing = Nothing
  NotFinite = NotFinite
  UInt8Max = 2
  Policies <- MCPolicies
  Statuses = {200, 302, 400, 404, 429, 500}
  Characters <- MCCharacters
  Unreserved = {"a"}
  Bodies <- MCBodies
  Ids <- MCIds
  ListParams <- MCListParams
  CdoParams <- MCCdoParams
  ServiceParams <- MCServiceParams
  Years = {0, 1, 2024, 10000}
  Months = {0, 1, 12, 13}
INVARIANTS
  RequestsSayWhatWasAsked
  AnswerTellsWhatHappened
