SPECIFICATION FairSpec
CONSTANTS
  c1 = c1
  c2 = c2
  i1 = i1
  i2 = i2
  Client = {c1, c2}
  Impl = {i1, i2}
  Static = Static
  NoObject = NoObject
  Null = Null
  Configs <- MCConfigs
  MaxRedirects = 1
  LongMax = 2
  SizeMax = 3
  MaxResponses = 3
  MaxLines = 2
  MaxBytes = 3
INVARIANTS
  TypeOK
  RuntimeOutlivesHandles
  AnswerIsTheLastResponse
  OversizeIsFinal
  HeadersStayHome
PROPERTIES
  GetReturns
CHECK_DEADLOCK FALSE
