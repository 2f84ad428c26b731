\* Every body is read to the end, and the reader then stops.
SPECIFICATION Spec
CONSTANTS
  Numerals <- MCNumerals
  Documents <- MCDocuments
  Before = Before
  Nothing = Nothing
INVARIANTS
  ParsedAsWritten
  AnswerAsPublished
CHECK_DEADLOCK FALSE
