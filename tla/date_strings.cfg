SPECIFICATION Spec
CONSTANTS
  Unreadable = Unreadable
  Malformed = Malformed
  Calls <- MCCalls
PROPERTIES
  ImplementsDateRange
