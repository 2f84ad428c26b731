SPECIFICATION FairSpec
CONSTANTS
  FirstDay = 1
  LastDay = 8
  Malformed = Malformed
  Dates <- MCDates
  ChunkSizes <- MCChunkSizes
INVARIANTS
  Partition
  Coarsest
  StaysInCalendar
PROPERTIES
  SplitEnds
