CONSTANTS
  Writers = {w1, w2}
  Flushes = {f1}
  Lengths = {1, 2}
  QueueRecords = 2
  QueueBytes = 3
  MaxRecords = 4
  Free = Free
  NoRecord = NoRecord
SPECIFICATION FairSpec
CHECK_DEADLOCK FALSE
INVARIANTS BytesAreExact SendHasRoom FlushCovers ClosedIsComplete
PROPERTIES QueueDrains
