SPECIFICATION FairSpec
CONSTANTS
  Low = 2
  Target = 5
  Capacity = 9
  Batch <- MCBatch
  Chunk <- MCChunk
  MaxPrime = 4
  MaxEpoch = 3
CHECK_DEADLOCK FALSE
INVARIANTS FlushSeparatesSound NoFalseAlarm
PROPERTY GameKeepsRunning
