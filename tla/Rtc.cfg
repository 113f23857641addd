SPECIFICATION FairSpec
CONSTANTS
  COUNTS = 8
  WRAP = 8
  CNT_PER_TICK = 3
  LAG = 2
  Counts = {0, 1, 3, 5}
INVARIANTS
  WaitsNotTooLong
PROPERTIES
  WaitsLongEnough
  WaitEnds
