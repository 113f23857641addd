SPECIFICATION FairSpec
CONSTANTS
  MaxHits = 2
  FREE = 8
INVARIANTS
  ContextKept
  VectorTold
  NmiRearmed
PROPERTIES
  Resumed
