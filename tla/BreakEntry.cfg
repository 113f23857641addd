SPECIFICATION Spec
CONSTANTS
  MaxHits = 2
INVARIANT
  BreakKeepsR2R3
