SPECIFICATION FairSpec
CONSTANTS
  FIFO = 3
  TRIGGER = 1
  COUNTS = 3
  MaxChars = 5
PROPERTIES
  InOrder
  ReceptionGoesOn
CHECK_DEADLOCK FALSE
