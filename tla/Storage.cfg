SPECIFICATION FairSpec
CONSTANTS
  TIMEOUT = 2
  COUNTS = 4
  LBAS = 4
  Requests <- MCRequests
  Size = 2
  MaxRestarts = 1
  Images <- MCImages
INVARIANTS
  DataExact
  TaskFileFree
PROPERTIES
  CallsEnd
CHECK_DEADLOCK FALSE
