SPECIFICATION FairSpec
CONSTANTS
  BUFMAX = 10
  OUTBUFMAX = 8
  WORD = 65536
  MEM = 4
  Requests <- MCRequests
  Runs <- MCRuns
  Noise = {0, 35, 36, 43}
  MaxErrors = 2
INVARIANTS
  RunsWhatWasSent
  RepeatsTakeErrors
  RepliesMatch
PROPERTIES
  SessionCompletes
CHECK_DEADLOCK FALSE
