SPECIFICATION FairSpec
CONSTANTS
  Lens = {1, 2, 3}
  Sizes = {21, 301, 2100}
  NsFrames = 3
  PcnetFrames = 3
  SmcFrames = 3
  RX_START = 2
  STOP_PG = 6
  RX_RING_SIZE = 2
  TX_RING_SIZE = 2
  WRAP = 2
  PAGES = 4
  TRIES = 2
  p1 = p1
  p2 = p2
  NoPort = NoPort
  NoChip = NoChip
  CsFrames = 2
  Ports <- MCPorts
  Scans <- MCScans
  Boards <- MCBoards
INVARIANTS
  RingAgrees
  RxInStep
  SentInOrder
  MemoryKept
  Listening
  NoneHidden
PROPERTIES
  SendEnds
  FramesReceived
  KeepsFrameQueue
CHECK_DEADLOCK FALSE
