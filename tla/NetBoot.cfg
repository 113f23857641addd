SPECIFICATION FairSpec
CONSTANTS
  a = a
  b = b
  None = None
  Servers = {a, b}
  Dhcp = {a}
  Naming <- MCNaming
  File <- MCFile
  READ = 2
  RxMax = 1
  OPORT_SWEEP = 1
  MAX_ARP_RETRIES = 2
  MAX_BOOTP_RETRIES = 2
  MAX_RPC_RETRIES = 2
  MaxFaults = 2
  MaxAttempts = 2
INVARIANTS
  ImageExact
  AddressHeld
  OneServer
  MountReleased
PROPERTIES
  KernelLoads
CHECK_DEADLOCK FALSE
