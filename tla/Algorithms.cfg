SPECIFICATION Spec
CONSTANTS
  Bits = 14
  Opcodes <- MCOpcodes
  Pcs = {0, 16382}
  Rn <- MCRn
  PR = 516
  ULONG = 256
  USHRT = 16
  Directives <- MCDirectives
  MAXCHUNK = 256
  FileSizes <- MCSizes
  Turns = 2
INVARIANTS
  TargetExact
  PrintedExact
  ScrambleInverts
CHECK_DEADLOCK FALSE
