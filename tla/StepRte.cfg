SPECIFICATION Spec
CONSTANTS
  N = 5
  Rom = {3}
  Unmapped = {4}
  Disp <- MCDisp
  Files <- MCFiles
  Programs <- MCPrograms
  StoreWords = {"op"}
  HostWords = {"brk"}
  Accesses <- MCAccesses
  MaxRead = 1
  Entries = {0, 4}
INVARIANT
  StepIsSingle
