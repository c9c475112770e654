SPECIFICATION Spec
CONSTANTS
  AddrSpace = 512
  LowMem = 32
  VramStart = 16
  PageSize = 16
  PtPages = 4
  Sizeof <- MCSizeof
  Machines <- MCMachines
INVARIANTS
  MapLocationIsSafe
  MapIsExact
  FramesAreTheFreePages
PROPERTIES
  PanicIsExplained
  BootEnds
CHECK_DEADLOCK FALSE
