SPECIFICATION Spec
CONSTANTS
  AddrSpace = 512
  LowMem = 32
  VramStart = 16
  PageSize = 16
  PtPages = 4
  Sizeof <- MCSizeof
  Machines <- MCMachines
PROPERTY
  BootstrapNeverFails
CHECK_DEADLOCK FALSE
