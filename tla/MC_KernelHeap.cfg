CONSTANTS
  NbRegions = 2
  FirstPage <- MCFirstPage
  NbPages <- MCNbPages
  AddrPages = 32
  PageSize = 64
  PtPages = 4
  KernelRange <- MCKernelRange
  VramRange <- MCVramRange
  MetaRange <- MCMetaRange
  ModuleRange <- MCModuleRange
  HeaderSize = 24
  PtrSize = 4
  MetaSize = 16
  MinSize = 8
  WordBits = 11
  Sizes = {0, 12, 30, 64, 100}
  WildPointers <- MCWildPointers
SPECIFICATION Spec
INVARIANTS EveryFrameHasOneOwner AreasAreUsable
PROPERTIES FailedKmallocChangesNothing PanicMeansOutOfFrames KfreeTellsRightFromWrong
CHECK_DEADLOCK FALSE
