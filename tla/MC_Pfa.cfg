CONSTANTS
  NbRegions = 2
  FirstPage <- MCFirstPage
  NbPages <- MCNbPages
  AddrPages = 14
  Requests <- MCRequests
SPECIFICATION Spec
\* panic() stops the kernel for good.
CHECK_DEADLOCK FALSE
INVARIANTS
  PagemapTellsTheBlocks
PROPERTIES
  LegalFreeNeverPanics
  MisuseAlwaysPanics
  ImplementsFrameSpec
