CONSTANTS
  NbRegions = 3
  FirstPage <- MCFirstPage
  NbPages <- MCNbPages
  AddrPages = 14
  Counts <- MCCounts
  Pagemaps <- MCPagemaps
SPECIFICATION CallSpec
INVARIANTS
  NoOutOfBoundsRead
  AnswerIsFirstFit
PROPERTIES
  CallReturns
