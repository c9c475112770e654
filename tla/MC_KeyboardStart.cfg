CONSTANTS
  MaxFaults = 5
  MaxFaultsLate = 0
  MaxKeys = 1
SPECIFICATION StartSpec
\* keyboard_start() has returned and the keyboard is silent.
CHECK_DEADLOCK FALSE
INVARIANTS StartedMeansReady NoAnswerLeftBehind
PROPERTIES StartReturns
