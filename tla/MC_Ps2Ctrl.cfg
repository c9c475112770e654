CONSTANTS
  MaxFaults = 2
  MaxNoise = 1
SPECIFICATION CtrlSpec
\* The start-up ends.
CHECK_DEADLOCK FALSE
INVARIANTS UnmaskedMeansDriven StartAssumptionsHold
PROPERTIES BringUpEnds
