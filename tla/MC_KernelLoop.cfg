CONSTANTS
  Devices <- MCDevices
  TimeoutsMs <- MCTimeoutsMs
  IntMax = 11
  Quantum = 3
  CLOCK_FREQ = 100
SPECIFICATION KernelSpec
CHECK_DEADLOCK FALSE
INVARIANTS
  LinesStayServed
PROPERTIES
  WaitsAreFull
  SleepReturns
  TaskIsCalled
