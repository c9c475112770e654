CONSTANTS
  MaxLines = 3
  Base = 2
  MaxDigits = 3
  LongName = LongName
  Files <- MCFiles
  Stacks <- MCStacks
SPECIFICATION Spec
CHECK_DEADLOCK FALSE
INVARIANTS
  LoadsTheFile
  TraceIsRight
  PanicFindsTheTable
