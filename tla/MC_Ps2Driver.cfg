CONSTANTS
  Byte <- MCByte
  NoByte = NoByte
  PS2_DRIVER_MAX_RECV = 3
  Timeouts <- MCTimeouts
  SleepTicks = 2
SPECIFICATION Spec
INVARIANTS
  RingIsConsistent
PROPERTIES
  ImplementsFifo
  ReadReturns
  ByteIsFetched
