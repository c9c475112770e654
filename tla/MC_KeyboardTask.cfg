CONSTANTS
  Events <- MCEvents
  Reports <- MCReports
  MaxQueue = 5
  MaxTyped = 2
  MaxWire = 1
SPECIFICATION Spec
\* The keyboard may stay silent.
CHECK_DEADLOCK FALSE
INVARIANTS
  SequenceFits
PROPERTIES
  DecodesWhatWasTyped
  SequenceIsCompleted
