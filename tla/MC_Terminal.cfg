CONSTANTS
  VGA_WIDTH = 3
  VGA_HEIGHT = 2
  ByteSize = 4
  Letters = {"a"}
  MaxText = 9
  Messages <- MCMessages
SPECIFICATION Spec
CHECK_DEADLOCK FALSE
INVARIANTS
  ScreenShowsTheText
  PositionInRange
  CursorFollows
