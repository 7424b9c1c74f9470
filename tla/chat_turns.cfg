SPECIFICATION Spec
CHECK_DEADLOCK FALSE
CONSTANTS
  Messages = 3
  Prior = 0
  Overlap = TRUE
  BargeIn = FALSE
  Leaves = TRUE
  DbMayFail = FALSE
INVARIANTS
  TypeOK
  NoMessageLost
  InterruptLeavesNoRow
  DoneIsDurable
