SPECIFICATION FairSpec
CHECK_DEADLOCK FALSE
CONSTANTS
  Messages = 2
  Prior = 8
  Overlap = TRUE
  BargeIn = TRUE
  Leaves = TRUE
  DbMayFail = TRUE
PROPERTIES
  NoTurnAfterClose
  ClosureEndsHandler
