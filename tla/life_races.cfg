SPECIFICATION Spec
CHECK_DEADLOCK FALSE
CONSTANTS
  MaxSessions = 1
  Conn = {t1, t2}
  Horizon = 2
  FirstDeadline = 1
  MaxAttempts = 2
  Budget <- Rough
  DbMayFail = TRUE
SYMMETRY Tabs
INVARIANT TypeOK
PROPERTY ImplementsStatus
