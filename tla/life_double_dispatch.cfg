SPECIFICATION Spec
CHECK_DEADLOCK FALSE
CONSTANTS
  MaxSessions = 1
  Conn = {t1}
  Horizon = 2
  FirstDeadline = 1
  MaxAttempts = 2
  Budget <- Quiet
  DbMayFail = FALSE
INVARIANT DispatchedOnce
