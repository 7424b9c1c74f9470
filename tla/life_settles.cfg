SPECIFICATION FairSpec
CHECK_DEADLOCK FALSE
CONSTANTS
  MaxSessions = 2
  Conn = {t1}
  Horizon = 2
  FirstDeadline = 1
  MaxAttempts = 2
  Budget <- Orderly
  DbMayFail = FALSE
INVARIANT LateStarterIgnored
PROPERTIES
  ImplementsStatus
  PendingSettles
  OverdueIsSwept
