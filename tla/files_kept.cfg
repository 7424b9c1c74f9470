SPECIFICATION Spec
CHECK_DEADLOCK FALSE
CONSTANTS
  File = {f1, f2, f3}
  Request = {r1, r2}
  MAX_FILES_PER_ACTIVITY = 1
  MaxFaults = 1
INVARIANTS
  TypeOK
  ListedStored
  LimitNearlyKept
  LeftoversExplained
