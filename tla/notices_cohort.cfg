SPECIFICATION Spec
CONSTANTS
  Student = {s1}
  Active = {s1}
  Unreachable = {}
  Tabs = 1
  Horizon = 2
  FirstDeadline = 1
  Month = 2
  MaxEvents = 0
INVARIANT CohortAccurate
