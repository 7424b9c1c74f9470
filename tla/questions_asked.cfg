SPECIFICATION Spec
CHECK_DEADLOCK FALSE
CONSTANTS
  Conn = {c1}
  Phases = {"MONITORING"}
  MaxTurns = 8
  Fault = {"persist", "late", "crash"}
  MaxFaults = 2
INVARIANTS
  TypeOK
  NoNeedlessRepeat
  QuestionFits
  Remembered
PROPERTY FailureForgetsLittle
