SPECIFICATION Spec
CHECK_DEADLOCK FALSE
CONSTANTS
  Signals <- TurnSignals
  WindowCap = 10
  MaxTurns = 13
  MaxMissing = 2
  MayAbandon = FALSE
INVARIANTS
  TypeOK
  BottomOutEarned
  RecoveryBounded
  RecoveryConverges
  ClosureNotStarved
PROPERTIES
  RecoveryFreezes
