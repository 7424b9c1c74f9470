SPECIFICATION Spec
CHECK_DEADLOCK FALSE
CONSTANTS
  Signals <- AbandonSignals
  WindowCap = 10
  MaxTurns = 8
  MaxMissing = 4
  MayAbandon = TRUE
INVARIANTS
  GuardrailEarned
  PhaseBackedByTurns
