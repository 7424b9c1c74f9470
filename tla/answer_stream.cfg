SPECIFICATION FairSpec
CHECK_DEADLOCK FALSE
CONSTANTS
  MaxLength = 3
  MaxChunk = 3
INVARIANTS
  TypeOK
  TextFaithful
  SentinelHidden
  SpeechIsText
  AlwaysAsks
PROPERTY TurnEnds
