---------------------------- MODULE PolicyStages ----------------------------
(***************************************************************************)
(* The pure stages PolicyEngine.evaluate chains: recovery                  *)
(* (src/policy/recovery.py), the phase machine (fsm.py), the hint ladder   *)
(* (hint_ladder.py) and the meta-feedback cooldown (cooldown.py).  Each is *)
(* a function of the previous cross-turn state and of this turn's signals. *)
(***************************************************************************)
EXTENDS PolicyScores

Phase    == {"PLANNING", "MONITORING", "EVALUATION"}
Rung     == {"PROCESS_FEEDBACK", "STRATEGIC_HINT", "FOCUSED_HINT", "BOTTOM_OUT"}
Recovery == {"NORMAL", "STABILIZE"}

-----------------------------------------------------------------------------
(* Recovery *)

AFFECT_HIGH == 4000
AFFECT_LOW == 3000
CONFUSION_HIGH == 40
CONFUSION_LOW == 20
MIN_AFFECT_TURNS_IN_WINDOW == 2
AFFECT_TURN_THRESHOLD == 4000
MAX_RECOVERY_TURNS == 4

HighAffectCount(window) ==
  Cardinality({i \in DOMAIN window : AffectLoad(window[i]) > AFFECT_TURN_THRESHOLD})

(* Slips the properties must tell from the code: one affect turn is enough; no cap *)
MayEnterEarly(window, s) ==
  /\ AffectLoad(s) > AFFECT_HIGH
  /\ s.confusion > CONFUSION_HIGH
  /\ HighAffectCount(window) >= MIN_AFFECT_TURNS_IN_WINDOW - 1
MayLeaveUncapped(turns, s) == AffectLoad(s) < AFFECT_LOW /\ s.confusion < CONFUSION_LOW

MayEnter(window, s) ==
  /\ AffectLoad(s) > AFFECT_HIGH
  /\ s.confusion > CONFUSION_HIGH
  /\ HighAffectCount(window) >= MIN_AFFECT_TURNS_IN_WINDOW

MayLeave(turns, s) ==
  \/ turns + 1 >= MAX_RECOVERY_TURNS
  \/ AffectLoad(s) < AFFECT_LOW /\ s.confusion < CONFUSION_LOW

RecoveryNext(state, turns, window, s) ==
  CASE state = "STABILIZE" /\ MayLeave(turns, s) -> [state |-> "NORMAL", turns |-> 0]
    [] state = "STABILIZE" /\ ~MayLeave(turns, s) ->
         [state |-> "STABILIZE", turns |-> turns + 1]
    [] state = "NORMAL" /\ MayEnter(window, s) -> [state |-> "STABILIZE", turns |-> 1]
    [] state = "NORMAL" /\ ~MayEnter(window, s) -> [state |-> "NORMAL", turns |-> 0]

-----------------------------------------------------------------------------
(* The phase machine *)

PLANNING_TO_MONITORING_TURN == 2
MONITORING_TO_EVALUATION_TURN == 6
EVALUATION_RESET_TURN == 10
CLEAR_THRESHOLD == 3000
OVERLOAD_THRESHOLD == 7000
MIN_TURNS_BEFORE_ACCEL == 4

ClearHeaded(s) ==
  /\ s.attempt
  /\ Miscalibration(s) < CLEAR_THRESHOLD
  /\ Struggle(s) < CLEAR_THRESHOLD
  /\ AffectLoad(s) < CLEAR_THRESHOLD

Overwhelmed(s) ==
  Struggle(s) > OVERLOAD_THRESHOLD \/ AffectLoad(s) > OVERLOAD_THRESHOLD

Transition(state, turn, s) ==
  CASE state = "PLANNING" ->
         IF turn >= PLANNING_TO_MONITORING_TURN THEN "MONITORING" ELSE "PLANNING"
    [] state = "MONITORING" ->
         IF \/ turn >= MONITORING_TO_EVALUATION_TURN
            \/ turn >= MIN_TURNS_BEFORE_ACCEL /\ ClearHeaded(s)
         THEN "EVALUATION" ELSE "MONITORING"
    [] state = "EVALUATION" ->
         IF turn >= EVALUATION_RESET_TURN \/ Overwhelmed(s)
         THEN "PLANNING" ELSE "EVALUATION"

-----------------------------------------------------------------------------
(* The hint ladder *)

STRUGGLE_HIGH == 6000
STRUGGLE_LOW == 3000
LOW_STRUGGLE_RESET == 2
MIN_TURNS_AT_FOCUSED == 3

Calm(s) == Struggle(s) < STRUGGLE_LOW
Productive(s) == Struggle(s) > STRUGGLE_HIGH /\ s.attempt

NextRung(rung) ==
  CASE rung = "PROCESS_FEEDBACK" -> "STRATEGIC_HINT"
    [] rung = "STRATEGIC_HINT" -> "FOCUSED_HINT"
    [] OTHER -> "BOTTOM_OUT"

(* Slips: the rung before the last is not held; recovery does not freeze the ladder *)
ClimbsUngated(rung, turns, s, recovery) ==
  recovery = "NORMAL" /\ Productive(s) /\ rung # "BOTTOM_OUT"
ClimbsInRecovery(rung, turns, s, recovery) ==
  /\ Productive(s)
  /\ rung # "BOTTOM_OUT"
  /\ rung = "FOCUSED_HINT" => turns >= MIN_TURNS_AT_FOCUSED

(* The rung moves up: not frozen by recovery, not held by a gate, not at the top *)
Climbs(rung, turns, s, recovery) ==
  /\ recovery = "NORMAL"
  /\ Productive(s)
  /\ rung # "BOTTOM_OUT"
  /\ rung = "FOCUSED_HINT" => turns >= MIN_TURNS_AT_FOCUSED

(* Two calm turns in a row outside recovery take the learner back down *)
Resets(rung, low, s, recovery) ==
  /\ recovery = "NORMAL"
  /\ Calm(s)
  /\ low + 1 >= LOW_STRUGGLE_RESET
  /\ rung # "PROCESS_FEEDBACK"

NextStep(rung, turns, low, s, recovery) ==
  LET up   == Climbs(rung, turns, s, recovery)
      down == Resets(rung, low, s, recovery)
  IN [rung  |-> IF up THEN NextRung(rung)
                ELSE IF down THEN "PROCESS_FEEDBACK" ELSE rung,
      turns |-> IF up \/ down THEN 0 ELSE turns + 1,
      low   |-> IF Calm(s) THEN low + 1 ELSE 0]

-----------------------------------------------------------------------------
(* Cooldowns *)

COOLDOWN_TURNS == 2
COUNTER_CAP == 999

AllowsIntervention(since) == since >= COOLDOWN_TURNS

ComputeNext(since, fired) ==
  IF fired THEN 0 ELSE IF since < COUNTER_CAP THEN since + 1 ELSE COUNTER_CAP
=============================================================================
