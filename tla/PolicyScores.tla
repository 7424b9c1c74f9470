---------------------------- MODULE PolicyScores ----------------------------
(***************************************************************************)
(* The signals of one turn and the scores the policy derives from them     *)
(* (src/policy/signals/, src/policy/scores.py).                            *)
(*                                                                         *)
(* A signal value is a percentage, 0 .. 100; a score is in units of        *)
(* 1/10000, so that the weighted sums of the code are exact integers.      *)
(***************************************************************************)
EXTENDS Integers, Sequences, FiniteSets

Percent == 0 .. 100

(***************************************************************************)
(* UserSignals, reduced to what the policy reads.  slow is latency_z / 2   *)
(* clamped to [0, 1]; short is length_z <= -1; dar is                      *)
(* direct_answer_request.                                                  *)
(***************************************************************************)
UserSignals ==
  [hedging : Percent, confusion : Percent, slow : Percent, short : BOOLEAN,
   attempt : BOOLEAN, dar : BOOLEAN, proc : BOOLEAN, done : BOOLEAN]

(***************************************************************************)
(* What the extractors return for the empty text of the greeting turn: no  *)
(* signal at all, but attempt_present is TRUE for the empty string.        *)
(***************************************************************************)
GreetingSignals ==
  [hedging |-> 0, confusion |-> 0, slow |-> 0, short |-> FALSE,
   attempt |-> TRUE, dar |-> FALSE, proc |-> FALSE, done |-> FALSE]

(* The Python slice w[-n:] *)
LastN(w, n) == IF Len(w) <= n THEN w ELSE SubSeq(w, Len(w) - n + 1, Len(w))

HEDGING_LOW == 10
PROCEDURAL_BLOCK_WINDOW == 4
NO_PRIOR_ATTEMPT_DAMPENER == 30

Struggle(s) ==
  35 * s.hedging + 25 * s.confusion + 20 * s.slow + (IF s.short THEN 2000 ELSE 0)

AffectLoad(s) == 60 * s.confusion + 40 * s.hedging

Miscalibration(s) ==
  IF ~(s.hedging < HEDGING_LOW /\ s.dar) THEN 0
  ELSE IF s.attempt THEN 5000 ELSE 10000

(* any(s.attempt_present for s in window): the turns before this one *)
PriorAttempt(window) == \E i \in DOMAIN window : window[i].attempt

(***************************************************************************)
(* procedural_block is gate * (0.7 * proc_rate + 0.3 * dar_rate), rates    *)
(* over the last turns and this one.  The rates are fractions of Len, so   *)
(* the comparison procedural_block > t is cleared of its division.         *)
(***************************************************************************)
ProceduralBlockAbove(window, s, t) ==
  LET recent == Append(LastN(window, PROCEDURAL_BLOCK_WINDOW - 1), s)
      nProc == Cardinality({i \in DOMAIN recent : recent[i].proc})
      nDar  == Cardinality({i \in DOMAIN recent : recent[i].dar})
      gate  == IF PriorAttempt(window) THEN 100 ELSE NO_PRIOR_ATTEMPT_DAMPENER
  IN gate * (70 * nProc + 30 * nDar) > t * Len(recent)
=============================================================================
