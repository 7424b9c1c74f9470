---------------------------- MODULE PolicyEngine ----------------------------
(***************************************************************************)
(* The tutoring policy of one conversation: PolicyEngine.evaluate          *)
(* (src/policy/engine.py) and the cross-turn state that                    *)
(* ChatSession._process_turn (src/api/session.py) keeps for it.            *)
(*                                                                         *)
(* A turn evaluates the policy and appends its signals to the rolling      *)
(* window before the answer is streamed; the decision reaches the          *)
(* cross-turn state only when the turn runs to its end.  A turn that is    *)
(* interrupted, cancelled by a barge-in, or fails is Abandoned: its        *)
(* signals stay in the window and the decision is dropped.                 *)
(*                                                                         *)
(* A behaviour is a conversation over the connections that resume it, one  *)
(* after the other.  What a turn stores counts from its end on; ChatTurn   *)
(* has when the rows of an abandoned generator really come.                *)
(***************************************************************************)
EXTENDS PolicyStages

CONSTANTS
  Signals,       \* the signals a student message may carry
  WindowCap,     \* length of the rolling window (10 in the code)
  MaxTurns,      \* bound: turns in a behaviour
  MaxMissing,    \* bound: rows a conversation may lack of two per turn
  MayAbandon     \* whether turns may be abandoned midway

ASSUME SignalsAssumption == Signals \subseteq UserSignals
ASSUME WindowCapAssumption == WindowCap \in Nat \ {0}
ASSUME MaxTurnsAssumption == MaxTurns \in Nat
ASSUME MaxMissingAssumption == MaxMissing \in Nat
ASSUME MayAbandonAssumption == MayAbandon \in BOOLEAN

VARIABLES
  fsm,              \* _fsm_state
  hint,             \* _hint_state
  turnsInHint,      \* _turns_in_hint_state
  lowStreak,        \* _consecutive_low_struggle_turns
  recovery,         \* _recovery_state
  turnsInRecovery,  \* _turns_in_recovery
  sinceMeta,        \* _turns_since_meta_feedback
  sinceUnblock,     \* _turns_since_procedural_unblock
  window,           \* _signals_window, most recent last
  rows,             \* messages of this conversation in chat_messages
  answered,         \* one of them is the model's (has_model_history)
  greeting,         \* the connection is still to greet (_needs_greeting, until the greeting is over)
  plan,             \* plan of the last evaluated turn
  (* history of the conversation, read by the properties only *)
  evals,            \* turns so far, greetings included
  heard,            \* turns so far that the student wrote
  effort,           \* productive turns since the ladder left PROCESS_FEEDBACK
  climb,            \* turns since the ladder left PROCESS_FEEDBACK
  withheld,         \* turns in a row past CLOSURE_MIN_TURNS without closure
  affected          \* completed turns that were high-affect

ladderVars == <<hint, turnsInHint, lowStreak>>
policyVars == <<fsm, ladderVars, recovery, turnsInRecovery, sinceMeta, sinceUnblock>>
historyVars == <<effort, climb, withheld, affected>>
chatVars == <<rows, answered, greeting>>
vars == <<policyVars, window, chatVars, plan, evals, heard, historyVars>>

HISTORY_LIMIT == 50
CLOSURE_MIN_TURNS == 4
UNBLOCK_FIRE_THRESHOLD == 4500
UNBLOCK_COOLDOWN_TURNS == 2
AFFECT_LOAD_SUPPORTIVE == 6000
MISCALIBRATION_CHALLENGING == 6000
HEDGING_CONFIDENT == 20

(* Slip: the rows are counted and not the pairs *)
TurnCountRows == IF rows > HISTORY_LIMIT THEN HISTORY_LIMIT ELSE rows

(* len(history) // 2, history being the newest HISTORY_LIMIT rows *)
TurnCount == (IF rows > HISTORY_LIMIT THEN HISTORY_LIMIT ELSE rows) \div 2

-----------------------------------------------------------------------------
(***************************************************************************)
(* The rules.  Each maps the plan it is given to the plan it leaves; the   *)
(* directives are kept as a set of tags, the question as its origin.       *)
(***************************************************************************)
Question == {"planned", "recovery", "elicit", "placeholder"}
Directive == {"elicit", "no_direct", "hint", "tone", "pivot", "closure", "close_now"}
\* "own" is the tone of the chosen question
Tone == {"own", "supportive", "challenging"}
Plan == [question : Question, tone : Tone, forbid : BOOLEAN, mustElicit : BOOLEAN,
         directives : SUBSET Directive, closure : BOOLEAN]

(* QuestionPlan as selection leaves it: recovery forces its question family *)
SelectedPlan(next) ==
  [question |-> IF next = "STABILIZE" THEN "recovery" ELSE "planned",
   tone |-> "own", forbid |-> TRUE, mustElicit |-> FALSE,
   directives |-> {}, closure |-> FALSE]

ElicitAttempt(p, s) ==
  IF s.dar /\ ~s.attempt
  THEN [p EXCEPT !.question = "elicit", !.tone = "own", !.mustElicit = TRUE,
                 !.forbid = TRUE, !.directives = @ \cup {"elicit"}]
  ELSE p

NoDirectAnswers(p, s) ==
  IF s.dar THEN [p EXCEPT !.forbid = TRUE, !.directives = @ \cup {"no_direct"}] ELSE p

HintLadder(p, rung) ==
  [p EXCEPT !.directives = @ \cup {"hint"},
            !.forbid = IF rung = "BOTTOM_OUT" THEN FALSE ELSE @]

ToneFor(s) ==
  IF AffectLoad(s) > AFFECT_LOAD_SUPPORTIVE THEN "supportive"
  ELSE IF Miscalibration(s) > MISCALIBRATION_CHALLENGING /\ s.hedging < HEDGING_CONFIDENT
       THEN "challenging" ELSE "own"

ToneFires(s) == AllowsIntervention(sinceMeta) /\ ToneFor(s) # "own"

ToneByConfidence(p, s) ==
  IF ToneFires(s)
  THEN [p EXCEPT !.tone = ToneFor(s), !.directives = @ \cup {"tone"}] ELSE p

UnblockFires(s) ==
  /\ ProceduralBlockAbove(window, s, UNBLOCK_FIRE_THRESHOLD)
  /\ sinceUnblock >= UNBLOCK_COOLDOWN_TURNS

ProceduralUnblock(p, s) ==
  IF UnblockFires(s)
  THEN [p EXCEPT !.directives = {"pivot"}, !.forbid = FALSE, !.mustElicit = FALSE,
                 !.question = "placeholder"]
  ELSE p

ClosureEligible(nextFsm, nextRecovery) ==
  /\ TurnCount >= CLOSURE_MIN_TURNS
  /\ nextFsm \in {"MONITORING", "EVALUATION"}
  /\ nextRecovery = "NORMAL"

ClosureEscalated(s) ==
  s.done \/ \E i \in DOMAIN LastN(window, 2) : LastN(window, 2)[i].done

ClosureDirective(p, eligible, s) ==
  [p EXCEPT !.closure = eligible,
            !.directives = @ \cup (IF ~eligible THEN {}
                                   ELSE IF ClosureEscalated(s) THEN {"close_now"}
                                   ELSE {"closure"})]

-----------------------------------------------------------------------------
(***************************************************************************)
(* PolicyEngine.evaluate: the stages in their order, and the decision the  *)
(* session applies when the turn completes.                                *)
(***************************************************************************)
NextRecovery(s) == RecoveryNext(recovery, turnsInRecovery, window, s)

(* paused while next_recovery is STABILIZE *)
NextFsm(s) ==
  IF NextRecovery(s).state = "STABILIZE" THEN fsm ELSE Transition(fsm, TurnCount, s)

NextHint(s) == NextStep(hint, turnsInHint, lowStreak, s, NextRecovery(s).state)

PlanFor(s) ==
  LET p1 == ElicitAttempt(SelectedPlan(NextRecovery(s).state), s)
      p2 == NoDirectAnswers(p1, s)
      p3 == HintLadder(p2, NextHint(s).rung)
      p4 == ToneByConfidence(p3, s)
      p5 == ProceduralUnblock(p4, s)
  IN ClosureDirective(p5, ClosureEligible(NextFsm(s), NextRecovery(s).state), s)

(* Slip: the window is never trimmed *)
EvaluateTurnUntrimmed(s) ==
  /\ evals < MaxTurns
  /\ evals' = evals + 1
  /\ plan' = PlanFor(s)
  /\ window' = Append(window, s)

(* Steps 1 and 2 of _process_turn, common to every evaluated turn *)
EvaluateTurn(s) ==
  /\ evals < MaxTurns
  /\ evals' = evals + 1
  /\ plan' = PlanFor(s)
  /\ window' = LastN(Append(window, s), WindowCap)

(* Step 5: the decision becomes the cross-turn state *)
ApplyDecision(s) ==
  /\ fsm' = NextFsm(s)
  /\ hint' = NextHint(s).rung
  /\ turnsInHint' = NextHint(s).turns
  /\ lowStreak' = NextHint(s).low
  /\ recovery' = NextRecovery(s).state
  /\ turnsInRecovery' = NextRecovery(s).turns
  /\ sinceMeta' = ComputeNext(sinceMeta, ToneFires(s))
  /\ sinceUnblock' = ComputeNext(sinceUnblock, UnblockFires(s))

RecordHistory(s) ==
  LET climbing == hint' # "PROCESS_FEEDBACK"
  IN /\ effort' = IF ~climbing THEN 0 ELSE IF Productive(s) THEN effort + 1 ELSE effort
     /\ climb' = IF ~climbing THEN 0 ELSE climb + 1
     /\ withheld' = IF TurnCount < CLOSURE_MIN_TURNS \/ plan'.closure
                    THEN 0 ELSE withheld + 1
     /\ affected' = IF AffectLoad(s) > AFFECT_TURN_THRESHOLD THEN affected + 1 ELSE affected

-----------------------------------------------------------------------------
(***************************************************************************)
(* The rows a turn leaves.  A user row, unless an interruption keeps it    *)
(* back; a model row, unless the model gave no chunk or the insert failed, *)
(* which is only logged; and the partial answer once more when the turn is *)
(* cancelled, by a barge-in or with the handler, and the agent and the     *)
(* session both save it.                                                   *)
(***************************************************************************)
RowsPerTurn == IF MayAbandon THEN 3 ELSE 2

Stores(stored) ==
  /\ rows' = rows + stored
  /\ rows + stored + MaxMissing >= 2 * (evals + 1)

(* The greeting has no user row *)
GreetingStores(stored) ==
  /\ greeting /\ greeting' = FALSE
  /\ stored < RowsPerTurn /\ Stores(stored)
  /\ answered' = (answered \/ stored > 0)
  /\ UNCHANGED heard

(* Two rows have one of the model among them; one is the student's or the partial answer *)
MessageStores(stored) ==
  /\ ~greeting /\ UNCHANGED greeting
  /\ Stores(stored)
  /\ answered' \in IF stored = 1 THEN {answered, TRUE} ELSE {answered \/ stored > 1}
  /\ heard' = heard + 1

-----------------------------------------------------------------------------
(* The greeting: _process_turn("") runs before the loop *)
Greet(stored) ==
  /\ GreetingStores(stored)
  /\ EvaluateTurn(GreetingSignals)
  /\ ApplyDecision(GreetingSignals)
  /\ RecordHistory(GreetingSignals)

(* A student turn that gets to Step 5, whatever happens to its done frame: the user row is there *)
CompleteTurn(s, stored) ==
  /\ stored > 0 /\ MessageStores(stored)
  /\ stored = 1 => UNCHANGED answered
  /\ EvaluateTurn(s)
  /\ ApplyDecision(s)
  /\ RecordHistory(s)

(* The model fails on the greeting, or the client is gone *)
AbandonGreeting(stored) ==
  /\ MayAbandon
  /\ GreetingStores(stored)
  /\ EvaluateTurn(GreetingSignals)
  /\ UNCHANGED <<policyVars, historyVars>>

(* A student turn that stops before Step 5 *)
AbandonTurn(s, stored) ==
  /\ MayAbandon
  /\ MessageStores(stored)
  /\ EvaluateTurn(s)
  /\ UNCHANGED <<policyVars, historyVars>>

(***************************************************************************)
(* The history could not be loaded: the turn is answered without a policy, *)
(* and with nothing evaluated the window does not move.                    *)
(***************************************************************************)
DegradedTurn(stored) ==
  /\ MayAbandon
  /\ GreetingStores(stored) \/ MessageStores(stored)
  /\ evals < MaxTurns
  /\ evals' = evals + 1
  /\ UNCHANGED <<policyVars, historyVars, window, plan>>

(* A later connection gets the policy state back, and greets unless a model row is there *)
Resume ==
  /\ ~greeting /\ ~answered
  /\ greeting' = TRUE
  /\ UNCHANGED <<policyVars, historyVars, window, plan, evals, heard, rows, answered>>

Init ==
  /\ fsm = "PLANNING"
  /\ hint = "PROCESS_FEEDBACK" /\ turnsInHint = 0 /\ lowStreak = 0
  /\ recovery = "NORMAL" /\ turnsInRecovery = 0
  /\ sinceMeta = 99 /\ sinceUnblock = 99
  /\ window = <<>> /\ rows = 0 /\ answered = FALSE /\ greeting = TRUE
  /\ plan = SelectedPlan("NORMAL")
  /\ evals = 0 /\ heard = 0 /\ effort = 0 /\ climb = 0 /\ withheld = 0 /\ affected = 0

Next ==
  \/ Resume
  \/ \E stored \in 0 .. RowsPerTurn :
       \/ Greet(stored) \/ AbandonGreeting(stored) \/ DegradedTurn(stored)
       \/ \E s \in Signals : CompleteTurn(s, stored) \/ AbandonTurn(s, stored)

Spec == Init /\ [][Next]_vars

-----------------------------------------------------------------------------
TypeOK ==
  /\ fsm \in Phase /\ hint \in Rung /\ recovery \in Recovery
  /\ turnsInHint \in Nat /\ lowStreak \in Nat /\ turnsInRecovery \in Nat
  /\ sinceMeta \in 0 .. COUNTER_CAP /\ sinceUnblock \in 0 .. COUNTER_CAP
  /\ window \in Seq(UserSignals) /\ Len(window) <= WindowCap
  /\ rows \in Nat /\ answered \in BOOLEAN /\ greeting \in BOOLEAN /\ plan \in Plan
  /\ evals \in 0 .. MaxTurns /\ heard \in Nat /\ effort \in Nat /\ climb \in Nat
  /\ withheld \in Nat /\ affected \in Nat

(***************************************************************************)
(* The near-answer rung is earned: it takes three productive turns and at  *)
(* least six turns off the bottom rung, however recovery, calm turns and   *)
(* abandoned turns are mixed in (hint_ladder.py, "never as a first move"). *)
(***************************************************************************)
BottomOutEarned ==
  hint = "BOTTOM_OUT" => effort >= 3 /\ climb >= MIN_TURNS_AT_FOCUSED + 3

(***************************************************************************)
(* The prompt never lifts the direct-answer guardrail for a learner who    *)
(* has not climbed to the rung below the last, unless the pivot is handing *)
(* off a prerequisite.  It relates what a turn was told to the history of  *)
(* the completed turns, which an abandoned turn does not extend.           *)
(***************************************************************************)
GuardrailEarned ==
  ~plan.forbid => \/ plan.question = "placeholder"
                  \/ effort >= 2 /\ climb >= MIN_TURNS_AT_FOCUSED + 2

(***************************************************************************)
(* Recovery is a bounded excursion: three turns at most, and its counter   *)
(* is zero exactly outside it (recovery.py, _MAX_RECOVERY_TURNS).          *)
(***************************************************************************)
RecoveryBounded ==
  IF recovery = "STABILIZE" THEN turnsInRecovery \in 1 .. MAX_RECOVERY_TURNS - 1
                            ELSE turnsInRecovery = 0

(***************************************************************************)
(* No learner is locked out of closing: once past CLOSURE_MIN_TURNS, no    *)
(* more than two full recoveries and one re-planning turn in a row keep    *)
(* the closure directive out of the prompt, whatever the student sends.    *)
(***************************************************************************)
ClosureNotStarved == withheld <= 2 * (MAX_RECOVERY_TURNS - 1) + 1

(***************************************************************************)
(* The phase is backed by what the student wrote, though turn_count counts *)
(* rows and not turns: EVALUATION, the phase of reflecting on a finished   *)
(* attempt, takes five messages and MONITORING three when no turn is cut   *)
(* off, and three and two however many rows cut-off turns and repeated     *)
(* greetings leave; and never fewer rows than the phase machine asks for   *)
(* (fsm.py, "until the student has spent at least this many total turns"). *)
(***************************************************************************)
PhaseBackedByTurns ==
  /\ fsm = "EVALUATION" => /\ RowsPerTurn * heard > 2 * MIN_TURNS_BEFORE_ACCEL
                           /\ TurnCount >= MIN_TURNS_BEFORE_ACCEL
  /\ fsm = "MONITORING" => /\ RowsPerTurn * heard > 2 * PLANNING_TO_MONITORING_TURN
                           /\ TurnCount >= PLANNING_TO_MONITORING_TURN

(***************************************************************************)
(* A turn that ends in recovery neither changes the phase nor the rung: in *)
(* particular it never reaches BOTTOM_OUT (recovery.py, "While in          *)
(* STABILIZE, the engine").                                                *)
(***************************************************************************)
RecoveryFreezes ==
  [][recovery' = "STABILIZE" => UNCHANGED <<fsm, hint>>]_vars

(***************************************************************************)
(* Recovery needs three high-affect turns that ran to their end, the two   *)
(* of the window and this one (recovery.py, _MIN_AFFECT_TURNS_IN_WINDOW).  *)
(***************************************************************************)
RecoveryConverges ==
  recovery = "STABILIZE" => affected >= MIN_AFFECT_TURNS_IN_WINDOW + 1
=============================================================================
