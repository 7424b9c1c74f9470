-------------------------- MODULE QuestionSelection --------------------------
(***************************************************************************)
(* Which question a turn plans (src/policy/questions/, the selection in    *)
(* PolicyEngine.evaluate and ElicitAttemptRule), and the memory of the     *)
(* ones asked: recent_question_ids of a connection (src/api/session.py)    *)
(* and the snapshot a later connection resumes from                        *)
(* (src/policy/persistence.py).                                            *)
(*                                                                         *)
(* One session.  Phase, scores and signals of a turn are any: PolicyStages *)
(* has how they come about.  Wordings are left out: the code always takes  *)
(* the first.                                                              *)
(***************************************************************************)
EXTENDS Integers, FiniteSets, Sequences

CONSTANTS
  Conn,       \* connections of the student, one after the other or at once
  Phases,     \* bound: the phases turns are in
  MaxTurns,   \* bound: turns that run to their end
  Fault,      \* bound: which of "persist", "late", "crash" happen, once each: the commit of a
              \* turn fails, that of a connection that has ended, the process dies
  MaxFaults   \* bound: how many of them happen

Phase == {"PLANNING", "MONITORING", "EVALUATION"}

ASSUME PhasesAssumption == Phases \subseteq Phase
ASSUME BoundsAssumption == MaxTurns \in Nat /\ MaxFaults \in Nat /\ Fault \subseteq {"persist", "late", "crash"}

-----------------------------------------------------------------------------
(* The bank.  q: neutral or supportive; hard: tone "challenging"; tried: requires_attempt *)
Row(id, family, phase, hard, tried) ==
  [id |-> id, family |-> family, phase |-> phase, hard |-> hard, tried |-> tried]
Plain(ids, family, phase) == [i \in DOMAIN ids |-> Row(ids[i], family, phase, FALSE, FALSE)]
Tried(ids, family, phase) == [i \in DOMAIN ids |-> Row(ids[i], family, phase, FALSE, TRUE)]

PLANNING_BANK ==
  Plain(<<"goal_01", "goal_02", "goal_03">>, "GOAL_CLARIFICATION", "PLANNING")
  \o Plain(<<"strat_01", "strat_02">>, "STRATEGY_REVISION", "PLANNING")
  \o Plain(<<"elicit_01", "elicit_02", "elicit_03", "elicit_04", "elicit_05">>, "ATTEMPT_ELICITATION", "PLANNING")

MONITORING_BANK ==
  Tried(<<"explain_01", "explain_02">>, "SELF_EXPLANATION", "MONITORING")
  \o Plain(<<"explain_03">>, "SELF_EXPLANATION", "MONITORING")
  \o <<Row("calib_01", "CALIBRATION", "MONITORING", TRUE, FALSE),
       Row("calib_02", "CALIBRATION", "MONITORING", FALSE, FALSE),
       Row("discrep_01", "DISCREPANCY_DETECTION", "MONITORING", TRUE, TRUE),
       Row("discrep_02", "DISCREPANCY_DETECTION", "MONITORING", TRUE, FALSE)>>
  \o Plain(<<"check_01", "check_02", "check_03">>, "MONITORING_CHECK", "MONITORING")
  \o Tried(<<"strat_03">>, "STRATEGY_REVISION", "MONITORING")

EVALUATION_BANK ==
  Plain(<<"attrib_01", "attrib_02">>, "REATTRIBUTION", "EVALUATION")
  \o Plain(<<"transfer_01", "transfer_02">>, "TRANSFER", "EVALUATION")
  \o Plain(<<"reflect_01", "reflect_02", "reflect_03">>, "SELF_EXPLANATION", "EVALUATION")
  \o Plain(<<"calib_eval_01">>, "CALIBRATION", "EVALUATION")

RECOVERY_BANK ==
  Plain(<<"recover_01">>, "RECOVERY_STABILIZE", "PLANNING")
  \o Plain(<<"recover_02">>, "RECOVERY_STABILIZE", "MONITORING")

BANK == PLANNING_BANK \o MONITORING_BANK \o EVALUATION_BANK \o RECOVERY_BANK

Questions == {BANK[i] : i \in DOMAIN BANK}
Id == {q.id : q \in Questions}
Family == {"GOAL_CLARIFICATION", "STRATEGY_REVISION", "ATTEMPT_ELICITATION", "SELF_EXPLANATION", "CALIBRATION",
           "DISCREPANCY_DETECTION", "MONITORING_CHECK", "REATTRIBUTION", "TRANSFER", "RECOVERY_STABILIZE"}

(* Lists of questions are sets of places in the bank, whose order they all have *)
by_state == [p \in Phase |-> {i \in DOMAIN BANK : BANK[i].phase = p}]
by_family == [f \in Family |-> {i \in DOMAIN BANK : BANK[i].family = f}]
by_state_and_family(p, f) == by_state[p] \cap by_family[f]

-----------------------------------------------------------------------------
(* What the scores say, the first that applies: affect_load, miscalibration, struggle *)
Mood == {"overloaded", "miscalibrated", "struggling", "neutral"}

family_preference(phase, mood) ==
  CASE phase = "PLANNING" /\ mood = "overloaded" ->
         <<"GOAL_CLARIFICATION", "ATTEMPT_ELICITATION", "STRATEGY_REVISION">>
    [] phase = "PLANNING" /\ mood \in {"miscalibrated", "struggling"} ->
         <<"STRATEGY_REVISION", "GOAL_CLARIFICATION">>
    [] phase = "PLANNING" /\ mood = "neutral" ->
         <<"GOAL_CLARIFICATION", "STRATEGY_REVISION">>
    [] phase = "MONITORING" /\ mood = "overloaded" ->
         <<"MONITORING_CHECK", "SELF_EXPLANATION">>
    [] phase = "MONITORING" /\ mood = "miscalibrated" ->
         <<"CALIBRATION", "DISCREPANCY_DETECTION", "SELF_EXPLANATION">>
    [] phase = "MONITORING" /\ mood = "struggling" ->
         <<"SELF_EXPLANATION", "STRATEGY_REVISION", "DISCREPANCY_DETECTION">>
    [] phase = "MONITORING" /\ mood = "neutral" ->
         <<"MONITORING_CHECK", "SELF_EXPLANATION", "CALIBRATION">>
    [] phase = "EVALUATION" /\ mood = "overloaded" -> <<"SELF_EXPLANATION", "REATTRIBUTION">>
    [] phase = "EVALUATION" /\ mood = "miscalibrated" -> <<"CALIBRATION", "REATTRIBUTION">>
    [] phase = "EVALUATION" /\ mood = "struggling" -> <<"REATTRIBUTION", "SELF_EXPLANATION">>
    [] phase = "EVALUATION" /\ mood = "neutral" -> <<"SELF_EXPLANATION", "REATTRIBUTION", "TRANSFER">>

_meets_attempt_constraint(q, attempt) == q.tried => attempt

Least(S) == CHOOSE i \in S : \A j \in S : i <= j
First(places) == BANK[Least(places)]

Fresh(places, asked, attempt) ==
  {i \in places : BANK[i].id \notin asked /\ _meets_attempt_constraint(BANK[i], attempt)}

(* The first of the candidates that may be asked, or else the one given *)
FirstFresh(places, asked, attempt, otherwise) ==
  LET fresh == Fresh(places, asked, attempt)
  IN IF fresh = {} THEN otherwise ELSE First(fresh)

(* Pass 1: the families in order of preference, question by question *)
FirstPreferred(phase, mood, asked, attempt, otherwise) ==
  LET families == family_preference(phase, mood)
      fresh == [k \in DOMAIN families |-> Fresh(by_state_and_family(phase, families[k]), asked, attempt)]
      some == {k \in DOMAIN families : fresh[k] # {}}
  IN IF some = {} THEN otherwise ELSE First(fresh[Least(some)])

(* Slip: without pass 2 *)
select_question_brief(phase, mood, attempt, asked) ==
  FirstPreferred(phase, mood, asked, attempt, First(by_state[phase]))

(* Slip: pass 2 does not look at the attempt *)
select_question_bold(phase, mood, attempt, asked) ==
  FirstPreferred(phase, mood, asked, attempt,
    FirstFresh(by_state[phase], asked, TRUE, First(by_state[phase])))

(* Pass 2: anything in the phase; pass 3, when all has been asked: the first in the phase *)
select_question(phase, mood, attempt, asked) ==
  FirstPreferred(phase, mood, asked, attempt,
    FirstFresh(by_state[phase], asked, attempt, First(by_state[phase])))

(* force_family: whatever the phase; with everything asked, its first *)
select_forced(family, attempt, asked) ==
  FirstFresh(by_family[family], asked, attempt, First(by_family[family]))

(* _select_attempt_question: requires_attempt does not matter *)
select_attempt_question(asked) ==
  FirstFresh(by_family["ATTEMPT_ELICITATION"], asked, TRUE, First(by_family["ATTEMPT_ELICITATION"]))

(***************************************************************************)
(* A turn: ordinary, in recovery, or one that demands the answer without   *)
(* an attempt, whose rule has the last word on the question.  The pivot    *)
(* replaces only the text of what was selected, and is as if it had not.   *)
(***************************************************************************)
Turn ==
  [kind : {"ordinary"}, phase : Phases, mood : Mood, attempt : BOOLEAN]
  \cup [kind : {"stabilize"}, attempt : BOOLEAN]
  \cup {[kind |-> "demand"]}

Planned(t, asked) ==
  CASE t.kind = "ordinary" -> select_question(t.phase, t.mood, t.attempt, asked)
    [] t.kind = "stabilize" -> select_forced("RECOVERY_STABILIZE", t.attempt, asked)
    [] t.kind = "demand" -> select_attempt_question(asked)

-----------------------------------------------------------------------------
VARIABLES
  open,       \* connections whose handler runs
  lingering,  \* those that ended while a turn of theirs, which nobody awaits, was past its last check
  asked,      \* recent_question_ids of each
  saving,     \* what a turn of each is about to commit
  snapshot,   \* policy_state of the session row
  told,       \* history: questions of all turns that ran to their end
  turns,
  happened

vars == <<open, lingering, asked, saving, snapshot, told, turns, happened>>

Nothing == {"nothing"}
Resumable == snapshot # Nothing
Forgotten(c) == [asked EXCEPT ![c] = {}]
Happens(f) == f \in Fault \ happened /\ Cardinality(happened) < MaxFaults /\ happened' = happened \cup {f}

(* Slip: resumed without the questions *)
EnterForgetful(c) ==
  /\ c \notin open \cup lingering /\ saving[c] = Nothing /\ Resumable
  /\ open' = open \cup {c}
  /\ asked' = [asked EXCEPT ![c] = {}]
  /\ UNCHANGED <<lingering, saving, snapshot, told, turns, happened>>

(* The session is resumed, and the snapshot applied *)
Enter(c) ==
  /\ c \notin open \cup lingering /\ saving[c] = Nothing /\ Resumable
  /\ open' = open \cup {c}
  /\ asked' = [asked EXCEPT ![c] = snapshot]
  /\ UNCHANGED <<lingering, saving, snapshot, told, turns, happened>>

(* Slip: a turn that outlives its connection does not end with its question *)
RecordForEver(c, t) ==
  /\ c \in open \cup lingering /\ saving[c] = Nothing /\ turns < MaxTurns
  /\ LET q == Planned(t, asked[c]).id
     IN /\ asked' = [asked EXCEPT ![c] = @ \cup {q}]
        /\ told' = told \cup {q}
        /\ saving' = [saving EXCEPT ![c] = asked'[c]]
  /\ turns' = turns + 1
  /\ UNCHANGED <<open, lingering, snapshot, happened>>

(* A turn reaches Step 5, if need be after its connection; one that does not leaves no trace *)
Record(c, t) ==
  /\ c \in open \cup lingering /\ saving[c] = Nothing /\ turns < MaxTurns
  /\ LET q == Planned(t, asked[c]).id
     IN /\ asked' = [asked EXCEPT ![c] = @ \cup {q}]
        /\ told' = told \cup {q}
        /\ saving' = [saving EXCEPT ![c] = asked'[c]]
  /\ turns' = turns + 1
  /\ lingering' = lingering \ {c}
  /\ UNCHANGED <<open, snapshot, happened>>

(* _persist_policy_state commits, or fails and is forgiven *)
Persist(c) ==
  /\ saving[c] # Nothing
  /\ \/ snapshot' = saving[c] /\ UNCHANGED happened
     \/ Happens(IF c \in open THEN "persist" ELSE "late") /\ UNCHANGED snapshot
  /\ saving' = [saving EXCEPT ![c] = Nothing]
  /\ asked' = IF c \in open THEN asked ELSE Forgotten(c)
  /\ UNCHANGED <<open, lingering, told, turns>>

(* Slip: the wrap-up leaves the snapshot to the turns *)
WrapUpUnsaved(c) ==
  /\ c \in open
  /\ open' = open \ {c}
  /\ saving' = [saving EXCEPT ![c] = Nothing]
  /\ asked' = Forgotten(c)
  /\ UNCHANGED <<lingering, snapshot, told, turns, happened>>

(***************************************************************************)
(* The connection ends, any time after its student left.  The turn under   *)
(* way is cancelled, when the end was an idle timeout, or, when it was a   *)
(* disconnect, goes on.  _wrap_up_session writes the memory as it is; a    *)
(* commit of its own that fails is logged.                                 *)
(***************************************************************************)
WrapUp(c) ==
  /\ c \in open
  /\ open' = open \ {c}
  /\ \/ snapshot' = asked[c] /\ UNCHANGED happened
     \/ Happens("late") /\ UNCHANGED snapshot
  /\ \/ saving' = [saving EXCEPT ![c] = Nothing] /\ asked' = Forgotten(c) /\ UNCHANGED lingering
     \/ saving[c] # Nothing /\ UNCHANGED <<saving, asked, lingering>>
     \/ saving[c] = Nothing /\ lingering' = lingering \cup {c} /\ UNCHANGED <<saving, asked>>
  /\ UNCHANGED <<told, turns>>

(* A turn that went on ends without reaching Step 5 *)
Expire(c) ==
  /\ c \in lingering
  /\ lingering' = lingering \ {c}
  /\ asked' = Forgotten(c)
  /\ UNCHANGED <<open, saving, snapshot, told, turns, happened>>

(* The process dies *)
Crash ==
  /\ Happens("crash")
  /\ open' = {} /\ lingering' = {}
  /\ asked' = [c \in Conn |-> {}]
  /\ saving' = [c \in Conn |-> Nothing]
  /\ UNCHANGED <<snapshot, told, turns>>

(* A connection that has just made the session *)
Init ==
  /\ (\E c \in Conn : open = {c}) /\ lingering = {}
  /\ asked = [c \in Conn |-> {}]
  /\ saving = [c \in Conn |-> Nothing]
  /\ snapshot = Nothing
  /\ told = {} /\ turns = 0 /\ happened = {}

Next ==
  \/ \E c \in Conn : Enter(c) \/ Persist(c) \/ WrapUp(c) \/ Expire(c) \/ \E t \in Turn : Record(c, t)
  \/ Crash

Spec == Init /\ [][Next]_vars

-----------------------------------------------------------------------------
TypeOK ==
  /\ open \subseteq Conn
  /\ lingering \subseteq Conn \ open
  /\ \A c \in lingering : saving[c] = Nothing
  /\ asked \in [Conn -> SUBSET Id] /\ saving \in [Conn -> {Nothing} \cup SUBSET Id]
  /\ snapshot \in {Nothing} \cup SUBSET Id
  /\ told \subseteq Id /\ turns \in 0 .. MaxTurns /\ happened \subseteq Fault

(* What a turn could still ask, by definition rather than by the order of the passes *)
Fitting ==
  [t \in Turn |-> {q \in Questions :
     CASE t.kind = "ordinary" -> q.phase = t.phase /\ (q.tried => t.attempt)
       [] t.kind = "stabilize" -> q.family = "RECOVERY_STABILIZE"
       [] t.kind = "demand" -> q.family = "ATTEMPT_ELICITATION"}]
Left(t, c) == {q \in Fitting[t] : q.id \notin asked[c]}

(***************************************************************************)
(* Whatever a connection remembers, no turn plans a question it has asked  *)
(* before while one that fits the turn is left (selector.py, passes 1 and  *)
(* 2; elicit_attempt.py).                                                  *)
(***************************************************************************)
NoNeedlessRepeat ==
  \A c \in open, t \in Turn : Left(t, c) # {} => Planned(t, asked[c]) \in Left(t, c)

(***************************************************************************)
(* A question about the student's attempt goes to a student who has shown  *)
(* none only when nothing else is left in the phase (bank.py, "only fire   *)
(* when attempt_present", and pass 3, which does not look); and an         *)
(* overloaded student is challenged only when the gentle families of the   *)
(* phase are used up (selector.py, "prefer simpler / validating            *)
(* families").                                                             *)
(***************************************************************************)
QuestionFits ==
  \A c \in open, t \in {u \in Turn : u.kind # "demand"} :
    /\ Planned(t, asked[c]).tried /\ ~t.attempt => Left(t, c) = {}
    /\ t.kind = "ordinary" /\ t.mood = "overloaded" /\ Planned(t, asked[c]).hard
         => \A q \in Left(t, c) : q.family \notin {"MONITORING_CHECK", "SELF_EXPLANATION"}

(***************************************************************************)
(* When no connection is left and no turn, the snapshot holds every        *)
(* question of the session: a commit that failed is made good by the next  *)
(* turn or the wrap-up, and a turn that outlives its connection still      *)
(* commits after it (_wrap_up_session, "Always snapshot policy_state so a  *)
(* future resume rehydrates cross-turn state").  True of connections one   *)
(* after the other.                                                        *)
(***************************************************************************)
Quiet == open \cup lingering = {} /\ \A c \in Conn : saving[c] = Nothing
Remembered == Quiet /\ happened \subseteq {"persist"} => told \subseteq snapshot

(***************************************************************************)
(* Each failed commit, and the death of the process, costs a connection    *)
(* that resumes the session at most one question.                          *)
(***************************************************************************)
FailureForgetsLittle ==
  [][\A c \in Conn : c \in open' \ open => Cardinality(told \ asked'[c]) <= Cardinality(happened)]_vars
=============================================================================
