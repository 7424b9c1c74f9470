------------------------- MODULE PolicyEngineProofs -------------------------
(***************************************************************************)
(* What PolicyEngine guarantees for every set of signals, window length    *)
(* and number of turns, with and without abandoned turns.                  *)
(***************************************************************************)
EXTENDS PolicyEngine, SequenceTheorems, FiniteSetTheorems, TLAPS

-----------------------------------------------------------------------------
(* Lemmas about the operators *)

(* A slice of the last n elements keeps the element type and is not longer *)
LEMMA LastNType ==
  ASSUME NEW S, NEW w \in Seq(S), NEW n \in Nat
  PROVE  LastN(w, n) \in Seq(S) /\ Len(LastN(w, n)) <= n
<1>1. CASE Len(w) <= n
  BY <1>1 DEF LastN
<1>2. CASE ~(Len(w) <= n)
  <2> DEFINE m == Len(w) - n + 1
  <2>1. Len(w) \in Nat /\ m \in 1 .. Len(w) + 1
    BY <1>2
  <2>2. SubSeq(w, m, Len(w)) \in Seq(S)
    BY <2>1, SubSeqProperties
  <2>3. Len(SubSeq(w, m, Len(w))) = n
    BY <2>1, <1>2, SubSeqProperties
  <2> QED BY <2>2, <2>3, <1>2 DEF LastN
<1> QED BY <1>1, <1>2

(* The recovery stage stays in its states and keeps its counter bounded *)
LEMMA RecoveryNextType ==
  ASSUME recovery \in Recovery, RecoveryBounded, NEW s \in UserSignals
  PROVE  LET r == NextRecovery(s) IN
         /\ r.state \in Recovery
         /\ r.turns \in Nat
         /\ IF r.state = "STABILIZE" THEN r.turns \in 1 .. MAX_RECOVERY_TURNS - 1
                                     ELSE r.turns = 0
         /\ r.state = "STABILIZE" => r.turns = turnsInRecovery + 1
  BY DEF NextRecovery, RecoveryNext, Recovery, RecoveryBounded, MayLeave, MAX_RECOVERY_TURNS

(* The phase machine stays in its phases; recovery holds the phase still *)
LEMMA NextFsmType ==
  ASSUME fsm \in Phase, NEW s
  PROVE  /\ NextFsm(s) \in Phase
         /\ NextRecovery(s).state = "STABILIZE" => NextFsm(s) = fsm
  BY DEF NextFsm, Transition, Phase

LEMMA NextHintType ==
  ASSUME hint \in Rung, turnsInHint \in Nat, lowStreak \in Nat, NEW s
  PROVE  /\ NextHint(s).rung \in Rung
         /\ NextHint(s).turns \in Nat
         /\ NextHint(s).low \in Nat
  BY DEF NextHint, NextStep, NextRung, Rung

(* Every rule keeps the plan well formed *)
LEMMA PlanType ==
  ASSUME NEW s \in UserSignals PROVE PlanFor(s) \in Plan
<1> DEFINE p0 == SelectedPlan(NextRecovery(s).state)
           p1 == ElicitAttempt(p0, s)
           p2 == NoDirectAnswers(p1, s)
           p3 == HintLadder(p2, NextHint(s).rung)
           p4 == ToneByConfidence(p3, s)
           p5 == ProceduralUnblock(p4, s)
<1> USE DEF Plan, Question, Tone, Directive
<1>0. p0 \in Plan BY DEF SelectedPlan
<1> HIDE DEF p0
<1>1. p1 \in Plan BY <1>0 DEF ElicitAttempt
<1> HIDE DEF p1
<1>2. p2 \in Plan BY <1>1 DEF NoDirectAnswers
<1> HIDE DEF p2
<1>3. p3 \in Plan BY <1>2 DEF HintLadder
<1> HIDE DEF p3
<1>4. p4 \in Plan BY <1>3 DEF ToneByConfidence, ToneFor
<1> HIDE DEF p4
<1>5. p5 \in Plan BY <1>4 DEF ProceduralUnblock
<1> HIDE DEF p5
<1>6. ClosureEligible(NextFsm(s), NextRecovery(s).state) \in BOOLEAN
  BY DEF ClosureEligible
<1>7. ClosureDirective(p5, ClosureEligible(NextFsm(s), NextRecovery(s).state), s) \in Plan
  BY <1>5, <1>6 DEF ClosureDirective
<1> QED BY <1>7 DEF PlanFor, p0, p1, p2, p3, p4, p5

(* Once the plan lifts the guardrail it is the pivot or the last rung *)
LEMMA GuardrailLifted ==
  ASSUME NEW s \in UserSignals
  PROVE  ~PlanFor(s).forbid => \/ PlanFor(s).question = "placeholder"
                               \/ NextHint(s).rung = "BOTTOM_OUT"
<1> DEFINE p0 == SelectedPlan(NextRecovery(s).state)
           p1 == ElicitAttempt(p0, s)
           p2 == NoDirectAnswers(p1, s)
           p3 == HintLadder(p2, NextHint(s).rung)
           p4 == ToneByConfidence(p3, s)
           p5 == ProceduralUnblock(p4, s)
<1> USE DEF Plan, Question, Tone, Directive
<1>0. p0 \in Plan /\ p0.forbid = TRUE
  BY DEF SelectedPlan
<1> HIDE DEF p0
<1>1. p1 \in Plan /\ p1.forbid = TRUE
  BY <1>0 DEF ElicitAttempt
<1> HIDE DEF p1
<1>2. p2 \in Plan /\ p2.forbid = TRUE
  BY <1>1 DEF NoDirectAnswers
<1> HIDE DEF p2
<1>3. p3 \in Plan /\ (NextHint(s).rung # "BOTTOM_OUT" => p3.forbid = TRUE)
  BY <1>2 DEF HintLadder
<1> HIDE DEF p3
<1>4. p4 \in Plan /\ p4.forbid = p3.forbid
  BY <1>3 DEF ToneByConfidence, ToneFor
<1> HIDE DEF p4
<1>5. /\ p5 \in Plan
      /\ \/ p5.forbid = p4.forbid
         \/ p5.question = "placeholder"
  BY <1>4 DEF ProceduralUnblock
<1> HIDE DEF p5
<1>6. /\ PlanFor(s).forbid = p5.forbid
      /\ PlanFor(s).question = p5.question
  BY <1>5 DEF PlanFor, ClosureDirective, p0, p1, p2, p3, p4, p5
<1> QED BY <1>3, <1>4, <1>5, <1>6

(* The closure flag of the plan is the eligibility test *)
LEMMA PlanClosure ==
  ASSUME NEW s \in UserSignals
  PROVE  PlanFor(s).closure <=> ClosureEligible(NextFsm(s), NextRecovery(s).state)
<1> DEFINE p0 == SelectedPlan(NextRecovery(s).state)
           p1 == ElicitAttempt(p0, s)
           p2 == NoDirectAnswers(p1, s)
           p3 == HintLadder(p2, NextHint(s).rung)
           p4 == ToneByConfidence(p3, s)
           p5 == ProceduralUnblock(p4, s)
<1> USE DEF Plan, Question, Tone, Directive
<1>1. p1 \in Plan BY DEF SelectedPlan, ElicitAttempt
<1> HIDE DEF p1
<1>2. p2 \in Plan BY <1>1 DEF NoDirectAnswers
<1> HIDE DEF p2
<1>3. p3 \in Plan BY <1>2 DEF HintLadder
<1> HIDE DEF p3
<1>4. p4 \in Plan BY <1>3 DEF ToneByConfidence, ToneFor
<1> HIDE DEF p4
<1>5. p5 \in Plan BY <1>4 DEF ProceduralUnblock
<1> HIDE DEF p5
<1> QED BY <1>5 DEF PlanFor, ClosureDirective, p0, p1, p2, p3, p4, p5

-----------------------------------------------------------------------------
(***************************************************************************)
(* The inductive invariant.  A rung carries the work that reached it, and  *)
(* the turns without closure are charged to the recovery that is running   *)
(* and to the one re-planning turn that may have preceded it.              *)
(***************************************************************************)
RungBacked ==
  /\ hint = "STRATEGIC_HINT" => effort >= 1 /\ climb >= turnsInHint + 1
  /\ hint = "FOCUSED_HINT" => effort >= 2 /\ climb >= turnsInHint + 2
  /\ BottomOutEarned

WithheldCharged ==
  /\ withheld <= turnsInRecovery + MAX_RECOVERY_TURNS
  /\ fsm # "PLANNING" => withheld <= turnsInRecovery

(***************************************************************************)
(* What is stored is backed by what was heard: a message leaves RowsPerTurn *)
(* rows at most, the greeting that is answered fewer; and a conversation   *)
(* without a model row, which greets again, has user rows only.            *)
(***************************************************************************)
RowsBacked ==
  /\ rows < RowsPerTurn * (heard + 1)
  /\ ~answered => rows <= heard
  /\ answered => ~greeting

IInv ==
  /\ TypeOK
  /\ RowsBacked
  /\ RecoveryBounded
  /\ RungBacked
  /\ GuardrailEarned
  /\ PhaseBackedByTurns
  /\ WithheldCharged

LEMMA SignalTypes ==
  GreetingSignals \in UserSignals /\ (\A s \in Signals : s \in UserSignals)
  BY SignalsAssumption DEF GreetingSignals, UserSignals, Percent

(* Two rows, or three where turns are cut off *)
LEMMA RowsPerTurnValue == RowsPerTurn \in {2, 3}
  BY MayAbandonAssumption DEF RowsPerTurn

(* More messages allow more rows *)
LEMMA RowsPerTurnGrows ==
  ASSUME NEW m \in Nat, NEW n \in Nat, m <= n
  PROVE  RowsPerTurn * m \in Nat /\ RowsPerTurn * n \in Nat /\ RowsPerTurn * m <= RowsPerTurn * n
<1>1. /\ 2 * m \in Nat /\ 2 * n \in Nat /\ 2 * m <= 2 * n
      /\ 3 * m \in Nat /\ 3 * n \in Nat /\ 3 * m <= 3 * n
  OBVIOUS
<1> QED BY <1>1, RowsPerTurnValue, Zenon

LEMMA InitIInv == Init => IInv
<1> SUFFICES ASSUME Init PROVE IInv
  OBVIOUS
<1>1. TypeOK
  <2>1. plan \in Plan
    BY DEF Init, SelectedPlan, Plan, Question, Tone, Directive
  <2>2. window \in Seq(UserSignals) /\ Len(window) <= WindowCap
    BY WindowCapAssumption DEF Init
  <2>3. evals \in 0 .. MaxTurns
    BY MaxTurnsAssumption DEF Init
  <2>4. fsm \in Phase /\ hint \in Rung /\ recovery \in Recovery
    BY DEF Init, Phase, Rung, Recovery
  <2>5. sinceMeta \in 0 .. COUNTER_CAP /\ sinceUnblock \in 0 .. COUNTER_CAP
    BY DEF Init, COUNTER_CAP
  <2> QED
    BY <2>1, <2>2, <2>3, <2>4, <2>5 DEF Init, TypeOK
<1>2. GuardrailEarned
  BY DEF Init, GuardrailEarned, SelectedPlan
<1> QED
  BY <1>1, <1>2, RowsPerTurnValue
  DEF Init, IInv, RowsBacked, RecoveryBounded, RungBacked, BottomOutEarned, PhaseBackedByTurns,
      WithheldCharged, MAX_RECOVERY_TURNS

(* The part of the type invariant every evaluated turn touches *)
LEMMA EvaluateType ==
  ASSUME TypeOK, NEW s \in UserSignals, EvaluateTurn(s)
  PROVE  /\ plan' \in Plan
         /\ evals' \in 0 .. MaxTurns
         /\ window' \in Seq(UserSignals) /\ Len(window') <= WindowCap
<1>1. Append(window, s) \in Seq(UserSignals)
  BY DEF TypeOK
<1>2. window' \in Seq(UserSignals) /\ Len(window') <= WindowCap
  BY <1>1, LastNType, WindowCapAssumption DEF EvaluateTurn
<1>3. evals' \in 0 .. MaxTurns
  BY MaxTurnsAssumption DEF EvaluateTurn, TypeOK
<1> QED BY <1>2, <1>3, PlanType DEF EvaluateTurn

(* More rows never mean fewer turns, and a counted turn has two rows *)
LEMMA TurnCountMonotone ==
  ASSUME rows \in Nat, rows' \in Nat, rows <= rows'
  PROVE  /\ TurnCount \in Nat /\ TurnCount' \in Nat /\ TurnCount <= TurnCount'
         /\ 2 * TurnCount <= rows
<1>1. ASSUME NEW m \in Nat, NEW n \in Nat, m <= n
      PROVE  m \div 2 \in Nat /\ n \div 2 \in Nat /\ m \div 2 <= n \div 2 /\ 2 * (m \div 2) <= m
  BY <1>1
<1> DEFINE seen(n) == IF n > HISTORY_LIMIT THEN HISTORY_LIMIT ELSE n
<1>2. seen(rows) \in Nat /\ seen(rows') \in Nat /\ seen(rows) <= seen(rows') /\ seen(rows) <= rows
  BY DEF HISTORY_LIMIT
<1>3. TurnCount = seen(rows) \div 2 /\ TurnCount' = seen(rows') \div 2
  BY DEF TurnCount, HISTORY_LIMIT
<1> HIDE DEF seen
<1>4. seen(rows) \div 2 \in Nat /\ seen(rows') \div 2 \in Nat
      /\ seen(rows) \div 2 <= seen(rows') \div 2 /\ 2 * (seen(rows) \div 2) <= seen(rows)
  BY <1>1, <1>2
<1> QED BY <1>2, <1>3, <1>4

(* What every turn does to the stored rows, whether it runs to its end or not *)
RowsAdded ==
  /\ rows' \in Nat /\ rows <= rows'
  /\ heard' \in Nat /\ heard <= heard'
  /\ answered' \in BOOLEAN /\ greeting' \in BOOLEAN
  /\ rows > 0 => rows < RowsPerTurn * heard'
  /\ RowsBacked'

LEMMA GreetingAdds ==
  ASSUME TypeOK, RowsBacked, NEW stored \in 0 .. RowsPerTurn, GreetingStores(stored)
  PROVE  RowsAdded
<1>1. /\ rows \in Nat /\ heard \in Nat /\ heard' = heard
      /\ stored \in Nat /\ stored < RowsPerTurn /\ rows' = rows + stored
  BY RowsPerTurnValue DEF TypeOK, GreetingStores, Stores
<1>2. ~answered /\ answered \in BOOLEAN
  BY DEF TypeOK, RowsBacked, GreetingStores
<1>3. rows <= heard
  BY <1>2 DEF RowsBacked
<1>4. answered' = (answered \/ stored > 0) /\ greeting' = FALSE
  BY DEF GreetingStores
<1>5. rows' < RowsPerTurn * (heard' + 1) /\ (rows > 0 => rows < RowsPerTurn * heard')
  <2>1. CASE RowsPerTurn = 2 BY <1>1, <1>3, <2>1
  <2>2. CASE RowsPerTurn = 3 BY <1>1, <1>3, <2>2
  <2> QED BY <2>1, <2>2, RowsPerTurnValue
<1>6. ~(stored > 0) => rows' <= heard'
  BY <1>1, <1>3
<1>7. RowsBacked'
  <2>1. ~answered' => rows' <= heard'
    BY <1>4, <1>6
  <2>2. answered' => ~greeting'
    BY <1>4
  <2> QED BY <1>5, <2>1, <2>2 DEF RowsBacked, RowsPerTurn
<1>8. answered' \in BOOLEAN /\ greeting' \in BOOLEAN
  BY <1>4
<1>9. rows' \in Nat /\ rows <= rows' /\ heard' \in Nat /\ heard <= heard'
  BY <1>1
<1> QED BY <1>5, <1>7, <1>8, <1>9 DEF RowsAdded

LEMMA MessageAdds ==
  ASSUME TypeOK, RowsBacked, NEW stored \in 0 .. RowsPerTurn, MessageStores(stored)
  PROVE  RowsAdded
<1>1. /\ rows \in Nat /\ heard \in Nat /\ heard' = heard + 1
      /\ stored \in Nat /\ stored <= RowsPerTurn /\ rows' = rows + stored
  BY RowsPerTurnValue DEF TypeOK, MessageStores, Stores
<1>2. answered \in BOOLEAN /\ greeting' = FALSE
  BY DEF TypeOK, MessageStores
<1>3. rows < RowsPerTurn * (heard + 1) /\ (~answered => rows <= heard)
  BY DEF RowsBacked
<1>4. rows' < RowsPerTurn * (heard' + 1) /\ rows < RowsPerTurn * heard'
  <2>1. CASE RowsPerTurn = 2 BY <1>1, <1>3, <2>1
  <2>2. CASE RowsPerTurn = 3 BY <1>1, <1>3, <2>2
  <2> QED BY <2>1, <2>2, RowsPerTurnValue
<1>5. answered' \in BOOLEAN /\ (~answered' => ~answered)
  BY <1>2 DEF MessageStores
<1>6. ~answered' => ~(stored > 1)
  <2>1. CASE stored = 1
    BY <2>1
  <2>2. CASE stored # 1
    <3>1. answered' = (answered \/ stored > 1)
      BY <2>2 DEF MessageStores
    <3> QED BY <3>1
  <2> QED BY <2>1, <2>2
<1>7. ~answered' => rows' <= heard'
  BY <1>1, <1>3, <1>5, <1>6
<1>8. RowsBacked'
  BY <1>2, <1>4, <1>7 DEF RowsBacked, RowsPerTurn
<1>9. rows' \in Nat /\ rows <= rows' /\ heard' \in Nat /\ heard <= heard'
  BY <1>1
<1> QED BY <1>2, <1>4, <1>5, <1>8, <1>9 DEF RowsAdded

(* A phase that does not change stays backed *)
LEMMA PhaseStaysBacked ==
  ASSUME TypeOK, PhaseBackedByTurns, RowsAdded, fsm' = fsm
  PROVE  PhaseBackedByTurns'
<1>1. rows \in Nat /\ rows' \in Nat /\ rows <= rows' /\ heard \in Nat /\ heard' \in Nat /\ heard <= heard'
  BY DEF TypeOK, RowsAdded
<1>2. TurnCount \in Nat /\ TurnCount' \in Nat /\ TurnCount <= TurnCount'
  BY <1>1, TurnCountMonotone
<1>3. /\ RowsPerTurn * heard <= RowsPerTurn * heard'
      /\ RowsPerTurn * heard \in Nat /\ RowsPerTurn * heard' \in Nat
  BY <1>1, RowsPerTurnGrows
<1>4. RowsPerTurn' = RowsPerTurn
  BY DEF RowsPerTurn
<1> QED
  BY <1>2, <1>3, <1>4 DEF PhaseBackedByTurns, MIN_TURNS_BEFORE_ACCEL, PLANNING_TO_MONITORING_TURN

-----------------------------------------------------------------------------
(* One lemma per action: the greeting and a completed turn share theirs *)

LEMMA ApplyType ==
  ASSUME TypeOK, RecoveryBounded, NEW s \in UserSignals, ApplyDecision(s)
  PROVE  /\ fsm' \in Phase /\ hint' \in Rung /\ recovery' \in Recovery
         /\ turnsInHint' \in Nat /\ lowStreak' \in Nat /\ turnsInRecovery' \in Nat
         /\ sinceMeta' \in 0 .. COUNTER_CAP /\ sinceUnblock' \in 0 .. COUNTER_CAP
<1>1. fsm' \in Phase
  BY NextFsmType DEF TypeOK, ApplyDecision
<1>2. hint' \in Rung /\ turnsInHint' \in Nat /\ lowStreak' \in Nat
  BY NextHintType DEF TypeOK, ApplyDecision
<1>3. recovery' \in Recovery /\ turnsInRecovery' \in Nat
  BY RecoveryNextType DEF TypeOK, ApplyDecision
<1>4. ASSUME NEW n \in 0 .. COUNTER_CAP, NEW b
      PROVE  ComputeNext(n, b) \in 0 .. COUNTER_CAP
  BY DEF ComputeNext, COUNTER_CAP
<1> QED
  BY <1>1, <1>2, <1>3, <1>4 DEF TypeOK, ApplyDecision

LEMMA HistoryType ==
  ASSUME TypeOK, NEW s, RecordHistory(s)
  PROVE  effort' \in Nat /\ climb' \in Nat /\ withheld' \in Nat /\ affected' \in Nat
  BY DEF TypeOK, RecordHistory

LEMMA NextRungValue ==
  ASSUME NEW r \in Rung \ {"BOTTOM_OUT"}
  PROVE  \/ r = "PROCESS_FEEDBACK" /\ NextRung(r) = "STRATEGIC_HINT"
         \/ r = "STRATEGIC_HINT" /\ NextRung(r) = "FOCUSED_HINT"
         \/ r = "FOCUSED_HINT" /\ NextRung(r) = "BOTTOM_OUT"
  BY DEF Rung, NextRung

(* What the ladder stage does to a rung and its counter *)
LEMMA LadderStep ==
  ASSUME TypeOK, NEW s \in UserSignals, NEW r,
         NextHint(s).rung = r, r # "PROCESS_FEEDBACK"
  PROVE  \/ r = hint /\ NextHint(s).turns = turnsInHint + 1
         \/ /\ r = NextRung(hint) /\ NextHint(s).turns = 0
            /\ Productive(s) /\ hint # "BOTTOM_OUT"
            /\ hint = "FOCUSED_HINT" => turnsInHint >= MIN_TURNS_AT_FOCUSED
  BY DEF NextHint, NextStep, Climbs

LEMMA CompletedTurn ==
  ASSUME IInv, NEW s \in UserSignals,
         EvaluateTurn(s), ApplyDecision(s), RecordHistory(s), RowsAdded
  PROVE  IInv'
<1> USE DEF IInv
<1>1. TypeOK'
  BY EvaluateType, ApplyType, HistoryType DEF TypeOK, RowsAdded
<1>2. RecoveryBounded'
  BY RecoveryNextType DEF TypeOK, ApplyDecision, RecoveryBounded
<1>3. RungBacked'
  <2>1. CASE hint' = "PROCESS_FEEDBACK"
    BY <2>1 DEF RungBacked, BottomOutEarned
  <2>2. CASE hint' # "PROCESS_FEEDBACK"
    <3>1. /\ climb' = climb + 1
          /\ effort' = IF Productive(s) THEN effort + 1 ELSE effort
      BY <2>2 DEF RecordHistory
    <3>2. hint' = NextHint(s).rung /\ turnsInHint' = NextHint(s).turns
      BY DEF ApplyDecision
    <3>3. CASE hint' = hint /\ turnsInHint' = turnsInHint + 1
      BY <3>1, <3>3 DEF TypeOK, RungBacked, BottomOutEarned, MIN_TURNS_AT_FOCUSED
    <3>4. CASE /\ hint' = NextRung(hint) /\ turnsInHint' = 0
               /\ Productive(s) /\ hint # "BOTTOM_OUT"
               /\ hint = "FOCUSED_HINT" => turnsInHint >= MIN_TURNS_AT_FOCUSED
      <4>1. effort' = effort + 1
        BY <3>1, <3>4
      <4>2. hint \in Rung \ {"BOTTOM_OUT"}
        BY <3>4 DEF TypeOK
      <4>3. CASE hint = "PROCESS_FEEDBACK" /\ hint' = "STRATEGIC_HINT"
        BY <3>1, <3>4, <4>1, <4>3 DEF TypeOK, RungBacked, BottomOutEarned
      <4>4. CASE hint = "STRATEGIC_HINT" /\ hint' = "FOCUSED_HINT"
        BY <3>1, <3>4, <4>1, <4>4 DEF TypeOK, RungBacked, BottomOutEarned
      <4>5. CASE hint = "FOCUSED_HINT" /\ hint' = "BOTTOM_OUT"
        BY <3>1, <3>4, <4>1, <4>5
        DEF TypeOK, RungBacked, BottomOutEarned, MIN_TURNS_AT_FOCUSED
      <4> QED
        BY <3>4, <4>2, <4>3, <4>4, <4>5, NextRungValue
    <3> QED BY <2>2, <3>2, <3>3, <3>4, LadderStep
  <2> QED BY <2>1, <2>2
<1>4. GuardrailEarned'
  <2>1. plan' = PlanFor(s) /\ hint' = NextHint(s).rung
    BY DEF EvaluateTurn, ApplyDecision
  <2>2. hint' = "BOTTOM_OUT" => effort' >= 3 /\ climb' >= MIN_TURNS_AT_FOCUSED + 3
    BY <1>3 DEF RungBacked, BottomOutEarned
  <2> QED
    BY <2>1, <2>2, HistoryType, GuardrailLifted DEF GuardrailEarned, MIN_TURNS_AT_FOCUSED
<1>5. /\ TurnCount \in Nat /\ TurnCount <= TurnCount' /\ TurnCount' \in Nat
      /\ 2 * TurnCount <= rows /\ rows \in Nat
  <2>1. rows \in Nat /\ rows' \in Nat /\ rows <= rows'
    BY DEF TypeOK, RowsAdded
  <2> QED BY <2>1, TurnCountMonotone
<1>6. PhaseBackedByTurns'
  <2> USE DEF MIN_TURNS_BEFORE_ACCEL, PLANNING_TO_MONITORING_TURN
  <2>1. CASE fsm' = fsm
    BY <2>1, PhaseStaysBacked
  <2>2. CASE fsm' # fsm
    <3>1. fsm' = Transition(fsm, TurnCount, s) /\ TurnCount \in Nat
      BY <2>2, <1>5 DEF ApplyDecision, NextFsm
    <3>2. fsm' = "MONITORING" => TurnCount >= 2
      BY <2>2, <3>1 DEF Transition, TypeOK, Phase
    <3>3. fsm' = "EVALUATION" => TurnCount >= 4
      <4>1. fsm' = "EVALUATION" => \/ TurnCount >= MONITORING_TO_EVALUATION_TURN
                                   \/ TurnCount >= MIN_TURNS_BEFORE_ACCEL
        BY <2>2, <3>1 DEF Transition, TypeOK, Phase
      <4> QED BY <3>1, <4>1 DEF MONITORING_TO_EVALUATION_TURN
    <3>4. /\ rows > 0 => rows < RowsPerTurn * heard'
          /\ RowsPerTurn * heard' \in Nat /\ RowsPerTurn' = RowsPerTurn
      <4>1. heard' \in Nat /\ (rows > 0 => rows < RowsPerTurn * heard')
        BY DEF RowsAdded
      <4>2. RowsPerTurn' = RowsPerTurn
        BY DEF RowsPerTurn
      <4>3. RowsPerTurn * heard' \in Nat
        BY <4>1, RowsPerTurnGrows
      <4> QED BY <4>1, <4>2, <4>3
    <3>5. TurnCount >= 2 => RowsPerTurn * heard' > 4
      BY <1>5, <3>4
    <3>6. TurnCount >= 4 => RowsPerTurn * heard' > 8
      BY <1>5, <3>4
    <3> QED BY <3>2, <3>3, <3>4, <3>5, <3>6, <1>5 DEF PhaseBackedByTurns
  <2> QED BY <2>1, <2>2
<1>7. WithheldCharged'
  <2>1. /\ recovery' = NextRecovery(s).state /\ turnsInRecovery' = NextRecovery(s).turns
        /\ fsm' = NextFsm(s)
    BY DEF ApplyDecision
  <2>2. plan'.closure <=> ClosureEligible(fsm', recovery')
    BY <2>1, PlanClosure DEF EvaluateTurn
  <2>3. \/ withheld' = 0
        \/ withheld' = withheld + 1 /\ TurnCount >= CLOSURE_MIN_TURNS
             /\ ~ClosureEligible(fsm', recovery')
    BY <2>2, <1>5 DEF RecordHistory, CLOSURE_MIN_TURNS
  <2>4. turnsInRecovery' \in Nat
    BY <1>1 DEF TypeOK
  <2>5. CASE withheld' = 0
    <3>1. \A n \in Nat : 0 <= n + MAX_RECOVERY_TURNS /\ 0 <= n
      BY DEF MAX_RECOVERY_TURNS
    <3> QED BY ONLY <2>4, <2>5, <3>1 DEF WithheldCharged
  <2>6. CASE /\ withheld' = withheld + 1
             /\ TurnCount >= CLOSURE_MIN_TURNS
             /\ ~ClosureEligible(fsm', recovery')
    <3>1. CASE recovery' = "STABILIZE"
      <4>1. fsm' = fsm /\ turnsInRecovery' = turnsInRecovery + 1
        BY <2>1, <3>1, NextFsmType, RecoveryNextType DEF TypeOK
      <4> QED
        BY <4>1, <2>6 DEF WithheldCharged, TypeOK, MAX_RECOVERY_TURNS
    <3>2. CASE recovery' # "STABILIZE"
      <4>1. recovery' = "NORMAL" /\ fsm' \in Phase /\ turnsInRecovery' = 0
        BY <3>2, <1>1, <1>2 DEF TypeOK, Recovery, RecoveryBounded
      <4>2. fsm' = "PLANNING"
        BY <2>6, <4>1 DEF ClosureEligible, Phase
      <4>3. fsm' = Transition(fsm, TurnCount, s)
        BY <2>1, <3>2 DEF NextFsm
      <4>4. fsm # "PLANNING"
        BY <4>2, <4>3, <2>6, <1>5
        DEF Transition, PLANNING_TO_MONITORING_TURN, CLOSURE_MIN_TURNS
      <4>5. withheld <= MAX_RECOVERY_TURNS - 1
        BY <4>4 DEF WithheldCharged, RecoveryBounded, TypeOK, MAX_RECOVERY_TURNS
      <4> QED
        BY <4>1, <4>2, <4>5, <2>6 DEF WithheldCharged, TypeOK, MAX_RECOVERY_TURNS
    <3> QED BY <3>1, <3>2
  <2> QED BY <2>3, <2>5, <2>6
<1>8. RowsBacked'
  BY DEF RowsAdded
<1> QED BY <1>1, <1>2, <1>3, <1>4, <1>6, <1>7, <1>8

LEMMA AbandonedTurn ==
  ASSUME IInv, NEW s \in UserSignals, EvaluateTurn(s),
         UNCHANGED <<policyVars, historyVars>>, RowsAdded
  PROVE  IInv'
<1> USE DEF IInv, policyVars, ladderVars, historyVars
<1>1. TypeOK'
  BY EvaluateType DEF TypeOK, RowsAdded
<1>2. RecoveryBounded' /\ RungBacked' /\ WithheldCharged'
  BY DEF RecoveryBounded, RungBacked, BottomOutEarned, WithheldCharged
<1>3. GuardrailEarned'
  <2>1. plan' = PlanFor(s)
    BY DEF EvaluateTurn
  <2>2. NextHint(s).rung = "BOTTOM_OUT"
          => effort >= 2 /\ climb >= MIN_TURNS_AT_FOCUSED + 2
    <3> SUFFICES ASSUME NextHint(s).rung = "BOTTOM_OUT"
                 PROVE  effort >= 2 /\ climb >= MIN_TURNS_AT_FOCUSED + 2
      OBVIOUS
    <3>1. CASE hint = "BOTTOM_OUT"
      BY <3>1 DEF TypeOK, RungBacked, BottomOutEarned, MIN_TURNS_AT_FOCUSED
    <3>2. CASE hint # "BOTTOM_OUT"
      <4>1. /\ NextRung(hint) = "BOTTOM_OUT"
            /\ hint = "FOCUSED_HINT" => turnsInHint >= MIN_TURNS_AT_FOCUSED
        BY <3>2, LadderStep
      <4>2. hint = "FOCUSED_HINT"
        BY <3>2, <4>1, NextRungValue DEF TypeOK
      <4> QED
        BY <4>1, <4>2 DEF TypeOK, RungBacked, MIN_TURNS_AT_FOCUSED
    <3> QED BY <3>1, <3>2
  <2> QED
    BY <2>1, <2>2, GuardrailLifted DEF GuardrailEarned
<1>4. PhaseBackedByTurns' /\ RowsBacked'
  BY PhaseStaysBacked DEF RowsAdded
<1> QED BY <1>1, <1>2, <1>3, <1>4

(* A turn without a policy only adds rows *)
LEMMA SkippedTurn ==
  ASSUME IInv, UNCHANGED <<policyVars, historyVars, window, plan>>,
         evals < MaxTurns, evals' = evals + 1, RowsAdded
  PROVE  IInv'
<1> USE DEF IInv, policyVars, ladderVars, historyVars
<1>1. TypeOK'
  BY MaxTurnsAssumption DEF TypeOK, RowsAdded
<1>2. /\ RecoveryBounded' /\ RungBacked' /\ WithheldCharged'
      /\ GuardrailEarned'
  BY DEF RecoveryBounded, RungBacked, BottomOutEarned, WithheldCharged, GuardrailEarned
<1>3. PhaseBackedByTurns' /\ RowsBacked'
  BY PhaseStaysBacked DEF RowsAdded
<1> QED BY <1>1, <1>2, <1>3

(* A connection that greets again finds user rows only *)
LEMMA Resumed ==
  ASSUME IInv, Resume
  PROVE  IInv'
<1> USE DEF IInv, Resume, policyVars, ladderVars, historyVars
<1>1. TypeOK'
  BY DEF TypeOK
<1>2. /\ RecoveryBounded' /\ RungBacked' /\ WithheldCharged'
      /\ GuardrailEarned'
  BY DEF RecoveryBounded, RungBacked, BottomOutEarned, WithheldCharged, GuardrailEarned
<1>3. PhaseBackedByTurns'
  BY DEF PhaseBackedByTurns, TurnCount, RowsPerTurn
<1>4. RowsBacked'
  BY DEF RowsBacked, RowsPerTurn
<1> QED BY <1>1, <1>2, <1>3, <1>4

LEMMA NextIInv == IInv /\ [Next]_vars => IInv'
<1> SUFFICES ASSUME IInv, [Next]_vars PROVE IInv'
  OBVIOUS
<1>0. TypeOK /\ RowsBacked
  BY DEF IInv
<1>1. ASSUME NEW stored \in 0 .. RowsPerTurn, Greet(stored) PROVE IInv'
  <2>1. RowsAdded
    BY <1>0, <1>1, GreetingAdds DEF Greet
  <2> QED BY <1>1, <2>1, SignalTypes, CompletedTurn DEF Greet
<1>2. ASSUME NEW stored \in 0 .. RowsPerTurn, NEW s \in Signals, CompleteTurn(s, stored) PROVE IInv'
  <2>1. RowsAdded
    BY <1>0, <1>2, MessageAdds DEF CompleteTurn
  <2> QED BY <1>2, <2>1, SignalTypes, CompletedTurn DEF CompleteTurn
<1>3. ASSUME NEW stored \in 0 .. RowsPerTurn, AbandonGreeting(stored) PROVE IInv'
  <2>1. RowsAdded
    BY <1>0, <1>3, GreetingAdds DEF AbandonGreeting
  <2> QED BY <1>3, <2>1, SignalTypes, AbandonedTurn DEF AbandonGreeting
<1>4. ASSUME NEW stored \in 0 .. RowsPerTurn, NEW s \in Signals, AbandonTurn(s, stored) PROVE IInv'
  <2>1. RowsAdded
    BY <1>0, <1>4, MessageAdds DEF AbandonTurn
  <2> QED BY <1>4, <2>1, SignalTypes, AbandonedTurn DEF AbandonTurn
<1>5. ASSUME NEW stored \in 0 .. RowsPerTurn, DegradedTurn(stored) PROVE IInv'
  <2>1. RowsAdded
    BY <1>0, <1>5, GreetingAdds, MessageAdds DEF DegradedTurn
  <2> QED BY <1>5, <2>1, SkippedTurn DEF DegradedTurn
<1>6. CASE UNCHANGED vars
  BY <1>6 DEF vars, policyVars, ladderVars, chatVars, historyVars, RowsPerTurn, IInv, RowsBacked, TypeOK, RecoveryBounded,
     RungBacked, BottomOutEarned, GuardrailEarned, PhaseBackedByTurns, TurnCount,
     WithheldCharged
<1> QED BY <1>1, <1>2, <1>3, <1>4, <1>5, <1>6, Resumed DEF Next

LEMMA IInvAlways == Spec => []IInv
  BY InitIInv, NextIInv, PTL DEF Spec

-----------------------------------------------------------------------------
(* The theorems *)

(* The state of the policy is always of its type: counters and window in range *)
THEOREM TypeCorrect == Spec => []TypeOK
<1>1. IInv => TypeOK BY DEF IInv
<1> QED BY <1>1, IInvAlways, PTL

(* BOTTOM_OUT always stands on three productive turns and six turns of climbing *)
THEOREM BottomOutIsEarned == Spec => []BottomOutEarned
<1>1. IInv => BottomOutEarned BY DEF IInv, RungBacked
<1> QED BY <1>1, IInvAlways, PTL

(* The guardrail is lifted only for the pivot or for a learner near the last rung *)
THEOREM GuardrailIsEarned == Spec => []GuardrailEarned
<1>1. IInv => GuardrailEarned BY DEF IInv
<1> QED BY <1>1, IInvAlways, PTL

(* Recovery lasts three turns at most *)
THEOREM RecoveryIsBounded == Spec => []RecoveryBounded
<1>1. IInv => RecoveryBounded BY DEF IInv
<1> QED BY <1>1, IInvAlways, PTL

(* Whatever the student sends, closure is offered again within eight turns *)
THEOREM ClosureIsNotStarved == Spec => []ClosureNotStarved
<1>1. IInv => ClosureNotStarved
  BY DEF IInv, TypeOK, WithheldCharged, RecoveryBounded, ClosureNotStarved, MAX_RECOVERY_TURNS
<1> QED BY <1>1, IInvAlways, PTL

(***************************************************************************)
(* EVALUATION stands on five messages of the student and MONITORING on     *)
(* three, or on three and two where turns are cut off, in any conversation *)
(***************************************************************************)
THEOREM PhaseIsBackedByTurns == Spec => []PhaseBackedByTurns
<1>1. IInv => PhaseBackedByTurns BY DEF IInv
<1> QED BY <1>1, IInvAlways, PTL

(* A turn in recovery moves neither the phase nor the rung *)
THEOREM RecoveryFreezesTutor == Spec => RecoveryFreezes
<1>1. IInv /\ [Next]_vars => (recovery' = "STABILIZE" => UNCHANGED <<fsm, hint>>) \/ UNCHANGED vars
  <2> SUFFICES ASSUME IInv, Next, recovery' = "STABILIZE"
               PROVE  UNCHANGED <<fsm, hint>>
    OBVIOUS
  <2>1. ASSUME NEW s, ApplyDecision(s) PROVE UNCHANGED <<fsm, hint>>
    BY <2>1 DEF ApplyDecision, NextFsm, NextHint, NextStep, Climbs, Resets
  <2>2. ASSUME UNCHANGED policyVars PROVE UNCHANGED <<fsm, hint>>
    BY <2>2 DEF policyVars, ladderVars
  <2> QED
    BY <2>1, <2>2 DEF Next, Greet, CompleteTurn, AbandonGreeting, AbandonTurn, DegradedTurn, Resume
<1> QED BY <1>1, IInvAlways, PTL DEF Spec, RecoveryFreezes

-----------------------------------------------------------------------------
(***************************************************************************)
(* Recovery and the turns it counts.  When every turn runs to its end, the *)
(* window holds no more high-affect turns than the conversation had: a     *)
(* turn adds one to both, and what the window drops it only loses.         *)
(***************************************************************************)
HighAffect(w) == {i \in DOMAIN w : AffectLoad(w[i]) > AFFECT_TURN_THRESHOLD}

LEMMA HighAffectFinite ==
  ASSUME NEW S, NEW w \in Seq(S)
  PROVE  /\ IsFiniteSet(HighAffect(w)) /\ Cardinality(HighAffect(w)) \in Nat
         /\ HighAffectCount(w) = Cardinality(HighAffect(w))
<1>1. DOMAIN w = 1 .. Len(w) /\ Len(w) \in Nat
  OBVIOUS
<1>2. IsFiniteSet(DOMAIN w)
  BY <1>1, FS_Interval
<1>3. HighAffect(w) \subseteq DOMAIN w
  BY DEF HighAffect
<1>4. HighAffectCount(w) = Cardinality(HighAffect(w))
  BY DEF HighAffect, HighAffectCount
<1> QED BY <1>2, <1>3, <1>4, FS_Subset, FS_CardinalityType

(* One turn more in the window is at most one high-affect turn more *)
LEMMA HighAffectAppend ==
  ASSUME NEW w \in Seq(UserSignals), NEW s \in UserSignals
  PROVE  HighAffectCount(Append(w, s))
           <= HighAffectCount(w) + (IF AffectLoad(s) > AFFECT_TURN_THRESHOLD THEN 1 ELSE 0)
<1> DEFINE v == Append(w, s)
           last == Len(w) + 1
<1>1. v \in Seq(UserSignals) /\ Len(w) \in Nat /\ DOMAIN w = 1 .. Len(w) /\ DOMAIN v = 1 .. last
      /\ v[last] = s /\ \A i \in 1 .. Len(w) : v[i] = w[i]
  BY AppendProperties
<1>2. /\ IsFiniteSet(HighAffect(w)) /\ Cardinality(HighAffect(w)) \in Nat
      /\ HighAffectCount(w) = Cardinality(HighAffect(w))
  BY HighAffectFinite
<1>3. HighAffectCount(v) = Cardinality(HighAffect(v))
  BY <1>1, HighAffectFinite
<1> HIDE DEF v
<1>4. CASE AffectLoad(s) > AFFECT_TURN_THRESHOLD
  <2>1. HighAffect(v) = HighAffect(w) \cup {last} /\ last \notin HighAffect(w)
    BY <1>1, <1>4 DEF HighAffect
  <2>2. Cardinality(HighAffect(v)) = Cardinality(HighAffect(w)) + 1
    BY <1>2, <2>1, FS_AddElement
  <2> QED BY <1>2, <1>3, <1>4, <2>2 DEF v
<1>5. CASE ~(AffectLoad(s) > AFFECT_TURN_THRESHOLD)
  <2>1. HighAffect(v) = HighAffect(w)
    BY <1>1, <1>5 DEF HighAffect
  <2> QED BY <1>2, <1>3, <1>5, <2>1 DEF v
<1> QED BY <1>4, <1>5

(* Trimming the window loses high-affect turns and adds none *)
LEMMA HighAffectTrim ==
  ASSUME NEW w \in Seq(UserSignals), NEW n \in Nat
  PROVE  HighAffectCount(LastN(w, n)) <= HighAffectCount(w)
<1>1. /\ IsFiniteSet(HighAffect(w)) /\ Cardinality(HighAffect(w)) \in Nat
      /\ HighAffectCount(w) = Cardinality(HighAffect(w))
  BY HighAffectFinite
<1>2. CASE Len(w) <= n
  BY <1>1, <1>2 DEF LastN
<1>3. CASE ~(Len(w) <= n)
  <2> DEFINE k == Len(w) - n
             v == SubSeq(w, k + 1, Len(w))
  <2>1. Len(w) \in Nat /\ k \in 1 .. Len(w) /\ k + 1 \in 1 .. Len(w) + 1
    BY <1>3
  <2>2. v \in Seq(UserSignals) /\ DOMAIN v = 1 .. Len(w) - k /\ \A i \in 1 .. Len(w) - k : v[i] = w[i + k]
    BY <2>1, SubSeqProperties
  <2>3. LastN(w, n) = v
    BY <1>3, <2>1 DEF LastN
  <2> HIDE DEF k, v
  <2>4. PICK shift : shift = [i \in HighAffect(v) |-> i + k]
    OBVIOUS
  <2>5. \A i \in HighAffect(v) : i \in Nat /\ i + k \in HighAffect(w)
    BY <2>1, <2>2 DEF HighAffect
  <2>6. shift \in [HighAffect(v) -> HighAffect(w)]
    BY <2>4, <2>5
  <2>7. \A i, j \in HighAffect(v) : shift[i] = shift[j] => i = j
    BY <2>1, <2>4, <2>5
  <2>8. shift \in Injection(HighAffect(v), HighAffect(w))
    BY <2>6, <2>7 DEF Injection, IsInjective
  <2>9. Cardinality(HighAffect(v)) <= Cardinality(HighAffect(w))
    BY <1>1, <2>8, FS_Injection
  <2>10. HighAffectCount(v) = Cardinality(HighAffect(v))
    BY <2>2, HighAffectFinite
  <2> QED BY <1>1, <2>3, <2>9, <2>10
<1> QED BY <1>2, <1>3

AffectBacked ==
  /\ HighAffectCount(window) <= affected
  /\ RecoveryConverges

LEMMA InitAffectBacked == Init => AffectBacked
<1> SUFFICES ASSUME Init PROVE AffectBacked
  OBVIOUS
<1>1. window = <<>> /\ affected = 0 /\ recovery = "NORMAL"
  BY DEF Init
<1>2. window \in Seq(UserSignals) /\ HighAffect(window) = {}
  BY <1>1 DEF HighAffect
<1>3. HighAffectCount(window) = 0
  BY <1>2, HighAffectFinite, FS_EmptySet
<1> QED BY <1>1, <1>3 DEF AffectBacked, RecoveryConverges

LEMMA CompletedAffect ==
  ASSUME IInv, AffectBacked, NEW s \in UserSignals, EvaluateTurn(s), ApplyDecision(s), RecordHistory(s)
  PROVE  AffectBacked'
<1> DEFINE high == AffectLoad(s) > AFFECT_TURN_THRESHOLD
           count == HighAffectCount(window)
<1>1. window \in Seq(UserSignals) /\ affected \in Nat /\ recovery \in Recovery
  BY DEF IInv, TypeOK
<1>2. affected' = IF high THEN affected + 1 ELSE affected
  BY DEF RecordHistory
<1>3. count \in Nat /\ count <= affected
  BY <1>1, HighAffectFinite DEF AffectBacked
<1>4. HighAffectCount(window') <= affected'
  <2> DEFINE longer == Append(window, s)
  <2>1. longer \in Seq(UserSignals) /\ window' = LastN(longer, WindowCap)
    BY <1>1 DEF EvaluateTurn
  <2>2. HighAffectCount(longer) <= count + (IF high THEN 1 ELSE 0)
    BY <1>1, HighAffectAppend
  <2>3. HighAffectCount(window') <= HighAffectCount(longer)
    BY <2>1, WindowCapAssumption, HighAffectTrim
  <2>4. window' \in Seq(UserSignals)
    BY <2>1, WindowCapAssumption, LastNType
  <2>5. HighAffectCount(longer) \in Nat /\ HighAffectCount(window') \in Nat
    BY <2>1, <2>4, HighAffectFinite
  <2> HIDE DEF longer, high, count
  <2> QED BY <1>1, <1>2, <1>3, <2>2, <2>3, <2>5
<1>5. RecoveryConverges'
  <2>1. recovery' = RecoveryNext(recovery, turnsInRecovery, window, s).state
    BY DEF ApplyDecision, NextRecovery
  <2>2. CASE recovery = "STABILIZE"
    <3>1. affected >= MIN_AFFECT_TURNS_IN_WINDOW + 1
      BY <2>2 DEF AffectBacked, RecoveryConverges
    <3> QED BY <1>1, <1>2, <3>1 DEF RecoveryConverges, MIN_AFFECT_TURNS_IN_WINDOW
  <2>3. CASE recovery = "NORMAL"
    <3>1. recovery' = "STABILIZE" => MayEnter(window, s)
      BY <2>1, <2>3 DEF RecoveryNext
    <3>2. MayEnter(window, s) => high /\ count >= MIN_AFFECT_TURNS_IN_WINDOW
      BY DEF MayEnter, AFFECT_HIGH, AFFECT_TURN_THRESHOLD
    <3> HIDE DEF high, count
    <3> QED BY <1>1, <1>2, <1>3, <3>1, <3>2 DEF RecoveryConverges, MIN_AFFECT_TURNS_IN_WINDOW
  <2> QED BY <1>1, <2>2, <2>3 DEF Recovery
<1> QED BY <1>4, <1>5 DEF AffectBacked

(***************************************************************************)
(* Recovery takes three high-affect turns that ran to their end, in every  *)
(* conversation none of whose turns is abandoned (recovery.py,             *)
(* _MIN_AFFECT_TURNS_IN_WINDOW, and the window of session.py).  A turn     *)
(* that is abandoned stays in the window, and it does not hold.            *)
(***************************************************************************)
THEOREM RecoveryTakesThreeTurns ==
  ASSUME ~MayAbandon
  PROVE  Spec => []RecoveryConverges
<1>1. IInv /\ AffectBacked /\ [Next]_vars => AffectBacked'
  <2> SUFFICES ASSUME IInv, AffectBacked, [Next]_vars PROVE AffectBacked'
    OBVIOUS
  <2>1. ASSUME NEW stored, Greet(stored) PROVE AffectBacked'
    BY <2>1, SignalTypes, CompletedAffect DEF Greet
  <2>2. ASSUME NEW stored, NEW s \in Signals, CompleteTurn(s, stored) PROVE AffectBacked'
    BY <2>2, SignalTypes, CompletedAffect DEF CompleteTurn
  <2>3. \A stored : /\ ~AbandonGreeting(stored) /\ ~DegradedTurn(stored)
                    /\ \A s : ~AbandonTurn(s, stored)
    BY DEF AbandonGreeting, AbandonTurn, DegradedTurn
  <2>4. CASE Resume \/ UNCHANGED vars
    BY <2>4 DEF Resume, vars, policyVars, historyVars, AffectBacked, RecoveryConverges, HighAffectCount
  <2> QED BY <2>1, <2>2, <2>3, <2>4 DEF Next
<1>2. AffectBacked => RecoveryConverges
  BY DEF AffectBacked
<1> QED BY <1>1, <1>2, InitAffectBacked, IInvAlways, PTL DEF Spec
=============================================================================
