----------------------- MODULE QuestionSelectionProofs -----------------------
(***************************************************************************)
(* Proofs about QuestionSelection: what the three passes of the selector   *)
(* choose, whatever has been asked, and what a session remembers of it     *)
(* through failures, for any number of turns.                              *)
(*                                                                         *)
(* Of the bank only a few facts matter (BankShape): every phase has a      *)
(* question, recovery and elicitation questions ask for no attempt, and    *)
(* only calibration and discrepancy questions of MONITORING are hard.      *)
(***************************************************************************)
EXTENDS QuestionSelection, TLAPS, WellFoundedInduction, FiniteSetTheorems, SequenceTheorems

LEMMA LeastExists ==
  ASSUME NEW S, S \subseteq Nat, S # {}
  PROVE  Least(S) \in S /\ \A j \in S : Least(S) <= j
<1>1. \E x \in S : \A y \in S : ~ (<<y, x>> \in OpToRel(<, Nat))
  BY NatLessThanWellFounded, WFMin
<1>3. PICK x \in S : \A y \in S : ~ (<<y, x>> \in OpToRel(<, Nat))
  BY <1>1
<1>2. ASSUME NEW y \in S PROVE x <= y
  <2>1. x \in Nat /\ y \in Nat
    OBVIOUS
  <2>2. ~ (y < x)
    BY <1>3, <2>1 DEF OpToRel
  <2> QED BY <2>1, <2>2
<1> QED BY <1>2 DEF Least

-----------------------------------------------------------------------------
(* The bank *)

Ids ==
  {"goal_01", "goal_02", "goal_03", "strat_01", "strat_02", "elicit_01", "elicit_02", "elicit_03", "elicit_04",
   "elicit_05", "explain_01", "explain_02", "explain_03", "calib_01", "calib_02", "discrep_01", "discrep_02",
   "check_01", "check_02", "check_03", "strat_03", "attrib_01", "attrib_02", "transfer_01", "transfer_02",
   "reflect_01", "reflect_02", "reflect_03", "calib_eval_01", "recover_01", "recover_02"}

Shape ==
  {q \in [id : Ids, family : Family, phase : Phase, hard : BOOLEAN, tried : BOOLEAN] :
     /\ q.family \in {"RECOVERY_STABILIZE", "ATTEMPT_ELICITATION"} => ~q.tried
     /\ q.hard => q.family \in {"CALIBRATION", "DISCREPANCY_DETECTION"} /\ q.phase = "MONITORING"}

Has(s, phase, family) == \E k \in DOMAIN s : s[k].phase = phase /\ s[k].family = family

LEMMA PlainShape ==
  ASSUME NEW ids \in Seq(Ids), NEW family \in Family, NEW phase \in Phase
  PROVE  /\ Plain(ids, family, phase) \in Seq(Shape)
         /\ ids # <<>> => Has(Plain(ids, family, phase), phase, family)
<1>1. ASSUME NEW i \in DOMAIN ids PROVE Row(ids[i], family, phase, FALSE, FALSE) \in Shape
  BY DEF Row, Shape
<1>2. DOMAIN ids = 1 .. Len(ids) /\ Len(ids) \in Nat /\ (ids # <<>> => 1 \in DOMAIN ids)
  OBVIOUS
<1>3. PICK f : f = Plain(ids, family, phase)
  OBVIOUS
<1>4. f = [i \in DOMAIN ids |-> Row(ids[i], family, phase, FALSE, FALSE)]
  BY <1>3 DEF Plain
<1>5. f \in [1 .. Len(ids) -> Shape]
  BY <1>1, <1>2, <1>4
<1>6. f \in Seq(Shape)
  BY <1>2, <1>5
<1>7. ids # <<>> => Has(f, phase, family)
  BY <1>2, <1>4 DEF Row, Has
<1> QED BY <1>3, <1>6, <1>7

LEMMA TriedShape ==
  ASSUME NEW ids \in Seq(Ids), NEW family \in Family, NEW phase \in Phase,
         family \notin {"RECOVERY_STABILIZE", "ATTEMPT_ELICITATION"}
  PROVE  Tried(ids, family, phase) \in Seq(Shape)
<1>1. ASSUME NEW i \in DOMAIN ids PROVE Row(ids[i], family, phase, FALSE, TRUE) \in Shape
  BY DEF Row, Shape
<1>2. DOMAIN ids = 1 .. Len(ids) /\ Len(ids) \in Nat
  OBVIOUS
<1>3. PICK f : f = Tried(ids, family, phase)
  OBVIOUS
<1>4. f = [i \in DOMAIN ids |-> Row(ids[i], family, phase, FALSE, TRUE)]
  BY <1>3 DEF Tried
<1>5. f \in [1 .. Len(ids) -> Shape]
  BY <1>1, <1>2, <1>4
<1>6. f \in Seq(Shape)
  BY <1>2, <1>5
<1> QED BY <1>3, <1>6

(* What a part of the bank has, the bank has *)
LEMMA Joined ==
  ASSUME NEW s \in Seq(Shape), NEW u \in Seq(Shape)
  PROVE  /\ s \o u \in Seq(Shape)
         /\ \A p, f : Has(s, p, f) \/ Has(u, p, f) => Has(s \o u, p, f)
<1>1. s \o u \in Seq(Shape) /\ Len(s \o u) = Len(s) + Len(u) /\ Len(s) \in Nat /\ Len(u) \in Nat
  OBVIOUS
<1>2. ASSUME NEW i \in DOMAIN s PROVE i \in DOMAIN (s \o u) /\ (s \o u)[i] = s[i]
  BY <1>1
<1>3. ASSUME NEW i \in DOMAIN u PROVE Len(s) + i \in DOMAIN (s \o u) /\ (s \o u)[Len(s) + i] = u[i]
  BY <1>1
<1> QED BY <1>1, <1>2, <1>3 DEF Has

LEMMA FamiliesAndPhases ==
  /\ Family = {"GOAL_CLARIFICATION", "STRATEGY_REVISION", "ATTEMPT_ELICITATION", "SELF_EXPLANATION", "CALIBRATION",
               "DISCREPANCY_DETECTION", "MONITORING_CHECK", "REATTRIBUTION", "TRANSFER", "RECOVERY_STABILIZE"}
  /\ Phase = {"PLANNING", "MONITORING", "EVALUATION"}
BY DEF Family, Phase

LEMMA PlanningBank == PLANNING_BANK \in Seq(Shape) /\ Has(PLANNING_BANK, "PLANNING", "ATTEMPT_ELICITATION")
<1> DEFINE a == Plain(<<"goal_01", "goal_02", "goal_03">>, "GOAL_CLARIFICATION", "PLANNING")
           b == Plain(<<"strat_01", "strat_02">>, "STRATEGY_REVISION", "PLANNING")
           c == Plain(<<"elicit_01", "elicit_02", "elicit_03", "elicit_04", "elicit_05">>, "ATTEMPT_ELICITATION", "PLANNING")
<1>1. a \in Seq(Shape)
  <2>1. <<"goal_01", "goal_02", "goal_03">> \in Seq(Ids)
    BY DEF Ids
  <2>2. "GOAL_CLARIFICATION" \in Family /\ "PLANNING" \in Phase
    BY FamiliesAndPhases
  <2> QED BY <2>1, <2>2, PlainShape
<1>2. b \in Seq(Shape)
  <2>1. <<"strat_01", "strat_02">> \in Seq(Ids)
    BY DEF Ids
  <2>2. "STRATEGY_REVISION" \in Family /\ "PLANNING" \in Phase
    BY FamiliesAndPhases
  <2> QED BY <2>1, <2>2, PlainShape
<1>3. c \in Seq(Shape) /\ Has(c, "PLANNING", "ATTEMPT_ELICITATION")
  <2>1. <<"elicit_01", "elicit_02", "elicit_03", "elicit_04", "elicit_05">> \in Seq(Ids) /\ <<"elicit_01", "elicit_02", "elicit_03", "elicit_04", "elicit_05">> # <<>>
    BY DEF Ids
  <2>2. "ATTEMPT_ELICITATION" \in Family /\ "PLANNING" \in Phase
    BY FamiliesAndPhases
  <2> QED BY <2>1, <2>2, PlainShape
<1>4. PLANNING_BANK = (a \o b) \o c
  BY DEF PLANNING_BANK
<1> HIDE DEF a, b, c
<1>5. PICK s1 : s1 = a \o b
  OBVIOUS
<1>6. s1 \in Seq(Shape)
  BY <1>1, <1>2, <1>5, Joined
<1>7. PICK s2 : s2 = s1 \o c
  OBVIOUS
<1>8. s2 \in Seq(Shape) /\ Has(s2, "PLANNING", "ATTEMPT_ELICITATION")
  BY <1>6, <1>3, <1>7, Joined
<1> QED BY <1>4, <1>5, <1>7, <1>8

LEMMA EvaluationBank == EVALUATION_BANK \in Seq(Shape) /\ Has(EVALUATION_BANK, "EVALUATION", "REATTRIBUTION")
<1> DEFINE a == Plain(<<"attrib_01", "attrib_02">>, "REATTRIBUTION", "EVALUATION")
           b == Plain(<<"transfer_01", "transfer_02">>, "TRANSFER", "EVALUATION")
           c == Plain(<<"reflect_01", "reflect_02", "reflect_03">>, "SELF_EXPLANATION", "EVALUATION")
           d == Plain(<<"calib_eval_01">>, "CALIBRATION", "EVALUATION")
<1>1. a \in Seq(Shape) /\ Has(a, "EVALUATION", "REATTRIBUTION")
  <2>1. <<"attrib_01", "attrib_02">> \in Seq(Ids) /\ <<"attrib_01", "attrib_02">> # <<>>
    BY DEF Ids
  <2>2. "REATTRIBUTION" \in Family /\ "EVALUATION" \in Phase
    BY FamiliesAndPhases
  <2> QED BY <2>1, <2>2, PlainShape
<1>2. b \in Seq(Shape)
  <2>1. <<"transfer_01", "transfer_02">> \in Seq(Ids)
    BY DEF Ids
  <2>2. "TRANSFER" \in Family /\ "EVALUATION" \in Phase
    BY FamiliesAndPhases
  <2> QED BY <2>1, <2>2, PlainShape
<1>3. c \in Seq(Shape)
  <2>1. <<"reflect_01", "reflect_02", "reflect_03">> \in Seq(Ids)
    BY DEF Ids
  <2>2. "SELF_EXPLANATION" \in Family /\ "EVALUATION" \in Phase
    BY FamiliesAndPhases
  <2> QED BY <2>1, <2>2, PlainShape
<1>4. d \in Seq(Shape)
  <2>1. <<"calib_eval_01">> \in Seq(Ids)
    BY DEF Ids
  <2>2. "CALIBRATION" \in Family /\ "EVALUATION" \in Phase
    BY FamiliesAndPhases
  <2> QED BY <2>1, <2>2, PlainShape
<1>5. EVALUATION_BANK = ((a \o b) \o c) \o d
  BY DEF EVALUATION_BANK
<1> HIDE DEF a, b, c, d
<1>6. PICK s1 : s1 = a \o b
  OBVIOUS
<1>7. s1 \in Seq(Shape) /\ Has(s1, "EVALUATION", "REATTRIBUTION")
  BY <1>1, <1>2, <1>6, Joined
<1>8. PICK s2 : s2 = s1 \o c
  OBVIOUS
<1>9. s2 \in Seq(Shape) /\ Has(s2, "EVALUATION", "REATTRIBUTION")
  BY <1>7, <1>3, <1>8, Joined
<1>10. PICK s3 : s3 = s2 \o d
  OBVIOUS
<1>11. s3 \in Seq(Shape) /\ Has(s3, "EVALUATION", "REATTRIBUTION")
  BY <1>9, <1>4, <1>10, Joined
<1> QED BY <1>5, <1>6, <1>8, <1>10, <1>11

LEMMA RecoveryBank == RECOVERY_BANK \in Seq(Shape) /\ Has(RECOVERY_BANK, "PLANNING", "RECOVERY_STABILIZE")
<1> DEFINE a == Plain(<<"recover_01">>, "RECOVERY_STABILIZE", "PLANNING")
           b == Plain(<<"recover_02">>, "RECOVERY_STABILIZE", "MONITORING")
<1>1. a \in Seq(Shape) /\ Has(a, "PLANNING", "RECOVERY_STABILIZE")
  <2>1. <<"recover_01">> \in Seq(Ids) /\ <<"recover_01">> # <<>>
    BY DEF Ids
  <2>2. "RECOVERY_STABILIZE" \in Family /\ "PLANNING" \in Phase
    BY FamiliesAndPhases
  <2> QED BY <2>1, <2>2, PlainShape
<1>2. b \in Seq(Shape)
  <2>1. <<"recover_02">> \in Seq(Ids)
    BY DEF Ids
  <2>2. "RECOVERY_STABILIZE" \in Family /\ "MONITORING" \in Phase
    BY FamiliesAndPhases
  <2> QED BY <2>1, <2>2, PlainShape
<1>3. RECOVERY_BANK = a \o b
  BY DEF RECOVERY_BANK
<1> HIDE DEF a, b
<1>4. PICK s1 : s1 = a \o b
  OBVIOUS
<1>5. s1 \in Seq(Shape) /\ Has(s1, "PLANNING", "RECOVERY_STABILIZE")
  BY <1>1, <1>2, <1>4, Joined
<1> QED BY <1>3, <1>4, <1>5

LEMMA MonitoringBank == MONITORING_BANK \in Seq(Shape) /\ Has(MONITORING_BANK, "MONITORING", "SELF_EXPLANATION")
<1> DEFINE a == Tried(<<"explain_01", "explain_02">>, "SELF_EXPLANATION", "MONITORING")
           b == Plain(<<"explain_03">>, "SELF_EXPLANATION", "MONITORING")
           c == <<Row("calib_01", "CALIBRATION", "MONITORING", TRUE, FALSE),
                  Row("calib_02", "CALIBRATION", "MONITORING", FALSE, FALSE),
                  Row("discrep_01", "DISCREPANCY_DETECTION", "MONITORING", TRUE, TRUE),
                  Row("discrep_02", "DISCREPANCY_DETECTION", "MONITORING", TRUE, FALSE)>>
           d == Plain(<<"check_01", "check_02", "check_03">>, "MONITORING_CHECK", "MONITORING")
           e == Tried(<<"strat_03">>, "STRATEGY_REVISION", "MONITORING")
<1>1. a \in Seq(Shape)
  <2>1. <<"explain_01", "explain_02">> \in Seq(Ids)
    BY DEF Ids
  <2>2. "SELF_EXPLANATION" \in Family /\ "MONITORING" \in Phase
    BY FamiliesAndPhases
  <2> QED BY <2>1, <2>2, TriedShape
<1>2. b \in Seq(Shape) /\ Has(b, "MONITORING", "SELF_EXPLANATION")
  <2>1. <<"explain_03">> \in Seq(Ids) /\ <<"explain_03">> # <<>>
    BY DEF Ids
  <2>2. "SELF_EXPLANATION" \in Family /\ "MONITORING" \in Phase
    BY FamiliesAndPhases
  <2> QED BY <2>1, <2>2, PlainShape
<1>3. c \in Seq(Shape)
  <2>1. /\ Row("calib_01", "CALIBRATION", "MONITORING", TRUE, FALSE) \in Shape
        /\ Row("calib_02", "CALIBRATION", "MONITORING", FALSE, FALSE) \in Shape
        /\ Row("discrep_01", "DISCREPANCY_DETECTION", "MONITORING", TRUE, TRUE) \in Shape
        /\ Row("discrep_02", "DISCREPANCY_DETECTION", "MONITORING", TRUE, FALSE) \in Shape
    BY FamiliesAndPhases DEF Row, Shape, Ids
  <2>2. \A q1, q2, q3, q4 \in Shape : <<q1, q2, q3, q4>> \in Seq(Shape)
    OBVIOUS
  <2> QED BY <2>1, <2>2
<1>4. d \in Seq(Shape)
  <2>1. <<"check_01", "check_02", "check_03">> \in Seq(Ids)
    BY DEF Ids
  <2>2. "MONITORING_CHECK" \in Family /\ "MONITORING" \in Phase
    BY FamiliesAndPhases
  <2> QED BY <2>1, <2>2, PlainShape
<1>5. e \in Seq(Shape)
  <2>1. <<"strat_03">> \in Seq(Ids)
    BY DEF Ids
  <2>2. "STRATEGY_REVISION" \in Family /\ "MONITORING" \in Phase
    BY FamiliesAndPhases
  <2> QED BY <2>1, <2>2, TriedShape
<1>6. MONITORING_BANK = (((a \o b) \o c) \o d) \o e
  BY DEF MONITORING_BANK
<1> HIDE DEF a, b, c, d, e
<1>7. PICK s1 : s1 = a \o b
  OBVIOUS
<1>8. s1 \in Seq(Shape) /\ Has(s1, "MONITORING", "SELF_EXPLANATION")
  BY <1>1, <1>2, <1>7, Joined
<1>9. PICK s2 : s2 = s1 \o c
  OBVIOUS
<1>10. s2 \in Seq(Shape) /\ Has(s2, "MONITORING", "SELF_EXPLANATION")
  BY <1>8, <1>3, <1>9, Joined
<1>11. PICK s3 : s3 = s2 \o d
  OBVIOUS
<1>12. s3 \in Seq(Shape) /\ Has(s3, "MONITORING", "SELF_EXPLANATION")
  BY <1>10, <1>4, <1>11, Joined
<1>13. PICK s4 : s4 = s3 \o e
  OBVIOUS
<1>14. s4 \in Seq(Shape) /\ Has(s4, "MONITORING", "SELF_EXPLANATION")
  BY <1>12, <1>5, <1>13, Joined
<1> QED BY <1>6, <1>7, <1>9, <1>11, <1>13, <1>14

LEMMA BankShape ==
  /\ BANK \in Seq(Shape)
  /\ Has(BANK, "PLANNING", "ATTEMPT_ELICITATION") /\ Has(BANK, "MONITORING", "SELF_EXPLANATION")
  /\ Has(BANK, "EVALUATION", "REATTRIBUTION") /\ Has(BANK, "PLANNING", "RECOVERY_STABILIZE")
<1>1. PICK s : s = PLANNING_BANK \o MONITORING_BANK
  OBVIOUS
<1>2. PICK u : u = s \o EVALUATION_BANK
  OBVIOUS
<1>3. s \in Seq(Shape) /\ Has(s, "PLANNING", "ATTEMPT_ELICITATION") /\ Has(s, "MONITORING", "SELF_EXPLANATION")
  BY <1>1, PlanningBank, MonitoringBank, Joined
<1>4. /\ u \in Seq(Shape) /\ Has(u, "PLANNING", "ATTEMPT_ELICITATION")
      /\ Has(u, "MONITORING", "SELF_EXPLANATION") /\ Has(u, "EVALUATION", "REATTRIBUTION")
  BY <1>2, <1>3, EvaluationBank, Joined
<1>5. BANK = u \o RECOVERY_BANK
  BY <1>1, <1>2 DEF BANK
<1> QED BY <1>4, <1>5, RecoveryBank, Joined

LEMMA BankFacts ==
  /\ DOMAIN BANK \subseteq Nat /\ \A i \in DOMAIN BANK : BANK[i] \in Shape
  /\ \A p \in Phase : by_state[p] = {i \in DOMAIN BANK : BANK[i].phase = p} /\ by_state[p] # {}
  /\ \A f \in Family : by_family[f] = {i \in DOMAIN BANK : BANK[i].family = f}
  /\ by_family["RECOVERY_STABILIZE"] # {} /\ by_family["ATTEMPT_ELICITATION"] # {}
  /\ \A p \in Phase, f \in Family :
       by_state_and_family(p, f) = {i \in DOMAIN BANK : BANK[i].phase = p /\ BANK[i].family = f}
<1>1. DOMAIN BANK \subseteq Nat /\ \A i \in DOMAIN BANK : BANK[i] \in Shape
  BY BankShape
<1>2. \A p \in Phase : by_state[p] = {i \in DOMAIN BANK : BANK[i].phase = p}
  BY DEF by_state
<1>3. \A f \in Family : by_family[f] = {i \in DOMAIN BANK : BANK[i].family = f}
  BY DEF by_family
<1>4. \A p \in Phase : by_state[p] # {}
  BY <1>2, BankShape, FamiliesAndPhases DEF Has
<1>5. by_family["RECOVERY_STABILIZE"] # {} /\ by_family["ATTEMPT_ELICITATION"] # {}
  BY <1>3, BankShape, FamiliesAndPhases DEF Has
<1>6. ASSUME NEW p \in Phase, NEW f \in Family
      PROVE  by_state_and_family(p, f) = by_state[p] \cap by_family[f]
  BY DEF by_state_and_family
<1>7. \A p \in Phase, f \in Family :
        by_state_and_family(p, f) = {i \in DOMAIN BANK : BANK[i].phase = p /\ BANK[i].family = f}
  BY <1>2, <1>3, <1>6
<1> QED BY <1>1, <1>2, <1>3, <1>4, <1>5, <1>7

-----------------------------------------------------------------------------
(* What the selector chooses *)

LEMMA FirstIsThere ==
  ASSUME NEW S, S \subseteq DOMAIN BANK, S # {}
  PROVE  \E i \in S : First(S) = BANK[i]
<1>1. S \subseteq Nat
  BY BankFacts
<1> QED BY <1>1, LeastExists DEF First

LEMMA FreshFound ==
  ASSUME NEW places, places \subseteq DOMAIN BANK, NEW known, NEW attempt \in BOOLEAN, NEW otherwise
  PROVE  \/ \E i \in Fresh(places, known, attempt) : FirstFresh(places, known, attempt, otherwise) = BANK[i]
         \/ Fresh(places, known, attempt) = {} /\ FirstFresh(places, known, attempt, otherwise) = otherwise
<1>1. Fresh(places, known, attempt) \subseteq DOMAIN BANK
  BY DEF Fresh
<1> QED BY <1>1, FirstIsThere DEF FirstFresh

LEMMA Preferences ==
  ASSUME NEW phase \in Phase, NEW mood \in Mood
  PROVE  family_preference(phase, mood) \in Seq(Family)
<1>m. Mood = {"overloaded", "miscalibrated", "struggling", "neutral"}
  BY DEF Mood
<1>1. CASE phase = "PLANNING"
  <2>1. CASE mood = "overloaded"
    BY <1>1, <2>1, FamiliesAndPhases DEF family_preference
  <2>2. CASE mood = "miscalibrated"
    BY <1>1, <2>2, FamiliesAndPhases DEF family_preference
  <2>3. CASE mood = "struggling"
    BY <1>1, <2>3, FamiliesAndPhases DEF family_preference
  <2>4. CASE mood = "neutral"
    BY <1>1, <2>4, FamiliesAndPhases DEF family_preference
  <2> QED BY <1>m, <2>1, <2>2, <2>3, <2>4
<1>2. CASE phase = "MONITORING"
  <2>1. CASE mood = "overloaded"
    BY <1>2, <2>1, FamiliesAndPhases DEF family_preference
  <2>2. CASE mood = "miscalibrated"
    BY <1>2, <2>2, FamiliesAndPhases DEF family_preference
  <2>3. CASE mood = "struggling"
    BY <1>2, <2>3, FamiliesAndPhases DEF family_preference
  <2>4. CASE mood = "neutral"
    BY <1>2, <2>4, FamiliesAndPhases DEF family_preference
  <2> QED BY <1>m, <2>1, <2>2, <2>3, <2>4
<1>3. CASE phase = "EVALUATION"
  <2>1. CASE mood = "overloaded"
    BY <1>3, <2>1, FamiliesAndPhases DEF family_preference
  <2>2. CASE mood = "miscalibrated"
    BY <1>3, <2>2, FamiliesAndPhases DEF family_preference
  <2>3. CASE mood = "struggling"
    BY <1>3, <2>3, FamiliesAndPhases DEF family_preference
  <2>4. CASE mood = "neutral"
    BY <1>3, <2>4, FamiliesAndPhases DEF family_preference
  <2> QED BY <1>m, <2>1, <2>2, <2>3, <2>4
<1> QED BY <1>1, <1>2, <1>3, FamiliesAndPhases

LEMMA PreferredFound ==
  ASSUME NEW phase \in Phase, NEW mood \in Mood, NEW known, NEW attempt \in BOOLEAN, NEW otherwise,
         NEW families, families = family_preference(phase, mood)
  PROVE  \/ \E k \in DOMAIN families : \E i \in Fresh(by_state_and_family(phase, families[k]), known, attempt) :
              FirstPreferred(phase, mood, known, attempt, otherwise) = BANK[i]
         \/ /\ \A k \in DOMAIN families : Fresh(by_state_and_family(phase, families[k]), known, attempt) = {}
            /\ FirstPreferred(phase, mood, known, attempt, otherwise) = otherwise
<1> DEFINE fresh == [k \in DOMAIN families |-> Fresh(by_state_and_family(phase, families[k]), known, attempt)]
           some == {k \in DOMAIN families : fresh[k] # {}}
<1>1. families \in Seq(Family)
  BY Preferences
<1>2. \A k \in DOMAIN families : fresh[k] \subseteq DOMAIN BANK
  BY <1>1, BankFacts DEF Fresh
<1>3. FirstPreferred(phase, mood, known, attempt, otherwise) =
        IF some = {} THEN otherwise ELSE First(fresh[Least(some)])
  BY DEF FirstPreferred
<1>4. CASE some # {}
  <2>1. some \subseteq Nat
    BY <1>1
  <2> HIDE DEF some
  <2>2. PICK k \in some : k = Least(some)
    BY <1>4, <2>1, LeastExists
  <2> HIDE DEF fresh
  <2>3. k \in DOMAIN families /\ fresh[k] # {}
    BY <2>2 DEF some
  <2>4. \E i \in fresh[k] : First(fresh[k]) = BANK[i]
    BY <1>2, <2>3, FirstIsThere
  <2>5. fresh[k] = Fresh(by_state_and_family(phase, families[k]), known, attempt)
    BY <2>3 DEF fresh
  <2> QED BY <1>3, <1>4, <2>2, <2>3, <2>4, <2>5
<1>5. CASE some = {}
  BY <1>3, <1>5
<1> QED BY <1>4, <1>5

(* An ordinary turn *)
LEMMA Selected ==
  ASSUME NEW phase \in Phase, NEW mood \in Mood, NEW known, NEW attempt \in BOOLEAN
  PROVE  \E i \in by_state[phase] :
           /\ select_question(phase, mood, attempt, known) = BANK[i]
           /\ i \in Fresh(by_state[phase], known, attempt) \/ Fresh(by_state[phase], known, attempt) = {}
<1> DEFINE third == First(by_state[phase])
           second == FirstFresh(by_state[phase], known, attempt, third)
<1>0. by_state[phase] \subseteq DOMAIN BANK /\ by_state[phase] # {}
  BY BankFacts
<1>1. PICK families : families = family_preference(phase, mood)
  OBVIOUS
<1>2. \A k \in DOMAIN families :
        Fresh(by_state_and_family(phase, families[k]), known, attempt) \subseteq Fresh(by_state[phase], known, attempt)
  <2>1. families \in Seq(Family)
    BY <1>1, Preferences
  <2>2. \A f \in Family : by_state_and_family(phase, f) \subseteq by_state[phase]
    BY BankFacts
  <2> QED BY <2>1, <2>2 DEF Fresh
<1>3. Fresh(by_state[phase], known, attempt) \subseteq by_state[phase]
  BY DEF Fresh
<1>4. \/ \E i \in Fresh(by_state[phase], known, attempt) : select_question(phase, mood, attempt, known) = BANK[i]
      \/ select_question(phase, mood, attempt, known) = second
  BY <1>1, <1>2, PreferredFound DEF select_question
<1>5. \/ \E i \in Fresh(by_state[phase], known, attempt) : second = BANK[i]
      \/ Fresh(by_state[phase], known, attempt) = {} /\ second = third
  BY <1>0, FreshFound
<1>6. \E i \in by_state[phase] : third = BANK[i]
  BY <1>0, FirstIsThere
<1> QED BY <1>3, <1>4, <1>5, <1>6

(* A turn for one family, whatever the phase *)
LEMMA SelectedOf ==
  ASSUME NEW family \in {"RECOVERY_STABILIZE", "ATTEMPT_ELICITATION"}, NEW known, NEW attempt \in BOOLEAN
  PROVE  \E i \in by_family[family] :
           /\ FirstFresh(by_family[family], known, attempt, First(by_family[family])) = BANK[i]
           /\ BANK[i].id \notin known \/ \A j \in by_family[family] : BANK[j].id \in known
           /\ ~BANK[i].tried
<1>0. by_family[family] \subseteq DOMAIN BANK /\ by_family[family] # {}
      /\ \A i \in by_family[family] : ~BANK[i].tried
  BY BankFacts, FamiliesAndPhases DEF Shape
<1>1. Fresh(by_family[family], known, attempt) = {i \in by_family[family] : BANK[i].id \notin known}
  BY <1>0 DEF Fresh, _meets_attempt_constraint
<1>2. \E i \in by_family[family] : First(by_family[family]) = BANK[i]
  BY <1>0, FirstIsThere
<1> QED BY <1>0, <1>1, <1>2, FreshFound

LEMMA TurnKinds ==
  ASSUME NEW t \in Turn
  PROVE  \/ t.kind = "ordinary" /\ t.phase \in Phase /\ t.mood \in Mood /\ t.attempt \in BOOLEAN
         \/ t.kind = "stabilize" /\ t.attempt \in BOOLEAN
         \/ t.kind = "demand"
BY PhasesAssumption DEF Turn

LEMMA LeftOf ==
  ASSUME NEW t \in Turn, NEW c, NEW q
  PROVE  /\ q \in Left(t, c) => q \in Questions /\ q.id \notin asked[c]
         /\ t.kind = "ordinary" =>
              (q \in Left(t, c) <=> /\ q \in Questions /\ q.id \notin asked[c]
                                    /\ q.phase = t.phase /\ (q.tried => t.attempt))
         /\ t.kind = "stabilize" =>
              (q \in Left(t, c) <=> q \in Questions /\ q.id \notin asked[c] /\ q.family = "RECOVERY_STABILIZE")
         /\ t.kind = "demand" =>
              (q \in Left(t, c) <=> q \in Questions /\ q.id \notin asked[c] /\ q.family = "ATTEMPT_ELICITATION")
BY DEF Left, Fitting

LEMMA OrdinaryLeft ==
  ASSUME NEW t \in Turn, NEW c, t.kind = "ordinary"
  PROVE  Left(t, c) = {BANK[i] : i \in Fresh(by_state[t.phase], asked[c], t.attempt)}
<1>1. t.phase \in Phase /\ t.attempt \in BOOLEAN
  BY TurnKinds
<1>2. ASSUME NEW q \in Left(t, c) PROVE \E i \in Fresh(by_state[t.phase], asked[c], t.attempt) : q = BANK[i]
  <2>1. PICK i \in DOMAIN BANK : q = BANK[i]
    BY <1>2, LeftOf DEF Questions
  <2>2. i \in by_state[t.phase]
    BY <1>1, <1>2, <2>1, LeftOf, BankFacts
  <2> QED BY <1>2, <2>1, <2>2, LeftOf DEF Fresh, _meets_attempt_constraint
<1>3. ASSUME NEW i \in Fresh(by_state[t.phase], asked[c], t.attempt) PROVE BANK[i] \in Left(t, c)
  <2>1. i \in by_state[t.phase] /\ BANK[i].id \notin asked[c] /\ (BANK[i].tried => t.attempt)
    BY DEF Fresh, _meets_attempt_constraint
  <2>2. i \in DOMAIN BANK /\ BANK[i].phase = t.phase
    BY <1>1, <2>1, BankFacts
  <2> QED BY <2>1, <2>2, LeftOf DEF Questions
<1> QED BY <1>2, <1>3

(* Of the questions a turn plans *)
LEMMA PlannedQuestion ==
  ASSUME NEW t \in Turn, NEW c
  PROVE  /\ Planned(t, asked[c]) \in Questions
         /\ Left(t, c) # {} => Planned(t, asked[c]) \in Left(t, c)
         /\ t.kind = "stabilize" => ~Planned(t, asked[c]).tried
         /\ t.kind = "ordinary" => Planned(t, asked[c]).phase = t.phase
<1>1. CASE t.kind = "ordinary"
  <2>0. t.phase \in Phase /\ t.mood \in Mood /\ t.attempt \in BOOLEAN
    BY <1>1, TurnKinds
  <2>1. Planned(t, asked[c]) = select_question(t.phase, t.mood, t.attempt, asked[c])
    BY <1>1 DEF Planned
  <2>2. PICK i \in by_state[t.phase] :
           /\ Planned(t, asked[c]) = BANK[i]
           /\ \/ i \in Fresh(by_state[t.phase], asked[c], t.attempt)
              \/ Fresh(by_state[t.phase], asked[c], t.attempt) = {}
    BY <2>0, <2>1, Selected
  <2>3. i \in DOMAIN BANK /\ BANK[i].phase = t.phase
    BY <2>0, <2>2, BankFacts
  <2> QED BY <1>1, <2>2, <2>3, OrdinaryLeft DEF Questions
<1>2. ASSUME t.kind # "ordinary",
             NEW family \in {"RECOVERY_STABILIZE", "ATTEMPT_ELICITATION"}, NEW attempt \in BOOLEAN,
             Planned(t, asked[c]) = FirstFresh(by_family[family], asked[c], attempt, First(by_family[family])),
             \A q : q \in Left(t, c) <=> q \in Questions /\ q.id \notin asked[c] /\ q.family = family
      PROVE  /\ Planned(t, asked[c]) \in Questions /\ ~Planned(t, asked[c]).tried
             /\ Left(t, c) # {} => Planned(t, asked[c]) \in Left(t, c)
  <2>1. PICK i \in by_family[family] :
           /\ Planned(t, asked[c]) = BANK[i] /\ ~BANK[i].tried
           /\ BANK[i].id \notin asked[c] \/ \A j \in by_family[family] : BANK[j].id \in asked[c]
    BY <1>2, SelectedOf
  <2>2. by_family[family] = {j \in DOMAIN BANK : BANK[j].family = family}
    BY BankFacts, FamiliesAndPhases
  <2>3. Left(t, c) # {} => \E j \in by_family[family] : BANK[j].id \notin asked[c]
    BY <1>2, <2>2 DEF Questions
  <2> QED BY <1>2, <2>1, <2>2, <2>3 DEF Questions
<1>3. CASE t.kind = "stabilize"
  <2>1. Planned(t, asked[c]) = FirstFresh(by_family["RECOVERY_STABILIZE"], asked[c], t.attempt,
                                          First(by_family["RECOVERY_STABILIZE"]))
    BY <1>3 DEF Planned, select_forced
  <2>2. t.attempt \in BOOLEAN
    BY <1>3, TurnKinds
  <2> QED BY <1>2, <1>3, <2>1, <2>2, LeftOf
<1>4. CASE t.kind = "demand"
  <2>1. Planned(t, asked[c]) = FirstFresh(by_family["ATTEMPT_ELICITATION"], asked[c], TRUE,
                                          First(by_family["ATTEMPT_ELICITATION"]))
    BY <1>4 DEF Planned, select_attempt_question
  <2> QED BY <1>2, <1>4, <2>1, LeftOf
<1> QED BY <1>1, <1>3, <1>4, TurnKinds

(***************************************************************************)
(* NoNeedlessRepeat: a question asked before comes again only when every   *)
(* question that fits the turn has been asked, for any memory.  Pass 1     *)
(* looks at fitting questions only, and pass 2 at all of them (selector.py *)
(* select_question, elicit_attempt.py).                                    *)
(***************************************************************************)
THEOREM QuestionsComeBackLast == Spec => []NoNeedlessRepeat
<1>1. NoNeedlessRepeat
  BY PlannedQuestion DEF NoNeedlessRepeat
<1> QED BY <1>1, PTL

(* An overloaded student is challenged when the gentle families are used up *)
LEMMA GentleFirst ==
  ASSUME NEW t \in Turn, NEW c, t.kind = "ordinary", t.mood = "overloaded", Planned(t, asked[c]).hard
  PROVE  \A q \in Left(t, c) : q.family \notin {"MONITORING_CHECK", "SELF_EXPLANATION"}
<1> DEFINE p == Planned(t, asked[c])
<1>0. t.phase \in Phase /\ t.mood \in Mood /\ t.attempt \in BOOLEAN /\ p \in Questions /\ p.phase = t.phase
  BY TurnKinds, PlannedQuestion
<1>1. /\ \A q \in Questions : q.hard =>
           q.family \in {"CALIBRATION", "DISCREPANCY_DETECTION"} /\ q.phase = "MONITORING"
      /\ t.phase = "MONITORING"
  <2>1. \A q \in Questions : q \in Shape
    BY BankFacts DEF Questions
  <2> QED BY <1>0, <2>1 DEF Shape
<1>2. PICK families : families = family_preference(t.phase, t.mood)
  OBVIOUS
<1>3. families = <<"MONITORING_CHECK", "SELF_EXPLANATION">>
  BY <1>1, <1>2 DEF family_preference
<1>4. 1 \in DOMAIN families /\ families[1] = "MONITORING_CHECK" /\ 2 \in DOMAIN families
      /\ families[2] = "SELF_EXPLANATION" /\ DOMAIN families = {1, 2}
  BY <1>3
<1>5. p = FirstPreferred(t.phase, t.mood, asked[c], t.attempt,
            FirstFresh(by_state[t.phase], asked[c], t.attempt, First(by_state[t.phase])))
  BY DEF Planned, select_question
<1>6. ASSUME NEW k \in DOMAIN families,
             NEW i \in Fresh(by_state_and_family(t.phase, families[k]), asked[c], t.attempt), p = BANK[i]
      PROVE  FALSE
  <2>1. BANK[i].family = families[k] /\ families[k] \in Family
    BY <1>0, <1>4, BankFacts, FamiliesAndPhases DEF Fresh
  <2> QED BY <1>0, <1>1, <1>4, <1>6, <2>1
<1>7. \A k \in DOMAIN families :
        Fresh(by_state_and_family(t.phase, families[k]), asked[c], t.attempt) = {}
  BY <1>0, <1>2, <1>5, <1>6, PreferredFound
<1>8. ASSUME NEW q \in Left(t, c), NEW k \in DOMAIN families, q.family = families[k] PROVE FALSE
  <2>1. PICK i \in Fresh(by_state[t.phase], asked[c], t.attempt) : q = BANK[i]
    BY OrdinaryLeft
  <2>2. families[k] \in Family /\ i \in by_state[t.phase]
    BY <1>4, FamiliesAndPhases, <2>1 DEF Fresh
  <2>3. i \in by_state_and_family(t.phase, families[k])
    BY <1>0, <1>8, <2>1, <2>2, BankFacts
  <2>4. i \in Fresh(by_state_and_family(t.phase, families[k]), asked[c], t.attempt)
    BY <2>1, <2>3 DEF Fresh
  <2> QED BY <1>7, <2>4
<1> QED BY <1>4, <1>8

(***************************************************************************)
(* QuestionFits: a student without an attempt is asked about one only when *)
(* nothing else is left in the phase, and an overloaded one is challenged  *)
(* only when the gentle families are used up (selector.py).  It hangs on   *)
(* the tags of the bank: no recovery question asks for an attempt, and no  *)
(* hard question is of a gentle family.                                    *)
(***************************************************************************)
THEOREM QuestionsFitTheStudent == Spec => []QuestionFits
<1>1. ASSUME NEW c \in open, NEW t \in Turn, t.kind # "demand", Planned(t, asked[c]).tried, ~t.attempt
      PROVE  Left(t, c) = {}
  <2>1. t.kind = "ordinary"
    BY <1>1, TurnKinds, PlannedQuestion
  <2>2. Left(t, c) # {} => (Planned(t, asked[c]).tried => t.attempt)
    BY <2>1, LeftOf, PlannedQuestion
  <2> QED BY <1>1, <2>2
<1>2. QuestionFits
  BY <1>1, GentleFirst DEF QuestionFits
<1> QED BY <1>2, PTL

-----------------------------------------------------------------------------
(* The memory of a session *)

LEMMA PlannedId ==
  ASSUME NEW t \in Turn, NEW c
  PROVE  Planned(t, asked[c]).id \in Id /\ Planned(t, asked[c]).id # "nothing"
<1>1. Planned(t, asked[c]) \in Questions
  BY PlannedQuestion
<1>2. \A q \in Questions : q.id \in Ids
  BY BankFacts DEF Questions, Shape
<1> QED BY <1>1, <1>2 DEF Id, Ids

LEMMA TypeInit == Init => TypeOK
<1> SUFFICES ASSUME Init PROVE TypeOK
  OBVIOUS
<1>1. open \subseteq Conn
  BY DEF Init
<1> QED BY <1>1, BoundsAssumption DEF Init, TypeOK

LEMMA TypeNext == TypeOK /\ [Next]_vars => TypeOK'
<1> SUFFICES ASSUME TypeOK, [Next]_vars PROVE TypeOK'
  OBVIOUS
<1> USE DEF TypeOK
<1>1. ASSUME NEW c \in Conn, Enter(c) PROVE TypeOK'
  BY <1>1 DEF Enter, Resumable
<1>2. ASSUME NEW c \in Conn, Persist(c) PROVE TypeOK'
  BY <1>2 DEF Persist, Forgotten, Happens
<1>3. ASSUME NEW c \in Conn, WrapUp(c) PROVE TypeOK'
  <2>1. snapshot' \in {Nothing} \cup SUBSET Id /\ happened' \subseteq Fault
    BY <1>3 DEF WrapUp, Happens
  <2>2. open' = open \ {c}
    BY <1>3 DEF WrapUp
  <2>3. CASE /\ saving' = [saving EXCEPT ![c] = Nothing] /\ asked' = Forgotten(c) /\ UNCHANGED lingering
    <3>1. saving' \in [Conn -> {Nothing} \cup SUBSET Id] /\ \A d \in lingering : saving'[d] = Nothing
      BY <2>3
    <3>2. asked' \in [Conn -> SUBSET Id]
      BY <2>3 DEF Forgotten
    <3> QED BY <1>3, <2>1, <2>2, <2>3, <3>1, <3>2 DEF WrapUp
  <2>4. CASE UNCHANGED <<saving, asked, lingering>>
    BY <1>3, <2>1, <2>2, <2>4 DEF WrapUp
  <2>5. CASE saving[c] = Nothing /\ lingering' = lingering \cup {c} /\ UNCHANGED <<saving, asked>>
    BY <1>3, <2>1, <2>2, <2>5 DEF WrapUp
  <2> QED BY <1>3, <2>3, <2>4, <2>5 DEF WrapUp
<1>4. ASSUME NEW c \in Conn, Expire(c) PROVE TypeOK'
  BY <1>4 DEF Expire, Forgotten
<1>5. ASSUME NEW c \in Conn, NEW t \in Turn, Record(c, t) PROVE TypeOK'
  <2>1. Planned(t, asked[c]).id \in Id
    BY PlannedId
  <2> QED BY <1>5, <2>1, BoundsAssumption DEF Record
<1>6. CASE Crash
  BY <1>6 DEF Crash, Happens
<1>7. CASE UNCHANGED vars
  BY <1>7 DEF vars
<1> QED BY <1>1, <1>2, <1>3, <1>4, <1>5, <1>6, <1>7 DEF Next

(***************************************************************************)
(* Whoever connects, ends, lingers or dies, what is asked and remembered   *)
(* are questions of the bank, and a connection that lingers has nothing    *)
(* to commit yet.                                                          *)
(***************************************************************************)
THEOREM QuestionsTypeCorrect == Spec => []TypeOK
<1> QED BY TypeInit, TypeNext, PTL DEF Spec

(* One connection at a time; it is of use until its last turn has committed *)
Alive(c) == c \in open \cup lingering \/ saving[c] # Nothing

SavingIsAsked == \A c \in Conn : saving[c] # Nothing => saving[c] = asked[c]

(* Without faults but failing commits of open connections nothing is forgotten *)
AllRemembered ==
  happened \subseteq {"persist"} =>
    \A c \in Conn : /\ Alive(c) => told \subseteq asked[c]
                    /\ ~Alive(c) \/ c \in lingering => told \subseteq snapshot

(* A fault costs a question; one more is missing from the snapshot while it is being saved *)
FewForgotten ==
  \A c \in Conn :
    /\ Alive(c) => Cardinality(told \ asked[c]) <= Cardinality(happened)
    /\ Cardinality(told \ snapshot) <= Cardinality(happened) + (IF saving[c] # Nothing THEN 1 ELSE 0)

MemoryInv == Conn # {} /\ SavingIsAsked /\ AllRemembered /\ FewForgotten

LEMMA IdsFinite == \A S : S \subseteq Id => IsFiniteSet(S) /\ Cardinality(S) \in Nat
<1>1. \A id \in Id : id \in Ids
  BY BankFacts DEF Id, Questions, Shape
<1>2. IsFiniteSet(Id)
  <2>1. DOMAIN BANK = 1 .. Len(BANK) /\ Len(BANK) \in Nat
    BY BankShape
  <2>2. IsFiniteSet(DOMAIN BANK)
    BY <2>1, FS_Interval
  <2>3. Id = {BANK[i].id : i \in DOMAIN BANK}
    BY DEF Id, Questions
  <2>4. PICK f : f = [i \in DOMAIN BANK |-> BANK[i].id]
    OBVIOUS
  <2>5. f \in Surjection(DOMAIN BANK, Id)
    BY <2>3, <2>4 DEF Surjection
  <2> QED BY <2>2, <2>5, FS_Surjection
<1> QED BY <1>2, FS_Subset, FS_CardinalityType

LEMMA Fewer ==
  ASSUME NEW S, NEW T, S \subseteq T, T \subseteq Id
  PROVE  Cardinality(S) <= Cardinality(T)
BY IdsFinite, FS_Subset

LEMMA OneMore ==
  ASSUME NEW S, NEW T, NEW q, S \subseteq T \cup {q}, T \subseteq Id, q \in Id
  PROVE  Cardinality(S) <= Cardinality(T) + 1
<1>1. T \cup {q} \subseteq Id
  OBVIOUS
<1>2. Cardinality(T \cup {q}) <= Cardinality(T) + 1
  BY <1>1, IdsFinite, FS_AddElement
<1> QED BY <1>1, <1>2, Fewer, IdsFinite

LEMMA FaultsFinite == TypeOK => IsFiniteSet(happened) /\ Cardinality(happened) \in Nat
<1>1. IsFiniteSet({"persist"})
  BY FS_Singleton
<1>2. IsFiniteSet({"persist"} \cup {"late"})
  BY <1>1, FS_AddElement
<1>3. IsFiniteSet(({"persist"} \cup {"late"}) \cup {"crash"})
  BY <1>2, FS_AddElement
<1>4. TypeOK => happened \subseteq ({"persist"} \cup {"late"}) \cup {"crash"}
  BY BoundsAssumption DEF TypeOK
<1> QED BY <1>3, <1>4, FS_Subset, FS_CardinalityType

(* A fault more *)
LEMMA OneFault ==
  ASSUME TypeOK, NEW f, Happens(f)
  PROVE  Cardinality(happened') = Cardinality(happened) + 1 /\ f \in happened'
<1>1. IsFiniteSet(happened) /\ f \notin happened
  BY FaultsFinite DEF Happens
<1> QED BY <1>1, FS_AddElement DEF Happens

LEMMA MemoryInit == Init => MemoryInv
<1> SUFFICES ASSUME Init PROVE MemoryInv
  OBVIOUS
<1>1. told = {} /\ happened = {} /\ snapshot = Nothing /\ \A c \in Conn : asked[c] = {} /\ saving[c] = Nothing
  BY DEF Init
<1>2. Cardinality(told \ snapshot) = 0 /\ Cardinality(happened) = 0
      /\ \A c \in Conn : Cardinality(told \ asked[c]) = 0
  <2>1. \A S : told \ S = {}
    BY <1>1
  <2> QED BY <1>1, <2>1, FS_EmptySet
<1>3. Conn # {} /\ SavingIsAsked /\ AllRemembered
  BY <1>1 DEF Init, SavingIsAsked, AllRemembered
<1>4. FewForgotten
  BY <1>2 DEF FewForgotten
<1> QED BY <1>3, <1>4 DEF MemoryInv

LEMMA MemoryNext ==
  ASSUME \A c, d \in Conn : c = d, TypeOK, MemoryInv, [Next]_vars
  PROVE  MemoryInv'
<1> DEFINE n == Cardinality(happened)
<1>0. /\ n \in Nat /\ \A S : Cardinality(told \ S) \in Nat
      /\ told \subseteq Id /\ told' \subseteq Id /\ asked \in [Conn -> SUBSET Id] /\ open \cap lingering = {}
  <2>1. TypeOK'
    BY TypeNext
  <2>3. n \in Nat
    BY FaultsFinite
  <2>4. ASSUME NEW S PROVE Cardinality(told \ S) \in Nat
    <3>1. told \ S \subseteq Id
      BY DEF TypeOK
    <3> QED BY <3>1, IdsFinite
  <2> QED BY <2>1, <2>3, <2>4 DEF TypeOK
<1>a. ASSUME NEW c \in Conn,
             Alive(c)' => Cardinality(told' \ asked'[c]) <= Cardinality(happened'),
             saving'[c] # Nothing => Cardinality(told' \ snapshot') <= Cardinality(happened') + 1,
             saving'[c] = Nothing => Cardinality(told' \ snapshot') <= Cardinality(happened'),
             Cardinality(happened') \in Nat
      PROVE  FewForgotten'
  <2>1. \A d \in Conn : d = c
    OBVIOUS
  <2>2. Cardinality(told' \ snapshot') <= Cardinality(happened') + IF saving'[c] # Nothing THEN 1 ELSE 0
    BY <1>a
  <2> QED BY <1>a, <2>1, <2>2 DEF FewForgotten
<1>n. n \in Nat
  BY <1>0
<1>b. ASSUME NEW c \in Conn
      PROVE  /\ Alive(c) => Cardinality(told \ asked[c]) <= n
             /\ saving[c] # Nothing => Cardinality(told \ snapshot) <= n + 1
             /\ saving[c] = Nothing => Cardinality(told \ snapshot) <= n
  <2>1. Alive(c) => Cardinality(told \ asked[c]) <= n
    BY DEF MemoryInv, FewForgotten
  <2>2. Cardinality(told \ snapshot) <= n + (IF saving[c] # Nothing THEN 1 ELSE 0)
    BY DEF MemoryInv, FewForgotten
  <2>3. saving[c] # Nothing => Cardinality(told \ snapshot) <= n + 1
    BY <2>2
  <2>4. saving[c] = Nothing => Cardinality(told \ snapshot) <= n + 0
    BY <2>2
  <2>5. n + 0 = n
    BY <1>n
  <2> QED BY <2>1, <2>3, <2>4, <2>5
<1>c. Cardinality(happened) = n
  OBVIOUS
<1> HIDE DEF n
<1> USE DEF MemoryInv
<1>1. ASSUME NEW c \in Conn, Enter(c) PROVE MemoryInv'
  <2>1. /\ ~Alive(c) /\ asked'[c] = snapshot /\ saving' = saving /\ saving[c] = Nothing
        /\ told' = told /\ happened' = happened /\ snapshot' = snapshot /\ c \in open' /\ lingering' = lingering
    BY <1>0, <1>1 DEF Enter, Alive
  <2>2. SavingIsAsked'
    BY <2>1 DEF SavingIsAsked
  <2>3. AllRemembered'
    BY <2>1 DEF AllRemembered, Alive
  <2>4. told' \ asked'[c] = told \ snapshot /\ told' \ snapshot' = told \ snapshot
    BY <2>1
  <2>5. Cardinality(told \ snapshot) <= n /\ Cardinality(told \ snapshot) \in Nat
    BY <1>0, <1>b, <2>1
  <2>6. FewForgotten'
    BY <1>n, <1>a, <1>c, <2>1, <2>4, <2>5
  <2> QED BY <2>2, <2>3, <2>6
<1>2. ASSUME NEW c \in Conn, Persist(c) PROVE MemoryInv'
  <2>1. /\ saving[c] # Nothing /\ saving[c] = asked[c] /\ saving'[c] = Nothing /\ c \notin lingering
        /\ told' = told /\ open' = open /\ lingering' = lingering
        /\ Alive(c) /\ (c \in open => asked' = asked) /\ (c \notin open => ~Alive(c)')
    BY <1>2 DEF Persist, SavingIsAsked, TypeOK, Alive
  <2>2. SavingIsAsked'
    BY <2>1 DEF SavingIsAsked
  <2>3. CASE snapshot' = saving[c] /\ UNCHANGED happened
    <3>1. AllRemembered'
      BY <2>1, <2>3 DEF AllRemembered, Alive
    <3>2. told' \ snapshot' = told \ asked[c] /\ (c \in open => told' \ asked'[c] = told \ asked[c])
      BY <2>1, <2>3
    <3>3. Cardinality(told \ asked[c]) <= n /\ Cardinality(told \ asked[c]) \in Nat
      BY <1>0, <1>b, <2>1
    <3>4. Cardinality(told' \ snapshot') <= Cardinality(happened')
      BY <1>c, <2>3, <3>2, <3>3
    <3>5. Alive(c)' => Cardinality(told' \ asked'[c]) <= Cardinality(happened')
      BY <1>c, <2>1, <2>3, <3>2, <3>3
    <3>6. FewForgotten'
      BY <1>a, <1>c, <1>n, <2>1, <2>3, <3>4, <3>5
    <3> QED BY <2>2, <3>1, <3>6
  <2>4. CASE Happens(IF c \in open THEN "persist" ELSE "late") /\ UNCHANGED snapshot
    <3>1. PICK f : f = IF c \in open THEN "persist" ELSE "late"
      OBVIOUS
    <3>2. Cardinality(happened') = n + 1 /\ f \in happened' /\ happened \subseteq happened'
      BY <2>4, <3>1, OneFault DEF n, Happens
    <3>3. happened' \subseteq {"persist"} => c \in open /\ happened \subseteq {"persist"}
      BY <3>1, <3>2
    <3>4. AllRemembered'
      BY <2>1, <2>4, <3>3 DEF AllRemembered, Alive
    <3>5. told' \ snapshot' = told \ snapshot /\ (c \in open => told' \ asked'[c] = told \ asked[c])
      BY <2>1, <2>4
    <3>6. /\ Cardinality(told \ asked[c]) <= n /\ Cardinality(told \ snapshot) <= n + 1
          /\ Cardinality(told \ asked[c]) \in Nat /\ Cardinality(told \ snapshot) \in Nat
      BY <1>0, <1>b, <2>1
    <3>7. Alive(c)' => Cardinality(told' \ asked'[c]) <= Cardinality(happened')
      BY <1>n, <2>1, <3>2, <3>5, <3>6
    <3>8. Cardinality(told' \ snapshot') <= Cardinality(happened') /\ Cardinality(happened') \in Nat
      <4>1. Cardinality(told' \ snapshot') = Cardinality(told \ snapshot)
        BY <3>5
      <4> QED BY <1>n, <3>2, <3>6, <4>1
    <3>9. FewForgotten'
      BY <1>a, <2>1, <3>7, <3>8
    <3> QED BY <2>2, <3>4, <3>9
  <2> QED BY <1>2, <2>3, <2>4 DEF Persist
<1>3. ASSUME NEW c \in Conn, WrapUp(c) PROVE MemoryInv'
  <2>1. /\ c \in open /\ c \notin lingering /\ c \notin open' /\ told' = told /\ Alive(c)
        /\ \/ saving'[c] = Nothing /\ lingering' = lingering /\ ~Alive(c)'
           \/ saving[c] # Nothing /\ UNCHANGED <<saving, asked, lingering>>
           \/ saving[c] = Nothing /\ lingering' = lingering \cup {c} /\ UNCHANGED <<saving, asked>>
    BY <1>0, <1>3 DEF WrapUp, TypeOK, Alive
  <2>2. SavingIsAsked'
    BY <2>1 DEF SavingIsAsked
  <2>3. CASE snapshot' = asked[c] /\ UNCHANGED happened
    <3>1. AllRemembered'
      BY <2>1, <2>3 DEF AllRemembered, Alive
    <3>2. /\ told' \ snapshot' = told \ asked[c] /\ (Alive(c)' => told' \ asked'[c] = told \ asked[c])
      BY <2>1, <2>3
    <3>3. Cardinality(told \ asked[c]) <= n /\ Cardinality(told \ asked[c]) \in Nat
      BY <1>0, <1>b, <2>1
    <3>4. Alive(c)' => Cardinality(told' \ asked'[c]) <= Cardinality(happened')
      BY <1>c, <2>3, <3>2, <3>3
    <3>5. Cardinality(told' \ snapshot') <= Cardinality(happened') /\ Cardinality(happened') \in Nat
      BY <1>n, <1>c, <2>3, <3>2, <3>3
    <3>6. Cardinality(told' \ snapshot') <= Cardinality(happened') + 1
      BY <1>n, <1>c, <2>3, <3>2, <3>3
    <3>7. FewForgotten'
      BY <1>a, <3>4, <3>5, <3>6
    <3> QED BY <2>2, <3>1, <3>7
  <2>4. CASE Happens("late") /\ UNCHANGED snapshot
    <3>1. Cardinality(happened') = n + 1 /\ "late" \in happened'
      BY <2>4, OneFault DEF n
    <3>2. AllRemembered'
      BY <3>1 DEF AllRemembered
    <3>3. told' \ snapshot' = told \ snapshot /\ (Alive(c)' => told' \ asked'[c] = told \ asked[c])
      BY <2>1, <2>4
    <3>4. /\ Cardinality(told \ asked[c]) <= n /\ Cardinality(told \ snapshot) <= n + 1
          /\ Cardinality(told \ asked[c]) \in Nat /\ Cardinality(told \ snapshot) \in Nat
      <4>1. Cardinality(told \ asked[c]) \in Nat /\ Cardinality(told \ snapshot) \in Nat
        BY <1>0
      <4>2. Cardinality(told \ asked[c]) <= n
        BY <1>b, <2>1
      <4>3. Cardinality(told \ snapshot) <= n + 1
        BY <1>b, <1>n, <4>1
      <4> QED BY <4>1, <4>2, <4>3
    <3>5. Alive(c)' => Cardinality(told' \ asked'[c]) <= Cardinality(happened')
      BY <1>n, <3>1, <3>3, <3>4
    <3>6. Cardinality(told' \ snapshot') <= Cardinality(happened') /\ Cardinality(happened') \in Nat
      <4>1. Cardinality(told' \ snapshot') = Cardinality(told \ snapshot)
        BY <3>3
      <4> QED BY <1>n, <3>1, <3>4, <4>1
    <3>7. Cardinality(told' \ snapshot') <= Cardinality(happened') + 1
      <4>1. Cardinality(told' \ snapshot') = Cardinality(told \ snapshot)
        BY <3>3
      <4> QED BY <1>n, <3>1, <3>4, <4>1
    <3>8. FewForgotten'
      BY <1>a, <3>5, <3>6, <3>7
    <3> QED BY <2>2, <3>2, <3>8
  <2> QED BY <1>3, <2>3, <2>4 DEF WrapUp
<1>4. ASSUME NEW c \in Conn, Expire(c) PROVE MemoryInv'
  <2>1. /\ c \in lingering /\ c \notin open /\ saving[c] = Nothing /\ saving' = saving /\ told' = told
        /\ snapshot' = snapshot /\ happened' = happened /\ ~Alive(c)'
    BY <1>0, <1>4 DEF Expire, TypeOK, Alive
  <2>2. SavingIsAsked' /\ AllRemembered'
    BY <2>1 DEF SavingIsAsked, AllRemembered
  <2>3. FewForgotten'
    BY <1>0, <2>1 DEF FewForgotten, n
  <2> QED BY <2>2, <2>3
<1>5. ASSUME NEW c \in Conn, NEW t \in Turn, Record(c, t) PROVE MemoryInv'
  <2>1. PICK q \in Id : q # "nothing" /\ q = Planned(t, asked[c]).id
    BY PlannedId
  <2>2. /\ Alive(c) /\ saving[c] = Nothing /\ asked'[c] = asked[c] \cup {q} /\ told' = told \cup {q}
        /\ saving'[c] = asked'[c] /\ c \notin lingering' /\ snapshot' = snapshot /\ happened' = happened
    BY <1>0, <1>5, <2>1 DEF Record, TypeOK, Alive
  <2>3. saving'[c] # Nothing
    BY <2>1, <2>2 DEF Nothing
  <2>4. SavingIsAsked'
    BY <2>2 DEF SavingIsAsked
  <2>5. AllRemembered'
    BY <2>2, <2>3 DEF AllRemembered, Alive
  <2>6. FewForgotten'
    <3>1. told' \ asked'[c] \subseteq told \ asked[c] /\ told \ asked[c] \subseteq Id
      BY <1>0, <2>2
    <3>2. Cardinality(told' \ asked'[c]) <= Cardinality(told \ asked[c])
      BY <3>1, Fewer
    <3>3. told' \ snapshot \subseteq (told \ snapshot) \cup {q} /\ told \ snapshot \subseteq Id
      BY <1>0, <2>2
    <3>4. Cardinality(told' \ snapshot) <= Cardinality(told \ snapshot) + 1
      BY <3>3, OneMore
    <3>5. Cardinality(told' \ asked'[c]) \in Nat /\ Cardinality(told' \ snapshot) \in Nat
      <4>1. told' \ asked'[c] \subseteq Id /\ told' \ snapshot \subseteq Id
        BY <1>0
      <4> QED BY <4>1, IdsFinite
    <3>6. Cardinality(told' \ asked'[c]) <= n /\ Cardinality(told' \ snapshot) <= n + 1
      <4>1. Cardinality(told \ asked[c]) \in Nat /\ Cardinality(told \ snapshot) \in Nat
        BY <1>0
      <4>2. Cardinality(told \ asked[c]) <= n /\ Cardinality(told \ snapshot) <= n
        BY <1>b, <2>2
      <4> QED BY <1>n, <3>2, <3>4, <3>5, <4>1, <4>2
    <3> QED BY <2>2, <2>3, <3>6 DEF FewForgotten, n
  <2> QED BY <2>4, <2>5, <2>6
<1>6. CASE Crash
  <2>1. /\ told' = told /\ snapshot' = snapshot /\ \A c \in Conn : saving'[c] = Nothing /\ ~Alive(c)'
        /\ Happens("crash")
    BY <1>6 DEF Crash, Alive
  <2>2. Cardinality(happened') = n + 1 /\ "crash" \in happened'
    BY <2>1, OneFault DEF n
  <2>3. SavingIsAsked' /\ AllRemembered'
    BY <2>1, <2>2 DEF SavingIsAsked, AllRemembered
  <2>4. ASSUME NEW c \in Conn PROVE FewForgotten'
    <3>0. Cardinality(told \ snapshot) \in Nat
      BY <1>0
    <3>1. Cardinality(told \ snapshot) <= n + 1 /\ Cardinality(told \ snapshot) \in Nat
      <4>1. CASE saving[c] = Nothing
        <5>1. Cardinality(told \ snapshot) <= n
          BY <1>b, <4>1
        <5> QED BY <1>n, <3>0, <5>1
      <4>2. CASE saving[c] # Nothing
        BY <1>b, <3>0, <4>2
      <4> QED BY <4>1, <4>2
    <3>2. told' \ snapshot' = told \ snapshot
      BY <2>1
    <3>3. Cardinality(told' \ snapshot') <= Cardinality(happened') /\ Cardinality(happened') \in Nat
      BY <1>n, <2>2, <3>1, <3>2
    <3> QED BY <1>a, <2>1, <3>3
  <2>5. FewForgotten'
    BY <2>4 DEF MemoryInv
  <2> QED BY <2>3, <2>5
<1>7. CASE UNCHANGED vars
  BY <1>7 DEF vars, SavingIsAsked, AllRemembered, FewForgotten, Alive
<1> QED BY <1>1, <1>2, <1>3, <1>4, <1>5, <1>6, <1>7 DEF Next

LEMMA MemoryInvariant ==
  ASSUME \A c, d \in Conn : c = d
  PROVE  Spec => []MemoryInv
<1>1. TypeOK /\ MemoryInv /\ [Next]_vars => MemoryInv'
  BY MemoryNext
<1> QED BY <1>1, MemoryInit, QuestionsTypeCorrect, PTL DEF Spec

(***************************************************************************)
(* Remembered: with one connection at a time, and no fault but commits     *)
(* that fail while it is open, the snapshot of a quiet session holds every *)
(* question it asked.  A turn that outlives its connection holds them all, *)
(* as the wrap-up has written them by then (_wrap_up_session).  Of two     *)
(* connections at once the last to write wins, and it does not hold.       *)
(***************************************************************************)
THEOREM NothingIsForgotten ==
  ASSUME \A c, d \in Conn : c = d
  PROVE  Spec => []Remembered
<1>1. MemoryInv => Remembered
  <2> SUFFICES ASSUME MemoryInv, Quiet, happened \subseteq {"persist"} PROVE told \subseteq snapshot
    BY DEF Remembered
  <2>1. MemoryInv /\ Quiet /\ happened \subseteq {"persist"}
    OBVIOUS
  <2> QED BY <2>1 DEF MemoryInv, AllRemembered, Quiet, Alive
<1> QED BY <1>1, MemoryInvariant, PTL

(***************************************************************************)
(* FailureForgetsLittle: a connection that resumes the session has lost at *)
(* most one question to each failed commit and to the death of the         *)
(* process: the next commit makes good what an earlier one lost, so only   *)
(* what was asked since can be missing (_persist_policy_state).            *)
(***************************************************************************)
THEOREM AFaultCostsAQuestion ==
  ASSUME \A c, d \in Conn : c = d
  PROVE  Spec => FailureForgetsLittle
<1>1. TypeOK /\ MemoryInv /\ [Next]_vars =>
        [\A c \in Conn : c \in open' \ open => Cardinality(told \ asked'[c]) <= Cardinality(happened)]_vars
  <2> SUFFICES ASSUME TypeOK, MemoryInv, Next, NEW c \in Conn, c \in open' \ open
               PROVE  Cardinality(told \ asked'[c]) <= Cardinality(happened)
    OBVIOUS
  <2>1. Enter(c)
    BY DEF Next, Persist, WrapUp, Expire, Record, Crash, Enter
  <2>2. asked'[c] = snapshot /\ saving[c] = Nothing
    BY <2>1 DEF Enter, TypeOK
  <2>3. Cardinality(told \ snapshot) \in Nat /\ Cardinality(happened) \in Nat
    <3>1. told \ snapshot \subseteq Id
      BY DEF TypeOK
    <3> QED BY <3>1, IdsFinite, FaultsFinite
  <2>4. Cardinality(told \ snapshot) <= Cardinality(happened) + IF saving[c] # Nothing THEN 1 ELSE 0
    BY DEF MemoryInv, FewForgotten
  <2> QED BY <2>2, <2>3, <2>4
<1> QED BY <1>1, MemoryInvariant, QuestionsTypeCorrect, PTL DEF Spec, FailureForgetsLittle


=============================================================================
