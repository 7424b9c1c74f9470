------------------------- MODULE SessionStatusProofs -------------------------
(***************************************************************************)
(* What follows from the promise of SessionStatus, for any number of       *)
(* sessions.  SessionLifecycle is checked by TLC to keep that promise.     *)
(***************************************************************************)
EXTENDS SessionStatus, TLAPS

(* Every reachable state of the abstract lifecycle is well typed.          *)
THEOREM StatusTypeCorrect == Spec => []TypeOK
<1>1. Init => TypeOK
  BY DEF Init, TypeOK, Status
<1>2. TypeOK /\ [Next]_vars => TypeOK'
  <2> SUFFICES ASSUME TypeOK, [Next]_vars PROVE TypeOK'
    OBVIOUS
  <2> USE DEF TypeOK, Status, Dispatched, Outcome
  <2>1. ASSUME NEW s \in Session, Open(s) PROVE TypeOK'
    BY <2>1 DEF Open
  <2>2. ASSUME NEW s \in Session, Close(s) PROVE TypeOK'
    BY <2>2 DEF Close
  <2>3. ASSUME NEW s \in Session, Dispatch(s) PROVE TypeOK'
    BY <2>3 DEF Dispatch
  <2>4. ASSUME NEW s \in Session, Settle(s) PROVE TypeOK'
    BY <2>4 DEF Settle
  <2>5. ASSUME NEW s \in Session, Forget(s) PROVE TypeOK'
    BY <2>5 DEF Forget
  <2>6. ASSUME NEW S \in SUBSET {s \in Session : status[s] # "none"}, Delete(S) PROVE TypeOK'
    BY <2>6 DEF Delete
  <2>7. CASE Lose
    BY <2>7 DEF Lose
  <2>8. CASE UNCHANGED vars
    BY <2>8 DEF vars
  <2> QED
    BY <2>1, <2>2, <2>3, <2>4, <2>5, <2>6, <2>7, <2>8 DEF Next
<1> QED
  BY <1>1, <1>2, PTL DEF Spec

-----------------------------------------------------------------------------
(***************************************************************************)
(* Nobody is evaluated, or waits for it, whose session is not closed.      *)
(***************************************************************************)
THEOREM DispatchedAreClosed == Spec => []DispatchedIsClosed
<1>1. Init => DispatchedIsClosed
  BY DEF Init, DispatchedIsClosed, Dispatched, Outcome
<1>2. TypeOK /\ DispatchedIsClosed /\ [Next]_vars => DispatchedIsClosed'
  <2> SUFFICES ASSUME TypeOK, DispatchedIsClosed, [Next]_vars PROVE DispatchedIsClosed'
    OBVIOUS
  <2> USE DEF TypeOK, DispatchedIsClosed, Dispatched, Outcome
  <2>1. ASSUME NEW s \in Session, Open(s) PROVE DispatchedIsClosed'
    BY <2>1 DEF Open
  <2>2. ASSUME NEW s \in Session, Close(s) PROVE DispatchedIsClosed'
    BY <2>2 DEF Close
  <2>3. ASSUME NEW s \in Session, Dispatch(s) PROVE DispatchedIsClosed'
    BY <2>3 DEF Dispatch
  <2>4. ASSUME NEW s \in Session, Settle(s) PROVE DispatchedIsClosed'
    BY <2>4 DEF Settle
  <2>5. ASSUME NEW s \in Session, Forget(s) PROVE DispatchedIsClosed'
    BY <2>5 DEF Forget
  <2>6. ASSUME NEW S \in SUBSET {s \in Session : status[s] # "none"}, Delete(S)
        PROVE DispatchedIsClosed'
    BY <2>6 DEF Delete
  <2>7. CASE Lose
    BY <2>7 DEF Lose
  <2>8. CASE UNCHANGED vars
    BY <2>8 DEF vars
  <2> QED
    BY <2>1, <2>2, <2>3, <2>4, <2>5, <2>6, <2>7, <2>8 DEF Next
<1> QED
  BY <1>1, <1>2, StatusTypeCorrect, PTL DEF Spec

-----------------------------------------------------------------------------
(***************************************************************************)
(* When neither a restart nor a failing statement loses a request, every   *)
(* pending session has somebody at work on it: none is forgotten.          *)
(***************************************************************************)
THEOREM PendingAreOwed == Spec => []PendingIsOwed
<1>1. Init => PendingIsOwed
  BY DEF Init, PendingIsOwed
<1>2. TypeOK /\ PendingIsOwed /\ [Next]_vars => PendingIsOwed'
  <2> SUFFICES ASSUME TypeOK, PendingIsOwed, [Next]_vars, ~MayLose,
                      NEW t \in Session, status'[t] = "PENDING_EVALUATION"
               PROVE  owed'[t] > 0
    BY DEF PendingIsOwed
  <2>0. status[t] = "PENDING_EVALUATION" => owed[t] > 0
    BY DEF PendingIsOwed
  <2> USE <2>0 DEF TypeOK, Dispatched, Outcome
  <2>1. ASSUME NEW s \in Session, Open(s) PROVE owed'[t] > 0
    BY <2>1 DEF Open
  <2>2. ASSUME NEW s \in Session, Close(s) PROVE owed'[t] > 0
    BY <2>2 DEF Close
  <2>3. ASSUME NEW s \in Session, Dispatch(s) PROVE owed'[t] > 0
    BY <2>3 DEF Dispatch
  <2>4. ASSUME NEW s \in Session, Settle(s) PROVE owed'[t] > 0
    BY <2>4 DEF Settle
  <2>5. ASSUME NEW s \in Session, Forget(s) PROVE owed'[t] > 0
    BY <2>5 DEF Forget
  <2>6. ASSUME NEW S \in SUBSET {s \in Session : status[s] # "none"}, Delete(S)
        PROVE owed'[t] > 0
    BY <2>6 DEF Delete
  <2>7. CASE Lose
    BY <2>7 DEF Lose
  <2>8. CASE UNCHANGED vars
    BY <2>8 DEF vars
  <2> QED
    BY <2>1, <2>2, <2>3, <2>4, <2>5, <2>6, <2>7, <2>8 DEF Next
<1> QED
  BY <1>1, <1>2, StatusTypeCorrect, PTL DEF Spec
=============================================================================
