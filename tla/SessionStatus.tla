---------------------------- MODULE SessionStatus ----------------------------
(***************************************************************************)
(* What the lifecycle of a session promises (src/core/models.py,           *)
(* SessionStatus), whoever opens, closes, dispatches and evaluates it:     *)
(* a session leaves IN_PROGRESS once and only when it is closed, an        *)
(* evaluation is asked for closed sessions only, and every outcome answers *)
(* a request.                                                              *)
(***************************************************************************)
EXTENDS Integers

CONSTANTS
  Session,    \* the sessions that may ever be created
  MayLose     \* whether requests may be lost: a restart, a failing statement

VARIABLES
  status,     \* ChatSession.status; "none" before, "deleted" after the row exists
  closed,     \* finalized_at is set
  owed        \* evaluations asked for and not yet answered

vars == <<status, closed, owed>>

Outcome == {"EVALUATED", "EVALUATION_FAILED"}
Dispatched == {"PENDING_EVALUATION"} \cup Outcome
Status == {"none", "IN_PROGRESS", "deleted"} \cup Dispatched

Open(s) ==
  /\ status[s] = "none"
  /\ status' = [status EXCEPT ![s] = "IN_PROGRESS"]
  /\ UNCHANGED <<closed, owed>>

Close(s) ==
  /\ status[s] = "IN_PROGRESS"
  /\ closed' = [closed EXCEPT ![s] = TRUE]
  /\ UNCHANGED <<status, owed>>

(* The deadline sweep closes what it dispatches; the others find it closed *)
Dispatch(s) ==
  /\ status[s] \in {"IN_PROGRESS"} \cup Dispatched
  /\ status' = [status EXCEPT ![s] = "PENDING_EVALUATION"]
  /\ closed' = [closed EXCEPT ![s] = TRUE]
  /\ owed' = [owed EXCEPT ![s] = @ + 1]

Settle(s) ==
  /\ owed[s] > 0
  /\ status[s] \in Dispatched
  /\ \E o \in Outcome : status' = [status EXCEPT ![s] = o]
  /\ owed' = [owed EXCEPT ![s] = @ - 1]
  /\ UNCHANGED closed

Delete(S) ==
  /\ status' = [s \in Session |-> IF s \in S THEN "deleted" ELSE status[s]]
  /\ closed' = [s \in Session |-> s \notin S /\ closed[s]]
  /\ UNCHANGED owed

(* The request for a deleted session comes to nothing *)
Forget(s) ==
  /\ owed[s] > 0 /\ status[s] = "deleted"
  /\ owed' = [owed EXCEPT ![s] = @ - 1]
  /\ UNCHANGED <<status, closed>>

Lose ==
  /\ MayLose
  /\ owed' \in [Session -> Nat]
  /\ \A s \in Session : owed'[s] <= owed[s]
  /\ UNCHANGED <<status, closed>>

Init ==
  /\ status = [s \in Session |-> "none"]
  /\ closed = [s \in Session |-> FALSE]
  /\ owed = [s \in Session |-> 0]

Next ==
  \/ \E s \in Session : Open(s) \/ Close(s) \/ Dispatch(s) \/ Settle(s) \/ Forget(s)
  \/ \E S \in SUBSET {s \in Session : status[s] # "none"} : Delete(S)
  \/ Lose

Spec == Init /\ [][Next]_vars

-----------------------------------------------------------------------------
TypeOK ==
  /\ status \in [Session -> Status]
  /\ closed \in [Session -> BOOLEAN]
  /\ owed \in [Session -> Nat]

(***************************************************************************)
(* An evaluation is asked for, and an outcome recorded, for closed         *)
(* sessions only (models.py: finalized_at tracks "the activity is truly    *)
(* done", status the evaluation).                                          *)
(***************************************************************************)
DispatchedIsClosed ==
  \A s \in Session : status[s] \in Dispatched => closed[s]

(***************************************************************************)
(* As long as nothing loses a request, a session that waits for its        *)
(* evaluation is waited for by somebody.                                   *)
(***************************************************************************)
PendingIsOwed ==
  ~MayLose => \A s \in Session : status[s] = "PENDING_EVALUATION" => owed[s] > 0
=============================================================================
