-------------------------- MODULE SessionLifecycle --------------------------
(***************************************************************************)
(* From the first connection of a student to an activity to the outcome of *)
(* its evaluation: ChatSession._setup_db_session, Step 7 of _process_turn  *)
(* and _wrap_up_session (src/api/session.py), the force-finalization sweep *)
(* of src/services/deadline_reminders.py, the queue and worker of          *)
(* src/services/metrics_evaluator.py, and the teacher's and administrator's*)
(* requests that touch the same rows.                                      *)
(*                                                                         *)
(* One student, one activity, several tabs.  An action is what happens     *)
(* between two awaits at which another task may change the rows; an UPDATE *)
(* writes the columns its transaction assigned, whatever they hold by then.*)
(***************************************************************************)
EXTENDS Integers, Sequences, FiniteSets

CONSTANTS
  MaxSessions,   \* bound: sessions ever created
  Conn,          \* the student's tabs
  Horizon,       \* bound: the clock
  FirstDeadline, \* the activity's deadline as published
  MaxAttempts,   \* attempts per evaluation (5 in the code)
  Budget,        \* bounds: how often the rare events of Event happen
  DbMayFail      \* a database statement may fail

Event == {"crash", "reset", "edit", "reevaluate"}

ASSUME BoundsAssumption == {MaxSessions, Horizon} \subseteq Nat
ASSUME MaxAttemptsAssumption == MaxAttempts \in Nat \ {0}
ASSUME ConnAssumption == IsFiniteSet(Conn)
ASSUME BudgetAssumption == Budget \in [Event -> Nat]
ASSUME DbMayFailAssumption == DbMayFail \in BOOLEAN

Session == 1 .. MaxSessions
NoSession == 0
NoTime == -1
\* a deadline the clock does not reach: 30 days from now, or none at all
Far == Horizon + 1
Time == 0 .. Far

ASSUME DeadlineAssumption == FirstDeadline \in Time

VARIABLES
  now,          \* the clock
  deadline,     \* ReflectionActivity.deadline
  session,      \* chat_sessions, and whether a user row exists
  conn,         \* the WebSocket handlers
  queue,        \* _evaluation_queue
  worker,       \* _evaluation_worker
  sweep,        \* _scan_deadline_force_evaluations
  budget,       \* rare events left
  (* history, read by the properties only *)
  asked         \* sessions an administrator had evaluated again

vars == <<now, deadline, session, conn, queue, worker, sweep, budget, asked>>
activityVars == <<now, deadline, budget>>

Dispatched == {"PENDING_EVALUATION", "EVALUATED", "EVALUATION_FAILED"}

SessionRow == [status : {"none", "IN_PROGRESS", "deleted"} \cup Dispatched,
               started : Time \cup {NoTime}, finalized : Time \cup {NoTime},
               engaged : BOOLEAN, saved : BOOLEAN]
NoRow == [status |-> "none", started |-> NoTime, finalized |-> NoTime,
          engaged |-> FALSE, saved |-> FALSE]

\* close is the finalized_at a closing turn is about to commit
Handler == [pc : {"off", "checked", "open", "wrapup", "commit", "dispatch"},
            session : Session \cup {NoSession}, close : Time \cup {NoTime}, evaluate : BOOLEAN]
Off == [pc |-> "off", session |-> NoSession, close |-> NoTime, evaluate |-> FALSE]

Idle == [pc |-> "idle", session |-> NoSession, attempt |-> 0]
Asleep == [pc |-> "idle", todo |-> {}, due |-> NoTime, target |-> NoSession]

Exists(s) == session[s].status \notin {"none", "deleted"}
Finalized(s) == session[s].finalized # NoTime
Change(s, row) == session' = [session EXCEPT ![s] = row]

-----------------------------------------------------------------------------
(***************************************************************************)
(* A connection.                                                           *)
(***************************************************************************)
At(c, pc) == conn[c].pc = pc
Mine(c) == conn[c].session

(* A handler that is over is forgotten, except for a closing turn still running *)
End(c) == conn' = [conn EXCEPT ![c] = [Off EXCEPT !.session = IF conn[c].close = NoTime
                                                             THEN NoSession ELSE Mine(c),
                                                  !.close = conn[c].close]]

(* Refused when the activity is finalized for the student, or expired *)
EnterCheck(c) ==
  /\ conn[c] = Off
  /\ \A s \in Session : Exists(s) => ~Finalized(s)
  /\ deadline >= now
  /\ conn' = [conn EXCEPT ![c].pc = "checked"]
  /\ UNCHANGED <<activityVars, session, queue, worker, sweep, asked>>

Resumable == {s \in Session : Exists(s) /\ ~Finalized(s) /\ session[s].saved}

(***************************************************************************)
(* The newest unfinalized session with a policy state is resumed (its      *)
(* status is assigned the value it has, which writes nothing); without one *)
(* a session is created.                                                   *)
(***************************************************************************)
EnterOpen(c) ==
  /\ At(c, "checked")
  /\ \/ \E s \in Resumable :
          /\ \A r \in Resumable : session[r].started <= session[s].started
          /\ conn' = [conn EXCEPT ![c].pc = "open", ![c].session = s]
          /\ UNCHANGED session
     \/ \E s \in Session :
          /\ Resumable = {}
          /\ session[s].status = "none" /\ \A r \in Session : r < s => session[r].status # "none"
          /\ Change(s, [NoRow EXCEPT !.status = "IN_PROGRESS", !.started = now])
          /\ conn' = [conn EXCEPT ![c].pc = "open", ![c].session = s]
     \/ DbMayFail /\ End(c) /\ UNCHANGED session
  /\ UNCHANGED <<activityVars, queue, worker, sweep, asked>>

(* The greeting has run: no user row, but a policy state *)
Greet(c) ==
  /\ At(c, "open") /\ Exists(Mine(c)) /\ ~session[Mine(c)].saved
  /\ Change(Mine(c), [session[Mine(c)] EXCEPT !.saved = TRUE])
  /\ UNCHANGED <<activityVars, conn, queue, worker, sweep, asked>>

(* A turn stores the message; one that is cut short stores no policy state *)
Answer(c) ==
  /\ At(c, "open") /\ Exists(Mine(c))
  /\ \E saved \in {TRUE, session[Mine(c)].saved} :
       Change(Mine(c), [session[Mine(c)] EXCEPT !.engaged = TRUE, !.saved = saved])
  /\ UNCHANGED <<activityVars, conn, queue, worker, sweep, asked>>

(* Step 7 of a closing turn: the row is read and finalized_at assigned ... *)
CloseRead(c) ==
  /\ At(c, "open") /\ conn[c].close = NoTime
  /\ Exists(Mine(c)) /\ session[Mine(c)].engaged /\ ~Finalized(Mine(c))
  /\ conn' = [conn EXCEPT ![c].close = now]
  /\ UNCHANGED <<activityVars, session, queue, worker, sweep, asked>>

(* ... and committed; then the socket is closed and the handler wraps up *)
CloseCommit(c) ==
  /\ conn[c].close # NoTime
  /\ \/ /\ Exists(Mine(c))
        /\ Change(Mine(c), [session[Mine(c)] EXCEPT !.finalized = conn[c].close])
     \/ /\ (~Exists(Mine(c)) \/ DbMayFail)
        /\ UNCHANGED session
  /\ conn' = [conn EXCEPT ![c] = IF At(c, "off") THEN Off
                                 ELSE [@ EXCEPT !.close = NoTime,
                                                !.pc = IF At(c, "open") THEN "wrapup"
                                                       ELSE conn[c].pc]]
  /\ UNCHANGED <<activityVars, queue, worker, sweep, asked>>

(* Disconnected, idle or failed: the closing turn, if any, keeps running *)
Leave(c) ==
  /\ At(c, "open")
  /\ conn' = [conn EXCEPT ![c].pc = "wrapup"]
  /\ UNCHANGED <<activityVars, session, queue, worker, sweep, asked>>

(* Slip: an unfinished session is evaluated too *)
WrapReadUnclosed(c) ==
  /\ At(c, "wrapup")
  /\ LET row == session[Mine(c)]
     IN IF ~Exists(Mine(c)) THEN End(c)
        ELSE conn' = [conn EXCEPT ![c].pc = "commit",
                                  ![c].evaluate = /\ row.status \notin Dispatched
                                                  /\ row.finalized <= deadline]
  /\ UNCHANGED <<activityVars, session, queue, worker, sweep, asked>>

(* _wrap_up_session: is the session to be evaluated? *)
WrapRead(c) ==
  /\ At(c, "wrapup")
  /\ LET row == session[Mine(c)]
     IN IF ~Exists(Mine(c)) THEN End(c)
        ELSE conn' = [conn EXCEPT ![c].pc = "commit",
                                  ![c].evaluate = /\ row.finalized # NoTime
                                                  /\ row.status \notin Dispatched
                                                  /\ row.finalized <= deadline]
  /\ UNCHANGED <<activityVars, session, queue, worker, sweep, asked>>

WrapCommit(c) ==
  /\ At(c, "commit")
  /\ \/ /\ Exists(Mine(c))
        /\ Change(Mine(c), [session[Mine(c)] EXCEPT
             !.saved = TRUE,
             !.status = IF conn[c].evaluate THEN "PENDING_EVALUATION" ELSE @])
        /\ IF conn[c].evaluate THEN conn' = [conn EXCEPT ![c].pc = "dispatch"] ELSE End(c)
     \/ /\ (~Exists(Mine(c)) \/ DbMayFail)
        /\ End(c) /\ UNCHANGED session
  /\ UNCHANGED <<activityVars, queue, worker, sweep, asked>>

(* The metrics row, then queue_evaluation; a failure of the first skips the second *)
WrapDispatch(c) ==
  /\ At(c, "dispatch")
  /\ \/ Exists(Mine(c)) /\ queue' = Append(queue, Mine(c))
     \/ /\ (~Exists(Mine(c)) \/ DbMayFail)
        /\ UNCHANGED queue
  /\ End(c)
  /\ UNCHANGED <<activityVars, session, worker, sweep, asked>>

-----------------------------------------------------------------------------
(***************************************************************************)
(* The evaluation worker.                                                  *)
(***************************************************************************)
Dequeue ==
  /\ worker.pc = "idle" /\ queue # <<>>
  /\ worker' = [pc |-> "read", session |-> Head(queue), attempt |-> 1]
  /\ queue' = Tail(queue)
  /\ UNCHANGED <<activityVars, session, conn, sweep, asked>>

(* Slips: one attempt too many; the attempts are not counted *)
AttemptFailsLate ==
  worker' = IF worker.attempt <= MaxAttempts
            THEN [worker EXCEPT !.pc = "read", !.attempt = @ + 1]
            ELSE [worker EXCEPT !.pc = "mark"]
AttemptFailsForever == worker' = [worker EXCEPT !.pc = "read"]

(* The exception of an attempt: back off and try again, or give up *)
AttemptFails ==
  worker' = IF worker.attempt < MaxAttempts
            THEN [worker EXCEPT !.pc = "read", !.attempt = @ + 1]
            ELSE [worker EXCEPT !.pc = "mark"]

(* evaluate_session up to the model call; a session nobody wrote in is skipped *)
EvalRead ==
  /\ worker.pc = "read"
  /\ IF ~Exists(worker.session) THEN AttemptFails
     ELSE IF ~session[worker.session].engaged THEN worker' = Idle
     ELSE worker' = [worker EXCEPT !.pc = "llm"]
  /\ UNCHANGED <<activityVars, session, conn, queue, sweep, asked>>

(* The model answers and the outcome is committed, or either fails *)
EvalWrite ==
  /\ worker.pc = "llm"
  /\ \/ /\ Exists(worker.session)
        /\ Change(worker.session, [session[worker.session] EXCEPT !.status = "EVALUATED"])
        /\ worker' = Idle
     \/ AttemptFails /\ UNCHANGED session
  /\ UNCHANGED <<activityVars, conn, queue, sweep, asked>>

(* _mark_session_failed *)
MarkFailed ==
  /\ worker.pc = "mark"
  /\ \/ /\ Exists(worker.session)
        /\ Change(worker.session, [session[worker.session] EXCEPT !.status = "EVALUATION_FAILED"])
     \/ /\ (~Exists(worker.session) \/ DbMayFail)
        /\ UNCHANGED session
  /\ worker' = Idle
  /\ UNCHANGED <<activityVars, conn, queue, sweep, asked>>

-----------------------------------------------------------------------------
(***************************************************************************)
(* The deadline sweep.                                                     *)
(***************************************************************************)
(* Slip: late-starters are swept as well *)
OverdueAnyStart == {s \in Session : /\ session[s].status = "IN_PROGRESS"
                                    /\ deadline <= now
                                    /\ session[s].engaged}

(* What a scan selects *)
Overdue == {s \in Session : /\ session[s].status = "IN_PROGRESS"
                            /\ deadline <= now
                            /\ session[s].started <= deadline
                            /\ session[s].engaged}

SweepScan ==
  /\ sweep = Asleep /\ Overdue # {}
  /\ sweep' = [Asleep EXCEPT !.pc = "next", !.todo = Overdue, !.due = deadline]
  /\ UNCHANGED <<activityVars, session, conn, queue, worker, asked>>

(* Slip: the loop does not go back to sleep *)
RestNever(todo) == [sweep EXCEPT !.pc = "next", !.todo = todo, !.target = NoSession]

(* On to the remaining candidates *)
Rest(todo) ==
  IF todo = {} THEN Asleep
  ELSE [sweep EXCEPT !.pc = "next", !.todo = todo, !.target = NoSession]

(* _force_finalize_session: the guard ... *)
ForceRead(s) ==
  /\ sweep.pc = "next" /\ s \in sweep.todo
  /\ sweep' = IF session[s].status = "IN_PROGRESS"
              THEN [sweep EXCEPT !.pc = "force", !.todo = @ \ {s}, !.target = s]
              ELSE Rest(sweep.todo \ {s})
  /\ UNCHANGED <<activityVars, session, conn, queue, worker, asked>>

(* ... and the commit, with the deadline of the scan, and the dispatch *)
ForceCommit ==
  /\ sweep.pc = "force"
  /\ \/ /\ Exists(sweep.target)
        /\ Change(sweep.target, [session[sweep.target] EXCEPT
                                   !.finalized = sweep.due, !.status = "PENDING_EVALUATION"])
        /\ queue' = Append(queue, sweep.target)
     \/ /\ (~Exists(sweep.target) \/ DbMayFail)
        /\ UNCHANGED <<session, queue>>
  /\ sweep' = Rest(sweep.todo)
  /\ UNCHANGED <<activityVars, conn, worker, asked>>

-----------------------------------------------------------------------------
Spend(e) == budget[e] > 0 /\ budget' = [budget EXCEPT ![e] = @ - 1]

(* Slip: a session nobody closed is evaluated *)
ReEvaluateAny(s) ==
  /\ Spend("reevaluate")
  /\ Exists(s)
  /\ Change(s, [session[s] EXCEPT !.status = "PENDING_EVALUATION"])
  /\ queue' = Append(queue, s)
  /\ asked' = asked \cup {s}
  /\ UNCHANGED <<now, deadline, conn, worker, sweep>>

(* POST /admin/sessions/{id}/re-evaluate *)
ReEvaluate(s) ==
  /\ Spend("reevaluate")
  /\ Exists(s) /\ Finalized(s)
  /\ Change(s, [session[s] EXCEPT !.status = "PENDING_EVALUATION"])
  /\ queue' = Append(queue, s)
  /\ asked' = asked \cup {s}
  /\ UNCHANGED <<now, deadline, conn, worker, sweep>>

(* POST /activities/{id}/reset: the sessions go, the deadline is a month away *)
ResetActivity ==
  /\ Spend("reset")
  /\ deadline' = Far
  /\ session' = [s \in Session |->
                   IF Exists(s) THEN [NoRow EXCEPT !.status = "deleted"] ELSE session[s]]
  /\ UNCHANGED <<now, conn, queue, worker, sweep, asked>>

(* PATCH /activities/{id}, the activity being unpublished *)
EditDeadline(d) ==
  /\ Spend("edit")
  /\ deadline' = d
  /\ UNCHANGED <<now, session, conn, queue, worker, sweep, asked>>

(* The process stops and starts again: what is not in the database is gone *)
Restart ==
  /\ Spend("crash")
  /\ conn' = [c \in Conn |-> Off]
  /\ queue' = <<>> /\ worker' = Idle /\ sweep' = Asleep
  /\ UNCHANGED <<now, deadline, session, asked>>

Tick ==
  /\ now < Horizon
  /\ now' = now + 1
  /\ UNCHANGED <<deadline, session, conn, queue, worker, sweep, budget, asked>>

Init ==
  /\ now = 0 /\ deadline = FirstDeadline
  /\ session = [s \in Session |-> NoRow]
  /\ conn = [c \in Conn |-> Off]
  /\ queue = <<>> /\ worker = Idle /\ sweep = Asleep
  /\ budget = Budget
  /\ asked = {}

HandlerStep(c) == EnterOpen(c) \/ CloseCommit(c) \/ WrapRead(c) \/ WrapCommit(c) \/ WrapDispatch(c)
StudentStep(c) == EnterCheck(c) \/ Greet(c) \/ Answer(c) \/ CloseRead(c) \/ Leave(c)
WorkerStep == Dequeue \/ EvalRead \/ EvalWrite \/ MarkFailed
SweepStep == SweepScan \/ (\E s \in Session : ForceRead(s)) \/ ForceCommit

Next ==
  \/ \E c \in Conn : HandlerStep(c) \/ StudentStep(c)
  \/ WorkerStep \/ SweepStep
  \/ \E s \in Session : ReEvaluate(s)
  \/ ResetActivity
  \/ \E d \in Time : EditDeadline(d)
  \/ Restart
  \/ Tick

Spec == Init /\ [][Next]_vars

(***************************************************************************)
(* The event loop runs ready tasks, every retry follows its finite backoff *)
(* and the sweep wakes every SCAN_INTERVAL_SECONDS.  Nothing is assumed of *)
(* students, teachers and administrators, or of the clock.                 *)
(***************************************************************************)
FairSpec ==
  /\ Spec
  /\ \A c \in Conn : WF_vars(HandlerStep(c))
  /\ WF_vars(WorkerStep) /\ WF_vars(SweepStep)

-----------------------------------------------------------------------------
(* Evaluations of s that are under way: queued, run, or about to be queued *)
Owed(s) ==
  Cardinality({i \in DOMAIN queue : queue[i] = s})
  + (IF worker.pc # "idle" /\ worker.session = s THEN 1 ELSE 0)
  + Cardinality({c \in Conn : At(c, "dispatch") /\ Mine(c) = s})

Abstract == INSTANCE SessionStatus
  WITH MayLose <- DbMayFail \/ Budget["crash"] > 0,
       status <- [s \in Session |-> session[s].status],
       closed <- [s \in Session |-> Finalized(s)],
       owed <- [s \in Session |-> Owed(s)]

TypeOK ==
  /\ now \in Time /\ deadline \in Time
  /\ session \in [Session -> SessionRow]
  /\ conn \in [Conn -> Handler]
  /\ queue \in Seq(Session)
  /\ worker \in [pc : {"idle", "read", "llm", "mark"}, session : Session \cup {NoSession},
                 attempt : 0 .. MaxAttempts]
  /\ sweep \in [pc : {"idle", "next", "force"}, todo : SUBSET Session,
                due : Time \cup {NoTime}, target : Session \cup {NoSession}]
  /\ budget \in [Event -> Nat]
  /\ asked \subseteq Session

(***************************************************************************)
(* The lifecycle implements SessionStatus, however tabs, sweep, worker and *)
(* administrator interleave: no session returns to IN_PROGRESS (the        *)
(* "reset lifecycle" of _setup_db_session included), none is dispatched    *)
(* unclosed, and every outcome answers a request.                          *)
(***************************************************************************)
ImplementsStatus == Abstract!Spec

(***************************************************************************)
(* A session that is waiting for its evaluation gets an outcome: the       *)
(* attempts are bounded and nothing but a restart or a failing statement   *)
(* loses the request.                                                      *)
(***************************************************************************)
PendingSettles ==
  \A s \in Session :
    session[s].status = "PENDING_EVALUATION" ~> session[s].status # "PENDING_EVALUATION"

(***************************************************************************)
(* A session the student wrote in is not left IN_PROGRESS once its         *)
(* deadline is past, whatever its handlers do meanwhile.                   *)
(***************************************************************************)
OverdueIsSwept == \A s \in Session : s \in Overdue ~> s \notin Overdue

(***************************************************************************)
(* A session started after the deadline is never dispatched, unless an     *)
(* administrator asks (deadline_reminders.py, "late-starters never produce *)
(* metrics"): the sweep's filter and is_late of the wrap-up agree.         *)
(***************************************************************************)
LateStarterIgnored ==
  \A s \in Session \ asked :
    session[s].started > deadline => session[s].status \notin Dispatched

-----------------------------------------------------------------------------
(***************************************************************************)
(* One evaluation per session, unless an administrator asks for another    *)
(* (deadline_reminders.py, "CAS-style guard").                             *)
(***************************************************************************)
DispatchedOnce == \A s \in Session \ asked : Owed(s) <= 1
=============================================================================
