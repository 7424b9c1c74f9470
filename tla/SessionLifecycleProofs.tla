----------------------- MODULE SessionLifecycleProofs -----------------------
(***************************************************************************)
(* SessionLifecycle keeps the promise of SessionStatus: for any number of  *)
(* sessions, tabs, attempts and rare events, whatever the clock and the    *)
(* deadlines.  Its requests are worked off and its overdue sessions swept, *)
(* as far as that can be said of steps.                                    *)
(***************************************************************************)
EXTENDS SessionLifecycle, FiniteSetTheorems, SequenceTheorems, WellFoundedInduction, TLAPS

One(b) == IF b THEN 1 ELSE 0

-----------------------------------------------------------------------------
(***************************************************************************)
(* Counting requests: in the queue, with the worker, and with handlers     *)
(* about to add to the queue.                                              *)
(***************************************************************************)
Places(q, s) == {i \in DOMAIN q : q[i] = s}
Senders(cn, s) == {c \in Conn : cn[c].pc = "dispatch" /\ cn[c].session = s}
Sends(h, s) == One(h.pc = "dispatch" /\ h.session = s)
Held(w, s) == One(w.pc # "idle" /\ w.session = s)
OwedOf(q, w, cn, s) == Cardinality(Places(q, s)) + Held(w, s) + Cardinality(Senders(cn, s))

LEMMA OwedIs ==
  /\ \A s \in Session : Owed(s) = OwedOf(queue, worker, conn, s)
  /\ \A s \in Session : Owed(s)' = OwedOf(queue', worker', conn', s)
  BY DEF Owed, OwedOf, Places, Senders, Held, One, At, Mine

LEMMA PlacesFinite ==
  ASSUME NEW q \in Seq(Session), NEW s
  PROVE  IsFiniteSet(Places(q, s)) /\ Cardinality(Places(q, s)) \in Nat
<1>1. Places(q, s) \in SUBSET (1 .. Len(q)) /\ Len(q) \in Nat
  BY DEF Places
<1>2. IsFiniteSet(1 .. Len(q))
  BY <1>1, FS_Interval
<1> QED BY <1>1, <1>2, FS_Subset, FS_CardinalityType

LEMMA PlacesAppend ==
  ASSUME NEW q \in Seq(Session), NEW s \in Session, NEW t \in Session
  PROVE  Cardinality(Places(Append(q, t), s)) = Cardinality(Places(q, s)) + One(s = t)
<1>1. Len(q) + 1 \notin Places(q, s) /\ Len(q) \in Nat
  BY DEF Places
<1>2. CASE s = t
  <2>1. Places(Append(q, t), s) = Places(q, s) \cup {Len(q) + 1}
    BY <1>2 DEF Places
  <2> QED BY <1>1, <1>2, <2>1, PlacesFinite, FS_AddElement DEF One
<1>3. CASE s # t
  <2>1. Places(Append(q, t), s) = Places(q, s)
    BY <1>3 DEF Places
  <2> QED BY <1>3, <2>1, PlacesFinite DEF One
<1> QED BY <1>2, <1>3

(* Without its first entry a queue has the places of its tail, one later *)
LEMMA PlacesTail ==
  ASSUME NEW q \in Seq(Session), NEW s \in Session, q # <<>>
  PROVE  Cardinality(Places(q, s)) = Cardinality(Places(Tail(q), s)) + One(Head(q) = s)
<1> DEFINE A == Places(q, s) \ {1}
           B == Places(Tail(q), s)
           f == [i \in B |-> i + 1]
<1>1. Len(q) \in Nat /\ Len(q) >= 1 /\ Tail(q) \in Seq(Session) /\ Len(Tail(q)) = Len(q) - 1
      /\ (\A i \in 1 .. Len(q) - 1 : Tail(q)[i] = q[i + 1]) /\ Head(q) = q[1]
  BY HeadTailProperties, EmptySeq
<1>2. B = {i \in 1 .. Len(q) - 1 : q[i + 1] = s} /\ A = {i \in 2 .. Len(q) : q[i] = s}
  BY <1>1 DEF Places
<1>3. f \in Bijection(B, A)
  <2>1. f \in [B -> A]
    BY <1>1, <1>2
  <2>2. \A i, j \in B : f[i] = f[j] => i = j
    BY <1>1, <1>2
  <2>3. \A j \in A : \E i \in B : f[i] = j
    <3> SUFFICES ASSUME NEW j \in A PROVE j - 1 \in B /\ f[j - 1] = j
      OBVIOUS
    <3> QED BY <1>1, <1>2
  <2> HIDE DEF A, B, f
  <2>4. IsInjective(f)
    BY <2>1, <2>2 DEF IsInjective
  <2> QED BY <2>1, <2>3, <2>4 DEF Bijection, Injection, Surjection
<1>4. Cardinality(A) = Cardinality(B)
  <2>1. ExistsBijection(B, A)
    BY <1>3 DEF ExistsBijection
  <2>2. IsFiniteSet(B)
    BY <1>1, PlacesFinite
  <2> HIDE DEF A, B
  <2> QED BY <2>1, <2>2, FS_Bijection
<1>5. Cardinality(A) = Cardinality(Places(q, s)) - One(Head(q) = s)
  <2>1. 1 \in Places(q, s) <=> Head(q) = s
    BY <1>1 DEF Places
  <2>2. IsFiniteSet(Places(q, s)) /\ Cardinality(Places(q, s)) \in Nat
    BY PlacesFinite
  <2>3. Cardinality(Places(q, s) \ {1})
          = IF 1 \in Places(q, s) THEN Cardinality(Places(q, s)) - 1 ELSE Cardinality(Places(q, s))
    BY <2>2, FS_RemoveElement
  <2> QED BY <2>1, <2>2, <2>3 DEF One
<1>6. Cardinality(Places(q, s)) \in Nat
  BY PlacesFinite
<1> QED BY <1>4, <1>5, <1>6 DEF One

LEMMA SendersFinite ==
  ASSUME NEW cn, NEW s
  PROVE  IsFiniteSet(Senders(cn, s)) /\ Cardinality(Senders(cn, s)) \in Nat
<1>1. Senders(cn, s) \in SUBSET Conn
  BY DEF Senders
<1> QED BY <1>1, ConnAssumption, FS_Subset, FS_CardinalityType

(* A handler stops or starts to be a sender *)
LEMMA SendersMove ==
  ASSUME NEW cn \in [Conn -> Handler], NEW c \in Conn, NEW h \in Handler, NEW s \in Session
  PROVE  Cardinality(Senders([cn EXCEPT ![c] = h], s))
           = Cardinality(Senders(cn, s)) - Sends(cn[c], s) + Sends(h, s)
<1> DEFINE S == Senders(cn, s)
           R == S \ {c}
           T == Senders([cn EXCEPT ![c] = h], s)
<1>1. c \in S <=> cn[c].pc = "dispatch" /\ cn[c].session = s
  BY DEF Senders
<1>2. T = IF h.pc = "dispatch" /\ h.session = s THEN R \cup {c} ELSE R
  BY DEF Senders
<1>3. IsFiniteSet(S) /\ Cardinality(S) \in Nat
  BY SendersFinite
<1> HIDE DEF S, T
<1>4. IsFiniteSet(R) /\ Cardinality(R) = IF c \in S THEN Cardinality(S) - 1 ELSE Cardinality(S)
  BY <1>3, FS_RemoveElement
<1>5. Cardinality(R) \in Nat
  BY <1>4, FS_CardinalityType
<1>6. Cardinality(R \cup {c}) = Cardinality(R) + 1
  <2>1. c \notin R
    OBVIOUS
  <2> HIDE DEF R
  <2> QED BY <1>4, <1>5, <2>1, FS_AddElement
<1>7. Cardinality(T) = Cardinality(S) - Sends(cn[c], s) + Sends(h, s)
  BY <1>1, <1>2, <1>3, <1>4, <1>5, <1>6 DEF Sends, One
<1> QED BY <1>7 DEF S, T

-----------------------------------------------------------------------------
(***************************************************************************)
(* The invariant: what a tab, a queue entry, the worker and the sweep      *)
(* remember of a session stays true of its row, whoever changed the row    *)
(* since they read it.                                                     *)
(***************************************************************************)
Begun(s) == s \in Session /\ session[s].status # "none"
Used(s) == Begun(s) /\ (Exists(s) => session[s].engaged)
Sent(s) == s \in Session /\ session[s].status \in Dispatched \cup {"deleted"}

RowsKept ==
  \A s \in Session : /\ ~Exists(s) => ~Finalized(s)
                     /\ session[s].status \in Dispatched => Finalized(s)
                     /\ Finalized(s) => session[s].engaged
TabsKept ==
  \A c \in Conn : /\ At(c, "checked") => conn[c].close = NoTime
                  /\ conn[c].pc \in {"open", "wrapup", "commit", "dispatch"} => Begun(Mine(c))
                  /\ conn[c].close # NoTime => Used(Mine(c))
                  /\ At(c, "commit") /\ conn[c].evaluate /\ Exists(Mine(c)) => Finalized(Mine(c))
                  /\ At(c, "dispatch") => Sent(Mine(c))
QueueKept == \A i \in DOMAIN queue : Sent(queue[i])
WorkerKept == worker.pc # "idle" => Sent(worker.session)
SweepKept == /\ sweep.pc # "idle" => sweep.due \in Time
             /\ \A s \in sweep.todo : Used(s)
             /\ sweep.pc = "force" => Used(sweep.target)
BudgetKept == budget["crash"] <= Budget["crash"]

LifeInv == TypeOK /\ RowsKept /\ TabsKept /\ QueueKept /\ WorkerKept /\ SweepKept /\ BudgetKept


LEMMA LifeInit == Init => LifeInv
<1> SUFFICES ASSUME Init PROVE LifeInv
  OBVIOUS
<1>1. TypeOK
  BY BudgetAssumption, BoundsAssumption, MaxAttemptsAssumption, DeadlineAssumption
  DEF Init, TypeOK, Time, Far, SessionRow, NoRow, Handler, Off, Idle, Asleep, NoSession
<1>2. RowsKept
  BY DEF Init, RowsKept, Exists, Finalized, NoRow, Dispatched
<1>3. TabsKept
  BY DEF Init, TabsKept, At, Off
<1>4. QueueKept /\ WorkerKept /\ SweepKept
  BY DEF Init, QueueKept, WorkerKept, SweepKept, Idle, Asleep
<1>5. BudgetKept
  BY BudgetAssumption DEF Init, BudgetKept, Event
<1> QED BY <1>1, <1>2, <1>3, <1>4, <1>5 DEF LifeInv

(***************************************************************************)
(* Types.                                                                  *)
(***************************************************************************)
LEMMA Constants ==
  /\ Time \subseteq Int /\ Far \in Time /\ MaxAttempts \in Nat /\ MaxAttempts >= 1
  /\ Off \in Handler /\ NoRow \in SessionRow /\ Session \subseteq Nat
  BY BoundsAssumption, MaxAttemptsAssumption
  DEF Time, Far, Handler, Off, NoRow, SessionRow, NoSession, Session

LEMMA EndType ==
  ASSUME TypeOK, NEW c \in Conn, End(c) PROVE conn' \in [Conn -> Handler]
  BY Constants DEF End, TypeOK, Handler, Off, NoSession, NoTime, Mine

LEMMA HandlerForms ==
  ASSUME NEW h \in Handler, NEW s \in Session, NEW b \in BOOLEAN, NEW t \in Time
  PROVE  /\ [h EXCEPT !.pc = "checked"] \in Handler
         /\ [h EXCEPT !.pc = "open", !.session = s] \in Handler
         /\ [h EXCEPT !.close = t] \in Handler
         /\ [h EXCEPT !.pc = "wrapup"] \in Handler
         /\ [h EXCEPT !.pc = "commit", !.evaluate = b] \in Handler
         /\ [h EXCEPT !.pc = "dispatch"] \in Handler
  BY DEF Handler

LEMMA PutType ==
  ASSUME TypeOK, NEW c \in Conn, NEW h \in Handler, conn' = [conn EXCEPT ![c] = h]
  PROVE  conn' \in [Conn -> Handler]
  BY DEF TypeOK

LEMMA ChangeType ==
  ASSUME TypeOK, NEW s \in Session, NEW row \in SessionRow, Change(s, row)
  PROVE  session' \in [Session -> SessionRow]
  BY DEF Change, TypeOK

LEMMA MineType ==
  ASSUME TypeOK, TabsKept, NEW c \in Conn,
         conn[c].pc \in {"open", "wrapup", "commit", "dispatch"} \/ conn[c].close # NoTime
  PROVE  Mine(c) \in Session /\ session[Mine(c)] \in SessionRow
  BY DEF TypeOK, TabsKept, Begun, Used, Mine

LEMMA TabType ==
  ASSUME TypeOK, TabsKept, NEW c \in Conn, HandlerStep(c) \/ StudentStep(c)
  PROVE  session' \in [Session -> SessionRow] /\ conn' \in [Conn -> Handler]
<1>1. ASSUME EnterOpen(c) PROVE session' \in [Session -> SessionRow] /\ conn' \in [Conn -> Handler]
  <2>1. ASSUME NEW s \in Session, Change(s, [NoRow EXCEPT !.status = "IN_PROGRESS", !.started = now])
        PROVE  session' \in [Session -> SessionRow]
    <3>1. [NoRow EXCEPT !.status = "IN_PROGRESS", !.started = now] \in SessionRow
      BY DEF TypeOK, NoRow, SessionRow
    <3> QED BY <3>1, <2>1, ChangeType
  <2>2. \A s \in Session : [conn[c] EXCEPT !.pc = "open", !.session = s] \in Handler
    BY HandlerForms DEF TypeOK
  <2>3. CASE \E s \in Session :
               conn' = [conn EXCEPT ![c] = [conn[c] EXCEPT !.pc = "open", !.session = s]]
    BY <1>1, <2>1, <2>2, <2>3, PutType DEF EnterOpen, TypeOK
  <2>4. CASE End(c)
    BY <1>1, <2>1, <2>4, EndType DEF EnterOpen, TypeOK
  <2> QED BY <1>1, <2>3, <2>4 DEF EnterOpen, Resumable
<1>2. ASSUME CloseCommit(c) PROVE session' \in [Session -> SessionRow] /\ conn' \in [Conn -> Handler]
  <2>1. Mine(c) \in Session /\ session[Mine(c)] \in SessionRow /\ conn[c].close \in Time
    BY <1>2, MineType DEF CloseCommit, TypeOK, Handler
  <2>2. [session[Mine(c)] EXCEPT !.finalized = conn[c].close] \in SessionRow
    BY <2>1 DEF SessionRow
  <2>3. session' \in [Session -> SessionRow]
    BY <1>2, <2>1, <2>2, ChangeType DEF CloseCommit, TypeOK
  <2> DEFINE pc == IF At(c, "open") THEN "wrapup" ELSE conn[c].pc
  <2>4. [conn[c] EXCEPT !.close = NoTime, !.pc = pc] \in Handler
    <3>1. conn[c] \in Handler
      BY DEF TypeOK
    <3> QED BY <3>1 DEF Handler
  <2> DEFINE h == IF At(c, "off") THEN Off ELSE [conn[c] EXCEPT !.close = NoTime, !.pc = pc]
  <2>5. h \in Handler /\ conn' = [conn EXCEPT ![c] = h]
    BY <1>2, <2>4, Constants DEF CloseCommit, TypeOK
  <2> HIDE DEF h
  <2> QED BY <2>3, <2>5, PutType
<1>3. ASSUME WrapRead(c) PROVE session' \in [Session -> SessionRow] /\ conn' \in [Conn -> Handler]
  <2>1. \A b \in BOOLEAN : [conn[c] EXCEPT !.pc = "commit", !.evaluate = b] \in Handler
    <3>1. conn[c] \in Handler
      BY DEF TypeOK
    <3> QED BY <3>1 DEF Handler
  <2>2. CASE \E b \in BOOLEAN :
               conn' = [conn EXCEPT ![c] = [conn[c] EXCEPT !.pc = "commit", !.evaluate = b]]
    BY <1>3, <2>1, <2>2, PutType DEF WrapRead, TypeOK
  <2>3. CASE End(c)
    BY <1>3, <2>3, EndType DEF WrapRead, TypeOK
  <2> QED BY <1>3, <2>2, <2>3 DEF WrapRead
<1>4. ASSUME WrapCommit(c) PROVE session' \in [Session -> SessionRow] /\ conn' \in [Conn -> Handler]
  <2>1. Mine(c) \in Session /\ session[Mine(c)] \in SessionRow
    BY <1>4, MineType DEF WrapCommit, At
  <2>2. [session[Mine(c)] EXCEPT !.saved = TRUE,
           !.status = IF conn[c].evaluate THEN "PENDING_EVALUATION" ELSE @] \in SessionRow
    BY <2>1 DEF SessionRow, Dispatched
  <2> QED BY <1>4, <2>1, <2>2, ChangeType, EndType DEF WrapCommit, TypeOK, Handler
<1>5. ASSUME WrapDispatch(c) PROVE session' \in [Session -> SessionRow] /\ conn' \in [Conn -> Handler]
  BY <1>5, EndType DEF WrapDispatch, TypeOK
<1>6. ASSUME EnterCheck(c) PROVE session' \in [Session -> SessionRow] /\ conn' \in [Conn -> Handler]
  BY <1>6 DEF EnterCheck, TypeOK, Handler
<1>7. ASSUME Greet(c) PROVE session' \in [Session -> SessionRow] /\ conn' \in [Conn -> Handler]
  <2>1. Mine(c) \in Session /\ session[Mine(c)] \in SessionRow
    BY <1>7, MineType DEF Greet, At
  <2>2. [session[Mine(c)] EXCEPT !.saved = TRUE] \in SessionRow
    BY <2>1 DEF SessionRow
  <2> QED BY <1>7, <2>1, <2>2, ChangeType DEF Greet, TypeOK
<1>8. ASSUME Answer(c) PROVE session' \in [Session -> SessionRow] /\ conn' \in [Conn -> Handler]
  <2>1. Mine(c) \in Session /\ session[Mine(c)] \in SessionRow
    BY <1>8, MineType DEF Answer, At
  <2>2. \A b \in {TRUE, session[Mine(c)].saved} :
          [session[Mine(c)] EXCEPT !.engaged = TRUE, !.saved = b] \in SessionRow
    BY <2>1 DEF SessionRow
  <2> QED BY <1>8, <2>1, <2>2, ChangeType DEF Answer, TypeOK
<1>9. ASSUME CloseRead(c) \/ Leave(c)
      PROVE session' \in [Session -> SessionRow] /\ conn' \in [Conn -> Handler]
  <2>1. [conn[c] EXCEPT !.close = now] \in Handler /\ [conn[c] EXCEPT !.pc = "wrapup"] \in Handler
    BY DEF TypeOK, Handler
  <2> QED BY <1>9, <2>1, PutType DEF CloseRead, Leave, TypeOK
<1> QED BY <1>1, <1>2, <1>3, <1>4, <1>5, <1>6, <1>7, <1>8, <1>9 DEF HandlerStep, StudentStep

LEMMA AppendType ==
  ASSUME NEW q \in Seq(Session), NEW s \in Session PROVE Append(q, s) \in Seq(Session)
  BY AppendProperties

LEMMA TypeStep == LifeInv /\ [Next]_vars => TypeOK'
<1> SUFFICES ASSUME LifeInv, [Next]_vars PROVE TypeOK'
  OBVIOUS
<1>0. TypeOK /\ RowsKept /\ TabsKept /\ QueueKept /\ WorkerKept /\ SweepKept /\ BudgetKept
  BY DEF LifeInv
<1>1. ASSUME NEW c \in Conn, HandlerStep(c) \/ StudentStep(c) PROVE TypeOK'
  <2>1. session' \in [Session -> SessionRow] /\ conn' \in [Conn -> Handler]
    BY <1>0, <1>1, TabType
  <2>2. UNCHANGED <<now, deadline, budget, worker, sweep, asked>>
    BY <1>1 DEF HandlerStep, StudentStep, activityVars, EnterOpen, CloseCommit, WrapRead,
                WrapCommit, WrapDispatch, EnterCheck, Greet, Answer, CloseRead, Leave
  <2>3. queue' \in Seq(Session)
    <3>1. ASSUME WrapDispatch(c) PROVE queue' \in Seq(Session)
      <4>1. Mine(c) \in Session
        BY <1>0, <3>1, MineType DEF WrapDispatch, At
      <4>2. queue \in Seq(Session)
        BY <1>0 DEF TypeOK
      <4> QED BY <3>1, <4>1, <4>2, AppendType DEF WrapDispatch
    <3>2. ASSUME ~WrapDispatch(c) PROVE queue' = queue
      BY <1>1, <3>2 DEF HandlerStep, StudentStep, EnterOpen, CloseCommit, WrapRead,
                        WrapCommit, EnterCheck, Greet, Answer, CloseRead, Leave
    <3> QED BY <1>0, <3>1, <3>2 DEF TypeOK
  <2> QED BY <1>0, <2>1, <2>2, <2>3 DEF TypeOK
<1>2. ASSUME WorkerStep PROVE TypeOK'
  <2>1. UNCHANGED <<now, deadline, budget, conn, sweep, asked>>
    BY <1>2 DEF WorkerStep, activityVars, Dequeue, EvalRead, EvalWrite, MarkFailed
  <2> DEFINE Worker == [pc : {"idle", "read", "llm", "mark"}, session : Session \cup {NoSession},
                        attempt : 0 .. MaxAttempts]
  <2>2. ASSUME AttemptFails, worker \in Worker PROVE worker' \in Worker
    <3>1. worker.attempt < MaxAttempts => worker.attempt + 1 \in 0 .. MaxAttempts
      BY <2>2, MaxAttemptsAssumption
    <3>2. worker.attempt < MaxAttempts
            => [worker EXCEPT !.pc = "read", !.attempt = @ + 1] \in Worker
      BY <2>2, <3>1
    <3>3. [worker EXCEPT !.pc = "mark"] \in Worker
      BY <2>2
    <3> HIDE DEF Worker
    <3> QED BY <2>2, <3>2, <3>3 DEF AttemptFails
  <2>3. Idle \in Worker
    BY MaxAttemptsAssumption DEF Idle
  <2>4. CASE Dequeue
    <3>1. Head(queue) \in Session /\ Tail(queue) \in Seq(Session)
      BY <1>0, <2>4, HeadTailProperties DEF Dequeue, TypeOK
    <3>2. worker' \in Worker /\ queue' \in Seq(Session) /\ session' = session
      BY <2>4, <3>1, MaxAttemptsAssumption DEF Dequeue
    <3> QED BY <1>0, <2>1, <3>2 DEF TypeOK
  <2>5. CASE EvalRead
    <3>1. worker \in Worker
      BY <1>0 DEF TypeOK
    <3>2. [worker EXCEPT !.pc = "llm"] \in Worker
      BY <3>1
    <3> HIDE DEF Worker
    <3>3. worker' \in Worker /\ UNCHANGED <<queue, session>>
      BY <2>5, <2>2, <2>3, <3>1, <3>2 DEF EvalRead
    <3> QED BY <1>0, <2>1, <3>3 DEF TypeOK, Worker
  <2>6. CASE EvalWrite
    <3>1. worker \in Worker /\ worker.session \in Session /\ session[worker.session] \in SessionRow
      BY <1>0, <2>6 DEF TypeOK, WorkerKept, EvalWrite, Sent
    <3>2. [session[worker.session] EXCEPT !.status = "EVALUATED"] \in SessionRow
      BY <3>1 DEF SessionRow, Dispatched
    <3> HIDE DEF Worker
    <3>3. worker' \in Worker /\ queue' = queue
      BY <2>6, <2>2, <2>3, <3>1 DEF EvalWrite
    <3>4. session' \in [Session -> SessionRow]
      BY <1>0, <2>6, <3>1, <3>2, ChangeType DEF EvalWrite, TypeOK
    <3> QED BY <1>0, <2>1, <3>3, <3>4 DEF TypeOK, Worker
  <2>7. CASE MarkFailed
    <3>1. worker.session \in Session /\ session[worker.session] \in SessionRow
      BY <1>0, <2>7 DEF TypeOK, WorkerKept, MarkFailed, Sent
    <3>2. [session[worker.session] EXCEPT !.status = "EVALUATION_FAILED"] \in SessionRow
      BY <3>1 DEF SessionRow, Dispatched
    <3> HIDE DEF Worker
    <3>3. worker' \in Worker /\ queue' = queue
      BY <2>7, <2>3 DEF MarkFailed
    <3>4. session' \in [Session -> SessionRow]
      BY <1>0, <2>7, <3>1, <3>2, ChangeType DEF MarkFailed, TypeOK
    <3> QED BY <1>0, <2>1, <3>3, <3>4 DEF TypeOK, Worker
  <2> QED BY <1>2, <2>4, <2>5, <2>6, <2>7 DEF WorkerStep
<1>3. ASSUME SweepStep PROVE TypeOK'
  <2>1. UNCHANGED <<now, deadline, budget, conn, worker, asked>>
    BY <1>3 DEF SweepStep, activityVars, SweepScan, ForceRead, ForceCommit
  <2> DEFINE Sweeper == [pc : {"idle", "next", "force"}, todo : SUBSET Session,
                         due : Time \cup {NoTime}, target : Session \cup {NoSession}]
  <2>2. sweep \in Sweeper
    BY <1>0 DEF TypeOK
  <2>3. \A todo \in SUBSET Session : Rest(todo) \in Sweeper
    BY <2>2 DEF Rest, Asleep
  <2>4. CASE SweepScan
    <3>1. [Asleep EXCEPT !.pc = "next", !.todo = Overdue, !.due = deadline] \in Sweeper
      BY <1>0 DEF TypeOK, Asleep, Overdue
    <3> HIDE DEF Sweeper
    <3>2. sweep' \in Sweeper /\ UNCHANGED <<session, queue>>
      BY <2>4, <3>1 DEF SweepScan
    <3> QED BY <1>0, <2>1, <3>2 DEF TypeOK, Sweeper
  <2>5. ASSUME NEW s \in Session, ForceRead(s) PROVE TypeOK'
    <3>1. [sweep EXCEPT !.pc = "force", !.todo = @ \ {s}, !.target = s] \in Sweeper
      BY <2>2
    <3>2. sweep.todo \ {s} \in SUBSET Session
      BY <2>2
    <3> HIDE DEF Sweeper
    <3>3. sweep' \in Sweeper /\ UNCHANGED <<session, queue>>
      BY <2>5, <2>3, <3>1, <3>2 DEF ForceRead
    <3> QED BY <1>0, <2>1, <3>3 DEF TypeOK, Sweeper
  <2>6. CASE ForceCommit
    <3>1. sweep.target \in Session /\ session[sweep.target] \in SessionRow /\ sweep.due \in Time
      BY <1>0, <2>6 DEF TypeOK, SweepKept, ForceCommit, Used, Begun
    <3>2. [session[sweep.target] EXCEPT !.finalized = sweep.due, !.status = "PENDING_EVALUATION"]
            \in SessionRow
      BY <3>1 DEF SessionRow, Dispatched
    <3>3. session' \in [Session -> SessionRow]
      BY <1>0, <2>6, <3>1, <3>2, ChangeType DEF ForceCommit, TypeOK
    <3>4. queue' \in Seq(Session)
      <4>1. queue \in Seq(Session)
        BY <1>0 DEF TypeOK
      <4> QED BY <2>6, <3>1, <4>1, AppendType DEF ForceCommit
    <3>5. sweep.todo \in SUBSET Session
      BY <2>2
    <3> HIDE DEF Sweeper
    <3>6. sweep' \in Sweeper
      BY <2>6, <2>3, <3>5 DEF ForceCommit
    <3> QED BY <1>0, <2>1, <3>3, <3>4, <3>6 DEF TypeOK, Sweeper
  <2> QED BY <1>3, <2>4, <2>5, <2>6 DEF SweepStep
<1>4. ASSUME NEW e \in Event, Spend(e) PROVE budget' \in [Event -> Nat]
  <2>1. budget \in [Event -> Nat] /\ budget[e] - 1 \in Nat
    BY <1>0, <1>4 DEF Spend, TypeOK
  <2> QED BY <1>4, <2>1 DEF Spend
<1>5. ASSUME NEW s \in Session, ReEvaluate(s) PROVE TypeOK'
  <2>1. [session[s] EXCEPT !.status = "PENDING_EVALUATION"] \in SessionRow
    <3>1. session[s] \in SessionRow
      BY <1>0 DEF TypeOK
    <3> QED BY <3>1 DEF SessionRow, Dispatched
  <2>2. session' \in [Session -> SessionRow]
    BY <1>0, <1>5, <2>1, ChangeType DEF ReEvaluate
  <2>3. budget' \in [Event -> Nat]
    BY <1>4, <1>5 DEF ReEvaluate, Event
  <2> QED BY <1>0, <1>5, <2>2, <2>3 DEF ReEvaluate, TypeOK
<1>6. ASSUME ResetActivity PROVE TypeOK'
  <2>1. [NoRow EXCEPT !.status = "deleted"] \in SessionRow
    BY Constants DEF SessionRow
  <2>2. session' \in [Session -> SessionRow]
    BY <1>0, <1>6, <2>1 DEF ResetActivity, TypeOK
  <2>3. budget' \in [Event -> Nat]
    BY <1>4, <1>6 DEF ResetActivity, Event
  <2> QED BY <1>0, <1>6, <2>2, <2>3, Constants DEF ResetActivity, TypeOK
<1>7. ASSUME NEW d \in Time, EditDeadline(d) PROVE TypeOK'
  <2>1. budget' \in [Event -> Nat]
    BY <1>4, <1>7 DEF EditDeadline, Event
  <2> QED BY <1>0, <1>7, <2>1 DEF EditDeadline, TypeOK
<1>8. ASSUME Restart PROVE TypeOK'
  <2>1. budget' \in [Event -> Nat]
    BY <1>4, <1>8 DEF Restart, Event
  <2>2. conn' \in [Conn -> Handler]
    BY <1>8, Constants DEF Restart
  <2> QED BY <1>0, <1>8, <2>1, <2>2, MaxAttemptsAssumption DEF Restart, TypeOK, Idle, Asleep
<1>9. ASSUME Tick PROVE TypeOK'
  BY <1>0, <1>9, BoundsAssumption DEF Tick, TypeOK, Time, Far
<1>10. ASSUME UNCHANGED vars PROVE TypeOK'
  BY <1>0, <1>10 DEF vars, TypeOK
<1> QED BY <1>1, <1>2, <1>3, <1>5, <1>6, <1>7, <1>8, <1>9, <1>10 DEF Next

(***************************************************************************)
(* What no step takes back: a session stays begun, the answered stay       *)
(* answered, the dispatched dispatched or deleted, and the closed closed.  *)
(***************************************************************************)
Onward(s) ==
  /\ Begun(s) => Begun(s)'
  /\ Used(s) => Used(s)'
  /\ Sent(s) => Sent(s)'
  /\ Begun(s) /\ Exists(s)' => Exists(s) /\ (Finalized(s) => Finalized(s)')

(* A row that is rewritten keeps what it had *)
LEMMA ChangeOnward ==
  ASSUME TypeOK, NEW s \in Session, NEW row \in SessionRow, Change(s, row),
         session[s].status \in Dispatched => row.status \in Dispatched,
         session[s].status = "deleted" => FALSE,
         session[s].status # "none" => row.status # "none",
         session[s].status # "none" /\ session[s].engaged => row.engaged,
         session[s].status # "none" /\ Finalized(s) => row.finalized # NoTime
  PROVE  \A r : Onward(r)
<1> SUFFICES ASSUME NEW r PROVE Onward(r)
  OBVIOUS
<1>1. \A t \in Session : session'[t] = IF t = s THEN row ELSE session[t]
  BY DEF Change, TypeOK
<1> QED BY <1>1 DEF Onward, Begun, Used, Sent, Exists, Finalized, Dispatched

LEMMA SameOnward ==
  ASSUME session' = session PROVE \A r : Onward(r)
  BY DEF Onward, Begun, Used, Sent, Exists, Finalized

LEMMA StepOnward == LifeInv /\ [Next]_vars => \A r : Onward(r)
<1> SUFFICES ASSUME LifeInv, [Next]_vars PROVE \A r : Onward(r)
  OBVIOUS
<1>0. TypeOK /\ RowsKept /\ TabsKept /\ QueueKept /\ WorkerKept /\ SweepKept
  BY DEF LifeInv
<1>t. \A s \in Session : session[s] \in SessionRow
  BY <1>0 DEF TypeOK
<1>1. ASSUME NEW c \in Conn, HandlerStep(c) \/ StudentStep(c) PROVE \A r : Onward(r)
  <2>1. CASE session' = session
    BY <2>1, SameOnward
  <2>2. ASSUME NEW s \in Session, session[s].status = "none",
               Change(s, [NoRow EXCEPT !.status = "IN_PROGRESS", !.started = now])
        PROVE  \A r : Onward(r)
    <3>1. [NoRow EXCEPT !.status = "IN_PROGRESS", !.started = now] \in SessionRow
      BY <1>0 DEF TypeOK, NoRow, SessionRow
    <3> QED BY <1>0, <2>2, <3>1, ChangeOnward DEF Dispatched, NoRow
  <2>3. ASSUME At(c, "open") \/ At(c, "commit") \/ conn[c].close # NoTime, Exists(Mine(c)),
               NEW row \in SessionRow, Change(Mine(c), row),
               row.status \in {session[Mine(c)].status, "PENDING_EVALUATION"},
               row.engaged \in {session[Mine(c)].engaged, TRUE},
               row.finalized = session[Mine(c)].finalized \/ row.finalized # NoTime
        PROVE  \A r : Onward(r)
    <3>1. Mine(c) \in Session
      BY <1>0, <2>3, MineType DEF At
    <3> QED BY <1>0, <2>3, <3>1, ChangeOnward DEF Exists, Finalized, Dispatched
  <2>4. CASE Greet(c) /\ session' # session
    <3>1. session[Mine(c)] \in SessionRow
      BY <1>0, <2>4, MineType DEF Greet, At
    <3>2. [session[Mine(c)] EXCEPT !.saved = TRUE] \in SessionRow
      BY <3>1 DEF SessionRow
    <3> QED BY <2>4, <2>3, <3>1, <3>2 DEF Greet, SessionRow
  <2>5. CASE Answer(c) /\ session' # session
    <3>1. session[Mine(c)] \in SessionRow
      BY <1>0, <2>5, MineType DEF Answer, At
    <3>2. PICK b \in {TRUE, session[Mine(c)].saved} :
            Change(Mine(c), [session[Mine(c)] EXCEPT !.engaged = TRUE, !.saved = b])
      BY <2>5 DEF Answer
    <3>3. [session[Mine(c)] EXCEPT !.engaged = TRUE, !.saved = b] \in SessionRow
      BY <3>1 DEF SessionRow
    <3> QED BY <2>5, <2>3, <3>1, <3>2, <3>3 DEF Answer, SessionRow
  <2>6. CASE CloseCommit(c) /\ session' # session
    <3>1. session[Mine(c)] \in SessionRow /\ conn[c].close \in Time
      BY <1>0, <2>6, MineType DEF CloseCommit, TypeOK, Handler
    <3>2. [session[Mine(c)] EXCEPT !.finalized = conn[c].close] \in SessionRow
      BY <3>1 DEF SessionRow
    <3> QED BY <2>6, <2>3, <3>1, <3>2 DEF CloseCommit, SessionRow
  <2>7. CASE WrapCommit(c) /\ session' # session
    <3>1. session[Mine(c)] \in SessionRow
      BY <1>0, <2>7, MineType DEF WrapCommit, At
    <3> DEFINE row == [session[Mine(c)] EXCEPT !.saved = TRUE,
                         !.status = IF conn[c].evaluate THEN "PENDING_EVALUATION" ELSE @]
    <3>2. row \in SessionRow
      BY <3>1 DEF SessionRow, Dispatched
    <3>3. /\ row.status \in {session[Mine(c)].status, "PENDING_EVALUATION"}
          /\ row.engaged = session[Mine(c)].engaged /\ row.finalized = session[Mine(c)].finalized
      BY <3>1 DEF SessionRow
    <3>4. Change(Mine(c), row) /\ Exists(Mine(c)) /\ At(c, "commit")
      BY <2>7 DEF WrapCommit
    <3> HIDE DEF row
    <3> QED BY <2>3, <3>2, <3>3, <3>4
  <2>8. \/ session' = session
        \/ Greet(c) \/ Answer(c) \/ CloseCommit(c) \/ WrapCommit(c)
        \/ \E s \in Session : /\ session[s].status = "none"
                              /\ Change(s, [NoRow EXCEPT !.status = "IN_PROGRESS", !.started = now])
    BY <1>1 DEF HandlerStep, StudentStep, EnterOpen, WrapRead, WrapDispatch, EnterCheck,
                CloseRead, Leave
  <2> QED BY <2>1, <2>2, <2>4, <2>5, <2>6, <2>7, <2>8
<1>2. ASSUME NEW s \in Session, Exists(s), NEW o \in Dispatched,
             Change(s, [session[s] EXCEPT !.status = o])
      PROVE  \A r : Onward(r)
  <2>1. [session[s] EXCEPT !.status = o] \in SessionRow
    BY <1>t DEF SessionRow
  <2> QED BY <1>0, <1>t, <1>2, <2>1, ChangeOnward DEF Exists, Finalized, Dispatched, SessionRow
<1>3. ASSUME WorkerStep PROVE \A r : Onward(r)
  <2>1. EvalWrite \/ MarkFailed => worker.session \in Session
    BY <1>0 DEF EvalWrite, MarkFailed, WorkerKept, Sent
  <2> QED BY <1>2, <1>3, <2>1, SameOnward
          DEF WorkerStep, Dequeue, EvalRead, EvalWrite, MarkFailed, Dispatched
<1>4. ASSUME SweepStep PROVE \A r : Onward(r)
  <2>1. CASE session' = session
    BY <2>1, SameOnward
  <2>2. CASE ForceCommit /\ session' # session
    <3> DEFINE row == [session[sweep.target] EXCEPT
                         !.finalized = sweep.due, !.status = "PENDING_EVALUATION"]
    <3>1. sweep.target \in Session /\ sweep.due \in Time
      BY <1>0, <2>2 DEF ForceCommit, SweepKept, Used, Begun
    <3>2. row \in SessionRow
      BY <1>t, <3>1 DEF SessionRow, Dispatched
    <3>3. row.status = "PENDING_EVALUATION" /\ row.engaged = session[sweep.target].engaged
          /\ row.finalized # NoTime
      BY <1>t, <3>1, Constants DEF SessionRow, NoTime, Time, Far
    <3>4. Change(sweep.target, row) /\ Exists(sweep.target)
      BY <2>2 DEF ForceCommit
    <3> HIDE DEF row
    <3> QED BY <1>0, <3>1, <3>2, <3>3, <3>4, ChangeOnward DEF Exists, Dispatched
  <2> QED BY <1>4, <2>1, <2>2 DEF SweepStep, SweepScan, ForceRead
<1>5. ASSUME NEW s \in Session, ReEvaluate(s) PROVE \A r : Onward(r)
  BY <1>2, <1>5 DEF ReEvaluate, Dispatched
<1>6. ASSUME ResetActivity PROVE \A r : Onward(r)
  <2>1. \A s \in Session : session'[s] = IF Exists(s) THEN [NoRow EXCEPT !.status = "deleted"]
                                         ELSE session[s]
    BY <1>6 DEF ResetActivity
  <2> QED BY <2>1 DEF Onward, Begun, Used, Sent, Exists, Finalized, NoRow
<1>7. ASSUME \/ \E d \in Time : EditDeadline(d)
             \/ Restart \/ Tick \/ UNCHANGED vars
      PROVE  \A r : Onward(r)
  BY <1>7, SameOnward DEF EditDeadline, Restart, Tick, vars
<1> QED BY <1>1, <1>3, <1>4, <1>5, <1>6, <1>7 DEF Next

LEMMA ChangeRows ==
  ASSUME TypeOK, RowsKept, NEW s \in Session, NEW row \in SessionRow, Change(s, row),
         row.status \in {"none", "deleted"} => row.finalized = NoTime,
         row.status \in Dispatched => row.finalized # NoTime,
         row.finalized # NoTime => row.engaged
  PROVE  RowsKept'
<1>1. \A t \in Session : session'[t] = IF t = s THEN row ELSE session[t]
  BY DEF Change, TypeOK
<1> QED BY <1>1 DEF RowsKept, Exists, Finalized

LEMMA RowsStep == LifeInv /\ [Next]_vars => RowsKept'
<1> SUFFICES ASSUME LifeInv, [Next]_vars PROVE RowsKept'
  OBVIOUS
<1>0. TypeOK /\ RowsKept /\ TabsKept /\ QueueKept /\ WorkerKept /\ SweepKept
  BY DEF LifeInv
<1>s. ASSUME session' = session PROVE RowsKept'
  BY <1>0, <1>s DEF RowsKept, Exists, Finalized
<1>t. \A s \in Session : session[s] \in SessionRow
  BY <1>0 DEF TypeOK
<1>k. \A s \in Session :
        /\ session[s].status \in {"none", "deleted"} => session[s].finalized = NoTime
        /\ session[s].status \in Dispatched => session[s].finalized # NoTime
        /\ session[s].finalized # NoTime => session[s].engaged
  BY <1>0 DEF RowsKept, Exists, Finalized
<1>1. ASSUME NEW c \in Conn, HandlerStep(c) \/ StudentStep(c), session' # session PROVE RowsKept'
  <2>1. CASE EnterOpen(c)
    <3> DEFINE row == [NoRow EXCEPT !.status = "IN_PROGRESS", !.started = now]
    <3>1. row \in SessionRow /\ row.status = "IN_PROGRESS" /\ row.finalized = NoTime
      BY <1>0 DEF TypeOK, NoRow, SessionRow
    <3>2. PICK s \in Session : Change(s, row)
      BY <1>1, <2>1 DEF EnterOpen
    <3> HIDE DEF row
    <3> QED BY <1>0, <3>1, <3>2, ChangeRows DEF Dispatched
  <2>2. CASE CloseCommit(c)
    <3> DEFINE row == [session[Mine(c)] EXCEPT !.finalized = conn[c].close]
    <3>1. Mine(c) \in Session /\ conn[c].close \in Time
      BY <1>0, <2>2, MineType DEF CloseCommit, TypeOK, Handler
    <3>2. Exists(Mine(c)) /\ Change(Mine(c), row)
      BY <1>1, <2>2 DEF CloseCommit
    <3>3. session[Mine(c)].engaged
      BY <1>0, <2>2, <3>2 DEF CloseCommit, TabsKept, Used
    <3>4. row \in SessionRow
      BY <1>t, <3>1 DEF SessionRow
    <3>5. row.status = session[Mine(c)].status /\ row.engaged /\ row.finalized # NoTime
      BY <1>t, <3>1, <3>3 DEF SessionRow, NoTime, Time
    <3> HIDE DEF row
    <3> QED BY <1>0, <3>1, <3>2, <3>4, <3>5, ChangeRows DEF Exists
  <2>3. CASE WrapCommit(c)
    <3> DEFINE row == [session[Mine(c)] EXCEPT !.saved = TRUE,
                         !.status = IF conn[c].evaluate THEN "PENDING_EVALUATION" ELSE @]
    <3>1. Mine(c) \in Session
      BY <1>0, <2>3, MineType DEF WrapCommit, At
    <3>2. Exists(Mine(c)) /\ Change(Mine(c), row)
      BY <1>1, <2>3 DEF WrapCommit
    <3>3. conn[c].evaluate => Finalized(Mine(c))
      BY <1>0, <2>3, <3>2 DEF WrapCommit, TabsKept
    <3>4. row \in SessionRow
      BY <1>t, <3>1 DEF SessionRow, Dispatched
    <3>5. /\ row.status = IF conn[c].evaluate THEN "PENDING_EVALUATION" ELSE session[Mine(c)].status
          /\ row.engaged = session[Mine(c)].engaged /\ row.finalized = session[Mine(c)].finalized
      BY <1>t, <3>1 DEF SessionRow
    <3> HIDE DEF row
    <3> QED BY <1>0, <1>k, <3>1, <3>2, <3>3, <3>4, <3>5, ChangeRows DEF Exists, Finalized
  <2>4. CASE Greet(c)
    <3> DEFINE row == [session[Mine(c)] EXCEPT !.saved = TRUE]
    <3>1. Mine(c) \in Session /\ Change(Mine(c), row)
      BY <1>0, <2>4, MineType DEF Greet, At
    <3>2. /\ row \in SessionRow /\ row.status = session[Mine(c)].status
          /\ row.engaged = session[Mine(c)].engaged /\ row.finalized = session[Mine(c)].finalized
      BY <1>t, <3>1 DEF SessionRow
    <3> HIDE DEF row
    <3> QED BY <1>0, <1>k, <3>1, <3>2, ChangeRows
  <2>5. CASE Answer(c)
    <3>1. PICK b \in {TRUE, session[Mine(c)].saved} :
            Change(Mine(c), [session[Mine(c)] EXCEPT !.engaged = TRUE, !.saved = b])
      BY <2>5 DEF Answer
    <3> DEFINE row == [session[Mine(c)] EXCEPT !.engaged = TRUE, !.saved = b]
    <3>2. Mine(c) \in Session /\ Change(Mine(c), row)
      BY <1>0, <2>5, <3>1, MineType DEF Answer, At
    <3>3. session[Mine(c)] \in SessionRow
      BY <1>t, <3>2
    <3>4. /\ row \in SessionRow /\ row.status = session[Mine(c)].status
          /\ row.engaged /\ row.finalized = session[Mine(c)].finalized
      BY <3>3 DEF SessionRow
    <3> HIDE DEF row
    <3> QED BY <1>0, <1>k, <3>2, <3>4, ChangeRows
  <2> QED BY <1>1, <2>1, <2>2, <2>3, <2>4, <2>5
          DEF HandlerStep, StudentStep, WrapRead, WrapDispatch, EnterCheck, CloseRead, Leave
<1>2. ASSUME NEW s \in Session, Finalized(s), NEW o \in Dispatched,
             Change(s, [session[s] EXCEPT !.status = o])
      PROVE  RowsKept'
  <2> DEFINE row == [session[s] EXCEPT !.status = o]
  <2>1. /\ row \in SessionRow /\ row.status = o
        /\ row.engaged = session[s].engaged /\ row.finalized = session[s].finalized
    BY <1>t DEF SessionRow
  <2>2. Change(s, row)
    BY <1>2
  <2> HIDE DEF row
  <2> QED BY <1>0, <1>k, <1>2, <2>1, <2>2, ChangeRows DEF Finalized, Dispatched
<1>3. ASSUME WorkerStep, session' # session PROVE RowsKept'
  <2>1. worker.session \in Session /\ Exists(worker.session)
        /\ \E o \in {"EVALUATED", "EVALUATION_FAILED"} :
             Change(worker.session, [session[worker.session] EXCEPT !.status = o])
    BY <1>0, <1>3 DEF WorkerStep, Dequeue, EvalRead, EvalWrite, MarkFailed, WorkerKept, Sent
  <2>2. Finalized(worker.session)
    BY <1>0, <1>3, <2>1 DEF WorkerStep, Dequeue, EvalRead, EvalWrite, MarkFailed, WorkerKept,
                            Sent, Exists, RowsKept
  <2> QED BY <1>2, <2>1, <2>2 DEF Dispatched
<1>4. ASSUME SweepStep, session' # session PROVE RowsKept'
  <2> DEFINE row == [session[sweep.target] EXCEPT
                       !.finalized = sweep.due, !.status = "PENDING_EVALUATION"]
  <2>1. /\ sweep.target \in Session /\ sweep.due \in Time /\ session[sweep.target].engaged
        /\ Change(sweep.target, row)
    BY <1>0, <1>4 DEF SweepStep, SweepScan, ForceRead, ForceCommit, SweepKept, Used, Begun
  <2>2. /\ row \in SessionRow /\ row.status = "PENDING_EVALUATION" /\ row.engaged
        /\ row.finalized # NoTime
    <3>1. session[sweep.target] \in SessionRow /\ sweep.due # NoTime
      BY <1>t, <2>1 DEF NoTime, Time
    <3>2. row \in SessionRow
      BY <2>1, <3>1 DEF SessionRow, Dispatched
    <3> QED BY <2>1, <3>1, <3>2 DEF SessionRow
  <2> HIDE DEF row
  <2> QED BY <1>0, <2>1, <2>2, ChangeRows
<1>5. ASSUME NEW s \in Session, ReEvaluate(s) PROVE RowsKept'
  BY <1>2, <1>5 DEF ReEvaluate, Dispatched
<1>6. ASSUME ResetActivity PROVE RowsKept'
  <2>1. \A s \in Session : session'[s] = IF Exists(s) THEN [NoRow EXCEPT !.status = "deleted"]
                                         ELSE session[s]
    BY <1>6 DEF ResetActivity
  <2> QED BY <1>0, <2>1 DEF RowsKept, Exists, Finalized, NoRow, Dispatched
<1>7. ASSUME \/ \E d \in Time : EditDeadline(d)
             \/ Restart \/ Tick \/ UNCHANGED vars
      PROVE  session' = session
  BY <1>7 DEF EditDeadline, Restart, Tick, vars
<1> QED BY <1>s, <1>1, <1>3, <1>4, <1>5, <1>6, <1>7 DEF Next

-----------------------------------------------------------------------------
(***************************************************************************)
(* What a tab remembers: its own steps, then everybody else's.             *)
(***************************************************************************)
HandlerKept(h) ==
  /\ h.pc = "checked" => h.close = NoTime
  /\ h.pc \in {"open", "wrapup", "commit", "dispatch"} => Begun(h.session)
  /\ h.close # NoTime => Used(h.session)
  /\ h.pc = "commit" /\ h.evaluate /\ Exists(h.session) => Finalized(h.session)
  /\ h.pc = "dispatch" => Sent(h.session)

LEMMA TabsAre ==
  /\ TabsKept <=> \A c \in Conn : HandlerKept(conn[c])
  /\ TabsKept' <=> \A c \in Conn : HandlerKept(conn[c])'
  BY DEF TabsKept, HandlerKept, At, Mine

(* A tab that does nothing keeps what it has *)
LEMMA TabWaits ==
  ASSUME NEW c \in Conn, conn'[c] = conn[c], HandlerKept(conn[c]), \A r : Onward(r)
  PROVE  HandlerKept(conn[c])'
  BY DEF HandlerKept, Onward, Begun, Exists

(* Only the tab that moves has something to show *)
LEMMA TabMoves ==
  ASSUME TypeOK, TabsKept, \A r : Onward(r), NEW c \in Conn, NEW h,
         conn' = [conn EXCEPT ![c] = h], HandlerKept(h)'
  PROVE  TabsKept'
<1>1. ASSUME NEW d \in Conn \ {c} PROVE HandlerKept(conn[d])'
  BY <1>1, TabWaits, TabsAre DEF TypeOK
<1>2. HandlerKept(conn[c])'
  BY DEF HandlerKept, TypeOK
<1> QED BY <1>1, <1>2, TabsAre

LEMMA TabEnds ==
  ASSUME TypeOK, TabsKept, \A r : Onward(r), NEW c \in Conn, End(c) PROVE TabsKept'
<1>1. PICK h : /\ conn' = [conn EXCEPT ![c] = h]
               /\ h = [Off EXCEPT !.session = IF conn[c].close = NoTime THEN NoSession ELSE Mine(c),
                                  !.close = conn[c].close]
  BY DEF End
<1>2. h.pc = "off" /\ h.close = conn[c].close
      /\ (conn[c].close # NoTime => h.session = conn[c].session)
  BY <1>1 DEF Off, Mine
<1>3. h.close # NoTime => Used(h.session)'
  BY <1>2, TabsAre DEF HandlerKept, Onward
<1>4. HandlerKept(h)'
  BY <1>2, <1>3 DEF HandlerKept
<1> QED BY <1>1, <1>4, TabMoves

LEMMA TabsStep == LifeInv /\ [Next]_vars => TabsKept'
<1> SUFFICES ASSUME LifeInv, [Next]_vars PROVE TabsKept'
  OBVIOUS
<1>0. TypeOK /\ RowsKept /\ TabsKept /\ (\A r : Onward(r))
  BY StepOnward DEF LifeInv
<1>u. ASSUME conn' = conn PROVE TabsKept'
  BY <1>0, <1>u, TabWaits, TabsAre
<1>h. \A c \in Conn : conn[c] \in Handler /\ HandlerKept(conn[c])
  BY <1>0, TabsAre DEF TypeOK
<1>1. ASSUME NEW c \in Conn, EnterCheck(c) PROVE TabsKept'
  <2>1. PICK h : conn' = [conn EXCEPT ![c] = h] /\ h = [conn[c] EXCEPT !.pc = "checked"]
    BY <1>1 DEF EnterCheck
  <2>2. h.pc = "checked" /\ h.close = NoTime
    BY <1>1, <2>1 DEF EnterCheck, Off
  <2>3. HandlerKept(h)'
    BY <2>2 DEF HandlerKept
  <2> QED BY <1>0, <2>1, <2>3, TabMoves
<1>2. ASSUME NEW c \in Conn, EnterOpen(c) PROVE TabsKept'
  <2>1. ASSUME NEW s \in Session, Begun(s)',
               conn' = [conn EXCEPT ![c] = [conn[c] EXCEPT !.pc = "open", !.session = s]]
        PROVE  TabsKept'
    <3>1. PICK h : conn' = [conn EXCEPT ![c] = h] /\ h = [conn[c] EXCEPT !.pc = "open", !.session = s]
      BY <2>1
    <3>2. h.pc = "open" /\ h.session = s /\ h.close = NoTime
      BY <1>2, <1>h, <3>1 DEF EnterOpen, At, HandlerKept, Handler
    <3>3. HandlerKept(h)'
      BY <2>1, <3>2 DEF HandlerKept
    <3> QED BY <1>0, <3>1, <3>3, TabMoves
  <2>2. \A s \in Resumable : Begun(s)'
    BY <1>0 DEF Resumable, Exists, Begun, Onward
  <2>3. ASSUME NEW s \in Session, Change(s, [NoRow EXCEPT !.status = "IN_PROGRESS", !.started = now])
        PROVE  Begun(s)'
    BY <1>0, <2>3 DEF Change, TypeOK, NoRow, Begun
  <2>4. CASE End(c)
    BY <1>0, <2>4, TabEnds
  <2>5. CASE \E s \in Resumable :
               conn' = [conn EXCEPT ![c] = [conn[c] EXCEPT !.pc = "open", !.session = s]]
    BY <2>1, <2>2, <2>5 DEF Resumable
  <2>6. CASE \E s \in Session :
               /\ Change(s, [NoRow EXCEPT !.status = "IN_PROGRESS", !.started = now])
               /\ conn' = [conn EXCEPT ![c] = [conn[c] EXCEPT !.pc = "open", !.session = s]]
    BY <2>1, <2>3, <2>6
  <2> QED BY <1>2, <2>4, <2>5, <2>6 DEF EnterOpen
<1>3. ASSUME NEW c \in Conn, CloseCommit(c) PROVE TabsKept'
  <2> DEFINE pc == IF At(c, "open") THEN "wrapup" ELSE conn[c].pc
  <2>1. CASE At(c, "off")
    <3>1. PICK h : conn' = [conn EXCEPT ![c] = h] /\ h = Off
      BY <1>3, <2>1 DEF CloseCommit
    <3>2. HandlerKept(h)'
      BY <3>1 DEF HandlerKept, Off
    <3> QED BY <1>0, <3>1, <3>2, TabMoves
  <2>2. CASE ~At(c, "off")
    <3>1. PICK h : conn' = [conn EXCEPT ![c] = h] /\ h = [conn[c] EXCEPT !.close = NoTime, !.pc = pc]
      BY <1>3, <2>2 DEF CloseCommit
    <3>2. /\ h.pc = (IF At(c, "open") THEN "wrapup" ELSE conn[c].pc) /\ h.close = NoTime
          /\ h.session = conn[c].session /\ h.evaluate = conn[c].evaluate
      BY <1>h, <3>1 DEF Handler
    <3>3. HandlerKept(h)'
      BY <1>0, <1>h, <3>2 DEF HandlerKept, At, Onward, Begun, Exists
    <3> QED BY <1>0, <3>1, <3>3, TabMoves
  <2> QED BY <2>1, <2>2
<1>4. ASSUME NEW c \in Conn, WrapRead(c) PROVE TabsKept'
  <2>1. CASE End(c)
    BY <1>0, <2>1, TabEnds
  <2>2. CASE ~End(c)
    <3> DEFINE b == /\ session[Mine(c)].finalized # NoTime
                    /\ session[Mine(c)].status \notin Dispatched
                    /\ session[Mine(c)].finalized <= deadline
    <3>1. PICK h : /\ conn' = [conn EXCEPT ![c] = h]
                   /\ h = [conn[c] EXCEPT !.pc = "commit", !.evaluate = b]
      BY <1>4, <2>2 DEF WrapRead
    <3>2. /\ h.pc = "commit" /\ h.evaluate = b
          /\ h.session = conn[c].session /\ h.close = conn[c].close
      BY <1>h, <3>1 DEF Handler
    <3>3. Begun(h.session) /\ (h.close # NoTime => Used(h.session))
      BY <1>4, <1>h, <3>2 DEF WrapRead, At, HandlerKept
    <3>4. h.evaluate => Finalized(h.session)
      BY <3>2 DEF Mine, Finalized
    <3>5. HandlerKept(h)'
      BY <1>0, <3>2, <3>3, <3>4 DEF HandlerKept, Onward
    <3> QED BY <1>0, <3>1, <3>5, TabMoves
  <2> QED BY <2>1, <2>2
<1>5. ASSUME NEW c \in Conn, WrapCommit(c) PROVE TabsKept'
  <2>1. CASE End(c)
    BY <1>0, <2>1, TabEnds
  <2>2. CASE ~End(c)
    <3>1. /\ conn[c].evaluate
          /\ Change(Mine(c), [session[Mine(c)] EXCEPT
                !.saved = TRUE, !.status = IF conn[c].evaluate THEN "PENDING_EVALUATION" ELSE @])
      BY <1>5, <2>2 DEF WrapCommit
    <3>2. PICK h : conn' = [conn EXCEPT ![c] = h] /\ h = [conn[c] EXCEPT !.pc = "dispatch"]
      BY <1>5, <2>2 DEF WrapCommit
    <3>3. h.pc = "dispatch" /\ h.session = conn[c].session /\ h.close = conn[c].close
      BY <1>h, <3>2 DEF Handler
    <3>4. Mine(c) \in Session /\ session[Mine(c)] \in SessionRow
      BY <1>0, <1>5, MineType DEF WrapCommit, At
    <3>5. Sent(h.session)'
      BY <1>0, <3>1, <3>3, <3>4 DEF Change, TypeOK, SessionRow, Sent, Dispatched, Mine
    <3>6. Begun(h.session) /\ (h.close # NoTime => Used(h.session))
      BY <1>5, <1>h, <3>3 DEF WrapCommit, At, HandlerKept
    <3>7. HandlerKept(h)'
      BY <1>0, <3>3, <3>5, <3>6 DEF HandlerKept, Onward
    <3> QED BY <1>0, <3>2, <3>7, TabMoves
  <2> QED BY <2>1, <2>2
<1>6. ASSUME NEW c \in Conn, WrapDispatch(c) PROVE TabsKept'
  BY <1>0, <1>6, TabEnds DEF WrapDispatch
<1>7. ASSUME NEW c \in Conn, CloseRead(c) PROVE TabsKept'
  <2>1. PICK h : conn' = [conn EXCEPT ![c] = h] /\ h = [conn[c] EXCEPT !.close = now]
    BY <1>7 DEF CloseRead
  <2>2. h.pc = "open" /\ h.session = conn[c].session
    BY <1>7, <1>h, <2>1 DEF CloseRead, At, Handler
  <2>3. Used(h.session)
    BY <1>7, <1>h, <2>2 DEF CloseRead, At, Mine, HandlerKept, Used
  <2>4. HandlerKept(h)'
    BY <1>0, <2>2, <2>3 DEF HandlerKept, Onward, Used
  <2> QED BY <1>0, <2>1, <2>4, TabMoves
<1>8. ASSUME NEW c \in Conn, Leave(c) PROVE TabsKept'
  <2>1. PICK h : conn' = [conn EXCEPT ![c] = h] /\ h = [conn[c] EXCEPT !.pc = "wrapup"]
    BY <1>8 DEF Leave
  <2>2. h.pc = "wrapup" /\ h.session = conn[c].session /\ h.close = conn[c].close
    BY <1>h, <2>1 DEF Handler
  <2>3. Begun(h.session) /\ (h.close # NoTime => Used(h.session))
    BY <1>8, <1>h, <2>2 DEF Leave, At, HandlerKept
  <2>4. HandlerKept(h)'
    BY <1>0, <2>2, <2>3 DEF HandlerKept, Onward
  <2> QED BY <1>0, <2>1, <2>4, TabMoves
<1>9. ASSUME Restart PROVE TabsKept'
  BY <1>9 DEF Restart, TabsKept, At, Off
<1>10. ASSUME NEW c \in Conn, HandlerStep(c) \/ StudentStep(c) PROVE TabsKept'
  BY <1>u, <1>1, <1>2, <1>3, <1>4, <1>5, <1>6, <1>7, <1>8, <1>10
  DEF HandlerStep, StudentStep, Greet, Answer
<1>11. ASSUME \/ WorkerStep \/ SweepStep \/ \E s \in Session : ReEvaluate(s)
              \/ ResetActivity \/ \E d \in Time : EditDeadline(d)
              \/ Tick \/ UNCHANGED vars
       PROVE  conn' = conn
  BY <1>11 DEF WorkerStep, Dequeue, EvalRead, EvalWrite, MarkFailed, SweepStep, SweepScan, ForceRead,
               ForceCommit, ReEvaluate, ResetActivity, EditDeadline, Tick, vars
<1> QED BY <1>u, <1>9, <1>10, <1>11 DEF Next

-----------------------------------------------------------------------------
(***************************************************************************)
(* What the queue, the worker and the sweep remember.                      *)
(***************************************************************************)
(* A queue entry is an old one or comes from a dispatch *)
LEMMA AppendKept ==
  ASSUME QueueKept, queue \in Seq(Session), \A r : Onward(r), NEW s \in Session, Sent(s)',
         queue' = Append(queue, s)
  PROVE  QueueKept'
<1> SUFFICES ASSUME NEW i \in DOMAIN queue' PROVE Sent(queue[i])'
  BY DEF QueueKept
<1>1. PICK r : r = queue'[i]
  OBVIOUS
<1>2. r = s \/ \E j \in DOMAIN queue : r = queue[j]
  BY <1>1
<1>3. Sent(r)'
  BY <1>2 DEF QueueKept, Onward
<1> QED BY <1>1, <1>3 DEF Sent

LEMMA QueueStep == LifeInv /\ [Next]_vars => QueueKept'
<1> SUFFICES ASSUME LifeInv, [Next]_vars PROVE QueueKept'
  OBVIOUS
<1>0. TypeOK /\ TabsKept /\ QueueKept /\ SweepKept /\ (\A r : Onward(r)) /\ queue \in Seq(Session)
  BY StepOnward DEF LifeInv, TypeOK
<1>1. ASSUME queue' = queue PROVE QueueKept'
  <2> SUFFICES ASSUME NEW i \in DOMAIN queue' PROVE Sent(queue[i])'
    BY DEF QueueKept
  <2>1. PICK r : r = queue'[i]
    OBVIOUS
  <2>2. Sent(r)'
    BY <1>0, <1>1, <2>1 DEF QueueKept, Onward
  <2> QED BY <2>1, <2>2 DEF Sent
<1>2. ASSUME NEW c \in Conn, WrapDispatch(c) PROVE QueueKept'
  <2>1. PICK s : s = Mine(c)
    OBVIOUS
  <2>2. s \in Session /\ Sent(s)
    BY <1>0, <1>2, <2>1 DEF WrapDispatch, TabsKept, Sent
  <2>3. Sent(s)'
    BY <1>0, <2>2 DEF Onward
  <2> QED BY <1>0, <1>1, <1>2, <2>1, <2>2, <2>3, AppendKept DEF WrapDispatch
<1>3. ASSUME NEW c \in Conn, HandlerStep(c) \/ StudentStep(c), ~WrapDispatch(c) PROVE queue' = queue
  BY <1>3 DEF HandlerStep, StudentStep, EnterOpen, CloseCommit, WrapRead, WrapCommit, EnterCheck,
              Greet, Answer, CloseRead, Leave
<1>4. ASSUME Dequeue PROVE QueueKept'
  <2>1. Len(queue) \in Nat /\ queue' = Tail(queue) /\ queue # <<>>
    BY <1>0, <1>4 DEF Dequeue
  <2> SUFFICES ASSUME NEW i \in DOMAIN queue' PROVE Sent(queue[i])'
    BY DEF QueueKept
  <2>2. PICK r : r = queue'[i]
    OBVIOUS
  <2>3. \E j \in DOMAIN queue : r = queue[j]
    BY <1>0, <2>1, <2>2, HeadTailProperties
  <2>4. Sent(r)'
    BY <1>0, <2>3 DEF QueueKept, Onward
  <2> QED BY <2>2, <2>4 DEF Sent
<1>5. ASSUME WorkerStep, ~Dequeue PROVE queue' = queue
  BY <1>5 DEF WorkerStep, EvalRead, EvalWrite, MarkFailed
<1>6. ASSUME NEW s \in Session, ReEvaluate(s) PROVE QueueKept'
  <2>1. Sent(s)'
    BY <1>0, <1>6 DEF ReEvaluate, Change, TypeOK, SessionRow, Sent, Dispatched
  <2> QED BY <1>0, <1>6, <2>1, AppendKept DEF ReEvaluate
<1>7. ASSUME ForceCommit PROVE QueueKept'
  <2>1. PICK s : s = sweep.target
    OBVIOUS
  <2>2. s \in Session
    BY <1>0, <1>7, <2>1 DEF ForceCommit, SweepKept, Used, Begun
  <2>3. CASE queue' = Append(queue, s)
            /\ Change(s, [session[s] EXCEPT !.finalized = sweep.due, !.status = "PENDING_EVALUATION"])
    <3>1. Sent(s)'
      BY <1>0, <2>2, <2>3 DEF Change, TypeOK, SessionRow, Sent, Dispatched
    <3> QED BY <1>0, <2>2, <2>3, <3>1, AppendKept
  <2> QED BY <1>1, <1>7, <2>1, <2>3 DEF ForceCommit
<1>8. ASSUME SweepStep, ~ForceCommit PROVE queue' = queue
  BY <1>8 DEF SweepStep, SweepScan, ForceRead
<1>9. ASSUME Restart PROVE QueueKept'
  BY <1>9 DEF Restart, QueueKept
<1>10. ASSUME \/ ResetActivity \/ \E d \in Time : EditDeadline(d)
              \/ Tick \/ UNCHANGED vars
       PROVE  queue' = queue
  BY <1>10 DEF ResetActivity, EditDeadline, Tick, vars
<1> QED BY <1>1, <1>2, <1>3, <1>4, <1>5, <1>6, <1>7, <1>8, <1>9, <1>10 DEF Next

LEMMA WorkerStepKept == LifeInv /\ [Next]_vars => WorkerKept'
<1> SUFFICES ASSUME LifeInv, [Next]_vars, worker'.pc # "idle" PROVE Sent(worker.session)'
  BY DEF WorkerKept
<1>0. TypeOK /\ QueueKept /\ WorkerKept /\ (\A r : Onward(r)) /\ queue \in Seq(Session)
  BY StepOnward DEF LifeInv, TypeOK
<1>1. PICK r : r = worker'.session
  OBVIOUS
<1>2. ASSUME worker.pc # "idle", worker'.session = worker.session PROVE Sent(r)'
  BY <1>0, <1>1, <1>2 DEF WorkerKept, Onward
<1>3. ASSUME Dequeue PROVE Sent(r)'
  <2>1. r = queue[1] /\ 1 \in DOMAIN queue
    BY <1>0, <1>1, <1>3, HeadTailProperties, EmptySeq DEF Dequeue
  <2> QED BY <1>0, <2>1 DEF QueueKept, Onward
<1>4. ASSUME EvalRead \/ EvalWrite \/ MarkFailed
      PROVE  worker.pc # "idle" /\ worker'.session = worker.session
  <2>1. worker.pc # "idle"
    BY <1>4 DEF EvalRead, EvalWrite, MarkFailed
  <2>2. worker' # Idle
    BY DEF Idle
  <2>3. \/ worker' = [worker EXCEPT !.pc = "read", !.attempt = @ + 1]
        \/ worker' = [worker EXCEPT !.pc = "mark"]
        \/ worker' = [worker EXCEPT !.pc = "llm"]
    BY <1>4, <2>2 DEF EvalRead, EvalWrite, MarkFailed, AttemptFails
  <2> QED BY <1>0, <2>1, <2>3 DEF TypeOK
<1>5. ASSUME Restart PROVE FALSE
  BY <1>5 DEF Restart, Idle
<1>6. ASSUME \/ \E c \in Conn : HandlerStep(c) \/ StudentStep(c)
             \/ SweepStep \/ \E s \in Session : ReEvaluate(s)
             \/ ResetActivity \/ \E d \in Time : EditDeadline(d)
             \/ Tick \/ UNCHANGED vars
      PROVE  worker' = worker
  BY <1>6 DEF HandlerStep, StudentStep, EnterOpen, CloseCommit, WrapRead, WrapCommit, WrapDispatch,
              EnterCheck, Greet, Answer, CloseRead, Leave, SweepStep, SweepScan, ForceRead,
              ForceCommit, ReEvaluate, ResetActivity, EditDeadline, Tick, vars
<1>7. Sent(r)'
  BY <1>2, <1>3, <1>4, <1>5, <1>6 DEF Next, WorkerStep
<1> QED BY <1>1, <1>7 DEF Sent

LEMMA SweepStepKept == LifeInv /\ [Next]_vars => SweepKept'
<1> SUFFICES ASSUME LifeInv, [Next]_vars PROVE SweepKept'
  OBVIOUS
<1>0. TypeOK /\ SweepKept /\ (\A r : Onward(r))
  BY StepOnward DEF LifeInv
<1>1. ASSUME sweep' = sweep PROVE SweepKept'
  <2>1. \A s \in sweep.todo : Used(s)'
    BY <1>0 DEF SweepKept, Onward
  <2>2. PICK t : t = sweep.target
    OBVIOUS
  <2>3. sweep.pc = "force" => Used(t)'
    BY <1>0, <2>2 DEF SweepKept, Onward
  <2> QED BY <1>0, <1>1, <2>1, <2>2, <2>3 DEF SweepKept, Used
<1>2. ASSUME NEW w, sweep' = w, w.pc = "next" /\ w.due \in Time /\ \A s \in w.todo : Used(s)
      PROVE  SweepKept'
  <2>1. \A s \in w.todo : Used(s)'
    BY <1>0, <1>2 DEF Onward
  <2> QED BY <1>2, <2>1 DEF SweepKept
<1>3. ASSUME sweep' = Asleep PROVE SweepKept'
  BY <1>3 DEF SweepKept, Asleep
<1>4. ASSUME NEW todo \in SUBSET sweep.todo, sweep.pc # "idle", sweep' = Rest(todo) PROVE SweepKept'
  <2>1. CASE todo = {}
    BY <1>3, <1>4, <2>1 DEF Rest
  <2>2. CASE todo # {}
    <3>1. PICK w : w = [sweep EXCEPT !.pc = "next", !.todo = todo, !.target = NoSession]
      OBVIOUS
    <3>2. w.pc = "next" /\ w.due = sweep.due /\ w.todo = todo
      BY <1>0, <3>1 DEF TypeOK
    <3> QED BY <1>0, <1>2, <1>4, <2>2, <3>1, <3>2 DEF Rest, SweepKept
  <2> QED BY <2>1, <2>2
<1>5. ASSUME SweepScan PROVE SweepKept'
  <2>1. PICK w : w = [Asleep EXCEPT !.pc = "next", !.todo = Overdue, !.due = deadline]
    OBVIOUS
  <2>2. w.pc = "next" /\ w.due = deadline /\ w.todo = Overdue
    BY <2>1 DEF Asleep
  <2>3. \A s \in Overdue : Used(s)
    BY DEF Overdue, Used, Begun
  <2> QED BY <1>0, <1>2, <1>5, <2>1, <2>2, <2>3 DEF SweepScan, TypeOK
<1>6. ASSUME NEW s \in Session, ForceRead(s) PROVE SweepKept'
  <2>1. CASE session[s].status = "IN_PROGRESS"
    <3>1. PICK w : w = [sweep EXCEPT !.pc = "force", !.todo = @ \ {s}, !.target = s]
      OBVIOUS
    <3>2. w.pc = "force" /\ w.due = sweep.due /\ w.todo = sweep.todo \ {s} /\ w.target = s
      BY <1>0, <3>1 DEF TypeOK
    <3>3. \A t \in sweep.todo : Used(t)'
      BY <1>0 DEF SweepKept, Onward
    <3> QED BY <1>0, <1>6, <2>1, <3>1, <3>2, <3>3 DEF ForceRead, SweepKept
  <2>2. CASE session[s].status # "IN_PROGRESS"
    BY <1>4, <1>6, <2>2 DEF ForceRead
  <2> QED BY <2>1, <2>2
<1>7. ASSUME ForceCommit PROVE SweepKept'
  BY <1>4, <1>7 DEF ForceCommit
<1>8. ASSUME Restart PROVE SweepKept'
  BY <1>3, <1>8 DEF Restart
<1>9. ASSUME \/ \E c \in Conn : HandlerStep(c) \/ StudentStep(c)
             \/ WorkerStep \/ \E s \in Session : ReEvaluate(s)
             \/ ResetActivity \/ \E d \in Time : EditDeadline(d)
             \/ Tick \/ UNCHANGED vars
      PROVE  sweep' = sweep
  BY <1>9 DEF HandlerStep, StudentStep, EnterOpen, CloseCommit, WrapRead, WrapCommit, WrapDispatch,
              EnterCheck, Greet, Answer, CloseRead, Leave, WorkerStep, Dequeue, EvalRead, EvalWrite,
              MarkFailed, ReEvaluate, ResetActivity, EditDeadline, Tick, vars
<1> QED BY <1>1, <1>5, <1>6, <1>7, <1>8, <1>9 DEF Next, SweepStep

LEMMA BudgetStep == LifeInv /\ [Next]_vars => BudgetKept'
<1> SUFFICES ASSUME LifeInv, [Next]_vars PROVE BudgetKept'
  OBVIOUS
<1>0. budget \in [Event -> Nat] /\ budget["crash"] <= Budget["crash"] /\ Budget["crash"] \in Nat
      /\ budget["crash"] \in Nat
  BY BudgetAssumption DEF LifeInv, TypeOK, BudgetKept, Event
<1>1. ASSUME NEW e \in Event, Spend(e) PROVE BudgetKept'
  BY <1>0, <1>1 DEF Spend, BudgetKept
<1>2. ASSUME budget' = budget PROVE BudgetKept'
  BY <1>0, <1>2 DEF BudgetKept
<1>3. ASSUME \/ \E s \in Session : ReEvaluate(s)
             \/ ResetActivity \/ Restart
             \/ \E d \in Time : EditDeadline(d)
      PROVE  \E e \in Event : Spend(e)
  BY <1>3 DEF ReEvaluate, ResetActivity, Restart, EditDeadline, Event
<1>4. ASSUME \/ \E c \in Conn : HandlerStep(c) \/ StudentStep(c)
             \/ WorkerStep \/ SweepStep \/ Tick \/ UNCHANGED vars
      PROVE  budget' = budget
  BY <1>4 DEF HandlerStep, StudentStep, EnterOpen, CloseCommit, WrapRead, WrapCommit, WrapDispatch,
              EnterCheck, Greet, Answer, CloseRead, Leave, WorkerStep, Dequeue, EvalRead, EvalWrite,
              MarkFailed, SweepStep, SweepScan, ForceRead, ForceCommit, Tick, vars, activityVars
<1> QED BY <1>1, <1>2, <1>3, <1>4 DEF Next

LEMMA LifeStep == LifeInv /\ [Next]_vars => LifeInv'
  BY TypeStep, RowsStep, TabsStep, QueueStep, WorkerStepKept, SweepStepKept, BudgetStep DEF LifeInv

LEMMA LifeInvariant == Spec => []LifeInv
  BY LifeInit, LifeStep, PTL DEF Spec

(***************************************************************************)
(* Sessions, tabs, queue, worker and sweep keep their types.               *)
(***************************************************************************)
THEOREM LifecycleTypeCorrect == Spec => []TypeOK
<1>1. LifeInv => TypeOK
  BY DEF LifeInv
<1> QED BY <1>1, LifeInvariant, PTL

-----------------------------------------------------------------------------
(***************************************************************************)
(* The steps of the abstract lifecycle, session by session.                *)
(***************************************************************************)
StatusOf(s) == session[s].status

LEMMA Stutters ==
  ASSUME \A r \in Session : /\ StatusOf(r)' = StatusOf(r) /\ Finalized(r)' = Finalized(r)
                            /\ Owed(r)' = Owed(r)
  PROVE  UNCHANGED Abstract!vars
  BY DEF Abstract!vars, StatusOf

LEMMA Opens ==
  ASSUME NEW s \in Session, StatusOf(s) = "none", StatusOf(s)' = "IN_PROGRESS",
         \A r \in Session \ {s} : StatusOf(r)' = StatusOf(r),
         \A r \in Session : Finalized(r)' = Finalized(r) /\ Owed(r)' = Owed(r)
  PROVE  Abstract!Next
<1>1. Abstract!Open(s)
  BY DEF Abstract!Open, StatusOf
<1> QED BY <1>1 DEF Abstract!Next

LEMMA Closes ==
  ASSUME NEW s \in Session, StatusOf(s) = "IN_PROGRESS", Finalized(s)',
         \A r \in Session \ {s} : Finalized(r)' = Finalized(r),
         \A r \in Session : StatusOf(r)' = StatusOf(r) /\ Owed(r)' = Owed(r)
  PROVE  Abstract!Next
<1>1. Abstract!Close(s)
  BY DEF Abstract!Close, StatusOf
<1> QED BY <1>1 DEF Abstract!Next

LEMMA Dispatches ==
  ASSUME NEW s \in Session, StatusOf(s) \in {"IN_PROGRESS"} \cup Dispatched,
         StatusOf(s)' = "PENDING_EVALUATION", Finalized(s)', Owed(s)' = Owed(s) + 1,
         \A r \in Session \ {s} : /\ StatusOf(r)' = StatusOf(r) /\ Finalized(r)' = Finalized(r)
                                  /\ Owed(r)' = Owed(r)
  PROVE  Abstract!Next
<1>1. Abstract!Dispatch(s)
  BY DEF Abstract!Dispatch, StatusOf, Dispatched, Abstract!Dispatched, Abstract!Outcome
<1> QED BY <1>1 DEF Abstract!Next

LEMMA Settles ==
  ASSUME NEW s \in Session, Owed(s) > 0, StatusOf(s) \in Dispatched,
         StatusOf(s)' \in {"EVALUATED", "EVALUATION_FAILED"}, Owed(s)' = Owed(s) - 1,
         \A r \in Session \ {s} : StatusOf(r)' = StatusOf(r) /\ Owed(r)' = Owed(r),
         \A r \in Session : Finalized(r)' = Finalized(r)
  PROVE  Abstract!Next
<1>1. Abstract!Settle(s)
  BY DEF Abstract!Settle, StatusOf, Dispatched, Abstract!Dispatched, Abstract!Outcome
<1> QED BY <1>1 DEF Abstract!Next

LEMMA Forgets ==
  ASSUME NEW s \in Session, Owed(s) > 0, StatusOf(s) = "deleted", Owed(s)' = Owed(s) - 1,
         \A r \in Session \ {s} : Owed(r)' = Owed(r),
         \A r \in Session : StatusOf(r)' = StatusOf(r) /\ Finalized(r)' = Finalized(r)
  PROVE  Abstract!Next
<1>1. Abstract!Forget(s)
  BY DEF Abstract!Forget, StatusOf
<1> QED BY <1>1 DEF Abstract!Next

LEMMA Loses ==
  ASSUME DbMayFail \/ Budget["crash"] > 0,
         \A r \in Session : /\ Owed(r)' \in Nat /\ Owed(r)' <= Owed(r)
                            /\ StatusOf(r)' = StatusOf(r) /\ Finalized(r)' = Finalized(r)
  PROVE  Abstract!Next
<1>1. Abstract!Lose
  BY DEF Abstract!Lose, StatusOf
<1> QED BY <1>1 DEF Abstract!Next

LEMMA Deletes ==
  ASSUME NEW S \in SUBSET Session, \A s \in S : StatusOf(s) # "none",
         \A s \in S : StatusOf(s)' = "deleted" /\ ~Finalized(s)',
         \A s \in Session \ S : StatusOf(s)' = StatusOf(s) /\ Finalized(s)' = Finalized(s),
         \A s \in Session : Owed(s)' = Owed(s)
  PROVE  Abstract!Next
<1>1. Abstract!Delete(S)
  <2>1. \A s \in Session : StatusOf(s)' = IF s \in S THEN "deleted" ELSE StatusOf(s)
    OBVIOUS
  <2>2. \A s \in Session : Finalized(s)' = (s \notin S /\ Finalized(s))
    BY DEF Finalized
  <2>3. [s \in Session |-> Finalized(s)]' = [s \in Session |-> s \notin S /\ Finalized(s)]
    BY <2>2, Zenon
  <2> QED BY <2>1, <2>3 DEF Abstract!Delete, StatusOf
<1>2. S \in SUBSET {s \in Session : [r \in Session |-> session[r].status][s] # "none"}
  BY DEF StatusOf
<1> QED BY <1>1, <1>2 DEF Abstract!Next

-----------------------------------------------------------------------------
(***************************************************************************)
(* How steps move requests between handlers, queue and worker.             *)
(***************************************************************************)
LEMMA OwedNat ==
  ASSUME TypeOK PROVE \A s \in Session : Owed(s) \in Nat
<1> SUFFICES ASSUME NEW s \in Session PROVE OwedOf(queue, worker, conn, s) \in Nat
  BY OwedIs
<1>1. Cardinality(Places(queue, s)) \in Nat /\ Cardinality(Senders(conn, s)) \in Nat
  BY PlacesFinite, SendersFinite DEF TypeOK
<1> QED BY <1>1 DEF OwedOf, Held, One

LEMMA OwedSame ==
  ASSUME UNCHANGED <<queue, worker, conn>> PROVE \A s \in Session : Owed(s)' = Owed(s)
  BY OwedIs

LEMMA OwedTab ==
  ASSUME TypeOK, NEW c \in Conn, NEW h \in Handler, conn' = [conn EXCEPT ![c] = h],
         UNCHANGED <<queue, worker>>
  PROVE  \A s \in Session : Owed(s)' = Owed(s) - Sends(conn[c], s) + Sends(h, s)
<1> SUFFICES ASSUME NEW s \in Session PROVE Owed(s)' = Owed(s) - Sends(conn[c], s) + Sends(h, s)
  OBVIOUS
<1>1. Cardinality(Places(queue, s)) \in Nat /\ Cardinality(Senders(conn, s)) \in Nat
  BY PlacesFinite, SendersFinite DEF TypeOK
<1>2. Cardinality(Senders(conn', s)) = Cardinality(Senders(conn, s)) - Sends(conn[c], s) + Sends(h, s)
  BY SendersMove DEF TypeOK
<1>3. \A g : Sends(g, s) \in {0, 1}
  BY DEF Sends, One
<1>4. Held(worker, s) \in {0, 1} /\ worker' = worker /\ queue' = queue
  BY DEF Held, One
<1>5. Owed(s) = Cardinality(Places(queue, s)) + Held(worker, s) + Cardinality(Senders(conn, s))
  BY OwedIs DEF OwedOf
<1>6. Owed(s)' = Cardinality(Places(queue, s)) + Held(worker, s) + Cardinality(Senders(conn', s))
  BY <1>4, OwedIs DEF OwedOf
<1>7. Sends(conn[c], s) \in Int /\ Sends(h, s) \in Int
  BY <1>3
<1> QED BY <1>1, <1>2, <1>4, <1>5, <1>6, <1>7

LEMMA OwedAppend ==
  ASSUME TypeOK, NEW t \in Session, queue' = Append(queue, t), UNCHANGED <<worker, conn>>
  PROVE  \A s \in Session : Owed(s)' = Owed(s) + One(s = t)
<1> SUFFICES ASSUME NEW s \in Session PROVE Owed(s)' = Owed(s) + One(s = t)
  OBVIOUS
<1>1. Cardinality(Places(queue, s)) \in Nat /\ Cardinality(Senders(conn, s)) \in Nat
  BY PlacesFinite, SendersFinite DEF TypeOK
<1>2. Cardinality(Places(queue', s)) = Cardinality(Places(queue, s)) + One(s = t)
  BY PlacesAppend DEF TypeOK
<1> QED BY <1>1, <1>2, OwedIs DEF OwedOf, Held, One

LEMMA OwedSent ==
  ASSUME TypeOK, NEW c \in Conn, NEW h \in Handler, conn' = [conn EXCEPT ![c] = h],
         conn[c].pc = "dispatch", h.pc # "dispatch", conn[c].session \in Session,
         queue' = Append(queue, conn[c].session), worker' = worker
  PROVE  \A s \in Session : Owed(s)' = Owed(s)
<1> SUFFICES ASSUME NEW s \in Session PROVE Owed(s)' = Owed(s)
  OBVIOUS
<1>1. Cardinality(Places(queue, s)) \in Nat /\ Cardinality(Senders(conn, s)) \in Nat
  BY PlacesFinite, SendersFinite DEF TypeOK
<1>2. Cardinality(Places(queue', s)) = Cardinality(Places(queue, s)) + One(s = conn[c].session)
  BY PlacesAppend DEF TypeOK
<1>3. Cardinality(Senders(conn', s)) = Cardinality(Senders(conn, s)) - Sends(conn[c], s) + Sends(h, s)
  BY SendersMove DEF TypeOK
<1>4. Sends(conn[c], s) = One(s = conn[c].session) /\ Sends(h, s) = 0
  BY DEF Sends, One
<1>5. Held(worker, s) \in {0, 1} /\ One(s = conn[c].session) \in {0, 1}
  BY DEF Held, One
<1>6. Owed(s) = Cardinality(Places(queue, s)) + Held(worker, s) + Cardinality(Senders(conn, s))
  BY OwedIs DEF OwedOf
<1>7. Owed(s)' = Cardinality(Places(queue', s)) + Held(worker, s) + Cardinality(Senders(conn', s))
  BY OwedIs DEF OwedOf
<1>8. PICK b \in {0, 1} : b = One(s = conn[c].session)
  BY <1>5
<1> QED BY <1>1, <1>2, <1>3, <1>4, <1>5, <1>6, <1>7, <1>8

LEMMA OwedTaken ==
  ASSUME TypeOK, worker.pc = "idle", queue # <<>>, queue' = Tail(queue),
         worker'.pc # "idle", worker'.session = Head(queue), conn' = conn
  PROVE  \A s \in Session : Owed(s)' = Owed(s)
<1> SUFFICES ASSUME NEW s \in Session PROVE Owed(s)' = Owed(s)
  OBVIOUS
<1>1. queue \in Seq(Session) /\ Tail(queue) \in Seq(Session)
  BY HeadTailProperties DEF TypeOK
<1>2. Cardinality(Places(Tail(queue), s)) \in Nat /\ Cardinality(Senders(conn, s)) \in Nat
  BY <1>1, PlacesFinite, SendersFinite
<1>3. Cardinality(Places(queue, s)) = Cardinality(Places(queue', s)) + One(Head(queue) = s)
  BY <1>1, PlacesTail
<1> QED BY <1>2, <1>3, OwedIs DEF OwedOf, Held, One

LEMMA OwedWorks ==
  ASSUME worker.pc # "idle", worker'.pc # "idle", worker'.session = worker.session,
         UNCHANGED <<queue, conn>>
  PROVE  \A s \in Session : Owed(s)' = Owed(s)
  BY OwedIs DEF OwedOf, Held

LEMMA OwedAnswered ==
  ASSUME TypeOK, worker.pc # "idle", worker'.pc = "idle", UNCHANGED <<queue, conn>>
  PROVE  \A s \in Session : /\ Owed(s)' = Owed(s) - One(s = worker.session)
                            /\ s = worker.session => Owed(s) > 0
<1> SUFFICES ASSUME NEW s \in Session
             PROVE  /\ Owed(s)' = Owed(s) - One(s = worker.session)
                    /\ s = worker.session => Owed(s) > 0
  OBVIOUS
<1>1. Cardinality(Places(queue, s)) \in Nat /\ Cardinality(Senders(conn, s)) \in Nat
  BY PlacesFinite, SendersFinite DEF TypeOK
<1> QED BY <1>1, OwedIs DEF OwedOf, Held, One

LEMMA OwedQuiet ==
  ASSUME TypeOK, NEW c \in Conn, NEW h \in Handler, conn' = [conn EXCEPT ![c] = h],
         \A s : Sends(h, s) = Sends(conn[c], s), UNCHANGED <<queue, worker>>
  PROVE  \A s \in Session : Owed(s)' = Owed(s)
<1> SUFFICES ASSUME NEW s \in Session PROVE Owed(s)' = Owed(s)
  OBVIOUS
<1>1. Owed(s)' = Owed(s) - Sends(conn[c], s) + Sends(h, s) /\ Owed(s) \in Nat
  BY OwedTab, OwedNat
<1>2. Sends(conn[c], s) \in {0, 1} /\ Sends(h, s) = Sends(conn[c], s)
  BY DEF Sends, One
<1> QED BY <1>1, <1>2

-----------------------------------------------------------------------------
(***************************************************************************)
(* Every step is a step of the abstract lifecycle or leaves it as it is.   *)
(***************************************************************************)
Steps == Abstract!Next \/ UNCHANGED Abstract!vars

LEMMA RowView ==
  ASSUME TypeOK, NEW s \in Session, NEW row, Change(s, row)
  PROVE  \A r \in Session :
           /\ StatusOf(r)' = IF r = s THEN row.status ELSE StatusOf(r)
           /\ Finalized(r)' = IF r = s THEN row.finalized # NoTime ELSE Finalized(r)
  BY DEF Change, TypeOK, StatusOf, Finalized

LEMMA SameView ==
  ASSUME session' = session
  PROVE  \A r \in Session : StatusOf(r)' = StatusOf(r) /\ Finalized(r)' = Finalized(r)
  BY DEF StatusOf, Finalized

(* A row that keeps its status and its end looks the same from outside *)
LEMMA RowSame ==
  ASSUME TypeOK, NEW s \in Session, NEW row, Change(s, row), row.status = session[s].status,
         row.finalized # NoTime <=> Finalized(s)
  PROVE  \A r \in Session : StatusOf(r)' = StatusOf(r) /\ Finalized(r)' = Finalized(r)
<1>1. StatusOf(s) = session[s].status /\ (row.finalized # NoTime) = Finalized(s)
  BY DEF StatusOf, Finalized
<1> QED BY <1>1, RowView

(* An outcome for s, or none: what a handler or the worker holds is given up *)
LEMMA GivesUp ==
  ASSUME TypeOK, NEW s \in Session, Sent(s), ~Exists(s) \/ DbMayFail, session' = session,
         Owed(s) > 0, \A r \in Session : Owed(r)' = Owed(r) - One(r = s)
  PROVE  Steps
<1>1. \A r \in Session : Owed(r) \in Nat
  BY OwedNat
<1>2. Owed(s)' = Owed(s) - 1 /\ \A r \in Session \ {s} : Owed(r)' = Owed(r)
  <2>1. Owed(s)' = Owed(s) - 1
    BY DEF One
  <2>2. ASSUME NEW r \in Session \ {s} PROVE Owed(r)' = Owed(r)
    <3>1. Owed(r)' = Owed(r) - 0
      BY <2>2 DEF One
    <3> QED BY <1>1, <3>1
  <2> QED BY <2>1, <2>2
<1>3. CASE ~Exists(s)
  <2>1. StatusOf(s) = "deleted"
    BY <1>3 DEF Sent, Exists, StatusOf, Dispatched
  <2> QED BY <1>2, <2>1, SameView, Forgets DEF Steps
<1>4. CASE DbMayFail
  <2>1. \A r \in Session : Owed(r)' \in Nat /\ Owed(r)' <= Owed(r)
    BY <1>1, <1>2
  <2> QED BY <1>4, <2>1, SameView, Loses DEF Steps
<1> QED BY <1>3, <1>4

LEMMA TabSteps ==
  ASSUME LifeInv, NEW c \in Conn, HandlerStep(c) \/ StudentStep(c) PROVE Steps
<1>0. TypeOK /\ RowsKept /\ TabsKept /\ \A s \in Session : session[s] \in SessionRow
  BY DEF LifeInv, TypeOK
<1>h. conn[c] \in Handler
  BY <1>0 DEF TypeOK
<1>1. ASSUME \A r \in Session : StatusOf(r)' = StatusOf(r) /\ Finalized(r)' = Finalized(r),
             NEW h \in Handler, conn' = [conn EXCEPT ![c] = h],
             \A s : Sends(h, s) = Sends(conn[c], s), UNCHANGED <<queue, worker>>
      PROVE  Steps
  BY <1>0, <1>1, OwedQuiet, Stutters DEF Steps
<1>2. \E h \in Handler : /\ h.pc = "off"
                         /\ End(c) => conn' = [conn EXCEPT ![c] = h]
  <2>1. PICK h : h = [Off EXCEPT !.session = IF conn[c].close = NoTime THEN NoSession ELSE Mine(c),
                                 !.close = conn[c].close]
    OBVIOUS
  <2>2. h \in Handler /\ h.pc = "off"
    BY <1>h, <2>1 DEF Off, Handler, Mine, NoTime, NoSession
  <2> QED BY <2>1, <2>2 DEF End
<1>3. ASSUME \A r \in Session : StatusOf(r)' = StatusOf(r) /\ Finalized(r)' = Finalized(r),
             End(c), conn[c].pc # "dispatch", UNCHANGED <<queue, worker>>
      PROVE  Steps
  <2>1. PICK h \in Handler : h.pc = "off" /\ conn' = [conn EXCEPT ![c] = h]
    BY <1>2, <1>3
  <2>2. \A s : Sends(h, s) = Sends(conn[c], s)
    BY <1>3, <2>1 DEF Sends
  <2> QED BY <1>1, <1>3, <2>1, <2>2
<1>4. CASE EnterCheck(c)
  <2>1. PICK h : h = [conn[c] EXCEPT !.pc = "checked"]
    OBVIOUS
  <2>2. h \in Handler /\ h.pc = "checked"
    BY <1>h, <2>1 DEF Handler
  <2>3. \A s : Sends(h, s) = Sends(conn[c], s)
    BY <1>4, <2>2 DEF Sends, EnterCheck, Off
  <2> QED BY <1>1, <1>4, <2>1, <2>2, <2>3, SameView DEF EnterCheck
<1>5. CASE EnterOpen(c)
  <2>1. ASSUME NEW s \in Session PROVE /\ [conn[c] EXCEPT !.pc = "open", !.session = s] \in Handler
                                       /\ [conn[c] EXCEPT !.pc = "open", !.session = s].pc = "open"
    BY <1>h DEF Handler
  <2>2. conn[c].pc # "dispatch" /\ UNCHANGED <<queue, worker>>
    BY <1>5 DEF EnterOpen, At
  <2>3. CASE End(c) /\ UNCHANGED session
    BY <1>3, <2>2, <2>3, SameView
  <2>4. ASSUME NEW s \in Session,
               conn' = [conn EXCEPT ![c] = [conn[c] EXCEPT !.pc = "open", !.session = s]]
        PROVE  \A r \in Session : Owed(r)' = Owed(r)
    <3>1. PICK h \in Handler : h = [conn[c] EXCEPT !.pc = "open", !.session = s] /\ h.pc = "open"
      BY <2>1
    <3>2. \A r : Sends(h, r) = Sends(conn[c], r)
      BY <2>2, <3>1 DEF Sends
    <3> QED BY <1>0, <2>2, <2>4, <3>1, <3>2, OwedQuiet
  <2>5. ASSUME NEW s \in Resumable, UNCHANGED session,
               conn' = [conn EXCEPT ![c] = [conn[c] EXCEPT !.pc = "open", !.session = s]]
        PROVE  Steps
    BY <2>4, <2>5, SameView, Stutters DEF Steps, Resumable
  <2>6. ASSUME NEW s \in Session, session[s].status = "none",
               Change(s, [NoRow EXCEPT !.status = "IN_PROGRESS", !.started = now]),
               conn' = [conn EXCEPT ![c] = [conn[c] EXCEPT !.pc = "open", !.session = s]]
        PROVE  Steps
    <3>0. PICK row : row = [NoRow EXCEPT !.status = "IN_PROGRESS", !.started = now]
      OBVIOUS
    <3>1. row.status = "IN_PROGRESS" /\ row.finalized = NoTime
      BY <3>0 DEF NoRow
    <3>2. ~Finalized(s) /\ StatusOf(s) = "none"
      BY <1>0, <2>6 DEF RowsKept, Exists, StatusOf
    <3>3. StatusOf(s)' = "IN_PROGRESS" /\ ~Finalized(s)'
          /\ \A r \in Session \ {s} : StatusOf(r)' = StatusOf(r) /\ Finalized(r)' = Finalized(r)
      BY <1>0, <2>6, <3>0, <3>1, RowView
    <3>4. \A r \in Session : Finalized(r)' = Finalized(r)
      BY <3>2, <3>3 DEF Finalized
    <3> QED BY <2>4, <2>6, <3>2, <3>3, <3>4, Opens DEF Steps
  <2> QED BY <1>5, <2>3, <2>5, <2>6 DEF EnterOpen
<1>6. CASE Greet(c)
  <2>1. PICK row : row = [session[Mine(c)] EXCEPT !.saved = TRUE]
    OBVIOUS
  <2>2. Mine(c) \in Session
    BY <1>0, <1>6, MineType DEF Greet, At
  <2>3. row.status = session[Mine(c)].status /\ row.finalized = session[Mine(c)].finalized
    BY <1>0, <2>1, <2>2 DEF SessionRow
  <2>4. \A r \in Session : StatusOf(r)' = StatusOf(r) /\ Finalized(r)' = Finalized(r)
    BY <1>0, <1>6, <2>1, <2>2, <2>3, RowSame DEF Greet, Finalized
  <2> QED BY <1>6, <2>4, OwedSame, Stutters DEF Greet, Steps
<1>7. CASE Answer(c)
  <2>1. PICK b \in {TRUE, session[Mine(c)].saved} :
          Change(Mine(c), [session[Mine(c)] EXCEPT !.engaged = TRUE, !.saved = b])
    BY <1>7 DEF Answer
  <2>r. PICK row : row = [session[Mine(c)] EXCEPT !.engaged = TRUE, !.saved = b]
    OBVIOUS
  <2>2. Mine(c) \in Session
    BY <1>0, <1>7, MineType DEF Answer, At
  <2>3. row.status = session[Mine(c)].status /\ row.finalized = session[Mine(c)].finalized
    BY <1>0, <2>r, <2>2 DEF SessionRow
  <2>4. \A r \in Session : StatusOf(r)' = StatusOf(r) /\ Finalized(r)' = Finalized(r)
    BY <1>0, <1>7, <2>1, <2>r, <2>2, <2>3, RowSame DEF Finalized
  <2> QED BY <1>7, <2>4, OwedSame, Stutters DEF Answer, Steps
<1>8. CASE CloseRead(c) \/ Leave(c)
  <2>1. [conn[c] EXCEPT !.close = now] \in Handler /\ [conn[c] EXCEPT !.close = now].pc = conn[c].pc
    BY <1>0, <1>h DEF Handler, TypeOK
  <2>2. [conn[c] EXCEPT !.pc = "wrapup"] \in Handler /\ [conn[c] EXCEPT !.pc = "wrapup"].pc = "wrapup"
    BY <1>h DEF Handler
  <2>3. PICK h \in Handler : conn' = [conn EXCEPT ![c] = h] /\ h.pc \in {conn[c].pc, "wrapup"}
    BY <1>8, <2>1, <2>2 DEF CloseRead, Leave
  <2>4. conn[c].pc = "open" /\ UNCHANGED <<queue, worker, session>>
    BY <1>8 DEF CloseRead, Leave, At
  <2>5. \A s : Sends(h, s) = Sends(conn[c], s)
    BY <2>3, <2>4 DEF Sends
  <2> QED BY <1>1, <2>3, <2>4, <2>5, SameView
<1>9. CASE WrapRead(c)
  <2>1. conn[c].pc = "wrapup" /\ UNCHANGED <<queue, worker, session>>
    BY <1>9 DEF WrapRead, At
  <2>2. CASE End(c)
    BY <1>3, <2>1, <2>2, SameView
  <2>3. CASE ~End(c)
    <3> DEFINE b == /\ session[Mine(c)].finalized # NoTime
                    /\ session[Mine(c)].status \notin Dispatched
                    /\ session[Mine(c)].finalized <= deadline
    <3>1. PICK h : /\ conn' = [conn EXCEPT ![c] = h]
                   /\ h = [conn[c] EXCEPT !.pc = "commit", !.evaluate = b]
      BY <1>9, <2>3 DEF WrapRead
    <3>2. h \in Handler /\ h.pc = "commit"
      BY <1>h, <3>1 DEF Handler
    <3>3. \A s : Sends(h, s) = Sends(conn[c], s)
      BY <2>1, <3>2 DEF Sends
    <3> QED BY <1>1, <2>1, <3>1, <3>2, <3>3, SameView
  <2> QED BY <2>2, <2>3
<1>10. CASE CloseCommit(c)
  <2>1. PICK h : /\ conn' = [conn EXCEPT ![c] = h]
                 /\ h = IF At(c, "off") THEN Off
                        ELSE [conn[c] EXCEPT !.close = NoTime,
                                             !.pc = IF At(c, "open") THEN "wrapup" ELSE conn[c].pc]
    BY <1>10 DEF CloseCommit
  <2>2. h \in Handler
    <3> DEFINE pc == IF At(c, "open") THEN "wrapup" ELSE conn[c].pc
    <3>1. [conn[c] EXCEPT !.close = NoTime, !.pc = pc] \in Handler
      BY <1>h DEF Handler
    <3> QED BY <2>1, <3>1, Constants
  <2>3. \A s : Sends(h, s) = Sends(conn[c], s)
    <3>1. CASE At(c, "off")
      BY <2>1, <3>1 DEF Sends, At, Off
    <3>2. CASE ~At(c, "off")
      <4>1. h.session = conn[c].session /\ (h.pc = "dispatch" <=> conn[c].pc = "dispatch")
        BY <1>h, <2>1, <3>2 DEF At, Handler
      <4> QED BY <4>1 DEF Sends
    <3> QED BY <3>1, <3>2
  <2>4. UNCHANGED <<queue, worker>>
    BY <1>10 DEF CloseCommit
  <2>5. CASE session' = session
    BY <1>1, <2>1, <2>2, <2>3, <2>4, <2>5, SameView
  <2>6. CASE session' # session
    <3>1. PICK row : row = [session[Mine(c)] EXCEPT !.finalized = conn[c].close]
      OBVIOUS
    <3>2. PICK s : s = Mine(c)
      OBVIOUS
    <3>3. s \in Session /\ conn[c].close \in Time /\ Exists(s) /\ Change(s, row)
      BY <1>0, <1>h, <1>10, <2>6, <3>1, <3>2, MineType DEF CloseCommit, Handler
    <3>4. row.status = session[s].status /\ row.finalized # NoTime
      BY <1>0, <3>1, <3>2, <3>3 DEF SessionRow, NoTime, Time
    <3>5. CASE Finalized(s)
      <4>1. \A r \in Session : StatusOf(r)' = StatusOf(r) /\ Finalized(r)' = Finalized(r)
        BY <1>0, <3>3, <3>4, <3>5, RowSame
      <4> QED BY <1>1, <2>1, <2>2, <2>3, <2>4, <4>1
    <3>6. CASE ~Finalized(s)
      <4>1. StatusOf(s) = "IN_PROGRESS"
        BY <1>0, <3>3, <3>6 DEF RowsKept, Exists, StatusOf, SessionRow
      <4>2. /\ Finalized(s)' /\ StatusOf(s)' = StatusOf(s)
            /\ \A r \in Session \ {s} : StatusOf(r)' = StatusOf(r) /\ Finalized(r)' = Finalized(r)
        BY <1>0, <3>3, <3>4, RowView DEF StatusOf
      <4>3. \A r \in Session : Owed(r)' = Owed(r)
        BY <1>0, <2>1, <2>2, <2>3, <2>4, OwedQuiet
      <4> QED BY <3>3, <4>1, <4>2, <4>3, Closes DEF Steps
    <3> QED BY <3>5, <3>6
  <2> QED BY <2>5, <2>6
<1>11. CASE WrapCommit(c)
  <2>1. conn[c].pc = "commit" /\ UNCHANGED <<queue, worker>>
    BY <1>11 DEF WrapCommit, At
  <2>2. CASE session' = session /\ End(c)
    BY <1>3, <2>1, <2>2, SameView
  <2>3. CASE Exists(Mine(c)) /\ ~(session' = session /\ End(c))
    <3>1. PICK row : row = [session[Mine(c)] EXCEPT !.saved = TRUE,
                              !.status = IF conn[c].evaluate THEN "PENDING_EVALUATION" ELSE @]
      OBVIOUS
    <3>2. PICK s : s = Mine(c)
      OBVIOUS
    <3>3. s \in Session /\ Change(s, row)
      BY <1>0, <1>11, <2>1, <2>3, <3>1, <3>2, MineType DEF WrapCommit
    <3>4. /\ row.finalized = session[s].finalized
          /\ row.status = IF conn[c].evaluate THEN "PENDING_EVALUATION" ELSE session[s].status
      BY <1>0, <3>1, <3>2, <3>3 DEF SessionRow
    <3>5. CASE ~conn[c].evaluate
      <4>1. End(c)
        BY <1>11, <2>3, <3>5 DEF WrapCommit
      <4>2. \A r \in Session : StatusOf(r)' = StatusOf(r) /\ Finalized(r)' = Finalized(r)
        BY <1>0, <3>3, <3>4, <3>5, RowSame DEF Finalized
      <4> QED BY <1>3, <2>1, <4>1, <4>2
    <3>6. CASE conn[c].evaluate
      <4>1. Finalized(s) /\ StatusOf(s) \in {"IN_PROGRESS"} \cup Dispatched
        BY <1>0, <1>11, <2>3, <3>2, <3>3, <3>6
        DEF WrapCommit, TabsKept, Exists, StatusOf, SessionRow
      <4>2. /\ Finalized(s)' /\ StatusOf(s)' = "PENDING_EVALUATION"
            /\ \A r \in Session \ {s} : StatusOf(r)' = StatusOf(r) /\ Finalized(r)' = Finalized(r)
        BY <1>0, <3>3, <3>4, <3>6, <4>1, RowView DEF Finalized
      <4>3. PICK h : conn' = [conn EXCEPT ![c] = h] /\ h = [conn[c] EXCEPT !.pc = "dispatch"]
        BY <1>11, <2>3, <3>6 DEF WrapCommit
      <4>4. h \in Handler /\ h.pc = "dispatch" /\ h.session = s
        BY <1>h, <3>2, <4>3 DEF Handler, Mine
      <4>5. \A r \in Session : Owed(r)' = Owed(r) - Sends(conn[c], r) + Sends(h, r) /\ Owed(r) \in Nat
        BY <1>0, <2>1, <4>3, <4>4, OwedTab, OwedNat
      <4>6. \A r \in Session : Sends(conn[c], r) = 0 /\ Sends(h, r) = IF r = s THEN 1 ELSE 0
        BY <2>1, <4>4 DEF Sends, One
      <4>7. Owed(s)' = Owed(s) + 1 /\ \A r \in Session \ {s} : Owed(r)' = Owed(r)
        BY <3>3, <4>5, <4>6
      <4> QED BY <3>3, <4>1, <4>2, <4>7, Dispatches DEF Steps
    <3> QED BY <3>5, <3>6
  <2> QED BY <1>11, <2>2, <2>3 DEF WrapCommit
<1>12. CASE WrapDispatch(c)
  <2>1. conn[c].pc = "dispatch" /\ UNCHANGED <<session, worker>>
    BY <1>12 DEF WrapDispatch, At
  <2>2. PICK s : s = Mine(c)
    OBVIOUS
  <2>3. s \in Session /\ Sent(s) /\ s = conn[c].session
    BY <1>0, <2>1, <2>2 DEF TabsKept, At, Sent, Mine
  <2>4. PICK h \in Handler : h.pc = "off" /\ conn' = [conn EXCEPT ![c] = h]
    BY <1>2, <1>12 DEF WrapDispatch
  <2>5. CASE queue' = Append(queue, s)
    BY <1>0, <2>1, <2>3, <2>4, <2>5, OwedSent, SameView, Stutters DEF Steps
  <2>6. CASE queue' = queue /\ (~Exists(s) \/ DbMayFail)
    <3>1. \A r \in Session : Owed(r)' = Owed(r) - Sends(conn[c], r) + Sends(h, r) /\ Owed(r) \in Nat
      BY <1>0, <2>1, <2>4, <2>6, OwedTab, OwedNat
    <3>2. \A r \in Session : /\ Sends(h, r) = 0 /\ Sends(conn[c], r) = One(r = s)
                             /\ One(r = s) \in {0, 1}
      BY <2>1, <2>3, <2>4 DEF Sends, One
    <3>3. \A r \in Session : Owed(r)' = Owed(r) - One(r = s)
      BY <3>1, <3>2
    <3>4. Owed(s) > 0
      <4>1. Cardinality(Senders(conn, s)) \in Nat /\ Senders(conn, s) # {}
        BY <2>1, <2>3, SendersFinite DEF Senders
      <4>2. Cardinality(Senders(conn, s)) > 0
        BY <4>1, SendersFinite, FS_EmptySet
      <4>3. Cardinality(Places(queue, s)) \in Nat /\ Held(worker, s) \in Nat
        BY <1>0, PlacesFinite DEF TypeOK, Held, One
      <4> QED BY <2>3, <4>2, <4>1, <4>3, OwedIs DEF OwedOf
    <3> QED BY <1>0, <2>1, <2>3, <2>6, <3>3, <3>4, GivesUp
  <2> QED BY <1>12, <2>2, <2>5, <2>6 DEF WrapDispatch
<1> QED BY <1>4, <1>5, <1>6, <1>7, <1>8, <1>9, <1>10, <1>11, <1>12 DEF HandlerStep, StudentStep

LEMMA WorkerSteps ==
  ASSUME LifeInv, WorkerStep PROVE Steps
<1>0. /\ TypeOK /\ RowsKept /\ WorkerKept /\ \A s \in Session : session[s] \in SessionRow
      /\ \A s \in Session : Owed(s) \in Nat
  BY OwedNat DEF LifeInv, TypeOK
<1>1. PICK s : s = worker.session
  OBVIOUS
<1>2. ASSUME worker.pc # "idle" PROVE s \in Session /\ Sent(s) /\ StatusOf(s) \in Dispatched \cup {"deleted"}
  BY <1>0, <1>1, <1>2 DEF WorkerKept, Sent, StatusOf
<1>3. ASSUME worker.pc # "idle", worker'.pc # "idle", worker'.session = worker.session,
             UNCHANGED <<queue, conn, session>>
      PROVE  Steps
  BY <1>3, OwedWorks, SameView, Stutters DEF Steps
<1>4. ASSUME AttemptFails PROVE worker'.pc # "idle" /\ worker'.session = worker.session
  BY <1>0, <1>4 DEF AttemptFails, TypeOK
<1>5. CASE Dequeue
  <2>1. worker'.pc # "idle" /\ worker'.session = Head(queue)
    BY <1>5 DEF Dequeue
  <2> QED BY <1>0, <1>5, <2>1, OwedTaken, SameView, Stutters DEF Dequeue, Steps
<1>6. CASE EvalRead
  <2>1. worker.pc # "idle" /\ UNCHANGED <<queue, conn, session>>
    BY <1>6 DEF EvalRead
  <2>2. Exists(s) => session[s].engaged
    BY <1>0, <1>2, <2>1 DEF RowsKept, Exists, StatusOf
  <2>3. [worker EXCEPT !.pc = "llm"].pc = "llm"
        /\ [worker EXCEPT !.pc = "llm"].session = worker.session
    BY <1>0 DEF TypeOK
  <2>4. worker'.pc # "idle" /\ worker'.session = worker.session
    BY <1>1, <1>4, <1>6, <2>2, <2>3 DEF EvalRead
  <2> QED BY <1>3, <2>1, <2>4
<1>7. ASSUME NEW o \in {"EVALUATED", "EVALUATION_FAILED"}, worker.pc # "idle", worker' = Idle,
             Exists(s), Change(s, [session[s] EXCEPT !.status = o]), UNCHANGED <<queue, conn>>
      PROVE  Steps
  <2>1. PICK row : row = [session[s] EXCEPT !.status = o]
    OBVIOUS
  <2>2. s \in Session /\ StatusOf(s) \in Dispatched
    BY <1>2, <1>7 DEF Exists, StatusOf
  <2>3. row.status = o /\ row.finalized = session[s].finalized
    BY <1>0, <2>1, <2>2 DEF SessionRow
  <2>4. StatusOf(s)' = o /\ (\A r \in Session \ {s} : StatusOf(r)' = StatusOf(r))
        /\ \A r \in Session : Finalized(r)' = Finalized(r)
    BY <1>0, <1>7, <2>1, <2>2, <2>3, RowView DEF Finalized
  <2>5. worker'.pc = "idle"
    BY <1>7 DEF Idle
  <2>6. \A r \in Session : /\ Owed(r)' = Owed(r) - One(r = worker.session)
                           /\ r = worker.session => Owed(r) > 0
    BY <1>0, <1>7, <2>5, OwedAnswered
  <2>7. Owed(s)' = Owed(s) - 1 /\ Owed(s) > 0
    BY <1>1, <2>2, <2>6 DEF One
  <2>8. ASSUME NEW r \in Session \ {s} PROVE Owed(r)' = Owed(r)
    <3>1. Owed(r)' = Owed(r) - 0
      BY <1>1, <2>6, <2>8 DEF One
    <3> QED BY <1>0, <3>1
  <2> QED BY <2>2, <2>4, <2>7, <2>8, Settles DEF Steps
<1>8. CASE EvalWrite
  <2>1. CASE Exists(s) /\ Change(s, [session[s] EXCEPT !.status = "EVALUATED"]) /\ worker' = Idle
    BY <1>7, <1>8, <2>1 DEF EvalWrite
  <2>2. CASE AttemptFails /\ session' = session
    BY <1>3, <1>4, <1>8, <2>2 DEF EvalWrite
  <2> QED BY <1>1, <1>8, <2>1, <2>2 DEF EvalWrite
<1>9. CASE MarkFailed
  <2>1. CASE Exists(s) /\ Change(s, [session[s] EXCEPT !.status = "EVALUATION_FAILED"])
    BY <1>7, <1>9, <2>1 DEF MarkFailed
  <2>2. CASE (~Exists(s) \/ DbMayFail) /\ session' = session
    <3>1. worker.pc # "idle" /\ worker'.pc = "idle" /\ UNCHANGED <<queue, conn>>
      BY <1>9 DEF MarkFailed, Idle
    <3>2. \A r \in Session : /\ Owed(r)' = Owed(r) - One(r = s)
                             /\ r = s => Owed(r) > 0
      BY <1>0, <1>1, <3>1, OwedAnswered
    <3> QED BY <1>0, <1>2, <2>2, <3>1, <3>2, GivesUp
  <2> QED BY <1>1, <1>9, <2>1, <2>2 DEF MarkFailed
<1> QED BY <1>5, <1>6, <1>8, <1>9 DEF WorkerStep

(* A dispatch that goes straight to the queue: the sweep's and the administrator's *)
LEMMA QueueDispatches ==
  ASSUME TypeOK, NEW s \in Session, Exists(s), NEW row, Change(s, row),
         row.status = "PENDING_EVALUATION", row.finalized # NoTime,
         queue' = Append(queue, s), UNCHANGED <<worker, conn>>
  PROVE  Steps
<1>1. StatusOf(s) \in {"IN_PROGRESS"} \cup Dispatched
  BY DEF TypeOK, Exists, StatusOf, SessionRow
<1>2. /\ Finalized(s)' /\ StatusOf(s)' = "PENDING_EVALUATION"
      /\ \A r \in Session \ {s} : StatusOf(r)' = StatusOf(r) /\ Finalized(r)' = Finalized(r)
  BY RowView
<1>3. \A r \in Session : Owed(r)' = Owed(r) + One(r = s) /\ Owed(r) \in Nat
  BY OwedAppend, OwedNat
<1>4. Owed(s)' = Owed(s) + 1
  BY <1>3 DEF One
<1>5. ASSUME NEW r \in Session \ {s} PROVE Owed(r)' = Owed(r)
  <2>1. Owed(r)' = Owed(r) + 0
    BY <1>3, <1>5 DEF One
  <2> QED BY <1>3, <2>1
<1> QED BY <1>1, <1>2, <1>4, <1>5, Dispatches DEF Steps

LEMMA SweepSteps ==
  ASSUME LifeInv, SweepStep PROVE Steps
<1>0. TypeOK /\ SweepKept /\ \A s \in Session : session[s] \in SessionRow
  BY DEF LifeInv, TypeOK
<1>1. ASSUME UNCHANGED <<session, queue, worker, conn>> PROVE Steps
  BY <1>1, OwedSame, SameView, Stutters DEF Steps
<1>2. CASE ForceCommit /\ ~UNCHANGED <<session, queue, worker, conn>>
  <2>1. PICK s, row : /\ s = sweep.target
                      /\ row = [session[s] EXCEPT !.finalized = sweep.due,
                                                  !.status = "PENDING_EVALUATION"]
    OBVIOUS
  <2>2. s \in Session /\ sweep.due \in Time
    BY <1>0, <1>2, <2>1 DEF ForceCommit, SweepKept, Used, Begun
  <2>3. row.status = "PENDING_EVALUATION" /\ row.finalized # NoTime
    BY <1>0, <2>1, <2>2 DEF SessionRow, NoTime, Time
  <2>4. Exists(s) /\ Change(s, row) /\ queue' = Append(queue, s) /\ UNCHANGED <<worker, conn>>
    BY <1>2, <2>1 DEF ForceCommit
  <2> QED BY <1>0, <2>2, <2>3, <2>4, QueueDispatches
<1> QED BY <1>1, <1>2 DEF SweepStep, SweepScan, ForceRead

LEMMA NextSteps == LifeInv /\ [Next]_vars => Steps
<1> SUFFICES ASSUME LifeInv, [Next]_vars PROVE Steps
  OBVIOUS
<1>0. TypeOK /\ RowsKept /\ BudgetKept /\ \A s \in Session : session[s] \in SessionRow
  BY DEF LifeInv, TypeOK
<1>1. ASSUME UNCHANGED <<session, queue, worker, conn>> PROVE Steps
  BY <1>1, OwedSame, SameView, Stutters DEF Steps
<1>2. ASSUME NEW s \in Session, ReEvaluate(s) PROVE Steps
  <2>1. PICK row : row = [session[s] EXCEPT !.status = "PENDING_EVALUATION"]
    OBVIOUS
  <2>2. row.status = "PENDING_EVALUATION" /\ row.finalized = session[s].finalized
    BY <1>0, <2>1 DEF SessionRow
  <2> QED BY <1>0, <1>2, <2>1, <2>2, QueueDispatches DEF ReEvaluate, Finalized
<1>3. ASSUME ResetActivity PROVE Steps
  <2> DEFINE S == {s \in Session : Exists(s)}
  <2>1. \A s \in Session : session'[s] = IF Exists(s) THEN [NoRow EXCEPT !.status = "deleted"]
                                         ELSE session[s]
    BY <1>3 DEF ResetActivity
  <2>2. \A s \in S : StatusOf(s)' = "deleted" /\ ~Finalized(s)' /\ StatusOf(s) # "none"
    BY <2>1 DEF StatusOf, Finalized, NoRow, Exists
  <2>3. \A s \in Session \ S : StatusOf(s)' = StatusOf(s) /\ Finalized(s)' = Finalized(s)
    BY <2>1 DEF StatusOf, Finalized
  <2>4. \A s \in Session : Owed(s)' = Owed(s)
    BY <1>3, OwedSame DEF ResetActivity
  <2>5. S \in SUBSET Session
    OBVIOUS
  <2> HIDE DEF S
  <2> QED BY <2>2, <2>3, <2>4, <2>5, Deletes DEF Steps
<1>4. ASSUME Restart PROVE Steps
  <2>1. Budget["crash"] > 0
    BY <1>0, <1>4, BudgetAssumption DEF Restart, Spend, BudgetKept, TypeOK, Event
  <2>2. ASSUME NEW s \in Session PROVE Owed(s)' = 0 /\ Owed(s) \in Nat
    <3>1. Places(queue', s) = {} /\ Senders(conn', s) = {} /\ Held(worker', s) = 0
      BY <1>4 DEF Restart, Places, Senders, Held, One, Off, Idle
    <3>2. Owed(s)' = 0 + 0 + 0
      BY <3>1, OwedIs, FS_EmptySet DEF OwedOf
    <3> QED BY <1>0, <3>2, OwedNat
  <2>3. \A s \in Session : Owed(s)' \in Nat /\ Owed(s)' <= Owed(s)
    BY <2>2
  <2>4. session' = session
    BY <1>4 DEF Restart
  <2> QED BY <2>1, <2>3, <2>4, SameView, Loses DEF Steps
<1>5. ASSUME \/ \E d \in Time : EditDeadline(d)
             \/ Tick \/ UNCHANGED vars
      PROVE  UNCHANGED <<session, queue, worker, conn>>
  BY <1>5 DEF EditDeadline, Tick, vars
<1> QED BY <1>1, <1>2, <1>3, <1>4, <1>5, TabSteps, WorkerSteps, SweepSteps DEF Next

(***************************************************************************)
(* The lifecycle implements SessionStatus, for any number of sessions and  *)
(* tabs: status, finalized_at and the requests under way change only as a  *)
(* session that is opened, closed, dispatched, settled or deleted may.     *)
(***************************************************************************)
THEOREM LifecycleImplements == Spec => ImplementsStatus
<1>1. Init => Abstract!Init
  <2> SUFFICES ASSUME Init PROVE Abstract!Init
    OBVIOUS
  <2>1. ASSUME NEW s \in Session PROVE Owed(s) = 0
    <3>1. Places(queue, s) = {} /\ Senders(conn, s) = {} /\ Held(worker, s) = 0
      BY DEF Init, Places, Senders, Held, One, Off, Idle
    <3>2. Owed(s) = 0 + 0 + 0
      BY <3>1, OwedIs, FS_EmptySet DEF OwedOf
    <3> QED BY <3>2
  <2>2. \A s \in Session : session[s].status = "none" /\ Finalized(s) = FALSE
    BY DEF Init, NoRow, Finalized
  <2> QED BY <2>1, <2>2 DEF Abstract!Init
<1>2. LifeInv /\ [Next]_vars => Abstract!Next \/ UNCHANGED Abstract!vars
  BY NextSteps DEF Steps
<1> QED BY <1>1, <1>2, LifeInvariant, PTL DEF Spec, ImplementsStatus, Abstract!Spec

-----------------------------------------------------------------------------
(***************************************************************************)
(* Late-starters: what is dispatched, closing, about to be dispatched or   *)
(* swept was started in time.  A deadline that nobody edits only moves     *)
(* away.                                                                   *)
(***************************************************************************)
Started(s) == session[s].started

InTime(row, s) ==
  /\ row.started <= now
  /\ row.finalized # NoTime => row.started <= row.finalized
  /\ row.status \in Dispatched /\ s \notin asked => row.started <= deadline

LateRows == \A s \in Session : InTime(session[s], s)
LateTabs ==
  \A c \in Conn : /\ conn[c].close # NoTime => Started(Mine(c)) <= conn[c].close
                  /\ At(c, "commit") /\ conn[c].evaluate => Started(Mine(c)) <= deadline
LateSweep ==
  /\ sweep.pc # "idle" => /\ sweep.due <= deadline
                          /\ \A s \in sweep.todo : Started(s) <= sweep.due
  /\ sweep.pc = "force" => Started(sweep.target) <= sweep.due
Unedited == budget["edit"] = 0

LateInv == LateRows /\ LateTabs /\ LateSweep /\ Unedited

LEMMA LateInit == Init /\ Budget["edit"] = 0 => LateInv
<1> SUFFICES ASSUME Init, Budget["edit"] = 0 PROVE LateInv
  OBVIOUS
<1>1. LateRows
  BY DEF Init, LateRows, InTime, NoRow, NoTime, Dispatched
<1>2. LateTabs
  BY DEF Init, LateTabs, Off, At
<1>3. LateSweep /\ Unedited
  BY DEF Init, LateSweep, Unedited, Asleep
<1> QED BY <1>1, <1>2, <1>3 DEF LateInv

(* Time passes, the deadline only moves away, and nobody is unasked *)
LEMMA ClockStep ==
  ASSUME LifeInv, LateInv, [Next]_vars
  PROVE  /\ now' \in Int /\ now <= now' /\ now \in Int
         /\ deadline' \in Int /\ deadline <= deadline' /\ deadline \in Int
         /\ asked \subseteq asked' /\ Unedited'
<1>0. now \in 0 .. Far /\ deadline \in 0 .. Far /\ budget \in [Event -> Nat] /\ budget["edit"] = 0
      /\ Far \in Nat
  BY BoundsAssumption DEF LifeInv, TypeOK, Time, LateInv, Unedited, Far
<1>1. now' \in Int /\ now <= now'
  <2>1. now' = now \/ Tick
    BY DEF Next, vars, HandlerStep, StudentStep, EnterOpen, CloseCommit, WrapRead, WrapCommit,
                WrapDispatch, EnterCheck, Greet, Answer, CloseRead, Leave, WorkerStep, Dequeue, EvalRead,
                EvalWrite, MarkFailed, SweepStep, SweepScan, ForceRead, ForceCommit, activityVars,
                ReEvaluate, ResetActivity, EditDeadline, Restart
  <2> QED BY <1>0, <2>1 DEF Tick
<1>2. ~(\E d \in Time : EditDeadline(d))
  BY <1>0 DEF EditDeadline, Spend
<1>3. deadline' = deadline \/ deadline' = Far
  BY <1>2 DEF Next, vars, HandlerStep, StudentStep, EnterOpen, CloseCommit, WrapRead, WrapCommit,
              WrapDispatch, EnterCheck, Greet, Answer, CloseRead, Leave, WorkerStep, Dequeue, EvalRead,
              EvalWrite, MarkFailed, SweepStep, SweepScan, ForceRead, ForceCommit, activityVars,
              ReEvaluate, ResetActivity, Restart, Tick
<1>4. asked' = asked \/ \E s \in Session : asked' = asked \cup {s}
  BY DEF Next, vars, HandlerStep, StudentStep, EnterOpen, CloseCommit, WrapRead, WrapCommit,
         WrapDispatch, EnterCheck, Greet, Answer, CloseRead, Leave, WorkerStep, Dequeue, EvalRead,
         EvalWrite, MarkFailed, SweepStep, SweepScan, ForceRead, ForceCommit, activityVars,
         ReEvaluate, ResetActivity, EditDeadline, Restart, Tick
<1>5. budget' = budget \/ \E e \in Event \ {"edit"} : Spend(e)
  BY <1>2 DEF Next, vars, HandlerStep, StudentStep, EnterOpen, CloseCommit, WrapRead, WrapCommit,
              WrapDispatch, EnterCheck, Greet, Answer, CloseRead, Leave, WorkerStep, Dequeue, EvalRead,
              EvalWrite, MarkFailed, SweepStep, SweepScan, ForceRead, ForceCommit, activityVars,
              ReEvaluate, ResetActivity, Restart, Tick, Event
<1>6. Unedited'
  BY <1>0, <1>5 DEF Unedited, Spend, Event
<1> QED BY <1>0, <1>1, <1>3, <1>4, <1>6

LEMMA StartedInt ==
  ASSUME TypeOK, NEW s \in Session
  PROVE  Started(s) \in Int /\ session[s].finalized \in Int
<1>1. session[s].started \in Time \cup {NoTime} /\ session[s].finalized \in Time \cup {NoTime}
  BY DEF TypeOK, SessionRow
<1>2. Time \subseteq Int /\ NoTime \in Int
  BY Constants DEF NoTime
<1> QED BY <1>1, <1>2 DEF Started

(* A row that stays in time although the others' clocks move on *)
LEMMA RowWaits ==
  ASSUME LifeInv, LateInv, [Next]_vars, NEW s \in Session, session'[s] = session[s]
  PROVE  InTime(session[s], s)'
<1>1. session[s] \in SessionRow /\ InTime(session[s], s)
  BY DEF LifeInv, TypeOK, LateInv, LateRows
<1>2. session[s].started \in Int
  BY StartedInt DEF LifeInv, Started
<1> QED BY <1>1, <1>2, ClockStep DEF InTime

(* One row changes, and is in time by now *)
LEMMA RowChanges ==
  ASSUME LifeInv, LateInv, [Next]_vars, NEW s \in Session, NEW row, Change(s, row), InTime(row, s)'
  PROVE  LateRows'
<1>1. \A r \in Session : session'[r] = IF r = s THEN row ELSE session[r]
  BY DEF Change, LifeInv, TypeOK
<1>2. ASSUME NEW r \in Session, r # s PROVE InTime(session[r], r)'
  BY <1>1, <1>2, RowWaits
<1>3. InTime(session[s], s)'
  BY <1>1 DEF InTime
<1> QED BY <1>2, <1>3 DEF LateRows

(* A row that keeps its start and its end, and whose status was or is earned *)
LEMMA RowKeeps ==
  ASSUME LifeInv, LateInv, [Next]_vars, NEW s \in Session, NEW row, Change(s, row),
         row.started = session[s].started,
         row.finalized = session[s].finalized \/ row.started <= row.finalized,
         \/ row.status = session[s].status \/ session[s].status \in Dispatched
         \/ s \in asked' \/ row.started <= deadline
  PROVE  LateRows'
<1>1. session[s] \in SessionRow /\ InTime(session[s], s)
  BY DEF LifeInv, TypeOK, LateInv, LateRows
<1>2. row.started \in Int
  BY StartedInt DEF LifeInv, Started
<1>3. row.started <= now'
  BY <1>1, <1>2, ClockStep DEF InTime
<1>4. row.status \in Dispatched /\ s \notin asked' => row.started <= deadline'
  BY <1>1, <1>2, ClockStep DEF InTime
<1>5. row.finalized # NoTime => row.started <= row.finalized
  BY <1>1 DEF InTime
<1>6. InTime(row, s)'
  BY <1>3, <1>4, <1>5 DEF InTime
<1> QED BY <1>6, RowChanges

LEMMA LateRowsStep == LifeInv /\ LateInv /\ [Next]_vars => LateRows'
<1> SUFFICES ASSUME LifeInv, LateInv, [Next]_vars PROVE LateRows'
  OBVIOUS
<1>0. /\ TypeOK /\ RowsKept /\ TabsKept /\ WorkerKept /\ SweepKept
      /\ LateRows /\ LateTabs /\ LateSweep
      /\ \A s \in Session : session[s] \in SessionRow
  BY DEF LifeInv, LateInv, TypeOK
<1>i. \A s \in Session : Started(s) \in Int /\ Started(s) <= now
  BY <1>0, StartedInt DEF LateRows, InTime, Started
<1>t. now \in Int /\ deadline \in Int
  BY ClockStep
<1>s. ASSUME session' = session PROVE LateRows'
  BY <1>s, RowWaits DEF LateRows
<1>1. ASSUME NEW c \in Conn, EnterOpen(c) PROVE LateRows'
  <2>1. ASSUME NEW s \in Session, Change(s, [NoRow EXCEPT !.status = "IN_PROGRESS", !.started = now])
        PROVE  LateRows'
    <3>1. PICK row : row = [NoRow EXCEPT !.status = "IN_PROGRESS", !.started = now]
      OBVIOUS
    <3>2. row.status = "IN_PROGRESS" /\ row.started = now /\ row.finalized = NoTime
      BY <3>1 DEF NoRow
    <3>3. InTime(row, s)'
      BY <3>2, ClockStep DEF InTime, Dispatched
    <3> QED BY <2>1, <3>1, <3>3, RowChanges
  <2> QED BY <1>s, <1>1, <2>1 DEF EnterOpen
<1>2. ASSUME NEW c \in Conn, Greet(c) PROVE LateRows'
  <2>1. PICK s, row : s = Mine(c) /\ row = [session[s] EXCEPT !.saved = TRUE]
    OBVIOUS
  <2>2. s \in Session /\ Change(s, row)
    BY <1>0, <1>2, <2>1, MineType DEF Greet, At
  <2>3. /\ row.status = session[s].status /\ row.started = session[s].started
        /\ row.finalized = session[s].finalized
    BY <1>0, <2>1, <2>2 DEF SessionRow
  <2> QED BY <2>2, <2>3, RowKeeps
<1>3. ASSUME NEW c \in Conn, Answer(c) PROVE LateRows'
  <2>a. PICK b \in {TRUE, session[Mine(c)].saved} :
          Change(Mine(c), [session[Mine(c)] EXCEPT !.engaged = TRUE, !.saved = b])
    BY <1>3 DEF Answer
  <2>b. PICK s : s = Mine(c)
    OBVIOUS
  <2>c. PICK row : row = [session[s] EXCEPT !.engaged = TRUE, !.saved = b]
    OBVIOUS
  <2>1. row = [session[s] EXCEPT !.engaged = TRUE, !.saved = b] /\ Change(s, row)
    BY <2>a, <2>b, <2>c
  <2>2. s \in Session
    BY <1>0, <1>3, <2>b, MineType DEF Answer, At
  <2>3. /\ row.status = session[s].status /\ row.started = session[s].started
        /\ row.finalized = session[s].finalized
    BY <1>0, <2>1, <2>2 DEF SessionRow
  <2> QED BY <2>1, <2>2, <2>3, RowKeeps
<1>4. ASSUME NEW c \in Conn, CloseCommit(c), session' # session PROVE LateRows'
  <2>1. PICK s, row : s = Mine(c) /\ row = [session[s] EXCEPT !.finalized = conn[c].close]
    OBVIOUS
  <2>2. s \in Session /\ Change(s, row) /\ conn[c].close # NoTime
    BY <1>0, <1>4, <2>1, MineType DEF CloseCommit
  <2>3. /\ row.status = session[s].status /\ row.started = session[s].started
        /\ row.finalized = conn[c].close
    BY <1>0, <2>1, <2>2 DEF SessionRow
  <2>4. row.started <= row.finalized
    BY <1>0, <2>1, <2>2, <2>3 DEF LateTabs, Started
  <2> QED BY <2>2, <2>3, <2>4, RowKeeps
<1>5. ASSUME NEW c \in Conn, WrapCommit(c), session' # session PROVE LateRows'
  <2>1. PICK s, row : /\ s = Mine(c)
                      /\ row = [session[s] EXCEPT !.saved = TRUE,
                                  !.status = IF conn[c].evaluate THEN "PENDING_EVALUATION" ELSE @]
    OBVIOUS
  <2>2. s \in Session /\ Change(s, row)
    BY <1>0, <1>5, <2>1, MineType DEF WrapCommit, At
  <2>3. /\ row.started = session[s].started /\ row.finalized = session[s].finalized
        /\ ~conn[c].evaluate => row.status = session[s].status
    BY <1>0, <2>1, <2>2 DEF SessionRow
  <2>4. conn[c].evaluate => row.started <= deadline
    BY <1>0, <1>5, <2>1, <2>3 DEF WrapCommit, LateTabs, Started
  <2> QED BY <2>2, <2>3, <2>4, RowKeeps
<1>6. ASSUME NEW c \in Conn, HandlerStep(c) \/ StudentStep(c) PROVE LateRows'
  BY <1>s, <1>1, <1>2, <1>3, <1>4, <1>5, <1>6
  DEF HandlerStep, StudentStep, WrapRead, WrapDispatch, EnterCheck, CloseRead, Leave
<1>7. ASSUME NEW s \in Session, NEW o, Change(s, [session[s] EXCEPT !.status = o]),
             session[s].status \in Dispatched \/ s \in asked'
      PROVE  LateRows'
  <2>1. PICK row : row = [session[s] EXCEPT !.status = o]
    OBVIOUS
  <2>2. row.started = session[s].started /\ row.finalized = session[s].finalized
    BY <1>0, <2>1 DEF SessionRow
  <2> QED BY <1>7, <2>1, <2>2, RowKeeps
<1>8. ASSUME WorkerStep, session' # session PROVE LateRows'
  <2>1. PICK o : /\ worker.pc # "idle" /\ Exists(worker.session)
                 /\ Change(worker.session, [session[worker.session] EXCEPT !.status = o])
    BY <1>8 DEF WorkerStep, Dequeue, EvalRead, EvalWrite, MarkFailed
  <2>2. worker.session \in Session /\ session[worker.session].status \in Dispatched
    BY <1>0, <2>1 DEF WorkerKept, Sent, Exists
  <2> QED BY <1>7, <2>1, <2>2
<1>9. ASSUME SweepStep, session' # session PROVE LateRows'
  <2>1. PICK s, row : /\ s = sweep.target
                      /\ row = [session[s] EXCEPT !.finalized = sweep.due,
                                                  !.status = "PENDING_EVALUATION"]
    OBVIOUS
  <2>2. s \in Session /\ Change(s, row) /\ sweep.pc = "force" /\ sweep.due \in Time
    BY <1>0, <1>9, <2>1 DEF SweepStep, SweepScan, ForceRead, ForceCommit, SweepKept, Used, Begun
  <2>3. row.started = session[s].started /\ row.finalized = sweep.due
    BY <1>0, <2>1, <2>2 DEF SessionRow
  <2>4. Started(s) <= sweep.due /\ sweep.due <= deadline /\ sweep.due \in Int
    BY <1>0, <2>1, <2>2, Constants DEF LateSweep
  <2>5. row.started <= row.finalized /\ row.started <= deadline
    BY <1>i, <1>t, <2>2, <2>3, <2>4 DEF Started
  <2> QED BY <2>2, <2>5, <2>3, RowKeeps
<1>10. ASSUME NEW s \in Session, ReEvaluate(s) PROVE LateRows'
  BY <1>7, <1>10 DEF ReEvaluate
<1>11. ASSUME ResetActivity PROVE LateRows'
  <2> SUFFICES ASSUME NEW s \in Session PROVE InTime(session[s], s)'
    BY DEF LateRows
  <2>1. session'[s] = IF Exists(s) THEN [NoRow EXCEPT !.status = "deleted"] ELSE session[s]
    BY <1>11 DEF ResetActivity
  <2>2. CASE Exists(s)
    <3>1. /\ session'[s].status = "deleted" /\ session'[s].started = NoTime
          /\ session'[s].finalized = NoTime
      BY <2>1, <2>2 DEF NoRow
    <3>2. now' = now /\ NoTime <= now
      BY <1>0, <1>11 DEF ResetActivity, TypeOK, Time, NoTime
    <3> QED BY <3>1, <3>2 DEF InTime, Dispatched
  <2>3. CASE ~Exists(s)
    BY <2>1, <2>3, RowWaits
  <2> QED BY <2>2, <2>3
<1>12. ASSUME \/ \E d \in Time : EditDeadline(d)
              \/ Restart \/ Tick \/ UNCHANGED vars
       PROVE  session' = session
  BY <1>12 DEF EditDeadline, Restart, Tick, vars
<1> QED BY <1>s, <1>6, <1>8, <1>9, <1>10, <1>11, <1>12 DEF Next

(* A session that has begun is not started again, only forgotten *)
LEMMA StartStep ==
  ASSUME LifeInv, [Next]_vars
  PROVE  \A s : Begun(s) => Started(s)' <= Started(s) /\ Started(s)' \in Int
<1>0. /\ TypeOK /\ TabsKept /\ WorkerKept /\ SweepKept
      /\ session \in [Session -> SessionRow] /\ \A s \in Session : session[s] \in SessionRow
  BY DEF LifeInv, TypeOK
<1>i. \A s \in Session : Started(s) \in Int
  BY <1>0, StartedInt
<1>1. ASSUME \A s \in Session : \/ session'[s].started = session[s].started
                                \/ session'[s].started = NoTime
                                \/ session[s].status = "none"
      PROVE  \A s : Begun(s) => Started(s)' <= Started(s) /\ Started(s)' \in Int
  <2> SUFFICES ASSUME NEW s, Begun(s) PROVE Started(s)' <= Started(s) /\ Started(s)' \in Int
    OBVIOUS
  <2>1. session[s].started \in Time \cup {NoTime}
    BY <1>0 DEF Begun, SessionRow
  <2>2. \A t \in Time : NoTime <= t
    BY DEF NoTime, Time
  <2>3. NoTime <= session[s].started /\ NoTime \in Int
    BY <2>1, <2>2 DEF NoTime
  <2> QED BY <1>1, <1>i, <2>3 DEF Begun, Started
<1>2. ASSUME NEW s \in Session, NEW row, Change(s, row),
             row.started = session[s].started \/ session[s].status = "none"
      PROVE  \A r : Begun(r) => Started(r)' <= Started(r) /\ Started(r)' \in Int
  <2>1. \A r \in Session : session'[r] = IF r = s THEN row ELSE session[r]
    BY <1>0, <1>2 DEF Change
  <2> QED BY <1>1, <1>2, <2>1
<1>3. ASSUME NEW c \in Conn, HandlerStep(c) \/ StudentStep(c), session' # session
      PROVE  \A s : Begun(s) => Started(s)' <= Started(s) /\ Started(s)' \in Int
  <2>1. CASE EnterOpen(c)
    BY <1>2, <1>3, <2>1 DEF EnterOpen
  <2>2. ASSUME Greet(c) \/ Answer(c) \/ CloseCommit(c) \/ WrapCommit(c)
        PROVE  \E row : Change(Mine(c), row) /\ row.started = session[Mine(c)].started
    <3>1. session[Mine(c)] \in SessionRow
      BY <1>0, <2>2, MineType DEF Greet, Answer, CloseCommit, WrapCommit, At
    <3>2. \A b, t, o : /\ [session[Mine(c)] EXCEPT !.saved = b].started = session[Mine(c)].started
                       /\ [session[Mine(c)] EXCEPT !.engaged = TRUE, !.saved = b].started
                            = session[Mine(c)].started
                       /\ [session[Mine(c)] EXCEPT !.finalized = t].started
                            = session[Mine(c)].started
                       /\ [session[Mine(c)] EXCEPT !.saved = TRUE, !.status = o].started
                            = session[Mine(c)].started
      BY <3>1 DEF SessionRow
    <3>3. CASE Greet(c)
      BY <3>2, <3>3 DEF Greet
    <3>4. CASE Answer(c)
      BY <3>2, <3>4 DEF Answer
    <3>5. CASE CloseCommit(c)
      BY <1>3, <3>2, <3>5 DEF CloseCommit
    <3>6. CASE WrapCommit(c)
      BY <1>3, <3>2, <3>6 DEF WrapCommit
    <3> QED BY <2>2, <3>3, <3>4, <3>5, <3>6
  <2>3. ASSUME Greet(c) \/ Answer(c) \/ CloseCommit(c) \/ WrapCommit(c) PROVE Mine(c) \in Session
    BY <1>0, <2>3, MineType DEF Greet, Answer, CloseCommit, WrapCommit, At
  <2>4. CASE Greet(c) \/ Answer(c) \/ CloseCommit(c) \/ WrapCommit(c)
    BY <1>2, <2>2, <2>3, <2>4
  <2> QED BY <1>3, <2>1, <2>4
          DEF HandlerStep, StudentStep, WrapRead, WrapDispatch, EnterCheck, CloseRead, Leave
<1>4. ASSUME NEW s \in Session, NEW o,
             \/ Change(s, [session[s] EXCEPT !.status = o])
             \/ Change(s, [session[s] EXCEPT !.finalized = sweep.due, !.status = o])
      PROVE  \A r : Begun(r) => Started(r)' <= Started(r) /\ Started(r)' \in Int
  <2>1. /\ [session[s] EXCEPT !.status = o].started = session[s].started
        /\ [session[s] EXCEPT !.finalized = sweep.due, !.status = o].started = session[s].started
    BY <1>0 DEF SessionRow
  <2> QED BY <1>2, <1>4, <2>1
<1>5. ASSUME WorkerStep, session' # session
      PROVE  \A r : Begun(r) => Started(r)' <= Started(r) /\ Started(r)' \in Int
  <2>1. worker.session \in Session
        /\ \E o : Change(worker.session, [session[worker.session] EXCEPT !.status = o])
    BY <1>0, <1>5 DEF WorkerStep, Dequeue, EvalRead, EvalWrite, MarkFailed, WorkerKept, Sent
  <2> QED BY <1>4, <2>1
<1>6. ASSUME SweepStep, session' # session
      PROVE  \A r : Begun(r) => Started(r)' <= Started(r) /\ Started(r)' \in Int
  <2>1. sweep.target \in Session
        /\ \E o : Change(sweep.target, [session[sweep.target] EXCEPT !.finalized = sweep.due, !.status = o])
    BY <1>0, <1>6 DEF SweepStep, SweepScan, ForceRead, ForceCommit, SweepKept, Used, Begun
  <2> QED BY <1>4, <2>1
<1>7. ASSUME NEW s \in Session, ReEvaluate(s)
      PROVE  \A r : Begun(r) => Started(r)' <= Started(r) /\ Started(r)' \in Int
  BY <1>4, <1>7 DEF ReEvaluate
<1>8. ASSUME ResetActivity
      PROVE  \A r : Begun(r) => Started(r)' <= Started(r) /\ Started(r)' \in Int
  <2>1. \A s \in Session : session'[s] = IF Exists(s) THEN [NoRow EXCEPT !.status = "deleted"]
                                         ELSE session[s]
    BY <1>8 DEF ResetActivity
  <2>2. [NoRow EXCEPT !.status = "deleted"].started = NoTime
    BY DEF NoRow
  <2> QED BY <1>1, <2>1, <2>2
<1>9. ASSUME session' = session
      PROVE  \A r : Begun(r) => Started(r)' <= Started(r) /\ Started(r)' \in Int
  BY <1>1, <1>9
<1>10. ASSUME \/ \E d \in Time : EditDeadline(d)
              \/ Restart \/ Tick \/ UNCHANGED vars
       PROVE  session' = session
  BY <1>10 DEF EditDeadline, Restart, Tick, vars
<1> QED BY <1>3, <1>5, <1>6, <1>7, <1>8, <1>9, <1>10 DEF Next

(* What a tab has read in time is still in time *)
LateHandler(h) ==
  /\ h.close # NoTime => Started(h.session) <= h.close
  /\ h.pc = "commit" /\ h.evaluate => Started(h.session) <= deadline

LEMMA LateTabWaits ==
  ASSUME LifeInv, LateInv, [Next]_vars, NEW h \in Handler, HandlerKept(h), LateHandler(h)
  PROVE  LateHandler(h)'
<1>1. ASSUME h.close # NoTime PROVE Started(h.session)' <= h.close
  <2>1. Begun(h.session) /\ h.close \in Int
    BY <1>1, Constants DEF HandlerKept, Used, Handler
  <2>2. Started(h.session) \in Int /\ Started(h.session) <= h.close
    BY <1>1, <2>1, StartedInt DEF LateHandler, LifeInv, Begun
  <2>3. Started(h.session)' \in Int /\ Started(h.session)' <= Started(h.session)
    BY <2>1, StartStep
  <2> QED BY <2>1, <2>2, <2>3
<1>2. ASSUME h.pc = "commit", h.evaluate PROVE Started(h.session)' <= deadline'
  <2>1. Begun(h.session)
    BY <1>2 DEF HandlerKept
  <2>2. Started(h.session) \in Int /\ Started(h.session) <= deadline
    BY <1>2, <2>1, StartedInt DEF LateHandler, LifeInv, Begun
  <2>3. Started(h.session)' \in Int /\ Started(h.session)' <= Started(h.session)
    BY <2>1, StartStep
  <2> QED BY <2>2, <2>3, ClockStep
<1> QED BY <1>1, <1>2 DEF LateHandler

LEMMA LateTabMoves ==
  ASSUME LifeInv, LateInv, [Next]_vars, NEW c \in Conn, NEW h,
         conn' = [conn EXCEPT ![c] = h], LateHandler(h)'
  PROVE  LateTabs'
<1>0. conn \in [Conn -> Handler] /\ \A d \in Conn : HandlerKept(conn[d]) /\ LateHandler(conn[d])
  BY TabsAre DEF LifeInv, TypeOK, LateInv, LateTabs, LateHandler, At, Mine
<1>1. ASSUME NEW d \in Conn \ {c} PROVE LateHandler(conn[d])'
  <2>1. PICK g \in Handler : g = conn[d]
    BY <1>0
  <2>2. LateHandler(g)'
    BY <1>0, <2>1, LateTabWaits
  <2>3. conn'[d] = g
    BY <1>0, <2>1
  <2> QED BY <2>2, <2>3 DEF LateHandler
<1>2. LateHandler(conn[c])'
  BY <1>0 DEF LateHandler
<1> QED BY <1>1, <1>2 DEF LateTabs, LateHandler, At, Mine

(* A handler that at most forgets *)
LEMMA LateTabForgets ==
  ASSUME LifeInv, LateInv, [Next]_vars, NEW c \in Conn, NEW h,
         conn' = [conn EXCEPT ![c] = h],
         h.close # NoTime => h.close = conn[c].close /\ h.session = conn[c].session,
         h.pc = "commit" => /\ conn[c].pc = "commit" /\ h.evaluate = conn[c].evaluate
                            /\ h.session = conn[c].session
  PROVE  LateTabs'
<1>1. PICK g \in Handler : g = conn[c]
  BY DEF LifeInv, TypeOK
<1>2. HandlerKept(g) /\ LateHandler(g)
  BY <1>1, TabsAre DEF LifeInv, LateInv, LateTabs, LateHandler, At, Mine
<1>3. LateHandler(g)'
  BY <1>2, LateTabWaits
<1>4. LateHandler(h)'
  BY <1>1, <1>3 DEF LateHandler
<1> QED BY <1>4, LateTabMoves

LEMMA LateTabsStep == LifeInv /\ LateInv /\ [Next]_vars => LateTabs'
<1> SUFFICES ASSUME LifeInv, LateInv, [Next]_vars PROVE LateTabs'
  OBVIOUS
<1>0. TypeOK /\ TabsKept /\ LateRows /\ LateTabs
  BY DEF LifeInv, LateInv
<1>h. \A c \in Conn : conn[c] \in Handler /\ HandlerKept(conn[c])
  BY <1>0, TabsAre DEF TypeOK
<1>u. ASSUME conn' = conn PROVE LateTabs'
  <2> SUFFICES ASSUME NEW c \in Conn PROVE LateHandler(conn[c])'
    BY DEF LateTabs, LateHandler, At, Mine
  <2>1. PICK g \in Handler : g = conn[c]
    BY <1>h
  <2>2. HandlerKept(g) /\ LateHandler(g)
    BY <1>0, <1>h, <2>1 DEF LateTabs, LateHandler, At, Mine
  <2>3. LateHandler(g)'
    BY <2>2, LateTabWaits
  <2> QED BY <1>u, <2>1, <2>3 DEF LateHandler
<1>e. ASSUME NEW c \in Conn, End(c) PROVE LateTabs'
  <2>1. PICK h : /\ conn' = [conn EXCEPT ![c] = h]
                 /\ h = [Off EXCEPT !.session = IF conn[c].close = NoTime THEN NoSession ELSE Mine(c),
                                    !.close = conn[c].close]
    BY <1>e DEF End
  <2>2. h.pc = "off" /\ h.close = conn[c].close
        /\ (conn[c].close # NoTime => h.session = conn[c].session)
    BY <2>1 DEF Off, Mine
  <2> QED BY <2>1, <2>2, LateTabForgets
<1>1. ASSUME NEW c \in Conn, EnterCheck(c) \/ Leave(c) PROVE LateTabs'
  <2>1. PICK h, pc : /\ conn' = [conn EXCEPT ![c] = h] /\ h = [conn[c] EXCEPT !.pc = pc]
                     /\ pc \in {"checked", "wrapup"}
    BY <1>1 DEF EnterCheck, Leave
  <2>2. h.pc = pc /\ h.close = conn[c].close /\ h.session = conn[c].session
    BY <1>h, <2>1 DEF Handler
  <2> QED BY <2>1, <2>2, LateTabForgets
<1>2. ASSUME NEW c \in Conn, EnterOpen(c) PROVE LateTabs'
  <2>1. CASE End(c)
    BY <1>e, <2>1
  <2>2. CASE ~End(c)
    <3>0. PICK s : conn' = [conn EXCEPT ![c] = [conn[c] EXCEPT !.pc = "open", !.session = s]]
      BY <1>2, <2>2 DEF EnterOpen
    <3>1. PICK h : conn' = [conn EXCEPT ![c] = h] /\ h = [conn[c] EXCEPT !.pc = "open", !.session = s]
      BY <3>0
    <3>2. h.pc = "open" /\ h.close = NoTime
      BY <1>2, <1>h, <3>1 DEF EnterOpen, At, HandlerKept, Handler
    <3> QED BY <3>1, <3>2, LateTabForgets
  <2> QED BY <2>1, <2>2
<1>3. ASSUME NEW c \in Conn, CloseRead(c) PROVE LateTabs'
  <2>1. PICK h : conn' = [conn EXCEPT ![c] = h] /\ h = [conn[c] EXCEPT !.close = now]
    BY <1>3 DEF CloseRead
  <2>2. h.pc = "open" /\ h.session = conn[c].session /\ h.close = now
    BY <1>3, <1>h, <2>1 DEF CloseRead, At, Handler
  <2>3. h.session \in Session
    BY <1>0, <1>3, <2>2, MineType DEF CloseRead, At, Mine
  <2>4. Started(h.session)' <= h.close
    BY <1>0, <1>3, <2>2, <2>3 DEF CloseRead, LateRows, InTime, Started
  <2>5. LateHandler(h)'
    BY <2>2, <2>4 DEF LateHandler
  <2> QED BY <2>1, <2>5, LateTabMoves
<1>4. ASSUME NEW c \in Conn, CloseCommit(c) PROVE LateTabs'
  <2> DEFINE pc == IF At(c, "open") THEN "wrapup" ELSE conn[c].pc
  <2>1. CASE At(c, "off")
    <3>1. PICK h : conn' = [conn EXCEPT ![c] = h] /\ h = Off
      BY <1>4, <2>1 DEF CloseCommit
    <3>2. h.pc = "off" /\ h.close = NoTime
      BY <3>1 DEF Off
    <3> QED BY <3>1, <3>2, LateTabForgets
  <2>2. CASE ~At(c, "off")
    <3>1. PICK h : conn' = [conn EXCEPT ![c] = h] /\ h = [conn[c] EXCEPT !.close = NoTime, !.pc = pc]
      BY <1>4, <2>2 DEF CloseCommit
    <3>2. /\ h.pc = pc /\ h.close = NoTime
          /\ h.session = conn[c].session /\ h.evaluate = conn[c].evaluate
      BY <1>h, <3>1 DEF Handler
    <3>3. h.pc = "commit" => conn[c].pc = "commit"
      BY <3>2
    <3> QED BY <3>1, <3>2, <3>3, LateTabForgets
  <2> QED BY <2>1, <2>2
<1>5. ASSUME NEW c \in Conn, WrapRead(c) PROVE LateTabs'
  <2>1. CASE End(c)
    BY <1>e, <2>1
  <2>2. CASE ~End(c)
    <3> DEFINE b == /\ session[Mine(c)].finalized # NoTime
                    /\ session[Mine(c)].status \notin Dispatched
                    /\ session[Mine(c)].finalized <= deadline
    <3>1. PICK h : /\ conn' = [conn EXCEPT ![c] = h]
                   /\ h = [conn[c] EXCEPT !.pc = "commit", !.evaluate = b]
      BY <1>5, <2>2 DEF WrapRead
    <3>2. /\ h.pc = "commit" /\ h.evaluate = b
          /\ h.session = conn[c].session /\ h.close = conn[c].close
      BY <1>h, <3>1 DEF Handler
    <3>3. h.session \in Session /\ h \in Handler
      <4>1. h.session \in Session
        BY <1>0, <1>5, <3>2, MineType DEF WrapRead, At, Mine
      <4>2. b \in BOOLEAN
        OBVIOUS
      <4> HIDE DEF b
      <4> QED BY <1>h, <3>1, <4>1, <4>2 DEF Handler
    <3>4. h.evaluate => Started(h.session) <= deadline
      <4>1. Started(h.session) \in Int /\ session[h.session].finalized \in Int /\ deadline \in Int
        BY <1>0, <3>3, StartedInt, ClockStep
      <4>2. h.evaluate => /\ session[h.session].finalized # NoTime
                          /\ session[h.session].finalized <= deadline
        BY <3>2 DEF Mine
      <4>3. session[h.session].finalized # NoTime => Started(h.session) <= session[h.session].finalized
        BY <1>0, <3>3 DEF LateRows, InTime, Started
      <4> QED BY <4>1, <4>2, <4>3
    <3>5. LateHandler(h) /\ HandlerKept(h)
      <4>1. LateHandler(conn[c])
        BY <1>0 DEF LateTabs, LateHandler, At, Mine
      <4>2. Begun(h.session) /\ (h.close # NoTime => Used(h.session))
        BY <1>5, <1>h, <3>2 DEF WrapRead, At, HandlerKept
      <4>3. h.evaluate => Finalized(h.session)
        BY <3>2 DEF Mine, Finalized
      <4> QED BY <3>2, <3>4, <4>1, <4>2, <4>3 DEF LateHandler, HandlerKept
    <3>6. LateHandler(h)'
      BY <3>3, <3>5, LateTabWaits
    <3> QED BY <3>1, <3>6, LateTabMoves
  <2> QED BY <2>1, <2>2
<1>6. ASSUME NEW c \in Conn, WrapCommit(c) PROVE LateTabs'
  <2>1. CASE End(c)
    BY <1>e, <2>1
  <2>2. CASE ~End(c)
    <3>1. PICK h : conn' = [conn EXCEPT ![c] = h] /\ h = [conn[c] EXCEPT !.pc = "dispatch"]
      BY <1>6, <2>2 DEF WrapCommit
    <3>2. h.pc = "dispatch" /\ h.session = conn[c].session /\ h.close = conn[c].close
      BY <1>h, <3>1 DEF Handler
    <3> QED BY <3>1, <3>2, LateTabForgets
  <2> QED BY <2>1, <2>2
<1>7. ASSUME NEW c \in Conn, HandlerStep(c) \/ StudentStep(c) PROVE LateTabs'
  BY <1>e, <1>u, <1>1, <1>2, <1>3, <1>4, <1>5, <1>6, <1>7
  DEF HandlerStep, StudentStep, WrapDispatch, Greet, Answer
<1>8. ASSUME Restart PROVE LateTabs'
  BY <1>8 DEF Restart, LateTabs, At, Off
<1>9. ASSUME \/ WorkerStep \/ SweepStep \/ \E s \in Session : ReEvaluate(s)
             \/ ResetActivity \/ \E d \in Time : EditDeadline(d)
             \/ Tick \/ UNCHANGED vars
      PROVE  conn' = conn
  BY <1>9 DEF WorkerStep, Dequeue, EvalRead, EvalWrite, MarkFailed, SweepStep, SweepScan, ForceRead,
              ForceCommit, ReEvaluate, ResetActivity, EditDeadline, Tick, vars
<1> QED BY <1>u, <1>7, <1>8, <1>9 DEF Next

LEMMA LateSweepStep == LifeInv /\ LateInv /\ [Next]_vars => LateSweep'
<1> SUFFICES ASSUME LifeInv, LateInv, [Next]_vars PROVE LateSweep'
  OBVIOUS
<1>0. TypeOK /\ SweepKept /\ LateSweep
  BY DEF LifeInv, LateInv
<1>i. \A s : Used(s) => Started(s) \in Int /\ Started(s)' \in Int /\ Started(s)' <= Started(s)
  BY <1>0, StartStep, StartedInt DEF Used, Begun
<1>d. deadline \in Int /\ deadline' \in Int /\ deadline <= deadline' /\ Time \subseteq Int
  BY ClockStep, Constants
<1>1. ASSUME NEW w, sweep' = w, w.due \in Time, w.due <= deadline,
             \A s \in w.todo : Used(s) /\ Started(s) <= w.due,
             w.pc = "force" => Used(w.target) /\ Started(w.target) <= w.due
      PROVE  LateSweep'
  <2>0. w.due \in Int
    BY <1>1, <1>d
  <2>1. w.due <= deadline'
    BY <1>1, <1>d, <2>0
  <2>2. ASSUME NEW s, Used(s), Started(s) <= w.due PROVE Started(s)' <= w.due
    <3>1. Started(s) \in Int /\ Started(s)' \in Int /\ Started(s)' <= Started(s)
      BY <1>i, <2>2
    <3> QED BY <2>0, <2>2, <3>1
  <2>3. \A s \in w.todo : Started(s)' <= w.due
    BY <1>1, <2>2
  <2>4. w.pc = "force" => Started(w.target)' <= w.due
    BY <1>1, <2>2
  <2> QED BY <1>1, <2>1, <2>3, <2>4 DEF LateSweep
<1>2. ASSUME NEW todo \in SUBSET sweep.todo, sweep.pc # "idle", sweep' = Rest(todo) PROVE LateSweep'
  <2>1. CASE todo = {}
    BY <1>2, <2>1 DEF Rest, Asleep, LateSweep
  <2>2. CASE todo # {}
    <3>1. PICK w : w = [sweep EXCEPT !.pc = "next", !.todo = todo, !.target = NoSession]
      OBVIOUS
    <3>2. w.pc = "next" /\ w.due = sweep.due /\ w.todo = todo
      BY <1>0, <3>1 DEF TypeOK
    <3>3. sweep' = w
      BY <1>2, <2>2, <3>1 DEF Rest
    <3> QED BY <1>0, <1>1, <1>2, <3>2, <3>3 DEF SweepKept, LateSweep
  <2> QED BY <2>1, <2>2
<1>3. ASSUME SweepScan PROVE LateSweep'
  <2>1. PICK w : w = [Asleep EXCEPT !.pc = "next", !.todo = Overdue, !.due = deadline]
    OBVIOUS
  <2>2. w.pc = "next" /\ w.due = deadline /\ w.todo = Overdue
    BY <2>1 DEF Asleep
  <2>3. \A s \in Overdue : Used(s) /\ Started(s) <= deadline
    BY DEF Overdue, Used, Begun, Started
  <2>4. sweep' = w /\ deadline \in Time /\ deadline <= deadline
    BY <1>0, <1>3, <1>d, <2>1 DEF SweepScan, TypeOK
  <2> QED BY <1>1, <2>2, <2>3, <2>4
<1>4. ASSUME NEW s \in Session, ForceRead(s) PROVE LateSweep'
  <2>1. CASE session[s].status = "IN_PROGRESS"
    <3>1. PICK w : w = [sweep EXCEPT !.pc = "force", !.todo = @ \ {s}, !.target = s]
      OBVIOUS
    <3>2. w.pc = "force" /\ w.due = sweep.due /\ w.todo = sweep.todo \ {s} /\ w.target = s
      BY <1>0, <3>1 DEF TypeOK
    <3>3. sweep' = w /\ s \in sweep.todo /\ sweep.pc = "next"
      BY <1>4, <2>1, <3>1 DEF ForceRead
    <3> QED BY <1>0, <1>1, <3>2, <3>3 DEF SweepKept, LateSweep
  <2>2. CASE session[s].status # "IN_PROGRESS"
    BY <1>2, <1>4, <2>2 DEF ForceRead
  <2> QED BY <2>1, <2>2
<1>5. ASSUME ForceCommit PROVE LateSweep'
  BY <1>2, <1>5 DEF ForceCommit
<1>6. ASSUME Restart PROVE LateSweep'
  BY <1>6 DEF Restart, LateSweep, Asleep
<1>7. ASSUME sweep' = sweep PROVE LateSweep'
  <2>1. CASE sweep.pc = "idle"
    BY <1>7, <2>1 DEF LateSweep
  <2>2. CASE sweep.pc # "idle"
    <3>1. PICK w : w = sweep
      OBVIOUS
    <3> QED BY <1>0, <1>1, <1>7, <2>2, <3>1 DEF SweepKept, LateSweep
  <2> QED BY <2>1, <2>2
<1>8. ASSUME \/ \E c \in Conn : HandlerStep(c) \/ StudentStep(c)
             \/ WorkerStep \/ \E s \in Session : ReEvaluate(s)
             \/ ResetActivity \/ \E d \in Time : EditDeadline(d)
             \/ Tick \/ UNCHANGED vars
      PROVE  sweep' = sweep
  BY <1>8 DEF HandlerStep, StudentStep, EnterOpen, CloseCommit, WrapRead, WrapCommit, WrapDispatch,
              EnterCheck, Greet, Answer, CloseRead, Leave, WorkerStep, Dequeue, EvalRead, EvalWrite,
              MarkFailed, ReEvaluate, ResetActivity, EditDeadline, Tick, vars
<1> QED BY <1>3, <1>4, <1>5, <1>6, <1>7, <1>8 DEF Next, SweepStep

(***************************************************************************)
(* Unless the deadline is edited, a session started after it is never      *)
(* dispatched but by an administrator, whatever the sweep and the wrap-ups *)
(* interleave with: both read the start of a session with the deadline.    *)
(***************************************************************************)
THEOREM LateStartersIgnored ==
  ASSUME Budget["edit"] = 0 PROVE Spec => []LateStarterIgnored
<1>1. Init => LateInv
  BY LateInit
<1>2. LifeInv /\ LateInv /\ [Next]_vars => LateInv'
  BY LateRowsStep, LateTabsStep, LateSweepStep, ClockStep DEF LateInv
<1>3. LifeInv /\ LateInv => LateStarterIgnored
  <2> SUFFICES ASSUME LifeInv, LateInv, NEW s \in Session \ asked,
                      session[s].status \in Dispatched
               PROVE  ~(session[s].started > deadline)
    BY DEF LateStarterIgnored
  <2>1. session[s].started <= deadline
    BY DEF LateInv, LateRows, InTime
  <2>2. session[s].started \in Int /\ deadline \in Int
    BY StartedInt, Constants DEF LifeInv, TypeOK, Started
  <2> QED BY <2>1, <2>2
<1> QED BY <1>1, <1>2, <1>3, LifeInvariant, PTL DEF Spec
-----------------------------------------------------------------------------
(***************************************************************************)
(* How far a request is from its outcome: the requests ahead of it, and    *)
(* the steps the worker may still take for the one it has.                 *)
(***************************************************************************)
Effort ==
  CASE worker.pc = "read" -> 2 * (MaxAttempts - worker.attempt) + 3
    [] worker.pc = "llm"  -> 2 * (MaxAttempts - worker.attempt) + 2
    [] worker.pc = "mark" -> 1
    [] OTHER -> 0

(* A request for s is with the worker (0) or at place n of the queue *)
Waits(n, s) ==
  IF n = 0 THEN worker.pc # "idle" /\ worker.session = s ELSE n \in DOMAIN queue /\ queue[n] = s

(* s has an outcome, or is gone *)
Settled(s) == session[s].status \in {"EVALUATED", "EVALUATION_FAILED", "deleted"}

(* Pairs of numbers in the order of the dictionary *)
Before == LexPairOrdering(OpToRel(<, Nat), OpToRel(<, Nat), Nat, Nat)

LEMMA BeforeIsWellFounded == IsWellFoundedOn(Before, Nat \X Nat)
<1>1. IsWellFoundedOn(OpToRel(<, Nat), Nat)
  BY NatLessThanWellFounded
<1> QED BY <1>1, WFLexPairOrdering DEF Before

LEMMA InBefore ==
  ASSUME NEW a \in Nat, NEW b \in Nat, NEW c \in Nat, NEW d \in Nat, a < c \/ (a = c /\ b < d)
  PROVE  << <<a, b>>, <<c, d>> >> \in Before
<1>1. \A i, j \in Nat : i < j => <<i, j>> \in OpToRel(<, Nat)
  BY DEF OpToRel
<1> QED BY <1>1 DEF Before, LexPairOrdering

LEMMA EffortType == TypeOK => Effort \in Nat
<1> SUFFICES ASSUME TypeOK PROVE Effort \in Nat
  OBVIOUS
<1>1. worker.attempt \in 0 .. MaxAttempts /\ MaxAttempts \in Nat
  BY MaxAttemptsAssumption DEF TypeOK
<1>2. 2 * (MaxAttempts - worker.attempt) + 3 \in Nat /\ 2 * (MaxAttempts - worker.attempt) + 2 \in Nat
  BY <1>1
<1> QED BY <1>2 DEF Effort

(* An attempt that failed is followed by another, or by none *)
LEMMA Retries ==
  ASSUME TypeOK, AttemptFails, worker.pc \in {"read", "llm"}
  PROVE  worker'.pc # "idle" /\ worker'.session = worker.session /\ Effort' < Effort
<1>1. worker.attempt \in 0 .. MaxAttempts /\ MaxAttempts \in Nat
  BY MaxAttemptsAssumption DEF TypeOK
<1>2. Effort >= 2 * (MaxAttempts - worker.attempt) + 2 /\ Effort \in Int
  BY <1>1 DEF Effort
<1>3. CASE worker.attempt < MaxAttempts
  <2>1. worker'.pc = "read" /\ worker'.attempt = worker.attempt + 1 /\ worker'.session = worker.session
    BY <1>3 DEF AttemptFails, TypeOK
  <2>2. Effort' = 2 * (MaxAttempts - (worker.attempt + 1)) + 3
    BY <2>1 DEF Effort
  <2> QED BY <1>1, <1>2, <2>1, <2>2
<1>4. CASE ~(worker.attempt < MaxAttempts)
  <2>1. worker'.pc = "mark" /\ worker'.session = worker.session
    BY <1>4 DEF AttemptFails, TypeOK
  <2>2. Effort' = 1
    BY <2>1 DEF Effort
  <2> QED BY <1>1, <1>2, <2>1, <2>2
<1> QED BY <1>3, <1>4

(* Letting go of a request leaves no effort *)
LEMMA Rests == TypeOK /\ worker.pc # "idle" /\ worker' = Idle => Effort' < Effort
<1> SUFFICES ASSUME TypeOK, worker.pc # "idle", worker' = Idle PROVE Effort' < Effort
  OBVIOUS
<1>1. worker.attempt \in 0 .. MaxAttempts /\ MaxAttempts \in Nat /\ worker.pc \in {"read", "llm", "mark"}
  BY MaxAttemptsAssumption DEF TypeOK
<1>2. 2 * (MaxAttempts - worker.attempt) + 3 > 0 /\ 2 * (MaxAttempts - worker.attempt) + 2 > 0
  BY <1>1
<1>3. Effort > 0
  BY <1>1, <1>2 DEF Effort
<1>4. Effort' = 0
  BY DEF Effort, Idle
<1> QED BY <1>3, <1>4

(* A busy worker comes to an outcome or nearer to it *)
LEMMA Works ==
  ASSUME LifeInv, WorkerStep, worker.pc # "idle", NEW r \in Session, r = worker.session
  PROVE  /\ queue' = queue /\ Effort' < Effort
         /\ \/ Settled(r)' \/ DbMayFail
            \/ worker'.pc # "idle" /\ worker'.session = worker.session
<1>0. TypeOK /\ RowsKept /\ Sent(worker.session)
  BY DEF LifeInv, WorkerKept
<1>1. ~Dequeue /\ (EvalRead \/ EvalWrite \/ MarkFailed) /\ queue' = queue
  BY DEF WorkerStep, Dequeue, EvalRead, EvalWrite, MarkFailed
<1>3. Exists(r) => session[r].engaged
  BY <1>0 DEF Sent, RowsKept, Exists, Finalized, Dispatched
<1>4. ASSUME worker' = [worker EXCEPT !.pc = "llm"], worker.pc = "read"
      PROVE  worker'.pc # "idle" /\ worker'.session = worker.session /\ Effort' < Effort
  <2>1. worker'.pc = "llm" /\ worker'.attempt = worker.attempt /\ worker'.session = worker.session
    BY <1>0, <1>4 DEF TypeOK
  <2>2. worker.attempt \in 0 .. MaxAttempts /\ MaxAttempts \in Nat
    BY <1>0, MaxAttemptsAssumption DEF TypeOK
  <2>3. Effort' = 2 * (MaxAttempts - worker.attempt) + 2 /\ Effort = 2 * (MaxAttempts - worker.attempt) + 3
    BY <1>4, <2>1 DEF Effort
  <2> QED BY <2>1, <2>2, <2>3
<1>5. CASE EvalRead
  <2>1. worker' # Idle
    BY <1>0, <1>3, <1>4, <1>5, Retries DEF EvalRead, Idle
  <2> QED BY <1>0, <1>1, <1>3, <1>4, <1>5, <2>1, Retries DEF EvalRead
<1>6. ASSUME NEW out \in {"EVALUATED", "EVALUATION_FAILED"}, Change(r, [session[r] EXCEPT !.status = out])
      PROVE  session'[r].status = out
  BY <1>0, <1>3, <1>6 DEF Change, TypeOK, SessionRow
<1>7. CASE EvalWrite
  <2>1. CASE AttemptFails
    BY <1>0, <1>1, <1>7, <2>1, Retries DEF EvalWrite
  <2>2. CASE ~AttemptFails
    <3>1. session'[r].status = "EVALUATED"
      BY <1>6, <1>7, <2>2 DEF EvalWrite
    <3>2. Settled(r)'
      BY <3>1 DEF Settled
    <3>3. Effort' < Effort
      BY <1>0, <1>7, <2>2, Rests DEF EvalWrite
    <3> QED BY <1>1, <3>2, <3>3 DEF Settled
  <2> QED BY <2>1, <2>2
<1>8. CASE MarkFailed
  <2>0. Effort' < Effort
    BY <1>0, <1>8, Rests DEF MarkFailed
  <2>1. CASE Exists(r) /\ Change(r, [session[r] EXCEPT !.status = "EVALUATION_FAILED"])
    BY <1>1, <1>6, <2>0, <2>1 DEF Settled
  <2>2. CASE ~Exists(r) /\ UNCHANGED session
    BY <1>0, <1>1, <2>0, <2>2 DEF Settled, Exists, Sent, Dispatched
  <2> QED BY <1>1, <1>8, <2>0, <2>1, <2>2 DEF MarkFailed
<1> QED BY <1>1, <1>5, <1>7, <1>8

(***************************************************************************)
(* Where a request is after a step: lost with the process, answered, or    *)
(* closer to the worker's end with it, if the worker took the step.  Other *)
(* tasks do not put anything ahead of it.                                  *)
(***************************************************************************)
Advances(n, s) ==
  \/ Restart
  \/ n = 0 /\ WorkerStep /\ (Settled(s)' \/ DbMayFail)
  \/ \E m \in 0 .. n :
       /\ Waits(m, s)'
       /\ IF WorkerStep THEN << <<m, Effort'>>, <<n, Effort>> >> \in Before
          ELSE <<m, Effort'>> = <<n, Effort>>
RequestsAdvance == [][\A n \in Nat, s \in Session : Waits(n, s) => Advances(n, s)]_vars

(* Nobody but the worker takes from the queue, and others add at its end *)
LEMMA QueueGrows ==
  ASSUME LifeInv, Next, ~WorkerStep, ~Restart
  PROVE  worker' = worker /\ \A n \in DOMAIN queue : n \in DOMAIN queue' /\ queue'[n] = queue[n]
<1>0. TypeOK /\ TabsKept /\ SweepKept /\ queue \in Seq(Session)
  BY DEF LifeInv, TypeOK
<1>1. worker' = worker
  BY DEF Next, HandlerStep, StudentStep, EnterOpen, CloseCommit, WrapRead, WrapCommit, WrapDispatch,
         EnterCheck, Greet, Answer, CloseRead, Leave, SweepStep, SweepScan, ForceRead,
         ForceCommit, ReEvaluate, ResetActivity, EditDeadline, Tick
<1>2. ASSUME NEW r \in Session, queue' = Append(queue, r)
      PROVE  \A n \in DOMAIN queue : n \in DOMAIN queue' /\ queue'[n] = queue[n]
  BY <1>0, <1>2, AppendProperties
<1>3. ASSUME NEW c \in Conn, WrapDispatch(c) PROVE queue' = queue \/ \E r \in Session : queue' = Append(queue, r)
  BY <1>0, <1>3 DEF WrapDispatch, TabsKept, Sent
<1>4. ASSUME ForceCommit PROVE queue' = queue \/ \E r \in Session : queue' = Append(queue, r)
  BY <1>0, <1>4 DEF ForceCommit, SweepKept, Used, Begun
<1>5. queue' = queue \/ \E r \in Session : queue' = Append(queue, r)
  BY <1>3, <1>4
     DEF Next, HandlerStep, StudentStep, EnterOpen, CloseCommit, WrapRead, WrapCommit,
         EnterCheck, Greet, Answer, CloseRead, Leave, SweepStep, SweepScan, ForceRead,
         ReEvaluate, ResetActivity, EditDeadline, Tick
<1> QED BY <1>1, <1>2, <1>5

(* The worker takes the first request, and each of the others moves up *)
LEMMA Takes ==
  ASSUME LifeInv, Dequeue, NEW n \in Nat, NEW s \in Session, Waits(n, s)
  PROVE  n # 0 /\ Waits(n - 1, s)'
<1>0. queue \in Seq(Session) /\ queue # <<>> /\ worker.pc = "idle" /\ queue' = Tail(queue)
  BY DEF LifeInv, TypeOK, Dequeue
<1>1. n # 0 /\ n \in DOMAIN queue /\ queue[n] = s /\ n \in 1 .. Len(queue)
  BY <1>0, LenProperties DEF Waits
<1>2. CASE n = 1
  BY <1>0, <1>1, <1>2, HeadTailProperties DEF Dequeue, Waits
<1>3. CASE n # 1
  <2>1. n - 1 \in 1 .. Len(queue) - 1 /\ Len(Tail(queue)) = Len(queue) - 1 /\ Tail(queue) \in Seq(Session)
    BY <1>0, <1>1, <1>3, HeadTailProperties, LenProperties
  <2>2. n - 1 \in DOMAIN Tail(queue) /\ Tail(queue)[n - 1] = queue[(n - 1) + 1]
    BY <1>0, <2>1, HeadTailProperties, LenProperties
  <2>3. (n - 1) + 1 = n /\ n - 1 # 0
    BY <1>1, <1>3
  <2> QED BY <1>0, <1>1, <2>2, <2>3 DEF Waits
<1> QED BY <1>1, <1>2, <1>3

(***************************************************************************)
(* What is asked of _evaluation_worker is not starved: whatever tabs, sweep*)
(* and administrator do, a step of the worker brings every request nearer  *)
(* its outcome in a well-founded order, and a step of others none farther; *)
(* the worker lets go of it only with an outcome, unless statements fail.  *)
(* This is PendingSettles but for the fairness.                            *)
(***************************************************************************)
THEOREM RequestsAreWorkedOff == IsWellFoundedOn(Before, Nat \X Nat) /\ (Spec => RequestsAdvance)
<1>1. ASSUME LifeInv, LifeInv', Next, NEW n \in Nat, NEW s \in Session, Waits(n, s)
      PROVE  Advances(n, s)
  <2>0. TypeOK /\ TypeOK' /\ n \in 0 .. n /\ Effort \in Nat
    BY <1>1, EffortType DEF LifeInv
  <2>1. Effort' \in Nat
    <3>1. worker'.attempt \in 0 .. MaxAttempts /\ MaxAttempts \in Nat
      BY <2>0, MaxAttemptsAssumption DEF TypeOK
    <3>2. 2 * (MaxAttempts - worker'.attempt) + 3 \in Nat /\ 2 * (MaxAttempts - worker'.attempt) + 2 \in Nat
      BY <3>1
    <3> QED BY <3>2 DEF Effort
  <2>2. CASE Restart
    BY <2>2 DEF Advances
  <2>3. CASE ~Restart /\ ~WorkerStep
    <3>1. Waits(n, s)' /\ Effort' = Effort
      BY <1>1, <2>3, QueueGrows DEF Waits, Effort
    <3> QED BY <2>0, <2>3, <3>1 DEF Advances
  <2>4. CASE WorkerStep /\ worker.pc = "idle"
    <3>1. Dequeue
      BY <2>4 DEF WorkerStep, EvalRead, EvalWrite, MarkFailed
    <3>2. n # 0 /\ Waits(n - 1, s)'
      BY <1>1, <3>1, Takes
    <3>3. n - 1 \in 0 .. n /\ n - 1 \in Nat /\ n - 1 < n
      BY <3>2
    <3>4. << <<n - 1, Effort'>>, <<n, Effort>> >> \in Before
      BY <2>0, <2>1, <3>3, InBefore
    <3> QED BY <2>4, <3>2, <3>3, <3>4 DEF Advances
  <2>5. CASE WorkerStep /\ worker.pc # "idle"
    <3>0. PICK r \in Session : r = worker.session
      BY <1>1, <2>5 DEF LifeInv, WorkerKept, Sent
    <3>1. queue' = queue /\ Effort' < Effort
      BY <1>1, <2>5, <3>0, Works
    <3>2. CASE worker'.pc # "idle" /\ worker'.session = worker.session
      <4>1. Waits(n, s)'
        BY <1>1, <3>1, <3>2 DEF Waits
      <4>2. << <<n, Effort'>>, <<n, Effort>> >> \in Before
        BY <2>0, <2>1, <3>1, InBefore
      <4> QED BY <2>0, <2>5, <4>1, <4>2 DEF Advances
    <3>3. CASE Settled(r)' \/ DbMayFail
      <4>1. CASE n = 0
        BY <1>1, <2>5, <3>0, <3>3, <4>1 DEF Waits, Settled, Advances
      <4>2. CASE n # 0
        <5>1. Waits(n, s)'
          BY <1>1, <3>1, <4>2 DEF Waits
        <5>2. << <<n, Effort'>>, <<n, Effort>> >> \in Before
          BY <2>0, <2>1, <3>1, InBefore
        <5> QED BY <2>0, <2>5, <5>1, <5>2 DEF Advances
      <4> QED BY <4>1, <4>2
    <3> QED BY <1>1, <2>5, <3>0, <3>2, <3>3, Works
  <2> QED BY <2>2, <2>3, <2>4, <2>5
<1>2. LifeInv /\ LifeInv' /\ [Next]_vars
        => [\A n \in Nat, s \in Session : Waits(n, s) => Advances(n, s)]_vars
  BY <1>1
<1>3. Spec => RequestsAdvance
  BY <1>2, LifeInvariant, PTL DEF Spec, RequestsAdvance
<1> QED BY <1>3, BeforeIsWellFounded

-----------------------------------------------------------------------------
(***************************************************************************)
(* How far an overdue session is from being swept: the rounds until it is  *)
(* a candidate, and what is left of the round.                             *)
(***************************************************************************)
Round(s) ==
  IF sweep.pc = "idle" THEN 1
  ELSE IF s \in sweep.todo \/ (sweep.pc = "force" /\ sweep.target = s) THEN 0
  ELSE 2
Left == 2 * Cardinality(sweep.todo) + One(sweep.pc = "force")

(***************************************************************************)
(* Where an overdue session is after a step: overdue no more, dropped with *)
(* the round, or nearer, if the sweep took the step.                       *)
(***************************************************************************)
Approached(s) ==
  \/ Restart
  \/ s \notin Overdue'
  \/ DbMayFail /\ ForceCommit /\ sweep.target = s
  \/ IF SweepStep THEN << <<Round(s)', Left'>>, <<Round(s), Left>> >> \in Before
     ELSE <<Round(s)', Left'>> = <<Round(s), Left>>
SweepApproaches == [][\A s \in Overdue : Approached(s)]_vars

LEMMA SessionsAreFinite ==
  ASSUME NEW todo \in SUBSET Session PROVE IsFiniteSet(todo) /\ Cardinality(todo) \in Nat
<1>1. IsFiniteSet(Session)
  BY BoundsAssumption, FS_Interval DEF Session
<1>2. IsFiniteSet(todo)
  BY <1>1, FS_Subset
<1> QED BY <1>2, FS_CardinalityType

(* A round has finitely many candidates left, one less for each that is taken *)
LEMMA Candidates ==
  TypeOK => /\ Left \in Nat
            /\ \A s \in sweep.todo : /\ Cardinality(sweep.todo \ {s}) \in Nat
                                     /\ Cardinality(sweep.todo) = Cardinality(sweep.todo \ {s}) + 1
<1> SUFFICES ASSUME TypeOK
             PROVE  /\ Left \in Nat
                    /\ \A s \in sweep.todo : /\ Cardinality(sweep.todo \ {s}) \in Nat
                                             /\ Cardinality(sweep.todo) = Cardinality(sweep.todo \ {s}) + 1
  OBVIOUS
<1>1. IsFiniteSet(sweep.todo)
  BY SessionsAreFinite DEF TypeOK
<1>2. Cardinality(sweep.todo) \in Nat
  BY SessionsAreFinite DEF TypeOK
<1>3. ASSUME NEW s \in sweep.todo
      PROVE  /\ Cardinality(sweep.todo \ {s}) \in Nat
             /\ Cardinality(sweep.todo) = Cardinality(sweep.todo \ {s}) + 1
  <2>1. Cardinality(sweep.todo \ {s}) = Cardinality(sweep.todo) - 1 /\ IsFiniteSet(sweep.todo \ {s})
    BY <1>1, <1>3, FS_RemoveElement
  <2>2. Cardinality(sweep.todo \ {s}) \in Nat
    BY <2>1, FS_CardinalityType
  <2> QED BY <1>2, <2>1, <2>2
<1> QED BY <1>2, <1>3 DEF Left, One

(* What is left once the sweep goes on with the remaining candidates *)
LEMMA GoesOn ==
  ASSUME TypeOK, sweep.pc # "idle", NEW todo \in SUBSET Session, sweep' = Rest(todo), NEW s
  PROVE  /\ todo = {} => Round(s)' = 1 /\ Left' = 0
         /\ todo # {} => Left' = 2 * Cardinality(todo) /\ Round(s)' = IF s \in todo THEN 0 ELSE 2
<1>1. ASSUME todo = {} PROVE Round(s)' = 1 /\ Left' = 0
  <2>1. sweep'.pc = "idle" /\ sweep'.todo = {}
    BY <1>1 DEF Rest, Asleep
  <2>2. Cardinality(sweep'.todo) = 0
    BY <2>1, FS_EmptySet
  <2> QED BY <2>1, <2>2 DEF Round, Left, One
<1>2. ASSUME todo # {} PROVE Left' = 2 * Cardinality(todo) /\ Round(s)' = IF s \in todo THEN 0 ELSE 2
  <2>1. sweep'.pc = "next" /\ sweep'.todo = todo
    BY <1>2 DEF Rest, TypeOK
  <2>2. Cardinality(todo) \in Nat
    BY SessionsAreFinite
  <2> QED BY <2>1, <2>2 DEF Round, Left, One
<1> QED BY <1>1, <1>2

(***************************************************************************)
(* No overdue session is passed over for ever: every step of the sweep     *)
(* brings every one of them nearer, those it did not find in this round    *)
(* included, and no step of others throws it back, though they close,      *)
(* reset and dispatch sessions between the scan and the commit.  This is   *)
(* OverdueIsSwept but for the fairness.                                    *)
(***************************************************************************)
THEOREM OverdueComeUp == IsWellFoundedOn(Before, Nat \X Nat) /\ (Spec => SweepApproaches)
<1>1. ASSUME LifeInv, LifeInv', Next, NEW s \in Overdue
      PROVE  Approached(s)
  <2>0. TypeOK /\ TypeOK' /\ s \in Session /\ session[s].status = "IN_PROGRESS" /\ Exists(s)
    BY <1>1 DEF LifeInv, Overdue, Exists
  <2>1. Left \in Nat /\ Left' \in Nat /\ Round(s) \in Nat /\ Round(s)' \in Nat
    <3>1. Left \in Nat
      BY <2>0, Candidates
    <3>2. Cardinality(sweep'.todo) \in Nat
      BY <2>0, SessionsAreFinite DEF TypeOK
    <3> QED BY <3>1, <3>2 DEF Left, Round, One
  <2>2. ASSUME Round(s)' < Round(s) \/ (Round(s)' = Round(s) /\ Left' < Left)
        PROVE  << <<Round(s)', Left'>>, <<Round(s), Left>> >> \in Before
    BY <2>1, <2>2, InBefore
  <2>3. CASE SweepScan
    <3>1. sweep.pc = "idle"
      BY <2>3 DEF SweepScan, Asleep
    <3>2. sweep'.pc = "next" /\ s \in sweep'.todo
      BY <1>1, <2>3 DEF SweepScan, Asleep
    <3>3. Round(s)' = 0 /\ Round(s) = 1
      BY <3>1, <3>2 DEF Round
    <3> QED BY <2>2, <2>3, <3>3 DEF Approached, SweepStep
  <2>4. CASE \E r \in Session : ForceRead(r)
    <3>1. PICK r \in Session : ForceRead(r)
      BY <2>4
    <3>2. sweep.pc = "next" /\ r \in sweep.todo
      BY <3>1 DEF ForceRead
    <3>3. /\ Cardinality(sweep.todo \ {r}) \in Nat
          /\ Left = 2 * Cardinality(sweep.todo \ {r}) + 2
      <4>1. /\ Cardinality(sweep.todo \ {r}) \in Nat
            /\ Cardinality(sweep.todo) = Cardinality(sweep.todo \ {r}) + 1
        BY <2>0, <3>2, Candidates
      <4>2. One(sweep.pc = "force") = 0
        BY <3>2 DEF One
      <4> QED BY <4>1, <4>2 DEF Left
    <3>4. Round(s) = IF s \in sweep.todo THEN 0 ELSE 2
      BY <3>2 DEF Round
    <3>5. CASE session[r].status = "IN_PROGRESS"
      <4>1. sweep'.pc = "force" /\ sweep'.todo = sweep.todo \ {r} /\ sweep'.target = r
        BY <2>0, <3>1, <3>5 DEF ForceRead, TypeOK
      <4>2. Left' = 2 * Cardinality(sweep.todo \ {r}) + 1
        BY <4>1 DEF Left, One
      <4>3. Round(s)' = Round(s)
        BY <3>2, <3>4, <4>1 DEF Round
      <4> QED BY <2>2, <2>4, <3>3, <4>2, <4>3 DEF Approached, SweepStep
    <3>6. CASE session[r].status # "IN_PROGRESS"
      <4>1. sweep' = Rest(sweep.todo \ {r}) /\ r # s /\ sweep.todo \ {r} \in SUBSET Session
        BY <2>0, <3>1, <3>6 DEF ForceRead, TypeOK
      <4>2. s \in sweep.todo <=> s \in sweep.todo \ {r}
        BY <4>1
      <4>3. CASE sweep.todo \ {r} = {}
        <5>1. Round(s)' = 1
          BY <2>0, <3>2, <4>1, <4>3, GoesOn
        <5>2. Round(s)' < Round(s)
          BY <3>4, <4>2, <4>3, <5>1
        <5> QED BY <2>2, <2>4, <5>2 DEF Approached, SweepStep
      <4>4. CASE sweep.todo \ {r} # {}
        <5>1. Left' = 2 * Cardinality(sweep.todo \ {r}) /\ Round(s)' = IF s \in sweep.todo \ {r} THEN 0 ELSE 2
          BY <2>0, <3>2, <4>1, <4>4, GoesOn
        <5>2. Round(s)' = Round(s) /\ Left' < Left
          BY <3>3, <3>4, <4>2, <5>1
        <5> QED BY <2>2, <2>4, <5>2 DEF Approached, SweepStep
      <4> QED BY <4>3, <4>4
    <3> QED BY <3>5, <3>6
  <2>5. CASE ForceCommit
    <3>1. sweep.pc = "force" /\ sweep' = Rest(sweep.todo) /\ sweep.todo \in SUBSET Session
      BY <2>0, <2>5 DEF ForceCommit, TypeOK
    <3>2. CASE sweep.target # s
      <4>1. Left = 2 * Cardinality(sweep.todo) + 1 /\ Cardinality(sweep.todo) \in Nat
        BY <2>0, <3>1, SessionsAreFinite DEF Left, One
      <4>2. Round(s) = IF s \in sweep.todo THEN 0 ELSE 2
        BY <3>1, <3>2 DEF Round
      <4>3. \/ Round(s)' = 1 /\ Round(s) = 2
            \/ Round(s)' = Round(s) /\ Left' < Left
        BY <2>0, <3>1, <4>1, <4>2, GoesOn
      <4> QED BY <2>2, <2>5, <4>3 DEF Approached, SweepStep
    <3>3. CASE sweep.target = s /\ ~DbMayFail
      <4>1. Change(s, [session[s] EXCEPT !.finalized = sweep.due, !.status = "PENDING_EVALUATION"])
        BY <2>0, <2>5, <3>3 DEF ForceCommit
      <4>2. session'[s].status = "PENDING_EVALUATION"
        BY <2>0, <4>1 DEF Change, TypeOK, SessionRow
      <4>3. s \notin Overdue'
        BY <4>2 DEF Overdue
      <4> QED BY <4>3 DEF Approached
    <3> QED BY <2>5, <3>2, <3>3 DEF Approached
  <2>6. CASE Restart
    BY <2>6 DEF Approached
  <2>7. CASE ~SweepStep /\ ~Restart
    <3>1. sweep' = sweep
      BY <1>1, <2>7
         DEF Next, HandlerStep, StudentStep, EnterOpen, CloseCommit, WrapRead, WrapCommit, WrapDispatch,
             EnterCheck, Greet, Answer, CloseRead, Leave, WorkerStep, Dequeue, EvalRead, EvalWrite,
             MarkFailed, ReEvaluate, ResetActivity, EditDeadline, Tick
    <3>2. Round(s)' = Round(s) /\ Left' = Left
      BY <3>1 DEF Round, Left
    <3> QED BY <2>7, <3>2 DEF Approached
  <2> QED BY <2>3, <2>4, <2>5, <2>6, <2>7 DEF SweepStep
<1>2. LifeInv /\ LifeInv' /\ [Next]_vars => [\A s \in Overdue : Approached(s)]_vars
  BY <1>1
<1>3. Spec => SweepApproaches
  BY <1>2, LifeInvariant, PTL DEF Spec, SweepApproaches
<1> QED BY <1>3, BeforeIsWellFounded
=============================================================================
