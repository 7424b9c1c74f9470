----------------------- MODULE ActivityNoticesProofs -----------------------
(***************************************************************************)
(* What ActivityNotices guarantees for any number of students, closing     *)
(* tabs, ticks and rare events; at the end, that a summary that is due     *)
(* comes nearer with every step of the worker.                             *)
(***************************************************************************)
EXTENDS ActivityNotices, FiniteSetTheorems, WellFoundedInduction, TLAPS

LEMMA Bounds ==
  /\ Tabs \in Nat /\ Horizon \in Nat /\ FirstDeadline \in Nat /\ Month \in Nat /\ Month > 1
  /\ FirstDeadline \in Time /\ 0 .. Horizon \subseteq Time /\ 0 .. (Horizon + 1) \subseteq Time
  /\ \A t \in 0 .. Horizon : t + Month \in Time
<1>1. Tabs \in Nat /\ Horizon \in Nat /\ FirstDeadline \in Nat
  BY BoundsAssumption
<1> QED BY <1>1, MonthAssumption, DeadlineAssumption DEF Time

(***************************************************************************)
(* Unread rows.  A tab that found no row holds a place for the one it will *)
(* insert: none of them finds none once one has inserted.                  *)
(***************************************************************************)
PlacesHeld == \A s \in Student : unread[s]["unfinished"] + leaving[s] <= Tabs
ActivityOK ==
  activity \in [status : Status, deadline : Time, assigned : BOOLEAN, reminded : BOOLEAN, summarized : BOOLEAN]
SessionOK ==
  session \in [Student -> [status : {"none", "IN_PROGRESS", "dispatched"}, finalized : Time \cup {Never}]]
WorkerOK ==
  worker \in [pc : {"asleep", "sweep", "remind", "mark", "mail", "summarize", "report", "swap", "post"},
              todo : SUBSET Student, due : Time \cup {Never}, scanned : Time \cup {Never}]
TypeInv == TypeOK /\ UnreadBounded /\ PlacesHeld

LEMMA BellsStep ==
  ASSUME TypeInv, NEW users \in SUBSET Student, unread' = TouchAll(users, "reminder"), leaving' = leaving, bell' = bell
  PROVE  unread' \in [Student -> [Kind -> 0 .. Tabs + 1]] /\ UnreadBounded' /\ PlacesHeld'
  BY BoundsAssumption DEF TypeInv, TypeOK, UnreadBounded, PlacesHeld, TouchAll, Touched, Kind

LEMMA TypeStep == TypeInv /\ [Next]_vars => TypeInv'
<1> SUFFICES ASSUME TypeInv, [Next]_vars PROVE TypeInv'
  OBVIOUS
<1> USE Bounds, StudentsAssumption DEF TypeInv, TypeOK, UnreadBounded, PlacesHeld, Status, ActivityOK, SessionOK, WorkerOK
<1>1. ASSUME NEW s \in Student, StudentStep(s) PROVE TypeInv'
  <2>1. CASE Engage(s) \/ Close(s) \/ Dispatch(s)
    <3>1. SessionOK'
      <4>1. now \in Time
        OBVIOUS
      <4>2. CASE Engage(s)
        BY <4>2 DEF Engage
      <4>3. CASE Close(s)
        BY <4>1, <4>3 DEF Close
      <4>4. CASE Dispatch(s)
        BY <4>4 DEF Dispatch
      <4> QED BY <2>1, <4>2, <4>3, <4>4
    <3>2. UNCHANGED <<now, activity, enrolled, unread, bell, leaving, announce, worker, happened, reminded, belled, summaries>>
      BY <2>1 DEF Engage, Close, Dispatch, historyVars
    <3> QED BY ONLY TypeInv, <3>1, <3>2 DEF TypeInv, TypeOK, UnreadBounded, PlacesHeld, SessionOK
  <2>2. CASE LeaveUnfinished(s)
    BY <2>2 DEF LeaveUnfinished, historyVars, Kind
  <2>3. CASE NotifyUnfinished(s)
    BY <2>3 DEF NotifyUnfinished, historyVars, Kind
  <2>4. CASE MarkRead(s)
    <3>1. UNCHANGED <<now, activity, enrolled, session, bell, leaving, announce, worker, happened, reminded, belled, summaries>>
      BY <2>4 DEF MarkRead, historyVars
    <3> DEFINE LessUnread == /\ unread' \in [Student -> [Kind -> 0 .. Tabs + 1]]
                             /\ \A t \in Student, k \in Kind : unread'[t][k] <= unread[t][k]
    <3>2. LessUnread
      <4>1. ASSUME NEW k \in Kind, unread[s][k] > 0, unread' = [unread EXCEPT ![s][k] = @ - 1] PROVE LessUnread
        BY <4>1 DEF Kind
      <4>2. ASSUME unread' = [unread EXCEPT ![s] = [k \in Kind |-> 0]] PROVE LessUnread
        BY <4>2 DEF Kind
      <4> QED BY <4>1, <4>2, <2>4 DEF MarkRead
    <3> QED BY <3>1, <3>2 DEF Kind
  <2> QED BY <1>1, <2>1, <2>2, <2>3, <2>4 DEF StudentStep
<1>2. CASE TeacherStep
  <2>1. ASSUME NEW s \in Student, AddStudent(s) PROVE TypeInv'
    BY <2>1 DEF AddStudent, Happens, Event, historyVars
  <2>2. CASE AssignCourse
    BY <2>2 DEF AssignCourse, Happens, Event, historyVars
  <2>3. CASE UpdateActivity
    <3>1. ActivityOK'
      <4>1. PICK status \in {"DRAFT", "PUBLISHED"}, d \in Time :
              activity' = [activity EXCEPT !.status = status, !.deadline = d]
        <5>1. (now + 1) .. (Horizon + 1) \subseteq Time
          OBVIOUS
        <5>2. activity.deadline \in Time
          OBVIOUS
        <5> QED BY ONLY <5>1, <5>2, <2>3 DEF UpdateActivity
      <4> QED BY <4>1
    <3>2. UNCHANGED <<now, enrolled, session, unread, bell, leaving, announce, worker, reminded, belled, summaries>>
      BY <2>3 DEF UpdateActivity, historyVars
    <3>3. happened' \subseteq Event
      BY <2>3 DEF UpdateActivity, Happens, Event
    <3> QED BY ONLY TypeInv, <3>1, <3>2, <3>3 DEF TypeInv, TypeOK, UnreadBounded, PlacesHeld, ActivityOK, SessionOK
  <2>4. CASE DeleteActivity
    <3>1. ActivityOK'
      BY <2>4 DEF DeleteActivity
    <3>2. SessionOK'
      BY <2>4 DEF DeleteActivity, NoSession
    <3>3. UNCHANGED <<now, enrolled, leaving, announce, worker, reminded, belled, summaries>> /\ bell' = 0
      BY <2>4 DEF DeleteActivity, historyVars
    <3>4. unread' = [t \in Student |-> [k \in Kind |-> 0]] /\ happened' \subseteq Event
      BY <2>4 DEF DeleteActivity, Happens, Event
    <3>5. UnreadBounded' /\ PlacesHeld'
      BY <3>3, <3>4 DEF Kind
    <3>6. unread' \in [Student -> [Kind -> 0 .. Tabs + 1]]
      BY <3>4
    <3> QED BY ONLY TypeInv, <3>1, <3>2, <3>3, <3>4, <3>5, <3>6 DEF TypeInv, TypeOK, ActivityOK, SessionOK
  <2>5. CASE ResetActivity
    <3>1. ActivityOK'
      BY <2>5 DEF ResetActivity
    <3>2. SessionOK'
      BY <2>5 DEF ResetActivity, NoSession
    <3>3. UNCHANGED <<now, enrolled, unread, bell, leaving, announce, worker, reminded, belled, summaries>>
      BY <2>5 DEF ResetActivity, historyVars
    <3>4. happened' \subseteq Event
      BY <2>5 DEF ResetActivity, Happens, Event
    <3> QED BY ONLY TypeInv, <3>1, <3>2, <3>3, <3>4 DEF TypeInv, TypeOK, UnreadBounded, PlacesHeld, ActivityOK, SessionOK
  <2>6. CASE AnnounceActivity
    BY <2>6 DEF AnnounceActivity, Happens, Event, rowVars, historyVars
  <2> QED BY <1>2, <2>1, <2>2, <2>3, <2>4, <2>5, <2>6 DEF TeacherStep
<1>3. CASE WorkerStep
  <2>1. CASE SweepScan
    BY <2>1 DEF SweepScan, Asleep, Untouched, historyVars
  <2>2. ASSUME NEW s \in Student, ForceFinalize(s) PROVE TypeInv'
    <3>1. SessionOK'
      BY <2>2 DEF ForceFinalize
    <3>2. UNCHANGED <<now, activity, enrolled, unread, bell, leaving, announce, happened, reminded, belled, summaries>>
      BY <2>2 DEF ForceFinalize, Untouched, historyVars
    <3>3. worker' = [worker EXCEPT !.todo = @ \ {s}]
      BY <2>2 DEF ForceFinalize
    <3> QED BY ONLY TypeInv, <3>1, <3>2, <3>3 DEF TypeInv, TypeOK, UnreadBounded, PlacesHeld, ActivityOK, SessionOK
  <2>3. CASE ReminderScan
    <3>1. UNCHANGED <<now, activity, enrolled, leaving, announce, session, unread, bell, happened, reminded, belled, summaries>>
      BY <2>3 DEF ReminderScan, Untouched, historyVars
    <3>2. worker' = [Asleep EXCEPT !.pc = "remind", !.scanned = now] \/ worker' = [Asleep EXCEPT !.pc = "summarize"]
      BY <2>3 DEF ReminderScan
    <3>3. WorkerOK'
      <4>1. now \in Time
        OBVIOUS
      <4> QED BY ONLY <4>1, <3>2 DEF Asleep, WorkerOK
    <3> QED BY ONLY TypeInv, <3>1, <3>3 DEF TypeInv, TypeOK, UnreadBounded, PlacesHeld, WorkerOK
  <2>4. CASE ReminderRead
    <3>1. Recipients \in SUBSET Student
      BY DEF Recipients, Cohort
    <3> QED BY <3>1, <2>4 DEF ReminderRead, Asleep, Untouched, historyVars
  <2>5. CASE ReminderCommit
    BY <2>5, BellsStep DEF ReminderCommit, Goto, Untouched
  <2>6. CASE ReminderMail
    <3>1. UNCHANGED <<now, enrolled, leaving, announce, activity, session, unread, bell, happened, belled, summaries>>
      BY <2>6 DEF ReminderMail, Untouched
    <3>2. WorkerOK'
      <4>1. CASE worker' = [Asleep EXCEPT !.pc = "summarize"]
        BY <4>1 DEF Asleep
      <4>2. ASSUME NEW s \in worker.todo, worker' = [worker EXCEPT !.todo = @ \ {s}] PROVE WorkerOK'
        BY <4>2
      <4> QED BY <2>6, <4>1, <4>2 DEF ReminderMail
    <3>3. reminded' \in [Student -> Nat]
      BY <2>6 DEF ReminderMail
    <3> QED BY ONLY TypeInv, <3>1, <3>2, <3>3 DEF TypeInv, TypeOK, UnreadBounded, PlacesHeld, WorkerOK
  <2>7. CASE SummaryScan
    BY <2>7 DEF SummaryScan, Asleep, Untouched, historyVars
  <2>8. CASE SummaryRead
    <3>1. {s \in Cohort : ~OnTime(s)} \in SUBSET Student
      BY DEF Cohort
    <3> QED BY <3>1, <2>8 DEF SummaryRead, Asleep, Untouched, historyVars
  <2>9. CASE SummaryCommit
    <3>1. UNCHANGED <<now, enrolled, leaving, announce, session, unread, happened, reminded, belled, summaries>>
      BY <2>9 DEF SummaryCommit, Untouched
    <3>2. bell' \in Nat /\ bell' <= 1
      BY <2>9 DEF SummaryCommit, Touched
    <3>3. activity' = [activity EXCEPT !.summarized = TRUE] \/ activity' = activity
      BY <2>9 DEF SummaryCommit
    <3>4. worker' = [worker EXCEPT !.pc = "post"] \/ worker' = Asleep
      BY <2>9 DEF SummaryCommit, Goto
    <3>5. WorkerOK' /\ ActivityOK'
      <4>1. ActivityOK /\ WorkerOK
        OBVIOUS
      <4>2. WorkerOK'
        BY ONLY <4>1, <3>4 DEF Asleep, WorkerOK
      <4>3. ActivityOK'
        BY ONLY <4>1, <3>3 DEF ActivityOK
      <4> QED BY ONLY <4>2, <4>3
    <3> QED BY ONLY TypeInv, <3>1, <3>2, <3>5 DEF TypeInv, TypeOK, UnreadBounded, PlacesHeld, WorkerOK, ActivityOK
  <2>10. CASE SummaryMail
    <3>1. UNCHANGED <<now, activity, enrolled, session, unread, bell, leaving, announce, happened, reminded, belled>>
      BY <2>10 DEF SummaryMail, Untouched
    <3>2. worker' = Asleep /\ summaries' = summaries + 1
      BY <2>10 DEF SummaryMail
    <3> QED BY <3>1, <3>2 DEF Asleep
  <2>11. CASE ScanFails
    BY <2>11 DEF ScanFails, Asleep, Happens, Event, Untouched, historyVars
  <2> QED
    BY <1>3, <2>1, <2>2, <2>3, <2>4, <2>5, <2>6, <2>7, <2>8, <2>9, <2>10, <2>11 DEF WorkerStep
<1>4. CASE Restart
  <2>1. UNCHANGED <<now, activity, enrolled, session, unread, bell, reminded, belled, summaries>>
    BY <1>4 DEF Restart, historyVars
  <2>2. worker' = Asleep /\ announce' = "over" /\ leaving' = [s \in Student |-> 0] /\ happened' \subseteq Event
    BY <1>4 DEF Restart, Happens, Event
  <2>3. PlacesHeld'
    BY <2>1, <2>2 DEF Kind
  <2> QED BY <2>1, <2>2, <2>3 DEF Asleep
<1>5. CASE Tick
  BY <1>5 DEF Tick, rowVars, historyVars
<1>6. CASE UNCHANGED vars
  BY <1>6 DEF vars, rowVars, historyVars
<1> QED
  BY <1>1, <1>2, <1>3, <1>4, <1>5, <1>6 DEF Next

LEMMA TypeInit == Init => TypeInv
<1> SUFFICES ASSUME Init PROVE TypeInv
  OBVIOUS
<1> USE Bounds DEF Init
<1>1. activity \in [status : Status, deadline : Time, assigned : BOOLEAN, reminded : BOOLEAN, summarized : BOOLEAN]
  BY DEF Status
<1>2. unread \in [Student -> [Kind -> 0 .. Tabs + 1]] /\ leaving \in [Student -> 0 .. Tabs]
  OBVIOUS
<1>3. UnreadBounded /\ PlacesHeld
  BY DEF UnreadBounded, PlacesHeld, Kind
<1>4. worker \in [pc : {"asleep", "sweep", "remind", "mark", "mail", "summarize", "report", "swap", "post"},
                 todo : SUBSET Student, due : Time \cup {Never}, scanned : Time \cup {Never}]
  BY DEF Asleep
<1>5. session \in [Student -> [status : {"none", "IN_PROGRESS", "dispatched"}, finalized : Time \cup {Never}]]
  BY DEF NoSession
<1>6. enrolled \subseteq Student /\ announce \in {"due", "over"} /\ happened \subseteq Event
  OBVIOUS
<1> QED BY <1>1, <1>2, <1>3, <1>4, <1>5, <1>6 DEF TypeInv, TypeOK

(***************************************************************************)
(* Every reachable state is well typed, whatever teachers, students and    *)
(* the worker do between each other's steps (notifications.py,             *)
(* deadline_reminders.py).                                                 *)
(***************************************************************************)
THEOREM NoticesTypeCorrect == Spec => []TypeOK
<1>1. TypeInv => TypeOK
  BY DEF TypeInv
<1> QED BY <1>1, TypeInit, TypeStep, PTL DEF Spec

(***************************************************************************)
(* The rows the worker writes are unique while unread, the one a closing   *)
(* tab writes is there at most once per tab (create_or_touch_notification, *)
(* "At most one unread row alive at a time").                              *)
(***************************************************************************)
THEOREM UnreadIsBounded == Spec => []UnreadBounded
<1>1. TypeInv => UnreadBounded
  BY DEF TypeInv
<1> QED BY <1>1, TypeInit, TypeStep, PTL DEF Spec

-----------------------------------------------------------------------------
(***************************************************************************)
(* Mails.  A marker that is not set is a mail that may still go to each,   *)
(* and so is a mail the worker is about to send; a reset, which happens    *)
(* once, clears the markers.  A reminder is committed only over a marker   *)
(* that is not set.                                                        *)
(***************************************************************************)
One(b) == IF b THEN 1 ELSE 0
MailsKept ==
  /\ \A s \in Student :
       reminded[s] + One(At("mail") /\ s \in worker.todo) + One(~activity.reminded) <= 1 + Resets
  /\ summaries + One(At("post")) + One(~activity.summarized) <= 1 + Resets
  /\ At("mark") => ~activity.reminded
MailInv == TypeInv /\ MailsKept

(* Steps that leave worker, mails and markers alone, and those of the worker that neither mail nor are about to *)
LEMMA Unmailed ==
  ASSUME MailInv, TypeInv', UNCHANGED <<reminded, summaries>>, happened \subseteq happened',
         activity'.reminded = activity.reminded, activity'.summarized = activity.summarized,
         worker' = worker \/ (worker'.pc \notin {"mail", "post"} /\ (worker'.pc = "mark" => ~activity.reminded))
  PROVE  MailsKept'
<1>1. Resets \in Nat /\ Resets' \in Nat /\ Resets <= Resets'
  BY DEF Resets
<1>2. reminded \in [Student -> Nat] /\ summaries \in Nat
  BY DEF MailInv, TypeInv, TypeOK
<1>3. ASSUME NEW s \in Student
      PROVE  (reminded[s] + One(At("mail") /\ s \in worker.todo) + One(~activity.reminded) <= 1 + Resets)'
  <2>1. reminded[s] \in Nat /\ reminded[s] + One(At("mail") /\ s \in worker.todo) + One(~activity.reminded) <= 1 + Resets
    BY <1>2 DEF MailInv, MailsKept
  <2>2. (At("mail") /\ s \in worker.todo)' => At("mail") /\ s \in worker.todo
    BY DEF At
  <2>3. reminded'[s] = reminded[s] /\ activity'.reminded = activity.reminded
    OBVIOUS
  <2> QED BY ONLY <1>1, <2>1, <2>2, <2>3 DEF One
<1>4. (summaries + One(At("post")) + One(~activity.summarized) <= 1 + Resets)'
  <2>1. summaries + One(At("post")) + One(~activity.summarized) <= 1 + Resets
    BY DEF MailInv, MailsKept
  <2>2. At("post")' => At("post")
    BY DEF At
  <2>3. summaries' = summaries /\ activity'.summarized = activity.summarized
    OBVIOUS
  <2> QED BY ONLY <1>1, <1>2, <2>1, <2>2, <2>3 DEF One
<1>5. At("mark")' => ~activity'.reminded
  BY DEF At, MailInv, MailsKept
<1> QED BY <1>3, <1>4, <1>5 DEF MailsKept

LEMMA MailStep == MailInv /\ [Next]_vars => MailInv'
<1> SUFFICES ASSUME MailInv, [Next]_vars PROVE MailsKept'
  BY TypeStep DEF MailInv
<1>0. TypeInv' /\ TypeOK /\ reminded \in [Student -> Nat] /\ summaries \in Nat /\ ActivityOK /\ WorkerOK
  BY TypeStep DEF MailInv, TypeInv, TypeOK, ActivityOK, WorkerOK
<1>1. ASSUME NEW s \in Student, StudentStep(s) PROVE MailsKept'
  <2>1. UNCHANGED <<reminded, summaries, happened, activity, worker>>
    BY <1>1 DEF StudentStep, Engage, Close, Dispatch, LeaveUnfinished, NotifyUnfinished, MarkRead, historyVars
  <2> QED BY <2>1, <1>0, Unmailed
<1>2. CASE TeacherStep /\ ~ResetActivity
  <2>1. UNCHANGED <<reminded, summaries, worker>> /\ happened \subseteq happened'
    BY <1>2 DEF TeacherStep, AddStudent, AssignCourse, UpdateActivity, DeleteActivity, AnnounceActivity, Happens, historyVars
  <2>2. activity'.reminded = activity.reminded /\ activity'.summarized = activity.summarized
    BY <1>2, <1>0 DEF TeacherStep, AddStudent, AssignCourse, UpdateActivity, DeleteActivity, AnnounceActivity, rowVars, ActivityOK
  <2> QED BY <2>1, <2>2, <1>0, Unmailed
<1>3. CASE ResetActivity
  <2>1. UNCHANGED <<reminded, summaries, worker>>
    BY <1>3 DEF ResetActivity, historyVars
  <2>2. Resets = 0 /\ Resets' = 1
    BY <1>3 DEF ResetActivity, Happens, Resets
  <2>3. activity'.reminded = FALSE /\ activity'.summarized = FALSE
    BY <1>3, <1>0 DEF ResetActivity, ActivityOK
  <2> QED BY <2>1, <2>2, <2>3, <1>0 DEF MailInv, MailsKept, One, At
<1>4. CASE WorkerStep
  <2>1. CASE SweepScan \/ ReminderScan \/ SummaryScan \/ SummaryRead \/ ScanFails
    <3>1. UNCHANGED <<reminded, summaries, activity>> /\ happened \subseteq happened'
      BY <2>1 DEF SweepScan, ReminderScan, SummaryScan, SummaryRead, ScanFails, Happens, historyVars
    <3>2. worker'.pc \notin {"mail", "post", "mark"}
      <4>1. CASE SweepScan
        BY <4>1 DEF SweepScan, Asleep
      <4>2. CASE ReminderScan
        BY <4>2 DEF ReminderScan, Asleep
      <4>3. CASE SummaryScan
        BY <4>3, <1>0 DEF SummaryScan, Asleep, WorkerOK
      <4>4. CASE SummaryRead
        BY <4>4, <1>0 DEF SummaryRead, Asleep, WorkerOK
      <4>5. CASE ScanFails
        <5>1. ASSUME NEW s \in worker.todo, At("sweep"), worker' = [worker EXCEPT !.todo = @ \ {s}]
              PROVE  worker'.pc = "sweep"
          BY <5>1, <1>0 DEF WorkerOK, At
        <5> QED BY <4>5, <5>1 DEF ScanFails, Asleep
      <4> QED BY <2>1, <4>1, <4>2, <4>3, <4>4, <4>5
    <3> QED BY <3>1, <3>2, <1>0, Unmailed
  <2>2. ASSUME NEW s \in Student, ForceFinalize(s) PROVE MailsKept'
    <3>1. UNCHANGED <<reminded, summaries, activity, happened>> /\ worker'.pc = "sweep"
      BY <2>2, <1>0 DEF ForceFinalize, historyVars, WorkerOK, At
    <3> QED BY <3>1, <1>0, Unmailed
  <2>3. CASE ReminderRead
    <3>1. UNCHANGED <<reminded, summaries, activity, happened>>
      BY <2>3 DEF ReminderRead, historyVars
    <3>2. worker'.pc \notin {"mail", "post"} /\ (worker'.pc = "mark" => ~activity.reminded)
      BY <2>3, <1>0 DEF ReminderRead, Asleep, WorkerOK
    <3> QED BY <3>1, <3>2, <1>0, Unmailed
  <2>4. CASE ReminderCommit
    <3>1. UNCHANGED <<reminded, summaries, happened>> /\ worker' = [worker EXCEPT !.pc = "mail"]
      BY <2>4 DEF ReminderCommit, Goto
    <3>2. activity'.reminded = TRUE /\ activity'.summarized = activity.summarized /\ ~activity.reminded
      BY <2>4, <1>0 DEF ReminderCommit, ActivityOK, MailInv, MailsKept
    <3>3. At("mark") /\ worker'.pc = "mail" /\ Resets' = Resets /\ Resets \in Nat
      BY <2>4, <3>1, <1>0 DEF ReminderCommit, WorkerOK, Resets
    <3> QED BY <3>1, <3>2, <3>3, <1>0 DEF MailInv, MailsKept, One, At
  <2>5. CASE ReminderMail
    <3>1. UNCHANGED <<activity, summaries, happened>> /\ At("mail") /\ Resets' = Resets /\ Resets \in Nat
      BY <2>5 DEF ReminderMail, Resets
    <3>2. CASE worker.todo = {}
      <4>1. UNCHANGED reminded /\ worker'.pc = "summarize"
        BY <2>5, <3>2 DEF ReminderMail, Asleep
      <4> QED BY <3>1, <4>1, <1>0, Unmailed
    <3>3. ASSUME NEW s \in worker.todo, worker' = [worker EXCEPT !.todo = @ \ {s}],
                 reminded' = IF s \in Unreachable THEN reminded ELSE [reminded EXCEPT ![s] = @ + 1]
          PROVE  MailsKept'
      <4>1. worker'.pc = "mail" /\ worker'.todo = worker.todo \ {s}
        BY <3>1, <3>3, <1>0 DEF WorkerOK, At
      <4>2. reminded' \in [Student -> Nat] /\ reminded'[s] <= reminded[s] + 1
            /\ \A t \in Student \ {s} : reminded'[t] = reminded[t]
        BY <3>3, <1>0 DEF WorkerOK
      <4> QED BY <3>1, <4>1, <4>2, <1>0 DEF MailInv, MailsKept, One, At
    <3> QED BY <2>5, <3>2, <3>3 DEF ReminderMail
  <2>6. CASE SummaryCommit
    <3>1. UNCHANGED <<reminded, summaries, happened>> /\ Resets' = Resets /\ Resets \in Nat /\ At("swap")
      BY <2>6 DEF SummaryCommit, Resets
    <3>2. CASE Exists /\ ~activity.summarized
      <4>1. activity'.summarized = TRUE /\ activity'.reminded = activity.reminded /\ worker'.pc = "post"
        BY <2>6, <3>2, <1>0 DEF SummaryCommit, Goto, ActivityOK, WorkerOK
      <4> QED BY <3>1, <3>2, <4>1, <1>0 DEF MailInv, MailsKept, One, At
    <3>3. CASE ~(Exists /\ ~activity.summarized)
      <4>1. UNCHANGED activity /\ worker'.pc = "asleep"
        BY <2>6, <3>3 DEF SummaryCommit, Asleep
      <4> QED BY <3>1, <4>1, <1>0, Unmailed
    <3> QED BY <3>2, <3>3
  <2>7. CASE SummaryMail
    <3>1. UNCHANGED <<reminded, activity, happened>> /\ Resets' = Resets /\ Resets \in Nat
      BY <2>7 DEF SummaryMail, Resets
    <3>2. summaries' = summaries + 1 /\ At("post") /\ worker'.pc = "asleep"
      BY <2>7 DEF SummaryMail, Asleep
    <3> QED BY <3>1, <3>2, <1>0 DEF MailInv, MailsKept, One, At
  <2> QED BY <1>4, <2>1, <2>2, <2>3, <2>4, <2>5, <2>6, <2>7 DEF WorkerStep
<1>5. CASE Restart
  <2>1. UNCHANGED <<reminded, summaries, activity>> /\ happened \subseteq happened' /\ worker'.pc = "asleep"
    BY <1>5 DEF Restart, Happens, Asleep, historyVars
  <2> QED BY <2>1, <1>0, Unmailed
<1>6. CASE Tick \/ UNCHANGED vars
  <2>1. UNCHANGED <<reminded, summaries, happened, activity, worker>>
    BY <1>6 DEF Tick, vars, rowVars, historyVars
  <2> QED BY <2>1, <1>0, Unmailed
<1> QED
  BY <1>1, <1>2, <1>3, <1>4, <1>5, <1>6, StudentsAssumption DEF Next, TeacherStep

(***************************************************************************)
(* However scans fail, the process restarts and teachers edit in between,  *)
(* each student is mailed one reminder at most and the teacher one         *)
(* summary, and one more after a reset (_send_reminders_for_activity,      *)
(* _send_summary_for_activity).                                            *)
(***************************************************************************)
THEOREM MailsAreSentOnce == Spec => []MailedOnce
<1>1. Init => MailInv
  <2> SUFFICES ASSUME Init PROVE MailsKept
    BY TypeInit DEF MailInv
  <2>1. worker.pc = "asleep" /\ Resets = 0 /\ summaries = 0 /\ \A s \in Student : reminded[s] = 0
    BY DEF Init, Asleep, Resets
  <2> QED BY <2>1 DEF MailsKept, One, At
<1>2. MailInv => MailedOnce
  <2> SUFFICES ASSUME MailInv PROVE MailedOnce
    OBVIOUS
  <2>1. reminded \in [Student -> Nat] /\ summaries \in Nat /\ Resets \in Nat
    BY DEF MailInv, TypeInv, TypeOK, Resets
  <2> QED BY <2>1 DEF MailInv, MailsKept, MailedOnce, One
<1> QED BY <1>1, <1>2, MailStep, PTL DEF Spec

-----------------------------------------------------------------------------
(***************************************************************************)
(* Recipients.  The worker notes who has not finalized, and commits their  *)
(* bells, some time before it mails: who closes meanwhile does so after    *)
(* the scan, because the clock does not go back.                           *)
(***************************************************************************)
AimedInv ==
  /\ TypeInv
  /\ worker.scanned <= now
  /\ \A s \in Student : reminded[s] > 0 => s \in belled
  /\ At("mail") => worker.todo \subseteq belled
  /\ worker.pc \in {"mark", "mail"} => \A s \in worker.todo : Finalized(s) => session[s].finalized >= worker.scanned

(* Whoever is finalized by the step is so at the present time, or was before *)
Steady(s) == session'[s].finalized \in {session[s].finalized, now, Never}

LEMMA SameWorker ==
  ASSUME AimedInv, TypeInv', UNCHANGED <<worker, reminded, belled>>, now <= now', \A s \in Student : Steady(s)
  PROVE  AimedInv'
<1>1. now \in Int /\ now' \in Int /\ worker.scanned \in Int /\ \A s \in Student : session[s].finalized \in Int /\ session'[s].finalized \in Int
  BY DEF AimedInv, TypeInv, TypeOK, Time, Never
<1>2. worker.todo \subseteq Student
  BY DEF AimedInv, TypeInv, TypeOK
<1>3. ASSUME NEW s \in worker.todo, worker.pc \in {"mark", "mail"}, Finalized(s)' PROVE session'[s].finalized >= worker.scanned
  <2>1. Steady(s) /\ session'[s].finalized # Never
    BY <1>2, <1>3 DEF Finalized
  <2>2. session[s].finalized # Never => session[s].finalized >= worker.scanned
    BY <1>2, <1>3 DEF AimedInv, Finalized
  <2>3. worker.scanned <= now
    BY DEF AimedInv
  <2> QED BY <1>1, <1>2, <2>1, <2>2, <2>3 DEF Steady
<1> QED BY <1>1, <1>2, <1>3 DEF AimedInv, At

(* The worker moves on to where it has no recipients *)
LEMMA NoRecipients ==
  ASSUME AimedInv, TypeInv', UNCHANGED <<now, reminded, belled>>,
         worker'.pc \notin {"mark", "mail"}, worker'.scanned \in {worker.scanned, now, Never}
  PROVE  AimedInv'
<1>1. now \in Int /\ now >= 0 /\ worker.scanned <= now
  BY DEF AimedInv, TypeInv, TypeOK
<1> QED BY <1>1 DEF AimedInv, At, Never

LEMMA AimedStep == AimedInv /\ [Next]_vars => AimedInv'
<1> SUFFICES ASSUME AimedInv, [Next]_vars PROVE AimedInv'
  OBVIOUS
<1>0. TypeInv' /\ TypeOK /\ reminded \in [Student -> Nat] /\ SessionOK /\ WorkerOK /\ now \in 0 .. Horizon
  BY TypeStep DEF AimedInv, TypeInv, TypeOK, SessionOK, WorkerOK
<1>1. ASSUME NEW s \in Student, StudentStep(s) PROVE AimedInv'
  <2>1. UNCHANGED <<now, worker, reminded, belled>>
    BY <1>1 DEF StudentStep, Engage, Close, Dispatch, LeaveUnfinished, NotifyUnfinished, MarkRead, historyVars
  <2>2. \A t \in Student : Steady(t)
    <3>1. CASE session' = session
      BY <3>1 DEF Steady
    <3>2. CASE session' = [session EXCEPT ![s].finalized = now]
      BY <3>2, <1>0 DEF Steady, SessionOK
    <3>3. ASSUME NEW status, session' = [session EXCEPT ![s].status = status] PROVE \A t \in Student : Steady(t)
      BY <3>3, <1>0 DEF Steady, SessionOK
    <3> QED
      BY <1>1, <3>1, <3>2, <3>3 DEF StudentStep, Engage, Close, Dispatch, LeaveUnfinished, NotifyUnfinished, MarkRead
  <2>3. now <= now'
    BY <2>1, <1>0
  <2> QED BY <2>1, <2>2, <2>3, <1>0, SameWorker
<1>2. CASE TeacherStep
  <2>1. UNCHANGED <<now, worker, reminded, belled>>
    BY <1>2 DEF TeacherStep, AddStudent, AssignCourse, UpdateActivity, DeleteActivity, ResetActivity, AnnounceActivity, historyVars
  <2>2. \A t \in Student : Steady(t)
    <3>1. CASE session' = session
      BY <3>1 DEF Steady
    <3>2. ASSUME NEW who, session' = [s \in Student |-> IF s \in who THEN NoSession ELSE session[s]]
          PROVE  \A t \in Student : Steady(t)
      BY <3>2 DEF Steady, NoSession
    <3>3. CASE session' = [s \in Student |-> NoSession]
      BY <3>3 DEF Steady, NoSession
    <3> QED
      BY <1>2, <3>1, <3>2, <3>3
      DEF TeacherStep, AddStudent, AssignCourse, UpdateActivity, DeleteActivity, ResetActivity, AnnounceActivity, rowVars
  <2>3. now <= now'
    BY <2>1, <1>0
  <2> QED BY <2>1, <2>2, <2>3, <1>0, SameWorker
<1>3. CASE WorkerStep
  <2>1. CASE SweepScan \/ ReminderScan \/ SummaryScan \/ SummaryRead \/ SummaryCommit \/ SummaryMail \/ ScanFails
    <3>1. UNCHANGED <<now, reminded, belled>>
      BY <2>1 DEF SweepScan, ReminderScan, SummaryScan, SummaryRead, SummaryCommit, SummaryMail, ScanFails, Untouched, historyVars
    <3>2. worker'.pc \notin {"mark", "mail"} /\ worker'.scanned \in {worker.scanned, now, Never}
      <4>1. CASE SweepScan
        BY <4>1 DEF SweepScan, Asleep
      <4>2. CASE ReminderScan
        BY <4>2 DEF ReminderScan, Asleep
      <4>3. CASE SummaryScan
        BY <4>3, <1>0 DEF SummaryScan, Asleep, WorkerOK
      <4>4. CASE SummaryRead
        BY <4>4, <1>0 DEF SummaryRead, Asleep, WorkerOK
      <4>5. CASE SummaryCommit \/ SummaryMail
        BY <4>5, <1>0 DEF SummaryCommit, SummaryMail, Asleep, WorkerOK, Goto
      <4>6. CASE ScanFails
        <5>1. ASSUME NEW s \in worker.todo, At("sweep"), worker' = [worker EXCEPT !.todo = @ \ {s}]
              PROVE  worker'.pc = "sweep" /\ worker'.scanned = worker.scanned
          BY <5>1, <1>0 DEF WorkerOK, At
        <5> QED BY <4>6, <5>1 DEF ScanFails, Asleep
      <4> QED BY <2>1, <4>1, <4>2, <4>3, <4>4, <4>5, <4>6
    <3> QED BY <3>1, <3>2, <1>0, NoRecipients
  <2>2. ASSUME NEW s \in Student, ForceFinalize(s) PROVE AimedInv'
    <3>1. UNCHANGED <<now, reminded, belled>>
      BY <2>2 DEF ForceFinalize, Untouched, historyVars
    <3>2. worker'.pc = "sweep" /\ worker'.scanned = worker.scanned
      BY <2>2, <1>0 DEF ForceFinalize, WorkerOK, At
    <3> QED BY <3>1, <3>2, <1>0, NoRecipients
  <2>3. CASE ReminderRead
    <3>1. UNCHANGED <<now, session, reminded, belled>>
      BY <2>3 DEF ReminderRead, Untouched, historyVars
    <3>2. CASE worker' = [Asleep EXCEPT !.pc = "summarize"]
      <4>1. worker'.pc = "summarize" /\ worker'.scanned = Never
        BY <3>2 DEF Asleep
      <4> QED BY <3>1, <4>1, <1>0, NoRecipients
    <3>3. CASE worker' = [worker EXCEPT !.pc = "mark", !.todo = Recipients]
      <4>1. worker'.pc = "mark" /\ worker'.todo = Recipients /\ worker'.scanned = worker.scanned
        BY <3>3, <1>0 DEF WorkerOK
      <4>2. \A s \in worker'.todo : ~Finalized(s)'
        BY <4>1, <3>1 DEF Recipients, Finalized
      <4> QED BY <3>1, <4>1, <4>2, <1>0 DEF AimedInv, At
    <3> QED BY <2>3, <3>2, <3>3 DEF ReminderRead
  <2>4. CASE ReminderCommit
    <3>1. UNCHANGED <<now, session, reminded>> /\ belled' = belled \cup worker.todo /\ At("mark")
      BY <2>4 DEF ReminderCommit, Untouched
    <3>2. worker'.pc = "mail" /\ worker'.todo = worker.todo /\ worker'.scanned = worker.scanned
      BY <2>4, <1>0 DEF ReminderCommit, Goto, WorkerOK
    <3> QED BY <3>1, <3>2, <1>0 DEF AimedInv, At, Finalized
  <2>5. CASE ReminderMail
    <3>1. UNCHANGED <<now, session, belled>> /\ At("mail")
      BY <2>5 DEF ReminderMail, Untouched
    <3>2. CASE worker.todo = {}
      <4>1. UNCHANGED reminded /\ worker'.pc = "summarize" /\ worker'.scanned = Never
        BY <2>5, <3>2 DEF ReminderMail, Asleep
      <4> QED BY <3>1, <4>1, <1>0, NoRecipients
    <3>3. ASSUME NEW s \in worker.todo, worker' = [worker EXCEPT !.todo = @ \ {s}],
                 reminded' = IF s \in Unreachable THEN reminded ELSE [reminded EXCEPT ![s] = @ + 1]
          PROVE  AimedInv'
      <4>1. worker'.pc = "mail" /\ worker'.todo = worker.todo \ {s} /\ worker'.scanned = worker.scanned
        BY <3>1, <3>3, <1>0 DEF WorkerOK, At
      <4>2. s \in belled /\ \A t \in Student \ {s} : reminded'[t] = reminded[t]
        BY <3>1, <3>3, <1>0 DEF AimedInv
      <4> QED BY <3>1, <4>1, <4>2, <1>0 DEF AimedInv, At, Finalized
    <3> QED BY <2>5, <3>2, <3>3 DEF ReminderMail
  <2> QED BY <1>3, <2>1, <2>2, <2>3, <2>4, <2>5 DEF WorkerStep
<1>4. CASE Restart
  <2>1. UNCHANGED <<now, reminded, belled>> /\ worker'.pc = "asleep" /\ worker'.scanned = Never
    BY <1>4 DEF Restart, Asleep, historyVars
  <2> QED BY <2>1, <1>0, NoRecipients
<1>5. CASE Tick \/ UNCHANGED vars
  <2>1. UNCHANGED <<session, worker, reminded, belled>> /\ now <= now'
    BY <1>5, <1>0 DEF Tick, vars, rowVars, historyVars
  <2>2. \A s \in Student : Steady(s)
    BY <2>1 DEF Steady
  <2> QED BY <2>1, <2>2, <1>0, SameWorker
<1> QED
  BY <1>1, <1>2, <1>3, <1>4, <1>5, StudentsAssumption DEF Next

(***************************************************************************)
(* Whoever is mailed has the bell, so that a restart among the mails loses *)
(* no notice, and nobody is mailed who had finalized before the scan       *)
(* (_scan_student_reminders, _send_reminders_for_activity).                *)
(***************************************************************************)
THEOREM RemindersAreAimed == Spec => []RemindersAimed
<1>1. Init => AimedInv
  <2> SUFFICES ASSUME Init PROVE AimedInv
    OBVIOUS
  <2>1. worker.pc = "asleep" /\ worker.scanned = -1 /\ now = 0 /\ \A s \in Student : reminded[s] = 0
    BY DEF Init, Asleep, Never
  <2> QED BY <2>1, TypeInit DEF AimedInv, At
<1>2. AimedInv => RemindersAimed
  BY DEF AimedInv, RemindersAimed, At
<1> QED BY <1>1, <1>2, AimedStep, PTL DEF Spec

-----------------------------------------------------------------------------
(***************************************************************************)
(* How far a summary that is due is from being marked: the rare events to  *)
(* come, the legs of the worker's tick, and the students of the leg.       *)
(***************************************************************************)
EventsLeft == Cardinality(Event \ happened)

Leg ==
  CASE At("post") -> 9
    [] At("asleep") -> 8
    [] At("sweep") -> 7
    [] At("remind") -> 6
    [] At("mark") -> 5
    [] At("mail") -> 4
    [] At("summarize") -> 3
    [] At("report") -> 2
    [] OTHER -> 1

Students == Cardinality(worker.todo)

Way == <<EventsLeft, <<Leg, Students>>>>

(* Such triples in the order of the dictionary *)
Below == OpToRel(<, Nat)
Nearer == LexPairOrdering(Below, LexPairOrdering(Below, Below, Nat, Nat), Nat, Nat \X Nat)

LEMMA NearerIsWellFounded == IsWellFoundedOn(Nearer, Nat \X (Nat \X Nat))
<1>1. IsWellFoundedOn(Below, Nat)
  BY NatLessThanWellFounded DEF Below
<1>2. IsWellFoundedOn(LexPairOrdering(Below, Below, Nat, Nat), Nat \X Nat)
  BY <1>1, WFLexPairOrdering
<1> QED BY <1>1, <1>2, WFLexPairOrdering DEF Nearer

LEMMA InNearer ==
  ASSUME NEW a \in Nat, NEW b \in Nat, NEW c \in Nat, NEW d \in Nat, NEW e \in Nat, NEW f \in Nat,
         a < d \/ (a = d /\ b < e) \/ (a = d /\ b = e /\ c < f)
  PROVE  << <<a, <<b, c>>>>, <<d, <<e, f>>>> >> \in Nearer
<1>1. \A i, j \in Nat : i < j => <<i, j>> \in Below
  BY DEF Below, OpToRel
<1> DEFINE L == LexPairOrdering(Below, Below, Nat, Nat)
<1>2. ASSUME b < e \/ (b = e /\ c < f) PROVE << <<b, c>>, <<e, f>> >> \in L
  BY <1>1, <1>2 DEF LexPairOrdering
<1> HIDE DEF L
<1>3. << <<a, <<b, c>>>>, <<d, <<e, f>>>> >> \in LexPairOrdering(Below, L, Nat, Nat \X Nat)
  BY <1>1, <1>2 DEF LexPairOrdering
<1> QED BY <1>3 DEF Nearer, L

LEMMA EventsAreFinite == IsFiniteSet(Event)
<1>1. IsFiniteSet({})
  BY FS_EmptySet
<1>2. IsFiniteSet({} \cup {"crash"} \cup {"fail"} \cup {"reset"})
  BY <1>1, FS_AddElement
<1>3. IsFiniteSet({} \cup {"crash"} \cup {"fail"} \cup {"reset"} \cup {"patch"} \cup {"assign"} \cup {"delete"})
  BY <1>2, FS_AddElement
<1>4. Event = {} \cup {"crash"} \cup {"fail"} \cup {"reset"} \cup {"patch"} \cup {"assign"} \cup {"delete"}
  BY DEF Event
<1> QED BY <1>3, <1>4

LEMMA Counted ==
  /\ \A some \in SUBSET Event : Cardinality(Event \ some) \in Nat
  /\ \A some \in SUBSET Event : \A e \in Event :
       e \notin some => Cardinality(Event \ (some \cup {e})) < Cardinality(Event \ some)
  /\ \A some \in SUBSET Student : Cardinality(some) \in Nat
  /\ \A some \in SUBSET Student : \A s \in some : Cardinality(some \ {s}) < Cardinality(some)
<1>1. \A some \in SUBSET Event : IsFiniteSet(Event \ some)
  BY EventsAreFinite, FS_Difference
<1>2. \A some \in SUBSET Student : IsFiniteSet(some)
  BY FiniteAssumption, FS_Subset
<1>3. \A S : IsFiniteSet(S) => Cardinality(S) \in Nat
  BY FS_CardinalityType
<1>4. ASSUME NEW S, IsFiniteSet(S), NEW x \in S PROVE Cardinality(S \ {x}) < Cardinality(S)
  <2>1. Cardinality(S \ {x}) = Cardinality(S) - 1
    BY <1>4, FS_RemoveElement
  <2> QED BY <1>3, <1>4, <2>1
<1>5. ASSUME NEW some \in SUBSET Event, NEW e \in Event, e \notin some
      PROVE  Cardinality(Event \ (some \cup {e})) < Cardinality(Event \ some)
  <2>1. Event \ (some \cup {e}) = (Event \ some) \ {e} /\ e \in Event \ some
    BY <1>5
  <2> QED BY <1>1, <1>4, <2>1
<1> QED BY <1>1, <1>2, <1>3, <1>4, <1>5

LEMMA WayType == TypeOK => EventsLeft \in Nat /\ Leg \in Nat /\ Students \in Nat
<1> SUFFICES ASSUME TypeOK PROVE EventsLeft \in Nat /\ Leg \in Nat /\ Students \in Nat
  OBVIOUS
<1>1. happened \in SUBSET Event /\ worker.todo \in SUBSET Student
  BY DEF TypeOK
<1> QED BY <1>1, Counted DEF EventsLeft, Leg, Students

LEMMA EventsRunOut ==
  ASSUME TypeOK, NEW e \in Event, Happens(e)
  PROVE  EventsLeft' < EventsLeft
<1>1. happened \in SUBSET Event /\ e \notin happened /\ happened' = happened \cup {e}
  BY DEF TypeOK, Happens
<1> QED BY <1>1, Counted DEF EventsLeft

(* The worker goes on to a later leg, or to the next student of the leg *)
LEMMA WorkerGoesOn ==
  ASSUME TypeOK, WorkerStep, SummaryDue, SummaryDue'
  PROVE  \/ EventsLeft' < EventsLeft
         \/ happened' = happened /\ (Leg' < Leg \/ (Leg' = Leg /\ Students' < Students))
<1>0. worker.todo \in SUBSET Student
  BY DEF TypeOK
<1>1. CASE SweepScan
  BY <1>1 DEF SweepScan, Asleep, Leg, At
<1>2. ASSUME NEW s \in worker.todo, worker' = [worker EXCEPT !.todo = @ \ {s}]
      PROVE  Leg' = Leg /\ Students' < Students
  <2>1. worker'.pc = worker.pc /\ worker'.todo = worker.todo \ {s}
    BY <1>2 DEF TypeOK
  <2>2. Students' < Students
    BY <1>0, <2>1, Counted DEF Students
  <2>3. Leg' = Leg
    BY <2>1 DEF Leg, At
  <2> QED BY <2>2, <2>3
<1>3. CASE \E s \in Student : ForceFinalize(s)
  BY <1>2, <1>3 DEF ForceFinalize
<1>4. CASE ReminderScan
  BY <1>4 DEF ReminderScan, Asleep, Leg, At
<1>5. CASE ReminderRead
  BY <1>5 DEF ReminderRead, Asleep, Leg, At, TypeOK
<1>6. CASE ReminderCommit
  BY <1>6 DEF ReminderCommit, Goto, Leg, At, TypeOK, Untouched
<1>7. CASE ReminderMail
  <2>1. CASE worker.todo = {}
    BY <1>7, <2>1 DEF ReminderMail, Asleep, Leg, At
  <2>2. CASE worker.todo # {}
    BY <1>2, <1>7, <2>2 DEF ReminderMail
  <2> QED BY <2>1, <2>2
<1>8. CASE SummaryScan
  BY <1>8 DEF SummaryScan, Leg, At, TypeOK
<1>9. CASE SummaryRead
  BY <1>9 DEF SummaryRead, SummaryDue, Leg, At, TypeOK
<1>10. ~SummaryCommit
  BY DEF SummaryCommit, SummaryDue, Exists, TypeOK
<1>11. CASE SummaryMail
  BY <1>11 DEF SummaryMail, Asleep, Leg, At
<1>12. CASE ScanFails
  <2>1. CASE Happens("fail")
    BY <2>1, EventsRunOut DEF Event
  <2>2. CASE At("mark") /\ UNCHANGED happened
    BY <1>12, <2>2 DEF ScanFails, Asleep, Leg, At
  <2> QED BY <1>12, <2>1, <2>2 DEF ScanFails
<1> QED BY <1>1, <1>3, <1>4, <1>5, <1>6, <1>7, <1>8, <1>9, <1>10, <1>11, <1>12 DEF WorkerStep

(* Nobody else keeps the worker from going on but by a rare event *)
LEMMA OthersKeepWay ==
  ASSUME TypeOK, Next, ~WorkerStep
  PROVE  EventsLeft' < EventsLeft \/ UNCHANGED <<worker, happened>>
<1>1. ASSUME NEW s \in Active, StudentStep(s) PROVE UNCHANGED <<worker, happened>>
  BY <1>1 DEF StudentStep, Engage, Close, Dispatch, LeaveUnfinished, NotifyUnfinished, MarkRead
<1>2. CASE TeacherStep
  BY <1>2, EventsRunOut
     DEF TeacherStep, AddStudent, AssignCourse, UpdateActivity, DeleteActivity, ResetActivity,
         AnnounceActivity, Event
<1>3. CASE Restart
  BY <1>3, EventsRunOut DEF Restart, Event
<1>4. CASE Tick
  BY <1>4 DEF Tick
<1> QED BY <1>1, <1>2, <1>3, <1>4 DEF Next

(***************************************************************************)
(* A due summary is not put off for ever: every step of the worker brings  *)
(* its marker nearer, whichever leg the tick is in, and what throws the    *)
(* worker back (a failing scan, a restart) uses up a rare event.  This is  *)
(* DeadlineSummarized but for the fairness (_reminder_loop,                *)
(* _scan_teacher_summaries).                                               *)
(***************************************************************************)
SummaryApproaches ==
  [][SummaryDue => ~SummaryDue' \/ <<Way', Way>> \in Nearer \/ (~WorkerStep /\ Way' = Way)]_vars

THEOREM SummariesComeUp == IsWellFoundedOn(Nearer, Nat \X (Nat \X Nat)) /\ (Spec => SummaryApproaches)
<1>1. ASSUME TypeOK, TypeOK', Next, SummaryDue, SummaryDue'
      PROVE  <<Way', Way>> \in Nearer \/ (~WorkerStep /\ Way' = Way)
  <2>1. EventsLeft \in Nat /\ Leg \in Nat /\ Students \in Nat
    BY <1>1, WayType
  <2>2. EventsLeft' \in Nat /\ Leg' \in Nat /\ Students' \in Nat
    <3>1. happened' \in SUBSET Event /\ worker'.todo \in SUBSET Student
      BY <1>1 DEF TypeOK
    <3> QED BY <3>1, Counted DEF EventsLeft, Leg, Students
  <2>3. ASSUME \/ EventsLeft' < EventsLeft
               \/ happened' = happened /\ (Leg' < Leg \/ (Leg' = Leg /\ Students' < Students))
        PROVE  <<Way', Way>> \in Nearer
    <3>1. happened' = happened => EventsLeft' = EventsLeft
      BY DEF EventsLeft
    <3> QED BY <2>1, <2>2, <2>3, <3>1, InNearer DEF Way
  <2>4. CASE WorkerStep
    BY <1>1, <2>3, <2>4, WorkerGoesOn
  <2>5. CASE ~WorkerStep
    <3>1. UNCHANGED <<worker, happened>> => Way' = Way
      BY DEF Way, EventsLeft, Leg, Students, At
    <3> QED BY <1>1, <2>3, <2>5, <3>1, OthersKeepWay
  <2> QED BY <2>4, <2>5
<1>2. TypeOK /\ TypeOK' /\ [Next]_vars
        => [SummaryDue => ~SummaryDue' \/ <<Way', Way>> \in Nearer \/ (~WorkerStep /\ Way' = Way)]_vars
  BY <1>1
<1>3. Spec => SummaryApproaches
  BY <1>2, NoticesTypeCorrect, PTL DEF Spec, SummaryApproaches
<1> QED BY <1>3, NearerIsWellFounded
=============================================================================
