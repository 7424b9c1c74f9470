-------------------------- MODULE ActivityNotices --------------------------
(***************************************************************************)
(* What an activity tells people: the bell rows of                         *)
(* src/services/notifications.py, the announcement of a new activity       *)
(* (src/api/routers/activities.py), and the reminders and summaries of     *)
(* src/services/deadline_reminders.py, against the requests of teachers    *)
(* and students that change what is told meanwhile.                        *)
(*                                                                         *)
(* One activity, assigned to one course or to none.  The clock counts half *)
(* hours, the reminder window; a wait of less than that is no tick.  Each  *)
(* worker action is one database transaction, or the part of it before or  *)
(* after the statements another task may come between.                     *)
(***************************************************************************)
EXTENDS Integers, FiniteSets

CONSTANTS
  Student,
  Active,        \* bound: students who do anything
  Unreachable,   \* students without an e-mail address
  Tabs,          \* connections of one student that may close at once
  Horizon,       \* bound: the clock
  Month,         \* how far a reset moves the deadline (30 days in the code)
  FirstDeadline, \* the activity's deadline as created
  MaxEvents      \* bound: how many of the rare events of Event happen, once each

Event == {"crash", "fail", "reset", "patch", "assign", "delete"}

ASSUME FiniteAssumption == IsFiniteSet(Student)
ASSUME StudentsAssumption == Unreachable \subseteq Student /\ Active \subseteq Student
ASSUME BoundsAssumption == {Tabs, Horizon, FirstDeadline, MaxEvents} \subseteq Nat
ASSUME MonthAssumption == Month \in Nat /\ Month > 1
ASSUME DeadlineAssumption == FirstDeadline <= Horizon + Month   \* it has a place on the clock

REMINDER_WINDOW == 1
Never == -1
\* the last of these the clock does not reach: it stands for no deadline, too
Time == 0 .. (Horizon + Month)

Status == {"DRAFT", "PUBLISHED", "deleted"}
Kind == {"reminder", "unfinished"}   \* new_activity is written by one task, once

VARIABLES
  now,        \* the clock
  activity,   \* reflection_activities: status, deadline, assigned, the two markers
  enrolled,   \* course_enrollments of the course
  session,    \* chat_sessions of the activity: newest of each student
  unread,     \* unread notifications of a student, per kind
  bell,       \* unread deadline_summary rows of the teacher
  leaving,    \* wrap-ups of a student that found no unread row and will insert one
  announce,   \* the background task of create_activity
  worker,     \* _reminder_loop
  happened,   \* rare events so far
  (* history, read by the properties only *)
  reminded,   \* reminder mails per student
  belled,     \* students a deadline_reminder row was written for
  summaries   \* summary mails

rowVars == <<activity, enrolled, session, unread, bell, leaving>>
historyVars == <<reminded, belled, summaries>>
vars == <<now, rowVars, announce, worker, happened, historyVars>>

\* "dispatched": the three statuses of an evaluation; a session without a message of the student counts for nothing here, like none
NoSession == [status |-> "none", finalized |-> Never]

Exists == activity.status # "deleted"
Finalized(s) == session[s].finalized # Never
Happens(e) ==
  /\ e \notin happened /\ Cardinality(happened) < MaxEvents
  /\ happened' = happened \cup {e}
Cohort == IF activity.assigned THEN enrolled ELSE {}

Asleep == [pc |-> "asleep", todo |-> {}, due |-> Never, scanned |-> Never]
At(pc) == worker.pc = pc
Goto(pc) == worker' = [worker EXCEPT !.pc = pc]

-----------------------------------------------------------------------------
(***************************************************************************)
(* create_or_touch_notification: an unread row is refreshed, which changes *)
(* nothing here; without one a row is inserted; with more than one the     *)
(* query raises.                                                           *)
(***************************************************************************)
TouchedBlindly(n) == n + 1   \* slip: the query for an unread row is dropped
Touched(n) == IF n = 0 THEN 1 ELSE n
TouchRaises(n) == n > 1
TouchAll(users, kind) ==
  [s \in Student |-> [unread[s] EXCEPT ![kind] = IF s \in users THEN Touched(@) ELSE @]]

-----------------------------------------------------------------------------
(***************************************************************************)
(* Students.  Sessions follow SessionLifecycle, of which this keeps what   *)
(* the notices read.                                                       *)
(***************************************************************************)
Engage(s) ==
  /\ Exists /\ session[s] = NoSession /\ activity.deadline >= now
  /\ session' = [session EXCEPT ![s].status = "IN_PROGRESS"]
  /\ UNCHANGED <<now, activity, enrolled, unread, bell, leaving, announce, worker, happened, historyVars>>

Close(s) ==
  /\ session[s].status = "IN_PROGRESS" /\ ~Finalized(s)
  /\ session' = [session EXCEPT ![s].finalized = now]
  /\ UNCHANGED <<now, activity, enrolled, unread, bell, leaving, announce, worker, happened, historyVars>>

(* The wrap-up of a finalized session *)
Dispatch(s) ==
  /\ session[s].status = "IN_PROGRESS" /\ Finalized(s) /\ session[s].finalized <= activity.deadline
  /\ session' = [session EXCEPT ![s].status = "dispatched"]
  /\ UNCHANGED <<now, activity, enrolled, unread, bell, leaving, announce, worker, happened, historyVars>>

(* The wrap-up of an unfinalized one looks for an unread row, and finds none ... *)
LeaveUnfinished(s) ==
  /\ session[s].status = "IN_PROGRESS" /\ ~Finalized(s)
  /\ unread[s]["unfinished"] = 0 /\ leaving[s] < Tabs
  /\ leaving' = [leaving EXCEPT ![s] = @ + 1]
  /\ UNCHANGED <<now, activity, enrolled, session, unread, bell, announce, worker, happened, historyVars>>

(* ... and inserts it, unless the activity is gone by then *)
NotifyUnfinished(s) ==
  /\ leaving[s] > 0
  /\ leaving' = [leaving EXCEPT ![s] = @ - 1]
  /\ unread' = [unread EXCEPT ![s]["unfinished"] = IF Exists THEN @ + 1 ELSE @]
  /\ UNCHANGED <<now, activity, enrolled, session, bell, announce, worker, happened, historyVars>>

(* Slip: a row that is read already is read again *)
MarkReadAgain(s) ==
  /\ \E k \in Kind : unread' = [unread EXCEPT ![s][k] = @ - 1]
  /\ UNCHANGED <<now, activity, enrolled, session, bell, leaving, announce, worker, happened, historyVars>>

(* PATCH /me/notifications/{id}/read and /me/notifications/read-all *)
MarkRead(s) ==
  /\ \/ \E k \in Kind : unread[s][k] > 0 /\ unread' = [unread EXCEPT ![s][k] = @ - 1]
     \/ (\E k \in Kind : unread[s][k] > 0) /\ unread' = [unread EXCEPT ![s] = [k \in Kind |-> 0]]
  /\ UNCHANGED <<now, activity, enrolled, session, bell, leaving, announce, worker, happened, historyVars>>

-----------------------------------------------------------------------------
(***************************************************************************)
(* Teachers.  create_activity is in Init.                                  *)
(***************************************************************************)
AddStudent(s) ==
  /\ s \notin enrolled
  /\ Happens("assign")
  /\ enrolled' = enrolled \cup {s}
  /\ UNCHANGED <<now, activity, session, unread, bell, leaving, announce, worker, historyVars>>

AssignCourse ==
  /\ Exists /\ ~activity.assigned
  /\ Happens("assign")
  /\ activity' = [activity EXCEPT !.assigned = TRUE]
  /\ UNCHANGED <<now, enrolled, session, unread, bell, leaving, announce, worker, historyVars>>

(* update_activity: a status at any time, a deadline only while unpublished *)
UpdateActivity ==
  /\ Exists
  /\ Happens("patch")
  /\ \E status \in {"DRAFT", "PUBLISHED"},
       d \in {activity.deadline} \cup IF activity.status = "DRAFT" THEN (now + 1) .. (Horizon + 1) ELSE {} :
       activity' = [activity EXCEPT !.status = status, !.deadline = d]
  /\ UNCHANGED <<now, enrolled, session, unread, bell, leaving, announce, worker, historyVars>>

(* DELETE: sessions are deleted, notifications cascade *)
DeleteActivity ==
  /\ activity.status = "DRAFT"
  /\ Happens("delete")
  /\ activity' = [activity EXCEPT !.status = "deleted"]
  /\ session' = [s \in Student |-> NoSession]
  /\ unread' = [s \in Student |-> [k \in Kind |-> 0]]
  /\ bell' = 0
  /\ UNCHANGED <<now, enrolled, leaving, announce, worker, historyVars>>

(* POST /reset, for one student or for all: a month more, and both markers cleared *)
ResetActivity ==
  /\ Exists
  /\ Happens("reset")
  /\ activity' = [activity EXCEPT !.deadline = now + Month, !.reminded = FALSE, !.summarized = FALSE]
  /\ \E who \in {Student} \cup {{s} : s \in Student} :
       session' = [s \in Student |-> IF s \in who THEN NoSession ELSE session[s]]
  /\ UNCHANGED <<now, enrolled, unread, bell, leaving, announce, worker, historyVars>>

(* _notify_students_of_new_activity: a failure is logged, and not retried *)
AnnounceActivity ==
  /\ announce = "due"
  /\ announce' = "over"
  /\ UNCHANGED happened \/ Happens("fail")
  /\ UNCHANGED <<now, rowVars, worker, historyVars>>

-----------------------------------------------------------------------------
(***************************************************************************)
(* The worker's tick: sweep, reminders, summaries.  Each samples the clock *)
(* for itself.                                                             *)
(***************************************************************************)
Untouched == UNCHANGED <<now, enrolled, leaving, announce>>

(* _scan_deadline_force_evaluations: the candidates *)
SweepScan ==
  /\ At("asleep")
  /\ worker' = [Asleep EXCEPT !.pc = "sweep", !.due = activity.deadline,
                  !.todo = {s \in Student : /\ session[s].status = "IN_PROGRESS"
                                            /\ activity.deadline <= now}]
  /\ Untouched /\ UNCHANGED <<activity, session, unread, bell, happened, historyVars>>

(* _force_finalize_session, as one step: SessionLifecycle has what may come between *)
ForceFinalize(s) ==
  /\ At("sweep") /\ s \in worker.todo
  /\ worker' = [worker EXCEPT !.todo = @ \ {s}]
  /\ session' = IF session[s].status = "IN_PROGRESS"
                THEN [session EXCEPT ![s] = [status |-> "dispatched", finalized |-> worker.due]]
                ELSE session
  /\ Untouched /\ UNCHANGED <<activity, unread, bell, happened, historyVars>>

(* _scan_student_reminders *)
ReminderScan ==
  /\ At("sweep") /\ worker.todo = {}
  /\ worker' = IF /\ activity.status = "PUBLISHED" /\ ~activity.reminded
                  /\ now < activity.deadline /\ activity.deadline <= now + REMINDER_WINDOW
               THEN [Asleep EXCEPT !.pc = "remind", !.scanned = now]
               ELSE [Asleep EXCEPT !.pc = "summarize"]
  /\ Untouched /\ UNCHANGED <<activity, session, unread, bell, happened, historyVars>>

(* Slip: the recipients are those whose session is not dispatched *)
RecipientsByStatus == {s \in Cohort : session[s].status # "dispatched"}

(* Students who have not finalized; the status does not matter *)
Recipients == {s \in Cohort : ~Finalized(s)}

(* _send_reminders_for_activity up to its commit; the marker is checked again, the deadline is not *)
ReminderRead ==
  /\ At("remind")
  /\ worker' = IF Exists /\ ~activity.reminded
               THEN [worker EXCEPT !.pc = "mark", !.todo = Recipients]
               ELSE [Asleep EXCEPT !.pc = "summarize"]
  /\ Untouched /\ UNCHANGED <<activity, session, unread, bell, happened, historyVars>>

(* Slip: the marker is left for after the mails *)
ReminderCommitUnmarked ==
  /\ At("mark") /\ Exists /\ \A s \in worker.todo : ~TouchRaises(unread[s]["reminder"])
  /\ unread' = TouchAll(worker.todo, "reminder")
  /\ belled' = belled \cup worker.todo
  /\ Goto("mail")
  /\ Untouched /\ UNCHANGED <<activity, session, bell, happened, reminded, summaries>>

(* The bells and the marker in one transaction, before any mail *)
ReminderCommit ==
  /\ At("mark") /\ Exists /\ \A s \in worker.todo : ~TouchRaises(unread[s]["reminder"])
  /\ unread' = TouchAll(worker.todo, "reminder")
  /\ belled' = belled \cup worker.todo
  /\ activity' = [activity EXCEPT !.reminded = TRUE]
  /\ Goto("mail")
  /\ Untouched /\ UNCHANGED <<session, bell, happened, reminded, summaries>>

(* send_email never raises: a mail that fails is not sent again *)
ReminderMail ==
  /\ At("mail")
  /\ IF worker.todo = {} THEN worker' = [Asleep EXCEPT !.pc = "summarize"] /\ UNCHANGED reminded
     ELSE \E s \in worker.todo :
            /\ worker' = [worker EXCEPT !.todo = @ \ {s}]
            /\ reminded' = IF s \in Unreachable THEN reminded ELSE [reminded EXCEPT ![s] = @ + 1]
  /\ Untouched /\ UNCHANGED <<activity, session, unread, bell, happened, belled, summaries>>

(* Slip: only published activities are summarized *)
SummaryDuePublished ==
  activity.status = "PUBLISHED" /\ ~activity.summarized /\ activity.deadline <= now

(* _scan_teacher_summaries: whatever the status *)
SummaryDue == Exists /\ ~activity.summarized /\ activity.deadline <= now

(* Its candidates; the transaction of the summary checks again that there is one to send *)
SummaryScan ==
  /\ At("summarize")
  /\ worker' = IF SummaryDue THEN [worker EXCEPT !.pc = "report"] ELSE Asleep
  /\ Untouched /\ UNCHANGED <<activity, session, unread, bell, happened, historyVars>>

OnTime(s) == Finalized(s) /\ session[s].finalized <= activity.deadline

(* _send_summary_for_activity: the cohort is classified ... *)
SummaryRead ==
  /\ At("report")
  /\ worker' = IF Exists /\ ~activity.summarized
               THEN [worker EXCEPT !.pc = "swap", !.todo = {s \in Cohort : ~OnTime(s)}]
               ELSE Asleep
  /\ Untouched /\ UNCHANGED <<activity, session, unread, bell, happened, historyVars>>

(* ... the marker is swapped, and the bell written with it *)
SummaryCommit ==
  /\ At("swap")
  /\ IF Exists /\ ~activity.summarized
     THEN /\ activity' = [activity EXCEPT !.summarized = TRUE]
          /\ bell' = Touched(bell)
          /\ Goto("post")
     ELSE worker' = Asleep /\ UNCHANGED <<activity, bell>>
  /\ Untouched /\ UNCHANGED <<session, unread, happened, reminded, belled, summaries>>

SummaryMail ==
  /\ At("post")
  /\ summaries' = summaries + 1
  /\ worker' = Asleep
  /\ Untouched /\ UNCHANGED <<activity, session, unread, bell, happened, reminded, belled>>

(***************************************************************************)
(* A statement fails, the row is gone or the bell query raises: a session  *)
(* of the sweep is skipped, an activity is left for the next tick, a scan  *)
(* ends its tick.                                                          *)
(***************************************************************************)
ScanFails ==
  /\ \/ At("mark") /\ UNCHANGED happened
        /\ (~Exists \/ \E s \in worker.todo : TouchRaises(unread[s]["reminder"]))
     \/ worker.pc \in {"sweep", "remind", "mark", "summarize", "report", "swap"} /\ Happens("fail")
  /\ \/ \E s \in worker.todo : At("sweep") /\ worker' = [worker EXCEPT !.todo = @ \ {s}]
     \/ worker.pc \in {"remind", "mark"} /\ worker' = [Asleep EXCEPT !.pc = "summarize"]
     \/ At("sweep") /\ worker.todo = {} /\ worker' = Asleep
     \/ worker.pc \in {"summarize", "report", "swap"} /\ worker' = Asleep
  /\ Untouched /\ UNCHANGED <<activity, session, unread, bell, historyVars>>

(* The process stops and starts again *)
Restart ==
  /\ Happens("crash")
  /\ worker' = Asleep
  /\ announce' = "over"
  /\ leaving' = [s \in Student |-> 0]
  /\ UNCHANGED <<now, activity, enrolled, session, unread, bell, historyVars>>

Tick ==
  /\ now < Horizon
  /\ now' = now + 1
  /\ UNCHANGED <<rowVars, announce, worker, happened, historyVars>>

-----------------------------------------------------------------------------
(* create_activity: announced when it is published and assigned from the start *)
Init ==
  /\ now = 0
  /\ activity \in [status : {"DRAFT", "PUBLISHED"}, deadline : {FirstDeadline}, assigned : BOOLEAN,
                   reminded : {FALSE}, summarized : {FALSE}]
  /\ enrolled \in {Student} \cup {Student \ {s} : s \in Active}
  /\ announce = IF activity.assigned /\ activity.status = "PUBLISHED" THEN "due" ELSE "over"
  /\ session = [s \in Student |-> NoSession]
  /\ unread = [s \in Student |-> [k \in Kind |-> 0]]
  /\ bell = 0
  /\ leaving = [s \in Student |-> 0]
  /\ worker = Asleep
  /\ happened = {}
  /\ reminded = [s \in Student |-> 0] /\ belled = {} /\ summaries = 0

WorkerStep ==
  \/ SweepScan \/ (\E s \in Student : ForceFinalize(s))
  \/ ReminderScan \/ ReminderRead \/ ReminderCommit \/ ReminderMail
  \/ SummaryScan \/ SummaryRead \/ SummaryCommit \/ SummaryMail
  \/ ScanFails

StudentStep(s) ==
  Engage(s) \/ Close(s) \/ Dispatch(s) \/ LeaveUnfinished(s) \/ NotifyUnfinished(s) \/ MarkRead(s)

TeacherStep ==
  \/ \E s \in Student : AddStudent(s)
  \/ AssignCourse \/ UpdateActivity \/ DeleteActivity \/ ResetActivity \/ AnnounceActivity

Next ==
  \/ WorkerStep
  \/ \E s \in Active : StudentStep(s)
  \/ TeacherStep
  \/ Restart
  \/ Tick

Spec == Init /\ [][Next]_vars

(* The loop wakes every SCAN_INTERVAL_SECONDS and survives what a scan raises *)
FairSpec == Spec /\ WF_vars(WorkerStep)

-----------------------------------------------------------------------------
TypeOK ==
  /\ now \in 0 .. Horizon
  /\ activity \in [status : Status, deadline : Time, assigned : BOOLEAN,
                   reminded : BOOLEAN, summarized : BOOLEAN]
  /\ enrolled \subseteq Student
  /\ session \in [Student -> [status : {"none", "IN_PROGRESS", "dispatched"},
                              finalized : Time \cup {Never}]]
  /\ unread \in [Student -> [Kind -> 0 .. Tabs + 1]] /\ bell \in Nat
  /\ leaving \in [Student -> 0 .. Tabs]
  /\ announce \in {"due", "over"}
  /\ worker \in [pc : {"asleep", "sweep", "remind", "mark", "mail", "summarize", "report", "swap", "post"},
                 todo : SUBSET Student, due : Time \cup {Never}, scanned : Time \cup {Never}]
  /\ happened \subseteq Event
  /\ reminded \in [Student -> Nat] /\ belled \subseteq Student /\ summaries \in Nat

Resets == IF "reset" \in happened THEN 1 ELSE 0

(***************************************************************************)
(* A student is mailed one reminder at most and the teacher one summary,   *)
(* and one more for each reset, over every tick, failure and restart       *)
(* (deadline_reminders.py, "Mark BEFORE sending email so a worker restart  *)
(* mid-loop can't double-fire").                                           *)
(***************************************************************************)
MailedOnce == summaries <= 1 + Resets /\ \A s \in Student : reminded[s] <= 1 + Resets

(***************************************************************************)
(* Whoever was mailed a reminder, or would have been but for a restart,    *)
(* has got the bell: losing mails never loses the notice.  And none of     *)
(* those about to be mailed had finalized before the scan, though the      *)
(* wrap-up may not have dispatched the session yet.                        *)
(***************************************************************************)
RemindersAimed ==
  /\ \A s \in Student : reminded[s] > 0 => s \in belled
  /\ At("mail") => \A s \in worker.todo : s \in belled /\ (Finalized(s) => session[s].finalized >= worker.scanned)

(***************************************************************************)
(* Rows that one task alone writes are unique while unread; the row that   *)
(* every closing tab writes is duplicated at most once per tab.            *)
(***************************************************************************)
UnreadBounded ==
  /\ bell <= 1
  /\ \A s \in Student :
       /\ unread[s]["reminder"] <= 1
       /\ unread[s]["unfinished"] <= Tabs

(***************************************************************************)
(* Once the deadline is past the teacher's summary is marked, whatever the *)
(* status of the activity, through a failing scan and a restart, unless    *)
(* the deadline is moved or the activity deleted.                          *)
(***************************************************************************)
Overdue == Exists /\ activity.deadline <= now
DeadlineSummarized == Overdue ~> (activity.summarized \/ ~Overdue)

-----------------------------------------------------------------------------
(***************************************************************************)
(* Nobody is about to be reported as not done whose session a later sweep  *)
(* will finalize on time (deadline_reminders.py: the sweep runs first, so  *)
(* that the summary "reports an accurate cohort").                         *)
(***************************************************************************)
CohortAccurate ==
  At("swap") => \A s \in worker.todo : session[s].status = "IN_PROGRESS" => Finalized(s)
=============================================================================
