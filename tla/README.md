# Verification of the Milo orchestrator

Milo is a tutoring backend: a student reflects on an activity in a WebSocket
conversation with a language model, a policy engine decides what the model is
told to do in each turn, and when the reflection is closed, by the model or by
the activity's deadline, a background worker has the transcript evaluated for
the teacher. This directory holds TLA+ models of that system, the TLC
configurations that check them and the proofs TLAPS checks. Paths below are
relative to the repository, whose Python package is `src/`.

- [Inventory](#inventory)
- [Modules](#modules)
- [Runs](#runs)
- [Proofs](#proofs)
- [Where code and comments disagree](#where-code-and-comments-disagree)
- [Not modelled](#not-modelled)
- [Plan](#plan)

## Inventory

Everything runs in one process on one asyncio event loop (the RAG extractor
aside), against PostgreSQL. A task runs undisturbed between two awaits; at an
await any other task may run, and cancelling a task raises at the await it is
suspended in.

| Component | State | Operations | Must hold |
| --- | --- | --- | --- |
| Policy stages (`src/policy/recovery.py`, `fsm.py`, `hint_ladder.py`, `cooldown.py`) | recovery, phase, rung of the hint ladder, their counters | one pure step each per turn | the near-answer rung is earned; recovery is bounded and freezes the rest |
| Policy engine (`src/policy/engine.py`, `rules/`) | none of its own; reads the session's | `evaluate` | the guardrail is lifted only when earned; closure is not withheld for ever |
| Conversation (`src/api/session.py`) | socket, active turn, pending prefix, `_should_close`, policy state, signal window | `run`, `_conversation_loop`, `_process_turn`, `_persist_policy_state` | no message lost or stored twice; nothing starts after closing; closing reaches the wrap-up |
| Agent (`src/orchestration/agent.py`) | a generator per turn | `process_session_stream`, `_stream_and_persist`, `save_partial_response` | an interrupted turn leaves no rows, a done one leaves both |
| Session entry and wrap-up (`src/api/session.py`) | `chat_sessions` | `_setup_db_session`, Step 7, `_wrap_up_session` | one evaluation per closed session; no reopening |
| Evaluation (`src/services/metrics_evaluator.py`) | in-memory queue, worker | `queue_evaluation`, `_evaluation_worker`, `evaluate_session` | a pending session gets an outcome |
| Deadline worker (`src/services/deadline_reminders.py`) | two markers per activity | sweep, reminders, summaries | overdue sessions are swept; each mail goes out once, and no deadline without summary |
| Notifications (`src/services/notifications.py`) | unread rows | create or touch, mark read | one unread row per kind; no mail without its bell |
| Activities (`src/api/routers/activities.py`) | activities, sessions | create, assign, edit, delete, reset, announce | a reset starts afresh |
| Activity files (`src/api/routers/activities.py`, `src/services/s3.py`) | rows, objects in the store, presigned URLs | request, confirm, list, delete | what is listed is in the store; the limit |
| Gemini adapter (`src/adapters/llm/gemini.py`) | prompt caches | stream with retries, evaluate | one answer, bounded attempts, a stale cache costs nothing |
| Output interceptors (`src/policy/interceptors/`) | none | `check_output` | the student is left with a question, and with one |
| Question selection (`src/policy/questions/`) | recent question ids | `select_question` | no needless repetition; a gentle question when overloaded |
| Audio (`src/api/audio_stream.py`, `src/services/tts.py`) | sentence buffer, voice | synthesize per sentence | the speech is the text, in order, in one voice |
| Policy persistence (`src/policy/persistence.py`, `metrics.py`) | snapshot, counters | serialize, apply | a resumed conversation continues |
| Database, models, auth, other routers, scripts, prompts | rows | plain reads and writes | nothing with a protocol |

Interactions. The loop of a conversation runs each turn as a task of its own,
which iterates the agent's generator, which iterates the model's stream and
writes `chat_messages` when that ends. The turn evaluates the policy before it
asks the model and applies the decision after the answer is out. The wrap-up of
a conversation, the sweep of the deadline worker and the administrator's
re-evaluate request all write `ChatSession.status` and put sessions on the
evaluation worker's queue; a reset deletes the rows under all of them. The
wrap-up, the deadline worker and the announcement of a new activity write the
notifications that the students' requests mark as read. Files are rows here and
objects in a store that the teacher's browser writes to by itself.

Hard behaviours. A message during a turn (interrupt-and-bundle), a barge-in, a
disconnection and the idle timeout meet a turn at any of its awaits. The
decision of a turn that does not finish is dropped, its signals are not. A turn
outlives a connection that drops. The wrap-up and the sweep read a status and
commit later, sweep and summary read the clock each for themselves. Mails go out
after the commit that says so. The queue does not survive a restart. The sentinel
and the sentences of an answer are cut over its chunks. `PROJECT.json` lists each
hazard at its line.

## Modules

| Module | Models | Depends on |
| --- | --- | --- |
| `PolicyScores` | signals and the scores the stages read | |
| `PolicyStages` | recovery, phase machine, hint ladder, cooldowns as functions | `PolicyScores` |
| `PolicyEngine` | `evaluate` and the state a conversation keeps across turns | `PolicyStages` |
| `PolicyEngineProofs` | theorems about `PolicyEngine` | `PolicyEngine` |
| `ChatTurn` | loop, turns and generators of one connection, and what they store | |
| `ChatTurnProofs` | theorems about `ChatTurn` | `ChatTurn` |
| `SessionStatus` | what the lifecycle of a session promises (abstract) | |
| `SessionStatusProofs` | what follows from the promise | `SessionStatus` |
| `SessionLifecycle` | tabs, sweep, worker, administrator and reset on the same rows | instantiates `SessionStatus` |
| `SessionLifecycleProofs` | theorems about `SessionLifecycle`, the refinement among them | `SessionLifecycle` |
| `AnswerStream` | one answer from the model to the ear: call, cache and retries, sentinel filter, speech, interceptors | |
| `AnswerStreamProofs` | theorems about `AnswerStream` | `AnswerStream` |
| `QuestionSelection` | bank and selector, and what is remembered of the questions asked | |
| `QuestionSelectionProofs` | theorems about `QuestionSelection` | `QuestionSelection` |
| `ActivityNotices` | reminders, summaries, notifications, and the requests that change what they tell | |
| `ActivityNoticesProofs` | theorems about `ActivityNotices` | `ActivityNotices` |
| `ActivityFiles` | rows and objects of the files of an activity | |
| `ActivityFilesProofs` | theorems about `ActivityFiles` | `ActivityFiles` |
| `MCPolicyEngine`, `MCSessionLifecycle` | values of constants for TLC | |

Each module takes from its neighbours what its own properties read: `ChatTurn`
sees a stream that yields, ends or fails, whose inside is `AnswerStream`;
`ActivityNotices` has the sweep as one step per session, whose inside is
`SessionLifecycle`; `QuestionSelection` takes any phase and mood, which
`PolicyStages` says how to come by.

### PolicyEngine

One action per kind of turn. `Greet` is `_process_turn("")`, `CompleteTurn` a
turn that gets to Step 5, `AbandonGreeting` and `AbandonTurn` one that is
interrupted, cancelled or fails after the policy was evaluated, `DegradedTurn`
one whose history could not be loaded, and `Resume` a later connection that is to
greet again. Each takes the rows the turn leaves, `stored`: a turn that runs to its
end has its user row, and a model row unless the model gave no chunk or the insert
failed, which is only logged; an abandoned one leaves none to three, as the partial
answer may be stored twice. `answered` is `has_model_history`: as long as
no model row is there, a connection that resumes the session greets again. `EvaluateTurn` is what they share (Steps 1
and 2 of `_process_turn`), `ApplyDecision` is Step 5. Scores are exact integers:
ten-thousandths for a score, hundredths for a ratio, so that the thresholds of the
code compare exactly; the code computes in floating point, and the messages in
`MCPolicyEngine` lie strictly between the thresholds, so that rounding decides
nothing. A signal record is what a message makes the extractors return; the
regular expressions and z-scores themselves are left to that choice, and `short`
stands for what length adds to a score. The pattern list of `NoDirectAnswersRule`
is nearly the extractor's and is modelled by the same signal (`dar`). The plan of a
turn keeps what the rules contend for: origin of the question, tone, the two flags,
and the directives as tags. `rows` counts `chat_messages`, since `turn_count` is
half of the newest fifty. A conversation that is resumed gets its policy state back
from `policy_state`, so a behaviour stands for a conversation across connections, one after
the other. A snapshot that was not committed, and what a resumed conversation forgets
by it, is the subject of `QuestionSelection`; the rows of a generator that is closed
late are counted with its turn, and `ChatTurn` has when they come.

`evals`, `heard`, `effort`, `climb`, `withheld` and `affected` are history
for the properties; no guard but the bound on turns reads them.

### ChatTurn

A turn's `pc` is the await its task is suspended in, `loop` the await of the
receive loop:

| `pc` | await | | `pc` | await |
| --- | --- | --- | --- | --- |
| `history` | reading the history | | `farewell` | speaking the deterministic goodbye |
| `agent` | memory, retrieval, opening the stream | | `persist` | `_persist_policy_state` |
| `llm` | next chunk | | `finish` | the done frame |
| `emit` | sending a chunk, its audio | | `commit` | `finalized_at` |
| `saveUser`, `saveModel` | the agent's two inserts | | `announce`, `closing` | `session_complete`, closing the socket |
| `speak` | last audio, correction | | `partial` | `save_partial_response` |

A statement cut by a cancellation may or may not have been committed
(`CancelElsewhere` takes both). A generator that is suspended when its turn ends is
an `orphan`: Python runs its finally block when it is collected, at a time the code
does not control. What the model answers and when, whether the policy classed the
turn as eligible for closure, and everything the client does are choices.

### SessionStatus and SessionLifecycle

`SessionStatus` is the contract: a session leaves `IN_PROGRESS` once, only closed
sessions are dispatched, every outcome consumes a request (`owed`), and requests
vanish only with their session or by a named loss. `SessionLifecycle` has one
student with several tabs at one activity: a session is its status, start,
`finalized_at`, whether a user row exists (`engaged`) and whether there is a
policy state (`saved`). Reads and commits of the same transaction are separate
actions wherever another task may come between them: `EnterCheck`/`EnterOpen`,
`CloseRead`/`CloseCommit`, `WrapRead`/`WrapCommit`/`WrapDispatch`,
`ForceRead`/`ForceCommit`, `EvalRead`/`EvalWrite`. An UPDATE writes the columns
that changed since the row was loaded: resuming a session assigns it the status it
has and writes nothing. Requests are counted where they are: in the queue, at the
worker, and in a wrap-up that has committed `PENDING_EVALUATION` and not yet queued
(the refinement mapping of `owed`). A closing turn needs four turns of history,
which is abstracted to a stored message; what a turn does in detail is `ChatTurn`.
A closing turn whose connection is gone keeps running (`conn.close`).

A deadline beyond `Horizon` stands for a month from now and for an activity without
a deadline. `AUTO_EVALUATE_ON_CHAT_CLOSE` has its default, true. The metrics row is
not kept; the conflict of two inserts of it is one of the failures of
`WrapDispatch`. The empty transcript branch of `evaluate_session` is left out: the
row and the transcript are written together.

### AnswerStream

A text is a sequence of units: a word, a blank, the end of an open question, the
end of another sentence, or half a sentinel; so a cut of a chunk, of the tail and of
a sentence can fall anywhere that matters. `pc` follows one turn: `cache` and
`request` are `generate_answer_stream` before its first chunk, `stream` waits for a
chunk, `emit` sends one, `speak` and `flush` are `audio_stream.wrap`, `check` and
`correct` Step 4, `farewell` the goodbye of a closing turn. The cache entry is shared:
`Others` is what other turns, expiry, eviction and the provider do to it. Whether a
text is blunt, has closed questions or a long assertion before the first question
mark is a choice made when the interceptors run (`Manner`). Numbers, voices and
texts of the utterances are kept in `spoken`. An answer without text counts as
one that is checked when it ends, as the code checks it.

### QuestionSelection

The bank is that of `bank.py`, in its order: id, family, phase, whether its tone is
challenging, whether it requires an attempt. A list of questions is the set of its
places in the bank, and the first of a pass the least place that is fresh: one asked
for no more and allowed by the attempt. `Record` is Step 5 of a turn and the
start of its commit, `Persist` the commit or its failure; `WrapUp` is the end of a
connection, whose turn may be cancelled, be about to commit, or be left `lingering`:
after a disconnection nobody awaits it. Failures and the death of the process happen
once each at most.

### ActivityNotices

One activity and its teacher. The worker is one task, `worker.pc` its await; each of
its transactions is split where another task may come between, `ReminderRead` and
`ReminderCommit`, `SummaryRead` and `SummaryCommit`. An unread row is a count per
student and kind, since the code expects one at most and raises on two. The clock
counts half hours; a deadline beyond the horizon stands for none. Rare events, a
crash, a failing statement, a reset, an edit, an assignment or enrolment, a
deletion, happen once each at most, `MaxEvents` of them in a behaviour.

### ActivityFiles

A request is at one of a few points of its transaction: it has loaded the activity,
counted the files, found the object, deleted the object. Calls of the store block the
event loop (boto3 is synchronous), so nothing comes between one and the statement
before it. The browser writes an object at any time while its URL lasts, also twice.
`Fail` rolls back one request or, as a restart, all of them; what the store has done
stays done.

## Runs

| Run | Bounds | Shows |
| --- | --- | --- |
| `policy_turns` | 13 turns, three messages, window of 10, two rows missing at most | `TypeOK`, `BottomOutEarned`, `RecoveryBounded`, `RecoveryConverges`, `ClosureNotStarved`, `RecoveryFreezes` |
| `policy_abandon` | 8 turns, two messages, abandoned or degraded, with 0 to 3 rows, four missing at most | `GuardrailEarned`, `PhaseBackedByTurns` |
| `chat_turns` | 3 messages, drops and timeouts | `TypeOK`, `NoMessageLost`, `InterruptLeavesNoRow`, `DoneIsDurable` |
| `chat_closing` | 2 messages after 8 stored rows, barge-ins, drops, failing statements | `NoTurnAfterClose`, `ClosureEndsHandler` |
| `life_races` | one session, two tabs, a restart, an edited deadline, failing statements | `TypeOK`, `ImplementsStatus` |
| `life_settles` | two sessions, one tab, a reset, a re-evaluation | `ImplementsStatus` without loss, `LateStarterIgnored`, `PendingSettles`, `OverdueIsSwept` |
| `life_double_dispatch` | one session, one tab | violation of `DispatchedOnce` |
| `notices_once` | two students, one of them active with two tabs, the other without an address, two rare events, a deadline in the middle | `TypeOK`, `MailedOnce`, `RemindersAimed`, `UnreadBounded`, `DeadlineSummarized` |
| `notices_cohort` | one student, no rare event | violation of `CohortAccurate` |
| `answer_stream` | answers of three units and their ending, chunks of up to three | `TypeOK`, `TextFaithful`, `SentinelHidden`, `SpeechIsText`, `AlwaysAsks`, `TurnEnds` |
| `questions_asked` | the monitoring phase, eight turns, one connection at a time, two faults | `TypeOK`, `NoNeedlessRepeat`, `QuestionFits`, `Remembered`, `FailureForgetsLittle` |
| `files_kept` | three ids, two requests at once, a limit of one, one failure or restart | `TypeOK`, `ListedStored`, `LimitNearlyKept`, `LeftoversExplained` |

Why the bounds are enough. Thirteen turns pass the ten of the phase machine's
reset and of the window, and fit two full recoveries and the re-planning turn
between them, the longest way to withhold closure. `MaxMissing` bounds how many rows
a conversation lacks of two per turn at any time. The greeting of `policy_turns` lacks
one, and an answer that is not stored the other; in `policy_abandon` there are three
more rows to lose, by answers that are not stored, by turns that leave nothing and by
greetings that are repeated. The theorems have no such bound. The three messages of
`policy_turns` are one the ladder counts as calm and the unblock rule as a
procedural request, one of productive struggle that counts toward recovery, and
one that also enters it. With three messages a bundle is itself interrupted and
bundled; a fourth repeats that. Eight stored rows let the first turn of
`chat_closing` close, at `CLOSURE_MIN_TURNS`, and leave a frame to race it. In `SessionLifecycle` the clock has a
time before, at and after the deadline; two attempts stand for five, as only the
first and the last differ; two tabs are enough for one to finalize, leave or write
while the other is between a read and its commit, and a session is the smallest
thing the sweep, the worker and the wrap-up can meet at. The second session of
`life_settles` queues behind the first and replaces one that was reset. Tabs are
interchangeable in every definition and in the properties of `life_races`, which
has no liveness property, so it uses symmetry. Three units before its ending let an
answer have a sentence that ends, one that does not and a blank between them, and
its endings are longer than the tail the filter withholds, so that the sentinel is
cut at every place and both lies in the tail and has left it; the attempts are the
three of the code. Eight turns use up the families an overloaded student is asked
from, and most of the eleven questions of the phase, the richest of the three and
the only one with questions that require an attempt; the other phases differ in
their tables only. In `notices_once` the clock has a time before the reminder window,
one in it, and one past the deadline; a student without an address and one with are
the two kinds of recipients, one of them takes no part so as to have somebody who
has done nothing; two rare events let a failure or a restart fall into what a reset,
an edit or an assignment has changed. A limit of one and two requests are the
smallest that can pass the limit; a third id lets a later request find it passed; the
theorems have any number of each.

Deadlock checking is off but for `ActivityNotices`, whose worker never stops: a
conversation whose client has gone, an answer that is out and a deployment nobody
uses stop rightfully, and the bounds stop every model.

Fairness. `ChatTurn!FairSpec` has weak fairness of the loop's and of the turn's
own steps: the event loop runs every ready task, and statements, sends and speech
synthesis return or fail. It has none for the model (`Chunk`, `StreamEnds`), the
client, the idle timeout or abandoned generators. `ClosureEndsHandler` thus holds
because the turn closes the socket, not because somebody times out.
`SessionLifecycle!FairSpec` has weak fairness of each handler's steps, of the worker
(its backoff is finite, and the model's evaluation call returns or raises) and of
the sweep (its loop wakes every 60 seconds and catches what a scan raises); none for
students, teachers, administrators or the clock. The sweep also needs an agent: in a
process without one (`get_agent()` is `None`) `OverdueIsSwept` is not claimed.
`ActivityNotices!FairSpec` has weak fairness of the worker, for the same reason; no
user and no clock is fair. `AnswerStream!FairSpec` has weak fairness of the turn as a
whole: opening a stream and synthesis have timeouts in the code, but for the chunks
of an open stream it is an assumption about the provider, and other turns
interfere with the shared cache entry as often as they like.

Each passing property has a mutant: the definitions commented "Slip" are the
bugs (a dropped guard, an off-by-one, a missing await) that the property must and
does detect when they replace the definition they stand beside.

## Proofs

`PolicyEngineProofs` proves eight theorems of `PolicyEngine!Spec` for any set of
signals, any window length, any number of turns and of missing rows, from the five named assumptions
on the constants. The argument is one inductive invariant,

    IInv == TypeOK /\ RowsBacked /\ RecoveryBounded /\ RungBacked /\ GuardrailEarned
            /\ PhaseBackedByTurns /\ WithheldCharged

`BottomOutEarned` is not inductive: it speaks of the last rung only. `RungBacked`
says for each rung how many productive turns and turns off the bottom rung stand
behind it, and that turns on the third rung count toward the gate. Nor is
`ClosureNotStarved`: `WithheldCharged` bounds the turns without closure by a
potential of phase and recovery, what the current excursion may still cost, so that
every step that withholds closure uses some of it up. `PhaseBackedByTurns` speaks of
what the student wrote, and the code counts rows, which are not two per turn.
`RowsBacked` holds the two together: a message leaves at most `RowsPerTurn` rows, two
or, where turns are cut off, three; a greeting leaves fewer, and can only be repeated
while the conversation has no model row, so that its rows are the student's own. `Init => IInv`, then
`IInv /\ [Next]_vars => IInv'` with a step per action and per conjunct, the lemmas
about the stage functions stated once. `RecoveryFreezes` follows from the
definition of the step within the type invariant. `RecoveryTakesThreeTurns` has one
more hypothesis, that no turn is abandoned (`~MayAbandon`), without which it is false,
and one more invariant, `AffectBacked`: the high-affect turns in the window, a
cardinality, are no more than those that ran to their end, which sliding and cutting
the window only lowers. TLC checks the same properties on `policy_turns` and
`policy_abandon`.

`ChatTurnProofs` proves the five safety properties of `ChatTurn!Spec` and how a session
that is armed to close comes to its end, for any number of messages and of stored rows, with or without barge-ins and drops. `TurnInv`, the
base of all, says that only the newest turn runs (`TurnsInOrder`), that a turn decides
once (`DecidedOnce`), and that whoever cancels awaits and an interruption keeps its
flag up until the next turn is there (`CancelAwaited`). `NoTurnAfterClose` follows: the
turn an interruption has promised cannot be pending, as the closing turn would have had
to be cancelled for it. `InterruptLeavesNoRow` needs `SilentInv`: a turn has no row
and no abandoned generator before it comes to its saving awaits, and a silenced one
has ended or will by the cancellation that is on its way. For `DoneIsDurable`,
`DurableInv` says past which await which row is there, of running turns and of those
whose done frame is out. For `NoMessageLost`, `MessageInv` says for each state of the
loop where the messages received so far are; the hard case is a generator that is
closed under the interrupt flag and writes nothing, whose messages are then in the
bundle of the next turn (`OrphansKept`). The last two assume that statements do not
fail (`~DbMayFail`, as in `chat_turns`), since the code logs a failed insert and goes
on; the others do not. Each step of a turn is first reduced to what it writes
(`Writes`, `Moves`, `LoopMoves`), so that an invariant is shown against the reduction
and not against every action. `CloseInv` says of a closing session that its newest turn
is closing, was told to end, or has ended, and that a turn `cancel_turn` waits for cannot
set the flag any more (`Told`, `ToldEnds`). From it follow `ClosuresNeedNobody`, that the
loop never waits on an open socket behind a closing turn that is gone, and
`ClosuresComeToAnEnd`: every own step lowers the pair of where the loop and where the
turn is, and frames, timeouts and drops do not raise it.

`QuestionSelectionProofs` proves the five properties of `QuestionSelection!Spec`, for
any phases, number of turns and faults. `NoNeedlessRepeat` and `QuestionFits` are
shown of the selector, for every memory: the first fresh place of a nonempty list
exists (least elements of sets of naturals, by well-foundedness), pass 1 finds fitting
questions only, pass 2 all there are. `QuestionFits` hangs on tags of the bank, which
are shown question by question (`BankFacts`). `TypeOK` says that a lingering connection
has nothing to commit yet. `Remembered` and `FailureForgetsLittle` assume that there is
one connection at a time, as their run does and as they are false of two; their
invariant, `MemoryInv`, relates the three copies of the memory: what is being saved is
what is asked, nothing is missing from either without a fault, and with faults no more
than one question for each, and one for a commit under way.

`AnswerStreamProofs` proves the five invariants of `AnswerStream!Spec`, for answers and
chunks of any length, any errors, retries and a client that leaves at any time, and that
turns come to an end. `Shaped` says what an answer is: it has one sentinel at most, whole.
The invariant of the text, `TextInv`, says that, while the model speaks, what was sent,
what is about to be and the tail make up what was received, that nothing leaves the tail
unless it is full, and that in the end the sent text is the answer but for its sentinel
and for blanks at its end (`Stages`). From there `SentinelHidden` is arithmetic: three
units behind what was sent there is no room for half a sentinel (`EndWithheld`). Taking
the sentinel out of the tail is shown to take it out of the answer (`SentinelInTail`),
and stripping what was stripped to change nothing (`StrippedTwice`). For `AlwaysAsks`,
`CheckedText` says what the two interceptors can make of a text, case by case, and
`EndKept` that cutting the correction at the old length leaves its last two units, unless
more than two blanks were stripped. `Voiced`: while the turn goes on the voice of the
stream is the session's once that has one, and until then nothing was heard.
`SpeechIsText` speaks of the words of sentences cut out of a buffer. The model writes both
as concatenations (`FlattenSeq`) over the places of a text; the laws of that operator
(`FlattenAppend`, `FlattenConcat`, `FlattenAgrees`) are proved by induction over sets of
numbers (`Counting`, from the well-foundedness of `Nat`), as the library's induction over
predicates is out of reach. `SentencesSay` is the main lemma: the complete sentences of a
buffer and its remainder say the buffer, word by word. The invariant, `SpeechInv`, says of
every place of the stream what `SpeechIsText` says of some: that what was uttered, what is
queued and what is buffered say what was sent (`Balanced`), with nothing queued while
the model speaks and no word buffered when the interceptors run. `CacheInv` says that a
turn fails for a fault of its own request only: with no fault so far, a
request that goes out with a cached prompt has all its attempts left (`CacheLossIsSurvived`). `TurnsRunOut` gives the
distance of a turn from its end: its stage, then the attempts it has left or the units of
the answer to come, then the sentences to speak, in dictionary order; every step of the
turn lowers it.

`SessionStatusProofs` proves of the abstract lifecycle, for any number of
sessions, that dispatched sessions are closed (`DispatchedAreClosed`) and that,
when nothing loses requests, a pending session is always owed an outcome
(`PendingAreOwed`).

`SessionLifecycleProofs` proves that `SessionLifecycle!Spec` implements
`SessionStatus!Spec` (`LifecycleImplements`), so that both carry over to the
detailed lifecycle: for any number of sessions, attempts and rare events, any
finite set of tabs, any clock, with or without failing statements. A step may act on
what was read several steps before, so the invariant, `LifeInv`, says that what is
remembered stays true of the row, whoever changed the row since: a wrap-up that is
to evaluate has read a `finalized_at` that nobody takes back, a queue entry, the
worker and a dispatching handler hold a session that is dispatched or deleted
(`Sent`), a closing turn and the sweep hold one the student wrote in (`Used`).
`StepOnward` is the reason: no step takes any of this back, which is shown once and
used for every holder. Then every action is shown to be a step of `SessionStatus`
or to leave it as it is; `Owed` is counted in the queue, at the worker and at the
handlers, and the counting lemmas (`PlacesAppend`, `PlacesTail`, `SendersMove`) say
how a request moves between the three. That `evaluate_session` never skips a
session as unwritten in comes out on the way: its branch is unreachable.
`LateStartersIgnored` assumes that nobody edits the deadline; `LateInv` adds that
whatever is closing, about to be dispatched or swept was started in time, which
holds because the only other change of a deadline, the reset, moves it away. With
an edited deadline it is false: a session dispatched in time becomes a late-starter
when the deadline is moved before its start. Two theorems follow a request and an overdue
session step by step. `RequestsAreWorkedOff`: the place in the queue and the `Effort` left
for the request in work go down with every step of the worker, retries included, and are
left alone by all others, as these add at the end of the queue only; the worker lets go of a
request only with an outcome, or when a statement fails (that of `MarkFailed` may). A
restart loses the queue, as in the code. `OverdueComeUp`: the rounds until a session is a
candidate, and what is left of the round, go down with every step of the sweep, also for
the sessions this round did not find.

`ActivityNoticesProofs` proves the four invariants of `ActivityNotices!Spec`, for
any finite set of students, any number of tabs and events and any horizon.
`UnreadBounded` rests on `PlacesHeld`: a tab that found no row holds a place of its own, so
rows and tabs about to insert stay within the number of tabs. `MailedOnce` rests on
`MailsKept`: a marker that is not set, or a mail that is pending, counts as one mail
still to come, and only a reset clears a marker. `RemindersAimed` rests on
`AimedInv`: the time of a scan is not after the clock, so that whoever closes later has
closed no earlier than the scan. `SummariesComeUp` counts what lies between a due summary
and its marker: the rare events left, the legs of the tick, the students of the leg. A
failing scan or a restart throws the worker back a leg, but uses up an event.

`ActivityFilesProofs` proves the four invariants of `ActivityFiles!Spec`, for any
finite sets of files and requests, any limit and any number of failures. None but
`TypeOK` is inductive, and each has a strengthening of its own: `ListedStored` needs
that a request about to confirm a file has found its object (`FoundStored`);
`LimitNearlyKept` counts the places taken, rows and requests that have counted but
not yet inserted (`PlacesKept`), which only a request that finds a free place
adds to, so that at most one row per request but the first exceeds the limit;
`LeftoversExplained` needs that an object that is back while its deletion is
between store and row is astray (`DeletedAstray`).

Assumed throughout is what the modules state about their constants: among them
that tabs and students are finite sets and that the first deadline has a place on the
clock (`DeadlineAssumption`; a later one is the last place, which stands for none).

Only model-checked is liveness: `ClosureEndsHandler`, `PendingSettles`, `OverdueIsSwept`,
`DeadlineSummarized` and `TurnEnds`, as liveness under fairness and `ENABLED` are out of
TLAPS's reach. What is proved of them is the part that is about steps
(`ClosuresComeToAnEnd`, `RequestsAreWorkedOff`, `OverdueComeUp`, `SummariesComeUp`,
`TurnsRunOut`): each names a distance in a well-founded order that the steps of the fair
party lower and nobody else raises. What is left to TLC is that this party always has a
step to take and, by fairness, takes it; `ClosuresNeedNobody` says of the conversation
where that step is. Every distance and every strengthened invariant was model-checked with
the constants of the runs before it was proved. Where a proof needs an induction over
numbers it takes a least element instead (`NatLessThanWellFounded`). Nothing is claimed of
two connections of a session at once beyond `TypeOK`, `NoNeedlessRepeat` and
`QuestionFits`.

## Where code and comments disagree

Violation runs, each with the shortest behaviour TLC finds:

- `life_double_dispatch`: the sweep's guard is a read, not a compare-and-swap: with
  the wrap-up between its read and its commit the session is queued twice
  (`deadline_reminders.py:147-149`). The second evaluation may fail and mark an
  evaluated session `EVALUATION_FAILED`.
- `notices_cohort`: sweep and summary sample the clock separately; when the deadline
  passes in between, the teacher is told that a student missed it whom the next
  sweep finalizes on time (`deadline_reminders.py:72-75`).

Disagreements with a comment that the models show, not given a run:

- The greeting's empty text is an attempt to the extractor, so a first message asking
  how it is done can trip the pivot that `scores.py:33-35` reserves for shown effort
  (`PolicyScores!GreetingSignals`).
- A message interrupted after its rows were saved is bundled and stored again; the
  comment speaks of no orphan rows (`session.py:509-510`).
- A barge-in during the spoken farewell leaves the session unfinalized, though "the
  farewell is never orphaned" (`session.py:754-755`).
- A frame received between the commit of `finalized_at` and `_should_close` starts a
  turn on a finalized session, which `session.py:467-469` means to exclude.
- A session closed after the deadline is excluded by the wrap-up and then backdated
  and queued by the next sweep (`session.py:364-366`).
- `notifications.py:8-9` has "new_activity" fire when a teacher publishes an
  activity; only the creation of a published one announces it, a draft that is
  published later (`update_activity`) does not.
- "At most one unread row alive at a time" (`notifications.py:6-7`): two tabs that
  close at once leave two, and every later touch of them raises until they are read.
- `bank.py:8-9` says the selector rotates through the wordings of a question; it takes
  the first, always. Its tag `requires_attempt` ("only fire when attempt_present",
  line 14) is ignored once everything else has been asked, its round robin is the
  first question each time, and the bank announces 35 questions and has 31.
- `audio_stream.py:119-120` lets a client see a sentence without audio as a gap; when
  it is the last one, the correction takes its number.

Seen in the models and not given a run of their own:

- With `MayAbandon = TRUE` a barge-in drops the cooldown of a pivot the student has
  already received, so that the next turn may fire it again. `RecoveryConverges`
  fails too: the signals of an interrupted turn stay in the window and its text is
  counted again in the bundle.
- The closure directive is appended after the pivot has replaced the stack, so one
  prompt can order to ask one question and to ask none.
- After `cancel_turn` both the agent's finally block and the handler of
  `CancelledError` may store the partial answer.
- After a disconnection the wrap-up does not wait for the turn, and serializes the
  policy state of before it. `ChatTurn` takes the read and the commit as two steps and
  leaves open when the UPDATE reaches the database, so that there the older state may
  come last. With SQLAlchemy's default autoflush (`core/database.py:107-111` leaves it on) the
  UPDATE is sent by the next query, `session.py:367`, and its row lock keeps the turn's
  write behind it: `QuestionSelection` takes them as one step, and `Remembered` holds,
  and is proved, for one connection.
- A restart loses the queue, and nothing looks for `PENDING_EVALUATION` rows: such
  a session waits until an administrator asks again (`MayLose` in `SessionStatus`).
- With two connections of a session at once, or one that resumes while a turn of
  the one before lingers, the older snapshot may be written last: `Remembered` fails
  with `Conn = {c1, c2}`.
- Editing the deadline of a draft leaves the markers of the old one set, so there is
  neither a reminder nor a summary of the new one. The reminder checks its marker
  again before it sends, not the deadline or the status.
- Step 4 cuts the correction out of the new text at the length of the old one, from
  which the interceptor has stripped trailing blanks: when an answer ends in more
  than two, the question loses its first characters (`AlwaysAsks` excludes this case).
- The rhetorical interceptor may append the pivot's placeholder text to an answer;
  a planned question that is itself closed may be appended twice.
- A call retried without its cache loses `thinking_config` (`gemini.py:394-398`).
- A sentinel that does not end an answer is shown in a turn that may not close; one
  that does is taken out of what is sent, not of what is stored.
- Requests that count at the same time pass the limit of files. A file that is never
  uploaded keeps its place and is not listed. Deleting an activity leaves its objects
  in the store, as does writing one after its deletion. A file may change after the
  activity was published, as the status is read once.

## Not modelled

The regular expressions of the extractors and interceptors and the prompts (texts,
not states); wordings of questions, notifications and mails; the evidence registry (a
table); speech to text and RAG (one call each, seen as an await of the caller); the
evaluation call's cache and the rubric it fills; token checks and connection strings;
the routers that only read, and those of courses and students but for enrolment; the
transcript column and cross-session memory; schema versions of the policy snapshot
and the metrics collector (which is not part of it: a resumed connection starts
its counters anew); the stateless mode of a connection without an activity UUID;
scripts, migrations and deployment.

## Plan

Done, in this order: policy stages and engine with their proofs, the conversation,
the session lifecycle with its abstract specification; notices, answer stream,
question selection, files with their proofs; the refinement and the proofs of the
notices; the proofs of the conversation, of question selection and of the answer
stream, with the speech; the distances of the five liveness properties. Next:

1. The transcript column, with the duplicate rows of two connections.
2. The order of rows that an abandoned generator stores late.
