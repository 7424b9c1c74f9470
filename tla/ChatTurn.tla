------------------------------ MODULE ChatTurn ------------------------------
(***************************************************************************)
(* One WebSocket conversation: the receive loop, the turn it runs as a     *)
(* background task, and what both leave in the database                    *)
(* (src/api/session.py, src/orchestration/agent.py).                       *)
(*                                                                         *)
(* Everything runs on one event loop, so an action is what happens between *)
(* two awaits: a turn's pc names the await it is suspended in, the loop's  *)
(* state the await of the receive loop.  Task.cancel() raises at the await *)
(* the turn is suspended in; a commit it interrupts may have landed.       *)
(*                                                                         *)
(* A message is its number.  A turn answers a set of messages: its own     *)
(* and, after interruptions, those carried forward into it.                *)
(***************************************************************************)
EXTENDS Integers, Sequences, FiniteSets

CONSTANTS
  Messages,    \* bound: message frames the client sends
  Prior,       \* rows of the conversation that is resumed; 0 for a fresh one
  Overlap,     \* the client may send while a turn runs
  BargeIn,     \* the client may send cancel_turn
  Leaves,      \* the connection may drop, or idle out, at any time
  DbMayFail    \* a database statement may fail

ASSUME MessagesAssumption == Messages \in Nat
ASSUME PriorAssumption == Prior \in Nat
ASSUME FlagsAssumption == {Overlap, BargeIn, Leaves, DbMayFail} \subseteq BOOLEAN

Message == 1 .. Messages
Turn == 0 .. Messages     \* turn 0 is the greeting, which answers no message

(***************************************************************************)
(* How the policy classes a turn: its evaluation failed (no decision), it  *)
(* is below CLOSURE_MIN_TURNS, past it, or past it and closure-eligible.   *)
(***************************************************************************)
Class == {"degraded", "early", "late", "eligible"}

PC == {"none", "history", "agent", "llm", "emit", "saveUser", "saveModel", "speak",
       "farewell", "persist", "finish", "commit", "announce", "closing", "partial", "done"}

Loop == {"greeting", "top", "receive", "interrupting", "acked", "cancelling", "idling",
         "draining", "wrapup", "wrapping", "ended"}

VARIABLES
  loop,          \* the await of run() and _conversation_loop
  last,          \* _active_turn_task: the newest turn
  received,      \* message frames received; the newest is user_text
  prefix,        \* _pending_prefix
  interrupting,  \* _interrupt_requested
  shouldClose,   \* _should_close
  socket,        \* the connection: open, dropped by the client, closed by us
  turn,          \* the turns' tasks
  orphan,        \* agent generators left suspended by a turn that ended
  rows,          \* chat_messages of the session, oldest first
  policy,        \* version of the in-memory policy state
  stored,        \* version in ChatSession.policy_state
  finalized,     \* finalized_at is set
  dispatched,    \* PENDING_EVALUATION was set by the wrap-up
  wrap,          \* what the wrap-up read: [policy, finalized]
  (* history, read by the properties only *)
  answered,      \* messages the client was told about: error or cancelled
  confirmed,     \* turns whose done frame was sent
  silenced       \* turns interrupted while the model was streaming

clientVars == <<received, socket>>
loopVars == <<loop, last, prefix, interrupting>>
wrapVars == <<wrap, dispatched>>
dbVars == <<rows, stored, finalized>>
historyVars == <<answered, confirmed, silenced>>
vars == <<loop, last, received, prefix, interrupting, shouldClose, socket, turn, orphan,
          rows, policy, stored, finalized, dispatched, wrap, answered, confirmed, silenced>>

Row == [role : {"user"}, turn : Turn, text : (SUBSET Message) \ {{}}, mark : {"whole"}]
       \cup [role : {"model"}, turn : Turn, text : {{}}, mark : {"whole", "cut", "farewell"}]

\* got: 0 nothing streamed, 1 only text held back for the sentinel check, 2 text delivered
TurnRecord ==
  [pc : PC, text : SUBSET Message, class : Class, got : 0 .. 2, exit : {"end", "fail", "cancel"},
   sentinel : BOOLEAN, farewell : BOOLEAN, cancel : BOOLEAN, snap : 0 .. Messages + 1]

NoTurn == [pc |-> "none", text |-> {}, class |-> "degraded", got |-> 0, exit |-> "end",
           sentinel |-> FALSE, farewell |-> FALSE, cancel |-> FALSE, snap |-> 0]

Running == turn[last].pc # "done"
At(t, pc) == turn[t].pc = pc /\ ~turn[t].cancel

(* Of a turn that is over only what it answered and produced matters *)
Moved(r, pc) ==
  IF pc = "done"
  THEN [NoTurn EXCEPT !.pc = pc, !.text = r.text, !.got = r.got, !.farewell = r.farewell]
  ELSE [r EXCEPT !.pc = pc, !.cancel = FALSE]
Go(t, pc) == turn' = [turn EXCEPT ![t] = Moved(@, pc)]

CLOSURE_MIN_TURNS == 4
TurnCount == (Prior + Len(rows)) \div 2

-----------------------------------------------------------------------------
(* What a turn writes to the database *)

(* Slip: the guard `if user_query` is dropped *)
AddUserRowAlways(t) ==
  rows' = Append(rows, [role |-> "user", turn |-> t, text |-> turn[t].text, mark |-> "whole"])

(* _persist_user_message, for a turn that answers a message *)
AddUserRow(t) ==
  rows' = IF turn[t].text = {} THEN rows
          ELSE Append(rows, [role |-> "user", turn |-> t, text |-> turn[t].text, mark |-> "whole"])

(* Slip: nothing is stored for a client that has left *)
AddModelRowIfConnected(t, mark) ==
  rows' = IF turn[t].got = 0 \/ socket # "open" THEN rows
          ELSE Append(rows, [role |-> "model", turn |-> t, text |-> {}, mark |-> mark])

(* _persist_model_response and save_partial_response; "cut" is " [Interrupted]" *)
AddModelRow(t, mark) ==
  rows' = IF turn[t].got = 0 THEN rows
          ELSE Append(rows, [role |-> "model", turn |-> t, text |-> {}, mark |-> mark])

(* Step 7: finalized_at, and the newest model row of an eligible turn rewritten *)
Finalize(t) ==
  LET model == {i \in DOMAIN rows : rows[i].role = "model"}
  IN /\ finalized' = TRUE
     /\ rows' = IF turn[t].class # "eligible" \/ model = {} THEN rows
                ELSE [rows EXCEPT ![CHOOSE i \in model : \A j \in model : j <= i].mark = "farewell"]

-----------------------------------------------------------------------------
(***************************************************************************)
(* A turn: _process_turn and, inside it, the agent's generator.            *)
(***************************************************************************)

(* Steps 1 and 2; an evaluation that fails leaves the turn without a decision *)
Evaluate(t) ==
  /\ At(t, "history")
  /\ \E c \in Class :
       /\ c = "degraded" => DbMayFail
       /\ c = "early" => TurnCount < CLOSURE_MIN_TURNS
       /\ c \in {"late", "eligible"} => TurnCount >= CLOSURE_MIN_TURNS
       /\ turn' = [turn EXCEPT ![t].pc = "agent", ![t].class = c]
  /\ UNCHANGED <<clientVars, loopVars, shouldClose, orphan, dbVars, policy, wrapVars, historyVars>>

(* History, cross-chat memory and retrieval are loaded; the model is asked *)
OpenStream(t) ==
  /\ At(t, "agent")
  /\ Go(t, "llm")
  /\ UNCHANGED <<clientVars, loopVars, shouldClose, orphan, dbVars, policy, wrapVars, historyVars>>

(* PermissionError or RuntimeError before the model is asked: an error frame *)
AgentFails(t) ==
  /\ At(t, "agent")
  /\ Go(t, "done")
  /\ answered' = answered \cup turn[t].text
  /\ UNCHANGED <<clientVars, loopVars, shouldClose, orphan, dbVars, policy, wrapVars,
                 confirmed, silenced>>

(***************************************************************************)
(* A chunk.  Eligible turns are buffered; others hold back a tail that may *)
(* be the sentinel and pass on the rest, suspending the generator while    *)
(* the text is sent and its audio synthesized.                             *)
(***************************************************************************)
Chunk(t) ==
  /\ At(t, "llm")
  /\ \/ /\ turn[t].class = "eligible"
        /\ turn' = [turn EXCEPT ![t].got = 2]
     \/ /\ turn[t].class # "eligible" /\ turn[t].got = 0
        /\ turn' = [turn EXCEPT ![t].got = 1]
     \/ /\ turn[t].class # "eligible"
        /\ turn' = [turn EXCEPT ![t].got = 2, ![t].pc = "emit"]
  /\ UNCHANGED <<clientVars, loopVars, shouldClose, orphan, dbVars, policy, wrapVars, historyVars>>

Emit(t) ==
  /\ At(t, "emit")
  /\ Go(t, "llm")
  /\ UNCHANGED <<clientVars, loopVars, shouldClose, orphan, dbVars, policy, wrapVars, historyVars>>

(* "client dropped mid-stream": the turn returns, its generator still suspended *)
HaltEmit(t) ==
  /\ At(t, "emit")
  /\ socket # "open"
  /\ Go(t, "done")
  /\ orphan' = [orphan EXCEPT ![t] = "suspended"]
  /\ UNCHANGED <<clientVars, loopVars, shouldClose, dbVars, policy, wrapVars, historyVars>>

(***************************************************************************)
(* The model's stream ends, or fails with a RuntimeError; either way the   *)
(* finally block of _stream_and_persist saves.  (Its interrupt_check is    *)
(* false here: the flag is up only while the loop awaits a cancelled turn.)*)
(***************************************************************************)
StreamEnds(t) ==
  /\ At(t, "llm")
  /\ \/ \E s \in BOOLEAN :
          /\ s => turn[t].got > 0
          /\ turn' = [turn EXCEPT ![t].pc = "saveUser", ![t].sentinel = s]
     \/ turn' = [turn EXCEPT ![t].pc = "saveUser", ![t].exit = "fail"]
  /\ UNCHANGED <<clientVars, loopVars, shouldClose, orphan, dbVars, policy, wrapVars, historyVars>>

SaveUser(t) ==
  /\ At(t, "saveUser")
  /\ AddUserRow(t)
  /\ Go(t, "saveModel")
  /\ UNCHANGED <<clientVars, loopVars, shouldClose, orphan, stored, finalized, policy, wrapVars,
                 historyVars>>

(* The failure leaves _process_turn by no handler: the task dies, only logged *)
SaveUserFails(t) ==
  /\ DbMayFail
  /\ At(t, "saveUser") /\ turn[t].text # {}
  /\ Go(t, "done")
  /\ UNCHANGED <<clientVars, loopVars, shouldClose, orphan, dbVars, policy, wrapVars, historyVars>>

(* accumulated and not self._interrupt_requested, in the CancelledError handler *)
HandlerPC(r) == IF r.got = 2 /\ ~interrupting THEN "partial" ELSE "done"

(* The generator ends and _process_turn goes on, with the outcome it left *)
AfterAgent(t) ==
  LET r == turn[t]
      farewell == r.class = "eligible" /\ r.sentinel
  IN CASE r.exit = "end" ->
            /\ turn' = [turn EXCEPT ![t].pc = IF farewell THEN "farewell" ELSE "speak",
                                    ![t].farewell = farewell,
                                    ![t].got = IF r.got = 0 THEN 0 ELSE 2]
            /\ UNCHANGED answered
       [] r.exit = "fail" ->
            /\ Go(t, "done")
            /\ answered' = answered \cup r.text
       [] r.exit = "cancel" ->
            /\ Go(t, HandlerPC(r))
            /\ UNCHANGED answered

SaveModel(t) ==
  /\ At(t, "saveModel")
  /\ \/ AddModelRow(t, IF turn[t].exit = "cancel" THEN "cut" ELSE "whole")
     \/ DbMayFail /\ UNCHANGED rows        \* logged and swallowed
  /\ AfterAgent(t)
  /\ UNCHANGED <<clientVars, loopVars, shouldClose, orphan, stored, finalized, policy, wrapVars,
                 confirmed, silenced>>

(* A chunk of a buffered turn could not be sent: the turn returns *)
HaltSpeak(t) ==
  /\ At(t, "speak")
  /\ socket # "open"
  /\ Go(t, "done")
  /\ UNCHANGED <<clientVars, loopVars, shouldClose, orphan, dbVars, policy, wrapVars, historyVars>>

(***************************************************************************)
(* The last audio, or the farewell's, is out and so is the correction of   *)
(* the interceptors.  Step 5: the decision enters the policy state.        *)
(***************************************************************************)
ApplyDecision(t) ==
  /\ At(t, "speak") \/ At(t, "farewell")
  /\ IF turn[t].class = "degraded"
     THEN Go(t, "finish") /\ UNCHANGED policy
     ELSE /\ policy' = policy + 1
          /\ turn' = [turn EXCEPT ![t].pc = "persist", ![t].snap = policy']
  /\ UNCHANGED <<clientVars, loopVars, shouldClose, orphan, dbVars, wrapVars, historyVars>>

(* _persist_policy_state; a failure is logged and swallowed *)
PersistPolicy(t) ==
  /\ At(t, "persist")
  /\ stored' = turn[t].snap \/ (DbMayFail /\ UNCHANGED stored)
  /\ Go(t, "finish")
  /\ UNCHANGED <<clientVars, loopVars, shouldClose, orphan, rows, finalized, policy, wrapVars,
                 historyVars>>

(* Step 6, the done frame; then Step 7 if the sentinel counts *)
Finish(t) ==
  /\ At(t, "finish")
  /\ confirmed' = confirmed \cup {t}
  /\ Go(t, IF turn[t].sentinel /\ turn[t].class \in {"late", "eligible"} THEN "commit" ELSE "done")
  /\ UNCHANGED <<clientVars, loopVars, shouldClose, orphan, dbVars, policy, wrapVars,
                 answered, silenced>>

(* A failure to persist finalized_at is logged, and the turn goes on all the same *)
CommitFinal(t) ==
  /\ At(t, "commit")
  /\ Finalize(t) \/ (DbMayFail /\ UNCHANGED <<rows, finalized>>)
  /\ Go(t, "announce")
  /\ UNCHANGED <<clientVars, loopVars, shouldClose, orphan, stored, policy, wrapVars, historyVars>>

(* session_complete has been sent *)
Announce(t) ==
  /\ At(t, "announce")
  /\ shouldClose' = TRUE
  /\ Go(t, "closing")
  /\ UNCHANGED <<clientVars, loopVars, orphan, dbVars, policy, wrapVars, historyVars>>

(* Slip: the socket is left open *)
CloseSocketNever(t) ==
  /\ At(t, "closing")
  /\ Go(t, "done")
  /\ UNCHANGED <<clientVars, loopVars, shouldClose, orphan, dbVars, policy, wrapVars, historyVars>>

CloseSocket(t) ==
  /\ At(t, "closing")
  /\ socket' = IF socket = "open" THEN "closed" ELSE socket
  /\ Go(t, "done")
  /\ UNCHANGED <<received, loopVars, shouldClose, orphan, dbVars, policy, wrapVars, historyVars>>

-----------------------------------------------------------------------------
(***************************************************************************)
(* Cancellation: CancelledError is raised at the await the turn is in.     *)
(***************************************************************************)

(* In the model's stream, the agent's finally block runs first *)
CancelStream(t) ==
  /\ turn[t].cancel /\ turn[t].pc = "llm"
  /\ turn' = [turn EXCEPT ![t] =
       IF interrupting THEN Moved(@, "done") ELSE [Moved(@, "saveUser") EXCEPT !.exit = "cancel"]]
  /\ UNCHANGED <<clientVars, loopVars, shouldClose, orphan, dbVars, policy, wrapVars, historyVars>>

(* Outside the generator, which stays suspended at its yield *)
CancelEmit(t) ==
  /\ turn[t].cancel /\ turn[t].pc = "emit"
  /\ Go(t, HandlerPC(turn[t]))
  /\ orphan' = [orphan EXCEPT ![t] = "suspended"]
  /\ UNCHANGED <<clientVars, loopVars, shouldClose, dbVars, policy, wrapVars, historyVars>>

(* Anywhere else; the statement or frame under way may have got through *)
CancelElsewhere(t) ==
  LET pc == turn[t].pc
  IN /\ turn[t].cancel /\ pc \notin {"llm", "emit"}
     /\ Go(t, HandlerPC(turn[t]))
     /\ \/ UNCHANGED <<dbVars, confirmed>>
        \/ pc = "saveUser" /\ AddUserRow(t) /\ UNCHANGED <<stored, finalized, confirmed>>
        \/ pc = "saveModel" /\ AddModelRow(t, "whole") /\ UNCHANGED <<stored, finalized, confirmed>>
        \/ pc = "persist" /\ stored' = turn[t].snap /\ UNCHANGED <<rows, finalized, confirmed>>
        \/ pc = "finish" /\ confirmed' = confirmed \cup {t} /\ UNCHANGED dbVars
        \/ pc = "commit" /\ Finalize(t) /\ UNCHANGED <<stored, confirmed>>
     /\ UNCHANGED <<clientVars, loopVars, shouldClose, orphan, policy, wrapVars, answered, silenced>>

(* save_partial_response, from the CancelledError handler *)
SavePartial(t) ==
  /\ At(t, "partial")
  /\ AddModelRow(t, "cut") \/ (DbMayFail /\ UNCHANGED rows)
  /\ Go(t, "done")
  /\ UNCHANGED <<clientVars, loopVars, shouldClose, orphan, stored, finalized, policy, wrapVars,
                 historyVars>>

(***************************************************************************)
(* A generator left suspended is closed once the turn's frame is gone: its *)
(* finally block runs then, and reads the interrupt flag as it is then.    *)
(***************************************************************************)
CloseOrphan(t) ==
  /\ orphan[t] = "suspended" /\ turn[t].pc = "done"
  /\ orphan' = [orphan EXCEPT ![t] = IF interrupting THEN "none" ELSE "saveUser"]
  /\ UNCHANGED <<clientVars, loopVars, shouldClose, turn, dbVars, policy, wrapVars, historyVars>>

SaveOrphan(t) ==
  /\ \/ /\ orphan[t] = "saveUser"
        /\ AddUserRow(t)
        /\ orphan' = [orphan EXCEPT ![t] = "saveModel"]
     \/ /\ orphan[t] = "saveModel"
        /\ AddModelRow(t, "whole")
        /\ orphan' = [orphan EXCEPT ![t] = "none"]
  /\ UNCHANGED <<clientVars, loopVars, shouldClose, turn, stored, finalized, policy, wrapVars,
                 historyVars>>

-----------------------------------------------------------------------------
(***************************************************************************)
(* run() and _conversation_loop.                                           *)
(***************************************************************************)
GreetingDone ==
  /\ loop = "greeting" /\ turn[0].pc = "done"
  /\ loop' = "top"
  /\ UNCHANGED <<clientVars, last, prefix, interrupting, shouldClose, turn, orphan, dbVars, policy,
                 wrapVars, historyVars>>

LoopTop ==
  /\ loop = "top"
  /\ loop' = IF shouldClose THEN "draining" ELSE "receive"
  /\ UNCHANGED <<clientVars, last, prefix, interrupting, shouldClose, turn, orphan, dbVars, policy,
                 wrapVars, historyVars>>

Drained ==
  /\ loop = "draining" /\ ~Running
  /\ loop' = "wrapup"
  /\ UNCHANGED <<clientVars, last, prefix, interrupting, shouldClose, turn, orphan, dbVars, policy,
                 wrapVars, historyVars>>

(* A frame that raced finalization is ignored *)
IgnoreFrame ==
  /\ loop = "receive" /\ socket = "open" /\ shouldClose
  /\ loop' = "draining"
  /\ UNCHANGED <<clientVars, last, prefix, interrupting, shouldClose, turn, orphan, dbVars, policy,
                 wrapVars, historyVars>>

(* Slip: the text of the interrupted turn is not carried forward *)
SpawnAlone(m) ==
  /\ last' = last + 1
  /\ turn' = [turn EXCEPT ![last + 1] = [NoTurn EXCEPT !.pc = "history", !.text = {m}]]
  /\ prefix' = {}
  /\ interrupting' = FALSE
  /\ loop' = "top"

(* The bundled text becomes a new turn *)
Spawn(m) ==
  /\ last' = last + 1
  /\ turn' = [turn EXCEPT ![last + 1] = [NoTurn EXCEPT !.pc = "history", !.text = prefix \cup {m}]]
  /\ prefix' = {}
  /\ interrupting' = FALSE
  /\ loop' = "top"

ReceiveMessage ==
  /\ loop = "receive" /\ socket = "open" /\ ~shouldClose
  /\ ~Running
  /\ received < Messages
  /\ received' = received + 1
  /\ Spawn(received')
  /\ UNCHANGED <<socket, shouldClose, orphan, dbVars, policy, wrapVars, historyVars>>

(* Slip: no check of _should_close after the receive *)
ReceiveInterruptAnyway ==
  /\ Overlap
  /\ loop = "receive" /\ socket = "open"
  /\ Running
  /\ received < Messages
  /\ received' = received + 1
  /\ interrupting' = TRUE
  /\ prefix' = turn[last].text
  /\ turn' = [turn EXCEPT ![last].cancel = TRUE]
  /\ loop' = "interrupting"
  /\ UNCHANGED <<socket, last, shouldClose, orphan, dbVars, policy, wrapVars, historyVars>>

(* Interrupt-and-bundle: cancel the turn, carry its text forward *)
ReceiveInterrupt ==
  /\ Overlap
  /\ loop = "receive" /\ socket = "open" /\ ~shouldClose
  /\ Running
  /\ received < Messages
  /\ received' = received + 1
  /\ interrupting' = TRUE
  /\ prefix' = turn[last].text
  /\ turn' = [turn EXCEPT ![last].cancel = TRUE]
  /\ silenced' = IF turn[last].pc \in {"history", "agent", "llm"}
                 THEN silenced \cup {last} ELSE silenced
  /\ loop' = "interrupting"
  /\ UNCHANGED <<socket, last, shouldClose, orphan, dbVars, policy, wrapVars, answered, confirmed>>

(* Slip: the cancelled turn is not awaited *)
AwaitInterruptedNot ==
  /\ loop = "interrupting"
  /\ loop' = "acked"
  /\ UNCHANGED <<clientVars, last, prefix, interrupting, shouldClose, turn, orphan, dbVars, policy,
                 wrapVars, historyVars>>

(* The cancelled turn is gone; the interrupted frame is being sent *)
AwaitInterrupted ==
  /\ loop = "interrupting" /\ ~Running
  /\ loop' = "acked"
  /\ UNCHANGED <<clientVars, last, prefix, interrupting, shouldClose, turn, orphan, dbVars, policy,
                 wrapVars, historyVars>>

SpawnBundle ==
  /\ loop = "acked"
  /\ Spawn(received)
  /\ UNCHANGED <<clientVars, shouldClose, orphan, dbVars, policy, wrapVars, historyVars>>

(* cancel_turn; without a running turn it does nothing *)
ReceiveCancel ==
  /\ BargeIn
  /\ loop = "receive" /\ socket = "open" /\ ~shouldClose
  /\ Running
  /\ turn' = [turn EXCEPT ![last].cancel = TRUE]
  /\ loop' = "cancelling"
  /\ UNCHANGED <<clientVars, last, prefix, interrupting, shouldClose, orphan, dbVars, policy,
                 wrapVars, historyVars>>

AwaitCancelled ==
  /\ loop = "cancelling" /\ ~Running
  /\ loop' = "top"
  /\ answered' = answered \cup turn[last].text
  /\ UNCHANGED <<clientVars, last, prefix, interrupting, shouldClose, turn, orphan, dbVars, policy,
                 wrapVars, confirmed, silenced>>

Drop ==
  /\ Leaves
  /\ socket = "open"
  /\ socket' = "dropped"
  /\ UNCHANGED <<received, loopVars, shouldClose, turn, orphan, dbVars, policy, wrapVars, historyVars>>

(* receive_text raises WebSocketDisconnect out of the loop: no drain, no cancel *)
ReceiveDisconnect ==
  /\ loop = "receive" /\ socket # "open"
  /\ loop' = "wrapup"
  /\ UNCHANGED <<clientVars, last, prefix, interrupting, shouldClose, turn, orphan, dbVars, policy,
                 wrapVars, historyVars>>

(* _IDLE_TIMEOUT_SECONDS without a frame: the socket is closed, the turn cancelled *)
IdleTimeout ==
  /\ Leaves
  /\ loop = "receive" /\ socket = "open"
  /\ socket' = "closed"
  /\ turn' = IF Running THEN [turn EXCEPT ![last].cancel = TRUE] ELSE turn
  /\ loop' = "idling"
  /\ UNCHANGED <<received, last, prefix, interrupting, shouldClose, orphan, dbVars, policy,
                 wrapVars, historyVars>>

AwaitIdle ==
  /\ loop = "idling" /\ ~Running
  /\ loop' = "wrapup"
  /\ UNCHANGED <<clientVars, last, prefix, interrupting, shouldClose, turn, orphan, dbVars, policy,
                 wrapVars, historyVars>>

NothingRead == [policy |-> 0, finalized |-> FALSE]

(* _wrap_up_session: the session row is read and the policy state serialized ... *)
WrapUp ==
  /\ loop = "wrapup"
  /\ wrap' = [policy |-> policy, finalized |-> finalized]
  /\ loop' = "wrapping"
  /\ UNCHANGED <<clientVars, last, prefix, interrupting, shouldClose, turn, orphan, dbVars, policy,
                 dispatched, historyVars>>

(* ... and committed, with PENDING_EVALUATION when it is finalized; or it fails *)
WrapUpCommit ==
  /\ loop = "wrapping"
  /\ \/ stored' = wrap.policy /\ dispatched' = wrap.finalized
     \/ DbMayFail /\ UNCHANGED <<stored, dispatched>>
  /\ loop' = "ended"
  /\ wrap' = NothingRead
  /\ UNCHANGED <<clientVars, last, prefix, interrupting, shouldClose, turn, orphan, rows, finalized,
                 policy, historyVars>>

-----------------------------------------------------------------------------
(* A fresh conversation greets; one with rows to resume goes straight to the loop *)
Init ==
  /\ loop = IF Prior = 0 THEN "greeting" ELSE "top"
  /\ turn = [t \in Turn |->
       [NoTurn EXCEPT !.pc = IF t > 0 THEN "none" ELSE IF Prior = 0 THEN "history" ELSE "done"]]
  /\ last = 0 /\ received = 0 /\ prefix = {} /\ interrupting = FALSE /\ shouldClose = FALSE
  /\ socket = "open" /\ orphan = [t \in Turn |-> "none"]
  /\ rows = <<>> /\ policy = 0 /\ stored = 0 /\ finalized = FALSE
  /\ dispatched = FALSE /\ wrap = NothingRead
  /\ answered = {} /\ confirmed = {} /\ silenced = {}

CancelLands(t) == CancelStream(t) \/ CancelEmit(t) \/ CancelElsewhere(t)

(* The steps a turn takes once the model has answered *)
TurnStep(t) ==
  \/ Evaluate(t) \/ OpenStream(t) \/ AgentFails(t)
  \/ Emit(t) \/ HaltEmit(t)
  \/ SaveUser(t) \/ SaveUserFails(t) \/ SaveModel(t)
  \/ HaltSpeak(t) \/ ApplyDecision(t) \/ PersistPolicy(t)
  \/ Finish(t) \/ CommitFinal(t) \/ Announce(t) \/ CloseSocket(t)
  \/ CancelLands(t) \/ SavePartial(t)

ModelStep(t) == Chunk(t) \/ StreamEnds(t)

OrphanStep(t) == CloseOrphan(t) \/ SaveOrphan(t)

ClientStep == ReceiveMessage \/ ReceiveInterrupt \/ ReceiveCancel \/ IgnoreFrame \/ Drop \/ IdleTimeout

LoopStep ==
  \/ GreetingDone \/ LoopTop \/ Drained
  \/ AwaitInterrupted \/ SpawnBundle \/ AwaitCancelled
  \/ ReceiveDisconnect \/ AwaitIdle \/ WrapUp \/ WrapUpCommit

Next ==
  \/ \E t \in Turn : TurnStep(t) \/ ModelStep(t) \/ OrphanStep(t)
  \/ ClientStep \/ LoopStep

Spec == Init /\ [][Next]_vars

(***************************************************************************)
(* The event loop runs every ready task.  Nothing is assumed of the model, *)
(* of the client, of the idle timeout an hour away or of abandoned         *)
(* generators.                                                             *)
(***************************************************************************)
FairSpec == Spec /\ WF_vars(LoopStep) /\ \A t \in Turn : WF_vars(TurnStep(t))

-----------------------------------------------------------------------------
StoredText == UNION {rows[i].text : i \in DOMAIN rows}
OrphanText == UNION {turn[t].text : t \in {u \in Turn : orphan[u] # "none"}}

TypeOK ==
  /\ loop \in Loop /\ last \in Turn /\ received \in 0 .. Messages
  /\ prefix \subseteq Message /\ interrupting \in BOOLEAN /\ shouldClose \in BOOLEAN
  /\ socket \in {"open", "dropped", "closed"}
  /\ turn \in [Turn -> TurnRecord]
  /\ orphan \in [Turn -> {"none", "suspended", "saveUser", "saveModel"}]
  /\ rows \in Seq(Row)
  /\ policy \in 0 .. Messages + 1 /\ stored \in 0 .. Messages + 1 /\ finalized \in BOOLEAN
  /\ dispatched \in BOOLEAN /\ wrap \in [policy : 0 .. Messages + 1, finalized : BOOLEAN]
  /\ answered \subseteq Message /\ confirmed \subseteq Turn /\ silenced \subseteq Turn

(***************************************************************************)
(* No message disappears between turns: while the loop is ready for the    *)
(* next frame, every message it took is stored, carried by the turn that   *)
(* runs, left to an abandoned generator, or was answered with an error or  *)
(* a cancelled frame (interrupt-and-bundle, session.py _conversation_loop).*)
(***************************************************************************)
NoMessageLost ==
  loop \in {"top", "receive"} =>
    1 .. received \subseteq StoredText \cup OrphanText \cup answered
                            \cup (IF Running THEN turn[last].text ELSE {})

(***************************************************************************)
(* A turn interrupted by a new message before its answer is complete, and  *)
(* not in the middle of sending a chunk, leaves no row of its own: the     *)
(* flag the agent reads is still up when the cancellation reaches it       *)
(* (agent.py, "an interrupted turn can leave zero rows").                  *)
(***************************************************************************)
InterruptLeavesNoRow == \A i \in DOMAIN rows : rows[i].turn \notin silenced

(***************************************************************************)
(* What the client saw done is in the transcript: the messages answered    *)
(* and the answer, each under that turn, whatever cancellations and        *)
(* disconnections surround it.                                             *)
(***************************************************************************)
DoneIsDurable ==
  \A t \in confirmed :
    /\ turn[t].text # {} => \E i \in DOMAIN rows : rows[i].turn = t /\ rows[i].role = "user"
    /\ turn[t].got = 2 => \E i \in DOMAIN rows : rows[i].turn = t /\ rows[i].role = "model"

(***************************************************************************)
(* Once the session is armed to close no turn starts, however a frame      *)
(* races the closing turn (session.py, "Finalization raced an inbound").   *)
(***************************************************************************)
NoTurnAfterClose == [][shouldClose => last' = last]_vars

(***************************************************************************)
(* A session that is armed to close gets to the end of its wrap-up, with   *)
(* no further frame from the client and no idle timeout.                   *)
(***************************************************************************)
ClosureEndsHandler == shouldClose ~> loop = "ended"
=============================================================================
