--------------------------- MODULE ChatTurnProofs ---------------------------
(***************************************************************************)
(* Proofs about ChatTurn, for any number of messages and any prior         *)
(* conversation.                                                           *)
(*                                                                         *)
(* At most one turn is alive at a time, the newest, and its record says    *)
(* how far it is; so most of what has to be shown is about one record, and *)
(* the lemmas TurnMoves and LoopMoves say what a step can do to it.  At    *)
(* the end, how a session that is closing comes to its end.                *)
(***************************************************************************)
EXTENDS ChatTurn, TLAPS, WellFoundedInduction

LEMMA Latest ==
  ASSUME NEW n \in Nat, NEW S \in SUBSET (1 .. n), S # {}
  PROVE  \E i \in S : \A j \in S : j <= i
<1> DEFINE T == {n - i : i \in S}
<1>1. T \subseteq Nat /\ T # {}
  <2>1. \A i \in S : i \in Int /\ n - i \in Nat
    OBVIOUS
  <2> QED BY <2>1
<1> HIDE DEF T
<1>2. PICK x \in T : \A y \in T : ~ (<<y, x>> \in OpToRel(<, Nat))
  BY <1>1, NatLessThanWellFounded, WFMin
<1> USE DEF T
<1>3. PICK i \in S : x = n - i
  OBVIOUS
<1>4. ASSUME NEW j \in S PROVE j <= i
  <2>1. ~ (n - j < n - i)
    BY <1>1, <1>2, <1>3 DEF OpToRel
  <2> QED BY <2>1, <1>3
<1> QED BY <1>4

-----------------------------------------------------------------------------
(* The inductive invariants *)

(* A turn that was cancelled and has not ended *)
Cancelled(r) == r.cancel \/ r.pc = "partial" \/ r.exit = "cancel"

Unsaved == {"none", "history", "agent", "llm", "emit"}
Undecided == Unsaved \cup {"saveUser", "saveModel", "speak", "farewell"}
Saved == {"saveModel", "speak", "farewell", "persist", "finish", "commit", "announce", "closing"}

(* The turns before the newest have ended, those after it have not begun *)
TurnsInOrder ==
  /\ \A t \in Turn : (t < last => turn[t].pc = "done") /\ (t > last => turn[t] = NoTurn)
  /\ turn[last].pc # "none"
  /\ last <= received
  /\ loop \in {"interrupting", "acked"} => last < received

(* A turn decides at most once *)
DecidedOnce == policy <= last + 1 /\ (turn[last].pc \in Undecided => policy <= last)

(* Who cancels awaits, and an interruption keeps its flag up until the next turn is there *)
CancelAwaited ==
  /\ \A t \in Turn : Cancelled(turn[t]) =>
       turn[t].pc \notin {"none", "done"} /\ loop \in {"interrupting", "cancelling", "idling"}
  /\ interrupting <=> loop \in {"interrupting", "acked"}
  /\ interrupting => prefix = turn[last].text /\ ~shouldClose
  /\ loop = "interrupting" => turn[last].cancel \/ turn[last].pc = "done"
  /\ loop = "acked" => turn[last].pc = "done"

TurnInv == TypeOK /\ TurnsInOrder /\ DecidedOnce /\ CancelAwaited

RowsOf(t) == {i \in DOMAIN rows : rows[i].turn = t}
RowsOfRole(t, role) == {i \in RowsOf(t) : rows[i].role = role}

-----------------------------------------------------------------------------
(* What one step does to a turn *)

Moves(t, r) ==
  /\ r \in TurnRecord /\ turn' = [turn EXCEPT ![t] = r]
  /\ turn[t].pc \notin {"none", "done"} /\ r.pc # "none"
  /\ r.text = turn[t].text
  /\ r.pc = "done" => ~Cancelled(r)
  /\ Cancelled(r) => Cancelled(turn[t]) 
  /\ r.pc \in Undecided => turn[t].pc \in Undecided
  /\ interrupting /\ turn[t].cancel => r.pc = "done"
  /\ UNCHANGED <<loop, last, received, prefix, interrupting>>

LEMMA RecordFields ==
  ASSUME NEW r \in TurnRecord
  PROVE  /\ r.pc \in PC /\ r.text \in SUBSET Message /\ r.class \in Class /\ r.got \in 0 .. 2
         /\ r.exit \in {"end", "fail", "cancel"} /\ r.sentinel \in BOOLEAN
         /\ r.farewell \in BOOLEAN /\ r.cancel \in BOOLEAN /\ r.snap \in 0 .. Messages + 1
BY DEF TurnRecord

(* A record that has moved on *)
LEMMA MovedOn ==
  ASSUME NEW r \in TurnRecord, NEW pc \in PC
  PROVE  /\ Moved(r, pc) \in TurnRecord /\ Moved(r, pc).pc = pc
         /\ Moved(r, pc).text = r.text /\ Moved(r, pc).got = r.got /\ ~Moved(r, pc).cancel
         /\ Moved(r, pc).exit = IF pc = "done" THEN "end" ELSE r.exit
         /\ pc # "done" => /\ Moved(r, pc).class = r.class /\ Moved(r, pc).snap = r.snap
                           /\ Moved(r, pc).sentinel = r.sentinel
<1>1. CASE pc = "done"
  <2>1. Moved(r, pc) = [pc |-> pc, text |-> r.text, class |-> "degraded", got |-> r.got, exit |-> "end",
                        sentinel |-> FALSE, farewell |-> r.farewell, cancel |-> FALSE, snap |-> 0]
    BY <1>1 DEF Moved, NoTurn
  <2>2. Moved(r, pc) \in TurnRecord
    <3>1. "degraded" \in Class /\ 0 \in 0 .. Messages + 1
      BY MessagesAssumption DEF Class
    <3> QED BY <2>1, <3>1 DEF TurnRecord
  <2> QED BY <1>1, <2>1, <2>2
<1>2. CASE pc # "done"
  <2>1. Moved(r, pc) = [pc |-> pc, text |-> r.text, class |-> r.class, got |-> r.got, exit |-> r.exit,
                        sentinel |-> r.sentinel, farewell |-> r.farewell, cancel |-> FALSE,
                        snap |-> r.snap]
    BY <1>2 DEF Moved, TurnRecord
  <2>2. Moved(r, pc) \in TurnRecord
    BY <2>1 DEF TurnRecord
  <2> QED BY <1>2, <2>1, <2>2
<1> QED BY <1>1, <1>2

LEMMA GoMoves ==
  ASSUME TypeOK, NEW t \in Turn, NEW pc \in PC, Go(t, pc),
         turn[t].pc \notin {"none", "done"}, pc # "none",
         pc = "partial" => Cancelled(turn[t]),
         pc \in Undecided => turn[t].pc \in Undecided,
         interrupting /\ turn[t].cancel => pc = "done",
         UNCHANGED <<loop, last, received, prefix, interrupting>>
  PROVE  Moves(t, Moved(turn[t], pc))
<1>1. turn[t] \in TurnRecord
  BY DEF TypeOK
<1>2. turn' = [turn EXCEPT ![t] = Moved(turn[t], pc)]
  BY DEF Go
<1> QED BY <1>1, <1>2, MovedOn DEF Moves, Cancelled

(* A turn that has begun and not ended is the newest *)
LEMMA AliveIsLast ==
  ASSUME TurnInv, NEW t \in Turn, turn[t].pc \notin {"none", "done"}
  PROVE  t = last
BY DEF TurnInv, TypeOK, TurnsInOrder, NoTurn, Turn

LEMMA AnswerGiven ==
  ASSUME NEW r \in TurnRecord, NEW pc \in PC, NEW b \in BOOLEAN, NEW got \in 0 .. 2
  PROVE  [r EXCEPT !.pc = pc, !.farewell = b, !.got = got] \in TurnRecord
<1>1. PICK s : s = [r EXCEPT !.pc = pc, !.farewell = b, !.got = got]
  OBVIOUS
<1>2. s = [pc |-> pc, text |-> r.text, class |-> r.class, got |-> got, exit |-> r.exit,
           sentinel |-> r.sentinel, farewell |-> b, cancel |-> r.cancel, snap |-> r.snap]
  BY <1>1 DEF TurnRecord
<1>3. s \in TurnRecord
  BY <1>2 DEF TurnRecord
<1> QED BY <1>1, <1>3

(* Every step of a turn *)
LEMMA TurnMoves ==
  ASSUME TurnInv, NEW t \in Turn, TurnStep(t) \/ ModelStep(t)
  PROVE  \E s : Moves(t, s)
<1> DEFINE r == turn[t]
<1>0. TypeOK
  BY DEF TurnInv
<1>r. r \in TurnRecord /\ turn \in [Turn -> TurnRecord] /\ last \in Nat /\ t \in Nat
  BY <1>0 DEF TypeOK, Turn
<1>g. /\ HandlerPC(r) \in {"partial", "done"} /\ HandlerPC(r) \in PC
      /\ interrupting => HandlerPC(r) = "done"
  BY DEF HandlerPC, PC
<1>p. PC = {"none", "history", "agent", "llm", "emit", "saveUser", "saveModel", "speak",
            "farewell", "persist", "finish", "commit", "announce", "closing", "partial", "done"}
  BY DEF PC
<1> USE DEF At, clientVars, loopVars
<1>1. CASE Evaluate(t)
  <2>1. PICK c \in Class : turn' = [turn EXCEPT ![t] = [r EXCEPT !.pc = "agent", !.class = c]]
    BY <1>1, <1>r DEF Evaluate
  <2> DEFINE s == [r EXCEPT !.pc = "agent", !.class = c]
  <2>2. s \in TurnRecord /\ s.pc = "agent" /\ s.text = r.text /\ s.exit = r.exit /\ s.cancel = r.cancel
    BY <1>r, <1>p DEF TurnRecord
  <2> QED BY <1>1, <2>1, <2>2 DEF Evaluate, Moves, Cancelled, Undecided, Unsaved
<1>2. CASE OpenStream(t)
  BY <1>2, <1>p, <1>0, GoMoves DEF OpenStream, Undecided, Unsaved
<1>3. CASE AgentFails(t)
  BY <1>3, <1>p, <1>0, GoMoves DEF AgentFails, Undecided, Unsaved
<1>4. CASE Emit(t)
  BY <1>4, <1>p, <1>0, GoMoves DEF Emit, Undecided, Unsaved
<1>5. CASE HaltEmit(t)
  BY <1>5, <1>p, <1>0, GoMoves DEF HaltEmit, Undecided, Unsaved
<1>6. CASE SaveUser(t)
  BY <1>6, <1>p, <1>0, GoMoves DEF SaveUser, Undecided, Unsaved
<1>7. CASE SaveUserFails(t)
  BY <1>7, <1>p, <1>0, GoMoves DEF SaveUserFails, Undecided, Unsaved
<1>8. CASE SaveModel(t)
  <2>1. CASE r.exit = "end"
    <3> DEFINE farewell == r.class = "eligible" /\ r.sentinel
    <3>a. PICK pc \in {"farewell", "speak"}, got \in 0 .. 2 :
            /\ pc = IF farewell THEN "farewell" ELSE "speak"
            /\ got = IF r.got = 0 THEN 0 ELSE 2
      BY <1>r DEF TurnRecord
    <3>e. PICK b : b = farewell
      OBVIOUS
    <3>s. PICK s : s = [r EXCEPT !.pc = pc, !.farewell = b, !.got = got]
      OBVIOUS
    <3>1. turn' = [turn EXCEPT ![t] = s]
      BY <1>8, <1>r, <2>1, <3>a, <3>e, <3>s DEF SaveModel, AfterAgent
    <3>f. b \in BOOLEAN
      BY <3>e
    <3> HIDE DEF farewell
    <3>c. pc \in PC
      BY <1>p
    <3>d. s \in TurnRecord
      BY <1>r, <3>c, <3>f, <3>s, AnswerGiven
    <3>2. s.pc = pc /\ s.text = r.text /\ s.exit = r.exit /\ s.cancel = r.cancel
      BY <1>r, <3>s DEF TurnRecord
    <3> QED BY <1>8, <3>1, <3>2, <3>d DEF SaveModel, Moves, Cancelled, Undecided, Unsaved
  <2>2. CASE r.exit = "fail"
    BY <1>8, <1>p, <2>2, <1>0, GoMoves DEF SaveModel, AfterAgent, Undecided, Unsaved
  <2>3. CASE r.exit = "cancel"
    BY <1>8, <1>g, <2>3, <1>0, GoMoves DEF SaveModel, AfterAgent, Undecided, Unsaved, Cancelled
  <2> QED BY <1>r, <2>1, <2>2, <2>3 DEF TurnRecord
<1>9. CASE HaltSpeak(t)
  BY <1>9, <1>p, <1>0, GoMoves DEF HaltSpeak, Undecided, Unsaved
<1>10. CASE ApplyDecision(t)
  <2>1. CASE r.class = "degraded"
    BY <1>10, <1>p, <2>1, <1>0, GoMoves DEF ApplyDecision, Undecided, Unsaved
  <2>2. CASE r.class # "degraded"
    <3> DEFINE s == [r EXCEPT !.pc = "persist", !.snap = policy']
    <3>1. turn' = [turn EXCEPT ![t] = s]
      BY <1>10, <1>r, <2>2 DEF ApplyDecision
    <3>a. t = last /\ r.pc \in Undecided
      BY <1>10, AliveIsLast DEF ApplyDecision, Undecided
    <3>2. policy' \in 0 .. Messages + 1
      BY <1>10, <1>0, <2>2, <3>a, MessagesAssumption DEF ApplyDecision, TypeOK, TurnInv, DecidedOnce, Turn
    <3>3. /\ s \in TurnRecord /\ s.pc = "persist" /\ s.text = r.text
          /\ s.exit = r.exit /\ s.cancel = r.cancel
      BY <1>r, <1>p, <3>2 DEF TurnRecord
    <3> QED BY <1>10, <3>1, <3>3 DEF ApplyDecision, Moves, Cancelled, Undecided, Unsaved
  <2> QED BY <2>1, <2>2
<1>11. CASE PersistPolicy(t)
  BY <1>11, <1>p, <1>0, GoMoves DEF PersistPolicy, Undecided, Unsaved
<1>12. CASE Finish(t)
  BY <1>12, <1>p, <1>0, GoMoves DEF Finish, Undecided, Unsaved
<1>13. CASE CommitFinal(t)
  BY <1>13, <1>p, <1>0, GoMoves DEF CommitFinal, Undecided, Unsaved
<1>14. CASE Announce(t)
  BY <1>14, <1>p, <1>0, GoMoves DEF Announce, Undecided, Unsaved
<1>15. CASE CloseSocket(t)
  BY <1>15, <1>p, <1>0, GoMoves DEF CloseSocket, Undecided, Unsaved
<1>16. CASE CancelStream(t)
  <2>1. CASE interrupting
    BY <1>16, <1>p, <1>0, <2>1, GoMoves DEF CancelStream, Go, Undecided, Unsaved
  <2>2. CASE ~interrupting
    <3> DEFINE s == [Moved(r, "saveUser") EXCEPT !.exit = "cancel"]
    <3>1. turn' = [turn EXCEPT ![t] = s]
      BY <1>16, <2>2 DEF CancelStream
    <3>2. Moved(r, "saveUser") \in TurnRecord /\ Moved(r, "saveUser").pc = "saveUser"
          /\ Moved(r, "saveUser").text = r.text
      BY <1>r, <1>p, MovedOn
    <3>3. s \in TurnRecord /\ s.pc = "saveUser" /\ s.text = r.text
      BY <3>2 DEF TurnRecord
    <3> QED BY <1>16, <2>2, <3>1, <3>3 DEF CancelStream, Moves, Cancelled, Undecided, Unsaved
  <2> QED BY <2>1, <2>2
<1>17. CASE CancelEmit(t)
  BY <1>17, <1>g, <1>0, GoMoves DEF CancelEmit, Undecided, Unsaved, Cancelled
<1>18. CASE CancelElsewhere(t)
  <2>1. Cancelled(r) /\ r.pc \notin {"none", "done"}
    BY <1>18 DEF CancelElsewhere, Cancelled, TurnInv, CancelAwaited
  <2> QED BY <1>18, <1>g, <1>0, <2>1, GoMoves DEF CancelElsewhere, Undecided, Unsaved
<1>19. CASE SavePartial(t)
  BY <1>19, <1>p, <1>0, GoMoves DEF SavePartial, Undecided, Unsaved
<1>20. CASE Chunk(t)
  <2>1. PICK s \in {[r EXCEPT !.got = 2], [r EXCEPT !.got = 1], [r EXCEPT !.got = 2, !.pc = "emit"]} :
           turn' = [turn EXCEPT ![t] = s]
    BY <1>20, <1>r DEF Chunk
  <2> DEFINE Fits(x) == /\ x \in TurnRecord /\ x.pc \in {r.pc, "emit"} /\ x.text = r.text
                        /\ x.exit = r.exit /\ x.cancel = r.cancel
  <2>a. Fits([r EXCEPT !.got = 2]) /\ Fits([r EXCEPT !.got = 1])
    BY <1>r, <1>p DEF TurnRecord
  <2>b. Fits([r EXCEPT !.got = 2, !.pc = "emit"])
    <3>1. "emit" \in PC /\ 2 \in 0 .. 2
      BY <1>p
    <3> QED BY <1>r, <3>1 DEF TurnRecord
  <2>2. Fits(s)
    BY <2>1, <2>a, <2>b
  <2> QED BY <1>20, <2>1, <2>2 DEF Chunk, Moves, Cancelled, Undecided, Unsaved
<1>21. CASE StreamEnds(t)
  <2>1. PICK s \in {[r EXCEPT !.pc = "saveUser", !.sentinel = TRUE],
                    [r EXCEPT !.pc = "saveUser", !.sentinel = FALSE],
                    [r EXCEPT !.pc = "saveUser", !.exit = "fail"]} :
           turn' = [turn EXCEPT ![t] = s]
    BY <1>21, <1>r DEF StreamEnds
  <2> DEFINE Fits(x) == /\ x \in TurnRecord /\ x.pc = "saveUser" /\ x.text = r.text
                        /\ x.exit \in {r.exit, "fail"} /\ x.cancel = r.cancel
  <2>a. \A b \in BOOLEAN : Fits([r EXCEPT !.pc = "saveUser", !.sentinel = b])
    BY <1>r, <1>p DEF TurnRecord
  <2>b. Fits([r EXCEPT !.pc = "saveUser", !.exit = "fail"])
    BY <1>r, <1>p DEF TurnRecord
  <2>2. Fits(s)
    BY <2>1, <2>a, <2>b
  <2> QED BY <1>21, <2>1, <2>2 DEF StreamEnds, Moves, Cancelled, Undecided, Unsaved
<1> QED BY <1>1, <1>2, <1>3, <1>4, <1>5, <1>6, <1>7, <1>8, <1>9, <1>10, <1>11, <1>12, <1>13, <1>14,
           <1>15, <1>16, <1>17, <1>18, <1>19, <1>20, <1>21 DEF TurnStep, ModelStep, CancelLands

-----------------------------------------------------------------------------
(* What one step writes *)

(* Rows are only added, by this turn, and of the others only a mark changes *)
RowsGrow(t) ==
  /\ rows' \in Seq(Row) /\ DOMAIN rows \subseteq DOMAIN rows'
  /\ \A i \in DOMAIN rows : /\ rows'[i].turn = rows[i].turn /\ rows'[i].role = rows[i].role
                            /\ rows'[i].text = rows[i].text
  /\ \A i \in DOMAIN rows' \ DOMAIN rows : rows'[i].turn = t

LEMMA RowAppended ==
  ASSUME TypeOK, NEW t \in Turn, NEW row \in Row, row.turn = t, rows' = Append(rows, row)
  PROVE  RowsGrow(t)
<1>1. rows \in Seq(Row)
  BY DEF TypeOK
<1>2. /\ rows' \in Seq(Row) /\ DOMAIN rows = 1 .. Len(rows) /\ DOMAIN rows' = 1 .. Len(rows) + 1
      /\ \A i \in 1 .. Len(rows) : rows'[i] = rows[i]
      /\ rows'[Len(rows) + 1] = row /\ Len(rows) \in Nat
  BY <1>1
<1> QED BY <1>2 DEF RowsGrow

LEMMA UserRow ==
  ASSUME TypeOK, NEW t \in Turn, AddUserRow(t)
  PROVE  RowsGrow(t)
<1>1. CASE turn[t].text = {}
  BY <1>1 DEF AddUserRow, RowsGrow, TypeOK
<1>2. CASE turn[t].text # {}
  <2>1. turn[t].text \in (SUBSET Message) \ {{}}
    BY <1>2 DEF TypeOK, TurnRecord
  <2>2. [role |-> "user", turn |-> t, text |-> turn[t].text, mark |-> "whole"] \in Row
    BY <2>1 DEF Row
  <2> QED BY <1>2, <2>2, RowAppended DEF AddUserRow
<1> QED BY <1>1, <1>2

LEMMA ModelRow ==
  ASSUME TypeOK, NEW t \in Turn, NEW mark \in {"whole", "cut"}, AddModelRow(t, mark)
  PROVE  RowsGrow(t)
<1>1. CASE turn[t].got = 0
  BY <1>1 DEF AddModelRow, RowsGrow, TypeOK
<1>2. CASE turn[t].got # 0
  <2>1. [role |-> "model", turn |-> t, text |-> {}, mark |-> mark] \in Row
    BY DEF Row
  <2> QED BY <1>2, <2>1, RowAppended DEF AddModelRow
<1> QED BY <1>1, <1>2

LEMMA FarewellRow ==
  ASSUME TypeOK, NEW t \in Turn, Finalize(t)
  PROVE  RowsGrow(t) /\ finalized'
<1> DEFINE model == {i \in DOMAIN rows : rows[i].role = "model"}
<1>0. rows \in Seq(Row) /\ DOMAIN rows = 1 .. Len(rows) /\ Len(rows) \in Nat
  BY DEF TypeOK
<1>1. CASE turn[t].class # "eligible" \/ model = {}
  BY <1>0, <1>1 DEF Finalize, RowsGrow
<1>2. CASE turn[t].class = "eligible" /\ model # {}
  <2>1. PICK i \in model : rows' = [rows EXCEPT ![i].mark = "farewell"]
    <3>1. \E i \in model : \A j \in model : j <= i
      BY <1>0, <1>2, Latest
    <3> QED BY <1>2, <3>1 DEF Finalize
  <2>2. rows[i] \in Row /\ rows[i].role = "model"
    BY <1>0
  <2>3. PICK row : row = [rows[i] EXCEPT !.mark = "farewell"]
    OBVIOUS
  <2>4. row \in Row /\ row.turn = rows[i].turn /\ row.role = rows[i].role /\ row.text = rows[i].text
    BY <2>2, <2>3 DEF Row
  <2>5. rows' = [rows EXCEPT ![i] = row]
    BY <1>0, <2>1, <2>3
  <2>6. rows' \in Seq(Row) /\ DOMAIN rows' = DOMAIN rows
    BY <1>0, <2>4, <2>5
  <2>7. \A j \in DOMAIN rows : rows'[j] = IF j = i THEN row ELSE rows[j]
    BY <2>5
  <2>8. finalized'
    BY DEF Finalize
  <2> QED BY <2>4, <2>6, <2>7, <2>8 DEF RowsGrow
<1> QED BY <1>1, <1>2 DEF Finalize

OrphanState == {"none", "suspended", "saveUser", "saveModel"}

Writes(t) ==
  /\ RowsGrow(t)
  /\ stored' \in {stored, turn[t].snap} /\ finalized' \in BOOLEAN
  /\ shouldClose' \in BOOLEAN /\ (shouldClose' # shouldClose => At(t, "announce"))
  /\ \/ policy' = policy
     \/ policy' = policy + 1 /\ turn[t].pc \in Undecided /\ turn'[t].pc \notin Undecided
  /\ socket' \in {socket, "closed"}
  /\ orphan' \in {orphan, [orphan EXCEPT ![t] = "suspended"]}
  /\ answered' \in {answered, answered \cup turn[t].text}
  /\ confirmed' \in {confirmed, confirmed \cup {t}}
  /\ UNCHANGED <<silenced, wrap, dispatched>>

(* Every step of a turn *)
LEMMA TurnWrites ==
  ASSUME TypeOK, NEW t \in Turn, TurnStep(t) \/ ModelStep(t)
  PROVE  Writes(t)
<1>r. /\ UNCHANGED rows => RowsGrow(t)
      /\ finalized \in BOOLEAN /\ shouldClose \in BOOLEAN
  BY DEF TypeOK, RowsGrow
<1> USE DEF At, clientVars, loopVars, dbVars, wrapVars, historyVars
<1>1. CASE Evaluate(t)
  BY <1>1, <1>r DEF Evaluate, Writes
<1>2. CASE OpenStream(t)
  BY <1>2, <1>r DEF OpenStream, Writes
<1>3. CASE AgentFails(t)
  BY <1>3, <1>r DEF AgentFails, Writes
<1>4. CASE Emit(t)
  BY <1>4, <1>r DEF Emit, Writes
<1>5. CASE HaltEmit(t)
  BY <1>5, <1>r DEF HaltEmit, Writes
<1>6. CASE SaveUser(t)
  BY <1>6, <1>r, UserRow DEF SaveUser, Writes
<1>7. CASE SaveUserFails(t)
  BY <1>7, <1>r DEF SaveUserFails, Writes
<1>8. CASE SaveModel(t)
  <2>1. RowsGrow(t)
    BY <1>8, <1>r, ModelRow DEF SaveModel
  <2>2. answered' \in {answered, answered \cup turn[t].text}
    BY <1>8 DEF SaveModel, AfterAgent, TypeOK, TurnRecord
  <2> QED BY <1>8, <1>r, <2>1, <2>2 DEF SaveModel, Writes
<1>9. CASE HaltSpeak(t)
  BY <1>9, <1>r DEF HaltSpeak, Writes
<1>10. CASE ApplyDecision(t)
  <2>1. CASE turn[t].class = "degraded"
    BY <1>10, <1>r, <2>1 DEF ApplyDecision, Writes
  <2>2. CASE turn[t].class # "degraded"
    <3>1. turn[t].pc \in Undecided
      BY <1>10 DEF ApplyDecision, Undecided
    <3>2. turn'[t].pc = "persist"
      BY <1>10, <2>2 DEF ApplyDecision, TypeOK, TurnRecord
    <3> QED BY <1>10, <1>r, <2>2, <3>1, <3>2 DEF ApplyDecision, Writes, Undecided, Unsaved
  <2> QED BY <2>1, <2>2
<1>11. CASE PersistPolicy(t)
  BY <1>11, <1>r DEF PersistPolicy, Writes
<1>12. CASE Finish(t)
  BY <1>12, <1>r DEF Finish, Writes
<1>13. CASE CommitFinal(t)
  BY <1>13, <1>r, FarewellRow DEF CommitFinal, Writes
<1>14. CASE Announce(t)
  BY <1>14, <1>r DEF Announce, Writes
<1>15. CASE CloseSocket(t)
  BY <1>15, <1>r DEF CloseSocket, Writes
<1>16. CASE CancelStream(t)
  BY <1>16, <1>r DEF CancelStream, Writes
<1>17. CASE CancelEmit(t)
  BY <1>17, <1>r DEF CancelEmit, Writes
<1>18. CASE CancelElsewhere(t)
  <2>1. RowsGrow(t) /\ finalized' \in BOOLEAN
    BY <1>18, <1>r, UserRow, ModelRow, FarewellRow DEF CancelElsewhere
  <2> QED BY <1>18, <1>r, <2>1 DEF CancelElsewhere, Finalize, Writes
<1>19. CASE SavePartial(t)
  BY <1>19, <1>r, ModelRow DEF SavePartial, Writes
<1>20. CASE Chunk(t)
  BY <1>20, <1>r DEF Chunk, Writes
<1>21. CASE StreamEnds(t)
  BY <1>21, <1>r DEF StreamEnds, Writes
<1> QED BY <1>1, <1>2, <1>3, <1>4, <1>5, <1>6, <1>7, <1>8, <1>9, <1>10, <1>11, <1>12, <1>13, <1>14,
           <1>15, <1>16, <1>17, <1>18, <1>19, <1>20, <1>21 DEF TurnStep, ModelStep, CancelLands

LEMMA TurnKeepsTurnInv ==
  ASSUME TurnInv, NEW t \in Turn, TurnStep(t) \/ ModelStep(t)
  PROVE  TurnInv'
<1>1. PICK r : Moves(t, r)
  BY TurnMoves
<1>2. Writes(t)
  BY TurnWrites DEF TurnInv
<1>0. TypeOK /\ turn' = [turn EXCEPT ![t] = r] /\ turn'[t] = r /\ turn'[last] = r /\ t = last
      /\ last' = last /\ loop' = loop /\ received' = received
  BY <1>1, AliveIsLast DEF TurnInv, TypeOK, Moves
<1>3. TypeOK'
  <2>1. turn' \in [Turn -> TurnRecord]
    BY <1>0, <1>1 DEF TypeOK, Moves
  <2>2. turn[t].snap \in 0 .. Messages + 1 /\ turn[t].text \subseteq Message
    BY <1>0 DEF TypeOK, TurnRecord
  <2>3. policy' \in 0 .. Messages + 1
    BY <1>0, <1>2, MessagesAssumption DEF TypeOK, TurnInv, DecidedOnce, Writes, Turn
  <2>4. orphan' \in [Turn -> {"none", "suspended", "saveUser", "saveModel"}]
    BY <1>0, <1>2 DEF TypeOK, Writes
  <2>5. rows' \in Seq(Row)
    BY <1>2 DEF Writes, RowsGrow
  <2> QED BY <1>0, <1>1, <1>2, <2>1, <2>2, <2>3, <2>4, <2>5 DEF TypeOK, Moves, Writes
<1>4. TurnsInOrder'
  BY <1>0, <1>1 DEF TurnInv, TurnsInOrder, Moves, TypeOK
<1>5. DecidedOnce'
  BY <1>0, <1>1, <1>2 DEF TurnInv, DecidedOnce, Moves, Writes, TypeOK, Turn
<1>6. CancelAwaited'
  <2>1. r.text = turn[last].text /\ (Cancelled(r) => Cancelled(turn[last]) /\ r.pc \notin {"none", "done"})
    BY <1>0, <1>1 DEF Moves
  <2>2. \A u \in Turn : Cancelled(turn'[u]) =>
          turn'[u].pc \notin {"none", "done"} /\ loop \in {"interrupting", "cancelling", "idling"}
    BY <1>0, <2>1 DEF TurnInv, CancelAwaited, TypeOK
  <2>3. interrupting => ~shouldClose'
    <3>1. At(t, "announce") => ~interrupting
      BY <1>0 DEF At, TurnInv, CancelAwaited, TypeOK
    <3> QED BY <1>2, <3>1 DEF Writes, TurnInv, CancelAwaited, TypeOK
  <2>4. loop = "interrupting" => r.pc = "done"
    BY <1>0, <1>1 DEF Moves, TurnInv, CancelAwaited
  <2>5. loop = "acked" => r.pc = "done"
    BY <1>0, <1>1 DEF Moves, TurnInv, CancelAwaited
  <2> QED BY <1>0, <1>1, <2>1, <2>2, <2>3, <2>4, <2>5 DEF CancelAwaited, Moves, TurnInv
<1> QED BY <1>3, <1>4, <1>5, <1>6 DEF TurnInv

-----------------------------------------------------------------------------
(* What the loop does *)

(* The task of the newest turn is cancelled *)
LEMMA CancelRequested ==
  ASSUME TurnInv, turn[last].pc \notin {"none", "done"}, turn' = [turn EXCEPT ![last].cancel = TRUE]
  PROVE  /\ turn' \in [Turn -> TurnRecord]
         /\ \A t \in Turn : t # last => turn'[t] = turn[t]
         /\ turn'[last].cancel /\ turn'[last].pc = turn[last].pc /\ turn'[last].text = turn[last].text
         /\ turn'[last].got = turn[last].got
<1>1. turn \in [Turn -> TurnRecord] /\ last \in Turn
  BY DEF TurnInv, TypeOK
<1>2. PICK s : s = [turn[last] EXCEPT !.cancel = TRUE]
  OBVIOUS
<1>3. s \in TurnRecord /\ s.cancel /\ s.pc = turn[last].pc /\ s.text = turn[last].text
      /\ s.got = turn[last].got
  BY <1>1, <1>2 DEF TurnRecord
<1>4. turn' = [turn EXCEPT ![last] = s]
  BY <1>1, <1>2
<1> QED BY <1>1, <1>3, <1>4

(* The next turn, for the newest message and what was carried *)
Spawned(m, carried) ==
  /\ last' = last + 1 /\ last' \in Turn
  /\ turn' \in [Turn -> TurnRecord]
  /\ \A t \in Turn : t # last' => turn'[t] = turn[t]
  /\ turn'[last'].pc = "history" /\ turn'[last'].text = carried \cup {m} /\ turn'[last'].got = 0
  /\ ~turn'[last'].cancel /\ turn'[last'].exit = "end"
  /\ prefix' = {} /\ interrupting' = FALSE /\ loop' = "top"

LEMMA SpawnStarts ==
  ASSUME TypeOK, NEW m \in Message, Spawn(m), last < Messages
  PROVE  Spawned(m, prefix)
<1>1. turn \in [Turn -> TurnRecord] /\ last \in 0 .. Messages /\ prefix \subseteq Message
  BY DEF TypeOK, Turn
<1>2. PICK s : s = [NoTurn EXCEPT !.pc = "history", !.text = prefix \cup {m}]
  OBVIOUS
<1>3. s = [pc |-> "history", text |-> prefix \cup {m}, class |-> "degraded", got |-> 0, exit |-> "end",
           sentinel |-> FALSE, farewell |-> FALSE, cancel |-> FALSE, snap |-> 0]
  BY <1>2 DEF NoTurn
<1>4. s \in TurnRecord
  <2>1. "history" \in PC /\ "degraded" \in Class /\ 0 \in 0 .. Messages + 1 /\ prefix \cup {m} \in SUBSET Message
    BY <1>1, MessagesAssumption DEF PC, Class
  <2> QED BY <1>3, <2>1 DEF TurnRecord
<1>5. last + 1 \in Turn /\ turn' = [turn EXCEPT ![last + 1] = s] /\ last' = last + 1
  BY <1>1, <1>2, MessagesAssumption DEF Spawn, Turn
<1>6. turn'[last'] = s /\ turn' \in [Turn -> TurnRecord] /\ \A t \in Turn : t # last' => turn'[t] = turn[t]
  BY <1>1, <1>4, <1>5
<1>7. s.pc = "history" /\ s.text = prefix \cup {m} /\ s.got = 0 /\ ~s.cancel /\ s.exit = "end"
  BY <1>3
<1>8. prefix' = {} /\ interrupting' = FALSE /\ loop' = "top"
  BY DEF Spawn
<1> QED BY <1>5, <1>6, <1>7, <1>8 DEF Spawned

LEMMA SpawnKeepsTurnInv ==
  ASSUME TurnInv, NEW m \in Message, Spawn(m), ~Running, last < received', received' \in 0 .. Messages,
         UNCHANGED <<socket, shouldClose, orphan, dbVars, policy, wrapVars, historyVars>>
  PROVE  TurnInv' /\ Spawned(m, prefix)
<1>1. Spawned(m, prefix)
  BY SpawnStarts, MessagesAssumption DEF TurnInv, TypeOK, Turn
<1>2. turn[last].pc = "done" /\ last \in Turn /\ last' \in Turn
  BY <1>1 DEF Running, TurnInv, TypeOK, Spawned
<1>3. TypeOK'
  BY <1>1 DEF TurnInv, TypeOK, Spawned, Loop, dbVars, wrapVars, historyVars
<1>4. TurnsInOrder'
  BY <1>1, <1>2 DEF TurnInv, TurnsInOrder, Spawned, Turn
<1>5. DecidedOnce'
  BY <1>1, <1>2 DEF TurnInv, TypeOK, DecidedOnce, Spawned, Turn
<1>6. CancelAwaited'
  <2>1. \A t \in Turn : t # last' => ~Cancelled(turn'[t])
    <3>1. \A t \in Turn : turn[t].pc \in {"none", "done"} \/ t = last
      BY <1>2 DEF TurnInv, TurnsInOrder, NoTurn, Turn
    <3> QED BY <1>1, <1>2, <3>1 DEF TurnInv, CancelAwaited, Spawned
  <2>2. ~Cancelled(turn'[last'])
    BY <1>1 DEF Spawned, Cancelled
  <2>3. \A t \in Turn : ~Cancelled(turn'[t])
    BY <2>1, <2>2
  <2>4. interrupting' = FALSE /\ loop' = "top"
    BY <1>1 DEF Spawned
  <2>5. interrupting' <=> (loop' \in {"interrupting", "acked"})
    BY <2>4
  <2> QED BY <2>3, <2>4, <2>5 DEF CancelAwaited
<1> QED BY <1>1, <1>3, <1>4, <1>5, <1>6 DEF TurnInv

LEMMA OrphanKeepsTurnInv ==
  ASSUME TurnInv, NEW t \in Turn, OrphanStep(t)
  PROVE  TurnInv' /\ RowsGrow(t)
<1> USE DEF clientVars, loopVars, dbVars, wrapVars, historyVars
<1>0. UNCHANGED rows => RowsGrow(t)
  BY DEF TurnInv, TypeOK, RowsGrow
<1>1. RowsGrow(t)
  BY <1>0, UserRow, ModelRow DEF OrphanStep, CloseOrphan, SaveOrphan, TurnInv
<1>2. TypeOK'
  <2>1. rows' \in Seq(Row)
    BY <1>1 DEF RowsGrow
  <2>2. orphan' \in [Turn -> {"none", "suspended", "saveUser", "saveModel"}]
    BY DEF OrphanStep, CloseOrphan, SaveOrphan, TurnInv, TypeOK
  <2> QED BY <2>1, <2>2 DEF OrphanStep, CloseOrphan, SaveOrphan, TurnInv, TypeOK
<1>3. UNCHANGED <<loop, last, received, prefix, interrupting, shouldClose, turn, policy>>
  BY DEF OrphanStep, CloseOrphan, SaveOrphan
<1>4. TurnsInOrder' /\ DecidedOnce' /\ CancelAwaited'
  BY <1>3 DEF TurnInv, TurnsInOrder, DecidedOnce, CancelAwaited
<1> QED BY <1>1, <1>2, <1>4 DEF TurnInv

(* A step of the loop that leaves the turns alone *)
LEMMA LoopGoesOn ==
  ASSUME TurnInv, loop' \in Loop, loop' \in {"interrupting", "acked"} <=> interrupting,
         \/ loop' = loop
         \/ /\ loop' # "interrupting"
            /\ loop' = "acked" => loop = "interrupting"
            /\ loop \in {"interrupting", "cancelling", "idling"} => turn[last].pc = "done",
         UNCHANGED <<received, last, prefix, interrupting, shouldClose, turn, orphan, rows, policy,
                     finalized, confirmed, silenced>>,
         socket' \in {socket, "dropped", "closed"}, stored' \in 0 .. Messages + 1, dispatched' \in BOOLEAN,
         wrap' \in [policy : 0 .. Messages + 1, finalized : BOOLEAN], answered' \subseteq Message
  PROVE  TurnInv'
<1>1. TypeOK'
  BY DEF TurnInv, TypeOK
<1>2. TurnsInOrder'
  BY DEF TurnInv, TurnsInOrder
<1>3. DecidedOnce'
  BY DEF TurnInv, DecidedOnce
<1>4. CancelAwaited'
  <2>1. ASSUME NEW t \in Turn, Cancelled(turn[t])
        PROVE loop' \in {"interrupting", "cancelling", "idling"}
    <3>1. t = last /\ turn[t].pc # "done" /\ loop \in {"interrupting", "cancelling", "idling"}
      BY <2>1, AliveIsLast DEF TurnInv, CancelAwaited
    <3> QED BY <3>1
  <2> QED BY <2>1 DEF TurnInv, CancelAwaited
<1> QED BY <1>1, <1>2, <1>3, <1>4 DEF TurnInv

(* The loop asks the newest turn to end, and will await it *)
LEMMA LoopCancels ==
  ASSUME TurnInv, Running, loop = "receive", turn' = [turn EXCEPT ![last].cancel = TRUE],
         loop' \in {"interrupting", "cancelling", "idling"},
         interrupting' \in BOOLEAN, interrupting' <=> loop' = "interrupting",
         loop' = "interrupting" => prefix' = turn[last].text /\ ~shouldClose /\ received' = received + 1
                                   /\ received < Messages,
         loop' # "interrupting" => UNCHANGED <<prefix, received>>,
         UNCHANGED <<last, shouldClose, orphan, dbVars, policy, wrapVars, answered, confirmed>>,
         silenced' \in {silenced, silenced \cup {last}}, socket' \in {socket, "closed"}
  PROVE  TurnInv'
<1>0. turn[last].pc \notin {"none", "done"} /\ last \in Turn /\ received \in 0 .. Messages
  BY DEF Running, TurnInv, TurnsInOrder, TypeOK
<1>1. /\ turn' \in [Turn -> TurnRecord]
      /\ \A t \in Turn : t # last => turn'[t] = turn[t]
      /\ turn'[last].cancel /\ turn'[last].pc = turn[last].pc /\ turn'[last].text = turn[last].text
  BY <1>0, CancelRequested
<1>2. TypeOK'
  <2>1. turn[last].text \subseteq Message
    BY <1>0 DEF TurnInv, TypeOK, TurnRecord
  <2>2. prefix' \subseteq Message /\ received' \in 0 .. Messages
    BY <1>0, <2>1, MessagesAssumption DEF TurnInv, TypeOK
  <2>3. loop' \in Loop /\ interrupting' \in BOOLEAN
    BY DEF Loop
  <2> QED BY <1>0, <1>1, <2>2, <2>3 DEF TurnInv, TypeOK, dbVars, wrapVars
<1>3. TurnsInOrder'
  BY <1>0, <1>1 DEF TurnInv, TurnsInOrder, Turn
<1>4. DecidedOnce'
  BY <1>1 DEF TurnInv, DecidedOnce
<1>5. CancelAwaited'
  <2>1. \A t \in Turn : Cancelled(turn'[t]) =>
          turn'[t].pc \notin {"none", "done"} /\ loop' \in {"interrupting", "cancelling", "idling"}
    BY <1>0, <1>1 DEF TurnInv, CancelAwaited
  <2> QED BY <1>0, <1>1, <2>1 DEF TurnInv, CancelAwaited
<1> QED BY <1>2, <1>3, <1>4, <1>5 DEF TurnInv

LEMMA LoopKeepsTurnInv ==
  ASSUME TurnInv, ClientStep \/ LoopStep
  PROVE  TurnInv'
<1> USE DEF clientVars, loopVars, dbVars, wrapVars, historyVars
<1>0. /\ TypeOK /\ stored \in 0 .. Messages + 1 /\ dispatched \in BOOLEAN
      /\ wrap \in [policy : 0 .. Messages + 1, finalized : BOOLEAN] /\ answered \subseteq Message
      /\ interrupting <=> loop \in {"interrupting", "acked"}
      /\ received \in 0 .. Messages /\ interrupting \in BOOLEAN
  BY DEF TurnInv, TypeOK, CancelAwaited
<1>1. CASE ReceiveMessage
  <2>1. received' \in Message /\ received' \in 0 .. Messages /\ last < received'
    BY <1>0, <1>1, MessagesAssumption DEF ReceiveMessage, Message, TurnInv, TurnsInOrder, TypeOK, Turn
  <2> QED BY <1>1, <2>1, SpawnKeepsTurnInv DEF ReceiveMessage
<1>2. CASE SpawnBundle
  <2>1. received \in Message /\ last < received /\ ~Running
    BY <1>0, <1>2 DEF SpawnBundle, Message, TurnInv, TurnsInOrder, CancelAwaited, TypeOK, Turn, Running
  <2> QED BY <1>0, <1>2, <2>1, SpawnKeepsTurnInv DEF SpawnBundle
<1>3. CASE ReceiveInterrupt
  BY <1>3, LoopCancels DEF ReceiveInterrupt
<1>4. CASE ReceiveCancel
  BY <1>0, <1>4, LoopCancels DEF ReceiveCancel
<1>5. CASE IdleTimeout
  <2>1. CASE Running
    BY <1>0, <1>5, <2>1, LoopCancels DEF IdleTimeout
  <2>2. CASE ~Running
    BY <1>0, <1>5, <2>2, LoopGoesOn DEF IdleTimeout, Loop
  <2> QED BY <2>1, <2>2
<1>6. CASE IgnoreFrame
  BY <1>0, <1>6, LoopGoesOn DEF IgnoreFrame, Loop
<1>7. CASE Drop
  BY <1>0, <1>7, LoopGoesOn DEF Drop, Loop, TypeOK, TurnInv, CancelAwaited
<1>8. CASE GreetingDone
  BY <1>0, <1>8, LoopGoesOn DEF GreetingDone, Loop
<1>9. CASE LoopTop
  BY <1>0, <1>9, LoopGoesOn DEF LoopTop, Loop
<1>10. CASE Drained
  BY <1>0, <1>10, LoopGoesOn DEF Drained, Loop
<1>11. CASE AwaitInterrupted
  BY <1>0, <1>11, LoopGoesOn DEF AwaitInterrupted, Loop, Running
<1>12. CASE AwaitCancelled
  <2>1. turn[last].text \subseteq Message
    BY <1>0 DEF TypeOK, TurnRecord
  <2> QED BY <1>0, <1>12, <2>1, LoopGoesOn DEF AwaitCancelled, Loop, Running
<1>13. CASE ReceiveDisconnect
  BY <1>0, <1>13, LoopGoesOn DEF ReceiveDisconnect, Loop
<1>14. CASE AwaitIdle
  BY <1>0, <1>14, LoopGoesOn DEF AwaitIdle, Loop, Running
<1>15. CASE WrapUp
  BY <1>0, <1>15, LoopGoesOn DEF WrapUp, Loop, TypeOK
<1>16. CASE WrapUpCommit
  BY <1>0, <1>16, LoopGoesOn, MessagesAssumption DEF WrapUpCommit, Loop, NothingRead
<1> QED BY <1>1, <1>2, <1>3, <1>4, <1>5, <1>6, <1>7, <1>8, <1>9, <1>10, <1>11, <1>12, <1>13, <1>14,
           <1>15, <1>16 DEF ClientStep, LoopStep

LEMMA TurnInvInit == Init => TurnInv
<1> SUFFICES ASSUME Init PROVE TurnInv
  OBVIOUS
<1>1. 0 \in Turn /\ 0 \in 0 .. Messages /\ 0 \in 0 .. Messages + 1
  BY MessagesAssumption DEF Turn
<1>2. PICK first \in {"history", "done"} : turn = [t \in Turn |-> [NoTurn EXCEPT !.pc = IF t > 0 THEN "none" ELSE first]]
  BY PriorAssumption DEF Init
<1>3. ASSUME NEW pc \in PC PROVE [NoTurn EXCEPT !.pc = pc] \in TurnRecord
  <2>1. PICK s : s = [NoTurn EXCEPT !.pc = pc]
    OBVIOUS
  <2>2. s = [pc |-> pc, text |-> {}, class |-> "degraded", got |-> 0, exit |-> "end",
             sentinel |-> FALSE, farewell |-> FALSE, cancel |-> FALSE, snap |-> 0]
    BY <2>1 DEF NoTurn
  <2>3. s \in TurnRecord
    BY <1>1, <2>2 DEF TurnRecord, Class
  <2> QED BY <2>1, <2>3
<1>4. \A t \in Turn : turn[t] = IF t > 0 THEN NoTurn ELSE [NoTurn EXCEPT !.pc = first]
  BY <1>2 DEF NoTurn
<1>5. TypeOK
  <2>1. turn \in [Turn -> TurnRecord]
    BY <1>2, <1>3 DEF PC
  <2>2. loop \in Loop
    BY DEF Init, Loop
  <2>3. wrap \in [policy : 0 .. Messages + 1, finalized : BOOLEAN]
    BY <1>1 DEF Init, NothingRead
  <2>4. rows \in Seq(Row)
    BY DEF Init
  <2>5. orphan \in [Turn -> {"none", "suspended", "saveUser", "saveModel"}]
    BY DEF Init
  <2> QED BY <1>1, <2>1, <2>2, <2>3, <2>4, <2>5 DEF Init, TypeOK
<1>6. turn[0].pc = first /\ \A t \in Turn : ~Cancelled(turn[t])
  BY <1>1, <1>4 DEF NoTurn, Cancelled
<1>7. TurnsInOrder
  BY <1>1, <1>4, <1>6 DEF Init, TurnsInOrder, Turn
<1>8. DecidedOnce /\ CancelAwaited
  BY <1>6 DEF Init, DecidedOnce, CancelAwaited
<1> QED BY <1>5, <1>7, <1>8 DEF TurnInv

LEMMA TurnInvNext == TurnInv /\ [Next]_vars => TurnInv'
<1> SUFFICES ASSUME TurnInv, [Next]_vars PROVE TurnInv'
  OBVIOUS
<1>1. CASE Next
  BY <1>1, TurnKeepsTurnInv, OrphanKeepsTurnInv, LoopKeepsTurnInv DEF Next
<1>2. CASE UNCHANGED vars
  BY <1>2 DEF vars, TurnInv, TypeOK, TurnsInOrder, DecidedOnce, CancelAwaited, RowsGrow
<1> QED BY <1>1, <1>2

LEMMA TurnInvariant == Spec => []TurnInv
<1> QED BY TurnInvInit, TurnInvNext, PTL DEF Spec

(***************************************************************************)
(* The variables keep their types, whatever messages, interruptions,       *)
(* cancellations, disconnections and failing statements come: in           *)
(* particular no turn stores an empty user row, and the versions of the    *)
(* policy state stay countable by turns.                                   *)
(***************************************************************************)
THEOREM ChatTypeCorrect == Spec => []TypeOK
BY TurnInvariant, PTL DEF TurnInv

(***************************************************************************)
(* NoTurnAfterClose: once _should_close is set no turn is started.  The    *)
(* one that an interruption has promised cannot be pending, as the closing *)
(* turn would have had to be cancelled for it (session.py,                 *)
(* _conversation_loop).                                                    *)
(***************************************************************************)
THEOREM NoTurnStartsAfterClose == Spec => NoTurnAfterClose
<1>1. TurnInv /\ [Next]_vars => [shouldClose => last' = last]_vars
  <2> SUFFICES ASSUME TurnInv, Next, shouldClose PROVE last' = last
    BY DEF vars
  <2>1. ASSUME NEW t \in Turn, TurnStep(t) \/ ModelStep(t) PROVE last' = last
    BY <2>1, TurnMoves DEF Moves
  <2>2. ASSUME NEW t \in Turn, OrphanStep(t) PROVE last' = last
    BY <2>2 DEF OrphanStep, CloseOrphan, SaveOrphan, loopVars
  <2>3. ~SpawnBundle
    BY DEF SpawnBundle, TurnInv, CancelAwaited
  <2>4. ASSUME ClientStep \/ LoopStep PROVE last' = last
    BY <2>3, <2>4 DEF ClientStep, LoopStep, ReceiveMessage, ReceiveInterrupt, ReceiveCancel, IgnoreFrame,
          Drop, IdleTimeout, GreetingDone, LoopTop, Drained, AwaitInterrupted, AwaitCancelled,
          ReceiveDisconnect, AwaitIdle, WrapUp, WrapUpCommit, loopVars
  <2> QED BY <2>1, <2>2, <2>4 DEF Next
<1> QED BY <1>1, TurnInvariant, PTL DEF Spec, NoTurnAfterClose

-----------------------------------------------------------------------------
(***************************************************************************)
(* An interrupted turn leaves no row                                       *)
(***************************************************************************)

NoRow(t) == \A i \in DOMAIN rows : rows[i].turn # t

(* Rows come late, and a generator is abandoned only by a turn that ends *)
NothingYet ==
  \A t \in Turn :
    /\ turn[t].pc \in Unsaved => orphan[t] = "none" /\ NoRow(t)
    /\ orphan[t] # "none" => turn[t].pc \in {"partial", "done"}

(* A silenced turn has ended, or will as soon as it is told *)
SilencedGone ==
  \A t \in silenced :
    /\ orphan[t] = "none" /\ NoRow(t)
    /\ \/ turn[t].pc = "done"
       \/ t = last /\ interrupting /\ turn[t].cancel /\ turn[t].pc \in {"history", "agent", "llm"}

SilentInv == NothingYet /\ SilencedGone

LEMMA NoRowKept ==
  ASSUME NEW t \in Turn, NEW u \in Turn, u # t, RowsGrow(t), NoRow(u)
  PROVE  NoRow(u)'
BY DEF RowsGrow, NoRow

(* What a step of a turn that has not come to its rows leaves alone *)
LEMMA TurnStillUnsaved ==
  ASSUME TurnInv, NEW t \in Turn, TurnStep(t) \/ ModelStep(t)
  PROVE  /\ turn'[t].pc \in Unsaved => turn[t].pc \in Unsaved /\ UNCHANGED <<rows, orphan>>
         /\ turn[t].pc \in {"history", "agent", "llm"} => UNCHANGED <<rows, orphan>>
         /\ UNCHANGED orphan \/ turn'[t].pc \in {"partial", "done"}
         /\ turn[t].pc = "partial" => turn'[t].pc \in {"partial", "done"}
<1>r. turn \in [Turn -> TurnRecord] /\ turn[t] \in TurnRecord
  BY DEF TurnInv, TypeOK
<1>m. \A pc \in PC : Moved(turn[t], pc).pc = pc
  BY <1>r, MovedOn
<1>g. HandlerPC(turn[t]) \in {"partial", "done"}
  BY DEF HandlerPC
<1>p. PC = {"none", "history", "agent", "llm", "emit", "saveUser", "saveModel", "speak",
            "farewell", "persist", "finish", "commit", "announce", "closing", "partial", "done"}
  BY DEF PC
<1> USE DEF At, Go, dbVars, Unsaved
<1>1. CASE Evaluate(t)
  BY <1>1, <1>r DEF Evaluate
<1>2. CASE OpenStream(t)
  BY <1>2, <1>r, <1>m, <1>p DEF OpenStream
<1>3. CASE AgentFails(t)
  BY <1>3, <1>r, <1>m, <1>p DEF AgentFails
<1>4. CASE Emit(t)
  BY <1>4, <1>r, <1>m, <1>p DEF Emit
<1>5. CASE HaltEmit(t)
  BY <1>5, <1>r, <1>m, <1>p DEF HaltEmit
<1>6. CASE SaveUser(t)
  BY <1>6, <1>r, <1>m, <1>p DEF SaveUser
<1>7. CASE SaveUserFails(t)
  BY <1>7, <1>r, <1>m, <1>p DEF SaveUserFails
<1>8. CASE SaveModel(t)
  <2>1. turn'[t].pc \in {"farewell", "speak", "partial", "done"}
    <3>1. CASE turn[t].exit = "end"
      BY <1>8, <1>r, <3>1 DEF SaveModel, AfterAgent, TurnRecord
    <3>2. CASE turn[t].exit = "fail"
      BY <1>8, <1>r, <1>m, <1>p, <3>2 DEF SaveModel, AfterAgent
    <3>3. CASE turn[t].exit = "cancel"
      BY <1>8, <1>r, <1>m, <1>p, <1>g, <3>3 DEF SaveModel, AfterAgent
    <3> QED BY <1>r, <3>1, <3>2, <3>3 DEF TurnRecord
  <2> QED BY <1>8, <2>1 DEF SaveModel
<1>9. CASE HaltSpeak(t)
  BY <1>9, <1>r, <1>m, <1>p DEF HaltSpeak
<1>10. CASE ApplyDecision(t)
  <2>1. CASE turn[t].class = "degraded"
    BY <1>10, <1>r, <1>m, <1>p, <2>1 DEF ApplyDecision
  <2>2. CASE turn[t].class # "degraded"
    <3>1. turn'[t].pc = "persist"
      BY <1>10, <1>r, <2>2 DEF ApplyDecision, TurnRecord
    <3> QED BY <1>10, <3>1 DEF ApplyDecision
  <2> QED BY <2>1, <2>2
<1>11. CASE PersistPolicy(t)
  BY <1>11, <1>r, <1>m, <1>p DEF PersistPolicy
<1>12. CASE Finish(t)
  BY <1>12, <1>r, <1>m, <1>p DEF Finish
<1>13. CASE CommitFinal(t)
  BY <1>13, <1>r, <1>m, <1>p DEF CommitFinal
<1>14. CASE Announce(t)
  BY <1>14, <1>r, <1>m, <1>p DEF Announce
<1>15. CASE CloseSocket(t)
  BY <1>15, <1>r, <1>m, <1>p DEF CloseSocket
<1>16. CASE CancelStream(t)
  <2>1. turn'[t].pc \in {"done", "saveUser"}
    <3>1. Moved(turn[t], "saveUser") \in TurnRecord
      BY <1>r, <1>p, MovedOn
    <3> QED BY <1>16, <1>r, <1>m, <1>p, <3>1 DEF CancelStream, TurnRecord
  <2> QED BY <1>16, <2>1 DEF CancelStream
<1>17. CASE CancelEmit(t)
  BY <1>17, <1>r, <1>m, <1>p, <1>g DEF CancelEmit
<1>18. CASE CancelElsewhere(t)
  <2>1. turn'[t].pc \in {"partial", "done"} /\ UNCHANGED orphan
    BY <1>18, <1>r, <1>m, <1>p, <1>g DEF CancelElsewhere
  <2>2. turn[t].pc \in {"history", "agent", "llm"} => UNCHANGED rows
    BY <1>18 DEF CancelElsewhere
  <2> QED BY <2>1, <2>2
<1>19. CASE SavePartial(t)
  BY <1>19, <1>r, <1>m, <1>p DEF SavePartial
<1>20. CASE Chunk(t)
  BY <1>20, <1>r DEF Chunk, TurnRecord
<1>21. CASE StreamEnds(t)
  BY <1>21, <1>r DEF StreamEnds, TurnRecord
<1> QED BY <1>1, <1>2, <1>3, <1>4, <1>5, <1>6, <1>7, <1>8, <1>9, <1>10, <1>11, <1>12, <1>13, <1>14,
           <1>15, <1>16, <1>17, <1>18, <1>19, <1>20, <1>21 DEF TurnStep, ModelStep, CancelLands

(* What a step of the loop leaves alone *)
SameTurn(t) == turn'[t].pc = turn[t].pc /\ turn'[t].text = turn[t].text /\ turn'[t].got = turn[t].got

LoopMoves ==
  /\ UNCHANGED <<rows, orphan, confirmed>>
  /\ \/ last' = last /\ (\A t \in Turn : SameTurn(t)) /\ (turn[last].cancel => turn'[last].cancel)
        /\ (interrupting => interrupting')
     \/ /\ ~Running /\ last' = last + 1 /\ last' \in Turn
        /\ \A t \in Turn : t # last' => turn'[t] = turn[t]
        /\ turn'[last'].pc = "history" /\ turn'[last'].got = 0
  /\ \/ silenced' = silenced
     \/ /\ silenced' = silenced \cup {last} /\ turn[last].pc \in {"history", "agent", "llm"}
        /\ last' = last /\ interrupting' /\ turn'[last].cancel

LEMMA LoopStepMoves ==
  ASSUME TurnInv, ClientStep \/ LoopStep
  PROVE  LoopMoves
<1> USE DEF clientVars, loopVars, dbVars, wrapVars, historyVars
<1>0. /\ UNCHANGED turn => \A t \in Turn : SameTurn(t)
      /\ last \in Turn
  BY DEF SameTurn, TurnInv, TypeOK
<1>c. ASSUME Running, turn' = [turn EXCEPT ![last].cancel = TRUE]
      PROVE  (\A t \in Turn : SameTurn(t)) /\ turn'[last].cancel
  <2>1. turn[last].pc \notin {"none", "done"}
    BY <1>c DEF Running, TurnInv, TurnsInOrder
  <2> QED BY <1>0, <1>c, <2>1, CancelRequested DEF SameTurn
<1>1. CASE ReceiveMessage \/ SpawnBundle
  <2>1. PICK m \in Message : Spawn(m) /\ last < Messages
    BY <1>1, MessagesAssumption
       DEF ReceiveMessage, SpawnBundle, TurnInv, TurnsInOrder, TypeOK, Message, Turn
  <2>2. ~Running
    BY <1>1 DEF ReceiveMessage, SpawnBundle, Running, TurnInv, CancelAwaited
  <2>3. Spawned(m, prefix)
    BY <2>1, SpawnStarts DEF TurnInv
  <2> QED BY <1>1, <2>2, <2>3 DEF ReceiveMessage, SpawnBundle, Spawned, LoopMoves
<1>3. CASE ReceiveInterrupt
  BY <1>0, <1>3, <1>c DEF ReceiveInterrupt, LoopMoves
<1>4. CASE ReceiveCancel
  BY <1>4, <1>c DEF ReceiveCancel, LoopMoves
<1>5. CASE IdleTimeout
  BY <1>0, <1>5, <1>c DEF IdleTimeout, LoopMoves
<1>6. CASE IgnoreFrame \/ Drop \/ GreetingDone \/ LoopTop \/ Drained \/ AwaitInterrupted \/ AwaitCancelled
  BY <1>0, <1>6 DEF IgnoreFrame, Drop, GreetingDone, LoopTop, Drained, AwaitInterrupted, AwaitCancelled,
       LoopMoves
<1>7. CASE ReceiveDisconnect \/ AwaitIdle \/ WrapUp \/ WrapUpCommit
  BY <1>0, <1>7 DEF ReceiveDisconnect, AwaitIdle, WrapUp, WrapUpCommit, LoopMoves
<1> QED BY <1>1, <1>3, <1>4, <1>5, <1>6, <1>7 DEF ClientStep, LoopStep

LEMMA SilentInvInit == Init => SilentInv
<1> SUFFICES ASSUME Init PROVE SilentInv
  OBVIOUS
<1>1. \A t \in Turn : orphan[t] = "none" /\ NoRow(t)
  BY DEF Init, NoRow
<1> QED BY <1>1 DEF Init, SilentInv, NothingYet, SilencedGone

LEMMA TurnKeepsSilentInv ==
  ASSUME TurnInv, SilentInv, NEW t \in Turn, TurnStep(t) \/ ModelStep(t)
  PROVE  SilentInv'
<1>1. PICK r : Moves(t, r)
  BY TurnMoves
<1>2. Writes(t)
  BY TurnWrites DEF TurnInv
<1>3. /\ t = last /\ last' = last /\ interrupting' = interrupting /\ silenced' = silenced
      /\ turn'[t] = r /\ \A u \in Turn : u # t => turn'[u] = turn[u]
  BY <1>1, <1>2, AliveIsLast DEF Moves, Writes, TurnInv, TypeOK
<1>4. \A u \in Turn : u # t => orphan'[u] = orphan[u] /\ (NoRow(u) => NoRow(u)')
  <2>1. \A u \in Turn : u # t => orphan'[u] = orphan[u]
    BY <1>2 DEF Writes, TurnInv, TypeOK
  <2>2. ASSUME NEW u \in Turn, u # t, NoRow(u) PROVE NoRow(u)'
    BY <1>2, <2>2, NoRowKept DEF Writes
  <2> QED BY <2>1, <2>2
<1>5. UNCHANGED <<rows, orphan>> => (NoRow(t) <=> NoRow(t)') /\ orphan'[t] = orphan[t]
  BY DEF NoRow
<1>6. /\ turn'[t].pc \in Unsaved => turn[t].pc \in Unsaved /\ UNCHANGED <<rows, orphan>>
      /\ turn[t].pc \in {"history", "agent", "llm"} => UNCHANGED <<rows, orphan>>
      /\ UNCHANGED orphan \/ turn'[t].pc \in {"partial", "done"}
      /\ turn[t].pc = "partial" => turn'[t].pc \in {"partial", "done"}
      /\ turn[t].pc # "done"
  BY <1>1, TurnStillUnsaved DEF Moves
<1>7. NothingYet'
  <2>1. ASSUME NEW u \in Turn, u # t
        PROVE  /\ turn'[u].pc \in Unsaved => orphan'[u] = "none" /\ NoRow(u)'
               /\ orphan'[u] # "none" => turn'[u].pc \in {"partial", "done"}
    BY <1>3, <1>4, <2>1 DEF SilentInv, NothingYet
  <2>2. turn'[t].pc \in Unsaved => orphan'[t] = "none" /\ NoRow(t)'
    BY <1>5, <1>6 DEF SilentInv, NothingYet
  <2>3. orphan'[t] # "none" => turn'[t].pc \in {"partial", "done"}
    BY <1>6 DEF SilentInv, NothingYet
  <2> QED BY <2>1, <2>2, <2>3 DEF NothingYet
<1>8. SilencedGone'
  <2>1. ASSUME NEW u \in silenced, u # t
        PROVE  orphan'[u] = "none" /\ NoRow(u)' /\ turn'[u].pc = "done"
    <3>1. u \in Turn
      BY DEF TurnInv, TypeOK
    <3> QED BY <1>3, <1>4, <2>1, <3>1 DEF SilentInv, SilencedGone
  <2>2. CASE t \in silenced
    <3>1. turn[t].pc \in {"history", "agent", "llm"} /\ interrupting /\ turn[t].cancel /\ NoRow(t)
          /\ orphan[t] = "none"
      BY <1>6, <2>2 DEF SilentInv, SilencedGone
    <3>2. r.pc = "done"
      BY <1>1, <3>1 DEF Moves
    <3> QED BY <1>3, <1>5, <1>6, <2>1, <3>1, <3>2 DEF SilencedGone
  <2>3. CASE t \notin silenced
    BY <1>3, <2>1, <2>3 DEF SilencedGone
  <2> QED BY <2>2, <2>3
<1> QED BY <1>7, <1>8 DEF SilentInv

LEMMA OrphanKeepsSilentInv ==
  ASSUME TurnInv, SilentInv, NEW t \in Turn, OrphanStep(t)
  PROVE  SilentInv'
<1>1. UNCHANGED <<turn, last, interrupting, silenced>> /\ orphan[t] # "none"
  BY DEF OrphanStep, CloseOrphan, SaveOrphan, loopVars, historyVars
<1>2. \A u \in Turn : u # t => orphan'[u] = orphan[u] /\ (NoRow(u) => NoRow(u)')
  <2>1. \A u \in Turn : u # t => orphan'[u] = orphan[u]
    BY DEF OrphanStep, CloseOrphan, SaveOrphan, TurnInv, TypeOK
  <2>2. ASSUME NEW u \in Turn, u # t, NoRow(u) PROVE NoRow(u)'
    BY <2>2, OrphanKeepsTurnInv, NoRowKept
  <2> QED BY <2>1, <2>2
<1>3. t \notin silenced /\ turn[t].pc \in {"partial", "done"}
  BY <1>1 DEF SilentInv, NothingYet, SilencedGone
<1>4. NothingYet'
  BY <1>1, <1>2, <1>3 DEF SilentInv, NothingYet, Unsaved
<1>5. SilencedGone'
  BY <1>1, <1>2, <1>3 DEF SilentInv, SilencedGone, TurnInv, TypeOK
<1> QED BY <1>4, <1>5 DEF SilentInv

LEMMA LoopKeepsSilentInv ==
  ASSUME TurnInv, SilentInv, ClientStep \/ LoopStep
  PROVE  SilentInv'
<1>0. LoopMoves /\ TurnInv'
  BY LoopStepMoves, LoopKeepsTurnInv
<1>1. orphan' = orphan /\ (\A u \in Turn : NoRow(u)' <=> NoRow(u)) /\ silenced \subseteq Turn /\ last \in Turn
  BY <1>0 DEF LoopMoves, NoRow, TurnInv, TypeOK
<1>2. CASE last' = last /\ (\A t \in Turn : SameTurn(t)) /\ (turn[last].cancel => turn'[last].cancel)
           /\ (interrupting => interrupting')
  <2>1. NothingYet'
    BY <1>1, <1>2 DEF SilentInv, NothingYet, SameTurn
  <2>2. ASSUME NEW t \in silenced'
        PROVE  /\ orphan'[t] = "none" /\ NoRow(t)'
               /\ \/ turn'[t].pc = "done"
                  \/ t = last' /\ interrupting' /\ turn'[t].cancel /\ turn'[t].pc \in {"history", "agent", "llm"}
    <3>1. CASE t \in silenced
      BY <1>1, <1>2, <3>1 DEF SilentInv, SilencedGone, SameTurn
    <3>2. CASE t \notin silenced
      <4>1. t = last /\ turn[last].pc \in {"history", "agent", "llm"} /\ interrupting' /\ turn'[last].cancel
        BY <1>0, <3>2 DEF LoopMoves
      <4> QED BY <1>1, <1>2, <4>1 DEF SilentInv, NothingYet, SameTurn, Unsaved
    <3> QED BY <3>1, <3>2
  <2> QED BY <2>1, <2>2 DEF SilentInv, SilencedGone
<1>3. CASE /\ ~Running /\ last' = last + 1 /\ last' \in Turn
           /\ \A t \in Turn : t # last' => turn'[t] = turn[t]
           /\ turn'[last'].pc = "history" /\ turn'[last'].got = 0
  <2>1. turn[last'] = NoTurn /\ turn[last'].pc = "none" /\ last' # last
    <3>1. last \in Nat /\ last' > last
      BY <1>3 DEF TurnInv, TypeOK, Turn
    <3>2. turn[last'] = NoTurn
      BY <1>3, <3>1 DEF TurnInv, TurnsInOrder
    <3> QED BY <3>1, <3>2 DEF NoTurn
  <2>2. silenced' = silenced
    BY <1>0, <1>3 DEF LoopMoves, Running
  <2>3. last' \notin silenced
    BY <2>1 DEF SilentInv, SilencedGone
  <2>4. orphan[last'] = "none" /\ NoRow(last')
    BY <1>3, <2>1 DEF SilentInv, NothingYet, Unsaved
  <2>5. NothingYet'
    BY <1>1, <1>3, <2>4 DEF SilentInv, NothingYet
  <2>6. SilencedGone'
    <3> SUFFICES ASSUME NEW t \in silenced
                 PROVE  orphan[t] = "none" /\ NoRow(t)' /\ turn'[t].pc = "done"
      BY <1>1, <2>2 DEF SilencedGone
    <3>1. t \in Turn /\ t # last' /\ turn'[t] = turn[t]
      BY <1>1, <1>3, <2>3
    <3> QED BY <1>1, <1>3, <3>1 DEF SilentInv, SilencedGone, Running
  <2> QED BY <2>5, <2>6 DEF SilentInv
<1> QED BY <1>0, <1>2, <1>3 DEF LoopMoves

LEMMA SilentInvariant == Spec => []SilentInv
<1>1. TurnInv /\ SilentInv /\ [Next]_vars => SilentInv'
  <2> SUFFICES ASSUME TurnInv, SilentInv, [Next]_vars PROVE SilentInv'
    OBVIOUS
  <2>1. CASE Next
    BY <2>1, TurnKeepsSilentInv, OrphanKeepsSilentInv, LoopKeepsSilentInv DEF Next
  <2>2. CASE UNCHANGED vars
    BY <2>2 DEF vars, SilentInv, NothingYet, SilencedGone, NoRow
  <2> QED BY <2>1, <2>2
<1> QED BY <1>1, SilentInvInit, TurnInvariant, PTL DEF Spec

(***************************************************************************)
(* InterruptLeavesNoRow: a turn interrupted by a new message while its     *)
(* answer is being made leaves no row, now or later: the interrupt flag    *)
(* stays up until the cancellation has reached it, and a generator it      *)
(* abandoned earlier would have ended it (agent.py _stream_and_persist,    *)
(* interrupt_check).                                                       *)
(***************************************************************************)
THEOREM InterruptedTurnsLeaveNoRow == Spec => []InterruptLeavesNoRow
<1>1. SilentInv => InterruptLeavesNoRow
  BY DEF SilentInv, SilencedGone, NoRow, InterruptLeavesNoRow
<1> QED BY <1>1, SilentInvariant, PTL

-----------------------------------------------------------------------------
(***************************************************************************)
(* What was seen done is stored                                            *)
(***************************************************************************)

HasRow(t, role) == \E i \in DOMAIN rows : rows[i].turn = t /\ rows[i].role = role

Answered == Saved \ {"saveModel"}
Late == {"commit", "announce", "closing", "partial", "done"}

(* Past the await that saves it a row is there *)
RowsKept ==
  \A t \in Turn :
    /\ turn[t].pc \in Saved /\ turn[t].text # {} => HasRow(t, "user")
    /\ turn[t].pc \in Answered /\ turn[t].got = 2 => HasRow(t, "model")

ConfirmedKept ==
  \A t \in confirmed :
    /\ turn[t].pc \in Late
    /\ turn[t].text # {} => HasRow(t, "user")
    /\ turn[t].got = 2 => HasRow(t, "model")

DurableInv == RowsKept /\ ConfirmedKept

LEMMA HasRowKept ==
  ASSUME NEW t \in Turn, NEW u \in Turn, NEW role, RowsGrow(t), HasRow(u, role)
  PROVE  HasRow(u, role)'
BY DEF RowsGrow, HasRow

LEMMA UserRowThere ==
  ASSUME TypeOK, NEW t \in Turn, AddUserRow(t), turn[t].text # {}
  PROVE  HasRow(t, "user")'
<1> DEFINE row == [role |-> "user", turn |-> t, text |-> turn[t].text, mark |-> "whole"]
<1>1. rows \in Seq(Row) /\ rows' = Append(rows, row)
  BY DEF TypeOK, AddUserRow
<1>2. Len(rows) + 1 \in DOMAIN rows' /\ rows'[Len(rows) + 1] = row
  BY <1>1
<1> QED BY <1>2 DEF HasRow

LEMMA ModelRowThere ==
  ASSUME TypeOK, NEW t \in Turn, NEW mark, AddModelRow(t, mark), turn[t].got # 0
  PROVE  HasRow(t, "model")'
<1> DEFINE row == [role |-> "model", turn |-> t, text |-> {}, mark |-> mark]
<1>1. rows \in Seq(Row) /\ rows' = Append(rows, row)
  BY DEF TypeOK, AddModelRow
<1>2. Len(rows) + 1 \in DOMAIN rows' /\ rows'[Len(rows) + 1] = row
  BY <1>1
<1> QED BY <1>2 DEF HasRow

(* Where a step of a turn takes it *)
LEMMA TurnSaves ==
  ASSUME TurnInv, ~DbMayFail, NEW t \in Turn, TurnStep(t) \/ ModelStep(t)
  PROVE  /\ turn'[t].pc \in Saved => turn[t].pc \in Saved \/ AddUserRow(t)
         /\ turn'[t].pc \in Answered =>
              \/ turn[t].pc \in Answered
              \/ (\E mark : AddModelRow(t, mark)) /\ (turn'[t].got = 2 => turn[t].got # 0)
         /\ turn[t].pc \in Answered \cup Late => turn'[t].got = turn[t].got
         /\ t \in confirmed' => t \in confirmed \/ turn[t].pc = "finish"
         /\ turn[t].pc \in {"finish"} \cup Late => turn'[t].pc \in Late
<1>r. turn \in [Turn -> TurnRecord] /\ turn[t] \in TurnRecord
  BY DEF TurnInv, TypeOK
<1>m. \A pc \in PC : Moved(turn[t], pc).pc = pc /\ Moved(turn[t], pc).got = turn[t].got
  BY <1>r, MovedOn
<1>g. HandlerPC(turn[t]) \in {"partial", "done"}
  BY DEF HandlerPC
<1>p. PC = {"none", "history", "agent", "llm", "emit", "saveUser", "saveModel", "speak",
            "farewell", "persist", "finish", "commit", "announce", "closing", "partial", "done"}
  BY DEF PC
<1> USE DEF At, Go, historyVars, Saved, Answered, Late
<1>1. CASE Evaluate(t)
  BY <1>1, <1>r DEF Evaluate
<1>2. CASE OpenStream(t)
  BY <1>2, <1>r, <1>m, <1>p DEF OpenStream
<1>3. CASE AgentFails(t)
  BY <1>3, <1>r, <1>m, <1>p DEF AgentFails
<1>4. CASE Emit(t)
  BY <1>4, <1>r, <1>m, <1>p DEF Emit
<1>5. CASE HaltEmit(t)
  BY <1>5, <1>r, <1>m, <1>p DEF HaltEmit
<1>6. CASE SaveUser(t)
  BY <1>6, <1>r, <1>m, <1>p DEF SaveUser
<1>7. CASE SaveUserFails(t)
  BY <1>7 DEF SaveUserFails
<1>8. CASE SaveModel(t)
  <2>0. (\E mark : AddModelRow(t, mark)) /\ turn[t].pc = "saveModel" /\ UNCHANGED confirmed
    BY <1>8 DEF SaveModel
  <2>1. CASE turn[t].exit = "end"
    <3>1. PICK s : s = [turn[t] EXCEPT !.pc = IF turn[t].class = "eligible" /\ turn[t].sentinel
                                              THEN "farewell" ELSE "speak",
                                       !.farewell = turn[t].class = "eligible" /\ turn[t].sentinel,
                                       !.got = IF turn[t].got = 0 THEN 0 ELSE 2]
      OBVIOUS
    <3>2. turn' = [turn EXCEPT ![t] = s]
      BY <1>8, <1>r, <2>1, <3>1 DEF SaveModel, AfterAgent
    <3>3. s.pc \in {"farewell", "speak"} /\ (s.got = 2 => turn[t].got # 0)
      BY <1>r, <3>1 DEF TurnRecord
    <3>4. turn'[t] = s
      BY <1>r, <3>2
    <3> QED BY <2>0, <3>3, <3>4
  <2>2. CASE turn[t].exit = "fail"
    BY <1>8, <1>r, <1>m, <1>p, <2>0, <2>2 DEF SaveModel, AfterAgent
  <2>3. CASE turn[t].exit = "cancel"
    BY <1>8, <1>r, <1>m, <1>p, <1>g, <2>0, <2>3 DEF SaveModel, AfterAgent
  <2> QED BY <1>r, <2>1, <2>2, <2>3 DEF TurnRecord
<1>9. CASE HaltSpeak(t)
  BY <1>9, <1>r, <1>m, <1>p DEF HaltSpeak
<1>10. CASE ApplyDecision(t)
  <2>1. CASE turn[t].class = "degraded"
    BY <1>10, <1>r, <1>m, <1>p, <2>1 DEF ApplyDecision
  <2>2. CASE turn[t].class # "degraded"
    <3>1. turn'[t].pc = "persist" /\ turn'[t].got = turn[t].got
      BY <1>10, <1>r, <2>2 DEF ApplyDecision, TurnRecord
    <3> QED BY <1>10, <3>1 DEF ApplyDecision
  <2> QED BY <2>1, <2>2
<1>11. CASE PersistPolicy(t)
  BY <1>11, <1>r, <1>m, <1>p DEF PersistPolicy
<1>12. CASE Finish(t)
  BY <1>12, <1>r, <1>m, <1>p DEF Finish
<1>13. CASE CommitFinal(t)
  BY <1>13, <1>r, <1>m, <1>p DEF CommitFinal
<1>14. CASE Announce(t)
  BY <1>14, <1>r, <1>m, <1>p DEF Announce
<1>15. CASE CloseSocket(t)
  BY <1>15, <1>r, <1>m, <1>p DEF CloseSocket
<1>16. CASE CancelStream(t)
  <2>1. turn'[t].pc \in {"done", "saveUser"}
    <3>1. Moved(turn[t], "saveUser") \in TurnRecord
      BY <1>r, <1>p, MovedOn
    <3> QED BY <1>16, <1>r, <1>m, <1>p, <3>1 DEF CancelStream, TurnRecord
  <2> QED BY <1>16, <2>1 DEF CancelStream
<1>17. CASE CancelEmit(t)
  BY <1>17, <1>r, <1>m, <1>p, <1>g DEF CancelEmit
<1>18. CASE CancelElsewhere(t)
  <2>1. turn'[t].pc \in {"partial", "done"} /\ turn'[t].got = turn[t].got
    BY <1>18, <1>r, <1>m, <1>p, <1>g DEF CancelElsewhere
  <2>2. t \in confirmed' => t \in confirmed \/ turn[t].pc = "finish"
    BY <1>18 DEF CancelElsewhere
  <2> QED BY <2>1, <2>2
<1>19. CASE SavePartial(t)
  BY <1>19, <1>r, <1>m, <1>p DEF SavePartial
<1>20. CASE Chunk(t)
  BY <1>20, <1>r DEF Chunk, TurnRecord
<1>21. CASE StreamEnds(t)
  BY <1>21, <1>r DEF StreamEnds, TurnRecord
<1> QED BY <1>1, <1>2, <1>3, <1>4, <1>5, <1>6, <1>7, <1>8, <1>9, <1>10, <1>11, <1>12, <1>13, <1>14,
           <1>15, <1>16, <1>17, <1>18, <1>19, <1>20, <1>21 DEF TurnStep, ModelStep, CancelLands

LEMMA TurnKeepsDurableInv ==
  ASSUME TurnInv, DurableInv, ~DbMayFail, NEW t \in Turn, TurnStep(t) \/ ModelStep(t)
  PROVE  DurableInv'
<1>1. PICK r : Moves(t, r)
  BY TurnMoves
<1>2. Writes(t) /\ TypeOK
  BY TurnWrites DEF TurnInv
<1>3. /\ turn'[t].text = turn[t].text /\ \A u \in Turn : u # t => turn'[u] = turn[u]
      /\ confirmed' \in {confirmed, confirmed \cup {t}} /\ confirmed \subseteq Turn
  BY <1>1, <1>2 DEF Moves, Writes, TypeOK
<1>4. \A u \in Turn, role \in {"user", "model"} : HasRow(u, role) => HasRow(u, role)'
  BY <1>2, HasRowKept DEF Writes
<1>5. RowsKept'
  <2>1. ASSUME turn'[t].pc \in Saved, turn[t].text # {} PROVE HasRow(t, "user")'
    BY <1>2, <1>4, <2>1, TurnSaves, UserRowThere DEF DurableInv, RowsKept
  <2>2. ASSUME turn'[t].pc \in Answered, turn'[t].got = 2 PROVE HasRow(t, "model")'
    <3>1. CASE turn[t].pc \in Answered
      <4>1. turn[t].got = 2
        BY <2>2, <3>1, TurnSaves
      <4> QED BY <1>4, <3>1, <4>1 DEF DurableInv, RowsKept
    <3>2. CASE turn[t].pc \notin Answered
      <4>1. (\E mark : AddModelRow(t, mark)) /\ turn[t].got # 0
        BY <2>2, <3>2, TurnSaves
      <4> QED BY <1>2, <4>1, ModelRowThere
    <3> QED BY <3>1, <3>2
  <2>3. ASSUME NEW u \in Turn, u # t
        PROVE  /\ turn'[u].pc \in Saved /\ turn'[u].text # {} => HasRow(u, "user")'
               /\ turn'[u].pc \in Answered /\ turn'[u].got = 2 => HasRow(u, "model")'
    BY <1>3, <1>4, <2>3 DEF DurableInv, RowsKept
  <2> QED BY <1>3, <2>1, <2>2, <2>3 DEF RowsKept
<1>6. ConfirmedKept'
  <2>1. ASSUME t \in confirmed'
        PROVE  /\ turn'[t].pc \in Late
               /\ turn'[t].text # {} => HasRow(t, "user")'
               /\ turn'[t].got = 2 => HasRow(t, "model")'
    <3>1. turn[t].pc \in {"finish"} \cup Late /\ turn'[t].pc \in Late /\ turn'[t].got = turn[t].got
      BY <2>1, TurnSaves DEF DurableInv, ConfirmedKept, Answered, Saved
    <3>2. CASE t \in confirmed
      BY <1>3, <1>4, <3>1, <3>2 DEF DurableInv, ConfirmedKept
    <3>3. CASE turn[t].pc = "finish"
      BY <1>3, <1>4, <3>1, <3>3 DEF DurableInv, RowsKept, Saved, Answered
    <3> QED BY <2>1, <3>2, <3>3, TurnSaves
  <2>2. ASSUME NEW u \in confirmed', u # t
        PROVE  /\ turn'[u].pc \in Late
               /\ turn'[u].text # {} => HasRow(u, "user")'
               /\ turn'[u].got = 2 => HasRow(u, "model")'
    <3>1. u \in confirmed /\ u \in Turn
      BY <1>3, <2>2
    <3> QED BY <1>3, <1>4, <2>2, <3>1 DEF DurableInv, ConfirmedKept
  <2> QED BY <2>1, <2>2 DEF ConfirmedKept
<1> QED BY <1>5, <1>6 DEF DurableInv

LEMMA OrphanKeepsDurableInv ==
  ASSUME TurnInv, DurableInv, NEW t \in Turn, OrphanStep(t)
  PROVE  DurableInv'
<1>1. UNCHANGED <<turn, confirmed>> /\ confirmed \subseteq Turn
  BY DEF OrphanStep, CloseOrphan, SaveOrphan, historyVars, TurnInv, TypeOK
<1>2. \A u \in Turn, role \in {"user", "model"} : HasRow(u, role) => HasRow(u, role)'
  BY OrphanKeepsTurnInv, HasRowKept
<1>3. RowsKept'
  BY <1>1, <1>2 DEF DurableInv, RowsKept
<1>4. ConfirmedKept'
  BY <1>1, <1>2 DEF DurableInv, ConfirmedKept
<1> QED BY <1>3, <1>4 DEF DurableInv

LEMMA LoopKeepsDurableInv ==
  ASSUME TurnInv, DurableInv, ClientStep \/ LoopStep
  PROVE  DurableInv'
<1>1. LoopMoves
  BY LoopStepMoves
<1>2. /\ \A u \in Turn, role \in {"user", "model"} : HasRow(u, role) => HasRow(u, role)'
      /\ confirmed' = confirmed /\ confirmed \subseteq Turn
  BY <1>1 DEF LoopMoves, HasRow, TurnInv, TypeOK
<1>3. CASE \A t \in Turn : SameTurn(t)
  <2>1. RowsKept'
    BY <1>2, <1>3 DEF DurableInv, RowsKept, SameTurn
  <2>2. ConfirmedKept'
    BY <1>2, <1>3 DEF DurableInv, ConfirmedKept, SameTurn
  <2> QED BY <2>1, <2>2 DEF DurableInv
<1>4. CASE /\ last' = last + 1 /\ last' \in Turn
           /\ \A t \in Turn : t # last' => turn'[t] = turn[t]
           /\ turn'[last'].pc = "history"
  <2>1. turn[last'].pc = "none"
    <3>1. last \in Nat /\ last' > last
      BY <1>4 DEF TurnInv, TypeOK, Turn
    <3>2. turn[last'] = NoTurn
      BY <1>4, <3>1 DEF TurnInv, TurnsInOrder
    <3> QED BY <3>2 DEF NoTurn
  <2>2. last' \notin confirmed
    BY <2>1 DEF DurableInv, ConfirmedKept, Late
  <2>3. RowsKept'
    BY <1>2, <1>4 DEF DurableInv, RowsKept, Saved, Answered
  <2>4. ConfirmedKept'
    BY <1>2, <1>4, <2>2 DEF DurableInv, ConfirmedKept
  <2> QED BY <2>3, <2>4 DEF DurableInv
<1> QED BY <1>1, <1>3, <1>4 DEF LoopMoves

(***************************************************************************)
(* DoneIsDurable: the done frame is sent after the awaits that store the   *)
(* messages and the answer, and a cancellation raised at either leaves the *)
(* turn by the handler, which never sends it (agent.py _stream_and_persist,*)
(* session.py _process_turn).  A failing statement is logged and the turn  *)
(* goes on, so the database is assumed to work.                            *)
(***************************************************************************)
THEOREM DoneTurnsAreDurable ==
  ASSUME ~DbMayFail
  PROVE  Spec => []DoneIsDurable
<1>1. Init => DurableInv
  BY DEF Init, NoTurn, DurableInv, RowsKept, ConfirmedKept, Saved, Answered
<1>2. TurnInv /\ DurableInv /\ [Next]_vars => DurableInv'
  <2> SUFFICES ASSUME TurnInv, DurableInv, [Next]_vars PROVE DurableInv'
    OBVIOUS
  <2>1. CASE Next
    BY <2>1, TurnKeepsDurableInv, OrphanKeepsDurableInv, LoopKeepsDurableInv DEF Next
  <2>2. CASE UNCHANGED vars
    BY <2>2 DEF vars, DurableInv, RowsKept, ConfirmedKept, HasRow
  <2> QED BY <2>1, <2>2
<1>3. DurableInv => DoneIsDurable
  BY DEF DurableInv, ConfirmedKept, HasRow, DoneIsDurable
<1> QED BY <1>1, <1>2, <1>3, TurnInvariant, PTL DEF Spec

-----------------------------------------------------------------------------
(***************************************************************************)
(* No message is lost                                                      *)
(***************************************************************************)

Ready == {"greeting", "top", "receive"}
Kept == StoredText \cup answered

(* Once its user row is saved the messages of a turn are stored *)
SavedText == \A t \in Turn : turn[t].pc \in Saved => turn[t].text \subseteq StoredText

(* An abandoned generator may be closed without a trace: somebody else has its messages *)
OrphansKept ==
  \A t \in Turn :
    /\ orphan[t] = "suspended" =>
         /\ turn[t].text \subseteq Kept \cup turn[last].text
         /\ loop \in Ready /\ socket = "open" /\ ~Running => turn[t].text \subseteq Kept
    /\ orphan[t] = "saveModel" => turn[t].text \subseteq StoredText

Accounted ==
  /\ loop \in Ready =>
       1 .. received \subseteq Kept \cup OrphanText \cup (IF Running THEN turn[last].text ELSE {})
  /\ loop = "cancelling" => 1 .. received \subseteq Kept \cup OrphanText \cup turn[last].text
  /\ loop \in {"interrupting", "acked"} =>
       1 .. received - 1 \subseteq Kept \cup OrphanText \cup turn[last].text

MessageInv == SavedText /\ OrphansKept /\ Accounted

LEMMA StoredTextGrows ==
  ASSUME NEW t \in Turn, RowsGrow(t)
  PROVE  StoredText \subseteq StoredText'
BY DEF RowsGrow, StoredText

LEMMA UserTextStored ==
  ASSUME TypeOK, NEW t \in Turn, AddUserRow(t)
  PROVE  turn[t].text \subseteq StoredText'
<1>1. CASE turn[t].text # {}
  <2> DEFINE row == [role |-> "user", turn |-> t, text |-> turn[t].text, mark |-> "whole"]
  <2>1. rows \in Seq(Row) /\ rows' = Append(rows, row)
    BY <1>1 DEF TypeOK, AddUserRow
  <2>2. Len(rows) + 1 \in DOMAIN rows' /\ rows'[Len(rows) + 1] = row
    BY <2>1
  <2> QED BY <2>2 DEF StoredText
<1> QED BY <1>1

LEMMA OrphanTextOf ==
  \A m : m \in OrphanText <=> \E t \in Turn : orphan[t] # "none" /\ m \in turn[t].text
BY DEF OrphanText

LEMMA OrphanTextKept ==
  ASSUME \A t \in Turn : orphan[t] # "none" => orphan'[t] # "none" /\ turn'[t].text = turn[t].text
  PROVE  OrphanText \subseteq OrphanText'
BY DEF OrphanText

(* A turn that ends unless cancelled has its messages kept, or left to its generator *)
LEMMA TurnEnds ==
  ASSUME TurnInv, SavedText, ~DbMayFail, NEW t \in Turn, TurnStep(t) \/ ModelStep(t),
         turn'[t].pc = "done", loop \in Ready
  PROVE  turn[t].text \subseteq Kept' \/ (socket # "open" /\ orphan'[t] = "suspended")
<1>r. turn \in [Turn -> TurnRecord] /\ turn[t] \in TurnRecord /\ orphan \in [Turn -> OrphanState]
  BY DEF TurnInv, TypeOK, OrphanState
<1>m. \A pc \in PC : Moved(turn[t], pc).pc = pc
  BY <1>r, MovedOn
<1>p. PC = {"none", "history", "agent", "llm", "emit", "saveUser", "saveModel", "speak",
            "farewell", "persist", "finish", "commit", "announce", "closing", "partial", "done"}
  BY DEF PC
<1>w. StoredText \subseteq StoredText' /\ answered \subseteq answered'
  BY TurnWrites, StoredTextGrows DEF Writes, TurnInv
<1>1. ~Cancelled(turn[t])
  BY DEF TurnInv, CancelAwaited, Ready
<1>2. CASE turn[t].pc \in Saved
  BY <1>2, <1>w DEF SavedText, Kept
<1>3. CASE turn[t].pc \notin Saved
  <2> USE DEF At, Go
  <2>1. ~SaveModel(t) /\ ~HaltSpeak(t) /\ ~ApplyDecision(t) /\ ~PersistPolicy(t) /\ ~Finish(t)
        /\ ~CommitFinal(t) /\ ~Announce(t) /\ ~CloseSocket(t)
    BY <1>3 DEF SaveModel, HaltSpeak, ApplyDecision, PersistPolicy, Finish, CommitFinal, Announce,
          CloseSocket, Saved
  <2>2. ~CancelStream(t) /\ ~CancelEmit(t) /\ ~CancelElsewhere(t) /\ ~SavePartial(t) /\ ~SaveUserFails(t)
    BY <1>1 DEF CancelStream, CancelEmit, CancelElsewhere, SavePartial, SaveUserFails, Cancelled
  <2>3. ~Evaluate(t)
    <3>1. Evaluate(t) => \E c : turn'[t] = [turn[t] EXCEPT !.pc = "agent", !.class = c]
      BY <1>r DEF Evaluate
    <3> QED BY <1>r, <3>1 DEF TurnRecord
  <2>4. ~OpenStream(t) /\ ~Emit(t) /\ ~SaveUser(t)
    BY <1>r, <1>m, <1>p DEF OpenStream, Emit, SaveUser
  <2>5. ~Chunk(t)
    BY <1>r DEF Chunk, TurnRecord
  <2>6. ~StreamEnds(t)
    BY <1>r DEF StreamEnds, TurnRecord
  <2>7. CASE AgentFails(t)
    BY <1>w, <2>7 DEF AgentFails, Kept
  <2>8. CASE HaltEmit(t)
    BY <1>r, <2>8 DEF HaltEmit
  <2> QED BY <2>1, <2>2, <2>3, <2>4, <2>5, <2>6, <2>7, <2>8 DEF TurnStep, ModelStep, CancelLands
<1> QED BY <1>2, <1>3

LEMMA TurnKeepsMessageInv ==
  ASSUME TurnInv, MessageInv, ~DbMayFail, NEW t \in Turn, TurnStep(t) \/ ModelStep(t)
  PROVE  MessageInv'
<1>1. PICK r : Moves(t, r)
  BY TurnMoves
<1>2. Writes(t) /\ TypeOK
  BY TurnWrites DEF TurnInv
<1>3. /\ t = last /\ last' = last /\ loop' = loop /\ received' = received
      /\ turn[t].pc # "done"
      /\ \A u \in Turn : turn'[u].text = turn[u].text /\ (u # t => turn'[u] = turn[u])
  BY <1>1, <1>2, AliveIsLast DEF Moves, TypeOK
<1>4. Kept \subseteq Kept' /\ StoredText \subseteq StoredText'
  BY <1>2, StoredTextGrows DEF Writes, Kept
<1>5. \A u \in Turn : /\ orphan[u] # "none" => orphan'[u] # "none"
                      /\ orphan'[u] = "saveModel" => orphan[u] = "saveModel"
                      /\ orphan'[u] = "suspended" => orphan[u] = "suspended" \/ u = t
  BY <1>2 DEF Writes, TypeOK
<1>6. OrphanText \subseteq OrphanText'
  BY <1>3, <1>5, OrphanTextKept
<1>7. turn'[t].pc = "done" /\ loop \in Ready =>
        turn[t].text \subseteq Kept' \/ (socket # "open" /\ orphan'[t] = "suspended")
  BY TurnEnds DEF MessageInv
<1>8. SavedText'
  <2>1. turn'[t].pc \in Saved => turn[t].text \subseteq StoredText'
    BY <1>2, <1>4, TurnSaves, UserTextStored DEF MessageInv, SavedText
  <2> QED BY <1>3, <1>4, <2>1 DEF MessageInv, SavedText
<1>9. OrphansKept'
  <2>1. ASSUME NEW u \in Turn, orphan'[u] = "suspended"
        PROVE  /\ turn[u].text \subseteq Kept' \cup turn[last].text
               /\ loop \in Ready /\ socket' = "open" /\ turn'[t].pc = "done" => turn[u].text \subseteq Kept'
    <3>1. turn[u].text \subseteq Kept' \cup turn[last].text
      BY <1>3, <1>4, <1>5, <2>1 DEF MessageInv, OrphansKept
    <3>2. socket' = "open" => socket = "open"
      BY <1>2 DEF Writes
    <3> QED BY <1>3, <1>7, <3>1, <3>2
  <2>2. ASSUME NEW u \in Turn, orphan'[u] = "saveModel"
        PROVE  turn[u].text \subseteq StoredText'
    BY <1>4, <1>5, <2>2 DEF MessageInv, OrphansKept
  <2> QED BY <1>3, <2>1, <2>2 DEF OrphansKept, Running
<1>10. Accounted'
  <2>1. turn'[t].pc = "done" /\ loop \in Ready => turn[t].text \subseteq Kept' \cup OrphanText'
    <3>1. orphan'[t] = "suspended" => turn'[t].text \subseteq OrphanText'
      BY DEF OrphanText
    <3> QED BY <1>3, <1>7, <3>1
  <2>2. loop \in Ready => 1 .. received \subseteq Kept' \cup OrphanText' \cup turn[last].text
    BY <1>3, <1>4, <1>6 DEF MessageInv, Accounted
  <2> QED BY <1>3, <1>4, <1>6, <2>1, <2>2 DEF MessageInv, Accounted, Running, Ready
<1> QED BY <1>8, <1>9, <1>10 DEF MessageInv

LEMMA OrphanKeepsMessageInv ==
  ASSUME TurnInv, MessageInv, NEW t \in Turn, OrphanStep(t)
  PROVE  MessageInv'
<1>0. TypeOK
  BY DEF TurnInv
<1>1. UNCHANGED <<turn, loop, last, received, socket, answered>> /\ orphan[t] # "none"
  BY DEF OrphanStep, CloseOrphan, SaveOrphan, loopVars, historyVars, clientVars
<1>2. StoredText \subseteq StoredText' /\ Kept \subseteq Kept'
  BY <1>1, OrphanKeepsTurnInv, StoredTextGrows DEF Kept
<1>3. \A u \in Turn : u # t => orphan'[u] = orphan[u]
  BY <1>0 DEF OrphanStep, CloseOrphan, SaveOrphan, TypeOK
<1>4. /\ orphan'[t] # "suspended"
      /\ orphan'[t] = "saveModel" => turn[t].text \subseteq StoredText'
      /\ orphan'[t] = "none" => turn[t].text \subseteq Kept' \cup turn[last].text
      /\ orphan'[t] = "none" /\ loop \notin {"interrupting", "acked"} => turn[t].text \subseteq Kept'
  <2>1. CASE CloseOrphan(t)
    <3>1. orphan'[t] = IF interrupting THEN "none" ELSE "saveUser"
      BY <1>0, <2>1 DEF CloseOrphan, TypeOK
    <3>2. turn[t].text \subseteq Kept \cup turn[last].text
      BY <2>1 DEF CloseOrphan, MessageInv, OrphansKept
    <3> QED BY <1>2, <3>1, <3>2 DEF TurnInv, CancelAwaited
  <2>2. CASE SaveOrphan(t)
    <3>1. \/ orphan'[t] = "saveModel" /\ AddUserRow(t)
          \/ orphan'[t] = "none" /\ orphan[t] = "saveModel"
      BY <1>0, <2>2 DEF SaveOrphan, TypeOK
    <3>2. orphan[t] = "saveModel" => turn[t].text \subseteq Kept'
      BY <1>2 DEF MessageInv, OrphansKept, Kept
    <3> QED BY <1>0, <3>1, <3>2, UserTextStored
  <2> QED BY <2>1, <2>2 DEF OrphanStep
<1>5. SavedText'
  BY <1>1, <1>2 DEF MessageInv, SavedText
<1>6. OrphansKept'
  BY <1>1, <1>2, <1>3, <1>4 DEF MessageInv, OrphansKept, Running
<1>7. OrphanText \subseteq OrphanText' \cup (IF orphan'[t] = "none" THEN turn[t].text ELSE {})
  BY <1>1, <1>3 DEF OrphanText
<1>8. Accounted'
  BY <1>1, <1>2, <1>4, <1>7 DEF MessageInv, Accounted, Running, Ready
<1> QED BY <1>5, <1>6, <1>8 DEF MessageInv

(* How the loop takes a message, and lets go of one *)
LEMMA LoopAccounts ==
  ASSUME TurnInv, ClientStep \/ LoopStep
  PROVE  \/ \E m \in Message : Spawned(m, prefix) /\ ~Running /\ UNCHANGED answered
              /\ \/ loop = "receive" /\ socket = "open" /\ received' = received + 1 /\ m = received'
                 \/ loop = "acked" /\ received' = received /\ m = received
         \/ /\ \A t \in Turn : SameTurn(t)
            /\ last' = last /\ answered \subseteq answered' /\ (socket' = "open" => socket = "open")
            /\ loop' \in Ready => received' = received /\
                 (loop \in Ready \/ (loop = "cancelling" /\ turn[last].text \subseteq answered'))
            /\ loop' = "cancelling" => received' = received /\ (loop = "cancelling" \/ (loop \in Ready /\ Running))
            /\ loop' \in {"interrupting", "acked"} =>
                 \/ received' = received /\ loop \in {"interrupting", "acked"}
                 \/ received' = received + 1 /\ loop \in Ready /\ Running
<1> USE DEF clientVars, loopVars, dbVars, wrapVars, historyVars, Ready
<1>0. /\ UNCHANGED turn => \A t \in Turn : SameTurn(t)
      /\ last \in Turn /\ loop \in Loop
  BY DEF SameTurn, TurnInv, TypeOK
<1>c. ASSUME Running, turn' = [turn EXCEPT ![last].cancel = TRUE]
      PROVE  \A t \in Turn : SameTurn(t)
  <2>1. turn[last].pc \notin {"none", "done"}
    BY <1>c DEF Running, TurnInv, TurnsInOrder
  <2> QED BY <1>0, <1>c, <2>1, CancelRequested DEF SameTurn
<1>1. CASE ReceiveMessage
  <2>1. received' \in Message /\ last < Messages
    BY <1>1, MessagesAssumption DEF ReceiveMessage, TurnInv, TurnsInOrder, TypeOK, Message, Turn
  <2>2. Spawned(received', prefix)
    BY <1>1, <2>1, SpawnStarts DEF ReceiveMessage, TurnInv
  <2> QED BY <1>1, <2>1, <2>2 DEF ReceiveMessage
<1>2. CASE SpawnBundle
  <2>1. received \in Message /\ last < Messages /\ ~Running
    BY <1>2, MessagesAssumption
       DEF SpawnBundle, TurnInv, TurnsInOrder, CancelAwaited, TypeOK, Message, Turn, Running
  <2>2. Spawned(received, prefix)
    BY <1>2, <2>1, SpawnStarts DEF SpawnBundle, TurnInv
  <2> QED BY <1>2, <2>1, <2>2 DEF SpawnBundle
<1>3. CASE ReceiveInterrupt
  BY <1>0, <1>3, <1>c DEF ReceiveInterrupt
<1>4. CASE ReceiveCancel
  BY <1>4, <1>c DEF ReceiveCancel
<1>5. CASE IdleTimeout
  <2>1. (\A t \in Turn : SameTurn(t))
    BY <1>0, <1>5, <1>c DEF IdleTimeout
  <2> QED BY <1>5, <2>1 DEF IdleTimeout
<1>6. CASE IgnoreFrame \/ GreetingDone \/ LoopTop \/ Drained
  BY <1>0, <1>6 DEF IgnoreFrame, GreetingDone, LoopTop, Drained
<1>7. CASE Drop
  BY <1>0, <1>7 DEF Drop, TurnInv, TypeOK
<1>8. CASE AwaitInterrupted
  BY <1>0, <1>8 DEF AwaitInterrupted
<1>9. CASE AwaitCancelled
  BY <1>0, <1>9 DEF AwaitCancelled
<1>10. CASE ReceiveDisconnect \/ AwaitIdle \/ WrapUp \/ WrapUpCommit
  BY <1>0, <1>10 DEF ReceiveDisconnect, AwaitIdle, WrapUp, WrapUpCommit
<1> QED BY <1>1, <1>2, <1>3, <1>4, <1>5, <1>6, <1>7, <1>8, <1>9, <1>10 DEF ClientStep, LoopStep

LEMMA LoopKeepsMessageInv ==
  ASSUME TurnInv, SilentInv, MessageInv, ClientStep \/ LoopStep
  PROVE  MessageInv'
<1>0. UNCHANGED <<rows, orphan>> /\ StoredText' = StoredText /\ received \in Nat
  BY LoopStepMoves DEF LoopMoves, StoredText, TurnInv, TypeOK
<1>1. ASSUME NEW m \in Message, Spawned(m, prefix), ~Running, UNCHANGED answered,
             \/ loop = "receive" /\ socket = "open" /\ received' = received + 1 /\ m = received'
             \/ loop = "acked" /\ received' = received /\ m = received
      PROVE  MessageInv'
  <2>1. last' \in Turn /\ orphan[last'] = "none" /\ last' # last /\ last \in Turn
    <3>1. last \in Nat /\ last' > last /\ last' \in Turn
      BY <1>1 DEF Spawned, TurnInv, TypeOK, Turn
    <3>2. turn[last'].pc = "none"
      BY <3>1 DEF TurnInv, TurnsInOrder, NoTurn
    <3> QED BY <3>1, <3>2 DEF SilentInv, NothingYet, Unsaved, TurnInv, TypeOK
  <2>2. /\ \A t \in Turn : t # last' => turn'[t] = turn[t]
        /\ turn'[last'].text = prefix \cup {m} /\ turn'[last'].pc = "history" /\ loop' = "top"
    BY <1>1 DEF Spawned
  <2>3. Kept' = Kept /\ OrphanText \subseteq OrphanText'
    BY <1>0, <1>1, <2>1, <2>2, OrphanTextKept DEF Kept
  <2>4. loop = "acked" => prefix = turn[last].text
    BY DEF TurnInv, CancelAwaited
  <2>5. Running'
    BY <2>2 DEF Running
  <2>6. SavedText'
    BY <1>0, <2>2 DEF MessageInv, SavedText, Saved
  <2>7. OrphansKept'
    <3>1. ASSUME NEW t \in Turn, orphan[t] = "suspended"
          PROVE  turn'[t].text \subseteq Kept \cup turn'[last'].text
      BY <1>1, <2>1, <2>2, <2>4, <3>1 DEF MessageInv, OrphansKept, Ready
    <3>2. ASSUME NEW t \in Turn, orphan[t] = "saveModel" PROVE turn'[t].text \subseteq StoredText
      BY <2>1, <2>2, <3>2 DEF MessageInv, OrphansKept
    <3> QED BY <1>0, <2>3, <2>5, <3>1, <3>2 DEF OrphansKept
  <2>8. 1 .. received' \subseteq Kept \cup OrphanText \cup turn'[last'].text
    <3>1. CASE loop = "receive"
      <4>1. 1 .. received \subseteq Kept \cup OrphanText
        BY <1>1, <3>1 DEF MessageInv, Accounted, Ready
      <4>2. 1 .. received' \subseteq (1 .. received) \cup {m}
        BY <1>0, <1>1, <3>1
      <4> QED BY <2>2, <4>1, <4>2
    <3>2. CASE loop = "acked"
      <4>1. 1 .. received - 1 \subseteq Kept \cup OrphanText \cup turn[last].text
        BY <3>2 DEF MessageInv, Accounted
      <4>2. 1 .. received' \subseteq (1 .. received - 1) \cup {m}
        BY <1>0, <1>1, <3>2
      <4> QED BY <2>2, <2>4, <3>2, <4>1, <4>2
    <3> QED BY <1>1, <3>1, <3>2
  <2>9. Accounted'
    BY <2>2, <2>3, <2>5, <2>8 DEF Accounted
  <2> QED BY <2>6, <2>7, <2>9 DEF MessageInv
<1>2. ASSUME \A t \in Turn : SameTurn(t),
             last' = last, answered \subseteq answered', socket' = "open" => socket = "open",
             loop' \in Ready => received' = received /\
                 (loop \in Ready \/ (loop = "cancelling" /\ turn[last].text \subseteq answered')),
             loop' = "cancelling" => received' = received /\ (loop = "cancelling" \/ (loop \in Ready /\ Running)),
             loop' \in {"interrupting", "acked"} =>
                 \/ received' = received /\ loop \in {"interrupting", "acked"}
                 \/ received' = received + 1 /\ loop \in Ready /\ Running
      PROVE  MessageInv'
  <2>1. /\ \A t \in Turn : turn'[t].text = turn[t].text /\ turn'[t].pc = turn[t].pc
        /\ last \in Turn /\ (Running' <=> Running)
    BY <1>2 DEF SameTurn, TurnInv, TypeOK, Running
  <2>2. Kept \subseteq Kept' /\ answered' \subseteq Kept' /\ OrphanText \subseteq OrphanText'
    BY <1>0, <1>2, <2>1, OrphanTextKept DEF Kept
  <2>3. SavedText'
    BY <1>0, <2>1 DEF MessageInv, SavedText
  <2>4. OrphansKept'
    <3>1. ASSUME NEW t \in Turn, orphan[t] = "suspended"
          PROVE  turn[t].text \subseteq Kept' \cup turn[last].text
      BY <2>2, <3>1 DEF MessageInv, OrphansKept
    <3>2. ASSUME NEW t \in Turn, orphan[t] = "suspended", loop' \in Ready, socket' = "open", ~Running
          PROVE  turn[t].text \subseteq Kept'
      <4>1. CASE loop \in Ready
        BY <1>2, <2>2, <3>2, <4>1 DEF MessageInv, OrphansKept
      <4>2. CASE turn[last].text \subseteq answered'
        BY <2>2, <3>1, <3>2, <4>2
      <4> QED BY <1>2, <3>2, <4>1, <4>2
    <3>3. ASSUME NEW t \in Turn, orphan[t] = "saveModel" PROVE turn[t].text \subseteq StoredText
      BY <3>3 DEF MessageInv, OrphansKept
    <3> QED BY <1>0, <1>2, <2>1, <3>1, <3>2, <3>3 DEF OrphansKept
  <2>5. Accounted'
    <3> DEFINE T == turn[last].text
    <3>0. turn'[last'].text = T
      BY <1>2, <2>1
    <3>1. ASSUME loop' \in Ready
          PROVE 1 .. received' \subseteq Kept' \cup OrphanText' \cup (IF Running THEN T ELSE {})
      BY <1>2, <2>2, <3>1 DEF MessageInv, Accounted, Ready
    <3>2. ASSUME loop' = "cancelling" PROVE 1 .. received' \subseteq Kept' \cup OrphanText' \cup T
      BY <1>2, <2>2, <3>2 DEF MessageInv, Accounted, Ready
    <3>3. ASSUME loop' \in {"interrupting", "acked"}
          PROVE 1 .. received' - 1 \subseteq Kept' \cup OrphanText' \cup T
      <4>1. CASE received' = received /\ loop \in {"interrupting", "acked"}
        BY <2>2, <4>1 DEF MessageInv, Accounted
      <4>2. CASE received' = received + 1 /\ loop \in Ready /\ Running
        <5>1. received' - 1 = received
          BY <1>0, <4>2
        <5> QED BY <2>2, <4>2, <5>1 DEF MessageInv, Accounted
      <4> QED BY <1>2, <3>3, <4>1, <4>2
    <3> QED BY <2>1, <3>0, <3>1, <3>2, <3>3 DEF Accounted
  <2> QED BY <2>3, <2>4, <2>5 DEF MessageInv
<1> QED BY <1>1, <1>2, LoopAccounts

(***************************************************************************)
(* NoMessageLost: however messages, interruptions, cancellations, drops    *)
(* and errors follow each other, a message that was taken is stored,       *)
(* carried by the running turn, left to an abandoned generator, or was     *)
(* answered by an error or cancelled frame.  A generator closed under the  *)
(* interrupt flag writes nothing, so the argument has to show that its     *)
(* messages are in the bundle of the next turn.  A failing user row loses  *)
(* its message, so the database is assumed to work.                        *)
(***************************************************************************)
THEOREM MessagesAreNeverLost ==
  ASSUME ~DbMayFail
  PROVE  Spec => []NoMessageLost
<1>1. Init => MessageInv
  <2> SUFFICES ASSUME Init PROVE MessageInv
    OBVIOUS
  <2>1. SavedText
    BY DEF Init, NoTurn, SavedText, Saved
  <2>2. OrphansKept
    BY DEF Init, OrphansKept
  <2>3. Accounted
    BY DEF Init, Accounted
  <2> QED BY <2>1, <2>2, <2>3 DEF MessageInv
<1>2. TurnInv /\ SilentInv /\ MessageInv /\ [Next]_vars => MessageInv'
  <2> SUFFICES ASSUME TurnInv, SilentInv, MessageInv, [Next]_vars PROVE MessageInv'
    OBVIOUS
  <2>1. CASE Next
    BY <2>1, TurnKeepsMessageInv, OrphanKeepsMessageInv, LoopKeepsMessageInv DEF Next
  <2>2. CASE UNCHANGED vars
    BY <2>2 DEF vars, MessageInv, SavedText, OrphansKept, Accounted, Kept, StoredText, OrphanText, Running
  <2> QED BY <2>1, <2>2
<1>3. MessageInv => NoMessageLost
  BY DEF MessageInv, Accounted, Kept, Ready, NoMessageLost
<1> QED BY <1>1, <1>2, <1>3, TurnInvariant, SilentInvariant, PTL DEF Spec


-----------------------------------------------------------------------------
(***************************************************************************)
(* A session that is armed to close comes to its end.                      *)
(***************************************************************************)

(* A turn that was told to end says no more than what it has produced *)
Told(r) == r.cancel \/ r.pc \in {"partial", "done"} \/ (r.pc \in {"saveUser", "saveModel"} /\ r.exit = "cancel")

(* The closing turn leaves nobody to wait for the client *)
CloseInv ==
  /\ loop = "cancelling" => ~shouldClose /\ Told(turn[last])
  /\ shouldClose => turn[last].pc \in {"closing", "partial", "done"}
  /\ shouldClose /\ loop = "receive" /\ socket = "open" => turn[last].pc = "closing"

(* How far the closing session is from its end: its loop, and within a state of the loop its turn *)
LoopLeft ==
  CASE loop = "greeting" -> 6
    [] loop = "top" -> 5
    [] loop = "receive" -> 4
    [] loop \in {"draining", "idling"} -> 3
    [] loop = "wrapup" -> 2
    [] loop = "wrapping" -> 1
    [] OTHER -> 0
Rank(r) ==
  CASE r.pc = "closing" -> 3
    [] r.pc = "partial" -> IF r.cancel THEN 2 ELSE 1
    [] OTHER -> 0
TurnLeft == Rank(turn[last])

(* Pairs of numbers in the order of the dictionary *)
Before == LexPairOrdering(OpToRel(<, Nat), OpToRel(<, Nat), Nat, Nat)

LEMMA BeforeIsWellFounded == IsWellFoundedOn(Before, Nat \X Nat)
<1>1. IsWellFoundedOn(OpToRel(<, Nat), Nat)
  BY NatLessThanWellFounded
<1> QED BY <1>1, WFLexPairOrdering DEF Before

LEMMA InBefore ==
  ASSUME NEW a \in Nat, NEW b \in Nat, NEW c \in Nat, NEW d \in Nat, a < c \/ (a = c /\ b < d)
  PROVE  << <<a, b>>, <<c, d>> >> \in Before
<1>1. \A i, j \in Nat : i < j => <<i, j>> \in OpToRel(<, Nat)
  BY DEF OpToRel
<1> QED BY <1>1 DEF Before, LexPairOrdering

(* A turn that was told to end does not announce the closure *)
LEMMA ToldEnds ==
  ASSUME TurnInv, NEW t \in Turn, TurnStep(t) \/ ModelStep(t), Told(turn[t])
  PROVE  Told(turn'[t]) /\ ~Announce(t)
<1>0. turn \in [Turn -> TurnRecord] /\ turn[t] \in TurnRecord
  BY DEF TurnInv, TypeOK
<1>p. PC = {"none", "history", "agent", "llm", "emit", "saveUser", "saveModel", "speak",
            "farewell", "persist", "finish", "commit", "announce", "closing", "partial", "done"}
  BY DEF PC
<1>m. ASSUME NEW pc \in PC, Go(t, pc)
      PROVE  turn'[t].pc = pc /\ (pc # "done" => turn'[t].exit = turn[t].exit)
  BY <1>0, <1>m, MovedOn DEF Go
<1>g. HandlerPC(turn[t]) \in {"partial", "done"}
  BY DEF HandlerPC
<1>1. CancelLands(t) \/ SavePartial(t) \/ SaveUser(t) \/ SaveUserFails(t) \/ SaveModel(t)
  BY DEF TurnStep, ModelStep, Evaluate, OpenStream, AgentFails, Emit, HaltEmit, HaltSpeak, ApplyDecision,
         PersistPolicy, Finish, CommitFinal, Announce, CloseSocket, Chunk, StreamEnds, At, Told
<1>2. ~Announce(t)
  BY DEF Announce, At, Told
<1>3. CASE CancelStream(t)
  <2>1. CASE interrupting
    <3>1. Moved(turn[t], "done") \in TurnRecord /\ Moved(turn[t], "done").pc = "done"
      BY <1>0, <1>p, MovedOn
    <3>2. turn'[t].pc = "done"
      BY <1>0, <1>3, <2>1, <3>1 DEF CancelStream, TurnRecord
    <3> QED BY <1>2, <3>2 DEF Told
  <2>2. CASE ~interrupting
    <3>1. Moved(turn[t], "saveUser") \in TurnRecord /\ Moved(turn[t], "saveUser").pc = "saveUser"
      BY <1>0, <1>p, MovedOn
    <3>2. turn'[t].pc = "saveUser" /\ turn'[t].exit = "cancel"
      BY <1>0, <1>3, <2>2, <3>1 DEF CancelStream, TurnRecord
    <3> QED BY <1>2, <3>2 DEF Told
  <2> QED BY <1>2, <2>1, <2>2
<1>4. CASE CancelEmit(t) \/ CancelElsewhere(t)
  <2>1. Go(t, HandlerPC(turn[t])) /\ HandlerPC(turn[t]) \in PC
    BY <1>4, <1>g, <1>p DEF CancelEmit, CancelElsewhere
  <2>2. turn'[t].pc \in {"partial", "done"}
    BY <1>g, <1>m, <2>1
  <2> QED BY <1>2, <2>2 DEF Told
<1>5. CASE SavePartial(t) \/ SaveUserFails(t)
  <2>1. turn'[t].pc = "done"
    BY <1>5, <1>m, <1>p DEF SavePartial, SaveUserFails
  <2> QED BY <1>2, <2>1 DEF Told
<1>6. CASE SaveUser(t)
  <2>1. turn'[t].pc = "saveModel" /\ turn'[t].exit = turn[t].exit /\ turn[t].exit = "cancel"
    BY <1>6, <1>m, <1>p DEF SaveUser, At, Told
  <2> QED BY <1>2, <2>1 DEF Told
<1>7. CASE SaveModel(t)
  <2>1. turn[t].exit = "cancel"
    BY <1>7 DEF SaveModel, At, Told
  <2>2. Go(t, HandlerPC(turn[t])) /\ HandlerPC(turn[t]) \in PC
    BY <1>7, <1>g, <1>p, <2>1 DEF SaveModel, AfterAgent
  <2>3. turn'[t].pc \in {"partial", "done"}
    BY <1>g, <1>m, <2>2
  <2> QED BY <1>2, <2>3 DEF Told
<1> QED BY <1>1, <1>2, <1>3, <1>4, <1>5, <1>6, <1>7 DEF CancelLands

(* The closing turn ends, and closes the socket unless it is told to end *)
LEMMA ClosingEnds ==
  ASSUME TurnInv, NEW t \in Turn, TurnStep(t) \/ ModelStep(t), turn[t].pc \in {"closing", "partial"}
  PROVE  /\ turn'[t].pc \in {"partial", "done"} /\ Rank(turn'[t]) < Rank(turn[t])
         /\ turn[t].pc = "closing" => turn[t].cancel \/ socket' # "open"
         /\ UNCHANGED shouldClose
<1>0. turn \in [Turn -> TurnRecord] /\ turn[t] \in TurnRecord
  BY DEF TurnInv, TypeOK
<1>m. ASSUME NEW pc \in {"partial", "done"}, Go(t, pc)
      PROVE  turn'[t].pc = pc /\ ~turn'[t].cancel
  <2>1. pc \in PC
    BY DEF PC
  <2> QED BY <1>0, <1>m, <2>1, MovedOn DEF Go
<1>1. CloseSocket(t) \/ CancelElsewhere(t) \/ SavePartial(t)
  BY DEF TurnStep, ModelStep, CancelLands, Evaluate, OpenStream, AgentFails, Emit, HaltEmit, SaveUser,
         SaveUserFails, SaveModel, HaltSpeak, ApplyDecision, PersistPolicy, Finish, CommitFinal, Announce,
         Chunk, StreamEnds, CancelStream, CancelEmit, At
<1>2. CASE CloseSocket(t)
  BY <1>2, <1>m DEF CloseSocket, At, Rank
<1>3. CASE CancelElsewhere(t)
  <2>1. HandlerPC(turn[t]) \in {"partial", "done"}
    BY DEF HandlerPC
  <2>2. turn'[t].pc \in {"partial", "done"} /\ ~turn'[t].cancel /\ turn[t].cancel /\ UNCHANGED shouldClose
    BY <1>3, <1>m, <2>1 DEF CancelElsewhere
  <2> QED BY <2>2 DEF Rank
<1>4. CASE SavePartial(t)
  BY <1>4, <1>m DEF SavePartial, At, Rank
<1>5. Rank(turn[t]) \in Nat /\ Rank(turn'[t]) \in Nat
  BY DEF Rank
<1> QED BY <1>1, <1>2, <1>3, <1>4, <1>5

LEMMA TurnKeepsCloseInv ==
  ASSUME TurnInv, CloseInv, NEW t \in Turn, TurnStep(t) \/ ModelStep(t)
  PROVE  CloseInv' /\ (shouldClose => TurnStep(t) /\ LoopLeft' = LoopLeft /\ TurnLeft' < TurnLeft /\ shouldClose')
<1>1. PICK r : Moves(t, r)
  BY TurnMoves
<1>2. t = last /\ last' = last /\ loop' = loop /\ turn[t].pc # "done"
  BY <1>1, AliveIsLast DEF Moves
<1>3. ~Announce(t) => shouldClose' = shouldClose
  BY DEF TurnStep, ModelStep, CancelLands, Evaluate, OpenStream, AgentFails, Emit, HaltEmit, SaveUser,
         SaveUserFails, SaveModel, HaltSpeak, ApplyDecision, PersistPolicy, Finish, CommitFinal, CloseSocket,
         SavePartial, Chunk, StreamEnds, CancelStream, CancelEmit, CancelElsewhere
<1>4. CASE shouldClose
  <2>1. turn[t].pc \in {"closing", "partial"}
    BY <1>2, <1>4 DEF CloseInv
  <2>2. /\ turn'[t].pc \in {"partial", "done"} /\ Rank(turn'[t]) < Rank(turn[t])
        /\ turn[t].pc = "closing" => turn[t].cancel \/ socket' # "open"
        /\ UNCHANGED shouldClose
    BY <2>1, ClosingEnds
  <2>3. TurnStep(t)
    BY <2>1 DEF ModelStep, Chunk, StreamEnds, At
  <2>4. loop = "receive" => ~turn[t].cancel /\ turn[t].pc # "partial"
    BY <1>2 DEF TurnInv, CancelAwaited, Cancelled
  <2>5. CloseInv'
    BY <1>2, <1>4, <2>1, <2>2, <2>4 DEF CloseInv
  <2>6. LoopLeft' = LoopLeft /\ TurnLeft' < TurnLeft
    BY <1>2, <2>2 DEF LoopLeft, TurnLeft
  <2> QED BY <1>4, <2>2, <2>3, <2>5, <2>6
<1>5. CASE ~shouldClose
  <2>1. CASE Announce(t)
    <3>1. turn \in [Turn -> TurnRecord] /\ turn[t] \in TurnRecord /\ "closing" \in PC
      BY DEF TurnInv, TypeOK, PC
    <3>2. turn'[t].pc = "closing"
      BY <2>1, <3>1, MovedOn DEF Announce, Go
    <3>3. loop # "cancelling"
      BY <1>2, <2>1, ToldEnds DEF CloseInv
    <3> QED BY <1>2, <1>5, <3>2, <3>3 DEF CloseInv
  <2>2. CASE ~Announce(t)
    <3>1. loop = "cancelling" => Told(turn'[t])
      BY <1>2, ToldEnds DEF CloseInv
    <3> QED BY <1>2, <1>3, <1>5, <2>2, <3>1 DEF CloseInv
  <2> QED BY <2>1, <2>2
<1> QED BY <1>4, <1>5

LEMMA LoopKeepsCloseInv ==
  ASSUME TurnInv, CloseInv, ClientStep \/ LoopStep
  PROVE  /\ CloseInv'
         /\ shouldClose => /\ shouldClose'
                           /\ IF Drop THEN LoopLeft' = LoopLeft /\ TurnLeft' = TurnLeft ELSE LoopLeft' < LoopLeft
                           /\ LoopStep => LoopLeft' < LoopLeft
<1> USE DEF clientVars, loopVars, dbVars, wrapVars, historyVars
<1>0. interrupting <=> loop \in {"interrupting", "acked"}
  BY DEF TurnInv, CancelAwaited
<1>1. shouldClose => loop \notin {"interrupting", "acked", "cancelling"}
  BY <1>0 DEF TurnInv, CancelAwaited, CloseInv
<1>2. shouldClose' = shouldClose
  BY DEF ClientStep, LoopStep, ReceiveMessage, ReceiveInterrupt, ReceiveCancel, IgnoreFrame, Drop, IdleTimeout,
         GreetingDone, LoopTop, Drained, AwaitInterrupted, SpawnBundle, AwaitCancelled, ReceiveDisconnect,
         AwaitIdle, WrapUp, WrapUpCommit
<1>3. CASE ReceiveMessage \/ ReceiveInterrupt \/ SpawnBundle
  <2>1. ~shouldClose /\ loop' \in {"top", "interrupting"}
    BY <1>0, <1>1, <1>3 DEF ReceiveMessage, ReceiveInterrupt, SpawnBundle, Spawn
  <2>2. ~LoopStep \/ SpawnBundle \/ ~shouldClose
    BY <2>1
  <2> QED BY <1>2, <2>1 DEF CloseInv
<1>4. CASE ReceiveCancel
  <2>1. turn[last].pc \notin {"none", "done"}
    BY <1>4 DEF ReceiveCancel, Running, TurnInv, TurnsInOrder
  <2>2. turn'[last].cancel /\ last' = last /\ ~shouldClose
    BY <1>4, <2>1, CancelRequested DEF ReceiveCancel
  <2> QED BY <1>2, <2>2 DEF CloseInv, Told
<1>5. CASE IdleTimeout
  <2>1. loop = "receive" /\ loop' = "idling" /\ last' = last
    BY <1>5 DEF IdleTimeout
  <2>2. turn'[last].pc = turn[last].pc
    <3>1. CASE Running
      <4>1. turn[last].pc \notin {"none", "done"}
        BY <3>1 DEF Running, TurnInv, TurnsInOrder
      <4> QED BY <1>5, <3>1, <4>1, CancelRequested DEF IdleTimeout
    <3>2. CASE ~Running
      BY <1>5, <3>2 DEF IdleTimeout
    <3> QED BY <3>1, <3>2
  <2>3. ~Drop
    BY <2>1 DEF Drop
  <2>4. LoopLeft' < LoopLeft
    BY <2>1 DEF LoopLeft
  <2> QED BY <1>2, <2>1, <2>2, <2>3, <2>4 DEF CloseInv
<1>6. CASE Drop
  <2>1. UNCHANGED <<loop, last, turn>> /\ socket' # "open"
    BY <1>6 DEF Drop
  <2>2. ~LoopStep
    BY <1>6 DEF Drop, LoopStep, GreetingDone, LoopTop, Drained, AwaitInterrupted, SpawnBundle, Spawn, AwaitCancelled,
           ReceiveDisconnect, AwaitIdle, WrapUp, WrapUpCommit
  <2>3. LoopLeft' = LoopLeft /\ TurnLeft' = TurnLeft
    BY <2>1 DEF LoopLeft, TurnLeft
  <2> QED BY <1>2, <1>6, <2>1, <2>2, <2>3 DEF CloseInv
<1>7. CASE IgnoreFrame
  <2>1. UNCHANGED <<last, turn>> /\ loop = "receive" /\ loop' = "draining"
    BY <1>7 DEF IgnoreFrame
  <2>2. ~Drop /\ LoopLeft' < LoopLeft
    BY <2>1 DEF Drop, LoopLeft
  <2> QED BY <1>2, <2>1, <2>2 DEF CloseInv
<1>8. CASE LoopStep /\ ~SpawnBundle
  <2>1. UNCHANGED <<last, turn>> /\ loop' # "cancelling"
    BY <1>8 DEF LoopStep, GreetingDone, LoopTop, Drained, AwaitInterrupted, AwaitCancelled,
           ReceiveDisconnect, AwaitIdle, WrapUp, WrapUpCommit
  <2>2. shouldClose => loop' # "receive" /\ LoopLeft' < LoopLeft
    <3> SUFFICES ASSUME shouldClose PROVE loop' # "receive" /\ LoopLeft' < LoopLeft
      OBVIOUS
    <3>1. \/ loop = "greeting" /\ loop' = "top"
          \/ loop = "top" /\ loop' = "draining"
          \/ loop \in {"receive", "draining", "idling"} /\ loop' = "wrapup"
          \/ loop = "wrapup" /\ loop' = "wrapping"
          \/ loop = "wrapping" /\ loop' = "ended"
      BY <1>1, <1>8 DEF LoopStep, GreetingDone, LoopTop, Drained, AwaitInterrupted, AwaitCancelled,
             ReceiveDisconnect, AwaitIdle, WrapUp, WrapUpCommit
    <3> QED BY <3>1 DEF LoopLeft
  <2>3. shouldClose => ~Drop
    <3>1. Drop => LoopLeft' = LoopLeft
      BY DEF Drop, LoopLeft
    <3>2. LoopLeft \in Nat
      BY DEF LoopLeft
    <3> QED BY <2>2, <3>1, <3>2
  <2>4. CloseInv'
    BY <1>2, <2>1, <2>2 DEF CloseInv
  <2>5. LoopLeft \in Nat /\ LoopLeft' \in Nat
    BY DEF LoopLeft
  <2> QED BY <1>2, <2>2, <2>3, <2>4, <2>5
<1> QED BY <1>3, <1>4, <1>5, <1>6, <1>7, <1>8 DEF ClientStep, LoopStep

LEMMA CloseInvariant == Spec => []CloseInv
<1>1. Init => CloseInv
  BY DEF Init, CloseInv
<1>2. TurnInv /\ CloseInv /\ [Next]_vars => CloseInv'
  <2> SUFFICES ASSUME TurnInv, CloseInv, [Next]_vars PROVE CloseInv'
    OBVIOUS
  <2>1. ASSUME NEW t \in Turn, OrphanStep(t) PROVE CloseInv'
    BY <2>1 DEF OrphanStep, CloseOrphan, SaveOrphan, clientVars, loopVars, CloseInv
  <2>2. CASE UNCHANGED vars
    BY <2>2 DEF vars, CloseInv
  <2> QED BY <2>1, <2>2, TurnKeepsCloseInv, LoopKeepsCloseInv DEF Next
<1> QED BY <1>1, <1>2, TurnInvariant, PTL DEF Spec

(***************************************************************************)
(* While a session is closing the next step to its end is not the          *)
(* client's: its turn has a step to take, or has ended and the loop has    *)
(* one; the loop is never left in receive_text on an open socket behind a  *)
(* closing turn that is gone (session.py, Step 7 and _conversation_loop).  *)
(***************************************************************************)
ClosureNeedsNobody ==
  shouldClose /\ loop # "ended" =>
    \/ turn[last].pc \in {"closing", "partial"}
    \/ loop \in {"top", "wrapup", "wrapping"}
    \/ loop = "receive" /\ socket # "open"
    \/ loop \in {"draining", "idling"} /\ ~Running
    \/ loop = "greeting" /\ turn[0].pc = "done"

THEOREM ClosuresNeedNobody == Spec => []ClosureNeedsNobody
<1>1. TurnInv /\ CloseInv => ClosureNeedsNobody
  <2> SUFFICES ASSUME TurnInv, CloseInv, shouldClose, loop # "ended", turn[last].pc \notin {"closing", "partial"}
               PROVE  \/ loop \in {"top", "wrapup", "wrapping"}
                      \/ loop = "receive" /\ socket # "open"
                      \/ loop \in {"draining", "idling"} /\ ~Running
                      \/ loop = "greeting" /\ turn[0].pc = "done"
    BY DEF ClosureNeedsNobody
  <2>1. turn[last].pc = "done" /\ ~Running
    BY DEF CloseInv, Running
  <2>2. loop \in Loop \ {"interrupting", "acked", "cancelling", "ended"}
    BY DEF TurnInv, TypeOK, CancelAwaited, CloseInv
  <2>3. turn[0].pc = "done"
    <3>1. last \in Turn /\ 0 \in Turn
      BY MessagesAssumption DEF TurnInv, TypeOK, Turn
    <3>2. last = 0 \/ 0 < last
      BY <3>1, MessagesAssumption DEF Turn
    <3> QED BY <2>1, <3>1, <3>2 DEF TurnInv, TurnsInOrder
  <2> QED BY <2>1, <2>2, <2>3 DEF CloseInv, Loop
<1> QED BY <1>1, TurnInvariant, CloseInvariant, PTL

(***************************************************************************)
(* And nothing but a closing session's own steps lies between it and its   *)
(* end: each of them, and of the client's frames and timeouts, brings it   *)
(* nearer in a well-founded order, and nothing throws it back.  With the   *)
(* fairness of its tasks this is ClosureEndsHandler.                       *)
(***************************************************************************)
OwnStep == LoopStep \/ \E t \in Turn : TurnStep(t)
ClosureApproaches ==
  [][shouldClose =>
       /\ shouldClose'
       /\ \/ << <<LoopLeft', TurnLeft'>>, <<LoopLeft, TurnLeft>> >> \in Before
          \/ ~OwnStep /\ LoopLeft' = LoopLeft /\ TurnLeft' = TurnLeft]_vars

THEOREM ClosuresComeToAnEnd == IsWellFoundedOn(Before, Nat \X Nat) /\ (Spec => ClosureApproaches)
<1> DEFINE Step == /\ shouldClose'
                   /\ \/ << <<LoopLeft', TurnLeft'>>, <<LoopLeft, TurnLeft>> >> \in Before
                      \/ ~OwnStep /\ LoopLeft' = LoopLeft /\ TurnLeft' = TurnLeft
<1>1. ASSUME TurnInv, CloseInv, Next, shouldClose PROVE Step
  <2>0. LoopLeft \in Nat /\ LoopLeft' \in Nat /\ TurnLeft \in Nat /\ TurnLeft' \in Nat
    BY DEF LoopLeft, TurnLeft, Rank
  <2>1. ASSUME \/ LoopLeft' < LoopLeft \/ (LoopLeft' = LoopLeft /\ TurnLeft' < TurnLeft)
        PROVE  << <<LoopLeft', TurnLeft'>>, <<LoopLeft, TurnLeft>> >> \in Before
    BY <2>0, <2>1, InBefore
  <2>2. CASE \E t \in Turn : TurnStep(t) \/ ModelStep(t)
    BY <1>1, <2>1, <2>2, TurnKeepsCloseInv
  <2>3. CASE ClientStep \/ LoopStep
    <3>1. CASE LoopLeft' < LoopLeft
      BY <1>1, <2>1, <2>3, <3>1, LoopKeepsCloseInv
    <3>2. CASE ~(LoopLeft' < LoopLeft)
      <4>1. shouldClose' /\ ~LoopStep /\ LoopLeft' = LoopLeft /\ TurnLeft' = TurnLeft
        BY <1>1, <2>3, <3>2, LoopKeepsCloseInv
      <4>2. ~(\E t \in Turn : TurnStep(t))
        BY <1>1, <2>0, <4>1, TurnKeepsCloseInv
      <4> QED BY <4>1, <4>2 DEF OwnStep
    <3> QED BY <3>1, <3>2
  <2>4. CASE \E t \in Turn : OrphanStep(t)
    <3>1. UNCHANGED <<loop, last, turn, shouldClose>>
      BY <2>4 DEF OrphanStep, CloseOrphan, SaveOrphan, loopVars
    <3>2. LoopLeft' = LoopLeft /\ TurnLeft' = TurnLeft
      BY <3>1 DEF LoopLeft, TurnLeft
    <3>3. ~(\E t \in Turn : TurnStep(t))
      BY <1>1, <2>0, <3>2, TurnKeepsCloseInv
    <3>4. ~LoopStep
      BY <1>1, <2>0, <3>2, LoopKeepsCloseInv
    <3> QED BY <1>1, <3>1, <3>2, <3>3, <3>4 DEF OwnStep
  <2> QED BY <1>1, <2>2, <2>3, <2>4 DEF Next
<1>2. TurnInv /\ CloseInv /\ [Next]_vars => [shouldClose => Step]_vars
  BY <1>1
<1>3. Spec => ClosureApproaches
  BY <1>2, TurnInvariant, CloseInvariant, PTL DEF Spec, ClosureApproaches
<1> QED BY <1>3, BeforeIsWellFounded
=============================================================================
