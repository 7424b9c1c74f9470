---------------------------- MODULE ActivityFiles ----------------------------
(***************************************************************************)
(* The files of one activity (src/api/routers/activities.py, files): a row *)
(* in the database and an object in the store (src/services/s3.py), which  *)
(* the teacher's browser writes with a presigned URL.                      *)
(*                                                                         *)
(* A request is the transaction of get_db_session: it reads what is        *)
(* committed when it gets there, may be overtaken at each await, and       *)
(* commits at its end.  Calls to the store block the process: nothing      *)
(* comes between one and the statement before it.                          *)
(***************************************************************************)
EXTENDS Integers, FiniteSets

CONSTANTS
  File,                    \* bound: file ids, drawn once each
  Request,                 \* requests at once
  MAX_FILES_PER_ACTIVITY,  \* 5 in the code
  MaxFaults                \* bound: failures and restarts

ASSUME BoundsAssumption == MAX_FILES_PER_ACTIVITY \in Nat /\ MaxFaults \in Nat
ASSUME RequestAssumption == IsFiniteSet(Request) /\ Request # {} /\ IsFiniteSet(File)

VARIABLES
  status,   \* of the activity
  row,      \* activity_files
  object,   \* files the store has
  drawn,    \* file ids given out
  url,      \* files whose presigned URL has not expired
  request,  \* the requests under way
  faults,
  (* history, read by the properties only *)
  severed,  \* files whose deletion ended between the store and the row
  astray    \* files written to the store after their deletion there

vars == <<status, row, object, drawn, url, request, faults, severed, astray>>

Idle == [op |-> "none", pc |-> "over", file |-> "none"]
Op == {"upload", "confirm", "delete", "remove"}
Rows == {f \in File : row[f] # "none"}
Listed == {f \in File : row[f] = "UPLOADED"}
At(r, op, pc) == request[r].op = op /\ request[r].pc = pc
Goto(r, pc) == request' = [request EXCEPT ![r].pc = pc]
Answer(r) == request' = [request EXCEPT ![r] = Idle]
Deleting(f) == \E r \in Request : At(r, "delete", "drop") /\ request[r].file = f

-----------------------------------------------------------------------------
(***************************************************************************)
(* _load_owned_draft_activity, which every request but PATCH begins with:  *)
(* what it read is not read again.                                         *)
(***************************************************************************)
Load(r) ==
  /\ request[r] = Idle /\ status = "DRAFT"
  /\ \E op \in Op, f \in drawn \cup {"none"} :
       /\ op \in {"confirm", "delete"} <=> f # "none"
       /\ request' = [request EXCEPT ![r] = [op |-> op, pc |-> "loaded", file |-> f]]
  /\ UNCHANGED <<status, row, object, drawn, url, faults, severed, astray>>

(* Slip: files whose upload is not confirmed do not count *)
CountConfirmed(r) ==
  /\ At(r, "upload", "loaded")
  /\ IF Cardinality(Listed) >= MAX_FILES_PER_ACTIVITY THEN Answer(r) ELSE Goto(r, "counted")
  /\ UNCHANGED <<status, row, object, drawn, url, faults, severed, astray>>

(* request_activity_file_upload: the limit, confirmed or not *)
Count(r) ==
  /\ At(r, "upload", "loaded")
  /\ IF Cardinality(Rows) >= MAX_FILES_PER_ACTIVITY THEN Answer(r) ELSE Goto(r, "counted")
  /\ UNCHANGED <<status, row, object, drawn, url, faults, severed, astray>>

(* A new row, and its URL, unless the activity has gone, or the URL cannot be had.  Ids are interchangeable *)
Issue(r) ==
  /\ At(r, "upload", "counted")
  /\ Answer(r)
  /\ \/ /\ status # "deleted" /\ drawn # File
        /\ LET f == CHOOSE g \in File : g \notin drawn
           IN /\ row' = [row EXCEPT ![f] = "PENDING"]
              /\ drawn' = drawn \cup {f} /\ url' = url \cup {f}
     \/ UNCHANGED <<row, drawn, url>>
  /\ UNCHANGED <<status, object, faults, severed, astray>>

(* The browser writes the object, while the URL lasts: once, again, or after the file was deleted *)
Put(f) ==
  /\ f \in url /\ f \notin object
  /\ object' = object \cup {f}
  /\ astray' = IF row[f] = "none" \/ Deleting(f) THEN astray \cup {f} ELSE astray
  /\ UNCHANGED <<status, row, drawn, url, request, faults, severed>>

(* 900 seconds after *)
Expire(f) ==
  /\ f \in url
  /\ url' = url \ {f}
  /\ UNCHANGED <<status, row, object, drawn, request, faults, severed, astray>>

(* confirm_activity_file_upload: the row, and at once the object, which must be there and be the one of the row *)
Head(r) ==
  /\ At(r, "confirm", "loaded")
  /\ \/ request[r].file \in Rows \cap object /\ Goto(r, "found")
     \/ Answer(r)
  /\ UNCHANGED <<status, row, object, drawn, url, faults, severed, astray>>

(* Slip: a row that has gone in between is written anew *)
ConfirmAnew(r) ==
  /\ At(r, "confirm", "found")
  /\ Answer(r)
  /\ row' = [row EXCEPT ![request[r].file] = "UPLOADED"]
  /\ UNCHANGED <<status, object, drawn, url, faults, severed, astray>>

(* The row is UPLOADED; one that has gone in between makes the flush raise *)
Confirm(r) ==
  /\ At(r, "confirm", "found")
  /\ Answer(r)
  /\ row' = [row EXCEPT ![request[r].file] = IF @ = "none" THEN @ ELSE "UPLOADED"]
  /\ UNCHANGED <<status, object, drawn, url, faults, severed, astray>>

(* Slip: what the store answers does not matter *)
DeleteObjectMaybe(r) ==
  /\ At(r, "delete", "loaded")
  /\ IF request[r].file \in Rows
     THEN /\ Goto(r, "drop")
          /\ object' \in {object, object \ {request[r].file}}
     ELSE Answer(r) /\ UNCHANGED object
  /\ UNCHANGED <<status, row, drawn, url, faults, severed, astray>>

(* delete_activity_file: the object first; the request ends there when the store refuses *)
DeleteObject(r) ==
  /\ At(r, "delete", "loaded")
  /\ \/ /\ request[r].file \in Rows
        /\ Goto(r, "drop")
        /\ object' = object \ {request[r].file}
     \/ Answer(r) /\ UNCHANGED object
  /\ UNCHANGED <<status, row, drawn, url, faults, severed, astray>>

(* Slip: the request goes on *)
DeleteRowEarly(r) ==
  /\ At(r, "delete", "drop")
  /\ Goto(r, "found")
  /\ row' = [row EXCEPT ![request[r].file] = "none"]
  /\ UNCHANGED <<status, object, drawn, url, faults, severed, astray>>

(* ... then the row, as get_db_session commits *)
DeleteRow(r) ==
  /\ At(r, "delete", "drop")
  /\ Answer(r)
  /\ row' = [row EXCEPT ![request[r].file] = "none"]
  /\ UNCHANGED <<status, object, drawn, url, faults, severed, astray>>

(* delete_activity: the rows go with the activity; the store is not asked *)
RemoveActivity(r) ==
  /\ At(r, "remove", "loaded")
  /\ Answer(r)
  /\ status' = "deleted"
  /\ row' = [f \in File |-> "none"]
  /\ UNCHANGED <<object, drawn, url, faults, severed, astray>>

(* update_activity, the status *)
UpdateActivity ==
  /\ status # "deleted"
  /\ status' \in {"DRAFT", "PUBLISHED"} \ {status}
  /\ UNCHANGED <<row, object, drawn, url, request, faults, severed, astray>>

(* Statements or commits fail: the transactions are rolled back, the store is not.  One request, or, when the process dies, all *)
Fail ==
  /\ faults < MaxFaults
  /\ faults' = faults + 1
  /\ \E dead \in {Request} \cup {{r} : r \in Request} :
       /\ \E r \in dead : request[r] # Idle
       /\ request' = [r \in Request |-> IF r \in dead THEN Idle ELSE request[r]]
       /\ severed' = severed \cup {request[r].file : r \in {q \in dead : At(q, "delete", "drop")}}
  /\ UNCHANGED <<status, row, object, drawn, url, astray>>

Init ==
  /\ status = "DRAFT"
  /\ row = [f \in File |-> "none"]
  /\ object = {} /\ drawn = {} /\ url = {}
  /\ request = [r \in Request |-> Idle]
  /\ faults = 0 /\ severed = {} /\ astray = {}

RequestStep(r) ==
  Load(r) \/ Count(r) \/ Issue(r) \/ Head(r) \/ Confirm(r) \/ DeleteObject(r) \/ DeleteRow(r) \/ RemoveActivity(r)

Next ==
  \/ \E r \in Request : RequestStep(r)
  \/ \E f \in File : Put(f) \/ Expire(f)
  \/ UpdateActivity \/ Fail

Spec == Init /\ [][Next]_vars

-----------------------------------------------------------------------------
(* Where a request may be; it knows only ids that were given out *)
Stage ==
  {Idle}
  \cup [op : {"upload"}, pc : {"loaded", "counted"}, file : {"none"}]
  \cup [op : {"confirm"}, pc : {"loaded", "found"}, file : drawn]
  \cup [op : {"delete"}, pc : {"loaded", "drop"}, file : drawn]
  \cup [op : {"remove"}, pc : {"loaded"}, file : {"none"}]

TypeOK ==
  /\ status \in {"DRAFT", "PUBLISHED", "deleted"}
  /\ row \in [File -> {"none", "PENDING", "UPLOADED"}]
  /\ drawn \subseteq File /\ Rows \cup object \cup url \cup severed \cup astray \subseteq drawn
  /\ request \in [Request -> Stage]
  /\ faults \in 0 .. MaxFaults

(***************************************************************************)
(* What the teacher sees listed is in the store, but for a file whose      *)
(* deletion is under way, or ended halfway and may be asked for again      *)
(* (confirm_activity_file_upload, delete_activity_file).                   *)
(***************************************************************************)
ListedStored == \A f \in Listed : f \in object \/ Deleting(f) \/ f \in severed

(***************************************************************************)
(* The limit counts uploads that are not confirmed.  Each request that     *)
(* counted at the same time may pass it by one more, and no later one      *)
(* (request_activity_file_upload, "Maximum ... files per activity").       *)
(***************************************************************************)
LimitNearlyKept == Cardinality(Rows) <= MAX_FILES_PER_ACTIVITY + Cardinality(Request) - 1

(***************************************************************************)
(* The store keeps an object without a row only of an activity that was    *)
(* deleted, or when the browser was still writing it                       *)
(* (delete_activity_file: the object goes before the row).                 *)
(***************************************************************************)
LeftoversExplained == \A f \in object \ Rows : status = "deleted" \/ f \in astray
=============================================================================
