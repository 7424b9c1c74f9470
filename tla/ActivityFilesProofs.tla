------------------------ MODULE ActivityFilesProofs ------------------------
(***************************************************************************)
(* What ActivityFiles guarantees for any number of files, requests at      *)
(* once and failures, and any limit.                                       *)
(***************************************************************************)
EXTENDS ActivityFiles, FiniteSetTheorems, TLAPS

(* A request knows the ids given out, and only a drawn id has a row, an object or a URL *)
LEMMA TypeStep == TypeOK /\ [Next]_vars => TypeOK'
<1> SUFFICES ASSUME TypeOK, [Next]_vars PROVE TypeOK'
  OBVIOUS
<1> USE BoundsAssumption DEF TypeOK, Stage, Rows, Idle, At
<1>1. ASSUME NEW r \in Request, Load(r) PROVE TypeOK'
  BY <1>1 DEF Load, Op
<1>2. ASSUME NEW r \in Request, Count(r) PROVE TypeOK'
  BY <1>2 DEF Count, Answer, Goto
<1>3. ASSUME NEW r \in Request, Issue(r) PROVE TypeOK'
  BY <1>3 DEF Issue, Answer
<1>4. ASSUME NEW r \in Request, Head(r) PROVE TypeOK'
  BY <1>4 DEF Head, Answer, Goto
<1>5. ASSUME NEW r \in Request, Confirm(r) PROVE TypeOK'
  BY <1>5 DEF Confirm, Answer
<1>6. ASSUME NEW r \in Request, DeleteObject(r) PROVE TypeOK'
  BY <1>6 DEF DeleteObject, Answer, Goto
<1>7. ASSUME NEW r \in Request, DeleteRow(r) PROVE TypeOK'
  BY <1>7 DEF DeleteRow, Answer
<1>8. ASSUME NEW r \in Request, RemoveActivity(r) PROVE TypeOK'
  BY <1>8 DEF RemoveActivity, Answer
<1>9. ASSUME NEW f \in File, Put(f) PROVE TypeOK'
  BY <1>9 DEF Put
<1>10. ASSUME NEW f \in File, Expire(f) PROVE TypeOK'
  BY <1>10 DEF Expire
<1>11. CASE UpdateActivity
  BY <1>11 DEF UpdateActivity
<1>12. CASE Fail
  BY <1>12 DEF Fail
<1>13. CASE UNCHANGED vars
  BY <1>13 DEF vars
<1> QED
  BY <1>1, <1>2, <1>3, <1>4, <1>5, <1>6, <1>7, <1>8, <1>9, <1>10, <1>11, <1>12, <1>13
  DEF Next, RequestStep

(***************************************************************************)
(* Every reachable state is well typed, whatever the requests, failures    *)
(* and late writes of the browser (activities.py, the routes of files).    *)
(***************************************************************************)
THEOREM FilesTypeCorrect == Spec => []TypeOK
<1>1. Init => TypeOK
  BY BoundsAssumption DEF Init, TypeOK, Stage, Rows, Idle
<1> QED BY <1>1, TypeStep, PTL DEF Spec

-----------------------------------------------------------------------------
(***************************************************************************)
(* A listed file, and one a confirmation has found, is in the store but    *)
(* for a deletion.  The second half is what the first needs: the store is  *)
(* asked in one step and the row written in a later one.                   *)
(***************************************************************************)
Kept(f) == f \in object \/ Deleting(f) \/ f \in severed
Found(f) == \E r \in Request : At(r, "confirm", "found") /\ request[r].file = f
FoundStored == \A f \in File : Found(f) => row[f] = "none" \/ Kept(f)
StoredInv == TypeOK /\ ListedStored /\ FoundStored

(* A request that was not dropping a row leaves the deletions as they are, wherever it goes, and finds nothing unless it goes there *)
LEMMA OthersStay ==
  ASSUME NEW r \in Request, \A q \in Request \ {r} : request'[q] = request[q],
         ~At(r, "delete", "drop"), ~At(r, "confirm", "found")'
  PROVE  \A f : (Deleting(f) => Deleting(f)') /\ (Found(f)' => Found(f))
  BY DEF Deleting, Found, At

(* A step that disturbs neither *)
LEMMA Undisturbed ==
  ASSUME ListedStored, FoundStored, row' = row, object \subseteq object', severed' = severed,
         \A f : (Deleting(f) => Deleting(f)') /\ (Found(f)' => Found(f))
  PROVE  ListedStored' /\ FoundStored'
  BY DEF ListedStored, FoundStored, Listed, Kept

LEMMA StoredStep == StoredInv /\ [Next]_vars => StoredInv'
<1> SUFFICES ASSUME StoredInv, [Next]_vars PROVE ListedStored' /\ FoundStored'
  BY TypeStep DEF StoredInv
<1> USE DEF StoredInv, ListedStored, FoundStored, Listed, Kept, TypeOK
<1>1. ASSUME NEW r \in Request, Load(r) PROVE ListedStored' /\ FoundStored'
  <2>1. ~At(r, "delete", "drop")
    BY <1>1 DEF Load, Idle, At
  <2>2. (\A q \in Request \ {r} : request'[q] = request[q]) /\ ~At(r, "confirm", "found")'
    BY <1>1 DEF Load, At
  <2>3. \A g : (Deleting(g) => Deleting(g)') /\ (Found(g)' => Found(g))
    BY <2>1, <2>2, OthersStay
  <2> QED BY <2>3, <1>1, Undisturbed DEF Load
<1>2. ASSUME NEW r \in Request, Count(r) PROVE ListedStored' /\ FoundStored'
  <2>1. ~At(r, "delete", "drop")
    BY <1>2 DEF Count, At
  <2>2. \A f : (Deleting(f) => Deleting(f)') /\ (Found(f)' => Found(f))
    <3>1. CASE Answer(r)
      <4>1. (\A q \in Request \ {r} : request'[q] = request[q]) /\ ~At(r, "confirm", "found")'
        BY <3>1 DEF Answer, Idle, At
      <4> QED BY <2>1, <4>1, OthersStay
    <3>2. CASE Goto(r, "counted")
      BY <2>1, <3>2 DEF Goto, Deleting, Found, At
    <3> QED BY <3>1, <3>2, <1>2 DEF Count
  <2> QED BY <2>2, <1>2, Undisturbed DEF Count
<1>3. ASSUME NEW r \in Request, Issue(r) PROVE ListedStored' /\ FoundStored'
  <2>1. ~At(r, "delete", "drop")
    BY <1>3 DEF Issue, At
  <2>2. (\A q \in Request \ {r} : request'[q] = request[q]) /\ ~At(r, "confirm", "found")'
    BY <1>3 DEF Issue, Answer, Idle, At
  <2>3. \A f : (Deleting(f) => Deleting(f)') /\ (Found(f)' => Found(f))
    BY <2>1, <2>2, OthersStay
  <2>4. CASE UNCHANGED row
    BY <2>3, <2>4, <1>3, Undisturbed DEF Issue
  <2>5. CASE row' # row
    <3>1. PICK f \in File \ drawn : row' = [row EXCEPT ![f] = "PENDING"]
      BY <2>5, <1>3 DEF Issue
    <3>2. ~Found(f)
      BY <3>1 DEF Found, At, Stage, Idle
    <3> QED BY <3>1, <3>2, <2>3, <1>3 DEF Issue
  <2> QED BY <2>4, <2>5
<1>4. ASSUME NEW r \in Request, Head(r) PROVE ListedStored' /\ FoundStored'
  <2>1. ~At(r, "delete", "drop")
    BY <1>4 DEF Head, At
  <2>2. CASE Answer(r)
    <3>1. (\A q \in Request \ {r} : request'[q] = request[q]) /\ ~At(r, "confirm", "found")'
      BY <2>2 DEF Answer, Idle, At
    <3>2. \A f : (Deleting(f) => Deleting(f)') /\ (Found(f)' => Found(f))
      BY <2>1, <3>1, OthersStay
    <3> QED BY <3>2, <1>4, Undisturbed DEF Head
  <2>3. CASE request[r].file \in Rows \cap object /\ Goto(r, "found")
    <3>1. \A f : Deleting(f) => Deleting(f)'
      BY <2>1, <2>3 DEF Deleting, At, Goto
    <3>2. \A f : Found(f)' => Found(f) \/ f = request[r].file
      BY <2>3 DEF Found, At, Goto
    <3> QED BY <3>1, <3>2, <2>3, <1>4 DEF Head
  <2> QED BY <2>2, <2>3, <1>4 DEF Head
<1>5. ASSUME NEW r \in Request, Confirm(r) PROVE ListedStored' /\ FoundStored'
  <2>1. ~At(r, "delete", "drop") /\ Found(request[r].file)
    BY <1>5 DEF Confirm, At, Found
  <2>2. (\A q \in Request \ {r} : request'[q] = request[q]) /\ ~At(r, "confirm", "found")'
    BY <1>5 DEF Confirm, Answer, Idle, At
  <2>3. \A f : (Deleting(f) => Deleting(f)') /\ (Found(f)' => Found(f))
    BY <2>1, <2>2, OthersStay
  <2> QED BY <2>1, <2>3, <1>5 DEF Confirm
<1>6. ASSUME NEW r \in Request, DeleteObject(r) PROVE ListedStored' /\ FoundStored'
  <2>1. ~At(r, "delete", "drop")
    BY <1>6 DEF DeleteObject, At
  <2>2. CASE Answer(r) /\ UNCHANGED object
    <3>1. (\A q \in Request \ {r} : request'[q] = request[q]) /\ ~At(r, "confirm", "found")'
      BY <2>2 DEF Answer, Idle, At
    <3>2. \A f : (Deleting(f) => Deleting(f)') /\ (Found(f)' => Found(f))
      BY <2>1, <3>1, OthersStay
    <3> QED BY <3>2, <2>2, <1>6, Undisturbed DEF DeleteObject
  <2>3. CASE Goto(r, "drop") /\ object' = object \ {request[r].file}
    <3>1. \A f : Deleting(f) => Deleting(f)'
      BY <2>1, <2>3 DEF Deleting, At, Goto
    <3>2. \A f : f = request[r].file => Deleting(f)'
      BY <2>3, <1>6 DEF Deleting, At, Goto, DeleteObject, Stage, Idle
    <3>3. \A f : Found(f)' => Found(f)
      BY <2>3, <1>6 DEF Found, At, Goto, DeleteObject
    <3>4. row' = row /\ severed' = severed
      BY <1>6 DEF DeleteObject
    <3>5. \A f : Kept(f) => Kept(f)'
      BY <3>1, <3>2, <3>4, <2>3
    <3> QED BY <3>3, <3>4, <3>5
  <2> QED BY <2>2, <2>3, <1>6 DEF DeleteObject
<1>7. ASSUME NEW r \in Request, DeleteRow(r) PROVE ListedStored' /\ FoundStored'
  <2>1. \A f : Deleting(f) => Deleting(f)' \/ f = request[r].file
    BY <1>7 DEF DeleteRow, Answer, Deleting, At
  <2>2. \A f : Found(f)' => Found(f)
    BY <1>7 DEF DeleteRow, Answer, Found, At, Idle
  <2> QED BY <2>1, <2>2, <1>7 DEF DeleteRow
<1>8. ASSUME NEW r \in Request, RemoveActivity(r) PROVE ListedStored' /\ FoundStored'
  BY <1>8 DEF RemoveActivity
<1>9. ASSUME NEW f \in File, Put(f) PROVE ListedStored' /\ FoundStored'
  BY <1>9 DEF Put, Deleting, Found, At
<1>10. ASSUME NEW f \in File, Expire(f) PROVE ListedStored' /\ FoundStored'
  BY <1>10 DEF Expire, Deleting, Found, At
<1>11. CASE UpdateActivity
  BY <1>11 DEF UpdateActivity, Deleting, Found, At
<1>12. CASE Fail
  <2>1. \A f : Deleting(f) => Deleting(f)' \/ f \in severed'
    BY <1>12 DEF Fail, Deleting, At
  <2>2. \A f : Found(f)' => Found(f)
    BY <1>12 DEF Fail, Found, At, Idle
  <2>3. severed \subseteq severed'
    BY <1>12 DEF Fail
  <2> QED BY <2>1, <2>2, <2>3, <1>12 DEF Fail
<1>13. CASE UNCHANGED vars
  BY <1>13 DEF vars, Deleting, Found, At
<1> QED
  BY <1>1, <1>2, <1>3, <1>4, <1>5, <1>6, <1>7, <1>8, <1>9, <1>10, <1>11, <1>12, <1>13
  DEF Next, RequestStep

(***************************************************************************)
(* A listed file is in the store unless its deletion is under way or was   *)
(* cut in half, in whatever order confirmations and deletions of it        *)
(* overtake each other (confirm_activity_file_upload,                      *)
(* delete_activity_file).                                                  *)
(***************************************************************************)
THEOREM ListedAreStored == Spec => []ListedStored
<1>1. Init => StoredInv
  BY BoundsAssumption
  DEF Init, StoredInv, TypeOK, ListedStored, FoundStored, Listed, Found, At, Stage, Rows, Idle
<1>2. StoredInv => ListedStored
  BY DEF StoredInv
<1> QED BY <1>1, <1>2, StoredStep, PTL DEF Spec

-----------------------------------------------------------------------------
(***************************************************************************)
(* The limit.  A row that exists and a request that has counted but not    *)
(* yet inserted both take a place: LimitNearlyKept alone is not inductive. *)
(***************************************************************************)
Counted == {r \in Request : At(r, "upload", "counted")}
Places == Cardinality(Rows) + Cardinality(Counted)
PlacesKept == Places <= MAX_FILES_PER_ACTIVITY + Cardinality(Request) - 1
LimitInv == TypeOK /\ PlacesKept

LEMMA Finite ==
  /\ IsFiniteSet(Rows) /\ IsFiniteSet(Counted)
  /\ Cardinality(Rows) \in Nat /\ Cardinality(Counted) \in Nat
  /\ Cardinality(Counted) <= Cardinality(Request)
  /\ Cardinality(Request) \in Nat \ {0}
<1>1. Rows \subseteq File /\ Counted \subseteq Request
  BY DEF Rows, Counted
<1>2. IsFiniteSet(Rows) /\ IsFiniteSet(Counted) /\ Cardinality(Counted) <= Cardinality(Request)
  BY <1>1, RequestAssumption, FS_Subset
<1>3. Cardinality(Request) \in Nat \ {0}
  BY RequestAssumption, FS_CardinalityType, FS_EmptySet
<1> QED BY <1>2, <1>3, FS_CardinalityType

(* Fewer rows and no new request that has counted *)
LEMMA FewerPlaces ==
  ASSUME PlacesKept, Rows' \subseteq Rows, Counted' \subseteq Counted
  PROVE  PlacesKept'
<1>1. Cardinality(Rows') \in Nat /\ Cardinality(Rows') <= Cardinality(Rows)
  BY Finite, FS_Subset, FS_CardinalityType
<1>2. Cardinality(Counted') \in Nat /\ Cardinality(Counted') <= Cardinality(Counted)
  BY Finite, FS_Subset, FS_CardinalityType
<1> QED BY <1>1, <1>2, Finite, BoundsAssumption DEF PlacesKept, Places

LEMMA LimitStep == LimitInv /\ [Next]_vars => LimitInv'
<1> SUFFICES ASSUME LimitInv, [Next]_vars PROVE PlacesKept'
  BY TypeStep DEF LimitInv
<1> USE DEF LimitInv
<1>1. ASSUME NEW r \in Request, Load(r) PROVE PlacesKept'
  <2>1. Rows' = Rows /\ Counted' \subseteq Counted
    BY <1>1 DEF Load, Rows, Counted, At, TypeOK
  <2> QED BY <2>1, FewerPlaces
<1>2. ASSUME NEW r \in Request, Count(r) PROVE PlacesKept'
  <2>1. Rows' = Rows
    BY <1>2 DEF Count, Rows
  <2>2. CASE Cardinality(Rows) >= MAX_FILES_PER_ACTIVITY
    <3>1. Counted' \subseteq Counted
      BY <1>2, <2>2 DEF Count, Answer, Idle, Counted, At, TypeOK
    <3> QED BY <2>1, <3>1, FewerPlaces
  <2>3. CASE ~(Cardinality(Rows) >= MAX_FILES_PER_ACTIVITY)
    <3>1. Cardinality(Counted') \in Nat /\ Cardinality(Counted') <= Cardinality(Request)
      <4>1. Counted' \subseteq Request
        BY DEF Counted
      <4> QED BY <4>1, RequestAssumption, FS_Subset, FS_CardinalityType
    <3>2. Cardinality(Rows) + 1 <= MAX_FILES_PER_ACTIVITY
      BY <2>3, Finite, BoundsAssumption
    <3> QED BY <2>1, <3>1, <3>2, Finite, BoundsAssumption DEF PlacesKept, Places
  <2> QED BY <2>2, <2>3
<1>3. ASSUME NEW r \in Request, Issue(r) PROVE PlacesKept'
  <2>1. r \in Counted /\ Counted' = Counted \ {r}
    BY <1>3 DEF Issue, Answer, Idle, Counted, At, TypeOK
  <2>2. CASE UNCHANGED row
    <3>1. Rows' = Rows
      BY <2>2 DEF Rows
    <3> QED BY <2>1, <3>1, FewerPlaces
  <2>3. CASE row' # row
    <3>1. PICK f \in File : row' = [row EXCEPT ![f] = "PENDING"]
      BY <2>3, <1>3 DEF Issue, TypeOK
    <3>2. Rows' = Rows \cup {f}
      BY <3>1 DEF Rows, TypeOK
    <3>3. Cardinality(Rows') \in Nat /\ Cardinality(Rows') <= Cardinality(Rows) + 1
      <4>1. Cardinality(Rows \cup {f}) = IF f \in Rows THEN Cardinality(Rows) ELSE Cardinality(Rows) + 1
        BY Finite, FS_AddElement
      <4> QED BY <4>1, <3>2, Finite
    <3>4. Cardinality(Counted') = Cardinality(Counted) - 1
      BY <2>1, Finite, FS_RemoveElement
    <3> QED BY <3>3, <3>4, Finite, BoundsAssumption DEF PlacesKept, Places
  <2> QED BY <2>2, <2>3
<1>4. ASSUME NEW r \in Request, Head(r) \/ Confirm(r) \/ DeleteObject(r) \/ DeleteRow(r) \/ RemoveActivity(r)
      PROVE  PlacesKept'
  <2>1. Rows' \subseteq Rows
    BY <1>4 DEF Head, Confirm, DeleteObject, DeleteRow, RemoveActivity, Rows, TypeOK
  <2>2. ~At(r, "upload", "counted")'
    <3>1. CASE Answer(r)
      BY <3>1 DEF Answer, Idle, At, TypeOK
    <3>2. CASE Goto(r, "found") \/ Goto(r, "drop")
      BY <3>2 DEF Goto, At, TypeOK, Stage, Idle
    <3> QED BY <3>1, <3>2, <1>4 DEF Head, Confirm, DeleteObject, DeleteRow, RemoveActivity
  <2>3. \A q \in Request \ {r} : request'[q] = request[q]
    BY <1>4 DEF Head, Confirm, DeleteObject, DeleteRow, RemoveActivity, Answer, Goto, TypeOK
  <2>4. Counted' \subseteq Counted
    BY <2>2, <2>3 DEF Counted, At
  <2> QED BY <2>1, <2>4, FewerPlaces
<1>5. ASSUME NEW f \in File, Put(f) \/ Expire(f) PROVE PlacesKept'
  <2>1. Rows' = Rows /\ Counted' = Counted
    BY <1>5 DEF Put, Expire, Rows, Counted, At
  <2> QED BY <2>1, FewerPlaces
<1>6. CASE UpdateActivity \/ UNCHANGED vars
  <2>1. Rows' = Rows /\ Counted' = Counted
    BY <1>6 DEF UpdateActivity, vars, Rows, Counted, At
  <2> QED BY <2>1, FewerPlaces
<1>7. CASE Fail
  <2>1. Rows' = Rows /\ Counted' \subseteq Counted
    BY <1>7 DEF Fail, Rows, Counted, At, Idle
  <2> QED BY <2>1, FewerPlaces
<1> QED
  BY <1>1, <1>2, <1>3, <1>4, <1>5, <1>6, <1>7 DEF Next, RequestStep

(***************************************************************************)
(* However many uploads are requested, confirmed and deleted, the rows     *)
(* pass the limit by at most one for each request under way but one        *)
(* (request_activity_file_upload).                                         *)
(***************************************************************************)
THEOREM LimitIsNearlyKept == Spec => []LimitNearlyKept
<1>1. Init => LimitInv
  <2> SUFFICES ASSUME Init PROVE LimitInv
    OBVIOUS
  <2>1. TypeOK
    BY BoundsAssumption DEF Init, TypeOK, Stage, Rows, Idle
  <2>2. Rows = {} /\ Counted = {}
    BY DEF Init, Rows, Counted, At, Idle
  <2>3. Cardinality(Rows) = 0 /\ Cardinality(Counted) = 0
    BY <2>2, FS_EmptySet
  <2> QED BY <2>1, <2>3, Finite, BoundsAssumption DEF LimitInv, PlacesKept, Places
<1>2. LimitInv => LimitNearlyKept
  BY Finite, BoundsAssumption DEF LimitInv, PlacesKept, Places, LimitNearlyKept
<1> QED BY <1>1, <1>2, LimitStep, PTL DEF Spec

-----------------------------------------------------------------------------
(***************************************************************************)
(* What is left in the store.  An object that is there while a deletion    *)
(* drops the row was written behind the deletion's back.                   *)
(***************************************************************************)
DeletedAstray == \A f \in object : Deleting(f) => f \in astray
LeftInv == TypeOK /\ LeftoversExplained /\ DeletedAstray

LEMMA LeftStep == LeftInv /\ [Next]_vars => LeftInv'
<1> SUFFICES ASSUME LeftInv, [Next]_vars PROVE LeftoversExplained' /\ DeletedAstray'
  BY TypeStep DEF LeftInv
<1> USE DEF LeftInv, LeftoversExplained, DeletedAstray
(* A request that neither begins to drop a row nor empties one *)
<1>1. ASSUME object' = object, astray' = astray, status' = status \/ status # "deleted",
             Rows \subseteq Rows', \A f : Deleting(f)' => Deleting(f)
      PROVE  LeftoversExplained' /\ DeletedAstray'
  BY <1>1
<1>2. ASSUME NEW r \in Request, Load(r) \/ Count(r) \/ Issue(r) \/ Head(r) \/ Confirm(r)
      PROVE  LeftoversExplained' /\ DeletedAstray'
  <2>1. object' = object /\ astray' = astray /\ status' = status
    BY <1>2 DEF Load, Count, Issue, Head, Confirm
  <2>2. Rows \subseteq Rows'
    BY <1>2 DEF Load, Count, Issue, Head, Confirm, Rows, TypeOK
  <2>3. ~At(r, "delete", "drop")'
    <3>1. CASE Load(r)
      BY <3>1 DEF Load, At, TypeOK
    <3>2. CASE Answer(r)
      BY <3>2 DEF Answer, Idle, At, TypeOK
    <3>3. CASE Goto(r, "counted") \/ Goto(r, "found")
      BY <3>3 DEF Goto, At, TypeOK, Stage, Idle
    <3> QED BY <3>1, <3>2, <3>3, <1>2 DEF Count, Issue, Head, Confirm
  <2>4. \A q \in Request \ {r} : request'[q] = request[q]
    BY <1>2 DEF Load, Count, Issue, Head, Confirm, Answer, Goto, TypeOK
  <2>5. \A f : Deleting(f)' => Deleting(f)
    BY <2>3, <2>4 DEF Deleting, At
  <2> QED BY <2>1, <2>2, <2>5, <1>1
<1>3. ASSUME NEW r \in Request, DeleteObject(r) PROVE LeftoversExplained' /\ DeletedAstray'
  <2>1. object' \subseteq object /\ astray' = astray /\ status' = status /\ Rows' = Rows
    BY <1>3 DEF DeleteObject, Rows
  <2>2. \A f \in object' : Deleting(f)' => Deleting(f)
    <3>1. CASE Answer(r)
      BY <3>1 DEF Answer, Idle, Deleting, At, TypeOK
    <3>2. CASE Goto(r, "drop") /\ object' = object \ {request[r].file}
      BY <3>2 DEF Goto, Deleting, At, TypeOK
    <3> QED BY <3>1, <3>2, <1>3 DEF DeleteObject
  <2> QED BY <2>1, <2>2
<1>4. ASSUME NEW r \in Request, DeleteRow(r) PROVE LeftoversExplained' /\ DeletedAstray'
  <2>1. object' = object /\ astray' = astray /\ status' = status /\ Deleting(request[r].file)
    BY <1>4 DEF DeleteRow, Deleting, At
  <2>2. Rows \ {request[r].file} \subseteq Rows'
    BY <1>4 DEF DeleteRow, Rows, TypeOK
  <2>3. \A f : Deleting(f)' => Deleting(f)
    BY <1>4 DEF DeleteRow, Answer, Idle, Deleting, At, TypeOK
  <2> QED BY <2>1, <2>2, <2>3
<1>5. ASSUME NEW r \in Request, RemoveActivity(r) PROVE LeftoversExplained' /\ DeletedAstray'
  <2>1. \A f : Deleting(f)' => Deleting(f)
    BY <1>5 DEF RemoveActivity, Answer, Idle, Deleting, At, TypeOK
  <2> QED BY <2>1, <1>5 DEF RemoveActivity
<1>6. ASSUME NEW f \in File, Put(f) PROVE LeftoversExplained' /\ DeletedAstray'
  BY <1>6 DEF Put, Rows, Deleting, At, TypeOK
<1>7. ASSUME NEW f \in File, Expire(f) PROVE LeftoversExplained' /\ DeletedAstray'
  BY <1>7, <1>1 DEF Expire, Rows, Deleting, At
<1>8. CASE UpdateActivity \/ UNCHANGED vars
  BY <1>8, <1>1 DEF UpdateActivity, vars, Rows, Deleting, At
<1>9. CASE Fail
  <2>1. \A f : Deleting(f)' => Deleting(f)
    BY <1>9 DEF Fail, Idle, Deleting, At
  <2> QED BY <2>1, <1>9, <1>1 DEF Fail, Rows
<1> QED
  BY <1>2, <1>3, <1>4, <1>5, <1>6, <1>7, <1>8, <1>9 DEF Next, RequestStep

(***************************************************************************)
(* An object outlives its row only when the activity was deleted or the    *)
(* browser was still writing: never because deletions, confirmations or    *)
(* failures overtook each other (delete_activity_file).                    *)
(***************************************************************************)
THEOREM LeftoversAreExplained == Spec => []LeftoversExplained
<1>1. Init => LeftInv
  BY BoundsAssumption
  DEF Init, LeftInv, TypeOK, LeftoversExplained, DeletedAstray, Stage, Rows, Idle
<1>2. LeftInv => LeftoversExplained
  BY DEF LeftInv
<1> QED BY <1>1, <1>2, LeftStep, PTL DEF Spec
=============================================================================
