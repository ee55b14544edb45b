-------------------------- MODULE TwoWaySyncProofs --------------------------
(***************************************************************************)
(* Theorems about TwoWaySync, for any number of devices, cycles, writes,   *)
(* rows and kiosks, and any size of batches and pages.                     *)
(*                                                                         *)
(* The safety of the cursor and of the order in the cloud rests on three   *)
(* facts about what is under way: a batch leaves no gap before an event    *)
(* that is not in the cloud yet, a page leaves out nothing its device does *)
(* not have, and the cycle that waits for a request finds the batch in the *)
(* cloud once the request is gone.                                         *)
(***************************************************************************)
EXTENDS TwoWaySync, FiniteSetTheorems, SequenceTheorems, TLAPS

(* A write of which the outbox of its device has the event.                *)
IsWritten(id) == id[1] \in Devices /\ id[2] \in 1..Len(outbox[id[1]])

(* A write refers to rows of its kind, and was made by a device whose      *)
(* cursor was somewhere in the cloud.                                      *)
WritesSound ==
  \A d \in Devices : \A n \in 1..Len(outbox[d]) :
    LET w == outbox[d][n] IN
    /\ w.saw <= Len(cloud)
    /\ w.kind = "edit" => w.on \in Rows
    /\ w.kind \in {"pair", "revoke"} => w.on \in Kiosks

(* What is in the cloud was written, and comes after whatever its device   *)
(* had pulled by then.                                                     *)
CloudSound ==
  \A p \in 1..Len(cloud) : IsWritten(cloud[p]) /\ WriteOf(cloud[p]).saw < p

(* A batch leaves no gap before an event that is not in the cloud yet.     *)
Closed(d, batch) ==
  /\ batch \subseteq 1..Len(outbox[d])
  /\ \A n \in batch : \A m \in 1..n - 1 : m \in batch \/ <<d, m>> \in InCloud

RequestsClosed ==
  \A request \in posted : Closed(request.from, request.batch)

(* A page leaves out only what its device has or will not need.            *)
PageSound(d, page) ==
  \A p \in page :
    /\ p \in 1..Len(cloud)
    /\ cloud[p][1] # d
    /\ \A q \in 1..p : cloud[q][1] = d \/ q \in page \/ q <= db[d].cursor

CycleSound(d, x) ==
  /\ x.at = "pushing" =>
       [from |-> d, batch |-> x.batch] \in posted \/ \A n \in x.batch : <<d, n>> \in InCloud
  /\ x.at = "pulling" => x.after <= db[d].cursor
  /\ x.at = "listed" => PageSound(d, x.page)

CyclesSound == \A d \in Devices : \A c \in Cycles : CycleSound(d, cycle[d][c])

(* A device has applied exactly what others wrote up to its cursor.        *)
Read(d, positions) == {cloud[p] : p \in {q \in positions : cloud[q][1] # d}}

StoresSound ==
  \A d \in Devices :
    /\ db[d].cursor <= Len(cloud)
    /\ db[d].applied = Read(d, 1..db[d].cursor)
    /\ \A id \in db[d].appended : IsWritten(id)

MergeSound ==
  merge # NoMerge =>
    /\ merge.of \in Devices
    /\ merge.by \in Cycles
    /\ cycle[merge.of][merge.by].at = "listed"
    /\ merge.rest \subseteq cycle[merge.of][merge.by].page
    /\ merge.store.cursor = db[merge.of].cursor
    /\ merge.store.applied =
         db[merge.of].applied \union
         Read(merge.of, cycle[merge.of][merge.by].page \ merge.rest)
    /\ \A id \in merge.store.appended : IsWritten(id)

(* The versions that databases show and events carry are named after       *)
(* edits that were written.                                                *)
IsVersion(v) == v = Initially \/ IsWritten(v)

VersionsWritten ==
  /\ \A d \in Devices : \A n \in 1..Len(outbox[d]) : IsVersion(outbox[d][n].version)
  /\ \A d \in Devices : \A r \in Rows : IsVersion(db[d].row[r])
  /\ \A r \in Rows : IsVersion(merge.store.row[r])

IInv ==
  /\ TypeOK
  /\ WritesSound
  /\ CloudSound
  /\ RequestsClosed
  /\ CyclesSound
  /\ StoresSound
  /\ MergeSound
  /\ PushedIsInCloud
  /\ CloudIsOrdered
  /\ VersionsWritten

-----------------------------------------------------------------------------
(* Helpers *)

(* Whatever precedes a member of First(n, S) in S is a member, too.        *)
LEMMA FirstIsClosed ==
  ASSUME NEW n \in Nat, NEW S \in SUBSET Nat, IsFiniteSet(S),
         NEW x \in First(n, S), NEW y \in S, y < x
  PROVE  y \in First(n, S)
<1>. DEFINE Below(z) == {u \in S : u < z}
<1>0. x \in Nat /\ y \in Nat
  BY DEF First
<1>1. Below(x) \in SUBSET S /\ Below(y) \in SUBSET Below(x)
  <2>1. ASSUME NEW u \in S, u < y PROVE u < x
    <3>1. u \in Nat
      OBVIOUS
    <3>. QED  BY <1>0, <2>1, <3>1
  <2>. QED  BY <2>1
<1>2. IsFiniteSet(Below(x))
  BY <1>1, FS_Subset
<1>3. IsFiniteSet(Below(y)) /\ Cardinality(Below(y)) <= Cardinality(Below(x))
  BY <1>1, <1>2, FS_Subset
<1>4. Cardinality(Below(x)) \in Nat /\ Cardinality(Below(y)) \in Nat
  BY <1>2, <1>3, FS_CardinalityType
<1>5. Cardinality(Below(x)) < n
  BY DEF First
<1>6. Cardinality(Below(y)) < n
  BY <1>3, <1>4, <1>5
<1>. QED  BY <1>6 DEF First

(* The batch of a cycle that starts leaves no gap.                         *)
LEMMA BatchIsClosed ==
  ASSUME TypeOK, PushedIsInCloud, NEW d \in Devices
  PROVE  Closed(d, Batch(d))
<1>1. Len(outbox[d]) \in Nat
  BY DEF TypeOK
<1>2. Pending(d) \subseteq 1..Len(outbox[d])
  BY DEF Pending
<1>3. IsFiniteSet(Pending(d))
  <2>1. IsFiniteSet(1..Len(outbox[d]))
    BY <1>1, FS_Interval
  <2>2. Pending(d) \in SUBSET (1..Len(outbox[d]))
    BY <1>2
  <2>. QED  BY <2>1, <2>2, FS_Subset
<1>4. Batch(d) \subseteq Pending(d)
  BY DEF Batch, First
<1>5. ASSUME NEW n \in Batch(d), NEW m \in 1..n - 1
      PROVE  m \in Batch(d) \/ <<d, m>> \in InCloud
  <2>1. n \in 1..Len(outbox[d])
    BY <1>2, <1>4
  <2>2. m \in 1..Len(outbox[d]) /\ m < n
    BY <1>1, <2>1
  <2>3. CASE m \in pushed[d]
    BY <2>3 DEF PushedIsInCloud
  <2>4. CASE m \notin pushed[d]
    <3>1. m \in Pending(d)
      BY <2>2, <2>4 DEF Pending
    <3>2. BatchLimit \in Nat /\ Pending(d) \in SUBSET Nat
      BY <1>1, <1>2, SyncAssumption
    <3>3. m \in First(BatchLimit, Pending(d))
      BY <1>3, <2>2, <3>1, <3>2, FirstIsClosed DEF Batch
    <3>. QED  BY <3>3 DEF Batch
  <2>. QED  BY <2>3, <2>4
<1>. QED  BY <1>2, <1>4, <1>5 DEF Closed

(* What a cycle stands at.                                                 *)
LEMMA CycleStates ==
  /\ Idle \in CycleState /\ Idle.at = "idle"
  /\ \A batch \in SUBSET Nat :
       /\ Pushing(batch) \in CycleState
       /\ Pushing(batch).at = "pushing" /\ Pushing(batch).batch = batch
  /\ \A cursor \in Nat :
       /\ Pulling(cursor) \in CycleState
       /\ Pulling(cursor).at = "pulling" /\ Pulling(cursor).after = cursor
BY DEF Idle, Pushing, Pulling, CycleState

(* A cycle that changes leaves the others as they were.                    *)
LEMMA CycleSet ==
  ASSUME TypeOK, NEW d \in Devices, NEW c \in Cycles, NEW x \in CycleState,
         cycle' = [cycle EXCEPT ![d][c] = x]
  PROVE  /\ cycle' \in [Devices -> [Cycles -> CycleState]]
         /\ cycle'[d][c] = x
         /\ \A e \in Devices : \A y \in Cycles :
              e # d \/ y # c => cycle'[e][y] = cycle[e][y]
BY DEF TypeOK

(* Whatever leaves the outboxes and the cloud alone leaves alone what is   *)
(* said of them.                                                           *)
LEMMA Frame ==
  ASSUME UNCHANGED <<outbox, cloud>>
  PROVE  /\ WritesSound => WritesSound'
         /\ CloudSound => CloudSound'
         /\ CloudIsOrdered => CloudIsOrdered'
         /\ InCloud' = InCloud
         /\ \A id : IsWritten(id)' = IsWritten(id)
         /\ \A d, batch : Closed(d, batch)' = Closed(d, batch)
         /\ \A d, S : Read(d, S)' = Read(d, S)
<1>1. WritesSound => WritesSound'
  BY DEF WritesSound
<1>2. CloudSound => CloudSound'
  BY DEF CloudSound, IsWritten, WriteOf
<1>3. CloudIsOrdered => CloudIsOrdered'
  BY DEF CloudIsOrdered
<1>4. InCloud' = InCloud
  BY DEF InCloud
<1>. QED  BY <1>1, <1>2, <1>3, <1>4 DEF IsWritten, Closed, Read

(* A step that writes nothing shows only versions that were there before,  *)
(* or that an event carries.                                               *)
OldVersion(r, v) ==
  \/ v = Initially \/ v = merge.store.row[r]
  \/ \E d \in Devices : v = db[d].row[r]
  \/ \E id : IsWritten(id) /\ v = WriteOf(id).version

LEMMA VersionsFrame ==
  ASSUME VersionsWritten, UNCHANGED outbox,
         \A d \in Devices : \A r \in Rows : OldVersion(r, db'[d].row[r]),
         \A r \in Rows : OldVersion(r, merge'.store.row[r])
  PROVE  VersionsWritten'
<1>1. \A v : IsVersion(v)' = IsVersion(v)
  BY DEF IsVersion, IsWritten
<1>2. ASSUME NEW r \in Rows, NEW v, OldVersion(r, v) PROVE IsVersion(v)
  <2>1. ASSUME NEW id, IsWritten(id), v = WriteOf(id).version PROVE IsVersion(v)
    BY <2>1 DEF VersionsWritten, IsWritten, WriteOf
  <2>2. IsVersion(Initially)
    BY DEF IsVersion
  <2>. QED  BY <1>2, <2>1, <2>2 DEF OldVersion, VersionsWritten
<1>. QED  BY <1>1, <1>2 DEF VersionsWritten

(* So does a step that changes no database, and no page under way but to   *)
(* roll it back.                                                           *)
LEMMA VersionsStay ==
  ASSUME VersionsWritten, UNCHANGED <<outbox, db>>, merge' = merge \/ merge' = NoMerge
  PROVE  VersionsWritten'
<1>1. \A r \in Rows : NoMerge.store.row[r] = Initially
  BY DEF NoMerge, FreshDatabase
<1>. QED  BY <1>1, VersionsFrame DEF OldVersion

(* The invariant holds of fresh databases and an empty cloud.              *)
LEMMA InitSound == Init => IInv
<1>. SUFFICES ASSUME Init PROVE IInv
  OBVIOUS
<1>1. FreshDatabase \in Database
  BY DEF FreshDatabase, Database, KioskStates
<1>2. NoMerge \in Merge
  BY <1>1 DEF NoMerge, Merge
<1>3. TypeOK
  BY <1>1, <1>2, CycleStates DEF Init, TypeOK
<1>4. \A d \in Devices : Len(outbox[d]) = 0
  BY DEF Init
<1>5. Len(cloud) = 0 /\ posted = {}
  BY DEF Init
<1>6. WritesSound /\ CloudSound /\ RequestsClosed /\ CloudIsOrdered
  BY <1>4, <1>5 DEF WritesSound, CloudSound, RequestsClosed, CloudIsOrdered
<1>7. CyclesSound
  BY CycleStates DEF Init, CyclesSound, CycleSound
<1>8. StoresSound
  BY <1>5 DEF Init, StoresSound, Read, FreshDatabase
<1>9. PushedIsInCloud
  BY DEF Init, PushedIsInCloud
<1>10. MergeSound
  BY DEF Init, MergeSound
<1>11. VersionsWritten
  BY <1>4 DEF Init, VersionsWritten, IsVersion, NoMerge, FreshDatabase
<1>. QED  BY <1>3, <1>6, <1>7, <1>8, <1>9, <1>10, <1>11 DEF IInv

-----------------------------------------------------------------------------
(* Local writes *)

(* An outbox grows at its end, by an event.                                *)
Grows(d, w) ==
  /\ outbox' \in [Devices -> Seq(Write)]
  /\ \A e \in Devices \ {d} : outbox'[e] = outbox[e]
  /\ Len(outbox'[d]) = Len(outbox[d]) + 1
  /\ \A n \in 1..Len(outbox[d]) : outbox'[d][n] = outbox[d][n]
  /\ outbox'[d][Len(outbox[d]) + 1] = w

(* Writing an event makes the outbox of its device grow by that event.     *)
LEMMA Enqueued ==
  ASSUME TypeOK, NEW d \in Devices, NEW w \in Write, Enqueue(d, w)
  PROVE  clock' \in Nat /\ Grows(d, w)
<1>1. clock \in Nat /\ outbox[d] \in Seq(Write) /\ outbox \in [Devices -> Seq(Write)]
  BY DEF TypeOK
<1>2. outbox' = [outbox EXCEPT ![d] = Append(outbox[d], w)]
  BY DEF Enqueue
<1>3. clock' \in Nat
  BY <1>1 DEF Enqueue
<1>4. outbox'[d] = Append(outbox[d], w)
  BY <1>1, <1>2
<1>5. /\ Append(outbox[d], w) \in Seq(Write)
      /\ Len(Append(outbox[d], w)) = Len(outbox[d]) + 1
      /\ \A n \in 1..Len(outbox[d]) : Append(outbox[d], w)[n] = outbox[d][n]
      /\ Append(outbox[d], w)[Len(outbox[d]) + 1] = w
  BY <1>1
<1>6. outbox' \in [Devices -> Seq(Write)]
  BY <1>1, <1>2, <1>5
<1>. QED  BY <1>1, <1>2, <1>3, <1>4, <1>5, <1>6 DEF Grows

(* What local writes may do to a database.                                 *)
Edited(d) ==
  \/ db' = db
  \/ \E r \in Rows : db' = [db EXCEPT ![d].row[r] = NextId(d)]
  \/ \E k \in Kiosks : \E s \in KioskStates : db' = [db EXCEPT ![d].kiosk[k] = s]
  \/ db' = [db EXCEPT ![d].appended = @ \union {NextId(d)}]

(* A local write touches neither the cursor nor what has been applied.     *)
LEMMA EditedDatabase ==
  ASSUME TypeOK, NEW d \in Devices, Edited(d)
  PROVE  /\ db' \in [Devices -> Database]
         /\ \A e \in Devices :
              /\ db'[e].cursor = db[e].cursor /\ db'[e].applied = db[e].applied
              /\ \A id \in db'[e].appended :
                   id \in db[e].appended \/ (e = d /\ id = NextId(d))
<1>1. db \in [Devices -> Database] /\ db[d] \in Database
  BY DEF TypeOK
<1>2. NextId(d) \in Ids
  <2>1. Len(outbox[d]) \in Nat
    BY DEF TypeOK
  <2>. QED  BY <2>1 DEF NextId, Ids
<1>3. ASSUME NEW s \in Database, db' = [db EXCEPT ![d] = s],
             s.cursor = db[d].cursor, s.applied = db[d].applied,
             \A id \in s.appended : id \in db[d].appended \/ id = NextId(d)
      PROVE  /\ db' \in [Devices -> Database]
             /\ \A e \in Devices :
                  /\ db'[e].cursor = db[e].cursor /\ db'[e].applied = db[e].applied
                  /\ \A id \in db'[e].appended :
                       id \in db[e].appended \/ (e = d /\ id = NextId(d))
  BY <1>1, <1>3
<1>4. CASE \E r \in Rows : db' = [db EXCEPT ![d].row[r] = NextId(d)]
  <2>1. PICK r \in Rows : db' = [db EXCEPT ![d].row[r] = NextId(d)]
    BY <1>4
  <2>. DEFINE s == [db[d] EXCEPT !.row[r] = NextId(d)]
  <2>2. s \in Database /\ s.cursor = db[d].cursor /\ s.applied = db[d].applied
        /\ s.appended = db[d].appended
    BY <1>1, <1>2 DEF Database
  <2>3. db' = [db EXCEPT ![d] = s]
    BY <1>1, <2>1
  <2>. HIDE DEF s
  <2>. QED  BY <1>3, <2>2, <2>3
<1>5. CASE \E k \in Kiosks : \E x \in KioskStates : db' = [db EXCEPT ![d].kiosk[k] = x]
  <2>1. PICK k \in Kiosks, x \in KioskStates : db' = [db EXCEPT ![d].kiosk[k] = x]
    BY <1>5
  <2>. DEFINE s == [db[d] EXCEPT !.kiosk[k] = x]
  <2>2. s \in Database /\ s.cursor = db[d].cursor /\ s.applied = db[d].applied
        /\ s.appended = db[d].appended
    BY <1>1 DEF Database
  <2>3. db' = [db EXCEPT ![d] = s]
    BY <1>1, <2>1
  <2>. HIDE DEF s
  <2>. QED  BY <1>3, <2>2, <2>3
<1>6. CASE db' = [db EXCEPT ![d].appended = @ \union {NextId(d)}]
  <2>. DEFINE s == [db[d] EXCEPT !.appended = @ \union {NextId(d)}]
  <2>1. s \in Database /\ s.cursor = db[d].cursor /\ s.applied = db[d].applied
        /\ s.appended = db[d].appended \union {NextId(d)}
    BY <1>1, <1>2 DEF Database
  <2>2. db' = [db EXCEPT ![d] = s]
    BY <1>1, <1>6
  <2>. HIDE DEF s
  <2>. QED  BY <1>3, <2>1, <2>2
<1>. QED  BY <1>1, <1>4, <1>5, <1>6 DEF Edited

(* It changes a row only to the version it writes.                         *)
LEMMA EditedRows ==
  ASSUME TypeOK, NEW d \in Devices, Edited(d), NEW e \in Devices, NEW r \in Rows
  PROVE  db'[e].row[r] = NextId(d) \/ db'[e].row[r] = db[e].row[r]
<1>1. db \in [Devices -> Database]
  BY DEF TypeOK
<1>2. CASE \E q \in Rows : db' = [db EXCEPT ![d].row[q] = NextId(d)]
  BY <1>1, <1>2 DEF Database
<1>3. CASE \E k \in Kiosks : \E x \in KioskStates : db' = [db EXCEPT ![d].kiosk[k] = x]
  BY <1>1, <1>3 DEF Database
<1>4. CASE db' = [db EXCEPT ![d].appended = @ \union {NextId(d)}]
  BY <1>1, <1>4 DEF Database
<1>. QED  BY <1>2, <1>3, <1>4 DEF Edited

(* A write refers to rows of its kind, and says what its device had pulled.*)
WriteSound(d, w) ==
  /\ w \in Write
  /\ w.saw = db[d].cursor
  /\ w.kind = "edit" => w.on \in Rows
  /\ w.kind \in {"pair", "revoke"} => w.on \in Kiosks
  /\ w.version = NextId(d) \/ IsVersion(w.version)

(* A local write keeps the invariant.                                      *)
LEMMA WriteKeeps ==
  ASSUME IInv, merge = NoMerge, NEW d \in Devices, NEW w, WriteSound(d, w),
         Enqueue(d, w), Edited(d)
  PROVE  IInv'
<1>1. TypeOK /\ WritesSound /\ CloudSound /\ RequestsClosed /\ CyclesSound /\ StoresSound
      /\ PushedIsInCloud /\ CloudIsOrdered
  BY DEF IInv
<1>2. UNCHANGED <<pushed, cloud, posted, cycle, merge>>
  BY DEF Enqueue
<1>3. clock' \in Nat /\ Grows(d, w)
  BY <1>1, Enqueued DEF WriteSound
<1>4. /\ db' \in [Devices -> Database]
      /\ \A e \in Devices :
           /\ db'[e].cursor = db[e].cursor /\ db'[e].applied = db[e].applied
           /\ \A id \in db'[e].appended :
                id \in db[e].appended \/ (e = d /\ id = NextId(d))
  BY <1>1, EditedDatabase
<1>5. TypeOK'
  BY <1>1, <1>2, <1>3, <1>4 DEF TypeOK, Grows
<1>6. Len(outbox[d]) \in Nat /\ Len(cloud) \in Nat
  BY <1>1 DEF TypeOK
<1>7. \A e \in Devices : \A n \in 1..Len(outbox[e]) :
        n \in 1..Len(outbox'[e]) /\ outbox'[e][n] = outbox[e][n]
  <2>1. \A n \in 1..Len(outbox[d]) : n \in 1..Len(outbox[d]) + 1
    BY <1>6
  <2>. QED  BY <1>3, <2>1 DEF Grows
<1>8. \A id : IsWritten(id) => IsWritten(id)' /\ WriteOf(id)' = WriteOf(id)
  BY <1>7 DEF IsWritten, WriteOf
<1>9. \A id : id = NextId(d) => IsWritten(id)'
  BY <1>3, <1>6 DEF IsWritten, NextId, Grows
<1>10. WritesSound'
  <2>1. ASSUME NEW e \in Devices, NEW n \in 1..Len(outbox'[e])
        PROVE  /\ outbox'[e][n].saw <= Len(cloud)
               /\ outbox'[e][n].kind = "edit" => outbox'[e][n].on \in Rows
               /\ outbox'[e][n].kind \in {"pair", "revoke"} => outbox'[e][n].on \in Kiosks
    <3>1. CASE n \in 1..Len(outbox[e])
      BY <1>1, <1>7, <3>1 DEF WritesSound
    <3>2. CASE n \notin 1..Len(outbox[e])
      <4>1. e = d
        BY <1>3, <3>2 DEF Grows
      <4>2. n = Len(outbox[d]) + 1
        BY <1>3, <1>6, <3>2, <4>1 DEF Grows
      <4>3. db[d].cursor <= Len(cloud)
        BY <1>1 DEF StoresSound
      <4>. QED  BY <1>3, <4>1, <4>2, <4>3 DEF Grows, WriteSound
    <3>. QED  BY <3>1, <3>2
  <2>. QED  BY <1>2, <2>1 DEF WritesSound
<1>11. CloudSound'
  BY <1>1, <1>2, <1>8 DEF CloudSound
<1>12. InCloud' = InCloud
  BY <1>2 DEF InCloud
<1>13. ASSUME NEW e \in Devices, NEW batch, Closed(e, batch)
       PROVE  Closed(e, batch)'
  BY <1>7, <1>12, <1>13 DEF Closed
<1>14. RequestsClosed'
  <2>1. \A request \in posted : request.from \in Devices
    BY <1>1 DEF TypeOK, Request
  <2>. QED  BY <1>1, <1>2, <1>13, <2>1 DEF RequestsClosed
<1>15. CyclesSound'
  <2>1. ASSUME NEW e \in Devices, NEW c \in Cycles PROVE CycleSound(e, cycle[e][c])'
    <3>1. CycleSound(e, cycle[e][c])
      BY <1>1 DEF CyclesSound
    <3>. QED  BY <1>2, <1>4, <1>12, <3>1 DEF CycleSound, PageSound
  <2>. QED  BY <2>1 DEF CyclesSound
<1>16. StoresSound'
  <2>1. ASSUME NEW e \in Devices PROVE \A id \in db'[e].appended : IsWritten(id)'
    BY <1>1, <1>4, <1>8, <1>9 DEF StoresSound
  <2>. QED  BY <1>1, <1>2, <1>4, <2>1 DEF StoresSound, Read
<1>17. MergeSound' /\ PushedIsInCloud' /\ CloudIsOrdered'
  BY <1>1, <1>2, <1>12 DEF MergeSound, PushedIsInCloud, CloudIsOrdered, NoMerge
<1>18. VersionsWritten'
  <2>0. VersionsWritten /\ \A v : v = NextId(d) \/ IsVersion(v) => IsVersion(v)'
    BY <1>8, <1>9 DEF IInv, IsVersion
  <2>1. ASSUME NEW e \in Devices, NEW n \in 1..Len(outbox'[e])
        PROVE  outbox'[e][n].version = NextId(d) \/ IsVersion(outbox'[e][n].version)
    <3>1. CASE n \in 1..Len(outbox[e])
      BY <1>7, <2>0, <3>1 DEF VersionsWritten
    <3>2. CASE n \notin 1..Len(outbox[e])
      <4>1. e = d
        BY <1>3, <3>2 DEF Grows
      <4>2. n = Len(outbox[d]) + 1
        BY <1>3, <1>6, <3>2, <4>1 DEF Grows
      <4>. QED  BY <1>3, <4>1, <4>2 DEF Grows, WriteSound
    <3>. QED  BY <3>1, <3>2
  <2>2. ASSUME NEW e \in Devices, NEW r \in Rows
        PROVE  db'[e].row[r] = NextId(d) \/ db'[e].row[r] = db[e].row[r]
    BY <1>1, EditedRows
  <2>3. ASSUME NEW e \in Devices, NEW r \in Rows PROVE IsVersion(db[e].row[r])'
    BY <2>0, <2>2 DEF VersionsWritten
  <2>. QED  BY <1>2, <2>0, <2>1, <2>3 DEF VersionsWritten
<1>. QED  BY <1>5, <1>10, <1>11, <1>14, <1>15, <1>16, <1>17, <1>18 DEF IInv

(* The next number of a numbered row is a number.                          *)
LEMMA NumbersAreNaturals ==
  ASSUME IInv, NEW d \in Devices
  PROVE  NextNumbers(d) \subseteq Nat
<1>1. \A id \in db[d].appended : WriteOf(id) \in Write
  BY DEF IInv, StoresSound, IsWritten, WriteOf, TypeOK
<1>2. \A id \in db[d].appended : Number(id) \in Nat
  BY <1>1 DEF Number, Write
<1>3. \A id \in db[d].appended : Number(id) + 1 \in Nat
  BY <1>2
<1>. QED  BY <1>3 DEF NextNumbers

(* A device shows a version of each row.                                   *)
LEMMA VersionsAreIds ==
  ASSUME IInv, NEW d \in Devices, NEW r \in Rows
  PROVE  db[d].row[r] \in Ids \union {Initially} /\ NextId(d) \in Ids
BY DEF IInv, TypeOK, Database, NextId, Ids

(* A write of this moment is sound, and so it is with another number, time *)
(* stamp or version that there is.                                         *)
LEMMA WritesOfNow ==
  ASSUME IInv, NEW d \in Devices, NEW kind \in Kinds,
         NEW on \in Rows \union Kiosks \union {Counter},
         kind = "edit" => on \in Rows, kind \in {"pair", "revoke"} => on \in Kiosks,
         NEW number \in Nat, NEW stamp \in Nat, NEW version \in Ids \union {Initially},
         version = NextId(d) \/ IsVersion(version)
  PROVE  LET now == WriteNow(d, kind, on)
         IN  /\ WriteSound(d, now)
             /\ WriteSound(d, [now EXCEPT !.number = number])
             /\ WriteSound(d, [now EXCEPT !.version = version])
             /\ WriteSound(d, [now EXCEPT !.version = version, !.stamp = stamp])
<1>1. clock \in Nat /\ Skew[d] \in Nat /\ db[d] \in Database
  BY SyncAssumption DEF IInv, TypeOK
<1>2. clock + Skew[d] \in Nat /\ db[d].cursor \in Nat
  BY <1>1 DEF Database
<1>3. IsVersion(Initially)
  BY DEF IsVersion
<1>. QED  BY <1>2, <1>3 DEF WriteNow, WriteSound, Write

(* The time stamp of a version that was written is a number.               *)
LEMMA StampIsNatural ==
  ASSUME IInv, NEW v \in Ids \union {Initially}, IsVersion(v)
  PROVE  StampOf(v) \in Nat
<1>1. CASE v = Initially
  BY <1>1 DEF StampOf
<1>2. CASE v # Initially
  <2>1. v[1] \in Devices /\ v[2] \in 1..Len(outbox[v[1]]) /\ outbox[v[1]] \in Seq(Write)
    BY <1>2 DEF IInv, TypeOK, IsVersion, IsWritten
  <2>2. WriteOf(v) \in Write
    BY <2>1 DEF WriteOf
  <2>. QED  BY <1>2, <2>2 DEF StampOf, Write
<1>. QED  BY <1>1, <1>2

(* A local write enqueues an event and edits the database, unless it is    *)
(* the row of a kiosk whose event is never written.                        *)
LEMMA LocalWriteForms ==
  ASSUME IInv, NEW d \in Devices, LocalWrite(d)
  PROVE  \/ \E w : WriteSound(d, w) /\ Enqueue(d, w) /\ Edited(d)
         \/ \E k \in Kiosks : KioskCutOff(d, k)
<1>. DEFINE Goal == \E w : WriteSound(d, w) /\ Enqueue(d, w) /\ Edited(d)
<1>0. {"edit", "pair", "revoke", "append"} = Kinds /\ {"paired", "revoked"} \subseteq KioskStates
      /\ 0 \in Nat /\ IsVersion(Initially)
  BY DEF Kinds, KioskStates, IsVersion
<1>1. ASSUME NEW r \in Rows, Edit(d, r) PROVE Goal
  <2>1. WriteSound(d, [WriteNow(d, "edit", r) EXCEPT !.version = NextId(d)])
    BY <1>0, VersionsAreIds, WritesOfNow
  <2>. QED  BY <1>1, <2>1 DEF Edit, Edited
<1>2. ASSUME NEW k \in Kiosks, PairKiosk(d, k) PROVE Goal
  <2>1. WriteSound(d, WriteNow(d, "pair", k))
    BY <1>0, WritesOfNow
  <2>. QED  BY <1>0, <1>2, <2>1 DEF PairKiosk, Edited
<1>3. ASSUME NEW k \in Kiosks, RevokeKiosk(d, k) PROVE Goal
  <2>1. WriteSound(d, WriteNow(d, "revoke", k))
    BY <1>0, WritesOfNow
  <2>. QED  BY <1>0, <1>3, <2>1 DEF RevokeKiosk, Edited
<1>4. ASSUME NEW on \in Kiosks \union {Counter}, AppendRow(d, on) PROVE Goal
  <2>1. PICK n \in NextNumbers(d) : Enqueue(d, [WriteNow(d, "append", on) EXCEPT !.number = n])
    BY <1>4 DEF AppendRow
  <2>2. n \in Nat
    BY NumbersAreNaturals
  <2>3. Edited(d)
    BY <1>4 DEF AppendRow, Edited
  <2>4. WriteSound(d, [WriteNow(d, "append", on) EXCEPT !.number = n])
    BY <1>0, <2>2, WritesOfNow
  <2>. QED  BY <2>1, <2>3, <2>4
<1>5. ASSUME NEW r \in Products, Announce(d, r) PROVE Goal
  <2>1. r \in Rows
    BY SyncAssumption
  <2>2. StampOf(db[d].row[r]) \in Nat /\ IsVersion(db[d].row[r])
    BY <2>1, VersionsAreIds, StampIsNatural DEF IInv, VersionsWritten
  <2>3. WriteSound(d, [WriteNow(d, "edit", r) EXCEPT
                         !.version = db[d].row[r], !.stamp = StampOf(db[d].row[r])])
    BY <1>0, <2>1, <2>2, VersionsAreIds, WritesOfNow
  <2>. QED  BY <1>5, <2>3 DEF Announce, Edited
<1>. QED  BY <1>1, <1>2, <1>3, <1>4, <1>5 DEF LocalWrite

(* Every local write keeps the invariant.                                  *)
LEMMA LocalWriteKeeps ==
  ASSUME IInv, merge = NoMerge, NEW d \in Devices, LocalWrite(d)
  PROVE  IInv'
<1>0. TypeOK /\ StoresSound /\ WritesSound
  BY DEF IInv
<1>1. ASSUME NEW w, WriteSound(d, w), Enqueue(d, w), Edited(d)
      PROVE  IInv'
  BY <1>1, WriteKeeps
<1>2. ASSUME NEW k \in Kiosks, KioskCutOff(d, k) PROVE IInv'
  <2>1. Edited(d)
    BY <1>2 DEF KioskCutOff, Edited, KioskStates
  <2>2. UNCHANGED <<clock, outbox, pushed, cloud, posted, merge>>
    BY <1>2 DEF KioskCutOff
  <2>3. /\ db' \in [Devices -> Database]
        /\ \A e \in Devices :
             /\ db'[e].cursor = db[e].cursor /\ db'[e].applied = db[e].applied
    BY <1>0, <2>1, EditedDatabase
  <2>4. \A e \in Devices : db'[e].appended = db[e].appended
    <3>1. PICK s \in KioskStates : db' = [db EXCEPT ![d].kiosk[k] = s]
      BY <1>2 DEF KioskCutOff, KioskStates
    <3>2. db[d] \in Database /\ db \in [Devices -> Database]
      BY <1>0 DEF TypeOK
    <3>3. [db[d] EXCEPT !.kiosk[k] = s].appended = db[d].appended
      BY <3>2 DEF Database
    <3>4. db'[d] = [db[d] EXCEPT !.kiosk[k] = s]
      BY <3>1, <3>2
    <3>5. \A e \in Devices \ {d} : db'[e] = db[e]
      BY <3>1, <3>2
    <3>. QED  BY <3>3, <3>4, <3>5
  <2>5. \A e \in Devices : \A c \in Cycles :
          cycle'[e][c] = cycle[e][c] \/ cycle'[e][c] = Idle
    BY <1>0, <1>2 DEF KioskCutOff, TypeOK
  <2>6. TypeOK'
    BY <1>0, <1>2, <2>2, <2>3, CycleStates DEF KioskCutOff, TypeOK
  <2>7. StoresSound'
    BY <1>0, <2>2, <2>3, <2>4, Frame DEF StoresSound
  <2>8. CyclesSound'
    <3>1. ASSUME NEW e \in Devices, NEW c \in Cycles PROVE CycleSound(e, cycle[e][c])'
      <4>1. CycleSound(e, cycle[e][c])
        BY DEF IInv, CyclesSound
      <4>. QED  BY <2>2, <2>3, <2>5, <4>1, Frame, CycleStates DEF CycleSound, PageSound
    <3>. QED  BY <3>1 DEF CyclesSound
  <2>9. RequestsClosed' /\ PushedIsInCloud' /\ MergeSound'
    BY <2>2, Frame DEF IInv, RequestsClosed, PushedIsInCloud, MergeSound, NoMerge
  <2>10. \A e \in Devices : \A r \in Rows : db'[e].row[r] = db[e].row[r]
    <3>1. PICK s \in KioskStates : db' = [db EXCEPT ![d].kiosk[k] = s]
      BY <1>2 DEF KioskCutOff, KioskStates
    <3>2. db \in [Devices -> Database]
      BY <1>0 DEF TypeOK
    <3>. QED  BY <3>1, <3>2 DEF Database
  <2>11. VersionsWritten'
    BY <2>2, <2>10, VersionsFrame DEF IInv, OldVersion
  <2>. QED  BY <2>2, <2>6, <2>7, <2>8, <2>9, <2>11, Frame DEF IInv
<1>. QED  BY <1>1, <1>2, LocalWriteForms

-----------------------------------------------------------------------------
(* Cycles *)

(* A step of one cycle, which leaves the databases and the cloud alone.    *)
LEMMA CycleKeeps ==
  ASSUME IInv, NEW d \in Devices, NEW c \in Cycles, NEW x \in CycleState,
         UNCHANGED <<clock, outbox, cloud, db>>,
         cycle' = [cycle EXCEPT ![d][c] = x],
         posted' \subseteq Request,
         posted \subseteq posted',
         \A request \in posted' \ posted : Closed(request.from, request.batch),
         x.at = "pushing" =>
           [from |-> d, batch |-> x.batch] \in posted' \/ \A n \in x.batch : <<d, n>> \in InCloud,
         x.at = "pulling" => x.after <= db[d].cursor,
         x.at = "listed" => PageSound(d, x.page),
         pushed' \in [Devices -> SUBSET Nat],
         \A e \in Devices : \A n \in pushed'[e] : <<e, n>> \in InCloud,
         merge' \in Merge, MergeSound', merge' = merge \/ merge' = NoMerge
  PROVE  IInv'
<1>0. TypeOK /\ WritesSound /\ CloudSound /\ RequestsClosed /\ CyclesSound /\ StoresSound
      /\ CloudIsOrdered
  BY DEF IInv
<1>1. /\ cycle' \in [Devices -> [Cycles -> CycleState]]
      /\ cycle'[d][c] = x
      /\ \A e \in Devices : \A y \in Cycles :
           e # d \/ y # c => cycle'[e][y] = cycle[e][y]
  BY <1>0, CycleSet
<1>2. TypeOK'
  BY <1>0, <1>1 DEF TypeOK
<1>3. RequestsClosed'
  BY <1>0, Frame DEF RequestsClosed
<1>4. CyclesSound'
  <2>1. \A e, page : PageSound(e, page)' = PageSound(e, page)
    BY DEF PageSound
  <2>2. CycleSound(d, cycle[d][c])'
    BY <1>1, <2>1, Frame DEF CycleSound
  <2>3. ASSUME NEW e \in Devices, NEW y \in Cycles, e # d \/ y # c
        PROVE  CycleSound(e, cycle[e][y])'
    <3>1. CycleSound(e, cycle[e][y]) /\ cycle'[e][y] = cycle[e][y]
      BY <1>0, <1>1, <2>3 DEF CyclesSound
    <3>. QED  BY <2>1, <3>1, Frame DEF CycleSound
  <2>. QED  BY <2>2, <2>3 DEF CyclesSound
<1>5. StoresSound'
  BY <1>0, Frame DEF StoresSound
<1>6. PushedIsInCloud'
  BY Frame DEF PushedIsInCloud
<1>7. VersionsWritten'
  BY VersionsStay DEF IInv
<1>. QED  BY <1>0, <1>2, <1>3, <1>4, <1>5, <1>6, <1>7, Frame DEF IInv

(* Every step of a cycle keeps the invariant: its start, the answer to its *)
(* push or the loss of it, the list of the cloud, and the begin of the     *)
(* merge.                                                                  *)
LEMMA CycleStepKeeps ==
  ASSUME IInv, merge = NoMerge, NEW d \in Devices, NEW c \in Cycles, CycleStep(d, c)
  PROVE  IInv'
<1>0. TypeOK /\ PushedIsInCloud /\ CyclesSound /\ StoresSound /\ MergeSound
  BY DEF IInv
<1>1. /\ db[d].cursor \in Nat
      /\ cycle[d][c] \in CycleState
      /\ Len(outbox[d]) \in Nat /\ Len(cloud) \in Nat
  BY <1>0 DEF TypeOK, Database
<1>2. cycle[d][c].batch \in SUBSET Nat /\ cycle[d][c].after \in Nat
  BY <1>1 DEF CycleState
<1>3. /\ Idle \in CycleState /\ Idle.at = "idle"
      /\ Pulling(db[d].cursor) \in CycleState /\ Pulling(db[d].cursor).at = "pulling"
      /\ Pulling(db[d].cursor).after = db[d].cursor
  BY <1>1, CycleStates
<1>4. db[d].cursor <= db[d].cursor
  BY <1>1
<1>5. merge' = merge => MergeSound' /\ merge' \in Merge
  BY <1>0 DEF MergeSound, NoMerge, TypeOK
<1>6. CASE StartCycle(d, c) /\ Pending(d) = {}
  BY <1>0, <1>3, <1>4, <1>5, <1>6, CycleKeeps
     DEF StartCycle, TypeOK, PushedIsInCloud
<1>7. CASE StartCycle(d, c) /\ Pending(d) # {}
  <2>. DEFINE request == [from |-> d, batch |-> Batch(d)]
  <2>1. Closed(d, Batch(d))
    BY <1>0, BatchIsClosed
  <2>2. Batch(d) \in SUBSET Nat
    BY <1>1, <2>1 DEF Closed
  <2>3. request \in Request /\ request.from = d /\ request.batch = Batch(d)
    BY <2>2 DEF Request
  <2>4. /\ Pushing(Batch(d)) \in CycleState /\ Pushing(Batch(d)).at = "pushing"
        /\ Pushing(Batch(d)).batch = Batch(d)
    BY <2>2, CycleStates
  <2>5. /\ cycle' = [cycle EXCEPT ![d][c] = Pushing(Batch(d))]
        /\ posted' = posted \union {request}
        /\ UNCHANGED <<clock, outbox, pushed, cloud, db, merge>>
    BY <1>7 DEF StartCycle
  <2>. HIDE DEF request
  <2>6. posted' \subseteq Request /\ posted \subseteq posted'
    BY <1>0, <2>3, <2>5 DEF TypeOK
  <2>7. \A r \in posted' \ posted : Closed(r.from, r.batch)
    BY <2>1, <2>3, <2>5
  <2>8. [from |-> d, batch |-> Pushing(Batch(d)).batch] \in posted'
    BY <2>4, <2>5 DEF request
  <2>9. /\ pushed' \in [Devices -> SUBSET Nat]
        /\ \A e \in Devices : \A n \in pushed'[e] : <<e, n>> \in InCloud
    BY <1>0, <2>5 DEF TypeOK, PushedIsInCloud
  <2>. QED  BY <1>5, <2>4, <2>5, <2>6, <2>7, <2>8, <2>9, CycleKeeps
<1>8. CASE PushAcknowledged(d, c)
  <2>1. \A n \in cycle[d][c].batch : <<d, n>> \in InCloud
    BY <1>0, <1>8 DEF PushAcknowledged, CyclesSound, CycleSound
  <2>2. /\ pushed' \in [Devices -> SUBSET Nat]
        /\ \A e \in Devices : \A n \in pushed'[e] : <<e, n>> \in InCloud
    BY <1>0, <1>2, <1>8, <2>1 DEF PushAcknowledged, TypeOK, PushedIsInCloud
  <2>. QED  BY <1>0, <1>3, <1>4, <1>5, <1>8, <2>2, CycleKeeps DEF PushAcknowledged, TypeOK
<1>9. CASE PushFails(d, c)
  BY <1>0, <1>3, <1>4, <1>5, <1>9, CycleKeeps DEF PushFails, TypeOK, PushedIsInCloud
<1>10. CASE ListArrives(d, c)
  <2>. DEFINE page == First(PageLimit, Others(d, cycle[d][c].after))
              x == [Idle EXCEPT !.at = "listed", !.page = page]
  <2>1. Others(d, cycle[d][c].after) \subseteq 1..Len(cloud)
    BY <1>1, <1>2 DEF Others
  <2>2. Others(d, cycle[d][c].after) \in SUBSET Nat
    BY <1>1, <2>1
  <2>3. IsFiniteSet(Others(d, cycle[d][c].after))
    <3>1. IsFiniteSet(1..Len(cloud))
      BY <1>1, FS_Interval
    <3>. QED  BY <2>1, <3>1, FS_Subset
  <2>4. page \subseteq Others(d, cycle[d][c].after)
    BY DEF First
  <2>. HIDE DEF page
  <2>5. page \in SUBSET Nat
    BY <2>2, <2>4
  <2>6. x \in CycleState /\ x.at = "listed" /\ x.page = page
    BY <2>5 DEF Idle, CycleState
  <2>. HIDE DEF x
  <2>7. cycle[d][c].after <= db[d].cursor
    BY <1>0, <1>10 DEF ListArrives, CyclesSound, CycleSound
  <2>8. PageSound(d, page)
    <3>1. ASSUME NEW p \in page, NEW q \in 1..p
          PROVE  cloud[q][1] = d \/ q \in page \/ q <= db[d].cursor
      <4>1. p \in 1..Len(cloud) /\ p \in Nat
        BY <1>1, <2>1, <2>4
      <4>2. q \in Nat /\ q \in 1..Len(cloud)
        BY <1>1, <4>1
      <4>3. CASE q \in Others(d, cycle[d][c].after)
        <5>1. q = p \/ q < p
          BY <4>1, <4>2
        <5>2. PageLimit \in Nat
          BY SyncAssumption
        <5>3. q \in page
          BY <2>2, <2>3, <4>3, <5>1, <5>2, FirstIsClosed DEF page
        <5>. QED  BY <5>3
      <4>4. CASE q \notin Others(d, cycle[d][c].after)
        BY <1>1, <1>2, <2>7, <4>2, <4>4 DEF Others
      <4>. QED  BY <4>3, <4>4
    <3>2. \A p \in page : p \in 1..Len(cloud) /\ cloud[p][1] # d
      BY <2>1, <2>4 DEF Others
    <3>. QED  BY <3>1, <3>2 DEF PageSound
  <2>9. /\ cycle' = [cycle EXCEPT ![d][c] = x]
        /\ UNCHANGED <<clock, outbox, pushed, cloud, posted, db, merge>>
    BY <1>10 DEF ListArrives, x, page
  <2>. QED  BY <1>0, <1>5, <2>6, <2>8, <2>9, CycleKeeps DEF TypeOK, PushedIsInCloud
<1>11. CASE PullFails(d, c)
  BY <1>0, <1>3, <1>5, <1>11, CycleKeeps DEF PullFails, TypeOK, PushedIsInCloud
<1>12. CASE BeginMerge(d, c) /\ cycle[d][c].page = {}
  BY <1>0, <1>3, <1>5, <1>12, CycleKeeps DEF BeginMerge, EndCycle, TypeOK, PushedIsInCloud
<1>13. CASE BeginMerge(d, c) /\ cycle[d][c].page # {}
  <2>. DEFINE m == [of |-> d, by |-> c, rest |-> cycle[d][c].page, store |-> db[d]]
  <2>1. /\ cycle[d][c].at = "listed"
        /\ merge' = m
        /\ UNCHANGED <<clock, outbox, pushed, cloud, posted, db, cycle>>
    BY <1>13 DEF BeginMerge
  <2>2. cycle[d][c].page \in SUBSET Nat /\ db[d] \in Database
    BY <1>0, <1>1 DEF CycleState, TypeOK
  <2>3. m \in Merge /\ m.of = d /\ m.by = c /\ m.rest = cycle[d][c].page /\ m.store = db[d]
    BY <2>2 DEF Merge
  <2>. HIDE DEF m
  <2>4. MergeSound'
    <3>1. Read(d, cycle[d][c].page \ cycle[d][c].page)' = {}
      BY DEF Read
    <3>2. \A id \in db[d].appended : IsWritten(id)'
      BY <1>0, <2>1, Frame DEF StoresSound
    <3>. QED  BY <2>1, <2>3, <3>1, <3>2 DEF MergeSound
  <2>5. TypeOK'
    BY <1>0, <2>1, <2>3 DEF TypeOK
  <2>6. RequestsClosed' /\ CyclesSound' /\ StoresSound' /\ PushedIsInCloud'
    <3>1. \A e, x : CycleSound(e, x)' = CycleSound(e, x)
      BY <2>1, Frame DEF CycleSound, PageSound
    <3>. QED  BY <2>1, <3>1, Frame
              DEF IInv, RequestsClosed, CyclesSound, StoresSound, PushedIsInCloud
  <2>7. VersionsWritten'
    BY <2>1, <2>3, VersionsFrame DEF IInv, OldVersion
  <2>. QED  BY <2>1, <2>4, <2>5, <2>6, <2>7, Frame DEF IInv
<1>. QED  BY <1>6, <1>7, <1>8, <1>9, <1>10, <1>11, <1>12, <1>13
          DEF CycleStep, StartCycle, BeginMerge

-----------------------------------------------------------------------------
(* The cloud *)

(* A request that arrives adds what is new of its batch, in order.         *)
Extends(from, s) ==
  /\ cloud' \in Seq(Ids)
  /\ DOMAIN s = 1..Len(s) /\ Len(s) \in Nat
  /\ Len(cloud') = Len(cloud) + Len(s)
  /\ \A p \in 1..Len(cloud) : cloud'[p] = cloud[p]
  /\ \A i \in 1..Len(s) : cloud'[Len(cloud) + i] = <<from, s[i]>>

(* A request that arrives makes the cloud grow at its end by what is new   *)
(* in it.                                                                  *)
LEMMA CloudGrows ==
  ASSUME IInv, NEW request \in posted, PushArrives(request)
  PROVE  \E s \in Ascending(NewIn(request)) : Extends(request.from, s)
<1>1. request \in Request /\ outbox \in [Devices -> Seq(Write)] /\ cloud \in Seq(Ids)
  BY DEF IInv, TypeOK
<1>2. request.from \in Devices
  BY <1>1 DEF Request
<1>3. Len(outbox[request.from]) \in Nat
  BY <1>1, <1>2
<1>4. NewIn(request) \subseteq 1..Len(outbox[request.from])
  BY DEF IInv, RequestsClosed, Closed, NewIn
<1>5. IsFiniteSet(NewIn(request))
  <2>1. IsFiniteSet(1..Len(outbox[request.from]))
    BY <1>3, FS_Interval
  <2>. QED  BY <1>4, <2>1, FS_Subset
<1>6. Cardinality(NewIn(request)) \in Nat
  BY <1>5, FS_CardinalityType
<1>7. PICK s \in Ascending(NewIn(request)) :
        cloud' = cloud \o [i \in DOMAIN s |-> <<request.from, s[i]>>]
  BY DEF PushArrives
<1>. DEFINE K == Cardinality(NewIn(request))
            new == [i \in 1..K |-> <<request.from, s[i]>>]
<1>8. s \in [1..K -> NewIn(request)]
  BY DEF Ascending
<1>9. s \in Seq(NewIn(request)) /\ Len(s) = K /\ DOMAIN s = 1..K
  BY <1>6, <1>8
<1>10. \A i \in 1..K : <<request.from, s[i]>> \in Ids
  BY <1>2, <1>3, <1>4, <1>8 DEF Ids
<1>11. new \in Seq(Ids) /\ Len(new) = K /\ \A i \in 1..K : new[i] = <<request.from, s[i]>>
  BY <1>6, <1>10
<1>12. cloud' = cloud \o new
  BY <1>7, <1>9
<1>. HIDE DEF new, K
<1>13. /\ cloud \o new \in Seq(Ids)
       /\ Len(cloud \o new) = Len(cloud) + K
       /\ \A p \in 1..Len(cloud) : (cloud \o new)[p] = cloud[p]
       /\ \A i \in 1..K : (cloud \o new)[Len(cloud) + i] = new[i]
  BY <1>1, <1>11
<1>. QED  BY <1>6, <1>9, <1>11, <1>12, <1>13 DEF Extends, K

(* Positions the cloud had keep their rows.                                *)
LEMMA CloudExtends ==
  ASSUME IInv, NEW request \in posted, PushArrives(request)
  PROVE  /\ Len(cloud') \in Nat /\ Len(cloud) <= Len(cloud')
         /\ \A p \in 1..Len(cloud) : cloud'[p] = cloud[p]
<1>1. PICK s \in Ascending(NewIn(request)) : Extends(request.from, s)
  BY CloudGrows
<1>2. Len(cloud) \in Nat
  BY DEF IInv, TypeOK
<1>. QED  BY <1>1, <1>2 DEF Extends

(* A request that arrives, however late, keeps the invariant.              *)
LEMMA PushArrivesKeeps ==
  ASSUME IInv, merge = NoMerge, NEW request \in posted, PushArrives(request)
  PROVE  IInv'
<1>0. TypeOK /\ WritesSound /\ CloudSound /\ RequestsClosed /\ CyclesSound /\ StoresSound
      /\ PushedIsInCloud /\ CloudIsOrdered
  BY DEF IInv
<1>. DEFINE from == request.from
<1>1. from \in Devices /\ request.batch \in SUBSET Nat
  BY <1>0 DEF TypeOK, Request
<1>2. PICK s \in Ascending(NewIn(request)) : Extends(from, s)
  BY CloudGrows
<1>3. UNCHANGED <<clock, outbox, pushed, cycle, db, merge>> /\ posted' = posted \ {request}
  BY DEF PushArrives
<1>4. Len(cloud) \in Nat /\ Len(s) \in Nat /\ Len(cloud') = Len(cloud) + Len(s)
  BY <1>0, <1>2 DEF TypeOK, Extends
<1>5. /\ DOMAIN s = 1..Len(s)
      /\ \A i \in 1..Len(s) : s[i] \in NewIn(request)
      /\ \A i, j \in 1..Len(s) : i < j => s[i] < s[j]
      /\ \A n \in NewIn(request) : \E i \in 1..Len(s) : s[i] = n
  BY <1>2 DEF Extends, Ascending
<1>6. \A p \in 1..Len(cloud') : p \in 1..Len(cloud) \/ \E i \in 1..Len(s) : p = Len(cloud) + i
  <2>1. ASSUME NEW p \in 1..Len(cloud'), p \notin 1..Len(cloud)
        PROVE  p - Len(cloud) \in 1..Len(s) /\ p = Len(cloud) + (p - Len(cloud))
    BY <1>4, <2>1
  <2>. QED  BY <2>1
<1>7. \A i \in 1..Len(s) : Len(cloud) + i \in 1..Len(cloud') /\ Len(cloud) + i > Len(cloud)
  BY <1>4
<1>8. /\ \A p \in 1..Len(cloud) : p \in 1..Len(cloud') /\ cloud'[p] = cloud[p]
      /\ \A i \in 1..Len(s) : cloud'[Len(cloud) + i] = <<from, s[i]>>
  BY <1>2, <1>4 DEF Extends
<1>9. InCloud \subseteq InCloud'
  BY <1>8 DEF InCloud
<1>10. \A n \in request.batch : <<from, n>> \in InCloud'
  BY <1>5, <1>7, <1>8, <1>9 DEF NewIn, InCloud
<1>11. \A i \in 1..Len(s) :
         /\ s[i] \in request.batch /\ s[i] \in Nat
         /\ <<from, s[i]>> \notin InCloud
         /\ s[i] \in 1..Len(outbox[from])
  BY <1>0, <1>1, <1>5 DEF NewIn, RequestsClosed, Closed
<1>12. TypeOK'
  BY <1>0, <1>2, <1>3 DEF TypeOK, Extends
<1>13. WritesSound'
  <2>1. \A saw \in Nat : saw <= Len(cloud) => saw <= Len(cloud')
    BY <1>4
  <2>2. \A d \in Devices : \A n \in 1..Len(outbox[d]) : outbox[d][n].saw \in Nat
    <3>1. \A d \in Devices : \A n \in 1..Len(outbox[d]) : outbox[d][n] \in Write
      BY <1>0 DEF TypeOK
    <3>. QED  BY <3>1 DEF Write
  <2>. QED  BY <1>0, <1>3, <2>1, <2>2 DEF WritesSound
<1>14. CloudSound'
  <2>1. ASSUME NEW i \in 1..Len(s)
        PROVE  IsWritten(<<from, s[i]>>) /\ WriteOf(<<from, s[i]>>).saw < Len(cloud) + i
    <3>1. outbox[from][s[i]].saw <= Len(cloud) /\ outbox[from][s[i]].saw \in Nat
      <4>1. s[i] \in 1..Len(outbox[from])
        BY <1>11
      <4>2. outbox[from][s[i]] \in Write
        BY <1>0, <1>1, <4>1 DEF TypeOK
      <4>. QED  BY <1>0, <1>1, <4>1, <4>2 DEF WritesSound, Write
    <3>2. s[i] \in 1..Len(outbox[from])
      BY <1>11
    <3>3. <<from, s[i]>>[1] = from /\ <<from, s[i]>>[2] = s[i]
      OBVIOUS
    <3>4. WriteOf(<<from, s[i]>>) = outbox[from][s[i]] /\ IsWritten(<<from, s[i]>>)
      BY <1>1, <3>2, <3>3 DEF IsWritten, WriteOf
    <3>5. outbox[from][s[i]].saw < Len(cloud) + i
      BY <1>4, <3>1
    <3>. QED  BY <3>4, <3>5
  <2>2. \A p \in 1..Len(cloud') :
          IsWritten(cloud'[p]) /\ WriteOf(cloud'[p]).saw < p
    BY <1>0, <1>6, <1>8, <2>1 DEF CloudSound
  <2>. QED  BY <1>3, <2>2 DEF CloudSound, IsWritten, WriteOf
<1>15. \A d, batch : Closed(d, batch) => Closed(d, batch)'
  BY <1>3, <1>9 DEF Closed
<1>16. RequestsClosed'
  BY <1>0, <1>3, <1>15 DEF RequestsClosed
<1>17. CyclesSound'
  <2>1. ASSUME NEW d \in Devices, NEW c \in Cycles PROVE CycleSound(d, cycle[d][c])'
    <3>. DEFINE x == cycle[d][c]
    <3>1. CycleSound(d, x)
      BY <1>0 DEF CyclesSound
    <3>2. x.at = "pushing" => ([from |-> d, batch |-> x.batch] \in posted'
                               \/ \A n \in x.batch : <<d, n>> \in InCloud')
      <4>1. CASE [from |-> d, batch |-> x.batch] = request
        <5>1. d = from /\ x.batch = request.batch
          BY <4>1
        <5>. QED  BY <1>10, <5>1
      <4>2. CASE [from |-> d, batch |-> x.batch] # request
        BY <1>3, <1>9, <3>1, <4>2 DEF CycleSound
      <4>. QED  BY <4>1, <4>2
    <3>3. x.at = "pulling" => x.after <= db[d].cursor
      BY <3>1 DEF CycleSound
    <3>4. PageSound(d, x.page) => PageSound(d, x.page)'
      <4>1. SUFFICES ASSUME PageSound(d, x.page), NEW p \in x.page
            PROVE  /\ p \in 1..Len(cloud') /\ cloud'[p][1] # d
                   /\ \A q \in 1..p : cloud'[q][1] = d \/ q \in x.page \/ q <= db[d].cursor
        BY <1>3 DEF PageSound
      <4>2. p \in 1..Len(cloud) /\ \A q \in 1..p : q \in 1..Len(cloud)
        BY <1>4, <4>1 DEF PageSound
      <4>. QED  BY <1>8, <4>1, <4>2 DEF PageSound
    <3>. QED  BY <1>3, <3>1, <3>2, <3>3, <3>4 DEF CycleSound
  <2>. QED  BY <2>1 DEF CyclesSound
<1>18. StoresSound'
  <2>1. ASSUME NEW d \in Devices
        PROVE  /\ db[d].cursor <= Len(cloud')
               /\ Read(d, 1..db[d].cursor)' = Read(d, 1..db[d].cursor)
    <3>1. db[d].cursor \in Nat /\ db[d].cursor <= Len(cloud)
      BY <1>0 DEF StoresSound, TypeOK, Database
    <3>2. \A q \in 1..db[d].cursor : cloud'[q] = cloud[q]
      BY <1>4, <1>8, <3>1
    <3>. QED  BY <1>3, <1>4, <3>1, <3>2 DEF Read
  <2>. QED  BY <1>0, <1>3, <2>1 DEF StoresSound, IsWritten
<1>19. PushedIsInCloud' /\ MergeSound'
  BY <1>0, <1>3, <1>9 DEF PushedIsInCloud, MergeSound, NoMerge
<1>20. CloudIsOrdered'
  <2>1. ASSUME NEW p \in 1..Len(cloud'), NEW m \in 1..cloud'[p][2] - 1
        PROVE  \E q \in 1..p - 1 : cloud'[q] = <<cloud'[p][1], m>>
    <3>1. CASE p \in 1..Len(cloud)
      <4>1. PICK q \in 1..p - 1 : cloud[q] = <<cloud[p][1], m>>
        BY <1>0, <1>8, <3>1 DEF CloudIsOrdered
      <4>2. q \in 1..Len(cloud)
        BY <1>4, <3>1
      <4>. QED  BY <1>8, <3>1, <4>1, <4>2
    <3>2. CASE p \notin 1..Len(cloud)
      <4>1. PICK i \in 1..Len(s) : p = Len(cloud) + i
        BY <1>6, <3>2
      <4>2. cloud'[p] = <<from, s[i]>> /\ m \in 1..s[i] - 1 /\ m \in Nat
        BY <1>8, <1>11, <4>1
      <4>3. m \in request.batch \/ <<from, m>> \in InCloud
        BY <1>0, <1>11, <4>2 DEF RequestsClosed, Closed
      <4>4. CASE <<from, m>> \in InCloud
        <5>1. PICK q \in 1..Len(cloud) : cloud[q] = <<from, m>>
          BY <4>4 DEF InCloud
        <5>2. q \in 1..p - 1
          BY <1>4, <4>1
        <5>. QED  BY <1>8, <4>2, <5>1, <5>2
      <4>5. CASE <<from, m>> \notin InCloud
        <5>1. m \in NewIn(request)
          BY <4>3, <4>5 DEF NewIn
        <5>2. PICK j \in 1..Len(s) : s[j] = m
          BY <1>5, <5>1
        <5>3. j < i
          <6>1. m < s[i] /\ s[i] \in Nat
            <7>1. s[i] \in Nat
              BY <1>11
            <7>. QED  BY <4>2, <7>1
          <6>2. i < j => s[i] < s[j]
            BY <1>5
          <6>3. i \in Nat /\ j \in Nat
            OBVIOUS
          <6>. QED  BY <4>2, <5>2, <6>1, <6>2, <6>3
        <5>4. Len(cloud) + j \in 1..p - 1
          BY <1>4, <4>1, <5>3
        <5>5. cloud'[Len(cloud) + j] = <<from, m>>
          BY <1>8, <5>2
        <5>6. cloud'[p][1] = from
          BY <4>2
        <5>. QED  BY <5>4, <5>5, <5>6
      <4>. QED  BY <4>4, <4>5
    <3>. QED  BY <3>1, <3>2
  <2>2. ASSUME NEW p \in 1..Len(cloud'), NEW q \in 1..Len(cloud'), cloud'[q] = cloud'[p]
        PROVE  q = p
    <3>1. \A u, v \in 1..Len(cloud) : cloud[u] = cloud[v] => u = v
      BY <1>0 DEF CloudIsOrdered
    <3>2. \A u \in 1..Len(cloud) : \A i \in 1..Len(s) : cloud'[u] # cloud'[Len(cloud) + i]
      BY <1>8, <1>11 DEF InCloud
    <3>3. \A i, j \in 1..Len(s) : cloud'[Len(cloud) + i] = cloud'[Len(cloud) + j] => i = j
      <4>1. ASSUME NEW i \in 1..Len(s), NEW j \in 1..Len(s),
                   cloud'[Len(cloud) + i] = cloud'[Len(cloud) + j]
            PROVE  i = j
        <5>1. s[i] = s[j] /\ s[i] \in Nat
          <6>1. <<from, s[i]>> = <<from, s[j]>>
            BY <1>8, <4>1
          <6>2. s[i] \in Nat
            BY <1>11
          <6>. QED  BY <6>1, <6>2
        <5>2. (i < j => s[i] < s[j]) /\ (j < i => s[j] < s[i])
          BY <1>5
        <5>. QED  BY <5>1, <5>2
      <4>. QED  BY <4>1
    <3>4. CASE p \in 1..Len(cloud) /\ q \in 1..Len(cloud)
      BY <1>8, <2>2, <3>1, <3>4
    <3>5. CASE p \in 1..Len(cloud) /\ q \notin 1..Len(cloud)
      BY <1>6, <2>2, <3>2, <3>5
    <3>6. CASE p \notin 1..Len(cloud) /\ q \in 1..Len(cloud)
      BY <1>6, <2>2, <3>2, <3>6
    <3>7. CASE p \notin 1..Len(cloud) /\ q \notin 1..Len(cloud)
      BY <1>6, <2>2, <3>3, <3>7
    <3>. QED  BY <3>4, <3>5, <3>6, <3>7
  <2>. QED  BY <2>1, <2>2 DEF CloudIsOrdered
<1>21. VersionsWritten'
  BY <1>3, VersionsStay DEF IInv
<1>. QED  BY <1>12, <1>13, <1>14, <1>16, <1>17, <1>18, <1>19, <1>20, <1>21 DEF IInv

-----------------------------------------------------------------------------
(* The merge *)

(* What applying an event does to a database.                              *)
LEMMA AppliedStore ==
  ASSUME TypeOK, NEW d \in Devices, NEW store \in Database, NEW id \in Ids, IsWritten(id)
  PROVE  /\ Applied(d, store, id) \in Database
         /\ Applied(d, store, id).cursor = store.cursor
         /\ Applied(d, store, id).applied = store.applied
         /\ \A x \in Applied(d, store, id).appended : x \in store.appended \/ x = id
         /\ \A r \in Rows : \/ Applied(d, store, id).row[r] = store.row[r]
                           \/ Applied(d, store, id).row[r] = WriteOf(id).version
<1>1. WriteOf(id) \in Write
  BY DEF TypeOK, IsWritten, WriteOf
<1>2. WriteOf(id).kind \in {"edit", "pair", "revoke", "append"}
  BY <1>1 DEF Write, Kinds
<1>3. CASE WriteOf(id).kind = "edit"
  <2>. DEFINE v == WriteOf(id).version
              s == [store EXCEPT !.row[WriteOf(id).on] = v]
  <2>0. v \in Ids \union {Initially}
    BY <1>1 DEF Write
  <2>. HIDE DEF v
  <2>1. s \in Database /\ s.cursor = store.cursor /\ s.applied = store.applied
        /\ s.appended = store.appended
        /\ \A r \in Rows : s.row[r] = store.row[r] \/ s.row[r] = v
    BY <2>0 DEF Database
  <2>2. Applied(d, store, id) = s \/ Applied(d, store, id) = store
    BY <1>3 DEF Applied, v
  <2>. HIDE DEF s
  <2>. QED  BY <2>1, <2>2 DEF v
<1>4. CASE WriteOf(id).kind \in {"pair", "revoke"}
  <2>. DEFINE s == [store EXCEPT !.kiosk[WriteOf(id).on] = "revoked"]
  <2>1. s \in Database /\ s.cursor = store.cursor /\ s.applied = store.applied
        /\ s.appended = store.appended /\ s.row = store.row
    BY DEF Database, KioskStates
  <2>2. Applied(d, store, id) = s \/ Applied(d, store, id) = store
    BY <1>4 DEF Applied
  <2>. HIDE DEF s
  <2>. QED  BY <2>1, <2>2
<1>5. CASE WriteOf(id).kind = "append"
  <2>. DEFINE s == [store EXCEPT !.appended = @ \union {id}]
  <2>1. s \in Database /\ s.cursor = store.cursor /\ s.applied = store.applied
        /\ s.appended = store.appended \union {id} /\ s.row = store.row
    BY DEF Database
  <2>2. Applied(d, store, id) = s
    BY <1>5 DEF Applied
  <2>. HIDE DEF s
  <2>. QED  BY <2>1, <2>2
<1>. QED  BY <1>2, <1>3, <1>4, <1>5

(* The store after one event of the page.                                  *)
LEMMA MergedStore ==
  ASSUME TypeOK, NEW d \in Devices, NEW store \in Database, NEW id \in Ids, IsWritten(id)
  PROVE  /\ Merged(d, store, id) \in Database
         /\ Merged(d, store, id).cursor = store.cursor
         /\ Merged(d, store, id).applied = store.applied \union {id}
         /\ \A x \in Merged(d, store, id).appended : x \in store.appended \/ x = id
         /\ \A r \in Rows : \/ Merged(d, store, id).row[r] = store.row[r]
                           \/ Merged(d, store, id).row[r] = WriteOf(id).version
<1>1. CASE id \in store.applied
  BY <1>1 DEF Merged
<1>2. CASE id \notin store.applied
  <2>. DEFINE a == Applied(d, store, id)
  <2>1. /\ a \in Database /\ a.cursor = store.cursor /\ a.applied = store.applied
        /\ \A x \in a.appended : x \in store.appended \/ x = id
        /\ \A r \in Rows : a.row[r] = store.row[r] \/ a.row[r] = WriteOf(id).version
    BY AppliedStore
  <2>. HIDE DEF a
  <2>2. Merged(d, store, id) = [a EXCEPT !.applied = @ \union {id}]
    BY <1>2 DEF Merged, a
  <2>. QED  BY <2>1, <2>2 DEF Database
<1>. QED  BY <1>1, <1>2

(* What is known while a page is being applied.                            *)
LEMMA MergeTypes ==
  ASSUME IInv, merge # NoMerge
  PROVE  /\ merge.of \in Devices /\ merge.by \in Cycles
         /\ merge.store \in Database /\ merge.rest \in SUBSET Nat
         /\ merge.rest \subseteq cycle[merge.of][merge.by].page
         /\ \A p \in cycle[merge.of][merge.by].page :
              /\ p \in 1..Len(cloud) /\ p \in Nat /\ cloud[p] \in Ids
              /\ cloud[p][1] # merge.of /\ IsWritten(cloud[p])
         /\ PageSound(merge.of, cycle[merge.of][merge.by].page)
<1>1. merge \in Merge /\ cloud \in Seq(Ids)
  BY DEF IInv, TypeOK
<1>2. merge.store \in Database /\ merge.rest \in SUBSET Nat
  BY <1>1 DEF Merge
<1>3. /\ merge.of \in Devices /\ merge.by \in Cycles
      /\ cycle[merge.of][merge.by].at = "listed"
      /\ merge.rest \subseteq cycle[merge.of][merge.by].page
  BY DEF IInv, MergeSound
<1>4. PageSound(merge.of, cycle[merge.of][merge.by].page)
  BY <1>3 DEF IInv, CyclesSound, CycleSound
<1>5. Len(cloud) \in Nat
  BY <1>1
<1>6. \A p \in cycle[merge.of][merge.by].page :
        /\ p \in 1..Len(cloud) /\ p \in Nat /\ cloud[p] \in Ids
        /\ cloud[p][1] # merge.of /\ IsWritten(cloud[p])
  BY <1>1, <1>4, <1>5 DEF PageSound, IInv, CloudSound
<1>. QED  BY <1>2, <1>3, <1>4, <1>6

(* Applying one event of a page keeps the invariant.                       *)
LEMMA ApplyOneKeeps ==
  ASSUME IInv, ApplyOne
  PROVE  IInv'
<1>1. PICK p \in NextInPage :
        merge' = [merge EXCEPT !.rest = merge.rest \ {p},
                    !.store = Merged(merge.of, merge.store, cloud[p])]
  BY DEF ApplyOne
<1>2. p \in merge.rest
  BY DEF NextInPage
<1>3. merge # NoMerge
  BY <1>2 DEF NoMerge
<1>4. UNCHANGED <<clock, outbox, pushed, cloud, posted, cycle, db>>
  BY DEF ApplyOne
<1>. DEFINE d == merge.of
            page == cycle[merge.of][merge.by].page
            store == Merged(d, merge.store, cloud[p])
<1>5. /\ d \in Devices /\ merge.by \in Cycles /\ merge.store \in Database
      /\ merge.rest \in SUBSET Nat /\ merge.rest \subseteq page /\ p \in page
      /\ \A q \in page : q \in Nat /\ cloud[q] \in Ids /\ cloud[q][1] # d /\ IsWritten(cloud[q])
  BY <1>2, <1>3, MergeTypes
<1>6. /\ store \in Database /\ store.cursor = merge.store.cursor
      /\ store.applied = merge.store.applied \union {cloud[p]}
      /\ \A x \in store.appended : x \in merge.store.appended \/ x = cloud[p]
      /\ \A r \in Rows : \/ store.row[r] = merge.store.row[r]
                        \/ store.row[r] = WriteOf(cloud[p]).version
  BY <1>5, MergedStore DEF IInv
<1>7. merge \in Merge
  BY DEF IInv, TypeOK
<1>. HIDE DEF store
<1>8. merge' = [merge EXCEPT !.rest = merge.rest \ {p}, !.store = store]
  BY <1>1, <1>7 DEF store, Merge
<1>9. /\ merge' \in Merge /\ merge'.of = d /\ merge'.by = merge.by
      /\ merge'.rest = merge.rest \ {p} /\ merge'.store = store
  BY <1>5, <1>6, <1>7, <1>8 DEF Merge
<1>10. TypeOK'
  BY <1>4, <1>9 DEF IInv, TypeOK
<1>11. MergeSound'
  <2>1. /\ cycle[d][merge.by].at = "listed"
        /\ merge.store.cursor = db[d].cursor
        /\ merge.store.applied = db[d].applied \union Read(d, page \ merge.rest)
        /\ \A id \in merge.store.appended : IsWritten(id)
    BY <1>3 DEF IInv, MergeSound
  <2>2. Read(d, page \ (merge.rest \ {p})) = Read(d, page \ merge.rest) \union {cloud[p]}
    BY <1>2, <1>5 DEF Read
  <2>3. store.applied = db[d].applied \union Read(d, page \ (merge.rest \ {p}))
    BY <1>6, <2>1, <2>2
  <2>4. \A id \in store.appended : IsWritten(id)
    BY <1>5, <1>6, <2>1
  <2>5. store.cursor = db[d].cursor
    BY <1>6, <2>1
  <2>. QED  BY <1>4, <1>5, <1>9, <2>1, <2>3, <2>4, <2>5, Frame DEF MergeSound
<1>12. RequestsClosed' /\ CyclesSound' /\ StoresSound' /\ PushedIsInCloud'
  <2>1. \A e, x : CycleSound(e, x)' = CycleSound(e, x)
    BY <1>4, Frame DEF CycleSound, PageSound
  <2>. QED  BY <1>4, <2>1, Frame
            DEF IInv, RequestsClosed, CyclesSound, StoresSound, PushedIsInCloud
<1>13. VersionsWritten'
  BY <1>4, <1>5, <1>6, <1>9, VersionsFrame DEF IInv, OldVersion
<1>. QED  BY <1>4, <1>10, <1>11, <1>12, <1>13, Frame DEF IInv

(* A page that is rolled back, or committed, ends the cycle; a crash ends  *)
(* the cycles of a device.                                                 *)
LEMMA AbortKeeps ==
  ASSUME IInv, MergeAborts
  PROVE  IInv'
<1>1. merge # NoMerge
  BY DEF MergeAborts, NextInPage, NoMerge
<1>2. merge.of \in Devices /\ merge.by \in Cycles
  BY <1>1, MergeTypes
<1>3. NoMerge \in Merge
  BY DEF NoMerge, Merge, FreshDatabase, Database, KioskStates
<1>4. merge' = NoMerge /\ MergeSound'
  BY DEF MergeAborts, MergeSound, NoMerge
<1>. QED  BY <1>2, <1>3, <1>4, CycleStates, CycleKeeps
          DEF MergeAborts, EndCycle, IInv, TypeOK, PushedIsInCloud

(* A crash keeps the invariant.                                            *)
LEMMA CrashKeeps ==
  ASSUME IInv, NEW d \in Devices, Crash(d)
  PROVE  IInv'
<1>0. TypeOK /\ CyclesSound
  BY DEF IInv
<1>1. NoMerge \in Merge
  BY DEF NoMerge, Merge, FreshDatabase, Database, KioskStates
<1>2. UNCHANGED <<clock, outbox, pushed, cloud, posted, db>> /\ merge' = NoMerge
  BY DEF Crash
<1>3. MergeSound'
  BY <1>2 DEF MergeSound, NoMerge
<1>4. /\ cycle' \in [Devices -> [Cycles -> CycleState]]
      /\ \A e \in Devices : \A c \in Cycles :
           cycle'[e][c] = cycle[e][c] \/ cycle'[e][c] = Idle
  BY <1>0, CycleStates DEF Crash, TypeOK
<1>5. TypeOK'
  BY <1>0, <1>1, <1>2, <1>4 DEF TypeOK
<1>6. CyclesSound'
  <2>1. ASSUME NEW e \in Devices, NEW c \in Cycles PROVE CycleSound(e, cycle[e][c])'
    <3>1. CycleSound(e, cycle[e][c])
      BY <1>0 DEF CyclesSound
    <3>. QED  BY <1>2, <1>4, <3>1, Frame, CycleStates DEF CycleSound, PageSound
  <2>. QED  BY <2>1 DEF CyclesSound
<1>7. RequestsClosed' /\ StoresSound' /\ PushedIsInCloud'
  BY <1>2, Frame DEF IInv, RequestsClosed, StoresSound, PushedIsInCloud
<1>8. VersionsWritten'
  BY <1>2, VersionsStay DEF IInv
<1>. QED  BY <1>2, <1>3, <1>5, <1>6, <1>7, <1>8, Frame DEF IInv

(* The commit: what the device has applied is what lies before the new     *)
(* cursor.                                                                 *)
LEMMA Committed ==
  ASSUME IInv, MergeCommits
  PROVE  /\ merge # NoMerge /\ merge.of \in Devices /\ merge.by \in Cycles
         /\ db' \in [Devices -> Database]
         /\ \A e \in Devices \ {merge.of} : db'[e] = db[e]
         /\ db'[merge.of].cursor \in Nat
         /\ db[merge.of].cursor <= db'[merge.of].cursor
         /\ db'[merge.of].cursor <= Len(cloud)
         /\ db'[merge.of].applied = Read(merge.of, 1..db'[merge.of].cursor)
         /\ db'[merge.of].appended = merge.store.appended
         /\ db'[merge.of].row = merge.store.row
         /\ db'[merge.of].kiosk = merge.store.kiosk
         /\ db'[merge.of].applied = merge.store.applied
<1>. DEFINE d == merge.of
            page == cycle[merge.of][merge.by].page
<1>1. merge # NoMerge /\ merge.rest = {}
  BY DEF MergeCommits
<1>2. /\ d \in Devices /\ merge.by \in Cycles /\ merge.store \in Database
      /\ \A p \in page : p \in 1..Len(cloud) /\ p \in Nat
      /\ PageSound(d, page)
  BY <1>1, MergeTypes
<1>3. PICK top \in Reached :
        /\ \A p \in Reached : p <= top
        /\ db' = [db EXCEPT ![d] = [merge.store EXCEPT !.cursor = top]]
  BY DEF MergeCommits
<1>4. Reached = {merge.store.cursor} \union page
  BY DEF Reached
<1>5. /\ merge.store.cursor = db[d].cursor
      /\ merge.store.applied = db[d].applied \union Read(d, page \ merge.rest)
      /\ db[d].cursor <= Len(cloud)
      /\ db[d].applied = Read(d, 1..db[d].cursor)
  BY <1>1, <1>2 DEF IInv, MergeSound, StoresSound
<1>6. db \in [Devices -> Database] /\ db[d].cursor \in Nat /\ Len(cloud) \in Nat
  BY <1>2 DEF IInv, TypeOK, Database
<1>7. top \in Nat /\ top <= Len(cloud) /\ db[d].cursor <= top /\ \A p \in page : p <= top
  BY <1>2, <1>3, <1>4, <1>5, <1>6
<1>. DEFINE s == [merge.store EXCEPT !.cursor = top]
<1>8. /\ s \in Database /\ s.cursor = top /\ s.applied = merge.store.applied
      /\ s.appended = merge.store.appended /\ s.row = merge.store.row
      /\ s.kiosk = merge.store.kiosk
  BY <1>2, <1>7 DEF Database
<1>. HIDE DEF s
<1>9. db' = [db EXCEPT ![d] = s]
  BY <1>3 DEF s
<1>10. db' \in [Devices -> Database] /\ db'[d] = s /\ \A e \in Devices \ {d} : db'[e] = db[e]
  BY <1>2, <1>6, <1>8, <1>9
<1>11. merge.store.applied = Read(d, 1..top)
  <2>1. page \ merge.rest = page
    BY <1>1
  <2>2. ASSUME NEW q \in 1..top, cloud[q][1] # d PROVE q \in 1..db[d].cursor \/ q \in page
    <3>1. top = db[d].cursor \/ top \in page
      BY <1>3, <1>4, <1>5
    <3>2. q \in Nat /\ q >= 1
      BY <1>7
    <3>. QED  BY <1>2, <1>6, <2>2, <3>1, <3>2 DEF PageSound
  <2>3. ASSUME NEW q, q \in 1..db[d].cursor \/ q \in page PROVE q \in 1..top
    BY <1>2, <1>6, <1>7, <2>3
  <2>. QED  BY <1>5, <2>1, <2>2, <2>3 DEF Read
<1>. QED  BY <1>1, <1>2, <1>7, <1>8, <1>10, <1>11

(* The commit of a page keeps the invariant.                               *)
LEMMA CommitKeeps ==
  ASSUME IInv, MergeCommits
  PROVE  IInv'
<1>0. TypeOK /\ CyclesSound /\ StoresSound
  BY DEF IInv
<1>1. UNCHANGED <<clock, outbox, pushed, cloud, posted>> /\ merge' = NoMerge
      /\ EndCycle(merge.of, merge.by)
  BY DEF MergeCommits
<1>. DEFINE d == merge.of
<1>2. /\ merge # NoMerge /\ d \in Devices /\ merge.by \in Cycles
      /\ db' \in [Devices -> Database]
      /\ \A e \in Devices \ {d} : db'[e] = db[e]
      /\ db'[d].cursor \in Nat /\ db[d].cursor <= db'[d].cursor
      /\ db'[d].cursor <= Len(cloud)
      /\ db'[d].applied = Read(d, 1..db'[d].cursor)
      /\ db'[d].appended = merge.store.appended
  BY Committed
<1>3. /\ cycle' \in [Devices -> [Cycles -> CycleState]]
      /\ cycle'[d][merge.by] = Idle
      /\ \A e \in Devices : \A y \in Cycles :
           e # d \/ y # merge.by => cycle'[e][y] = cycle[e][y]
  <2>1. Idle \in CycleState
    BY CycleStates
  <2>2. cycle' = [cycle EXCEPT ![d][merge.by] = Idle]
    BY <1>1 DEF EndCycle
  <2>. HIDE DEF d
  <2>. QED  BY <1>0, <1>2, <2>1, <2>2 DEF TypeOK
<1>4. NoMerge \in Merge
  BY DEF NoMerge, Merge, FreshDatabase, Database, KioskStates
<1>5. TypeOK'
  BY <1>0, <1>1, <1>2, <1>3, <1>4 DEF TypeOK
<1>6. \A e \in Devices : db[e].cursor \in Nat /\ db[e].cursor <= db'[e].cursor
  <2>1. \A e \in Devices : db[e].cursor \in Nat
    BY <1>0 DEF TypeOK, Database
  <2>2. \A e \in Devices : e = d \/ db'[e] = db[e]
    BY <1>2
  <2>3. \A n \in Nat : n <= n
    OBVIOUS
  <2>. QED  BY <1>2, <2>1, <2>2, <2>3
<1>7. CyclesSound'
  <2>1. ASSUME NEW e \in Devices, NEW c \in Cycles PROVE CycleSound(e, cycle[e][c])'
    <3>1. CASE cycle'[e][c] = Idle
      BY <3>1, CycleStates DEF CycleSound
    <3>2. CASE cycle'[e][c] # Idle
      <4>1. cycle'[e][c] = cycle[e][c]
        BY <1>3, <3>2
      <4>. DEFINE x == cycle[e][c]
      <4>2. CycleSound(e, x)
        BY <1>0 DEF CyclesSound
      <4>3. x \in CycleState /\ Len(cloud) \in Nat
        BY <1>0 DEF TypeOK
      <4>4. x.after \in Nat /\ x.page \in SUBSET Nat
        BY <4>3 DEF CycleState
      <4>5. x.after <= db[e].cursor => x.after <= db'[e].cursor
        BY <1>5, <1>6, <4>4 DEF TypeOK, Database
      <4>6. PageSound(e, x.page) => PageSound(e, x.page)'
        <5>1. db'[e].cursor \in Nat
          BY <1>2 DEF Database
        <5>2. \A p \in x.page : \A q \in 1..p : q \in Nat
          BY <4>4
        <5>3. \A q \in Nat : q <= db[e].cursor => q <= db'[e].cursor
          BY <1>6, <5>1
        <5>4. SUFFICES ASSUME PageSound(e, x.page), NEW p \in x.page
              PROVE  /\ p \in 1..Len(cloud) /\ cloud[p][1] # e
                     /\ \A q \in 1..p : cloud[q][1] = e \/ q \in x.page \/ q <= db'[e].cursor
          BY <1>1, <4>1 DEF PageSound
        <5>. QED  BY <5>2, <5>3, <5>4 DEF PageSound
      <4>. QED  BY <1>1, <4>1, <4>2, <4>5, <4>6, Frame DEF CycleSound
    <3>. QED  BY <3>1, <3>2
  <2>. QED  BY <2>1 DEF CyclesSound
<1>8. StoresSound'
  <2>1. \A id \in merge.store.appended : IsWritten(id)
    BY <1>2 DEF IInv, MergeSound
  <2>2. ASSUME NEW e \in Devices
        PROVE  /\ db'[e].cursor <= Len(cloud)
               /\ db'[e].applied = Read(e, 1..db'[e].cursor)
               /\ \A id \in db'[e].appended : IsWritten(id)
    BY <1>0, <1>2, <2>1 DEF StoresSound
  <2>. QED  BY <1>1, <2>2, Frame DEF StoresSound
<1>9. RequestsClosed' /\ PushedIsInCloud' /\ MergeSound'
  BY <1>1, Frame DEF IInv, RequestsClosed, PushedIsInCloud, MergeSound, NoMerge
<1>10. VersionsWritten'
  <2>1. \A e \in Devices : \A r \in Rows : OldVersion(r, db'[e].row[r])
    BY Committed DEF OldVersion
  <2>2. \A r \in Rows : OldVersion(r, merge'.store.row[r])
    BY <1>1 DEF OldVersion, NoMerge, FreshDatabase
  <2>. QED  BY <1>1, <2>1, <2>2, VersionsFrame DEF IInv
<1>. QED  BY <1>1, <1>5, <1>7, <1>8, <1>9, <1>10, Frame DEF IInv

(* The invariant is inductive.                                             *)
LEMMA StepKeeps == IInv /\ [Next]_vars => IInv'
<1>. SUFFICES ASSUME IInv, [Next]_vars PROVE IInv'
  OBVIOUS
<1>1. ASSUME merge = NoMerge, NEW d \in Devices, LocalWrite(d) PROVE IInv'
  BY <1>1, LocalWriteKeeps
<1>2. ASSUME merge = NoMerge, NEW d \in Devices, NEW c \in Cycles, CycleStep(d, c) PROVE IInv'
  BY <1>2, CycleStepKeeps
<1>3. ASSUME merge = NoMerge, NEW request \in posted, PushArrives(request) PROVE IInv'
  BY <1>3, PushArrivesKeeps
<1>4. CASE MergeStep
  BY <1>4, ApplyOneKeeps, AbortKeeps, CommitKeeps DEF MergeStep
<1>5. ASSUME NEW d \in Devices, Crash(d) PROVE IInv'
  BY <1>5, CrashKeeps
<1>6. CASE UNCHANGED vars
  <2>1. UNCHANGED <<clock, outbox, pushed, cloud, posted, cycle, db, merge>>
    BY <1>6 DEF vars
  <2>2. \A e, x : CycleSound(e, x)' = CycleSound(e, x)
    BY <2>1, Frame DEF CycleSound, PageSound
  <2>3. TypeOK'
    BY <2>1 DEF IInv, TypeOK
  <2>4. RequestsClosed' /\ CyclesSound' /\ StoresSound' /\ PushedIsInCloud'
    BY <2>1, <2>2, Frame
       DEF IInv, RequestsClosed, CyclesSound, StoresSound, PushedIsInCloud
  <2>5. MergeSound'
    BY <2>1, Frame DEF IInv, MergeSound
  <2>6. VersionsWritten'
    BY <2>1, VersionsStay DEF IInv
  <2>. QED  BY <2>1, <2>3, <2>4, <2>5, <2>6, Frame DEF IInv
<1>. QED  BY <1>1, <1>2, <1>3, <1>4, <1>5, <1>6 DEF Next

(* The inductive invariant holds: the state described at the top of this   *)
(* module survives local writes, lost acknowledgements, requests that      *)
(* arrive late, cycles that overlap, pages rolled back and crashes.        *)
THEOREM InvariantHolds == Spec => []IInv
<1>1. Init => IInv
  BY InitSound
<1>2. IInv /\ [Next]_vars => IInv'
  BY StepKeeps
<1>. QED  BY <1>1, <1>2, PTL DEF Spec

(* The types of the eight variables.                                       *)
THEOREM TypeCorrect == Spec => []TypeOK
<1>1. IInv => TypeOK
  BY DEF IInv
<1>. QED  BY <1>1, InvariantHolds, PTL

(* An outbox row with a pushed_at is in the cloud.                         *)
THEOREM PushedReachesTheCloud == Spec => []PushedIsInCloud
<1>1. IInv => PushedIsInCloud
  BY DEF IInv
<1>. QED  BY <1>1, InvariantHolds, PTL

(* The cloud holds the writes of each device once, without a gap and in    *)
(* order.                                                                  *)
THEOREM CloudKeepsOrder == Spec => []CloudIsOrdered
<1>1. IInv => CloudIsOrdered
  BY DEF IInv
<1>. QED  BY <1>1, InvariantHolds, PTL

(* No pull cursor passes an event its device has not applied.              *)
THEOREM NothingIsSkipped == Spec => []NothingSkipped
<1>1. ASSUME IInv, NEW d \in Devices, NEW p \in 1..Len(cloud), p <= db[d].cursor
      PROVE  cloud[p][1] = d \/ cloud[p] \in db[d].applied
  <2>1. db[d].applied = Read(d, 1..db[d].cursor)
    BY <1>1 DEF IInv, StoresSound
  <2>2. db[d].cursor \in Nat
    BY <1>1 DEF IInv, TypeOK, Database
  <2>3. p \in 1..db[d].cursor
    BY <1>1, <2>2
  <2>. QED  BY <2>1, <2>3 DEF Read
<1>2. IInv => NothingSkipped
  BY <1>1 DEF NothingSkipped
<1>. QED  BY <1>2, InvariantHolds, PTL

-----------------------------------------------------------------------------
(* The refinement *)

HistoryKnown == [d \in Devices |-> Knows(d)]
HistoryBasis == [d \in Devices |-> [n \in 1..Len(outbox[d]) |-> KnownBefore(<<d, n>>)]]

(* A step that leaves the outboxes and what has been applied alone, and at *)
(* most adds to the cloud, is a stutter of the history.                    *)
LEMMA Stutters ==
  ASSUME IInv, UNCHANGED outbox,
         Len(cloud') \in Nat, Len(cloud) <= Len(cloud'),
         \A p \in 1..Len(cloud) : cloud'[p] = cloud[p],
         \A d \in Devices : db'[d].applied = db[d].applied
  PROVE  UNCHANGED History!vars
<1>1. \A d \in Devices : Knows(d)' = Knows(d)
  BY DEF Knows, Written
<1>2. ASSUME NEW d \in Devices, NEW n \in 1..Len(outbox[d])
      PROVE  KnownBefore(<<d, n>>)' = KnownBefore(<<d, n>>)
  <2>. DEFINE saw == outbox[d][n].saw
  <2>1. saw \in Nat /\ saw <= Len(cloud) /\ Len(cloud) \in Nat
    <3>1. outbox[d] \in Seq(Write) /\ Len(cloud) \in Nat
      BY DEF IInv, TypeOK
    <3>2. outbox[d][n] \in Write
      BY <3>1
    <3>. QED  BY <3>1, <3>2 DEF IInv, WritesSound, Write
  <2>2. WriteOf(<<d, n>>).saw = saw /\ WriteOf(<<d, n>>)'.saw = saw
    BY DEF WriteOf
  <2>. HIDE DEF saw
  <2>3. \A q \in 1..saw : cloud'[q] = cloud[q]
    BY <2>1
  <2>. QED  BY <2>2, <2>3 DEF KnownBefore
<1>3. UNCHANGED HistoryKnown
  BY <1>1 DEF HistoryKnown
<1>4. UNCHANGED HistoryBasis
  BY <1>2 DEF HistoryBasis
<1>. QED  BY <1>3, <1>4 DEF History!vars, HistoryKnown, HistoryBasis

(* A sequence given by its length and its members.                         *)
LEMMA Snoc ==
  ASSUME NEW S, NEW n \in Nat, NEW s, NEW t, NEW x \in S,
         s \in [1..n -> S], t \in [1..n + 1 -> S],
         \A i \in 1..n : t[i] = s[i], t[n + 1] = x
  PROVE  Len(s) = n /\ t = Append(s, x)
<1>1. n + 1 \in Nat
  OBVIOUS
<1>2. s \in Seq(S) /\ t \in Seq(S)
  BY <1>1, SeqDef
<1>3. DOMAIN s = 1..n /\ DOMAIN t = 1..n + 1
  OBVIOUS
<1>4. Len(s) = n /\ Len(t) = n + 1
  BY <1>1, <1>2, <1>3
<1>5. /\ Append(s, x) \in Seq(S)
      /\ Len(Append(s, x)) = n + 1
      /\ \A i \in 1..n : Append(s, x)[i] = s[i]
      /\ Append(s, x)[n + 1] = x
  BY <1>2, <1>4, AppendProperties
<1>6. \A i \in 1..Len(t) : t[i] = Append(s, x)[i]
  BY <1>4, <1>5
<1>7. Len(t) = Len(Append(s, x))
  BY <1>4, <1>5
<1>8. t = Append(s, x)
  BY <1>2, <1>5, <1>6, <1>7, SeqEqual
<1>. QED  BY <1>4, <1>8

(* What the newest write may refer to is what its device knows: all it     *)
(* wrote, and what it has applied is what lies before its cursor.          *)
LEMMA WriteImplements ==
  ASSUME IInv, NEW d \in Devices, NEW w, w.saw = db[d].cursor,
         Grows(d, w), UNCHANGED cloud,
         \A e \in Devices : db'[e].applied = db[e].applied
  PROVE  History!Write(d)
<1>. DEFINE L == Len(outbox[d])
<1>1. L \in Nat /\ db[d].cursor \in Nat /\ Len(cloud) \in Nat
  BY DEF IInv, TypeOK, Database
<1>2. /\ \A e \in Devices \ {d} : outbox'[e] = outbox[e]
      /\ Len(outbox'[d]) = L + 1
      /\ \A n \in 1..L : outbox'[d][n] = outbox[d][n]
      /\ outbox'[d][L + 1].saw = db[d].cursor
  BY DEF Grows
<1>. HIDE DEF L
<1>3. \A e \in Devices \ {d} : Knows(e)' = Knows(e)
  BY <1>2 DEF Knows, Written
<1>4. Knows(d)' = Knows(d) \union {<<d, L + 1>>}
  <2>1. 1..L + 1 = 1..L \union {L + 1}
    BY <1>1
  <2>2. {<<d, n>> : n \in 1..L + 1} = {<<d, n>> : n \in 1..L} \union {<<d, L + 1>>}
    BY <2>1
  <2>. QED  BY <1>2, <2>2 DEF Knows, Written, L
<1>5. \A e \in Devices \ {d} : \A n \in 1..Len(outbox[e]) :
        KnownBefore(<<e, n>>)' = KnownBefore(<<e, n>>)
  BY <1>2 DEF KnownBefore, WriteOf
<1>6. \A n \in 1..L : KnownBefore(<<d, n>>)' = KnownBefore(<<d, n>>)
  BY <1>2 DEF KnownBefore, WriteOf
<1>7. \A n : n = L + 1 => KnownBefore(<<d, n>>)' = Knows(d)
  <2>1. db[d].applied = Read(d, 1..db[d].cursor)
    BY DEF IInv, StoresSound
  <2>2. (L + 1) - 1 = L
    BY <1>1
  <2>. QED  BY <1>2, <2>1, <2>2 DEF KnownBefore, WriteOf, Knows, Written, Read, L
<1>. DEFINE s == HistoryBasis[d]
            t == [n \in 1..L + 1 |-> KnownBefore(<<d, n>>)']
            S == {KnownBefore(<<d, n>>)' : n \in 1..L + 1}
<1>8. s = [n \in 1..L |-> KnownBefore(<<d, n>>)]
  BY DEF HistoryBasis, L
<1>9. L + 1 \in 1..L + 1 /\ \A n \in 1..L : n \in 1..L + 1
  BY <1>1
<1>10. t \in [1..L + 1 -> S] /\ s \in [1..L -> S] /\ Knows(d) \in S
  <2>1. t \in [1..L + 1 -> S]
    OBVIOUS
  <2>2. s \in [1..L -> S]
    BY <1>6, <1>8, <1>9
  <2>3. Knows(d) \in S
    BY <1>7, <1>9
  <2>. QED  BY <2>1, <2>2, <2>3
<1>11. \A i \in 1..L : t[i] = s[i]
  BY <1>6, <1>8, <1>9
<1>12. t[L + 1] = Knows(d)
  BY <1>7, <1>9
<1>13. HistoryBasis'[d] = t
  BY <1>2 DEF HistoryBasis
<1>. HIDE DEF s, t, S
<1>14. Len(s) = L /\ t = Append(s, Knows(d))
  BY <1>1, <1>10, <1>11, <1>12, Snoc
<1>15. \A e \in Devices \ {d} : HistoryBasis'[e] = HistoryBasis[e]
  BY <1>2, <1>5 DEF HistoryBasis
<1>16. HistoryKnown' =
         [HistoryKnown EXCEPT ![d] = HistoryKnown[d] \union {<<d, Len(HistoryBasis[d]) + 1>>}]
  BY <1>3, <1>4, <1>14 DEF HistoryKnown, s
<1>17. HistoryBasis' = [HistoryBasis EXCEPT ![d] = Append(HistoryBasis[d], HistoryKnown[d])]
  <2>1. HistoryKnown[d] = Knows(d)
    BY DEF HistoryKnown
  <2>2. HistoryBasis'[d] = Append(HistoryBasis[d], HistoryKnown[d])
    BY <1>13, <1>14, <2>1 DEF s
  <2>. DEFINE A == Append(HistoryBasis[d], HistoryKnown[d])
  <2>. HIDE DEF A
  <2>3. HistoryBasis'[d] = A
    BY <2>2 DEF A
  <2>4. HistoryBasis' = [HistoryBasis EXCEPT ![d] = A]
    <3>1. HistoryBasis = [e \in Devices |-> HistoryBasis[e]]
          /\ HistoryBasis' = [e \in Devices |-> HistoryBasis'[e]]
      BY DEF HistoryBasis
    <3>. QED  BY <1>15, <2>3, <3>1
  <2>. QED  BY <2>4 DEF A
<1>. QED  BY <1>16, <1>17 DEF History!Write, HistoryKnown, HistoryBasis

(* A device that commits a page learns, with every write, of all the       *)
(* write may refer to: its cursor has passed that, too.                    *)
LEMMA CommitImplements ==
  ASSUME IInv, MergeCommits, NEW d \in Devices, d = merge.of
  PROVE  History!Learn(d)
<1>. DEFINE top == db'[d].cursor
<1>1. UNCHANGED <<outbox, cloud>>
  BY DEF MergeCommits
<1>2. /\ \A e \in Devices \ {d} : db'[e] = db[e]
      /\ top \in Nat /\ db[d].cursor <= top /\ top <= Len(cloud)
      /\ db'[d].applied = Read(d, 1..top)
  BY Committed
<1>3. /\ db[d].applied = Read(d, 1..db[d].cursor)
      /\ db[d].cursor \in Nat /\ Len(cloud) \in Nat /\ cloud \in Seq(Ids)
  BY <1>2 DEF IInv, StoresSound, TypeOK, Database
<1>. HIDE DEF top
<1>4. Written(d)' = Written(d)
  BY <1>1 DEF Written
<1>5. Knows(d)' = Written(d) \union Read(d, 1..top)
  BY <1>2, <1>4 DEF Knows
<1>6. Knows(d) \subseteq Knows(d)'
  <2>1. \A q \in 1..db[d].cursor : q \in 1..top
    BY <1>2, <1>3
  <2>. QED  BY <1>3, <1>5, <2>1 DEF Knows, Read
<1>. DEFINE new == Knows(d)' \ Knows(d)
<1>7. ASSUME NEW id \in new
      PROVE  /\ id[1] \in Devices /\ id[2] \in 1..Len(outbox[id[1]])
             /\ id = <<id[1], id[2]>>
             /\ KnownBefore(id) \subseteq Knows(d)'
  <2>1. PICK p \in 1..top : cloud[p] = id /\ id[1] # d
    BY <1>5 DEF Knows, Read
  <2>2. p \in Nat /\ p <= top /\ p \in 1..Len(cloud)
    BY <1>2, <1>3
  <2>3. id \in Ids /\ IsWritten(id) /\ WriteOf(id).saw < p
    BY <1>3, <2>1, <2>2 DEF IInv, CloudSound
  <2>4. id = <<id[1], id[2]>>
    BY <2>3 DEF Ids
  <2>5. WriteOf(id).saw \in Nat
    <3>1. outbox[id[1]] \in Seq(Write)
      BY <2>3 DEF IsWritten, IInv, TypeOK
    <3>2. WriteOf(id) \in Write
      BY <2>3, <3>1 DEF IsWritten, WriteOf
    <3>. QED  BY <3>2 DEF Write
  <2>6. ASSUME NEW m \in 1..id[2] - 1 PROVE <<id[1], m>> \in Knows(d)'
    <3>1. PICK q \in 1..p - 1 : cloud[q] = <<id[1], m>>
      BY <2>1, <2>2 DEF IInv, CloudIsOrdered
    <3>2. q \in 1..top
      BY <1>2, <2>2
    <3>. QED  BY <1>5, <2>1, <3>1, <3>2 DEF Read
  <2>7. ASSUME NEW q \in 1..WriteOf(id).saw PROVE cloud[q] \in Knows(d)'
    <3>1. q \in 1..top /\ q \in 1..Len(cloud)
      BY <1>2, <1>3, <2>2, <2>3, <2>5
    <3>2. CASE cloud[q][1] # d
      BY <1>5, <3>1, <3>2 DEF Read
    <3>3. CASE cloud[q][1] = d
      <4>1. cloud[q] \in Ids /\ IsWritten(cloud[q])
        BY <1>3, <3>1 DEF IInv, CloudSound
      <4>2. cloud[q] = <<cloud[q][1], cloud[q][2]>>
        BY <4>1 DEF Ids
      <4>. QED  BY <1>5, <3>3, <4>1, <4>2 DEF IsWritten, Written
    <3>. QED  BY <3>2, <3>3
  <2>. QED  BY <2>3, <2>4, <2>6, <2>7 DEF IsWritten, KnownBefore
<1>. HIDE DEF new
<1>8. \A e \in Devices : Len(HistoryBasis[e]) = Len(outbox[e])
  <2>1. ASSUME NEW e \in Devices PROVE Len(HistoryBasis[e]) = Len(outbox[e])
    <3>1. Len(outbox[e]) \in Nat
      BY DEF IInv, TypeOK
    <3>. DEFINE s == [n \in 1..Len(outbox[e]) |-> KnownBefore(<<e, n>>)]
                S == {KnownBefore(<<e, n>>) : n \in 1..Len(outbox[e])}
    <3>2. s \in [1..Len(outbox[e]) -> S] /\ DOMAIN s = 1..Len(outbox[e])
      OBVIOUS
    <3>3. HistoryBasis[e] = s
      BY DEF HistoryBasis
    <3>. HIDE DEF s, S
    <3>4. s \in Seq(S)
      BY <3>1, <3>2, SeqDef
    <3>5. Len(s) \in Nat /\ DOMAIN s = 1..Len(s)
      BY <3>4, LenProperties
    <3>6. Len(s) = Len(outbox[e])
      BY <3>1, <3>2, <3>5
    <3>. QED  BY <3>3, <3>6
  <2>. QED  BY <2>1
<1>9. HistoryBasis' = HistoryBasis
  <2>1. \A id : KnownBefore(id)' = KnownBefore(id)
    BY <1>1 DEF KnownBefore, WriteOf
  <2>. QED  BY <1>1, <2>1 DEF HistoryBasis
<1>10. HistoryKnown' = [HistoryKnown EXCEPT ![d] = HistoryKnown[d] \union new]
  <2>1. \A e \in Devices \ {d} : Knows(e)' = Knows(e)
    BY <1>1, <1>2 DEF Knows, Written
  <2>2. Knows(d)' = Knows(d) \union new
    BY <1>6 DEF new
  <2>. QED  BY <2>1, <2>2 DEF HistoryKnown
<1>11. \A id \in new :
         /\ id \in UNION {{<<e, n>> : n \in 1..Len(HistoryBasis[e])} : e \in Devices}
         /\ id \notin HistoryKnown[d]
         /\ HistoryBasis[id[1]][id[2]] \subseteq HistoryKnown[d] \union new
  <2>1. ASSUME NEW id \in new
        PROVE  /\ id \in UNION {{<<e, n>> : n \in 1..Len(HistoryBasis[e])} : e \in Devices}
               /\ id \notin HistoryKnown[d]
               /\ HistoryBasis[id[1]][id[2]] \subseteq HistoryKnown[d] \union new
    <3>1. /\ id[1] \in Devices /\ id[2] \in 1..Len(outbox[id[1]])
          /\ id = <<id[1], id[2]>>
          /\ KnownBefore(id) \subseteq Knows(d)'
      BY <1>7
    <3>2. HistoryKnown[d] = Knows(d)
      BY <1>2 DEF HistoryKnown
    <3>3. id \notin HistoryKnown[d]
      BY <3>2 DEF new
    <3>4. HistoryBasis[id[1]][id[2]] = KnownBefore(<<id[1], id[2]>>)
      BY <3>1 DEF HistoryBasis
    <3>5. KnownBefore(<<id[1], id[2]>>) = KnownBefore(id)
      BY <3>1
    <3>6. Knows(d)' = HistoryKnown[d] \union new
      BY <1>6, <3>2 DEF new
    <3>7. id \in {<<id[1], n>> : n \in 1..Len(HistoryBasis[id[1]])}
      BY <1>8, <3>1
    <3>. QED  BY <3>1, <3>3, <3>4, <3>5, <3>6, <3>7
  <2>. QED  BY <2>1
<1>12. \E x \in SUBSET ((UNION {{<<e, n>> : n \in 1..Len(HistoryBasis[e])} : e \in Devices})
                         \ HistoryKnown[d]) :
         /\ \A id \in x : HistoryBasis[id[1]][id[2]] \subseteq HistoryKnown[d] \union x
         /\ HistoryKnown' = [HistoryKnown EXCEPT ![d] = HistoryKnown[d] \union x]
  <2>1. new \in SUBSET ((UNION {{<<e, n>> : n \in 1..Len(HistoryBasis[e])} : e \in Devices})
                        \ HistoryKnown[d])
    BY <1>11
  <2>2. \A id \in new : HistoryBasis[id[1]][id[2]] \subseteq HistoryKnown[d] \union new
    BY <1>11
  <2>. QED  BY <1>10, <2>1, <2>2
<1>. QED  BY <1>9, <1>12
          DEF History!Learn, History!Everything, HistoryKnown, HistoryBasis

(* A local write is a write of the history, or no step of it.              *)
LEMMA LocalWriteImplements ==
  ASSUME IInv, NEW d \in Devices, LocalWrite(d)
  PROVE  History!Write(d) \/ UNCHANGED History!vars
<1>0. TypeOK /\ StoresSound /\ WritesSound
  BY DEF IInv
<1>1. ASSUME NEW w, WriteSound(d, w), Enqueue(d, w), Edited(d)
      PROVE  History!Write(d)
  <2>1. Grows(d, w)
    BY <1>0, <1>1, Enqueued DEF WriteSound
  <2>2. \A e \in Devices : db'[e].applied = db[e].applied
    BY <1>0, <1>1, EditedDatabase
  <2>3. UNCHANGED cloud
    BY <1>1 DEF Enqueue
  <2>. QED  BY <1>1, <2>1, <2>2, <2>3, WriteImplements DEF WriteSound
<1>2. ASSUME NEW k \in Kiosks, KioskCutOff(d, k) PROVE UNCHANGED History!vars
  <2>1. Edited(d)
    BY <1>2 DEF KioskCutOff, Edited, KioskStates
  <2>2. \A e \in Devices : db'[e].applied = db[e].applied
    BY <1>0, <2>1, EditedDatabase
  <2>3. UNCHANGED <<outbox, cloud>>
    BY <1>2 DEF KioskCutOff
  <2>4. Len(cloud) \in Nat
    BY <1>0 DEF TypeOK
  <2>. QED  BY <2>2, <2>3, <2>4, Stutters
<1>. QED  BY <1>1, <1>2, LocalWriteForms

(* Every step of the sync is a step of the history or leaves it alone.     *)
LEMMA HistoryStep == IInv /\ [Next]_vars => [History!Next]_History!vars
<1>. SUFFICES ASSUME IInv, [Next]_vars PROVE History!Next \/ UNCHANGED History!vars
  OBVIOUS
<1>0. Len(cloud) \in Nat
  BY DEF IInv, TypeOK
<1>1. ASSUME NEW d \in Devices, LocalWrite(d)
      PROVE  History!Next \/ UNCHANGED History!vars
  BY <1>1, LocalWriteImplements DEF History!Next
<1>2. ASSUME UNCHANGED <<outbox, cloud, db>> PROVE UNCHANGED History!vars
  BY <1>0, <1>2, Stutters
<1>3. ASSUME NEW d \in Devices, NEW c \in Cycles, CycleStep(d, c)
      PROVE  UNCHANGED <<outbox, cloud, db>>
  BY <1>3 DEF CycleStep, StartCycle, PushAcknowledged, PushFails, ListArrives, PullFails, BeginMerge
<1>4. ASSUME NEW request \in posted, PushArrives(request) PROVE UNCHANGED History!vars
  <2>1. /\ Len(cloud') \in Nat /\ Len(cloud) <= Len(cloud')
        /\ \A p \in 1..Len(cloud) : cloud'[p] = cloud[p]
    BY <1>4, CloudExtends
  <2>2. UNCHANGED <<outbox, db>>
    BY <1>4 DEF PushArrives
  <2>. QED  BY <2>1, <2>2, Stutters
<1>5. CASE ApplyOne \/ MergeAborts \/ \E d \in Devices : Crash(d)
  BY <1>2, <1>5 DEF ApplyOne, MergeAborts, Crash
<1>6. CASE MergeCommits
  <2>1. merge.of \in Devices
    BY <1>6, Committed
  <2>2. PICK d \in Devices : d = merge.of
    BY <2>1
  <2>. QED  BY <1>6, <2>2, CommitImplements DEF History!Next
<1>7. CASE UNCHANGED vars
  BY <1>2, <1>7 DEF vars
<1>. QED  BY <1>1, <1>2, <1>3, <1>4, <1>5, <1>6, <1>7 DEF Next, MergeStep

(* The sync implements SharedHistory: whatever is pulled, lost, repeated,  *)
(* rolled back or cut off, no device learns of a sale before the product   *)
(* and the customer it refers to.                                          *)
THEOREM CausalOrderIsKept == Spec => KeepsCausalOrder
<1>1. Init => History!Init
  <2>. SUFFICES ASSUME Init PROVE History!Init
    OBVIOUS
  <2>2. \A d \in Devices : Knows(d) = {}
    <3>1. \A d \in Devices : Len(outbox[d]) = 0 /\ db[d].applied = {}
      BY DEF Init, FreshDatabase
    <3>. QED  BY <3>1 DEF Knows, Written
  <2>3. \A d \in Devices : [n \in 1..Len(outbox[d]) |-> KnownBefore(<<d, n>>)] = <<>>
    <3>1. \A d \in Devices : Len(outbox[d]) = 0
      BY DEF Init
    <3>. QED  BY <3>1
  <2>. QED  BY <2>2, <2>3 DEF History!Init
<1>2. IInv /\ [Next]_vars => [History!Next]_History!vars
  BY HistoryStep
<1>. QED  BY <1>1, <1>2, InvariantHolds, PTL DEF Spec, History!Spec, KeepsCausalOrder

-----------------------------------------------------------------------------
(***************************************************************************)
(* The rows that several devices edit: where the clocks of the devices     *)
(* agree and no two writes carry one time stamp, the order in which writes *)
(* are pulled does not matter.                                             *)
(*                                                                         *)
(* Both assumptions are needed.  With a tie, or a clock that is ahead, a   *)
(* local edit replaces a version that is as new or newer, and the devices  *)
(* keep different versions.                                                *)
(***************************************************************************)
ClocksAgree == SameInstant = FALSE /\ \A d \in Devices : Skew[d] = 0

-----------------------------------------------------------------------------
(* What is said of outboxes, stores and sets of writes, whatever their     *)
(* state.                                                                  *)

Of(box, id) == box[id[1]][id[2]]
Stamp(box, id) == IF id = Initially THEN 0 ELSE Of(box, id).stamp
Edits(box, r, id) == Of(box, id).kind = "edit" /\ Of(box, id).on = r

(* An event that is in the outboxes, and one that made a version: an edit  *)
(* that carries itself, where an announcement carries an older one.        *)
InBox(box, id) == id \in Ids /\ id[2] \in 1..Len(box[id[1]])
MadeVersion(box, r, v) ==
  InBox(box, v) /\ Edits(box, r, v) /\ Of(box, v).version = v

(* A version of a row: the one all started with, or one that was made.     *)
VersionOf(box, r, v) == v = Initially \/ MadeVersion(box, r, v)

(* A version is older than the time, and no two of a row carry one stamp;  *)
(* every edit or announcement carries a version with its stamp.            *)
VersionsSound(box, now) ==
  \A r \in Rows :
    /\ \A v : MadeVersion(box, r, v) => Of(box, v).stamp \in 1..now - 1
    /\ \A u, v : MadeVersion(box, r, u) /\ MadeVersion(box, r, v)
                 /\ Of(box, u).stamp = Of(box, v).stamp => u = v
    /\ \A id : InBox(box, id) /\ Edits(box, r, id) =>
         /\ VersionOf(box, r, Of(box, id).version)
         /\ Of(box, id).stamp = Stamp(box, Of(box, id).version)

(* What a database shows, given the events its device knows: of each row   *)
(* the newest version they carry or, without any, the one all started      *)
(* with; and of what it applied every numbered row, and no kiosk that was  *)
(* revoked.                                                                *)
Newest(box, row, known) ==
  \A r \in Rows :
    /\ VersionOf(box, r, row[r])
    /\ row[r] # Initially =>
         \E id \in known : Edits(box, r, id) /\ Of(box, id).version = row[r]
    /\ \A id \in known : Edits(box, r, id) => Of(box, id).stamp <= Stamp(box, row[r])

TookEffect(box, store) ==
  \A id \in store.applied :
    /\ Of(box, id).kind = "append" => id \in store.appended
    /\ Of(box, id).kind = "revoke" => store.kiosk[Of(box, id).on] = "revoked"

Shows(box, store, known) == Newest(box, store.row, known) /\ TookEffect(box, store)

TInv ==
  /\ clock > 0
  /\ VersionsSound(outbox, clock)
  /\ \A d \in Devices : Shows(outbox, db[d], Knows(d))
  /\ merge # NoMerge =>
       Shows(outbox, merge.store, Written(merge.of) \union merge.store.applied)

(* An outbox that grows says of the writes that were in it what it said.   *)
Continues(box, box2) ==
  \A id : InBox(box, id) => InBox(box2, id) /\ Of(box2, id) = Of(box, id)

LEMMA VersionsContinue ==
  ASSUME NEW box, NEW box2, Continues(box, box2), NEW r, NEW v, VersionOf(box, r, v)
  PROVE  VersionOf(box2, r, v) /\ Stamp(box2, v) = Stamp(box, v)
BY DEF Continues, VersionOf, MadeVersion, Edits, Stamp

LEMMA ShowsFrame ==
  ASSUME NEW box, NEW box2, NEW store, NEW known, Shows(box, store, known),
         Continues(box, box2), \A id \in known : InBox(box, id),
         store.applied \subseteq known
  PROVE  Shows(box2, store, known)
<1>1. \A id \in known : Of(box2, id) = Of(box, id)
  BY DEF Continues
<1>2. Newest(box, store.row, known) /\ TookEffect(box, store)
  BY DEF Shows
<1>3. \A r \in Rows : /\ VersionOf(box2, r, store.row[r])
                     /\ Stamp(box2, store.row[r]) = Stamp(box, store.row[r])
  BY <1>2, VersionsContinue DEF Newest
<1>4. Newest(box2, store.row, known)
  BY <1>1, <1>2, <1>3 DEF Newest, Edits
<1>5. TookEffect(box2, store)
  BY <1>1, <1>2 DEF TookEffect
<1>. QED  BY <1>4, <1>5 DEF Shows

(* A write that edits no row changes no newest version.                    *)
LEMMA ShowsWrite ==
  ASSUME NEW box, NEW store, NEW known, NEW x, Shows(box, store, known),
         Of(box, x).kind # "edit"
  PROVE  Shows(box, store, known \union {x})
BY DEF Shows, Newest, Edits

(* Numbered rows are added, and revoked kiosks stay revoked.               *)
LEMMA ShowsMore ==
  ASSUME NEW box, NEW store, NEW store2, NEW known, Shows(box, store, known),
         store2.row = store.row, store2.applied = store.applied,
         store.appended \subseteq store2.appended,
         \A id \in store.applied : Of(box, id).kind = "revoke" => Of(box, id).on \in Kiosks,
         \A k \in Kiosks : store.kiosk[k] = "revoked" => store2.kiosk[k] = "revoked"
  PROVE  Shows(box, store2, known)
BY DEF Shows, Newest, TookEffect

(* The version of an edit that is as new as that of its row, or newer,     *)
(* takes its place.                                                        *)
LEMMA NewestEdit ==
  ASSUME NEW box, NEW row, NEW row2, NEW known, NEW x, NEW r \in Rows,
         Newest(box, row, known), Edits(box, r, x),
         row2[r] = Of(box, x).version, \A q \in Rows : q # r => row2[q] = row[q],
         VersionOf(box, r, row2[r]), Of(box, x).stamp = Stamp(box, row2[r]),
         Stamp(box, row2[r]) \in Nat, Stamp(box, row[r]) \in Nat,
         Stamp(box, row[r]) <= Stamp(box, row2[r]),
         \A id \in known : Edits(box, r, id) => Of(box, id).stamp \in Nat
  PROVE  Newest(box, row2, known \union {x})
<1>1. ASSUME NEW id \in known, Edits(box, r, id)
      PROVE  Of(box, id).stamp <= Stamp(box, row2[r])
  <2>1. Of(box, id).stamp <= Stamp(box, row[r])
    BY <1>1 DEF Newest
  <2>. QED  BY <1>1, <2>1
<1>2. Of(box, x).stamp <= Stamp(box, row2[r])
  OBVIOUS
<1>3. \A q \in Rows : q # r => ~Edits(box, q, x)
  BY DEF Edits
<1>4. /\ VersionOf(box, r, row2[r])
      /\ \E id \in known \union {x} : Edits(box, r, id) /\ Of(box, id).version = row2[r]
      /\ \A id \in known \union {x} : Edits(box, r, id) => Of(box, id).stamp <= Stamp(box, row2[r])
  BY <1>1, <1>2
<1>5. ASSUME NEW q \in Rows, q # r
      PROVE  /\ VersionOf(box, q, row2[q])
             /\ row2[q] # Initially =>
                  \E id \in known \union {x} : Edits(box, q, id) /\ Of(box, id).version = row2[q]
             /\ \A id \in known \union {x} : Edits(box, q, id) => Of(box, id).stamp <= Stamp(box, row2[q])
  BY <1>3, <1>5 DEF Newest
<1>. QED  BY <1>4, <1>5 DEF Newest

-----------------------------------------------------------------------------
(* What the invariant of the sync gives *)

(* A device knows only what was written.                                   *)
LEMMA KnownIsWritten ==
  ASSUME IInv, NEW d \in Devices, NEW id \in Knows(d)
  PROVE  IsWritten(id) /\ id \in Ids /\ InBox(outbox, id)
<1>. SUFFICES id \in Ids /\ IsWritten(id)
  BY DEF InBox, IsWritten
<1>1. /\ db[d].applied = Read(d, 1..db[d].cursor)
      /\ db[d].cursor <= Len(cloud) /\ db[d].cursor \in Nat /\ Len(cloud) \in Nat
      /\ cloud \in Seq(Ids) /\ Len(outbox[d]) \in Nat
  BY DEF IInv, StoresSound, TypeOK, Database
<1>2. CASE id \in Written(d)
  BY <1>1, <1>2 DEF Written, IsWritten, Ids
<1>3. CASE id \in db[d].applied
  <2>1. PICK p \in 1..db[d].cursor : id = cloud[p]
    BY <1>1, <1>3 DEF Read
  <2>2. p \in 1..Len(cloud)
    BY <1>1
  <2>. QED  BY <1>1, <2>1, <2>2 DEF IInv, CloudSound
<1>. QED  BY <1>2, <1>3 DEF Knows

(* What is in an outbox is a write, and no initial version.                *)
LEMMA InBoxIsWritten ==
  ASSUME IInv, NEW id, InBox(outbox, id)
  PROVE  IsWritten(id) /\ id # Initially /\ Of(outbox, id) \in Write /\ id[1] \in Devices
<1>1. id[1] \in Devices /\ id = <<id[1], id[2]>> /\ id[2] \in 1..Len(outbox[id[1]])
  BY DEF InBox, Ids
<1>2. id # Initially
  BY <1>1 DEF Initially
<1>3. outbox[id[1]] \in Seq(Write)
  BY <1>1 DEF IInv, TypeOK
<1>4. Of(outbox, id) \in Write
  BY <1>1, <1>3 DEF Of
<1>. QED  BY <1>1, <1>2, <1>4 DEF IsWritten

(* The time stamp of a version is a number before the present, and zero    *)
(* only for the version all started with.                                  *)
LEMMA StampsAreTimes ==
  ASSUME IInv, VersionsSound(outbox, clock), clock > 0,
         NEW r \in Rows, NEW v, VersionOf(outbox, r, v)
  PROVE  /\ Stamp(outbox, v) \in Nat /\ Stamp(outbox, v) < clock
         /\ v # Initially => Stamp(outbox, v) > 0 /\ Stamp(outbox, v) = Of(outbox, v).stamp
<1>1. clock \in Nat
  BY DEF IInv, TypeOK
<1>2. CASE v = Initially
  BY <1>1, <1>2 DEF Stamp
<1>3. CASE v # Initially
  <2>1. Of(outbox, v).stamp \in 1..clock - 1
    BY <1>3 DEF VersionOf, VersionsSound
  <2>. QED  BY <1>1, <1>3, <2>1 DEF Stamp
<1>. QED  BY <1>2, <1>3

-----------------------------------------------------------------------------
(* Local writes *)

(* An edit carries a version it makes, newer than every other, or the one  *)
(* its device shows.                                                       *)
CarriesVersion(d, w) ==
  w.kind = "edit" =>
    /\ w.on \in Rows
    /\ \/ w.version = NextId(d) /\ w.stamp = clock
       \/ w.version = db[d].row[w.on] /\ w.stamp = StampOf(db[d].row[w.on])

(* A write adds one event to those that were written, and changes none.    *)
LEMMA WriteIsAdded ==
  ASSUME ClocksAgree, IInv, TInv, NEW d \in Devices, NEW w \in Write, Enqueue(d, w)
  PROVE  /\ clock \in Nat /\ clock' = clock + 1
         /\ Continues(outbox, outbox')
         /\ \A id : InBox(outbox', id) => InBox(outbox, id) \/ id = NextId(d)
         /\ InBox(outbox', NextId(d)) /\ ~InBox(outbox, NextId(d))
         /\ Of(outbox', NextId(d)) = w
         /\ NextId(d) # Initially
         /\ Written(d)' = Written(d) \union {NextId(d)}
         /\ \A e \in Devices \ {d} : Written(e)' = Written(e)
<1>. DEFINE L == Len(outbox[d])
<1>1. Grows(d, w)
  BY Enqueued DEF IInv
<1>2. clock \in Nat /\ L \in Nat /\ \A e \in Devices : Len(outbox[e]) \in Nat
  BY DEF IInv, TypeOK
<1>3. clock' = clock + 1
  BY <1>2 DEF Enqueue, ClocksAgree
<1>4. /\ \A e \in Devices \ {d} : outbox'[e] = outbox[e]
      /\ Len(outbox'[d]) = L + 1
      /\ \A n \in 1..L : outbox'[d][n] = outbox[d][n]
      /\ outbox'[d][L + 1] = w
  BY <1>1 DEF Grows
<1>5. /\ NextId(d)[1] = d /\ NextId(d)[2] = L + 1
      /\ NextId(d) # Initially /\ NextId(d) \in Ids
  BY <1>2 DEF NextId, Initially, Ids
<1>6. \A id : InBox(outbox, id) => InBox(outbox', id) /\ Of(outbox', id) = Of(outbox, id)
  <2>1. \A n \in 1..L : n \in 1..L + 1
    BY <1>2
  <2>2. ASSUME NEW id, InBox(outbox, id)
        PROVE  InBox(outbox', id) /\ Of(outbox', id) = Of(outbox, id)
    <3>1. id \in Ids /\ id[1] \in Devices /\ id[2] \in 1..Len(outbox[id[1]])
      BY <2>2 DEF InBox, Ids
    <3>2. CASE id[1] = d
      BY <1>4, <2>1, <3>1, <3>2 DEF InBox, Of
    <3>3. CASE id[1] # d
      BY <1>4, <3>1, <3>3 DEF InBox, Of
    <3>. QED  BY <3>2, <3>3
  <2>. QED  BY <2>2
<1>7. \A id : InBox(outbox', id) => InBox(outbox, id) \/ id = NextId(d)
  <2>1. ASSUME NEW id, InBox(outbox', id), ~InBox(outbox, id) PROVE id = NextId(d)
    <3>1. id \in Ids /\ id[1] \in Devices /\ id[2] \in 1..Len(outbox'[id[1]])
          /\ id = <<id[1], id[2]>> /\ id[2] \in Nat
      BY <2>1 DEF InBox, Ids
    <3>2. id[1] = d
      BY <1>4, <2>1, <3>1 DEF InBox
    <3>3. id[2] = L + 1
      BY <1>2, <1>4, <2>1, <3>1, <3>2 DEF InBox
    <3>. QED  BY <3>1, <3>2, <3>3 DEF NextId
  <2>. QED  BY <2>1
<1>8. InBox(outbox', NextId(d)) /\ ~InBox(outbox, NextId(d))
  BY <1>2, <1>4, <1>5 DEF InBox
<1>9. Of(outbox', NextId(d)) = w
  BY <1>4, <1>5 DEF Of
<1>10. Written(d)' = Written(d) \union {NextId(d)}
  <2>1. 1..L + 1 = 1..L \union {L + 1}
    BY <1>2
  <2>2. {<<d, n>> : n \in 1..L + 1} = {<<d, n>> : n \in 1..L} \union {<<d, L + 1>>}
    BY <2>1
  <2>. QED  BY <1>4, <2>2 DEF Written, NextId
<1>11. \A e \in Devices \ {d} : Written(e)' = Written(e)
  BY <1>4 DEF Written
<1>. QED  BY <1>2, <1>3, <1>5, <1>6, <1>7, <1>8, <1>9, <1>10, <1>11 DEF Continues

(* The version an edit carries is one of its row, and has its time stamp.  *)
LEMMA WriteCarries ==
  ASSUME ClocksAgree, IInv, TInv, NEW d \in Devices, NEW w \in Write, Enqueue(d, w),
         CarriesVersion(d, w), w.kind = "edit"
  PROVE  /\ VersionOf(outbox', w.on, w.version)
         /\ w.stamp = Stamp(outbox', w.version)
         /\ Edits(outbox', w.on, NextId(d))
<1>1. /\ Continues(outbox, outbox') /\ InBox(outbox', NextId(d))
      /\ Of(outbox', NextId(d)) = w /\ NextId(d) # Initially
  BY WriteIsAdded
<1>2. Edits(outbox', w.on, NextId(d)) /\ w.on \in Rows
  BY <1>1 DEF Edits, CarriesVersion
<1>3. CASE w.version = NextId(d)
  <2>1. VersionOf(outbox', w.on, w.version)
    BY <1>1, <1>2, <1>3 DEF VersionOf, MadeVersion
  <2>2. w.stamp = Stamp(outbox', w.version)
    BY <1>1, <1>3 DEF Stamp
  <2>. QED  BY <1>2, <2>1, <2>2
<1>4. CASE w.version = db[d].row[w.on] /\ w.stamp = StampOf(db[d].row[w.on])
  <2>1. VersionOf(outbox, w.on, db[d].row[w.on])
    BY <1>2 DEF TInv, Shows, Newest
  <2>2. StampOf(db[d].row[w.on]) = Stamp(outbox, db[d].row[w.on])
    BY DEF StampOf, Stamp, WriteOf, Of
  <2>. QED  BY <1>1, <1>2, <1>4, <2>1, <2>2, VersionsContinue
<1>. QED  BY <1>3, <1>4 DEF CarriesVersion

(* A write keeps the versions apart: the one it makes is newer.            *)
LEMMA WriteKeepsVersions ==
  ASSUME ClocksAgree, IInv, TInv, NEW d \in Devices, NEW w \in Write, Enqueue(d, w),
         CarriesVersion(d, w)
  PROVE  VersionsSound(outbox', clock')
<1>. DEFINE x == NextId(d)
<1>1. /\ clock \in Nat /\ clock' = clock + 1 /\ clock > 0
      /\ Continues(outbox, outbox') /\ ~InBox(outbox, x)
      /\ \A id : InBox(outbox', id) => InBox(outbox, id) \/ id = x
      /\ Of(outbox', x) = w /\ x # Initially
  BY WriteIsAdded DEF TInv
<1>2. VersionsSound(outbox, clock)
  BY DEF TInv
<1>. SUFFICES ASSUME NEW r \in Rows
     PROVE  /\ \A v : MadeVersion(outbox', r, v) => Of(outbox', v).stamp \in 1..clock' - 1
            /\ \A u, v : MadeVersion(outbox', r, u) /\ MadeVersion(outbox', r, v)
                         /\ Of(outbox', u).stamp = Of(outbox', v).stamp => u = v
            /\ \A id : InBox(outbox', id) /\ Edits(outbox', r, id) =>
                 /\ VersionOf(outbox', r, Of(outbox', id).version)
                 /\ Of(outbox', id).stamp = Stamp(outbox', Of(outbox', id).version)
  BY DEF VersionsSound
<1>. HIDE DEF x
<1>3. \A id : InBox(outbox, id) => Of(outbox', id) = Of(outbox, id)
  BY <1>1 DEF Continues
<1>4. ASSUME NEW v, MadeVersion(outbox', r, v)
      PROVE  \/ /\ MadeVersion(outbox, r, v) /\ Of(outbox', v) = Of(outbox, v)
                /\ Of(outbox', v).stamp \in 1..clock - 1
             \/ v = x /\ Of(outbox', v).stamp = clock
  <2>1. InBox(outbox', v) /\ Edits(outbox', r, v) /\ Of(outbox', v).version = v
    BY <1>4 DEF MadeVersion
  <2>2. CASE InBox(outbox, v)
    <3>1. Of(outbox', v) = Of(outbox, v)
      BY <1>3, <2>2
    <3>2. MadeVersion(outbox, r, v)
      BY <2>1, <2>2, <3>1 DEF MadeVersion, Edits
    <3>. QED  BY <1>2, <3>1, <3>2 DEF VersionsSound
  <2>3. CASE v = x
    <3>1. w.kind = "edit" /\ w.on = r /\ w.version = x
      BY <1>1, <2>1, <2>3 DEF Edits
    <3>2. CASE w.version = db[d].row[r]
      <4>1. VersionOf(outbox, r, x)
        BY <3>1, <3>2 DEF TInv, Shows, Newest
      <4>. QED  BY <1>1, <4>1 DEF VersionOf, MadeVersion
    <3>3. CASE w.version # db[d].row[r]
      BY <1>1, <2>3, <3>1, <3>3 DEF CarriesVersion
    <3>. QED  BY <3>2, <3>3
  <2>. QED  BY <1>1, <2>1, <2>2, <2>3
<1>5. clock \in 1..clock' - 1 /\ \A n \in 1..clock - 1 : n \in 1..clock' - 1 /\ n # clock
  BY <1>1
<1>6. \A v : MadeVersion(outbox', r, v) => Of(outbox', v).stamp \in 1..clock' - 1
  BY <1>4, <1>5
<1>7. ASSUME NEW u, NEW v, MadeVersion(outbox', r, u), MadeVersion(outbox', r, v),
             Of(outbox', u).stamp = Of(outbox', v).stamp
      PROVE  u = v
  <2>1. CASE u = x
    BY <1>1, <1>4, <1>5, <1>7, <2>1 DEF MadeVersion
  <2>2. CASE v = x
    BY <1>1, <1>4, <1>5, <1>7, <2>2 DEF MadeVersion
  <2>3. CASE u # x /\ v # x
    <3>1. /\ MadeVersion(outbox, r, u) /\ Of(outbox', u) = Of(outbox, u)
          /\ MadeVersion(outbox, r, v) /\ Of(outbox', v) = Of(outbox, v)
      BY <1>4, <1>7, <2>3
    <3>. QED  BY <1>2, <1>7, <3>1 DEF VersionsSound
  <2>. QED  BY <2>1, <2>2, <2>3
<1>8. ASSUME NEW id, InBox(outbox', id), Edits(outbox', r, id)
      PROVE  /\ VersionOf(outbox', r, Of(outbox', id).version)
             /\ Of(outbox', id).stamp = Stamp(outbox', Of(outbox', id).version)
  <2>1. CASE InBox(outbox, id)
    <3>1. Of(outbox', id) = Of(outbox, id)
      BY <1>3, <2>1
    <3>2. Edits(outbox, r, id)
      BY <1>8, <3>1 DEF Edits
    <3>3. /\ VersionOf(outbox, r, Of(outbox, id).version)
          /\ Of(outbox, id).stamp = Stamp(outbox, Of(outbox, id).version)
      BY <1>2, <2>1, <3>2 DEF VersionsSound
    <3>. QED  BY <1>1, <3>1, <3>3, VersionsContinue
  <2>2. CASE id = x
    <3>1. w.kind = "edit" /\ w.on = r
      BY <1>1, <1>8, <2>2 DEF Edits
    <3>. QED  BY <1>1, <2>2, <3>1, WriteCarries
  <2>. QED  BY <1>1, <1>8, <2>1, <2>2
<1>. QED  BY <1>6, <1>7, <1>8

(* A local write whose database shows what it should, given what the       *)
(* device knows then, keeps the invariant.                                 *)
LEMMA LocalShows ==
  ASSUME ClocksAgree, IInv, TInv, merge = NoMerge, NEW d \in Devices, NEW w \in Write,
         Enqueue(d, w), CarriesVersion(d, w),
         NEW s \in Database, db' = [db EXCEPT ![d] = s], s.applied = db[d].applied,
         Shows(outbox', s, Knows(d) \union {NextId(d)})
  PROVE  TInv'
<1>1. /\ clock \in Nat /\ clock' = clock + 1
      /\ Continues(outbox, outbox')
      /\ Written(d)' = Written(d) \union {NextId(d)}
      /\ \A e \in Devices \ {d} : Written(e)' = Written(e)
  BY WriteIsAdded
<1>2. db \in [Devices -> Database]
  BY DEF IInv, TypeOK
<1>3. db'[d] = s /\ \A e \in Devices \ {d} : db'[e] = db[e]
  BY <1>2
<1>4. Knows(d)' = Knows(d) \union {NextId(d)}
  BY <1>1, <1>3 DEF Knows
<1>5. ASSUME NEW e \in Devices \ {d} PROVE Shows(outbox', db'[e], Knows(e)')
  <2>1. Knows(e)' = Knows(e)
    BY <1>1, <1>3 DEF Knows
  <2>2. \A id \in Knows(e) : InBox(outbox, id)
    BY KnownIsWritten
  <2>3. Shows(outbox, db[e], Knows(e)) /\ db[e].applied \subseteq Knows(e)
    BY DEF TInv, Knows
  <2>4. Shows(outbox', db[e], Knows(e))
    BY <1>1, <2>2, <2>3, ShowsFrame
  <2>. QED  BY <1>3, <2>1, <2>4
<1>6. \A e \in Devices : Shows(outbox', db'[e], Knows(e)')
  BY <1>3, <1>4, <1>5
<1>7. merge' = NoMerge
  BY DEF Enqueue
<1>8. VersionsSound(outbox', clock')
  BY WriteKeepsVersions
<1>9. clock' > 0
  BY <1>1
<1>. QED  BY <1>6, <1>7, <1>8, <1>9 DEF TInv, NoMerge

(* What a device knew it shows as before, whatever it writes.              *)
LEMMA StillShows ==
  ASSUME ClocksAgree, IInv, TInv, NEW d \in Devices, NEW w \in Write, Enqueue(d, w)
  PROVE  Shows(outbox', db[d], Knows(d))
<1>1. Continues(outbox, outbox') /\ \A id \in Knows(d) : InBox(outbox, id)
  BY WriteIsAdded, KnownIsWritten
<1>2. Shows(outbox, db[d], Knows(d)) /\ db[d].applied \subseteq Knows(d)
  BY DEF TInv, Knows
<1>. QED  BY <1>1, <1>2, ShowsFrame

(* An edit of a row, or an announcement of the version it has, keeps the   *)
(* invariant: none is newer.                                               *)
LEMMA EditShows ==
  ASSUME ClocksAgree, IInv, TInv, merge = NoMerge, NEW d \in Devices, NEW w \in Write,
         w.kind = "edit", CarriesVersion(d, w), Enqueue(d, w),
         NEW s \in Database, s.applied = db[d].applied,
         s.appended = db[d].appended, s.kiosk = db[d].kiosk,
         s.row[w.on] = w.version, \A q \in Rows : q # w.on => s.row[q] = db[d].row[q],
         db' = [db EXCEPT ![d] = s]
  PROVE  TInv'
<1>. DEFINE r == w.on
            x == NextId(d)
<1>1. r \in Rows
  BY DEF CarriesVersion
<1>2. /\ clock \in Nat /\ clock' = clock + 1 /\ clock > 0
      /\ Continues(outbox, outbox') /\ Of(outbox', x) = w
  BY WriteIsAdded DEF TInv
<1>3. /\ VersionOf(outbox', r, w.version) /\ w.stamp = Stamp(outbox', w.version)
      /\ Edits(outbox', r, x)
  BY WriteCarries
<1>4. Shows(outbox', db[d], Knows(d))
  BY StillShows
<1>5. VersionsSound(outbox, clock) /\ VersionOf(outbox, r, db[d].row[r])
  BY <1>1 DEF TInv, Shows, Newest
<1>6. /\ Stamp(outbox', db[d].row[r]) = Stamp(outbox, db[d].row[r])
      /\ Stamp(outbox', db[d].row[r]) \in Nat /\ Stamp(outbox', db[d].row[r]) < clock
  BY <1>1, <1>2, <1>5, StampsAreTimes, VersionsContinue
<1>7. w.stamp \in Nat /\ Stamp(outbox', db[d].row[r]) <= w.stamp
  <2>1. StampOf(db[d].row[r]) = Stamp(outbox, db[d].row[r])
    BY DEF StampOf, Stamp, WriteOf, Of
  <2>. QED  BY <1>2, <1>6, <2>1 DEF CarriesVersion
<1>8. \A id \in Knows(d) : Of(outbox', id).stamp \in Nat
  <2>1. ASSUME NEW id \in Knows(d) PROVE Of(outbox', id).stamp \in Nat
    <3>1. Of(outbox', id) = Of(outbox, id) /\ Of(outbox, id) \in Write
      BY <1>2, KnownIsWritten, InBoxIsWritten DEF Continues
    <3>. QED  BY <3>1 DEF Write
  <2>. QED  BY <2>1
<1>. HIDE DEF r, x
<1>9. /\ s.row[r] = Of(outbox', x).version /\ Of(outbox', x).stamp = Stamp(outbox', s.row[r])
      /\ s.row[r] = w.version /\ \A q \in Rows : q # r => s.row[q] = db[d].row[q]
  BY <1>2, <1>3 DEF r
<1>10. Newest(outbox', s.row, Knows(d) \union {x})
  <2>1. Newest(outbox', db[d].row, Knows(d))
    BY <1>4 DEF Shows
  <2>2. /\ VersionOf(outbox', r, s.row[r]) /\ Stamp(outbox', s.row[r]) \in Nat
        /\ Stamp(outbox', db[d].row[r]) <= Stamp(outbox', s.row[r])
    BY <1>3, <1>7, <1>9
  <2>. QED  BY <1>1, <1>3, <1>6, <1>8, <1>9, <2>1, <2>2, NewestEdit
<1>11. TookEffect(outbox', s)
  BY <1>4 DEF Shows, TookEffect
<1>12. Shows(outbox', s, Knows(d) \union {x})
  BY <1>10, <1>11 DEF Shows
<1>. QED  BY <1>12, LocalShows DEF x

(* What local writes other than edits do to a database.                    *)
KeepsRows(s, t) ==
  /\ t \in Database
  /\ t.row = s.row /\ t.applied = s.applied
  /\ s.appended \subseteq t.appended
  /\ \A k \in Kiosks : s.kiosk[k] = "revoked" => t.kiosk[k] = "revoked"

(* A kiosk that changes, and is not paired again, is such a write.         *)
LEMMA KioskKeepsRows ==
  ASSUME NEW s \in Database, NEW k \in Kiosks, NEW x \in KioskStates,
         s.kiosk[k] = "revoked" => x = "revoked"
  PROVE  KeepsRows(s, [s EXCEPT !.kiosk[k] = x])
BY DEF KeepsRows, Database

(* A revocation a device knows of names a kiosk.                           *)
LEMMA RevokesKiosk ==
  ASSUME IInv, NEW id, IsWritten(id), Of(outbox, id).kind = "revoke"
  PROVE  Of(outbox, id).on \in Kiosks
BY DEF IInv, WritesSound, IsWritten, Of

(* A local write that is no edit keeps the invariant.                      *)
LEMMA OtherWriteShows ==
  ASSUME ClocksAgree, IInv, TInv, merge = NoMerge, NEW d \in Devices,
         NEW w \in Write, w.kind # "edit", Enqueue(d, w),
         NEW s, KeepsRows(db[d], s), db' = [db EXCEPT ![d] = s]
  PROVE  TInv'
<1>1. Shows(outbox', db[d], Knows(d))
  BY StillShows
<1>2. \A id \in db[d].applied : Of(outbox', id) = Of(outbox, id) /\ IsWritten(id)
  BY WriteIsAdded, KnownIsWritten DEF Knows, Continues
<1>3. \A id \in db[d].applied :
        Of(outbox', id).kind = "revoke" => Of(outbox', id).on \in Kiosks
  BY <1>2, RevokesKiosk
<1>4. Shows(outbox', s, Knows(d))
  BY <1>1, <1>3, ShowsMore DEF KeepsRows
<1>5. Of(outbox', NextId(d)).kind # "edit" /\ CarriesVersion(d, w)
  BY WriteIsAdded DEF CarriesVersion
<1>6. Shows(outbox', s, Knows(d) \union {NextId(d)})
  BY <1>4, <1>5, ShowsWrite
<1>. QED  BY <1>5, <1>6, LocalShows DEF KeepsRows

(* A step that leaves the outboxes alone, and what each device shows.      *)
LEMMA Unwritten ==
  ASSUME TInv, UNCHANGED <<clock, outbox>>,
         \A d \in Devices : Shows(outbox, db'[d], Written(d) \union db'[d].applied),
         merge' # NoMerge =>
           Shows(outbox, merge'.store, Written(merge'.of) \union merge'.store.applied)
  PROVE  TInv'
<1>1. \A d : Written(d)' = Written(d)
  BY DEF Written
<1>2. \A d \in Devices : Knows(d)' = Written(d) \union db'[d].applied
  BY <1>1 DEF Knows
<1>3. merge' # NoMerge => Written(merge.of)' = Written(merge'.of)
  BY DEF Written
<1>. QED  BY <1>2, <1>3 DEF TInv, NoMerge

(* Every local write keeps the invariant.                                  *)
LEMMA LocalWriteShows ==
  ASSUME ClocksAgree, IInv, TInv, merge = NoMerge, NEW d \in Devices, LocalWrite(d)
  PROVE  TInv'
<1>0. db \in [Devices -> Database] /\ db[d] \in Database
  BY DEF IInv, TypeOK
<1>1. {"edit", "pair", "revoke", "append"} = Kinds /\ {"paired", "revoked"} \subseteq KioskStates
      /\ 0 \in Nat /\ IsVersion(Initially) /\ clock \in Nat /\ Skew[d] = 0
  BY DEF Kinds, KioskStates, IsVersion, IInv, TypeOK, ClocksAgree
<1>2. ASSUME NEW r \in Rows, Edit(d, r) PROVE TInv'
  <2>. DEFINE w == [WriteNow(d, "edit", r) EXCEPT !.version = NextId(d)]
              s == [db[d] EXCEPT !.row[r] = NextId(d)]
  <2>1. w \in Write
    BY <1>1, VersionsAreIds, WritesOfNow DEF WriteSound
  <2>2. w.kind = "edit" /\ w.on = r /\ w.version = NextId(d) /\ w.stamp = clock
    BY <1>1 DEF WriteNow
  <2>3. Enqueue(d, w) /\ db' = [db EXCEPT ![d] = s]
    BY <1>0, <1>2 DEF Edit
  <2>4. /\ s \in Database /\ s.applied = db[d].applied
        /\ s.appended = db[d].appended /\ s.kiosk = db[d].kiosk
        /\ s.row[r] = NextId(d) /\ \A q \in Rows : q # r => s.row[q] = db[d].row[q]
    BY <1>0, VersionsAreIds DEF Database
  <2>. HIDE DEF w, s
  <2>5. CarriesVersion(d, w)
    BY <2>2 DEF CarriesVersion
  <2>6. s.row[w.on] = w.version /\ \A q \in Rows : q # w.on => s.row[q] = db[d].row[q]
    BY <2>2, <2>4
  <2>7. w.kind = "edit"
    BY <2>2
  <2>. QED  BY <2>1, <2>3, <2>4, <2>5, <2>6, <2>7, EditShows
<1>3. ASSUME NEW r \in Products, Announce(d, r) PROVE TInv'
  <2>. DEFINE w == [WriteNow(d, "edit", r) EXCEPT
                      !.version = db[d].row[r], !.stamp = StampOf(db[d].row[r])]
              s == db[d]
  <2>0. r \in Rows
    BY SyncAssumption
  <2>1. StampOf(db[d].row[r]) \in Nat /\ IsVersion(db[d].row[r])
    BY <2>0, VersionsAreIds, StampIsNatural DEF IInv, VersionsWritten
  <2>2. w \in Write
    BY <1>1, <2>0, <2>1, VersionsAreIds, WritesOfNow DEF WriteSound
  <2>3. /\ w.kind = "edit" /\ w.on = r /\ w.version = db[d].row[r]
        /\ w.stamp = StampOf(db[d].row[r])
    BY DEF WriteNow
  <2>4. Enqueue(d, w) /\ db' = [db EXCEPT ![d] = s]
    BY <1>0, <1>3 DEF Announce
  <2>5. CarriesVersion(d, w)
    BY <2>0, <2>3 DEF CarriesVersion
  <2>6. /\ s \in Database /\ s.applied = db[d].applied
        /\ s.appended = db[d].appended /\ s.kiosk = db[d].kiosk
        /\ s.row[w.on] = w.version /\ \A q \in Rows : q # w.on => s.row[q] = db[d].row[q]
    BY <1>0, <2>3
  <2>. HIDE DEF w, s
  <2>. QED  BY <2>2, <2>3, <2>4, <2>5, <2>6, EditShows
<1>4. ASSUME NEW k \in Kiosks, NEW x \in KioskStates,
             db[d].kiosk[k] = "revoked" => x = "revoked",
             db' = [db EXCEPT ![d].kiosk[k] = x]
      PROVE  /\ KeepsRows(db[d], [db[d] EXCEPT !.kiosk[k] = x])
             /\ db' = [db EXCEPT ![d] = [db[d] EXCEPT !.kiosk[k] = x]]
  BY <1>0, <1>4, KioskKeepsRows
<1>5. ASSUME NEW k \in Kiosks, PairKiosk(d, k) PROVE TInv'
  <2>1. WriteNow(d, "pair", k) \in Write /\ WriteNow(d, "pair", k).kind # "edit"
    BY <1>1, WritesOfNow DEF WriteSound, WriteNow
  <2>2. /\ Enqueue(d, WriteNow(d, "pair", k)) /\ db' = [db EXCEPT ![d].kiosk[k] = "paired"]
        /\ db[d].kiosk[k] = "none"
    BY <1>5 DEF PairKiosk, NewKiosk
  <2>. QED  BY <1>1, <1>4, <2>1, <2>2, OtherWriteShows
<1>6. ASSUME NEW k \in Kiosks, RevokeKiosk(d, k) PROVE TInv'
  <2>1. WriteNow(d, "revoke", k) \in Write /\ WriteNow(d, "revoke", k).kind # "edit"
    BY <1>1, WritesOfNow DEF WriteSound, WriteNow
  <2>2. Enqueue(d, WriteNow(d, "revoke", k)) /\ db' = [db EXCEPT ![d].kiosk[k] = "revoked"]
    BY <1>6 DEF RevokeKiosk
  <2>. QED  BY <1>1, <1>4, <2>1, <2>2, OtherWriteShows
<1>7. ASSUME NEW on \in Kiosks \union {Counter}, AppendRow(d, on) PROVE TInv'
  <2>1. PICK n \in NextNumbers(d) : Enqueue(d, [WriteNow(d, "append", on) EXCEPT !.number = n])
    BY <1>7 DEF AppendRow
  <2>. DEFINE w == [WriteNow(d, "append", on) EXCEPT !.number = n]
  <2>2. n \in Nat
    BY NumbersAreNaturals
  <2>3. w \in Write /\ w.kind # "edit"
    BY <1>1, <2>2, WritesOfNow DEF WriteSound, WriteNow
  <2>. DEFINE s == [db[d] EXCEPT !.appended = @ \union {NextId(d)}]
  <2>4. NextId(d) \in Ids
    <3>1. Len(outbox[d]) \in Nat
      BY DEF IInv, TypeOK
    <3>. QED  BY <3>1 DEF NextId, Ids
  <2>5. KeepsRows(db[d], s)
    BY <1>0, <2>4 DEF KeepsRows, Database
  <2>6. db' = [db EXCEPT ![d] = s]
    BY <1>0, <1>7 DEF AppendRow
  <2>. HIDE DEF s, w
  <2>7. Enqueue(d, w)
    BY <2>1 DEF w
  <2>. QED  BY <2>3, <2>5, <2>6, <2>7, OtherWriteShows
<1>8. ASSUME NEW k \in Kiosks, KioskCutOff(d, k) PROVE TInv'
  <2>1. PICK x \in KioskStates :
          /\ db' = [db EXCEPT ![d].kiosk[k] = x]
          /\ db[d].kiosk[k] = "revoked" => x = "revoked"
    BY <1>8 DEF KioskCutOff, NewKiosk, KioskStates
  <2>. DEFINE s == [db[d] EXCEPT !.kiosk[k] = x]
  <2>2. KeepsRows(db[d], s) /\ db' = [db EXCEPT ![d] = s]
    BY <1>4, <2>1
  <2>. HIDE DEF s
  <2>3. db'[d] = s /\ \A e \in Devices \ {d} : db'[e] = db[e]
    BY <1>0, <2>2
  <2>4. \A e \in Devices : Shows(outbox, db[e], Written(e) \union db[e].applied)
    BY DEF TInv, Knows
  <2>5. \A id \in db[d].applied :
          Of(outbox, id).kind = "revoke" => Of(outbox, id).on \in Kiosks
    BY KnownIsWritten, RevokesKiosk DEF Knows
  <2>6. Shows(outbox, s, Written(d) \union s.applied)
    <3>1. s.applied = db[d].applied
      BY <2>2 DEF KeepsRows
    <3>2. Shows(outbox, s, Written(d) \union db[d].applied)
      BY <2>2, <2>4, <2>5, ShowsMore DEF KeepsRows
    <3>. QED  BY <3>1, <3>2
  <2>7. UNCHANGED <<clock, outbox, merge>>
    BY <1>8 DEF KioskCutOff
  <2>8. \A e \in Devices : Shows(outbox, db'[e], Written(e) \union db'[e].applied)
    BY <2>3, <2>4, <2>6
  <2>. QED  BY <2>7, <2>8, Unwritten
<1>. QED  BY <1>2, <1>3, <1>5, <1>6, <1>7, <1>8 DEF LocalWrite

-----------------------------------------------------------------------------
(* The merge *)

(* What a page that is being applied knows was written.                    *)
LEMMA MergeKnows ==
  ASSUME IInv, merge # NoMerge,
         NEW id \in Written(merge.of) \union merge.store.applied
  PROVE  InBox(outbox, id)
<1>. DEFINE page == cycle[merge.of][merge.by].page
<1>1. /\ merge.of \in Devices
      /\ merge.store.applied = db[merge.of].applied \union Read(merge.of, page \ merge.rest)
      /\ \A p \in page : cloud[p] \in Ids /\ IsWritten(cloud[p])
  BY MergeTypes DEF IInv, MergeSound
<1>2. CASE id \in Knows(merge.of)
  BY <1>1, <1>2, KnownIsWritten
<1>3. CASE id \in Read(merge.of, page \ merge.rest)
  BY <1>1, <1>3 DEF Read, InBox, IsWritten
<1>. QED  BY <1>1, <1>2, <1>3 DEF Knows

(* One event more: an edit replaces no version that is newer.              *)
LEMMA MergedShows ==
  ASSUME IInv, VersionsSound(outbox, clock), clock > 0, NEW d \in Devices,
         NEW store \in Database, NEW id \in Ids, IsWritten(id),
         \A x \in Written(d) \union store.applied : InBox(outbox, x),
         Shows(outbox, store, Written(d) \union store.applied)
  PROVE  Shows(outbox, Merged(d, store, id), Written(d) \union Merged(d, store, id).applied)
<1>. DEFINE known == Written(d) \union store.applied
<1>1. CASE id \in store.applied
  BY <1>1 DEF Merged
<1>2. CASE id \notin store.applied
  <2>. DEFINE a == Applied(d, store, id)
              w == Of(outbox, id)
              t == Merged(d, store, id)
  <2>1. a \in Database /\ a.applied = store.applied
    BY AppliedStore DEF IInv
  <2>2. InBox(outbox, id) /\ w \in Write /\ w.stamp \in Nat
    <3>1. InBox(outbox, id)
      BY DEF InBox, IsWritten
    <3>2. w \in Write
      BY <3>1, InBoxIsWritten
    <3>. QED  BY <3>1, <3>2 DEF Write
  <2>3. WriteOf(id) = w
    BY DEF WriteOf, Of
  <2>5. \A x \in known : Of(outbox, x).stamp \in Nat
    <3>1. ASSUME NEW x \in known PROVE Of(outbox, x).stamp \in Nat
      <4>1. Of(outbox, x) \in Write
        BY InBoxIsWritten
      <4>. QED  BY <4>1 DEF Write
    <3>. QED  BY <3>1
  <2>. HIDE DEF a, t
  <2>6. /\ t.row = a.row /\ t.kiosk = a.kiosk /\ t.appended = a.appended
        /\ t.applied = store.applied \union {id}
    <3>1. t = [a EXCEPT !.applied = @ \union {id}]
      BY <1>2 DEF Merged, a, t
    <3>. QED  BY <2>1, <3>1 DEF Database
  <2>7. Written(d) \union t.applied = known \union {id}
    BY <2>6
  <2>8. Newest(outbox, store.row, known) /\ TookEffect(outbox, store)
    BY DEF Shows
  <2>9. w.kind \in {"edit", "pair", "revoke", "append"}
    BY <2>2 DEF Write, Kinds
  <2>10. CASE w.kind = "edit"
    <3>. DEFINE r == w.on
                local == StampOf(store.row[r])
    <3>1. r \in Rows
      BY <2>10 DEF IInv, WritesSound, IsWritten, Of
    <3>2. Edits(outbox, r, id)
      BY <2>10 DEF Edits
    <3>3. local = Stamp(outbox, store.row[r])
      BY DEF StampOf, Stamp, WriteOf, Of
    <3>4. local \in Nat
      <4>1. VersionOf(outbox, r, store.row[r])
        BY <2>8, <3>1 DEF Newest
      <4>. QED  BY <3>1, <3>3, <4>1, StampsAreTimes
    <3>5. VersionOf(outbox, r, w.version) /\ w.stamp = Stamp(outbox, w.version)
      BY <2>2, <3>1, <3>2 DEF VersionsSound
    <3>6. /\ EditWins(d, store, id) => local <= w.stamp
          /\ ~EditWins(d, store, id) => w.stamp <= local
      BY <2>2, <2>3, <3>4 DEF EditWins
    <3>. HIDE DEF r, local
    <3>7. a.kiosk = store.kiosk /\ a.appended = store.appended
      BY <2>3, <2>10 DEF Applied, a, Database
    <3>8. Newest(outbox, t.row, known \union {id})
      <4>1. CASE EditWins(d, store, id)
        <5>. DEFINE new == [store EXCEPT !.row[r] = w.version]
        <5>1. a = new
          BY <2>3, <2>10, <4>1 DEF Applied, a, r
        <5>2. new.row[r] = w.version /\ \A q \in Rows : q # r => new.row[q] = store.row[q]
          BY <3>1 DEF Database
        <5>. HIDE DEF new
        <5>3. t.row[r] = w.version /\ \A q \in Rows : q # r => t.row[q] = store.row[q]
          BY <2>6, <5>1, <5>2
        <5>4. /\ Stamp(outbox, t.row[r]) \in Nat /\ Stamp(outbox, store.row[r]) \in Nat
              /\ Stamp(outbox, store.row[r]) <= Stamp(outbox, t.row[r])
              /\ VersionOf(outbox, r, t.row[r]) /\ w.stamp = Stamp(outbox, t.row[r])
          BY <2>2, <3>3, <3>4, <3>5, <3>6, <4>1, <5>3
        <5>. QED  BY <2>5, <2>8, <3>1, <3>2, <5>3, <5>4, NewestEdit
      <4>2. CASE ~EditWins(d, store, id)
        <5>1. a = store
          BY <2>3, <2>10, <4>2 DEF Applied, a
        <5>2. Of(outbox, id).stamp <= Stamp(outbox, store.row[r])
          BY <3>3, <3>6, <4>2
        <5>3. \A q \in Rows : Edits(outbox, q, id) => q = r
          BY DEF Edits, r
        <5>. QED  BY <2>6, <2>8, <5>1, <5>2, <5>3 DEF Newest
      <4>. QED  BY <4>1, <4>2
    <3>9. TookEffect(outbox, t)
      BY <2>6, <2>8, <2>10, <3>7 DEF TookEffect
    <3>. QED  BY <2>7, <3>8, <3>9 DEF Shows, t
  <2>11. CASE w.kind # "edit"
    <3>1. Newest(outbox, store.row, known \union {id})
      BY <2>8, <2>11 DEF Newest, Edits
    <3>2. w.kind = "revoke" => w.on \in Kiosks
      BY RevokesKiosk
    <3>3. \A x \in store.applied :
            Of(outbox, x).kind = "revoke" => Of(outbox, x).on \in Kiosks
      BY InBoxIsWritten, RevokesKiosk
    <3>4. /\ a.row = store.row /\ store.appended \subseteq a.appended
          /\ \A k \in Kiosks : store.kiosk[k] = "revoked" => a.kiosk[k] = "revoked"
          /\ w.kind = "append" => id \in a.appended
          /\ w.kind = "revoke" => a.kiosk[w.on] = "revoked"
      <4>1. CASE w.kind = "append"
        <5>1. a = [store EXCEPT !.appended = @ \union {id}]
          BY <2>3, <4>1 DEF Applied, a
        <5>. QED  BY <4>1, <5>1 DEF Database
      <4>2. CASE w.kind \in {"pair", "revoke"}
        <5>. DEFINE new == [store EXCEPT !.kiosk[w.on] = "revoked"]
        <5>1. w.on \in Kiosks
          BY <4>2 DEF IInv, WritesSound, IsWritten, Of
        <5>2. /\ new.row = store.row /\ new.appended = store.appended
              /\ new.kiosk[w.on] = "revoked"
              /\ \A k \in Kiosks : store.kiosk[k] = "revoked" => new.kiosk[k] = "revoked"
          BY <5>1 DEF Database
        <5>3. (a = store /\ w.kind # "revoke") \/ a = new
          BY <2>3, <4>2 DEF Applied, KioskWins, a
        <5>. HIDE DEF new
        <5>. QED  BY <4>2, <5>2, <5>3
      <4>. QED  BY <2>9, <2>11, <4>1, <4>2
    <3>5. TookEffect(outbox, t)
      BY <2>6, <2>8, <3>2, <3>3, <3>4 DEF TookEffect
    <3>. QED  BY <2>6, <2>7, <3>1, <3>4, <3>5 DEF Shows, t
  <2>. QED  BY <2>10, <2>11
<1>. QED  BY <1>1, <1>2

(* Applying one event of a page keeps the invariant.                       *)
LEMMA ApplyOneShows ==
  ASSUME IInv, TInv, ApplyOne
  PROVE  TInv'
<1>. DEFINE d == merge.of
<1>1. PICK p \in NextInPage :
        merge' = [merge EXCEPT !.rest = merge.rest \ {p},
                    !.store = Merged(merge.of, merge.store, cloud[p])]
  BY DEF ApplyOne
<1>2. p \in merge.rest
  BY DEF NextInPage
<1>3. merge # NoMerge
  BY <1>2 DEF NoMerge
<1>4. /\ d \in Devices /\ merge.store \in Database
      /\ cloud[p] \in Ids /\ cloud[p][1] # d /\ IsWritten(cloud[p])
  BY <1>2, <1>3, MergeTypes
<1>5. merge \in Merge
  BY DEF IInv, TypeOK
<1>6. merge'.of = d /\ merge'.store = Merged(d, merge.store, cloud[p])
  BY <1>1, <1>5 DEF Merge
<1>7. \A x \in Written(d) \union merge.store.applied : InBox(outbox, x)
  BY <1>3, MergeKnows
<1>8. Shows(outbox, merge.store, Written(d) \union merge.store.applied)
  BY <1>3 DEF TInv
<1>9. Shows(outbox, Merged(d, merge.store, cloud[p]),
            Written(d) \union Merged(d, merge.store, cloud[p]).applied)
  BY <1>4, <1>7, <1>8, MergedShows DEF TInv
<1>10. UNCHANGED <<clock, outbox, db>>
  BY DEF ApplyOne
<1>11. \A e \in Devices : Shows(outbox, db'[e], Written(e) \union db'[e].applied)
  BY <1>10 DEF TInv, Knows
<1>12. Shows(outbox, merge'.store, Written(merge'.of) \union merge'.store.applied)
  BY <1>6, <1>9
<1>. QED  BY <1>10, <1>11, <1>12, Unwritten

(* The commit of a page keeps the invariant.                               *)
LEMMA CommitShows ==
  ASSUME IInv, TInv, MergeCommits
  PROVE  TInv'
<1>. DEFINE d == merge.of
<1>1. /\ merge # NoMerge /\ d \in Devices
      /\ \A e \in Devices \ {d} : db'[e] = db[e]
      /\ db'[d].row = merge.store.row /\ db'[d].kiosk = merge.store.kiosk
      /\ db'[d].appended = merge.store.appended /\ db'[d].applied = merge.store.applied
  BY Committed
<1>2. Shows(outbox, merge.store, Written(d) \union merge.store.applied)
  BY <1>1 DEF TInv
<1>3. Shows(outbox, db'[d], Written(d) \union db'[d].applied)
  BY <1>1, <1>2 DEF Shows, TookEffect
<1>4. \A e \in Devices : Shows(outbox, db[e], Written(e) \union db[e].applied)
  BY DEF TInv, Knows
<1>5. \A e \in Devices : Shows(outbox, db'[e], Written(e) \union db'[e].applied)
  BY <1>1, <1>3, <1>4
<1>6. UNCHANGED <<clock, outbox>> /\ merge' = NoMerge
  BY DEF MergeCommits
<1>. QED  BY <1>5, <1>6, Unwritten

(* With clocks that agree, the invariant about rows is inductive.          *)
LEMMA RowsStep ==
  ASSUME ClocksAgree, IInv, TInv, [Next]_vars
  PROVE  TInv'
<1>0. \A e \in Devices : Shows(outbox, db[e], Written(e) \union db[e].applied)
  BY DEF TInv, Knows
<1>1. ASSUME UNCHANGED <<clock, outbox, db>>, merge' = merge \/ merge' = NoMerge
      PROVE  TInv'
  <2>1. merge' # NoMerge =>
          Shows(outbox, merge'.store, Written(merge'.of) \union merge'.store.applied)
    BY <1>1 DEF TInv
  <2>. QED  BY <1>0, <1>1, <2>1, Unwritten
<1>2. ASSUME merge = NoMerge, NEW d \in Devices, LocalWrite(d) PROVE TInv'
  BY <1>2, LocalWriteShows
<1>3. ASSUME merge = NoMerge, NEW d \in Devices, NEW c \in Cycles, CycleStep(d, c) PROVE TInv'
  <2>1. UNCHANGED <<clock, outbox, db>>
    BY <1>3 DEF CycleStep, StartCycle, PushAcknowledged, PushFails, ListArrives, PullFails, BeginMerge
  <2>2. CASE merge' = merge
    BY <1>1, <2>1, <2>2
  <2>3. CASE merge' # merge
    <3>1. merge'.of = d /\ merge'.store = db[d]
      BY <1>3, <2>3 DEF CycleStep, StartCycle, PushAcknowledged, PushFails, ListArrives,
                        PullFails, BeginMerge
    <3>2. Shows(outbox, merge'.store, Written(merge'.of) \union merge'.store.applied)
      BY <1>0, <3>1
    <3>. QED  BY <1>0, <2>1, <3>2, Unwritten
  <2>. QED  BY <2>2, <2>3
<1>4. ASSUME NEW request \in posted, PushArrives(request) PROVE TInv'
  BY <1>1, <1>4 DEF PushArrives
<1>5. CASE MergeStep
  BY <1>1, <1>5, ApplyOneShows, CommitShows DEF MergeStep, MergeAborts
<1>6. ASSUME NEW d \in Devices, Crash(d) PROVE TInv'
  BY <1>1, <1>6 DEF Crash
<1>7. CASE UNCHANGED vars
  BY <1>1, <1>7 DEF vars
<1>. QED  BY <1>2, <1>3, <1>4, <1>5, <1>6, <1>7 DEF Next

-----------------------------------------------------------------------------
(* Theorems *)

(* With clocks that agree, both invariants hold.                           *)
LEMMA RowsInvariant ==
  ASSUME ClocksAgree
  PROVE  Spec => [](IInv /\ TInv)
<1>1. Init => TInv
  <2>. SUFFICES ASSUME Init PROVE TInv
    OBVIOUS
  <2>1. \A d \in Devices :
          /\ Len(outbox[d]) = 0 /\ db[d].applied = {}
          /\ \A r \in Rows : db[d].row[r] = Initially
    BY DEF Init, FreshDatabase
  <2>2. \A d \in Devices : Knows(d) = {}
    BY <2>1 DEF Knows, Written
  <2>3. clock > 0 /\ VersionsSound(outbox, clock)
    <3>1. \A id : ~InBox(outbox, id)
      BY <2>1 DEF InBox, Ids
    <3>. QED  BY <3>1 DEF Init, VersionsSound, MadeVersion
  <2>4. \A d \in Devices : Shows(outbox, db[d], Knows(d))
    BY <2>1, <2>2 DEF Shows, Newest, TookEffect, VersionOf
  <2>. QED  BY <2>3, <2>4 DEF Init, TInv
<1>2. IInv /\ TInv /\ [Next]_vars => TInv'
  BY RowsStep
<1>3. Init => IInv
  BY InitSound
<1>4. IInv /\ [Next]_vars => IInv'
  BY StepKeeps
<1>. QED  BY <1>1, <1>2, <1>3, <1>4, PTL DEF Spec

(* With clocks that agree, whatever a device marked as applied took        *)
(* effect, and nothing later undoes it but a newer edit of the same row.   *)
THEOREM AppliedEventsTakeEffect ==
  ASSUME ClocksAgree
  PROVE  Spec => []AppliedTookEffect
<1>1. IInv /\ TInv => AppliedTookEffect
  <2>1. ASSUME IInv, TInv, NEW d \in Devices, NEW id \in db[d].applied
        PROVE  /\ WriteOf(id).kind = "append" => id \in db[d].appended
               /\ WriteOf(id).kind = "revoke" => db[d].kiosk[WriteOf(id).on] = "revoked"
               /\ WriteOf(id).kind = "edit" =>
                    StampOf(db[d].row[WriteOf(id).on]) >= WriteOf(id).stamp
    <3>1. IsWritten(id) /\ id \in Ids /\ id \in Knows(d)
      BY <2>1, KnownIsWritten DEF Knows
    <3>2. WriteOf(id) = Of(outbox, id)
      BY DEF WriteOf, Of
    <3>3. Newest(outbox, db[d].row, Knows(d)) /\ TookEffect(outbox, db[d])
      BY <2>1 DEF TInv, Shows
    <3>4. ASSUME WriteOf(id).kind = "edit"
          PROVE  StampOf(db[d].row[WriteOf(id).on]) >= WriteOf(id).stamp
      <4>. DEFINE r == WriteOf(id).on
      <4>1. r \in Rows
        BY <2>1, <3>1, <3>4 DEF IInv, WritesSound, IsWritten, WriteOf
      <4>2. Of(outbox, id).stamp <= Stamp(outbox, db[d].row[r])
        BY <3>1, <3>2, <3>3, <3>4, <4>1 DEF Newest, Edits
      <4>3. Of(outbox, id) \in Write
        BY <2>1, <3>1, KnownIsWritten, InBoxIsWritten
      <4>4. Stamp(outbox, db[d].row[r]) \in Nat
        BY <2>1, <3>3, <4>1, StampsAreTimes DEF Newest, TInv
      <4>5. Stamp(outbox, db[d].row[r]) = StampOf(db[d].row[r])
        BY DEF Stamp, StampOf, Of, WriteOf
      <4>. QED  BY <3>2, <4>2, <4>3, <4>4, <4>5 DEF Write
    <3>. QED  BY <3>2, <3>3, <3>4 DEF TookEffect
  <2>. QED  BY <2>1 DEF AppliedTookEffect
<1>. QED  BY <1>1, RowsInvariant, PTL

(* With clocks that agree, two devices that know the same edits of a row   *)
(* show the same version of it.                                            *)
THEOREM DevicesAgreeOnRows ==
  ASSUME ClocksAgree
  PROVE  Spec => []RowsAgree
<1>1. IInv /\ TInv => RowsAgree
  <2>1. ASSUME IInv, TInv, NEW d \in Devices, NEW e \in Devices, NEW r \in Rows,
               EditsKnown(d, r) = EditsKnown(e, r)
        PROVE  db[d].row[r] = db[e].row[r]
    <3>1. \A f \in Devices : Newest(outbox, db[f].row, Knows(f))
      BY <2>1 DEF TInv, Shows
    <3>2. \A f \in Devices :
            EditsKnown(f, r) = {id \in Knows(f) : Edits(outbox, r, id)}
      BY DEF EditsKnown, Edits, WriteOf, Of
    <3>3. ASSUME NEW f \in Devices
          PROVE  /\ VersionOf(outbox, r, db[f].row[r])
                 /\ Stamp(outbox, db[f].row[r]) \in Nat
                 /\ db[f].row[r] # Initially => Stamp(outbox, db[f].row[r]) > 0
                 /\ db[f].row[r] = Initially => Stamp(outbox, db[f].row[r]) = 0
      <4>1. VersionOf(outbox, r, db[f].row[r])
        BY <3>1 DEF Newest
      <4>2. db[f].row[r] = Initially => Stamp(outbox, db[f].row[r]) = 0
        BY DEF Stamp
      <4>. QED  BY <2>1, <4>1, <4>2, StampsAreTimes DEF TInv
    <3>4. ASSUME NEW f \in Devices, NEW g \in Devices, EditsKnown(f, r) = EditsKnown(g, r)
          PROVE  Stamp(outbox, db[f].row[r]) <= Stamp(outbox, db[g].row[r])
      <4>1. CASE db[f].row[r] = Initially
        <5>1. Stamp(outbox, db[f].row[r]) = 0 /\ Stamp(outbox, db[g].row[r]) \in Nat
          BY <3>3, <4>1
        <5>. QED  BY <5>1
      <4>2. CASE db[f].row[r] # Initially
        <5>1. PICK id \in Knows(f) :
                Edits(outbox, r, id) /\ Of(outbox, id).version = db[f].row[r]
          BY <3>1, <4>2 DEF Newest
        <5>2. id \in Knows(g)
          BY <3>2, <3>4, <5>1
        <5>3. InBox(outbox, id)
          BY <2>1, <5>1, KnownIsWritten
        <5>4. Of(outbox, id).stamp = Stamp(outbox, db[f].row[r])
          BY <2>1, <5>1, <5>3 DEF TInv, VersionsSound
        <5>5. Of(outbox, id).stamp <= Stamp(outbox, db[g].row[r])
          BY <3>1, <5>1, <5>2 DEF Newest
        <5>. QED  BY <5>4, <5>5
      <4>. QED  BY <4>1, <4>2
    <3>5. Stamp(outbox, db[d].row[r]) = Stamp(outbox, db[e].row[r])
      <4>1. /\ Stamp(outbox, db[d].row[r]) <= Stamp(outbox, db[e].row[r])
            /\ Stamp(outbox, db[e].row[r]) <= Stamp(outbox, db[d].row[r])
            /\ Stamp(outbox, db[d].row[r]) \in Nat /\ Stamp(outbox, db[e].row[r]) \in Nat
        BY <2>1, <3>3, <3>4
      <4>. QED  BY <4>1
    <3>6. CASE db[d].row[r] = Initially \/ db[e].row[r] = Initially
      <4>1. \A f \in Devices : \/ db[f].row[r] = Initially /\ Stamp(outbox, db[f].row[r]) = 0
                               \/ db[f].row[r] # Initially /\ Stamp(outbox, db[f].row[r]) > 0
        BY <3>3
      <4>. QED  BY <3>5, <3>6, <4>1
    <3>7. CASE db[d].row[r] # Initially /\ db[e].row[r] # Initially
      <4>1. /\ MadeVersion(outbox, r, db[d].row[r]) /\ MadeVersion(outbox, r, db[e].row[r])
            /\ Stamp(outbox, db[d].row[r]) = Of(outbox, db[d].row[r]).stamp
            /\ Stamp(outbox, db[e].row[r]) = Of(outbox, db[e].row[r]).stamp
        BY <3>3, <3>7 DEF VersionOf, Stamp
      <4>. QED  BY <2>1, <3>5, <4>1 DEF TInv, VersionsSound
    <3>. QED  BY <3>6, <3>7
  <2>. QED  BY <2>1 DEF RowsAgree
<1>. QED  BY <1>1, RowsInvariant, PTL

=============================================================================
