----------------------------- MODULE TwoWaySync -----------------------------
(***************************************************************************)
(* The managers of one store, each with its own database, and the cloud    *)
(* through which they merge: the outbox (sync-outbox.ts), the engine       *)
(* (sync-engine.ts), the account transport and the merge of pulled events  *)
(* (store-database.ts, sync-restore.ts).                                   *)
(*                                                                         *)
(* A write is named <<device, n>>: the n-th event of that device's outbox. *)
(* The outbox is append-only and event ids are unique, so the pair stands  *)
(* for the event id.  The cloud is the table store_sync_events; the        *)
(* position of a row in it is its server id.                               *)
(*                                                                         *)
(* Kinds of writes:                                                        *)
(*   "edit"    an upsert of a row every device may edit (settings,         *)
(*             category, product, customer), the newest time stamp wins;   *)
(*   "pair", "revoke"  the two versions of a kiosk;                        *)
(*   "append"  a sale, movement or payment: immutable, and numbered with   *)
(*             the next value of a column that is UNIQUE in the database.  *)
(***************************************************************************)
EXTENDS Naturals, Sequences, FiniteSets

CONSTANTS
  Devices,          \* the managers that share the store
  Rows,             \* rows that several devices edit
  Products,         \* those of them that are products
  Kiosks,           \* kiosks that may be paired
  Counter,          \* where a sale at the manager itself comes from
  Cycles,           \* slots for the cycles of one device that overlap
  Nobody,           \* neither a device nor a cycle
  Overlap,          \* bound: cycles of a device at one time
  BatchLimit,       \* events per push (200 in the code)
  PageLimit,        \* events per pull (500 in the code)
  Skew,             \* how far the clock of a device is ahead
  SameInstant,      \* whether two writes can carry one time stamp
  IdAfter(_, _),    \* how the random event ids of two writes compare
  MaxWrites,        \* bound: writes of each device
  Hosts             \* bound: devices that pair kiosks

ASSUME SyncAssumption ==
  /\ Products \subseteq Rows
  /\ Counter \notin Kiosks
  /\ Nobody \notin Devices
  /\ Overlap \in [Devices -> Nat]
  /\ BatchLimit \in Nat \ {0}
  /\ PageLimit \in Nat \ {0}
  /\ Skew \in [Devices -> Nat]
  /\ SameInstant \in BOOLEAN
  /\ MaxWrites \in [Devices -> Nat]
  /\ Hosts \subseteq Devices

VARIABLES
  clock,    \* the true time
  outbox,   \* sync_outbox of each device: its writes in order
  pushed,   \* the outbox rows with a pushed_at
  cloud,    \* store_sync_events, in the order of the server ids
  posted,   \* push requests on their way to the cloud
  cycle,    \* the push and pull cycles of each device
  db,       \* what each device's database holds
  merge     \* the transaction of applyPulledEvents, while it runs

vars == <<clock, outbox, pushed, cloud, posted, cycle, db, merge>>

-----------------------------------------------------------------------------
(* The state of a device.                                                  *)

Ids == Devices \X (Nat \ {0})
Initially == <<>>         \* the version of a row both devices started with

Kinds == {"edit", "pair", "revoke", "append"}
KioskStates == {"none", "paired", "revoked"}

(***************************************************************************)
(* A write: its updated_at, its number if it is an append, the version of  *)
(* the row it carries if it is an edit (named after the edit that made     *)
(* it), and, as a history of what it may refer to, the pull cursor of its  *)
(* device.                                                                 *)
(***************************************************************************)
Write == [kind : Kinds, on : Rows \union Kiosks \union {Counter}, stamp : Nat,
          number : Nat, version : Ids \union {Initially}, saw : Nat]

Database == [row      : [Rows -> Ids \union {Initially}],
             kiosk    : [Kiosks -> KioskStates],
             appended : SUBSET Ids,
             applied  : SUBSET Ids,
             cursor   : Nat]

FreshDatabase == [row      |-> [r \in Rows |-> Initially],
                  kiosk    |-> [k \in Kiosks |-> "none"],
                  appended |-> {},
                  applied  |-> {},
                  cursor   |-> 0]

(***************************************************************************)
(* A cycle waits for the answer to its push, or for a page ("pulling",     *)
(* and "listed" once the cloud has read it).                               *)
(***************************************************************************)
CycleState == [at : {"idle", "pushing", "pulling", "listed"},
               batch : SUBSET Nat, after : Nat, page : SUBSET Nat]
Idle == [at |-> "idle", batch |-> {}, after |-> 0, page |-> {}]
Pushing(batch) == [Idle EXCEPT !.at = "pushing", !.batch = batch]
Pulling(cursor) == [Idle EXCEPT !.at = "pulling", !.after = cursor]

Merge == [of : Devices \union {Nobody}, by : Cycles \union {Nobody},
          rest : SUBSET Nat, store : Database]
NoMerge == [of |-> Nobody, by |-> Nobody, rest |-> {}, store |-> FreshDatabase]
Request == [from : Devices, batch : SUBSET Nat]

TypeOK ==
  /\ clock \in Nat
  /\ outbox \in [Devices -> Seq(Write)]
  /\ pushed \in [Devices -> SUBSET Nat]
  /\ cloud \in Seq(Ids)
  /\ posted \subseteq Request
  /\ cycle \in [Devices -> [Cycles -> CycleState]]
  /\ db \in [Devices -> Database]
  /\ merge \in Merge

Init ==
  /\ clock = 1
  /\ outbox = [d \in Devices |-> <<>>]
  /\ pushed = [d \in Devices |-> {}]
  /\ cloud = <<>>
  /\ posted = {}
  /\ cycle = [d \in Devices |-> [c \in Cycles |-> Idle]]
  /\ db = [d \in Devices |-> FreshDatabase]
  /\ merge = NoMerge

WriteOf(id) == outbox[id[1]][id[2]]
Written(d) == {<<d, n>> : n \in 1..Len(outbox[d])}
InCloud == {cloud[p] : p \in 1..Len(cloud)}

-----------------------------------------------------------------------------
(* Local writes: except for kiosks, the row and its event are written in   *)
(* one transaction.                                                        *)

Enqueue(d, write) ==
  /\ Len(outbox[d]) < MaxWrites[d]
  /\ outbox' = [outbox EXCEPT ![d] = Append(@, write)]
  /\ clock' \in (IF SameInstant THEN {clock} ELSE {}) \union {clock + 1}
  /\ UNCHANGED <<pushed, cloud, posted, cycle, merge>>

(* A write of this moment.                                                 *)
WriteNow(d, kind, on) ==
  [kind |-> kind, on |-> on, stamp |-> clock + Skew[d],
   number |-> 0, version |-> Initially, saw |-> db[d].cursor]

(* Fault: the number of the event before it.                               *)
LastId(d) == <<d, Len(outbox[d])>>
NextId(d) == <<d, Len(outbox[d]) + 1>>

Edit(d, r) ==
  /\ Enqueue(d, [WriteNow(d, "edit", r) EXCEPT !.version = NextId(d)])
  /\ db' = [db EXCEPT ![d].row[r] = NextId(d)]

(***************************************************************************)
(* updated_at of a version of a row.                                       *)
(***************************************************************************)
StampOf(id) == IF id = Initially THEN 0 ELSE WriteOf(id).stamp

(***************************************************************************)
(* A sale price that is set or deleted enqueues its product, which it does *)
(* not touch: the event carries the version the device shows, with the     *)
(* time stamp of that version, and no sale price, for those stay local.    *)
(* The two are not one transaction: a manager that dies in between has     *)
(* changed nothing that is synced.                                         *)
(***************************************************************************)
Announce(d, r) ==
  /\ Enqueue(d, [WriteNow(d, "edit", r) EXCEPT
                   !.version = db[d].row[r], !.stamp = StampOf(db[d].row[r])])
  /\ UNCHANGED db

(***************************************************************************)
(* createKiosk draws a new id.  A pulled version without a row to update   *)
(* has left no row, but its event.                                         *)
(***************************************************************************)
NewKiosk(k) ==
  \A e \in Devices :
    /\ db[e].kiosk[k] = "none"
    /\ \A n \in 1..Len(outbox[e]) : outbox[e][n].on # k

PairKiosk(d, k) ==
  /\ d \in Hosts
  /\ NewKiosk(k)
  /\ Enqueue(d, WriteNow(d, "pair", k))
  /\ db' = [db EXCEPT ![d].kiosk[k] = "paired"]

RevokeKiosk(d, k) ==
  /\ db[d].kiosk[k] = "paired"
  /\ Enqueue(d, WriteNow(d, "revoke", k))
  /\ db' = [db EXCEPT ![d].kiosk[k] = "revoked"]

(***************************************************************************)
(* The row of a kiosk and its event are not written in one transaction:    *)
(* the manager may die in between, and the event is never written.         *)
(***************************************************************************)
KioskCutOff(d, k) ==
  /\ \/ /\ d \in Hosts
        /\ NewKiosk(k)
        /\ db' = [db EXCEPT ![d].kiosk[k] = "paired"]
     \/ /\ db[d].kiosk[k] = "paired"
        /\ db' = [db EXCEPT ![d].kiosk[k] = "revoked"]
  /\ cycle' = [cycle EXCEPT ![d] = [c \in Cycles |-> Idle]]
  /\ UNCHANGED <<clock, outbox, pushed, cloud, posted, merge>>

(***************************************************************************)
(* COALESCE(MAX(sequence), 0) + 1 over the rows of this database.          *)
(***************************************************************************)
Number(id) == WriteOf(id).number
NextNumbers(d) ==
  {n \in {1} \union {Number(id) + 1 : id \in db[d].appended} :
     \A id \in db[d].appended : Number(id) < n}

(***************************************************************************)
(* completeSale and the other writers of numbered rows; on is the kiosk    *)
(* the sale was made at, or the counter.  The sale of a charge that is     *)
(* settled late may name a kiosk that has been revoked.                    *)
(***************************************************************************)
AppendRow(d, on) ==
  /\ on \in Kiosks => db[d].kiosk[on] # "none"
  /\ \E n \in NextNumbers(d) :
       Enqueue(d, [WriteNow(d, "append", on) EXCEPT !.number = n])
  /\ db' = [db EXCEPT ![d].appended = @ \union {NextId(d)}]

-----------------------------------------------------------------------------
(* The cycle.  A slot that is idle may start one whenever the device's     *)
(* code may run: the engine of the moment is single-flight, but an engine  *)
(* that was replaced (recreateSyncEngine) ends its cycle beside the cycles *)
(* of the new one.                                                         *)

Pending(d) == (1..Len(outbox[d])) \ pushed[d]

(***************************************************************************)
(* The members of S that fewer than n others precede.                      *)
(***************************************************************************)
First(n, S) == {x \in S : Cardinality({y \in S : y < x}) < n}

(* Fault: the newest events first.                                         *)
NewestBatch(d) ==
  {x \in Pending(d) : Cardinality({y \in Pending(d) : y > x}) < BatchLimit}

(***************************************************************************)
(* pendingSyncEvents: the oldest events that are not marked pushed.        *)
(***************************************************************************)
Batch(d) == First(BatchLimit, Pending(d))

StartCycle(d, c) ==
  /\ cycle[d][c].at = "idle"
  /\ Cardinality({x \in Cycles : cycle[d][x].at # "idle"}) < Overlap[d]
  /\ IF Pending(d) = {}
     THEN /\ cycle' = [cycle EXCEPT ![d][c] = Pulling(db[d].cursor)]
          /\ UNCHANGED posted
     ELSE /\ cycle' = [cycle EXCEPT ![d][c] = Pushing(Batch(d))]
          /\ posted' = posted \union {[from |-> d, batch |-> Batch(d)]}
  /\ UNCHANGED <<clock, outbox, pushed, cloud, db, merge>>

(***************************************************************************)
(* The cloud inserts the rows of one request in their order and ignores    *)
(* the event ids it has (external).  The request may arrive long after its *)
(* cycle gave it up or its device crashed, or never.                       *)
(***************************************************************************)
Ascending(S) ==
  {s \in [1..Cardinality(S) -> S] :
     /\ \A i, j \in DOMAIN s : i < j => s[i] < s[j]
     /\ \A x \in S : \E i \in DOMAIN s : s[i] = x}

(* Fault: an event that is pushed again is inserted again.                 *)
InsertAll(request) == request.batch

NewIn(request) == {n \in request.batch : <<request.from, n>> \notin InCloud}

PushArrives(request) ==
  /\ request \in posted
  /\ posted' = posted \ {request}
  /\ \E s \in Ascending(NewIn(request)) :
       cloud' = cloud \o [i \in DOMAIN s |-> <<request.from, s[i]>>]
  /\ UNCHANGED <<clock, outbox, pushed, cycle, db, merge>>

(***************************************************************************)
(* The acknowledgement of a request that arrived: the batch is marked      *)
(* pushed and the pull begins.                                             *)
(***************************************************************************)
PushAcknowledged(d, c) ==
  /\ cycle[d][c].at = "pushing"
  /\ [from |-> d, batch |-> cycle[d][c].batch] \notin posted
  /\ pushed' = [pushed EXCEPT ![d] = @ \union cycle[d][c].batch]
  /\ cycle' = [cycle EXCEPT ![d][c] = Pulling(db[d].cursor)]
  /\ UNCHANGED <<clock, outbox, cloud, posted, db, merge>>

(* Fault: the batch is marked although nobody confirmed it.                *)
PushFailsMarked(d, c) ==
  /\ cycle[d][c].at = "pushing"
  /\ pushed' = [pushed EXCEPT ![d] = @ \union cycle[d][c].batch]
  /\ cycle' = [cycle EXCEPT ![d][c] = Pulling(db[d].cursor)]
  /\ UNCHANGED <<clock, outbox, cloud, posted, db, merge>>

(***************************************************************************)
(* The push fails, or its answer is lost: nothing is marked, and the pull  *)
(* begins.                                                                 *)
(***************************************************************************)
PushFails(d, c) ==
  /\ cycle[d][c].at = "pushing"
  /\ cycle' = [cycle EXCEPT ![d][c] = Pulling(db[d].cursor)]
  /\ UNCHANGED <<clock, outbox, pushed, cloud, posted, db, merge>>

(***************************************************************************)
(* listEventsSince, at the cloud: the first rows after the cursor that     *)
(* are not the device's own.                                               *)
(***************************************************************************)
Others(d, after) == {p \in after + 1..Len(cloud) : cloud[p][1] # d}

ListArrives(d, c) ==
  /\ cycle[d][c].at = "pulling"
  /\ cycle' = [cycle EXCEPT
       ![d][c] = [Idle EXCEPT !.at = "listed", !.page = First(PageLimit, Others(d, cycle[d][c].after))]]
  /\ UNCHANGED <<clock, outbox, pushed, cloud, posted, db, merge>>

PullFails(d, c) ==
  /\ cycle[d][c].at = "pulling"
  /\ cycle' = [cycle EXCEPT ![d][c] = Idle]
  /\ UNCHANGED <<clock, outbox, pushed, cloud, posted, db, merge>>

-----------------------------------------------------------------------------
(* applyPulledEvents: one transaction over the page, an event at a time,   *)
(* on the store as the transaction sees it.                                *)

EndCycle(d, c) == cycle' = [cycle EXCEPT ![d][c] = Idle]

BeginMerge(d, c) ==
  /\ cycle[d][c].at = "listed"
  /\ IF cycle[d][c].page = {}
     THEN /\ EndCycle(d, c)
          /\ UNCHANGED merge
     ELSE /\ merge' = [of |-> d, by |-> c, rest |-> cycle[d][c].page, store |-> db[d]]
          /\ UNCHANGED cycle
  /\ UNCHANGED <<clock, outbox, pushed, cloud, posted, db>>

(***************************************************************************)
(* The events of a row in the outbox.                                      *)
(***************************************************************************)
OwnEdits(d, r) ==
  {id \in Written(d) : WriteOf(id).kind = "edit" /\ WriteOf(id).on = r}

(* Fault: an edit that waits to be pushed keeps newer ones out.            *)
EditWinsUnlessPending(d, store, id) ==
  /\ WriteOf(id).stamp > StampOf(store.row[WriteOf(id).on])
  /\ \A own \in OwnEdits(d, WriteOf(id).on) : own[2] \in pushed[d]

(***************************************************************************)
(* localSyncVersion and incomingWins for a row: the newer wins; in a tie   *)
(* the event ids decide, where the local one is the latest of this         *)
(* device's own edits of the row, or nothing, which compares lowest.       *)
(***************************************************************************)
EditWins(d, store, id) ==
  LET r == WriteOf(id).on
      local == StampOf(store.row[r])
      incoming == WriteOf(id).stamp
  IN  \/ incoming > local
      \/ /\ incoming = local
         /\ \A own \in OwnEdits(d, r) :
              \/ \E later \in OwnEdits(d, r) : later[2] > own[2]
              \/ IdAfter(id, own)

(* Fault: a revocation counts only where the kiosk is active.              *)
OnlyActiveKiosk(store, id) == store.kiosk[WriteOf(id).on] = "paired"

(***************************************************************************)
(* The same for a kiosk.  A revocation beats an active version; an active  *)
(* one loses against a revoked one and, since revokedAt is then undefined  *)
(* and not null, where the device has no row of the kiosk.                 *)
(***************************************************************************)
KioskWins(store, id) ==
  WriteOf(id).kind = "revoke" \/ store.kiosk[WriteOf(id).on] = "paired"

(***************************************************************************)
(* What the insert of a numbered row demands of the database: its number   *)
(* is free (UNIQUE) and its kiosk has a row (foreign key).                 *)
(***************************************************************************)
CanInsert(store, id) ==
  /\ \A other \in store.appended : Number(other) # Number(id)
  /\ WriteOf(id).on \in Kiosks => store.kiosk[WriteOf(id).on] # "none"

(***************************************************************************)
(* applyOne for an event that wins.  A kiosk always arrives revoked: a     *)
(* version without a revocation gets one now.                              *)
(***************************************************************************)
Applied(d, store, id) ==
  LET w == WriteOf(id) IN
  CASE w.kind = "edit" ->
         IF EditWins(d, store, id) THEN [store EXCEPT !.row[w.on] = w.version] ELSE store
    [] w.kind \in {"pair", "revoke"} ->
         IF KioskWins(store, id) THEN [store EXCEPT !.kiosk[w.on] = "revoked"] ELSE store
    [] w.kind = "append" ->
         [store EXCEPT !.appended = @ \union {id}]

(***************************************************************************)
(* An event is applied once and, winner or loser, marked as applied.       *)
(***************************************************************************)
Merged(d, store, id) ==
  IF id \in store.applied THEN store
  ELSE LET new == Applied(d, store, id) IN [new EXCEPT !.applied = @ \union {id}]

NextInPage == {p \in merge.rest : \A q \in merge.rest : p <= q}

Refused(id) ==
  /\ id \notin merge.store.applied
  /\ WriteOf(id).kind = "append"
  /\ ~CanInsert(merge.store, id)

ApplyOne ==
  /\ \E p \in NextInPage :
       /\ ~Refused(cloud[p])
       /\ merge' = [merge EXCEPT !.rest = @ \ {p}, !.store = Merged(merge.of, @, cloud[p])]
  /\ UNCHANGED <<clock, outbox, pushed, cloud, posted, cycle, db>>

(***************************************************************************)
(* An insert the database refuses rolls the whole page back.               *)
(***************************************************************************)
MergeAborts ==
  /\ \E p \in NextInPage : Refused(cloud[p])
  /\ merge' = NoMerge
  /\ EndCycle(merge.of, merge.by)
  /\ UNCHANGED <<clock, outbox, pushed, cloud, posted, db>>

(* Fault: the cursor moves to the end of the cloud.                        *)
ReachedEnd == {merge.store.cursor, Len(cloud)}

(***************************************************************************)
(* The cursor moves to the last row of the page, unless a cycle that       *)
(* overlapped has moved it further.                                        *)
(***************************************************************************)
Reached == {merge.store.cursor} \union cycle[merge.of][merge.by].page

MergeCommits ==
  /\ merge # NoMerge
  /\ merge.rest = {}
  /\ \E top \in Reached :
       /\ \A p \in Reached : p <= top
       /\ db' = [db EXCEPT ![merge.of] = [merge.store EXCEPT !.cursor = top]]
  /\ merge' = NoMerge
  /\ EndCycle(merge.of, merge.by)
  /\ UNCHANGED <<clock, outbox, pushed, cloud, posted>>

(***************************************************************************)
(* The manager dies and is started again: its cycles are gone and an open  *)
(* transaction is rolled back; a request that left goes on.                *)
(***************************************************************************)
Crash(d) ==
  /\ cycle' = [cycle EXCEPT ![d] = [c \in Cycles |-> Idle]]
  /\ merge' = NoMerge
  /\ UNCHANGED <<clock, outbox, pushed, cloud, posted, db>>

-----------------------------------------------------------------------------
LocalWrite(d) ==
  \/ \E r \in Rows : Edit(d, r)
  \/ \E r \in Products : Announce(d, r)
  \/ \E k \in Kiosks : PairKiosk(d, k) \/ RevokeKiosk(d, k) \/ KioskCutOff(d, k)
  \/ \E on \in Kiosks \union {Counter} : AppendRow(d, on)

CycleStep(d, c) ==
  \/ StartCycle(d, c)
  \/ PushAcknowledged(d, c)
  \/ PushFails(d, c)
  \/ ListArrives(d, c)
  \/ PullFails(d, c)
  \/ BeginMerge(d, c)

MergeStep == ApplyOne \/ MergeAborts \/ MergeCommits

(***************************************************************************)
(* While a page is being applied no other code of its device runs, and     *)
(* what the transaction does is seen by nobody before it ends: the rest of *)
(* the world takes its steps before or after it.                           *)
(***************************************************************************)
Next ==
  \/ /\ merge = NoMerge
     /\ \/ \E d \in Devices :
             \/ LocalWrite(d)
             \/ \E c \in Cycles : CycleStep(d, c)
        \/ \E request \in posted : PushArrives(request)
  \/ MergeStep
  \/ \E d \in Devices : merge.of \in {d, Nobody} /\ Crash(d)

Spec == Init /\ [][Next]_vars

-----------------------------------------------------------------------------
(* Properties.                                                             *)

Knows(d) == Written(d) \union db[d].applied

(***************************************************************************)
(* What is marked pushed is in the cloud: no acknowledgement that was      *)
(* lost, no crash and no cycle that overlaps makes a device forget an      *)
(* event nobody else has.                                                  *)
(***************************************************************************)
PushedIsInCloud == \A d \in Devices : \A n \in pushed[d] : <<d, n>> \in InCloud

(***************************************************************************)
(* The cloud holds the writes of a device once each and in the order in    *)
(* which they were made, however late its requests arrive.                 *)
(***************************************************************************)
CloudIsOrdered ==
  \A p \in 1..Len(cloud) :
    /\ \A m \in 1..cloud[p][2] - 1 : \E q \in 1..p - 1 : cloud[q] = <<cloud[p][1], m>>
    /\ \A q \in 1..Len(cloud) : cloud[q] = cloud[p] => q = p

(***************************************************************************)
(* The pull cursor of a device passes no event of another device that it   *)
(* has not applied or decided against: such an event would never be asked  *)
(* for again.                                                              *)
(***************************************************************************)
NothingSkipped ==
  \A d \in Devices : \A p \in 1..Len(cloud) :
    p <= db[d].cursor => cloud[p][1] = d \/ cloud[p] \in db[d].applied

(***************************************************************************)
(* An event marked as applied took effect: a numbered row is in the        *)
(* database, a revoked kiosk is revoked, and a row that was edited shows   *)
(* this edit or a newer one.                                               *)
(***************************************************************************)
AppliedTookEffect ==
  \A d \in Devices : \A id \in db[d].applied :
    LET w == WriteOf(id) IN
    /\ w.kind = "append" => id \in db[d].appended
    /\ w.kind = "revoke" => db[d].kiosk[w.on] = "revoked"
    /\ w.kind = "edit" => StampOf(db[d].row[w.on]) >= w.stamp

(***************************************************************************)
(* Two devices that know the same edits of a row show the same version of  *)
(* it, in whatever order they made and pulled them.                        *)
(***************************************************************************)
EditsKnown(d, r) ==
  {id \in Knows(d) : WriteOf(id).kind = "edit" /\ WriteOf(id).on = r}
RowsAgree ==
  \A d, e \in Devices : \A r \in Rows :
    EditsKnown(d, r) = EditsKnown(e, r) => db[d].row[r] = db[e].row[r]

(***************************************************************************)
(* The sync implements SharedHistory: every device learns of writes in an  *)
(* order in which whatever a write may refer to comes first.  Foreign keys *)
(* between synced tables rely on it.                                       *)
(***************************************************************************)
KnownBefore(id) ==
  {<<id[1], m>> : m \in 1..id[2] - 1} \union
  {cloud[q] : q \in {p \in 1..WriteOf(id).saw : cloud[p][1] # id[1]}}

History == INSTANCE SharedHistory WITH
  known <- [d \in Devices |-> Knows(d)],
  basis <- [d \in Devices |-> [n \in 1..Len(outbox[d]) |-> KnownBefore(<<d, n>>)]]

KeepsCausalOrder == History!Spec

-----------------------------------------------------------------------------
(***************************************************************************)
(* The engine starts a cycle at start-up and every few minutes, or sooner  *)
(* after a failure; of the requests that are repeated for ever some arrive *)
(* while their cycle waits, and their answers are processed.  Nobody has   *)
(* to write.                                                               *)
(***************************************************************************)
InTime(d, c) ==
  /\ cycle[d][c].at = "pushing"
  /\ PushArrives([from |-> d, batch |-> cycle[d][c].batch])

Fairness ==
  /\ \A d \in Devices :
       /\ \A c \in Cycles :
            /\ WF_vars(merge = NoMerge /\ StartCycle(d, c))
            /\ SF_vars(merge = NoMerge /\ InTime(d, c))
            /\ SF_vars(merge = NoMerge /\ PushAcknowledged(d, c))
            /\ SF_vars(merge = NoMerge /\ ListArrives(d, c))
            /\ SF_vars(merge = NoMerge /\ BeginMerge(d, c))
  /\ SF_vars(ApplyOne) /\ SF_vars(MergeAborts) /\ SF_vars(MergeCommits)

FairSpec == Spec /\ Fairness

(***************************************************************************)
(* Every write reaches every other device.                                 *)
(***************************************************************************)
EveryoneHears ==
  \A d, e \in Devices : \A n \in 1..MaxWrites[d] :
    d # e => (Len(outbox[d]) >= n ~> <<d, n>> \in db[e].applied)
=============================================================================
