----------------------------- MODULE MCBackOffice -----------------------------
(***************************************************************************)
(* BackOffice for TLC, with the bounds of MCStoreBooks for the books.  A   *)
(* behaviour plays one scene: one component takes its steps and the others *)
(* stay as they started, so that the states of the run are the sum of the  *)
(* components' and not their product, which adds only interleavings of     *)
(* steps that cannot see each other.                                       *)
(***************************************************************************)
EXTENDS BackOffice, MCStoreBooks

CONSTANTS wine, logo, owner, cashier, sell, counter, office, family, friends

VARIABLE scene

MCShelfStart == [p \in {wine} |-> 2]
MCKeep == [kind \in {"scheduled", "manual", "premigration", "prerestore"} |-> 1]

Scenes == {"books", "count", "till", "copies", "cloud", "door", "claims", "moves"}

(* A component that does not play has one initial state.                   *)
SceneInit ==
    /\ scene \in Scenes
    /\ OfficeInit
    /\ scene # "till" => known = {}
    /\ scene # "copies" => version = 2
    /\ scene # "cloud" => store = Cloud!NewStore

(* An acknowledgement is lost only while the outbox is short: an outbox    *)
(* that was backfilled is longer than its bound, and is marked as it is    *)
(* uploaded, in batches of any length.                                     *)
BackfillIsMarked ==
    Cardinality(outbox) > MaxEvents => cloud' = cloud \/ outbox' # outbox

(* The last machine cannot be lost, so nothing restores what it writes:    *)
(* its part is to be restored a second time.                               *)
NothingFollows == machine = MaxMachines /\ stage # "fresh"

(* Nothing is promised of a store whose kiosk has no event, up to its next *)
(* restore: it uploads what it has, and may be lost, but trades no more.   *)
NoTradeUnpromised ==
    silent /\ stage = "trading" => store' = store \/ stage' # stage

(* Two managers, one of which had a backup of its own, join one account.   *)
OneAccount == \A d \in Devices : signedIn'[d] # friends /\ signIns'[d] < 2

(* One manager whose owner has two accounts.                               *)
OneDevice == signIns'[office] = 0 /\ ownSales'[office] = ownSales[office]

(* Money is put into the drawer and taken out of it on the last day only:  *)
(* that day is closed, refunded on and shown like the others.              *)
MovedLate == moved' # moved => today = LastDay

SceneNext ==
    /\ \/ scene = "books" /\ KeepBooks /\ MovedLate
       \/ scene = "count" /\ CountStock
       \/ scene = "till" /\ UseTill
       \/ scene = "copies" /\ KeepCopies
       \/ scene = "cloud" /\ RestoreFromCloud
          /\ BackfillIsMarked /\ ~NothingFollows /\ NoTradeUnpromised
       \/ scene = "door" /\ AskAtTheDoor
       \/ scene = "claims" /\ JoinAccount /\ OneAccount
       \/ scene = "moves" /\ JoinAccount /\ OneDevice
    /\ UNCHANGED scene

SceneSpec == SceneInit /\ [][SceneNext]_<<scene, officeVars>>
==============================================================================
