---------------------------- MODULE CloudAccount ----------------------------
(***************************************************************************)
(* The managers of one or several store accounts: signing in, finding out  *)
(* which cloud store the account has, joining it under a receipt prefix of *)
(* their own, and the engine that pushes their sales to it.                *)
(*                                                                         *)
(* Joining awaits the cloud at every turn.  It may fail there, the answer  *)
(* may be lost, the manager may die, or a failed refresh of its tokens may *)
(* sign it out; what was written by then stays, and the next start goes on *)
(* from it.  Nobody signs in while an earlier sign-in is under way.        *)
(*                                                                         *)
(* An account stands for the id of the store the cloud gives it, a device  *)
(* for the id it made up for itself; a receipt number is a prefix and a    *)
(* number within its range.                                                *)
(***************************************************************************)
EXTENDS Naturals, Sequences, FiniteSets, FiniteSetsExt

CONSTANTS
    Devices, Accounts,
    Legacy,          \* devices that had a backup under a store id they made up
    MaxSales,        \* bound: sales of one device
    MaxSignIns,      \* bound: sign-ins of one device
    None

AccountAssumption ==
    /\ IsFiniteSet(Devices) /\ Legacy \subseteq Devices
    /\ Devices \cap Accounts = {} /\ None \notin Devices \cup Accounts
    /\ {MaxSales, MaxSignIns} \subseteq Nat

VARIABLES
    account,         \* whose tokens the manager has, or None
    stored,          \* the store id in cloud-account.json, or None
    local,           \* sync_settings: [store, prefix, claimed]
    sales,           \* own sales: [no, pushed, under], "pushed" being the store
                     \* that acknowledged it, "under" the store that had given
                     \* the prefix out (history)
    pulled,          \* events of other devices: [device, no]
    seeded,          \* the outbox holds events a restore brought
    stage,           \* joining: "idle", "identity", "looking", "reading",
                     \* "claiming" or "restoring"
    found,           \* what joining has read: the identity of this device
                     \* before it, or the prefix to claim
    engine,          \* the engine of the account runs
    storeOf,         \* external: the store of an account, or None
    registered,      \* external: store_devices, [device, prefix] by store
    events,          \* external: store_sync_events by store
    joined,          \* the store that confirmed the prefix, or None (history)
    astray,          \* the store id changed under a claimed prefix (history)
    signIns

fileVars == <<account, stored>>
databaseVars == <<local, sales, pulled, seeded>>
joinVars == <<stage, found>>
cloudVars == <<storeOf, registered, events>>
historyVars == <<joined, astray, signIns>>
vars == <<fileVars, databaseVars, joinVars, engine, cloudVars, historyVars>>

Stores == Accounts \cup Legacy
Stages == {"idle", "identity", "looking", "reading", "claiming", "restoring"}

(* ------------------------------ The database ----------------------------- *)

HasPushedSyncEvents(d) ==
    seeded[d] \/ \E i \in DOMAIN sales[d] : sales[d][i].pushed # None

IsRestoreAllowed(d) == sales[d] = <<>> /\ pulled[d] = {}

OwnNumbers(d) == {sales[d][i].no : i \in DOMAIN sales[d]}
Numbers(d) == OwnNumbers(d) \cup {e.no : e \in pulled[d]}

(* nextReceiptNumber: the largest number of the range, and one more.       *)
NextReceiptNumber(d) ==
    LET used == {n[2] : n \in {m \in Numbers(d) : m[1] = local[d].prefix}}
    IN  <<local[d].prefix, 1 + Max(used \cup {0})>>

(* A sale with its event in the outbox.                                    *)
Sell(d) ==
    /\ Len(sales[d]) < MaxSales
    /\ sales' = [sales EXCEPT ![d] = Append(@,
         [no |-> NextReceiptNumber(d), pushed |-> None, under |-> joined[d]])]
    /\ UNCHANGED <<fileVars, local, pulled, seeded, joinVars, engine, cloudVars,
                   historyVars>>

(* ---------------------- Signing in and out, the tokens ------------------- *)

(* signIn, signUp, signInWithGoogle: the tokens are saved before the store *)
(* of the account is asked for, and with it what this device is.           *)
SignIn(d, a) ==
    /\ stage[d] = "idle"
    /\ signIns[d] < MaxSignIns
    /\ account' = [account EXCEPT ![d] = a]
    /\ stage' = [stage EXCEPT ![d] = "identity"]
    /\ found' = [found EXCEPT ![d] =
         [store |-> local[d].store, pushed |-> HasPushedSyncEvents(d)]]
    /\ signIns' = [signIns EXCEPT ![d] = @ + 1]
    /\ UNCHANGED <<stored, databaseVars, engine, cloudVars, joined, astray>>

(* signOut, by the owner, or because the tokens could not be refreshed:    *)
(* the store id stays, and so does the engine, which cannot push any more. *)
SignOut(d) ==
    /\ account[d] # None
    /\ account' = [account EXCEPT ![d] = None]
    /\ UNCHANGED <<stored, databaseVars, joinVars, engine, cloudVars, historyVars>>

(* What the cloud answers to POST /api/store/account: an account keeps the *)
(* store it has; a new one adopts the store of the device that asks for it *)
(* unless somebody has it, or gets one of its own.                         *)
StoreFor(a, adopt) ==
    IF storeOf[a] # None THEN storeOf[a]
    ELSE IF adopt # None /\ \A b \in Accounts : storeOf[b] # adopt THEN adopt
    ELSE a

(* ------------------------------- Joining --------------------------------- *)

(* Fault: a device joins whatever store its account has.                   *)
AnyStore(d, s) == TRUE

(* configureAccountStore refuses another store once something was pushed.  *)
MayConfigure(d, s) ==
    local[d].store = None \/ local[d].store = s \/ ~HasPushedSyncEvents(d)

PrefixAssigned(d, s) == local[d].store = s /\ local[d].claimed

(* configureAccountStore up to its first await: the store id is written,   *)
(* and whether the prefix has to be claimed is known from what was there.  *)
Configure(d, s) ==
    /\ local' = [local EXCEPT ![d].store = s]
    /\ stage' = [stage EXCEPT ![d] =
         IF PrefixAssigned(d, s) THEN "restoring" ELSE "looking"]
    /\ joined' = [joined EXCEPT ![d] =
         IF PrefixAssigned(d, s) THEN s ELSE None]
    /\ astray' = [astray EXCEPT ![d] =
         @ \/ (local[d].claimed /\ local[d].store # s)]

(* afterSignIn: the store id is kept in the file before it is compared     *)
(* with the identity this device had when the request was made.            *)
IdentityAnswered(d) ==
    /\ stage[d] = "identity" /\ account[d] # None
    /\ LET adopt == IF found[d].pushed THEN found[d].store ELSE None
           s == StoreFor(account[d], adopt)
           other == found[d].store # None /\ found[d].store # s
       IN  /\ storeOf' = [storeOf EXCEPT ![account[d]] = s]
           /\ stored' = [stored EXCEPT ![d] = s]
           /\ \/ /\ (other => found[d].pushed) /\ MayConfigure(d, s)
                 /\ Configure(d, s)
              \/ /\ (other /\ ~found[d].pushed) \/ ~MayConfigure(d, s)
                 /\ stage' = [stage EXCEPT ![d] = "idle"]
                 /\ UNCHANGED <<local, joined, astray>>
    /\ found' = [found EXCEPT ![d] = None]
    /\ UNCHANGED <<account, sales, pulled, seeded, engine, registered, events,
                   signIns>>

(* The cloud shows and takes rows of the account's own store only.         *)
Trusted(d) ==
    /\ account[d] # None /\ local[d].store # None
    /\ storeOf[account[d]] = local[d].store

RowsOf(d) == registered[local[d].store]

(* The prefix is kept only once the cloud has confirmed it.               *)
Granted(d, prefix) ==
    /\ local' = [local EXCEPT ![d].prefix = prefix, ![d].claimed = TRUE]
    /\ joined' = [joined EXCEPT ![d] = local[d].store]
    /\ stage' = [stage EXCEPT ![d] = "restoring"]
    /\ found' = [found EXCEPT ![d] = None]

(* claimDevicePrefix: the row of this device, if there is one.             *)
ClaimFound(d) ==
    /\ stage[d] = "looking" /\ Trusted(d)
    /\ \E row \in RowsOf(d) : row.device = d /\ Granted(d, row.prefix)
    /\ UNCHANGED <<fileVars, sales, pulled, seeded, engine, cloudVars, astray, signIns>>

ClaimMissing(d) ==
    /\ stage[d] = "looking" /\ Trusted(d)
    /\ \A row \in RowsOf(d) : row.device # d
    /\ stage' = [stage EXCEPT ![d] = "reading"]
    /\ UNCHANGED <<fileVars, databaseVars, found, engine, cloudVars, historyVars>>

(* The largest prefix that is registered, and one more.                    *)
PrefixesRead(d) ==
    /\ stage[d] = "reading" /\ Trusted(d)
    /\ found' = [found EXCEPT ![d] = 1 + Max({row.prefix : row \in RowsOf(d)} \cup {0})]
    /\ stage' = [stage EXCEPT ![d] = "claiming"]
    /\ UNCHANGED <<fileVars, databaseVars, engine, cloudVars, historyVars>>

(* store_devices is unique by device and by prefix within a store.         *)
Taken(d) == \E row \in RowsOf(d) : row.device = d \/ row.prefix = found[d]

Registered(d) ==
    registered' = [registered EXCEPT ![local[d].store] =
                     @ \cup {[device |-> d, prefix |-> found[d]]}]

ClaimAccepted(d) ==
    /\ stage[d] = "claiming" /\ Trusted(d) /\ ~Taken(d)
    /\ Registered(d)
    /\ Granted(d, found[d])
    /\ UNCHANGED <<fileVars, sales, pulled, seeded, engine, storeOf, events, astray,
                   signIns>>

(* HTTP 409: another device was faster, the prefixes are read again.       *)
ClaimRaced(d) ==
    /\ stage[d] = "claiming" /\ Trusted(d) /\ Taken(d)
    /\ stage' = [stage EXCEPT ![d] = "reading"]
    /\ found' = [found EXCEPT ![d] = None]
    /\ UNCHANGED <<fileVars, databaseVars, engine, cloudVars, historyVars>>

(* The claim is registered and its answer lost.                            *)
ClaimAnswerLost(d) ==
    /\ stage[d] = "claiming" /\ Trusted(d) /\ ~Taken(d)
    /\ Registered(d)
    /\ stage' = [stage EXCEPT ![d] = "idle"]
    /\ found' = [found EXCEPT ![d] = None]
    /\ UNCHANGED <<fileVars, databaseVars, engine, storeOf, events, historyVars>>

(* A request fails; a failed refresh of the tokens signs out as well.      *)
JoinFails(d) ==
    /\ stage[d] # "idle"
    /\ stage' = [stage EXCEPT ![d] = "idle"]
    /\ found' = [found EXCEPT ![d] = None]
    /\ \E a \in {account[d], None} : account' = [account EXCEPT ![d] = a]
    /\ UNCHANGED <<stored, databaseVars, engine, cloudVars, historyVars>>

(* recreateSyncEngine.                                                     *)
EngineOf(tokens, id, store) == tokens # None /\ id # None /\ store # None

(* The end of configureAccountStore: an empty manager is filled from the   *)
(* cloud, whose failure is passed over, and the engine is made anew.       *)
Joined(d) ==
    /\ stage[d] = "restoring"
    /\ \/ UNCHANGED <<pulled, seeded>>
       \/ /\ IsRestoreAllowed(d) /\ Trusted(d) /\ events[local[d].store] # {}
          /\ pulled' = [pulled EXCEPT ![d] = events[local[d].store]]
          /\ seeded' = [seeded EXCEPT ![d] = TRUE]
    /\ stage' = [stage EXCEPT ![d] = "idle"]
    /\ engine' = [engine EXCEPT ![d] = EngineOf(account[d], stored[d], local[d].store)]
    /\ UNCHANGED <<fileVars, local, sales, found, cloudVars, historyVars>>

(* The manager dies and is started again: it joins the store of the file   *)
(* if it is signed in, and starts the engine without waiting for it.       *)
Boot(d) ==
    /\ \/ /\ account[d] # None /\ stored[d] # None /\ MayConfigure(d, stored[d])
          /\ Configure(d, stored[d])
       \/ /\ ~(account[d] # None /\ stored[d] # None /\ MayConfigure(d, stored[d]))
          /\ stage' = [stage EXCEPT ![d] = "idle"]
          /\ UNCHANGED <<local, joined, astray>>
    /\ found' = [found EXCEPT ![d] = None]
    /\ engine' = [engine EXCEPT ![d] = EngineOf(account[d], stored[d], local'[d].store)]
    /\ UNCHANGED <<fileVars, sales, pulled, seeded, cloudVars, signIns>>

(* ------------------------------- The engine ------------------------------ *)

(* The store takes an event it does not have: an event that any store has  *)
(* is passed over, and acknowledged all the same.                          *)
Taking(s, e) ==
    IF \E other \in Stores : e \in events[other] THEN events
    ELSE [events EXCEPT ![s] = @ \cup {e}]

(* The oldest event goes to the store of sync_settings; the answer may be  *)
(* lost, and the event is sent again later.  A store id that is set once   *)
(* changes only while the manager starts, when no push is under way.       *)
Push(d) ==
    /\ engine[d] /\ Trusted(d)
    /\ \E i \in DOMAIN sales[d] :
         /\ sales[d][i].pushed = None
         /\ \A j \in 1..(i - 1) : sales[d][j].pushed # None
         /\ events' = Taking(local[d].store, [device |-> d, no |-> sales[d][i].no])
         /\ \E answer \in {local[d].store, None} :
              sales' = [sales EXCEPT ![d][i].pushed = answer]
    /\ UNCHANGED <<fileVars, local, pulled, seeded, joinVars, engine, storeOf,
                   registered, historyVars>>

(* A page with a receipt number that is in use here is refused as a whole. *)
Pull(d) ==
    /\ engine[d] /\ Trusted(d)
    /\ LET new == {e \in events[local[d].store] \ pulled[d] : e.device # d}
       IN  /\ new # {}
           /\ \A e \in new : e.no \notin Numbers(d)
           /\ \A e, f \in new : e.no = f.no => e = f
           /\ pulled' = [pulled EXCEPT ![d] = @ \cup new]
    /\ UNCHANGED <<fileVars, local, sales, seeded, joinVars, engine, cloudVars,
                   historyVars>>

(* A device of Legacy has uploaded one sale under its own store id, to a   *)
(* cloud of its owner's; it uploads nothing there once it has signed in.   *)
Init ==
    /\ account = [d \in Devices |-> None]
    /\ stored = [d \in Devices |-> None]
    /\ local = [d \in Devices |->
         [store |-> IF d \in Legacy THEN d ELSE None, prefix |-> 1, claimed |-> FALSE]]
    /\ sales = [d \in Devices |->
         IF d \in Legacy THEN <<[no |-> <<1, 1>>, pushed |-> d, under |-> None]>>
         ELSE <<>>]
    /\ pulled = [d \in Devices |-> {}]
    /\ seeded = [d \in Devices |-> FALSE]
    /\ stage = [d \in Devices |-> "idle"]
    /\ found = [d \in Devices |-> None]
    /\ engine = [d \in Devices |-> FALSE]
    /\ storeOf = [a \in Accounts |-> None]
    /\ registered = [s \in Stores |-> {}]
    /\ events = [s \in Stores |-> {}]
    /\ joined = [d \in Devices |-> None]
    /\ astray = [d \in Devices |-> FALSE]
    /\ signIns = [d \in Devices |-> 0]

Next ==
    \E d \in Devices :
        \/ Sell(d)
        \/ \E a \in Accounts : SignIn(d, a)
        \/ SignOut(d) \/ IdentityAnswered(d)
        \/ ClaimFound(d) \/ ClaimMissing(d) \/ PrefixesRead(d)
        \/ ClaimAccepted(d) \/ ClaimRaced(d) \/ ClaimAnswerLost(d)
        \/ JoinFails(d) \/ Joined(d) \/ Boot(d)
        \/ Push(d) \/ Pull(d)

Spec == Init /\ [][Next]_vars

-----------------------------------------------------------------------------
Numbering == Nat \X Nat
Sales == [no : Numbering, pushed : Stores \cup {None}, under : Stores \cup {None}]
Events == [device : Devices, no : Numbering]
Rows == [device : Devices, prefix : Nat \ {0}]
Identities == [store : Stores \cup {None}, pushed : BOOLEAN]
Settings == [store : Stores \cup {None}, prefix : Nat \ {0}, claimed : BOOLEAN]

TypeOK ==
    /\ account \in [Devices -> Accounts \cup {None}]
    /\ stored \in [Devices -> Stores \cup {None}]
    /\ local \in [Devices -> Settings]
    /\ sales \in [Devices -> Seq(Sales)]
    /\ pulled \in [Devices -> SUBSET Events]
    /\ seeded \in [Devices -> BOOLEAN] /\ engine \in [Devices -> BOOLEAN]
    /\ stage \in [Devices -> Stages] /\ DOMAIN found = Devices
    /\ \A d \in Devices :
         /\ stage[d] = "identity" => found[d] \in Identities
         /\ stage[d] = "claiming" => found[d] \in Nat \ {0}
    /\ storeOf \in [Accounts -> Stores \cup {None}]
    /\ registered \in [Stores -> SUBSET Rows]
    /\ events \in [Stores -> SUBSET Events]
    /\ joined \in [Devices -> Stores \cup {None}]
    /\ astray \in [Devices -> BOOLEAN] /\ signIns \in [Devices -> Nat]

(* What a manager got acknowledged is in one store, whoever signs in on it *)
(* and however often it is started; and two managers whose prefixes the    *)
(* same store has given out never number their sales alike, through raced  *)
(* claims, lost answers and crashes.  Left out are managers that changed   *)
(* their store under a claimed prefix: if the claim in the new store fails *)
(* they keep the old prefix for good (configureAccountStore,               *)
(* claimDevicePrefix, nextReceiptNumber).                                  *)
ManagersKeepApart ==
    /\ \A d \in Devices : \A i, j \in DOMAIN sales[d] :
         sales[d][i].pushed # None /\ sales[d][j].pushed # None =>
             sales[d][i].pushed = sales[d][j].pushed
    /\ \A d, e \in {f \in Devices : ~astray[f]} : d # e =>
         \A i \in DOMAIN sales[d], j \in DOMAIN sales[e] :
             sales[d][i].under # None /\ sales[d][i].under = sales[e][j].under =>
                 sales[d][i].no # sales[e][j].no
=============================================================================
