---------------------------- MODULE StoreRestore ----------------------------
(***************************************************************************)
(* A manager writes its history to an outbox and uploads it; the machine   *)
(* is lost; a fresh installation downloads the events, replays them in one *)
(* transaction, checks the result, and goes on where the lost one stopped. *)
(*                                                                         *)
(* The store is one product, one customer, one card charge and one kiosk.  *)
(* A row stands for its id: inserting it again changes nothing, another    *)
(* row with the same number breaks a unique index.                         *)
(***************************************************************************)
EXTENDS Integers, FiniteSets, Functions

CONSTANTS
    Price,           \* what one unit costs on the account
    MaxPrices,       \* bound: versions of the product
    MaxEvents,       \* bound: events of an outbox
    MaxMachines,     \* bound: machines, the first one included
    None

VARIABLES
    store,           \* the business rows of the machine in use
    outbox,          \* its events: [id, seq, kind, row, pushed, as], "as" being
                     \* the store the event was written in, or None (history)
    sync,            \* sync_settings: [ready, enabled, backfilled]
    cloud,           \* what has been uploaded: [id, seq, kind, row]
    stage,           \* "trading", "fresh", "replayed" or "orphan"
    machine,         \* which machine is in use
    answer,          \* the last restore: "restored", "refused" or None
    kept,            \* the store as of the last uploaded event (history)
    due,             \* sequence of the last event an old store must have
                     \* uploaded, None before the backfill (history)
    silent           \* the kiosk was written without its event (history)

machineVars == <<sync, stage, machine, answer>>
historyVars == <<kept, due, silent>>
vars == <<store, outbox, cloud, machineVars, historyVars>>

(* The kinds of events, and the rows their payloads carry.                 *)
Kinds == {"settings", "product", "inventory_movement", "sale", "account_payment",
          "refund", "payment_transaction", "kiosk"}
Movements == [seq : Nat, change : Int, sale : Nat \cup {None}]
LedgerEntries ==
    [seq : Nat, amount : Int, kind : {"sale", "payment", "refund"}, of : Nat]
Sales == [no : Nat, before : Int \cup {None}, after : Int \cup {None}, kiosk : BOOLEAN]
AccountPayments == [no : Nat, previous : Int, new : Int]
Refunds == [no : Nat, sale : Nat]
PaymentTransactions ==
    [status : {"initiated", "failed", "approved"}, sale : Nat \cup {None}]
KioskStates == {"paired", "revoked"}

(* The rows of a store, and the rows of one entity, which an event carries. *)
Stores ==
    [settings : Int, product : Nat \cup {None}, moves : SUBSET Movements,
     ledger : SUBSET LedgerEntries, sales : SUBSET Sales,
     payments : SUBSET AccountPayments, refunds : SUBSET Refunds,
     charge : PaymentTransactions \cup {None}, kiosk : KioskStates \cup {None}]

RestoreAssumption ==
    /\ {Price, MaxPrices, MaxEvents, MaxMachines} \subseteq Nat \ {0}
    /\ None \notin Int \cup KioskStates \cup PaymentTransactions \cup Stores
    /\ None \notin {"restored", "refused"}

NewStore ==
    [settings |-> 0, product |-> None, moves |-> {}, ledger |-> {}, sales |-> {},
     payments |-> {}, refunds |-> {}, charge |-> None, kiosk |-> None]

(* A store from before there was an outbox: received, sold on the account. *)
OldStore ==
    [NewStore EXCEPT
        !.product = 1,
        !.moves = {[seq |-> 1, change |-> 2, sale |-> None],
                   [seq |-> 2, change |-> -1, sale |-> 1]},
        !.sales = {[no |-> 1, before |-> 0, after |-> Price, kiosk |-> FALSE]},
        !.ledger = {[seq |-> 1, amount |-> Price, kind |-> "sale", of |-> 1]}]

Total(entries) == SumFunction([e \in entries |-> e.amount])
Balance(s) == Total(s.ledger)

Largest(S) == CHOOSE n \in S \cup {0} : \A m \in S : m <= n

(* MAX + 1: inventory_movements.sequence and customer_ledger.sequence, and *)
(* nextReceiptNumber of a table.                                           *)
NextSeq(rows) == Largest({row.seq : row \in rows}) + 1
NextReceiptNumber(rows) == Largest({row.no : row \in rows}) + 1

Moved(s, change, sale) ==
    [seq |-> NextSeq(s.moves), change |-> change, sale |-> sale]
Entry(s, amount, kind, no) ==
    [seq |-> NextSeq(s.ledger), amount |-> amount, kind |-> kind, of |-> no]

(* ----------------------------- The payloads ------------------------------ *)

(* What an event carries: the rows of one entity as they are now.          *)
SettingsPayload(s) == [NewStore EXCEPT !.settings = s.settings]
ProductPayload(s) == [NewStore EXCEPT !.product = s.product]
MovementPayload(m) == [NewStore EXCEPT !.moves = {m}]
SalePayload(s, sale) ==
    [NewStore EXCEPT !.sales = {sale},
                     !.moves = {m \in s.moves : m.sale = sale.no /\ m.change < 0},
                     !.ledger = {e \in s.ledger : e.kind = "sale" /\ e.of = sale.no}]
AccountPaymentPayload(s, payment) ==
    [NewStore EXCEPT !.payments = {payment},
                     !.ledger = {e \in s.ledger : e.kind = "payment" /\ e.of = payment.no}]
RefundPayload(s, refund) ==
    [NewStore EXCEPT !.refunds = {refund},
                     !.moves = {m \in s.moves : m.sale = refund.sale /\ m.change > 0},
                     !.ledger = {e \in s.ledger : e.kind = "refund" /\ e.of = refund.no}]
PaymentTransactionPayload(s) == [NewStore EXCEPT !.charge = s.charge]
KioskPayload(s) == [NewStore EXCEPT !.kiosk = s.kiosk]

(* ------------------------------ The outbox ------------------------------- *)

SequencesOf(events) == {e.seq : e \in events}

(* AUTOINCREMENT: one more than any sequence the outbox has held.          *)
NextSequence(events) == Largest(SequencesOf(events)) + 1

Event(number, kind, row, s) ==
    [id |-> <<machine, number>>, seq |-> number, kind |-> kind, row |-> row,
     pushed |-> FALSE, as |-> s]

(* enqueueOutboxEvent, within the transaction that writes the rows.        *)
Appended(events, kind, row, s) ==
    events \cup {Event(NextSequence(events), kind, row, s)}

(* One transaction: the rows become s and the outbox has the event.        *)
Write(s, kind, row) ==
    /\ stage = "trading"
    /\ Cardinality(outbox) < MaxEvents
    /\ store' = s
    /\ outbox' = Appended(outbox, kind, row, s)

(* outboxHasEntity: a store has one entity of these kinds, and a row of    *)
(* another kind never changes.                                             *)
Single == {"settings", "product", "payment_transaction", "kiosk"}
HasEvent(kind, row) ==
    \E e \in outbox : e.kind = kind /\ (kind \in Single \/ e.row = row)

Earlier(a, b) == a[1] < b[1] \/ (a[1] = b[1] /\ a[2] < b[2])

(* The entities that have no event yet, in their places: kind by kind, the *)
(* rows of a kind by number.  A row that is not there has nothing to send, *)
(* but the settings always are.                                            *)
Owed ==
    LET single(n, kind, row) == [place |-> <<n, 0>>, kind |-> kind, row |-> row]
        entities ==
            {single(1, "settings", SettingsPayload(store)),
             single(2, "product", ProductPayload(store)),
             single(7, "payment_transaction", PaymentTransactionPayload(store)),
             single(8, "kiosk", KioskPayload(store))}
            \cup {[place |-> <<3, m.seq>>, kind |-> "inventory_movement",
                   row |-> MovementPayload(m)] : m \in store.moves}
            \cup {[place |-> <<4, sale.no>>, kind |-> "sale",
                   row |-> SalePayload(store, sale)] : sale \in store.sales}
            \cup {[place |-> <<5, p.no>>, kind |-> "account_payment",
                   row |-> AccountPaymentPayload(store, p)] : p \in store.payments}
            \cup {[place |-> <<6, r.no>>, kind |-> "refund",
                   row |-> RefundPayload(store, r)] : r \in store.refunds}
    IN  {e \in entities : /\ e.kind = "settings" \/ e.row # NewStore
                          /\ ~HasEvent(e.kind, e.row)}

(* backfillOutbox.                                                         *)
Backfill ==
    outbox \cup
        {Event(NextSequence(outbox)
                   + Cardinality({x \in Owed : Earlier(x.place, e.place)}),
               e.kind, e.row, store) : e \in Owed}

(* ----------------------------- The store trades -------------------------- *)

Quiet == UNCHANGED <<cloud, machineVars, kept, due>>

(* updateSettings.                                                         *)
UpdateSettings ==
    LET s == [store EXCEPT !.settings = machine]
    IN  /\ store.settings # machine
        /\ Write(s, "settings", SettingsPayload(s))
        /\ UNCHANGED silent /\ Quiet

(* createProduct, updateProduct.                                           *)
SaveProduct ==
    LET s == [store EXCEPT !.product = IF @ = None THEN 1 ELSE @ + 1]
    IN  /\ store.product # MaxPrices
        /\ Write(s, "product", ProductPayload(s))
        /\ UNCHANGED silent /\ Quiet

(* addInventoryMovement.                                                   *)
ReceiveStock ==
    LET m == Moved(store, 1, None)
    IN  /\ store.product # None
        /\ Write([store EXCEPT !.moves = @ \cup {m}], "inventory_movement", MovementPayload(m))
        /\ UNCHANGED silent /\ Quiet

(* completeSale on the customer's account, at the till or at the kiosk.    *)
SellOnAccount(kiosk) ==
    LET sale == [no |-> NextReceiptNumber(store.sales), before |-> Balance(store),
                 after |-> Balance(store) + Price, kiosk |-> kiosk]
        s == [store EXCEPT !.sales = @ \cup {sale},
                           !.moves = @ \cup {Moved(store, -1, sale.no)},
                           !.ledger = @ \cup {Entry(store, Price, "sale", sale.no)}]
    IN  /\ store.product # None
        /\ kiosk => store.kiosk = "paired"
        /\ Write(s, "sale", SalePayload(s, sale))
        /\ UNCHANGED silent /\ Quiet

(* recordAccountPayment.                                                   *)
PayAccount ==
    LET payment == [no |-> NextReceiptNumber(store.payments), previous |-> Balance(store),
                    new |-> Balance(store) - 1]
        s == [store EXCEPT !.payments = @ \cup {payment},
                           !.ledger = @ \cup {Entry(store, -1, "payment", payment.no)}]
    IN  /\ Balance(store) > 0
        /\ Write(s, "account_payment", AccountPaymentPayload(s, payment))
        /\ UNCHANGED silent /\ Quiet

(* createRefund of a whole account sale, restocked.                        *)
RefundSale(sale) ==
    LET refund == [no |-> NextReceiptNumber(store.refunds), sale |-> sale.no]
        s == [store EXCEPT !.refunds = @ \cup {refund},
                           !.moves = @ \cup {Moved(store, 1, sale.no)},
                           !.ledger = @ \cup {Entry(store, -Price, "refund", refund.no)}]
    IN  /\ sale \in store.sales /\ sale.before # None
        /\ \A r \in store.refunds : r.sale # sale.no
        /\ Write(s, "refund", RefundPayload(s, refund))
        /\ UNCHANGED silent /\ Quiet

(* createPaymentTransaction; a charge that failed.                         *)
SetCharge(status) ==
    LET s == [store EXCEPT !.charge = [status |-> status, sale |-> None]]
    IN  /\ store.product # None
        /\ IF status = "initiated" THEN store.charge = None
           ELSE store.charge = [status |-> "initiated", sale |-> None]
        /\ Write(s, "payment_transaction", PaymentTransactionPayload(s))
        /\ UNCHANGED silent /\ Quiet

(* completeSale of the approved charge: the sale and the charge that is    *)
(* linked to it have an event each.                                        *)
SellByCard ==
    LET sale == [no |-> NextReceiptNumber(store.sales), before |-> None, after |-> None, kiosk |-> FALSE]
        s == [store EXCEPT !.sales = @ \cup {sale},
                           !.moves = @ \cup {Moved(store, -1, sale.no)}]
        linked == [s EXCEPT !.charge = [status |-> "approved", sale |-> sale.no]]
    IN  /\ stage = "trading"
        /\ Cardinality(outbox) + 1 < MaxEvents
        /\ store.product # None
        /\ store.charge = [status |-> "initiated", sale |-> None]
        /\ store' = linked
        /\ outbox' = Appended(Appended(outbox, "sale", SalePayload(s, sale), s),
                              "payment_transaction", PaymentTransactionPayload(linked), linked)
        /\ UNCHANGED silent /\ Quiet

(* createKiosk, revokeKiosk.                                               *)
SetKiosk(status) ==
    LET s == [store EXCEPT !.kiosk = status]
    IN  /\ store.kiosk = IF status = "paired" THEN None ELSE "paired"
        /\ Write(s, "kiosk", KioskPayload(s))
        /\ UNCHANGED silent /\ Quiet

(* createKiosk is no transaction: the manager stops before the event.      *)
StopInCreateKiosk ==
    /\ stage = "trading"
    /\ store.kiosk = None
    /\ store' = [store EXCEPT !.kiosk = "paired"]
    /\ silent' = TRUE
    /\ UNCHANGED outbox /\ Quiet

(* ------------------------------- Uploading ------------------------------- *)

(* sync:saveConfig, with the automatic backup on or off.                   *)
SaveConfig(on) ==
    /\ stage = "trading"
    /\ ~sync.ready
    /\ IF on /\ ~sync.backfilled
       THEN /\ outbox' = Backfill
            /\ sync' = [ready |-> TRUE, enabled |-> TRUE, backfilled |-> TRUE]
            /\ due' = IF due = None THEN Largest(SequencesOf(Backfill)) ELSE due
       ELSE /\ sync' = [sync EXCEPT !.ready = TRUE, !.enabled = on]
            /\ UNCHANGED <<outbox, due>>
    /\ UNCHANGED <<store, cloud, stage, machine, answer, kept, silent>>

(* sync:setEnabled: no backfill.                                           *)
SetEnabled ==
    /\ stage = "trading"
    /\ sync.ready /\ ~sync.enabled
    /\ sync' = [sync EXCEPT !.enabled = TRUE]
    /\ UNCHANGED <<store, outbox, cloud, stage, machine, answer, historyVars>>

Sent(e) == [id |-> e.id, seq |-> e.seq, kind |-> e.kind, row |-> e.row]
Pending == {e \in outbox : ~e.pushed}

(* pushEvents of what is pending, up to an event: the cloud ignores an id  *)
(* it has; the manager may stop before it marks what was acknowledged.     *)
Upload(last, marked) ==
    LET batch == {e \in Pending : e.seq <= last.seq}
        new == {e \in batch : \A c \in cloud : c.id # e.id}
        told == {e \in new : e.as # None}
    IN  /\ stage = "trading" /\ sync.enabled
        /\ cloud' = cloud \cup {Sent(e) : e \in new}
        /\ kept' = IF told = {} THEN kept
                   ELSE (CHOOSE e \in told : \A x \in told : x.seq <= e.seq).as
        /\ outbox' = (outbox \ batch) \cup {[e EXCEPT !.pushed = marked] : e \in batch}
        /\ UNCHANGED <<store, machineVars, due, silent>>

(* ------------------------------- Restoring ------------------------------- *)

LoseMachine ==
    /\ stage \in {"trading", "replayed"}
    /\ machine < MaxMachines
    /\ machine' = machine + 1
    /\ stage' = "fresh"
    /\ store' = NewStore
    /\ outbox' = {}
    /\ sync' = [ready |-> FALSE, enabled |-> FALSE, backfilled |-> FALSE]
    /\ answer' = None
    /\ UNCHANGED <<cloud, historyVars>>

(* updateSettings on the fresh installation, before it is restored.        *)
SaveSettings ==
    /\ stage = "fresh"
    /\ outbox = {}
    /\ store' = [store EXCEPT !.settings = -machine]
    /\ outbox' = Appended(outbox, "settings", SettingsPayload(store'), None)
    /\ UNCHANGED <<cloud, machineVars, historyVars>>

(* isBusinessDataEmpty: no look at settings, kiosks or charges.            *)
IsRestoreAllowed ==
    /\ store.product = None
    /\ store.moves \cup store.ledger \cup store.sales \cup store.payments = {}

ApplySettings(s, row) == [s EXCEPT !.settings = row.settings]
ApplyProduct(s, row) == [s EXCEPT !.product = row.product]
ApplyInventoryMovements(s, row) == [s EXCEPT !.moves = @ \cup row.moves]
ApplyLedgerEntry(s, row) == [s EXCEPT !.ledger = @ \cup row.ledger]
ApplySale(s, row) ==
    ApplyLedgerEntry(ApplyInventoryMovements([s EXCEPT !.sales = @ \cup row.sales], row), row)
ApplyAccountPayment(s, row) ==
    ApplyLedgerEntry([s EXCEPT !.payments = @ \cup row.payments], row)
ApplyRefund(s, row) ==
    ApplyLedgerEntry(ApplyInventoryMovements([s EXCEPT !.refunds = @ \cup row.refunds], row), row)
ApplyPaymentTransaction(s, row) == [s EXCEPT !.charge = row.charge]
ApplyKiosk(s, row) == [s EXCEPT !.kiosk = "revoked"]

ApplyOne(s, e) ==
    CASE e.kind = "settings" -> ApplySettings(s, e.row)
      [] e.kind = "product" -> ApplyProduct(s, e.row)
      [] e.kind = "inventory_movement" -> ApplyInventoryMovements(s, e.row)
      [] e.kind = "sale" -> ApplySale(s, e.row)
      [] e.kind = "account_payment" -> ApplyAccountPayment(s, e.row)
      [] e.kind = "refund" -> ApplyRefund(s, e.row)
      [] e.kind = "payment_transaction" -> ApplyPaymentTransaction(s, e.row)
      [] e.kind = "kiosk" -> ApplyKiosk(s, e.row)

(* listEvents has them by sequence, and restoreFromEvents keeps the        *)
(* refunds for the end.                                                    *)
Before(a, b) ==
    \/ a.kind # "refund" /\ b.kind = "refund"
    \/ /\ a.kind = "refund" <=> b.kind = "refund"
       /\ Earlier(<<a.seq, a.id[1]>>, <<b.seq, b.id[1]>>)

(* restoreFromEvents: one event after the other.                           *)
Replayed(events) ==
    LET replay[past \in SUBSET events] ==
            IF past = {} THEN store
            ELSE LET last == CHOOSE e \in past : \A x \in past \ {e} : Before(x, e)
                 IN  ApplyOne(replay[past \ {last}], last)
    IN  replay[events]

(* INSERT OR IGNORE: a sequence the fresh outbox has used is left out.     *)
Seeded(events) ==
    outbox \cup
        {[id |-> e.id, seq |-> e.seq, kind |-> e.kind, row |-> e.row,
          pushed |-> TRUE, as |-> None] :
            e \in {x \in events :
                     /\ x.seq \notin SequencesOf(outbox)
                     /\ \A y \in events : y.seq = x.seq => ~Before(y, x)}}

(* The unique indexes that the inserts run into.                           *)
NumbersUnique(s) ==
    /\ \A a, b \in s.moves : a.seq = b.seq => a = b
    /\ \A a, b \in s.ledger : a.seq = b.seq => a = b
    /\ \A a, b \in s.sales : a.no = b.no => a = b
    /\ \A a, b \in s.payments : a.no = b.no => a = b
    /\ \A a, b \in s.refunds : a.no = b.no => a = b

(* PRAGMA foreign_key_check, and no kiosk reference dangles.               *)
NothingDangles(s) ==
    /\ s.moves \cup s.sales # {} => s.product # None
    /\ \A r \in s.refunds : \E sale \in s.sales : sale.no = r.sale
    /\ s.charge # None =>
        s.charge.sale = None \/ \E sale \in s.sales : sale.no = s.charge.sale
    /\ \A sale \in s.sales : sale.kiosk => s.kiosk # None

(* The running balance of the ledger meets what sales and payments say.    *)
LedgerReconciles(s) ==
    \A e \in s.ledger :
        LET running == Total({x \in s.ledger : x.seq < e.seq})
        IN  /\ e.kind = "sale" =>
                \E sale \in s.sales :
                    /\ sale.no = e.of
                    /\ <<sale.before, sale.after>> = <<running, running + e.amount>>
            /\ e.kind = "payment" =>
                \E p \in s.payments :
                    /\ p.no = e.of
                    /\ <<p.previous, p.new>> = <<running, running + e.amount>>
            /\ e.kind = "refund" => \E r \in s.refunds : r.no = e.of

VerifyRestoreIntegrity(s) ==
    /\ NumbersUnique(s)
    /\ NothingDangles(s)
    /\ LedgerReconciles(s)

(* The panel is shown, and a store with this id has events.                *)
Offered ==
    /\ stage = "fresh"
    /\ IsRestoreAllowed
    /\ cloud # {}

(* restoreFromCloud, accepted: rows and outbox in one transaction.         *)
Restore ==
    /\ Offered
    /\ VerifyRestoreIntegrity(Replayed(cloud))
    /\ store' = Replayed(cloud)
    /\ outbox' = Seeded(cloud)
    /\ stage' = "replayed"
    /\ answer' = "restored"
    /\ UNCHANGED <<sync, cloud, machine, historyVars>>

(* Everything is rolled back; the button may be pressed again.             *)
RefuseRestore ==
    /\ Offered
    /\ ~VerifyRestoreIntegrity(Replayed(cloud))
    /\ answer' = "refused"
    /\ UNCHANGED <<store, outbox, sync, cloud, stage, machine, historyVars>>

(* sync:restore: the store id and the credentials of the lost machine.     *)
Adopt ==
    /\ stage = "replayed"
    /\ stage' = "trading"
    /\ sync' = [ready |-> TRUE, enabled |-> TRUE, backfilled |-> TRUE]
    /\ answer' = None
    /\ kept' = store
    /\ due' = 0
    /\ silent' = FALSE
    /\ UNCHANGED <<store, outbox, cloud, machine>>

(* The manager stops before that: the rows are there, and nothing can be   *)
(* restored over them; its next cloud id is that of another store.         *)
StopBeforeAdopt ==
    /\ stage = "replayed"
    /\ stage' = "orphan"
    /\ answer' = None
    /\ UNCHANGED <<store, outbox, sync, cloud, machine, historyVars>>

(* ---------------------------- The specification -------------------------- *)

Init ==
    /\ \E s \in {NewStore, OldStore} :
        /\ store = s
        /\ kept = s
        /\ due = IF s = NewStore THEN 0 ELSE None
    /\ outbox = {}
    /\ sync = [ready |-> FALSE, enabled |-> FALSE, backfilled |-> FALSE]
    /\ cloud = {}
    /\ stage = "trading"
    /\ machine = 1
    /\ answer = None
    /\ silent = FALSE

Next ==
    \/ UpdateSettings
    \/ SaveProduct
    \/ ReceiveStock
    \/ \E kiosk \in BOOLEAN : SellOnAccount(kiosk)
    \/ PayAccount
    \/ \E sale \in store.sales : RefundSale(sale)
    \/ \E status \in {"initiated", "failed"} : SetCharge(status)
    \/ SellByCard
    \/ \E status \in {"paired", "revoked"} : SetKiosk(status)
    \/ StopInCreateKiosk
    \/ \E on \in BOOLEAN : SaveConfig(on)
    \/ SetEnabled
    \/ \E last \in Pending, marked \in BOOLEAN : Upload(last, marked)
    \/ LoseMachine
    \/ SaveSettings
    \/ Restore
    \/ RefuseRestore
    \/ Adopt
    \/ StopBeforeAdopt

Spec == Init /\ [][Next]_vars

(* ------------------------------- Properties ------------------------------ *)

TypeOK ==
    /\ {store, kept} \subseteq Stores
    /\ outbox \subseteq [id : (Nat \X Nat), seq : Nat, kind : Kinds, row : Stores,
                         pushed : BOOLEAN, as : Stores \cup {None}]
    /\ cloud \subseteq [id : (Nat \X Nat), seq : Nat, kind : Kinds, row : Stores]
    /\ due \in Nat \cup {None}
    /\ silent \in BOOLEAN
    /\ stage \in {"trading", "fresh", "replayed", "orphan"}
    /\ answer \in {"restored", "refused", None}
    /\ machine \in 1..MaxMachines
    /\ sync \in [ready : BOOLEAN, enabled : BOOLEAN, backfilled : BOOLEAN]

(* Every row an old store had before it had an outbox is in the cloud, and *)
(* no event of the kiosk was lost.                                         *)
Whole == ~silent /\ due # None /\ 1..due \subseteq SequencesOf(cloud)

(* Settings saved before a restore keep their place in the outbox, and the *)
(* next restore reads them there.                                          *)
Ordered == \A a, b \in cloud : a.seq = b.seq => a = b

(* What a restore brings back of a store: a kiosk has to be paired again,  *)
(* and settings that were never uploaded are those of the new machine.     *)
Restorable(s) ==
    [s EXCEPT !.kiosk = IF @ = None THEN None ELSE "revoked",
              !.settings = IF Ordered /\ kept.settings > 0 THEN @ ELSE 0]

(* A machine that is lost can be restored, again and again: unless rows    *)
(* were written that have no event, a restore is not refused, and it gives *)
(* the stock, the ledger with its order, the receipts, the refunds, the    *)
(* price and the charge of the moment of the last uploaded event.          *)
RestoredIsTheStore ==
    Whole => /\ answer # "refused"
             /\ answer = "restored" => Restorable(store) = Restorable(kept)
==============================================================================
