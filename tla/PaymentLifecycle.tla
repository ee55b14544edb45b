-------------------------- MODULE PaymentLifecycle --------------------------
(***************************************************************************)
(* The card charge lifecycle of the manager: PaymentService (validate,     *)
(* charge, finalize, reconcile, resolveNeedsAttention) over the journal,   *)
(* the stock reservations and the sales of StoreDatabase, with the         *)
(* processor of CardProcessors.                                            *)
(*                                                                         *)
(* The manager is one JavaScript thread over SQLite. Code between two      *)
(* awaits runs alone, so most handlers are one atomic step; the thread can *)
(* still die between two database transactions. "thread" is where the      *)
(* thread stands between such transactions: it is not idle while a         *)
(* finalization is under way, and then only the terminal and a crash can   *)
(* take a step. "rec" holds the getChargeStatus calls being awaited.       *)
(***************************************************************************)
EXTENDS CardProcessors, Integers, FiniteSets, Functions

CONSTANTS
    Carts,            \* completion keys: one per cart, also its idempotency key
    Products,
    Reconcilers,      \* getChargeStatus calls that can be awaited at once
    CartOf,           \* the idempotency key each charge is requested with
    Lines,            \* Lines[k][p]: quantity of product p in cart k, 0 if none
    Weighted,         \* products sold by weight, stocked in thousandths of a unit
    InitialStock,     \* units on hand of each product (thousandths if weighted)
    Movements,        \* quantities of the movements that are not sales
    Retirable,        \* bound: products taken on and off sale in a run
    AdjustedRange,    \* bound: the net adjustments of a product that are explored
    KioskServing,     \* the kiosk server runs, and with it the ten-minute sweep
    NoCharge          \* not a charge

ASSUME LifecycleAssumption ==
    /\ NoCharge \notin Charges
    /\ CartOf \in [Charges -> Carts]
    /\ Lines \in [Carts -> [Products -> Nat]]
    /\ Weighted \subseteq Products
    /\ InitialStock \in [Products -> Nat]
    /\ Movements \subseteq Int
    /\ AdjustedRange \subseteq Int
    /\ Retirable \subseteq Products
    /\ KioskServing \in BOOLEAN

VARIABLES
    journal,          \* payment_transactions: [status, linked, reason] per charge
    hold,             \* payment_inventory_reservations of each charge
    sale,             \* the sale made under each completion key: [tender, charge]
    stock,            \* sum of the inventory movements of each product
    adjusted,         \* sum of the movements that are not sales
    lost,             \* history: products such a movement took units of
    active,           \* products that may be sold
    up,               \* the manager is running
    thread,           \* [at, charge]: the finalization under way, if any
    rec               \* [at, charge]: the status call each reconciler awaits

payVars == <<journal, hold, sale, stock, adjusted, lost, active, up, thread, rec>>
vars == <<procVars, payVars>>

(* What this module implements, of which it takes the counting of stock.   *)
Promise == INSTANCE StockReservation

Statuses == {"absent", "initiated", "approved", "declined", "error", "unknown",
             "needs-attention", "voided"}
Reasons == {"none", "processor-changed", "reconciliation-failed",
            "finalization-failed"}
ThreadSteps == {"idle", "complete", "mark", "fail"}
RecSteps == Results \cup {"free", "looking", "throw"}

TypeOK ==
    /\ ProcTypeOK
    /\ journal \in [Charges -> [status : Statuses, linked : BOOLEAN, reason : Reasons]]
    /\ hold \in [Charges -> {"none", "held", "consumed", "released"}]
    /\ sale \in [Carts -> [tender : {"none", "cash", "card"},
                           charge : Charges \cup {NoCharge}]]
    /\ stock \in [Products -> Int]
    /\ adjusted \in [Products -> Int]
    /\ lost \subseteq Products
    /\ active \subseteq Products
    /\ up \in BOOLEAN
    /\ thread \in [at : ThreadSteps, charge : Charges \cup {NoCharge}]
    /\ rec \in [Reconcilers -> [at : RecSteps, charge : Charges \cup {NoCharge}]]

NoSale == [tender |-> "none", charge |-> NoCharge]
Idle == [at |-> "idle", charge |-> NoCharge]
Free == [at |-> "free", charge |-> NoCharge]
NoRow == [status |-> "absent", linked |-> FALSE, reason |-> "none"]

Init ==
    /\ ProcInit
    /\ journal = [c \in Charges |-> NoRow]
    /\ hold = [c \in Charges |-> "none"]
    /\ sale = [k \in Carts |-> NoSale]
    /\ stock = InitialStock
    /\ adjusted = [p \in Products |-> 0]
    /\ lost = {}
    /\ active = Products
    /\ up = TRUE
    /\ thread = Idle
    /\ rec = [w \in Reconcilers |-> Free]

(* A handler starts only when the thread runs no other code.               *)
CanRun == up /\ thread.at = "idle"

-----------------------------------------------------------------------------
(* The database: stock, reservations and the journal's triggers *)

(* Lines of a cart on a product as a reservation counts them.              *)
Reserved(c, p) == Lines[CartOf[c]][p]

(* The same lines as completeSale counts them: a weighted product is sold  *)
(* in thousandths.                                                         *)
Units(k, p) == IF p \in Weighted THEN 1000 * Lines[k][p] ELSE Lines[k][p]

(* heldQuantityFor: what charges other than "except" hold of a product.    *)
HeldBut(except, p) == Promise!HeldBut(except, p)

InCart(k) == {p \in Products : Lines[k][p] > 0}

(* Fault: the stock check forgets what other charges hold.                 *)
CanReserveHeld(c) ==
    \A p \in InCart(CartOf[c]) : p \in active /\ Reserved(c, p) <= stock[p]

(* validate and, again, createPaymentTransaction: every line is active and *)
(* covered by stock that no reservation holds.                             *)
CanReserve(c) ==
    \A p \in InCart(CartOf[c]) :
        /\ p \in active
        /\ HeldBut(NoCharge, p) <= stock[p] - Reserved(c, p)

(* Fault: completeSale sells what is on the shelf, held or not.            *)
CanSellHeld(k, charge) ==
    \A p \in InCart(k) : p \in active /\ Units(k, p) <= stock[p]

(* completeSale's check of the lines of cart k, leaving out the            *)
(* reservation of the charge that pays for it.                             *)
CanSell(k, charge) ==
    \A p \in InCart(k) :
        /\ p \in active
        /\ HeldBut(charge, p) <= stock[p] - Units(k, p)

(* The movements of a completed sale.                                      *)
Sell(k) == stock' = [p \in Products |-> stock[p] - Units(k, p)]

(* The trigger payment_transactions_status_transitions.                    *)
Legal(from, to) ==
    \/ from = to
    \/ from = "initiated" /\ to \in {"approved", "declined", "error", "unknown",
                                     "needs-attention"}
    \/ from = "unknown" /\ to \in {"approved", "declined", "error",
                                   "needs-attention", "voided"}
    \/ from = "approved" /\ to = "needs-attention"
    \/ from = "needs-attention" /\ to \in {"approved", "voided"}

(* Fault: a failed charge keeps its stock.                                 *)
ReleasesDeclined(status) == status = "declined"

(* Statuses that give the held stock back.                                 *)
Releases(status) == status \in {"declined", "error"}

(* Fault: the update lacks its "AND status='held'".                        *)
ReleaseAny(c) == hold' = [hold EXCEPT ![c] = "released"]

ReleaseHold(c) ==
    hold' = [hold EXCEPT ![c] = IF @ = "held" THEN "released" ELSE @]

(* updatePaymentTransactionStatus, when the trigger lets it through.       *)
SetStatus(c, status) ==
    /\ journal' = [journal EXCEPT ![c].status = status]
    /\ IF Releases(status) THEN ReleaseHold(c) ELSE UNCHANGED hold

(* markPaymentNeedsAttention; the row is left alone if the trigger aborts. *)
Flag(c, reason) ==
    journal' = IF Legal(journal[c].status, "needs-attention")
               THEN [journal EXCEPT ![c].status = "needs-attention",
                                    ![c].reason = reason]
               ELSE journal

(* Fault: only a charge in progress blocks another one for its cart.       *)
NoneInProgress(c) ==
    \A d \in Charges : CartOf[d] = CartOf[c]
        => journal[d].status \notin {"initiated", "unknown"}

(* Nobody has used this idempotency key: the unique index, and replay      *)
(* before it.                                                              *)
KeyUnused(c) ==
    \A d \in Charges : CartOf[d] = CartOf[c] => journal[d].status = "absent"

-----------------------------------------------------------------------------
(* charge *)

(* replay finds nothing, validate passes, the journal row and the          *)
(* reservation are written in one transaction and createCharge is called.  *)
(* Every other outcome of a charge request changes nothing.                *)
Charge(c) ==
    /\ CanRun
    /\ KeyUnused(c)
    /\ InCart(CartOf[c]) # {}
    /\ CanReserve(c)
    /\ journal' = [journal EXCEPT ![c].status = "initiated"]
    /\ hold' = [hold EXCEPT ![c] = "held"]
    /\ SendCharge(c)
    /\ UNCHANGED <<sale, stock, adjusted, lost, active, up, thread, rec>>

(* The adapter's own code runs on the manager's thread too.                *)
AdapterStep(c) ==
    /\ CanRun
    /\ KeyStored(c) \/ CreateAnswers(c)
    /\ UNCHANGED payVars

(* The terminal is a machine of its own.                                   *)
TerminalStep(c) ==
    /\ TerminalAsks(c) \/ TerminalDecides(c)
    /\ UNCHANGED payVars

(* The journal status a processor result stands for.                       *)
StatusFor(result) == IF result = "pending" THEN "unknown" ELSE result

(* A result is written to the journal and an approval goes on to finalize, *)
(* which returns at once when a sale is linked already. An illegal         *)
(* transition throws out of the handler and changes nothing.               *)
Record(c, result) ==
    IF Legal(journal[c].status, StatusFor(result))
    THEN /\ SetStatus(c, StatusFor(result))
         /\ thread' = IF result = "approved" /\ ~journal[c].linked
                      THEN [at |-> "complete", charge |-> c]
                      ELSE thread
    ELSE UNCHANGED <<journal, hold, thread>>

(* charge resumes with the answer of createCharge.                         *)
ChargeResumes(c) ==
    /\ CanRun
    /\ call[c] \in Results
    /\ Record(c, call[c])
    /\ TakeAnswer(c)
    /\ UNCHANGED <<sale, stock, adjusted, lost, active, up, rec>>

-----------------------------------------------------------------------------
(* finalize *)

(* completeSale for an approved charge: one transaction that makes the     *)
(* sale, takes the stock, links the sale to the charge and consumes the    *)
(* reservation.                                                            *)
CompleteCardSale ==
    LET c == thread.charge
        k == CartOf[c]
    IN  /\ up
        /\ thread.at = "complete"
        /\ sale[k] = NoSale
        /\ CanSell(k, c)
        /\ journal[c].status = "approved"
        /\ sale' = [sale EXCEPT ![k] = [tender |-> "card", charge |-> c]]
        /\ Sell(k)
        /\ journal' = [journal EXCEPT ![c].linked = TRUE]
        /\ hold' = [hold EXCEPT ![c] = IF @ = "held" THEN "consumed" ELSE @]
        /\ thread' = [at |-> "mark", charge |-> c]
        /\ UNCHANGED <<procVars, adjusted, lost, active, up, rec>>

(* completeSale throws: the cart was sold under another tender, or a line  *)
(* can no longer be sold. Its transaction is rolled back.                  *)
CardSaleFails ==
    LET c == thread.charge
    IN  /\ up
        /\ thread.at = "complete"
        /\ sale[CartOf[c]] # NoSale \/ ~CanSell(CartOf[c], c)
        /\ thread' = [at |-> "fail", charge |-> c]
        /\ UNCHANGED <<procVars, journal, hold, sale, stock, adjusted, lost,
                       active, up, rec>>

(* markPaymentFinalized, a transaction of its own.                         *)
MarkFinalized ==
    /\ up
    /\ thread.at = "mark"
    /\ journal' = [journal EXCEPT ![thread.charge].reason = "none"]
    /\ thread' = Idle
    /\ UNCHANGED <<procVars, hold, sale, stock, adjusted, lost, active, up,
                   rec>>

(* The failed finalization is left for an operator.                        *)
FinalizationFails ==
    /\ up
    /\ thread.at = "fail"
    /\ Flag(thread.charge, "finalization-failed")
    /\ thread' = Idle
    /\ UNCHANGED <<procVars, hold, sale, stock, adjusted, lost, active, up,
                   rec>>

-----------------------------------------------------------------------------
(* reconcile *)

(* Statuses reconcile does not answer from the journal alone.              *)
Unsettled(c) ==
    /\ journal[c].status \notin {"absent", "voided", "declined", "error"}
    /\ ~journal[c].linked

(* reconcile cannot ask: the store has no processor any more, or neither   *)
(* the frozen nor an identical current configuration can be read, which    *)
(* can happen whenever the keychain is locked.                             *)
ReconcileBlocked(c) ==
    /\ CanRun
    /\ Unsettled(c)
    /\ Flag(c, "processor-changed")
    /\ UNCHANGED <<procVars, hold, sale, stock, adjusted, lost, active, up,
                   thread, rec>>

(* reconcile asks the processor. The store is read now, the look comes     *)
(* later, and so does everything that is done with the answer. Called by   *)
(* the sweeps (when the window opens, when an owner opens the checkout, and *)
(* every ten minutes while kiosks are served) for charges that were        *)
(* unresolved when it listed them, by a polling kiosk and by               *)
(* getChargeStatus.                                                        *)
ReconcileAsks(w, c) ==
    /\ CanRun
    /\ rec[w].at = "free"
    /\ Unsettled(c)
    /\ rec' = [rec EXCEPT ![w] = [at |-> StatusAtOnce(c), charge |-> c]]
    /\ UNCHANGED <<procVars, journal, hold, sale, stock, adjusted, lost,
                   active, up, thread>>

(* The look at the report, the request key or the simulated store.         *)
StatusAnswers(w) ==
    LET c == rec[w].charge
    IN  /\ CanRun
        /\ rec[w].at = "looking"
        /\ \E seen \in StatusLooks(c) :
             /\ Look(c, seen)
             /\ rec' = [rec EXCEPT ![w].at = seen.result]
        /\ UNCHANGED <<journal, hold, sale, stock, adjusted, lost, active,
                       up, thread>>

(* Fault: a failed status call leaves the charge for the next sweep.       *)
SwallowFailure(w) ==
    LET c == rec[w].charge
    IN  /\ CanRun
        /\ rec[w].at \in Results \cup {"throw"}
        /\ IF rec[w].at = "throw"
           THEN UNCHANGED <<journal, hold, thread>>
           ELSE Record(c, rec[w].at)
        /\ rec' = [rec EXCEPT ![w] = Free]
        /\ UNCHANGED <<procVars, sale, stock, adjusted, lost, active, up>>

(* reconcile resumes. It acts on the row it read before it asked: an       *)
(* unsettled charge is flagged, an answer is recorded and finalized.       *)
ReconcileResumes(w) ==
    LET c == rec[w].charge
    IN  /\ CanRun
        /\ rec[w].at \in Results \cup {"throw"}
        /\ IF rec[w].at = "throw"
           THEN Flag(c, "reconciliation-failed") /\ UNCHANGED <<hold, thread>>
           ELSE Record(c, rec[w].at)
        /\ rec' = [rec EXCEPT ![w] = Free]
        /\ UNCHANGED <<procVars, sale, stock, adjusted, lost, active, up>>

-----------------------------------------------------------------------------
(* resolveNeedsAttention *)

(* The operator gives the charge up; what the card paid is refunded by     *)
(* hand at the processor.                                                  *)
Void(c) ==
    /\ CanRun
    /\ journal[c].status \in {"needs-attention", "unknown"}
    /\ journal' = [journal EXCEPT ![c].status = "voided"]
    /\ ReleaseHold(c)
    /\ UNCHANGED <<procVars, sale, stock, adjusted, lost, active, up, thread,
                   rec>>

(* The operator retries: reconcile, for a charge that needs attention.     *)
Retry(w, c) ==
    /\ journal[c].status = "needs-attention"
    /\ ReconcileAsks(w, c)

-----------------------------------------------------------------------------
(* The rest of the store, as far as a charge can meet it *)

(* Fault: the completion key is not looked up.                             *)
CashSaleAgain(k) ==
    /\ CanRun
    /\ InCart(k) # {}
    /\ CanSell(k, NoCharge)
    /\ sale' = [sale EXCEPT ![k] = [tender |-> "cash", charge |-> NoCharge]]
    /\ Sell(k)
    /\ UNCHANGED <<procVars, journal, hold, adjusted, lost, active, up,
                   thread, rec>>

(* completeSale for a tender that is paid at once, under the cart's        *)
(* completion key. It respects every reservation, its own cart's too.      *)
CashSale(k) ==
    /\ CanRun
    /\ sale[k] = NoSale
    /\ InCart(k) # {}
    /\ CanSell(k, NoCharge)
    /\ sale' = [sale EXCEPT ![k] = [tender |-> "cash", charge |-> NoCharge]]
    /\ Sell(k)
    /\ UNCHANGED <<procVars, journal, hold, adjusted, lost, active, up,
                   thread, rec>>

(* A movement that is not a sale (received, damaged, counted, returned) is *)
(* added whatever is held.                                                 *)
AddMovement(p, quantity) ==
    /\ CanRun
    /\ adjusted[p] + quantity \in AdjustedRange
    /\ stock' = [stock EXCEPT ![p] = @ + quantity]
    /\ adjusted' = [adjusted EXCEPT ![p] = @ + quantity]
    /\ lost' = IF quantity < 0 THEN lost \cup {p} ELSE lost
    /\ UNCHANGED <<procVars, journal, hold, sale, active, up, thread, rec>>

(* A product is put back on sale, or taken off sale if no charge holds it.  *)
SetActive(p) ==
    /\ CanRun
    /\ p \in Retirable
    /\ p \in active => HeldBut(NoCharge, p) = 0
    /\ active' = IF p \in active THEN active \ {p} ELSE active \cup {p}
    /\ UNCHANGED <<procVars, journal, hold, sale, stock, adjusted, lost, up,
                   thread, rec>>

(* The process dies, also between two transactions of one handler.         *)
Crash ==
    /\ up
    /\ up' = FALSE
    /\ thread' = Idle
    /\ rec' = [w \in Reconcilers |-> Free]
    /\ LoseCalls
    /\ UNCHANGED <<journal, hold, sale, stock, adjusted, lost, active>>

Restart ==
    /\ ~up
    /\ up' = TRUE
    /\ UNCHANGED <<procVars, journal, hold, sale, stock, adjusted, lost,
                   active, thread, rec>>

-----------------------------------------------------------------------------
PaymentStep ==
    \/ \E c \in Charges : Charge(c) \/ AdapterStep(c) \/ TerminalStep(c)
                            \/ ChargeResumes(c) \/ ReconcileBlocked(c) \/ Void(c)
    \/ \E w \in Reconcilers, c \in Charges : ReconcileAsks(w, c) \/ Retry(w, c)
    \/ \E w \in Reconcilers : StatusAnswers(w) \/ ReconcileResumes(w)
    \/ CompleteCardSale \/ CardSaleFails \/ MarkFinalized \/ FinalizationFails

StoreStep ==
    \/ \E k \in Carts : CashSale(k)
    \/ \E p \in Products : SetActive(p) \/ \E quantity \in Movements : AddMovement(p, quantity)

Next == PaymentStep \/ StoreStep \/ Crash \/ Restart
Spec == Init /\ [][Next]_vars

(***************************************************************************)
(* Fairness. A callback whose answer has arrived is run by the event loop  *)
(* (a queue, so it is not passed over for ever), every call to a processor *)
(* ends with an answer, an exception or its deadline, and a manager that   *)
(* died is started again. The terminal, the customer and the operator owe  *)
(* nothing, nor do the sweeps that happen when somebody opens the window   *)
(* or, as an owner, the checkout: they are steps, and nobody repeats them. *)
(* The only sweep that is repeated is the one of the ten-minute timer,     *)
(* which runs while the kiosk server does. It lists every charge without   *)
(* an outcome.                                                             *)
(***************************************************************************)
Sweep(c) ==
    /\ KioskServing
    /\ journal[c].status \in {"initiated", "unknown"}
    /\ ReconcileBlocked(c) \/ \E w \in Reconcilers : ReconcileAsks(w, c)

ThreadStep ==
    CompleteCardSale \/ CardSaleFails \/ MarkFinalized \/ FinalizationFails

Fairness ==
    /\ WF_vars(Restart)
    /\ WF_vars(ThreadStep)
    /\ \A c \in Charges : /\ SF_vars(AdapterStep(c))
                          /\ SF_vars(ChargeResumes(c))
                          /\ SF_vars(Sweep(c))
    /\ \A w \in Reconcilers : /\ SF_vars(StatusAnswers(w))
                              /\ SF_vars(ReconcileResumes(w))

FairSpec == Spec /\ Fairness

-----------------------------------------------------------------------------
(* Properties *)

(* A card sale and the charge that paid for it name each other, the        *)
(* terminal approved the money, and the reservation became the sale: what  *)
(* finalize, completeSale and the sale_link trigger keep between them, over *)
(* crashes, late answers and repeated reconciliations.                     *)
SaleBacked ==
    /\ \A k \in Carts : sale[k].tender = "card" =>
            /\ sale[k].charge \in Charges
            /\ CartOf[sale[k].charge] = k
            /\ journal[sale[k].charge].linked
    /\ \A c \in Charges : journal[c].linked =>
            /\ sale[CartOf[c]] = [tender |-> "card", charge |-> c]
            /\ terminal[c] = "approved"
            /\ hold[c] = "consumed"

(* Statuses of a charge nobody has decided yet.                            *)
Undecided == {"initiated", "unknown", "approved", "needs-attention"}

(* Stock is held for exactly the charges that are not decided: a charge    *)
(* that waits for an answer, a finalization or an operator never loses its *)
(* reservation, and one that is decided never keeps it.                    *)
HoldsMatchJournal ==
    \A c \in Charges :
        hold[c] = "held" <=> journal[c].status \in Undecided /\ ~journal[c].linked

Sold == {k \in Carts : sale[k] # NoSale}

(* Every unit is accounted for: a completed sale takes its stock once,     *)
(* whatever number of finalizations, retries and replays led to it.        *)
StockLedger ==
    \A p \in Products :
        stock[p] = InitialStock[p] + adjusted[p]
                     - SumFunction([k \in Sold |-> Units(k, p)])

(* The reservation is enough: when an approved charge cannot be finalized, *)
(* its cart was sold under another tender or stock was lost to a movement  *)
(* (docs/payments.md gives destroyed stock as the example of a             *)
(* finalization-failed charge). A line cannot have been taken off sale.    *)
FailureHasCause ==
    thread.at = "fail" =>
        LET k == CartOf[thread.charge]
        IN  \/ sale[k] # NoSale
            \/ InCart(k) \cap lost # {}

(* A customer is asked for a card at most once per cart, however often the *)
(* charge is requested and whatever crashed in between.                    *)
NeverChargedTwice ==
    \A c, d \in Charges :
        terminal[c] # "idle" /\ terminal[d] # "idle" /\ CartOf[c] = CartOf[d]
            => c = d

(* Money the terminal took is never booked as declined or failed. (The     *)
(* simulated processor takes no money.)                                    *)
NoMoneyWrittenOff ==
    \A c \in Charges : adapter # "simulated" /\ terminal[c] = "approved"
        => journal[c].status \notin {"declined", "error"}

(* No sale, card or other, dips into stock that another charge holds.      *)
SalesRespectHolds ==
    [][\A k \in Carts, p \in Products :
            sale'[k] # sale[k] /\ p \in InCart(k)
                => HeldBut(NoCharge, p)' <= stock'[p]]_vars

(* Where the kiosk server runs: once the manager stays up, every BBPOS or  *)
(* simulated charge without an outcome gets one, or is put before the      *)
(* operator: no charge stays initiated or unknown for ever. (A USAePay     *)
(* charge whose request key was lost stays unknown until an operator voids *)
(* it. Where no kiosk is served, so does every charge that a start-up or a *)
(* look at the checkout does not sweep.)                                   *)
SweepSettles ==
    KioskServing /\ <>[]up => \A c \in Charges :
        adapter # "usaepay-payment-engine"
          /\ journal[c].status \in {"initiated", "unknown"}
            ~> journal[c].status \notin {"initiated", "unknown"}

(* The charge lifecycle keeps the promise of StockReservation: each of its *)
(* steps, whoever takes it, reserves, gives back, sells, adjusts, or leaves *)
(* holds, sales and stock as they are.                                     *)
KeepsPromise == Promise!Spec

(* What README.md and docs/payments.md say of a charge that the processor  *)
(* approved: it is finalized, or swept, or put before an operator. So once *)
(* the manager stays up, no approved charge is left without a sale.        *)
ApprovalsSettle ==
    <>[]up => \A c \in Charges :
        journal[c].status = "approved" /\ ~journal[c].linked
            ~> journal[c].status # "approved" \/ journal[c].linked

(* What docs/payments.md says of needs-attention: the system could not     *)
(* finalize the charge. So there is no sale for it.                        *)
AttentionIsUnsold ==
    \A c \in Charges : journal[c].status = "needs-attention" => ~journal[c].linked
=============================================================================
