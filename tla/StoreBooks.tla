------------------------------ MODULE StoreBooks ------------------------------
(***************************************************************************)
(* The books of one store: completeSale with every tender that asks no     *)
(* card processor (PaymentLifecycle has that one), account payments,       *)
(* refunds by hand, the customer ledger, receipt numbers, cash movements   *)
(* and the daily close of StoreDatabase.                                   *)
(*                                                                         *)
(* Every operation is one transaction that nothing interrupts.  What can   *)
(* go wrong is in the order of operations and in requests that are sent    *)
(* again: a screen that got no answer repeats the request under its key,   *)
(* or sends another one under it.  "accepted" holds the requests that the  *)
(* store said yes to.                                                      *)
(***************************************************************************)
EXTENDS StoreArithmetic, Functions

CONSTANTS
    Products,         \* product ids
    BasePrice,        \* BasePrice[p]: selling price in cents
    SoldBy,           \* SoldBy[p]: "each" or "weight"
    Taxable,          \* products that are taxed
    BenefitEligible,  \* products that SNAP/EBT pays for
    SalePrices,       \* SalePrices[p]: scheduled prices of the product
    StartStock,       \* StartStock[p]: stock when the books open
    Customers,        \* customer ids
    TaxRateBps, PricesIncludeTax, DefaultLimit, SnapAccepted,
    SaleRequests, PaymentRequests, RefundRequests, DrawerMovements,
    Prefix, RangeSize,\* receipt numbers of this device
    ForeignReceipts,  \* receipt numbers of sales that other devices made
    OpeningTill,      \* cash in the drawer when the books open
    LastDay,          \* bound: days are 1 .. LastDay
    MaxEdits,         \* bound: edits of customers and settings
    Edited,           \* bound: customers that are edited
    None              \* null: no record, no customer, no reference

Keys == {r.key : r \in SaleRequests}
Payments == {r.operation : r \in PaymentRequests}
Refunds == {r.operation : r \in RefundRequests}

Days == 1..LastDay
Tenders == {"cash", "external_terminal", "account", "snap_ebt"}
Collected == {"cash", "external_terminal"}
Quantities == [Products -> Nat]

(* ------------------------------ Requests ------------------------------- *)

ASSUME BooksAssumption ==
    /\ IsFiniteSet(Products) /\ IsFiniteSet(Customers)
    /\ BasePrice \in Quantities /\ StartStock \in Quantities
    /\ TaxRateBps \in Nat /\ PricesIncludeTax \in BOOLEAN
    /\ Prefix \in Nat \ {0} /\ RangeSize \in Nat \ {0, 1}
    /\ ForeignReceipts \subseteq Nat
    /\ OpeningTill \in Int
    /\ LastDay \in Nat \ {0} /\ MaxEdits \in Nat
    /\ Edited \subseteq Customers

(* What the schemas of the requests let through: completeSale takes no     *)
(* empty cart, an account sale names its customer, amounts are not zero.   *)
ASSUME RequestAssumption ==
    /\ \A r \in SaleRequests :
         /\ r \in [key : {r.key}, cart : Quantities,
                   override : [Products -> Nat \cup {NoPrice}], method : Tenders,
                   customer : Customers \cup {None}, received : Nat,
                   reference : {r.reference},
                   remainder : Collected \cup {None}]
         /\ \E p \in Products : r.cart[p] > 0
         /\ r.method = "account" => r.customer # None
    /\ PaymentRequests \subseteq
         [operation : Payments, customer : Customers, amount : Nat \ {0},
          method : Collected, received : Nat]
    /\ RefundRequests \subseteq
         [operation : Refunds, sale : Keys, quantity : Quantities,
          restocked : SUBSET Products, reference : BOOLEAN]
    /\ DrawerMovements \subseteq
         [kind : {"pay_in", "pay_out", "drop"}, amount : Nat \ {0}]

(* -------------------------------- Rows --------------------------------- *)

Parts == [subtotal : Int, tax : Int]
ItemRows == [subtotal : Int, tax : Int, total : Int]
References == {r.reference : r \in SaleRequests} \cup {None}

PaymentRows ==
    [method : Collected, amount : Int, received : Int, change : Int,
     reference : References]

SaleRows ==
    [status : {"completed", "refunded"}, tender : Collected \cup {"account"},
     cart : Quantities, item : [Products -> ItemRows], total : Int, receipt : Nat,
     customer : Customers \cup {None}, before : Int, after : Int,
     payment : PaymentRows \cup {None}, benefit : Int, day : Days]

AccountPaymentRows ==
    [customer : Customers, amount : Nat \ {0}, method : Collected, received : Nat,
     before : Int, after : Int, receipt : Nat, day : Days]

RefundRows ==
    [sale : Keys, method : Collected \cup {"account"}, quantity : Quantities,
     part : [Products -> Parts], amount : Int, restocked : SUBSET Products,
     below : SUBSET Products, receipt : Nat, day : Days]

LedgerRows ==
    [sequence : Nat, type : {"sale_charge", "payment", "sale_refund"},
     customer : Customers, amount : Int,
     source : Keys \cup Payments \cup Refunds, day : Days]

(* Null is none of the rows.                                               *)
ASSUME NullAssumption ==
    /\ None \notin Customers /\ None \notin Tenders /\ None \notin PaymentRows
    /\ None \notin SaleRows /\ None \notin AccountPaymentRows
    /\ None \notin RefundRows

VARIABLES
    sale,             \* sales, sale_items, payments, benefit_payments by key
    foreign,          \* receipt numbers of pulled sales
    payment,          \* account_payments by operation
    refund,           \* refunds and refund_items by operation
    ledger,           \* customer_ledger
    customer,         \* customers: [active, blocked, limit]
    allowCredit,      \* store_settings.allow_customer_credit
    creditSeen,       \* it was allowed at some time (history)
    accountsEnabled,  \* store_settings.customer_accounts_enabled
    stock,            \* stock of each product, the sum of its movements
    moved,            \* cash_movements that were recorded
    closed,           \* daily_closes: [day, overShort]
    today,
    till, float,      \* cash in the drawer now, and when the day began
    accepted,         \* requests the store answered with a record
    edits

bookVars == <<sale, foreign, payment, refund, ledger, stock, moved, till>>
setupVars == <<customer, allowCredit, creditSeen, accountsEnabled, edits>>
dayVars == <<closed, today, float>>
vars == <<bookVars, setupVars, dayVars, accepted>>

Sum(S, value(_)) == SumFunction([e \in S |-> value(e)])

(* ------------------------------ Records -------------------------------- *)

Sold == {k \in Keys : sale[k] # None}
Paid == {o \in Payments : payment[o] # None}
Refunded == {o \in Refunds : refund[o] # None}
RefundsOf(k) == {o \in Refunded : refund[o].sale = k}

Lines(cart) == {p \in Products : cart[p] > 0}

PriceNow(p) == UnitPrice(BasePrice[p], SalePrices[p], today)

(* calculateCart over the cart of a request: one line per product, with    *)
(* the price of a scale label before the price of the product.             *)
CartLine(r, p) ==
    LineOf(IF r.override[p] # NoPrice THEN r.override[p] ELSE PriceNow(p),
           QuantityToMilli(SoldBy[p], r.cart[p]),
           p \in Taxable, TaxRateBps, PricesIncludeTax)

(* benefitEligibility is asked with the products as they are, without the  *)
(* prices of scale labels.                                                 *)
EligibleLine(r, p) == CartLine([r EXCEPT !.override = [q \in Products |-> NoPrice]], p)

IsBenefit(r) == r.method = "snap_ebt"
Eligible(r) == {p \in Lines(r.cart) : IsBenefit(r) /\ p \in BenefitEligible}

Covered(r) == Sum(Eligible(r), LAMBDA p : EligibleLine(r, p).subtotal)
Waived(r) == Sum(Eligible(r), LAMBDA p : EligibleLine(r, p).tax)
CartTotal(r) == Sum(Lines(r.cart), LAMBDA p : CartLine(r, p).total)
SaleTotal(r) == CartTotal(r) - Waived(r)
Remainder(r) == SaleTotal(r) - Covered(r)

(* The rows of sale_items: the tax of a line that a benefit pays is waived.*)
SaleItem(r, p) ==
    LET line == CartLine(r, p)
    IN  IF p \in Eligible(r)
        THEN [subtotal |-> line.subtotal, tax |-> 0, total |-> line.subtotal]
        ELSE line

(* ---------------------------- Receipt numbers --------------------------- *)

RangeOf(prefix) ==
    IF prefix = 1 THEN 1..(RangeSize - 1)
    ELSE (prefix * RangeSize + 1)..(prefix * RangeSize + RangeSize - 1)

SaleReceipts == {sale[k].receipt : k \in Sold} \cup foreign

NextReceipt(used) ==
    LET own == used \cap RangeOf(Prefix)
    IN  IF own = {} THEN Min(RangeOf(Prefix)) ELSE Max(own) + 1

CanNumber(used) == NextReceipt(used) \in RangeOf(Prefix)

(* -------------------------------- Ledger -------------------------------- *)

Entries(c) == {e \in ledger : e.customer = c}
Balance(c) == Sum(Entries(c), LAMBDA e : e.amount)
Debtors == {e.customer : e \in ledger}
BalanceBefore(c, sequence) ==
    Sum({e \in Entries(c) : e.sequence < sequence}, LAMBDA e : e.amount)

(* getCustomerStatement for the days from .. to - 1: what was owed before, *)
(* what was charged and paid in the period, and what is owed after it.     *)
Statement(c, from, to) ==
    LET opening == Sum({e \in Entries(c) : e.day < from}, LAMBDA e : e.amount)
        rows == {e \in Entries(c) : from <= e.day /\ e.day < to}
        charges == Sum({e \in rows : e.amount > 0}, LAMBDA e : e.amount)
        payments == Sum({e \in rows : e.amount < 0}, LAMBDA e : -e.amount)
    IN  [opening |-> opening, charges |-> charges, payments |-> payments,
         closing |-> opening + charges - payments]

(* An entry numbered MAX(sequence) + 1.                                    *)
Entry(type, c, amount, source) ==
    [sequence |-> Cardinality(ledger) + 1, type |-> type, customer |-> c,
     amount |-> amount, source |-> source, day |-> today]

CreditLimit(c) ==
    IF customer[c].limit = NoPrice THEN DefaultLimit ELSE customer[c].limit

MayCharge(c, amount) ==
    /\ amount > 0
    /\ accountsEnabled
    /\ customer[c].active
    /\ ~customer[c].blocked
    /\ Balance(c) + amount <= CreditLimit(c)

Init ==
    /\ sale = [k \in Keys |-> None]
    /\ foreign = {}
    /\ payment = [o \in Payments |-> None]
    /\ refund = [o \in Refunds |-> None]
    /\ ledger = {}
    /\ customer = [c \in Customers |->
                     [active |-> TRUE, blocked |-> FALSE, limit |-> NoPrice]]
    /\ allowCredit = FALSE
    /\ creditSeen = FALSE
    /\ accountsEnabled = TRUE
    /\ stock = StartStock
    /\ moved = {}
    /\ closed = {}
    /\ today = 1
    /\ till = OpeningTill
    /\ float = OpeningTill
    /\ accepted = {}
    /\ edits = 0

(* -------------------------------- Sales --------------------------------- *)

(* The tender as sales.tender_type keeps it.                               *)
TenderType(r) == IF IsBenefit(r) THEN "external_terminal" ELSE r.method

(* Fault: how the sale was paid is not compared.                           *)
SameCart(r, s) == s.cart = r.cart

(* validateExistingSaleMatch: tender, customer, cash received, reference   *)
(* and the quantities per product and barcode; prices are not compared.    *)
SameSale(r, s) ==
    /\ s.tender = r.method
    /\ r.method = "account" => s.customer = r.customer
    /\ r.method = "cash" =>
         s.payment # None /\ s.payment.received = r.received
    /\ r.method = "external_terminal" =>
         s.payment # None /\ s.payment.reference = r.reference
    /\ s.cart = r.cart

(* Fault: a line is compared with one unit of stock.                       *)
SomeStock(r) == \A p \in Lines(r.cart) : stock[p] > 0

InStock(r) == \A p \in Lines(r.cart) : r.cart[p] <= stock[p]

(* What the benefit leaves open has to be paid, and only that.             *)
BenefitFits(r) ==
    /\ SnapAccepted
    /\ Covered(r) > 0
    /\ Remainder(r) > 0 => r.remainder # None
    /\ Remainder(r) = 0 => r.remainder = None
    /\ r.remainder = "cash" => r.received >= Remainder(r)

TenderFits(r) ==
    /\ IsBenefit(r) => BenefitFits(r)
    /\ r.method = "account" => MayCharge(r.customer, CartTotal(r))
    /\ r.method = "cash" => r.received >= CartTotal(r)

(* Fault: the remainder is collected as if no benefit had been applied.    *)
DueInFull(r) == IF IsBenefit(r) THEN SaleTotal(r) ELSE CartTotal(r)

(* What a row of payments collects: of a benefit sale, the remainder.      *)
AmountDue(r) == IF IsBenefit(r) THEN Remainder(r) ELSE CartTotal(r)

PaymentRow(r, method, amount) ==
    [method |-> method, amount |-> amount,
     received |-> IF method = "cash" THEN r.received ELSE 0,
     change |-> IF method = "cash" THEN CashChange(amount, r.received) ELSE 0,
     reference |-> IF method = "cash" THEN None ELSE r.reference]

(* The row of payments, at most one per sale.                              *)
PaymentOf(r) ==
    CASE r.method \in {"cash", "external_terminal"} ->
           PaymentRow(r, r.method, AmountDue(r))
      [] IsBenefit(r) /\ Remainder(r) > 0 ->
           PaymentRow(r, r.remainder, AmountDue(r))
      [] OTHER -> None

CashOf(row) == IF row # None /\ row.method = "cash" THEN row.amount ELSE 0

(* Fault: the balance after the sale leaves the sale out.                  *)
BalanceUntouched(r) == Balance(r.customer)

BalanceAfter(r) == Balance(r.customer) + CartTotal(r)

SaleRecord(r) ==
    LET onAccount == r.method = "account"
    IN  [status |-> "completed", tender |-> TenderType(r), cart |-> r.cart,
         item |-> [p \in Products |-> SaleItem(r, p)],
         total |-> SaleTotal(r), receipt |-> NextReceipt(SaleReceipts),
         customer |-> IF onAccount THEN r.customer ELSE None,
         before |-> IF onAccount THEN Balance(r.customer) ELSE 0,
         after |-> IF onAccount THEN BalanceAfter(r) ELSE 0,
         payment |-> PaymentOf(r), benefit |-> Covered(r), day |-> today]

CompleteSale(r) ==
    /\ sale[r.key] = None
    /\ InStock(r)
    /\ TenderFits(r)
    /\ CanNumber(SaleReceipts)
    /\ Sum(Lines(r.cart), LAMBDA p : SaleItem(r, p).total) = SaleTotal(r)
    /\ sale' = [sale EXCEPT ![r.key] = SaleRecord(r)]
    /\ stock' = [p \in Products |-> stock[p] - r.cart[p]]
    /\ ledger' = IF r.method = "account"
                 THEN ledger \cup {Entry("sale_charge", r.customer,
                                         CartTotal(r), r.key)}
                 ELSE ledger
    /\ till' = till + CashOf(PaymentOf(r))
    /\ accepted' = accepted \cup {r}
    /\ UNCHANGED <<foreign, payment, refund, moved, setupVars, dayVars>>

(* The key is taken: the same sale is answered, another one is refused.    *)
ReplaySale(r) ==
    /\ sale[r.key] # None
    /\ SameSale(r, sale[r.key])
    /\ accepted' = accepted \cup {r}
    /\ UNCHANGED <<bookVars, setupVars, dayVars>>

(* A sale that another device made arrives with a page of the cloud.       *)
PullSale(n) ==
    /\ n \notin SaleReceipts
    /\ foreign' = foreign \cup {n}
    /\ UNCHANGED <<sale, payment, refund, ledger, stock, moved, till,
                   setupVars, dayVars, accepted>>

(* --------------------------- Account payments --------------------------- *)

(* validateExistingAccountPaymentMatch.                                    *)
SamePayment(r, p) ==
    /\ p.customer = r.customer
    /\ p.amount = r.amount
    /\ p.method = r.method
    /\ p.received = IF r.method = "cash" THEN r.received ELSE 0

(* Fault: a payment above what is owed is taken whatever the settings say. *)
AnyPayment(r) == r.method = "cash" => r.received >= r.amount

(* A blocked or inactive customer may pay.                                 *)
MayPay(r) ==
    /\ allowCredit \/ Balance(r.customer) >= r.amount
    /\ r.method = "cash" => r.received >= r.amount

RecordAccountPayment(r) ==
    LET used == {payment[o].receipt : o \in Paid}
    IN  /\ payment[r.operation] = None
        /\ MayPay(r)
        /\ CanNumber(used)
        /\ payment' = [payment EXCEPT ![r.operation] =
             [customer |-> r.customer, amount |-> r.amount, method |-> r.method,
              received |-> IF r.method = "cash" THEN r.received ELSE 0,
              before |-> Balance(r.customer),
              after |-> Balance(r.customer) - r.amount,
              receipt |-> NextReceipt(used), day |-> today]]
        /\ ledger' = ledger \cup
             {Entry("payment", r.customer, -r.amount, r.operation)}
        /\ till' = IF r.method = "cash" THEN till + r.amount ELSE till
        /\ accepted' = accepted \cup {r}
        /\ UNCHANGED <<sale, foreign, refund, stock, moved, setupVars, dayVars>>

ReplayAccountPayment(r) ==
    /\ payment[r.operation] # None
    /\ SamePayment(r, payment[r.operation])
    /\ accepted' = accepted \cup {r}
    /\ UNCHANGED <<bookVars, setupVars, dayVars>>

(* -------------------------------- Refunds ------------------------------- *)

(* The payment of a sale as getSale tells it: a row of payments speaks for *)
(* the sale, and the benefit only when there is none.                      *)
PaymentMethod(s) ==
    IF s.tender = "account" THEN "account"
    ELSE IF s.payment # None THEN s.payment.method
    ELSE "snap_ebt"

RefundMethod(s) ==
    IF PaymentMethod(s) = "snap_ebt" THEN "external_terminal"
    ELSE PaymentMethod(s)

Returned(k, p) ==
    [quantity |-> Sum(RefundsOf(k), LAMBDA o : refund[o].quantity[p]),
     subtotal |-> Sum(RefundsOf(k), LAMBDA o : refund[o].part[p].subtotal),
     tax |-> Sum(RefundsOf(k), LAMBDA o : refund[o].part[p].tax)]

Part(r, p) ==
    IF r.quantity[p] = 0 THEN [subtotal |-> 0, tax |-> 0]
    ELSE RefundLine(sale[r.sale].item[p], sale[r.sale].cart[p],
                    Returned(r.sale, p), r.quantity[p])

RefundAmount(r) ==
    Sum(Lines(r.quantity), LAMBDA p : Part(r, p).subtotal + Part(r, p).tax)

(* validateRefundRequest, calculateRefund and the CHECKs of refund_items.  *)
RefundFits(r) ==
    \A p \in Lines(r.quantity) :
        /\ CanRefundLine(sale[r.sale].item[p], sale[r.sale].cart[p],
                         Returned(r.sale, p), r.quantity[p])
        /\ Part(r, p).subtotal + Part(r, p).tax > 0

(* Fault: the goods of every line go back.                                 *)
AllBack(r, p) == r.quantity[p]

PutBack(r, p) == IF p \in r.restocked THEN r.quantity[p] ELSE 0

(* The parts of a line are added up as REAL numbers. Pieces add up exactly; *)
(* thousandths that came back in several parts may add up to less than was *)
(* sold (0.7 and 0.1 of 0.8). Whether they do is not decided here.         *)
MayFallShort(r) ==
    {p \in Lines(r.quantity) :
        /\ SoldBy[p] = "weight"
        /\ \E o \in RefundsOf(r.sale) : refund[o].quantity[p] > 0
        /\ Returned(r.sale, p).quantity + r.quantity[p] = sale[r.sale].cart[p]}

(* A line whose parts fall short counts as not returned, now and later:    *)
(* nothing is left of it that could be refunded.                           *)
AllReturned(r, below) ==
    /\ \A p \in Products :
         Returned(r.sale, p).quantity + r.quantity[p] >= sale[r.sale].cart[p]
    /\ below = {}
    /\ \A o \in RefundsOf(r.sale) : refund[o].below = {}

RecordRefund(r) ==
    \E below \in SUBSET MayFallShort(r) :
    LET s == sale[r.sale]
        used == {refund[o].receipt : o \in Refunded}
    IN  /\ refund[r.operation] = None
        /\ s # None
        /\ r.reference = (RefundMethod(s) = "external_terminal")
        /\ RefundFits(r)
        /\ CanNumber(used)
        /\ refund' = [refund EXCEPT ![r.operation] =
             [sale |-> r.sale, method |-> RefundMethod(s),
              quantity |-> r.quantity, part |-> [p \in Products |-> Part(r, p)],
              amount |-> RefundAmount(r), restocked |-> r.restocked,
              below |-> below, receipt |-> NextReceipt(used), day |-> today]]
        /\ stock' = [p \in Products |-> stock[p] + PutBack(r, p)]
        /\ ledger' = IF RefundMethod(s) = "account"
             THEN ledger \cup {Entry("sale_refund", s.customer,
                                     -RefundAmount(r), r.operation)}
             ELSE ledger
        /\ sale' = IF AllReturned(r, below)
             THEN [sale EXCEPT ![r.sale].status = "refunded"]
             ELSE sale
        /\ till' = IF RefundMethod(s) = "cash" THEN till - RefundAmount(r)
                   ELSE till
        /\ UNCHANGED <<foreign, payment, moved, setupVars, dayVars, accepted>>

(* ----------------------- Drawer and end of the day ---------------------- *)

(* Pay-ins, pay-outs and drops; each movement of the run happens once.     *)
RecordCashMovement(m) ==
    /\ m \notin {n[1] : n \in moved}
    /\ moved' = moved \cup {<<m, today>>}
    /\ till' = IF m.kind = "pay_in" THEN till + m.amount ELSE till - m.amount
    /\ UNCHANGED <<sale, foreign, payment, refund, ledger, stock,
                   setupVars, dayVars, accepted>>

(* Fault: sales that were refunded later drop out of the report.           *)
StillSoldOn(d) == {k \in Sold : sale[k].day = d /\ sale[k].status = "completed"}

SalesOn(d) == {k \in Sold : /\ sale[k].day = d
                            /\ sale[k].status \in {"completed", "refunded"}}

CashSales(d) == Sum(SalesOn(d), LAMBDA k : CashOf(sale[k].payment))
CashPayments(d) ==
    Sum({o \in Paid : payment[o].day = d /\ payment[o].method = "cash"},
        LAMBDA o : payment[o].amount)
CashRefunds(d) ==
    Sum({o \in Refunded : refund[o].day = d /\ refund[o].method = "cash"},
        LAMBDA o : refund[o].amount)
DrawerTotal(d, kinds) ==
    Sum({m \in moved : m[2] = d /\ m[1].kind \in kinds}, LAMBDA m : m[1].amount)

(* expectedCashCents of dailyReport.                                       *)
ExpectedCash(d, opening) ==
    opening + CashSales(d) + CashPayments(d) - CashRefunds(d)
        + DrawerTotal(d, {"pay_in"}) - DrawerTotal(d, {"pay_out", "drop"})

(* The tender a sale is reported under: the benefit before everything else.*)
ReportedTender(s) == IF s.benefit > 0 THEN "snap_ebt" ELSE s.tender

(* dailyReport: sales by tender, refunds by method, what customers came to *)
(* owe and what they were credited, and the cash there should be.          *)
Report(d, opening) ==
    [sales |-> Sum(SalesOn(d), LAMBDA k : sale[k].total),
     tenders |-> [t \in Tenders |->
         Sum({k \in SalesOn(d) : ReportedTender(sale[k]) = t},
             LAMBDA k : sale[k].total)],
     refunds |-> [t \in Tenders |->
         Sum({o \in Refunded : refund[o].day = d /\ refund[o].method = t},
             LAMBDA o : refund[o].amount)],
     debits |-> Sum({e \in ledger : e.day = d /\ e.amount > 0},
                    LAMBDA e : e.amount),
     credits |-> Sum({e \in ledger : e.day = d /\ e.amount < 0},
                     LAMBDA e : -e.amount),
     expectedCash |-> ExpectedCash(d, opening)]

(* The drawer is counted without a mistake and the float is what it held   *)
(* when the day began.  A date is closed once.  The report that is stored  *)
(* with the close is left out.                                             *)
RecordDailyClose ==
    /\ today \notin {c.day : c \in closed}
    /\ closed' = closed \cup
         {[day |-> today,
           overShort |-> till - Report(today, float).expectedCash]}
    /\ UNCHANGED <<bookVars, setupVars, today, float, accepted>>

NextDay ==
    /\ today < LastDay
    /\ today' = today + 1
    /\ float' = till
    /\ UNCHANGED <<bookVars, setupVars, closed, accepted>>

(* ------------------------------- Set-up --------------------------------- *)

EditCustomer ==
    \E c \in Edited :
        \/ customer' = [customer EXCEPT ![c].active = ~customer[c].active]
        \/ customer' = [customer EXCEPT ![c].blocked = ~customer[c].blocked]
        \/ customer' = [customer EXCEPT ![c].limit =
                           IF customer[c].limit = NoPrice THEN 0 ELSE NoPrice]

EditSettings ==
    \/ /\ allowCredit' = ~allowCredit
       /\ creditSeen' = TRUE
       /\ UNCHANGED accountsEnabled
    \/ /\ accountsEnabled' = ~accountsEnabled
       /\ UNCHANGED <<allowCredit, creditSeen>>

Edit ==
    /\ edits < MaxEdits
    /\ edits' = edits + 1
    /\ \/ EditCustomer /\ UNCHANGED <<allowCredit, creditSeen, accountsEnabled>>
       \/ EditSettings /\ UNCHANGED customer
    /\ UNCHANGED <<bookVars, dayVars, accepted>>

Next ==
    \/ \E r \in SaleRequests : CompleteSale(r) \/ ReplaySale(r)
    \/ \E n \in ForeignReceipts : PullSale(n)
    \/ \E r \in PaymentRequests : RecordAccountPayment(r) \/ ReplayAccountPayment(r)
    \/ \E r \in RefundRequests : RecordRefund(r)
    \/ \E m \in DrawerMovements : RecordCashMovement(m)
    \/ RecordDailyClose
    \/ NextDay
    \/ Edit

Spec == Init /\ [][Next]_vars

-----------------------------------------------------------------------------
(* Types of the books; no product is sold that is not there (completeSale).*)
TypeOK ==
    /\ sale \in [Keys -> SaleRows \cup {None}]
    /\ foreign \subseteq ForeignReceipts
    /\ payment \in [Payments -> AccountPaymentRows \cup {None}]
    /\ refund \in [Refunds -> RefundRows \cup {None}]
    /\ ledger \subseteq LedgerRows
    /\ customer \in [Customers ->
         [active : BOOLEAN, blocked : BOOLEAN, limit : Nat \cup {NoPrice}]]
    /\ allowCredit \in BOOLEAN /\ creditSeen \in BOOLEAN
    /\ accountsEnabled \in BOOLEAN
    /\ stock \in Quantities
    /\ moved \subseteq DrawerMovements \X Days
    /\ closed \subseteq [day : Days, overShort : Int]
    /\ today \in Days
    /\ till \in Int /\ float \in Int
    /\ accepted \subseteq SaleRequests \cup PaymentRequests
    /\ edits \in 0..MaxEdits

(* The customer ledger and the documents explain each other, across sales, *)
(* payments and refunds in any order: every account sale, account payment  *)
(* and account refund has one entry of its amount, nothing else has one,   *)
(* and the balances that a receipt shows are those of the ledger when the  *)
(* document was written (completeSale, recordAccountPayment, recordRefund).*)
(* One statement opens where the statement of the days before it closes    *)
(* (getCustomerStatement).                                                 *)
Explains(e, type, c, amount, source, sign) ==
    /\ e.type = type /\ e.source = source
    /\ e.customer = c /\ e.amount = sign * amount

LedgerExplained ==
    /\ \A k \in Sold : sale[k].customer # None =>
         \E e \in ledger :
             /\ Explains(e, "sale_charge", sale[k].customer, sale[k].total, k, 1)
             /\ sale[k].before = BalanceBefore(e.customer, e.sequence)
             /\ sale[k].after = sale[k].before + e.amount
    /\ \A o \in Paid :
         \E e \in ledger :
             /\ Explains(e, "payment", payment[o].customer, payment[o].amount, o, -1)
             /\ payment[o].before = BalanceBefore(e.customer, e.sequence)
             /\ payment[o].after = payment[o].before + e.amount
    /\ \A o \in Refunded : refund[o].method = "account" =>
         \E e \in ledger :
             Explains(e, "sale_refund", sale[refund[o].sale].customer,
                      refund[o].amount, o, -1)
    /\ Cardinality(ledger) =
         Cardinality({k \in Sold : sale[k].customer # None})
         + Cardinality(Paid)
         + Cardinality({o \in Refunded : refund[o].method = "account"})
    /\ \A c \in Debtors : \A d \in Days :
         LET since == Statement(c, d, LastDay + 1)
         IN  /\ Statement(c, 1, d).closing = since.opening
             /\ since.closing = Balance(c)

(* Goods leave once per sale however often it is sent, and only what was   *)
(* put back returns (completeSale, recordRefund).                          *)
GoodsExplained ==
    \A p \in Products :
        stock[p] = StartStock[p]
                   - Sum(Sold, LAMBDA k : sale[k].cart[p])
                   + Sum({o \in Refunded : p \in refund[o].restocked},
                         LAMBDA o : refund[o].quantity[p])

(* What a customer's statement of one day adds to the balance; the days    *)
(* with a sale or an entry.                                                *)
Change(c, d) ==
    LET statement == Statement(c, d, d + 1)
    IN  statement.closing - statement.opening

BookedDays == {sale[k].day : k \in Sold} \cup {e.day : e \in ledger}

(* A drawer nobody miscounts is never reported over or short, whatever was *)
(* sold, refunded or moved that day and refunded later; the tenders of a   *)
(* report add up to its sales, and its debits and credits to what the      *)
(* statements of that day say (dailyReport, getCustomerStatement).         *)
DrawerCountedRight ==
    /\ \A c \in closed : c.overShort = 0
    /\ \A d \in BookedDays :
         LET report == Report(d, 0)
         IN  /\ Sum(Tenders, LAMBDA t : report.tenders[t]) = report.sales
             /\ report.debits - report.credits =
                  Sum(Debtors, LAMBDA c : Change(c, d))

(* The tenders of a sale add up to its total and to its lines, also when a *)
(* benefit pays a part and the tax of that part is waived.  A line with    *)
(* the price of a scale label is left out: benefitEligibility does not see *)
(* that price (completeSale).                                              *)
Labelled(k) == \E r \in accepted \cap SaleRequests :
    r.key = k /\ \E p \in Eligible(r) : r.override[p] # NoPrice

TenderedIsTotal ==
    \A k \in Sold : ~Labelled(k) =>
        /\ Sum(Products, LAMBDA p : sale[k].item[p].total) = sale[k].total
        /\ sale[k].tender # "account" =>
             sale[k].total = sale[k].benefit
                + IF sale[k].payment = None THEN 0 ELSE sale[k].payment.amount

(* Whatever the store said yes to is in the books as it was asked for,     *)
(* under a number no other sale has: a repeated request finds its own sale *)
(* or payment, a different request under the same key is refused           *)
(* (validateExistingSaleMatch, validateExistingAccountPaymentMatch).       *)
RepliesAreRecorded ==
    /\ \A r \in accepted \cap SaleRequests :
         /\ sale[r.key] # None
         /\ sale[r.key].cart = r.cart
         /\ sale[r.key].tender = TenderType(r)
         /\ r.method = "account" => sale[r.key].customer = r.customer
         /\ \A k \in Sold \ {r.key} : sale[k].receipt # sale[r.key].receipt
         /\ sale[r.key].receipt \notin foreign
    /\ \A r \in accepted \cap PaymentRequests :
         /\ payment[r.operation] # None
         /\ payment[r.operation].customer = r.customer
         /\ payment[r.operation].amount = r.amount

(* The weighed lines of a sale that came back in several refunds.          *)
InParts(k) ==
    {p \in Products : /\ SoldBy[p] = "weight"
                      /\ \E o, x \in RefundsOf(k) : /\ o # x
                                                   /\ refund[o].quantity[p] > 0
                                                   /\ refund[x].quantity[p] > 0}

(* Partial refunds never exceed a line or the sale, in quantity and to the *)
(* cent. A sale is "refunded" only when every unit came back, for exactly  *)
(* its total, and always then, unless goods sold by weight came back in    *)
(* several parts: their sum of REAL numbers may stay below what was sold,  *)
(* and the sale "completed" (calculateRefund, recordRefund).               *)
RefundsWithinSale ==
    \A k \in Sold :
        LET back == Sum(RefundsOf(k), LAMBDA o : refund[o].amount)
            complete == \A p \in Products : Returned(k, p).quantity = sale[k].cart[p]
        IN  /\ back <= sale[k].total
            /\ \A p \in Products : Returned(k, p).quantity <= sale[k].cart[p]
            /\ sale[k].status = "refunded" => complete
            /\ complete /\ InParts(k) = {} => sale[k].status = "refunded"
            /\ complete => back = sale[k].total

(* In a store that never took credit, a balance below zero comes from goods  *)
(* that were brought back after they were paid, never from a payment       *)
(* (recordAccountPayment; allow_customer_credit).                          *)
CreditIsReturnedGoods ==
    \A c \in Customers :
        ~creditSeen =>
            Balance(c) + Sum({o \in Refunded : refund[o].method = "account"
                                /\ sale[refund[o].sale].customer = c},
                             LAMBDA o : refund[o].amount) >= 0

(* The ledger, its statements and the stock are what the documents say, in  *)
(* any order of sales, payments and refunds (completeSale,                 *)
(* recordAccountPayment, recordRefund, getCustomerStatement).              *)
BooksExplained == LedgerExplained /\ GoodsExplained

(* Not a cent is lost: the tenders of a sale add up to its total and its   *)
(* lines, with a benefit that pays a part and the tax it waives; partial   *)
(* refunds never exceed a line or the sale, and a sale is refunded when    *)
(* every unit came back, goods that were weighed into several parts        *)
(* excepted (completeSale, calculateRefund, recordRefund).                 *)
CentsAddUp == TenderedIsTotal /\ RefundsWithinSale
=============================================================================
