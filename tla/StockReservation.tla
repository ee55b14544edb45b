-------------------------- MODULE StockReservation --------------------------
(***************************************************************************)
(* What the payment path promises the rest of the store about stock and    *)
(* sales, with the journal, the processor, the crashes and the threads     *)
(* left out: stock is set aside for a charge only if nobody else holds it, *)
(* the stock set aside becomes that cart's one sale or is given back, and  *)
(* every step does one of these things or none. PaymentLifecycle           *)
(* implements it (for products sold by the piece).                         *)
(***************************************************************************)
EXTENDS Integers, FiniteSets, Functions

CONSTANTS Charges, Carts, Products, CartOf, Lines, InitialStock, NoCharge

VARIABLES
    hold,             \* the reservation of each charge
    sale,             \* the sale of each cart
    stock             \* units on hand

stockVars == <<hold, sale, stock>>

NoSale == [tender |-> "none", charge |-> NoCharge]

Init ==
    /\ hold = [c \in Charges |-> "none"]
    /\ sale = [k \in Carts |-> NoSale]
    /\ stock = InitialStock

ReservedBy(charges, p) == SumFunction([c \in charges |-> Lines[CartOf[c]][p]])
Holding == {c \in Charges : hold[c] = "held"}
HeldBut(except, p) == ReservedBy(Holding \ {except}, p)

(* Cart k fits into what reservations other than "except" leave.           *)
Fits(k, except) ==
    \A p \in Products : Lines[k][p] > 0 =>
        HeldBut(except, p) <= stock[p] - Lines[k][p]

(* At most one charge of a cart ever holds stock.                          *)
Reserve(c) ==
    /\ \A d \in Charges : CartOf[d] = CartOf[c] => hold[d] = "none"
    /\ Fits(CartOf[c], NoCharge)
    /\ hold' = [hold EXCEPT ![c] = "held"]
    /\ UNCHANGED <<sale, stock>>

GiveBack(c) ==
    /\ hold[c] = "held"
    /\ hold' = [hold EXCEPT ![c] = "released"]
    /\ UNCHANGED <<sale, stock>>

(* The reservation turns into the sale of its cart, in one step.           *)
SellHeld(c) ==
    /\ hold[c] = "held"
    /\ sale[CartOf[c]] = NoSale
    /\ Fits(CartOf[c], c)
    /\ hold' = [hold EXCEPT ![c] = "consumed"]
    /\ sale' = [sale EXCEPT ![CartOf[c]] = [tender |-> "card", charge |-> c]]
    /\ stock' = [p \in Products |-> stock[p] - Lines[CartOf[c]][p]]

(* A sale under another tender leaves all reservations alone.              *)
SellCash(k) ==
    /\ sale[k] = NoSale
    /\ Fits(k, NoCharge)
    /\ sale' = [sale EXCEPT ![k] = [tender |-> "cash", charge |-> NoCharge]]
    /\ stock' = [p \in Products |-> stock[p] - Lines[k][p]]
    /\ UNCHANGED hold

(* Goods arrive, spoil or are counted.                                     *)
Adjust(p) ==
    /\ stock'[p] \in Int
    /\ stock' = [stock EXCEPT ![p] = stock'[p]]
    /\ UNCHANGED <<hold, sale>>

Next ==
    \/ \E c \in Charges : Reserve(c) \/ GiveBack(c) \/ SellHeld(c)
    \/ \E k \in Carts : SellCash(k)
    \/ \E p \in Products : Adjust(p)

Spec == Init /\ [][Next]_stockVars
=============================================================================
