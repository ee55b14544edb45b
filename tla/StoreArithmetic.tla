--------------------------- MODULE StoreArithmetic ---------------------------
(***************************************************************************)
(* The money arithmetic of packages/shared: cents are integers, a ratio is *)
(* rounded to the nearest cent with half a cent upward, tax is rounded per *)
(* line, and a part of a line is refunded in proportion to its quantity    *)
(* except that the last part takes whatever is left of the line.           *)
(*                                                                         *)
(* Quantities are in the unit stock is kept in: pieces, or thousandths of  *)
(* the weight unit for a product sold by weight.                           *)
(***************************************************************************)
EXTENDS Integers, FiniteSets, FiniteSetsExt

NoPrice == -1         \* null, for prices that may be absent

Smaller(a, b) == IF a < b THEN a ELSE b
Larger(a, b) == IF a < b THEN b ELSE a

RoundRatio(numerator, denominator) ==
    (numerator + denominator \div 2) \div denominator

(* Thousandths of a unit: what prices are multiplied with.                 *)
QuantityToMilli(soldBy, quantity) ==
    IF soldBy = "weight" THEN quantity ELSE 1000 * quantity

(* A scheduled price counts from startsAt until before endsAt, never above *)
(* the base price; of several the lowest one is taken.                     *)
SalePriceOf(base, sale) ==
    IF sale.price # NoPrice
    THEN sale.price
    ELSE Larger(1, RoundRatio(base * (10000 - sale.percentOff), 10000))

ActiveAt(sale, at) == sale.startsAt <= at /\ at < sale.endsAt

ResolveSalePrice(base, sales, at) ==
    LET lower == {SalePriceOf(base, sale) :
                    sale \in {s \in sales : ActiveAt(s, at)}} \cap 0..(base - 1)
    IN  IF lower = {} THEN NoPrice ELSE Min(lower)

UnitPrice(base, sales, at) ==
    LET sale == ResolveSalePrice(base, sales, at)
    IN  IF sale = NoPrice THEN base ELSE sale

(* One line of calculateCart.                                              *)
LineOf(price, milli, taxable, taxRateBps, pricesIncludeTax) ==
    LET displayed == RoundRatio(price * milli, 1000)
        tax == IF ~taxable THEN 0
               ELSE IF pricesIncludeTax
                    THEN RoundRatio(displayed * taxRateBps, 10000 + taxRateBps)
                    ELSE RoundRatio(displayed * taxRateBps, 10000)
    IN  IF pricesIncludeTax
        THEN [subtotal |-> displayed - tax, tax |-> tax, total |-> displayed]
        ELSE [subtotal |-> displayed, tax |-> tax, total |-> displayed + tax]

CashChange(due, received) == received - due

(* What is paid back for a part of a line, and when it is refused: the     *)
(* last part takes the rest, no part takes the line above what it cost.    *)
Share(whole, already, sold, returned, quantity) ==
    IF returned + quantity = sold
    THEN whole - already
    ELSE RoundRatio(whole * quantity, sold)

RefundLine(line, sold, before, quantity) ==
    [subtotal |-> Share(line.subtotal, before.subtotal, sold,
                        before.quantity, quantity),
     tax |-> Share(line.tax, before.tax, sold, before.quantity, quantity)]

CanRefundLine(line, sold, before, quantity) ==
    LET part == RefundLine(line, sold, before, quantity)
    IN  /\ quantity > 0
        /\ before.quantity + quantity <= sold
        /\ part.subtotal >= 0 /\ part.tax >= 0
        /\ before.subtotal + part.subtotal <= line.subtotal
        /\ before.tax + part.tax <= line.tax
=============================================================================
