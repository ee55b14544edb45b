--------------------------- MODULE StoreBooksProofs ---------------------------
(***************************************************************************)
(* Theorems about StoreBooks, for every catalog, every set of customers,   *)
(* requests and drawer movements, every tax rate and number of days.       *)
(***************************************************************************)
EXTENDS StoreBooks, SumTheorems

-----------------------------------------------------------------------------
(* Money arithmetic *)

LEMMA RoundRatioNatural ==
    ASSUME NEW n \in Nat, NEW d \in Nat \ {0}
    PROVE  RoundRatio(n, d) \in Nat /\ RoundRatio(0, d) = 0
<1>1. d \div 2 \in Nat /\ d \div 2 < d
  OBVIOUS
<1>2. (d \div 2) \div d = 0
  BY <1>1
<1>3. (n + d \div 2) \div d \in Nat
  BY <1>1
<1>. QED  BY <1>1, <1>2, <1>3 DEF RoundRatio

(* A part of a whole is rounded to no more than the whole.                 *)
LEMMA RoundRatioBounded ==
    ASSUME NEW n \in Nat, NEW d \in Nat \ {0}, NEW whole \in Nat, n <= whole * d
    PROVE  RoundRatio(n, d) <= whole
<1> DEFINE x == n + d \div 2
           q == x \div d
<1>1. x \in Nat /\ x < whole * d + d
  <2>1. d \div 2 \in Nat /\ d \div 2 < d
    OBVIOUS
  <2>2. whole * d \in Nat
    OBVIOUS
  <2>. QED  BY <2>1, <2>2
<1> HIDE DEF x
<1>2. q \in Nat /\ d * q <= x
  BY <1>1
<1> HIDE DEF q
<1>3. ASSUME q > whole
      PROVE  FALSE
  <2> DEFINE e == q - whole - 1
  <2>1. e \in Nat /\ q = whole + 1 + e
    BY <1>2, <1>3
  <2> HIDE DEF e
  <2>2. d * e \in Nat /\ d * q = whole * d + d + d * e
    BY <2>1
  <2>. QED  BY <1>1, <1>2, <2>2
<1>. QED  BY <1>2, <1>3 DEF RoundRatio, q, x

(* A line is what it costs plus its tax, and nothing for no goods.         *)
LEMMA LineIsSound ==
    ASSUME NEW price \in Nat, NEW milli \in Nat, NEW taxable, NEW rate \in Nat,
           NEW included \in BOOLEAN
    PROVE  LET line == LineOf(price, milli, taxable, rate, included)
           IN  /\ line \in ItemRows
               /\ line.total = line.subtotal + line.tax
               /\ line.subtotal >= 0 /\ line.tax >= 0
               /\ milli = 0 => line.subtotal = 0 /\ line.tax = 0 /\ line.total = 0
<1> DEFINE displayed == RoundRatio(price * milli, 1000)
           tax == IF ~taxable THEN 0
                  ELSE IF included
                       THEN RoundRatio(displayed * rate, 10000 + rate)
                       ELSE RoundRatio(displayed * rate, 10000)
<1>1. price * milli \in Nat /\ (milli = 0 => price * milli = 0)
  OBVIOUS
<1>2. displayed \in Nat /\ (milli = 0 => displayed = 0)
  <2> DEFINE n == price * milli
  <2> HIDE DEF n
  <2>1. RoundRatio(n, 1000) \in Nat /\ RoundRatio(0, 1000) = 0
    BY <1>1, RoundRatioNatural DEF n
  <2>. QED  BY <1>1, <2>1 DEF n
<1> HIDE DEF displayed
<1>3. displayed * rate \in Nat /\ (milli = 0 => displayed * rate = 0)
  BY <1>2
<1>4. tax \in Nat /\ (milli = 0 => tax = 0)
  <2> DEFINE n == displayed * rate
             d == 10000 + rate
  <2>1. n \in Nat /\ (milli = 0 => n = 0) /\ d \in Nat \ {0}
    BY <1>3
  <2> HIDE DEF n, d
  <2>2. RoundRatio(n, 10000) \in Nat /\ RoundRatio(0, 10000) = 0
    BY <2>1, RoundRatioNatural
  <2>3. RoundRatio(n, d) \in Nat /\ RoundRatio(0, d) = 0
    BY <2>1, RoundRatioNatural
  <2>. QED  BY <2>1, <2>2, <2>3 DEF n, d
<1>6. included => tax <= displayed
  <2> DEFINE n == displayed * rate
             d == 10000 + rate
  <2>1. n \in Nat /\ d \in Nat \ {0} /\ n <= displayed * d
    <3>1. displayed * d = 10000 * displayed + n
      BY <1>2
    <3>. QED  BY <1>2, <1>3, <3>1
  <2> HIDE DEF n, d
  <2>2. RoundRatio(n, d) <= displayed
    BY <1>2, <2>1, RoundRatioBounded
  <2>. QED  BY <1>2, <2>2 DEF n, d
<1> HIDE DEF tax
<1>5. LineOf(price, milli, taxable, rate, included) =
        IF included
        THEN [subtotal |-> displayed - tax, tax |-> tax, total |-> displayed]
        ELSE [subtotal |-> displayed, tax |-> tax, total |-> displayed + tax]
  BY DEF LineOf, displayed, tax
<1>. QED  BY <1>2, <1>4, <1>5, <1>6 DEF ItemRows

(* The least and the greatest of finitely many numbers.                    *)
LEMMA LeastAndGreatest ==
    ASSUME NEW S \in SUBSET Int, IsFiniteSet(S), S # {}
    PROVE  /\ Min(S) \in S /\ \A x \in S : Min(S) <= x
           /\ Max(S) \in S /\ \A x \in S : x <= Max(S)
<1> DEFINE Bounded(U) == U # {} =>
             (\E x \in U : \A y \in U : x <= y) /\ (\E x \in U : \A y \in U : y <= x)
           Good == {U \in SUBSET S : Bounded(U)}
<1>1. ASSUME NEW U \in SUBSET S, \A V \in SUBSET U : V # U => V \in Good
      PROVE  U \in Good
  <2>1. CASE U = {}
    BY <2>1
  <2>2. CASE U # {}
    <3>1. PICK x \in U : TRUE
      BY <2>2
    <3>2. CASE U = {x}
      BY <3>2
    <3>3. CASE U \ {x} # {}
      <4>1. U \ {x} \in Good
        BY <1>1, <3>1
      <4>2. PICK a \in U \ {x} : \A y \in U \ {x} : a <= y
        BY <3>3, <4>1
      <4>3. PICK b \in U \ {x} : \A y \in U \ {x} : y <= b
        BY <3>3, <4>1
      <4>4. \E c \in U : \A y \in U : c <= y
        <5>1. x \in Int /\ a \in Int /\ \A y \in U : y \in Int
          OBVIOUS
        <5>2. CASE x <= a
          BY <4>2, <5>1, <5>2
        <5>3. CASE a <= x
          BY <4>2, <5>1, <5>3
        <5>. QED  BY <5>1, <5>2, <5>3
      <4>5. \E c \in U : \A y \in U : y <= c
        <5>1. x \in Int /\ b \in Int /\ \A y \in U : y \in Int
          OBVIOUS
        <5>2. CASE x <= b
          BY <4>3, <5>1, <5>2
        <5>3. CASE b <= x
          BY <4>3, <5>1, <5>3
        <5>. QED  BY <5>1, <5>2, <5>3
      <4>. QED  BY <4>4, <4>5
    <3>. QED  BY <3>1, <3>2, <3>3
  <2>. QED  BY <2>1, <2>2
<1> HIDE DEF Good
<1>2. S \in Good
  BY <1>1, SubsetInduction
<1>3. /\ \E x \in S : \A y \in S : x <= y
      /\ \E x \in S : \A y \in S : y <= x
  BY <1>2 DEF Good
<1>. QED  BY <1>3 DEF Min, Max

(* The price of a product is its base price or a scheduled one below it.   *)
LEMMA PriceIsNatural ==
    ASSUME NEW p \in Products
    PROVE  PriceNow(p) \in Nat
<1> DEFINE base == BasePrice[p]
           lower == {SalePriceOf(base, s) :
                       s \in {s \in SalePrices[p] : ActiveAt(s, today)}} \cap 0..(base - 1)
<1>1. base \in Nat
  BY BooksAssumption DEF Quantities
<1> HIDE DEF base
<1>2. IsFiniteSet(lower) /\ lower \in SUBSET Int /\ lower \subseteq Nat
  <2>1. IsFiniteSet(0..(base - 1))
    BY <1>1, FS_Interval
  <2>2. lower \subseteq 0..(base - 1)
    OBVIOUS
  <2>. QED  BY <1>1, <2>1, <2>2, FS_Subset
<1>3. PriceNow(p) = LET sale_ == IF lower = {} THEN NoPrice ELSE Min(lower)
                    IN  IF sale_ = NoPrice THEN base ELSE sale_
  BY DEF PriceNow, UnitPrice, ResolveSalePrice, base
<1> HIDE DEF lower
<1>4. lower # {} => Min(lower) \in lower
  BY <1>2, LeastAndGreatest
<1>. QED  BY <1>1, <1>2, <1>3, <1>4

(* The lines of a cart.                                                    *)
LEMMA CartLineIsSound ==
    ASSUME NEW r, NEW p \in Products, r.cart \in Quantities,
           r.override \in [Products -> Nat \cup {NoPrice}]
    PROVE  /\ CartLine(r, p) \in ItemRows
           /\ CartLine(r, p).total = CartLine(r, p).subtotal + CartLine(r, p).tax
           /\ CartLine(r, p).subtotal >= 0 /\ CartLine(r, p).tax >= 0
           /\ r.cart[p] = 0 => /\ CartLine(r, p).subtotal = 0
                               /\ CartLine(r, p).tax = 0
                               /\ CartLine(r, p).total = 0
<1> DEFINE price == IF r.override[p] # NoPrice THEN r.override[p] ELSE PriceNow(p)
           milli == QuantityToMilli(SoldBy[p], r.cart[p])
           taxed == p \in Taxable
<1>1. price \in Nat
  BY PriceIsNatural
<1>2. milli \in Nat /\ (r.cart[p] = 0 => milli = 0)
  BY DEF QuantityToMilli, Quantities
<1>3. TaxRateBps \in Nat /\ PricesIncludeTax \in BOOLEAN
  BY BooksAssumption
<1>4. CartLine(r, p) = LineOf(price, milli, taxed, TaxRateBps, PricesIncludeTax)
  BY DEF CartLine
<1> HIDE DEF price, milli, taxed
<1>. QED  BY <1>1, <1>2, <1>3, <1>4, LineIsSound

(* What a request costs, and the rows of sale_items it writes.             *)
LEMMA CartIsFinite ==
    ASSUME NEW cart
    PROVE  /\ Lines(cart) \in SUBSET Products
           /\ \A S \in SUBSET Products : IsFiniteSet(S)
<1>. QED  BY BooksAssumption, FS_Subset DEF Lines

LEMMA RequestTypes ==
    ASSUME NEW r \in SaleRequests
    PROVE  /\ r.key \in Keys /\ r.cart \in Quantities /\ r.method \in Tenders
           /\ r.override \in [Products -> Nat \cup {NoPrice}]
           /\ r.customer \in Customers \cup {None} /\ r.received \in Nat
           /\ r.reference \in References
           /\ r.remainder \in Collected \cup {None}
           /\ r.method = "account" => r.customer \in Customers
           /\ \E p \in Products : r.cart[p] > 0
  BY RequestAssumption DEF Keys, References

LEMMA ItemIsSound ==
    ASSUME NEW r \in SaleRequests, NEW p \in Products
    PROVE  /\ SaleItem(r, p) \in ItemRows
           /\ SaleItem(r, p).total = SaleItem(r, p).subtotal + SaleItem(r, p).tax
           /\ SaleItem(r, p).subtotal >= 0 /\ SaleItem(r, p).tax >= 0
           /\ r.cart[p] = 0 => /\ SaleItem(r, p).subtotal = 0
                               /\ SaleItem(r, p).tax = 0
                               /\ SaleItem(r, p).total = 0
<1>1. /\ CartLine(r, p) \in ItemRows
      /\ CartLine(r, p).total = CartLine(r, p).subtotal + CartLine(r, p).tax
      /\ CartLine(r, p).subtotal >= 0 /\ CartLine(r, p).tax >= 0
      /\ r.cart[p] = 0 => /\ CartLine(r, p).subtotal = 0
                          /\ CartLine(r, p).tax = 0
                          /\ CartLine(r, p).total = 0
  BY RequestTypes, CartLineIsSound
<1> DEFINE line == CartLine(r, p)
<1>2. /\ line.subtotal \in Int
      /\ SaleItem(r, p) = IF p \in Eligible(r)
           THEN [subtotal |-> line.subtotal, tax |-> 0, total |-> line.subtotal]
           ELSE line
  BY <1>1 DEF SaleItem, ItemRows
<1> HIDE DEF line
<1>3. CASE p \in Eligible(r)
  BY <1>1, <1>2, <1>3 DEF ItemRows, line
<1>4. CASE p \notin Eligible(r)
  BY <1>1, <1>2, <1>4 DEF line
<1>. QED  BY <1>3, <1>4

LEMMA EligibleIsSound ==
    ASSUME NEW r \in SaleRequests, NEW p \in Products
    PROVE  EligibleLine(r, p) \in ItemRows
<1> DEFINE q == [r EXCEPT !.override = [x \in Products |-> NoPrice]]
<1>1. /\ r \in [key : {r.key}, cart : Quantities,
                override : [Products -> Nat \cup {NoPrice}], method : Tenders,
                customer : Customers \cup {None}, received : Nat,
                reference : {r.reference},
                remainder : Collected \cup {None}]
  BY RequestAssumption
<1>2. q.cart = r.cart /\ q.override = [x \in Products |-> NoPrice]
  BY <1>1
<1>3. q.cart \in Quantities /\ q.override \in [Products -> Nat \cup {NoPrice}]
  BY <1>2, RequestTypes
<1>4. CartLine(q, p) \in ItemRows
  <2> HIDE DEF q
  <2>. QED  BY <1>3, CartLineIsSound
<1>. QED  BY <1>4 DEF EligibleLine

LEMMA AmountsAreIntegers ==
    ASSUME NEW r \in SaleRequests
    PROVE  /\ Covered(r) \in Int /\ Waived(r) \in Int /\ CartTotal(r) \in Int
           /\ SaleTotal(r) \in Int /\ Remainder(r) \in Int /\ AmountDue(r) \in Int
<1> DEFINE E == Eligible(r)
           L == Lines(r.cart)
           covered == [p \in E |-> EligibleLine(r, p).subtotal]
           waived == [p \in E |-> EligibleLine(r, p).tax]
           total == [p \in L |-> CartLine(r, p).total]
<1>1. E \in SUBSET Products /\ L \in SUBSET Products /\ IsFiniteSet(E) /\ IsFiniteSet(L)
  BY CartIsFinite DEF Eligible
<1>2. covered \in [E -> Int] /\ waived \in [E -> Int]
  BY <1>1, EligibleIsSound DEF ItemRows
<1>3. total \in [L -> Int]
  BY <1>1, RequestTypes, CartLineIsSound DEF ItemRows
<1>4. Covered(r) = SumFunction(covered) /\ Waived(r) = SumFunction(waived)
      /\ CartTotal(r) = SumFunction(total)
  BY DEF Covered, Waived, CartTotal, Sum
<1> HIDE DEF E, L, covered, waived, total
<1>5. Covered(r) \in Int /\ Waived(r) \in Int /\ CartTotal(r) \in Int
  BY <1>1, <1>2, <1>3, <1>4, SumInt
<1>. QED  BY <1>5 DEF SaleTotal, Remainder, AmountDue

LEMMA PaymentIsSound ==
    ASSUME NEW r \in SaleRequests, TenderFits(r)
    PROVE  /\ PaymentOf(r) \in PaymentRows \cup {None}
           /\ PaymentOf(r) =
                IF r.method \in {"cash", "external_terminal"}
                THEN PaymentRow(r, r.method, AmountDue(r))
                ELSE IF IsBenefit(r) /\ Remainder(r) > 0
                THEN PaymentRow(r, r.remainder, AmountDue(r))
                ELSE None
           /\ r.method \in {"cash", "external_terminal"} => PaymentOf(r).method = r.method
<1>1. ASSUME NEW m \in Collected
      PROVE  PaymentRow(r, m, AmountDue(r)) \in PaymentRows
             /\ PaymentRow(r, m, AmountDue(r)).method = m
  BY AmountsAreIntegers, RequestTypes
     DEF PaymentRow, PaymentRows, CashChange, References
<1>2. r.method \in Tenders /\ r.remainder \in Collected \cup {None}
  BY RequestTypes
<1> DEFINE Row(m) == PaymentRow(r, m, AmountDue(r))
<1>3. PaymentOf(r) = IF r.method \in {"cash", "external_terminal"} THEN Row(r.method)
                     ELSE IF IsBenefit(r) /\ Remainder(r) > 0 THEN Row(r.remainder)
                     ELSE None
  <2> HIDE DEF Row
  <2>1. PaymentOf(r) = CASE r.method \in {"cash", "external_terminal"} -> Row(r.method)
                         [] r.method = "snap_ebt" /\ Remainder(r) > 0 -> Row(r.remainder)
                         [] OTHER -> None
    BY DEF PaymentOf, IsBenefit, Row
  <2> DEFINE rest == Remainder(r) > 0
  <2> HIDE DEF rest
  <2>2. PaymentOf(r) = CASE r.method \in {"cash", "external_terminal"} -> Row(r.method)
                         [] r.method = "snap_ebt" /\ rest -> Row(r.remainder)
                         [] OTHER -> None
    BY <2>1 DEF rest
  <2>3. IsBenefit(r) = (r.method = "snap_ebt")
    BY DEF IsBenefit
  <2>4. CASE r.method \in {"cash", "external_terminal"}
    BY <2>2, <2>4
  <2>5. CASE r.method = "snap_ebt" /\ rest
    BY <2>2, <2>3, <2>5 DEF rest
  <2>6. CASE r.method \notin {"cash", "external_terminal"} /\ ~(r.method = "snap_ebt" /\ rest)
    BY <2>2, <2>3, <2>6 DEF rest
  <2>. QED  BY <2>4, <2>5, <2>6
<1>4. IsBenefit(r) /\ Remainder(r) > 0 => r.remainder \in Collected
  BY <1>2 DEF TenderFits, BenefitFits
<1> HIDE DEF Row
<1>5. r.method \in {"cash", "external_terminal"} => PaymentOf(r) \in PaymentRows
  BY <1>1, <1>2, <1>3 DEF Row, Collected
<1>6. r.method \notin {"cash", "external_terminal"} => PaymentOf(r) \in PaymentRows \cup {None}
  BY <1>1, <1>3, <1>4 DEF Row
<1>7. r.method \in {"cash", "external_terminal"} => PaymentOf(r).method = r.method
  BY <1>1, <1>2, <1>3 DEF Row, Collected
<1>8. PaymentOf(r) =
                IF r.method \in {"cash", "external_terminal"}
                THEN PaymentRow(r, r.method, AmountDue(r))
                ELSE IF IsBenefit(r) /\ Remainder(r) > 0
                THEN PaymentRow(r, r.remainder, AmountDue(r))
                ELSE None
  BY <1>3 DEF Row
<1>. QED  BY <1>5, <1>6, <1>7, <1>8

-----------------------------------------------------------------------------
(* Types *)

(* The next number of this device is one that nothing carries yet.         *)
LEMMA NextReceiptIsFree ==
    ASSUME NEW used, CanNumber(used)
    PROVE  NextReceipt(used) \in Nat /\ NextReceipt(used) \notin used
<1> DEFINE R == RangeOf(Prefix)
           own == used \cap R
<1>1. IsFiniteSet(R) /\ R \subseteq Nat
  <2>1. CASE Prefix = 1
    <3>1. R = 1..(RangeSize - 1)
      BY <2>1 DEF RangeOf
    <3>. QED  BY <3>1, BooksAssumption, FS_Interval
  <2>2. CASE Prefix # 1
    <3> DEFINE a == Prefix * RangeSize
    <3>1. a \in Nat
      BY BooksAssumption
    <3>2. R = (a + 1)..(a + RangeSize - 1)
      BY <2>2 DEF RangeOf
    <3> HIDE DEF a
    <3>. QED  BY <3>1, <3>2, BooksAssumption, FS_Interval
  <2>. QED  BY <2>1, <2>2
<1>2. NextReceipt(used) \in R /\ NextReceipt(used) = IF own = {} THEN Min(R) ELSE Max(own) + 1
  BY DEF CanNumber, NextReceipt
<1> HIDE DEF R
<1>3. own \in SUBSET Int /\ IsFiniteSet(own)
  <2>1. own \subseteq R
    OBVIOUS
  <2>2. R \subseteq Int
    BY <1>1
  <2> HIDE DEF own
  <2>3. IsFiniteSet(own)
    BY <1>1, <2>1, FS_Subset
  <2>. QED  BY <2>1, <2>2, <2>3
<1>4. own # {} => \A x \in own : x <= Max(own) /\ Max(own) \in Int
  BY <1>3, LeastAndGreatest
<1>5. NextReceipt(used) \notin own
  <2>1. CASE own = {}
    BY <2>1
  <2>2. CASE own # {}
    <3> DEFINE m == Max(own)
    <3>1. m \in Int /\ \A x \in own : x <= m
      BY <1>4, <2>2
    <3>2. NextReceipt(used) = m + 1
      BY <1>2, <2>2
    <3> HIDE DEF m
    <3>. QED  BY <1>3, <3>1, <3>2
  <2>. QED  BY <2>1, <2>2
<1>. QED  BY <1>1, <1>2, <1>5

(* Records of finitely many documents; an account sale has its customer.   *)
Finite ==
    /\ IsFiniteSet(Sold) /\ IsFiniteSet(Paid) /\ IsFiniteSet(Refunded)
    /\ IsFiniteSet(ledger) /\ IsFiniteSet(moved)

OnAccount == \A k \in Sold : sale[k].tender = "account" <=> sale[k].customer # None

Typed == TypeOK /\ Finite /\ OnAccount

LEMMA InitTyped == Init => Typed
<1> SUFFICES ASSUME Init PROVE Typed
  OBVIOUS
<1>1. TypeOK
  <2>1. today \in Days /\ edits \in 0..MaxEdits
    BY BooksAssumption DEF Init, Days
  <2>2. stock \in Quantities /\ till \in Int /\ float \in Int
    BY BooksAssumption DEF Init
  <2>3. customer \in [Customers ->
          [active : BOOLEAN, blocked : BOOLEAN, limit : Nat \cup {NoPrice}]]
    BY DEF Init
  <2>4. /\ sale \in [Keys -> SaleRows \cup {None}]
        /\ payment \in [Payments -> AccountPaymentRows \cup {None}]
        /\ refund \in [Refunds -> RefundRows \cup {None}]
    BY DEF Init
  <2>. QED  BY <2>1, <2>2, <2>3, <2>4 DEF Init, TypeOK
<1>2. Sold = {} /\ Paid = {} /\ Refunded = {} /\ ledger = {} /\ moved = {}
  BY DEF Init, Sold, Paid, Refunded
<1>3. Finite
  BY <1>2, FS_EmptySet DEF Finite
<1>. QED  BY <1>1, <1>2, <1>3 DEF Typed, OnAccount

(* What the books add up is a number.                                      *)
LEMMA BalanceInteger ==
    ASSUME Typed
    PROVE  /\ \A c : IsFiniteSet(Entries(c)) /\ Entries(c) \subseteq LedgerRows
           /\ \A c : Balance(c) \in Int
<1>1. ledger \subseteq LedgerRows /\ IsFiniteSet(ledger)
  BY DEF Typed, TypeOK, Finite
<1>2. ASSUME NEW c
      PROVE  IsFiniteSet(Entries(c)) /\ Entries(c) \subseteq LedgerRows
  BY <1>1, FS_Subset DEF Entries
<1>3. ASSUME NEW c
      PROVE  Balance(c) \in Int
  <2> DEFINE E == Entries(c)
             f == [e \in E |-> e.amount]
  <2>1. IsFiniteSet(E) /\ f \in [E -> Int]
    BY <1>2 DEF LedgerRows
  <2>2. Balance(c) = SumFunction(f)
    BY DEF Balance, Sum
  <2> HIDE DEF E, f
  <2>. QED  BY <2>1, <2>2, SumInt
<1>. QED  BY <1>2, <1>3

LEMMA EntryTyped ==
    ASSUME Typed, NEW type \in {"sale_charge", "payment", "sale_refund"},
           NEW c \in Customers, NEW amount \in Int,
           NEW source \in Keys \cup Payments \cup Refunds
    PROVE  Entry(type, c, amount, source) \in LedgerRows
<1>1. Cardinality(ledger) \in Nat
  BY FS_CardinalityType DEF Typed, Finite
<1>2. today \in Days
  BY DEF Typed, TypeOK
<1>. QED  BY <1>1, <1>2 DEF Entry, LedgerRows

LEMMA CompleteSaleTyped ==
    ASSUME Typed, NEW r \in SaleRequests, CompleteSale(r)
    PROVE  /\ Typed'
           /\ SaleRecord(r) \in SaleRows /\ SaleRecord(r) # None /\ r.key \notin Sold
           /\ Sold' = Sold \cup {r.key}
<1> DEFINE s == SaleRecord(r)
           k == r.key
<1>1. TypeOK /\ Finite /\ OnAccount
  BY DEF Typed
<1>2. k \in Keys /\ sale[k] = None /\ sale \in [Keys -> SaleRows \cup {None}]
  BY <1>1, RequestTypes DEF CompleteSale, TypeOK
<1>3. s \in SaleRows
  <2>1. TenderType(r) \in Collected \cup {"account"}
    BY RequestTypes DEF TenderType, IsBenefit, Tenders, Collected
  <2>2. [p \in Products |-> SaleItem(r, p)] \in [Products -> ItemRows]
    BY ItemIsSound
  <2>3. NextReceipt(SaleReceipts) \in Nat
    BY NextReceiptIsFree DEF CompleteSale
  <2>4. /\ PaymentOf(r) \in PaymentRows \cup {None}
        /\ SaleTotal(r) \in Int /\ Covered(r) \in Int /\ CartTotal(r) \in Int
    BY PaymentIsSound, AmountsAreIntegers DEF CompleteSale
  <2>5. Balance(r.customer) \in Int /\ BalanceAfter(r) \in Int
    BY <2>4, BalanceInteger DEF BalanceAfter
  <2>6. r.customer \in Customers \cup {None} /\ r.cart \in Quantities /\ today \in Days
    BY <1>1, RequestTypes DEF TypeOK
  <2>. QED  BY <2>1, <2>2, <2>3, <2>4, <2>5, <2>6 DEF SaleRecord, SaleRows
<1>4. s # None
  BY <1>3, NullAssumption
<1> HIDE DEF s
<1>5. sale' = [sale EXCEPT ![k] = s]
  BY DEF CompleteSale, s
<1>6. Sold' = Sold \cup {k} /\ k \notin Sold
  BY <1>2, <1>4, <1>5 DEF Sold
<1>7. sale' \in [Keys -> SaleRows \cup {None}]
  BY <1>2, <1>3, <1>5
<1>8. IsFiniteSet(Sold')
  BY <1>1, <1>6, FS_AddElement DEF Finite
<1>9. stock' \in Quantities
  <2>1. stock \in Quantities /\ r.cart \in Quantities
    BY <1>1, RequestTypes DEF TypeOK
  <2>2. \A p \in Products : r.cart[p] > 0 => r.cart[p] <= stock[p]
    BY DEF CompleteSale, InStock, Lines
  <2>3. \A p \in Products : stock[p] - r.cart[p] \in Nat
    BY <2>1, <2>2 DEF Quantities
  <2>. QED  BY <2>3 DEF CompleteSale, Quantities
<1>10. ledger' \subseteq LedgerRows /\ IsFiniteSet(ledger')
  <2>1. CASE r.method = "account"
    <3>1. r.customer \in Customers /\ CartTotal(r) \in Int
      BY <2>1, RequestTypes, AmountsAreIntegers
    <3>2. Entry("sale_charge", r.customer, CartTotal(r), k) \in LedgerRows
      BY <1>2, <3>1, EntryTyped
    <3>. QED  BY <1>1, <2>1, <3>2, FS_AddElement DEF CompleteSale, TypeOK, Finite
  <2>2. CASE r.method # "account"
    BY <1>1, <2>2 DEF CompleteSale, TypeOK, Finite
  <2>. QED  BY <2>1, <2>2
<1>11. till' \in Int
  <2>1. PaymentOf(r) \in PaymentRows \cup {None}
    BY PaymentIsSound DEF CompleteSale
  <2>2. CashOf(PaymentOf(r)) \in Int
    BY <2>1 DEF CashOf, PaymentRows
  <2>. QED  BY <1>1, <2>2 DEF CompleteSale, TypeOK
<1>12. TypeOK'
  BY <1>1, <1>7, <1>9, <1>10, <1>11 DEF CompleteSale, TypeOK, setupVars, dayVars
<1>13. Finite'
  BY <1>1, <1>8, <1>10 DEF CompleteSale, Finite, Paid, Refunded
<1>14. OnAccount'
  <2>1. s.tender = "account" <=> s.customer # None
    BY RequestTypes, NullAssumption DEF s, SaleRecord, TenderType, IsBenefit
  <2>2. sale'[k] = s /\ \A x \in Sold : sale'[x] = sale[x]
    BY <1>2, <1>5, <1>6 DEF Sold
  <2>. QED  BY <1>1, <1>6, <2>1, <2>2 DEF OnAccount
<1>. QED  BY <1>3, <1>4, <1>6, <1>12, <1>13, <1>14 DEF Typed, s

LEMMA AccountPaymentTyped ==
    ASSUME Typed, NEW r \in PaymentRequests, RecordAccountPayment(r)
    PROVE  /\ Typed'
           /\ payment'[r.operation] \in AccountPaymentRows
           /\ r.operation \in Payments /\ r.operation \notin Paid
           /\ Paid' = Paid \cup {r.operation}
<1> DEFINE o == r.operation
           used == {payment[x].receipt : x \in Paid}
           row == [customer |-> r.customer, amount |-> r.amount, method |-> r.method,
                   received |-> IF r.method = "cash" THEN r.received ELSE 0,
                   before |-> Balance(r.customer),
                   after |-> Balance(r.customer) - r.amount,
                   receipt |-> NextReceipt(used), day |-> today]
<1>1. TypeOK /\ Finite /\ OnAccount
  BY DEF Typed
<1>2. /\ r \in [operation : Payments, customer : Customers, amount : Nat \ {0},
                method : Collected, received : Nat]
      /\ payment[o] = None /\ payment \in [Payments -> AccountPaymentRows \cup {None}]
  BY <1>1, RequestAssumption DEF RecordAccountPayment, TypeOK
<1>3. row \in AccountPaymentRows
  <2>1. NextReceipt(used) \in Nat
    BY NextReceiptIsFree DEF RecordAccountPayment
  <2>2. Balance(r.customer) \in Int /\ Balance(r.customer) - r.amount \in Int
    BY <1>2, BalanceInteger
  <2>3. today \in Days
    BY <1>1 DEF TypeOK
  <2> HIDE DEF used
  <2>. QED  BY <1>2, <2>1, <2>2, <2>3 DEF AccountPaymentRows
<1>4. row # None
  BY <1>3, NullAssumption
<1>5. payment' = [payment EXCEPT ![o] = row]
  BY DEF RecordAccountPayment
<1>6. /\ ledger' = ledger \cup {Entry("payment", r.customer, -r.amount, o)}
      /\ till' = IF r.method = "cash" THEN till + r.amount ELSE till
      /\ accepted' = accepted \cup {r}
      /\ UNCHANGED <<sale, foreign, refund, stock, moved, setupVars, dayVars>>
  BY DEF RecordAccountPayment
<1> HIDE DEF row
<1>7. o \in Payments /\ Paid' = Paid \cup {o} /\ o \notin Paid
  BY <1>2, <1>4, <1>5 DEF Paid
<1>8. payment' \in [Payments -> AccountPaymentRows \cup {None}] /\ payment'[o] = row
  BY <1>2, <1>3, <1>5
<1>9. ledger' \subseteq LedgerRows /\ IsFiniteSet(ledger')
  <2>1. -r.amount \in Int /\ r.customer \in Customers
    BY <1>2
  <2>2. Entry("payment", r.customer, -r.amount, o) \in LedgerRows
    BY <1>7, <2>1, EntryTyped
  <2>. QED  BY <1>1, <1>6, <2>2, FS_AddElement DEF TypeOK, Finite
<1>10. till' \in Int
  BY <1>1, <1>2, <1>6 DEF TypeOK
<1>11. TypeOK'
  BY <1>1, <1>6, <1>8, <1>9, <1>10 DEF TypeOK, setupVars, dayVars
<1>12. Finite'
  BY <1>1, <1>6, <1>7, <1>9, FS_AddElement DEF Finite, Sold, Refunded
<1>13. OnAccount'
  BY <1>1, <1>6 DEF OnAccount, Sold
<1>. QED  BY <1>3, <1>7, <1>8, <1>11, <1>12, <1>13 DEF Typed

LEMMA RefundRequestTypes ==
    ASSUME NEW r \in RefundRequests
    PROVE  /\ r.operation \in Refunds /\ r.sale \in Keys /\ r.quantity \in Quantities
           /\ r.restocked \in SUBSET Products
  BY RequestAssumption

LEMMA ReturnedTyped ==
    ASSUME Typed, NEW k, NEW p \in Products
    PROVE  /\ IsFiniteSet(RefundsOf(k))
           /\ \A o \in RefundsOf(k) : refund[o] \in RefundRows
           /\ Returned(k, p) \in [quantity : Nat, subtotal : Int, tax : Int]
<1> DEFINE R == RefundsOf(k)
           quantity == [o \in R |-> refund[o].quantity[p]]
           subtotal == [o \in R |-> refund[o].part[p].subtotal]
           tax == [o \in R |-> refund[o].part[p].tax]
<1>1. IsFiniteSet(R)
  BY FS_Subset DEF RefundsOf, Typed, Finite
<1>2. \A o \in R : refund[o] \in RefundRows
  BY DEF RefundsOf, Refunded, Typed, TypeOK
<1>3. ASSUME NEW o \in R
      PROVE  /\ refund[o].quantity[p] \in Nat
             /\ refund[o].part[p].subtotal \in Int /\ refund[o].part[p].tax \in Int
  <2>1. refund[o].quantity \in [Products -> Nat] /\ refund[o].part \in [Products -> Parts]
    BY <1>2 DEF RefundRows, Quantities
  <2>2. refund[o].quantity[p] \in Nat /\ refund[o].part[p] \in Parts
    BY <2>1
  <2>. QED  BY <2>2 DEF Parts
<1>4. /\ quantity \in [R -> Nat] /\ subtotal \in [R -> Int] /\ tax \in [R -> Int]
  BY <1>3
<1>5. Returned(k, p) = [quantity |-> SumFunction(quantity),
                        subtotal |-> SumFunction(subtotal), tax |-> SumFunction(tax)]
  BY DEF Returned, Sum
<1> HIDE DEF R, quantity, subtotal, tax
<1>6. SumFunction(quantity) \in Nat /\ SumFunction(subtotal) \in Int /\ SumFunction(tax) \in Int
  BY <1>1, <1>4, SumNat, SumInt
<1>. QED  BY <1>1, <1>2, <1>5, <1>6 DEF R

LEMMA SaleTyped ==
    ASSUME Typed, NEW k \in Sold
    PROVE  /\ k \in Keys /\ sale[k] \in SaleRows /\ sale[k].cart \in Quantities
           /\ \A p \in Products : sale[k].item[p] \in ItemRows /\ sale[k].cart[p] \in Nat
<1>1. k \in Keys /\ sale[k] \in SaleRows
  BY DEF Typed, TypeOK, Sold
<1>2. sale[k].item \in [Products -> ItemRows] /\ sale[k].cart \in [Products -> Nat]
  BY <1>1 DEF SaleRows, Quantities
<1>. QED  BY <1>1, <1>2 DEF Quantities

LEMMA PartTyped ==
    ASSUME Typed, NEW r \in RefundRequests, r.sale \in Sold, RefundFits(r),
           NEW p \in Products
    PROVE  Part(r, p) \in Parts
<1> DEFINE item == sale[r.sale].item[p]
           sold == sale[r.sale].cart[p]
           before == Returned(r.sale, p)
           quantity == r.quantity[p]
<1>1. item \in ItemRows /\ sold \in Nat /\ quantity \in Nat
      /\ before \in [quantity : Nat, subtotal : Int, tax : Int]
  BY SaleTyped, ReturnedTyped, RefundRequestTypes DEF Quantities
<1>2. CASE quantity = 0
  BY <1>2 DEF Part, Parts
<1>3. CASE quantity > 0
  <2>1. CanRefundLine(item, sold, before, quantity)
    BY <1>3 DEF RefundFits, Lines
  <2>2. Part(r, p) = RefundLine(item, sold, before, quantity)
    BY <1>3, <1>1 DEF Part
  <2> HIDE DEF item, sold, before, quantity
  <2>3. sold \in Nat \ {0} /\ before.quantity \in Nat
    BY <1>1, <2>1 DEF CanRefundLine
  <2>4. ASSUME NEW whole \in Int, NEW already \in Int
        PROVE  Share(whole, already, sold, before.quantity, quantity) \in Int
    <3>1. whole * quantity \in Int
      BY <1>1
    <3> DEFINE n == whole * quantity
    <3> HIDE DEF n
    <3>2. (n + sold \div 2) \div sold \in Int
      BY <2>3, <3>1 DEF n
    <3>3. RoundRatio(n, sold) \in Int
      BY <3>2 DEF RoundRatio
    <3>. QED  BY <3>3 DEF Share, n
  <2>5. /\ item.subtotal \in Int /\ item.tax \in Int
        /\ before.subtotal \in Int /\ before.tax \in Int
    BY <1>1 DEF ItemRows
  <2>6. Share(item.subtotal, before.subtotal, sold, before.quantity, quantity) \in Int
    BY <2>4, <2>5
  <2>7. Share(item.tax, before.tax, sold, before.quantity, quantity) \in Int
    BY <2>4, <2>5
  <2>. QED  BY <2>2, <2>6, <2>7 DEF RefundLine, Parts
<1>. QED  BY <1>1, <1>2, <1>3

LEMMA RefundAmountTyped ==
    ASSUME Typed, NEW r \in RefundRequests, r.sale \in Sold, RefundFits(r)
    PROVE  RefundAmount(r) \in Int
<1> DEFINE L == Lines(r.quantity)
           f == [p \in L |-> Part(r, p).subtotal + Part(r, p).tax]
<1>1. IsFiniteSet(L) /\ L \subseteq Products
  BY CartIsFinite
<1>2. f \in [L -> Int]
  BY <1>1, PartTyped DEF Parts
<1>3. RefundAmount(r) = SumFunction(f)
  BY DEF RefundAmount, Sum
<1> HIDE DEF L, f
<1>. QED  BY <1>1, <1>2, <1>3, SumInt

(* The record of a refund, and what it makes of the sale.                  *)
(* The lines a refund decides to fall short, and the row it writes.        *)
ShortNow(r) == refund'[r.operation].below

RefundRecord(r) ==
    [sale |-> r.sale, method |-> RefundMethod(sale[r.sale]),
     quantity |-> r.quantity, part |-> [p \in Products |-> Part(r, p)],
     amount |-> RefundAmount(r), restocked |-> r.restocked, below |-> ShortNow(r),
     receipt |-> NextReceipt({refund[o].receipt : o \in Refunded}), day |-> today]

RefundsSale(r) == AllReturned(r, ShortNow(r))

LEMMA RefundTyped ==
    ASSUME Typed, NEW r \in RefundRequests, RecordRefund(r)
    PROVE  /\ Typed'
           /\ r.sale \in Sold /\ RefundFits(r) /\ ShortNow(r) \subseteq MayFallShort(r)
           /\ refund' = [refund EXCEPT ![r.operation] = RefundRecord(r)]
           /\ RefundRecord(r) \in RefundRows /\ RefundRecord(r) # None
           /\ r.operation \in Refunds /\ r.operation \notin Refunded
           /\ Refunded' = Refunded \cup {r.operation}
           /\ sale' = IF RefundsSale(r)
                      THEN [sale EXCEPT ![r.sale].status = "refunded"] ELSE sale
           /\ Sold' = Sold
           /\ (RefundMethod(sale[r.sale]) = "account") <=> (sale[r.sale].tender = "account")
<1> DEFINE o == r.operation
           k == r.sale
           row == RefundRecord(r)
<1>1. TypeOK /\ Finite /\ OnAccount
  BY DEF Typed
<1>2. /\ o \in Refunds /\ k \in Keys /\ r.quantity \in Quantities
      /\ r.restocked \in SUBSET Products
  BY RefundRequestTypes
<1>3. k \in Sold /\ RefundFits(r)
  BY <1>2 DEF RecordRefund, Sold
<1>4. sale[k] \in SaleRows
  BY <1>3, SaleTyped
<1>5. /\ RefundMethod(sale[k]) \in Collected \cup {"account"}
      /\ (RefundMethod(sale[k]) = "account") <=> (sale[k].tender = "account")
  <2>1. sale[k].payment \in PaymentRows \cup {None}
    BY <1>4 DEF SaleRows
  <2>2. sale[k].payment # None => sale[k].payment.method \in Collected
    BY <2>1 DEF PaymentRows
  <2>. QED  BY <2>2 DEF RefundMethod, PaymentMethod, Collected
<1>8. /\ refund' = [refund EXCEPT ![o] = row]
      /\ sale' = IF RefundsSale(r) THEN [sale EXCEPT ![k].status = "refunded"] ELSE sale
      /\ refund[o] = None
      /\ ShortNow(r) \subseteq MayFallShort(r)
  <2>1. PICK below \in SUBSET MayFallShort(r) :
          /\ refund' = [refund EXCEPT ![o] = [row EXCEPT !.below = below]]
          /\ sale' = IF AllReturned(r, below)
                     THEN [sale EXCEPT ![k].status = "refunded"] ELSE sale
          /\ refund[o] = None
    BY DEF RecordRefund, RefundRecord
  <2>2. ShortNow(r) = below
    <3>1. refund'[o] = [row EXCEPT !.below = below]
      BY <1>1, <1>2, <2>1 DEF TypeOK
    <3>. QED  BY <3>1 DEF ShortNow, RefundRecord
  <2>3. [row EXCEPT !.below = below] = row
    BY <2>2 DEF RefundRecord
  <2>. QED  BY <2>1, <2>2, <2>3 DEF RefundsSale
<1>6. row \in RefundRows
  <2>1. RefundAmount(r) \in Int /\ [p \in Products |-> Part(r, p)] \in [Products -> Parts]
    BY <1>3, PartTyped, RefundAmountTyped
  <2>2. NextReceipt({refund[x].receipt : x \in Refunded}) \in Nat
    BY NextReceiptIsFree DEF RecordRefund
  <2>3. today \in Days
    BY <1>1 DEF TypeOK
  <2>4. ShortNow(r) \in SUBSET Products
    <3>1. Lines(r.quantity) \subseteq Products
      BY DEF Lines
    <3>. QED  BY <1>8, <3>1 DEF MayFallShort
  <2>. QED  BY <1>2, <1>5, <2>1, <2>2, <2>3, <2>4 DEF RefundRecord, RefundRows
<1>7. row # None
  BY <1>6, NullAssumption
<1> HIDE DEF row
<1>9. Refunded' = Refunded \cup {o} /\ o \notin Refunded
  BY <1>1, <1>2, <1>7, <1>8 DEF Refunded, TypeOK
<1>10. refund' \in [Refunds -> RefundRows \cup {None}]
  BY <1>1, <1>2, <1>6, <1>8 DEF TypeOK
<1>11. /\ sale' \in [Keys -> SaleRows \cup {None}] /\ Sold' = Sold
       /\ \A x \in Sold : sale'[x].tender = sale[x].tender /\ sale'[x].customer = sale[x].customer
  <2>1. CASE RefundsSale(r)
    <3> DEFINE s == [sale[k] EXCEPT !.status = "refunded"]
    <3>1. s \in SaleRows /\ s.tender = sale[k].tender /\ s.customer = sale[k].customer
      BY <1>4 DEF SaleRows
    <3>2. s # None
      BY <3>1, NullAssumption
    <3>3. sale' = [sale EXCEPT ![k] = s]
      BY <1>8, <2>1
    <3> HIDE DEF s
    <3>4. sale'[k] = s /\ \A x \in Keys \ {k} : sale'[x] = sale[x]
      BY <1>1, <1>2, <3>3 DEF TypeOK
    <3>5. Sold' = Sold
      BY <1>2, <1>3, <3>2, <3>4 DEF Sold
    <3>6. \A x \in Sold : sale'[x].tender = sale[x].tender /\ sale'[x].customer = sale[x].customer
      BY <3>1, <3>4 DEF Sold
    <3>7. sale' \in [Keys -> SaleRows \cup {None}]
      BY <1>1, <1>2, <3>1, <3>3 DEF TypeOK
    <3>. QED  BY <3>5, <3>6, <3>7
  <2>2. CASE ~RefundsSale(r)
    BY <1>1, <1>8, <2>2 DEF TypeOK, Sold
  <2>. QED  BY <2>1, <2>2
<1>12. stock' \in Quantities
  <2>1. \A p \in Products : stock[p] \in Nat /\ r.quantity[p] \in Nat
    BY <1>1, <1>2 DEF TypeOK, Quantities
  <2>2. \A p \in Products : stock[p] + PutBack(r, p) \in Nat
    BY <2>1 DEF PutBack
  <2>. QED  BY <2>2 DEF RecordRefund, Quantities
<1>13. ledger' \subseteq LedgerRows /\ IsFiniteSet(ledger')
  <2>1. CASE RefundMethod(sale[k]) = "account"
    <3>1. sale[k].customer \in Customers
      BY <1>1, <1>3, <1>4, <1>5, <2>1 DEF OnAccount, SaleRows
    <3>2. -RefundAmount(r) \in Int
      BY <1>3, RefundAmountTyped
    <3>3. Entry("sale_refund", sale[k].customer, -RefundAmount(r), o) \in LedgerRows
      BY <1>2, <3>1, <3>2, EntryTyped
    <3>4. ledger' = ledger \cup {Entry("sale_refund", sale[k].customer, -RefundAmount(r), o)}
      BY <2>1 DEF RecordRefund
    <3>. QED  BY <1>1, <3>3, <3>4, FS_AddElement DEF TypeOK, Finite
  <2>2. CASE RefundMethod(sale[k]) # "account"
    BY <1>1, <2>2 DEF RecordRefund, TypeOK, Finite
  <2>. QED  BY <2>1, <2>2
<1>14. till' \in Int
  BY <1>1, <1>3, RefundAmountTyped DEF RecordRefund, TypeOK
<1>15. TypeOK'
  BY <1>1, <1>10, <1>11, <1>12, <1>13, <1>14 DEF RecordRefund, TypeOK, setupVars, dayVars
<1>16. Finite'
  BY <1>1, <1>9, <1>11, <1>13, FS_AddElement DEF RecordRefund, Finite, Paid
<1>17. OnAccount'
  BY <1>1, <1>11 DEF OnAccount
<1>. QED  BY <1>2, <1>3, <1>5, <1>6, <1>7, <1>8, <1>9, <1>11, <1>15, <1>16, <1>17 DEF Typed, row

LEMMA DrawerTyped ==
    ASSUME Typed, NEW m \in DrawerMovements, RecordCashMovement(m)
    PROVE  Typed'
<1>1. TypeOK /\ Finite /\ OnAccount
  BY DEF Typed
<1>2. m.amount \in Int /\ <<m, today>> \in DrawerMovements \X Days
  BY <1>1, RequestAssumption DEF TypeOK
<1>3. till' \in Int
  BY <1>1, <1>2 DEF RecordCashMovement, TypeOK
<1>4. moved' \subseteq DrawerMovements \X Days /\ IsFiniteSet(moved')
  BY <1>1, <1>2, FS_AddElement DEF RecordCashMovement, TypeOK, Finite
<1>5. TypeOK'
  BY <1>1, <1>3, <1>4 DEF RecordCashMovement, TypeOK, setupVars, dayVars
<1>6. Finite'
  BY <1>1, <1>4 DEF RecordCashMovement, Finite, Sold, Paid, Refunded
<1>7. OnAccount'
  BY <1>1 DEF RecordCashMovement, OnAccount, Sold
<1>. QED  BY <1>5, <1>6, <1>7 DEF Typed

(* What a report adds up is a number.                                      *)
LEMMA CashTyped ==
    ASSUME Typed, NEW d
    PROVE  /\ CashSales(d) \in Int /\ CashPayments(d) \in Int /\ CashRefunds(d) \in Int
           /\ \A kinds : DrawerTotal(d, kinds) \in Int
           /\ \A opening \in Int : ExpectedCash(d, opening) \in Int
<1>1. TypeOK /\ Finite
  BY DEF Typed
<1>2. CashSales(d) \in Int
  <2> DEFINE S == SalesOn(d)
             f == [k \in S |-> CashOf(sale[k].payment)]
  <2>1. S \subseteq Sold /\ IsFiniteSet(S)
    BY <1>1, FS_Subset DEF SalesOn, Finite
  <2>2. \A k \in S : sale[k].payment \in PaymentRows \cup {None}
    BY <2>1, SaleTyped DEF SaleRows
  <2>3. f \in [S -> Int]
    BY <2>2 DEF CashOf, PaymentRows
  <2>4. CashSales(d) = SumFunction(f)
    BY DEF CashSales, Sum
  <2> HIDE DEF S, f
  <2>. QED  BY <2>1, <2>3, <2>4, SumInt
<1>3. CashPayments(d) \in Int
  <2> DEFINE S == {o \in Paid : payment[o].day = d /\ payment[o].method = "cash"}
             f == [o \in S |-> payment[o].amount]
  <2>1. S \subseteq Paid /\ IsFiniteSet(S)
    BY <1>1, FS_Subset DEF Finite
  <2>2. \A o \in S : payment[o] \in AccountPaymentRows
    BY <1>1, <2>1 DEF TypeOK, Paid
  <2>3. f \in [S -> Int]
    BY <2>2 DEF AccountPaymentRows
  <2>4. CashPayments(d) = SumFunction(f)
    BY DEF CashPayments, Sum
  <2> HIDE DEF S, f
  <2>. QED  BY <2>1, <2>3, <2>4, SumInt
<1>4. CashRefunds(d) \in Int
  <2> DEFINE S == {o \in Refunded : refund[o].day = d /\ refund[o].method = "cash"}
             f == [o \in S |-> refund[o].amount]
  <2>1. S \subseteq Refunded /\ IsFiniteSet(S)
    BY <1>1, FS_Subset DEF Finite
  <2>2. \A o \in S : refund[o] \in RefundRows
    BY <1>1, <2>1 DEF TypeOK, Refunded
  <2>3. f \in [S -> Int]
    BY <2>2 DEF RefundRows
  <2>4. CashRefunds(d) = SumFunction(f)
    BY DEF CashRefunds, Sum
  <2> HIDE DEF S, f
  <2>. QED  BY <2>1, <2>3, <2>4, SumInt
<1>5. ASSUME NEW kinds
      PROVE  DrawerTotal(d, kinds) \in Int
  <2> DEFINE S == {m \in moved : m[2] = d /\ m[1].kind \in kinds}
             f == [m \in S |-> m[1].amount]
  <2>1. S \subseteq moved /\ IsFiniteSet(S)
    BY <1>1, FS_Subset DEF Finite
  <2>2. \A m \in S : m[1] \in DrawerMovements
    BY <1>1, <2>1 DEF TypeOK
  <2>3. f \in [S -> Int]
    BY <2>2, RequestAssumption
  <2>4. DrawerTotal(d, kinds) = SumFunction(f)
    BY DEF DrawerTotal, Sum
  <2> HIDE DEF S, f
  <2>. QED  BY <2>1, <2>3, <2>4, SumInt
<1>. QED  BY <1>2, <1>3, <1>4, <1>5 DEF ExpectedCash

LEMMA CloseTyped ==
    ASSUME Typed, RecordDailyClose
    PROVE  Typed'
<1>1. TypeOK /\ Finite /\ OnAccount /\ till \in Int /\ float \in Int /\ today \in Days
  BY DEF Typed, TypeOK
<1>2. Report(today, float).expectedCash = ExpectedCash(today, float)
  BY DEF Report
<1>3. till - ExpectedCash(today, float) \in Int
  <2>1. ExpectedCash(today, float) \in Int
    BY <1>1, CashTyped
  <2>. QED  BY <1>1, <2>1
<1>4. closed' \subseteq [day : Days, overShort : Int]
  BY <1>1, <1>2, <1>3 DEF RecordDailyClose, TypeOK
<1>5. TypeOK'
  BY <1>1, <1>4 DEF RecordDailyClose, TypeOK, setupVars, bookVars
<1>6. Finite'
  BY <1>1 DEF RecordDailyClose, Finite, Sold, Paid, Refunded, bookVars
<1>7. OnAccount'
  BY <1>1 DEF RecordDailyClose, OnAccount, Sold, bookVars
<1>. QED  BY <1>5, <1>6, <1>7 DEF Typed

LEMMA EditTyped ==
    ASSUME Typed, Edit
    PROVE  Typed'
<1>1. TypeOK /\ Finite /\ OnAccount
  BY DEF Typed
<1> DEFINE Kinds == [active : BOOLEAN, blocked : BOOLEAN, limit : Nat \cup {NoPrice}]
<1>2. customer' \in [Customers -> Kinds]
  <2>1. CASE EditCustomer
    <3>1. PICK c \in Edited :
            \/ customer' = [customer EXCEPT ![c].active = ~customer[c].active]
            \/ customer' = [customer EXCEPT ![c].blocked = ~customer[c].blocked]
            \/ customer' = [customer EXCEPT ![c].limit =
                              IF customer[c].limit = NoPrice THEN 0 ELSE NoPrice]
      BY <2>1 DEF EditCustomer
    <3>2. c \in Customers /\ customer \in [Customers -> Kinds]
      BY <1>1, BooksAssumption DEF TypeOK
    <3>3. customer[c] \in Kinds
      BY <3>2
    <3>4. /\ [customer[c] EXCEPT !.active = ~customer[c].active] \in Kinds
          /\ [customer[c] EXCEPT !.blocked = ~customer[c].blocked] \in Kinds
          /\ [customer[c] EXCEPT !.limit =
                 IF customer[c].limit = NoPrice THEN 0 ELSE NoPrice] \in Kinds
      BY <3>3
    <3> HIDE DEF Kinds
    <3>. QED  BY <3>1, <3>2, <3>4
  <2>2. CASE UNCHANGED customer
    BY <1>1, <2>2 DEF TypeOK
  <2>. QED  BY <2>1, <2>2 DEF Edit
<1>3. /\ allowCredit' \in BOOLEAN /\ creditSeen' \in BOOLEAN /\ accountsEnabled' \in BOOLEAN
      /\ edits' \in 0..MaxEdits
  <2>1. /\ allowCredit \in BOOLEAN /\ creditSeen \in BOOLEAN /\ accountsEnabled \in BOOLEAN
        /\ edits \in 0..MaxEdits /\ MaxEdits \in Nat
    BY <1>1, BooksAssumption DEF TypeOK
  <2>2. edits' \in 0..MaxEdits
    BY <2>1 DEF Edit
  <2>3. CASE EditSettings
    BY <2>1, <2>2, <2>3 DEF EditSettings
  <2>4. CASE UNCHANGED <<allowCredit, creditSeen, accountsEnabled>>
    BY <2>1, <2>2, <2>4
  <2>. QED  BY <2>3, <2>4 DEF Edit
<1>4. TypeOK'
  BY <1>1, <1>2, <1>3 DEF Edit, TypeOK, bookVars, dayVars
<1>5. Finite'
  BY <1>1 DEF Edit, Finite, Sold, Paid, Refunded, bookVars
<1>6. OnAccount'
  BY <1>1 DEF Edit, OnAccount, Sold, bookVars
<1>. QED  BY <1>4, <1>5, <1>6 DEF Typed

(* The books are untouched by what is answered from them or ends the day.  *)
QuietStep ==
    \/ \E r \in SaleRequests : ReplaySale(r)
    \/ \E n \in ForeignReceipts : PullSale(n)
    \/ \E r \in PaymentRequests : ReplayAccountPayment(r)
    \/ NextDay
    \/ UNCHANGED vars

LEMMA QuietTyped ==
    ASSUME Typed, QuietStep
    PROVE  Typed' /\ UNCHANGED <<sale, payment, refund, ledger, stock, moved, till, closed>>
<1>1. TypeOK /\ Finite /\ OnAccount
  BY DEF Typed
<1>2. UNCHANGED <<sale, payment, refund, ledger, stock, moved, till, closed>>
  BY DEF QuietStep, ReplaySale, PullSale, ReplayAccountPayment, NextDay, vars, bookVars,
         setupVars, dayVars
<1>3. UNCHANGED setupVars /\ foreign' \subseteq ForeignReceipts
  BY <1>1 DEF QuietStep, ReplaySale, PullSale, ReplayAccountPayment, NextDay, vars, bookVars,
              setupVars, dayVars, TypeOK
<1>4. today' \in Days /\ float' \in Int
  BY <1>1, BooksAssumption DEF QuietStep, ReplaySale, PullSale, ReplayAccountPayment, NextDay,
              vars, bookVars, setupVars, dayVars, TypeOK, Days
<1>5. accepted' \subseteq SaleRequests \cup PaymentRequests
  BY <1>1 DEF QuietStep, ReplaySale, PullSale, ReplayAccountPayment, NextDay, vars, bookVars,
              setupVars, dayVars, TypeOK
<1>6. TypeOK'
  BY <1>1, <1>2, <1>3, <1>4, <1>5 DEF TypeOK, setupVars
<1>7. Finite' /\ OnAccount'
  BY <1>1, <1>2 DEF Finite, OnAccount, Sold, Paid, Refunded
<1>. QED  BY <1>2, <1>6, <1>7 DEF Typed

(* Every step is one of these.                                             *)
LEMMA StepCases ==
    ASSUME [Next]_vars
    PROVE  \/ \E r \in SaleRequests : CompleteSale(r)
           \/ \E r \in PaymentRequests : RecordAccountPayment(r)
           \/ \E r \in RefundRequests : RecordRefund(r)
           \/ \E m \in DrawerMovements : RecordCashMovement(m)
           \/ RecordDailyClose
           \/ Edit
           \/ QuietStep
  BY DEF Next, QuietStep

LEMMA StepTyped == Typed /\ [Next]_vars => Typed'
  BY StepCases, CompleteSaleTyped, AccountPaymentTyped, RefundTyped, DrawerTyped, CloseTyped,
     EditTyped, QuietTyped

LEMMA AlwaysTyped == Spec => []Typed
  BY InitTyped, StepTyped, PTL DEF Spec

(* Every variable keeps its type: the rows of the tables stay rows, stock  *)
(* never goes below zero and every amount is a whole number of cents.      *)
THEOREM TypeCorrect == Spec => []TypeOK
<1>1. Typed => TypeOK
  BY DEF Typed
<1>. QED  BY <1>1, AlwaysTyped, PTL

-----------------------------------------------------------------------------
(* Documents are written once *)

(* Of a sale only the status ever changes.                                 *)
Kept(k) ==
    /\ sale'[k].tender = sale[k].tender /\ sale'[k].cart = sale[k].cart
    /\ sale'[k].item = sale[k].item /\ sale'[k].total = sale[k].total
    /\ sale'[k].receipt = sale[k].receipt /\ sale'[k].customer = sale[k].customer
    /\ sale'[k].before = sale[k].before /\ sale'[k].after = sale[k].after
    /\ sale'[k].payment = sale[k].payment /\ sale'[k].benefit = sale[k].benefit
    /\ sale'[k].day = sale[k].day

LEMMA SaleWritten ==
    ASSUME Typed, NEW r \in SaleRequests, CompleteSale(r)
    PROVE  /\ r.key \notin Sold /\ Sold' = Sold \cup {r.key}
           /\ sale'[r.key] = SaleRecord(r) /\ \A k \in Sold : sale'[k] = sale[k]
<1>1. r.key \in Keys /\ sale \in [Keys -> SaleRows \cup {None}]
  BY RequestTypes DEF Typed, TypeOK
<1>2. sale' = [sale EXCEPT ![r.key] = SaleRecord(r)]
  BY DEF CompleteSale
<1>3. r.key \notin Sold /\ Sold' = Sold \cup {r.key}
  BY CompleteSaleTyped
<1>. QED  BY <1>1, <1>2, <1>3 DEF Sold

LEMMA SaleFields ==
    ASSUME NEW r
    PROVE  /\ SaleRecord(r).status = "completed" /\ SaleRecord(r).tender = TenderType(r)
           /\ SaleRecord(r).cart = r.cart
           /\ SaleRecord(r).item = [p \in Products |-> SaleItem(r, p)]
           /\ SaleRecord(r).total = SaleTotal(r)
           /\ SaleRecord(r).receipt = NextReceipt(SaleReceipts)
           /\ r.method = "account" => /\ SaleRecord(r).customer = r.customer
                                      /\ SaleRecord(r).before = Balance(r.customer)
                                      /\ SaleRecord(r).after = BalanceAfter(r)
           /\ r.method # "account" => SaleRecord(r).customer = None
           /\ SaleRecord(r).payment = PaymentOf(r) /\ SaleRecord(r).benefit = Covered(r)
           /\ SaleRecord(r).day = today
  BY DEF SaleRecord

LEMMA RefundWritten ==
    ASSUME Typed, NEW r \in RefundRequests, RecordRefund(r)
    PROVE  /\ \A k \in Sold : Kept(k)
           /\ \A k \in Sold \ {r.sale} : sale'[k] = sale[k]
           /\ sale'[r.sale].status = IF RefundsSale(r) THEN "refunded" ELSE sale[r.sale].status
           /\ refund'[r.operation] = RefundRecord(r)
           /\ \A o \in Refunded : refund'[o] = refund[o]
<1>1. /\ r.sale \in Sold /\ r.operation \in Refunds /\ r.operation \notin Refunded
      /\ refund' = [refund EXCEPT ![r.operation] = RefundRecord(r)]
      /\ sale' = IF RefundsSale(r) THEN [sale EXCEPT ![r.sale].status = "refunded"] ELSE sale
  BY RefundTyped
<1>2. sale \in [Keys -> SaleRows \cup {None}] /\ refund \in [Refunds -> RefundRows \cup {None}]
  BY DEF Typed, TypeOK
<1>3. refund'[r.operation] = RefundRecord(r) /\ \A o \in Refunded : refund'[o] = refund[o]
  BY <1>1, <1>2 DEF Refunded
<1>4. r.sale \in Keys /\ sale[r.sale] \in SaleRows
  BY <1>1, SaleTyped
<1>5. CASE RefundsSale(r)
  <2>1. sale' = [sale EXCEPT ![r.sale] = [sale[r.sale] EXCEPT !.status = "refunded"]]
    BY <1>1, <1>5
  <2>2. /\ sale'[r.sale] = [sale[r.sale] EXCEPT !.status = "refunded"]
        /\ \A k \in Keys \ {r.sale} : sale'[k] = sale[k]
    BY <1>2, <1>4, <2>1
  <2>3. Kept(r.sale) /\ sale'[r.sale].status = "refunded"
    BY <1>4, <2>2 DEF Kept, SaleRows
  <2>. QED  BY <1>3, <1>5, <2>2, <2>3 DEF Kept, Sold
<1>6. CASE ~RefundsSale(r)
  BY <1>1, <1>3, <1>6 DEF Kept
<1>. QED  BY <1>5, <1>6

LEMMA PaymentWritten ==
    ASSUME Typed, NEW r \in PaymentRequests, RecordAccountPayment(r)
    PROVE  /\ r.operation \notin Paid /\ Paid' = Paid \cup {r.operation}
           /\ payment'[r.operation].customer = r.customer
           /\ payment'[r.operation].amount = r.amount
           /\ payment'[r.operation].method = r.method
           /\ payment'[r.operation].before = Balance(r.customer)
           /\ payment'[r.operation].after = Balance(r.customer) - r.amount
           /\ payment'[r.operation].day = today
           /\ \A o \in Paid : payment'[o] = payment[o]
<1>1. r.operation \in Payments /\ payment \in [Payments -> AccountPaymentRows \cup {None}]
  BY AccountPaymentTyped DEF Typed, TypeOK
<1>2. r.operation \notin Paid /\ Paid' = Paid \cup {r.operation}
  BY AccountPaymentTyped
<1> DEFINE row ==
                [customer |-> r.customer, amount |-> r.amount, method |-> r.method,
                 received |-> IF r.method = "cash" THEN r.received ELSE 0,
                 before |-> Balance(r.customer),
                 after |-> Balance(r.customer) - r.amount,
                 receipt |-> NextReceipt({payment[o].receipt : o \in Paid}),
                 day |-> today]
<1>3. payment' = [payment EXCEPT ![r.operation] = row]
  BY DEF RecordAccountPayment
<1> HIDE DEF row
<1>4. payment'[r.operation] = row /\ \A o \in Paid : payment'[o] = payment[o]
  BY <1>1, <1>2, <1>3 DEF Paid
<1>5. /\ row.customer = r.customer /\ row.amount = r.amount /\ row.method = r.method
      /\ row.before = Balance(r.customer) /\ row.after = Balance(r.customer) - r.amount
      /\ row.day = today
  BY DEF row
<1>. QED  BY <1>2, <1>4, <1>5

(* The steps that write no document.                                       *)
LEMMA NoDocument ==
    ASSUME Typed,
           \/ \E m \in DrawerMovements : RecordCashMovement(m)
           \/ RecordDailyClose \/ Edit \/ QuietStep
    PROVE  UNCHANGED <<sale, payment, refund, ledger, stock, Sold, Paid, Refunded>>
<1>1. UNCHANGED <<sale, payment, refund, ledger, stock>>
  BY QuietTyped DEF RecordCashMovement, RecordDailyClose, Edit, bookVars
<1>. QED  BY <1>1 DEF Sold, Paid, Refunded

LEMMA DocumentsKept ==
    ASSUME Typed, [Next]_vars
    PROVE  /\ Sold \subseteq Sold' /\ \A k \in Sold : Kept(k)
           /\ Paid \subseteq Paid' /\ \A o \in Paid : payment'[o] = payment[o]
           /\ Refunded \subseteq Refunded' /\ \A o \in Refunded : refund'[o] = refund[o]
<1>1. ASSUME NEW r \in SaleRequests, CompleteSale(r)
      PROVE  /\ Sold \subseteq Sold' /\ \A k \in Sold : Kept(k)
             /\ Paid \subseteq Paid' /\ \A o \in Paid : payment'[o] = payment[o]
             /\ Refunded \subseteq Refunded' /\ \A o \in Refunded : refund'[o] = refund[o]
  <2>1. UNCHANGED <<payment, refund>>
    BY <1>1 DEF CompleteSale
  <2>. QED  BY <1>1, <2>1, SaleWritten DEF Kept, Paid, Refunded
<1>2. ASSUME NEW r \in PaymentRequests, RecordAccountPayment(r)
      PROVE  /\ Sold \subseteq Sold' /\ \A k \in Sold : Kept(k)
             /\ Paid \subseteq Paid' /\ \A o \in Paid : payment'[o] = payment[o]
             /\ Refunded \subseteq Refunded' /\ \A o \in Refunded : refund'[o] = refund[o]
  <2>1. UNCHANGED <<sale, refund>>
    BY <1>2 DEF RecordAccountPayment
  <2>. QED  BY <1>2, <2>1, PaymentWritten DEF Kept, Sold, Refunded
<1>3. ASSUME NEW r \in RefundRequests, RecordRefund(r)
      PROVE  /\ Sold \subseteq Sold' /\ \A k \in Sold : Kept(k)
             /\ Paid \subseteq Paid' /\ \A o \in Paid : payment'[o] = payment[o]
             /\ Refunded \subseteq Refunded' /\ \A o \in Refunded : refund'[o] = refund[o]
  <2>1. UNCHANGED payment
    BY <1>3 DEF RecordRefund
  <2>2. Sold' = Sold /\ Refunded' = Refunded \cup {r.operation}
    BY <1>3, RefundTyped
  <2>. QED  BY <1>3, <2>1, <2>2, RefundWritten DEF Paid
<1>4. CASE UNCHANGED <<sale, payment, refund, ledger, stock, Sold, Paid, Refunded>>
  BY <1>4 DEF Kept
<1>. QED  BY <1>1, <1>2, <1>3, <1>4, StepCases, NoDocument

-----------------------------------------------------------------------------
(* What the store said yes to *)

(* No two sales of this store carry one number, nor one of another device. *)
ReceiptsApart ==
    /\ \A k \in Sold : \A other \in Sold \ {k} : sale[k].receipt # sale[other].receipt
    /\ \A k \in Sold : sale[k].receipt \notin foreign

SaleReplied(r) ==
    /\ r.key \in Sold
    /\ sale[r.key].cart = r.cart /\ sale[r.key].tender = TenderType(r)
    /\ r.method = "account" => sale[r.key].customer = r.customer

PaymentReplied(r) ==
    /\ r.operation \in Paid
    /\ payment[r.operation].customer = r.customer
    /\ payment[r.operation].amount = r.amount

Replied ==
    /\ \A r \in accepted \cap SaleRequests : SaleReplied(r)
    /\ \A r \in accepted \cap PaymentRequests : PaymentReplied(r)

LEMMA RequestsDiffer == SaleRequests \cap PaymentRequests = {}
<1> SUFFICES ASSUME NEW r \in SaleRequests, r \in PaymentRequests PROVE FALSE
  OBVIOUS
<1>1. "cart" \in DOMAIN r
  BY RequestAssumption
<1>2. DOMAIN r = {"operation", "customer", "amount", "method", "received"}
  BY RequestAssumption
<1>. QED  BY <1>1, <1>2

LEMMA RepliedStep ==
    ASSUME Typed, Replied, [Next]_vars
    PROVE  Replied'
<1>1. /\ Sold \subseteq Sold' /\ \A k \in Sold : Kept(k)
      /\ Paid \subseteq Paid' /\ \A o \in Paid : payment'[o] = payment[o]
  BY DocumentsKept
<1>2. /\ \A r \in accepted \cap SaleRequests : SaleReplied(r)'
      /\ \A r \in accepted \cap PaymentRequests : PaymentReplied(r)'
  BY <1>1 DEF Replied, SaleReplied, PaymentReplied, Kept, TenderType, IsBenefit
<1>3. ASSUME NEW r \in SaleRequests, CompleteSale(r)
      PROVE  Replied'
  <2>1. SaleReplied(r)'
    <3>1. r.key \in Sold' /\ sale'[r.key] = SaleRecord(r)
      BY <1>3, SaleWritten
    <3>. QED  BY <3>1, SaleFields DEF SaleReplied, TenderType, IsBenefit
  <2>2. accepted' = accepted \cup {r} /\ r \notin PaymentRequests
    BY <1>3, RequestsDiffer DEF CompleteSale
  <2>. QED  BY <1>2, <2>1, <2>2 DEF Replied
<1>4. ASSUME NEW r \in SaleRequests, ReplaySale(r)
      PROVE  Replied'
  <2>1. r.key \in Sold
    BY <1>4, RequestTypes DEF ReplaySale, Sold
  <2>2. sale[r.key].tender \in Collected \cup {"account"}
    BY <2>1, SaleTyped DEF SaleRows
  <2>3. SaleReplied(r)
    BY <1>4, <2>1, <2>2
       DEF ReplaySale, SameSale, SaleReplied, TenderType, IsBenefit, Collected
  <2>4. SaleReplied(r)'
    BY <1>1, <2>3 DEF SaleReplied, Kept, TenderType, IsBenefit
  <2>5. accepted' = accepted \cup {r} /\ r \notin PaymentRequests
    BY <1>4, RequestsDiffer DEF ReplaySale
  <2>. QED  BY <1>2, <2>4, <2>5 DEF Replied
<1>5. ASSUME NEW r \in PaymentRequests, RecordAccountPayment(r)
      PROVE  Replied'
  <2>1. PaymentReplied(r)'
    <3>1. /\ r.operation \in Paid'
          /\ payment'[r.operation].customer = r.customer
          /\ payment'[r.operation].amount = r.amount
      BY <1>5, PaymentWritten
    <3>. QED  BY <3>1 DEF PaymentReplied
  <2>2. accepted' = accepted \cup {r} /\ r \notin SaleRequests
    BY <1>5, RequestsDiffer DEF RecordAccountPayment
  <2>. QED  BY <1>2, <2>1, <2>2 DEF Replied
<1>6. ASSUME NEW r \in PaymentRequests, ReplayAccountPayment(r)
      PROVE  Replied'
  <2>1. PaymentReplied(r)
    BY <1>6, RequestAssumption DEF ReplayAccountPayment, SamePayment, PaymentReplied, Paid
  <2>2. PaymentReplied(r)'
    BY <1>1, <2>1 DEF PaymentReplied
  <2>3. accepted' = accepted \cup {r} /\ r \notin SaleRequests
    BY <1>6, RequestsDiffer DEF ReplayAccountPayment
  <2>. QED  BY <1>2, <2>2, <2>3 DEF Replied
<1>7. CASE UNCHANGED accepted
  BY <1>2, <1>7 DEF Replied
<1>8. ASSUME NEW r, RecordRefund(r) \/ RecordCashMovement(r)
      PROVE  UNCHANGED accepted
  BY <1>8 DEF RecordRefund, RecordCashMovement
<1>9. RecordDailyClose \/ NextDay \/ Edit \/ (\E n \in ForeignReceipts : PullSale(n))
        => UNCHANGED accepted
  BY DEF RecordDailyClose, NextDay, Edit, PullSale
<1>10. UNCHANGED vars => UNCHANGED accepted
  BY DEF vars
<1>. QED  BY <1>3, <1>4, <1>5, <1>6, <1>7, <1>8, <1>9, <1>10 DEF Next

LEMMA ReceiptsApartStep ==
    ASSUME Typed, ReceiptsApart, [Next]_vars
    PROVE  ReceiptsApart'
<1>1. \A k \in Sold : k \in Sold' /\ sale'[k].receipt = sale[k].receipt
  BY DocumentsKept DEF Kept
<1>2. ASSUME NEW r \in SaleRequests, CompleteSale(r)
      PROVE  ReceiptsApart'
  <2>1. /\ r.key \notin Sold /\ Sold' = Sold \cup {r.key}
        /\ sale'[r.key].receipt = NextReceipt(SaleReceipts)
    BY <1>2, SaleWritten, SaleFields
  <2>2. NextReceipt(SaleReceipts) \notin SaleReceipts
    BY <1>2, NextReceiptIsFree DEF CompleteSale
  <2>3. foreign' = foreign
    BY <1>2 DEF CompleteSale
  <2> DEFINE n == NextReceipt(SaleReceipts)
  <2> HIDE DEF n
  <2>4. n \notin foreign /\ \A k \in Sold : sale[k].receipt # n
    BY <2>2 DEF SaleReceipts, n
  <2>5. sale'[r.key].receipt = n
    BY <2>1 DEF n
  <2>. QED  BY <1>1, <2>1, <2>3, <2>4, <2>5 DEF ReceiptsApart
<1>3. ASSUME Sold' = Sold, foreign' = foreign
      PROVE  ReceiptsApart'
  BY <1>1, <1>3 DEF ReceiptsApart
<1>4. ASSUME NEW r \in RefundRequests, RecordRefund(r)
      PROVE  ReceiptsApart'
  <2>1. Sold' = Sold /\ foreign' = foreign
    BY <1>4, RefundTyped DEF RecordRefund
  <2>. QED  BY <1>3, <2>1
<1>5. ASSUME NEW n \in ForeignReceipts, PullSale(n)
      PROVE  ReceiptsApart'
  <2>1. \A k \in Sold : sale[k].receipt # n
    BY <1>5 DEF PullSale, SaleReceipts
  <2>2. Sold' = Sold /\ foreign' = foreign \cup {n}
    BY <1>5 DEF PullSale, Sold
  <2>. QED  BY <1>1, <2>1, <2>2 DEF ReceiptsApart
<1>6. ASSUME NEW r, ReplaySale(r) \/ RecordAccountPayment(r) \/ ReplayAccountPayment(r)
                      \/ RecordCashMovement(r)
      PROVE  UNCHANGED <<sale, foreign>>
  BY <1>6 DEF ReplaySale, RecordAccountPayment, ReplayAccountPayment, RecordCashMovement, bookVars
<1>7. RecordDailyClose \/ NextDay \/ Edit \/ UNCHANGED vars => UNCHANGED <<sale, foreign>>
  BY DEF RecordDailyClose, NextDay, Edit, bookVars, vars
<1>8. UNCHANGED <<sale, foreign>> => Sold' = Sold /\ foreign' = foreign
  BY DEF Sold
<1>. QED  BY <1>2, <1>3, <1>4, <1>5, <1>6, <1>7, <1>8 DEF Next

(* Whatever the store said yes to is in the books as it was asked for,     *)
(* under a number no other sale has (completeSale, recordAccountPayment    *)
(* and their validateExisting...Match).                                    *)
THEOREM RepliesRecorded == Spec => []RepliesAreRecorded
<1> DEFINE Inv == Typed /\ Replied /\ ReceiptsApart
<1>1. Init => Inv
  <2> SUFFICES ASSUME Init PROVE Replied /\ ReceiptsApart
    BY InitTyped
  <2>1. accepted = {} /\ Sold = {}
    BY DEF Init, Sold
  <2>. QED  BY <2>1 DEF Replied, ReceiptsApart
<1>2. Inv /\ [Next]_vars => Inv'
  BY StepTyped, RepliedStep, ReceiptsApartStep
<1>3. Inv => RepliesAreRecorded
  BY DEF RepliesAreRecorded, Replied, ReceiptsApart, SaleReplied, PaymentReplied, Sold, Paid
<1>. QED  BY <1>1, <1>2, <1>3, PTL DEF Spec

-----------------------------------------------------------------------------
(* Statements *)

(* What a customer owed when a day began.                                  *)
OwedBefore(c, day) == Sum({e \in Entries(c) : e.day < day}, LAMBDA e : e.amount)

ChangeOf(c, from, to) ==
    Sum({e \in Entries(c) : from <= e.day /\ e.day < to}, LAMBDA e : e.amount)

LEMMA StatementAdds ==
    ASSUME Typed, NEW c, NEW from \in Int, NEW to \in Int, from <= to
    PROVE  /\ OwedBefore(c, from) \in Int /\ ChangeOf(c, from, to) \in Int
           /\ OwedBefore(c, to) = OwedBefore(c, from) + ChangeOf(c, from, to)
           /\ Statement(c, from, to).opening = OwedBefore(c, from)
           /\ Statement(c, from, to).closing = OwedBefore(c, to)
<1> DEFINE E == {e \in Entries(c) : e.day < to}
           T == {e \in Entries(c) : e.day < from}
           R == {e \in Entries(c) : from <= e.day /\ e.day < to}
           f == [e \in E |-> e.amount]
           g == [e \in T |-> e.amount]
           h == [e \in R |-> e.amount]
           charges == Sum({e \in R : e.amount > 0}, LAMBDA e : e.amount)
           payments == Sum({e \in R : e.amount < 0}, LAMBDA e : -e.amount)
<1>1. \A e \in Entries(c) : e \in LedgerRows /\ e.day \in Int /\ e.amount \in Int
  BY BalanceInteger DEF LedgerRows, Days
<1>2. IsFiniteSet(E) /\ IsFiniteSet(T) /\ IsFiniteSet(R)
  <2>1. E \subseteq Entries(c) /\ T \subseteq Entries(c) /\ R \subseteq Entries(c)
    OBVIOUS
  <2> HIDE DEF E, T, R
  <2>. QED  BY <2>1, BalanceInteger, FS_Subset
<1>3. T \in SUBSET E /\ R = E \ T
  BY <1>1
<1>4. f \in [E -> Int] /\ g \in [T -> Int] /\ h \in [R -> Int]
  BY <1>1
<1>5. SumFunction(f) = SumFunction(g) + SumFunction(h)
  <2>1. (\A e \in T : g[e] = f[e]) /\ \A e \in R : h[e] = f[e]
    BY <1>3
  <2> HIDE DEF E, T, R, f, g, h
  <2>. QED  BY <1>2, <1>3, <1>4, <2>1, SumParts
<1>6. /\ SumFunction(h) = charges - payments
      /\ charges \in Int /\ payments \in Int
  <2> DEFINE gains == [e \in {x \in R : h[x] > 0} |-> h[e]]
             losses == [e \in {x \in R : h[x] < 0} |-> -h[e]]
  <2>1. SumFunction(h) = SumFunction(gains) - SumFunction(losses)
        /\ SumFunction(gains) \in Int /\ SumFunction(losses) \in Int
    <3> HIDE DEF R, h
    <3>. QED  BY <1>2, <1>4, SumSigned
  <2>2. {x \in R : h[x] > 0} = {e \in R : e.amount > 0}
        /\ {x \in R : h[x] < 0} = {e \in R : e.amount < 0}
    <3> HIDE DEF R
    <3>. QED  OBVIOUS
  <2>3. gains = [e \in {x \in R : x.amount > 0} |-> e.amount]
        /\ losses = [e \in {x \in R : x.amount < 0} |-> -e.amount]
    <3> HIDE DEF R
    <3>. QED  BY <2>2
  <2>. QED  BY <2>1, <2>3 DEF Sum
<1>7. SumFunction(g) \in Int /\ SumFunction(h) \in Int
  <2> HIDE DEF E, T, R, f, g, h
  <2>. QED  BY <1>2, <1>4, SumInt
<1>8. /\ OwedBefore(c, from) = SumFunction(g) /\ OwedBefore(c, to) = SumFunction(f)
      /\ ChangeOf(c, from, to) = SumFunction(h)
  BY DEF OwedBefore, ChangeOf, Sum
<1>9. Statement(c, from, to) =
        [opening |-> OwedBefore(c, from), charges |-> charges, payments |-> payments,
         closing |-> OwedBefore(c, from) + charges - payments]
  BY DEF Statement, OwedBefore
<1> HIDE DEF E, T, R, f, g, h, charges, payments
<1>10. OwedBefore(c, from) + charges - payments = OwedBefore(c, to)
  BY <1>5, <1>6, <1>7, <1>8
<1>. QED  BY <1>5, <1>7, <1>8, <1>9, <1>10

-----------------------------------------------------------------------------
(* The ledger *)

LedgerNumbered == \A e \in ledger : e.sequence \in 1..Cardinality(ledger)

(* Entries stay, and what a receipt tells of the balance stays true.       *)
LedgerKept ==
    /\ ledger \subseteq ledger'
    /\ \A e \in ledger : BalanceBefore(e.customer, e.sequence)'
                            = BalanceBefore(e.customer, e.sequence)

LEMMA LedgerSame ==
    ASSUME UNCHANGED ledger
    PROVE  LedgerKept /\ Debtors' = Debtors /\ (LedgerNumbered => LedgerNumbered')
<1>1. ASSUME NEW c, NEW n
      PROVE  BalanceBefore(c, n)' = BalanceBefore(c, n)
  BY DEF BalanceBefore, Entries, Sum
<1>. QED  BY <1>1 DEF LedgerKept, Debtors, LedgerNumbered

LEMMA LedgerGrows ==
    ASSUME Typed, LedgerNumbered, NEW e, e.sequence = Cardinality(ledger) + 1,
           ledger' = ledger \cup {e}
    PROVE  /\ LedgerKept /\ LedgerNumbered' /\ e \notin ledger
           /\ Cardinality(ledger') = Cardinality(ledger) + 1
           /\ BalanceBefore(e.customer, e.sequence)' = Balance(e.customer)
<1>1. IsFiniteSet(ledger) /\ ledger \subseteq LedgerRows
  BY DEF Typed, TypeOK, Finite
<1> DEFINE n == Cardinality(ledger)
<1>2. n \in Nat
  BY <1>1, FS_CardinalityType
<1>3. \A x \in ledger : x.sequence \in 1..n
  BY DEF LedgerNumbered
<1>4. e.sequence = n + 1
  OBVIOUS
<1>5. e \notin ledger
  <2> HIDE DEF n
  <2>. QED  BY <1>2, <1>3, <1>4
<1>6. Cardinality(ledger') = n + 1
  BY <1>1, <1>5, FS_AddElement
<1> HIDE DEF n
<1>7. \A x \in ledger' : x.sequence \in 1..(n + 1)
  BY <1>2, <1>3, <1>4
<1>8. LedgerNumbered'
  BY <1>6, <1>7 DEF LedgerNumbered
<1>9. ASSUME NEW c, NEW m \in Nat, m <= n + 1
      PROVE  {x \in Entries(c)' : x.sequence < m} = {x \in Entries(c) : x.sequence < m}
  BY <1>2, <1>4, <1>9 DEF Entries
<1>10. ASSUME NEW x \in ledger
       PROVE  BalanceBefore(x.customer, x.sequence)' = BalanceBefore(x.customer, x.sequence)
  <2> DEFINE c == x.customer
             m == x.sequence
  <2>1. m \in Nat /\ m <= n + 1
    BY <1>2, <1>3
  <2> HIDE DEF c, m
  <2>2. {y \in Entries(c)' : y.sequence < m} = {y \in Entries(c) : y.sequence < m}
    BY <1>9, <2>1
  <2>3. BalanceBefore(c, m)' = BalanceBefore(c, m)
    BY <2>2 DEF BalanceBefore, Sum
  <2>. QED  BY <2>3 DEF c, m
<1>11. BalanceBefore(e.customer, e.sequence)' = Balance(e.customer)
  <2> DEFINE c == e.customer
             m == e.sequence
  <2>1. m \in Nat /\ m = n + 1
    BY <1>2, <1>4
  <2> HIDE DEF c, m
  <2>2. {y \in Entries(c)' : y.sequence < m} = {y \in Entries(c) : y.sequence < m}
    BY <1>2, <1>9, <2>1
  <2>3. {y \in Entries(c) : y.sequence < m} = Entries(c)
    BY <1>2, <1>3, <2>1 DEF Entries
  <2>4. BalanceBefore(c, m)' = Balance(c)
    BY <2>2, <2>3 DEF BalanceBefore, Balance, Sum
  <2>. QED  BY <2>4 DEF c, m
<1>. QED  BY <1>5, <1>6, <1>8, <1>10, <1>11 DEF LedgerKept, n

(* What the documents on account say is in the ledger.                     *)
SaleBooked(k) ==
    \E e \in ledger :
        /\ Explains(e, "sale_charge", sale[k].customer, sale[k].total, k, 1)
        /\ sale[k].before = BalanceBefore(e.customer, e.sequence)
        /\ sale[k].after = sale[k].before + e.amount

PaymentBooked(o) ==
    \E e \in ledger :
        /\ Explains(e, "payment", payment[o].customer, payment[o].amount, o, -1)
        /\ payment[o].before = BalanceBefore(e.customer, e.sequence)
        /\ payment[o].after = payment[o].before + e.amount

RefundBooked(o) ==
    \E e \in ledger :
        Explains(e, "sale_refund", sale[refund[o].sale].customer, refund[o].amount, o, -1)

RefundHasSale(o) ==
    /\ refund[o].sale \in Sold
    /\ (refund[o].method = "account") <=> (sale[refund[o].sale].tender = "account")

OnAccountSales == {k \in Sold : sale[k].customer # None}
OnAccountRefunds == {o \in Refunded : refund[o].method = "account"}

EntriesCounted ==
    Cardinality(ledger) =
        Cardinality(OnAccountSales) + Cardinality(Paid) + Cardinality(OnAccountRefunds)

Booked ==
    /\ LedgerNumbered
    /\ \A o \in Refunded : RefundHasSale(o)
    /\ \A k \in OnAccountSales : SaleBooked(k)
    /\ \A o \in Paid : PaymentBooked(o)
    /\ \A o \in OnAccountRefunds : RefundBooked(o)
    /\ EntriesCounted

LEMMA BookedKept ==
    ASSUME Typed, Booked, [Next]_vars, LedgerKept
    PROVE  /\ \A k \in OnAccountSales : k \in OnAccountSales' /\ SaleBooked(k)'
           /\ \A o \in Paid : PaymentBooked(o)'
           /\ \A o \in OnAccountRefunds : o \in OnAccountRefunds' /\ RefundBooked(o)'
           /\ \A o \in Refunded : RefundHasSale(o)'
<1>1. /\ Sold \subseteq Sold' /\ \A k \in Sold : Kept(k)
      /\ Paid \subseteq Paid' /\ \A o \in Paid : payment'[o] = payment[o]
      /\ Refunded \subseteq Refunded' /\ \A o \in Refunded : refund'[o] = refund[o]
  BY DocumentsKept
<1>2. ASSUME NEW k \in OnAccountSales
      PROVE  k \in OnAccountSales' /\ SaleBooked(k)'
  <2>1. k \in Sold /\ Kept(k) /\ k \in Sold'
    BY <1>1 DEF OnAccountSales
  <2>2. PICK e \in ledger :
          /\ Explains(e, "sale_charge", sale[k].customer, sale[k].total, k, 1)
          /\ sale[k].before = BalanceBefore(e.customer, e.sequence)
          /\ sale[k].after = sale[k].before + e.amount
    BY DEF Booked, SaleBooked
  <2>3. e \in ledger' /\ BalanceBefore(e.customer, e.sequence)'
                             = BalanceBefore(e.customer, e.sequence)
    BY DEF LedgerKept
  <2>4. /\ Explains(e, "sale_charge", sale'[k].customer, sale'[k].total, k, 1)
        /\ sale'[k].before = BalanceBefore(e.customer, e.sequence)'
        /\ sale'[k].after = sale'[k].before + e.amount
    BY <2>1, <2>2, <2>3 DEF Kept
  <2>5. SaleBooked(k)'
    BY <2>3, <2>4 DEF SaleBooked, Explains
  <2>6. k \in OnAccountSales'
    BY <2>1 DEF OnAccountSales, Kept
  <2>. QED  BY <2>5, <2>6
<1>3. ASSUME NEW o \in Paid
      PROVE  PaymentBooked(o)'
  <2>1. payment'[o] = payment[o]
    BY <1>1
  <2>2. PICK e \in ledger :
          /\ Explains(e, "payment", payment[o].customer, payment[o].amount, o, -1)
          /\ payment[o].before = BalanceBefore(e.customer, e.sequence)
          /\ payment[o].after = payment[o].before + e.amount
    BY DEF Booked, PaymentBooked
  <2>3. e \in ledger' /\ BalanceBefore(e.customer, e.sequence)'
                             = BalanceBefore(e.customer, e.sequence)
    BY DEF LedgerKept
  <2>. QED  BY <2>1, <2>2, <2>3 DEF PaymentBooked, Explains
<1>4. ASSUME NEW o \in Refunded
      PROVE  /\ refund'[o] = refund[o] /\ refund[o].sale \in Sold
             /\ Kept(refund[o].sale) /\ RefundHasSale(o)'
  <2>1. refund'[o] = refund[o] /\ refund[o].sale \in Sold
    BY <1>1 DEF Booked, RefundHasSale
  <2>2. Kept(refund[o].sale) /\ refund'[o].sale \in Sold'
    BY <1>1, <2>1
  <2>3. RefundHasSale(o)
    BY DEF Booked
  <2>. QED  BY <2>1, <2>2, <2>3 DEF RefundHasSale, Kept
<1>5. ASSUME NEW o \in OnAccountRefunds
      PROVE  o \in OnAccountRefunds' /\ RefundBooked(o)'
  <2>1. o \in Refunded /\ o \in Refunded'
    BY <1>1 DEF OnAccountRefunds
  <2>2. refund'[o] = refund[o] /\ Kept(refund[o].sale)
    BY <1>4, <2>1
  <2>3. PICK e \in ledger :
          Explains(e, "sale_refund", sale[refund[o].sale].customer, refund[o].amount, o, -1)
    BY DEF Booked, RefundBooked
  <2>4. e \in ledger'
    BY DEF LedgerKept
  <2>. QED  BY <2>1, <2>2, <2>3, <2>4 DEF RefundBooked, Explains, OnAccountRefunds, Kept
<1>. QED  BY <1>2, <1>3, <1>4, <1>5

LEMMA EntryFields ==
    ASSUME NEW type, NEW c, NEW amount, NEW source
    PROVE  /\ Entry(type, c, amount, source).type = type
           /\ Entry(type, c, amount, source).customer = c
           /\ Entry(type, c, amount, source).amount = amount
           /\ Entry(type, c, amount, source).source = source
           /\ Entry(type, c, amount, source).day = today
           /\ Entry(type, c, amount, source).sequence = Cardinality(ledger) + 1
  BY DEF Entry

LEMMA CountsTyped ==
    ASSUME Typed
    PROVE  /\ IsFiniteSet(OnAccountSales) /\ IsFiniteSet(OnAccountRefunds) /\ IsFiniteSet(Paid)
           /\ Cardinality(OnAccountSales) \in Nat /\ Cardinality(OnAccountRefunds) \in Nat
           /\ Cardinality(Paid) \in Nat /\ Cardinality(ledger) \in Nat
<1>1. OnAccountSales \subseteq Sold /\ OnAccountRefunds \subseteq Refunded
  BY DEF OnAccountSales, OnAccountRefunds
<1>. QED  BY <1>1, FS_Subset, FS_CardinalityType DEF Typed, Finite

(* A sale on account is charged what it costs.                             *)
LEMMA NothingWaived ==
    ASSUME NEW r, ~IsBenefit(r)
    PROVE  Eligible(r) = {} /\ Waived(r) = 0 /\ Covered(r) = 0
<1>1. Eligible(r) = {}
  BY DEF Eligible
<1> DEFINE f == [p \in Eligible(r) |-> EligibleLine(r, p).tax]
           g == [p \in Eligible(r) |-> EligibleLine(r, p).subtotal]
<1>2. Waived(r) = SumFunction(f) /\ Covered(r) = SumFunction(g)
  BY DEF Waived, Covered, Sum
<1>3. DOMAIN f = {} /\ DOMAIN g = {}
  BY <1>1
<1> HIDE DEF f, g
<1>. QED  BY <1>1, <1>2, <1>3, SumEmpty

LEMMA SaleBookedStep ==
    ASSUME Typed, Booked, [Next]_vars, NEW r \in SaleRequests, CompleteSale(r)
    PROVE  Booked'
<1> DEFINE k == r.key
<1>1. UNCHANGED <<payment, refund>> /\ Paid' = Paid /\ Refunded' = Refunded
      /\ OnAccountRefunds' = OnAccountRefunds
  BY DEF CompleteSale, Paid, Refunded, OnAccountRefunds
<1>2. /\ k \notin Sold /\ Sold' = Sold \cup {k}
      /\ sale'[k] = SaleRecord(r) /\ \A x \in Sold : sale'[x] = sale[x]
  BY SaleWritten
<1>3. CASE r.method = "account"
  <2>. PICK e : e = Entry("sale_charge", r.customer, CartTotal(r), k)
    OBVIOUS
  <2>1. ledger' = ledger \cup {e}
    BY <1>3 DEF CompleteSale
  <2>2. /\ e.type = "sale_charge" /\ e.customer = r.customer /\ e.amount = CartTotal(r)
        /\ e.source = k /\ e.sequence = Cardinality(ledger) + 1
    BY EntryFields
  <2>3. /\ LedgerKept /\ LedgerNumbered'
        /\ Cardinality(ledger') = Cardinality(ledger) + 1
        /\ BalanceBefore(e.customer, e.sequence)' = Balance(e.customer)
    BY <2>1, <2>2, LedgerGrows DEF Booked
  <2>4. r.customer \in Customers /\ CartTotal(r) \in Int /\ SaleTotal(r) = CartTotal(r)
    BY <1>3, RequestTypes, AmountsAreIntegers, NothingWaived DEF SaleTotal, IsBenefit
  <2>5. /\ sale'[k].customer = r.customer /\ sale'[k].total = CartTotal(r)
        /\ sale'[k].before = Balance(r.customer)
        /\ sale'[k].after = Balance(r.customer) + CartTotal(r)
    BY <1>2, <1>3, <2>4, SaleFields DEF BalanceAfter
  <2>6. Explains(e, "sale_charge", sale'[k].customer, sale'[k].total, k, 1)
    BY <2>2, <2>4, <2>5 DEF Explains
  <2>7. SaleBooked(k)'
    BY <2>1, <2>2, <2>3, <2>5, <2>6 DEF SaleBooked, Explains
  <2>8. OnAccountSales' = OnAccountSales \cup {k} /\ k \notin OnAccountSales
    BY <1>2, <2>4, <2>5, NullAssumption DEF OnAccountSales
  <2>9. Cardinality(OnAccountSales') = Cardinality(OnAccountSales) + 1
    BY <2>8, CountsTyped, FS_AddElement
  <2>10. EntriesCounted'
    BY <1>1, <2>3, <2>9, CountsTyped DEF Booked, EntriesCounted
  <2>11. \A x \in Refunded' : RefundHasSale(x)'
    BY <1>1, <2>3, BookedKept
  <2>12. \A x \in OnAccountSales' : SaleBooked(x)'
    BY <2>3, <2>7, <2>8, BookedKept
  <2>13. /\ \A o \in Paid' : PaymentBooked(o)'
         /\ \A o \in OnAccountRefunds' : RefundBooked(o)'
    BY <1>1, <2>3, BookedKept
  <2>. QED  BY <2>3, <2>10, <2>11, <2>12, <2>13 DEF Booked
<1>4. CASE r.method # "account"
  <2>1. ledger' = ledger
    BY <1>4 DEF CompleteSale
  <2>2. LedgerKept /\ LedgerNumbered'
    BY <2>1, LedgerSame DEF Booked
  <2>3. sale'[k].customer = None
    <3>1. SaleRecord(r).customer = None
      BY <1>4, SaleFields
    <3>. QED  BY <1>2, <3>1
  <2>4. OnAccountSales' = OnAccountSales
    BY <1>2, <2>3 DEF OnAccountSales
  <2>5. EntriesCounted'
    BY <1>1, <2>1, <2>4 DEF Booked, EntriesCounted
  <2>6. \A x \in Refunded' : RefundHasSale(x)'
    BY <1>1, <2>2, BookedKept
  <2>7. /\ \A x \in OnAccountSales' : SaleBooked(x)'
        /\ \A o \in Paid' : PaymentBooked(o)'
        /\ \A o \in OnAccountRefunds' : RefundBooked(o)'
    BY <1>1, <2>2, <2>4, BookedKept
  <2>. QED  BY <2>2, <2>5, <2>6, <2>7 DEF Booked
<1>. QED  BY <1>3, <1>4

LEMMA PaymentBookedStep ==
    ASSUME Typed, Booked, [Next]_vars, NEW r \in PaymentRequests, RecordAccountPayment(r)
    PROVE  Booked'
<1> DEFINE o == r.operation
<1>. PICK e : e = Entry("payment", r.customer, -r.amount, o)
  OBVIOUS
<1>1. /\ UNCHANGED <<sale, refund>> /\ Sold' = Sold /\ Refunded' = Refunded
      /\ OnAccountSales' = OnAccountSales /\ OnAccountRefunds' = OnAccountRefunds
  BY DEF RecordAccountPayment, Sold, Refunded, OnAccountSales, OnAccountRefunds
<1>2. /\ o \notin Paid /\ Paid' = Paid \cup {o}
      /\ payment'[o].customer = r.customer /\ payment'[o].amount = r.amount
      /\ payment'[o].before = Balance(r.customer)
      /\ payment'[o].after = Balance(r.customer) - r.amount
  BY PaymentWritten
<1>3. ledger' = ledger \cup {e}
  BY DEF RecordAccountPayment
<1>4. /\ e.type = "payment" /\ e.customer = r.customer /\ e.amount = -r.amount
      /\ e.source = o /\ e.sequence = Cardinality(ledger) + 1
  BY EntryFields
<1>5. /\ LedgerKept /\ LedgerNumbered'
      /\ Cardinality(ledger') = Cardinality(ledger) + 1
      /\ BalanceBefore(e.customer, e.sequence)' = Balance(e.customer)
  BY <1>3, <1>4, LedgerGrows DEF Booked
<1>6. r.amount \in Int /\ Balance(r.customer) \in Int
  BY RequestAssumption, BalanceInteger
<1>7. PaymentBooked(o)'
  <2>1. Explains(e, "payment", payment'[o].customer, payment'[o].amount, o, -1)
    BY <1>2, <1>4, <1>6 DEF Explains
  <2>2. payment'[o].after = payment'[o].before + e.amount
    BY <1>2, <1>4, <1>6
  <2>3. payment'[o].before = BalanceBefore(e.customer, e.sequence)'
    BY <1>2, <1>4, <1>5
  <2>. QED  BY <1>3, <2>1, <2>2, <2>3 DEF PaymentBooked, Explains
<1>8. Cardinality(Paid') = Cardinality(Paid) + 1
  BY <1>2, CountsTyped, FS_AddElement
<1>9. EntriesCounted'
  BY <1>1, <1>5, <1>8, CountsTyped DEF Booked, EntriesCounted
<1>10. \A x \in Refunded' : RefundHasSale(x)'
  BY <1>1, <1>5, BookedKept
<1>11. \A x \in Paid' : PaymentBooked(x)'
  BY <1>2, <1>5, <1>7, BookedKept
<1>12. /\ \A k \in OnAccountSales' : SaleBooked(k)'
       /\ \A x \in OnAccountRefunds' : RefundBooked(x)'
  BY <1>1, <1>5, BookedKept
<1>. QED  BY <1>5, <1>9, <1>10, <1>11, <1>12 DEF Booked

LEMMA RefundFields ==
    ASSUME NEW r
    PROVE  /\ RefundRecord(r).sale = r.sale
           /\ RefundRecord(r).method = RefundMethod(sale[r.sale])
           /\ RefundRecord(r).quantity = r.quantity
           /\ RefundRecord(r).part = [p \in Products |-> Part(r, p)]
           /\ RefundRecord(r).amount = RefundAmount(r)
           /\ RefundRecord(r).restocked = r.restocked
           /\ RefundRecord(r).day = today
  BY DEF RefundRecord

LEMMA RefundBookedStep ==
    ASSUME Typed, Booked, [Next]_vars, NEW r \in RefundRequests, RecordRefund(r)
    PROVE  Booked'
<1> DEFINE o == r.operation
           k == r.sale
<1>1. /\ payment' = payment /\ Paid' = Paid /\ Sold' = Sold /\ k \in Sold
      /\ o \notin Refunded /\ Refunded' = Refunded \cup {o}
      /\ (RefundMethod(sale[k]) = "account") <=> (sale[k].tender = "account")
  BY RefundTyped DEF RecordRefund, Paid
<1>2. /\ \A x \in Sold : Kept(x)
      /\ refund'[o] = RefundRecord(r) /\ \A x \in Refunded : refund'[x] = refund[x]
  BY RefundWritten
<1>3. /\ refund'[o].sale = k /\ refund'[o].method = RefundMethod(sale[k])
      /\ refund'[o].amount = RefundAmount(r)
  BY <1>2, RefundFields
<1>4. OnAccountSales' = OnAccountSales
  BY <1>1, <1>2 DEF OnAccountSales, Kept
<1>5. ASSUME LedgerKept
      PROVE  /\ \A x \in Refunded' : RefundHasSale(x)'
             /\ \A x \in OnAccountSales' : SaleBooked(x)'
             /\ \A x \in Paid' : PaymentBooked(x)'
             /\ \A x \in OnAccountRefunds : RefundBooked(x)'
  <2>1. \A x \in Refunded : RefundHasSale(x)'
    BY <1>5, BookedKept
  <2>2. refund'[o].sale \in Sold' /\ Kept(k)
    BY <1>1, <1>2, <1>3
  <2>3. (refund'[o].method = "account") <=> (sale'[refund'[o].sale].tender = "account")
    BY <1>1, <1>3, <2>2 DEF Kept
  <2>4. RefundHasSale(o)'
    BY <2>2, <2>3 DEF RefundHasSale
  <2>. QED  BY <1>1, <1>4, <1>5, <2>1, <2>4, BookedKept
<1>6. CASE RefundMethod(sale[k]) = "account"
  <2>. PICK e : e = Entry("sale_refund", sale[k].customer, -RefundAmount(r), o)
    OBVIOUS
  <2>1. ledger' = ledger \cup {e}
    BY <1>6 DEF RecordRefund
  <2>2. /\ e.type = "sale_refund" /\ e.customer = sale[k].customer
        /\ e.amount = -RefundAmount(r)
        /\ e.source = o /\ e.sequence = Cardinality(ledger) + 1
    BY EntryFields
  <2>3. LedgerKept /\ LedgerNumbered' /\ Cardinality(ledger') = Cardinality(ledger) + 1
    BY <2>1, <2>2, LedgerGrows DEF Booked
  <2>4. RefundAmount(r) \in Int
    BY <1>1, RefundTyped, RefundAmountTyped
  <2>5. Explains(e, "sale_refund", sale'[refund'[o].sale].customer, refund'[o].amount, o, -1)
    BY <1>1, <1>2, <1>3, <2>2, <2>4 DEF Explains, Kept
  <2>6. RefundBooked(o)'
    BY <2>1, <2>5 DEF RefundBooked, Explains
  <2>7. OnAccountRefunds' = OnAccountRefunds \cup {o} /\ o \notin OnAccountRefunds
    BY <1>1, <1>2, <1>3, <1>6 DEF OnAccountRefunds
  <2>8. Cardinality(OnAccountRefunds') = Cardinality(OnAccountRefunds) + 1
    BY <2>7, CountsTyped, FS_AddElement
  <2>9. EntriesCounted'
    BY <1>1, <1>4, <2>3, <2>8, CountsTyped DEF Booked, EntriesCounted
  <2>10. \A x \in OnAccountRefunds' : RefundBooked(x)'
    BY <1>5, <2>3, <2>6, <2>7
  <2>. QED  BY <1>5, <2>3, <2>9, <2>10 DEF Booked
<1>7. CASE RefundMethod(sale[k]) # "account"
  <2>1. ledger' = ledger
    BY <1>7 DEF RecordRefund
  <2>2. LedgerKept /\ LedgerNumbered'
    BY <2>1, LedgerSame DEF Booked
  <2>3. OnAccountRefunds' = OnAccountRefunds
    BY <1>1, <1>2, <1>3, <1>7 DEF OnAccountRefunds
  <2>4. EntriesCounted'
    BY <1>1, <1>4, <2>1, <2>3 DEF Booked, EntriesCounted
  <2>. QED  BY <1>5, <2>2, <2>3, <2>4 DEF Booked
<1>. QED  BY <1>6, <1>7

LEMMA BookedInit == Init => Booked
<1> SUFFICES ASSUME Init PROVE Booked
  OBVIOUS
<1>1. ledger = {} /\ Sold = {} /\ Paid = {} /\ Refunded = {}
  BY DEF Init, Sold, Paid, Refunded
<1>2. OnAccountSales = {} /\ OnAccountRefunds = {}
  BY <1>1 DEF OnAccountSales, OnAccountRefunds
<1>3. EntriesCounted
  BY <1>1, <1>2, FS_EmptySet DEF EntriesCounted
<1>. QED  BY <1>1, <1>2, <1>3 DEF Booked, LedgerNumbered

LEMMA BookedStep ==
    ASSUME Typed, Booked, [Next]_vars
    PROVE  Booked'
<1>1. ASSUME UNCHANGED <<sale, payment, refund, ledger, stock, Sold, Paid, Refunded>>
      PROVE  Booked'
  <2>1. LedgerKept /\ LedgerNumbered'
    BY <1>1, LedgerSame DEF Booked
  <2>2. OnAccountSales' = OnAccountSales /\ OnAccountRefunds' = OnAccountRefunds
    BY <1>1 DEF OnAccountSales, OnAccountRefunds
  <2>3. EntriesCounted'
    BY <1>1, <2>2 DEF Booked, EntriesCounted
  <2>. QED  BY <1>1, <2>1, <2>2, <2>3, BookedKept DEF Booked
<1>. QED  BY <1>1, SaleBookedStep, PaymentBookedStep, RefundBookedStep, StepCases, NoDocument

-----------------------------------------------------------------------------
(* Goods *)

SoldUnits(p) == SumFunction([k \in Sold |-> sale[k].cart[p]])
PutBackOf(p) == {o \in Refunded : p \in refund[o].restocked}
ReturnedUnits(p) == SumFunction([o \in PutBackOf(p) |-> refund[o].quantity[p]])

LEMMA UnitsTyped ==
    ASSUME Typed, NEW p \in Products
    PROVE  /\ IsFiniteSet(Sold) /\ IsFiniteSet(PutBackOf(p))
           /\ [k \in Sold |-> sale[k].cart[p]] \in [Sold -> Int]
           /\ [o \in PutBackOf(p) |-> refund[o].quantity[p]] \in [PutBackOf(p) -> Int]
           /\ SoldUnits(p) \in Int /\ ReturnedUnits(p) \in Int
           /\ stock[p] \in Int /\ StartStock[p] \in Int
<1> DEFINE f == [k \in Sold |-> sale[k].cart[p]]
           R == PutBackOf(p)
           g == [o \in R |-> refund[o].quantity[p]]
<1>1. IsFiniteSet(Sold) /\ IsFiniteSet(R)
  <2>1. R \subseteq Refunded
    BY DEF PutBackOf
  <2>. QED  BY <2>1, FS_Subset DEF Typed, Finite
<1>2. f \in [Sold -> Int]
  BY SaleTyped
<1>3. g \in [R -> Int]
  <2>1. ASSUME NEW o \in R
        PROVE  refund[o].quantity[p] \in Int
    <3>1. refund[o] \in RefundRows
      BY DEF PutBackOf, Refunded, Typed, TypeOK
    <3>. QED  BY <3>1 DEF RefundRows, Quantities
  <2>. QED  BY <2>1
<1>4. SoldUnits(p) = SumFunction(f) /\ ReturnedUnits(p) = SumFunction(g)
  BY DEF SoldUnits, ReturnedUnits
<1>5. stock[p] \in Int /\ StartStock[p] \in Int
  BY BooksAssumption DEF Typed, TypeOK, Quantities
<1> HIDE DEF f, g, R
<1>6. SumFunction(f) \in Int /\ SumFunction(g) \in Int
  BY <1>1, <1>2, <1>3, SumInt
<1>. QED  BY <1>1, <1>2, <1>3, <1>4, <1>5, <1>6 DEF f, g, R

Stocked == \A p \in Products : stock[p] = StartStock[p] - SoldUnits(p) + ReturnedUnits(p)

LEMMA SaleStocked ==
    ASSUME Typed, Stocked, NEW r \in SaleRequests, CompleteSale(r)
    PROVE  Stocked'
<1> SUFFICES ASSUME NEW p \in Products
             PROVE  stock'[p] = StartStock[p] - SoldUnits(p)' + ReturnedUnits(p)'
  BY DEF Stocked
<1> DEFINE f == [k \in Sold |-> sale[k].cart[p]]
           g == [k \in Sold' |-> sale'[k].cart[p]]
           x == r.key
<1>1. Typed'
  BY CompleteSaleTyped
<1>2. /\ x \notin Sold /\ Sold' = Sold \cup {x}
      /\ sale'[x].cart = r.cart /\ \A k \in Sold : sale'[k] = sale[k]
  BY SaleWritten, SaleFields
<1>3. IsFiniteSet(Sold) /\ f \in [Sold -> Int] /\ SoldUnits(p) = SumFunction(f)
  BY UnitsTyped DEF SoldUnits
<1>4. r.cart[p] \in Nat
  BY RequestTypes DEF Quantities
<1>5. g \in [Sold \cup {x} -> Int] /\ g[x] = r.cart[p] /\ \A k \in Sold : g[k] = f[k]
  BY <1>2, <1>3, <1>4
<1>6. SoldUnits(p)' = SumFunction(g)
  BY DEF SoldUnits
<1> HIDE DEF f, g
<1>7. SumFunction(g) = SumFunction(f) + r.cart[p]
  BY <1>2, <1>3, <1>5, SumExtended
<1>8. ReturnedUnits(p)' = ReturnedUnits(p)
  BY DEF CompleteSale, ReturnedUnits, PutBackOf, Refunded
<1>9. stock'[p] = stock[p] - r.cart[p]
  BY DEF CompleteSale
<1>10. stock[p] = StartStock[p] - SoldUnits(p) + ReturnedUnits(p)
  BY DEF Stocked
<1>. QED  BY <1>3, <1>4, <1>6, <1>7, <1>8, <1>9, <1>10, UnitsTyped

LEMMA RefundStocked ==
    ASSUME Typed, Stocked, NEW r \in RefundRequests, RecordRefund(r)
    PROVE  Stocked'
<1> SUFFICES ASSUME NEW p \in Products
             PROVE  stock'[p] = StartStock[p] - SoldUnits(p)' + ReturnedUnits(p)'
  BY DEF Stocked
<1> DEFINE R == PutBackOf(p)
           f == [o \in R |-> refund[o].quantity[p]]
           g == [o \in PutBackOf(p)' |-> refund'[o].quantity[p]]
           x == r.operation
<1>1. /\ x \notin Refunded /\ Refunded' = Refunded \cup {x} /\ Sold' = Sold
      /\ refund'[x] = RefundRecord(r) /\ \A o \in Refunded : refund'[o] = refund[o]
      /\ \A k \in Sold : sale'[k].cart = sale[k].cart
  BY RefundTyped, RefundWritten DEF Kept
<1>2. refund'[x].quantity = r.quantity /\ refund'[x].restocked = r.restocked
  BY <1>1, RefundFields
<1>3. IsFiniteSet(R) /\ f \in [R -> Int] /\ ReturnedUnits(p) = SumFunction(f)
  BY UnitsTyped DEF ReturnedUnits
<1>4. r.quantity[p] \in Nat
  BY RefundRequestTypes DEF Quantities
<1>5. SoldUnits(p)' = SoldUnits(p)
  <2>1. [k \in Sold' |-> sale'[k].cart[p]] = [k \in Sold |-> sale[k].cart[p]]
    BY <1>1
  <2>. QED  BY <2>1 DEF SoldUnits
<1>6. ReturnedUnits(p)' = SumFunction(g)
  BY DEF ReturnedUnits
<1>7. stock'[p] = stock[p] + PutBack(r, p)
  BY DEF RecordRefund
<1>8. ReturnedUnits(p)' = ReturnedUnits(p) + PutBack(r, p)
  <2>1. CASE p \in r.restocked
    <3>1. PutBackOf(p)' = R \cup {x} /\ x \notin R
      BY <1>1, <1>2, <2>1 DEF PutBackOf
    <3>2. \A o \in R : refund'[o] = refund[o]
      BY <1>1 DEF PutBackOf
    <3>3. g \in [R \cup {x} -> Int] /\ g[x] = r.quantity[p] /\ \A o \in R : g[o] = f[o]
      BY <1>2, <1>3, <1>4, <3>1, <3>2
    <3> HIDE DEF R, f, g
    <3>4. ASSUME NEW G \in [R \cup {x} -> Int], \A o \in R : G[o] = f[o]
          PROVE  SumFunction(G) = SumFunction(f) + G[x]
      <4>1. IsFiniteSet(R) /\ f \in [R -> Int] /\ x \notin R
        BY <1>3, <3>1
      <4> HIDE DEF x
      <4>. QED  BY <3>4, <4>1, SumExtended
    <3>5. SumFunction(g) = SumFunction(f) + g[x]
      BY <3>3, <3>4
    <3>. QED  BY <1>3, <1>6, <2>1, <3>3, <3>5 DEF PutBack
  <2>2. CASE p \notin r.restocked
    <3>1. PutBackOf(p)' = R /\ \A o \in R : refund'[o] = refund[o]
      BY <1>1, <1>2, <2>2 DEF PutBackOf
    <3>2. g = f
      BY <3>1
    <3>3. PutBack(r, p) = 0
      BY <2>2 DEF PutBack
    <3>. QED  BY <1>3, <1>6, <3>2, <3>3, UnitsTyped
  <2>. QED  BY <2>1, <2>2
<1>9. PutBack(r, p) \in Int
  BY <1>4 DEF PutBack
<1>10. stock[p] = StartStock[p] - SoldUnits(p) + ReturnedUnits(p)
  BY DEF Stocked
<1> HIDE DEF f, g, R
<1>. QED  BY <1>5, <1>7, <1>8, <1>9, <1>10, UnitsTyped

LEMMA StockedStep ==
    ASSUME Typed, Stocked, [Next]_vars
    PROVE  Stocked'
<1>1. ASSUME UNCHANGED <<sale, refund, stock>>
      PROVE  Stocked'
  <2>1. ASSUME NEW p
        PROVE  SoldUnits(p)' = SoldUnits(p) /\ ReturnedUnits(p)' = ReturnedUnits(p)
    BY <1>1 DEF SoldUnits, ReturnedUnits, PutBackOf, Sold, Refunded
  <2>. QED  BY <1>1, <2>1 DEF Stocked
<1>2. ASSUME NEW r, RecordAccountPayment(r)
      PROVE  UNCHANGED <<sale, refund, stock>>
  BY <1>2 DEF RecordAccountPayment
<1>. QED  BY <1>1, <1>2, SaleStocked, RefundStocked, StepCases, NoDocument

LEMMA OwedInTheEnd ==
    ASSUME Typed, NEW c
    PROVE  /\ OwedBefore(c, 1) = 0 /\ OwedBefore(c, LastDay + 1) = Balance(c)
<1>1. \A e \in Entries(c) : e.day \in 1..LastDay
  BY BalanceInteger DEF LedgerRows, Days
<1>2. {e \in Entries(c) : e.day < LastDay + 1} = Entries(c)
  BY <1>1, BooksAssumption
<1>3. {e \in Entries(c) : e.day < 1} = {}
  BY <1>1
<1>4. OwedBefore(c, LastDay + 1) = Balance(c)
  BY <1>2 DEF OwedBefore, Balance, Sum
<1> DEFINE f == [e \in {x \in Entries(c) : x.day < 1} |-> e.amount]
<1>5. OwedBefore(c, 1) = SumFunction(f) /\ DOMAIN f = {}
  BY <1>3 DEF OwedBefore, Sum
<1> HIDE DEF f
<1>6. OwedBefore(c, 1) = 0
  BY <1>5, SumEmpty
<1>. QED  BY <1>4, <1>6

(* The ledger and the documents explain each other, statements add up to   *)
(* the balance, and the stock is what the sales and refunds leave of it    *)
(* (completeSale, recordAccountPayment, recordRefund,                      *)
(* getCustomerStatement).                                                  *)
THEOREM BooksAreExplained == Spec => []BooksExplained
<1> DEFINE Inv == Typed /\ Booked /\ Stocked
<1>1. Init => Inv
  <2> SUFFICES ASSUME Init PROVE Booked /\ Stocked
    BY InitTyped
  <2>1. ledger = {} /\ Sold = {} /\ Paid = {} /\ Refunded = {} /\ stock = StartStock
    BY DEF Init, Sold, Paid, Refunded
  <2>4. Booked
    BY BookedInit
  <2>5. ASSUME NEW p \in Products
        PROVE  stock[p] = StartStock[p] - SoldUnits(p) + ReturnedUnits(p)
    <3>1. SoldUnits(p) = 0 /\ ReturnedUnits(p) = 0
      <4> DEFINE f == [k \in Sold |-> sale[k].cart[p]]
                 g == [o \in PutBackOf(p) |-> refund[o].quantity[p]]
      <4>1. DOMAIN f = {} /\ DOMAIN g = {}
        BY <2>1 DEF PutBackOf
      <4>2. SoldUnits(p) = SumFunction(f) /\ ReturnedUnits(p) = SumFunction(g)
        BY DEF SoldUnits, ReturnedUnits
      <4> HIDE DEF f, g
      <4>. QED  BY <4>1, <4>2, SumEmpty
    <3>2. StartStock[p] \in Int
      BY BooksAssumption DEF Quantities
    <3>. QED  BY <2>1, <3>1, <3>2
  <2>. QED  BY <2>4, <2>5 DEF Stocked
<1>2. Inv /\ [Next]_vars => Inv'
  BY StepTyped, BookedStep, StockedStep
<1>3. Inv => BooksExplained
  <2> SUFFICES ASSUME Inv PROVE LedgerExplained /\ GoodsExplained
    BY DEF BooksExplained
  <2>1. \A k \in Sold : sale[k].customer # None =>
         \E e \in ledger :
             /\ Explains(e, "sale_charge", sale[k].customer, sale[k].total, k, 1)
             /\ sale[k].before = BalanceBefore(e.customer, e.sequence)
             /\ sale[k].after = sale[k].before + e.amount
    BY DEF Booked, SaleBooked, OnAccountSales
  <2>2. \A o \in Paid :
         \E e \in ledger :
             /\ Explains(e, "payment", payment[o].customer, payment[o].amount, o, -1)
             /\ payment[o].before = BalanceBefore(e.customer, e.sequence)
             /\ payment[o].after = payment[o].before + e.amount
    BY DEF Booked, PaymentBooked
  <2>3. \A o \in Refunded : refund[o].method = "account" =>
         \E e \in ledger :
             Explains(e, "sale_refund", sale[refund[o].sale].customer,
                      refund[o].amount, o, -1)
    BY DEF Booked, RefundBooked, OnAccountRefunds
  <2>4. Cardinality(ledger) =
         Cardinality({k \in Sold : sale[k].customer # None})
         + Cardinality(Paid)
         + Cardinality({o \in Refunded : refund[o].method = "account"})
    BY DEF Booked, EntriesCounted, OnAccountSales, OnAccountRefunds
  <2>5. ASSUME NEW c \in Debtors, NEW d \in Days
        PROVE  /\ Statement(c, 1, d).closing = Statement(c, d, LastDay + 1).opening
               /\ Statement(c, d, LastDay + 1).closing = Balance(c)
    <3>1. d \in Int /\ 1 <= d /\ d <= LastDay + 1 /\ LastDay + 1 \in Int
      BY BooksAssumption DEF Days
    <3>2. Statement(c, 1, d).closing = OwedBefore(c, d)
      BY <3>1, StatementAdds
    <3>3. /\ Statement(c, d, LastDay + 1).opening = OwedBefore(c, d)
          /\ Statement(c, d, LastDay + 1).closing = OwedBefore(c, LastDay + 1)
      BY <3>1, StatementAdds
    <3>. QED  BY <3>2, <3>3, OwedInTheEnd
  <2>6. LedgerExplained
    BY <2>1, <2>2, <2>3, <2>4, <2>5 DEF LedgerExplained
  <2>7. GoodsExplained
    BY DEF Stocked, SoldUnits, ReturnedUnits, PutBackOf, GoodsExplained, Sum
  <2>. QED  BY <2>6, <2>7
<1>. QED  BY <1>1, <1>2, <1>3, PTL DEF Spec

-----------------------------------------------------------------------------
(* Reports *)

LEMMA TendersAddUp ==
    ASSUME Typed, NEW d
    PROVE  Sum(Tenders, LAMBDA t : Report(d, 0).tenders[t]) = Report(d, 0).sales
<1> DEFINE S == SalesOn(d)
           f == [k \in S |-> sale[k].total]
           group == [k \in S |-> ReportedTender(sale[k])]
<1>1. S \subseteq Sold /\ IsFiniteSet(S)
  BY FS_Subset DEF SalesOn, Typed, Finite
<1>2. \A k \in S : sale[k] \in SaleRows
  BY <1>1, SaleTyped
<1>3. f \in [S -> Int]
  BY <1>2 DEF SaleRows
<1>4. group \in [S -> Tenders]
  BY <1>2 DEF SaleRows, ReportedTender, Tenders, Collected
<1>5. IsFiniteSet(Tenders)
  <2>1. IsFiniteSet({"cash"})
    BY FS_Singleton
  <2>2. IsFiniteSet({"cash"} \cup {"external_terminal"})
    BY <2>1, FS_AddElement
  <2>3. IsFiniteSet({"cash"} \cup {"external_terminal"} \cup {"account"})
    BY <2>2, FS_AddElement
  <2>4. IsFiniteSet({"cash"} \cup {"external_terminal"} \cup {"account"} \cup {"snap_ebt"})
    BY <2>3, FS_AddElement
  <2>5. Tenders = {"cash"} \cup {"external_terminal"} \cup {"account"} \cup {"snap_ebt"}
    BY DEF Tenders
  <2>. QED  BY <2>4, <2>5
<1>6. \A t \in Tenders : {k \in S : ReportedTender(sale[k]) = t} = {k \in S : group[k] = t}
  OBVIOUS
<1>7. \A t \in Tenders :
        [k \in {y \in S : ReportedTender(sale[y]) = t} |-> sale[k].total]
          = [k \in {y \in S : group[y] = t} |-> f[k]]
  BY <1>6
<1>8. Report(d, 0).sales = SumFunction(f)
  BY DEF Report, Sum
<1>9. \A t \in Tenders : Report(d, 0).tenders[t]
        = SumFunction([k \in {y \in S : ReportedTender(sale[y]) = t} |-> sale[k].total])
  BY DEF Report, Sum
<1>10. Sum(Tenders, LAMBDA t : Report(d, 0).tenders[t])
         = SumFunction([t \in Tenders |-> SumFunction([k \in {y \in S : group[y] = t} |-> f[k]])])
  <2>1. \A t \in Tenders : Report(d, 0).tenders[t]
          = SumFunction([k \in {y \in S : group[y] = t} |-> f[k]])
    BY <1>7, <1>9
  <2> HIDE DEF S, f, group
  <2>2. [t \in Tenders |-> Report(d, 0).tenders[t]]
          = [t \in Tenders |-> SumFunction([k \in {y \in S : group[y] = t} |-> f[k]])]
    BY <2>1
  <2>. QED  BY <2>2 DEF Sum
<1> HIDE DEF S, f, group
<1>11. SumFunction([t \in Tenders |-> SumFunction([k \in {y \in S : group[y] = t} |-> f[k]])])
         = SumFunction(f)
  BY <1>1, <1>3, <1>4, <1>5, SumGrouped
<1>. QED  BY <1>8, <1>10, <1>11

(* The debits less the credits of a day are what its statements add.       *)
LEMMA DebitsAddUp ==
    ASSUME Typed, NEW d \in Days
    PROVE  Report(d, 0).debits - Report(d, 0).credits = Sum(Debtors, LAMBDA c : Change(c, d))
<1> DEFINE S == {e \in ledger : e.day = d}
           f == [e \in S |-> e.amount]
           group == [e \in S |-> e.customer]
           debits == SumFunction([e \in {x \in ledger : x.day = d /\ x.amount > 0} |-> e.amount])
           credits == SumFunction([e \in {x \in ledger : x.day = d /\ x.amount < 0} |-> -e.amount])
<1>1. ledger \subseteq LedgerRows /\ IsFiniteSet(ledger) /\ d \in Int
  BY DEF Typed, TypeOK, Finite, Days
<1>2. S \subseteq ledger /\ IsFiniteSet(S)
  BY <1>1, FS_Subset
<1>3. f \in [S -> Int] /\ group \in [S -> Debtors]
  BY <1>1 DEF LedgerRows, Debtors
<1>4. IsFiniteSet(Debtors)
  <2>1. Debtors \subseteq Customers
    BY <1>1 DEF Debtors, LedgerRows
  <2>. QED  BY <2>1, BooksAssumption, FS_Subset
<1>5. debits - credits = SumFunction(f)
  <2>1. /\ {x \in ledger : x.day = d /\ x.amount > 0} = {x \in S : f[x] > 0}
        /\ {x \in ledger : x.day = d /\ x.amount < 0} = {x \in S : f[x] < 0}
    OBVIOUS
  <2> DEFINE gains == [e \in {x \in S : f[x] > 0} |-> f[e]]
             losses == [e \in {x \in S : f[x] < 0} |-> -f[e]]
  <2>2. /\ [e \in {x \in ledger : x.day = d /\ x.amount > 0} |-> e.amount] = gains
        /\ [e \in {x \in ledger : x.day = d /\ x.amount < 0} |-> -e.amount] = losses
    BY <2>1
  <2>3. SumFunction(f) = SumFunction(gains) - SumFunction(losses)
    <3> HIDE DEF S, f
    <3>. QED  BY <1>2, <1>3, SumSigned
  <2>. QED  BY <2>2, <2>3
<1>6. Report(d, 0).debits = debits /\ Report(d, 0).credits = credits
  BY DEF Report, Sum
<1>7. ASSUME NEW c \in Debtors
      PROVE  Change(c, d) = SumFunction([e \in {y \in S : group[y] = c} |-> f[e]])
  <2>1. /\ Statement(c, d, d + 1).opening = OwedBefore(c, d)
        /\ Statement(c, d, d + 1).closing = OwedBefore(c, d + 1)
        /\ OwedBefore(c, d + 1) = OwedBefore(c, d) + ChangeOf(c, d, d + 1)
        /\ OwedBefore(c, d) \in Int /\ ChangeOf(c, d, d + 1) \in Int
    <3>1. d + 1 \in Int /\ d <= d + 1
      BY <1>1
    <3>. QED  BY <1>1, <3>1, StatementAdds
  <2>2. Change(c, d) = ChangeOf(c, d, d + 1)
    BY <2>1 DEF Change
  <2>3. {e \in Entries(c) : d <= e.day /\ e.day < d + 1} = {y \in S : group[y] = c}
    BY <1>1 DEF Entries, LedgerRows, Days
  <2>4. [e \in {x \in Entries(c) : d <= x.day /\ x.day < d + 1} |-> e.amount]
          = [e \in {y \in S : group[y] = c} |-> f[e]]
    BY <2>3
  <2>. QED  BY <2>2, <2>4 DEF ChangeOf, Sum
<1>8. Sum(Debtors, LAMBDA c : Change(c, d))
        = SumFunction([c \in Debtors |-> SumFunction([e \in {y \in S : group[y] = c} |-> f[e]])])
  <2> HIDE DEF S, f, group
  <2>1. [c \in Debtors |-> Change(c, d)]
          = [c \in Debtors |-> SumFunction([e \in {y \in S : group[y] = c} |-> f[e]])]
    BY <1>7
  <2>. QED  BY <2>1 DEF Sum
<1> HIDE DEF S, f, group, debits, credits
<1>9. SumFunction([c \in Debtors |-> SumFunction([e \in {y \in S : group[y] = c} |-> f[e]])])
        = SumFunction(f)
  BY <1>2, <1>3, <1>4, SumGrouped
<1>. QED  BY <1>5, <1>6, <1>8, <1>9

-----------------------------------------------------------------------------
(* The drawer *)

(* Nothing is dated after today.                                           *)
Dated ==
    /\ \A k \in Sold : sale[k].day <= today
    /\ \A o \in Paid : payment[o].day <= today
    /\ \A o \in Refunded : refund[o].day <= today
    /\ \A m \in moved : m[2] <= today

(* The drawer holds what the report of the day expects.                    *)
Balanced ==
    \A d \in Days : \A opening \in Int :
        d = today /\ opening = float => till = ExpectedCash(d, opening)

NeverShort == \A c \in closed : c.overShort = 0

LEMMA CashSalesChange ==
    ASSUME Typed, NEW r \in SaleRequests, CompleteSale(r), NEW d, d = today
    PROVE  CashSales(d)' = CashSales(d) + CashOf(PaymentOf(r))
<1> DEFINE S == SalesOn(d)
           f == [k \in S |-> CashOf(sale[k].payment)]
           g == [k \in SalesOn(d)' |-> CashOf(sale'[k].payment)]
           x == r.key
<1>1. /\ x \notin Sold /\ Sold' = Sold \cup {x}
      /\ sale'[x] = SaleRecord(r) /\ \A k \in Sold : sale'[k] = sale[k]
  BY SaleWritten
<1>2. /\ sale'[x].day = d /\ sale'[x].status = "completed" /\ sale'[x].payment = PaymentOf(r)
  BY <1>1, SaleFields
<1>3. S \subseteq Sold /\ IsFiniteSet(S) /\ x \notin S
  BY <1>1, FS_Subset DEF SalesOn, Typed, Finite
<1>4. SalesOn(d)' = S \cup {x}
  BY <1>1, <1>2 DEF SalesOn
<1>5. CashOf(PaymentOf(r)) \in Int /\ \A k \in S : CashOf(sale[k].payment) \in Int
  <2>1. PaymentOf(r) \in PaymentRows \cup {None}
    BY PaymentIsSound DEF CompleteSale
  <2>2. \A k \in S : sale[k].payment \in PaymentRows \cup {None}
    BY <1>3, SaleTyped DEF SaleRows
  <2>. QED  BY <2>1, <2>2 DEF CashOf, PaymentRows
<1>6. \A k \in S : sale'[k] = sale[k]
  BY <1>1, <1>3
<1>7. /\ f \in [S -> Int] /\ g \in [S \cup {x} -> Int]
      /\ g[x] = CashOf(PaymentOf(r)) /\ \A k \in S : g[k] = f[k]
  BY <1>2, <1>4, <1>5, <1>6
<1>8. CashSales(d) = SumFunction(f) /\ CashSales(d)' = SumFunction(g)
  BY DEF CashSales, Sum, CashOf
<1> HIDE DEF S, f, g
<1>9. ASSUME NEW G \in [S \cup {x} -> Int], \A k \in S : G[k] = f[k]
      PROVE  SumFunction(G) = SumFunction(f) + G[x]
  <2>1. IsFiniteSet(S) /\ f \in [S -> Int] /\ x \notin S
    BY <1>3, <1>7
  <2> HIDE DEF x
  <2>. QED  BY <1>9, <2>1, SumExtended
<1>. QED  BY <1>7, <1>8, <1>9

LEMMA CashPaymentsChange ==
    ASSUME Typed, NEW r \in PaymentRequests, RecordAccountPayment(r), NEW d, d = today
    PROVE  CashPayments(d)' = CashPayments(d) + (IF r.method = "cash" THEN r.amount ELSE 0)
<1> DEFINE S == {o \in Paid : payment[o].day = d /\ payment[o].method = "cash"}
           T == {o \in Paid' : payment'[o].day = d /\ payment'[o].method = "cash"}
           f == [o \in S |-> payment[o].amount]
           g == [o \in T |-> payment'[o].amount]
           x == r.operation
<1>1. /\ x \notin Paid /\ Paid' = Paid \cup {x}
      /\ payment'[x].amount = r.amount /\ payment'[x].method = r.method
      /\ payment'[x].day = d /\ \A o \in Paid : payment'[o] = payment[o]
  BY PaymentWritten
<1>2. S \subseteq Paid /\ IsFiniteSet(S) /\ x \notin S
  BY <1>1, FS_Subset DEF Typed, Finite
<1>3. f \in [S -> Int] /\ r.amount \in Int
  <2>1. \A o \in S : payment[o] \in AccountPaymentRows
    BY <1>2 DEF Typed, TypeOK, Paid
  <2>. QED  BY <2>1, RequestAssumption DEF AccountPaymentRows
<1>4. CashPayments(d) = SumFunction(f) /\ CashPayments(d)' = SumFunction(g)
  BY DEF CashPayments, Sum
<1>5. CASE r.method = "cash"
  <2>1. T = S \cup {x} /\ \A o \in S : payment'[o] = payment[o]
    BY <1>1, <1>5
  <2>2. g \in [S \cup {x} -> Int] /\ g[x] = r.amount /\ \A o \in S : g[o] = f[o]
    BY <1>1, <1>3, <2>1
  <2> HIDE DEF S, T, f, g
  <2>3. ASSUME NEW G \in [S \cup {x} -> Int], \A o \in S : G[o] = f[o]
        PROVE  SumFunction(G) = SumFunction(f) + G[x]
    <3>1. IsFiniteSet(S) /\ f \in [S -> Int] /\ x \notin S
      BY <1>2, <1>3
    <3> HIDE DEF x
    <3>. QED  BY <2>3, <3>1, SumExtended
  <2>. QED  BY <1>4, <1>5, <2>2, <2>3
<1>6. CASE r.method # "cash"
  <2>1. T = S /\ \A o \in S : payment'[o] = payment[o]
    BY <1>1, <1>6
  <2>2. g = f
    BY <2>1
  <2> HIDE DEF S, T, f, g
  <2>3. SumFunction(f) \in Int
    BY <1>2, <1>3, SumInt
  <2>. QED  BY <1>4, <1>6, <2>2, <2>3
<1>. QED  BY <1>5, <1>6

LEMMA CashRefundsChange ==
    ASSUME Typed, NEW r \in RefundRequests, RecordRefund(r), NEW d, d = today
    PROVE  /\ CashRefunds(d)' = CashRefunds(d)
                + (IF RefundMethod(sale[r.sale]) = "cash" THEN RefundAmount(r) ELSE 0)
           /\ CashSales(d)' = CashSales(d)
<1> DEFINE S == {o \in Refunded : refund[o].day = d /\ refund[o].method = "cash"}
           T == {o \in Refunded' : refund'[o].day = d /\ refund'[o].method = "cash"}
           f == [o \in S |-> refund[o].amount]
           g == [o \in T |-> refund'[o].amount]
           x == r.operation
           back == RefundAmount(r)
           method == RefundMethod(sale[r.sale])
<1>1. /\ x \notin Refunded /\ Refunded' = Refunded \cup {x} /\ Sold' = Sold
      /\ refund'[x] = RefundRecord(r) /\ \A o \in Refunded : refund'[o] = refund[o]
      /\ Typed' /\ r.sale \in Sold /\ RefundFits(r)
  BY RefundTyped, RefundWritten
<1>2. refund'[x].amount = back /\ refund'[x].method = method /\ refund'[x].day = d
  BY <1>1, RefundFields
<1>3. S \subseteq Refunded /\ IsFiniteSet(S) /\ x \notin S
  BY <1>1, FS_Subset DEF Typed, Finite
<1>4. f \in [S -> Int] /\ back \in Int
  <2>1. \A o \in S : refund[o] \in RefundRows
    BY <1>3 DEF Typed, TypeOK, Refunded
  <2>. QED  BY <1>1, <2>1, RefundAmountTyped DEF RefundRows
<1>5. CashRefunds(d) = SumFunction(f) /\ CashRefunds(d)' = SumFunction(g)
  BY DEF CashRefunds, Sum
<1>6. CashSales(d)' = CashSales(d)
  <2>1. \A k \in Sold : Kept(k)
    BY RefundWritten
  <2>2. \A k \in Sold : sale[k] \in SaleRows /\ sale'[k] \in SaleRows
    BY <1>1 DEF Typed, TypeOK, Sold
  <2>3. SalesOn(d)' = SalesOn(d)
    BY <1>1, <2>1, <2>2 DEF SalesOn, SaleRows, Kept
  <2>4. [k \in SalesOn(d)' |-> CashOf(sale'[k].payment)]
          = [k \in SalesOn(d) |-> CashOf(sale[k].payment)]
    BY <2>1, <2>3 DEF SalesOn, Kept
  <2>5. CashSales(d)' = SumFunction([k \in SalesOn(d)' |-> CashOf(sale'[k].payment)])
        /\ CashSales(d) = SumFunction([k \in SalesOn(d) |-> CashOf(sale[k].payment)])
    BY DEF CashSales, Sum, CashOf
  <2>. QED  BY <2>4, <2>5
<1> HIDE DEF back, method
<1>7. CASE method = "cash"
  <2>1. T = S \cup {x} /\ \A o \in S : refund'[o] = refund[o]
    BY <1>1, <1>2, <1>7
  <2>2. g \in [S \cup {x} -> Int] /\ g[x] = back /\ \A o \in S : g[o] = f[o]
    BY <1>2, <1>4, <2>1
  <2> HIDE DEF S, T, f, g
  <2>3. ASSUME NEW G \in [S \cup {x} -> Int], \A o \in S : G[o] = f[o]
        PROVE  SumFunction(G) = SumFunction(f) + G[x]
    <3>1. IsFiniteSet(S) /\ f \in [S -> Int] /\ x \notin S
      BY <1>3, <1>4
    <3> HIDE DEF x
    <3>. QED  BY <2>3, <3>1, SumExtended
  <2>. QED  BY <1>5, <1>6, <1>7, <2>2, <2>3 DEF back, method
<1>8. CASE method # "cash"
  <2>1. T = S /\ \A o \in S : refund'[o] = refund[o]
    BY <1>1, <1>2, <1>8
  <2>2. g = f
    BY <2>1
  <2> HIDE DEF S, T, f, g
  <2>3. SumFunction(f) \in Int
    BY <1>3, <1>4, SumInt
  <2>. QED  BY <1>5, <1>6, <1>8, <2>2, <2>3 DEF back, method
<1>. QED  BY <1>7, <1>8

LEMMA DrawerTotalChange ==
    ASSUME Typed, NEW m \in DrawerMovements, RecordCashMovement(m), NEW d, d = today, NEW kinds
    PROVE  DrawerTotal(d, kinds)' = DrawerTotal(d, kinds)
             + (IF m.kind \in kinds THEN m.amount ELSE 0)
<1> DEFINE S == {n \in moved : n[2] = d /\ n[1].kind \in kinds}
           T == {n \in moved' : n[2] = d /\ n[1].kind \in kinds}
           f == [n \in S |-> n[1].amount]
           g == [n \in T |-> n[1].amount]
           x == <<m, d>>
<1>1. moved' = moved \cup {x} /\ x \notin moved
  <2>1. m \notin {n[1] : n \in moved} /\ moved' = moved \cup {x}
    BY DEF RecordCashMovement
  <2>2. x[1] = m
    OBVIOUS
  <2> HIDE DEF x
  <2>. QED  BY <2>1, <2>2
<1>2. x[1] = m /\ x[2] = d
  OBVIOUS
<1> HIDE DEF x
<1>3. S \subseteq moved /\ IsFiniteSet(S) /\ x \notin S
  BY <1>1, FS_Subset DEF Typed, Finite
<1>4. f \in [S -> Int] /\ m.amount \in Int
  <2>1. \A n \in S : n[1] \in DrawerMovements
    BY <1>3 DEF Typed, TypeOK
  <2>. QED  BY <2>1, RequestAssumption
<1>5. DrawerTotal(d, kinds) = SumFunction(f) /\ DrawerTotal(d, kinds)' = SumFunction(g)
  BY DEF DrawerTotal, Sum
<1>6. CASE m.kind \in kinds
  <2>1. T = S \cup {x}
    BY <1>1, <1>2, <1>6
  <2>2. g \in [S \cup {x} -> Int] /\ g[x] = m.amount /\ \A n \in S : g[n] = f[n]
    BY <1>2, <1>4, <2>1
  <2> HIDE DEF S, T, f, g
  <2>3. ASSUME NEW G \in [S \cup {x} -> Int], \A n \in S : G[n] = f[n]
        PROVE  SumFunction(G) = SumFunction(f) + G[x]
    <3>1. IsFiniteSet(S) /\ f \in [S -> Int] /\ x \notin S
      BY <1>3, <1>4
    <3>. QED  BY <2>3, <3>1, SumExtended
  <2>. QED  BY <1>5, <1>6, <2>2, <2>3
<1>7. CASE m.kind \notin kinds
  <2>1. T = S
    BY <1>1, <1>2, <1>7
  <2>2. g = f
    BY <2>1
  <2> HIDE DEF S, T, f, g
  <2>3. SumFunction(f) \in Int
    BY <1>3, <1>4, SumInt
  <2>. QED  BY <1>5, <1>7, <2>2, <2>3
<1>. QED  BY <1>6, <1>7

(* What is not written does not change what is added up.                   *)
LEMMA CashSame ==
    ASSUME NEW d
    PROVE  /\ UNCHANGED sale => CashSales(d)' = CashSales(d)
           /\ UNCHANGED payment => CashPayments(d)' = CashPayments(d)
           /\ UNCHANGED refund => CashRefunds(d)' = CashRefunds(d)
           /\ UNCHANGED moved => \A kinds : DrawerTotal(d, kinds)' = DrawerTotal(d, kinds)
<1>1. UNCHANGED sale => CashSales(d)' = CashSales(d)
  BY DEF CashSales, SalesOn, Sold, Sum, CashOf
<1>2. UNCHANGED payment => CashPayments(d)' = CashPayments(d)
  BY DEF CashPayments, Paid, Sum
<1>3. UNCHANGED refund => CashRefunds(d)' = CashRefunds(d)
  BY DEF CashRefunds, Refunded, Sum
<1>4. ASSUME UNCHANGED moved, NEW kinds
      PROVE  DrawerTotal(d, kinds)' = DrawerTotal(d, kinds)
  BY <1>4 DEF DrawerTotal, Sum
<1>. QED  BY <1>1, <1>2, <1>3, <1>4

(* A day on which nothing happened.                                        *)
LEMMA NoCash ==
    ASSUME Typed, Dated, NEW d \in Int, d > today, NEW opening \in Int
    PROVE  ExpectedCash(d, opening) = opening
<1>0. today \in Int
  BY DEF Typed, TypeOK, Days
<1>1. CashSales(d) = 0
  <2> DEFINE f == [k \in SalesOn(d) |-> CashOf(sale[k].payment)]
  <2>1. SalesOn(d) = {}
    BY <1>0 DEF SalesOn, Dated
  <2>2. DOMAIN f = {} /\ CashSales(d) = SumFunction(f)
    BY <2>1 DEF CashSales, Sum
  <2> HIDE DEF f
  <2>. QED  BY <2>2, SumEmpty
<1>2. CashPayments(d) = 0
  <2> DEFINE S == {o \in Paid : payment[o].day = d /\ payment[o].method = "cash"}
             f == [o \in S |-> payment[o].amount]
  <2>1. S = {}
    BY <1>0 DEF Dated
  <2>2. DOMAIN f = {} /\ CashPayments(d) = SumFunction(f)
    BY <2>1 DEF CashPayments, Sum
  <2> HIDE DEF f
  <2>. QED  BY <2>2, SumEmpty
<1>3. CashRefunds(d) = 0
  <2> DEFINE S == {o \in Refunded : refund[o].day = d /\ refund[o].method = "cash"}
             f == [o \in S |-> refund[o].amount]
  <2>1. S = {}
    BY <1>0 DEF Dated
  <2>2. DOMAIN f = {} /\ CashRefunds(d) = SumFunction(f)
    BY <2>1 DEF CashRefunds, Sum
  <2> HIDE DEF f
  <2>. QED  BY <2>2, SumEmpty
<1>4. ASSUME NEW kinds
      PROVE  DrawerTotal(d, kinds) = 0
  <2> DEFINE S == {m \in moved : m[2] = d /\ m[1].kind \in kinds}
             f == [m \in S |-> m[1].amount]
  <2>1. S = {}
    BY <1>0 DEF Dated
  <2>2. DOMAIN f = {} /\ DrawerTotal(d, kinds) = SumFunction(f)
    BY <2>1 DEF DrawerTotal, Sum
  <2> HIDE DEF f
  <2>. QED  BY <2>2, SumEmpty
<1>. QED  BY <1>1, <1>2, <1>3, <1>4 DEF ExpectedCash

LEMMA BalancedStep ==
    ASSUME Typed, Dated, Balanced, [Next]_vars
    PROVE  Balanced'
<1>1. today \in Days /\ float \in Int /\ till \in Int
  BY DEF Typed, TypeOK
<1> DEFINE In == {"pay_in"}
           Out == {"pay_out", "drop"}
<1>2. ASSUME NEW d \in Days, NEW opening \in Int
      PROVE  /\ ExpectedCash(d, opening) = opening + CashSales(d) + CashPayments(d)
                   - CashRefunds(d) + DrawerTotal(d, In) - DrawerTotal(d, Out)
             /\ ExpectedCash(d, opening)' = opening + CashSales(d)' + CashPayments(d)'
                   - CashRefunds(d)' + DrawerTotal(d, In)' - DrawerTotal(d, Out)'
             /\ CashSales(d) \in Int /\ CashPayments(d) \in Int /\ CashRefunds(d) \in Int
             /\ DrawerTotal(d, In) \in Int /\ DrawerTotal(d, Out) \in Int
  <2>1. /\ CashSales(d) \in Int /\ CashPayments(d) \in Int /\ CashRefunds(d) \in Int
        /\ \A kinds : DrawerTotal(d, kinds) \in Int
    BY CashTyped
  <2>. QED  BY <2>1 DEF ExpectedCash
<1> HIDE DEF In, Out
<1>3. ASSUME UNCHANGED <<today, float>>,
             \A d \in Days : \A opening \in Int : d = today /\ opening = float
               => till' - till = ExpectedCash(d, opening)' - ExpectedCash(d, opening)
                  /\ till' \in Int /\ ExpectedCash(d, opening)' \in Int
                  /\ ExpectedCash(d, opening) \in Int
      PROVE  Balanced'
  <2> SUFFICES ASSUME NEW d \in Days, NEW opening \in Int, d = today, opening = float
               PROVE  till' = ExpectedCash(d, opening)'
    BY <1>3 DEF Balanced
  <2>1. till = ExpectedCash(d, opening)
    BY DEF Balanced
  <2>. QED  BY <1>1, <1>3, <2>1
<1>4. ASSUME NEW r \in SaleRequests, CompleteSale(r)
      PROVE  Balanced'
  <2>1. UNCHANGED <<today, float, payment, refund, moved>>
        /\ till' = till + CashOf(PaymentOf(r))
    BY <1>4 DEF CompleteSale, dayVars
  <2>2. CashOf(PaymentOf(r)) \in Int
    <3>1. PaymentOf(r) \in PaymentRows \cup {None}
      BY <1>4, PaymentIsSound DEF CompleteSale
    <3>. QED  BY <3>1 DEF CashOf, PaymentRows
  <2>3. ASSUME NEW d \in Days, NEW opening \in Int, d = today, opening = float
        PROVE  /\ till' - till = ExpectedCash(d, opening)' - ExpectedCash(d, opening)
               /\ till' \in Int /\ ExpectedCash(d, opening)' \in Int
               /\ ExpectedCash(d, opening) \in Int
    <3>1. CashSales(d)' = CashSales(d) + CashOf(PaymentOf(r))
      BY <1>4, <2>3, CashSalesChange
    <3>2. /\ CashPayments(d)' = CashPayments(d) /\ CashRefunds(d)' = CashRefunds(d)
          /\ DrawerTotal(d, In)' = DrawerTotal(d, In) /\ DrawerTotal(d, Out)' = DrawerTotal(d, Out)
      BY <2>1, CashSame
    <3>. QED  BY <1>1, <1>2, <2>1, <2>2, <3>1, <3>2
  <2>. QED  BY <1>3, <2>1, <2>3
<1>5. ASSUME NEW r \in PaymentRequests, RecordAccountPayment(r)
      PROVE  Balanced'
  <2>1. UNCHANGED <<today, float, sale, refund, moved>>
        /\ till' = IF r.method = "cash" THEN till + r.amount ELSE till
    BY <1>5 DEF RecordAccountPayment, dayVars
  <2>2. r.amount \in Int
    BY RequestAssumption
  <2>3. ASSUME NEW d \in Days, NEW opening \in Int, d = today, opening = float
        PROVE  /\ till' - till = ExpectedCash(d, opening)' - ExpectedCash(d, opening)
               /\ till' \in Int /\ ExpectedCash(d, opening)' \in Int
               /\ ExpectedCash(d, opening) \in Int
    <3>1. CashPayments(d)' = CashPayments(d) + (IF r.method = "cash" THEN r.amount ELSE 0)
      BY <1>5, <2>3, CashPaymentsChange
    <3>2. /\ CashSales(d)' = CashSales(d) /\ CashRefunds(d)' = CashRefunds(d)
          /\ DrawerTotal(d, In)' = DrawerTotal(d, In) /\ DrawerTotal(d, Out)' = DrawerTotal(d, Out)
      BY <2>1, CashSame
    <3>. QED  BY <1>1, <1>2, <2>1, <2>2, <3>1, <3>2
  <2>. QED  BY <1>3, <2>1, <2>3
<1>6. ASSUME NEW r \in RefundRequests, RecordRefund(r)
      PROVE  Balanced'
  <2>1. UNCHANGED <<today, float, payment, moved>>
        /\ till' = IF RefundMethod(sale[r.sale]) = "cash" THEN till - RefundAmount(r) ELSE till
    BY <1>6 DEF RecordRefund, dayVars
  <2>2. RefundAmount(r) \in Int
    BY <1>6, RefundTyped, RefundAmountTyped
  <2>3. ASSUME NEW d \in Days, NEW opening \in Int, d = today, opening = float
        PROVE  /\ till' - till = ExpectedCash(d, opening)' - ExpectedCash(d, opening)
               /\ till' \in Int /\ ExpectedCash(d, opening)' \in Int
               /\ ExpectedCash(d, opening) \in Int
    <3>1. /\ CashRefunds(d)' = CashRefunds(d)
                + (IF RefundMethod(sale[r.sale]) = "cash" THEN RefundAmount(r) ELSE 0)
          /\ CashSales(d)' = CashSales(d)
      BY <1>6, <2>3, CashRefundsChange
    <3>2. /\ CashPayments(d)' = CashPayments(d)
          /\ DrawerTotal(d, In)' = DrawerTotal(d, In) /\ DrawerTotal(d, Out)' = DrawerTotal(d, Out)
      BY <2>1, CashSame
    <3>. QED  BY <1>1, <1>2, <2>1, <2>2, <3>1, <3>2
  <2>. QED  BY <1>3, <2>1, <2>3
<1>7. ASSUME NEW m \in DrawerMovements, RecordCashMovement(m)
      PROVE  Balanced'
  <2>1. UNCHANGED <<today, float, sale, payment, refund>>
        /\ till' = IF m.kind = "pay_in" THEN till + m.amount ELSE till - m.amount
    BY <1>7 DEF RecordCashMovement, dayVars
  <2>2. m.amount \in Int /\ m.kind \in {"pay_in", "pay_out", "drop"}
    BY RequestAssumption
  <2>3. ASSUME NEW d \in Days, NEW opening \in Int, d = today, opening = float
        PROVE  /\ till' - till = ExpectedCash(d, opening)' - ExpectedCash(d, opening)
               /\ till' \in Int /\ ExpectedCash(d, opening)' \in Int
               /\ ExpectedCash(d, opening) \in Int
    <3>1. /\ DrawerTotal(d, In)' = DrawerTotal(d, In) + (IF m.kind \in In THEN m.amount ELSE 0)
          /\ DrawerTotal(d, Out)' = DrawerTotal(d, Out) + (IF m.kind \in Out THEN m.amount ELSE 0)
      BY <1>7, <2>3, DrawerTotalChange
    <3>2. /\ CashSales(d)' = CashSales(d) /\ CashPayments(d)' = CashPayments(d)
          /\ CashRefunds(d)' = CashRefunds(d)
      BY <2>1, CashSame
    <3>3. CASE m.kind = "pay_in"
      <4>1. m.kind \in In /\ m.kind \notin Out
        BY <3>3 DEF In, Out
      <4>. QED  BY <1>1, <1>2, <2>1, <2>2, <3>1, <3>2, <3>3, <4>1
    <3>4. CASE m.kind # "pay_in"
      <4>1. m.kind \notin In /\ m.kind \in Out
        BY <2>2, <3>4 DEF In, Out
      <4>. QED  BY <1>1, <1>2, <2>1, <2>2, <3>1, <3>2, <3>4, <4>1
    <3>. QED  BY <3>3, <3>4
  <2>. QED  BY <1>3, <2>1, <2>3
<1>8. ASSUME NextDay
      PROVE  Balanced'
  <2>1. today' = today + 1 /\ float' = till /\ till' = till
        /\ UNCHANGED <<sale, payment, refund, moved>>
    BY <1>8 DEF NextDay, bookVars
  <2>2. ASSUME NEW d \in Days, NEW opening \in Int, d = today', opening = float'
        PROVE  till' = ExpectedCash(d, opening)'
    <3>1. d \in Int /\ d > today
      BY <1>1, <2>1, <2>2 DEF Days
    <3>2. ExpectedCash(d, opening) = opening
      BY <3>1, NoCash
    <3>3. /\ CashSales(d)' = CashSales(d) /\ CashPayments(d)' = CashPayments(d)
          /\ CashRefunds(d)' = CashRefunds(d)
          /\ DrawerTotal(d, In)' = DrawerTotal(d, In) /\ DrawerTotal(d, Out)' = DrawerTotal(d, Out)
      BY <2>1, CashSame
    <3>. QED  BY <1>2, <2>1, <2>2, <3>2, <3>3
  <2>. QED  BY <2>2 DEF Balanced
<1>9. ASSUME UNCHANGED <<today, float, till, sale, payment, refund, moved>>
      PROVE  Balanced'
  <2>1. ASSUME NEW d \in Days, NEW opening \in Int
        PROVE  ExpectedCash(d, opening)' = ExpectedCash(d, opening)
    <3>1. /\ CashSales(d)' = CashSales(d) /\ CashPayments(d)' = CashPayments(d)
          /\ CashRefunds(d)' = CashRefunds(d)
          /\ DrawerTotal(d, In)' = DrawerTotal(d, In) /\ DrawerTotal(d, Out)' = DrawerTotal(d, Out)
      BY <1>9, CashSame
    <3>. QED  BY <1>2, <3>1
  <2>. QED  BY <1>9, <2>1 DEF Balanced
<1>10. ASSUME NEW r, ReplaySale(r) \/ ReplayAccountPayment(r) \/ PullSale(r)
       PROVE  UNCHANGED <<today, float, till, sale, payment, refund, moved>>
  BY <1>10 DEF ReplaySale, ReplayAccountPayment, PullSale, bookVars, dayVars
<1>11. RecordDailyClose \/ Edit \/ UNCHANGED vars
         => UNCHANGED <<today, float, till, sale, payment, refund, moved>>
  BY DEF RecordDailyClose, Edit, vars, bookVars, dayVars
<1>. QED  BY <1>4, <1>5, <1>6, <1>7, <1>8, <1>9, <1>10, <1>11 DEF Next

LEMMA DatedStep ==
    ASSUME Typed, Dated, [Next]_vars
    PROVE  Dated'
<1>1. /\ today \in Int /\ \A k \in Sold : sale[k].day \in Int
      /\ \A o \in Paid : payment[o].day \in Int
      /\ \A o \in Refunded : refund[o].day \in Int
      /\ \A m \in moved : m[2] \in Int
  <2>1. today \in Int /\ \A m \in moved : m[2] \in Int
    BY DEF Typed, TypeOK, Days
  <2>2. \A k \in Sold : sale[k].day \in Int
    BY SaleTyped DEF SaleRows, Days
  <2>3. \A o \in Paid : payment[o].day \in Int
    BY DEF Typed, TypeOK, Paid, AccountPaymentRows, Days
  <2>4. \A x \in Refunded : refund[x].day \in Int
    BY DEF Typed, TypeOK, Refunded, RefundRows, Days
  <2>. QED  BY <2>1, <2>2, <2>3, <2>4
<1>2. ASSUME NEW r \in SaleRequests, CompleteSale(r)
      PROVE  Dated'
  <2>1. UNCHANGED <<today, payment, refund, moved>> /\ Paid' = Paid /\ Refunded' = Refunded
    BY <1>2 DEF CompleteSale, dayVars, Paid, Refunded
  <2>2. /\ Sold' = Sold \cup {r.key} /\ sale'[r.key].day = today
        /\ \A k \in Sold : sale'[k] = sale[k]
    BY <1>2, SaleWritten, SaleFields
  <2>3. \A k \in Sold' : sale'[k].day <= today'
    BY <1>1, <2>1, <2>2 DEF Dated
  <2>. QED  BY <2>1, <2>3 DEF Dated
<1>3. ASSUME NEW r \in PaymentRequests, RecordAccountPayment(r)
      PROVE  Dated'
  <2>1. UNCHANGED <<today, sale, refund, moved>> /\ Sold' = Sold /\ Refunded' = Refunded
    BY <1>3 DEF RecordAccountPayment, dayVars, Sold, Refunded
  <2>2. /\ Paid' = Paid \cup {r.operation} /\ payment'[r.operation].day = today
        /\ \A o \in Paid : payment'[o] = payment[o]
    BY <1>3, PaymentWritten
  <2>3. \A o \in Paid' : payment'[o].day <= today'
    BY <1>1, <2>1, <2>2 DEF Dated
  <2>. QED  BY <2>1, <2>3 DEF Dated
<1>4. ASSUME NEW r \in RefundRequests, RecordRefund(r)
      PROVE  Dated'
  <2>1. UNCHANGED <<today, payment, moved>> /\ Paid' = Paid /\ Sold' = Sold
        /\ Refunded' = Refunded \cup {r.operation}
    BY <1>4, RefundTyped DEF RecordRefund, dayVars, Paid
  <2>2. /\ refund'[r.operation] = RefundRecord(r) /\ \A o \in Refunded : refund'[o] = refund[o]
        /\ \A k \in Sold : Kept(k)
    BY <1>4, RefundWritten
  <2>3. refund'[r.operation].day = today
    BY <2>2, RefundFields
  <2>4. \A o \in Refunded' : refund'[o].day <= today'
    BY <1>1, <2>1, <2>2, <2>3 DEF Dated
  <2>5. \A k \in Sold' : sale'[k].day <= today'
    BY <2>1, <2>2 DEF Dated, Kept
  <2>. QED  BY <2>1, <2>4, <2>5 DEF Dated
<1>5. ASSUME NEW m, RecordCashMovement(m)
      PROVE  Dated'
  <2>1. UNCHANGED <<today, sale, payment, refund>> /\ moved' = moved \cup {<<m, today>>}
    BY <1>5 DEF RecordCashMovement, dayVars
  <2>2. \A n \in moved' : n[2] <= today'
    BY <1>1, <2>1 DEF Dated
  <2>. QED  BY <2>1, <2>2 DEF Dated, Sold, Paid, Refunded
<1>6. ASSUME today' = today \/ today' = today + 1, UNCHANGED <<sale, payment, refund, moved>>
      PROVE  Dated'
  <2>1. \A k \in Sold : sale[k].day <= today'
    BY <1>1, <1>6 DEF Dated
  <2>2. \A o \in Paid : payment[o].day <= today'
    BY <1>1, <1>6 DEF Dated
  <2>3. \A o \in Refunded : refund[o].day <= today'
    BY <1>1, <1>6 DEF Dated
  <2>4. \A m \in moved : m[2] <= today'
    BY <1>1, <1>6 DEF Dated
  <2>. QED  BY <1>6, <2>1, <2>2, <2>3, <2>4 DEF Dated, Sold, Paid, Refunded
<1>7. ASSUME NEW r, ReplaySale(r) \/ ReplayAccountPayment(r) \/ PullSale(r)
      PROVE  today' = today /\ UNCHANGED <<sale, payment, refund, moved>>
  BY <1>7 DEF ReplaySale, ReplayAccountPayment, PullSale, bookVars, dayVars
<1>8. RecordDailyClose \/ Edit \/ UNCHANGED vars \/ NextDay
        => (today' = today \/ today' = today + 1) /\ UNCHANGED <<sale, payment, refund, moved>>
  BY DEF RecordDailyClose, Edit, NextDay, vars, bookVars, dayVars
<1>. QED  BY <1>2, <1>3, <1>4, <1>5, <1>6, <1>7, <1>8 DEF Next

LEMMA NeverShortStep ==
    ASSUME Typed, Balanced, NeverShort, [Next]_vars
    PROVE  NeverShort'
<1>1. ASSUME RecordDailyClose
      PROVE  NeverShort'
  <2>1. today \in Days /\ float \in Int /\ till \in Int
    BY DEF Typed, TypeOK
  <2>2. till = ExpectedCash(today, float)
    BY <2>1 DEF Balanced
  <2>3. till - Report(today, float).expectedCash = 0
    <3>1. Report(today, float).expectedCash = ExpectedCash(today, float)
      BY DEF Report
    <3>. QED  BY <2>1, <2>2, <3>1
  <2>4. closed' = closed \cup {[day |-> today, overShort |-> 0]}
    BY <1>1, <2>3 DEF RecordDailyClose
  <2>. QED  BY <2>4 DEF NeverShort
<1>2. ASSUME NEW r, \/ CompleteSale(r) \/ ReplaySale(r) \/ PullSale(r)
                    \/ RecordAccountPayment(r) \/ ReplayAccountPayment(r)
                    \/ RecordRefund(r) \/ RecordCashMovement(r)
      PROVE  UNCHANGED closed
  BY <1>2 DEF CompleteSale, ReplaySale, PullSale, RecordAccountPayment, ReplayAccountPayment,
              RecordRefund, RecordCashMovement, dayVars
<1>3. NextDay \/ Edit \/ UNCHANGED vars => UNCHANGED closed
  BY DEF NextDay, Edit, dayVars, vars
<1>4. UNCHANGED closed => NeverShort'
  BY DEF NeverShort
<1>. QED  BY <1>1, <1>2, <1>3, <1>4 DEF Next

(* A drawer nobody miscounts is never over or short, and a report adds up: *)
(* its tenders to its sales, its debits and credits to the statements of   *)
(* the day (dailyReport, recordDailyClose, getCustomerStatement).          *)
THEOREM DrawerIsRight == Spec => []DrawerCountedRight
<1> DEFINE Inv == Typed /\ Dated /\ Balanced /\ NeverShort
<1>1. Init => Inv
  <2> SUFFICES ASSUME Init PROVE Dated /\ Balanced /\ NeverShort
    BY InitTyped
  <2>1. Sold = {} /\ Paid = {} /\ Refunded = {} /\ moved = {} /\ closed = {}
    BY DEF Init, Sold, Paid, Refunded
  <2>2. Dated /\ NeverShort
    BY <2>1 DEF Dated, NeverShort
  <2>3. ASSUME NEW d \in Days, NEW opening \in Int, d = today, opening = float
        PROVE  till = ExpectedCash(d, opening)
    <3>1. till = opening
      BY <2>3 DEF Init
    <3>2. CashSales(d) = 0
      <4> DEFINE f == [k \in SalesOn(d) |-> CashOf(sale[k].payment)]
      <4>1. DOMAIN f = {} /\ CashSales(d) = SumFunction(f)
        BY <2>1 DEF CashSales, SalesOn, Sum
      <4> HIDE DEF f
      <4>. QED  BY <4>1, SumEmpty
    <3>3. CashPayments(d) = 0
      <4> DEFINE S == {o \in Paid : payment[o].day = d /\ payment[o].method = "cash"}
                 f == [o \in S |-> payment[o].amount]
      <4>1. DOMAIN f = {} /\ CashPayments(d) = SumFunction(f)
        BY <2>1 DEF CashPayments, Sum
      <4> HIDE DEF f
      <4>. QED  BY <4>1, SumEmpty
    <3>4. CashRefunds(d) = 0
      <4> DEFINE S == {o \in Refunded : refund[o].day = d /\ refund[o].method = "cash"}
                 f == [o \in S |-> refund[o].amount]
      <4>1. DOMAIN f = {} /\ CashRefunds(d) = SumFunction(f)
        BY <2>1 DEF CashRefunds, Sum
      <4> HIDE DEF f
      <4>. QED  BY <4>1, SumEmpty
    <3>5. ASSUME NEW kinds
          PROVE  DrawerTotal(d, kinds) = 0
      <4> DEFINE S == {m \in moved : m[2] = d /\ m[1].kind \in kinds}
                 f == [m \in S |-> m[1].amount]
      <4>1. DOMAIN f = {} /\ DrawerTotal(d, kinds) = SumFunction(f)
        BY <2>1 DEF DrawerTotal, Sum
      <4> HIDE DEF f
      <4>. QED  BY <4>1, SumEmpty
    <3>6. ExpectedCash(d, opening) = opening
      BY <3>2, <3>3, <3>4, <3>5 DEF ExpectedCash
    <3>. QED  BY <3>1, <3>6
  <2>. QED  BY <2>2, <2>3 DEF Balanced
<1>2. Inv /\ [Next]_vars => Inv'
  BY StepTyped, DatedStep, BalancedStep, NeverShortStep
<1>3. Inv => DrawerCountedRight
  <2> SUFFICES ASSUME Inv PROVE DrawerCountedRight
    OBVIOUS
  <2>1. ASSUME NEW d \in BookedDays
        PROVE  /\ Sum(Tenders, LAMBDA t : Report(d, 0).tenders[t]) = Report(d, 0).sales
               /\ Report(d, 0).debits - Report(d, 0).credits
                    = Sum(Debtors, LAMBDA c : Change(c, d))
    <3>1. ASSUME NEW k \in Sold
          PROVE  sale[k].day \in Days
      BY SaleTyped DEF SaleRows
    <3>2. \A e \in ledger : e.day \in Days
      BY DEF Typed, TypeOK, LedgerRows
    <3>3. d \in Days
      BY <3>1, <3>2 DEF BookedDays
    <3>. QED  BY <3>3, TendersAddUp, DebitsAddUp
  <2>2. \A c \in closed : c.overShort = 0
    BY DEF NeverShort
  <2>. QED  BY <2>1, <2>2 DEF DrawerCountedRight
<1>. QED  BY <1>1, <1>2, <1>3, PTL DEF Spec

-----------------------------------------------------------------------------
(* Credit *)

LEMMA BalanceChange ==
    ASSUME Typed, NEW e \in LedgerRows, e \notin ledger, ledger' = ledger \cup {e}, NEW c
    PROVE  Balance(c)' = Balance(c) + (IF e.customer = c THEN e.amount ELSE 0)
<1> DEFINE S == Entries(c)
           f == [x \in S |-> x.amount]
           g == [x \in Entries(c)' |-> x.amount]
<1>1. IsFiniteSet(S) /\ S \subseteq LedgerRows /\ e \notin S
  BY BalanceInteger DEF Entries
<1>2. f \in [S -> Int] /\ e.amount \in Int
  BY <1>1 DEF LedgerRows
<1>3. Balance(c) = SumFunction(f) /\ Balance(c)' = SumFunction(g)
  BY DEF Balance, Sum
<1>4. CASE e.customer = c
  <2>1. Entries(c)' = S \cup {e}
    BY <1>4 DEF Entries
  <2>2. g \in [S \cup {e} -> Int] /\ g[e] = e.amount /\ \A x \in S : g[x] = f[x]
    BY <1>2, <2>1
  <2> HIDE DEF S, f, g
  <2>3. ASSUME NEW G \in [S \cup {e} -> Int], \A x \in S : G[x] = f[x]
        PROVE  SumFunction(G) = SumFunction(f) + G[e]
    <3>1. IsFiniteSet(S) /\ f \in [S -> Int] /\ e \notin S
      BY <1>1, <1>2
    <3>. QED  BY <2>3, <3>1, SumExtended
  <2>. QED  BY <1>3, <1>4, <2>2, <2>3
<1>5. CASE e.customer # c
  <2>1. Entries(c)' = S
    BY <1>5 DEF Entries
  <2>2. g = f
    BY <2>1
  <2> HIDE DEF S, f, g
  <2>3. SumFunction(f) \in Int
    BY <1>1, <1>2, SumInt
  <2>. QED  BY <1>3, <1>5, <2>2, <2>3
<1>. QED  BY <1>4, <1>5

(* The refunds on account of a customer.                                   *)
CreditsOf(c) == {o \in Refunded : refund[o].method = "account"
                                  /\ sale[refund[o].sale].customer = c}
Credited(c) == SumFunction([o \in CreditsOf(c) |-> refund[o].amount])

(* Refunds pay something back, or nothing; never the other way.            *)
RefundsPay == \A o \in Refunded : refund[o].amount >= 0

LEMMA CreditedTyped ==
    ASSUME Typed, RefundsPay, NEW c
    PROVE  /\ IsFiniteSet(CreditsOf(c)) /\ CreditsOf(c) \subseteq Refunded
           /\ [o \in CreditsOf(c) |-> refund[o].amount] \in [CreditsOf(c) -> Int]
           /\ Credited(c) \in Nat
<1> DEFINE S == CreditsOf(c)
           f == [o \in S |-> refund[o].amount]
<1>1. S \subseteq Refunded /\ IsFiniteSet(S)
  <2>1. S \subseteq Refunded
    BY DEF CreditsOf
  <2> HIDE DEF S
  <2>. QED  BY <2>1, FS_Subset DEF Typed, Finite
<1>2. \A o \in S : refund[o].amount \in Nat
  <2>1. \A o \in S : refund[o] \in RefundRows
    BY <1>1 DEF Typed, TypeOK, Refunded
  <2>2. \A o \in S : refund[o].amount \in Int
    BY <2>1 DEF RefundRows
  <2>. QED  BY <1>1, <2>2 DEF RefundsPay
<1>3. f \in [S -> Nat]
  BY <1>2
<1>4. Credited(c) = SumFunction(f)
  BY DEF Credited
<1>5. f \in [S -> Int]
  BY <1>3
<1>6. Credited(c) \in Nat
  <2> HIDE DEF S, f
  <2>. QED  BY <1>1, <1>3, <1>4, SumNat
<1>. QED  BY <1>1, <1>5, <1>6

LEMMA RefundAmountPositive ==
    ASSUME Typed, NEW r \in RefundRequests, r.sale \in Sold, RefundFits(r)
    PROVE  RefundAmount(r) \in Nat
<1> DEFINE L == Lines(r.quantity)
           f == [p \in L |-> Part(r, p).subtotal + Part(r, p).tax]
<1>1. IsFiniteSet(L) /\ L \subseteq Products
  BY CartIsFinite
<1>2. \A p \in L : Part(r, p) \in Parts /\ Part(r, p).subtotal + Part(r, p).tax > 0
  BY <1>1, PartTyped DEF RefundFits
<1>3. f \in [L -> Nat]
  BY <1>2 DEF Parts
<1>4. RefundAmount(r) = SumFunction(f)
  BY DEF RefundAmount, Sum
<1> HIDE DEF L, f
<1>. QED  BY <1>1, <1>3, <1>4, SumNat

LEMMA RefundsPayStep ==
    ASSUME Typed, RefundsPay, [Next]_vars
    PROVE  RefundsPay'
<1>1. ASSUME NEW r \in RefundRequests, RecordRefund(r)
      PROVE  RefundsPay'
  <2>1. /\ Refunded' = Refunded \cup {r.operation}
        /\ refund'[r.operation] = RefundRecord(r) /\ \A o \in Refunded : refund'[o] = refund[o]
        /\ RefundAmount(r) \in Nat
    BY <1>1, RefundTyped, RefundWritten, RefundAmountPositive
  <2>2. refund'[r.operation].amount = RefundAmount(r)
    BY <2>1, RefundFields
  <2>3. refund'[r.operation].amount >= 0
    BY <2>1, <2>2
  <2>. QED  BY <2>1, <2>3 DEF RefundsPay
<1>2. ASSUME NEW r, CompleteSale(r) \/ RecordAccountPayment(r)
      PROVE  UNCHANGED refund
  BY <1>2 DEF CompleteSale, RecordAccountPayment
<1>3. UNCHANGED refund => RefundsPay'
  BY DEF RefundsPay, Refunded
<1>. QED  BY <1>1, <1>2, <1>3, StepCases, NoDocument

(* Credit that was not allowed is goods brought back.                      *)
CreditSeen == allowCredit => creditSeen
Solvent == ~creditSeen => \A c \in Customers : Balance(c) + Credited(c) >= 0

LEMMA CreditedSame ==
    ASSUME UNCHANGED refund, \A o \in Refunded : refund[o].sale \in Sold,
           \A k \in Sold : Kept(k), NEW c
    PROVE  Credited(c)' = Credited(c)
<1>1. CreditsOf(c)' = CreditsOf(c)
  BY DEF CreditsOf, Refunded, Kept
<1>. QED  BY <1>1 DEF Credited

LEMMA SolventStep ==
    ASSUME Typed, Booked, RefundsPay, CreditSeen, Solvent, [Next]_vars
    PROVE  Solvent'
<1>1. creditSeen => creditSeen'
  <2>1. ASSUME NEW r, \/ CompleteSale(r) \/ ReplaySale(r) \/ PullSale(r)
                      \/ RecordAccountPayment(r) \/ ReplayAccountPayment(r)
                      \/ RecordRefund(r) \/ RecordCashMovement(r)
        PROVE  UNCHANGED creditSeen
    BY <2>1 DEF CompleteSale, ReplaySale, PullSale, RecordAccountPayment, ReplayAccountPayment,
                RecordRefund, RecordCashMovement, setupVars
  <2>2. RecordDailyClose \/ NextDay \/ UNCHANGED vars => UNCHANGED creditSeen
    BY DEF RecordDailyClose, NextDay, setupVars, vars
  <2>3. Edit => (creditSeen => creditSeen')
    BY DEF Edit, EditSettings
  <2>. QED  BY <2>1, <2>2, <2>3 DEF Next
<1> SUFFICES ASSUME ~creditSeen, NEW c \in Customers
             PROVE  Balance(c)' + Credited(c)' >= 0
  BY <1>1 DEF Solvent
<1>2. /\ Balance(c) + Credited(c) >= 0 /\ Balance(c) \in Int /\ Credited(c) \in Nat
      /\ ~allowCredit
  BY BalanceInteger, CreditedTyped DEF Solvent, CreditSeen
<1>3. /\ \A k \in Sold : Kept(k)
      /\ \A o \in Refunded : refund[o].sale \in Sold
  BY DocumentsKept DEF Booked, RefundHasSale
<1>4. ASSUME UNCHANGED <<ledger, refund>>
      PROVE  Balance(c)' + Credited(c)' >= 0
  <2>1. Balance(c)' = Balance(c)
    BY <1>4 DEF Balance, Entries, Sum
  <2>2. Credited(c)' = Credited(c)
    BY <1>3, <1>4, CreditedSame
  <2>. QED  BY <1>2, <2>1, <2>2
<1>5. ASSUME NEW r \in SaleRequests, CompleteSale(r)
      PROVE  Balance(c)' + Credited(c)' >= 0
  <2>1. CASE r.method = "account"
    <3>. PICK e : e = Entry("sale_charge", r.customer, CartTotal(r), r.key)
      OBVIOUS
    <3>1. ledger' = ledger \cup {e} /\ UNCHANGED refund
      BY <1>5, <2>1 DEF CompleteSale
    <3>2. CartTotal(r) \in Int /\ r.customer \in Customers /\ r.key \in Keys
      BY <2>1, AmountsAreIntegers, RequestTypes
    <3>3. CartTotal(r) > 0
      BY <1>5, <2>1 DEF CompleteSale, TenderFits, MayCharge
    <3>4. e \in LedgerRows
      BY <3>2, EntryTyped
    <3>5. e.sequence = Cardinality(ledger) + 1 /\ e.customer = r.customer
          /\ e.amount = CartTotal(r)
      BY EntryFields
    <3>6. e \notin ledger
      BY <3>1, <3>5, LedgerGrows DEF Booked
    <3>7. Balance(c)' = Balance(c) + (IF e.customer = c THEN e.amount ELSE 0)
      BY <3>1, <3>4, <3>6, BalanceChange
    <3>8. Credited(c)' = Credited(c)
      BY <1>3, <3>1, CreditedSame
    <3>. QED  BY <1>2, <3>2, <3>3, <3>5, <3>7, <3>8
  <2>2. CASE r.method # "account"
    BY <1>4, <1>5, <2>2 DEF CompleteSale
  <2>. QED  BY <2>1, <2>2
<1>6. ASSUME NEW r \in PaymentRequests, RecordAccountPayment(r)
      PROVE  Balance(c)' + Credited(c)' >= 0
  <2>. PICK e : e = Entry("payment", r.customer, -r.amount, r.operation)
    OBVIOUS
  <2>1. ledger' = ledger \cup {e} /\ UNCHANGED refund
    BY <1>6 DEF RecordAccountPayment
  <2>2. r.amount \in Int /\ -r.amount \in Int /\ r.customer \in Customers
        /\ r.operation \in Payments
    BY RequestAssumption
  <2>3. Balance(r.customer) >= r.amount
    BY <1>2, <1>6 DEF RecordAccountPayment, MayPay
  <2>4. e \in LedgerRows
    BY <2>2, EntryTyped
  <2>5. e.sequence = Cardinality(ledger) + 1 /\ e.customer = r.customer /\ e.amount = -r.amount
    BY EntryFields
  <2>6. e \notin ledger
    BY <2>1, <2>5, LedgerGrows DEF Booked
  <2>7. Balance(c)' = Balance(c) + (IF e.customer = c THEN e.amount ELSE 0)
    BY <2>1, <2>4, <2>6, BalanceChange
  <2>8. Credited(c)' = Credited(c)
    BY <1>3, <2>1, CreditedSame
  <2>9. CASE r.customer = c
    BY <1>2, <2>2, <2>3, <2>5, <2>7, <2>8, <2>9
  <2>10. CASE r.customer # c
    BY <1>2, <2>5, <2>7, <2>8, <2>10
  <2>. QED  BY <2>9, <2>10
<1>7. ASSUME NEW r \in RefundRequests, RecordRefund(r)
      PROVE  Balance(c)' + Credited(c)' >= 0
  <2> DEFINE k == r.sale
             x == r.operation
             back == RefundAmount(r)
             S == CreditsOf(c)
             f == [o \in S |-> refund[o].amount]
             g == [o \in CreditsOf(c)' |-> refund'[o].amount]
  <2>1. /\ x \notin Refunded /\ Refunded' = Refunded \cup {x} /\ k \in Sold
        /\ refund'[x] = RefundRecord(r) /\ \A o \in Refunded : refund'[o] = refund[o]
        /\ back \in Nat /\ x \in Refunds
        /\ (RefundMethod(sale[k]) = "account") <=> (sale[k].tender = "account")
    BY <1>7, RefundTyped, RefundWritten, RefundAmountPositive
  <2>2. /\ refund'[x].sale = k /\ refund'[x].method = RefundMethod(sale[k])
        /\ refund'[x].amount = back
    BY <2>1, RefundFields
  <2>3. Kept(k) /\ sale'[k].customer = sale[k].customer
    BY <1>3, <2>1 DEF Kept
  <2>4. /\ IsFiniteSet(S) /\ S \subseteq Refunded /\ f \in [S -> Int] /\ x \notin S
        /\ Credited(c) = SumFunction(f) /\ Credited(c)' = SumFunction(g)
    BY <2>1, CreditedTyped DEF Credited
  <2>5. CASE RefundMethod(sale[k]) = "account"
    <3>. PICK e : e = Entry("sale_refund", sale[k].customer, -back, x)
      OBVIOUS
    <3>1. ledger' = ledger \cup {e}
      BY <1>7, <2>5 DEF RecordRefund
    <3>2. sale[k].customer \in Customers
      <4>1. sale[k] \in SaleRows /\ sale[k].customer # None
        BY <2>1, <2>5, SaleTyped DEF Typed, OnAccount
      <4>. QED  BY <4>1 DEF SaleRows
    <3>3. e \in LedgerRows
      <4>1. -back \in Int
        BY <2>1
      <4> HIDE DEF back, x, k
      <4>. QED  BY <2>1, <3>2, <4>1, EntryTyped
    <3>4. e.sequence = Cardinality(ledger) + 1 /\ e.customer = sale[k].customer
          /\ e.amount = -back
      BY EntryFields
    <3>5. e \notin ledger
      BY <3>1, <3>4, LedgerGrows DEF Booked
    <3>6. Balance(c)' = Balance(c) + (IF e.customer = c THEN e.amount ELSE 0)
      BY <3>1, <3>3, <3>5, BalanceChange
    <3>7. CASE sale[k].customer = c
      <4>1. CreditsOf(c)' = S \cup {x}
        BY <1>3, <2>1, <2>2, <2>3, <2>5, <3>7 DEF CreditsOf, Kept
      <4>2. \A o \in S : refund'[o] = refund[o]
        BY <2>1, <2>4
      <4>3. g \in [S \cup {x} -> Int] /\ g[x] = back /\ \A o \in S : g[o] = f[o]
        BY <2>1, <2>2, <2>4, <4>1, <4>2
      <4> HIDE DEF S, f, g
      <4>4. ASSUME NEW G \in [S \cup {x} -> Int], \A o \in S : G[o] = f[o]
            PROVE  SumFunction(G) = SumFunction(f) + G[x]
        <5>1. IsFiniteSet(S) /\ f \in [S -> Int] /\ x \notin S
          BY <2>4
        <5> HIDE DEF x
        <5>. QED  BY <4>4, <5>1, SumExtended
      <4>5. Credited(c)' = Credited(c) + back
        BY <2>4, <4>3, <4>4
      <4>6. Balance(c)' = Balance(c) - back
        BY <1>2, <2>1, <3>4, <3>6, <3>7
      <4> HIDE DEF back
      <4>. QED  BY <1>2, <2>1, <4>5, <4>6
    <3>8. CASE sale[k].customer # c
      <4>1. CreditsOf(c)' = S /\ \A o \in S : refund'[o] = refund[o]
        BY <1>3, <2>1, <2>2, <2>3, <3>8 DEF CreditsOf, Kept
      <4>2. g = f
        BY <4>1
      <4>3. Balance(c)' = Balance(c)
        BY <1>2, <3>4, <3>6, <3>8
      <4>. QED  BY <1>2, <2>4, <4>2, <4>3
    <3>. QED  BY <3>7, <3>8
  <2>6. CASE RefundMethod(sale[k]) # "account"
    <3>1. ledger' = ledger
      BY <1>7, <2>6 DEF RecordRefund
    <3>2. Balance(c)' = Balance(c)
      BY <3>1 DEF Balance, Entries, Sum
    <3>3. CreditsOf(c)' = S /\ \A o \in S : refund'[o] = refund[o]
      BY <1>3, <2>1, <2>2, <2>6 DEF CreditsOf, Kept
    <3>4. g = f
      BY <3>3
    <3>. QED  BY <1>2, <2>4, <3>2, <3>4
  <2>. QED  BY <2>5, <2>6
<1>. QED  BY <1>4, <1>5, <1>6, <1>7, StepCases, NoDocument
LEMMA CreditSeenStep ==
    ASSUME CreditSeen, [Next]_vars
    PROVE  CreditSeen'
<1>1. ASSUME NEW r, \/ CompleteSale(r) \/ ReplaySale(r) \/ PullSale(r)
                    \/ RecordAccountPayment(r) \/ ReplayAccountPayment(r)
                    \/ RecordRefund(r) \/ RecordCashMovement(r)
      PROVE  UNCHANGED <<allowCredit, creditSeen>>
  BY <1>1 DEF CompleteSale, ReplaySale, PullSale, RecordAccountPayment, ReplayAccountPayment,
              RecordRefund, RecordCashMovement, setupVars
<1>2. RecordDailyClose \/ NextDay \/ UNCHANGED vars => UNCHANGED <<allowCredit, creditSeen>>
  BY DEF RecordDailyClose, NextDay, setupVars, vars
<1>3. Edit => UNCHANGED <<allowCredit, creditSeen>> \/ creditSeen' = TRUE
  BY DEF Edit, EditSettings
<1>. QED  BY <1>1, <1>2, <1>3 DEF CreditSeen, Next

(* In a store that never took credit, what a customer is owed are goods    *)
(* brought back after they were paid, never a payment above the balance    *)
(* (recordAccountPayment, recordRefund, allow_customer_credit).            *)
THEOREM CreditIsReturned == Spec => []CreditIsReturnedGoods
<1> DEFINE Inv == Typed /\ Booked /\ RefundsPay /\ CreditSeen /\ Solvent
<1>1. Init => Inv
  <2> SUFFICES ASSUME Init PROVE Booked /\ RefundsPay /\ CreditSeen /\ Solvent
    BY InitTyped
  <2>1. Sold = {} /\ Paid = {} /\ Refunded = {} /\ ledger = {} /\ allowCredit = FALSE
    BY DEF Init, Sold, Paid, Refunded
  <2>2. Booked
    BY <2>1, BookedInit
  <2>3. RefundsPay /\ CreditSeen
    BY <2>1 DEF RefundsPay, CreditSeen
  <2>4. ASSUME NEW c
        PROVE  Balance(c) = 0
    <3> DEFINE f == [e \in Entries(c) |-> e.amount]
    <3>1. DOMAIN f = {} /\ Balance(c) = SumFunction(f)
      BY <2>1 DEF Entries, Balance, Sum
    <3> HIDE DEF f
    <3>. QED  BY <3>1, SumEmpty
  <2>5. ASSUME NEW c
        PROVE  Credited(c) = 0
    <3> DEFINE f == [o \in CreditsOf(c) |-> refund[o].amount]
    <3>1. DOMAIN f = {} /\ Credited(c) = SumFunction(f)
      BY <2>1 DEF CreditsOf, Credited
    <3> HIDE DEF f
    <3>. QED  BY <3>1, SumEmpty
  <2>. QED  BY <2>2, <2>3, <2>4, <2>5 DEF Solvent
<1>2. Inv /\ [Next]_vars => Inv'
  BY StepTyped, BookedStep, RefundsPayStep, CreditSeenStep, SolventStep
<1>3. Inv => CreditIsReturnedGoods
  BY DEF Solvent, Credited, CreditsOf, CreditIsReturnedGoods, Sum
<1>. QED  BY <1>1, <1>2, <1>3, PTL DEF Spec

-----------------------------------------------------------------------------
(* Cents *)

(* A row of payments collects what is due.                                 *)
LEMMA RowCollects ==
    ASSUME NEW r \in SaleRequests, NEW m \in Collected
    PROVE  /\ PaymentRow(r, m, AmountDue(r)) # None
           /\ PaymentRow(r, m, AmountDue(r)).amount = AmountDue(r)
<1>1. PaymentRow(r, m, AmountDue(r)) \in PaymentRows
  BY AmountsAreIntegers, RequestTypes
     DEF PaymentRow, PaymentRows, CashChange, References
<1>2. PaymentRow(r, m, AmountDue(r)).amount = AmountDue(r)
  BY DEF PaymentRow
<1>. QED  BY <1>1, <1>2, NullAssumption

(* The lines of a sale add up to it, also those that nothing was sold of.  *)
LEMMA SaleAdds ==
    ASSUME NEW r \in SaleRequests, CompleteSale(r)
    PROVE  SumFunction([p \in Products |-> SaleItem(r, p).total]) = SaleTotal(r)
<1> DEFINE L == Lines(r.cart)
           f == [p \in Products |-> SaleItem(r, p).total]
<1>1. IsFiniteSet(Products) /\ L \in SUBSET Products
  BY BooksAssumption, CartIsFinite
<1>2. f \in [Products -> Int]
  BY ItemIsSound DEF ItemRows
<1>3. \A p \in Products \ L : f[p] = 0
  <2>1. \A p \in Products \ L : r.cart[p] = 0
    BY RequestTypes DEF Lines, Quantities
  <2>. QED  BY <2>1, ItemIsSound
<1>4. SumFunction([p \in L |-> f[p]]) = SaleTotal(r)
  <2>1. [p \in L |-> f[p]] = [p \in L |-> SaleItem(r, p).total]
    BY <1>1
  <2>2. SumFunction([p \in L |-> SaleItem(r, p).total]) = SaleTotal(r)
    BY DEF CompleteSale, Sum
  <2>. QED  BY <2>1, <2>2
<1>5. SumFunction(f) = SumFunction([p \in L |-> f[p]])
  <2> HIDE DEF L, f
  <2>. QED  BY <1>1, <1>2, <1>3, SumPart
<1>. QED  BY <1>4, <1>5

(* Without prices of scale labels a benefit never pays too much.           *)
LEMMA BenefitLeaves ==
    ASSUME NEW r \in SaleRequests, \A p \in Eligible(r) : r.override[p] = NoPrice
    PROVE  Remainder(r) >= 0
<1> DEFINE E == Eligible(r)
           L == Lines(r.cart)
           covered == [p \in E |-> EligibleLine(r, p).subtotal]
           waived == [p \in E |-> EligibleLine(r, p).tax]
           both == [p \in E |-> CartLine(r, p).total]
           total == [p \in L |-> CartLine(r, p).total]
           rest == [p \in L \ E |-> CartLine(r, p).total]
<1>1. /\ L \in SUBSET Products /\ E \in SUBSET L
      /\ IsFiniteSet(E) /\ IsFiniteSet(L) /\ IsFiniteSet(L \ E)
  BY CartIsFinite DEF Eligible
<1>2. \A p \in E : EligibleLine(r, p) = CartLine(r, p)
  <2> DEFINE q == [r EXCEPT !.override = [x \in Products |-> NoPrice]]
  <2>1. /\ r \in [key : {r.key}, cart : Quantities,
                  override : [Products -> Nat \cup {NoPrice}], method : Tenders,
                  customer : Customers \cup {None}, received : Nat,
                  reference : {r.reference},
                  remainder : Collected \cup {None}]
    BY RequestAssumption
  <2>2. q.cart = r.cart /\ q.override = [x \in Products |-> NoPrice]
    BY <2>1
  <2>3. ASSUME NEW p \in E
        PROVE  q.override[p] = r.override[p]
    BY <1>1, <2>2
  <2>4. \A p \in E : EligibleLine(r, p) = CartLine(q, p)
    BY DEF EligibleLine
  <2> HIDE DEF q
  <2>5. \A p \in E : CartLine(q, p) = CartLine(r, p)
    BY <2>2, <2>3 DEF CartLine
  <2>. QED  BY <2>4, <2>5
<1>3. \A p \in L : /\ CartLine(r, p) \in ItemRows
                   /\ CartLine(r, p).total = CartLine(r, p).subtotal + CartLine(r, p).tax
                   /\ CartLine(r, p).total \in Nat
  <2>1. \A p \in L : /\ CartLine(r, p) \in ItemRows
                     /\ CartLine(r, p).total = CartLine(r, p).subtotal + CartLine(r, p).tax
                     /\ CartLine(r, p).subtotal >= 0 /\ CartLine(r, p).tax >= 0
    BY <1>1, RequestTypes, CartLineIsSound
  <2>. QED  BY <2>1 DEF ItemRows
<1>4. /\ covered \in [E -> Int] /\ waived \in [E -> Int] /\ both \in [E -> Int]
      /\ total \in [L -> Int] /\ rest \in [L \ E -> Int] /\ rest \in [L \ E -> Nat]
  BY <1>1, <1>2, <1>3 DEF ItemRows
<1>5. /\ \A p \in E : both[p] = covered[p] + waived[p]
      /\ \A p \in E : both[p] = total[p]
      /\ \A p \in L \ E : rest[p] = total[p]
  BY <1>1, <1>2, <1>3
<1>6. /\ Covered(r) = SumFunction(covered) /\ Waived(r) = SumFunction(waived)
      /\ CartTotal(r) = SumFunction(total)
  BY DEF Covered, Waived, CartTotal, Sum
<1> HIDE DEF E, L, covered, waived, both, total, rest
<1>7. SumFunction(both) = SumFunction(covered) + SumFunction(waived)
  BY <1>1, <1>4, <1>5, SumPlus
<1>8. SumFunction(total) = SumFunction(both) + SumFunction(rest)
  <2> DEFINE R == L \ E
  <2>1. IsFiniteSet(L) /\ total \in [L -> Int] /\ E \in SUBSET L /\ R = L \ E
    BY <1>1, <1>4
  <2>2. both \in [E -> Int] /\ \A p \in E : both[p] = total[p]
    BY <1>4, <1>5
  <2>3. rest \in [R -> Int] /\ \A p \in R : rest[p] = total[p]
    BY <1>4, <1>5
  <2> HIDE DEF R
  <2>. QED  BY <2>1, <2>2, <2>3, SumParts
<1>9. SumFunction(rest) \in Nat /\ SumFunction(covered) \in Int /\ SumFunction(waived) \in Int
  BY <1>1, <1>4, SumNat, SumInt
<1>10. Remainder(r) = SumFunction(total) - SumFunction(waived) - SumFunction(covered)
  BY <1>6 DEF Remainder, SaleTotal
<1>. QED  BY <1>7, <1>8, <1>9, <1>10

(* What is covered and what is collected add up to the sale.               *)
LEMMA TenderAdds ==
    ASSUME NEW r \in SaleRequests, TenderFits(r), TenderType(r) # "account",
           \A p \in Eligible(r) : r.override[p] = NoPrice
    PROVE  SaleTotal(r) = Covered(r)
             + IF PaymentOf(r) = None THEN 0 ELSE PaymentOf(r).amount
<1>1. /\ Covered(r) \in Int /\ SaleTotal(r) \in Int /\ CartTotal(r) \in Int
      /\ Remainder(r) = SaleTotal(r) - Covered(r)
  BY AmountsAreIntegers DEF Remainder
<1>2. r.method \in Tenders /\ r.remainder \in Collected \cup {None}
  BY RequestTypes
<1>3. CASE r.method \in {"cash", "external_terminal"}
  <2>1. ~IsBenefit(r)
    BY <1>3 DEF IsBenefit
  <2>2. Covered(r) = 0 /\ SaleTotal(r) = CartTotal(r) /\ AmountDue(r) = CartTotal(r)
    BY <1>1, <2>1, NothingWaived DEF SaleTotal, AmountDue
  <2>3. PaymentOf(r) # None /\ PaymentOf(r).amount = AmountDue(r)
    <3>1. r.method \in Collected
      BY <1>3 DEF Collected
    <3>2. PaymentOf(r) = PaymentRow(r, r.method, AmountDue(r))
      BY <1>3, PaymentIsSound
    <3>. QED  BY <3>1, <3>2, RowCollects
  <2>. QED  BY <1>1, <2>2, <2>3
<1>4. CASE IsBenefit(r)
  <2>1. Remainder(r) >= 0
    BY BenefitLeaves
  <2>2. r.method \notin {"cash", "external_terminal"}
    BY <1>4 DEF IsBenefit
  <2>3. CASE Remainder(r) > 0
    <3>1. r.remainder \in Collected
      BY <1>2, <1>4, <2>3 DEF TenderFits, BenefitFits
    <3>2. PaymentOf(r) = PaymentRow(r, r.remainder, AmountDue(r))
      BY <1>4, <2>2, <2>3, PaymentIsSound
    <3>3. PaymentOf(r) # None /\ PaymentOf(r).amount = AmountDue(r)
      BY <3>1, <3>2, RowCollects
    <3>4. AmountDue(r) = Remainder(r)
      BY <1>4 DEF AmountDue
    <3>. QED  BY <1>1, <3>3, <3>4
  <2>4. CASE Remainder(r) = 0
    <3>1. ~(Remainder(r) > 0)
      BY <2>4
    <3>2. PaymentOf(r) = None
      BY <2>2, <3>1, PaymentIsSound
    <3>. QED  BY <1>1, <2>4, <3>2
  <2>. QED  BY <1>1, <2>1, <2>3, <2>4
<1>5. r.method \in {"cash", "external_terminal"} \/ IsBenefit(r)
  BY <1>2 DEF Tenders, TenderType, IsBenefit
<1>. QED  BY <1>3, <1>4, <1>5

(* What a sale came to, by its lines and by its tenders.                   *)
LinesAdd(k) ==
    /\ SumFunction([p \in Products |-> sale[k].item[p].total]) = sale[k].total
    /\ \A p \in Products : sale[k].item[p].total = sale[k].item[p].subtotal + sale[k].item[p].tax
TendersAdd(k) ==
    ~Labelled(k) /\ sale[k].tender # "account" =>
        sale[k].total = sale[k].benefit
            + IF sale[k].payment = None THEN 0 ELSE sale[k].payment.amount

Tendered == \A k \in Sold : LinesAdd(k) /\ TendersAdd(k)

LEMMA TenderedStep ==
    ASSUME Typed, Tendered, [Next]_vars
    PROVE  Tendered'
<1>1. accepted \subseteq accepted'
  <2>1. ASSUME NEW r, \/ CompleteSale(r) \/ ReplaySale(r)
                      \/ RecordAccountPayment(r) \/ ReplayAccountPayment(r)
        PROVE  accepted' = accepted \cup {r}
    BY <2>1 DEF CompleteSale, ReplaySale, RecordAccountPayment, ReplayAccountPayment
  <2>2. ASSUME NEW r, PullSale(r) \/ RecordRefund(r) \/ RecordCashMovement(r)
        PROVE  UNCHANGED accepted
    BY <2>2 DEF PullSale, RecordRefund, RecordCashMovement
  <2>3. RecordDailyClose \/ NextDay \/ Edit \/ UNCHANGED vars => UNCHANGED accepted
    BY DEF RecordDailyClose, NextDay, Edit, vars
  <2>. QED  BY <2>1, <2>2, <2>3 DEF Next
<1>2. ASSUME NEW k \in Sold
      PROVE  (LinesAdd(k) /\ TendersAdd(k))'
  <2>1. Kept(k) /\ LinesAdd(k) /\ TendersAdd(k)
    BY DocumentsKept DEF Tendered
  <2>2. Labelled(k) => Labelled(k)'
    BY <1>1 DEF Labelled
  <2>. QED  BY <2>1, <2>2 DEF LinesAdd, TendersAdd, Kept
<1>3. ASSUME NEW r \in SaleRequests, CompleteSale(r)
      PROVE  (LinesAdd(r.key) /\ TendersAdd(r.key))'
  <2> DEFINE k == r.key
  <2>1. /\ sale'[k].item = [p \in Products |-> SaleItem(r, p)]
        /\ sale'[k].total = SaleTotal(r) /\ sale'[k].tender = TenderType(r)
        /\ sale'[k].payment = PaymentOf(r) /\ sale'[k].benefit = Covered(r)
    BY <1>3, SaleWritten, SaleFields
  <2>2. LinesAdd(k)'
    <3>1. \A p \in Products : sale'[k].item[p] = SaleItem(r, p)
      BY <2>1
    <3>2. [p \in Products |-> sale'[k].item[p].total] = [p \in Products |-> SaleItem(r, p).total]
      BY <3>1
    <3>3. SumFunction([p \in Products |-> SaleItem(r, p).total]) = SaleTotal(r)
      BY <1>3, SaleAdds
    <3>4. \A p \in Products : SaleItem(r, p).total = SaleItem(r, p).subtotal + SaleItem(r, p).tax
      BY ItemIsSound
    <3>. QED  BY <2>1, <3>1, <3>2, <3>3, <3>4 DEF LinesAdd
  <2>3. TendersAdd(k)'
    <3> SUFFICES ASSUME ~Labelled(k)', TenderType(r) # "account"
                 PROVE  SaleTotal(r) = Covered(r)
                          + IF PaymentOf(r) = None THEN 0 ELSE PaymentOf(r).amount
      BY <2>1 DEF TendersAdd
    <3>1. r \in accepted'
      BY <1>3 DEF CompleteSale
    <3>2. \A p \in Eligible(r) : r.override[p] = NoPrice
      BY <3>1 DEF Labelled
    <3>3. TenderFits(r)
      BY <1>3 DEF CompleteSale
    <3>. QED  BY <3>2, <3>3, TenderAdds
  <2>. QED  BY <2>2, <2>3
<1>4. (\E r \in SaleRequests : CompleteSale(r) /\ Sold' = Sold \cup {r.key}) \/ Sold' = Sold
  <2>1. ASSUME NEW r \in PaymentRequests, RecordAccountPayment(r)
        PROVE  Sold' = Sold
    BY <2>1 DEF RecordAccountPayment, Sold
  <2>. QED  BY <2>1, SaleWritten, RefundTyped, NoDocument, StepCases
<1>. QED  BY <1>2, <1>3, <1>4 DEF Tendered

(* What came back of a sale.                                               *)
PaidBack(k) == SumFunction([o \in RefundsOf(k) |-> refund[o].amount])
BackOf(k, p) == Returned(k, p).subtotal + Returned(k, p).tax
AllCameBack(k) == \A p \in Products : Returned(k, p).quantity = sale[k].cart[p]

LineRefunded(k, p) ==
    LET item == sale[k].item[p]
        back == Returned(k, p)
    IN  /\ back.quantity <= sale[k].cart[p]
        /\ back.subtotal <= item.subtotal /\ back.tax <= item.tax
        /\ back.quantity = sale[k].cart[p] =>
             back.subtotal = item.subtotal /\ back.tax = item.tax

PartsAdd(k) == PaidBack(k) = SumFunction([p \in Products |-> BackOf(k, p)])
ComesShort(k) == \E o \in RefundsOf(k) : refund[o].below # {}
StatusTells(k) == (sale[k].status = "refunded") <=> AllCameBack(k) /\ ~ComesShort(k)
ShortInParts(k) == \A o \in RefundsOf(k) : refund[o].below \subseteq InParts(k)

SaleRefunded(k) ==
    /\ \A p \in Products : LineRefunded(k, p)
    /\ StatusTells(k) /\ ShortInParts(k) /\ PartsAdd(k)

RefundsSound == \A k \in Sold : SaleRefunded(k)

LEMMA NothingReturned ==
    ASSUME NEW k, RefundsOf(k) = {}
    PROVE  /\ PaidBack(k) = 0
           /\ \A p : Returned(k, p) = [quantity |-> 0, subtotal |-> 0, tax |-> 0]
<1> DEFINE f == [o \in RefundsOf(k) |-> refund[o].amount]
<1>1. PaidBack(k) = SumFunction(f) /\ DOMAIN f = {}
  BY DEF PaidBack
<1>2. ASSUME NEW p
      PROVE  Returned(k, p) = [quantity |-> 0, subtotal |-> 0, tax |-> 0]
  <2> DEFINE g == [o \in RefundsOf(k) |-> refund[o].quantity[p]]
             h == [o \in RefundsOf(k) |-> refund[o].part[p].subtotal]
             i == [o \in RefundsOf(k) |-> refund[o].part[p].tax]
  <2>1. DOMAIN g = {} /\ DOMAIN h = {} /\ DOMAIN i = {}
    OBVIOUS
  <2>2. Returned(k, p) = [quantity |-> SumFunction(g), subtotal |-> SumFunction(h),
                          tax |-> SumFunction(i)]
    BY DEF Returned, Sum
  <2> HIDE DEF g, h, i
  <2>. QED  BY <2>1, <2>2, SumEmpty
<1> HIDE DEF f
<1>. QED  BY <1>1, <1>2, SumEmpty

(* A refund of another sale, or none, leaves what came back of this one.   *)
LEMMA ReturnedSame ==
    ASSUME Typed, NEW k, RefundsOf(k)' = RefundsOf(k), \A o \in Refunded : refund'[o] = refund[o]
    PROVE  /\ PaidBack(k)' = PaidBack(k) /\ \A p : Returned(k, p)' = Returned(k, p)
           /\ ComesShort(k)' <=> ComesShort(k)
           /\ ShortInParts(k)' <=> ShortInParts(k)
<1>1. \A o \in RefundsOf(k) : refund'[o] = refund[o]
  BY DEF RefundsOf
<1>4. InParts(k)' = InParts(k)
  BY <1>1 DEF InParts
<1>5. (ComesShort(k)' <=> ComesShort(k)) /\ (ShortInParts(k)' <=> ShortInParts(k))
  BY <1>1, <1>4 DEF ComesShort, ShortInParts
<1>2. PaidBack(k)' = PaidBack(k)
  BY <1>1 DEF PaidBack
<1>3. ASSUME NEW p
      PROVE  Returned(k, p)' = Returned(k, p)
  BY <1>1 DEF Returned, Sum
<1>. QED  BY <1>2, <1>3, <1>5

LEMMA RefundsOfSame ==
    ASSUME UNCHANGED refund, NEW k
    PROVE  RefundsOf(k)' = RefundsOf(k)
  BY DEF RefundsOf, Refunded

LEMMA SaleRefundedKept ==
    ASSUME Typed, NEW k \in Sold, SaleRefunded(k), Kept(k), sale'[k].status = sale[k].status,
           RefundsOf(k)' = RefundsOf(k), \A o \in Refunded : refund'[o] = refund[o]
    PROVE  SaleRefunded(k)'
<1>1. /\ PaidBack(k)' = PaidBack(k) /\ \A p : Returned(k, p)' = Returned(k, p)
      /\ (ComesShort(k)' <=> ComesShort(k)) /\ (ShortInParts(k)' <=> ShortInParts(k))
  BY ReturnedSame
<1>2. \A p \in Products : LineRefunded(k, p)'
  BY <1>1 DEF SaleRefunded, LineRefunded, Kept
<1>3. StatusTells(k)'
  BY <1>1 DEF SaleRefunded, StatusTells, AllCameBack, Kept
<1>4. PartsAdd(k)'
  BY <1>1 DEF SaleRefunded, PartsAdd, BackOf
<1>. QED  BY <1>1, <1>2, <1>3, <1>4 DEF SaleRefunded

(* What a refund pays back is what its parts are.                          *)
LEMMA AmountAdds ==
    ASSUME Typed, NEW r \in RefundRequests, r.sale \in Sold, RefundFits(r)
    PROVE  /\ [p \in Products |-> Part(r, p).subtotal + Part(r, p).tax] \in [Products -> Int]
           /\ RefundAmount(r)
                = SumFunction([p \in Products |-> Part(r, p).subtotal + Part(r, p).tax])
<1> DEFINE L == Lines(r.quantity)
           f == [p \in Products |-> Part(r, p).subtotal + Part(r, p).tax]
<1>1. IsFiniteSet(Products) /\ L \in SUBSET Products
  BY BooksAssumption, CartIsFinite
<1>2. f \in [Products -> Int]
  BY PartTyped DEF Parts
<1>3. \A p \in Products \ L : f[p] = 0
  <2>1. \A p \in Products \ L : r.quantity[p] = 0
    BY RefundRequestTypes DEF Lines, Quantities
  <2>2. \A p \in Products \ L : Part(r, p) = [subtotal |-> 0, tax |-> 0]
    BY <2>1 DEF Part
  <2>. QED  BY <2>2
<1>4. RefundAmount(r) = SumFunction([p \in L |-> f[p]])
  <2>1. [p \in L |-> f[p]] = [p \in L |-> Part(r, p).subtotal + Part(r, p).tax]
    BY <1>1
  <2>. QED  BY <2>1 DEF RefundAmount, Sum
<1>5. SumFunction(f) = SumFunction([p \in L |-> f[p]])
  <2> HIDE DEF L, f
  <2>. QED  BY <1>1, <1>2, <1>3, SumPart
<1>. QED  BY <1>2, <1>4, <1>5

(* One more value of the refunds of a sale.                                *)
LEMMA RefundSumAfter ==
    ASSUME NEW S, IsFiniteSet(S), NEW x, x \notin S, NEW f \in [S -> Int], NEW v \in Int
    PROVE  SumFunction([o \in S \cup {x} |-> IF o = x THEN v ELSE f[o]]) = SumFunction(f) + v
<1> DEFINE g == [o \in S \cup {x} |-> IF o = x THEN v ELSE f[o]]
<1>1. g \in [S \cup {x} -> Int] /\ g[x] = v /\ \A o \in S : g[o] = f[o]
  OBVIOUS
<1> HIDE DEF g
<1>2. SumFunction(g) = SumFunction(f) + g[x]
  BY <1>1, SumExtended
<1>. QED  BY <1>1, <1>2 DEF g

LEMMA ReturnedAfter ==
    ASSUME Typed, NEW r \in RefundRequests, RecordRefund(r)
    PROVE  LET k == r.sale
           IN  /\ PaidBack(k)' = PaidBack(k) + RefundAmount(r)
               /\ \A p \in Products :
                    /\ Returned(k, p)'.quantity = Returned(k, p).quantity + r.quantity[p]
                    /\ Returned(k, p)'.subtotal = Returned(k, p).subtotal + Part(r, p).subtotal
                    /\ Returned(k, p)'.tax = Returned(k, p).tax + Part(r, p).tax
<1> DEFINE k == r.sale
           x == r.operation
           S == RefundsOf(k)
<1>1. /\ k \in Sold /\ x \notin Refunded /\ Refunded' = Refunded \cup {x} /\ RefundFits(r)
      /\ refund'[x] = RefundRecord(r) /\ \A o \in Refunded : refund'[o] = refund[o]
  BY RefundTyped, RefundWritten
<1>2. /\ refund'[x].sale = k /\ refund'[x].amount = RefundAmount(r)
      /\ refund'[x].quantity = r.quantity
      /\ refund'[x].part = [p \in Products |-> Part(r, p)]
  BY <1>1, RefundFields
<1>3. /\ S' = S \cup {x} /\ S \subseteq Refunded /\ x \notin S
      /\ \A o \in S : refund'[o] = refund[o]
  BY <1>1, <1>2 DEF RefundsOf
<1>4. IsFiniteSet(S) /\ \A o \in S : refund[o] \in RefundRows
  <2>1. Products # {}
    <3>1. sale[k].cart \in Quantities /\ r.quantity \in Quantities
      BY <1>1, SaleTyped, RefundRequestTypes
    <3>. QED  BY RequestAssumption, SaleTyped, <1>1 DEF Keys
  <2>2. PICK p \in Products : TRUE
    BY <2>1
  <2>. QED  BY <2>2, ReturnedTyped
<1>5. PaidBack(k)' = PaidBack(k) + RefundAmount(r)
  <2> DEFINE f == [o \in S |-> refund[o].amount]
             v == RefundAmount(r)
  <2>1. PaidBack(k) = SumFunction(f)
        /\ PaidBack(k)' = SumFunction([o \in S' |-> refund'[o].amount])
    BY DEF PaidBack
  <2>2. [o \in S' |-> refund'[o].amount]
          = [o \in S \cup {x} |-> IF o = x THEN v ELSE f[o]]
    BY <1>2, <1>3
  <2>3. f \in [S -> Int] /\ v \in Int
    BY <1>1, <1>4, RefundAmountTyped DEF RefundRows
  <2> HIDE DEF f, v, S, x
  <2>4. SumFunction([o \in S \cup {x} |-> IF o = x THEN v ELSE f[o]]) = SumFunction(f) + v
    BY <1>3, <1>4, <2>3, RefundSumAfter
  <2>. QED  BY <2>1, <2>2, <2>4 DEF v
<1>6. ASSUME NEW p \in Products
      PROVE  /\ Returned(k, p)'.quantity = Returned(k, p).quantity + r.quantity[p]
             /\ Returned(k, p)'.subtotal = Returned(k, p).subtotal + Part(r, p).subtotal
             /\ Returned(k, p)'.tax = Returned(k, p).tax + Part(r, p).tax
  <2> DEFINE fq == [o \in S |-> refund[o].quantity[p]]
             fs == [o \in S |-> refund[o].part[p].subtotal]
             ft == [o \in S |-> refund[o].part[p].tax]
             q == r.quantity[p]
             s == Part(r, p).subtotal
             t == Part(r, p).tax
  <2>1. /\ Returned(k, p) = [quantity |-> SumFunction(fq), subtotal |-> SumFunction(fs),
                             tax |-> SumFunction(ft)]
        /\ Returned(k, p)' = [quantity |-> SumFunction([o \in S' |-> refund'[o].quantity[p]]),
                              subtotal |-> SumFunction([o \in S' |-> refund'[o].part[p].subtotal]),
                              tax |-> SumFunction([o \in S' |-> refund'[o].part[p].tax])]
    BY DEF Returned, Sum
  <2>2. refund'[x].quantity[p] = q /\ refund'[x].part[p].subtotal = s
        /\ refund'[x].part[p].tax = t
    BY <1>2
  <2>3. /\ [o \in S' |-> refund'[o].quantity[p]]
             = [o \in S \cup {x} |-> IF o = x THEN q ELSE fq[o]]
        /\ [o \in S' |-> refund'[o].part[p].subtotal]
             = [o \in S \cup {x} |-> IF o = x THEN s ELSE fs[o]]
        /\ [o \in S' |-> refund'[o].part[p].tax]
             = [o \in S \cup {x} |-> IF o = x THEN t ELSE ft[o]]
    BY <1>3, <2>2
  <2>4. ASSUME NEW o \in S
        PROVE  /\ refund[o].quantity[p] \in Int
               /\ refund[o].part[p].subtotal \in Int /\ refund[o].part[p].tax \in Int
    <3>1. refund[o].quantity \in [Products -> Nat] /\ refund[o].part \in [Products -> Parts]
      BY <1>4 DEF RefundRows, Quantities
    <3>2. refund[o].quantity[p] \in Nat /\ refund[o].part[p] \in Parts
      BY <3>1
    <3>. QED  BY <3>2 DEF Parts
  <2>5. fq \in [S -> Int] /\ fs \in [S -> Int] /\ ft \in [S -> Int]
    BY <2>4
  <2>6. q \in Int /\ s \in Int /\ t \in Int
    BY <1>1, PartTyped, RefundRequestTypes DEF Parts, Quantities
  <2>7. ASSUME NEW f \in [S -> Int], NEW v \in Int
        PROVE  SumFunction([o \in S \cup {x} |-> IF o = x THEN v ELSE f[o]]) = SumFunction(f) + v
    <3> HIDE DEF S, x
    <3>. QED  BY <1>3, <1>4, RefundSumAfter
  <2> HIDE DEF fq, fs, ft, q, s, t, S, x
  <2>8. /\ SumFunction([o \in S \cup {x} |-> IF o = x THEN q ELSE fq[o]]) = SumFunction(fq) + q
        /\ SumFunction([o \in S \cup {x} |-> IF o = x THEN s ELSE fs[o]]) = SumFunction(fs) + s
        /\ SumFunction([o \in S \cup {x} |-> IF o = x THEN t ELSE ft[o]]) = SumFunction(ft) + t
    BY <2>5, <2>6, <2>7
  <2>9. /\ Returned(k, p)'.quantity = SumFunction(fq) + q
        /\ Returned(k, p)'.subtotal = SumFunction(fs) + s
        /\ Returned(k, p)'.tax = SumFunction(ft) + t
    <3>1. /\ Returned(k, p)'.quantity = SumFunction([o \in S' |-> refund'[o].quantity[p]])
          /\ Returned(k, p)'.subtotal = SumFunction([o \in S' |-> refund'[o].part[p].subtotal])
          /\ Returned(k, p)'.tax = SumFunction([o \in S' |-> refund'[o].part[p].tax])
      BY <2>1
    <3>2. Returned(k, p)'.quantity = SumFunction(fq) + q
      BY <3>1, <2>3, <2>8, Zenon
    <3>3. Returned(k, p)'.subtotal = SumFunction(fs) + s
      BY <3>1, <2>3, <2>8, Zenon
    <3>4. Returned(k, p)'.tax = SumFunction(ft) + t
      BY <3>1, <2>3, <2>8, Zenon
    <3>. QED  BY <3>2, <3>3, <3>4
  <2>10. /\ Returned(k, p).quantity = SumFunction(fq)
         /\ Returned(k, p).subtotal = SumFunction(fs) /\ Returned(k, p).tax = SumFunction(ft)
    BY <2>1
  <2>. QED  BY <2>9, <2>10 DEF q, s, t
<1>. QED  BY <1>5, <1>6

LEMMA RefundedStep ==
    ASSUME Typed, RefundsSound, NEW r \in RefundRequests, RecordRefund(r)
    PROVE  SaleRefunded(r.sale)'
<1> DEFINE k == r.sale
<1>1. /\ k \in Sold /\ RefundFits(r) /\ Kept(k)
      /\ sale'[k].status = IF RefundsSale(r) THEN "refunded" ELSE sale[k].status
  BY RefundTyped, RefundWritten
<1>2. SaleRefunded(k)
  BY <1>1 DEF RefundsSound
<1>3. /\ PaidBack(k)' = PaidBack(k) + RefundAmount(r)
      /\ \A p \in Products :
           /\ Returned(k, p)'.quantity = Returned(k, p).quantity + r.quantity[p]
           /\ Returned(k, p)'.subtotal = Returned(k, p).subtotal + Part(r, p).subtotal
           /\ Returned(k, p)'.tax = Returned(k, p).tax + Part(r, p).tax
  BY ReturnedAfter
<1>4. ASSUME NEW p \in Products
      PROVE  /\ Returned(k, p).quantity \in Nat /\ r.quantity[p] \in Nat
             /\ Returned(k, p).subtotal \in Int /\ Returned(k, p).tax \in Int
             /\ Part(r, p).subtotal \in Int /\ Part(r, p).tax \in Int
             /\ sale[k].cart[p] \in Nat
             /\ sale[k].item[p].subtotal \in Int /\ sale[k].item[p].tax \in Int
  <2>1. /\ Returned(k, p) \in [quantity : Nat, subtotal : Int, tax : Int]
        /\ Part(r, p) \in Parts /\ sale[k].item[p] \in ItemRows /\ sale[k].cart[p] \in Nat
        /\ r.quantity \in [Products -> Nat]
    BY <1>1, ReturnedTyped, PartTyped, SaleTyped, RefundRequestTypes DEF Quantities
  <2>. QED  BY <2>1 DEF Parts, ItemRows
<1>5. ASSUME NEW p \in Products
      PROVE  LineRefunded(k, p)'
  <2>1. LineRefunded(k, p)
    BY <1>2 DEF SaleRefunded
  <2>2. sale'[k].item[p] = sale[k].item[p] /\ sale'[k].cart[p] = sale[k].cart[p]
    BY <1>1 DEF Kept
  <2>3. CASE r.quantity[p] = 0
    <3>1. Part(r, p).subtotal = 0 /\ Part(r, p).tax = 0
      BY <2>3 DEF Part
    <3>2. /\ Returned(k, p)'.quantity = Returned(k, p).quantity
          /\ Returned(k, p)'.subtotal = Returned(k, p).subtotal
          /\ Returned(k, p)'.tax = Returned(k, p).tax
      BY <1>3, <1>4, <2>3, <3>1
    <3>. QED  BY <2>1, <2>2, <3>2 DEF LineRefunded
  <2>4. CASE r.quantity[p] # 0
    <3> DEFINE item == sale[k].item[p]
               sold == sale[k].cart[p]
               before == Returned(k, p)
               quantity == r.quantity[p]
    <3>1. p \in Lines(r.quantity)
      BY <1>4, <2>4 DEF Lines
    <3>2. Part(r, p) = RefundLine(item, sold, before, quantity)
      BY <2>4 DEF Part
    <3>3. CanRefundLine(item, sold, before, quantity)
      BY <1>1, <3>1 DEF RefundFits
    <3>4. /\ before.quantity + quantity <= sold
          /\ before.subtotal + Part(r, p).subtotal <= item.subtotal
          /\ before.tax + Part(r, p).tax <= item.tax
      BY <3>2, <3>3 DEF CanRefundLine
    <3>5. before.quantity + quantity = sold =>
            /\ Part(r, p).subtotal = item.subtotal - before.subtotal
            /\ Part(r, p).tax = item.tax - before.tax
      BY <3>2 DEF RefundLine, Share
    <3>6. before.quantity + quantity = sold =>
            /\ before.subtotal + Part(r, p).subtotal = item.subtotal
            /\ before.tax + Part(r, p).tax = item.tax
      BY <1>4, <3>5
    <3>. QED  BY <1>3, <2>2, <3>4, <3>6 DEF LineRefunded
  <2>. QED  BY <2>3, <2>4
<1>6. /\ ComesShort(k)' <=> ComesShort(k) \/ ShortNow(r) # {}
      /\ ShortInParts(k)'
  <2> DEFINE x == r.operation
  <2>1. /\ x \notin Refunded /\ Refunded' = Refunded \cup {x}
        /\ ShortNow(r) \subseteq MayFallShort(r)
        /\ refund'[x] = RefundRecord(r) /\ \A o \in Refunded : refund'[o] = refund[o]
    BY RefundTyped, RefundWritten
  <2>2. /\ refund'[x].sale = k /\ refund'[x].quantity = r.quantity
        /\ refund'[x].below = ShortNow(r)
    BY <2>1 DEF RefundRecord
  <2>3. /\ RefundsOf(k)' = RefundsOf(k) \cup {x} /\ x \notin RefundsOf(k)
        /\ \A o \in RefundsOf(k) : refund'[o] = refund[o]
    BY <2>1, <2>2 DEF RefundsOf
  <2>4. ComesShort(k)' <=> ComesShort(k) \/ ShortNow(r) # {}
    BY <2>2, <2>3 DEF ComesShort
  <2>5. InParts(k) \subseteq InParts(k)'
    BY <2>3 DEF InParts
  <2>6. ShortNow(r) \subseteq InParts(k)'
    <3>1. ASSUME NEW p \in ShortNow(r)
          PROVE  p \in InParts(k)'
      <4>1. /\ p \in Lines(r.quantity) /\ SoldBy[p] = "weight"
            /\ \E o \in RefundsOf(k) : refund[o].quantity[p] > 0
        BY <2>1, <3>1 DEF MayFallShort
      <4>2. p \in Products /\ r.quantity[p] > 0
        BY <4>1 DEF Lines
      <4>3. PICK o \in RefundsOf(k) : refund[o].quantity[p] > 0
        BY <4>1
      <4>4. /\ o \in RefundsOf(k)' /\ x \in RefundsOf(k)' /\ o # x
            /\ refund'[o].quantity[p] > 0 /\ refund'[x].quantity[p] > 0
        BY <2>2, <2>3, <4>2, <4>3
      <4>. QED  BY <4>1, <4>2, <4>4 DEF InParts
    <3>. QED  BY <3>1
  <2>7. ShortInParts(k)
    BY <1>2 DEF SaleRefunded
  <2>8. ASSUME NEW o \in RefundsOf(k)'
        PROVE  refund'[o].below \subseteq InParts(k)'
    <3>1. CASE o = x
      BY <2>2, <2>6, <3>1
    <3>2. CASE o # x
      <4>1. o \in RefundsOf(k) /\ refund'[o] = refund[o]
        BY <2>3, <3>2
      <4>. QED  BY <2>5, <2>7, <4>1 DEF ShortInParts
    <3>. QED  BY <3>1, <3>2
  <2>. QED  BY <2>4, <2>8 DEF ShortInParts
<1>8. StatusTells(k)'
  <2>1. \A p \in Products : Returned(k, p)'.quantity <= sale[k].cart[p]
    BY <1>1, <1>5 DEF LineRefunded, Kept
  <2>2. AllCameBack(k)' <=> \A p \in Products :
          Returned(k, p).quantity + r.quantity[p] >= sale[k].cart[p]
    <3>1. AllCameBack(k)' <=> \A p \in Products : Returned(k, p)'.quantity = sale[k].cart[p]
      BY <1>1 DEF AllCameBack, Kept
    <3>2. \A p \in Products : /\ Returned(k, p)'.quantity \in Nat
                             /\ Returned(k, p)'.quantity = Returned(k, p).quantity + r.quantity[p]
      BY <1>3, <1>4
    <3>. QED  BY <1>4, <2>1, <3>1, <3>2
  <2>3. RefundsSale(r) <=> AllCameBack(k)' /\ ~ComesShort(k)'
    BY <1>6, <2>2 DEF RefundsSale, AllReturned, ComesShort
  <2>4. AllCameBack(k) => AllCameBack(k)'
    <3>1. \A p \in Products : Returned(k, p).quantity + r.quantity[p] >= Returned(k, p).quantity
      BY <1>4
    <3>. QED  BY <2>2, <3>1 DEF AllCameBack
  <2>5. AllCameBack(k) => ShortNow(r) = {}
    <3>1. ShortNow(r) \subseteq MayFallShort(r)
      BY RefundTyped
    <3>2. ASSUME AllCameBack(k), NEW p \in MayFallShort(r)
          PROVE  FALSE
      <4>1. p \in Products /\ r.quantity[p] > 0
            /\ Returned(k, p).quantity + r.quantity[p] = sale[k].cart[p]
        BY DEF MayFallShort, Lines
      <4>2. Returned(k, p).quantity = sale[k].cart[p]
        BY <3>2, <4>1 DEF AllCameBack
      <4>. QED  BY <1>4, <4>1, <4>2
    <3>. QED  BY <3>1, <3>2
  <2>6. (sale[k].status = "refunded") <=> AllCameBack(k) /\ ~ComesShort(k)
    BY <1>2 DEF SaleRefunded, StatusTells
  <2>7. (sale'[k].status = "refunded") <=> AllCameBack(k)' /\ ~ComesShort(k)'
    BY <1>1, <1>6, <2>3, <2>4, <2>5, <2>6
  <2>. QED  BY <2>7 DEF StatusTells
<1>7. PartsAdd(k)'
  <2> DEFINE f == [p \in Products |-> BackOf(k, p)]
             g == [p \in Products |-> Part(r, p).subtotal + Part(r, p).tax]
             h == [p \in Products |-> BackOf(k, p)']
  <2>1. PaidBack(k) = SumFunction(f)
    BY <1>2 DEF SaleRefunded, PartsAdd
  <2>2. g \in [Products -> Int] /\ RefundAmount(r) = SumFunction(g)
    BY <1>1, AmountAdds
  <2>3. f \in [Products -> Int]
    BY <1>4 DEF BackOf
  <2>4. \A p \in Products : h[p] = f[p] + g[p]
    BY <1>3, <1>4 DEF BackOf
  <2>5. h \in [Products -> Int]
    BY <2>2, <2>3, <2>4
  <2>6. (SumFunction([p \in Products |-> BackOf(k, p)]))' = SumFunction(h)
    OBVIOUS
  <2>7. SumFunction(h) = SumFunction(f) + SumFunction(g)
    <3>1. IsFiniteSet(Products)
      BY BooksAssumption
    <3>2. \A F \in [Products -> Int], G \in [Products -> Int], H \in [Products -> Int] :
            (\A p \in Products : H[p] = F[p] + G[p])
              => SumFunction(H) = SumFunction(F) + SumFunction(G)
      BY <3>1, SumPlus
    <3> HIDE DEF f, g, h
    <3>. QED  BY <2>2, <2>3, <2>4, <2>5, <3>2
  <2>8. PaidBack(k)' = SumFunction(h)
    BY <1>3, <2>1, <2>2, <2>7
  <2>. QED  BY <2>6, <2>8 DEF PartsAdd
<1>. QED  BY <1>5, <1>6, <1>7, <1>8 DEF SaleRefunded

LEMMA RefundsSoundStep ==
    ASSUME Typed, Booked, RefundsSound, [Next]_vars
    PROVE  RefundsSound'
<1>1. ASSUME NEW r \in SaleRequests, CompleteSale(r)
      PROVE  RefundsSound'
  <2> DEFINE k == r.key
  <2>1. /\ k \notin Sold /\ Sold' = Sold \cup {k} /\ UNCHANGED refund
        /\ sale'[k] = SaleRecord(r) /\ \A x \in Sold : sale'[x] = sale[x]
    BY <1>1, SaleWritten DEF CompleteSale
  <2>2. ASSUME NEW x
        PROVE  RefundsOf(x)' = RefundsOf(x)
    BY <2>1, RefundsOfSame
  <2>3. ASSUME NEW x \in Sold
        PROVE  SaleRefunded(x)'
    <3>1. /\ Kept(x) /\ sale'[x].status = sale[x].status /\ SaleRefunded(x)
          /\ \A o \in Refunded : refund'[o] = refund[o]
      BY <2>1 DEF Kept, RefundsSound
    <3>. QED  BY <2>2, <3>1, SaleRefundedKept
  <2>4. RefundsOf(k)' = {}
    <3>1. \A o \in Refunded : refund[o].sale \in Sold
      BY DEF Booked, RefundHasSale
    <3>2. RefundsOf(k) = {}
      BY <2>1, <3>1 DEF RefundsOf
    <3>. QED  BY <2>2, <3>2
  <2>5. PaidBack(k)' = 0
        /\ \A p : Returned(k, p)' = [quantity |-> 0, subtotal |-> 0, tax |-> 0]
    <3>1. RefundsOf(k) = {}
      BY <2>2, <2>4
    <3>2. PaidBack(k)' = PaidBack(k) /\ \A p : Returned(k, p)' = Returned(k, p)
      BY <2>1, <2>2, ReturnedSame
    <3>. QED  BY <3>1, <3>2, NothingReturned
  <2>6. /\ sale'[k].status = "completed" /\ sale'[k].cart = r.cart
        /\ \A p \in Products : sale'[k].item[p] = SaleItem(r, p)
    <3>1. /\ SaleRecord(r).status = "completed" /\ SaleRecord(r).cart = r.cart
          /\ SaleRecord(r).item = [p \in Products |-> SaleItem(r, p)]
      BY SaleFields
    <3>2. \A p \in Products : SaleRecord(r).item[p] = SaleItem(r, p)
      BY <3>1
    <3>. QED  BY <2>1, <3>1, <3>2
  <2>7. ASSUME NEW p \in Products
        PROVE  LineRefunded(k, p)'
    <3>1. /\ SaleItem(r, p).subtotal >= 0 /\ SaleItem(r, p).tax >= 0
          /\ r.cart[p] = 0 => SaleItem(r, p).subtotal = 0 /\ SaleItem(r, p).tax = 0
          /\ SaleItem(r, p).subtotal \in Int /\ SaleItem(r, p).tax \in Int
      BY ItemIsSound DEF ItemRows
    <3>2. r.cart[p] \in Nat
      BY RequestTypes DEF Quantities
    <3>3. /\ Returned(k, p)'.quantity = 0 /\ Returned(k, p)'.subtotal = 0
          /\ Returned(k, p)'.tax = 0
      BY <2>5
    <3>. QED  BY <2>6, <3>1, <3>2, <3>3 DEF LineRefunded
  <2>8. StatusTells(k)'
    <3>1. PICK p \in Products : r.cart[p] > 0
      BY RequestTypes
    <3>2. Returned(k, p)'.quantity = 0
      BY <2>5
    <3>3. ~AllCameBack(k)'
      BY <2>6, <3>1, <3>2 DEF AllCameBack
    <3>. QED  BY <2>6, <3>3 DEF StatusTells
  <2>9. PartsAdd(k)'
    <3> DEFINE f == [p \in Products |-> BackOf(k, p)']
    <3>1. \A p \in Products : f[p] = 0
      BY <2>5 DEF BackOf
    <3>2. f \in [Products -> Int] /\ IsFiniteSet(Products)
      BY <3>1, BooksAssumption
    <3>3. (SumFunction([p \in Products |-> BackOf(k, p)]))' = SumFunction(f)
      OBVIOUS
    <3>4. SumFunction(f) = 0
      <4> HIDE DEF f
      <4>. QED  BY <3>1, <3>2, SumZero
    <3>. QED  BY <2>5, <3>3, <3>4 DEF PartsAdd
  <2>10. SaleRefunded(k)'
    BY <2>4, <2>7, <2>8, <2>9 DEF SaleRefunded, ShortInParts
  <2>. QED  BY <2>1, <2>3, <2>10 DEF RefundsSound
<1>2. ASSUME NEW r \in RefundRequests, RecordRefund(r)
      PROVE  RefundsSound'
  <2>1. /\ Sold' = Sold /\ Refunded' = Refunded \cup {r.operation} /\ r.operation \notin Refunded
    BY <1>2, RefundTyped
  <2>2. /\ \A x \in Sold \ {r.sale} : sale'[x] = sale[x]
        /\ refund'[r.operation].sale = r.sale
        /\ \A o \in Refunded : refund'[o] = refund[o]
    BY <1>2, RefundWritten, RefundFields
  <2>3. ASSUME NEW x \in Sold, x # r.sale
        PROVE  SaleRefunded(x)'
    <3>1. RefundsOf(x)' = RefundsOf(x)
      BY <2>1, <2>2, <2>3 DEF RefundsOf
    <3>2. Kept(x) /\ sale'[x].status = sale[x].status /\ SaleRefunded(x)
      BY <2>2, <2>3 DEF RefundsSound, Kept
    <3>. QED  BY <2>2, <3>1, <3>2, SaleRefundedKept
  <2>4. SaleRefunded(r.sale)'
    BY <1>2, RefundedStep
  <2>. QED  BY <2>1, <2>3, <2>4 DEF RefundsSound
<1>3. ASSUME UNCHANGED <<sale, refund>>
      PROVE  RefundsSound'
  <2>1. ASSUME NEW x \in Sold
        PROVE  SaleRefunded(x)'
    <3>1. /\ Kept(x) /\ sale'[x].status = sale[x].status /\ SaleRefunded(x)
          /\ RefundsOf(x)' = RefundsOf(x) /\ \A o \in Refunded : refund'[o] = refund[o]
      BY <1>3, RefundsOfSame DEF Kept, RefundsSound
    <3>. QED  BY <3>1, SaleRefundedKept
  <2>. QED  BY <1>3, <2>1 DEF RefundsSound, Sold
<1>4. ASSUME NEW r, RecordAccountPayment(r)
      PROVE  UNCHANGED <<sale, refund>>
  BY <1>4 DEF RecordAccountPayment
<1>. QED  BY <1>1, <1>2, <1>3, <1>4, StepCases, NoDocument

(* Not a cent is lost: lines and tenders add up to the sale, the parts of  *)
(* a line that are refunded never exceed it, and a sale is refunded when   *)
(* every unit of it came back, for exactly what it came to (completeSale,  *)
(* calculateRefund, recordRefund).                                         *)
THEOREM EveryCentIsKept == Spec => []CentsAddUp
<1> DEFINE Inv == Typed /\ Booked /\ Tendered /\ RefundsSound
<1>1. Init => Inv
  <2> SUFFICES ASSUME Init PROVE Tendered /\ RefundsSound
    BY InitTyped, BookedInit
  <2>1. Sold = {}
    BY DEF Init, Sold
  <2>. QED  BY <2>1 DEF Tendered, RefundsSound
<1>2. Inv /\ [Next]_vars => Inv'
  BY StepTyped, BookedStep, TenderedStep, RefundsSoundStep
<1>3. Inv => CentsAddUp
  <2> SUFFICES ASSUME Inv PROVE TenderedIsTotal /\ RefundsWithinSale
    BY DEF CentsAddUp
  <2>1. TenderedIsTotal
    BY DEF TenderedIsTotal, Tendered, LinesAdd, TendersAdd, Sum
  <2>2. ASSUME NEW k \in Sold
        PROVE  /\ Sum(RefundsOf(k), LAMBDA o : refund[o].amount) <= sale[k].total
               /\ \A p \in Products : Returned(k, p).quantity <= sale[k].cart[p]
               /\ sale[k].status = "refunded" => AllCameBack(k)
               /\ AllCameBack(k) /\ InParts(k) = {} => sale[k].status = "refunded"
               /\ AllCameBack(k) =>
                    Sum(RefundsOf(k), LAMBDA o : refund[o].amount) = sale[k].total
    <3> DEFINE back == [p \in Products |-> BackOf(k, p)]
               cost == [p \in Products |-> sale[k].item[p].total]
    <3>1. /\ \A p \in Products : LineRefunded(k, p)
          /\ StatusTells(k) /\ ShortInParts(k) /\ PartsAdd(k) /\ LinesAdd(k)
      BY DEF RefundsSound, SaleRefunded, Tendered
    <3>2. /\ Sum(RefundsOf(k), LAMBDA o : refund[o].amount) = SumFunction(back)
          /\ sale[k].total = SumFunction(cost)
      BY <3>1 DEF PartsAdd, PaidBack, LinesAdd, Sum
    <3>3. ASSUME NEW p \in Products
          PROVE  /\ Returned(k, p).subtotal \in Int /\ Returned(k, p).tax \in Int
                 /\ sale[k].item[p].subtotal \in Int /\ sale[k].item[p].tax \in Int
      <4>1. Returned(k, p) \in [quantity : Nat, subtotal : Int, tax : Int]
            /\ sale[k].item[p] \in ItemRows
        BY ReturnedTyped, SaleTyped
      <4>. QED  BY <4>1 DEF ItemRows
    <3>4. ASSUME NEW p \in Products
          PROVE  /\ back[p] \in Int /\ cost[p] \in Int /\ back[p] <= cost[p]
                 /\ AllCameBack(k) => back[p] = cost[p]
                 /\ Returned(k, p).quantity <= sale[k].cart[p]
      BY <3>1, <3>3 DEF LineRefunded, LinesAdd, BackOf, AllCameBack
    <3>5. back \in [Products -> Int] /\ cost \in [Products -> Int] /\ IsFiniteSet(Products)
      BY <3>4, BooksAssumption
    <3>6. SumFunction(back) <= SumFunction(cost)
      <4>1. \A p \in Products : back[p] <= cost[p]
        BY <3>4
      <4> HIDE DEF back, cost
      <4>. QED  BY <3>5, <4>1, SumMonotone
    <3>7. AllCameBack(k) => back = cost
      BY <3>4
    <3>8. /\ sale[k].status = "refunded" => AllCameBack(k)
          /\ AllCameBack(k) /\ InParts(k) = {} => sale[k].status = "refunded"
      BY <3>1 DEF StatusTells, ShortInParts, ComesShort
    <3>. QED  BY <3>1, <3>2, <3>4, <3>6, <3>7, <3>8
  <2>3. RefundsWithinSale
    BY <2>2 DEF RefundsWithinSale, AllCameBack
  <2>. QED  BY <2>1, <2>3
<1>. QED  BY <1>1, <1>2, <1>3, PTL DEF Spec

=============================================================================
