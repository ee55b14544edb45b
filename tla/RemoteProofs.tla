----------------------------- MODULE RemoteProofs -----------------------------
(***************************************************************************)
(* Theorems about Remote, for every value of its constants: it implements  *)
(* each of its components, and what a component promises holds of all of   *)
(* them together.  The orders and their mails come first, then the price   *)
(* tags and the kiosk.                                                     *)
(***************************************************************************)
EXTENDS Remote, SumTheorems

(* The components count as this module does.                               *)
LEMMA ShelfCounts ==
    /\ \A S : Shelf!IsFiniteSet(S) <=> IsFiniteSet(S)
    /\ \A S : Shelf!Cardinality(S) = Cardinality(S)
BY DEF Shelf!IsFiniteSet, IsFiniteSet, Shelf!Cardinality, Cardinality

LEMMA IsASeq ==
    ASSUME NEW Q, NEW k \in Nat, NEW f \in [1..k -> Q]
    PROVE  f \in Seq(Q) /\ Len(f) = k
  OBVIOUS

-----------------------------------------------------------------------------
(* Orders and their mails *)

(* ------------------------- The list and the orders ----------------------- *)

RowsOver(vendors) ==
    [product : Products, vendor : vendors, status : {"open", "dismissed", "ordered"},
     order : Orders \cup {None}]

(* Rows of a list: a product waits only for an order that can still come,  *)
(* and has one suggestion at most.                                         *)
Awaited(r) ==
    /\ r.order \in Drafted
    /\ order[r.order].status \in Live
    /\ order[r.order].quantity[r.product] > 0

OneSuggestion(list) ==
    \A r, s \in list :
        r.status # "ordered" /\ s.status # "ordered" /\ r.product = s.product => r = s

InLine(list) ==
    /\ list \subseteq RowsOver(known)
    /\ \A r \in list : r.status = "ordered" => Awaited(r)
    /\ OneSuggestion(list)

VendorsKnown ==
    /\ known \subseteq Vendors
    /\ linked \in [Products -> SUBSET known]
    /\ preferred \in [Products -> known \cup {None}]
    /\ \A p \in Products : preferred[p] \in linked[p] \cup {None}

(* Nothing is received of an order before it is sent or after it was       *)
(* cancelled, and it is received exactly when nothing is missing.          *)
Complete(row) == \A p \in Products : row.received[p] >= row.quantity[p]

Accounted(row) ==
    /\ \E p \in Products : row.quantity[p] > 0
    /\ row.status \in {"draft", "sent", "cancelled"} =>
         \A p \in Products : row.received[p] = 0
    /\ row.status = "received" <=> Complete(row)

OrdersAccounted ==
    /\ order \in [Orders -> OrderRows \cup {None}]
    /\ \A o \in Drafted : Accounted(order[o])

Received(p) == SumFunction([o \in Drafted |-> order[o].received[p]])

StockExplained ==
    /\ stock \in [Products -> Nat] /\ sold \in [Products -> Nat]
    /\ \A p \in Products : stock[p] = StartStock[p] - sold[p] + Received(p)

Sheets == [vendor : Vendors, quantity : [Products -> Nat]]

ListInv ==
    /\ VendorsKnown /\ InLine(rows) /\ OrdersAccounted /\ StockExplained
    /\ sheet \in Sheets \cup {None}

LEMMA OrdersDrafted ==
    ASSUME OrdersAccounted
    PROVE  \A o \in Drafted : /\ o \in Orders /\ order[o] \in OrderRows
                              /\ Accounted(order[o])
  BY DEF OrdersAccounted, Drafted

LEMMA DraftedFinite == BuyingAssumption => IsFiniteSet(Drafted)
<1>1. Drafted \in SUBSET Orders
  BY DEF Drafted
<1>. QED  BY <1>1, FS_Subset DEF BuyingAssumption

LEMMA ListInitially == BuyingAssumption /\ BuyingInit => ListInv
<1> SUFFICES ASSUME BuyingAssumption, BuyingInit PROVE ListInv
  OBVIOUS
<1>1. Drafted = {}
  BY DEF BuyingInit, Drafted
<1>2. VendorsKnown
  BY DEF BuyingInit, BuyingAssumption, VendorsKnown
<1>3. InLine(rows)
  BY DEF BuyingInit, InLine, OneSuggestion
<1>4. OrdersAccounted
  BY <1>1 DEF BuyingInit, OrdersAccounted
<1>5. StockExplained
  <2>1. stock \in [Products -> Nat] /\ sold \in [Products -> Nat]
    BY DEF BuyingInit, BuyingAssumption
  <2>2. \A p \in Products : stock[p] = StartStock[p] /\ StartStock[p] \in Nat /\ sold[p] = 0
    BY DEF BuyingInit, BuyingAssumption
  <2>3. \A p \in Products : Received(p) = 0
    BY <1>1, SumEmpty DEF Received
  <2>. QED  BY <2>1, <2>2, <2>3 DEF StockExplained
<1>. QED  BY <1>2, <1>3, <1>4, <1>5 DEF ListInv, BuyingInit

(* ------------------------------ Reading the list ------------------------- *)

(* The list is in line after it was brought in line, whatever it was.      *)
LEMMA RefreshedInLine ==
    ASSUME BuyingAssumption, VendorsKnown, NEW list, InLine(list)
    PROVE  InLine(Refreshed(list))
<1> DEFINE kept == {r \in list : r.status = "ordered" \/ Wanted(r.product)}
           suggested == {r.product : r \in {s \in kept : s.status # "ordered"}}
           low == {q \in Products \ suggested : Wanted(q) /\ ~OnOrder(q)}
           new == {[product |-> p, vendor |-> preferred[p], status |-> "open",
                    order |-> None] : p \in low}
<1>1. Refreshed(list) = kept \cup new
  BY DEF Refreshed
<1>2. \A p \in low : p \in Products /\ preferred[p] \in known
  BY DEF VendorsKnown, Wanted
<1>3. \A r \in new : /\ r \in RowsOver(known) /\ r.status = "open" /\ r.product \in low
                     /\ r = [product |-> r.product, vendor |-> preferred[r.product],
                             status |-> "open", order |-> None]
  BY <1>2 DEF RowsOver
<1>4. \A r \in kept : r \in list
  OBVIOUS
<1>5. \A r \in kept : r.status # "ordered" => r.product \notin low
  OBVIOUS
<1> HIDE DEF kept, low, new
<1>6. OneSuggestion(kept \cup new)
  BY <1>3, <1>4, <1>5 DEF InLine, OneSuggestion
<1>. QED  BY <1>1, <1>3, <1>4, <1>6 DEF InLine

LEMMA QuantityIsNat ==
    ASSUME BuyingAssumption, NEW v \in Vendors, NEW p \in Products
    PROVE  ReorderQuantity(v, p) \in Nat
<1>1. CaseSize[v][p] \in Nat /\ MinOrder[v][p] \in Nat /\ DefaultQuantity[v] \in Nat
  BY DEF BuyingAssumption
<1>2. ASSUME NEW a \in Nat, NEW b \in Nat PROVE Max({a, b, 1}) \in Nat
  <2>1. \E x \in {a, b, 1} : \A y \in {a, b, 1} : x >= y
    <3>1. CASE a >= b /\ a >= 1
      BY <3>1
    <3>2. CASE b >= a /\ b >= 1
      BY <3>2
    <3>3. CASE 1 >= a /\ 1 >= b
      BY <3>3
    <3>. QED  BY <3>1, <3>2, <3>3
  <2>. QED  BY <2>1 DEF Max
<1>. QED  BY <1>1, <1>2 DEF ReorderQuantity

LEMMA ListKeeps ==
    ASSUME BuyingAssumption, ListInv, NEW v \in Vendors, ListBuyingList(v)
    PROVE  ListInv'
<1>1. UNCHANGED <<stock, sold, linked, preferred, known, order>>
  BY DEF ListBuyingList, listVars
<1>2. InLine(Refreshed(rows))
  BY RefreshedInLine DEF ListInv
<1>3. InLine(rows)'
  BY <1>1, <1>2 DEF ListBuyingList, InLine, Awaited, Drafted, OneSuggestion
<1>4. sheet' \in Sheets
  <2>1. \A p \in Products : ReorderQuantity(v, p) \in Nat
    BY QuantityIsNat
  <2>. QED  BY <2>1 DEF ListBuyingList, Sheets
<1>. QED
  BY <1>1, <1>3, <1>4 DEF ListInv, VendorsKnown, OrdersAccounted, StockExplained,
     Received, Drafted

(* ------------------------------- Edits of the list ----------------------- *)

LEMMA UpdateLineKeeps ==
    ASSUME BuyingAssumption, ListInv, NEW row \in rows, NEW v \in Vendors,
           NEW status \in {"open", "dismissed"}, UpdateBuyingListLine(row, v, status)
    PROVE  ListInv'
<1> DEFINE changed == [row EXCEPT !.vendor = v, !.status = status]
           list == (rows \ {row}) \cup {changed}
<1>1. UNCHANGED <<stock, sold, linked, preferred, known, order, sheet>>
  BY DEF UpdateBuyingListLine, EditList, listVars
<1>2. row \in RowsOver(known) /\ row.status # "ordered" /\ rows \subseteq RowsOver(known)
  BY DEF ListInv, InLine, UpdateBuyingListLine, Suggestion
<1>3. v \in known
  BY <1>2 DEF UpdateBuyingListLine, ListInv, VendorsKnown, RowsOver
<1>4. /\ changed \in RowsOver(known) /\ changed.status \in {"open", "dismissed"}
      /\ changed.product = row.product
  BY <1>2, <1>3 DEF RowsOver
<1> HIDE DEF changed
<1>5. InLine(list)
  <2>1. OneSuggestion(list)
    BY <1>2, <1>4 DEF ListInv, InLine, OneSuggestion
  <2>. QED  BY <1>2, <1>4, <2>1 DEF ListInv, InLine
<1>6. InLine(Refreshed(list))
  BY <1>5, RefreshedInLine DEF ListInv
<1>7. rows' = Refreshed(list)
  BY DEF UpdateBuyingListLine, changed
<1>8. InLine(rows)'
  BY <1>1, <1>6, <1>7 DEF InLine, Awaited, Drafted, OneSuggestion
<1>. QED
  BY <1>1, <1>8
     DEF ListInv, VendorsKnown, OrdersAccounted, StockExplained, Received, Drafted

LEMMA AddLineKeeps ==
    ASSUME BuyingAssumption, ListInv, NEW p \in Products, NEW v \in Vendors,
           AddBuyingListLine(p, v)
    PROVE  ListInv'
<1> DEFINE row == [product |-> p, vendor |-> v, status |-> "open", order |-> None]
           list == {r \in rows : r.product # p \/ r.status = "ordered"} \cup {row}
<1>1. UNCHANGED <<stock, sold, linked, preferred, known, order, sheet>>
  BY DEF AddBuyingListLine, EditList, listVars
<1>2. v \in known
  BY DEF AddBuyingListLine, ListInv, VendorsKnown
<1>3. row \in RowsOver(known) /\ row.status = "open" /\ row.product = p
  BY <1>2 DEF RowsOver
<1> HIDE DEF row
<1>4. InLine(list)
  <2>1. OneSuggestion(list)
    BY <1>3 DEF ListInv, InLine, OneSuggestion
  <2>. QED  BY <1>3, <2>1 DEF ListInv, InLine
<1>5. InLine(Refreshed(list))
  BY <1>4, RefreshedInLine DEF ListInv
<1>6. rows' = Refreshed(list)
  BY DEF AddBuyingListLine, row
<1>7. InLine(rows)'
  BY <1>1, <1>5, <1>6 DEF InLine, Awaited, Drafted, OneSuggestion
<1>. QED
  BY <1>1, <1>7
     DEF ListInv, VendorsKnown, OrdersAccounted, StockExplained, Received, Drafted

LEMMA SetVendorsKeeps ==
    ASSUME BuyingAssumption, ListInv, NEW p \in Products, NEW links \in SUBSET Vendors,
           NEW chosen \in Vendors \cup {None}, SetProductVendors(p, links, chosen)
    PROVE  ListInv'
<1>1. UNCHANGED <<stock, sold, known, order, sheet>>
  BY DEF SetProductVendors, EditList
<1>2. links \subseteq known /\ chosen \in links \cup {None}
  BY DEF SetProductVendors, Preferable
<1>3. VendorsKnown'
  BY <1>1, <1>2 DEF SetProductVendors, ListInv, VendorsKnown
<1> DEFINE moved(r) == IF r.product = p /\ r.status = "open"
                       THEN [r EXCEPT !.vendor = chosen] ELSE r
<1>4. CASE chosen = None
  <2>1. rows' \subseteq rows
    BY <1>4 DEF SetProductVendors
  <2>. QED
    BY <1>1, <1>3, <2>1 DEF ListInv, InLine, Awaited, OneSuggestion, OrdersAccounted,
       StockExplained, Received, Drafted
<1>5. CASE chosen \in known /\ rows' = {moved(r) : r \in rows}
  <2>1. \A r \in rows : /\ moved(r) \in RowsOver(known)
                        /\ moved(r).product = r.product /\ moved(r).status = r.status
                        /\ moved(r).order = r.order
    <3> SUFFICES ASSUME NEW r \in rows
                 PROVE  /\ moved(r) \in RowsOver(known)
                        /\ moved(r).product = r.product /\ moved(r).status = r.status
                        /\ moved(r).order = r.order
      OBVIOUS
    <3>1. r \in RowsOver(known)
      BY DEF ListInv, InLine
    <3>. QED  BY <1>5, <3>1 DEF RowsOver
  <2> HIDE DEF moved
  <2>2. OneSuggestion(rows)'
    BY <1>5, <2>1 DEF ListInv, InLine, OneSuggestion
  <2>3. \A r \in rows' : r.status = "ordered" => Awaited(r)'
    <3> SUFFICES ASSUME NEW r \in rows, r.status = "ordered" PROVE Awaited(moved(r))'
      BY <1>5, <2>1
    <3>1. Awaited(r)
      BY DEF ListInv, InLine
    <3>. QED  BY <1>1, <2>1, <3>1 DEF Awaited, Drafted
  <2>4. InLine(rows)'
    BY <1>1, <1>5, <2>1, <2>2, <2>3 DEF InLine
  <2>. QED
    BY <1>1, <1>3, <2>4 DEF ListInv, OrdersAccounted, StockExplained, Received, Drafted
<1>. QED  BY <1>2, <1>4, <1>5 DEF SetProductVendors

LEMMA MergeKeeps ==
    ASSUME BuyingAssumption, ListInv, NEW source \in Vendors, NEW target \in Vendors,
           ApplyCatalogVendorMerge(source, target)
    PROVE  ListInv'
<1> DEFINE moved(v) == IF v = source THEN target ELSE v
           shifted(r) == [r EXCEPT !.vendor = moved(@)]
<1>1. UNCHANGED <<stock, sold, sheet>> /\ known' = known \ {source}
      /\ source # target /\ {source, target} \subseteq known
      /\ linked' = [p \in Products |-> {moved(v) : v \in linked[p]}]
      /\ preferred' = [p \in Products |-> moved(preferred[p])]
      /\ rows' = {shifted(r) : r \in rows}
      /\ order' = [o \in Orders |-> IF order[o] = None THEN None ELSE shifted(order[o])]
  BY DEF ApplyCatalogVendorMerge
<1>2. /\ \A v \in known : moved(v) \in known'
      /\ moved(None) = None /\ \A v \in Vendors : moved(v) \in Vendors
  BY <1>1 DEF BuyingAssumption, ListInv, VendorsKnown
<1>3. VendorsKnown'
  <2>1. known' \subseteq Vendors
    BY <1>1 DEF ListInv, VendorsKnown
  <2>2. linked' \in [Products -> SUBSET known']
    <3> SUFFICES ASSUME NEW p \in Products
                 PROVE  {moved(v) : v \in linked[p]} \subseteq known'
      BY <1>1
    <3>. QED  BY <1>2 DEF ListInv, VendorsKnown
  <2>3. \A p \in Products : /\ preferred'[p] \in linked'[p] \cup {None}
                            /\ preferred'[p] \in known' \cup {None}
    <3> SUFFICES ASSUME NEW p \in Products
                 PROVE  /\ preferred'[p] \in linked'[p] \cup {None}
                        /\ preferred'[p] \in known' \cup {None}
      OBVIOUS
    <3>1. preferred[p] \in linked[p] \cup {None} /\ preferred'[p] = moved(preferred[p])
          /\ linked'[p] = {moved(v) : v \in linked[p]} /\ preferred[p] \in known \cup {None}
      BY <1>1 DEF ListInv, VendorsKnown
    <3> HIDE DEF moved
    <3>. QED  BY <1>2, <3>1
  <2>4. preferred' \in [Products -> known' \cup {None}]
    BY <1>1, <2>3
  <2>. QED  BY <2>1, <2>2, <2>3, <2>4 DEF VendorsKnown
<1>4. \A o \in Orders : order[o] \in OrderRows =>
        /\ shifted(order[o]) \in OrderRows
        /\ shifted(order[o]).status = order[o].status
        /\ shifted(order[o]).quantity = order[o].quantity
        /\ shifted(order[o]).received = order[o].received
  <2> HIDE DEF moved
  <2>. QED  BY <1>2 DEF OrderRows
<1>5. \A r \in rows : /\ shifted(r) \in RowsOver(known')
                      /\ shifted(r).product = r.product /\ shifted(r).status = r.status
                      /\ shifted(r).order = r.order
  <2> SUFFICES ASSUME NEW r \in rows
               PROVE  /\ shifted(r) \in RowsOver(known')
                      /\ shifted(r).product = r.product /\ shifted(r).status = r.status
                      /\ shifted(r).order = r.order
    OBVIOUS
  <2>1. r \in RowsOver(known)
    BY DEF ListInv, InLine
  <2> HIDE DEF moved
  <2>. QED  BY <1>2, <2>1 DEF RowsOver
<1> HIDE DEF shifted, moved
<1>6. /\ Drafted' = Drafted
      /\ \A o \in Drafted : /\ order'[o] \in OrderRows /\ o \in Orders
                            /\ order'[o].status = order[o].status
                            /\ order'[o].quantity = order[o].quantity
                            /\ order'[o].received = order[o].received
  <2>1. \A o \in Drafted : o \in Orders /\ order[o] # None /\ order[o] \in OrderRows
    BY OrdersDrafted DEF ListInv, Drafted
  <2>2. \A o \in Drafted : order'[o] = shifted(order[o])
    BY <1>1, <2>1
  <2>3. \A o \in Drafted : order'[o] \in OrderRows /\ order'[o] # None
    BY <1>4, <2>1, <2>2 DEF BuyingAssumption
  <2>4. \A o \in Orders \ Drafted : order'[o] = None
    BY <1>1 DEF Drafted
  <2>5. Drafted' = Drafted
    BY <2>1, <2>3, <2>4 DEF Drafted
  <2>. QED  BY <1>4, <2>1, <2>2, <2>5
<1>7. OrdersAccounted'
  <2>1. order' \in [Orders -> OrderRows \cup {None}]
    BY <1>1, <1>6 DEF Drafted
  <2>2. \A o \in Drafted : Accounted(order[o]) => Accounted(order'[o])
    BY <1>6 DEF Accounted, Complete
  <2>3. \A o \in Drafted : Accounted(order'[o])
    BY <2>2 DEF ListInv, OrdersAccounted
  <2>. QED  BY <1>6, <2>1, <2>3 DEF OrdersAccounted
<1>8. StockExplained'
  <2>1. \A p \in Products : Received(p)' = Received(p)
    BY <1>6 DEF Received
  <2>. QED  BY <1>1, <2>1 DEF ListInv, StockExplained
<1>9. InLine(rows)'
  <2>1. OneSuggestion(rows)'
    BY <1>1, <1>5 DEF ListInv, InLine, OneSuggestion
  <2>2. \A r \in rows : r.status = "ordered" => Awaited(shifted(r))'
    BY <1>5, <1>6 DEF ListInv, InLine, Awaited
  <2>3. \A r \in rows' : r.status = "ordered" => Awaited(r)'
    BY <1>1, <1>5, <2>2
  <2>. QED  BY <1>1, <1>5, <2>1, <2>3 DEF InLine
<1>. QED  BY <1>1, <1>3, <1>7, <1>8, <1>9 DEF ListInv

(* ---------------------------- Purchase orders ---------------------------- *)

(* One order goes on, and the stock takes what was received of it.         *)
LEMMA OrderGoesOn ==
    ASSUME BuyingAssumption, ListInv, NEW o \in Drafted, NEW row \in OrderRows,
           Accounted(row), row.quantity = order[o].quantity,
           order' = [order EXCEPT ![o] = row],
           stock' \in [Products -> Nat],
           \A p \in Products :
             stock'[p] = stock[p] + row.received[p] - order[o].received[p],
           UNCHANGED <<sold, linked, preferred, known, sheet>>,
           rows' \subseteq rows,
           \A r \in rows' : r.status = "ordered" /\ r.order = o => row.status \in Live
    PROVE  /\ ListInv' /\ Drafted' = Drafted /\ order'[o] = row
           /\ \A d \in Drafted \ {o} : order'[d] = order[d]
<1>1. /\ o \in Orders /\ order[o] \in OrderRows
      /\ order \in [Orders -> OrderRows \cup {None}]
      /\ row # None
  BY OrdersDrafted DEF ListInv, OrdersAccounted, BuyingAssumption
<1>2. /\ order' \in [Orders -> OrderRows \cup {None}] /\ order'[o] = row
      /\ \A d \in Orders \ {o} : order'[d] = order[d]
  BY <1>1
<1>3. Drafted' = Drafted /\ Drafted \subseteq Orders
  BY <1>1, <1>2 DEF Drafted
<1>4. OrdersAccounted'
  <2>1. \A d \in Drafted : Accounted(order'[d])
    BY <1>2, <1>3 DEF ListInv, OrdersAccounted
  <2>. QED  BY <1>2, <1>3, <2>1 DEF OrdersAccounted
<1>5. StockExplained'
  <2> SUFFICES ASSUME NEW p \in Products
               PROVE  stock'[p] = StartStock[p] - sold[p] + Received(p)'
    BY DEF ListInv, StockExplained
  <2> DEFINE f == [d \in Drafted |-> order[d].received[p]]
             g == [d \in Drafted |-> order'[d].received[p]]
  <2>1. \A d \in Drafted : order[d].received[p] \in Int /\ order'[d].received[p] \in Int
    <3> SUFFICES ASSUME NEW d \in Drafted
                 PROVE  order[d].received[p] \in Int /\ order'[d].received[p] \in Int
      OBVIOUS
    <3>1. order[d] \in OrderRows /\ order'[d] \in OrderRows
      BY <1>2, <1>3, OrdersDrafted DEF ListInv
    <3>. QED  BY <3>1 DEF OrderRows
  <2>2. f \in [Drafted -> Int] /\ g \in [Drafted -> Int] /\ IsFiniteSet(Drafted)
    BY <2>1, DraftedFinite
  <2>3. \A d \in Drafted \ {o} : g[d] = f[d]
    BY <1>2, <1>3
  <2>4. SumFunction(g) = SumFunction(f) - f[o] + g[o]
    BY <2>2, <2>3, SumChanged
  <2>5. f[o] = order[o].received[p] /\ g[o] = row.received[p]
    BY <1>2
  <2>6. SumFunction(f) \in Int /\ f[o] \in Int /\ g[o] \in Int
    BY <2>2, SumInt
  <2>7. Received(p) = SumFunction(f) /\ Received(p)' = SumFunction(g)
    BY <1>3 DEF Received
  <2> HIDE DEF f, g
  <2>8. stock[p] \in Nat /\ sold[p] \in Nat /\ StartStock[p] \in Nat
    BY DEF ListInv, StockExplained, BuyingAssumption
  <2>9. stock[p] = StartStock[p] - sold[p] + SumFunction(f)
    BY <2>7 DEF ListInv, StockExplained
  <2>10. stock'[p] = stock[p] + g[o] - f[o]
    BY <2>5
  <2>. QED  BY <2>4, <2>6, <2>7, <2>8, <2>9, <2>10
<1>6. InLine(rows)'
  <2>1. \A r \in rows' : r.status = "ordered" => Awaited(r)'
    <3> SUFFICES ASSUME NEW r \in rows', r.status = "ordered" PROVE Awaited(r)'
      OBVIOUS
    <3>1. Awaited(r)
      BY DEF ListInv, InLine
    <3>2. CASE r.order = o
      BY <1>2, <1>3, <3>1, <3>2 DEF Awaited
    <3>3. CASE r.order # o
      BY <1>2, <1>3, <3>1, <3>3 DEF Awaited
    <3>. QED  BY <3>2, <3>3
  <2>. QED  BY <2>1 DEF ListInv, InLine, OneSuggestion
<1>7. VendorsKnown' /\ sheet' \in Sheets \cup {None}
  BY DEF ListInv, VendorsKnown
<1>. QED  BY <1>2, <1>3, <1>4, <1>5, <1>6, <1>7 DEF ListInv

(* The same when the stock stays.                                          *)
LEMMA OrderGoesOnUnmoved ==
    ASSUME BuyingAssumption, ListInv, NEW o \in Drafted, NEW row \in OrderRows,
           Accounted(row), row.quantity = order[o].quantity,
           row.received = order[o].received,
           order' = [order EXCEPT ![o] = row],
           UNCHANGED <<stock, sold, listVars, sheet>>,
           rows' \subseteq rows,
           \A r \in rows' : r.status = "ordered" /\ r.order = o => row.status \in Live
    PROVE  /\ ListInv' /\ Drafted' = Drafted /\ order'[o] = row
           /\ \A d \in Drafted \ {o} : order'[d] = order[d]
<1>1. stock \in [Products -> Nat] /\ order[o] \in OrderRows
  BY OrdersDrafted DEF ListInv, StockExplained
<1>2. \A p \in Products : order[o].received[p] \in Nat /\ stock[p] \in Nat
  BY <1>1 DEF OrderRows
<1>3. \A p \in Products : stock'[p] = stock[p] + row.received[p] - order[o].received[p]
  BY <1>2
<1>4. UNCHANGED <<sold, linked, preferred, known, sheet>> /\ stock' \in [Products -> Nat]
  BY <1>1 DEF listVars
<1>. QED  BY <1>3, <1>4, OrderGoesOn

(* What an order keeps when it goes on.                                    *)
Continues(o) == /\ o \in Drafted' /\ order'[o].via = order[o].via
                /\ order[o].status # "draft" => order'[o].status # "draft"

LEMMA MarkSentKeeps ==
    ASSUME BuyingAssumption, ListInv, NEW o \in Orders, NEW via \in {"email", "manual"},
           MarkSent(o, via), UNCHANGED <<stock, sold, listVars, rows, sheet, listEdits>>
    PROVE  /\ ListInv' /\ o \in Drafted /\ o \in Drafted' /\ order'[o].via = via
           /\ order[o].status = "draft" /\ order'[o].status = "sent"
           /\ \A d \in Drafted \ {o} : Continues(d)
<1> DEFINE row == [order[o] EXCEPT !.status = "sent", !.via = via]
<1>1. /\ o \in Drafted /\ order[o].status = "draft" /\ order[o] \in OrderRows
      /\ Accounted(order[o])
  BY OrdersDrafted DEF ListInv, MarkSent, Unsent
<1>2. order' = [order EXCEPT ![o] = row]
  BY <1>1 DEF MarkSent, ListInv, OrdersAccounted
<1>3. /\ row \in OrderRows /\ row.quantity = order[o].quantity
      /\ row.received = order[o].received /\ row.status = "sent" /\ row.via = via
  BY <1>1 DEF OrderRows, Live
<1> HIDE DEF row
<1>4. Accounted(row)
  BY <1>1, <1>3 DEF Accounted, Complete
<1>5. /\ row.status \in Live /\ rows' \subseteq rows
      /\ UNCHANGED <<stock, sold, listVars, sheet>>
  BY <1>3 DEF Live
<1>6. /\ ListInv' /\ Drafted' = Drafted /\ order'[o] = row
      /\ \A d \in Drafted \ {o} : order'[d] = order[d]
  BY <1>1, <1>2, <1>3, <1>4, <1>5, OrderGoesOnUnmoved
<1>. QED  BY <1>1, <1>3, <1>6 DEF Continues

LEMMA MarkPublishedKeeps ==
    ASSUME BuyingAssumption, ListInv, NEW o \in Drafted, MarkPublished(o),
           UNCHANGED <<stock, sold, listVars, rows, sheet, listEdits>>
    PROVE  ListInv' /\ \A d \in Drafted : Continues(d)
<1> DEFINE row == [order[o] EXCEPT !.published = TRUE]
<1>1. order[o] \in OrderRows /\ Accounted(order[o]) /\ o \in Orders
  BY OrdersDrafted DEF ListInv
<1>2. order' = [order EXCEPT ![o] = row]
  BY <1>1 DEF MarkPublished, ListInv, OrdersAccounted
<1>3. /\ row \in OrderRows /\ row.quantity = order[o].quantity
      /\ row.received = order[o].received /\ row.status = order[o].status
      /\ row.via = order[o].via
  BY <1>1 DEF OrderRows
<1> HIDE DEF row
<1>4. Accounted(row)
  BY <1>1, <1>3 DEF Accounted, Complete
<1>5. \A r \in rows' : r.status = "ordered" /\ r.order = o => row.status \in Live
  BY <1>3 DEF ListInv, InLine, Awaited
<1>6. /\ ListInv' /\ Drafted' = Drafted /\ order'[o] = row
      /\ \A d \in Drafted \ {o} : order'[d] = order[d]
  BY <1>2, <1>3, <1>4, <1>5, OrderGoesOnUnmoved
<1>. QED  BY <1>3, <1>6 DEF Continues

LEMMA CancelKeeps ==
    ASSUME BuyingAssumption, ListInv, NEW o \in Orders, Cancel(o),
           UNCHANGED <<stock, sold, listVars, sheet, listEdits>>
    PROVE  ListInv' /\ \A d \in Drafted : Continues(d)
<1> DEFINE row == [order[o] EXCEPT !.status = "cancelled"]
<1>1. /\ o \in Drafted /\ order[o] \in OrderRows /\ Accounted(order[o])
      /\ order[o].status \in Live /\ \A p \in Products : order[o].received[p] = 0
  BY OrdersDrafted DEF ListInv, Cancel
<1>2. order' = [order EXCEPT ![o] = row]
  BY <1>1 DEF Cancel, ListInv, OrdersAccounted
<1>3. /\ row \in OrderRows /\ row.quantity = order[o].quantity
      /\ row.received = order[o].received /\ row.status = "cancelled"
      /\ row.via = order[o].via
  BY <1>1 DEF OrderRows
<1> HIDE DEF row
<1>4. Accounted(row)
  BY <1>1, <1>3 DEF Accounted, Complete, Live
<1>5. rows' \subseteq rows /\ \A r \in rows' : r.order # o
  BY DEF Cancel, RowsReleased
<1>6. UNCHANGED <<stock, sold, listVars, sheet>>
  OBVIOUS
<1>7. /\ ListInv' /\ Drafted' = Drafted /\ order'[o] = row
      /\ \A d \in Drafted \ {o} : order'[d] = order[d]
  BY <1>1, <1>2, <1>3, <1>4, <1>5, <1>6, OrderGoesOnUnmoved
<1>. QED  BY <1>1, <1>3, <1>7 DEF Continues

LEMMA ReceiveKeeps ==
    ASSUME BuyingAssumption, ListInv, NEW o \in Orders,
           NEW delivery \in [Products -> Nat], ReceivePurchaseOrder(o, delivery)
    PROVE  ListInv' /\ \A d \in Drafted : Continues(d)
<1> DEFINE received == [p \in Products |-> order[o].received[p] + delivery[p]]
           complete == \A p \in Products : received[p] >= order[o].quantity[p]
           status == IF complete THEN "received" ELSE "partially_received"
           row == [order[o] EXCEPT !.received = received, !.status = status]
<1>1. /\ o \in Drafted /\ order[o] \in OrderRows /\ Accounted(order[o])
      /\ order[o].status \in {"sent", "partially_received"}
      /\ order' = [order EXCEPT ![o].received = received, ![o].status = status]
      /\ stock' = [p \in Products |-> stock[p] + delivery[p]]
      /\ rows' = IF complete THEN RowsReleased(o) ELSE rows
      /\ UNCHANGED <<sold, linked, preferred, known, sheet>>
  BY OrdersDrafted DEF ListInv, ReceivePurchaseOrder, listVars
<1>2. order' = [order EXCEPT ![o] = row]
  BY <1>1 DEF ListInv, OrdersAccounted
<1>3. received \in [Products -> Nat]
  BY <1>1 DEF OrderRows
<1>4. /\ row \in OrderRows /\ row.quantity = order[o].quantity
      /\ row.received = received /\ row.status = status /\ row.via = order[o].via
  BY <1>1, <1>3 DEF OrderRows, Live
<1>5. \A p \in Products : /\ stock[p] \in Nat /\ delivery[p] \in Nat
                          /\ order[o].received[p] \in Nat
  BY <1>1 DEF ListInv, StockExplained, OrderRows
<1>6. /\ stock' \in [Products -> Nat]
      /\ \A p \in Products : stock'[p] = stock[p] + row.received[p] - order[o].received[p]
  <2>1. \A p \in Products : row.received[p] = order[o].received[p] + delivery[p]
    BY <1>4
  <2> HIDE DEF row
  <2>. QED  BY <1>1, <1>5, <2>1
<1> HIDE DEF row
<1>7. Accounted(row)
  <2>1. Complete(row) <=> complete
    BY <1>4 DEF Complete
  <2>. QED  BY <1>1, <1>4, <2>1 DEF Accounted
<1>8. rows' \subseteq rows /\ \A r \in rows' : r.order = o => row.status \in Live
  BY <1>1, <1>4 DEF RowsReleased, Live
<1>9. /\ ListInv' /\ Drafted' = Drafted /\ order'[o] = row
      /\ \A d \in Drafted \ {o} : order'[d] = order[d]
  BY <1>1, <1>2, <1>4, <1>6, <1>7, <1>8, OrderGoesOn
<1>10. row.status # "draft" /\ row.via = order[o].via
  BY <1>4
<1> HIDE DEF status
<1>. QED  BY <1>1, <1>9, <1>10 DEF Continues

LEMMA SellUnitKeeps ==
    ASSUME ListInv, BuyingAssumption, NEW p \in Products, SellUnit(p)
    PROVE  ListInv'
<1>1. UNCHANGED <<linked, preferred, known, rows, sheet, order>>
  BY DEF SellUnit, listVars
<1>2. \A q \in Products : Received(q) \in Int /\ Received(q)' = Received(q)
  <2>1. \A d \in Drafted, q \in Products : order[d].received[q] \in Int
    BY OrdersDrafted DEF ListInv, OrderRows
  <2>2. \A q \in Products : [d \in Drafted |-> order[d].received[q]] \in [Drafted -> Int]
    BY <2>1
  <2>. QED  BY <1>1, <2>2, DraftedFinite, SumInt DEF Received, Drafted
<1>3. StockExplained'
  BY <1>2 DEF ListInv, StockExplained, SellUnit, BuyingAssumption
<1>. QED
  BY <1>1, <1>3 DEF ListInv, VendorsKnown, InLine, Awaited, OneSuggestion,
     OrdersAccounted, Drafted

LEMMA CreateKeeps ==
    ASSUME BuyingAssumption, ListInv, NEW o \in Orders, CreatePurchaseOrder(o)
    PROVE  ListInv' /\ \A d \in Drafted : Continues(d)
<1> DEFINE row == Draft(sheet.vendor, sheet.quantity)
           taken(r) == r \in Suggestion /\ sheet.quantity[r.product] > 0
           moved(r) == IF taken(r) THEN [r EXCEPT !.status = "ordered", !.order = o] ELSE r
<1>1. /\ sheet \in Sheets /\ \E p \in Products : sheet.quantity[p] > 0
      /\ order[o] = None /\ order' = [order EXCEPT ![o] = row]
      /\ rows' = {moved(r) : r \in rows} /\ sheet' = None
      /\ UNCHANGED <<stock, sold, linked, preferred, known>>
  BY DEF CreatePurchaseOrder, Orderable, ListInv, listVars
<1>2. /\ row \in OrderRows /\ row.status = "draft" /\ row.quantity = sheet.quantity
      /\ row.received = [p \in Products |-> 0]
  <2>1. (sheet.vendor \in HasEmail) \in BOOLEAN
    OBVIOUS
  <2>2. sheet.vendor \in Vendors /\ sheet.quantity \in [Products -> Nat]
    BY <1>1 DEF Sheets
  <2>. QED  BY <2>1, <2>2 DEF Draft, OrderRows, Live
<1>3. Accounted(row)
  <2>1. sheet.quantity \in [Products -> Nat]
    BY <1>1 DEF Sheets
  <2> HIDE DEF row
  <2>2. /\ \A p \in Products : row.received[p] = 0
        /\ \E p \in Products : row.quantity[p] > 0
    BY <1>1, <1>2
  <2>3. ~Complete(row)
    BY <1>2, <2>1, <2>2 DEF Complete
  <2>. QED  BY <1>2, <2>2, <2>3 DEF Accounted
<1> HIDE DEF row
<1>4. /\ order \in [Orders -> OrderRows \cup {None}] /\ o \notin Drafted /\ row # None
      /\ order' \in [Orders -> OrderRows \cup {None}] /\ order'[o] = row
      /\ \A d \in Orders \ {o} : order'[d] = order[d]
  BY <1>1, <1>2 DEF ListInv, OrdersAccounted, BuyingAssumption, Drafted
<1>5. Drafted' = Drafted \cup {o} /\ Drafted \subseteq Orders
  BY <1>4 DEF Drafted
<1>6. OrdersAccounted'
  BY <1>3, <1>4, <1>5 DEF ListInv, OrdersAccounted
<1>7. StockExplained'
  <2> SUFFICES ASSUME NEW p \in Products PROVE Received(p)' = Received(p)
    BY <1>1 DEF ListInv, StockExplained
  <2> DEFINE f == [d \in Drafted |-> order[d].received[p]]
             g == [d \in Drafted \cup {o} |-> order'[d].received[p]]
  <2>1. \A d \in Drafted : order[d].received[p] \in Int
    BY OrdersDrafted DEF ListInv, OrderRows
  <2>2. \A d \in Drafted : order'[d] = order[d]
    BY <1>4, <1>5
  <2>3. g[o] = 0
    BY <1>2, <1>4
  <2>4. f \in [Drafted -> Int] /\ g \in [Drafted \cup {o} -> Int] /\ IsFiniteSet(Drafted)
    BY <2>1, <2>2, <2>3, DraftedFinite
  <2>5. \A d \in Drafted : g[d] = f[d]
    BY <2>2
  <2>6. Received(p) = SumFunction(f) /\ Received(p)' = SumFunction(g)
    BY <1>5 DEF Received
  <2> HIDE DEF f, g
  <2>7. SumFunction(g) = SumFunction(f) + g[o]
    <3>1. o \notin Drafted
      BY <1>4
    <3>. QED  BY <2>4, <2>5, <3>1, SumExtended
  <2>8. SumFunction(f) \in Int
    BY <2>4, SumInt
  <2>. QED  BY <2>3, <2>6, <2>7, <2>8
<1>8. \A r \in rows : /\ moved(r) \in RowsOver(known) /\ moved(r).product = r.product
                      /\ moved(r).status = IF taken(r) THEN "ordered" ELSE r.status
                      /\ moved(r).order = IF taken(r) THEN o ELSE r.order
                      /\ moved(r).status # "ordered" => moved(r) = r
  <2> SUFFICES ASSUME NEW r \in rows
               PROVE  /\ moved(r) \in RowsOver(known) /\ moved(r).product = r.product
                      /\ moved(r).status = IF taken(r) THEN "ordered" ELSE r.status
                      /\ moved(r).order = IF taken(r) THEN o ELSE r.order
                      /\ moved(r).status # "ordered" => moved(r) = r
    OBVIOUS
  <2>1. r \in RowsOver(known)
    BY DEF ListInv, InLine
  <2> HIDE DEF taken
  <2>. QED  BY <2>1 DEF RowsOver
<1> HIDE DEF moved
<1>9. InLine(rows)'
  <2>1. OneSuggestion(rows)'
    BY <1>1, <1>8 DEF ListInv, InLine, OneSuggestion
  <2>2. ASSUME NEW r \in rows, moved(r).status = "ordered"
        PROVE  /\ moved(r).order \in Drafted'
               /\ order'[moved(r).order].status \in Live
               /\ order'[moved(r).order].quantity[r.product] > 0
    <3>1. CASE taken(r)
      BY <1>2, <1>4, <1>5, <1>8, <3>1 DEF Live
    <3>2. CASE ~taken(r)
      <4>1. r.status = "ordered" /\ Awaited(r) /\ moved(r).order = r.order
        BY <1>8, <2>2, <3>2 DEF ListInv, InLine
      <4>. QED  BY <1>4, <1>5, <4>1 DEF Awaited
    <3>. QED  BY <3>1, <3>2
  <2>3. \A r \in rows' : r.status = "ordered" =>
          /\ r.order \in Drafted' /\ order'[r.order].status \in Live
          /\ order'[r.order].quantity[r.product] > 0
    BY <1>1, <1>8, <2>2
  <2>. QED  BY <1>1, <1>8, <2>1, <2>3 DEF InLine, Awaited
<1>10. VendorsKnown' /\ sheet' \in Sheets \cup {None}
  BY <1>1 DEF ListInv, VendorsKnown
<1>11. ListInv'
  BY <1>6, <1>7, <1>9, <1>10 DEF ListInv
<1>. QED  BY <1>4, <1>5, <1>11 DEF Continues

LEMMA MergeContinues ==
    ASSUME BuyingAssumption, ListInv, NEW source \in Vendors, NEW target \in Vendors,
           ApplyCatalogVendorMerge(source, target)
    PROVE  \A d \in Drafted : Continues(d)
<1> DEFINE shifted(r) == [r EXCEPT !.vendor = IF @ = source THEN target ELSE @]
<1> SUFFICES ASSUME NEW d \in Drafted PROVE Continues(d)
  OBVIOUS
<1>1. order[d] \in OrderRows /\ d \in Orders /\ order[d] # None /\ None \notin OrderRows
  BY OrdersDrafted DEF ListInv, Drafted, BuyingAssumption
<1>2. order'[d] = shifted(order[d])
  BY <1>1 DEF ApplyCatalogVendorMerge
<1>3. /\ shifted(order[d]) \in OrderRows /\ shifted(order[d]).via = order[d].via
      /\ shifted(order[d]).status = order[d].status
  BY <1>1 DEF ApplyCatalogVendorMerge, OrderRows
<1>. QED  BY <1>1, <1>2, <1>3 DEF Continues, Drafted

LEMMA BuyingKeeps ==
    ASSUME BuyingAssumption, ListInv, BuyingNext
    PROVE  ListInv' /\ \A d \in Drafted : Continues(d)
<1>1. order' = order => \A d \in Drafted : Continues(d)
  BY DEF Continues, Drafted
<1>2. CASE \E v \in Vendors : ListBuyingList(v)
  BY <1>1, <1>2, ListKeeps DEF ListBuyingList
<1>3. CASE \E row \in rows, v \in Vendors, status \in {"open", "dismissed"} :
             UpdateBuyingListLine(row, v, status)
  BY <1>1, <1>3, UpdateLineKeeps DEF UpdateBuyingListLine, EditList
<1>4. CASE \E p \in Products, v \in Vendors : AddBuyingListLine(p, v)
  BY <1>1, <1>4, AddLineKeeps DEF AddBuyingListLine, EditList
<1>5. CASE \E p \in Products, links \in SUBSET Vendors, v \in Vendors \cup {None} :
             SetProductVendors(p, links, v)
  BY <1>1, <1>5, SetVendorsKeeps DEF SetProductVendors, EditList
<1>6. CASE \E source, target \in Vendors : ApplyCatalogVendorMerge(source, target)
  BY <1>6, MergeKeeps, MergeContinues
<1>7. CASE \E o \in Orders : CreatePurchaseOrder(o)
  BY <1>7, CreateKeeps
<1>8. CASE \E o \in Orders, d \in Deliveries : ReceivePurchaseOrder(o, d)
  <2>1. \A d \in Deliveries : d \in [Products -> Nat]
    BY DEF Deliveries
  <2>. QED  BY <1>8, <2>1, ReceiveKeeps
<1>9. CASE \E p \in Products : SellUnit(p)
  BY <1>1, <1>9, SellUnitKeeps DEF SellUnit
<1>. QED
  BY <1>2, <1>3, <1>4, <1>5, <1>6, <1>7, <1>8, <1>9 DEF BuyingNext

(* -------------------------------- The mails ------------------------------ *)

MailRows == [order : Orders, status : {"pending", "sent", "failed"}, attempts : Nat]

Tasks == [mail : Nat, attempts : Nat]

Sendable(o) == o \in Drafted /\ order[o].via = "email" /\ order[o].status # "draft"

MailsKept ==
    /\ mail \in Seq(MailRows) /\ delivered \in Seq(Nat)
    /\ Len(delivered) = Len(mail)

(* An order has one mail at most, and has been sent by mail then.          *)
OwnMail ==
    \A m \in Mails :
        /\ Sendable(mail[m].order) /\ mail[m].order # unqueued
        /\ \A n \in Mails : mail[n].order = mail[m].order => n = m

ToBeQueued == unqueued \in Orders \cup {None} /\ (unqueued # None => Sendable(unqueued))

(* A mail arrived at most once for each reason there is for it.            *)
ArrivedOnce ==
    /\ lost \in Nat /\ crashes \in Nat
    /\ \A m \in Mails :
         /\ delivered[m] <= (IF mail[m].status = "sent" THEN 1 ELSE 0) + lost + crashes
         /\ mail[m].status = "sent" => delivered[m] > 0

(* The drain works on mails that are not sent, and on each of them once.   *)
Draining ==
    /\ worker \in {"idle", "next", "publishing", "sending"}
    /\ todo \in Seq(Tasks)
    /\ worker = "idle" <=> todo = <<>>
    /\ \A i \in 1..Len(todo) :
         /\ todo[i].mail \in Mails /\ mail[todo[i].mail].status # "sent"
         /\ \A j \in 1..Len(todo) : todo[j].mail = todo[i].mail => j = i

MailInv == MailsKept /\ OwnMail /\ ToBeQueued /\ ArrivedOnce /\ Draining

LEMMA MailsAre ==
    ASSUME MailsKept
    PROVE  /\ Len(mail) \in Nat /\ Mails = 1..Len(mail)
           /\ \A m \in Mails : mail[m] \in MailRows /\ delivered[m] \in Nat
           /\ mail = [m \in Mails |-> mail[m]]
           /\ delivered = [m \in Mails |-> delivered[m]]
<1>1. Len(mail) \in Nat /\ Mails = 1..Len(mail)
  BY DEF MailsKept, Mails
<1>2. \A m \in Mails : mail[m] \in MailRows /\ delivered[m] \in Nat
  BY <1>1 DEF MailsKept
<1>3. mail = [m \in Mails |-> mail[m]] /\ delivered = [m \in Mails |-> delivered[m]]
  BY <1>1 DEF MailsKept
<1>. QED  BY <1>1, <1>2, <1>3

LEMMA MailInitially == Init => MailInv
<1> SUFFICES ASSUME Init PROVE MailInv
  OBVIOUS
<1>1. mail = <<>> /\ delivered = <<>> /\ todo = <<>> /\ unqueued = None /\ worker = "idle"
      /\ lost = 0 /\ crashes = 0
  BY DEF Init
<1>2. MailsKept /\ Mails = {}
  BY <1>1 DEF MailsKept, Mails
<1>3. OwnMail /\ ToBeQueued /\ ArrivedOnce
  BY <1>1, <1>2 DEF OwnMail, ToBeQueued, ArrivedOnce
<1>4. Draining
  BY <1>1 DEF Draining
<1>. QED  BY <1>2, <1>3, <1>4 DEF MailInv

(* Mails stay those of their orders whatever becomes of both.              *)
LEMMA MailsGoOn ==
    ASSUME BuyingAssumption, MailInv, \A d \in Drafted : Sendable(d) => Continues(d),
           NEW row, \A m \in Mails : row[m] \in MailRows /\ row[m].order = mail[m].order,
           mail' = [m \in Mails |-> row[m]], unqueued' \in {unqueued, None}
    PROVE  /\ mail' \in Seq(MailRows) /\ Len(mail') = Len(mail) /\ Mails' = Mails
           /\ \A m \in Mails : mail'[m] = row[m]
           /\ OwnMail' /\ ToBeQueued'
<1>1. Len(mail) \in Nat /\ Mails = 1..Len(mail)
  BY MailsAre DEF MailInv
<1>2. mail' \in [1..Len(mail) -> MailRows]
  BY <1>1
<1>3. mail' \in Seq(MailRows) /\ Len(mail') = Len(mail)
  BY <1>1, <1>2, IsASeq
<1>4. Mails' = Mails
  BY <1>1 DEF Mails
<1>5. \A m \in Mails : mail'[m] = row[m]
  OBVIOUS
<1>6. \A d \in Drafted : Sendable(d) => Sendable(d)'
  BY DEF Sendable, Continues
<1>7. \A m \in Mails : /\ Sendable(mail[m].order)' /\ mail[m].order # unqueued'
                       /\ mail[m].order \in Drafted
  <2> SUFFICES ASSUME NEW m \in Mails
               PROVE  /\ Sendable(mail[m].order)' /\ mail[m].order # unqueued'
                      /\ mail[m].order \in Drafted
    OBVIOUS
  <2>1. Sendable(mail[m].order) /\ mail[m].order # unqueued
    BY DEF MailInv, OwnMail
  <2>2. mail[m].order \in Drafted /\ mail[m].order # None
    BY <2>1 DEF Sendable, Drafted, BuyingAssumption
  <2>. QED  BY <1>6, <2>1, <2>2
<1>8. OwnMail'
  <2>1. \A m \in Mails : mail'[m].order = mail[m].order
    BY <1>5
  <2>2. \A m, n \in Mails : mail[n].order = mail[m].order => n = m
    BY DEF MailInv, OwnMail
  <2>. QED  BY <1>4, <1>7, <2>1, <2>2 DEF OwnMail
<1>9. ToBeQueued'
  BY <1>6 DEF ToBeQueued, MailInv, Sendable
<1>. QED  BY <1>3, <1>4, <1>5, <1>8, <1>9

LEMMA SameMail ==
    ASSUME BuyingAssumption, MailInv, \A d \in Drafted : Sendable(d) => Continues(d),
           UNCHANGED <<mail, unqueued>>
    PROVE  OwnMail' /\ ToBeQueued' /\ Mails' = Mails
<1>1. \A m \in Mails : mail[m] \in MailRows /\ mail[m].order = mail[m].order
  BY MailsAre DEF MailInv
<1>2. mail' = [m \in Mails |-> mail[m]]
  BY MailsAre DEF MailInv
<1>. QED  BY <1>1, <1>2, MailsGoOn

LEMMA DrainStays ==
    ASSUME MailInv, UNCHANGED workerVars, Mails \subseteq Mails',
           \A m \in Mails : mail'[m].status = "sent" => mail[m].status = "sent"
    PROVE  Draining'
<1>1. worker' = worker /\ todo' = todo
  BY DEF workerVars
<1>2. \A i \in 1..Len(todo) : /\ todo[i].mail \in Mails'
                              /\ mail'[todo[i].mail].status # "sent"
  BY DEF MailInv, Draining
<1>. QED  BY <1>1, <1>2 DEF MailInv, Draining

(* The mails stay as they are whatever becomes of orders and the account.   *)
LEMMA MailStays ==
    ASSUME BuyingAssumption, MailInv, \A d \in Drafted : Sendable(d) => Continues(d),
           UNCHANGED <<queueVars, workerVars, unqueued, crashes>>
    PROVE  MailInv'
<1>1. UNCHANGED <<mail, delivered, lost, unqueued, crashes>> /\ UNCHANGED workerVars
  BY DEF queueVars
<1>2. OwnMail' /\ ToBeQueued' /\ Mails' = Mails
  BY <1>1, SameMail
<1>3. Draining'
  BY <1>1, <1>2, DrainStays
<1>4. MailsKept' /\ ArrivedOnce'
  BY <1>1, <1>2 DEF MailInv, MailsKept, ArrivedOnce
<1>. QED  BY <1>2, <1>3, <1>4 DEF MailInv

LEMMA SameOrders == order' = order => \A d \in Drafted : Continues(d)
  BY DEF Continues, Drafted

(* ------------------------- Sending and cancelling ------------------------ *)

LEMMA SendByMailKeeps ==
    ASSUME BuyingAssumption, ListInv, MailInv, NEW o \in Orders, SendByMail(o)
    PROVE  ListInv' /\ MailInv'
<1>1. /\ MarkSent(o, "email") /\ unqueued = None /\ unqueued' = o
      /\ UNCHANGED <<stock, sold, listVars, rows, sheet, listEdits>>
      /\ UNCHANGED <<mail, delivered, lost, crashes>> /\ UNCHANGED workerVars
  BY DEF SendByMail, queueVars
<1>2. /\ ListInv' /\ o \in Drafted /\ o \in Drafted' /\ order'[o].via = "email"
      /\ order[o].status = "draft" /\ order'[o].status = "sent"
      /\ \A d \in Drafted \ {o} : Continues(d)
  BY <1>1, MarkSentKeeps
<1>3. Sendable(o)' /\ ~Sendable(o)
  BY <1>2 DEF Sendable
<1>4. \A d \in Drafted : Sendable(d) => Sendable(d)'
  BY <1>2, <1>3 DEF Sendable, Continues
<1>5. /\ Mails' = Mails
      /\ \A m \in Mails : Sendable(mail[m].order) /\ mail[m].order \in Drafted
  BY <1>1 DEF MailInv, OwnMail, Mails, Sendable
<1>6. OwnMail'
  BY <1>1, <1>3, <1>4, <1>5 DEF MailInv, OwnMail
<1>7. ToBeQueued'
  BY <1>1, <1>3 DEF ToBeQueued
<1>8. Draining'
  BY <1>1, <1>5, DrainStays
<1>9. MailsKept' /\ ArrivedOnce'
  BY <1>1, <1>5 DEF MailInv, MailsKept, ArrivedOnce
<1>. QED  BY <1>2, <1>6, <1>7, <1>8, <1>9 DEF MailInv

LEMMA EnqueueKeeps ==
    ASSUME BuyingAssumption, MailInv, EnqueueEmail
    PROVE  MailInv'
<1> DEFINE row == [order |-> unqueued, status |-> "pending", attempts |-> 0]
           n == Len(mail)
<1>1. /\ unqueued \in Orders /\ unqueued # None /\ Sendable(unqueued)
      /\ mail' = Append(mail, row) /\ delivered' = Append(delivered, 0) /\ unqueued' = None
      /\ UNCHANGED <<order, lost, crashes>> /\ UNCHANGED workerVars
  BY DEF EnqueueEmail, MailInv, ToBeQueued, buyingVars
<1>2. row \in MailRows /\ row.order = unqueued /\ row.status = "pending"
  BY <1>1 DEF MailRows
<1> HIDE DEF row
<1>3. /\ mail \in Seq(MailRows) /\ delivered \in Seq(Nat) /\ Len(delivered) = n
      /\ n \in Nat /\ Mails = 1..n
  BY MailsAre DEF MailInv, MailsKept
<1>4. /\ MailsKept' /\ Mails' = 1..n + 1
      /\ \A m \in Mails : mail'[m] = mail[m] /\ delivered'[m] = delivered[m]
      /\ mail'[n + 1] = row /\ delivered'[n + 1] = 0
  BY <1>1, <1>2, <1>3 DEF MailsKept, Mails
<1>5. \A o \in Orders : Sendable(o)' <=> Sendable(o)
  BY <1>1 DEF Sendable, Drafted
<1>6. \A m \in Mails : /\ Sendable(mail[m].order) /\ mail[m].order # unqueued
                       /\ mail[m].order \in Orders
                       /\ \A k \in Mails : mail[k].order = mail[m].order => k = m
  BY DEF MailInv, OwnMail, Sendable, Drafted
<1>7. None \notin Orders
  BY DEF BuyingAssumption
<1> HIDE DEF n
<1>8. \A m \in Mails' : m \in Mails \/ m = n + 1
  BY <1>3, <1>4
<1>9. OwnMail'
  <2> SUFFICES ASSUME NEW m \in Mails'
               PROVE  /\ Sendable(mail[m].order)' /\ mail'[m].order # unqueued'
                      /\ \A k \in Mails' : mail'[k].order = mail'[m].order => k = m
    BY DEF OwnMail
  <2>1. mail'[m].order \in Orders /\ Sendable(mail'[m].order)
    BY <1>1, <1>2, <1>4, <1>6, <1>8
  <2>2. \A k \in Mails' : mail'[k].order = mail'[m].order => k = m
    BY <1>2, <1>4, <1>6, <1>8
  <2>3. Sendable(mail[m].order)' /\ mail'[m].order # unqueued'
    BY <1>1, <1>5, <1>7, <2>1
  <2>. QED  BY <2>2, <2>3
<1>10. ToBeQueued'
  BY <1>1 DEF ToBeQueued
<1>11. ArrivedOnce'
  <2>1. lost \in Nat /\ crashes \in Nat
    BY DEF MailInv, ArrivedOnce
  <2>2. ASSUME NEW m \in Mails'
        PROVE  /\ delivered'[m] <=
                    (IF mail'[m].status = "sent" THEN 1 ELSE 0) + lost + crashes
               /\ mail'[m].status = "sent" => delivered'[m] > 0
    <3>1. CASE m \in Mails
      BY <1>4, <3>1 DEF MailInv, ArrivedOnce
    <3>2. CASE m = n + 1
      BY <1>2, <1>4, <2>1, <3>2
    <3>. QED  BY <1>8, <2>2, <3>1, <3>2
  <2>. QED  BY <1>1, <2>1, <2>2 DEF ArrivedOnce
<1>12. Draining'
  <2>1. Mails \subseteq Mails'
    BY <1>3, <1>4
  <2>. QED  BY <1>1, <1>4, <2>1, DrainStays
<1>. QED  BY <1>4, <1>9, <1>10, <1>11, <1>12 DEF MailInv

LEMMA CancelOrderKeeps ==
    ASSUME BuyingAssumption, ListInv, MailInv, NEW o \in Orders, CancelPurchaseOrder(o)
    PROVE  ListInv' /\ MailInv'
<1> DEFINE row == [m \in Mails |-> IF m \in Pending /\ mail[m].order = o
                                   THEN [mail[m] EXCEPT !.status = "failed"]
                                   ELSE mail[m]]
<1>1. /\ Cancel(o) /\ UNCHANGED <<stock, sold, listVars, sheet, listEdits>>
      /\ mail' = [m \in Mails |-> row[m]]
      /\ UNCHANGED <<delivered, lost, unqueued, crashes>> /\ UNCHANGED workerVars
  BY DEF CancelPurchaseOrder
<1>2. ListInv' /\ \A d \in Drafted : Continues(d)
  BY <1>1, CancelKeeps
<1>3. \A m \in Mails : /\ row[m] \in MailRows /\ row[m].order = mail[m].order
                       /\ row[m].status = "sent" <=> mail[m].status = "sent"
  <2>1. \A m \in Mails : mail[m] \in MailRows
    BY MailsAre DEF MailInv
  <2>. QED  BY <2>1 DEF Pending, MailRows
<1> HIDE DEF row
<1>4. /\ mail' \in Seq(MailRows) /\ Len(mail') = Len(mail) /\ Mails' = Mails
      /\ \A m \in Mails : mail'[m] = row[m]
      /\ OwnMail' /\ ToBeQueued'
  BY <1>1, <1>2, <1>3, MailsGoOn
<1>5. MailsKept' /\ ArrivedOnce'
  BY <1>1, <1>3, <1>4 DEF MailInv, MailsKept, ArrivedOnce
<1>6. Draining'
  BY <1>1, <1>3, <1>4, DrainStays
<1>. QED  BY <1>2, <1>4, <1>5, <1>6 DEF MailInv

LEMMA RetryKeeps ==
    ASSUME BuyingAssumption, MailInv, NEW o \in Orders, RetryEmail(o)
    PROVE  MailInv'
<1>1. PICK m \in Newest(o) :
        /\ mail[m].status = "failed"
        /\ mail' = [mail EXCEPT ![m].status = "pending", ![m].attempts = 0]
        /\ UNCHANGED <<delivered, lost, unqueued, crashes, order>> /\ UNCHANGED workerVars
  BY DEF RetryEmail, buyingVars
<1> DEFINE row == [n \in Mails |-> IF n = m
                     THEN [mail[m] EXCEPT !.status = "pending", !.attempts = 0]
                     ELSE mail[n]]
<1>2. m \in Mails
  BY DEF Newest
<1>3. \A n \in Mails : mail[n] \in MailRows
  BY MailsAre DEF MailInv
<1>4. mail' = [n \in Mails |-> row[n]]
  BY <1>1, <1>2 DEF Mails
<1>5. \A n \in Mails : /\ row[n] \in MailRows /\ row[n].order = mail[n].order
                       /\ row[n].status = "sent" <=> mail[n].status = "sent"
  BY <1>1, <1>2, <1>3 DEF MailRows
<1> HIDE DEF row
<1>6. /\ mail' \in Seq(MailRows) /\ Len(mail') = Len(mail) /\ Mails' = Mails
      /\ \A n \in Mails : mail'[n] = row[n]
      /\ OwnMail' /\ ToBeQueued'
  BY <1>1, <1>4, <1>5, MailsGoOn, SameOrders
<1>7. MailsKept' /\ ArrivedOnce'
  BY <1>1, <1>5, <1>6 DEF MailInv, MailsKept, ArrivedOnce
<1>8. Draining'
  BY <1>1, <1>5, <1>6, DrainStays
<1>. QED  BY <1>6, <1>7, <1>8 DEF MailInv

(* -------------------------------- The drain ------------------------------ *)

LEMMA CurrentIs ==
    ASSUME MailInv, worker # "idle"
    PROVE  /\ todo \in Seq(Tasks) /\ Len(todo) \in Nat \ {0} /\ Current = todo[1]
           /\ Current \in Tasks
           /\ Current.mail \in Mails /\ mail[Current.mail].status # "sent"
           /\ \A i \in 2..Len(todo) : todo[i].mail # Current.mail
<1>1. todo \in Seq(Tasks) /\ todo # <<>>
  BY DEF MailInv, Draining
<1>2. Len(todo) \in Nat \ {0} /\ Current = todo[1] /\ Current \in Tasks
  BY <1>1 DEF Current
<1>3. 1 \in 1..Len(todo) /\ \A i \in 2..Len(todo) : i \in 1..Len(todo) /\ i # 1
  BY <1>2
<1>. QED  BY <1>1, <1>2, <1>3 DEF MailInv, Draining

LEMMA AdvanceKeeps ==
    ASSUME MailInv, worker # "idle", Advance, Mails' = Mails,
           \A m \in Mails \ {Current.mail} : mail'[m].status = mail[m].status
    PROVE  Draining'
<1>1. /\ todo \in Seq(Tasks) /\ Len(todo) \in Nat \ {0}
      /\ \A i \in 2..Len(todo) : todo[i].mail # Current.mail
  BY CurrentIs
<1>2. todo' = Tail(todo) /\ worker' = IF Len(todo) = 1 THEN "idle" ELSE "next"
  BY DEF Advance
<1>3. /\ todo' \in Seq(Tasks) /\ Len(todo') = Len(todo) - 1
      /\ \A i \in 1..Len(todo') : todo'[i] = todo[i + 1] /\ i + 1 \in 2..Len(todo)
  BY <1>1, <1>2
<1>4. worker' = "idle" <=> todo' = <<>>
  <2>1. Len(todo') = 0 <=> todo' = <<>>
    BY <1>3
  <2>. QED  BY <1>1, <1>2, <1>3, <2>1
<1>5. \A i \in 2..Len(todo) :
        /\ todo[i].mail \in Mails /\ mail[todo[i].mail].status # "sent"
        /\ \A j \in 2..Len(todo) : todo[j].mail = todo[i].mail => j = i
  <2>1. \A i \in 2..Len(todo) : i \in 1..Len(todo)
    BY <1>1
  <2>. QED  BY <2>1 DEF MailInv, Draining
<1>6. ASSUME NEW i \in 1..Len(todo')
      PROVE  /\ todo'[i].mail \in Mails' /\ mail'[todo'[i].mail].status # "sent"
             /\ \A j \in 1..Len(todo') : todo'[j].mail = todo'[i].mail => j = i
  <2>1. todo'[i].mail \in Mails' /\ mail'[todo'[i].mail].status # "sent"
    BY <1>1, <1>3, <1>5
  <2>2. \A j \in 1..Len(todo') : todo'[j].mail = todo'[i].mail => j + 1 = i + 1
    BY <1>3, <1>5
  <2>. QED  BY <2>1, <2>2
<1>7. worker' \in {"idle", "next", "publishing", "sending"}
  BY <1>2
<1>. QED  BY <1>3, <1>4, <1>6, <1>7 DEF Draining

(* A mail after one more attempt.                                          *)
LEMMA Attempted ==
    ASSUME NEW r \in MailRows, NEW s \in {"pending", "sent", "failed"}, NEW t,
           t = [r EXCEPT !.status = s, !.attempts = @ + 1]
    PROVE  t \in MailRows /\ t.order = r.order /\ t.status = s
<1>1. r.attempts \in Nat /\ r.attempts + 1 \in Nat
  BY DEF MailRows
<1>2. t = [r EXCEPT !.status = s, !.attempts = r.attempts + 1]
  OBVIOUS
<1>. QED  BY <1>1, <1>2 DEF MailRows

LEMMA KickKeeps == ASSUME BuyingAssumption, MailInv, Kick PROVE MailInv'
<1>1. /\ UNCHANGED <<order, delivered, lost, unqueued, crashes>>
      /\ worker = "idle" /\ Pending # {}
  BY DEF Kick, buyingVars
<1>2. /\ Len(mail) \in Nat /\ Mails = 1..Len(mail)
      /\ \A m \in Mails : mail[m] \in MailRows
  BY MailsAre DEF MailInv
<1>3. CASE account
  <2> DEFINE k == Cardinality(Pending)
  <2>1. PICK ids \in [1..k -> Pending] :
          /\ \A i, j \in DOMAIN ids : i < j => ids[i] < ids[j]
          /\ todo' = [i \in DOMAIN ids |->
                       [mail |-> ids[i], attempts |-> mail[ids[i]].attempts]]
    BY <1>3 DEF Kick
  <2>2. worker' = "next" /\ mail' = mail
    BY <1>3 DEF Kick
  <2>3. k \in Nat \ {0}
    <3>1. IsFiniteSet(Mails)
      BY <1>2, FS_Interval
    <3>2. Pending \in SUBSET Mails
      BY DEF Pending
    <3>3. IsFiniteSet(Pending)
      BY <3>1, <3>2, FS_Subset
    <3>. QED  BY <1>1, <3>3, FS_CardinalityType, FS_EmptySet
  <2> HIDE DEF k
  <2>4. \A i \in 1..k : ids[i] \in Pending /\ ids[i] \in Mails
    BY <2>1 DEF Pending
  <2>5. \A i \in 1..k : /\ ids[i] \in Nat /\ mail[ids[i]].attempts \in Nat
                        /\ mail[ids[i]].status = "pending"
    BY <1>2, <2>4 DEF MailRows, Pending
  <2>6. todo' \in [1..k -> Tasks] /\ \A i \in 1..k : todo'[i].mail = ids[i]
    BY <2>1, <2>5 DEF Tasks
  <2>7. todo' \in Seq(Tasks) /\ Len(todo') = k
    BY <2>3, <2>6, IsASeq
  <2>8. OwnMail' /\ ToBeQueued' /\ Mails' = Mails
    BY <1>1, <2>2, SameMail, SameOrders
  <2>9. Draining'
    <3>1. \A i, j \in 1..k : ids[i] = ids[j] => i = j
      <4> SUFFICES ASSUME NEW i \in 1..k, NEW j \in 1..k, ids[i] = ids[j], i # j
                   PROVE  FALSE
        OBVIOUS
      <4>1. ids[i] \in Nat /\ ids[j] \in Nat
        BY <2>5
      <4>2. i < j \/ j < i
        BY <2>3
      <4>. QED  BY <2>1, <4>1, <4>2
    <3>2. todo' # <<>>
      BY <2>3, <2>7
    <3>. QED  BY <2>2, <2>4, <2>5, <2>6, <2>7, <2>8, <3>1, <3>2 DEF Draining
  <2>10. MailsKept' /\ ArrivedOnce'
    BY <1>1, <2>2, <2>8 DEF MailInv, MailsKept, ArrivedOnce
  <2>. QED  BY <2>8, <2>9, <2>10 DEF MailInv
<1>4. CASE ~account
  <2> DEFINE row == [m \in Mails |-> IF m \in Pending
                       THEN [mail[m] EXCEPT !.status = "failed", !.attempts = @ + 1]
                       ELSE mail[m]]
  <2>1. mail' = [m \in Mails |-> row[m]] /\ UNCHANGED workerVars
    BY <1>4 DEF Kick
  <2>2. \A m \in Mails : /\ row[m] \in MailRows /\ row[m].order = mail[m].order
                         /\ row[m].status = "sent" <=> mail[m].status = "sent"
    <3> SUFFICES ASSUME NEW m \in Mails
                 PROVE  /\ row[m] \in MailRows /\ row[m].order = mail[m].order
                        /\ row[m].status = "sent" <=> mail[m].status = "sent"
      OBVIOUS
    <3>1. mail[m] \in MailRows
      BY <1>2
    <3>2. CASE m \in Pending
      <4>1. row[m] = [mail[m] EXCEPT !.status = "failed", !.attempts = @ + 1]
            /\ mail[m].status # "sent"
        BY <3>2 DEF Pending
      <4> HIDE DEF row
      <4>. QED  BY <3>1, <4>1, Attempted
    <3>3. CASE m \notin Pending
      BY <3>1, <3>3
    <3>. QED  BY <3>2, <3>3
  <2> HIDE DEF row
  <2>3. /\ mail' \in Seq(MailRows) /\ Len(mail') = Len(mail) /\ Mails' = Mails
        /\ \A m \in Mails : mail'[m] = row[m]
        /\ OwnMail' /\ ToBeQueued'
    BY <1>1, <2>1, <2>2, MailsGoOn, SameOrders
  <2>4. MailsKept' /\ ArrivedOnce'
    BY <1>1, <2>2, <2>3 DEF MailInv, MailsKept, ArrivedOnce
  <2>5. Draining'
    BY <2>1, <2>2, <2>3, DrainStays
  <2>. QED  BY <2>3, <2>4, <2>5 DEF MailInv
<1>. QED  BY <1>3, <1>4

LEMMA TakeNextKeeps == ASSUME BuyingAssumption, MailInv, TakeNext PROVE MailInv'
<1>1. /\ UNCHANGED <<order, mail, delivered, lost, unqueued, crashes, todo>>
      /\ worker = "next" /\ worker' \in {"publishing", "sending"}
  BY DEF TakeNext, buyingVars, queueVars
<1>2. OwnMail' /\ ToBeQueued' /\ Mails' = Mails
  BY <1>1, SameMail, SameOrders
<1>3. MailsKept' /\ ArrivedOnce' /\ Draining'
  BY <1>1, <1>2 DEF MailInv, MailsKept, ArrivedOnce, Draining
<1>. QED  BY <1>2, <1>3 DEF MailInv

LEMMA PublishedKeeps ==
    ASSUME BuyingAssumption, ListInv, MailInv, Published
    PROVE  ListInv' /\ MailInv'
<1> DEFINE o == mail[Current.mail].order
<1>1. /\ MarkPublished(o) /\ UNCHANGED <<stock, sold, listVars, rows, sheet, listEdits>>
      /\ UNCHANGED <<mail, delivered, lost, unqueued, crashes, todo>>
      /\ worker = "publishing" /\ worker' = "sending"
  BY DEF Published, queueVars
<1>2. o \in Drafted
  BY <1>1, CurrentIs DEF MailInv, OwnMail, Sendable
<1> HIDE DEF o
<1>3. ListInv' /\ \A d \in Drafted : Continues(d)
  BY <1>1, <1>2, MarkPublishedKeeps
<1>4. OwnMail' /\ ToBeQueued' /\ Mails' = Mails
  BY <1>1, <1>3, SameMail
<1>5. MailsKept' /\ ArrivedOnce' /\ Draining'
  BY <1>1, <1>4 DEF MailInv, MailsKept, ArrivedOnce, Draining
<1>. QED  BY <1>3, <1>4, <1>5 DEF MailInv

(* The mail the drain works on arrives once more than it did when it is    *)
(* marked sent, or its answer is lost.                                     *)
LEMMA OneMoreArrives ==
    ASSUME ArrivedOnce, Mails' = Mails, crashes' = crashes, lost' \in Nat, lost' >= lost,
           \A m \in Mails : delivered[m] \in Nat,
           NEW c \in Mails, mail[c].status # "sent",
           \A m \in Mails \ {c} : /\ mail'[m].status = mail[m].status
                                  /\ delivered'[m] = delivered[m],
           IF mail'[c].status = "sent"
           THEN delivered'[c] = delivered[c] + 1
           ELSE delivered'[c] = delivered[c] + lost' - lost
    PROVE  ArrivedOnce'
<1>1. lost \in Nat /\ crashes \in Nat
  BY DEF ArrivedOnce
<1>2. ASSUME NEW m \in Mails
      PROVE  /\ delivered'[m] <=
                  (IF mail'[m].status = "sent" THEN 1 ELSE 0) + lost' + crashes
             /\ mail'[m].status = "sent" => delivered'[m] > 0
  <2>1. /\ delivered[m] <= (IF mail[m].status = "sent" THEN 1 ELSE 0) + lost + crashes
        /\ mail[m].status = "sent" => delivered[m] > 0
        /\ delivered[m] \in Nat
    BY DEF ArrivedOnce
  <2>2. CASE m = c
    BY <1>1, <2>1, <2>2
  <2>3. CASE m # c
    BY <1>1, <2>1, <2>3
  <2>. QED  BY <2>2, <2>3
<1>. QED  BY <1>1, <1>2 DEF ArrivedOnce

(* The mail the drain works on is answered for, and may have arrived.      *)
LEMMA AnswerKeeps ==
    ASSUME BuyingAssumption, MailInv, worker # "idle", Advance,
           NEW status \in {"pending", "sent", "failed"}, NEW arrived \in BOOLEAN,
           mail' = [mail EXCEPT ![Current.mail].status = status,
                                ![Current.mail].attempts = @ + 1],
           delivered' = [delivered EXCEPT ![Current.mail] = IF arrived THEN @ + 1 ELSE @],
           status = "sent" => arrived,
           lost' = IF arrived /\ status # "sent" THEN lost + 1 ELSE lost
    PROVE  MailInv'
<1> DEFINE c == Current.mail
<1>1. /\ c \in Mails /\ mail[c].status # "sent"
      /\ mail' = [mail EXCEPT ![c].status = status, ![c].attempts = @ + 1]
      /\ delivered' = [delivered EXCEPT ![c] = IF arrived THEN @ + 1 ELSE @]
  BY CurrentIs
<1> HIDE DEF c
<1> DEFINE row == [m \in Mails |-> IF m = c
                     THEN [mail[c] EXCEPT !.status = status, !.attempts = @ + 1]
                     ELSE mail[m]]
<1>2. /\ Mails = 1..Len(mail) /\ Len(mail) \in Nat /\ mail \in Seq(MailRows)
      /\ delivered \in Seq(Nat) /\ Len(delivered) = Len(mail)
      /\ \A m \in Mails : mail[m] \in MailRows /\ delivered[m] \in Nat
  BY MailsAre DEF MailInv, MailsKept
<1>3. mail' = [m \in Mails |-> row[m]]
  BY <1>1 DEF Mails
<1>4. \A m \in Mails : /\ row[m] \in MailRows /\ row[m].order = mail[m].order
                       /\ row[m].status = IF m = c THEN status ELSE mail[m].status
  <2>1. mail[c] \in MailRows
    BY <1>1, <1>2
  <2>2. /\ row[c] \in MailRows /\ row[c].order = mail[c].order /\ row[c].status = status
    <3>1. row[c] = [mail[c] EXCEPT !.status = status, !.attempts = @ + 1]
      BY <1>1
    <3> HIDE DEF row
    <3>2. mail[c].attempts + 1 \in Nat
      BY <2>1 DEF MailRows
    <3>3. row[c] = [mail[c] EXCEPT !.status = status, !.attempts = mail[c].attempts + 1]
      BY <3>1
    <3>. QED  BY <2>1, <3>2, <3>3 DEF MailRows
  <2>3. \A m \in Mails \ {c} : row[m] = mail[m]
    OBVIOUS
  <2> HIDE DEF row
  <2>. QED  BY <1>2, <2>2, <2>3
<1>5. delivered' \in [1..Len(mail) -> Nat]
      /\ \A m \in Mails : delivered'[m] = IF m = c /\ arrived THEN delivered[m] + 1
                                          ELSE delivered[m]
  <2>1. delivered \in [1..Len(mail) -> Nat] /\ Mails = 1..Len(mail) /\ c \in 1..Len(mail)
    BY <1>1, <1>2
  <2>2. delivered' =
          [delivered EXCEPT ![c] = IF arrived THEN delivered[c] + 1 ELSE delivered[c]]
    BY <1>1
  <2>3. (IF arrived THEN delivered[c] + 1 ELSE delivered[c]) \in Nat
    BY <2>1
  <2>. QED  BY <2>1, <2>2, <2>3
<1>6. delivered' \in Seq(Nat) /\ Len(delivered') = Len(mail)
  BY <1>2, <1>5, IsASeq
<1> HIDE DEF row
<1>7. UNCHANGED <<order, unqueued, crashes>>
  BY DEF Advance, buyingVars
<1>8. /\ mail' \in Seq(MailRows) /\ Len(mail') = Len(mail) /\ Mails' = Mails
      /\ \A m \in Mails : mail'[m] = row[m]
      /\ OwnMail' /\ ToBeQueued'
  BY <1>3, <1>4, <1>7, MailsGoOn, SameOrders
<1>9. MailsKept'
  BY <1>6, <1>8 DEF MailsKept
<1>10. Draining'
  BY <1>4, <1>8, AdvanceKeeps DEF c
<1>11. ArrivedOnce'
  <2>1. ArrivedOnce /\ lost \in Nat
    BY DEF MailInv, ArrivedOnce
  <2>2. lost' \in Nat /\ lost' >= lost
        /\ lost' - lost = IF arrived /\ status # "sent" THEN 1 ELSE 0
    BY <2>1
  <2>3. mail'[c].status = status
        /\ \A m \in Mails \ {c} : /\ mail'[m].status = mail[m].status
                                  /\ delivered'[m] = delivered[m]
    BY <1>1, <1>4, <1>5, <1>8
  <2>4. delivered[c] \in Nat
        /\ delivered'[c] = IF arrived THEN delivered[c] + 1 ELSE delivered[c]
    BY <1>1, <1>2, <1>5
  <2>5. IF mail'[c].status = "sent"
        THEN delivered'[c] = delivered[c] + 1
        ELSE delivered'[c] = delivered[c] + lost' - lost
    BY <2>1, <2>2, <2>3, <2>4
  <2>. QED  BY <1>1, <1>2, <1>7, <1>8, <2>1, <2>2, <2>3, <2>5, OneMoreArrives
<1>. QED  BY <1>8, <1>9, <1>10, <1>11 DEF MailInv

LEMMA MailSentKeeps == ASSUME BuyingAssumption, MailInv, MailSent PROVE MailInv'
<1>1. worker # "idle" /\ Advance /\ lost' = lost
  BY DEF MailSent
<1>2. delivered' = [delivered EXCEPT ![Current.mail] = IF TRUE THEN @ + 1 ELSE @]
  BY DEF MailSent
<1>3. mail' = [mail EXCEPT ![Current.mail].status = "sent",
                           ![Current.mail].attempts = @ + 1]
  BY DEF MailSent
<1>. QED  BY <1>1, <1>2, <1>3, AnswerKeeps

LEMMA MailFailedKeeps ==
    ASSUME BuyingAssumption, MailInv, NEW permanent \in BOOLEAN, NEW arrived \in BOOLEAN,
           MailFailed(permanent, arrived)
    PROVE  MailInv'
<1> DEFINE status == IF Final(permanent) THEN "failed" ELSE "pending"
<1>1. /\ worker # "idle" /\ Advance /\ status \in {"pending", "sent", "failed"}
      /\ status # "sent" /\ lost' = IF arrived /\ status # "sent" THEN lost + 1 ELSE lost
  BY DEF MailFailed
<1>2. delivered' = [delivered EXCEPT ![Current.mail] = IF arrived THEN @ + 1 ELSE @]
  BY DEF MailFailed
<1>3. mail' = [mail EXCEPT ![Current.mail].status = status,
                           ![Current.mail].attempts = @ + 1]
  BY DEF MailFailed
<1> HIDE DEF status
<1>. QED  BY <1>1, <1>2, <1>3, AnswerKeeps

LEMMA MailCrashKeeps == ASSUME BuyingAssumption, MailInv, Crash PROVE MailInv'
<1>1. /\ UNCHANGED <<order, mail, lost>> /\ crashes' = crashes + 1
      /\ worker' = "idle" /\ todo' = <<>> /\ unqueued' = None
  BY DEF Crash, buyingVars
<1>2. /\ Mails = 1..Len(mail) /\ Len(mail) \in Nat /\ delivered \in Seq(Nat)
      /\ Len(delivered) = Len(mail)
      /\ \A m \in Mails : mail[m] \in MailRows /\ delivered[m] \in Nat
  BY MailsAre DEF MailInv, MailsKept
<1>3. OwnMail' /\ ToBeQueued' /\ Mails' = Mails
  <2>1. mail' = [m \in Mails |-> mail[m]]
    BY <1>1, MailsAre DEF MailInv
  <2>. QED  BY <1>1, <1>2, <2>1, MailsGoOn, SameOrders
<1>4. /\ delivered' \in Seq(Nat) /\ Len(delivered') = Len(mail)
      /\ \A m \in Mails : delivered'[m] \in {delivered[m], delivered[m] + 1}
  <2>1. CASE delivered' = delivered
    BY <1>2, <2>1
  <2>2. CASE worker = "sending" /\ delivered' = [delivered EXCEPT ![Current.mail] = @ + 1]
    <3>1. /\ delivered' \in [1..Len(mail) -> Nat]
          /\ \A m \in Mails : delivered'[m] \in {delivered[m], delivered[m] + 1}
      BY <1>2, <2>2, CurrentIs
    <3>. QED  BY <1>2, <3>1, IsASeq
  <2>. QED  BY <2>1, <2>2 DEF Crash
<1>5. ArrivedOnce'
  <2>1. lost \in Nat /\ crashes \in Nat
    BY DEF MailInv, ArrivedOnce
  <2>2. ASSUME NEW m \in Mails
        PROVE  /\ delivered'[m] <=
                    (IF mail[m].status = "sent" THEN 1 ELSE 0) + lost + crashes'
               /\ mail[m].status = "sent" => delivered'[m] > 0
    <3>1. /\ delivered[m] <= (IF mail[m].status = "sent" THEN 1 ELSE 0) + lost + crashes
          /\ mail[m].status = "sent" => delivered[m] > 0
          /\ delivered[m] \in Nat
      BY <1>2 DEF MailInv, ArrivedOnce
    <3>. QED  BY <1>1, <1>4, <2>1, <3>1
  <2>. QED  BY <1>1, <1>3, <2>1, <2>2 DEF ArrivedOnce
<1>6. MailsKept' /\ Draining'
  BY <1>1, <1>4 DEF MailInv, MailsKept, Draining
<1>. QED  BY <1>3, <1>5, <1>6 DEF MailInv

(* ------------------------------- Every step ------------------------------ *)

OrderInv == ListInv /\ MailInv

LEMMA OrdersInitially == BuyingAssumption /\ Init => OrderInv
  BY ListInitially, MailInitially DEF OrderInv, Init

LEMMA ListStays == ListInv /\ UNCHANGED buyingVars => ListInv'
  BY DEF ListInv, buyingVars, listVars, VendorsKnown, InLine, Awaited, OneSuggestion,
     OrdersAccounted, StockExplained, Received, Drafted

LEMMA OrderStepKeeps == BuyingAssumption /\ OrderInv /\ [Next]_vars => OrderInv'
<1> SUFFICES ASSUME BuyingAssumption, OrderInv, [Next]_vars PROVE OrderInv'
  OBVIOUS
<1> USE DEF OrderInv
<1>1. UNCHANGED mailVars => UNCHANGED <<queueVars, workerVars, unqueued, crashes>>
  BY DEF mailVars
<1>2. CASE BuyingNext /\ UNCHANGED mailVars
  <2>1. ListInv' /\ \A d \in Drafted : Continues(d)
    BY <1>2, BuyingKeeps
  <2>. QED  BY <1>1, <1>2, <2>1, MailStays
<1>3. CASE \E o \in Orders : SendByMail(o)
  BY <1>3, SendByMailKeeps
<1>4. ASSUME NEW o \in Orders, SendByHand(o) PROVE OrderInv'
  <2>1. /\ MarkSent(o, "manual") /\ UNCHANGED mailVars
        /\ UNCHANGED <<stock, sold, listVars, rows, sheet, listEdits>>
    BY <1>4 DEF SendByHand
  <2>2. /\ ListInv' /\ order[o].status = "draft"
        /\ \A d \in Drafted \ {o} : Continues(d)
    BY <2>1, MarkSentKeeps
  <2>3. \A d \in Drafted : Sendable(d) => Continues(d)
    BY <2>2 DEF Sendable
  <2>. QED  BY <1>1, <2>1, <2>2, <2>3, MailStays
<1>5. ASSUME NEW o \in Orders, PublishByHand(o) PROVE OrderInv'
  <2>1. /\ o \in Drafted /\ MarkPublished(o) /\ UNCHANGED mailVars
        /\ UNCHANGED <<stock, sold, listVars, rows, sheet, listEdits>>
    BY <1>5 DEF PublishByHand
  <2>2. ListInv' /\ \A d \in Drafted : Continues(d)
    BY <2>1, MarkPublishedKeeps
  <2>. QED  BY <1>1, <2>1, <2>2, MailStays
<1>6. CASE \E o \in Orders : CancelPurchaseOrder(o)
  BY <1>6, CancelOrderKeeps
<1>7. ASSUME NEW o \in Orders, RetryEmail(o) PROVE OrderInv'
  BY <1>7, RetryKeeps, ListStays DEF RetryEmail
<1>8. CASE EnqueueEmail
  BY <1>8, EnqueueKeeps, ListStays DEF EnqueueEmail
<1>9. CASE SetEmailConfig
  <2>1. UNCHANGED <<buyingVars, queueVars, workerVars, unqueued, crashes>>
    BY <1>9 DEF SetEmailConfig
  <2>2. order' = order
    BY <2>1 DEF buyingVars
  <2>. QED  BY <2>1, <2>2, MailStays, SameOrders, ListStays
<1>10. CASE WorkerStep
  <2>1. CASE Kick
    BY <2>1, KickKeeps, ListStays DEF Kick
  <2>2. CASE TakeNext
    BY <2>2, TakeNextKeeps, ListStays DEF TakeNext
  <2>3. CASE Published
    BY <2>3, PublishedKeeps
  <2>4. CASE MailSent
    BY <2>4, MailSentKeeps, ListStays DEF MailSent, Advance
  <2>5. ASSUME NEW permanent \in BOOLEAN, NEW arrived \in BOOLEAN,
               MailFailed(permanent, arrived)
        PROVE  OrderInv'
    BY <2>5, MailFailedKeeps, ListStays DEF MailFailed, Advance
  <2>. QED  BY <1>10, <2>1, <2>2, <2>3, <2>4, <2>5 DEF WorkerStep
<1>11. CASE Crash
  BY <1>11, MailCrashKeeps, ListStays DEF Crash
<1>12. CASE Restart
  <2>1. UNCHANGED <<buyingVars, queueVars, workerVars, unqueued, crashes>>
    BY <1>12 DEF Restart
  <2>2. order' = order
    BY <2>1 DEF buyingVars
  <2>. QED  BY <2>1, <2>2, MailStays, SameOrders, ListStays
<1>13. CASE UNCHANGED vars
  <2>1. UNCHANGED <<buyingVars, queueVars, workerVars, unqueued, crashes>>
    BY <1>13 DEF vars, mailVars
  <2>2. order' = order
    BY <2>1 DEF buyingVars
  <2>. QED  BY <2>1, <2>2, MailStays, SameOrders, ListStays
<1>. QED
  BY <1>2, <1>3, <1>4, <1>5, <1>6, <1>7, <1>8, <1>9, <1>10, <1>11, <1>12, <1>13
  DEF Next

LEMMA OrdersHold ==
    ASSUME BuyingAssumption, OrderInv
    PROVE  BuyingTypeOK /\ MailTypeOK /\ GoodsFollowOrders /\ MailedOnce
<1>1. BuyingTypeOK
  <2>1. \A p \in Products :
          linked[p] \subseteq known /\ preferred[p] \in linked[p] \cup {None}
    BY DEF OrderInv, ListInv, VendorsKnown
  <2>. QED
    BY <2>1 DEF OrderInv, ListInv, VendorsKnown, InLine, RowsOver, OrdersAccounted,
       StockExplained, BuyingTypeOK
<1>2. MailTypeOK
  <2>1. \A m \in Mails : mail[m] \in MailRows /\ mail[m].order \in Drafted
    BY MailsAre DEF OrderInv, MailInv, OwnMail, Sendable
  <2>2. \A m \in Mails : /\ mail[m].order \in Drafted
                         /\ mail[m].status \in {"pending", "sent", "failed"}
                         /\ mail[m].attempts \in Nat
    BY <2>1 DEF MailRows
  <2>3. DOMAIN delivered = Mails
    BY DEF OrderInv, MailInv, MailsKept, Mails
  <2>4. /\ worker \in {"idle", "next", "publishing", "sending"}
        /\ worker = "idle" <=> todo = <<>>
    BY DEF OrderInv, MailInv, Draining
  <2>5. unqueued \in Drafted \cup {None}
    BY DEF OrderInv, MailInv, ToBeQueued, Sendable
  <2>. QED  BY <2>2, <2>3, <2>4, <2>5 DEF MailTypeOK
<1>3. GoodsFollowOrders
  <2>1. \A p \in Products :
          stock[p] = StartStock[p] - sold[p]
                     + SumFunction([o \in Drafted |-> order[o].received[p]])
    BY DEF OrderInv, ListInv, StockExplained, Received
  <2>2. \A o \in Drafted :
          /\ order[o].status = "received" <=>
               \A p \in Products : order[o].received[p] >= order[o].quantity[p]
          /\ order[o].status = "cancelled" =>
               \A p \in Products : order[o].received[p] = 0
    BY DEF OrderInv, ListInv, OrdersAccounted, Accounted, Complete
  <2>3. \A r \in rows : r.status = "ordered" =>
          order[r.order].status \in Live /\ order[r.order].quantity[r.product] > 0
    BY DEF OrderInv, ListInv, InLine, Awaited
  <2>4. \A r, s \in Suggestion : r.product = s.product => r = s
    <3>1. \A r \in Suggestion : r \in rows /\ r.status # "ordered"
      BY DEF Suggestion
    <3>. QED  BY <3>1 DEF OrderInv, ListInv, InLine, OneSuggestion
  <2>. QED  BY <2>1, <2>2, <2>3, <2>4 DEF GoodsFollowOrders
<1>4. MailedOnce
  <2>1. \A m \in Mails : order[mail[m].order].via = "email"
                         /\ (mail[m].status = "sent" => delivered[m] > 0)
    BY DEF OrderInv, MailInv, OwnMail, Sendable, ArrivedOnce
  <2>2. ASSUME NEW o \in Drafted
        PROVE  SumFunction([m \in {n \in Mails : mail[n].order = o} |-> delivered[m]])
                 <= 1 + lost + crashes
    <3> DEFINE own == {n \in Mails : mail[n].order = o}
               f == [m \in own |-> delivered[m]]
    <3>1. lost \in Nat /\ crashes \in Nat
      BY DEF OrderInv, MailInv, ArrivedOnce
    <3>2. CASE own = {}
      <4>1. SumFunction(f) = 0
        BY <3>2, SumEmpty
      <4>. QED  BY <3>1, <4>1
    <3>3. CASE own # {}
      <4>1. PICK m \in own : TRUE
        BY <3>3
      <4>2. own = {m}
        BY DEF OrderInv, MailInv, OwnMail
      <4>3. delivered[m] \in Nat
        BY MailsAre DEF OrderInv, MailInv
      <4>4. delivered[m] <= 1 + lost + crashes
        BY <3>1, <4>3 DEF OrderInv, MailInv, ArrivedOnce
      <4>5. f \in [own -> Int] /\ IsFiniteSet(own) /\ m \in own /\ own \ {m} = {}
        <5>1. f \in [own -> Int]
          BY <4>2, <4>3
        <5> HIDE DEF f, own
        <5>. QED  BY <4>2, <5>1, FS_Singleton
      <4>6. /\ SumFunction(f) = f[m] + SumFunction([y \in own \ {m} |-> f[y]])
            /\ SumFunction([y \in own \ {m} |-> f[y]]) = 0
        <5> HIDE DEF f, own
        <5>1. SumFunction(f) = f[m] + SumFunction([y \in own \ {m} |-> f[y]])
          BY <4>5, SumSplit
        <5>2. SumFunction([y \in own \ {m} |-> f[y]]) = 0
          BY <4>5, SumEmpty
        <5>. QED  BY <5>1, <5>2
      <4>7. f[m] = delivered[m]
        BY <4>5
      <4> HIDE DEF f
      <4>. QED  BY <3>1, <4>3, <4>4, <4>6, <4>7 DEF f
    <3>. QED  BY <3>2, <3>3
  <2>. QED  BY <2>1, <2>2 DEF MailedOnce
<1>. QED  BY <1>1, <1>2, <1>3, <1>4

(* Orders and their mails keep the types of their states, goods and orders *)
(* explain each other, and an order is mailed once (PurchaseOrderStore,    *)
(* MailWorker).                                                            *)
THEOREM OrdersCorrect ==
    BuyingAssumption =>
        (Spec => [](BuyingTypeOK /\ MailTypeOK /\ GoodsFollowOrders /\ MailedOnce))
<1> SUFFICES ASSUME BuyingAssumption
             PROVE  Spec =>
                      [](BuyingTypeOK /\ MailTypeOK /\ GoodsFollowOrders /\ MailedOnce)
  OBVIOUS
<1>1. Init => OrderInv
  BY OrdersInitially
<1>2. OrderInv /\ [Next]_vars => OrderInv'
  BY OrderStepKeeps
<1>3. OrderInv => BuyingTypeOK /\ MailTypeOK /\ GoodsFollowOrders /\ MailedOnce
  BY OrdersHold
<1>. QED  BY <1>1, <1>2, <1>3, PTL DEF Spec

-----------------------------------------------------------------------------
(* Price tags *)

LinkStatus == {"pending", "synced", "error"}
LinkRows == [id : Nat, tag : Tags, status : LinkStatus, attempts : 0..MaxPushes,
             pushedAt : Int]
Pushes == [id : Nat, product : Products, tag : Tags]

TagTypes ==
    /\ base \in [Products -> Int]
    /\ DOMAIN link = Products
    /\ DOMAIN shown = Tags
    /\ linksMade \in Nat /\ clock \in Nat
    /\ queue \in Seq(Pushes)
    /\ airing # None => queue # <<>>

(* Links have ids and tags of their own, and were not pushed later than now. *)
LinksApart ==
    /\ \A p \in Shelf!Linked : link[p] \in LinkRows /\ link[p].id \in 1..linksMade
                         /\ link[p].pushedAt <= clock
    /\ \A p, q \in Shelf!Linked : link[p].tag = link[q].tag \/ link[p].id = link[q].id
        => p = q

(* The same of the links l, with ids of at most n, before a pass marks them. *)
LinkedIn(l) == {p \in Products : l[p] # None}

Apart(l, n) ==
    /\ \A p \in LinkedIn(l) : l[p] \in LinkRows /\ l[p].id \in 1..n
                         /\ l[p].pushedAt <= clock
    /\ \A p, q \in LinkedIn(l) : l[p].tag = l[q].tag \/ l[p].id = l[q].id => p = q

Overlap(a, b) == a.id = b.id \/ a.product = b.product \/ a.tag = b.tag

(* What is to be pushed was linked when the queue was read.                *)
QueueApart ==
    /\ \A i \in 1..Len(queue) : queue[i].id <= linksMade
    /\ \A i, j \in 1..Len(queue) : Overlap(queue[i], queue[j]) => i = j

UpToDate(p, push) ==
    /\ link[p].id = push.id => p = push.product
    /\ p = push.product /\ link[p].id # push.id => link[p].status # "synced"
    /\ p # push.product /\ link[p].tag = push.tag =>
         link[p].status # "synced" \/ p \in overtaken

QueueUpToDate == \A p \in Shelf!Linked : \A i \in 1..Len(queue) : UpToDate(p, queue[i])

ShelfInv == TagTypes /\ LinksApart /\ QueueApart /\ QueueUpToDate
    /\ Shelf!TagsTellThePrice

LEMMA PricesAreNumbers == Shelf!TagsAssumption => \A price \in Prices : price \in Int
  BY DEF Shelf!TagsAssumption

LEMMA PushOf ==
    ASSUME TagTypes, NEW i \in 1..Len(queue)
    PROVE  queue[i] \in Pushes /\ queue[i].id \in Nat /\ Len(queue) \in Nat
<1>1. queue[i] \in Pushes /\ Len(queue) \in Nat
  BY DEF TagTypes
<1>. QED  BY <1>1 DEF Pushes

LEMMA ShelfInitially == Shelf!TagsAssumption /\ Shelf!Init => ShelfInv
<1> SUFFICES ASSUME Shelf!TagsAssumption, Shelf!Init PROVE ShelfInv
  OBVIOUS
<1>1. Shelf!Linked = {} /\ Len(queue) = 0 /\ queue \in Seq(Pushes)
  BY DEF Shelf!Init, Shelf!Linked
<1> QED
  <2>1. TagTypes
    <3>1. base \in [Products -> Int] /\ linksMade \in Nat /\ clock \in Nat
      BY PricesAreNumbers DEF Shelf!Init
    <3>2. DOMAIN link = Products /\ DOMAIN shown = Tags /\ airing = None
      BY DEF Shelf!Init
    <3>. QED  BY <1>1, <3>1, <3>2 DEF TagTypes
  <2>2. LinksApart /\ QueueUpToDate /\ Shelf!TagsTellThePrice
    BY <1>1 DEF LinksApart, QueueUpToDate, Shelf!TagsTellThePrice
  <2>3. QueueApart
    BY <1>1 DEF QueueApart
  <2>. QED  BY <2>1, <2>2, <2>3 DEF ShelfInv

(* Edits leave what the driver does alone; a product whose link, price or  *)
(* sale changes waits for a push, or is known to be overtaken.             *)
LEMMA TagEditKeeps ==
    ASSUME Shelf!TagsAssumption, ShelfInv, UNCHANGED <<queue, airing, shown, clock>>,
           base' \in [Products -> Int], DOMAIN link' = Products,
           linksMade' \in Nat, linksMade <= linksMade',
           overtaken \subseteq overtaken',
           LinksApart',
           \A p \in Shelf!Linked' :
             \/ link'[p].status = "pending" /\ p \in Shelf!Linked
                /\ link'[p].id = link[p].id
             \/ link'[p].status = "pending" /\ link'[p].id > linksMade
             \/ /\ p \in Shelf!Linked /\ link'[p] = link[p]
                /\ \/ base'[p] = base[p] /\ (p \in onSale' <=> p \in onSale)
                   \/ p \in overtaken'
    PROVE  ShelfInv'
<1>1. TagTypes'
  BY DEF ShelfInv, TagTypes
<1>2. QueueApart'
  <2>1. \A i \in 1..Len(queue) : queue[i] \in Pushes /\ queue[i].id \in Nat
    BY PushOf DEF ShelfInv
  <2>2. \A i \in 1..Len(queue) : queue[i].id <= linksMade'
    BY <2>1 DEF ShelfInv, TagTypes, QueueApart
  <2>. QED  BY <2>2 DEF ShelfInv, QueueApart
<1>3. QueueUpToDate'
  <2> SUFFICES ASSUME NEW p \in Shelf!Linked', NEW i \in 1..Len(queue)
               PROVE  UpToDate(p, queue[i])'
    BY DEF QueueUpToDate
  <2>1. queue[i].id \in Nat /\ queue[i].id <= linksMade
    BY PushOf DEF ShelfInv, QueueApart
  <2>2. link'[p].id \in Nat /\ linksMade \in Nat
    BY DEF ShelfInv, TagTypes, LinksApart, LinkRows
  <2>3. p \in Shelf!Linked => UpToDate(p, queue[i])
    BY DEF ShelfInv, QueueUpToDate
  <2>. QED  BY <2>1, <2>2, <2>3 DEF UpToDate
<1>4. Shelf!TagsTellThePrice'
  <2> SUFFICES ASSUME NEW p \in Shelf!Linked' \ overtaken', link'[p].status = "synced"
               PROVE  shown'[link'[p].tag] = Shelf!PriceNow(p)' \/ Shelf!BoundaryDue(link, p)'
    BY DEF Shelf!TagsTellThePrice
  <2>1. /\ p \in Shelf!Linked \ overtaken /\ link'[p] = link[p]
        /\ base'[p] = base[p] /\ (p \in onSale' <=> p \in onSale)
    OBVIOUS
  <2>2. shown[link[p].tag] = Shelf!PriceNow(p) \/ Shelf!BoundaryDue(link, p)
    BY <2>1 DEF ShelfInv, Shelf!TagsTellThePrice
  <2>. QED  BY <2>1, <2>2 DEF Shelf!PriceNow, Shelf!BoundaryDue
<1>. QED  BY <1>1, <1>2, <1>3, <1>4 DEF ShelfInv

(* What asking for a push makes of the links.                              *)
LEMMA RequeuedKeeps ==
    ASSUME ShelfInv, NEW p \in Products, NEW l, l = Shelf!Requeued(p)
    PROVE  /\ DOMAIN l = Products /\ LinkedIn(l) \subseteq Shelf!Linked
           /\ Apart(l, linksMade)
           /\ \A q \in LinkedIn(l) :
                \/ q = p /\ l[q].status = "pending" /\ l[q].id = link[q].id
                \/ q # p /\ l[q] = link[q]
<1>1. DOMAIN link = Products
  BY DEF ShelfInv, TagTypes
<1>2. \A q \in Shelf!Linked : link[q] \in LinkRows /\ link[q].id \in 1..linksMade
                        /\ link[q].pushedAt <= clock
  BY DEF ShelfInv, LinksApart
<1>3. CASE link[p] = None
  <2>1. l = link
    BY <1>3 DEF Shelf!Requeued
  <2>2. LinkedIn(l) = Shelf!Linked
    BY <2>1 DEF LinkedIn, Shelf!Linked
  <2>. QED  BY <1>1, <1>3, <2>1, <2>2 DEF ShelfInv, LinksApart, Apart, Shelf!Linked
<1>4. CASE p \in Shelf!Linked
  <2>1. l = [link EXCEPT ![p].status = "pending"]
    BY <1>4 DEF Shelf!Requeued, Shelf!Linked
  <2>2. LinkedIn(l) \subseteq Shelf!Linked /\ DOMAIN l = Products
    BY <1>1, <1>4, <2>1 DEF LinkedIn, Shelf!Linked
  <2>3. /\ l[p] \in LinkRows /\ l[p].status = "pending"
        /\ l[p].id = link[p].id /\ l[p].tag = link[p].tag
        /\ l[p].pushedAt = link[p].pushedAt
    BY <1>1, <1>2, <1>4, <2>1 DEF LinkRows, LinkStatus
  <2>4. \A q \in LinkedIn(l) \ {p} : l[q] = link[q]
    BY <1>1, <2>1
  <2>5. Apart(l, linksMade)
    BY <1>2, <1>4, <2>2, <2>3, <2>4 DEF ShelfInv, LinksApart, Apart
  <2>. QED  BY <2>2, <2>3, <2>4, <2>5
<1>. QED  BY <1>3, <1>4 DEF Shelf!Linked

LEMMA ApartNow ==
    ASSUME clock' = clock, Apart(link', linksMade')
    PROVE  LinksApart' /\ Shelf!Linked' = LinkedIn(link')
BY DEF Apart, LinksApart, LinkedIn, Shelf!Linked

LEMMA UpdateProductKeeps ==
    ASSUME Shelf!TagsAssumption, ShelfInv, NEW p \in Products, NEW price \in Prices,
           Shelf!UpdateProduct(p, price)
    PROVE  ShelfInv'
<1>1. base' \in [Products -> Int] /\ \A q \in Products \ {p} : base'[q] = base[q]
  BY PricesAreNumbers DEF Shelf!UpdateProduct, ShelfInv, TagTypes
<1>2. /\ DOMAIN link' = Products /\ Shelf!Linked' \subseteq Shelf!Linked /\ LinksApart'
      /\ \A q \in Shelf!Linked' :
           \/ q = p /\ link'[q].status = "pending" /\ link'[q].id = link[q].id
           \/ q # p /\ link'[q] = link[q]
  <2>1. link' = Shelf!Requeued(p) /\ linksMade' = linksMade /\ clock' = clock
    BY DEF Shelf!UpdateProduct, Shelf!EditTags
  <2>. QED  BY <2>1, RequeuedKeeps, ApartNow
<1>3. linksMade' = linksMade /\ linksMade \in Nat /\ Shelf!Linked' \subseteq Products
  BY DEF Shelf!UpdateProduct, ShelfInv, TagTypes, Shelf!Linked
<1>. QED  BY <1>1, <1>2, <1>3, TagEditKeeps DEF Shelf!UpdateProduct, Shelf!EditTags

LEMMA SaleKeeps ==
    ASSUME Shelf!TagsAssumption, ShelfInv, NEW p \in Products,
           Shelf!CreateSalePrice(p) \/ Shelf!DeleteSalePrice(p)
    PROVE  ShelfInv'
<1>1. \A q \in Products \ {p} : q \in onSale' <=> q \in onSale
  BY DEF Shelf!CreateSalePrice, Shelf!DeleteSalePrice
<1>2. link' = Shelf!Requeued(p) /\ linksMade' = linksMade /\ clock' = clock
  BY DEF Shelf!CreateSalePrice, Shelf!DeleteSalePrice, Shelf!AfterSale, Shelf!EditTags
<1>3. /\ DOMAIN link' = Products /\ Shelf!Linked' \subseteq Shelf!Linked /\ LinksApart'
      /\ \A q \in Shelf!Linked' :
           \/ q = p /\ link'[q].status = "pending" /\ link'[q].id = link[q].id
           \/ q # p /\ link'[q] = link[q]
  BY <1>2, RequeuedKeeps, ApartNow
<1>4. /\ linksMade \in Nat /\ Shelf!Linked' \subseteq Products /\ base' = base
      /\ base \in [Products -> Int]
  BY DEF Shelf!CreateSalePrice, Shelf!DeleteSalePrice, ShelfInv, TagTypes, Shelf!Linked
<1>5. UNCHANGED <<queue, airing, shown, clock, overtaken>>
  BY DEF Shelf!CreateSalePrice, Shelf!DeleteSalePrice, Shelf!EditTags
<1>. QED  BY <1>1, <1>2, <1>3, <1>4, <1>5, TagEditKeeps

LEMMA PullProductKeeps ==
    ASSUME Shelf!TagsAssumption, ShelfInv, NEW p \in Products, NEW price \in Prices,
           Shelf!PullProduct(p, price)
    PROVE  ShelfInv'
<1>1. base' \in [Products -> Int] /\ \A q \in Products \ {p} : base'[q] = base[q]
  BY PricesAreNumbers DEF Shelf!PullProduct, ShelfInv, TagTypes
<1>2. Shelf!Linked' = Shelf!Linked /\ link' = link /\ linksMade' = linksMade
          /\ onSale' = onSale
  BY DEF Shelf!PullProduct, Shelf!Linked
<1>3. LinksApart' /\ DOMAIN link = Products /\ linksMade \in Nat
  BY <1>2 DEF Shelf!PullProduct, ShelfInv, TagTypes, LinksApart
<1>4. UNCHANGED <<queue, airing, shown, clock>> /\ overtaken' = overtaken \cup {p}
  BY DEF Shelf!PullProduct
<1>. QED  BY <1>1, <1>2, <1>3, <1>4, TagEditKeeps DEF Shelf!Linked

LEMMA UnbindKeeps ==
    ASSUME Shelf!TagsAssumption, ShelfInv, NEW p \in Products, Shelf!UnbindPriceTag(p)
    PROVE  ShelfInv'
<1>1. DOMAIN link = Products /\ base \in [Products -> Int] /\ linksMade \in Nat
  BY DEF ShelfInv, TagTypes
<1>2. /\ Shelf!Linked' \subseteq Shelf!Linked \ {p} /\ DOMAIN link' = Products
      /\ \A q \in Shelf!Linked' : link'[q] = link[q]
  BY <1>1 DEF Shelf!UnbindPriceTag, Shelf!Linked
<1>3. /\ UNCHANGED <<queue, airing, shown, clock, overtaken>>
      /\ UNCHANGED <<base, onSale, linksMade>>
  BY DEF Shelf!UnbindPriceTag, Shelf!EditTags
<1>4. LinksApart'
  BY <1>2, <1>3 DEF ShelfInv, LinksApart
<1>. QED  BY <1>1, <1>2, <1>3, <1>4, TagEditKeeps

LEMMA TagsIdle ==
    ASSUME Shelf!TagsAssumption, ShelfInv,
           \/ Shelf!ApplySettings /\ UNCHANGED <<link, queue>>
           \/ UNCHANGED Shelf!vars
    PROVE  ShelfInv'
<1>1. UNCHANGED <<base, onSale, link, linksMade, queue, airing, shown, overtaken, clock>>
  BY DEF Shelf!ApplySettings, Shelf!EditTags, Shelf!vars
<1>2. Shelf!Linked' = Shelf!Linked /\ TagTypes' /\ QueueApart'
  BY <1>1 DEF Shelf!Linked, ShelfInv, TagTypes, QueueApart
<1>3. LinksApart'
  BY <1>1, <1>2 DEF ShelfInv, LinksApart
<1>4. QueueUpToDate'
  BY <1>1, <1>2 DEF ShelfInv, QueueUpToDate, UpToDate
<1>5. Shelf!TagsTellThePrice'
  BY <1>1, <1>2 DEF ShelfInv, Shelf!TagsTellThePrice, Shelf!PriceNow, Shelf!BoundaryDue
<1>. QED  BY <1>2, <1>3, <1>4, <1>5 DEF ShelfInv

(* A sale that begins or ends now does so after every push.                *)
LEMMA TagsTick ==
    ASSUME Shelf!TagsAssumption, ShelfInv, Shelf!Tick
    PROVE  ShelfInv'
<1>1. UNCHANGED <<base, onSale, link, linksMade, queue, airing, shown, overtaken>>
      /\ clock' = clock + 1 /\ clock \in Nat
  BY DEF Shelf!Tick, ShelfInv, TagTypes
<1>2. Shelf!Linked' = Shelf!Linked /\ TagTypes' /\ QueueApart'
  BY <1>1 DEF Shelf!Linked, ShelfInv, TagTypes, QueueApart
<1>3. LinksApart'
  BY <1>1, <1>2 DEF ShelfInv, LinksApart, LinkRows
<1>4. QueueUpToDate'
  BY <1>1, <1>2 DEF ShelfInv, QueueUpToDate, UpToDate
<1>5. Shelf!TagsTellThePrice'
  <2> SUFFICES ASSUME NEW p \in Shelf!Linked \ overtaken, link[p].status = "synced"
               PROVE  shown[link[p].tag] = Shelf!PriceNow(p)' \/ Shelf!BoundaryDue(link, p)'
    BY <1>1, <1>2 DEF Shelf!TagsTellThePrice
  <2>1. shown[link[p].tag] = Shelf!PriceNow(p) \/ Shelf!BoundaryDue(link, p)
    BY DEF ShelfInv, Shelf!TagsTellThePrice
  <2>2. link[p].pushedAt \in Int /\ link[p].pushedAt <= clock /\ p \in Products
    BY DEF ShelfInv, LinksApart, LinkRows, Shelf!Linked
  <2>3. SaleStart[p] \in Nat /\ SaleEnd[p] \in Nat
    BY <2>2 DEF Shelf!TagsAssumption
  <2>4. CASE Shelf!BoundaryDue(link, p)
    BY <1>1, <1>2, <2>2, <2>3, <2>4 DEF Shelf!BoundaryDue
  <2>5. CASE Shelf!PriceNow(p)' = Shelf!PriceNow(p)
    BY <1>1, <1>2, <2>1, <2>4, <2>5
  <2>6. CASE Shelf!PriceNow(p)' # Shelf!PriceNow(p)
    <3>1. p \in onSale
      BY <1>1, <2>6 DEF Shelf!PriceNow
    <3>2. SaleStart[p] = clock + 1 \/ SaleEnd[p] = clock + 1
      BY <1>1, <2>3, <2>6 DEF Shelf!PriceNow
    <3>. QED  BY <1>1, <1>2, <2>2, <2>3, <3>1, <3>2 DEF Shelf!BoundaryDue, Shelf!Linked
  <2>. QED  BY <2>5, <2>6
<1>. QED  BY <1>2, <1>3, <1>4, <1>5 DEF ShelfInv

(* A pass over the links l that an edit left, if any: what it reads is to  *)
(* be pushed, each entry once, and what it marks is no longer synced.      *)
LEMMA PassKeeps ==
    ASSUME Shelf!TagsAssumption, ShelfInv, NEW l, Shelf!ProcessPending(l),
           UNCHANGED <<base, onSale, airing, shown, overtaken, clock>>,
           DOMAIN l = Products, linksMade' \in Nat, linksMade <= linksMade',
           Apart(l, linksMade'),
           \A p \in LinkedIn(l) :
             \/ l[p].status = "pending" /\ p \in Shelf!Linked /\ l[p].id = link[p].id
             \/ l[p].status = "pending" /\ l[p].id > linksMade
             \/ p \in Shelf!Linked /\ l[p] = link[p]
    PROVE  ShelfInv'
<1> DEFINE marked == [p \in Products |->
                        IF Shelf!BoundaryDue(l, p) THEN [l[p] EXCEPT !.status = "pending"]
                        ELSE l[p]]
           pending == {p \in Products : marked[p] # None /\ marked[p].status = "pending"}
<1>a. CASE queue # <<>>
  <2>1. link' = l /\ queue' = queue
    BY <1>a DEF Shelf!ProcessPending
  <2>2. LinksApart' /\ Shelf!Linked' = LinkedIn(l)
    BY <2>1, ApartNow
  <2>3. base' \in [Products -> Int]
    BY DEF ShelfInv, TagTypes
  <2>. QED  BY <2>1, <2>2, <2>3, TagEditKeeps
<1>b. SUFFICES ASSUME queue = <<>> PROVE ShelfInv'
  BY <1>a
<1>1. link' = marked
  BY <1>b DEF Shelf!ProcessPending
<1>2. PICK ids \in [1..Cardinality(pending) -> pending] :
        /\ \A p \in pending : \E i \in DOMAIN ids : ids[i] = p
        /\ queue' = [i \in DOMAIN ids |->
             [id |-> l[ids[i]].id, product |-> ids[i], tag |-> l[ids[i]].tag]]
  BY <1>b, ShelfCounts DEF Shelf!ProcessPending
<1>3. \A p \in LinkedIn(l) : /\ l[p] \in LinkRows /\ l[p].id \in 1..linksMade'
                          /\ l[p].id \in Nat /\ l[p].tag \in Tags
                          /\ l[p].pushedAt <= clock /\ p \in Products
  BY DEF Apart, LinkRows, LinkedIn
<1>4. /\ DOMAIN link' = Products
      /\ \A p \in Products :
           \/ ~Shelf!BoundaryDue(l, p) /\ link'[p] = l[p]
           \/ /\ p \in LinkedIn(l)
              /\ link'[p] = [l[p] EXCEPT !.status = "pending"]
  BY <1>1 DEF Shelf!BoundaryDue, LinkedIn
<1>5. Shelf!Linked' \subseteq LinkedIn(l)
  BY <1>4 DEF Shelf!Linked, LinkedIn
<1>6. \A p \in Shelf!Linked' :
        /\ link'[p] \in LinkRows /\ link'[p].id = l[p].id /\ link'[p].tag = l[p].tag
        /\ link'[p].pushedAt = l[p].pushedAt
        /\ \/ ~Shelf!BoundaryDue(l, p) /\ link'[p] = l[p]
           \/ link'[p].status = "pending"
  <2> SUFFICES ASSUME NEW p \in Shelf!Linked'
               PROVE  /\ link'[p] \in LinkRows /\ link'[p].id = l[p].id
                      /\ link'[p].tag = l[p].tag
                      /\ link'[p].pushedAt = l[p].pushedAt
                      /\ \/ ~Shelf!BoundaryDue(l, p) /\ link'[p] = l[p]
                         \/ link'[p].status = "pending"
    OBVIOUS
  <2>1. l[p] \in LinkRows /\ p \in Products
    BY <1>3, <1>5
  <2>2. CASE ~Shelf!BoundaryDue(l, p) /\ link'[p] = l[p]
    BY <2>1, <2>2
  <2>3. CASE link'[p] = [l[p] EXCEPT !.status = "pending"]
    BY <2>1, <2>3 DEF LinkRows, LinkStatus
  <2>. QED  BY <1>4, <2>1, <2>2, <2>3
<1>7. LinksApart'
  BY <1>3, <1>5, <1>6 DEF Apart, LinksApart
<1>8. Cardinality(pending) \in Nat /\ pending \subseteq LinkedIn(l)
      /\ \A i, j \in 1..Cardinality(pending) : ids[i] = ids[j] => i = j
  <2>1. pending \in SUBSET Products /\ IsFiniteSet(Products)
    BY ShelfCounts DEF Shelf!TagsAssumption
  <2>a. pending \subseteq LinkedIn(l)
    BY DEF Shelf!BoundaryDue, LinkedIn
  <2> HIDE DEF marked
  <2>2. IsFiniteSet(pending)
    BY <2>1, FS_Subset
  <2> DEFINE n == Cardinality(pending)
  <2>3. n \in Nat
    BY <2>2, FS_CardinalityType
  <2>4. IsFiniteSet(1..n) /\ Cardinality(1..n) = n
    BY <2>3, FS_Interval
  <2>5. ids \in Surjection(1..n, pending)
    BY <1>2 DEF Surjection
  <2>6. ids \in Injection(1..n, pending)
    BY <2>4, <2>5, FS_SurjSameCardinalityImpliesInj
  <2>7. \A i, j \in 1..n : ids[i] = ids[j] => i = j
    BY <2>6 DEF Injection, IsInjective
  <2>. QED  BY <2>a, <2>3, <2>7
<1> HIDE DEF marked
<1> DEFINE n == Cardinality(pending)
<1>9. \A i \in 1..n : /\ ids[i] \in LinkedIn(l)
                      /\ queue'[i] \in Pushes
                      /\ queue'[i].product = ids[i]
                      /\ queue'[i].id = l[ids[i]].id
                      /\ queue'[i].tag = l[ids[i]].tag
  <2> SUFFICES ASSUME NEW i \in 1..n
               PROVE  /\ ids[i] \in LinkedIn(l)
                      /\ queue'[i] \in Pushes
                      /\ queue'[i].product = ids[i]
                      /\ queue'[i].id = l[ids[i]].id
                      /\ queue'[i].tag = l[ids[i]].tag
    OBVIOUS
  <2>1. ids[i] \in LinkedIn(l)
    BY <1>2, <1>8
  <2>2. queue'[i] = [id |-> l[ids[i]].id, product |-> ids[i],
                     tag |-> l[ids[i]].tag]
    BY <1>2
  <2>. QED  BY <1>3, <2>1, <2>2 DEF Pushes
<1>10. queue' \in Seq(Pushes) /\ Len(queue') = n
  <2>1. DOMAIN queue' = 1..n /\ queue' = [i \in 1..n |-> queue'[i]] /\ n \in Nat
    BY <1>2, <1>8
  <2>2. queue' \in [1..n -> Pushes]
    BY <1>9, <2>1
  <2> HIDE DEF n
  <2>. QED  BY <2>1, <2>2, IsASeq
<1> HIDE DEF pending, n
<1>11. airing = None
  BY <1>b DEF ShelfInv, TagTypes
<1>12. TagTypes'
  BY <1>4, <1>10, <1>11 DEF ShelfInv, TagTypes
<1>13. QueueApart'
  <2>1. \A i \in 1..n : queue'[i].id <= linksMade'
    BY <1>3, <1>9
  <2>2. \A i, j \in 1..n : Overlap(queue'[i], queue'[j]) => ids[i] = ids[j]
    BY <1>9 DEF Apart, Overlap
  <2>3. \A i, j \in 1..n : ids[i] = ids[j] => i = j
    BY <1>8 DEF n
  <2>4. Len(queue') = n
    BY <1>10
  <2> DEFINE q == queue'
  <2>5. /\ \A i \in 1..Len(q) : q[i].id <= linksMade'
        /\ \A i, j \in 1..Len(q) : Overlap(q[i], q[j]) => i = j
    BY <2>1, <2>2, <2>3, <2>4
  <2>. QED  BY <2>5 DEF QueueApart
<1>14. QueueUpToDate'
  <2> SUFFICES ASSUME NEW p \in Shelf!Linked', NEW i \in 1..n
               PROVE  UpToDate(p, queue[i])'
    BY <1>10 DEF QueueUpToDate
  <2>1. p \in LinkedIn(l) /\ link'[p].id = l[p].id /\ link'[p].tag = l[p].tag
    BY <1>5, <1>6
  <2>. QED  BY <1>9, <2>1 DEF UpToDate, Apart
<1>15. Shelf!TagsTellThePrice'
  <2> SUFFICES ASSUME NEW p \in Shelf!Linked' \ overtaken, link'[p].status = "synced"
               PROVE  shown[link'[p].tag] = Shelf!PriceNow(p)'
                      \/ Shelf!BoundaryDue(link, p)'
    BY DEF Shelf!TagsTellThePrice
  <2>1. p \in LinkedIn(l) /\ link'[p] = l[p] /\ ~Shelf!BoundaryDue(l, p)
    BY <1>5, <1>6
  <2>2. p \in Shelf!Linked /\ l[p] = link[p]
    BY <2>1
  <2>3. shown[link[p].tag] = Shelf!PriceNow(p)
    BY <2>1, <2>2 DEF ShelfInv, Shelf!TagsTellThePrice, Shelf!BoundaryDue
  <2>. QED  BY <2>1, <2>2, <2>3 DEF Shelf!PriceNow
<1>. QED  BY <1>7, <1>12, <1>13, <1>14, <1>15 DEF ShelfInv

(* The timer's pass, and the one that an access point starts with.         *)
LEMMA PollKeeps ==
    ASSUME Shelf!TagsAssumption, ShelfInv, Shelf!ProcessPending(link),
           UNCHANGED <<base, onSale, linksMade, airing, shown, overtaken, clock>>
    PROVE  ShelfInv'
<1>1. DOMAIN link = Products /\ linksMade \in Nat
  BY DEF ShelfInv, TagTypes
<1>2. LinkedIn(link) = Shelf!Linked /\ Apart(link, linksMade)
  BY DEF LinkedIn, Shelf!Linked, Apart, ShelfInv, LinksApart
<1>. QED  BY <1>1, <1>2, PassKeeps

LEMMA PushNowKeeps ==
    ASSUME Shelf!TagsAssumption, ShelfInv, NEW p \in Products, Shelf!PushNow(p)
    PROVE  ShelfInv'
<1> DEFINE l == Shelf!Requeued(p)
<1>1. DOMAIN link = Products /\ linksMade \in Nat
  BY DEF ShelfInv, TagTypes
<1>2. /\ Shelf!ProcessPending(l)
      /\ UNCHANGED <<base, onSale, linksMade, airing, shown, overtaken, clock>>
  BY DEF Shelf!PushNow, Shelf!EditTags
<1>3. /\ DOMAIN l = Products /\ LinkedIn(l) \subseteq Shelf!Linked
      /\ Apart(l, linksMade)
      /\ \A q \in LinkedIn(l) :
           \/ q = p /\ l[q].status = "pending" /\ l[q].id = link[q].id
           \/ q # p /\ l[q] = link[q]
  BY RequeuedKeeps
<1> HIDE DEF l
<1>. QED  BY <1>1, <1>2, <1>3, PassKeeps

(* A product that is given a tag waits for a push, under its id or a new   *)
(* one, and the product that had the tag is not linked any more.           *)
LEMMA AssignKeeps ==
    ASSUME Shelf!TagsAssumption, ShelfInv, NEW p \in Products, NEW t \in Tags,
           Shelf!AssignPriceTag(p, t)
    PROVE  ShelfInv'
<1> DEFINE id == IF link[p] = None THEN linksMade + 1 ELSE link[p].id
           at == IF link[p] = None THEN -1 ELSE link[p].pushedAt
           row == [id |-> id, tag |-> t, status |-> "pending", attempts |-> 0,
                   pushedAt |-> at]
           l == Shelf!Assigned(p, t)
<1>1. DOMAIN link = Products /\ base \in [Products -> Int] /\ linksMade \in Nat
      /\ clock \in Nat
  BY DEF ShelfInv, TagTypes
<1>2. /\ UNCHANGED <<base, onSale, airing, shown, overtaken, clock>>
      /\ Shelf!ProcessPending(l)
      /\ linksMade' = (IF link[p] = None THEN linksMade + 1 ELSE linksMade)
  BY DEF Shelf!AssignPriceTag, Shelf!EditTags
<1>3. /\ DOMAIN l = Products
      /\ l[p] = row
      /\ \A q \in LinkedIn(l) \ {p} : q \in Shelf!Linked /\ l[q] = link[q]
          /\ link[q].tag # t
  BY DEF Shelf!Assigned, Shelf!Linked, LinkedIn
<1> HIDE DEF l
<1>4. \A q \in Shelf!Linked : link[q] \in LinkRows /\ link[q].id \in 1..linksMade
                        /\ link[q].pushedAt <= clock /\ link[q].pushedAt \in Int
                        /\ link[q].id \in Nat
  BY DEF ShelfInv, LinksApart, LinkRows
<1>5. linksMade' \in Nat /\ linksMade <= linksMade'
  BY <1>1, <1>2
<1>6. /\ id \in 1..linksMade' /\ id \in Nat /\ at \in Int /\ at <= clock
      /\ \/ p \in Shelf!Linked /\ id = link[p].id
         \/ id = linksMade + 1
  BY <1>1, <1>2, <1>4 DEF Shelf!Linked
<1>7. row \in LinkRows
  BY <1>6 DEF LinkRows, LinkStatus, Shelf!TagsAssumption
<1>8. Apart(l, linksMade')
  <2>1. /\ l[p] \in LinkRows /\ l[p].id = id /\ l[p].tag = t
        /\ l[p].pushedAt = at
    BY <1>3, <1>7
  <2>2. \A q \in LinkedIn(l) : l[q] \in LinkRows /\ l[q].id \in 1..linksMade'
                           /\ l[q].pushedAt <= clock
    <3> SUFFICES ASSUME NEW q \in LinkedIn(l)
                 PROVE l[q] \in LinkRows /\ l[q].id \in 1..linksMade'
                           /\ l[q].pushedAt <= clock
      OBVIOUS
    <3>1. CASE q = p
      BY <2>1, <1>2, <1>6, <3>1
    <3>2. CASE q # p
      BY <1>1, <1>2, <1>3, <1>4, <1>5, <3>2
    <3>. QED  BY <3>1, <3>2
  <2>3. \A q \in LinkedIn(l) \ {p} : l[q].tag # t /\ l[q].id # id
    <3> SUFFICES ASSUME NEW q \in LinkedIn(l) \ {p}
                 PROVE  l[q].tag # t /\ l[q].id # id
      OBVIOUS
    <3>1. q \in Shelf!Linked /\ l[q] = link[q] /\ link[q].tag # t
              /\ link[q].id \in 1..linksMade
      BY <1>3, <1>4
    <3>2. CASE p \in Shelf!Linked /\ id = link[p].id
      BY <3>1, <3>2 DEF ShelfInv, LinksApart
    <3>3. CASE id = linksMade + 1
      BY <1>1, <3>1, <3>3
    <3>. QED  BY <1>6, <3>1, <3>2, <3>3
  <2>4. \A q, r \in LinkedIn(l) \ {p} :
          l[q].tag = l[r].tag \/ l[q].id = l[r].id => q = r
    BY <1>3 DEF ShelfInv, LinksApart
  <2> HIDE DEF id, at, row
  <2>. QED  BY <2>1, <2>2, <2>3, <2>4 DEF Apart
<1>9. \A q \in LinkedIn(l) :
        \/ l[q].status = "pending" /\ q \in Shelf!Linked /\ l[q].id = link[q].id
        \/ l[q].status = "pending" /\ l[q].id > linksMade
        \/ q \in Shelf!Linked /\ l[q] = link[q]
  <2> SUFFICES ASSUME NEW q \in LinkedIn(l)
               PROVE
                 \/ l[q].status = "pending" /\ q \in Shelf!Linked
                    /\ l[q].id = link[q].id
                 \/ l[q].status = "pending" /\ l[q].id > linksMade
                 \/ q \in Shelf!Linked /\ l[q] = link[q]
    OBVIOUS
  <2>1. l[p].status = "pending" /\ l[p].id = id
    BY <1>3
  <2>. QED  BY <1>1, <1>3, <1>6, <2>1
<1>. QED  BY <1>1, <1>2, <1>3, <1>5, <1>8, <1>9, PassKeeps

LEMMA PushLinkKeeps ==
    ASSUME Shelf!TagsAssumption, ShelfInv, Shelf!PushLink
    PROVE  ShelfInv'
<1>1. /\ UNCHANGED <<base, onSale, link, linksMade, queue, shown, overtaken, clock>>
      /\ queue # <<>>
  BY DEF Shelf!PushLink
<1>2. Shelf!Linked' = Shelf!Linked /\ TagTypes' /\ QueueApart'
  BY <1>1 DEF Shelf!Linked, ShelfInv, TagTypes, QueueApart
<1>3. LinksApart'
  BY <1>1, <1>2 DEF ShelfInv, LinksApart
<1>4. QueueUpToDate'
  BY <1>1, <1>2 DEF ShelfInv, QueueUpToDate, UpToDate
<1>5. Shelf!TagsTellThePrice'
  BY <1>1, <1>2 DEF ShelfInv, Shelf!TagsTellThePrice, Shelf!PriceNow, Shelf!BoundaryDue
<1>. QED  BY <1>2, <1>3, <1>4, <1>5 DEF ShelfInv

(* What is left of the queue when a push ends.                             *)
LEMMA PushEndsQueue ==
    ASSUME ShelfInv, queue # <<>>, queue' = Tail(queue)
    PROVE  /\ queue # <<>> /\ 1 \in 1..Len(queue) /\ Head(queue) = queue[1]
           /\ Head(queue) \in Pushes
           /\ queue' \in Seq(Pushes)
           /\ Len(queue') = Len(queue) - 1 /\ Len(queue) \in Nat
           /\ \A i \in 1..Len(queue') :
                i + 1 \in 1..Len(queue) /\ queue'[i] = queue[i + 1]
<1>1. queue \in Seq(Pushes) /\ queue # <<>>
  BY DEF ShelfInv, TagTypes
<1>2. Len(queue) \in Nat \ {0} /\ Head(queue) = queue[1] /\ queue[1] \in Pushes
  BY <1>1
<1>3. queue' \in Seq(Pushes) /\ Len(queue') = Len(queue) - 1
  BY <1>1
<1>4. \A i \in 1..Len(queue') : queue'[i] = queue[i + 1]
  BY <1>1
<1>. QED  BY <1>1, <1>2, <1>3, <1>4

LEMMA PushEndsKeeps ==
    ASSUME Shelf!TagsAssumption, ShelfInv, NEW ok \in BOOLEAN, queue # <<>>,
           Shelf!PushEnds(ok),
           \/ ok /\ Shelf!PushArrives
           \/ ~ok /\ overtaken' = overtaken
                  /\ shown' \in {shown, [shown EXCEPT ![Head(queue).tag] = airing]}
    PROVE  ShelfInv'
<1> DEFINE push == Head(queue)
<1>1. /\ UNCHANGED <<base, onSale, linksMade, clock>>
      /\ airing' = None /\ queue' = Tail(queue) /\ link' = Shelf!Recorded(ok)
  BY DEF Shelf!PushEnds
<1>2. /\ queue # <<>> /\ 1 \in 1..Len(queue) /\ push = queue[1] /\ push \in Pushes
      /\ queue' \in Seq(Pushes)
      /\ Len(queue') = Len(queue) - 1 /\ Len(queue) \in Nat
      /\ \A i \in 1..Len(queue') : i + 1 \in 1..Len(queue) /\ queue'[i] = queue[i + 1]
  BY <1>1, PushEndsQueue
<1>3. \A p \in Shelf!Linked : /\ link[p] \in LinkRows /\ link[p].id \in 1..linksMade
                        /\ link[p].pushedAt <= clock /\ p \in Products
  BY DEF ShelfInv, LinksApart, Shelf!Linked
<1> DEFINE row(p) ==
      [link[p] EXCEPT
         !.status = CASE ok -> "synced"
                      [] ~ok /\ link[p].attempts + 1 >= MaxPushes -> "error"
                      [] OTHER -> "pending",
         !.attempts = IF @ < MaxPushes THEN @ + 1 ELSE @,
         !.pushedAt = IF ok THEN clock ELSE @]
<1>4. /\ DOMAIN link' = Products
      /\ \A p \in Products :
           \/ (p \notin Shelf!Linked \/ link[p].id # push.id) /\ link'[p] = link[p]
           \/ p \in Shelf!Linked /\ link[p].id = push.id /\ link'[p] = row(p)
  BY <1>1 DEF Shelf!Recorded
<1>5. Shelf!Linked' \subseteq Shelf!Linked /\ Shelf!Linked' \subseteq Products
  BY <1>4 DEF Shelf!Linked
<1>6. clock \in Nat /\ MaxPushes \in Nat \ {0} /\ clock' = clock
  BY <1>1 DEF ShelfInv, TagTypes, Shelf!TagsAssumption
<1>7. \A p \in Shelf!Linked' :
        /\ link'[p] \in LinkRows /\ link'[p].id = link[p].id /\ link'[p].tag = link[p].tag
        /\ link'[p].pushedAt <= clock
        /\ \/ link[p].id # push.id /\ link'[p] = link[p]
           \/ link[p].id = push.id /\ (link'[p].status = "synced" => ok)
  <2> SUFFICES ASSUME NEW p \in Shelf!Linked'
               PROVE  /\ link'[p] \in LinkRows /\ link'[p].id = link[p].id
                      /\ link'[p].tag = link[p].tag
                      /\ link'[p].pushedAt <= clock
                      /\ \/ link[p].id # push.id /\ link'[p] = link[p]
                         \/ link[p].id = push.id /\ (link'[p].status = "synced" => ok)
    OBVIOUS
  <2>1. p \in Shelf!Linked /\ link[p] \in LinkRows /\ p \in Products
            /\ link[p].pushedAt <= clock
    BY <1>3, <1>5
  <2>2. CASE link[p].id # push.id /\ link'[p] = link[p]
    BY <2>1, <2>2
  <2>3. CASE link[p].id = push.id /\ link'[p] = row(p)
    <3>1. link[p].attempts \in 0..MaxPushes /\ link[p].pushedAt \in Int
      BY <2>1 DEF LinkRows
    <3>2. (IF link[p].attempts < MaxPushes THEN link[p].attempts + 1
           ELSE link[p].attempts) \in 0..MaxPushes
      BY <1>6, <3>1
    <3>3. (IF ok THEN clock ELSE link[p].pushedAt) \in Int
      BY <1>6, <3>1
    <3> DEFINE st == CASE ok -> "synced"
                      [] ~ok /\ link[p].attempts + 1 >= MaxPushes -> "error"
                      [] OTHER -> "pending"
    <3>4. st \in LinkStatus /\ (st = "synced" => ok)
      BY DEF LinkStatus
    <3> HIDE DEF st
    <3>5. row(p) \in LinkRows /\ row(p).id = link[p].id /\ row(p).tag = link[p].tag
          /\ row(p).pushedAt = (IF ok THEN clock ELSE link[p].pushedAt)
          /\ row(p).status = st
      BY <2>1, <3>2, <3>3, <3>4 DEF LinkRows, st
    <3>. QED  BY <1>6, <2>1, <2>3, <3>4, <3>5
  <2>. QED  BY <1>4, <2>1, <2>2, <2>3
<1> HIDE DEF push
<1>8. LinksApart'
  <2>1. \A p \in Shelf!Linked' : link'[p] \in LinkRows /\ link'[p].id \in 1..linksMade'
                           /\ link'[p].pushedAt <= clock'
    BY <1>1, <1>3, <1>5, <1>7
  <2>2. \A p, q \in Shelf!Linked' : link'[p].tag = link'[q].tag \/ link'[p].id = link'[q].id
                                => p = q
    BY <1>5, <1>7 DEF ShelfInv, LinksApart
  <2>. QED  BY <2>1, <2>2 DEF LinksApart
<1>9. QueueApart'
  <2> DEFINE q == queue'
  <2>1. \A i \in 1..Len(q) : q[i].id <= linksMade
    BY <1>2 DEF ShelfInv, QueueApart
  <2>2. \A i, j \in 1..Len(q) : Overlap(q[i], q[j]) => i + 1 = j + 1
    BY <1>2 DEF ShelfInv, QueueApart
  <2>3. \A i, j \in 1..Len(q) : i + 1 = j + 1 => i = j
    OBVIOUS
  <2> HIDE DEF q
  <2>4. /\ \A i \in 1..Len(q) : q[i].id <= linksMade'
        /\ \A i, j \in 1..Len(q) : Overlap(q[i], q[j]) => i = j
    BY <1>1, <2>1, <2>2, <2>3
  <2>. QED  BY <2>4 DEF QueueApart, q
<1>10. DOMAIN shown' = Tags
  BY DEF Shelf!PushArrives, ShelfInv, TagTypes
<1>11. TagTypes'
  BY <1>1, <1>2, <1>4, <1>10 DEF ShelfInv, TagTypes
<1>12. \A i \in 1..Len(queue') : /\ queue'[i].id # push.id
                                /\ queue'[i].product # push.product
                                /\ queue'[i].tag # push.tag
  <2> SUFFICES ASSUME NEW i \in 1..Len(queue')
               PROVE  /\ queue'[i].id # push.id
                      /\ queue'[i].product # push.product
                      /\ queue'[i].tag # push.tag
    OBVIOUS
  <2>1. i \in Nat /\ i + 1 # 1 /\ i + 1 \in 1..Len(queue) /\ queue'[i] = queue[i + 1]
    BY <1>2
  <2>. QED  BY <1>2, <2>1 DEF ShelfInv, QueueApart, Overlap
<1>13. \A p \in Shelf!Linked : UpToDate(p, push)
  BY <1>2 DEF ShelfInv, QueueUpToDate
(* A product that the push was for and that kept the link.                 *)
<1>14. \A p \in Shelf!Linked' \ overtaken' :
         link[p].id = push.id /\ link'[p].status = "synced" =>
           /\ ok /\ p = push.product /\ link[p].tag = push.tag
           /\ Shelf!PriceNow(p) = airing /\ shown'[push.tag] = airing
  <2> SUFFICES ASSUME NEW p \in Shelf!Linked' \ overtaken', link[p].id = push.id,
                      link'[p].status = "synced"
               PROVE  /\ ok /\ p = push.product /\ link[p].tag = push.tag
                      /\ Shelf!PriceNow(p) = airing /\ shown'[push.tag] = airing
    OBVIOUS
  <2>1. ok /\ p \in Shelf!Linked
    BY <1>5, <1>7
  <2>2. p = push.product
    BY <1>13, <2>1 DEF UpToDate
  <2>3. Shelf!PushArrives
    BY <2>1
  <2>4. link[p] # None
    BY <2>1 DEF Shelf!Linked
  <2>5. Shelf!PriceNow(p) = airing /\ link[p].tag = push.tag
    BY <2>2, <2>3, <2>4 DEF Shelf!PushArrives, push
  <2>6. push.tag \in Tags
    BY <1>2 DEF Pushes
  <2>7. shown'[push.tag] = airing
    BY <2>3, <2>6 DEF Shelf!PushArrives, push, ShelfInv, TagTypes
  <2>. QED  BY <2>1, <2>2, <2>5, <2>7
(* Another synced product, or one with a new link, is not on that tag.     *)
<1>15. \A p \in Shelf!Linked' :
         link[p].id # push.id /\ link'[p].status = "synced" =>
           /\ p # push.product /\ link[p].status = "synced"
           /\ (p \in overtaken' <=> p \in overtaken)
           /\ p \in overtaken \/ link[p].tag # push.tag
  <2> SUFFICES ASSUME NEW p \in Shelf!Linked', link[p].id # push.id,
                      link'[p].status = "synced"
               PROVE  /\ p # push.product /\ link[p].status = "synced"
                      /\ (p \in overtaken' <=> p \in overtaken)
                      /\ p \in overtaken \/ link[p].tag # push.tag
    OBVIOUS
  <2>1. link'[p] = link[p] /\ link[p].status = "synced" /\ p \in Shelf!Linked
    BY <1>5, <1>7
  <2>2. p # push.product /\ (p \in overtaken \/ link[p].tag # push.tag)
    BY <1>13, <2>1 DEF UpToDate
  <2>3. p \in overtaken' <=> p \in overtaken
    BY <2>2 DEF Shelf!PushArrives, push
  <2>. QED  BY <2>1, <2>2, <2>3
<1>16. QueueUpToDate'
  <2> SUFFICES ASSUME NEW p \in Shelf!Linked', NEW i \in 1..Len(queue')
               PROVE  UpToDate(p, queue[i])'
    BY DEF QueueUpToDate
  <2>1. UpToDate(p, queue'[i]) /\ p \in Shelf!Linked
    BY <1>2, <1>5 DEF ShelfInv, QueueUpToDate
  <2>2. link'[p].id = link[p].id /\ link'[p].tag = link[p].tag
    BY <1>7
  <2>3. CASE link'[p].status # "synced"
    BY <2>1, <2>2, <2>3 DEF UpToDate
  <2>4. CASE link'[p].status = "synced" /\ link[p].id # push.id
    <3>1. link[p].status = "synced" /\ (p \in overtaken' <=> p \in overtaken)
      BY <1>15, <2>4
    <3>. QED  BY <2>1, <2>2, <3>1 DEF UpToDate
  <2>5. CASE link'[p].status = "synced" /\ link[p].id = push.id
    <3>1. p = push.product
      BY <1>5, <1>13, <2>5 DEF UpToDate
    <3>2. p # queue'[i].product /\ link[p].id # queue'[i].id
      BY <1>12, <2>5, <3>1
    <3>3. p \notin overtaken' => link[p].tag # queue'[i].tag
      BY <1>12, <1>14, <2>5
    <3>. QED  BY <2>2, <3>2, <3>3 DEF UpToDate
  <2>. QED  BY <2>3, <2>4, <2>5
<1>17. Shelf!TagsTellThePrice'
  <2> SUFFICES ASSUME NEW p \in Shelf!Linked' \ overtaken', link'[p].status = "synced"
               PROVE  shown'[link'[p].tag] = Shelf!PriceNow(p)' \/ Shelf!BoundaryDue(link, p)'
    BY DEF Shelf!TagsTellThePrice
  <2>1. link'[p].tag = link[p].tag /\ p \in Shelf!Linked
            /\ Shelf!PriceNow(p)' = Shelf!PriceNow(p)
    BY <1>1, <1>5, <1>7 DEF Shelf!PriceNow
  <2>2. CASE link[p].id = push.id
    BY <1>14, <2>1, <2>2
  <2>3. CASE link[p].id # push.id
    <3>1. link'[p] = link[p] /\ p \in Shelf!Linked \ overtaken
              /\ link[p].status = "synced"
          /\ link[p].tag # push.tag
      BY <1>7, <1>15, <2>1, <2>3
    <3>2. shown'[link[p].tag] = shown[link[p].tag]
      <4>1. link[p].tag \in Tags /\ DOMAIN shown = Tags
        BY <3>1 DEF ShelfInv, TagTypes, LinksApart, LinkRows
      <4>. QED  BY <3>1, <4>1 DEF Shelf!PushArrives, push
    <3>3. shown[link[p].tag] = Shelf!PriceNow(p) \/ Shelf!BoundaryDue(link, p)
      BY <3>1 DEF ShelfInv, Shelf!TagsTellThePrice
    <3>4. Shelf!BoundaryDue(link, p) => Shelf!BoundaryDue(link, p)'
      BY <1>1, <3>1 DEF Shelf!BoundaryDue
    <3>. QED  BY <2>1, <3>2, <3>3, <3>4
  <2>. QED  BY <2>2, <2>3
<1>. QED  BY <1>8, <1>9, <1>11, <1>16, <1>17 DEF ShelfInv

LEMMA ShelfKept ==
    Shelf!TagsAssumption /\ ShelfInv /\ [Shelf!Next]_(Shelf!vars) => ShelfInv'
<1> SUFFICES ASSUME Shelf!TagsAssumption, ShelfInv, [Shelf!Next]_(Shelf!vars)
             PROVE  ShelfInv'
  OBVIOUS
<1>1. CASE \E p \in Products :
             \/ \E price \in Prices :
                  Shelf!UpdateProduct(p, price) \/ Shelf!PullProduct(p, price)
             \/ Shelf!CreateSalePrice(p) \/ Shelf!DeleteSalePrice(p)
             \/ \E t \in Tags : Shelf!AssignPriceTag(p, t)
             \/ Shelf!UnbindPriceTag(p) \/ Shelf!PushNow(p)
  BY <1>1, UpdateProductKeeps, PullProductKeeps, SaleKeeps, AssignKeeps, UnbindKeeps,
     PushNowKeeps
<1>2. CASE Shelf!ApplySettings \/ UNCHANGED Shelf!vars
  BY <1>2, TagsIdle, PollKeeps DEF Shelf!ApplySettings, Shelf!EditTags
<1>3. CASE Shelf!PollTags \/ Shelf!PushLink \/ Shelf!Tick
  BY <1>3, PollKeeps, PushLinkKeeps, TagsTick DEF Shelf!PollTags
<1>4. CASE Shelf!PushArrives
  BY <1>4, PushEndsKeeps DEF Shelf!PushArrives, ShelfInv, TagTypes
<1>5. CASE Shelf!PushFails
  BY <1>5, PushEndsKeeps DEF Shelf!PushFails, ShelfInv, TagTypes
<1>6. CASE Shelf!PushRefused
  BY <1>6, PushEndsKeeps DEF Shelf!PushRefused
<1>. QED  BY <1>1, <1>2, <1>3, <1>4, <1>5, <1>6 DEF Shelf!Next, Shelf!DriverStep

LEMMA ShelfHolds == ShelfInv => Shelf!TypeOK /\ Shelf!TagsTellThePrice
<1> SUFFICES ASSUME ShelfInv PROVE Shelf!TypeOK /\ Shelf!TagsTellThePrice
  OBVIOUS
<1>1. \A p \in Shelf!Linked : /\ link[p].id \in 1..linksMade
                        /\ link[p].tag \in Tags
                        /\ link[p].status \in {"pending", "synced", "error"}
                        /\ link[p].attempts \in 0..MaxPushes
  BY DEF ShelfInv, LinksApart, LinkRows, LinkStatus
<1>. QED  BY <1>1 DEF ShelfInv, Shelf!TypeOK, TagTypes, LinksApart

(* Price tags keep the types of their state, and a synced one shows the    *)
(* price the register charges unless its push was overtaken (EslDriver,    *)
(* recordPriceTagPush).                                                    *)
THEOREM ShelfCorrect ==
    Shelf!TagsAssumption => (Shelf!Spec => [](Shelf!TypeOK /\ Shelf!TagsTellThePrice))
<1> SUFFICES ASSUME Shelf!TagsAssumption
             PROVE  Shelf!Spec => [](Shelf!TypeOK /\ Shelf!TagsTellThePrice)
  OBVIOUS
<1>1. ShelfInv /\ [Shelf!Next]_(Shelf!vars) => ShelfInv'
  BY ShelfKept
<1>. QED  BY ShelfInitially, <1>1, ShelfHolds, PTL DEF Shelf!Spec

-----------------------------------------------------------------------------
(* The kiosk *)

Modes == {"none", "lan", "cloud"}
Tokens == {"none", "current", "stale"}
ChargeStatuses == Kiosk!TerminalStatus \cup Kiosk!Unsettled
ChargeRows == [at : {"lan", "cloud"}, status : ChargeStatuses]
KioskStates == [mode : Modes, token : Tokens, inFlight : Kiosk!Charges \cup {None}]

KioskTypes ==
    /\ mode \in Modes /\ token \in Tokens /\ (Kiosk!Paired => mode # "none")
    /\ file \in KioskStates /\ (file.token # "none" => file.mode # "none")
    /\ call \in {"idle", "persisting", "ready", "waiting"}
    /\ tx \in [Kiosk!Charges -> ChargeRows \cup {None}]
    /\ dropped \in [Kiosk!Charges -> Kiosk!TerminalStatus \cup {None}]
    /\ again \in [Kiosk!Charges -> Kiosk!Charges \cup {None, 0}]

(* Charges are counted; a cart is charged again under a higher number.     *)
Counted ==
    /\ charges \in Nat /\ charges <= MaxCharges
    /\ \A c \in Kiosk!Charges : tx[c] # None \/ dropped[c] # None => c <= charges
    /\ \A c \in Kiosk!Charges : again[c] \in Kiosk!Charges => again[c] < c /\ c <= charges
    /\ \A c \in {inFlight, asked, polling, cart, file.inFlight} :
          c = None \/ (c \in Nat /\ c <= charges)
    /\ {inFlight, asked, polling} \subseteq Kiosk!Charges \cup {None}
    /\ cart \in Kiosk!Charges \cup {None, 0}

(* What charge() knows wherever it waits.                                  *)
CallsKept ==
    /\ call # "idle" => asked = charges /\ asked \in Kiosk!Charges /\ mode # "none"
    /\ call \in {"persisting", "ready"} => tx[asked] = None
    /\ call = "waiting" => tx[asked] \in ChargeRows
    /\ call = "ready" => file.mode = mode
    /\ ~kioskUp => call = "idle" /\ polling = None /\ mode = file.mode

InCloud ==
    \A c \in Kiosk!Charges : tx[c] # None /\ tx[c].at = "cloud" =>
        mode = "cloud" /\ file.mode = "cloud"

Flight ==
    /\ call # "idle" => /\ inFlight = asked /\ cart = asked /\ ~timer /\ polling = None
                        /\ screen \in {"paying", "recovery"} \/ Kiosk!TurnedOff
    /\ call \in {"persisting", "ready"} => dropped[asked] = None
    /\ call = "ready" => file.inFlight = asked
    /\ timer => inFlight # None /\ polling = None
    /\ polling # None => inFlight = polling

Remembers ==
    \A c \in Kiosk!Charges \ abandoned :
        tx[c] # None /\ tx[c].status \in Kiosk!Unsettled =>
            inFlight = c /\ file.inFlight = c

(* A cart that may have been paid for is not offered for payment.          *)
CartCovered ==
    cart \in Kiosk!Charges \ abandoned /\ ~Kiosk!Unpaid(cart) =>
        \/ screen \in {"paying", "recovery"} \/ Kiosk!TurnedOff
        \/ inFlight = cart /\ mode = "cloud" /\ tx[cart].at # "cloud"

Told ==
    \A c \in Kiosk!Charges :
         /\ dropped[c] \in {"declined", "error"} => Kiosk!Unpaid(c)
         /\ dropped[c] \in {"approved", "needs-attention", "voided"} =>
              tx[c].status \in {"approved", "needs-attention", "voided"}
         /\ again[c] \in Kiosk!Charges \ abandoned => Kiosk!Unpaid(again[c])

KioskInv ==
    /\ KioskTypes /\ Counted /\ CallsKept /\ InCloud
    /\ ~crossed => Flight /\ Remembers /\ CartCovered /\ Told

LEMMA KioskInitially == Kiosk!KioskAssumption /\ Kiosk!Init => KioskInv
<1> USE DEF Kiosk!KioskAssumption, Kiosk!Init, Kiosk!Paired, Kiosk!TurnedOff,
            Kiosk!Memory, Kiosk!Charges, Kiosk!TerminalStatus
<1> SUFFICES ASSUME Kiosk!KioskAssumption, Kiosk!Init PROVE KioskInv
  OBVIOUS
<1>1. KioskTypes
  BY DEF KioskTypes, KioskStates, Modes, Tokens
<1>2. Counted
  BY DEF Counted
<1>3. CallsKept /\ InCloud
  BY DEF CallsKept, InCloud
<1>4. Flight /\ Remembers /\ CartCovered
  BY DEF Flight, Remembers, CartCovered
<1>5. Told
  <2>1. \A c \in Kiosk!Charges : dropped[c] = None /\ again[c] = None
    OBVIOUS
  <2>. QED  BY <2>1 DEF Told
<1>. QED  BY <1>1, <1>2, <1>3, <1>4, <1>5 DEF KioskInv

(* What happens on the screen only: a cart is left, taken back or started   *)
(* over where no charge is in flight.                                      *)
LEMMA ScreenKeeps ==
    ASSUME Kiosk!KioskAssumption, KioskInv,
           \/ Kiosk!FollowState \/ Kiosk!StartShopping \/ Kiosk!FillCart \/ Kiosk!StartOver
           \/ Kiosk!BackToCart \/ Kiosk!LeaveCart
           \/ Kiosk!RefuseCharge \/ Kiosk!SellLocally \/ Kiosk!CartRefused
    PROVE  KioskInv'
<1> USE DEF Kiosk!FollowState, Kiosk!StartShopping, Kiosk!FillCart, Kiosk!StartOver,
            Kiosk!BackToCart, Kiosk!LeaveCart, Kiosk!RefuseCharge,
            Kiosk!SellLocally, Kiosk!CartRefused, Kiosk!ShowResult, Kiosk!Shows,
            Kiosk!Covered
<1>1. /\ UNCHANGED <<kioskUp, mode, token, inFlight, call, asked, timer, polling, tx, file,
                     dropped, again, abandoned, crossed, charges>>
      /\ cart' \in {cart, None, 0}
  BY DEF Kiosk!OnScreen, Kiosk!flightVars, Kiosk!diskVars, Kiosk!keptVars,
         Kiosk!managerVars, Kiosk!historyVars, Kiosk!countVars
<1>2. KioskTypes' /\ CallsKept' /\ InCloud'
  BY <1>1 DEF KioskInv, KioskTypes, CallsKept, InCloud, Kiosk!Paired
<1>3. Counted'
  BY <1>1 DEF KioskInv, Counted, Kiosk!KioskAssumption, Kiosk!Charges
<1>4. ASSUME ~crossed' PROVE Flight'
  BY <1>1, <1>4
     DEF KioskInv, CallsKept, Flight, Kiosk!TurnedOff, Kiosk!Paired,
         Kiosk!KioskAssumption, Kiosk!Charges
<1>5. ASSUME ~crossed' PROVE Remembers' /\ Told'
  BY <1>1, <1>5 DEF KioskInv, Remembers, Told, Kiosk!Unpaid
<1>6. ASSUME ~crossed' PROVE CartCovered'
  BY <1>1, <1>6
     DEF KioskInv, Counted, CartCovered, Kiosk!TurnedOff, Kiosk!Paired,
         Kiosk!Unpaid, Kiosk!KioskAssumption, Kiosk!Charges
<1>. QED  BY <1>2, <1>3, <1>4, <1>5, <1>6 DEF KioskInv

LEMMA ChargeKeeps ==
    ASSUME Kiosk!KioskAssumption, KioskInv, Kiosk!Charge
    PROVE  KioskInv'
<1> USE DEF Kiosk!KioskAssumption, Kiosk!Charge, Kiosk!Shows, Kiosk!Covered,
            Kiosk!TurnedOff, Kiosk!Paired, Kiosk!Charges, Kiosk!Unpaid,
            Kiosk!Unsettled, Kiosk!TerminalStatus, ChargeStatuses, Kiosk!keptVars,
            Kiosk!managerVars
<1>1. KioskTypes'
  BY DEF KioskInv, KioskTypes, Counted, CallsKept, ChargeRows, KioskStates, Modes,
         Tokens
<1>2. Counted'
  BY DEF KioskInv, KioskTypes, Counted, KioskStates
<1>3. CallsKept'
  BY DEF KioskInv, KioskTypes, Counted, CallsKept, ChargeRows
<1>4. InCloud'
  BY DEF KioskInv, KioskTypes, Counted, CallsKept, InCloud
<1>5. ASSUME ~crossed' PROVE Flight'
  BY <1>5 DEF KioskInv, KioskTypes, Counted, CallsKept, Flight
<1>6. ASSUME ~crossed' PROVE Remembers'
  BY <1>6 DEF KioskInv, KioskTypes, Counted, CallsKept, Flight, Remembers
<1>7. ASSUME ~crossed' PROVE CartCovered'
  BY <1>7 DEF KioskInv, KioskTypes, Counted, CallsKept, InCloud, Flight, CartCovered
<1>8. ASSUME ~crossed' PROVE Told'
  BY <1>8
     DEF KioskInv, KioskTypes, Counted, CallsKept, InCloud, Flight, CartCovered,
         Told
<1>. QED  BY <1>1, <1>2, <1>3, <1>4, <1>5, <1>6, <1>7, <1>8 DEF KioskInv

LEMMA ChargeTakenKeeps ==
    ASSUME Kiosk!KioskAssumption, KioskInv, Kiosk!ChargeTaken
    PROVE  KioskInv'
<1> USE DEF Kiosk!KioskAssumption, Kiosk!ChargeTaken, Kiosk!TurnedOff, Kiosk!Paired,
            Kiosk!Known, Kiosk!Remembered, Kiosk!Charges, Kiosk!Unpaid,
            Kiosk!Unsettled, Kiosk!TerminalStatus, ChargeStatuses, Kiosk!diskVars,
            Kiosk!keptVars, Kiosk!countVars, Kiosk!screenVars, Kiosk!historyVars
<1>1. KioskTypes'
  BY DEF KioskInv, KioskTypes, Counted, CallsKept, ChargeRows, KioskStates, Modes,
         Tokens
<1>2. Counted'
  BY DEF KioskInv, KioskTypes, Counted, KioskStates
<1>3. CallsKept'
  <2>1. asked \in Kiosk!Charges /\ mode \in {"lan", "cloud"} /\ asked = charges
    BY DEF KioskInv, KioskTypes, CallsKept, Modes
  <2>2. [at |-> mode, status |-> "initiated"] \in ChargeRows
    BY <2>1 DEF ChargeRows
  <2>3. tx'[asked'] \in ChargeRows
    BY <2>1, <2>2 DEF KioskInv, KioskTypes
  <2>. QED  BY <2>1, <2>3 DEF CallsKept
<1>4. InCloud'
  BY DEF KioskInv, KioskTypes, Counted, CallsKept, InCloud
<1>5. ASSUME ~crossed' PROVE Flight'
  BY <1>5 DEF KioskInv, KioskTypes, Counted, CallsKept, Flight
<1>6. ASSUME ~crossed' PROVE Remembers'
  BY <1>6 DEF KioskInv, KioskTypes, Counted, CallsKept, Flight, Remembers
<1>7. ASSUME ~crossed' PROVE CartCovered'
  BY <1>7 DEF KioskInv, KioskTypes, Counted, CallsKept, InCloud, Flight, CartCovered
<1>8. ASSUME ~crossed' PROVE Told'
  <2>1. asked \in Kiosk!Charges /\ asked = charges /\ tx[asked] = None
        /\ dropped[asked] = None /\ call # "idle"
    BY <1>8 DEF KioskInv, CallsKept, Flight
  <2>2. \A c \in Kiosk!Charges \ {asked} : tx'[c] = tx[c]
    BY <2>1 DEF KioskInv, KioskTypes
  <2>3. \A c \in Kiosk!Charges : again[c] \in Kiosk!Charges => again[c] # asked
    <3> SUFFICES ASSUME NEW c \in Kiosk!Charges, again[c] \in Kiosk!Charges
                 PROVE  again[c] # asked
      OBVIOUS
    <3>1. again[c] < c
      BY DEF KioskInv, Counted
    <3>2. c <= charges
      BY DEF KioskInv, Counted
    <3>. QED  BY <2>1, <3>1, <3>2
  <2>4. ~crossed /\ UNCHANGED <<dropped, again, abandoned>>
            /\ None \notin Kiosk!TerminalStatus
    BY <1>8
  <2>5. \A c \in Kiosk!Charges : again[c] \in Kiosk!Charges \ abandoned
            => Kiosk!Unpaid(again[c])'
    BY <2>2, <2>3, <2>4 DEF KioskInv, Told
  <2>6. \A c \in Kiosk!Charges \ {asked} :
          /\ dropped[c] \in {"declined", "error"} => Kiosk!Unpaid(c)'
          /\ dropped[c] \in {"approved", "needs-attention", "voided"} =>
               tx'[c].status \in {"approved", "needs-attention", "voided"}
    BY <2>2, <2>4 DEF KioskInv, Told
  <2>7. dropped[asked] \notin {"approved", "declined", "error", "needs-attention", "voided"}
    BY <2>1, <2>4
  <2>. QED  BY <2>4, <2>5, <2>6, <2>7 DEF Told
<1>. QED  BY <1>1, <1>2, <1>3, <1>4, <1>5, <1>6, <1>7, <1>8 DEF KioskInv

LEMMA ChargeRefusedKeeps ==
    ASSUME Kiosk!KioskAssumption, KioskInv, Kiosk!ChargeRefused
    PROVE  KioskInv'
<1> USE DEF Kiosk!KioskAssumption, Kiosk!ChargeRefused, Kiosk!TurnedOff,
            Kiosk!Paired, Kiosk!Known, Kiosk!Charges, Kiosk!Unpaid, Kiosk!Unsettled,
            Kiosk!TerminalStatus, ChargeStatuses, Kiosk!diskVars, Kiosk!keptVars,
            Kiosk!managerVars, Kiosk!countVars, Kiosk!historyVars
<1>1. KioskTypes'
  BY DEF KioskInv, KioskTypes, Counted, CallsKept, ChargeRows, KioskStates, Modes,
         Tokens
<1>2. Counted'
  BY DEF KioskInv, KioskTypes, Counted, KioskStates
<1>3. CallsKept'
  BY DEF KioskInv, KioskTypes, Counted, CallsKept, ChargeRows
<1>4. InCloud'
  BY DEF KioskInv, KioskTypes, Counted, CallsKept, InCloud
<1>5. ASSUME ~crossed' PROVE Flight'
  BY <1>5 DEF KioskInv, KioskTypes, Counted, CallsKept, Flight
<1>6. ASSUME ~crossed' PROVE Remembers'
  BY <1>6 DEF KioskInv, KioskTypes, Counted, CallsKept, Flight, Remembers
<1>7. ASSUME ~crossed' PROVE CartCovered'
  BY <1>7 DEF KioskInv, KioskTypes, Counted, CallsKept, InCloud, Flight, CartCovered
<1>8. ASSUME ~crossed' PROVE Told'
  BY <1>8
     DEF KioskInv, KioskTypes, Counted, CallsKept, InCloud, Flight, CartCovered,
         Told
<1>. QED  BY <1>1, <1>2, <1>3, <1>4, <1>5, <1>6, <1>7, <1>8 DEF KioskInv

LEMMA ChargeDeniedKeeps ==
    ASSUME Kiosk!KioskAssumption, KioskInv, Kiosk!ChargeDenied
    PROVE  KioskInv'
<1> USE DEF Kiosk!KioskAssumption, Kiosk!ChargeDenied, Kiosk!TurnedOff,
            Kiosk!Paired, Kiosk!Known, Kiosk!Charges, Kiosk!Unpaid, Kiosk!Unsettled,
            Kiosk!TerminalStatus, ChargeStatuses, Kiosk!keptVars, Kiosk!managerVars,
            Kiosk!countVars, Kiosk!historyVars, Kiosk!Denied
<1>1. KioskTypes'
  BY DEF KioskInv, KioskTypes, Counted, CallsKept, ChargeRows, KioskStates, Modes,
         Tokens
<1>2. Counted'
  BY DEF KioskInv, KioskTypes, Counted, KioskStates
<1>3. CallsKept'
  BY DEF KioskInv, KioskTypes, Counted, CallsKept, ChargeRows
<1>4. InCloud'
  BY DEF KioskInv, KioskTypes, Counted, CallsKept, InCloud
<1>5. ASSUME ~crossed' PROVE Flight'
  BY <1>5 DEF KioskInv, KioskTypes, Counted, CallsKept, Flight
<1>6. ASSUME ~crossed' PROVE Remembers'
  BY <1>6 DEF KioskInv, KioskTypes, Counted, CallsKept, Flight, Remembers
<1>7. ASSUME ~crossed' PROVE CartCovered'
  BY <1>7 DEF KioskInv, KioskTypes, Counted, CallsKept, InCloud, Flight, CartCovered
<1>8. ASSUME ~crossed' PROVE Told'
  BY <1>8
     DEF KioskInv, KioskTypes, Counted, CallsKept, InCloud, Flight, CartCovered,
         Told
<1>. QED  BY <1>1, <1>2, <1>3, <1>4, <1>5, <1>6, <1>7, <1>8 DEF KioskInv

LEMMA ChargeLostKeeps ==
    ASSUME Kiosk!KioskAssumption, KioskInv, Kiosk!ChargeLost
    PROVE  KioskInv'
<1> USE DEF Kiosk!KioskAssumption, Kiosk!ChargeLost, Kiosk!TurnedOff, Kiosk!Paired,
            Kiosk!Charges, Kiosk!Unpaid, Kiosk!Unsettled, Kiosk!TerminalStatus,
            ChargeStatuses, Kiosk!keptVars, Kiosk!managerVars, Kiosk!countVars,
            Kiosk!historyVars
<1>1. KioskTypes'
  BY DEF KioskInv, KioskTypes, Counted, CallsKept, ChargeRows, KioskStates, Modes,
         Tokens
<1>2. Counted'
  BY DEF KioskInv, KioskTypes, Counted, KioskStates
<1>3. CallsKept'
  BY DEF KioskInv, KioskTypes, Counted, CallsKept, ChargeRows
<1>4. InCloud'
  BY DEF KioskInv, KioskTypes, Counted, CallsKept, InCloud
<1>5. ASSUME ~crossed' PROVE Flight'
  BY <1>5 DEF KioskInv, KioskTypes, Counted, CallsKept, Flight
<1>6. ASSUME ~crossed' PROVE Remembers'
  BY <1>6 DEF KioskInv, KioskTypes, Counted, CallsKept, Flight, Remembers
<1>7. ASSUME ~crossed' PROVE CartCovered'
  BY <1>7 DEF KioskInv, KioskTypes, Counted, CallsKept, InCloud, Flight, CartCovered
<1>8. ASSUME ~crossed' PROVE Told'
  BY <1>8
     DEF KioskInv, KioskTypes, Counted, CallsKept, InCloud, Flight, CartCovered,
         Told
<1>. QED  BY <1>1, <1>2, <1>3, <1>4, <1>5, <1>6, <1>7, <1>8 DEF KioskInv

LEMMA ChargeAnsweredKeeps ==
    ASSUME Kiosk!KioskAssumption, KioskInv, Kiosk!ChargeAnswered
    PROVE  KioskInv'
<1> USE DEF Kiosk!KioskAssumption, Kiosk!ChargeAnswered, Kiosk!TurnedOff,
            Kiosk!Paired, Kiosk!Charges, Kiosk!Unpaid, Kiosk!Unsettled,
            Kiosk!TerminalStatus, ChargeStatuses, Kiosk!keptVars, Kiosk!managerVars,
            Kiosk!countVars, Kiosk!historyVars, Kiosk!ShowResult, Kiosk!Settled,
            Kiosk!FinishCharge
<1>1. KioskTypes'
  BY DEF KioskInv, KioskTypes, Counted, CallsKept, ChargeRows, KioskStates, Modes,
         Tokens
<1>2. Counted'
  BY DEF KioskInv, KioskTypes, Counted, KioskStates
<1>3. CallsKept'
  BY DEF KioskInv, KioskTypes, Counted, CallsKept, ChargeRows
<1>4. InCloud'
  BY DEF KioskInv, KioskTypes, Counted, CallsKept, InCloud
<1>5. ASSUME ~crossed' PROVE Flight'
  BY <1>5 DEF KioskInv, KioskTypes, Counted, CallsKept, Flight
<1>6. ASSUME ~crossed' PROVE Remembers'
  BY <1>6 DEF KioskInv, KioskTypes, Counted, CallsKept, Flight, Remembers
<1>7. ASSUME ~crossed' PROVE CartCovered'
  BY <1>7 DEF KioskInv, KioskTypes, Counted, CallsKept, InCloud, Flight, CartCovered
<1>8. ASSUME ~crossed' PROVE Told'
  BY <1>8
     DEF KioskInv, KioskTypes, Counted, CallsKept, InCloud, Flight, CartCovered,
         Told
<1>. QED  BY <1>1, <1>2, <1>3, <1>4, <1>5, <1>6, <1>7, <1>8 DEF KioskInv

LEMMA PollSentKeeps ==
    ASSUME Kiosk!KioskAssumption, KioskInv, Kiosk!PollSent
    PROVE  KioskInv'
<1> USE DEF Kiosk!KioskAssumption, Kiosk!PollSent, Kiosk!TurnedOff, Kiosk!Paired,
            Kiosk!Charges, Kiosk!Unpaid, Kiosk!Unsettled, Kiosk!TerminalStatus,
            ChargeStatuses, Kiosk!diskVars, Kiosk!keptVars, Kiosk!managerVars,
            Kiosk!countVars, Kiosk!screenVars, Kiosk!historyVars
<1>1. KioskTypes'
  BY DEF KioskInv, KioskTypes, Counted, CallsKept, ChargeRows, KioskStates, Modes,
         Tokens
<1>2. Counted'
  BY DEF KioskInv, KioskTypes, Counted, KioskStates
<1>3. CallsKept'
  BY DEF KioskInv, KioskTypes, Counted, CallsKept, ChargeRows
<1>4. InCloud'
  BY DEF KioskInv, KioskTypes, Counted, CallsKept, InCloud
<1>5. ASSUME ~crossed' PROVE Flight'
  BY <1>5 DEF KioskInv, KioskTypes, Counted, CallsKept, Flight
<1>6. ASSUME ~crossed' PROVE Remembers'
  BY <1>6 DEF KioskInv, KioskTypes, Counted, CallsKept, Flight, Remembers
<1>7. ASSUME ~crossed' PROVE CartCovered'
  BY <1>7 DEF KioskInv, KioskTypes, Counted, CallsKept, InCloud, Flight, CartCovered
<1>8. ASSUME ~crossed' PROVE Told'
  BY <1>8
     DEF KioskInv, KioskTypes, Counted, CallsKept, InCloud, Flight, CartCovered,
         Told
<1>. QED  BY <1>1, <1>2, <1>3, <1>4, <1>5, <1>6, <1>7, <1>8 DEF KioskInv

LEMMA PollAnsweredKeeps ==
    ASSUME Kiosk!KioskAssumption, KioskInv, Kiosk!PollAnswered
    PROVE  KioskInv'
<1> USE DEF Kiosk!KioskAssumption, Kiosk!PollAnswered, Kiosk!TurnedOff,
            Kiosk!Paired, Kiosk!Known, Kiosk!Charges, Kiosk!Unpaid, Kiosk!Unsettled,
            Kiosk!TerminalStatus, ChargeStatuses, Kiosk!keptVars, Kiosk!managerVars,
            Kiosk!countVars, Kiosk!screenVars, Kiosk!historyVars, Kiosk!PollsOn,
            Kiosk!StatusAt, Kiosk!Settled, Kiosk!FinishCharge
<1>1. KioskTypes'
  BY DEF KioskInv, KioskTypes, Counted, CallsKept, ChargeRows, KioskStates, Modes,
         Tokens
<1>2. Counted'
  BY DEF KioskInv, KioskTypes, Counted, KioskStates
<1>3. CallsKept'
  BY DEF KioskInv, KioskTypes, Counted, CallsKept, ChargeRows
<1>4. InCloud'
  BY DEF KioskInv, KioskTypes, Counted, CallsKept, InCloud
<1>5. ASSUME ~crossed' PROVE Flight'
  BY <1>5 DEF KioskInv, KioskTypes, Counted, CallsKept, Flight
<1>6. ASSUME ~crossed' PROVE Remembers'
  <2>1. ~crossed /\ inFlight = polling /\ polling \in Kiosk!Charges
    BY <1>6 DEF KioskInv, Flight, Counted
  <2>2. tx' = tx /\ abandoned' = abandoned /\ file' = file
    OBVIOUS
  <2>3. CASE Kiosk!StatusAt(polling) \in Kiosk!TerminalStatus
    <3>1. tx[polling] # None => tx[polling].status = Kiosk!StatusAt(polling)
      <4> SUFFICES ASSUME tx[polling] # None
                   PROVE  tx[polling].status = Kiosk!StatusAt(polling)
        OBVIOUS
      <4>1. tx[polling] \in ChargeRows /\ mode \in Modes
        BY <2>1 DEF KioskInv, KioskTypes
      <4>2. tx[polling].at \in {"lan", "cloud"}
        BY <4>1 DEF ChargeRows
      <4>3. tx[polling].at = "cloud" => mode = "cloud"
        BY <2>1 DEF KioskInv, InCloud
      <4>. QED  BY <2>1, <2>3, <4>2, <4>3
    <3>. QED  BY <2>1, <2>2, <2>3, <3>1 DEF KioskInv, Remembers
  <2>4. CASE Kiosk!StatusAt(polling) \notin Kiosk!TerminalStatus
    <3>1. inFlight' = inFlight
      BY <2>4
    <3>. QED  BY <2>1, <2>2, <3>1 DEF KioskInv, Remembers
  <2>. QED  BY <2>3, <2>4
<1>7. ASSUME ~crossed' PROVE CartCovered'
  BY <1>7 DEF KioskInv, KioskTypes, Counted, CallsKept, InCloud, Flight, CartCovered
<1>8. ASSUME ~crossed' PROVE Told'
  <2>1. ~crossed /\ inFlight = polling /\ polling \in Kiosk!Charges
    BY <1>8 DEF KioskInv, Flight, Counted
  <2>2. tx' = tx /\ abandoned' = abandoned /\ again' = again
    OBVIOUS
  <2>3. CASE Kiosk!StatusAt(polling) \in Kiosk!TerminalStatus
    <3>1. CASE tx[polling] # None /\ tx[polling].at = mode
      <4>1. Kiosk!StatusAt(polling) = tx[polling].status
        BY <3>1
      <4>. QED  BY <2>1, <2>2, <2>3, <4>1 DEF KioskInv, KioskTypes, Told
    <3>2. CASE tx[polling] = None
      <4>1. Kiosk!StatusAt(polling) = "error"
        BY <2>3, <3>2
      <4>. QED  BY <2>1, <2>2, <2>3, <3>2, <4>1 DEF KioskInv, KioskTypes, Told
    <3>3. CASE tx[polling] # None /\ tx[polling].at # mode
      <4>1. tx[polling] \in ChargeRows /\ mode \in Modes
        BY <2>1, <3>3 DEF KioskInv, KioskTypes
      <4>2. tx[polling].at \in {"lan", "cloud"}
        BY <4>1 DEF ChargeRows
      <4>3. tx[polling].at = "cloud" => mode = "cloud"
        BY <2>1, <3>3 DEF KioskInv, InCloud
      <4>. QED  BY <2>3, <3>3, <4>2, <4>3
    <3>. QED  BY <3>1, <3>2, <3>3
  <2>4. CASE Kiosk!StatusAt(polling) \notin Kiosk!TerminalStatus
    <3>1. dropped' = dropped
      BY <2>4
    <3>. QED  BY <2>1, <2>2, <3>1 DEF KioskInv, Told
  <2>. QED  BY <2>3, <2>4
<1>. QED  BY <1>1, <1>2, <1>3, <1>4, <1>5, <1>6, <1>7, <1>8 DEF KioskInv

LEMMA PollDeniedKeeps ==
    ASSUME Kiosk!KioskAssumption, KioskInv, Kiosk!PollDenied
    PROVE  KioskInv'
<1> USE DEF Kiosk!KioskAssumption, Kiosk!PollDenied, Kiosk!TurnedOff, Kiosk!Paired,
            Kiosk!Known, Kiosk!Charges, Kiosk!Unpaid, Kiosk!Unsettled,
            Kiosk!TerminalStatus, ChargeStatuses, Kiosk!keptVars, Kiosk!managerVars,
            Kiosk!countVars, Kiosk!screenVars, Kiosk!historyVars, Kiosk!Denied
<1>1. KioskTypes'
  BY DEF KioskInv, KioskTypes, Counted, CallsKept, ChargeRows, KioskStates, Modes,
         Tokens
<1>2. Counted'
  BY DEF KioskInv, KioskTypes, Counted, KioskStates
<1>3. CallsKept'
  BY DEF KioskInv, KioskTypes, Counted, CallsKept, ChargeRows
<1>4. InCloud'
  BY DEF KioskInv, KioskTypes, Counted, CallsKept, InCloud
<1>5. ASSUME ~crossed' PROVE Flight'
  BY <1>5 DEF KioskInv, KioskTypes, Counted, CallsKept, Flight
<1>6. ASSUME ~crossed' PROVE Remembers'
  BY <1>6 DEF KioskInv, KioskTypes, Counted, CallsKept, Flight, Remembers
<1>7. ASSUME ~crossed' PROVE CartCovered'
  BY <1>7 DEF KioskInv, KioskTypes, Counted, CallsKept, InCloud, Flight, CartCovered
<1>8. ASSUME ~crossed' PROVE Told'
  BY <1>8
     DEF KioskInv, KioskTypes, Counted, CallsKept, InCloud, Flight, CartCovered,
         Told
<1>. QED  BY <1>1, <1>2, <1>3, <1>4, <1>5, <1>6, <1>7, <1>8 DEF KioskInv

LEMMA PollLostKeeps ==
    ASSUME Kiosk!KioskAssumption, KioskInv, Kiosk!PollLost
    PROVE  KioskInv'
<1> USE DEF Kiosk!KioskAssumption, Kiosk!PollLost, Kiosk!TurnedOff, Kiosk!Paired,
            Kiosk!Charges, Kiosk!Unpaid, Kiosk!Unsettled, Kiosk!TerminalStatus,
            ChargeStatuses, Kiosk!diskVars, Kiosk!keptVars, Kiosk!managerVars,
            Kiosk!countVars, Kiosk!screenVars, Kiosk!historyVars
<1>1. KioskTypes'
  BY DEF KioskInv, KioskTypes, Counted, CallsKept, ChargeRows, KioskStates, Modes,
         Tokens
<1>2. Counted'
  BY DEF KioskInv, KioskTypes, Counted, KioskStates
<1>3. CallsKept'
  BY DEF KioskInv, KioskTypes, Counted, CallsKept, ChargeRows
<1>4. InCloud'
  BY DEF KioskInv, KioskTypes, Counted, CallsKept, InCloud
<1>5. ASSUME ~crossed' PROVE Flight'
  BY <1>5 DEF KioskInv, KioskTypes, Counted, CallsKept, Flight
<1>6. ASSUME ~crossed' PROVE Remembers'
  BY <1>6 DEF KioskInv, KioskTypes, Counted, CallsKept, Flight, Remembers
<1>7. ASSUME ~crossed' PROVE CartCovered'
  BY <1>7 DEF KioskInv, KioskTypes, Counted, CallsKept, InCloud, Flight, CartCovered
<1>8. ASSUME ~crossed' PROVE Told'
  BY <1>8
     DEF KioskInv, KioskTypes, Counted, CallsKept, InCloud, Flight, CartCovered,
         Told
<1>. QED  BY <1>1, <1>2, <1>3, <1>4, <1>5, <1>6, <1>7, <1>8 DEF KioskInv

LEMMA PairKeeps ==
    ASSUME Kiosk!KioskAssumption, KioskInv, Kiosk!Pair
    PROVE  KioskInv'
<1> USE DEF Kiosk!KioskAssumption, Kiosk!Pair, Kiosk!TurnedOff, Kiosk!Paired,
            Kiosk!Charges, Kiosk!Unpaid, Kiosk!Unsettled, Kiosk!TerminalStatus,
            ChargeStatuses, Kiosk!countVars
<1>1. KioskTypes'
  BY DEF KioskInv, KioskTypes, Counted, CallsKept, ChargeRows, KioskStates, Modes,
         Tokens
<1>2. Counted'
  BY DEF KioskInv, KioskTypes, Counted, KioskStates
<1>3. CallsKept'
  BY DEF KioskInv, KioskTypes, Counted, CallsKept, ChargeRows
<1>4. InCloud'
  BY DEF KioskInv, KioskTypes, Counted, CallsKept, InCloud
<1>5. ASSUME ~crossed' PROVE Flight'
  BY <1>5 DEF KioskInv, KioskTypes, Counted, CallsKept, Flight
<1>6. ASSUME ~crossed' PROVE Remembers'
  BY <1>6 DEF KioskInv, KioskTypes, Counted, CallsKept, Flight, Remembers
<1>7. ASSUME ~crossed' PROVE CartCovered'
  BY <1>7 DEF KioskInv, KioskTypes, Counted, CallsKept, InCloud, Flight, CartCovered
<1>8. ASSUME ~crossed' PROVE Told'
  BY <1>8
     DEF KioskInv, KioskTypes, Counted, CallsKept, InCloud, Flight, CartCovered,
         Told
<1>. QED  BY <1>1, <1>2, <1>3, <1>4, <1>5, <1>6, <1>7, <1>8 DEF KioskInv

LEMMA CloudSignInKeeps ==
    ASSUME Kiosk!KioskAssumption, KioskInv, Kiosk!CloudSignIn
    PROVE  KioskInv'
<1> USE DEF Kiosk!KioskAssumption, Kiosk!CloudSignIn, Kiosk!TurnedOff, Kiosk!Paired,
            Kiosk!Charges, Kiosk!Unpaid, Kiosk!Unsettled, Kiosk!TerminalStatus,
            ChargeStatuses, Kiosk!flightVars, Kiosk!keptVars, Kiosk!managerVars,
            Kiosk!countVars
<1>1. KioskTypes'
  BY DEF KioskInv, KioskTypes, Counted, CallsKept, ChargeRows, KioskStates, Modes,
         Tokens
<1>2. Counted'
  BY DEF KioskInv, KioskTypes, Counted, KioskStates
<1>3. CallsKept'
  BY DEF KioskInv, KioskTypes, Counted, CallsKept, ChargeRows
<1>4. InCloud'
  BY DEF KioskInv, KioskTypes, Counted, CallsKept, InCloud
<1>5. ASSUME ~crossed' PROVE Flight'
  BY <1>5 DEF KioskInv, KioskTypes, Counted, CallsKept, Flight
<1>6. ASSUME ~crossed' PROVE Remembers'
  BY <1>6 DEF KioskInv, KioskTypes, Counted, CallsKept, Flight, Remembers
<1>7. ASSUME ~crossed' PROVE CartCovered'
  BY <1>7 DEF KioskInv, KioskTypes, Counted, CallsKept, InCloud, Flight, CartCovered
<1>8. ASSUME ~crossed' PROVE Told'
  BY <1>8
     DEF KioskInv, KioskTypes, Counted, CallsKept, InCloud, Flight, CartCovered,
         Told
<1>. QED  BY <1>1, <1>2, <1>3, <1>4, <1>5, <1>6, <1>7, <1>8 DEF KioskInv

LEMMA RevokeKeeps ==
    ASSUME Kiosk!KioskAssumption, KioskInv, Kiosk!Revoke
    PROVE  KioskInv'
<1> USE DEF Kiosk!KioskAssumption, Kiosk!Revoke, Kiosk!TurnedOff, Kiosk!Paired,
            Kiosk!Charges, Kiosk!Unpaid, Kiosk!Unsettled, Kiosk!TerminalStatus,
            ChargeStatuses, Kiosk!flightVars, Kiosk!diskVars, Kiosk!keptVars,
            Kiosk!screenVars, Kiosk!historyVars
<1>1. KioskTypes'
  BY DEF KioskInv, KioskTypes, Counted, CallsKept, ChargeRows, KioskStates, Modes,
         Tokens
<1>2. Counted'
  BY DEF KioskInv, KioskTypes, Counted, KioskStates
<1>3. CallsKept'
  BY DEF KioskInv, KioskTypes, Counted, CallsKept, ChargeRows
<1>4. InCloud'
  BY DEF KioskInv, KioskTypes, Counted, CallsKept, InCloud
<1>5. ASSUME ~crossed' PROVE Flight'
  BY <1>5 DEF KioskInv, KioskTypes, Counted, CallsKept, Flight
<1>6. ASSUME ~crossed' PROVE Remembers'
  BY <1>6 DEF KioskInv, KioskTypes, Counted, CallsKept, Flight, Remembers
<1>7. ASSUME ~crossed' PROVE CartCovered'
  BY <1>7 DEF KioskInv, KioskTypes, Counted, CallsKept, InCloud, Flight, CartCovered
<1>8. ASSUME ~crossed' PROVE Told'
  BY <1>8
     DEF KioskInv, KioskTypes, Counted, CallsKept, InCloud, Flight, CartCovered,
         Told
<1>. QED  BY <1>1, <1>2, <1>3, <1>4, <1>5, <1>6, <1>7, <1>8 DEF KioskInv

LEMMA RefreshDeniedKeeps ==
    ASSUME Kiosk!KioskAssumption, KioskInv, Kiosk!RefreshDenied
    PROVE  KioskInv'
<1> USE DEF Kiosk!KioskAssumption, Kiosk!RefreshDenied, Kiosk!TurnedOff,
            Kiosk!Paired, Kiosk!Known, Kiosk!Charges, Kiosk!Unpaid, Kiosk!Unsettled,
            Kiosk!TerminalStatus, ChargeStatuses, Kiosk!keptVars, Kiosk!managerVars,
            Kiosk!countVars, Kiosk!screenVars, Kiosk!historyVars, Kiosk!Denied
<1>1. KioskTypes'
  BY DEF KioskInv, KioskTypes, Counted, CallsKept, ChargeRows, KioskStates, Modes,
         Tokens
<1>2. Counted'
  BY DEF KioskInv, KioskTypes, Counted, KioskStates
<1>3. CallsKept'
  BY DEF KioskInv, KioskTypes, Counted, CallsKept, ChargeRows
<1>4. InCloud'
  BY DEF KioskInv, KioskTypes, Counted, CallsKept, InCloud
<1>5. ASSUME ~crossed' PROVE Flight'
  BY <1>5 DEF KioskInv, KioskTypes, Counted, CallsKept, Flight
<1>6. ASSUME ~crossed' PROVE Remembers'
  BY <1>6 DEF KioskInv, KioskTypes, Counted, CallsKept, Flight, Remembers
<1>7. ASSUME ~crossed' PROVE CartCovered'
  BY <1>7 DEF KioskInv, KioskTypes, Counted, CallsKept, InCloud, Flight, CartCovered
<1>8. ASSUME ~crossed' PROVE Told'
  BY <1>8
     DEF KioskInv, KioskTypes, Counted, CallsKept, InCloud, Flight, CartCovered,
         Told
<1>. QED  BY <1>1, <1>2, <1>3, <1>4, <1>5, <1>6, <1>7, <1>8 DEF KioskInv

LEMMA PersistKeeps ==
    ASSUME Kiosk!KioskAssumption, KioskInv, Kiosk!Persist
    PROVE  KioskInv'
<1> USE DEF Kiosk!KioskAssumption, Kiosk!Persist, Kiosk!TurnedOff, Kiosk!Paired,
            Kiosk!Memory, Kiosk!Written, Kiosk!Charges, Kiosk!Unpaid,
            Kiosk!Unsettled, Kiosk!TerminalStatus, ChargeStatuses,
            Kiosk!managerVars, Kiosk!countVars, Kiosk!screenVars, Kiosk!historyVars
<1>1. KioskTypes'
  BY DEF KioskInv, KioskTypes, Counted, CallsKept, ChargeRows, KioskStates, Modes,
         Tokens
<1>2. Counted'
  BY DEF KioskInv, KioskTypes, Counted, KioskStates
<1>3. CallsKept'
  BY DEF KioskInv, KioskTypes, Counted, CallsKept, ChargeRows
<1>4. InCloud'
  BY DEF KioskInv, KioskTypes, Counted, CallsKept, InCloud
<1>5. ASSUME ~crossed' PROVE Flight'
  BY <1>5 DEF KioskInv, KioskTypes, Counted, CallsKept, Flight
<1>6. ASSUME ~crossed' PROVE Remembers'
  BY <1>6 DEF KioskInv, KioskTypes, Counted, CallsKept, Flight, Remembers
<1>7. ASSUME ~crossed' PROVE CartCovered'
  BY <1>7 DEF KioskInv, KioskTypes, Counted, CallsKept, InCloud, Flight, CartCovered
<1>8. ASSUME ~crossed' PROVE Told'
  BY <1>8
     DEF KioskInv, KioskTypes, Counted, CallsKept, InCloud, Flight, CartCovered,
         Told
<1>. QED  BY <1>1, <1>2, <1>3, <1>4, <1>5, <1>6, <1>7, <1>8 DEF KioskInv

LEMMA PersistFailsKeeps ==
    ASSUME Kiosk!KioskAssumption, KioskInv, Kiosk!PersistFails
    PROVE  KioskInv'
<1> USE DEF Kiosk!KioskAssumption, Kiosk!PersistFails, Kiosk!TurnedOff,
            Kiosk!Paired, Kiosk!Charges, Kiosk!Unpaid, Kiosk!Unsettled,
            Kiosk!TerminalStatus, ChargeStatuses, Kiosk!managerVars,
            Kiosk!countVars, Kiosk!screenVars, Kiosk!historyVars
<1>1. KioskTypes'
  BY DEF KioskInv, KioskTypes, Counted, CallsKept, ChargeRows, KioskStates, Modes,
         Tokens
<1>2. Counted'
  BY DEF KioskInv, KioskTypes, Counted, KioskStates
<1>3. CallsKept'
  BY DEF KioskInv, KioskTypes, Counted, CallsKept, ChargeRows
<1>4. InCloud'
  BY DEF KioskInv, KioskTypes, Counted, CallsKept, InCloud
<1>5. ASSUME ~crossed' PROVE Flight'
  BY <1>5 DEF KioskInv, KioskTypes, Counted, CallsKept, Flight
<1>6. ASSUME ~crossed' PROVE Remembers'
  BY <1>6 DEF KioskInv, KioskTypes, Counted, CallsKept, Flight, Remembers
<1>7. ASSUME ~crossed' PROVE CartCovered'
  BY <1>7 DEF KioskInv, KioskTypes, Counted, CallsKept, InCloud, Flight, CartCovered
<1>8. ASSUME ~crossed' PROVE Told'
  BY <1>8
     DEF KioskInv, KioskTypes, Counted, CallsKept, InCloud, Flight, CartCovered,
         Told
<1>. QED  BY <1>1, <1>2, <1>3, <1>4, <1>5, <1>6, <1>7, <1>8 DEF KioskInv

LEMMA KioskCrashKeeps ==
    ASSUME Kiosk!KioskAssumption, KioskInv, Kiosk!Crash
    PROVE  KioskInv'
<1> USE DEF Kiosk!KioskAssumption, Kiosk!Crash, Kiosk!TurnedOff, Kiosk!Paired,
            Kiosk!Charges, Kiosk!Unpaid, Kiosk!Unsettled, Kiosk!TerminalStatus,
            ChargeStatuses, Kiosk!managerVars, Kiosk!historyVars
<1>1. KioskTypes'
  BY DEF KioskInv, KioskTypes, Counted, CallsKept, ChargeRows, KioskStates, Modes,
         Tokens
<1>2. Counted'
  BY DEF KioskInv, KioskTypes, Counted, KioskStates
<1>3. CallsKept'
  BY DEF KioskInv, KioskTypes, Counted, CallsKept, ChargeRows
<1>4. InCloud'
  BY DEF KioskInv, KioskTypes, Counted, CallsKept, InCloud
<1>5. ASSUME ~crossed' PROVE Flight'
  BY <1>5 DEF KioskInv, KioskTypes, Counted, CallsKept, Flight
<1>6. ASSUME ~crossed' PROVE Remembers'
  BY <1>6 DEF KioskInv, KioskTypes, Counted, CallsKept, Flight, Remembers
<1>7. ASSUME ~crossed' PROVE CartCovered'
  BY <1>7 DEF KioskInv, KioskTypes, Counted, CallsKept, InCloud, Flight, CartCovered
<1>8. ASSUME ~crossed' PROVE Told'
  BY <1>8
     DEF KioskInv, KioskTypes, Counted, CallsKept, InCloud, Flight, CartCovered,
         Told
<1>. QED  BY <1>1, <1>2, <1>3, <1>4, <1>5, <1>6, <1>7, <1>8 DEF KioskInv

LEMMA KioskRestartKeeps ==
    ASSUME Kiosk!KioskAssumption, KioskInv, Kiosk!Restart
    PROVE  KioskInv'
<1> USE DEF Kiosk!KioskAssumption, Kiosk!Restart, Kiosk!TurnedOff, Kiosk!Paired,
            Kiosk!Charges, Kiosk!Unpaid, Kiosk!Unsettled, Kiosk!TerminalStatus,
            ChargeStatuses, Kiosk!managerVars, Kiosk!countVars, Kiosk!screenVars,
            Kiosk!historyVars
<1>1. KioskTypes'
  <2>1. token' \in Tokens /\ (token' # "none" => token' = token)
    BY DEF KioskInv, KioskTypes, Tokens
  <2>2. /\ file' \in KioskStates /\ file'.token = token' /\ file'.mode = file.mode
        /\ file'.inFlight = file.inFlight
    BY <2>1 DEF KioskInv, KioskTypes, KioskStates
  <2>3. Kiosk!Paired' => mode' # "none"
    BY <2>1 DEF KioskInv, KioskTypes
  <2>4. file'.token # "none" => file'.mode # "none"
    BY <2>1, <2>2 DEF KioskInv, KioskTypes, CallsKept
  <2>. QED  BY <2>1, <2>2, <2>3, <2>4 DEF KioskInv, KioskTypes
<1>2. Counted'
  BY DEF KioskInv, KioskTypes, Counted, KioskStates
<1>3. CallsKept'
  BY DEF KioskInv, KioskTypes, Counted, CallsKept, ChargeRows
<1>4. InCloud'
  BY DEF KioskInv, KioskTypes, Counted, CallsKept, InCloud
<1>5. ASSUME ~crossed' PROVE Flight'
  BY <1>5 DEF KioskInv, CallsKept, Flight
<1>6. ASSUME ~crossed' PROVE Remembers'
  BY <1>6 DEF KioskInv, KioskTypes, Counted, CallsKept, Flight, Remembers
<1>7. ASSUME ~crossed' PROVE CartCovered'
  BY <1>7 DEF KioskInv, KioskTypes, Counted, CallsKept, InCloud, Flight, CartCovered
<1>8. ASSUME ~crossed' PROVE Told'
  BY <1>8
     DEF KioskInv, KioskTypes, Counted, CallsKept, InCloud, Flight, CartCovered,
         Told
<1>. QED  BY <1>1, <1>2, <1>3, <1>4, <1>5, <1>6, <1>7, <1>8 DEF KioskInv

LEMMA ManagerSettlesKeeps ==
    ASSUME Kiosk!KioskAssumption, KioskInv, NEW d \in Kiosk!Charges,
           Kiosk!ManagerSettles(d)
    PROVE  KioskInv'
<1> USE DEF Kiosk!KioskAssumption, Kiosk!Paired, Kiosk!TurnedOff, Kiosk!Charges,
            Kiosk!Unpaid, Kiosk!Unsettled, Kiosk!TerminalStatus, ChargeStatuses,
            Kiosk!flightVars, Kiosk!diskVars, Kiosk!keptVars, Kiosk!managerVars,
            Kiosk!countVars, Kiosk!screenVars, Kiosk!historyVars
<1>1. PICK status \in Kiosk!TerminalStatus \cup {"unknown"} :
        /\ \/ tx[d].status = "initiated" /\ status # "voided"
           \/ tx[d].status = "unknown" /\ status # "unknown"
           \/ tx[d].status = "approved" /\ status = "needs-attention"
           \/ tx[d].status = "needs-attention" /\ status \in {"approved", "voided"}
        /\ tx' = [tx EXCEPT ![d].status = status]
  BY DEF Kiosk!ManagerSettles
<1>2. /\ UNCHANGED <<kioskUp, mode, token, Kiosk!flightVars, Kiosk!screenVars>>
      /\ UNCHANGED <<Kiosk!diskVars, active, dropped, Kiosk!historyVars, Kiosk!countVars>>
      /\ tx[d] # None
  BY DEF Kiosk!ManagerSettles
<1>3. /\ tx[d] \in ChargeRows /\ tx'[d] \in ChargeRows /\ tx'[d].at = tx[d].at
      /\ tx'[d].status = status /\ d <= charges
      /\ tx' \in [Kiosk!Charges -> ChargeRows \cup {None}]
      /\ \A c \in Kiosk!Charges \ {d} : tx'[c] = tx[c]
  BY <1>1, <1>2 DEF KioskInv, KioskTypes, Counted, ChargeRows
<1>4. KioskTypes'
  BY <1>2, <1>3 DEF KioskInv, KioskTypes, KioskStates
<1>5. Counted'
  BY <1>2, <1>3 DEF KioskInv, KioskTypes, Counted
<1>6. CallsKept'
  BY <1>2, <1>3 DEF KioskInv, KioskTypes, Counted, CallsKept
<1>7. InCloud'
  BY <1>2, <1>3 DEF KioskInv, InCloud
<1>8. ASSUME ~crossed' PROVE Flight'
  BY <1>2, <1>8 DEF KioskInv, Flight
<1>9. ASSUME ~crossed' PROVE Remembers'
  BY <1>1, <1>2, <1>3, <1>9 DEF KioskInv, Remembers
<1>10. \A c \in Kiosk!Charges : Kiosk!Unpaid(c) => Kiosk!Unpaid(c)'
  BY <1>1, <1>2, <1>3
<1>11. ASSUME ~crossed' PROVE CartCovered'
  <2>1. crossed' = crossed /\ UNCHANGED <<cart, screen, token, mode, inFlight, abandoned>>
    BY <1>2
  <2>. QED  BY <1>2, <1>3, <1>10, <1>11, <2>1 DEF KioskInv, CartCovered
<1>12. ASSUME ~crossed' PROVE Told'
  <2>1. crossed' = crossed /\ UNCHANGED <<dropped, again, abandoned>>
    BY <1>2
  <2>. QED  BY <1>1, <1>3, <1>10, <1>12, <2>1 DEF KioskInv, KioskTypes, Told
<1>. QED  BY <1>4, <1>5, <1>6, <1>7, <1>8, <1>9, <1>11, <1>12 DEF KioskInv

LEMMA KioskIdle == ASSUME KioskInv, UNCHANGED Kiosk!vars PROVE KioskInv'
<1> USE DEF Kiosk!vars, Kiosk!flightVars, Kiosk!diskVars, Kiosk!keptVars,
            Kiosk!managerVars, Kiosk!countVars, Kiosk!screenVars, Kiosk!historyVars
<1>1. KioskTypes' /\ Counted' /\ CallsKept' /\ InCloud'
  BY DEF KioskInv, KioskTypes, Counted, CallsKept, InCloud, Kiosk!Paired
<1>2. crossed' = crossed /\ Kiosk!TurnedOff' = Kiosk!TurnedOff
  BY DEF Kiosk!TurnedOff, Kiosk!Paired
<1>3. ASSUME ~crossed PROVE Flight' /\ Remembers'
  BY <1>2, <1>3 DEF KioskInv, Flight, Remembers
<1>4. ASSUME ~crossed PROVE CartCovered' /\ Told'
  BY <1>2, <1>4 DEF KioskInv, CartCovered, Told, Kiosk!Unpaid
<1>. QED  BY <1>1, <1>2, <1>3, <1>4 DEF KioskInv

LEMMA KioskKept ==
    Kiosk!KioskAssumption /\ KioskInv /\ [Kiosk!Next]_(Kiosk!vars) => KioskInv'
<1>. QED
  BY ScreenKeeps, ChargeKeeps, ChargeTakenKeeps, ChargeRefusedKeeps,
     ChargeDeniedKeeps, ChargeLostKeeps, ChargeAnsweredKeeps, PollSentKeeps,
     PollAnsweredKeeps, PollDeniedKeeps, PollLostKeeps, PairKeeps,
     CloudSignInKeeps, RevokeKeeps, RefreshDeniedKeeps, PersistKeeps,
     PersistFailsKeeps, KioskCrashKeeps, KioskRestartKeeps, ManagerSettlesKeeps,
     KioskIdle
     DEF Kiosk!Next, Kiosk!Poll

LEMMA KioskHolds ==
    Kiosk!KioskAssumption /\ KioskInv => Kiosk!TypeOK /\ Kiosk!KioskTellsTheTruth
<1> SUFFICES ASSUME Kiosk!KioskAssumption, KioskInv
             PROVE  Kiosk!TypeOK /\ Kiosk!KioskTellsTheTruth
  OBVIOUS
<1>1. Kiosk!TypeOK
  BY DEF KioskInv, KioskTypes, Counted, CallsKept, Flight, Kiosk!TypeOK,
         Kiosk!KioskAssumption, Kiosk!Charges, Modes, Tokens
<1>2. Kiosk!KioskTellsTheTruth
  BY DEF KioskInv, Remembers, Told, Kiosk!KioskTellsTheTruth
<1>. QED  BY <1>1, <1>2

(* A kiosk keeps the types of its state, knows the charge that is not      *)
(* settled, and charges a cart again only if it took no money before       *)
(* (charge, pollInFlight, persist).                                        *)
THEOREM KioskStaysCorrect ==
    Kiosk!KioskAssumption => (Kiosk!Spec => [](Kiosk!TypeOK /\ Kiosk!KioskTellsTheTruth))
<1> SUFFICES ASSUME Kiosk!KioskAssumption
             PROVE  Kiosk!Spec => [](Kiosk!TypeOK /\ Kiosk!KioskTellsTheTruth)
  OBVIOUS
<1>1. KioskInv /\ [Kiosk!Next]_(Kiosk!vars) => KioskInv'
  BY KioskKept
<1>. QED  BY KioskInitially, <1>1, KioskHolds, PTL DEF Kiosk!Spec

-----------------------------------------------------------------------------
(* All of them *)

(* A step of the whole is one of each component, or leaves it alone.       *)
LEMMA OrdersPlay == RemoteSpec => Spec
<1>1. RemoteInit => Init
  BY DEF RemoteInit
<1>2. [RemoteNext]_remoteVars => [Next]_vars
  BY DEF RemoteNext, SendOrders, PushPrices, ServeShoppers, remoteVars
<1>. QED  BY <1>1, <1>2, PTL DEF RemoteSpec, Spec

LEMMA ShelfPlays == RemoteSpec => Shelf!Spec
<1>1. RemoteInit => Shelf!Init
  BY DEF RemoteInit
<1>2. UNCHANGED shelfVars => UNCHANGED Shelf!vars
  BY DEF shelfVars, Shelf!vars
<1>3. [RemoteNext]_remoteVars => [Shelf!Next]_(Shelf!vars)
  BY <1>2 DEF RemoteNext, SendOrders, PushPrices, ServeShoppers, remoteVars
<1>. QED  BY <1>1, <1>3, PTL DEF RemoteSpec, Shelf!Spec

LEMMA KioskPlays == RemoteSpec => Kiosk!Spec
<1>1. RemoteInit => Kiosk!Init
  BY DEF RemoteInit
<1>2. UNCHANGED kioskVars => UNCHANGED Kiosk!vars
  BY DEF kioskVars, Kiosk!vars, Kiosk!flightVars, Kiosk!screenVars, Kiosk!diskVars,
         Kiosk!keptVars, Kiosk!managerVars, Kiosk!historyVars, Kiosk!countVars
<1>3. [RemoteNext]_remoteVars => [Kiosk!Next]_(Kiosk!vars)
  BY <1>2 DEF RemoteNext, SendOrders, PushPrices, ServeShoppers, remoteVars
<1>. QED  BY <1>1, <1>3, PTL DEF RemoteSpec, Kiosk!Spec

(* The three are put together so that every step is one of one of them.    *)
(* This says nothing about the code: it carries what is proved of each of  *)
(* them to the composition.                                                *)
LEMMA RemoteImplements == RemoteSpec => Spec /\ Shelf!Spec /\ Kiosk!Spec
BY OrdersPlay, ShelfPlays, KioskPlays

(* Orders, mails, price tags and kiosk keep the types of their states.     *)
THEOREM RemoteTypes == RemoteSpec => []TypesHold
<1>1. /\ Spec => [](BuyingTypeOK /\ MailTypeOK /\ GoodsFollowOrders /\ MailedOnce)
      /\ Shelf!Spec => [](Shelf!TypeOK /\ Shelf!TagsTellThePrice)
      /\ Kiosk!Spec => [](Kiosk!TypeOK /\ Kiosk!KioskTellsTheTruth)
  BY RemoteAssumption, OrdersCorrect, ShelfCorrect, KioskStaysCorrect
<1>2. BuyingTypeOK /\ MailTypeOK /\ Shelf!TypeOK /\ Kiosk!TypeOK => TypesHold
  BY DEF TypesHold
<1>. QED  BY <1>1, <1>2, RemoteImplements, PTL

(* Stock, buying list and purchase orders explain each other however an    *)
(* order is sent, delivered in parts, cancelled or merged into another     *)
(* vendor, and the vendor gets an order once, and once more at most for    *)
(* each lost answer and each crash (PurchaseOrderStore, MailWorker).       *)
THEOREM OrdersAreFollowed == RemoteSpec => []OrdersFollow
<1>1. Spec => [](BuyingTypeOK /\ MailTypeOK /\ GoodsFollowOrders /\ MailedOnce)
  BY RemoteAssumption, OrdersCorrect
<1>2. GoodsFollowOrders /\ MailedOnce => OrdersFollow
  BY DEF OrdersFollow
<1>. QED  BY <1>1, <1>2, OrdersPlay, PTL

(* A synced price tag shows the price the register charges, whatever was   *)
(* edited, sold out, unbound or pulled while its push was on the way, but  *)
(* for pushes that the code records too late (EslDriver,                   *)
(* recordPriceTagPush).                                                    *)
THEOREM TagsShowThePrice == RemoteSpec => []TagsTellThePrice
<1>1. Shelf!Spec => [](Shelf!TypeOK /\ Shelf!TagsTellThePrice)
  BY RemoteAssumption, ShelfCorrect
<1>2. Shelf!TagsTellThePrice => TagsTellThePrice
  BY DEF TagsTellThePrice
<1>. QED  BY <1>1, <1>2, ShelfPlays, PTL

(* A kiosk knows its unsettled charge, lets go of a charge only as it      *)
(* ended, and charges a cart again only if it took no money before, for    *)
(* any number of charges, crashes, lost answers, failing writes and times  *)
(* it is turned off (charge, pollInFlight, persist, loadState).            *)
THEOREM KioskKnowsItsCharges == RemoteSpec => []KioskTellsTheTruth
<1>1. Kiosk!Spec => [](Kiosk!TypeOK /\ Kiosk!KioskTellsTheTruth)
  BY RemoteAssumption, KioskStaysCorrect
<1>2. Kiosk!KioskTellsTheTruth => KioskTellsTheTruth
  BY DEF KioskTellsTheTruth
<1>. QED  BY <1>1, <1>2, KioskPlays, PTL

===============================================================================
