----------------------------- MODULE BuyingList -----------------------------
(***************************************************************************)
(* Vendors, the buying list that follows the stock, and purchase orders    *)
(* from draft to delivery: VendorStore, PurchaseOrderStore and the screens *)
(* that work on them.                                                      *)
(*                                                                         *)
(* The buying list is not kept by those who change stock: every read of it *)
(* brings it in line first (Refreshed), and the screen orders from what it *)
(* was shown (sheet), however old that is.                                 *)
(***************************************************************************)
EXTENDS Integers, FiniteSets, FiniteSetsExt

CONSTANTS
    Products, Vendors,
    Orders,           \* bound: purchase orders that are ever drafted
    Threshold,        \* Threshold[p]: low_stock_threshold, above zero
    StartStock,       \* StartStock[p]: stock in units
    StartLinks,       \* StartLinks[p]: vendors linked to p at the start
    StartPreferred,   \* StartPreferred[p]: the preferred one of them, or None
    HasEmail,         \* vendors with an e-mail address
    CaseSize,         \* CaseSize[v][p], 0: the vendor's catalog has none
    MinOrder,         \* MinOrder[v][p], 0: none
    DefaultQuantity,  \* DefaultQuantity[v], 0: none
    MaxReceived,      \* bound: units of a line that are ever received
    MaxListEdits,     \* bound: edits of links and of the list
    None

Live == {"draft", "sent", "partially_received"}

(* Rows of purchase_orders; a product with quantity 0 is not a line.       *)
OrderRows ==
    [vendor : Vendors, mailable : BOOLEAN, status : Live \cup {"received", "cancelled"},
     via : {"email", "manual", None}, published : BOOLEAN,
     quantity : [Products -> Nat], received : [Products -> Nat]]

BuyingAssumption ==
    /\ None \notin Vendors \cup Orders \cup OrderRows
    /\ IsFiniteSet(Orders)
    /\ Threshold \in [Products -> Nat \ {0}]
    /\ StartStock \in [Products -> Nat]
    /\ StartLinks \in [Products -> SUBSET Vendors]
    /\ StartPreferred \in [Products -> Vendors \cup {None}]
    /\ \A p \in Products : StartPreferred[p] \in StartLinks[p] \cup {None}
    /\ CaseSize \in [Vendors -> [Products -> Nat]]
    /\ MinOrder \in [Vendors -> [Products -> Nat]]
    /\ DefaultQuantity \in [Vendors -> Nat]

VARIABLES
    stock,       \* stock of each product, the sum of its movements
    sold,        \* units sold (history)
    known,       \* vendors: those a catalog merge has not removed
    linked,      \* product_vendors
    preferred,   \* product_vendors.preferred: at most one vendor, or None
    rows,        \* reorder_list
    sheet,       \* the list VendorDetail shows: [vendor, quantity], or None
    order,       \* purchase_orders with their lines
    listEdits

listVars == <<linked, preferred, known>>
buyingVars == <<stock, sold, listVars, rows, sheet, order, listEdits>>

(* The row that create writes.                                             *)
Draft(v, quantity) ==
    [vendor |-> v, mailable |-> v \in HasEmail, status |-> "draft",
     via |-> None, published |-> FALSE, quantity |-> quantity,
     received |-> [p \in Products |-> 0]]

Drafted == {o \in Orders : order[o] # None}

Suggestion == {r \in rows : r.status \in {"open", "dismissed"}}

(* --------------------------- The buying list ---------------------------- *)

Wanted(p) == preferred[p] # None /\ stock[p] <= Threshold[p]

OnOrder(p) ==
    \/ \E r \in rows : r.product = p /\ r.status = "ordered"
    \/ \E o \in Drafted : order[o].status \in Live /\ order[o].quantity[p] > 0

(* refreshBuyingList: suggestions of products that are not low any more,   *)
(* or have no preferred vendor, go; low products that are neither          *)
(* suggested nor on their way get an open row for their preferred vendor.  *)
Refreshed(before) ==
    LET kept == {r \in before : r.status = "ordered" \/ Wanted(r.product)}
        suggested == {r.product : r \in {s \in kept : s.status # "ordered"}}
    IN  kept \cup
        {[product |-> p, vendor |-> preferred[p], status |-> "open",
          order |-> None] :
            p \in {q \in Products \ suggested : Wanted(q) /\ ~OnOrder(q)}}

(* resolveReorderQuantity, without the per-line override.                  *)
ReorderQuantity(v, p) ==
    LET base == CASE CaseSize[v][p] > 0 -> CaseSize[v][p]
                  [] CaseSize[v][p] = 0 /\ DefaultQuantity[v] > 0 -> DefaultQuantity[v]
                  [] OTHER -> 1
    IN  Max({base, MinOrder[v][p], 1})

(* VendorDetail loads the open rows of its vendor.                         *)
ListBuyingList(v) ==
    /\ v \in known
    /\ rows' = Refreshed(rows)
    /\ sheet' = [vendor |-> v,
         quantity |-> [p \in Products |->
             IF \E r \in rows' : r.product = p /\ r.vendor = v /\ r.status = "open"
             THEN ReorderQuantity(v, p) ELSE 0]]
    /\ UNCHANGED <<stock, sold, listVars, order, listEdits>>

EditList ==
    /\ listEdits < MaxListEdits
    /\ listEdits' = listEdits + 1
    /\ UNCHANGED <<stock, sold, order>>

(* updateBuyingListLine: the vendor, if given, must be linked; the list is *)
(* read again at the end, whatever the answer is then.                     *)
UpdateBuyingListLine(row, v, status) ==
    /\ row \in Suggestion
    /\ v \in linked[row.product] \cup {row.vendor}
    /\ rows' = Refreshed((rows \ {row}) \cup
                         {[row EXCEPT !.vendor = v, !.status = status]})
    /\ EditList
    /\ UNCHANGED <<listVars, sheet>>

(* addBuyingListLine: takes over the suggestion of the product, if any;    *)
(* a product above its threshold loses the row again at once.              *)
AddBuyingListLine(p, v) ==
    /\ v \in linked[p]
    /\ rows' = Refreshed({r \in rows : r.product # p \/ r.status = "ordered"} \cup
                 {[product |-> p, vendor |-> v, status |-> "open", order |-> None]})
    /\ EditList
    /\ UNCHANGED <<listVars, sheet>>

(* Fault: a vendor that is not linked to the product may be preferred.      *)
AnyPreference(links) == Vendors \cup {None}

(* productVendorLinksSchema and the radio buttons of ProductVendorsField:   *)
(* one of the vendors a product is linked to is preferred.                 *)
Preferable(links) == IF links = {} THEN {None} ELSE links

(* replaceProductVendors: open suggestions follow the preferred vendor,    *)
(* and all of them go when there is none.                                  *)
SetProductVendors(p, links, chosen) ==
    /\ links \subseteq known
    /\ chosen \in Preferable(links)
    /\ linked' = [linked EXCEPT ![p] = links]
    /\ preferred' = [preferred EXCEPT ![p] = chosen]
    /\ rows' = IF chosen = None
               THEN {r \in rows : r.product # p \/ r.status = "ordered"}
               ELSE {IF r.product = p /\ r.status = "open"
                     THEN [r EXCEPT !.vendor = chosen] ELSE r : r \in rows}
    /\ EditList
    /\ UNCHANGED <<known, sheet>>

(* applyCatalogVendorMerge: every reference to the source moves to the     *)
(* target, which must be known, and the source is removed.                 *)
ApplyCatalogVendorMerge(source, target) ==
    LET moved(v) == IF v = source THEN target ELSE v
    IN  /\ source # target
        /\ {source, target} \subseteq known
        /\ linked' = [p \in Products |-> {moved(v) : v \in linked[p]}]
        /\ preferred' = [p \in Products |-> moved(preferred[p])]
        /\ rows' = {[r EXCEPT !.vendor = moved(@)] : r \in rows}
        /\ order' = [o \in Orders |->
             IF order[o] = None THEN None ELSE [order[o] EXCEPT !.vendor = moved(@)]]
        /\ known' = known \ {source}
        /\ listEdits < MaxListEdits
        /\ listEdits' = listEdits + 1
        /\ UNCHANGED <<stock, sold, sheet>>

(* ---------------------------- Purchase orders --------------------------- *)

(* OrderModal: "Order..." asks for the lines the screen was shown.           *)
Orderable == sheet # None /\ \E p \in Products : sheet.quantity[p] > 0

(* create: the suggestions of the products become "ordered", those for     *)
(* another vendor too.                                                     *)
CreatePurchaseOrder(o) ==
    /\ Orderable
    /\ sheet.vendor \in known
    /\ order[o] = None
    /\ order' = [order EXCEPT ![o] = Draft(sheet.vendor, sheet.quantity)]
    /\ rows' = {IF r \in Suggestion /\ sheet.quantity[r.product] > 0
                THEN [r EXCEPT !.status = "ordered", !.order = o] ELSE r : r \in rows}
    /\ sheet' = None
    /\ UNCHANGED <<stock, sold, listVars, listEdits>>

(* Fault: an order is marked as sent again.                                *)
AnyStatus(o) == order[o].status \in Live

Unsent(o) == order[o].status = "draft"

MarkSent(o, via) ==
    /\ o \in Drafted
    /\ Unsent(o)
    /\ order' = [order EXCEPT ![o].status = "sent", ![o].via = via]

MarkPublished(o) == order' = [order EXCEPT ![o].published = TRUE]

(* Fault: the rows of the order keep waiting for it.                       *)
RowsKept(o) == rows

RowsReleased(o) == {r \in rows : r.order # o}

Cancel(o) ==
    /\ o \in Drafted
    /\ order[o].status \in Live
    /\ \A p \in Products : order[o].received[p] = 0
    /\ order' = [order EXCEPT ![o].status = "cancelled"]
    /\ rows' = RowsReleased(o)

(* ReceiveModal: at least one line of the order, in any quantity, however  *)
(* much of it is still missing.                                            *)
Deliverable(o, delivery) ==
    /\ \E p \in Products : delivery[p] > 0
    /\ \A p \in Products : order[o].quantity[p] = 0 => delivery[p] = 0

(* receive.                                                                *)
ReceivePurchaseOrder(o, delivery) ==
    LET received == [p \in Products |-> order[o].received[p] + delivery[p]]
        complete == \A p \in Products : received[p] >= order[o].quantity[p]
    IN  /\ o \in Drafted
        /\ order[o].status \in {"sent", "partially_received"}
        /\ Deliverable(o, delivery)
        /\ \A p \in Products : received[p] <= MaxReceived
        /\ order' = [order EXCEPT ![o].received = received,
             ![o].status = IF complete THEN "received" ELSE "partially_received"]
        /\ stock' = [p \in Products |-> stock[p] + delivery[p]]
        /\ rows' = IF complete THEN RowsReleased(o) ELSE rows
        /\ UNCHANGED <<sold, listVars, sheet, listEdits>>

(* A unit is sold at the register.                                         *)
SellUnit(p) ==
    /\ stock[p] > 0
    /\ stock' = [stock EXCEPT ![p] = @ - 1]
    /\ sold' = [sold EXCEPT ![p] = @ + 1]
    /\ UNCHANGED <<listVars, rows, sheet, order, listEdits>>

BuyingInit ==
    /\ stock = StartStock
    /\ sold = [p \in Products |-> 0]
    /\ known = Vendors
    /\ linked = StartLinks
    /\ preferred = StartPreferred
    /\ rows = {}
    /\ sheet = None
    /\ order = [o \in Orders |-> None]
    /\ listEdits = 0

Deliveries == [Products -> 0..MaxReceived]

BuyingNext ==
    \/ \E v \in Vendors : ListBuyingList(v)
    \/ \E row \in rows, v \in Vendors, status \in {"open", "dismissed"} :
         UpdateBuyingListLine(row, v, status)
    \/ \E p \in Products, v \in Vendors : AddBuyingListLine(p, v)
    \/ \E p \in Products, links \in SUBSET Vendors, v \in Vendors \cup {None} :
         SetProductVendors(p, links, v)
    \/ \E source, target \in Vendors : ApplyCatalogVendorMerge(source, target)
    \/ \E o \in Orders : CreatePurchaseOrder(o)
    \/ \E o \in Orders, d \in Deliveries : ReceivePurchaseOrder(o, d)
    \/ \E p \in Products : SellUnit(p)

-----------------------------------------------------------------------------
BuyingTypeOK ==
    /\ stock \in [Products -> Nat] /\ sold \in [Products -> Nat]
    /\ known \subseteq Vendors
    /\ \A p \in Products : /\ linked[p] \subseteq known
                           /\ preferred[p] \in linked[p] \cup {None}
    /\ rows \subseteq [product : Products, vendor : known,
                       status : {"open", "dismissed", "ordered"},
                       order : Orders \cup {None}]
    /\ order \in [Orders -> OrderRows \cup {None}]

(* The stock is what was there, less what was sold, plus what every order  *)
(* received, however the deliveries were split; an order is "received"     *)
(* exactly when nothing is missing, a cancelled one has received nothing,  *)
(* and a product waits as "ordered" only for an order that can still come, *)
(* so that it is suggested again afterwards.  One product has at most one  *)
(* suggestion (receive, cancel, refreshBuyingList).                        *)
GoodsFollowOrders ==
    /\ \A p \in Products :
         stock[p] = StartStock[p] - sold[p]
                    + SumFunction([o \in Drafted |-> order[o].received[p]])
    /\ \A o \in Drafted :
         /\ order[o].status = "received" <=>
              /\ \A p \in Products : order[o].received[p] >= order[o].quantity[p]
         /\ order[o].status = "cancelled" =>
              \A p \in Products : order[o].received[p] = 0
    /\ \A r \in rows : r.status = "ordered" =>
         order[r.order].status \in Live /\ order[r.order].quantity[r.product] > 0
    /\ \A r, s \in Suggestion : r.product = s.product => r = s
=============================================================================
