------------------------------- MODULE Register -------------------------------
(***************************************************************************)
(* The manager's checkout screen: the cart, the payment panel, the parked  *)
(* sales, and what the main process made of the requests the screen sent.  *)
(* The screen's memory is lost when the cashier opens another one; the     *)
(* keyboard wedge of the scanner is listened to in every panel.            *)
(*                                                                         *)
(* What the cashier types, ticks or chooses is any choice; which customer  *)
(* pays, the cash received, prices and stock are left out, so that a sale  *)
(* may be refused at any time.                                             *)
(***************************************************************************)
EXTENDS Naturals, FiniteSets

CONSTANTS
    Goods,
    PlainTenders,    \* cash, external_terminal, account: they differ in data only
    MaxQuantity,     \* bound: pieces of one product in a cart
    MaxKeys,         \* bound: completion keys
    MaxCharges,      \* bound: card charges
    MaxParked,       \* bound: sales parked at once
    None

VARIABLES
    cart,            \* cart[g]: pieces of g
    unknown,         \* the product whose barcode was not found, or None
    payment,         \* the panel: a tender, "integrated_card" or "none"
    chargeStatus, chargeReference,
    key,             \* completionKey
    selling,         \* the sale that completeSale made, Refused, or None
    asking,          \* the charge asked about is "taken" or "refused", or None
    sale,            \* the key of the sale whose receipt is shown, or None
    known,           \* products the store has
    parked,          \* suspended_sales: id |-> cart
    sales,           \* sales[k]: [cart, by: <<tender, charge>>], or None
    txs,             \* txs[c]: [key, cart, status], or None
    touched,         \* the cart changed since it was asked to be paid (history)
    served           \* keys of the receipts that were closed (history)

panelVars == <<unknown, payment>>
chargeVars == <<chargeStatus, chargeReference, selling, asking>>
storeVars == <<known, parked, sales, txs>>
vars == <<cart, panelVars, chargeVars, key, sale, storeVars, touched, served>>

Keys == 1..MaxKeys
Charges == 1..MaxCharges
Carts == [Goods -> 0..MaxQuantity]
EmptyCart == [g \in Goods |-> 0]
Tenders == PlainTenders \cup {"benefit"}
CardOf(c) == <<"integrated_card", c>>
SaleRows ==
    [cart : Carts,
     by : (Tenders \X {None}) \cup ({"integrated_card"} \X Charges)]
TxRows ==
    [key : Keys, cart : Carts,
     status : {"initiated", "approved", "declined", "error", "unknown",
               "needs-attention"}]

RegisterAssumption ==
    /\ MaxKeys \in Nat \ {0} /\ {MaxQuantity, MaxCharges, MaxParked} \subseteq Nat
    /\ {"none", "integrated_card"} \cap PlainTenders = {}
    /\ None \notin Nat \cup {"taken", "refused"}
    /\ None \notin SaleRows \cup TxRows

Refused == 0
Shopping == sale = None

(* ------------------------------- The cart ------------------------------- *)

Fill(goods) ==
    /\ cart' = goods
    /\ touched' = TRUE

(* add, from a barcode, a search result or a quick key. The scanner is     *)
(* heard under the receipt too.                                            *)
Add(g) ==
    /\ g \in known
    /\ cart[g] < MaxQuantity
    /\ Fill([cart EXCEPT ![g] = @ + 1])
    /\ UNCHANGED <<panelVars, chargeVars, key, sale, storeVars, served>>

(* scan: a barcode that is not found opens the product form.               *)
ScanUnknown(g) ==
    /\ g \notin known
    /\ unknown' = g
    /\ UNCHANGED <<cart, payment, chargeVars, key, sale, storeVars, touched, served>>

(* The form is saved, and the product goes into the cart, or it is closed. *)
CreateProduct ==
    /\ Shopping /\ unknown # None
    /\ known' = known \cup {unknown}
    /\ unknown' = None
    /\ Fill([cart EXCEPT ![unknown] = IF @ < MaxQuantity THEN @ + 1 ELSE @])
    /\ UNCHANGED <<payment, chargeVars, key, sale, parked, sales, txs, served>>

CloseForm ==
    /\ Shopping /\ unknown # None
    /\ unknown' = None
    /\ UNCHANGED <<cart, payment, chargeVars, key, sale, storeVars, touched, served>>

(* quantity(-1) and the line's cross.                                      *)
Take(g) ==
    /\ Shopping
    /\ cart[g] > 0
    /\ \E left \in 0..(cart[g] - 1) : Fill([cart EXCEPT ![g] = left])
    /\ UNCHANGED <<panelVars, chargeVars, key, sale, storeVars, served>>

(* ----------------------------- Parked sales ----------------------------- *)

(* parkCurrentSale; the completion key is kept.                            *)
Park ==
    /\ Shopping /\ payment = "none"
    /\ cart # EmptyCart
    /\ \E id \in 1..MaxParked \ DOMAIN parked :
         parked' = [i \in DOMAIN parked \cup {id} |->
                        IF i = id THEN cart ELSE parked[i]]
    /\ Fill(EmptyCart)
    /\ UNCHANGED <<panelVars, chargeVars, key, sale, known, sales, txs, served>>

Unpark(id) == parked' = [i \in DOMAIN parked \ {id} |-> parked[i]]

(* resumeParked: the row is deleted, and the cart replaced.                *)
Resume(id) ==
    /\ Shopping /\ payment = "none"
    /\ Unpark(id)
    /\ Fill(parked[id])
    /\ UNCHANGED <<panelVars, chargeVars, key, sale, known, sales, txs, served>>

Discard(id) ==
    /\ Shopping /\ payment = "none"
    /\ Unpark(id)
    /\ UNCHANGED <<cart, panelVars, chargeVars, key, sale, known, sales, txs,
                   touched, served>>

(* -------------------------------- Paying -------------------------------- *)

Choose(tender) ==
    /\ Shopping /\ payment = "none"
    /\ cart # EmptyCart
    /\ payment' = tender
    /\ UNCHANGED <<cart, unknown, chargeVars, key, sale, storeVars, touched, served>>

(* "Back", which only the benefit panel offers while a sale is completed.  *)
Back ==
    /\ Shopping
    /\ \/ payment = "benefit"
       \/ payment \in Tenders /\ selling = None
       \/ payment = "integrated_card" /\ chargeStatus = "idle"
    /\ payment' = "none"
    /\ UNCHANGED <<cart, unknown, chargeVars, key, sale, storeVars, touched, served>>

(* Fault: a key that has a sale already answers with that sale.            *)
AnySale(k, goods, tender) == TRUE

(* validateExistingSaleMatch.                                              *)
SameSale(k, goods, tender) == sales[k].cart = goods /\ sales[k].by = tender

(* The record of a sale of these goods by this tender is made, or there is *)
(* one.                                                                    *)
Made(k, goods, tender) ==
    IF sales[k] = None
    THEN sales' = [sales EXCEPT ![k] = [cart |-> goods, by |-> tender]]
    ELSE SameSale(k, goods, tender) /\ UNCHANGED sales

(* complete and completeSale, which either makes the sale or throws; the   *)
(* screen hears of it later.                                               *)
Complete ==
    /\ Shopping /\ payment \in Tenders
    /\ selling = None
    /\ touched' = FALSE
    /\ \/ Made(key, cart, <<payment, None>>) /\ selling' = key
       \/ selling' = Refused /\ UNCHANGED sales
    /\ UNCHANGED <<cart, panelVars, chargeStatus, chargeReference, asking, key, sale,
                   known, parked, txs, served>>

SaleAnswered ==
    /\ selling # None
    /\ sale' = IF selling = Refused THEN sale ELSE selling
    /\ selling' = None
    /\ UNCHANGED <<cart, panelVars, chargeStatus, chargeReference, asking, key,
                   storeVars, touched, served>>

(* getPaymentTransactionByIdempotencyKey.                                  *)
Bound(k) == \E c \in Charges : txs[c] # None /\ txs[c].key = k

(* initiateCharge; the payment service turns the charge down when its key  *)
(* is bound to another one or the cart is not valid.                       *)
InitiateCharge ==
    /\ Shopping /\ payment = "integrated_card"
    /\ chargeStatus \in {"idle", "declined", "error"}
    /\ asking = None
    /\ \/ /\ ~Bound(key)
          /\ \E c \in Charges :
               /\ txs[c] = None
               /\ txs' = [txs EXCEPT ![c] = [key |-> key, cart |-> cart,
                                             status |-> "initiated"]]
               /\ chargeReference' = c
          /\ asking' = "taken"
       \/ /\ asking' = "refused"
          /\ chargeReference' = None
          /\ UNCHANGED txs
    /\ chargeStatus' = "initiating"
    /\ touched' = (touched /\ selling # None)
    /\ UNCHANGED <<cart, panelVars, selling, key, sale, known, parked, sales, served>>

(* What the screen makes of the status of its charge: "needs-attention"    *)
(* has no branch, and an approved charge shows its receipt.                *)
StatusShown(status) ==
    IF status \in {"declined", "error"} THEN status
    ELSE IF status = "unknown" THEN "pending" ELSE chargeStatus

(* The receipt is set before the screen reloads the products; when that    *)
(* fails, the charge is shown as an error under it.                        *)
StatusAfter(status) ==
    {StatusShown(status)} \cup IF status = "approved" THEN {"error"} ELSE {}

ChargeAnswered ==
    /\ asking # None
    /\ LET status == IF asking = "taken" THEN txs[chargeReference].status ELSE "error"
       IN  /\ status # "initiated"
           /\ chargeStatus' \in StatusAfter(status)
           /\ sale' = IF status = "approved" THEN txs[chargeReference].key ELSE sale
    /\ asking' = None
    /\ UNCHANGED <<cart, panelVars, chargeReference, selling, key, storeVars, touched,
                   served>>

(* checkChargeStatus; a call that fails is shown as an error.              *)
Check ==
    /\ Shopping /\ payment = "integrated_card"
    /\ chargeStatus = "pending"
    /\ asking = None
    /\ asking' \in {"taken", "refused"}
    /\ UNCHANGED <<cart, panelVars, chargeStatus, chargeReference, selling, key, sale,
                   storeVars, touched, served>>

ChooseAnother ==
    /\ Shopping /\ payment = "integrated_card"
    /\ chargeStatus \in {"declined", "error"}
    /\ chargeStatus' = "idle"
    /\ payment' = "none"
    /\ UNCHANGED <<cart, unknown, chargeReference, selling, asking, key, sale, storeVars,
                   touched, served>>

(* Charge, reconcile and the operator's retry: an approved charge becomes  *)
(* the sale of its own cart, or needs attention.                           *)
ChargeMoves(c) ==
    /\ txs[c] # None
    /\ \/ /\ txs[c].status \in {"initiated", "unknown"}
          /\ \E status \in {"declined", "error", "unknown", "needs-attention"} :
               txs' = [txs EXCEPT ![c].status = status]
          /\ UNCHANGED sales
       \/ /\ txs[c].status \in {"initiated", "unknown", "needs-attention"}
          /\ Made(txs[c].key, txs[c].cart, CardOf(c))
          /\ txs' = [txs EXCEPT ![c].status = "approved"]
    /\ UNCHANGED <<cart, panelVars, chargeVars, key, sale, known, parked, touched, served>>

(* ---------------------------- The next customer ------------------------- *)

(* Fault: the next sale keeps the key of the last one.                     *)
OldKey == key

(* crypto.randomUUID.                                                      *)
NewKey == key + 1

(* onNew; the status of the last charge is kept.                           *)
NewSale ==
    /\ sale # None
    /\ key < MaxKeys
    /\ sale' = None
    /\ cart' = EmptyCart
    /\ payment' = "none"
    /\ key' = NewKey
    /\ served' = served \cup {sale}
    /\ touched' = FALSE
    /\ UNCHANGED <<unknown, chargeVars, storeVars>>

(* The cashier opens another screen and comes back: everything the screen  *)
(* remembered is gone, and so is the answer it was waiting for.            *)
Leave ==
    /\ key < MaxKeys
    /\ key' = key + 1
    /\ cart' = EmptyCart
    /\ unknown' = None /\ payment' = "none"
    /\ chargeStatus' = "idle" /\ chargeReference' = None
    /\ selling' = None /\ asking' = None /\ sale' = None
    /\ touched' = FALSE
    /\ UNCHANGED <<storeVars, served>>

Init ==
    /\ cart = EmptyCart
    /\ unknown = None /\ payment = "none"
    /\ chargeStatus = "idle" /\ chargeReference = None
    /\ selling = None /\ asking = None /\ sale = None
    /\ key = 1
    /\ known \in SUBSET Goods
    /\ parked = <<>>
    /\ sales = [k \in Keys |-> None]
    /\ txs = [c \in Charges |-> None]
    /\ touched = FALSE
    /\ served = {}

Next ==
    \/ \E g \in Goods : Add(g) \/ ScanUnknown(g) \/ Take(g)
    \/ CreateProduct \/ CloseForm
    \/ Park
    \/ \E id \in DOMAIN parked : Resume(id) \/ Discard(id)
    \/ \E tender \in Tenders \cup {"integrated_card"} : Choose(tender)
    \/ Back \/ Complete \/ SaleAnswered
    \/ InitiateCharge \/ ChargeAnswered \/ Check \/ ChooseAnother
    \/ \E c \in Charges : ChargeMoves(c)
    \/ NewSale \/ Leave

Spec == Init /\ [][Next]_vars

-----------------------------------------------------------------------------
TypeOK ==
    /\ cart \in Carts
    /\ unknown \in Goods \cup {None}
    /\ payment \in Tenders \cup {"none", "integrated_card"}
    /\ chargeStatus \in {"idle", "initiating", "pending", "declined", "error"}
    /\ key \in Keys
    /\ known \subseteq Goods
    /\ \A c \in Charges : txs[c] # None => txs[c].key \in Keys

(* A customer leaves with the receipt of a sale of their own, of the goods *)
(* that were in the cart when it was paid, and with one tender: a card is  *)
(* charged only for the sale that names that charge, whatever was parked,  *)
(* left, retried or paid otherwise under the same completion key           *)
(* (complete, initiateCharge, onNew, validateExistingSaleMatch).  The one  *)
(* exception is the status of a charge that onNew leaves on the panel:     *)
(* checked again, it shows the last customer's receipt to the next one.    *)
OneSalePerCustomer ==
    /\ sale = key =>
         /\ sales[sale] # None
         /\ sale \notin served
         /\ sales[sale].cart = cart \/ touched
    /\ \A c \in Charges :
         txs[c] # None /\ txs[c].status = "approved" =>
             sales[txs[c].key] = [cart |-> txs[c].cart, by |-> CardOf(c)]
=============================================================================
