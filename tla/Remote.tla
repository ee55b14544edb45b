-------------------------------- MODULE Remote --------------------------------
(***************************************************************************)
(* The parts of the manager and the kiosk that wait for somebody else: for *)
(* a vendor and the mail server (OrderMail), for the access point of the   *)
(* price tags (PriceTags), for the manager on the network or the cloud     *)
(* (KioskCharge).  They keep no state in common; a step is a step of one   *)
(* of them.                                                                *)
(***************************************************************************)
EXTENDS OrderMail

CONSTANTS
    (* PriceTags                                                           *)
    Tags, Prices, SalePrice, SaleStart, SaleEnd, MaxPushes, LastInstant, MaxTagEdits,
    MaxPulls,
    (* KioskCharge                                                         *)
    MaxCharges, MaxKioskCrashes, MaxRevokes, DiskFails, KeepsToken

VARIABLES
    (* PriceTags                                                           *)
    base, onSale, link, linksMade, enabled, queue, airing, shown, overtaken, clock,
    tagEdits, pulls,
    (* KioskCharge                                                         *)
    kioskUp, mode, token, inFlight, call, asked, timer, polling, screen, cart,
    dirty, encrypts, broken, file, tx, active, charges, dropped, again, abandoned,
    crossed, kioskCrashes, revokes

Shelf == INSTANCE PriceTags WITH links <- linksMade, MaxAttempts <- MaxPushes

Kiosk == INSTANCE KioskCharge WITH
    up <- kioskUp, crashes <- kioskCrashes, MaxCrashes <- MaxKioskCrashes

ASSUME RemoteAssumption ==
    BuyingAssumption /\ MailAssumption /\ Shelf!TagsAssumption /\ Kiosk!KioskAssumption

shelfVars ==
    <<base, onSale, link, linksMade, enabled, queue, airing, shown, overtaken, clock,
      tagEdits, pulls>>
kioskVars ==
    <<kioskUp, mode, token, inFlight, call, asked, timer, polling, screen, cart,
      dirty, encrypts, broken, file, tx, active, charges, dropped, again, abandoned,
      crossed, kioskCrashes, revokes>>
remoteVars == <<vars, shelfVars, kioskVars>>

RemoteInit == Init /\ Shelf!Init /\ Kiosk!Init

SendOrders == Next /\ UNCHANGED <<shelfVars, kioskVars>>
PushPrices == Shelf!Next /\ UNCHANGED <<vars, kioskVars>>
ServeShoppers == Kiosk!Next /\ UNCHANGED <<vars, shelfVars>>

RemoteNext == SendOrders \/ PushPrices \/ ServeShoppers

RemoteSpec == RemoteInit /\ [][RemoteNext]_remoteVars

-----------------------------------------------------------------------------
(* The states of every component are of the kinds it declares.             *)
TypesHold == BuyingTypeOK /\ MailTypeOK /\ Shelf!TypeOK /\ Kiosk!TypeOK

(* Stock, buying list and orders agree, however an order is delivered, cut *)
(* short or mailed, and a vendor gets an order once, and once more at most *)
(* for a lost answer or a crash (PurchaseOrderStore, MailWorker).          *)
OrdersFollow == GoodsFollowOrders /\ MailedOnce

(* A synced price tag shows the price the register charges, unless its     *)
(* push was overtaken by a change (EslDriver, recordPriceTagPush).         *)
TagsTellThePrice == Shelf!TagsTellThePrice

(* A kiosk knows the charge that is not settled, lets go of it only as it  *)
(* ended, and charges a cart again only if it took no money before, across *)
(* crashes, lost answers, a bad disk and being turned off (charge,         *)
(* pollInFlight, persist).                                                 *)
KioskTellsTheTruth == Kiosk!KioskTellsTheTruth
==============================================================================
