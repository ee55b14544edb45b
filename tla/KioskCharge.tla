----------------------------- MODULE KioskCharge ----------------------------
(***************************************************************************)
(* A self-checkout kiosk that charges cards: its main process, the file it *)
(* keeps its state in, its screen, and the manager at the other end of the *)
(* store's network.  A kiosk signed in to the cloud account charges on its *)
(* own instead.                                                            *)
(*                                                                         *)
(* The kiosk writes down which charge it is about to ask for and refuses   *)
(* another one until that one is settled; when an answer does not come it  *)
(* polls.  A request whose connection breaks has been read by the manager  *)
(* or never will be.  Nobody pairs a kiosk while it waits for an answer.   *)
(* The screen keeps the cart until it learns that it was paid for.         *)
(***************************************************************************)
EXTENDS Naturals, FiniteSets

CONSTANTS
    MaxCharges,      \* bound: charges the kiosk asks for
    MaxCrashes,      \* bound: crashes of the kiosk
    MaxRevokes,      \* bound: times the manager turns the kiosk off
    DiskFails,       \* a write of the state file may fail
    KeepsToken,      \* whether safeStorage can encrypt: values of encrypts
    None

(* isTerminalKioskChargeStatus.                                            *)
TerminalStatus == {"approved", "declined", "error", "needs-attention", "voided"}

KioskAssumption ==
    /\ {MaxCharges, MaxCrashes, MaxRevokes} \subseteq Nat
    /\ DiskFails \in BOOLEAN
    /\ KeepsToken \subseteq BOOLEAN /\ KeepsToken # {}
    /\ None \notin Nat \cup TerminalStatus

VARIABLES
    up,              \* the kiosk runs
    mode,            \* "none", "lan": paired, "cloud": signed in
    token,           \* the bearer token: "none", "current", "stale": of an
                     \* earlier pairing
    inFlight,        \* state.inFlightCharge, or None
    call,            \* charge() is "idle", "persisting", "ready" or "waiting"
    asked,           \* the charge that charge() asks for, or asked for last
    timer,           \* chargePollTimer is set
    polling,         \* the charge that a poll asks about, or None
    screen,
    cart,            \* None: empty; 0: filled; c: filled, and c was asked for it
    dirty,           \* the state changed since it was written
    encrypts,        \* encryptionAvailable since the start: the token is kept
    broken,          \* a write failed: the chain of writes is rejected
    file,            \* kiosk-state.json
    tx,              \* payment_transactions: [at, status], or None
    active,          \* the manager knows the current token
    charges,         \* charges asked for: 1 .. charges
    dropped,         \* dropped[c]: outcome with which the kiosk let go of c
    again,           \* again[c]: the charge before c for the same cart (history)
    abandoned,       \* charges in flight, or asked for the cart, when the kiosk
                     \* was set up again (history)
    crossed,         \* it was paired again while a poll was due (history)
    crashes, revokes

flightVars == <<inFlight, call, asked, timer, polling>>
keptVars == <<encrypts, broken, file>>
diskVars == <<dirty, keptVars>>
managerVars == <<tx, active>>
countVars == <<charges, crashes, revokes>>
screenVars == <<screen, cart>>
historyVars == <<again, abandoned, crossed>>
vars == <<up, mode, token, flightVars, screenVars, diskVars, managerVars, dropped,
          historyVars, countVars>>

Charges == 1..MaxCharges
Unsettled == {"initiated", "unknown"}

(* Fault: a charge nobody knows the end of counts as settled.              *)
AnyStatus(status) == status \in TerminalStatus \cup {"unknown"}

Settled(status) == status \in TerminalStatus

Memory == [mode |-> mode, token |-> token, inFlight |-> inFlight]

(* finishCharge: whichever charge is in flight is let go of.               *)
FinishCharge(c, status) ==
    IF Settled(status)
    THEN /\ inFlight' = None
         /\ dropped' = [dropped EXCEPT ![c] = status]
         /\ dirty' = TRUE
    ELSE UNCHANGED <<inFlight, dropped, dirty>>

(* ------------------------------ The screen ------------------------------ *)

Paired == token # "none"
Known == token = "current" /\ active
TurnedOff == ~Paired /\ mode # "cloud"

(* A charge in flight and a kiosk that is turned off hide what is below.   *)
Covered == inFlight # None \/ TurnedOff

Shows(panel) == up /\ ~Covered /\ screen = panel

OnScreen ==
    UNCHANGED <<up, mode, token, flightVars, diskVars, managerVars, dropped,
                historyVars, countVars>>

(* The effect that follows what the main process publishes.                *)
FollowState ==
    /\ up
    /\ screen' = CASE TurnedOff -> "unreachable"
                   [] inFlight # None /\ ~TurnedOff -> "recovery"
                   [] OTHER -> IF screen = "unreachable" THEN "attract" ELSE screen
    /\ screen' # screen
    /\ UNCHANGED cart
    /\ OnScreen

StartShopping ==
    /\ Shows("attract")
    /\ screen' = "shopping"
    /\ UNCHANGED cart
    /\ OnScreen

(* addBarcode, confirmWeigh and changeQuantity.                            *)
FillCart ==
    /\ Shows("shopping")
    /\ cart' = IF cart = None THEN 0 ELSE None
    /\ UNCHANGED screen
    /\ OnScreen

(* A cart nobody touches is put back, a sale that was made is shown for a  *)
(* while, and so is the button of the recovery panel.                      *)
StartOver ==
    /\ \/ Shows("shopping") /\ cart # None
       \/ Shows("approved") \/ Shows("recovery")
    /\ screen' = "attract"
    /\ cart' = None
    /\ OnScreen

BackToCart ==
    /\ Shows("declined")
    /\ screen' = "shopping"
    /\ UNCHANGED cart
    /\ OnScreen

(* "Cancel": the next customer finds the cart.                             *)
LeaveCart ==
    /\ Shows("shopping")
    /\ screen' = "attract"
    /\ UNCHANGED cart
    /\ OnScreen

(* handleChargeResult.                                                     *)
ShowResult(status) ==
    /\ screen' = IF status \in {"approved", "declined"} THEN status ELSE "recovery"
    /\ cart' = IF status = "approved" THEN None ELSE cart

(* ------------------------------- Charging ------------------------------- *)

(* pay and charge, up to the first await.                                  *)
Charge ==
    /\ Shows("shopping") /\ call = "idle"
    /\ cart # None
    /\ charges < MaxCharges
    /\ charges' = charges + 1
    /\ inFlight' = charges + 1
    /\ asked' = charges + 1
    /\ call' = "persisting"
    /\ dirty' = TRUE
    /\ screen' = "paying"
    /\ cart' = charges + 1
    /\ again' = [again EXCEPT ![charges + 1] = cart]
    /\ UNCHANGED <<up, mode, token, timer, polling, keptVars, managerVars,
                   dropped, abandoned, crossed, crashes, revokes>>

(* refuseKioskCharge, when "Pay" is touched twice.                         *)
RefuseCharge ==
    /\ up /\ call # "idle" /\ screen = "paying"
    /\ inFlight # None
    /\ screen' = "recovery"
    /\ UNCHANGED cart
    /\ OnScreen

(* benefitCharge, and charge of a signed-in kiosk without card processing: *)
(* the sale is made in the kiosk's own store.                              *)
SellLocally ==
    /\ Shows("shopping") /\ call = "idle"
    /\ cart # None
    /\ ShowResult("approved")
    /\ OnScreen

(* resolveLines knows no such product, or the own store refuses the sale:  *)
(* the cart stays where it is.                                             *)
CartRefused ==
    /\ Shows("shopping") /\ call = "idle"
    /\ cart # None
    /\ screen' = "unreachable"
    /\ UNCHANGED cart
    /\ OnScreen

(* Fault: the request goes out while the state is still being written.     *)
SentAtOnce == call \in {"persisting", "ready"}

Remembered == call = "ready"

(* The request reaches the manager, or the kiosk's own payment service;    *)
(* validate passes and the charge is journalled.                           *)
ChargeTaken ==
    /\ up /\ Remembered
    /\ mode = "lan" => Known
    /\ tx' = [tx EXCEPT ![asked] = [at |-> mode, status |-> "initiated"]]
    /\ call' = "waiting"
    /\ UNCHANGED <<up, mode, token, inFlight, asked, timer, polling, screenVars,
                   diskVars, active, dropped, historyVars, countVars>>

(* The manager refuses: it is asked again for the status.  A signed-in     *)
(* kiosk only shows the message, and the charge stays in flight.           *)
ChargeRefused ==
    /\ up /\ call = "ready"
    /\ mode = "lan" => Known
    /\ call' = "idle"
    /\ timer' = (mode = "lan")
    /\ screen' = "unreachable"
    /\ UNCHANGED <<up, mode, token, inFlight, asked, polling, cart, diskVars, managerVars,
                   dropped, historyVars, countVars>>

(* request answered 401.                                                   *)
Denied ==
    /\ Paired /\ ~Known
    /\ token' = "none"
    /\ dirty' = TRUE
    /\ UNCHANGED <<inFlight, dropped>>

ChargeDenied ==
    /\ up /\ call = "ready" /\ mode = "lan"
    /\ Denied
    /\ call' = "idle"
    /\ screen' = "unreachable"
    /\ UNCHANGED <<up, mode, asked, timer, polling, cart, keptVars, managerVars,
                   historyVars, countVars>>

(* The connection breaks, before or after the manager took the charge.     *)
ChargeLost ==
    /\ up /\ call \in {"ready", "waiting"} /\ mode = "lan"
    /\ call' = "idle"
    /\ timer' = TRUE
    /\ dirty' = TRUE
    /\ screen' = "recovery"
    /\ UNCHANGED <<up, mode, token, inFlight, asked, polling, cart, keptVars,
                   managerVars, dropped, historyVars, countVars>>

ChargeAnswered ==
    /\ up /\ call = "waiting"
    /\ tx[asked].status # "initiated"
    /\ FinishCharge(asked, tx[asked].status)
    /\ timer' = ~Settled(tx[asked].status)
    /\ call' = "idle"
    /\ ShowResult(tx[asked].status)
    /\ UNCHANGED <<up, mode, token, asked, polling, keptVars, managerVars,
                   historyVars, countVars>>

(* The terminal, reconciliation and the operator move a charge on.         *)
ManagerSettles(c) ==
    /\ tx[c] # None
    /\ tx[c].at = "cloud" => up
    /\ \E status \in {"approved", "declined", "error", "unknown",
                      "needs-attention", "voided"} :
         /\ \/ tx[c].status = "initiated" /\ status # "voided"
            \/ tx[c].status = "unknown" /\ status # "unknown"
            \/ tx[c].status = "approved" /\ status = "needs-attention"
            \/ tx[c].status = "needs-attention" /\ status \in {"approved", "voided"}
         /\ tx' = [tx EXCEPT ![c].status = status]
    /\ UNCHANGED <<up, mode, token, flightVars, screenVars, diskVars, active,
                   dropped, historyVars, countVars>>

(* -------------------------------- Polling ------------------------------- *)

PollSent ==
    /\ up /\ timer /\ polling = None
    /\ timer' = FALSE
    /\ polling' = IF mode = "lan" => Paired THEN inFlight ELSE None
    /\ UNCHANGED <<up, mode, token, inFlight, call, asked, screenVars, diskVars,
                   managerVars, dropped, historyVars, countVars>>

(* What the status of a charge is where the kiosk asks: a manager that has *)
(* no such charge answers "error".                                         *)
StatusAt(c) ==
    CASE tx[c] # None /\ tx[c].at = mode -> tx[c].status
      [] mode = "lan" /\ (tx[c] = None \/ tx[c].at # mode) -> "error"
      [] OTHER -> "none"

(* Fault: a poll that is answered is the last one.                         *)
PollsOnce(status) == FALSE

(* Every request of a paired kiosk saves the state, and a write that fails *)
(* ends the polling.  A signed-in kiosk polls once.                        *)
PollsOn(status) == mode = "lan" /\ ~Settled(status) /\ ~broken

PollAnswered ==
    /\ up /\ polling # None
    /\ mode = "lan" => Known
    /\ polling' = None
    /\ FinishCharge(polling, StatusAt(polling))
    /\ timer' = PollsOn(StatusAt(polling))
    /\ UNCHANGED <<up, mode, token, call, asked, screenVars, keptVars, managerVars,
                   historyVars, countVars>>

PollDenied ==
    /\ up /\ polling # None /\ mode = "lan"
    /\ polling' = None
    /\ Denied
    /\ UNCHANGED <<up, mode, call, asked, timer, screenVars, keptVars, managerVars,
                   historyVars, countVars>>

PollLost ==
    /\ up /\ polling # None /\ mode = "lan"
    /\ polling' = None
    /\ timer' = ~broken
    /\ UNCHANGED <<up, mode, token, inFlight, call, asked, screenVars, diskVars,
                   managerVars, dropped, historyVars, countVars>>

(* --------------------------- Pairing and signing in ---------------------- *)

(* pair, from the pairing screen; the charge in flight is forgotten, the   *)
(* cart is not.                                                            *)
Pair ==
    /\ up /\ TurnedOff
    /\ call = "idle" /\ polling = None
    /\ mode' = "lan"
    /\ token' = "current"
    /\ active' = TRUE
    /\ file' = [file EXCEPT !.token = IF @ = "current" THEN "stale" ELSE @]
    /\ inFlight' = None
    /\ abandoned' = abandoned \cup ({inFlight, cart} \cap Charges)
    /\ crossed' = (crossed \/ timer)
    /\ dirty' = TRUE
    /\ screen' = "attract"
    /\ UNCHANGED <<up, call, asked, timer, polling, cart, encrypts, broken, tx, dropped,
                   again, countVars>>

(* finishCloudSignIn, from the same screen; the charge is kept.            *)
CloudSignIn ==
    /\ up /\ TurnedOff
    /\ call = "idle" /\ polling = None
    /\ mode' = "cloud"
    /\ dirty' = TRUE
    /\ screen' = "attract"
    /\ abandoned' = abandoned \cup (({cart} \ {inFlight}) \cap Charges)
    /\ UNCHANGED <<up, token, flightVars, cart, keptVars, managerVars,
                   dropped, again, crossed, countVars>>

(* revokeKiosk; the next request, of the catalog too, is denied.           *)
Revoke ==
    /\ active
    /\ revokes < MaxRevokes
    /\ revokes' = revokes + 1
    /\ active' = FALSE
    /\ UNCHANGED <<up, mode, token, flightVars, screenVars, diskVars, tx, dropped,
                   historyVars, charges, crashes>>

RefreshDenied ==
    /\ up /\ mode = "lan"
    /\ call # "waiting"
    /\ Denied
    /\ UNCHANGED <<up, mode, call, asked, timer, polling, screenVars, keptVars,
                   managerVars, historyVars, countVars>>

(* ------------------------------ Persistence ----------------------------- *)

Written == IF call = "persisting" THEN "ready" ELSE call

(* persist: the state of the moment is written to a file and renamed.      *)
Persist ==
    /\ up /\ dirty /\ ~broken
    /\ file' = [Memory EXCEPT !.token = IF encrypts THEN token ELSE "none"]
    /\ dirty' = FALSE
    /\ call' = Written
    /\ UNCHANGED <<up, mode, token, inFlight, asked, timer, polling, screenVars,
                   encrypts, broken, managerVars, dropped, historyVars, countVars>>

(* A write fails, that of a catalog refresh too, and with it every later   *)
(* one: charge throws, and the screen keeps waiting.                       *)
PersistFails ==
    /\ DiskFails
    /\ up /\ (dirty \/ ~broken)
    /\ broken' = TRUE
    /\ dirty' = FALSE
    /\ call' = IF call = "persisting" THEN "idle" ELSE call
    /\ UNCHANGED <<up, mode, token, inFlight, asked, timer, polling, screenVars,
                   encrypts, file, managerVars, dropped, historyVars, countVars>>

Crash ==
    /\ up
    /\ crashes < MaxCrashes
    /\ crashes' = crashes + 1
    /\ up' = FALSE
    /\ call' = "idle" /\ timer' = FALSE
    /\ asked' = None /\ polling' = None
    /\ dirty' = FALSE /\ broken' = FALSE
    /\ screen' = "unreachable" /\ cart' = None
    /\ mode' = file.mode /\ token' = file.token /\ inFlight' = file.inFlight
    /\ UNCHANGED <<encrypts, file, managerVars, dropped, historyVars, charges, revokes>>

(* loadState, which writes what it could read, and a poll at once when     *)
(* there is a token.                                                       *)
Restart ==
    /\ ~up
    /\ up' = TRUE
    /\ encrypts' \in KeepsToken
    /\ token' = IF encrypts' THEN token ELSE "none"
    /\ file' = [file EXCEPT !.token = token']
    /\ UNCHANGED <<mode, inFlight, call, asked, polling, screenVars, dirty, broken,
                   managerVars, dropped, historyVars, countVars>>
    /\ timer' = (inFlight # None /\ ~TurnedOff')

Init ==
    /\ up = TRUE
    /\ mode = "none"
    /\ token = "none"
    /\ inFlight = None
    /\ call = "idle" /\ timer = FALSE
    /\ asked = None /\ polling = None
    /\ screen = "unreachable" /\ cart = None
    /\ encrypts \in KeepsToken
    /\ dirty = FALSE /\ broken = FALSE
    /\ file = Memory
    /\ tx = [c \in Charges |-> None]
    /\ active = FALSE
    /\ charges = 0
    /\ dropped = [c \in Charges |-> None]
    /\ again = [c \in Charges |-> None]
    /\ abandoned = {}
    /\ crossed = FALSE
    /\ crashes = 0
    /\ revokes = 0

Poll == PollSent \/ PollAnswered \/ PollDenied

Next ==
    \/ FollowState \/ StartShopping \/ FillCart \/ StartOver \/ BackToCart \/ LeaveCart
    \/ Charge \/ RefuseCharge \/ SellLocally \/ CartRefused
    \/ ChargeTaken \/ ChargeRefused \/ ChargeDenied \/ ChargeLost \/ ChargeAnswered
    \/ \E c \in Charges : ManagerSettles(c)
    \/ Poll \/ PollLost
    \/ Pair \/ CloudSignIn \/ Revoke \/ RefreshDenied
    \/ Persist \/ PersistFails \/ Crash \/ Restart

Spec == Init /\ [][Next]_vars

(* Timers fire, writes end, the manager's reconciliation settles a charge, *)
(* a crashed kiosk is started, and the network is not broken for ever.     *)
Fairness ==
    /\ WF_vars(PollSent) /\ WF_vars(dirty /\ (Persist \/ PersistFails))
    /\ WF_vars(ChargeTaken \/ ChargeRefused \/ ChargeDenied \/ ChargeLost)
    /\ WF_vars(ChargeAnswered)
    /\ SF_vars(PollAnswered \/ PollDenied)
    /\ WF_vars(Restart)
    /\ \A c \in Charges :
         WF_vars(tx[c] # None /\ tx[c].status \in Unsettled /\ ManagerSettles(c))

-----------------------------------------------------------------------------
Unpaid(c) == tx[c] = None \/ tx[c].status \in {"declined", "error"}

TypeOK ==
    /\ mode \in {"none", "lan", "cloud"}
    /\ inFlight \in Charges \cup {None}
    /\ call \in {"idle", "persisting", "ready", "waiting"}
    /\ polling \in Charges \cup {None}
    /\ token \in {"none", "current", "stale"}
    /\ cart \in Charges \cup {None, 0}
    /\ call # "idle" => asked # None /\ (crossed \/ inFlight = asked)
    /\ \A c \in Charges : tx[c] # None => c <= charges

(* Whatever crashes, breaks or is refused, the kiosk knows the charge that *)
(* is not settled yet, so that it neither asks for another one nor lets    *)
(* the customer go; when it lets go of a charge, the charge ended that     *)
(* way: "declined" and "error" took no money and never will; and a cart    *)
(* for which a charge was asked is charged again only if that one took no  *)
(* money.  Exceptions are a charge that the operator sets the kiosk up     *)
(* away from, which leaves the cart on the screen, and, if its poll is     *)
(* still due then, the next one: the poll asks for whatever is in flight   *)
(* (charge, handleChargeResult, pollInFlight, finishCharge, persist).      *)
KioskTellsTheTruth ==
    ~crossed =>
    /\ \A c \in Charges \ abandoned :
         tx[c] # None /\ tx[c].status \in Unsettled => inFlight = c
    /\ \A c \in Charges :
         /\ dropped[c] \in {"declined", "error"} => Unpaid(c)
         /\ dropped[c] \in {"approved", "needs-attention", "voided"} =>
              tx[c].status \in {"approved", "needs-attention", "voided"}
         /\ again[c] \in Charges \ abandoned => Unpaid(again[c])

(* A paired kiosk does not refuse customers for ever: the charge in flight *)
(* is settled, unless the kiosk is turned off or cannot write its state    *)
(* (pollInFlight, scheduleChargePoll).                                     *)
ChargeLeaves ==
    \A c \in Charges :
        inFlight = c /\ mode = "lan" ~> inFlight # c \/ mode # "lan" \/ ~Paired \/ broken
=============================================================================
