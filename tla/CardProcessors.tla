--------------------------- MODULE CardProcessors ---------------------------
(***************************************************************************)
(* The three card processor adapters of packages/payments and the card     *)
(* terminal behind them, for one authorization per charge reference.       *)
(*                                                                         *)
(* An adapter talks to the terminal over the network and keeps what it     *)
(* learned in a durable store (the ProcessorStorage the service injects).  *)
(* The store survives a crash of the manager; the calls in flight do not,  *)
(* and the terminal decides whether or not anyone is still listening.      *)
(***************************************************************************)
EXTENDS Naturals

CONSTANT Charges      \* charge references, a fresh one for each attempt

VARIABLES
    adapter,          \* the configured processor
    call,             \* the createCharge call of each charge, as the service awaits it
    terminal,         \* what the card terminal did with each charge
    store             \* what the adapter's durable store says of each charge

procVars == <<adapter, call, terminal, store>>

Adapters == {"simulated", "cardknox-bbpos", "usaepay-payment-engine"}

(* The results a createCharge or a getChargeStatus call can return.        *)
Results == {"approved", "declined", "error", "pending"}

ProcTypeOK ==
    /\ adapter \in Adapters
    /\ call \in [Charges -> Results \cup {"none", "sent", "polling"}]
    /\ terminal \in [Charges -> {"idle", "asked", "approved", "declined"}]
    /\ store \in [Charges -> Results \cup {"none", "keyed"}]

ProcInit ==
    /\ adapter \in Adapters
    /\ call = [c \in Charges |-> "none"]
    /\ terminal = [c \in Charges |-> "idle"]
    /\ store = [c \in Charges |-> "none"]

-----------------------------------------------------------------------------
(* createCharge *)

(* The service calls createCharge. The USAePay adapter notes a pending     *)
(* request before it posts one; the others store nothing yet.              *)
SendCharge(c) ==
    /\ call' = [call EXCEPT ![c] = "sent"]
    /\ store' = IF adapter = "usaepay-payment-engine"
                THEN [store EXCEPT ![c] = "pending"]
                ELSE store
    /\ UNCHANGED <<adapter, terminal>>

(* The request reaches the terminal, which asks for a card. A request that *)
(* is lost never takes this step.                                          *)
TerminalAsks(c) ==
    /\ adapter # "simulated"
    /\ call[c] = "sent"
    /\ terminal[c] = "idle"
    /\ terminal' = [terminal EXCEPT ![c] = "asked"]
    /\ UNCHANGED <<adapter, call, store>>

(* The customer pays, or the payment is declined, cancelled or times out   *)
(* at the terminal.                                                        *)
TerminalDecides(c) ==
    /\ adapter # "simulated"
    /\ terminal[c] = "asked"
    /\ \E decision \in {"approved", "declined"} :
            terminal' = [terminal EXCEPT ![c] = decision]
    /\ UNCHANGED <<adapter, call, store>>

(* USAePay answers the post with a request key, which is stored before the *)
(* polling starts.                                                         *)
KeyStored(c) ==
    /\ adapter = "usaepay-payment-engine"
    /\ call[c] = "sent"
    /\ terminal[c] # "idle"
    /\ store' = [store EXCEPT ![c] = "keyed"]
    /\ call' = [call EXCEPT ![c] = "polling"]
    /\ UNCHANGED <<adapter, terminal>>

(* What one look at a request key can return: pending while the terminal   *)
(* is busy and whenever the network fails, "error" for a failed or timed   *)
(* out request, "declined" for a declined or cancelled one.                *)
PollResults(c) ==
    {"pending"}
      \cup (IF terminal[c] = "approved" THEN {"approved"} ELSE {})
      \cup (IF terminal[c] = "declined" THEN {"declined", "error"} ELSE {})

(* Fault: an unclear or lost answer counts as a decline.                   *)
SilenceDeclines(c) ==
    {"declined"} \cup ({terminal[c]} \cap {"approved"})

(* What the answer of the BBPOS reader can be; a lost, unclear or          *)
(* reference-less answer is pending.                                       *)
ReaderResults(c) ==
    {"pending"} \cup ({terminal[c]} \cap {"approved", "declined"})

(* A polled result goes to the store together with its request key.        *)
Keyed(result) == IF result = "pending" THEN "keyed" ELSE result

(* The simulated processor decides after its delay, by the amount; only    *)
(* then is there a record of the charge.                                   *)
SimulatedAnswer(c) ==
    /\ adapter = "simulated"
    /\ call[c] = "sent"
    /\ \E result \in Results :
         /\ call' = [call EXCEPT ![c] = result]
         /\ store' = [store EXCEPT ![c] = result]
         /\ terminal' = [terminal EXCEPT ![c] =
                           IF result \in {"approved", "declined"} THEN result
                           ELSE "asked"]
    /\ UNCHANGED adapter

(* The reader's answer, or none, ends the BBPOS call; it is stored first.  *)
ReaderAnswer(c) ==
    /\ adapter = "cardknox-bbpos"
    /\ call[c] = "sent"
    /\ \E result \in ReaderResults(c) :
         /\ call' = [call EXCEPT ![c] = result]
         /\ store' = [store EXCEPT ![c] = result]
    /\ UNCHANGED <<adapter, terminal>>

(* The post fails or brings no key: pending, and no key to ask with later. *)
PostFails(c) ==
    /\ adapter = "usaepay-payment-engine"
    /\ call[c] = "sent"
    /\ call' = [call EXCEPT ![c] = "pending"]
    /\ store' = [store EXCEPT ![c] = "pending"]
    /\ UNCHANGED <<adapter, terminal>>

(* Polling ends with the terminal's result, a network failure or the       *)
(* deadline.                                                               *)
PollAnswer(c) ==
    /\ adapter = "usaepay-payment-engine"
    /\ call[c] = "polling"
    /\ \E result \in PollResults(c) :
         /\ call' = [call EXCEPT ![c] = result]
         /\ store' = [store EXCEPT ![c] = Keyed(result)]
    /\ UNCHANGED <<adapter, terminal>>

CreateAnswers(c) ==
    \/ SimulatedAnswer(c)
    \/ ReaderAnswer(c)
    \/ PostFails(c)
    \/ PollAnswer(c)

-----------------------------------------------------------------------------
(* getChargeStatus *)

(* Fault: what is stored is returned as it is, request key and all.        *)
StoredAsIs(c) == IF store[c] = "none" THEN "looking" ELSE store[c]

(* What getChargeStatus knows when it is called: a stored approval or      *)
(* decline is returned as it is, a USAePay charge without a request key is *)
(* pending, and for everything else the adapter has to look, in the report *)
(* (BBPOS), at the request key (USAePay) or after its delay (simulated).   *)
StatusAtOnce(c) ==
    IF adapter # "simulated" /\ store[c] \in {"approved", "declined"}
    THEN store[c]
    ELSE IF adapter = "usaepay-payment-engine" /\ store[c] # "keyed"
                                               /\ store[c] # "error"
    THEN "pending"
    ELSE "looking"

(* The look itself: result and the store afterwards. The BBPOS adapter     *)
(* throws when the report does not settle the charge. A simulated charge   *)
(* that was pending turns out approved, and one without a record was never *)
(* made.                                                                   *)
StatusLooks(c) ==
    CASE adapter = "simulated" ->
           {IF store[c] = "none" THEN [result |-> "error", store |-> "none"]
            ELSE IF store[c] = "pending"
                 THEN [result |-> "approved", store |-> "approved"]
                 ELSE [result |-> store[c], store |-> store[c]]}
      [] adapter = "cardknox-bbpos" ->
           {[result |-> r, store |-> r] : r \in ReaderResults(c) \ {"pending"}}
             \cup {[result |-> "throw", store |-> store[c]]}
      [] adapter = "usaepay-payment-engine" ->
           {[result |-> r, store |-> Keyed(r)] : r \in PollResults(c)}

(* The effect of the look on the store and, for a simulated charge that    *)
(* was pending, on the money.                                              *)
Look(c, seen) ==
    /\ store' = [store EXCEPT ![c] = seen.store]
    /\ terminal' = [terminal EXCEPT ![c] =
                      IF adapter = "simulated" /\ seen.result = "approved"
                      THEN "approved" ELSE @]
    /\ UNCHANGED <<adapter, call>>

(* A crash loses the calls in flight and nothing else.                     *)
LoseCalls ==
    /\ call' = [c \in Charges |-> "none"]
    /\ UNCHANGED <<adapter, terminal, store>>

(* The service has taken the answer of a call.                             *)
TakeAnswer(c) ==
    /\ call' = [call EXCEPT ![c] = "none"]
    /\ UNCHANGED <<adapter, terminal, store>>
=============================================================================
