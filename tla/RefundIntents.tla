---------------------------- MODULE RefundIntents ----------------------------
(***************************************************************************)
(* Refunds of one sale: PaymentService.refund and resolveRefundAttention   *)
(* over the refund intents, the refund records and the stock of            *)
(* StoreDatabase, with refundCharge and getRefundStatus of the adapters    *)
(* and the processor behind them.                                          *)
(*                                                                         *)
(* As in PaymentLifecycle, code between two awaits runs alone, the process *)
(* can die between two database transactions of it, and "thread" is where  *)
(* the thread stands between such transactions.                            *)
(***************************************************************************)
EXTENDS Integers, FiniteSets, Functions

CONSTANTS
    Operations,       \* operation ids, a fresh one each time the form is sent
    ByHand,           \* operations that ask no processor: cash, account, terminal
    Items,            \* the lines of the sale
    Sold,             \* Sold[i]: quantity sold of line i
    Wanted,           \* Wanted[o][i]: quantity of line i that operation o refunds
    Resalable,        \* Resalable[o]: lines whose goods go back to stock
    Callers,          \* adapter calls that can be awaited at once
    NoOperation       \* not an operation

ASSUME RefundAssumption ==
    /\ ByHand \subseteq Operations
    /\ NoOperation \notin Operations
    /\ Sold \in [Items -> Nat]
    /\ \E i \in Items : Sold[i] > 0    \* the sale has a line
    /\ Wanted \in [Operations -> [Items -> Nat]]
    /\ Resalable \in [Operations -> SUBSET Items]

VARIABLES
    adapter,          \* the processor the sale was charged with
    intent,           \* refund_intents: the state of each operation
    record,           \* refunds: how the refund of each operation is recorded
    returned,         \* refund_items: quantity of each line refunded so far
    stock,            \* customer_return movements: units put back of each line
    saleStatus,       \* sales.status
    call,             \* [at, operation]: the adapter call each caller awaits
    thread,           \* [at, operation, reference]: the refund under way, if any
    up,               \* the manager is running
    open,             \* refund requests on their way to the processor
    given,            \* how often the processor gave the money of each operation back
    known             \* the adapter's durable store: "id" or "no-id" once refunded

storeVars == <<intent, record, returned, stock, saleStatus>>
procVars == <<adapter, open, given, known>>
vars == <<storeVars, procVars, call, thread, up>>

Adapters == {"simulated", "cardknox-bbpos", "usaepay-payment-engine"}
States == {"none", "recorded", "sent", "completed", "failed", "attention"}

(* What an adapter call can answer: money given back, with or without a    *)
(* reference; declined or error; a status that is not known.               *)
Answers == {"refunded", "no-id", "failed", "unclear"}

Calls == [at : Answers \cup {"free", "asking", "looking"},
          operation : Operations \cup {NoOperation}]
Positions == [at : {"idle", "send", "book", "complete", "fail"},
              operation : Operations \cup {NoOperation},
              reference : {"none", "id"}]

TypeOK ==
    /\ adapter \in Adapters
    /\ intent \in [Operations -> States]
    /\ record \in [Operations -> {"none", "card", "by hand"}]
    /\ returned \in [Items -> Nat]
    /\ \A i \in Items : returned[i] <= Sold[i]
    /\ stock \in [Items -> Nat]
    /\ saleStatus \in {"completed", "refunded"}
    /\ call \in [Callers -> Calls]
    /\ thread \in Positions
    /\ up \in BOOLEAN
    /\ open \in [Operations -> Nat]
    /\ given \in [Operations -> Nat]
    /\ known \in [Operations -> {"none", "id", "no-id"}]

Free == [at |-> "free", operation |-> NoOperation]
Idle == [at |-> "idle", operation |-> NoOperation, reference |-> "none"]

Init ==
    /\ adapter \in Adapters
    /\ intent = [o \in Operations |-> "none"]
    /\ record = [o \in Operations |-> "none"]
    /\ returned = [i \in Items |-> 0]
    /\ stock = [i \in Items |-> 0]
    /\ saleStatus = "completed"
    /\ call = [w \in Callers |-> Free]
    /\ thread = Idle
    /\ up = TRUE
    /\ open = [o \in Operations |-> 0]
    /\ given = [o \in Operations |-> 0]
    /\ known = [o \in Operations |-> "none"]

CanRun == up /\ thread.at = "idle"

-----------------------------------------------------------------------------
(* The journal and the records *)

(* calculateRefund accepts the operation: every line it asks for is still  *)
(* there to be refunded. Only recorded refunds count.                      *)
Refundable(o) ==
    /\ \E i \in Items : Wanted[o][i] > 0
    /\ \A i \in Items : Wanted[o][i] <= Sold[i] - returned[i]

(* Fault: without the triggers, any update of the state is accepted.       *)
Unguarded(from, to) == from # to

(* The triggers refund_intents_state_transitions and _terminal_immutable.  *)
Legal(from, to) ==
    \/ from = "recorded" /\ to \in {"sent", "failed", "completed"}
    \/ from = "sent" /\ to \in {"completed", "attention", "failed"}
    \/ from = "attention" /\ to \in {"attention", "completed", "failed"}

(* updateRefundIntent; an aborted update throws and changes nothing.       *)
SetIntent(o, state) ==
    intent' = IF Legal(intent[o], state) THEN [intent EXCEPT ![o] = state]
              ELSE intent

(* Fault: the limits of the sale are not checked again.                    *)
CanBookLate(o, reference) == o \in ByHand \/ reference = "id"

(* recordRefund validates again, and a card refund needs the processor's   *)
(* reference.                                                              *)
CanBook(o, reference) == Refundable(o) /\ (o \in ByHand \/ reference = "id")

(* Fault: the goods of every line go back to stock.                        *)
InsertAllToStock(o) ==
    /\ record' = [record EXCEPT ![o] = IF o \in ByHand THEN "by hand" ELSE "card"]
    /\ returned' = [i \in Items |-> returned[i] + Wanted[o][i]]
    /\ stock' = [i \in Items |-> stock[i] + Wanted[o][i]]
    /\ saleStatus' = IF \A i \in Items : returned'[i] >= Sold[i]
                     THEN "refunded" ELSE saleStatus

(* The transaction of recordRefund.                                        *)
Insert(o) ==
    /\ record' = [record EXCEPT ![o] = IF o \in ByHand THEN "by hand" ELSE "card"]
    /\ returned' = [i \in Items |-> returned[i] + Wanted[o][i]]
    /\ stock' = [i \in Items |->
                   stock[i] + (IF i \in Resalable[o] THEN Wanted[o][i] ELSE 0)]
    /\ saleStatus' = IF \A i \in Items : returned'[i] >= Sold[i]
                     THEN "refunded" ELSE saleStatus

-----------------------------------------------------------------------------
(* refund: an operation that has not been sent *)

(* Fault: an operation that was cut off is sent again.                     *)
UnsentOrCutOff(o) == intent[o] \in {"none", "recorded", "sent"}

Unsent(o) == intent[o] \in {"none", "recorded"}

(* refund finds no record of the operation, validates it and journals it,  *)
(* or finds the journal entry that a crash or a missing configuration left *)
(* behind. A replayed operation that is recorded returns its record.       *)
StartRefund(o) ==
    /\ CanRun
    /\ record[o] = "none"
    /\ Refundable(o)
    /\ Unsent(o)
    /\ o \in ByHand \/ \E w \in Callers : call[w].at = "free"
    /\ intent' = [intent EXCEPT ![o] = IF @ = "none" THEN "recorded" ELSE @]
    /\ thread' = [at |-> IF o \in ByHand THEN "book" ELSE "send",
                  operation |-> o, reference |-> "none"]
    /\ UNCHANGED <<record, returned, stock, saleStatus, procVars, call, up>>

(* The journal says "sent" before refundCharge is called.                  *)
SendRefund(w) ==
    LET o == thread.operation
    IN  /\ up
        /\ thread.at = "send"
        /\ call[w].at = "free"
        /\ intent' = [intent EXCEPT ![o] = "sent"]
        /\ open' = [open EXCEPT ![o] = @ + 1]
        /\ call' = [call EXCEPT ![w] = [at |-> "asking", operation |-> o]]
        /\ thread' = Idle
        /\ UNCHANGED <<record, returned, stock, saleStatus, adapter, given,
                       known, up>>

(* The processor or its configuration is gone: refund throws and leaves    *)
(* the entry as it is.                                                     *)
ConfigUnavailable ==
    /\ up
    /\ thread.at = "send"
    /\ thread' = Idle
    /\ UNCHANGED <<storeVars, procVars, call, up>>

-----------------------------------------------------------------------------
(* The processor, and the adapters' refundCharge *)

(* External: the processor gives the money of a request back, or refuses   *)
(* the request. It may do so when nobody awaits the answer any more.       *)
ProcessorGives(o) ==
    /\ adapter # "simulated"
    /\ open[o] > 0
    /\ open' = [open EXCEPT ![o] = @ - 1]
    /\ given' = [given EXCEPT ![o] = @ + 1]
    /\ UNCHANGED <<storeVars, adapter, known, call, thread, up>>

ProcessorRefuses(o) ==
    /\ adapter # "simulated"
    /\ open[o] > 0
    /\ open' = [open EXCEPT ![o] = @ - 1]
    /\ UNCHANGED <<storeVars, adapter, given, known, call, thread, up>>

Answered(w, answer) == call' = [call EXCEPT ![w].at = answer]

(* The simulated processor decides, gives and remembers in one piece.      *)
SimulatedRefund(w) ==
    LET o == call[w].operation
    IN  /\ CanRun
        /\ adapter = "simulated"
        /\ call[w].at = "asking"
        /\ open' = [open EXCEPT ![o] = @ - 1]
        /\ \/ /\ Answered(w, "refunded")
              /\ given' = [given EXCEPT ![o] = @ + 1]
              /\ known' = [known EXCEPT ![o] = "id"]
           \/ /\ Answered(w, "failed")
              /\ UNCHANGED <<given, known>>
        /\ UNCHANGED <<storeVars, adapter, thread, up>>

(* The answer of an approved refund arrives, with a reference or without.  *)
RefundConfirmed(w) ==
    LET o == call[w].operation
    IN  /\ CanRun
        /\ adapter # "simulated"
        /\ call[w].at = "asking"
        /\ given[o] > 0
        /\ \/ Answered(w, "refunded") /\ known' = [known EXCEPT ![o] = "id"]
           \/ Answered(w, "no-id") /\ known' = [known EXCEPT ![o] = "no-id"]
        /\ UNCHANGED <<storeVars, adapter, open, given, thread, up>>

(* A refusal, an answer that cannot be read, or a broken connection: they  *)
(* are "declined" or "error", whatever the processor did or still does.    *)
RefundNotConfirmed(w) ==
    /\ CanRun
    /\ adapter # "simulated"
    /\ call[w].at = "asking"
    /\ Answered(w, "failed")
    /\ UNCHANGED <<storeVars, procVars, thread, up>>

-----------------------------------------------------------------------------
(* refund: an operation that was sent, and resolveRefundAttention *)

(* refund validates an operation that was sent as it does a new one, and   *)
(* then asks getRefundStatus. If the configuration is gone it only throws. *)
ResumeRefund(w, o) ==
    /\ CanRun
    /\ call[w].at = "free"
    /\ o \notin ByHand
    /\ record[o] = "none"
    /\ Refundable(o)
    /\ intent[o] \in {"sent", "attention"}
    /\ call' = [call EXCEPT ![w] = [at |-> "looking", operation |-> o]]
    /\ UNCHANGED <<storeVars, procVars, thread, up>>

(* Fault: no trace of the refund at the processor is taken for a refund    *)
(* whose reference is the operation id.                                    *)
FoundEvenIfNot(o, answer) ==
    \/ answer = "refunded"
    \/ answer = "unclear"

(* getRefundStatus: what the adapter remembers; Cardknox also searches the *)
(* processor's report, which may be behind. What is found without a        *)
(* reference, or declined, is not clear.                                   *)
Found(o, answer) ==
    \/ answer = "refunded" /\ known[o] = "id"
    \/ answer = "no-id" /\ known[o] = "no-id"
    \/ /\ answer = "refunded"
       /\ adapter = "cardknox-bbpos" /\ known[o] = "none" /\ given[o] > 0
    \/ answer = "unclear" /\ known[o] = "none"

LookUp(w) ==
    LET o == call[w].operation
    IN  /\ CanRun
        /\ call[w].at = "looking"
        /\ \E answer \in Answers :
             /\ Found(o, answer)
             /\ Answered(w, answer)
             /\ known' = IF known[o] = "none" /\ answer = "refunded"
                         THEN [known EXCEPT ![o] = "id"] ELSE known
        /\ UNCHANGED <<storeVars, adapter, open, given, thread, up>>

-----------------------------------------------------------------------------
(* refund: after the adapter's answer *)

(* Money was given back: the refund is recorded next.                      *)
GoOn(w) ==
    /\ CanRun
    /\ call[w].at \in {"refunded", "no-id"}
    /\ thread' = [at |-> "book", operation |-> call[w].operation,
                  reference |-> IF call[w].at = "refunded" THEN "id" ELSE "none"]
    /\ call' = [call EXCEPT ![w] = Free]
    /\ UNCHANGED <<storeVars, procVars, up>>

(* Declined or error of refundCharge fails the operation for good; a       *)
(* status that is not clear leaves it to the manager of the store.         *)
GiveUp(w) ==
    /\ CanRun
    /\ call[w].at \in {"failed", "unclear"}
    /\ SetIntent(call[w].operation,
                 IF call[w].at = "failed" THEN "failed" ELSE "attention")
    /\ call' = [call EXCEPT ![w] = Free]
    /\ UNCHANGED <<record, returned, stock, saleStatus, procVars, thread, up>>

(* recordRefund: the refund and its lines, the goods and the sale change   *)
(* together.                                                               *)
Book ==
    LET o == thread.operation
    IN  /\ up
        /\ thread.at = "book"
        /\ record[o] = "none"
        /\ CanBook(o, thread.reference)
        /\ Insert(o)
        /\ thread' = [thread EXCEPT !.at = "complete"]
        /\ UNCHANGED <<intent, procVars, call, up>>

(* Another call of the same operation has recorded it.                     *)
AlreadyBooked ==
    /\ up
    /\ thread.at = "book"
    /\ record[thread.operation] # "none"
    /\ thread' = [thread EXCEPT !.at = "complete"]
    /\ UNCHANGED <<storeVars, procVars, call, up>>

(* recordRefund throws: the operation is no longer valid, or the database  *)
(* does not take it.                                                       *)
BookFails ==
    /\ up
    /\ thread.at = "book"
    /\ record[thread.operation] = "none"
    /\ thread' = [thread EXCEPT !.at = "fail"]
    /\ UNCHANGED <<storeVars, procVars, call, up>>

(* Fault: only a card refund that is not recorded is noticed.              *)
UnbookedSilently(o) == IF o \in ByHand THEN "completed" ELSE "attention"

Unbooked(o) == IF o \in ByHand THEN "failed" ELSE "attention"

FailBook ==
    /\ up
    /\ thread.at = "fail"
    /\ SetIntent(thread.operation, Unbooked(thread.operation))
    /\ thread' = Idle
    /\ UNCHANGED <<record, returned, stock, saleStatus, procVars, call, up>>

Complete ==
    /\ up
    /\ thread.at = "complete"
    /\ SetIntent(thread.operation, "completed")
    /\ thread' = Idle
    /\ UNCHANGED <<record, returned, stock, saleStatus, procVars, call, up>>

-----------------------------------------------------------------------------
(* The manager's process. Nothing looks at refund intents when it starts.  *)

Crash ==
    /\ up
    /\ up' = FALSE
    /\ call' = [w \in Callers |-> Free]
    /\ thread' = Idle
    /\ UNCHANGED <<storeVars, procVars>>

Restart ==
    /\ ~up
    /\ up' = TRUE
    /\ UNCHANGED <<storeVars, procVars, call, thread>>

Next ==
    \/ \E o \in Operations : StartRefund(o) \/ ProcessorGives(o) \/ ProcessorRefuses(o)
    \/ \E w \in Callers : \/ SendRefund(w) \/ SimulatedRefund(w)
                          \/ RefundConfirmed(w) \/ RefundNotConfirmed(w)
                          \/ LookUp(w) \/ GoOn(w) \/ GiveUp(w)
    \/ \E w \in Callers, o \in Operations : ResumeRefund(w, o)
    \/ ConfigUnavailable \/ Book \/ AlreadyBooked \/ BookFails \/ FailBook
    \/ Complete \/ Crash \/ Restart

Spec == Init /\ [][Next]_vars

-----------------------------------------------------------------------------
(* Properties *)

(* A processor is asked for the money of an operation at most once,        *)
(* whatever crashes, retries and resumptions do: getRefundStatus, never    *)
(* refundCharge, is called for an operation that was sent.                 *)
AskedOnce == \A o \in Operations : open[o] + given[o] <= 1

(* A card refund in the books is money the processor gave back, also when  *)
(* the answer was lost and the refund was found again by its operation id. *)
RecordedIsReal == \A o \in Operations : record[o] = "card" => given[o] = 1

(* An operation the journal calls completed is in the books, although the  *)
(* two are written in separate transactions.                               *)
CompletedIsRecorded ==
    \A o \in Operations : intent[o] = "completed" => record[o] # "none"

Recorded == {o \in Operations : record[o] # "none"}

(* Every recorded operation counts once, and only recorded ones: in the    *)
(* quantities that are no longer refundable, in the goods put back on the  *)
(* shelf, and in the status of the sale.                                   *)
RefundLedger ==
    /\ \A i \in Items :
         /\ returned[i] = SumFunction([o \in Recorded |-> Wanted[o][i]])
         /\ stock[i] = SumFunction([o \in {r \in Recorded : i \in Resalable[r]}
                                      |-> Wanted[o][i]])
    /\ (saleStatus = "refunded") <=> (\A i \in Items : returned[i] >= Sold[i])

(* What was settled stays settled: a call of the same operation that comes *)
(* back late reopens neither a completed nor a failed operation.           *)
SettledStays ==
    [][\A o \in Operations :
         intent[o] \in {"completed", "failed"} => intent'[o] = intent[o]]_vars

PaidOut(o) == IF o \in ByHand THEN record[o] # "none" ELSE given[o] > 0

(* Nothing is under way, and no refund is listed for the manager's care.   *)
Quiet ==
    /\ thread.at = "idle"
    /\ \A w \in Callers : call[w].at = "free"
    /\ \A o \in Operations : intent[o] # "attention"

(* The limit calculateRefund asserts, applied to the money: what the       *)
(* processor gave back and what was paid out by hand is not more of a line *)
(* than was sold, unless the store shows that something is left to settle. *)
MoneyBackWithinSale ==
    Quiet => \A i \in Items :
                SumFunction([o \in {r \in Operations : PaidOut(r)} |-> Wanted[o][i]])
                   <= Sold[i]
=============================================================================
