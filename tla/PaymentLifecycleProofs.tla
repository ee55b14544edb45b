----------------------- MODULE PaymentLifecycleProofs -----------------------
(***************************************************************************)
(* Theorems about PaymentLifecycle, for every set of charges, carts and    *)
(* products, every stock and every number of status calls under way.       *)
(*                                                                         *)
(* The safety invariants are not inductive: that a card sale was paid for  *)
(* depends on what the calls in flight, the adapter's store and the        *)
(* finalization under way may still say. IInv adds exactly that.           *)
(***************************************************************************)
EXTENDS PaymentLifecycle, SumTheorems

(* A charge that has no journal row left no trace anywhere.                *)
NoTrace ==
    \A c \in Charges : journal[c].status = "absent" =>
        /\ ~journal[c].linked
        /\ hold[c] = "none"
        /\ call[c] = "none"
        /\ store[c] = "none"
        /\ terminal[c] = "idle"

(* The unique index on the idempotency key.                                *)
OneChargePerKey ==
    \A c, d \in Charges :
        /\ CartOf[c] = CartOf[d]
        /\ journal[c].status # "absent"
        /\ journal[d].status # "absent"
        => c = d

(* Before the simulated processor answers, it has done nothing.            *)
SimulatedWaits ==
    \A c \in Charges : adapter = "simulated" /\ call[c] = "sent" =>
        store[c] = "none" /\ terminal[c] = "idle"

(* Only the USAePay adapter stores request keys.                           *)
OnlyUSAePayKeys ==
    \A c \in Charges : store[c] = "keyed" => adapter = "usaepay-payment-engine"

(* Nobody says approved unless the terminal approved.                      *)
ApprovalIsReal ==
    /\ \A c \in Charges :
         call[c] = "approved" \/ store[c] = "approved" \/ journal[c].linked
           => terminal[c] = "approved"
    /\ \A w \in Reconcilers :
         rec[w].at = "approved" => terminal[rec[w].charge] = "approved"
    /\ thread.at = "complete" => terminal[thread.charge] = "approved"

(* With a real processor nobody says declined or error unless the terminal *)
(* declined.                                                               *)
Refusals == {"declined", "error"}
RefusalIsReal ==
    adapter # "simulated" =>
      /\ \A c \in Charges :
           call[c] \in Refusals \/ store[c] \in Refusals
             \/ journal[c].status \in Refusals
             => terminal[c] = "declined"
      /\ \A w \in Reconcilers :
           rec[w].at \in Refusals => terminal[rec[w].charge] = "declined"

(* A status call under way is about a charge in the journal.               *)
AskedAboutARow ==
    \A w \in Reconcilers : rec[w].at # "free" =>
        /\ rec[w].charge \in Charges
        /\ journal[rec[w].charge].status # "absent"

(* Where the thread stands in finalize.                                    *)
ThreadPosition ==
    thread.at # "idle" =>
        /\ thread.charge \in Charges
        /\ journal[thread.charge].status = "approved"
        /\ journal[thread.charge].linked <=> thread.at = "mark"

(* A linked charge and its sale.                                           *)
LinkedIsSold ==
    /\ \A c \in Charges : journal[c].linked =>
         /\ journal[c].status \in {"approved", "needs-attention", "voided"}
         /\ sale[CartOf[c]] = [tender |-> "card", charge |-> c]
         /\ hold[c] = "consumed"
    /\ \A k \in Carts : sale[k].tender = "card" =>
         /\ sale[k].charge \in Charges
         /\ CartOf[sale[k].charge] = k
         /\ journal[sale[k].charge].linked

IInv ==
    /\ TypeOK
    /\ NoTrace
    /\ OneChargePerKey
    /\ SimulatedWaits
    /\ OnlyUSAePayKeys
    /\ ApprovalIsReal
    /\ RefusalIsReal
    /\ AskedAboutARow
    /\ ThreadPosition
    /\ LinkedIsSold
    /\ HoldsMatchJournal

-----------------------------------------------------------------------------
(* What the helpers do *)

(* Recording a result of a charge moves that charge's row along a legal    *)
(* transition, or nothing: the stock is given back exactly on a refusal,   *)
(* and only an approval that is not linked yet is sent on to finalize.     *)
LEMMA RecordEffect ==
    ASSUME TypeOK, NEW c \in Charges, NEW result \in Results, Record(c, result)
    PROVE  \/ /\ Legal(journal[c].status, StatusFor(result))
              /\ journal' = [journal EXCEPT ![c].status = StatusFor(result)]
              /\ hold' = [hold EXCEPT ![c] =
                            IF result \in Refusals /\ hold[c] = "held"
                            THEN "released" ELSE hold[c]]
              /\ thread' = IF result = "approved" /\ ~journal[c].linked
                           THEN [at |-> "complete", charge |-> c]
                           ELSE thread
           \/ UNCHANGED <<journal, hold, thread>>
<1>1. CASE Legal(journal[c].status, StatusFor(result))
  <2>1. StatusFor(result) \in {"declined", "error"} <=> result \in Refusals
    BY DEF StatusFor, Refusals, Results
  <2>2. hold = [hold EXCEPT ![c] = hold[c]]
    BY DEF TypeOK
  <2>. QED  BY <1>1, <2>1, <2>2 DEF Record, SetStatus, Releases, ReleaseHold
<1>2. CASE ~Legal(journal[c].status, StatusFor(result))
  BY <1>2 DEF Record
<1>. QED  BY <1>1, <1>2

(* The status call of a charge in the journal returns one of the four      *)
(* results or throws, says approved only of an approved charge, and, with  *)
(* a real processor, refuses only a declined one; the store afterwards is  *)
(* as truthful.                                                            *)
LEMMA LookIsTruthful ==
    ASSUME TypeOK, OnlyUSAePayKeys, ApprovalIsReal, RefusalIsReal,
           NEW c \in Charges, NEW seen \in StatusLooks(c), Look(c, seen)
    PROVE  /\ seen.result \in Results \cup {"throw"}
           /\ seen.store \in Results \cup {"none", "keyed"}
           /\ seen.result = "approved" \/ seen.store = "approved"
                => terminal'[c] = "approved"
           /\ adapter # "simulated" =>
                /\ terminal' = terminal
                /\ seen.result \in Refusals \/ seen.store \in Refusals
                     => terminal[c] = "declined"
<1>0. adapter \in Adapters /\ terminal \in [Charges -> {"idle", "asked", "approved", "declined"}]
      /\ store \in [Charges -> Results \cup {"none", "keyed"}]
  BY DEF TypeOK, ProcTypeOK
<1>1. CASE adapter = "simulated"
  BY <1>0, <1>1 DEF StatusLooks, Look, OnlyUSAePayKeys, ApprovalIsReal, Results
<1>2. CASE adapter = "cardknox-bbpos"
  BY <1>0, <1>2 DEF StatusLooks, Look, ReaderResults, ApprovalIsReal,
                    RefusalIsReal, Refusals, Results
<1>3. CASE adapter = "usaepay-payment-engine"
  BY <1>0, <1>3 DEF StatusLooks, Look, PollResults, Keyed, Refusals, Results
<1>. QED  BY <1>0, <1>1, <1>2, <1>3 DEF Adapters

(* markPaymentNeedsAttention moves one row to needs-attention, or nothing. *)
LEMMA FlagEffect ==
    ASSUME TypeOK, NEW c \in Charges, NEW reason \in Reasons, Flag(c, reason)
    PROVE  \/ /\ Legal(journal[c].status, "needs-attention")
              /\ journal' = [journal EXCEPT
                     ![c] = [status |-> "needs-attention",
                             linked |-> journal[c].linked, reason |-> reason]]
           \/ UNCHANGED journal
<1>1. CASE Legal(journal[c].status, "needs-attention")
  <2>1. journal \in [Charges -> [status : Statuses, linked : BOOLEAN, reason : Reasons]]
    BY DEF TypeOK
  <2>2. journal' = [journal EXCEPT ![c].status = "needs-attention", ![c].reason = reason]
    BY <1>1 DEF Flag
  <2>3. DOMAIN journal' = Charges
    BY <2>1, <2>2
  <2>4. journal'[c] = [status |-> "needs-attention",
                       linked |-> journal[c].linked, reason |-> reason]
    BY <2>1, <2>2
  <2>5. \A d \in Charges \ {c} : journal'[d] = journal[d]
    BY <2>1, <2>2
  <2>. QED  BY <1>1, <2>1, <2>2, <2>3, <2>4, <2>5
<1>2. CASE ~Legal(journal[c].status, "needs-attention")
  BY <1>2 DEF Flag
<1>. QED  BY <1>1, <1>2

-----------------------------------------------------------------------------
(* What a handler that writes to the journal does to the journal's part of *)
(* the invariant, whatever it does to the calls under way.                 *)
JournalPart ==
    /\ journal \in [Charges -> [status : Statuses, linked : BOOLEAN, reason : Reasons]]
    /\ hold \in [Charges -> {"none", "held", "consumed", "released"}]
    /\ thread \in [at : ThreadSteps, charge : Charges \cup {NoCharge}]
    /\ OneChargePerKey
    /\ ThreadPosition
    /\ LinkedIsSold
    /\ HoldsMatchJournal
    /\ thread.at = "complete" => terminal[thread.charge] = "approved"
    /\ adapter # "simulated" =>
         \A c \in Charges :
            journal[c].status \in Refusals => terminal[c] = "declined"

(* The same rows exist afterwards, with the same links to sales, and a row *)
(* that does not exist still holds nothing.                                *)
SameRows ==
    \A c \in Charges :
        /\ journal'[c].status = "absent" <=> journal[c].status = "absent"
        /\ journal'[c].linked = journal[c].linked
        /\ journal[c].status = "absent" => hold'[c] = hold[c]

LEMMA RecordKeeps ==
    ASSUME IInv, thread.at = "idle",
           NEW c \in Charges, journal[c].status # "absent",
           NEW result \in Results, Record(c, result),
           result = "approved" => terminal[c] = "approved",
           adapter # "simulated" /\ result \in Refusals => terminal[c] = "declined",
           UNCHANGED <<adapter, terminal, sale>>
    PROVE  JournalPart' /\ SameRows
<1>. USE DEF IInv
<1>1. CASE UNCHANGED <<journal, hold, thread>>
  BY <1>1 DEF JournalPart, SameRows, TypeOK, OneChargePerKey, ThreadPosition,
              LinkedIsSold, HoldsMatchJournal, ApprovalIsReal, RefusalIsReal
<1>2. CASE /\ Legal(journal[c].status, StatusFor(result))
           /\ journal' = [journal EXCEPT ![c].status = StatusFor(result)]
           /\ hold' = [hold EXCEPT ![c] =
                         IF result \in Refusals /\ hold[c] = "held"
                         THEN "released" ELSE hold[c]]
           /\ thread' = IF result = "approved" /\ ~journal[c].linked
                        THEN [at |-> "complete", charge |-> c]
                        ELSE thread
  <2>1. StatusFor(result) \in {"approved", "declined", "error", "unknown"}
    BY DEF StatusFor, Results
  <2>2. /\ journal' \in [Charges -> [status : Statuses, linked : BOOLEAN, reason : Reasons]]
        /\ hold' \in [Charges -> {"none", "held", "consumed", "released"}]
        /\ thread' \in [at : ThreadSteps, charge : Charges \cup {NoCharge}]
    BY <1>2, <2>1 DEF TypeOK, Statuses, ThreadSteps
  <2>3. SameRows
    BY <1>2, <2>1 DEF SameRows, TypeOK
  <2>4. OneChargePerKey'
    BY <2>3 DEF OneChargePerKey, SameRows
  <2>5. ThreadPosition'
    BY <1>2, <2>3 DEF ThreadPosition, SameRows, TypeOK, StatusFor
  <2>6. LinkedIsSold'
    <3>1. ASSUME NEW d \in Charges, journal'[d].linked
          PROVE  /\ journal'[d].status \in {"approved", "needs-attention", "voided"}
                 /\ hold'[d] = "consumed"
      <4>1. /\ journal[d].linked
            /\ journal[d].status \in {"approved", "needs-attention", "voided"}
            /\ hold[d] = "consumed"
        BY <2>3, <3>1 DEF SameRows, LinkedIsSold
      <4>2. CASE d # c
        BY <1>2, <4>1, <4>2 DEF TypeOK
      <4>3. CASE d = c
        <5>1. StatusFor(result) = "approved"
          BY <1>2, <2>1, <4>1, <4>3 DEF Legal
        <5>2. result = "approved"
          BY <5>1 DEF StatusFor
        <5>. QED  BY <1>2, <4>1, <4>3, <5>1, <5>2 DEF TypeOK, Refusals
      <4>. QED  BY <4>2, <4>3
    <3>. QED  BY <2>3, <3>1 DEF LinkedIsSold, SameRows, TypeOK
  <2>7. HoldsMatchJournal'
    BY <1>2, <2>1, <2>3 DEF HoldsMatchJournal, SameRows, TypeOK, Undecided,
                            Legal, StatusFor, Refusals, Results
  <2>8. thread'.at = "complete" => terminal'[thread'.charge] = "approved"
    BY <1>2 DEF TypeOK
  <2>9. adapter' # "simulated" =>
          \A d \in Charges :
             journal'[d].status \in Refusals => terminal'[d] = "declined"
    BY <1>2 DEF TypeOK, RefusalIsReal, Refusals, StatusFor, Results
  <2>. QED  BY <2>2, <2>3, <2>4, <2>5, <2>6, <2>7, <2>8, <2>9 DEF JournalPart
<1>. QED  BY <1>1, <1>2, RecordEffect

LEMMA FlagKeeps ==
    ASSUME IInv, NEW c \in Charges, journal[c].status # "absent",
           NEW reason \in Reasons, Flag(c, reason),
           thread' = IF thread.at = "fail" THEN Idle ELSE thread,
           thread.at \in {"idle", "fail"},
           UNCHANGED <<adapter, terminal, hold, sale>>
    PROVE  JournalPart' /\ SameRows
<1>. USE DEF IInv
<1>0. /\ thread' \in [at : ThreadSteps, charge : Charges \cup {NoCharge}]
      /\ thread'.at = "idle"
  BY DEF TypeOK, ThreadSteps, Idle
<1>1. CASE UNCHANGED journal
  BY <1>0, <1>1 DEF JournalPart, SameRows, TypeOK, OneChargePerKey, ThreadPosition,
              LinkedIsSold, HoldsMatchJournal, ApprovalIsReal, RefusalIsReal
<1>2. CASE /\ Legal(journal[c].status, "needs-attention")
           /\ journal' = [journal EXCEPT
                  ![c] = [status |-> "needs-attention",
                          linked |-> journal[c].linked, reason |-> reason]]
  <2>1. journal' \in [Charges -> [status : Statuses, linked : BOOLEAN, reason : Reasons]]
    BY <1>2 DEF TypeOK, Statuses
  <2>2. SameRows
    BY <1>2 DEF SameRows, TypeOK
  <2>3. OneChargePerKey' /\ ThreadPosition'
    BY <1>0, <2>2 DEF OneChargePerKey, SameRows, ThreadPosition
  <2>4. LinkedIsSold'
    BY <1>2, <2>2 DEF LinkedIsSold, SameRows, TypeOK
  <2>5. HoldsMatchJournal'
    BY <1>2, <2>2 DEF HoldsMatchJournal, SameRows, TypeOK, Undecided, Legal
  <2>6. adapter' # "simulated" =>
          \A d \in Charges :
             journal'[d].status \in Refusals => terminal'[d] = "declined"
    BY <1>2 DEF TypeOK, RefusalIsReal, Refusals
  <2>. QED  BY <1>0, <2>1, <2>2, <2>3, <2>4, <2>5, <2>6 DEF JournalPart, TypeOK
<1>. QED  BY <1>1, <1>2, FlagEffect

-----------------------------------------------------------------------------
(* The initial states *)

LEMMA InitIInv == ASSUME Init PROVE IInv
<1>. USE DEF Init, ProcInit, NoRow, NoSale, Idle, Free
<1>1. TypeOK
  BY LifecycleAssumption DEF TypeOK, ProcTypeOK, Statuses, Reasons,
        ThreadSteps, RecSteps, Results
<1>2. NoTrace /\ OneChargePerKey /\ SimulatedWaits /\ OnlyUSAePayKeys
  BY DEF NoTrace, OneChargePerKey, SimulatedWaits, OnlyUSAePayKeys
<1>3. ApprovalIsReal /\ RefusalIsReal
  BY DEF ApprovalIsReal, RefusalIsReal, Refusals
<1>4. AskedAboutARow /\ ThreadPosition
  BY DEF AskedAboutARow, ThreadPosition
<1>5. LinkedIsSold
  BY LifecycleAssumption DEF LinkedIsSold
<1>6. HoldsMatchJournal
  BY DEF HoldsMatchJournal, Undecided
<1>. QED  BY <1>1, <1>2, <1>3, <1>4, <1>5, <1>6 DEF IInv

-----------------------------------------------------------------------------
(* One lemma per action *)

LEMMA ChargeKeeps ==
    ASSUME IInv, NEW c \in Charges, Charge(c)
    PROVE  IInv'
<1>. USE DEF IInv, Charge, SendCharge, CanRun, KeyUnused
<1>0. /\ journal[c].status = "absent" /\ ~journal[c].linked
      /\ store[c] = "none" /\ terminal[c] = "idle"
  BY DEF NoTrace
<1>1. TypeOK'
  BY DEF TypeOK, ProcTypeOK, Results, Statuses
<1>2. NoTrace'
  BY DEF NoTrace, TypeOK, ProcTypeOK
<1>3. OneChargePerKey'
  BY DEF OneChargePerKey, TypeOK
<1>4. SimulatedWaits' /\ OnlyUSAePayKeys'
  BY <1>0 DEF SimulatedWaits, OnlyUSAePayKeys, TypeOK, ProcTypeOK
<1>5. ApprovalIsReal' /\ RefusalIsReal'
  BY DEF ApprovalIsReal, RefusalIsReal, Refusals, TypeOK, ProcTypeOK
<1>6. AskedAboutARow' /\ ThreadPosition'
  BY DEF AskedAboutARow, ThreadPosition, TypeOK
<1>7. LinkedIsSold'
  BY <1>0 DEF LinkedIsSold, TypeOK
<1>8. HoldsMatchJournal'
  BY <1>0 DEF HoldsMatchJournal, Undecided, TypeOK
<1>. QED  BY <1>1, <1>2, <1>3, <1>4, <1>5, <1>6, <1>7, <1>8

(* The steps of the adapter and of the terminal touch nothing of the       *)
(* journal's part.                                                         *)
LEMMA ProcessorKeeps ==
    ASSUME IInv, UNCHANGED <<payVars, adapter>>,
           ProcTypeOK',
           \A c \in Charges :
             journal[c].status = "absent" =>
               call'[c] = call[c] /\ store'[c] = store[c] /\ terminal'[c] = terminal[c],
           SimulatedWaits', OnlyUSAePayKeys',
           \A c \in Charges :
             /\ terminal[c] = "approved" => terminal'[c] = "approved"
             /\ adapter # "simulated" /\ terminal[c] = "declined"
                  => terminal'[c] = "declined"
             /\ (call'[c] = "approved" /\ call[c] # "approved")
                  \/ (store'[c] = "approved" /\ store[c] # "approved")
                  => terminal'[c] = "approved"
             /\ adapter # "simulated" =>
                  ((call'[c] \in Refusals /\ call[c] \notin Refusals)
                    \/ (store'[c] \in Refusals /\ store[c] \notin Refusals)
                    => terminal'[c] = "declined")
    PROVE  IInv'
<1>. USE DEF IInv, payVars
<1>1. TypeOK'
  BY DEF TypeOK
<1>2. NoTrace'
  BY DEF NoTrace
<1>3. ApprovalIsReal'
  BY DEF ApprovalIsReal, ThreadPosition, AskedAboutARow
<1>4. RefusalIsReal'
  BY DEF RefusalIsReal, AskedAboutARow, Refusals
<1>5. OneChargePerKey' /\ AskedAboutARow' /\ ThreadPosition'
  BY DEF OneChargePerKey, AskedAboutARow, ThreadPosition
<1>6. LinkedIsSold' /\ HoldsMatchJournal'
  BY DEF LinkedIsSold, HoldsMatchJournal
<1>. QED  BY <1>1, <1>2, <1>3, <1>4, <1>5, <1>6

LEMMA TerminalKeeps ==
    ASSUME IInv, NEW c \in Charges, TerminalStep(c)
    PROVE  IInv'
<1>. USE DEF IInv, TypeOK, ProcTypeOK
<1>0. terminal[c] # "idle" \/ call[c] # "none" => journal[c].status # "absent"
  BY DEF NoTrace
<1>1. CASE TerminalAsks(c)
  BY <1>0, <1>1, ProcessorKeeps DEF TerminalStep, TerminalAsks, SimulatedWaits,
        OnlyUSAePayKeys, payVars
<1>2. CASE TerminalDecides(c)
  BY <1>0, <1>2, ProcessorKeeps DEF TerminalStep, TerminalDecides, SimulatedWaits,
        OnlyUSAePayKeys, payVars
<1>. QED  BY <1>1, <1>2 DEF TerminalStep

LEMMA AdapterKeeps ==
    ASSUME IInv, NEW c \in Charges, AdapterStep(c)
    PROVE  IInv'
<1>. USE DEF IInv, TypeOK, ProcTypeOK
<1>0. UNCHANGED payVars /\ (call[c] # "none" => journal[c].status # "absent")
  BY DEF AdapterStep, NoTrace
<1>1. CASE KeyStored(c)
  BY <1>0, <1>1, ProcessorKeeps DEF KeyStored, SimulatedWaits, OnlyUSAePayKeys, Refusals
<1>2. CASE SimulatedAnswer(c)
  BY <1>0, <1>2, ProcessorKeeps DEF SimulatedAnswer, SimulatedWaits,
        OnlyUSAePayKeys, Refusals, Results
<1>3. CASE ReaderAnswer(c)
  BY <1>0, <1>3, ProcessorKeeps DEF ReaderAnswer, ReaderResults, SimulatedWaits,
        OnlyUSAePayKeys, Refusals, Results
<1>4. CASE PostFails(c)
  BY <1>0, <1>4, ProcessorKeeps DEF PostFails, SimulatedWaits, OnlyUSAePayKeys,
        Refusals, Results
<1>5. CASE PollAnswer(c)
  BY <1>0, <1>5, ProcessorKeeps DEF PollAnswer, PollResults, Keyed, SimulatedWaits,
        OnlyUSAePayKeys, Refusals, Results
<1>. QED  BY <1>1, <1>2, <1>3, <1>4, <1>5 DEF AdapterStep, CreateAnswers

LEMMA ChargeResumesKeeps ==
    ASSUME IInv, NEW c \in Charges, ChargeResumes(c)
    PROVE  IInv'
<1>. USE DEF IInv, ChargeResumes, TakeAnswer, CanRun
<1>1. JournalPart' /\ SameRows
  <2>1. journal[c].status # "absent"
    BY DEF NoTrace, Results
  <2>2. /\ call[c] = "approved" => terminal[c] = "approved"
        /\ adapter # "simulated" /\ call[c] \in Refusals => terminal[c] = "declined"
    BY DEF ApprovalIsReal, RefusalIsReal
  <2>. QED  BY <2>1, <2>2, RecordKeeps
<1>2. TypeOK'
  BY <1>1 DEF TypeOK, ProcTypeOK, JournalPart
<1>3. NoTrace'
  BY <1>1 DEF NoTrace, SameRows, TypeOK, ProcTypeOK
<1>4. SimulatedWaits' /\ OnlyUSAePayKeys'
  BY DEF SimulatedWaits, OnlyUSAePayKeys, TypeOK, ProcTypeOK
<1>5. ApprovalIsReal'
  BY <1>1 DEF ApprovalIsReal, JournalPart, SameRows, TypeOK, ProcTypeOK
<1>6. RefusalIsReal'
  BY <1>1 DEF RefusalIsReal, Refusals, JournalPart, TypeOK, ProcTypeOK
<1>7. AskedAboutARow'
  BY <1>1 DEF AskedAboutARow, SameRows
<1>. QED  BY <1>1, <1>2, <1>3, <1>4, <1>5, <1>6, <1>7 DEF JournalPart

LEMMA ReconcileBlockedKeeps ==
    ASSUME IInv, NEW c \in Charges, ReconcileBlocked(c)
    PROVE  IInv'
<1>. USE DEF IInv, ReconcileBlocked, CanRun, procVars
<1>1. JournalPart' /\ SameRows
  BY FlagKeeps DEF Unsettled, Reasons
<1>2. TypeOK'
  BY <1>1 DEF TypeOK, ProcTypeOK, JournalPart
<1>3. NoTrace' /\ SimulatedWaits' /\ OnlyUSAePayKeys' /\ AskedAboutARow'
  BY <1>1 DEF NoTrace, SimulatedWaits, OnlyUSAePayKeys, AskedAboutARow, SameRows
<1>4. ApprovalIsReal' /\ RefusalIsReal'
  BY <1>1 DEF ApprovalIsReal, RefusalIsReal, JournalPart, SameRows
<1>. QED  BY <1>1, <1>2, <1>3, <1>4 DEF JournalPart

LEMMA VoidKeeps ==
    ASSUME IInv, NEW c \in Charges, Void(c)
    PROVE  IInv'
<1>. USE DEF IInv, Void, ReleaseHold, CanRun, procVars
<1>1. TypeOK'
  BY DEF TypeOK, ProcTypeOK, Statuses
<1>2. NoTrace' /\ OneChargePerKey'
  BY DEF NoTrace, OneChargePerKey, TypeOK
<1>3. SimulatedWaits' /\ OnlyUSAePayKeys' /\ AskedAboutARow' /\ ThreadPosition'
  BY DEF SimulatedWaits, OnlyUSAePayKeys, AskedAboutARow, ThreadPosition, TypeOK
<1>4. ApprovalIsReal' /\ RefusalIsReal'
  BY DEF ApprovalIsReal, RefusalIsReal, Refusals, TypeOK
<1>5. LinkedIsSold'
  <2>1. \A d \in Charges : journal'[d].linked = journal[d].linked
    BY DEF TypeOK
  <2>2. \A d \in Charges : hold[d] = "consumed" => hold'[d] = "consumed"
    BY DEF TypeOK
  <2>3. \A d \in Charges : journal'[d].status \in {journal[d].status, "voided"}
    BY DEF TypeOK
  <2>. QED  BY <2>1, <2>2, <2>3 DEF LinkedIsSold
<1>6. HoldsMatchJournal'
  BY DEF HoldsMatchJournal, Undecided, TypeOK
<1>. QED  BY <1>1, <1>2, <1>3, <1>4, <1>5, <1>6

LEMMA ReconcileAsksKeeps ==
    ASSUME IInv, NEW w \in Reconcilers, NEW c \in Charges, ReconcileAsks(w, c)
    PROVE  IInv'
<1>. USE DEF IInv, ReconcileAsks
<1>0. /\ StatusAtOnce(c) \in {"looking", "pending", "approved", "declined"}
      /\ StatusAtOnce(c) = "approved" => terminal[c] = "approved"
      /\ adapter # "simulated" /\ StatusAtOnce(c) \in Refusals
           => terminal[c] = "declined"
  BY DEF StatusAtOnce, ApprovalIsReal, RefusalIsReal, Refusals
<1>1. TypeOK'
  BY <1>0 DEF TypeOK, ProcTypeOK, procVars, RecSteps, Results
<1>2. NoTrace' /\ OneChargePerKey' /\ SimulatedWaits' /\ OnlyUSAePayKeys'
  BY DEF NoTrace, OneChargePerKey, SimulatedWaits, OnlyUSAePayKeys, procVars
<1>3. ApprovalIsReal' /\ RefusalIsReal'
  BY <1>0 DEF ApprovalIsReal, RefusalIsReal, TypeOK, procVars
<1>4. AskedAboutARow' /\ ThreadPosition'
  BY DEF AskedAboutARow, ThreadPosition, TypeOK, Unsettled
<1>5. LinkedIsSold' /\ HoldsMatchJournal'
  BY DEF LinkedIsSold, HoldsMatchJournal
<1>. QED  BY <1>1, <1>2, <1>3, <1>4, <1>5

LEMMA StatusAnswersKeeps ==
    ASSUME IInv, NEW w \in Reconcilers, StatusAnswers(w)
    PROVE  IInv'
<1>. USE DEF IInv
<1>1. rec[w].charge \in Charges /\ journal[rec[w].charge].status # "absent"
  BY DEF StatusAnswers, AskedAboutARow
<1>2. PICK c \in Charges : c = rec[w].charge
  BY <1>1
<1>3. PICK seen \in StatusLooks(c) :
        Look(c, seen) /\ rec' = [rec EXCEPT ![w].at = seen.result]
  BY <1>2 DEF StatusAnswers
<1>4. UNCHANGED <<journal, hold, sale, stock, adjusted, lost, active, up, thread>>
  BY DEF StatusAnswers
<1>5. /\ seen.result \in Results \cup {"throw"}
      /\ seen.store \in Results \cup {"none", "keyed"}
      /\ seen.result = "approved" \/ seen.store = "approved"
           => terminal'[c] = "approved"
      /\ adapter # "simulated" =>
           /\ terminal' = terminal
           /\ seen.result \in Refusals \/ seen.store \in Refusals
                => terminal[c] = "declined"
  BY <1>3, LookIsTruthful
<1>6. /\ store' = [store EXCEPT ![c] = seen.store]
      /\ \A d \in Charges : /\ d # c => terminal'[d] = terminal[d]
                            /\ terminal[d] = "approved" => terminal'[d] = "approved"
      /\ UNCHANGED <<adapter, call>>
  BY <1>3 DEF Look, TypeOK, ProcTypeOK
<1>7. TypeOK'
  BY <1>3, <1>4, <1>5 DEF TypeOK, ProcTypeOK, Look, RecSteps
<1>8. NoTrace' /\ OneChargePerKey'
  BY <1>1, <1>2, <1>4, <1>6 DEF NoTrace, OneChargePerKey, TypeOK, ProcTypeOK
<1>9. SimulatedWaits' /\ OnlyUSAePayKeys'
  BY <1>3 DEF SimulatedWaits, OnlyUSAePayKeys, StatusLooks, Look, TypeOK, ProcTypeOK,
              ReaderResults, PollResults, Keyed, Adapters, Results
<1>10. ApprovalIsReal' /\ RefusalIsReal'
  BY <1>2, <1>3, <1>4, <1>5, <1>6 DEF ApprovalIsReal, RefusalIsReal, TypeOK,
        ProcTypeOK, Refusals, ThreadPosition, AskedAboutARow
<1>11. AskedAboutARow' /\ ThreadPosition'
  BY <1>1, <1>2, <1>3, <1>4 DEF AskedAboutARow, ThreadPosition, TypeOK
<1>12. LinkedIsSold' /\ HoldsMatchJournal'
  BY <1>4 DEF LinkedIsSold, HoldsMatchJournal
<1>. QED  BY <1>7, <1>8, <1>9, <1>10, <1>11, <1>12

LEMMA ReconcileResumesKeeps ==
    ASSUME IInv, NEW w \in Reconcilers, ReconcileResumes(w)
    PROVE  IInv'
<1>. USE DEF IInv
<1>0. /\ rec[w].charge \in Charges
      /\ journal[rec[w].charge].status # "absent"
      /\ thread.at = "idle"
      /\ rec' = [rec EXCEPT ![w] = Free]
      /\ UNCHANGED <<procVars, sale, stock, adjusted, lost, active, up>>
  BY DEF ReconcileResumes, AskedAboutARow, Results, CanRun
<1>1. JournalPart' /\ SameRows
  <2>1. CASE rec[w].at = "throw"
    BY <1>0, <2>1, FlagKeeps DEF ReconcileResumes, Reasons, procVars
  <2>2. CASE rec[w].at \in Results
    <3>1. Record(rec[w].charge, rec[w].at)
      BY <2>2 DEF ReconcileResumes, Results
    <3>2. /\ rec[w].at = "approved" => terminal[rec[w].charge] = "approved"
          /\ adapter # "simulated" /\ rec[w].at \in Refusals
               => terminal[rec[w].charge] = "declined"
      BY DEF ApprovalIsReal, RefusalIsReal
    <3>. QED  BY <1>0, <2>2, <3>1, <3>2, RecordKeeps DEF procVars
  <2>. QED  BY <2>1, <2>2 DEF ReconcileResumes
<1>2. TypeOK'
  BY <1>0, <1>1 DEF TypeOK, ProcTypeOK, procVars, JournalPart, Free, RecSteps
<1>3. NoTrace' /\ SimulatedWaits' /\ OnlyUSAePayKeys'
  BY <1>0, <1>1 DEF NoTrace, SimulatedWaits, OnlyUSAePayKeys, SameRows, procVars
<1>4. ApprovalIsReal' /\ RefusalIsReal'
  BY <1>0, <1>1 DEF ApprovalIsReal, RefusalIsReal, Refusals, JournalPart, SameRows,
        Free, TypeOK, procVars
<1>5. AskedAboutARow'
  BY <1>0, <1>1 DEF AskedAboutARow, SameRows, Free, TypeOK
<1>. QED  BY <1>1, <1>2, <1>3, <1>4, <1>5 DEF JournalPart

LEMMA CompleteCardSaleKeeps ==
    ASSUME IInv, CompleteCardSale
    PROVE  IInv'
<1>. USE DEF IInv
<1>1. PICK c \in Charges :
        /\ thread = [at |-> "complete", charge |-> c]
        /\ journal[c].status = "approved"
        /\ ~journal[c].linked
        /\ terminal[c] = "approved"
        /\ CartOf[c] \in Carts
  <2>1. thread.at = "complete" /\ thread.charge \in Charges
    BY DEF CompleteCardSale, ThreadPosition
  <2>. QED  BY <2>1, LifecycleAssumption
            DEF TypeOK, ThreadPosition, ApprovalIsReal
<1>2. /\ sale[CartOf[c]] = NoSale
      /\ sale' = [sale EXCEPT ![CartOf[c]] = [tender |-> "card", charge |-> c]]
      /\ stock' = [p \in Products |-> stock[p] - Units(CartOf[c], p)]
      /\ journal' = [journal EXCEPT ![c].linked = TRUE]
      /\ hold' = [hold EXCEPT ![c] = IF @ = "held" THEN "consumed" ELSE @]
      /\ thread' = [at |-> "mark", charge |-> c]
      /\ UNCHANGED <<adapter, call, terminal, store, adjusted, lost, active, up, rec>>
  BY <1>1 DEF CompleteCardSale, Sell, procVars
<1>3. hold[c] = "held"
  BY <1>1 DEF HoldsMatchJournal, Undecided
<1>4. TypeOK'
  <2>1. \A p \in Products : Units(CartOf[c], p) \in Int
    BY <1>1, LifecycleAssumption DEF Units
  <2>2. stock' \in [Products -> Int]
    BY <1>2, <2>1 DEF TypeOK
  <2>3. ProcTypeOK'
    <3>1. ProcTypeOK
      BY DEF TypeOK
    <3>. QED  BY <1>2, <3>1 DEF ProcTypeOK
  <2>4. journal' \in [Charges -> [status : Statuses, linked : BOOLEAN, reason : Reasons]]
    <3>1. journal \in [Charges -> [status : Statuses, linked : BOOLEAN, reason : Reasons]]
      BY DEF TypeOK
    <3>. QED  BY <1>2, <3>1
  <2>5. hold' \in [Charges -> {"none", "held", "consumed", "released"}]
    BY <1>2 DEF TypeOK
  <2>6. /\ sale' \in [Carts -> [tender : {"none", "cash", "card"},
                                charge : Charges \cup {NoCharge}]]
        /\ thread' \in [at : ThreadSteps, charge : Charges \cup {NoCharge}]
    BY <1>2 DEF TypeOK, ThreadSteps
  <2>. QED  BY <1>2, <2>2, <2>3, <2>4, <2>5, <2>6 DEF TypeOK
<1>5. NoTrace' /\ OneChargePerKey' /\ AskedAboutARow'
  BY <1>1, <1>2 DEF NoTrace, OneChargePerKey, AskedAboutARow, TypeOK
<1>6. SimulatedWaits' /\ OnlyUSAePayKeys'
  BY <1>2 DEF SimulatedWaits, OnlyUSAePayKeys
<1>7. ApprovalIsReal' /\ RefusalIsReal'
  BY <1>1, <1>2 DEF ApprovalIsReal, RefusalIsReal, Refusals, TypeOK
<1>8. ThreadPosition'
  BY <1>1, <1>2 DEF ThreadPosition, TypeOK
<1>9. LinkedIsSold'
  <2>1. ASSUME NEW d \in Charges, journal'[d].linked
        PROVE  /\ journal'[d].status \in {"approved", "needs-attention", "voided"}
               /\ sale'[CartOf[d]] = [tender |-> "card", charge |-> d]
               /\ hold'[d] = "consumed"
    <3>1. CASE d = c
      BY <1>1, <1>2, <1>3, <3>1 DEF TypeOK
    <3>2. CASE d # c
      <4>1. /\ journal'[d] = journal[d]
            /\ hold'[d] = hold[d]
        BY <1>2, <3>2 DEF TypeOK
      <4>2. /\ journal[d].status \in {"approved", "needs-attention", "voided"}
            /\ sale[CartOf[d]] = [tender |-> "card", charge |-> d]
            /\ hold[d] = "consumed"
        BY <2>1, <4>1 DEF LinkedIsSold
      <4>3. CartOf[d] # CartOf[c]
        BY <1>2, <4>2 DEF NoSale
      <4>. QED  BY <1>2, <4>1, <4>2, <4>3, LifecycleAssumption DEF TypeOK
    <3>. QED  BY <3>1, <3>2
  <2>2. ASSUME NEW k \in Carts, sale'[k].tender = "card"
        PROVE  /\ sale'[k].charge \in Charges
               /\ CartOf[sale'[k].charge] = k
               /\ journal'[sale'[k].charge].linked
    <3>1. CASE k = CartOf[c]
      BY <1>1, <1>2, <3>1 DEF TypeOK
    <3>2. CASE k # CartOf[c]
      <4>1. sale'[k] = sale[k]
        BY <1>2, <3>2 DEF TypeOK
      <4>. QED  BY <1>2, <2>2, <4>1 DEF LinkedIsSold, TypeOK
    <3>. QED  BY <3>1, <3>2
  <2>. QED  BY <2>1, <2>2 DEF LinkedIsSold
<1>10. HoldsMatchJournal'
  BY <1>1, <1>2 DEF HoldsMatchJournal, Undecided, TypeOK
<1>. QED  BY <1>4, <1>5, <1>6, <1>7, <1>8, <1>9, <1>10

LEMMA CardSaleFailsKeeps ==
    ASSUME IInv, CardSaleFails
    PROVE  IInv'
<1>. USE DEF IInv, CardSaleFails, procVars
<1>1. thread.charge \in Charges /\ ~journal[thread.charge].linked
  BY DEF ThreadPosition
<1>2. TypeOK' /\ ThreadPosition'
  BY <1>1 DEF TypeOK, ProcTypeOK, ThreadSteps, ThreadPosition
<1>3. NoTrace' /\ OneChargePerKey' /\ SimulatedWaits' /\ OnlyUSAePayKeys'
  BY DEF NoTrace, OneChargePerKey, SimulatedWaits, OnlyUSAePayKeys
<1>4. ApprovalIsReal' /\ RefusalIsReal' /\ AskedAboutARow'
  BY DEF ApprovalIsReal, RefusalIsReal, AskedAboutARow
<1>5. LinkedIsSold' /\ HoldsMatchJournal'
  BY DEF LinkedIsSold, HoldsMatchJournal
<1>. QED  BY <1>2, <1>3, <1>4, <1>5

LEMMA MarkFinalizedKeeps ==
    ASSUME IInv, MarkFinalized
    PROVE  IInv'
<1>. USE DEF IInv, MarkFinalized, procVars, Idle
<1>1. thread.charge \in Charges
  BY DEF ThreadPosition
<1>2. /\ journal' \in [Charges -> [status : Statuses, linked : BOOLEAN, reason : Reasons]]
      /\ \A d \in Charges : /\ journal'[d].status = journal[d].status
                            /\ journal'[d].linked = journal[d].linked
  BY <1>1 DEF TypeOK, Reasons
<1>3. TypeOK' /\ ThreadPosition'
  BY <1>2 DEF TypeOK, ProcTypeOK, ThreadSteps, ThreadPosition
<1>4. NoTrace' /\ OneChargePerKey' /\ SimulatedWaits' /\ OnlyUSAePayKeys'
  BY <1>2 DEF NoTrace, OneChargePerKey, SimulatedWaits, OnlyUSAePayKeys
<1>5. ApprovalIsReal' /\ RefusalIsReal' /\ AskedAboutARow'
  BY <1>2 DEF ApprovalIsReal, RefusalIsReal, AskedAboutARow
<1>6. LinkedIsSold'
  BY <1>2 DEF LinkedIsSold
<1>7. HoldsMatchJournal'
  BY <1>2 DEF HoldsMatchJournal
<1>. QED  BY <1>3, <1>4, <1>5, <1>6, <1>7

LEMMA FinalizationFailsKeeps ==
    ASSUME IInv, FinalizationFails
    PROVE  IInv'
<1>. USE DEF IInv, FinalizationFails, procVars
<1>1. JournalPart' /\ SameRows
  BY FlagKeeps DEF ThreadPosition, Reasons
<1>2. TypeOK'
  BY <1>1 DEF TypeOK, ProcTypeOK, JournalPart
<1>3. NoTrace' /\ SimulatedWaits' /\ OnlyUSAePayKeys' /\ AskedAboutARow'
  BY <1>1 DEF NoTrace, SimulatedWaits, OnlyUSAePayKeys, AskedAboutARow, SameRows
<1>4. ApprovalIsReal' /\ RefusalIsReal'
  BY <1>1 DEF ApprovalIsReal, RefusalIsReal, JournalPart, SameRows
<1>. QED  BY <1>1, <1>2, <1>3, <1>4 DEF JournalPart

LEMMA CashSaleKeeps ==
    ASSUME IInv, NEW k \in Carts, CashSale(k)
    PROVE  IInv'
<1>. USE DEF IInv, CashSale, Sell, procVars, CanRun
<1>1. \A p \in Products : Units(k, p) \in Int
  BY LifecycleAssumption DEF Units
<1>2. TypeOK' /\ ThreadPosition'
  BY <1>1 DEF TypeOK, ProcTypeOK, ThreadPosition
<1>3. NoTrace' /\ OneChargePerKey' /\ SimulatedWaits' /\ OnlyUSAePayKeys'
  BY DEF NoTrace, OneChargePerKey, SimulatedWaits, OnlyUSAePayKeys
<1>4. ApprovalIsReal' /\ RefusalIsReal' /\ AskedAboutARow'
  BY DEF ApprovalIsReal, RefusalIsReal, AskedAboutARow
<1>5. LinkedIsSold'
  <2>1. ASSUME NEW d \in Charges, journal[d].linked
        PROVE  CartOf[d] # k
    <3>1. sale[CartOf[d]] = [tender |-> "card", charge |-> d]
      BY <2>1 DEF LinkedIsSold
    <3>2. sale[k].tender = "none"
      BY DEF NoSale
    <3>. QED  BY <3>1, <3>2
  <2>2. \A j \in Carts : j # k => sale'[j] = sale[j]
    BY DEF TypeOK
  <2>3. sale'[k].tender = "cash"
    BY DEF TypeOK
  <2>. QED  BY <2>1, <2>2, <2>3, LifecycleAssumption DEF LinkedIsSold
<1>6. HoldsMatchJournal'
  BY DEF HoldsMatchJournal
<1>. QED  BY <1>2, <1>3, <1>4, <1>5, <1>6

(* Stock movements, products on and off sale, and the restart leave the    *)
(* charges alone.                                                          *)
LEMMA StoreKeeps ==
    ASSUME IInv, UNCHANGED <<procVars, journal, hold, sale, thread, rec>>,
           stock' \in [Products -> Int], adjusted' \in [Products -> Int],
           lost' \subseteq Products, active' \subseteq Products, up' \in BOOLEAN
    PROVE  IInv'
<1>. USE DEF IInv, procVars
<1>1. TypeOK' /\ ThreadPosition' /\ LinkedIsSold' /\ HoldsMatchJournal'
  BY DEF TypeOK, ProcTypeOK, ThreadPosition, LinkedIsSold, HoldsMatchJournal
<1>2. NoTrace' /\ OneChargePerKey' /\ SimulatedWaits' /\ OnlyUSAePayKeys'
  BY DEF NoTrace, OneChargePerKey, SimulatedWaits, OnlyUSAePayKeys
<1>3. ApprovalIsReal' /\ RefusalIsReal' /\ AskedAboutARow'
  BY DEF ApprovalIsReal, RefusalIsReal, AskedAboutARow
<1>. QED  BY <1>1, <1>2, <1>3

LEMMA CrashKeeps ==
    ASSUME IInv, Crash
    PROVE  IInv'
<1>. USE DEF IInv, Crash, LoseCalls, Idle, Free
<1>1. TypeOK'
  BY DEF TypeOK, ProcTypeOK, ThreadSteps, RecSteps
<1>2. NoTrace' /\ OneChargePerKey' /\ SimulatedWaits' /\ OnlyUSAePayKeys'
  BY DEF NoTrace, OneChargePerKey, SimulatedWaits, OnlyUSAePayKeys
<1>3. ApprovalIsReal' /\ RefusalIsReal' /\ AskedAboutARow' /\ ThreadPosition'
  BY DEF ApprovalIsReal, RefusalIsReal, Refusals, AskedAboutARow, ThreadPosition
<1>4. LinkedIsSold' /\ HoldsMatchJournal'
  BY DEF LinkedIsSold, HoldsMatchJournal
<1>. QED  BY <1>1, <1>2, <1>3, <1>4

-----------------------------------------------------------------------------
LEMMA NextKeeps == ASSUME IInv, [Next]_vars PROVE IInv'
<1>1. CASE PaymentStep
  <2>1. ASSUME NEW c \in Charges,
               Charge(c) \/ AdapterStep(c) \/ TerminalStep(c)
                 \/ ChargeResumes(c) \/ ReconcileBlocked(c) \/ Void(c)
        PROVE  IInv'
    BY <2>1, ChargeKeeps, AdapterKeeps, TerminalKeeps, ChargeResumesKeeps,
       ReconcileBlockedKeeps, VoidKeeps
  <2>2. ASSUME NEW w \in Reconcilers, NEW c \in Charges,
               ReconcileAsks(w, c) \/ Retry(w, c)
        PROVE  IInv'
    BY <2>2, ReconcileAsksKeeps DEF Retry
  <2>3. ASSUME NEW w \in Reconcilers, StatusAnswers(w) \/ ReconcileResumes(w)
        PROVE  IInv'
    BY <2>3, StatusAnswersKeeps, ReconcileResumesKeeps
  <2>4. CASE CompleteCardSale \/ CardSaleFails \/ MarkFinalized \/ FinalizationFails
    BY <2>4, CompleteCardSaleKeeps, CardSaleFailsKeeps, MarkFinalizedKeeps,
       FinalizationFailsKeeps
  <2>. QED  BY <1>1, <2>1, <2>2, <2>3, <2>4 DEF PaymentStep
<1>2. CASE StoreStep
  <2>1. ASSUME NEW k \in Carts, CashSale(k) PROVE IInv'
    BY <2>1, CashSaleKeeps
  <2>2. ASSUME NEW p \in Products, SetActive(p) PROVE IInv'
    BY <2>2, StoreKeeps DEF SetActive, procVars, IInv, TypeOK
  <2>3. ASSUME NEW p \in Products, NEW quantity \in Movements,
               AddMovement(p, quantity)
        PROVE  IInv'
    <3>1. quantity \in Int
      BY LifecycleAssumption
    <3>2. /\ stock' \in [Products -> Int]
          /\ adjusted' \in [Products -> Int]
          /\ lost' \subseteq Products
      BY <2>3, <3>1 DEF AddMovement, IInv, TypeOK
    <3>. QED  BY <2>3, <3>2, StoreKeeps DEF AddMovement, IInv, TypeOK
  <2>. QED  BY <1>2, <2>1, <2>2, <2>3 DEF StoreStep
<1>3. CASE Crash
  BY <1>3, CrashKeeps
<1>4. CASE Restart
  BY <1>4, StoreKeeps DEF Restart, procVars, IInv, TypeOK
<1>5. CASE UNCHANGED vars
  BY <1>5, StoreKeeps DEF vars, payVars, procVars, IInv, TypeOK
<1>. QED  BY <1>1, <1>2, <1>3, <1>4, <1>5 DEF Next

LEMMA Invariance == Spec => []IInv
BY InitIInv, NextKeeps, PTL DEF Spec

-----------------------------------------------------------------------------
(* The theorems *)

(* Every variable keeps its type.                                          *)
THEOREM TypeCorrect == Spec => []TypeOK
<1>1. IInv => TypeOK
  BY DEF IInv
<1>. QED  BY <1>1, Invariance, PTL

(* A card sale and the charge that paid for it name each other, the        *)
(* terminal approved the money and the reservation became the sale.        *)
THEOREM SalesAreBacked == Spec => []SaleBacked
<1>1. IInv => SaleBacked
  BY DEF IInv, SaleBacked, LinkedIsSold, ApprovalIsReal
<1>. QED  BY <1>1, Invariance, PTL

(* Stock is held for exactly the charges nobody has decided.               *)
THEOREM HoldsFollowTheJournal == Spec => []HoldsMatchJournal
<1>1. IInv => HoldsMatchJournal
  BY DEF IInv
<1>. QED  BY <1>1, Invariance, PTL

(* The terminal is asked for a card at most once per cart.                 *)
THEOREM CustomersPayOnce == Spec => []NeverChargedTwice
<1>1. IInv => NeverChargedTwice
  BY DEF IInv, NeverChargedTwice, NoTrace, OneChargePerKey
<1>. QED  BY <1>1, Invariance, PTL

(* Money the terminal took is never booked as declined or failed.          *)
THEOREM MoneyIsNotWrittenOff == Spec => []NoMoneyWrittenOff
<1>1. IInv => NoMoneyWrittenOff
  BY DEF IInv, NoMoneyWrittenOff, RefusalIsReal, Refusals
<1>. QED  BY <1>1, Invariance, PTL

(* No sale dips into stock that another charge holds: the check of         *)
(* completeSale is made on what the other reservations leave, and the sale *)
(* gives up no reservation but its own.                                    *)
THEOREM HoldsAreRespected == Spec => SalesRespectHolds
<1>1. ASSUME IInv, Next, NEW k \in Carts, NEW p \in Products,
             sale'[k] # sale[k], p \in InCart(k)
      PROVE  HeldBut(NoCharge, p)' <= stock'[p]
  <2>1. CASE CompleteCardSale
    <3>1. PICK c \in Charges :
            thread.charge = c /\ journal[c].status = "approved" /\ ~journal[c].linked
      BY <1>1, <2>1 DEF CompleteCardSale, IInv, ThreadPosition
    <3>2. k = CartOf[c]
      BY <1>1, <2>1, <3>1 DEF CompleteCardSale, IInv, TypeOK
    <3>3. HeldBut(c, p) <= stock[p] - Units(k, p)
      BY <1>1, <2>1, <3>1, <3>2 DEF CompleteCardSale, CanSell
    <3>4. hold' = [hold EXCEPT ![c] = IF @ = "held" THEN "consumed" ELSE @]
      BY <2>1, <3>1 DEF CompleteCardSale
    <3>5. Promise!Holding' \ {NoCharge} = Promise!Holding \ {c}
      BY <1>1, <3>4, LifecycleAssumption DEF Promise!Holding, IInv, TypeOK
    <3>6. stock'[p] = stock[p] - Units(k, p)
      BY <2>1, <3>1, <3>2 DEF CompleteCardSale, Sell
    <3>. QED  BY <3>3, <3>5, <3>6 DEF HeldBut, Promise!HeldBut
  <2>2. CASE \E j \in Carts : CashSale(j)
    <3>1. CashSale(k)
      BY <1>1, <2>2 DEF CashSale, IInv, TypeOK
    <3>2. HeldBut(NoCharge, p) <= stock[p] - Units(k, p)
      BY <1>1, <3>1 DEF CashSale, CanSell
    <3>3. Promise!Holding' = Promise!Holding /\ stock'[p] = stock[p] - Units(k, p)
      BY <3>1 DEF CashSale, Sell, Promise!Holding
    <3>. QED  BY <3>2, <3>3 DEF HeldBut, Promise!HeldBut
  <2>3. CASE sale' = sale
    BY <1>1, <2>3
  <2>. QED  BY <1>1, <2>1, <2>2, <2>3
            DEF Next, PaymentStep, StoreStep, Charge, AdapterStep, TerminalStep,
                ChargeResumes, ReconcileBlocked, Void, ReconcileAsks, Retry,
                StatusAnswers, ReconcileResumes, CardSaleFails, MarkFinalized,
                FinalizationFails, SetActive, AddMovement, Crash, Restart, payVars
<1>2. IInv /\ [Next]_vars =>
        [\A k \in Carts, p \in Products :
            sale'[k] # sale[k] /\ p \in InCart(k)
                => HeldBut(NoCharge, p)' <= stock'[p]]_vars
  BY <1>1
<1>. QED  BY <1>2, Invariance, PTL DEF Spec, SalesRespectHolds

-----------------------------------------------------------------------------
(* The abstract specification: every step reserves, gives back, sells,     *)
(* adjusts or leaves holds, sales and stock as they are. It counts nothing *)
(* in thousandths, so neither may the store.                               *)
LEMMA UnitsAreLines ==
    ASSUME Weighted = {}, NEW k, NEW p
    PROVE  Units(k, p) = Lines[k][p]
BY DEF Units

LEMMA SellImplements ==
    ASSUME IInv, Weighted = {}, CompleteCardSale
    PROVE  \E c \in Charges : Promise!SellHeld(c)
<1>1. PICK c \in Charges :
        /\ thread.charge = c
        /\ journal[c].status = "approved"
        /\ ~journal[c].linked
  BY DEF CompleteCardSale, IInv, ThreadPosition
<1>2. hold[c] = "held"
  BY <1>1 DEF IInv, HoldsMatchJournal, Undecided
<1>3. Promise!Fits(CartOf[c], c)
  <2>1. ASSUME NEW p \in Products, Lines[CartOf[c]][p] > 0
        PROVE  Promise!HeldBut(c, p) <= stock[p] - Lines[CartOf[c]][p]
    BY <1>1, <2>1, UnitsAreLines DEF CompleteCardSale, CanSell, InCart, HeldBut
  <2>. QED  BY <2>1 DEF Promise!Fits
<1>4. stock' = [p \in Products |-> stock[p] - Lines[CartOf[c]][p]]
  BY <1>1, UnitsAreLines DEF CompleteCardSale, Sell
<1>5. /\ sale[CartOf[c]] = Promise!NoSale
      /\ sale' = [sale EXCEPT ![CartOf[c]] = [tender |-> "card", charge |-> c]]
      /\ hold' = [hold EXCEPT ![c] = "consumed"]
  BY <1>1, <1>2 DEF CompleteCardSale, NoSale, Promise!NoSale
<1>. QED  BY <1>2, <1>3, <1>4, <1>5 DEF Promise!SellHeld

LEMMA ChargeImplements ==
    ASSUME IInv, NEW c \in Charges, Charge(c)
    PROVE  Promise!Reserve(c)
<1>1. \A d \in Charges : CartOf[d] = CartOf[c] => hold[d] = "none"
  BY DEF Charge, KeyUnused, IInv, NoTrace
<1>2. Promise!Fits(CartOf[c], NoCharge)
  BY DEF Charge, CanReserve, Reserved, InCart, HeldBut, Promise!Fits
<1>. QED  BY <1>1, <1>2 DEF Charge, Promise!Reserve

(* Giving the stock of one charge back, if it held any.                    *)
LEMMA ReleaseImplements ==
    ASSUME IInv, NEW c \in Charges, UNCHANGED <<sale, stock>>,
           hold' \in {hold, [hold EXCEPT ![c] = IF @ = "held" THEN "released" ELSE @]}
    PROVE  Promise!GiveBack(c) \/ UNCHANGED <<hold, sale, stock>>
<1>1. CASE hold[c] = "held"
  BY <1>1 DEF Promise!GiveBack
<1>2. CASE hold[c] # "held"
  <2>1. hold = [hold EXCEPT ![c] = hold[c]]
    BY DEF IInv, TypeOK
  <2>. QED  BY <1>2, <2>1
<1>. QED  BY <1>1, <1>2

LEMMA RecordReleases ==
    ASSUME IInv, NEW c \in Charges, NEW result \in Results, Record(c, result)
    PROVE  hold' \in {hold, [hold EXCEPT ![c] = IF @ = "held" THEN "released" ELSE @]}
BY DEF Record, SetStatus, ReleaseHold

LEMMA StepImplements ==
    ASSUME IInv, Weighted = {}, [Next]_vars
    PROVE  Promise!Next \/ UNCHANGED Promise!stockVars
<1>. USE DEF Promise!Next, Promise!stockVars
<1>1. ASSUME NEW c \in Charges,
             Charge(c) \/ AdapterStep(c) \/ TerminalStep(c)
               \/ ChargeResumes(c) \/ ReconcileBlocked(c) \/ Void(c)
      PROVE  Promise!Next \/ UNCHANGED Promise!stockVars
  <2>1. CASE Charge(c)
    BY <2>1, ChargeImplements
  <2>2. CASE ChargeResumes(c)
    BY <2>2, RecordReleases, ReleaseImplements DEF ChargeResumes
  <2>3. CASE Void(c)
    BY <2>3, ReleaseImplements DEF Void, ReleaseHold
  <2>4. CASE AdapterStep(c) \/ TerminalStep(c) \/ ReconcileBlocked(c)
    BY <2>4 DEF AdapterStep, TerminalStep, ReconcileBlocked, payVars
  <2>. QED  BY <1>1, <2>1, <2>2, <2>3, <2>4
<1>2. ASSUME NEW w \in Reconcilers,
             \/ StatusAnswers(w)
             \/ ReconcileResumes(w)
             \/ \E c \in Charges : ReconcileAsks(w, c) \/ Retry(w, c)
      PROVE  Promise!Next \/ UNCHANGED Promise!stockVars
  <2>1. CASE ReconcileResumes(w)
    <3>1. rec[w].charge \in Charges
      BY <2>1 DEF ReconcileResumes, IInv, AskedAboutARow, Results
    <3>2. /\ UNCHANGED <<sale, stock>>
          /\ hold' = hold \/ (rec[w].at \in Results /\ Record(rec[w].charge, rec[w].at))
      BY <2>1 DEF ReconcileResumes
    <3>. QED  BY <3>1, <3>2, RecordReleases, ReleaseImplements
  <2>2. CASE StatusAnswers(w) \/ \E c \in Charges : ReconcileAsks(w, c) \/ Retry(w, c)
    BY <2>2 DEF StatusAnswers, ReconcileAsks, Retry
  <2>. QED  BY <1>2, <2>1, <2>2
<1>3. CASE CompleteCardSale
  BY <1>3, SellImplements
<1>4. CASE CardSaleFails \/ MarkFinalized \/ FinalizationFails \/ Crash \/ Restart
  BY <1>4 DEF CardSaleFails, MarkFinalized, FinalizationFails, Crash, Restart
<1>5. ASSUME NEW k \in Carts, CashSale(k)
      PROVE  Promise!SellCash(k)
  BY <1>5, UnitsAreLines
     DEF CashSale, CanSell, Sell, InCart, HeldBut, NoSale,
         Promise!SellCash, Promise!Fits, Promise!NoSale
<1>6. ASSUME NEW p \in Products, NEW quantity \in Movements, AddMovement(p, quantity)
      PROVE  Promise!Adjust(p)
  BY <1>6, LifecycleAssumption DEF AddMovement, IInv, TypeOK, Promise!Adjust
<1>7. ASSUME NEW p \in Products, SetActive(p)
      PROVE  UNCHANGED Promise!stockVars
  BY <1>7 DEF SetActive
<1>8. CASE UNCHANGED vars
  BY <1>8 DEF vars, payVars
<1>. QED  BY <1>1, <1>2, <1>3, <1>4, <1>5, <1>6, <1>7, <1>8
          DEF Next, PaymentStep, StoreStep

(* For a store that sells nothing by weight, the charge lifecycle          *)
(* implements StockReservation.                                            *)
THEOREM ThePromiseIsKept ==
    ASSUME Weighted = {}
    PROVE  Spec => KeepsPromise
<1>1. Init => Promise!Init
  BY DEF Init, Promise!Init, NoSale, Promise!NoSale
<1>2. IInv /\ [Next]_vars => [Promise!Next]_Promise!stockVars
  BY StepImplements
<1>. QED  BY <1>1, <1>2, Invariance, PTL DEF Spec, Promise!Spec, KeepsPromise

-----------------------------------------------------------------------------
(* The stock ledger. The carts that are sold stay finitely many, so what   *)
(* they took can be added up; a sale adds its cart to them exactly once.   *)

StockIsLedger == IsFiniteSet(Sold) /\ StockLedger

LEMMA UnitsAreNatural ==
    \A k \in Carts, p \in Products : Units(k, p) \in Nat /\ Units(k, p) \in Int
BY LifecycleAssumption DEF Units

LEMMA SoldCountsOnce ==
    ASSUME IInv, IsFiniteSet(Sold), NEW k \in Carts, sale[k] = NoSale,
           NEW s, s # NoSale, sale' = [sale EXCEPT ![k] = s]
    PROVE  /\ IsFiniteSet(Sold')
           /\ \A p \in Products :
                /\ SumFunction([j \in Sold |-> Units(j, p)]) \in Int
                /\ SumFunction([j \in Sold' |-> Units(j, p)])
                     = SumFunction([j \in Sold |-> Units(j, p)]) + Units(k, p)
<1>1. Sold' = Sold \cup {k} /\ k \notin Sold
  BY DEF Sold, IInv, TypeOK
<1>2. IsFiniteSet(Sold')
  BY <1>1, FS_AddElement
<1>3. ASSUME NEW p \in Products
      PROVE  /\ SumFunction([j \in Sold |-> Units(j, p)]) \in Int
             /\ SumFunction([j \in Sold' |-> Units(j, p)])
                  = SumFunction([j \in Sold |-> Units(j, p)]) + Units(k, p)
  <2> DEFINE f == [j \in Sold |-> Units(j, p)]
             g == [j \in Sold \cup {k} |-> Units(j, p)]
  <2>1. /\ f \in [Sold -> Int] /\ g \in [Sold \cup {k} -> Int]
        /\ g[k] = Units(k, p) /\ \A j \in Sold : g[j] = f[j]
    BY UnitsAreNatural DEF Sold
  <2> HIDE DEF f, g
  <2>2. SumFunction(f) \in Int
    BY <2>1, SumInt
  <2>3. SumFunction(g) = SumFunction(f) + g[k]
    BY <1>1, <2>1, SumExtended
  <2> QED
    BY <1>1, <2>1, <2>2, <2>3 DEF f, g
<1>. QED  BY <1>2, <1>3

LEMMA SaleKeepsLedger ==
    ASSUME IInv, StockIsLedger, NEW k \in Carts, sale[k] = NoSale,
           NEW s, s # NoSale, sale' = [sale EXCEPT ![k] = s],
           Sell(k), UNCHANGED adjusted
    PROVE  StockIsLedger'
<1>1. IsFiniteSet(Sold')
  BY SoldCountsOnce DEF StockIsLedger
<1>2. ASSUME NEW p \in Products
      PROVE  stock'[p] = InitialStock[p] + adjusted'[p]
                           - SumFunction([j \in Sold' |-> Units(j, p)])
  <2> DEFINE before == SumFunction([j \in Sold |-> Units(j, p)])
             after == SumFunction([j \in Sold' |-> Units(j, p)])
  <2>1. before \in Int /\ after = before + Units(k, p)
    BY SoldCountsOnce DEF StockIsLedger
  <2>2. stock[p] = InitialStock[p] + adjusted[p] - before
    BY DEF StockIsLedger, StockLedger
  <2>3. stock'[p] = stock[p] - Units(k, p) /\ adjusted' = adjusted
    BY DEF Sell
  <2>4. /\ Units(k, p) \in Int /\ InitialStock[p] \in Int
        /\ adjusted[p] \in Int /\ stock[p] \in Int
    BY UnitsAreNatural, LifecycleAssumption DEF IInv, TypeOK
  <2> HIDE DEF before, after
  <2>5. stock'[p] = InitialStock[p] + adjusted'[p] - after
    BY <2>1, <2>2, <2>3, <2>4
  <2> QED  BY <2>5 DEF after
<1>. QED  BY <1>1, <1>2 DEF StockIsLedger, StockLedger

LEMMA LedgerKept == ASSUME IInv, StockIsLedger, [Next]_vars PROVE StockIsLedger'
<1>1. CASE UNCHANGED <<sale, stock, adjusted>>
  BY <1>1 DEF StockIsLedger, StockLedger, Sold
<1>2. CASE CompleteCardSale
  <2>1. PICK c \in Charges : thread.charge = c
    BY <1>2 DEF CompleteCardSale, IInv, ThreadPosition
  <2>2. CartOf[c] \in Carts /\ [tender |-> "card", charge |-> c] # NoSale
    BY LifecycleAssumption DEF NoSale
  <2>. QED  BY <1>2, <2>1, <2>2, SaleKeepsLedger DEF CompleteCardSale
<1>3. ASSUME NEW k \in Carts, CashSale(k) PROVE StockIsLedger'
  <2>1. [tender |-> "cash", charge |-> NoCharge] # NoSale
    BY DEF NoSale
  <2>. QED  BY <1>3, <2>1, SaleKeepsLedger DEF CashSale
<1>4. ASSUME NEW p \in Products, NEW quantity \in Movements, AddMovement(p, quantity)
      PROVE  StockIsLedger'
  <2>1. Sold' = Sold
    BY <1>4 DEF AddMovement, Sold
  <2>2. ASSUME NEW q \in Products
        PROVE  stock'[q] = InitialStock[q] + adjusted'[q]
                             - SumFunction([j \in Sold |-> Units(j, q)])
    <3> DEFINE f == [j \in Sold |-> Units(j, q)]
    <3>1. f \in [Sold -> Int]
      BY UnitsAreNatural DEF Sold
    <3> HIDE DEF f
    <3>2. SumFunction(f) \in Int
      BY <3>1, SumInt DEF StockIsLedger
    <3>3. stock[q] = InitialStock[q] + adjusted[q] - SumFunction(f)
      BY DEF StockIsLedger, StockLedger, f
    <3>4. /\ stock[q] \in Int /\ adjusted[q] \in Int
          /\ InitialStock[q] \in Int /\ quantity \in Int
      BY LifecycleAssumption DEF IInv, TypeOK
    <3>5. \/ stock'[q] = stock[q] + quantity /\ adjusted'[q] = adjusted[q] + quantity
          \/ stock'[q] = stock[q] /\ adjusted'[q] = adjusted[q]
      BY <1>4 DEF AddMovement, IInv, TypeOK
    <3>6. stock'[q] = InitialStock[q] + adjusted'[q] - SumFunction(f)
      BY <3>2, <3>3, <3>4, <3>5
    <3>. QED  BY <3>6 DEF f
  <2>. QED  BY <2>1, <2>2 DEF StockIsLedger, StockLedger
<1>. QED  BY <1>1, <1>2, <1>3, <1>4
          DEF Next, PaymentStep, StoreStep, Charge, AdapterStep, TerminalStep,
              ChargeResumes, ReconcileBlocked, Void, ReconcileAsks, Retry,
              StatusAnswers, ReconcileResumes, CardSaleFails, MarkFinalized,
              FinalizationFails, SetActive, Crash, Restart, payVars, vars

(* Every unit is accounted for: stock is what there was, plus what was     *)
(* adjusted, minus what each completed sale took, once.                    *)
THEOREM StockIsAccountedFor == Spec => []StockLedger
<1>1. Init => StockIsLedger
  <2> SUFFICES ASSUME Init PROVE StockIsLedger
    OBVIOUS
  <2>1. Sold = {}
    BY DEF Init, Sold
  <2>2. \A p \in Products : SumFunction([k \in Sold |-> Units(k, p)]) = 0
    BY <2>1, SumEmpty
  <2>. QED  BY <2>1, <2>2, FS_EmptySet, LifecycleAssumption
            DEF Init, StockIsLedger, StockLedger
<1>2. StockIsLedger => StockLedger
  BY DEF StockIsLedger
<1>. QED  BY <1>1, <1>2, LedgerKept, Invariance, PTL DEF Spec

-----------------------------------------------------------------------------
(* Why an approved charge can be finalized. Units a charge holds are on    *)
(* the shelf unless some were lost to a movement, and the products of a    *)
(* charge that holds stock stay on sale. Both are broken by nothing but    *)
(* the weights, which a reservation counts in units and a sale in          *)
(* thousandths, so this is shown for a store that sells by the piece.      *)

HoldsCovered == \A p \in Products \ lost : HeldBut(NoCharge, p) <= stock[p]

HeldOnSale ==
    \A c \in Charges : hold[c] = "held" => InCart(CartOf[c]) \subseteq active

Covered ==
    /\ IsFiniteSet(Promise!Holding)
    /\ HoldsCovered
    /\ HeldOnSale
    /\ FailureHasCause

(* The abstract specification adds up as this one does.                    *)
LEMMA SameSum == \A f : Promise!SumFunction(f) = SumFunction(f)
BY DEF Promise!SumFunction, SumFunction, Promise!SumFunctionOnSet, SumFunctionOnSet,
       Promise!FoldFunctionOnSet, FoldFunctionOnSet, Promise!MapThenFoldSet, MapThenFoldSet

LEMMA ReservedSplits ==
    ASSUME NEW S \in SUBSET Charges, IsFiniteSet(S), NEW c \in S, NEW p \in Products
    PROVE  /\ Promise!ReservedBy(S, p)
                = Promise!ReservedBy(S \ {c}, p) + Lines[CartOf[c]][p]
           /\ Promise!ReservedBy(S \ {c}, p) \in Nat
           /\ Lines[CartOf[c]][p] \in Nat
<1> DEFINE f == [d \in S |-> Lines[CartOf[d]][p]]
           g == [d \in S \ {c} |-> Lines[CartOf[d]][p]]
<1>1. /\ f \in [S -> Int] /\ g \in [S \ {c} -> Nat]
      /\ g = [d \in S \ {c} |-> f[d]] /\ f[c] = Lines[CartOf[c]][p] /\ f[c] \in Nat
  BY LifecycleAssumption
<1>2. IsFiniteSet(S \ {c})
  BY FS_Subset
<1> HIDE DEF f, g
<1>3. SumFunction(f) = f[c] + SumFunction(g)
  BY <1>1, SumSplit
<1>4. SumFunction(g) \in Nat
  BY <1>1, <1>2, SumNat
<1>5. SumFunction(f) = SumFunction(g) + f[c]
  BY <1>1, <1>3, <1>4
<1>. QED  BY <1>1, <1>4, <1>5, SameSum DEF Promise!ReservedBy, f, g

LEMMA ReservedIsNatural ==
    ASSUME NEW S \in SUBSET Charges, IsFiniteSet(S), NEW p \in Products
    PROVE  Promise!ReservedBy(S, p) \in Nat
<1> DEFINE f == [d \in S |-> Lines[CartOf[d]][p]]
<1>1. f \in [S -> Nat]
  BY LifecycleAssumption
<1> HIDE DEF f
<1>2. SumFunction(f) \in Nat
  BY <1>1, SumNat
<1>. QED  BY <1>2, SameSum DEF Promise!ReservedBy, f

LEMMA HeldIsReserved ==
    /\ Promise!Holding \in SUBSET Charges
    /\ \A p : HeldBut(NoCharge, p) = Promise!ReservedBy(Promise!Holding, p)
    /\ \A c, p : HeldBut(c, p) = Promise!ReservedBy(Promise!Holding \ {c}, p)
<1>1. Promise!Holding \ {NoCharge} = Promise!Holding
  BY LifecycleAssumption DEF Promise!Holding
<1>. QED  BY <1>1 DEF Promise!Holding, HeldBut, Promise!HeldBut

(* The stock a charge holds is its own part of what is held.               *)
LEMMA HeldSplits ==
    ASSUME IsFiniteSet(Promise!Holding), NEW c \in Charges, NEW p \in Products
    PROVE  /\ HeldBut(c, p) \in Nat /\ HeldBut(NoCharge, p) \in Nat
           /\ Lines[CartOf[c]][p] \in Nat
           /\ hold[c] = "held" =>
                HeldBut(NoCharge, p) = HeldBut(c, p) + Lines[CartOf[c]][p]
           /\ hold[c] # "held" => HeldBut(NoCharge, p) = HeldBut(c, p)
<1> DEFINE H == Promise!Holding
<1>1. H \in SUBSET Charges /\ H \ {c} \in SUBSET Charges /\ IsFiniteSet(H \ {c})
  BY FS_Subset DEF Promise!Holding
<1>2. /\ HeldBut(NoCharge, p) = Promise!ReservedBy(H, p)
      /\ HeldBut(c, p) = Promise!ReservedBy(H \ {c}, p)
  BY HeldIsReserved
<1>3. c \in H <=> hold[c] = "held"
  BY DEF Promise!Holding
<1> HIDE DEF H
<1>4. Promise!ReservedBy(H, p) \in Nat /\ Promise!ReservedBy(H \ {c}, p) \in Nat
  BY <1>1, ReservedIsNatural DEF H
<1>5. c \in H => Promise!ReservedBy(H, p)
                   = Promise!ReservedBy(H \ {c}, p) + Lines[CartOf[c]][p]
  BY <1>1, ReservedSplits DEF H
<1>6. c \notin H => H \ {c} = H
  OBVIOUS
<1>. QED  BY <1>2, <1>3, <1>4, <1>5, <1>6, LifecycleAssumption

(* Giving a reservation back, or keeping it, uncovers nothing.             *)
LEMMA ReleaseCovers ==
    ASSUME IInv, Covered, NEW c \in Charges,
           UNCHANGED <<sale, stock, lost, active>>,
           hold' \in {hold, [hold EXCEPT ![c] = IF @ = "held" THEN "released" ELSE @]}
    PROVE  IsFiniteSet(Promise!Holding') /\ HoldsCovered' /\ HeldOnSale'
<1>1. Promise!Holding' \in {Promise!Holding, Promise!Holding \ {c}}
  BY DEF Promise!Holding, IInv, TypeOK
<1>2. IsFiniteSet(Promise!Holding')
  BY <1>1, FS_Subset DEF Covered
<1>3. HeldOnSale'
  BY DEF HeldOnSale, Covered, IInv, TypeOK
<1>4. ASSUME NEW p \in Products \ lost PROVE HeldBut(NoCharge, p)' <= stock[p]
  <2>1. HeldBut(NoCharge, p) <= stock[p] /\ stock[p] \in Int
    BY DEF Covered, HoldsCovered, IInv, TypeOK
  <2>2. HeldBut(NoCharge, p)' = Promise!ReservedBy(Promise!Holding', p)
    BY HeldIsReserved, LifecycleAssumption DEF HeldBut, Promise!HeldBut, Promise!Holding
  <2>3. HeldBut(NoCharge, p)' \in {HeldBut(NoCharge, p), HeldBut(c, p)}
    BY <1>1, <2>2, HeldIsReserved
  <2>4. HeldBut(c, p) <= HeldBut(NoCharge, p)
        /\ HeldBut(c, p) \in Nat /\ HeldBut(NoCharge, p) \in Nat
    BY HeldSplits DEF Covered, IInv, TypeOK
  <2>. QED  BY <2>1, <2>3, <2>4
<1>. QED  BY <1>2, <1>3, <1>4 DEF HoldsCovered

LEMMA ChargeCovers ==
    ASSUME IInv, Covered, NEW c \in Charges, Charge(c)
    PROVE  Covered'
<1>1. Promise!Holding' = Promise!Holding \cup {c} /\ c \notin Promise!Holding
  BY DEF Charge, KeyUnused, NoTrace, Promise!Holding, IInv, TypeOK
<1>2. IsFiniteSet(Promise!Holding')
  BY <1>1, FS_AddElement DEF Covered
<1>3. HeldOnSale'
  BY DEF HeldOnSale, Covered, Charge, CanReserve, IInv, TypeOK
<1>4. ASSUME NEW p \in Products \ lost PROVE HeldBut(NoCharge, p)' <= stock[p]
  <2>1. HeldBut(NoCharge, p)' = Promise!ReservedBy(Promise!Holding \cup {c}, p)
    BY <1>1, LifecycleAssumption DEF HeldBut, Promise!HeldBut, Promise!Holding
  <2>2. /\ Promise!Holding \cup {c} \in SUBSET Charges
        /\ IsFiniteSet(Promise!Holding \cup {c})
        /\ (Promise!Holding \cup {c}) \ {c} = Promise!Holding
    BY <1>1, <1>2, HeldIsReserved
  <2>3. Promise!ReservedBy(Promise!Holding \cup {c}, p)
          = Promise!ReservedBy(Promise!Holding, p) + Lines[CartOf[c]][p]
    BY <2>2, ReservedSplits
  <2>4. HeldBut(NoCharge, p)' = HeldBut(NoCharge, p) + Lines[CartOf[c]][p]
    BY <2>1, <2>3, HeldIsReserved
  <2>5. /\ HeldBut(NoCharge, p) \in Nat /\ Lines[CartOf[c]][p] \in Nat
        /\ stock[p] \in Int /\ HeldBut(NoCharge, p) <= stock[p]
    BY HeldSplits DEF Covered, HoldsCovered, IInv, TypeOK
  <2>6. CASE p \in InCart(CartOf[c])
    <3>1. HeldBut(NoCharge, p) <= stock[p] - Lines[CartOf[c]][p]
      BY <2>6 DEF Charge, CanReserve, Reserved
    <3>. QED  BY <2>4, <2>5, <3>1
  <2>7. CASE p \notin InCart(CartOf[c])
    BY <2>4, <2>5, <2>7 DEF InCart
  <2>. QED  BY <2>6, <2>7
<1>5. UNCHANGED <<stock, lost, thread, sale>> /\ thread.at = "idle"
  BY DEF Charge, CanRun
<1>. QED  BY <1>2, <1>3, <1>4, <1>5 DEF Covered, HoldsCovered, FailureHasCause

LEMMA CardSaleCovers ==
    ASSUME IInv, Covered, Weighted = {}, CompleteCardSale
    PROVE  Covered'
<1>1. PICK c \in Charges : thread.charge = c
  BY DEF CompleteCardSale, IInv, ThreadPosition
<1>2. /\ hold' = [hold EXCEPT ![c] = IF @ = "held" THEN "consumed" ELSE @]
      /\ thread'.at = "mark" /\ UNCHANGED <<lost, active>>
      /\ stock' = [p \in Products |-> stock[p] - Units(CartOf[c], p)]
      /\ CanSell(CartOf[c], c)
  BY <1>1 DEF CompleteCardSale, Sell
<1>3. Promise!Holding' = Promise!Holding \ {c}
  BY <1>2 DEF Promise!Holding, IInv, TypeOK
<1>4. IsFiniteSet(Promise!Holding')
  BY <1>3, FS_Subset DEF Covered
<1>5. HeldOnSale'
  BY <1>2 DEF HeldOnSale, Covered, IInv, TypeOK
<1>6. ASSUME NEW p \in Products \ lost PROVE HeldBut(NoCharge, p)' <= stock'[p]
  <2>1. HeldBut(NoCharge, p)' = HeldBut(c, p)
    BY <1>3, LifecycleAssumption DEF HeldBut, Promise!HeldBut, Promise!Holding
  <2>2. stock'[p] = stock[p] - Lines[CartOf[c]][p]
    BY <1>2, UnitsAreLines
  <2>3. /\ HeldBut(NoCharge, p) \in Nat /\ HeldBut(c, p) \in Nat
        /\ Lines[CartOf[c]][p] \in Nat /\ HeldBut(c, p) <= HeldBut(NoCharge, p)
        /\ stock[p] \in Int /\ HeldBut(NoCharge, p) <= stock[p]
    BY HeldSplits DEF Covered, HoldsCovered, IInv, TypeOK
  <2>4. CASE p \in InCart(CartOf[c])
    <3>1. HeldBut(c, p) <= stock[p] - Lines[CartOf[c]][p]
      BY <1>2, <2>4, UnitsAreLines DEF CanSell
    <3>. QED  BY <2>1, <2>2, <3>1
  <2>5. CASE p \notin InCart(CartOf[c])
    BY <2>1, <2>2, <2>3, <2>5 DEF InCart
  <2>. QED  BY <2>4, <2>5
<1>. QED  BY <1>2, <1>4, <1>5, <1>6 DEF Covered, HoldsCovered, FailureHasCause

LEMMA CashSaleCovers ==
    ASSUME IInv, Covered, Weighted = {}, NEW k \in Carts, CashSale(k)
    PROVE  Covered'
<1>1. /\ UNCHANGED <<hold, lost, active, thread>> /\ thread.at = "idle"
      /\ stock' = [p \in Products |-> stock[p] - Units(k, p)]
      /\ CanSell(k, NoCharge)
  BY DEF CashSale, Sell, CanRun
<1>2. Promise!Holding' = Promise!Holding /\ \A p : HeldBut(NoCharge, p)' = HeldBut(NoCharge, p)
  BY <1>1 DEF Promise!Holding, HeldBut, Promise!HeldBut
<1>3. ASSUME NEW p \in Products \ lost PROVE HeldBut(NoCharge, p) <= stock'[p]
  <2>1. stock'[p] = stock[p] - Lines[k][p] /\ stock[p] \in Int /\ Lines[k][p] \in Nat
    BY <1>1, UnitsAreLines, LifecycleAssumption DEF IInv, TypeOK
  <2>2. CASE p \in InCart(k)
    BY <1>1, <2>1, <2>2, UnitsAreLines DEF CanSell
  <2>3. CASE p \notin InCart(k)
    <3>1. HeldBut(NoCharge, p) <= stock[p]
      BY DEF Covered, HoldsCovered
    <3>. QED  BY <2>1, <2>3, <3>1 DEF InCart
  <2>. QED  BY <2>2, <2>3
<1>. QED  BY <1>1, <1>2, <1>3 DEF Covered, HoldsCovered, HeldOnSale, FailureHasCause

LEMMA MovementCovers ==
    ASSUME IInv, Covered, NEW p \in Products, NEW quantity \in Movements,
           AddMovement(p, quantity)
    PROVE  Covered'
<1>1. /\ UNCHANGED <<hold, active, thread>> /\ thread.at = "idle"
      /\ stock' = [stock EXCEPT ![p] = @ + quantity]
      /\ lost' = IF quantity < 0 THEN lost \cup {p} ELSE lost
  BY DEF AddMovement, CanRun
<1>2. Promise!Holding' = Promise!Holding /\ \A q : HeldBut(NoCharge, q)' = HeldBut(NoCharge, q)
  BY <1>1 DEF Promise!Holding, HeldBut, Promise!HeldBut
<1>3. ASSUME NEW q \in Products \ lost' PROVE HeldBut(NoCharge, q) <= stock'[q]
  <2>1. q \notin lost /\ HeldBut(NoCharge, q) <= stock[q] /\ stock[q] \in Int
    BY <1>1 DEF Covered, HoldsCovered, IInv, TypeOK
  <2>2. PICK c : c = NoCharge
    OBVIOUS
  <2>3. HeldBut(NoCharge, q) \in Nat
    BY HeldIsReserved, ReservedIsNatural DEF Covered
  <2>4. stock'[q] = stock[q] \/ (q = p /\ quantity >= 0 /\ stock'[q] = stock[q] + quantity)
    BY <1>1, LifecycleAssumption DEF IInv, TypeOK
  <2>. QED  BY <2>1, <2>3, <2>4, LifecycleAssumption
<1>. QED  BY <1>1, <1>2, <1>3 DEF Covered, HoldsCovered, HeldOnSale, FailureHasCause

(* A product may leave the shelf only when no charge holds any of it.      *)
LEMMA SetActiveCovers ==
    ASSUME IInv, Covered, NEW p \in Products, SetActive(p)
    PROVE  Covered'
<1>1. /\ UNCHANGED <<hold, lost, stock, sale, thread>> /\ thread.at = "idle"
      /\ p \in active => HeldBut(NoCharge, p) = 0
      /\ active' = IF p \in active THEN active \ {p} ELSE active \cup {p}
  BY DEF SetActive, CanRun
<1>2. Promise!Holding' = Promise!Holding /\ \A q : HeldBut(NoCharge, q)' = HeldBut(NoCharge, q)
  BY <1>1 DEF Promise!Holding, HeldBut, Promise!HeldBut
<1>3. ASSUME NEW c \in Charges, hold[c] = "held"
      PROVE  InCart(CartOf[c]) \subseteq active'
  <2>1. InCart(CartOf[c]) \subseteq active
    BY <1>3 DEF Covered, HeldOnSale
  <2>2. CASE p \in active
    <3>1. HeldBut(NoCharge, p) = HeldBut(c, p) + Lines[CartOf[c]][p]
          /\ HeldBut(c, p) \in Nat /\ Lines[CartOf[c]][p] \in Nat
      BY <1>3, HeldSplits DEF Covered
    <3>2. Lines[CartOf[c]][p] = 0
      BY <1>1, <2>2, <3>1
    <3>. QED  BY <1>1, <2>1, <3>2 DEF InCart
  <2>3. CASE p \notin active
    BY <1>1, <2>1, <2>3
  <2>. QED  BY <2>2, <2>3
<1>. QED  BY <1>1, <1>2, <1>3 DEF Covered, HoldsCovered, HeldOnSale, FailureHasCause

(* completeSale refuses a cart with a reservation of its own only when it  *)
(* is sold already or a product of it was lost.                            *)
LEMMA CardSaleFailsCovers ==
    ASSUME IInv, Covered, Weighted = {}, CardSaleFails
    PROVE  Covered'
<1>1. PICK c \in Charges :
        /\ thread.charge = c /\ journal[c].status = "approved" /\ ~journal[c].linked
        /\ hold[c] = "held"
  BY DEF CardSaleFails, IInv, ThreadPosition, HoldsMatchJournal, Undecided
<1>2. /\ UNCHANGED <<hold, sale, stock, lost, active>>
      /\ thread'.charge = c
      /\ sale[CartOf[c]] # NoSale \/ ~CanSell(CartOf[c], c)
  BY <1>1 DEF CardSaleFails
<1>3. Promise!Holding' = Promise!Holding /\ \A q : HeldBut(NoCharge, q)' = HeldBut(NoCharge, q)
  BY <1>2 DEF Promise!Holding, HeldBut, Promise!HeldBut
<1>4. ASSUME sale[CartOf[c]] = NoSale PROVE InCart(CartOf[c]) \cap lost # {}
  <2>1. PICK p \in InCart(CartOf[c]) :
          p \notin active \/ ~(HeldBut(c, p) <= stock[p] - Units(CartOf[c], p))
    BY <1>2, <1>4 DEF CanSell
  <2>2. p \in Products /\ p \in active
    BY <1>1 DEF InCart, Covered, HeldOnSale
  <2>3. ~(HeldBut(c, p) <= stock[p] - Lines[CartOf[c]][p])
    BY <2>1, <2>2, UnitsAreLines
  <2>4. HeldBut(NoCharge, p) = HeldBut(c, p) + Lines[CartOf[c]][p]
        /\ HeldBut(c, p) \in Nat /\ Lines[CartOf[c]][p] \in Nat /\ stock[p] \in Int
    BY <1>1, <2>2, HeldSplits DEF Covered, IInv, TypeOK
  <2>5. ~(HeldBut(NoCharge, p) <= stock[p])
    BY <2>3, <2>4
  <2>6. p \in lost
    BY <2>2, <2>5 DEF Covered, HoldsCovered
  <2>. QED  BY <2>6
<1>. QED  BY <1>2, <1>3, <1>4 DEF Covered, HoldsCovered, HeldOnSale, FailureHasCause

LEMMA CoveredKept ==
    ASSUME IInv, Covered, Weighted = {}, [Next]_vars
    PROVE  Covered'
<1>1. CASE /\ UNCHANGED <<hold, sale, stock, lost, active>>
           /\ thread' = thread \/ thread'.at # "fail"
  <2>1. Promise!Holding' = Promise!Holding /\ \A q : HeldBut(NoCharge, q)' = HeldBut(NoCharge, q)
    BY <1>1 DEF Promise!Holding, HeldBut, Promise!HeldBut
  <2>. QED  BY <1>1, <2>1 DEF Covered, HoldsCovered, HeldOnSale, FailureHasCause
<1>2. ASSUME NEW c \in Charges, UNCHANGED <<sale, stock, lost, active>>,
             hold' \in {hold, [hold EXCEPT ![c] = IF @ = "held" THEN "released" ELSE @]},
             thread'.at # "fail"
      PROVE  Covered'
  BY <1>2, ReleaseCovers DEF Covered, FailureHasCause
<1>3. ASSUME NEW c \in Charges, NEW result \in Results, Record(c, result),
             thread.at = "idle"
      PROVE  thread'.at # "fail"
  BY <1>3 DEF Record
<1>4. ASSUME NEW c \in Charges, ChargeResumes(c) PROVE Covered'
  BY <1>2, <1>3, <1>4, RecordReleases DEF ChargeResumes, CanRun
<1>5. ASSUME NEW w \in Reconcilers, ReconcileResumes(w) PROVE Covered'
  <2>1. /\ rec[w].charge \in Charges /\ thread.at = "idle"
        /\ UNCHANGED <<sale, stock, lost, active>>
    <3>1. rec[w].at \in Results \cup {"throw"} /\ thread.at = "idle"
          /\ UNCHANGED <<sale, stock, lost, active>>
      BY <1>5 DEF ReconcileResumes, CanRun
    <3>2. rec[w].at # "free"
      BY <3>1 DEF Results
    <3>. QED  BY <3>1, <3>2 DEF IInv, AskedAboutARow
  <2>2. CASE rec[w].at = "throw"
    BY <1>1, <1>5, <2>1, <2>2 DEF ReconcileResumes
  <2>3. CASE rec[w].at # "throw"
    BY <1>2, <1>3, <1>5, <2>1, <2>3, RecordReleases DEF ReconcileResumes
  <2>. QED  BY <2>2, <2>3
<1>6. ASSUME NEW c \in Charges, Void(c) PROVE Covered'
  BY <1>2, <1>6 DEF Void, ReleaseHold, CanRun
<1>7. CASE \/ \E c \in Charges : AdapterStep(c) \/ TerminalStep(c) \/ ReconcileBlocked(c)
           \/ \E w \in Reconcilers, c \in Charges : ReconcileAsks(w, c) \/ Retry(w, c)
           \/ \E w \in Reconcilers : StatusAnswers(w)
           \/ MarkFinalized \/ FinalizationFails \/ Crash \/ Restart \/ UNCHANGED vars
  <2>1. UNCHANGED <<hold, sale, stock, lost, active>>
    BY <1>7 DEF AdapterStep, TerminalStep, ReconcileBlocked, ReconcileAsks, Retry,
                StatusAnswers, MarkFinalized, FinalizationFails, Crash, Restart,
                payVars, vars
  <2>2. thread' = thread \/ thread'.at # "fail"
    BY <1>7 DEF AdapterStep, TerminalStep, ReconcileBlocked, ReconcileAsks, Retry,
                StatusAnswers, MarkFinalized, FinalizationFails, Crash, Restart,
                payVars, vars, Idle
  <2>. QED  BY <1>1, <2>1, <2>2
<1>. QED  BY <1>4, <1>5, <1>6, <1>7, ChargeCovers, CardSaleCovers, CardSaleFailsCovers,
             CashSaleCovers, MovementCovers, SetActiveCovers
          DEF Next, PaymentStep, StoreStep

(* The reservation is enough: when an approved charge cannot be finalized, *)
(* its cart was sold under another tender or stock of it was lost to a     *)
(* movement, in every store that sells by the piece.                       *)
THEOREM FailuresHaveACause ==
    ASSUME Weighted = {}
    PROVE  Spec => []FailureHasCause
<1>1. Init => Covered
  <2> SUFFICES ASSUME Init PROVE Covered
    OBVIOUS
  <2>1. Promise!Holding = {} /\ thread.at = "idle"
    BY DEF Init, Idle, Promise!Holding
  <2>2. \A p \in Products : HeldBut(NoCharge, p) = 0
    BY <2>1, HeldIsReserved, SameSum, SumEmpty DEF Promise!ReservedBy
  <2>3. \A p \in Products : stock[p] \in Nat
    BY LifecycleAssumption DEF Init
  <2>. QED  BY <2>1, <2>2, <2>3, FS_EmptySet
            DEF Init, Covered, HoldsCovered, HeldOnSale, FailureHasCause
<1>2. Covered => FailureHasCause
  BY DEF Covered
<1>3. IInv /\ Covered /\ [Next]_vars => Covered'
  BY CoveredKept
<1>. QED  BY <1>1, <1>2, <1>3, Invariance, PTL DEF Spec

=============================================================================
