------------------------ MODULE RefundIntentsProofs ------------------------
(***************************************************************************)
(* Theorems about RefundIntents, for every sale, every set of operations   *)
(* and every number of adapter calls under way.                            *)
(*                                                                         *)
(* That money is asked for once is not inductive: it needs that nothing    *)
(* was asked of a processor, and nobody awaits it, while the journal does  *)
(* not say "sent", and that whoever says "refunded" was told so.           *)
(***************************************************************************)
EXTENDS RefundIntents, SumTheorems

NotSent == {"none", "recorded"}
Paying == {"refunded", "no-id"}

(* Before the journal says "sent", the processor has heard nothing.        *)
SentFirst ==
    \A o \in Operations : intent[o] \in NotSent => open[o] = 0 /\ given[o] = 0

(* The adapter remembers refunds that took place.                          *)
RememberedIsReal == \A o \in Operations : known[o] # "none" => given[o] = 1

(* Adapter calls are about card operations that were sent, and say that    *)
(* money was given back only if it was.                                    *)
CallSound(w) ==
    call[w].at # "free" =>
        /\ call[w].operation \in Operations \ ByHand
        /\ intent[call[w].operation] \notin NotSent
        /\ call[w].at \in Paying => given[call[w].operation] = 1

(* The simulated processor holds one open request for each call.           *)
SimulatedIsOpen ==
    adapter = "simulated" =>
        /\ \A w \in Callers : call[w].at = "asking" => open[call[w].operation] = 1
        /\ \A v, w \in Callers :
             /\ call[v].at = "asking" /\ call[w].at = "asking"
             /\ call[v].operation = call[w].operation
             => v = w

(* Where the thread stands in refund.                                      *)
ThreadSound ==
    thread.at # "idle" =>
        /\ thread.operation \in Operations
        /\ thread.at = "send" =>
             thread.operation \notin ByHand /\ intent[thread.operation] = "recorded"
        /\ thread.at # "send" /\ thread.operation \notin ByHand =>
             given[thread.operation] = 1
        /\ thread.at = "complete" => record[thread.operation] # "none"

OnlyCardsAsk == \A o \in Operations : record[o] = "card" => o \notin ByHand

IInv ==
    /\ TypeOK
    /\ SentFirst
    /\ RememberedIsReal
    /\ \A w \in Callers : CallSound(w)
    /\ SimulatedIsOpen
    /\ ThreadSound
    /\ OnlyCardsAsk
    /\ AskedOnce
    /\ RecordedIsReal
    /\ CompletedIsRecorded

-----------------------------------------------------------------------------
(* Helpers *)

(* updateRefundIntent settles an operation or hands it to the manager; it  *)
(* never takes an operation back to before it was sent, and leaves settled *)
(* operations alone.                                                       *)
LEMMA Settling ==
    ASSUME TypeOK, NEW o \in Operations,
           NEW state \in {"completed", "failed", "attention"}, SetIntent(o, state)
    PROVE  /\ intent' \in [Operations -> States]
           /\ \A x \in Operations :
                /\ intent'[x] \in NotSent => intent[x] = intent'[x]
                /\ intent[x] \notin NotSent => intent'[x] \notin NotSent
                /\ intent'[x] = "completed" =>
                     intent[x] = "completed" \/ (x = o /\ state = "completed")
                /\ intent[x] \in {"completed", "failed"} => intent'[x] = intent[x]
  BY DEF SetIntent, Legal, TypeOK, States, NotSent

LEMMA FreeAndIdle == Free \in Calls /\ Idle \in Positions
  BY DEF Free, Idle, Calls, Positions

(* An answer changes what the caller's call stands at.                     *)
LEMMA AnsweredCall ==
    ASSUME TypeOK, NEW w \in Callers, NEW answer \in Answers, Answered(w, answer)
    PROVE  /\ call' \in [Callers -> Calls]
           /\ call'[w].at = answer /\ call'[w].operation = call[w].operation
           /\ \A v \in Callers \ {w} : call'[v] = call[v]
<1>. DEFINE new == [at |-> answer, operation |-> call[w].operation]
<1>1. call[w] \in Calls
  BY DEF TypeOK
<1>2. call[w].operation \in Operations \cup {NoOperation}
  BY <1>1 DEF Calls
<1>3. new \in Calls
  BY <1>2 DEF Calls
<1>4. [call[w] EXCEPT !.at = answer] = new
  BY <1>1 DEF Calls
<1>5. call' = [call EXCEPT ![w] = new]
  BY <1>4 DEF Answered
<1>. QED  BY <1>3, <1>5 DEF TypeOK

LEMMA InitSound == Init => IInv
<1>. SUFFICES ASSUME Init PROVE IInv
  OBVIOUS
<1>1. TypeOK
  BY RefundAssumption
     DEF Init, TypeOK, Free, Idle, States, Calls, Positions
<1>2. SentFirst /\ RememberedIsReal /\ SimulatedIsOpen /\ ThreadSound /\ OnlyCardsAsk
  BY DEF Init, Free, Idle, SentFirst, RememberedIsReal, SimulatedIsOpen, ThreadSound,
         OnlyCardsAsk
<1>3. \A w \in Callers : CallSound(w)
  BY DEF Init, Free, CallSound
<1>4. AskedOnce /\ RecordedIsReal /\ CompletedIsRecorded
  BY DEF Init, AskedOnce, RecordedIsReal, CompletedIsRecorded
<1>. QED  BY <1>1, <1>2, <1>3, <1>4 DEF IInv

-----------------------------------------------------------------------------
(* Each step preserves the type invariant *)

LEMMA TypePreserved == IInv /\ [Next]_vars => TypeOK'
<1>. SUFFICES ASSUME IInv, [Next]_vars PROVE TypeOK'
  OBVIOUS
<1>0. TypeOK
  BY DEF IInv
<1>1. ASSUME NEW o \in Operations,
             StartRefund(o) \/ ProcessorGives(o) \/ ProcessorRefuses(o)
      PROVE  TypeOK'
  <2>1. CASE StartRefund(o)
    <3>1. intent' \in [Operations -> States]
      BY <1>0, <2>1 DEF StartRefund, TypeOK, States
    <3>2. thread' \in Positions
      BY <2>1 DEF StartRefund, Positions
    <3>. QED  BY <1>0, <2>1, <3>1, <3>2 DEF StartRefund, TypeOK, procVars
  <2>2. CASE ProcessorGives(o) \/ ProcessorRefuses(o)
    <3>1. open[o] \in Nat /\ open[o] > 0 /\ given[o] \in Nat
      BY <1>0, <2>2 DEF ProcessorGives, ProcessorRefuses, TypeOK
    <3>2. open[o] - 1 \in Nat /\ given[o] + 1 \in Nat
      BY <3>1
    <3>3. open' \in [Operations -> Nat]
      BY <1>0, <2>2, <3>2 DEF ProcessorGives, ProcessorRefuses, TypeOK
    <3>4. given' \in [Operations -> Nat]
      BY <1>0, <2>2, <3>2 DEF ProcessorGives, ProcessorRefuses, TypeOK
    <3>. QED  BY <1>0, <2>2, <3>3, <3>4 DEF ProcessorGives, ProcessorRefuses, TypeOK, storeVars
  <2>. QED  BY <1>1, <2>1, <2>2
<1>2. ASSUME NEW w \in Callers, SendRefund(w)
      PROVE  TypeOK'
  <2>1. thread.operation \in Operations
    BY <1>2 DEF SendRefund, IInv, ThreadSound
  <2>2. intent' \in [Operations -> States]
    BY <1>0, <1>2, <2>1 DEF SendRefund, TypeOK, States
  <2>3. open' \in [Operations -> Nat]
    <3>1. open[thread.operation] + 1 \in Nat
      <4>1. open[thread.operation] \in Nat
        BY <1>0, <2>1 DEF TypeOK
      <4>. QED  BY <4>1
    <3>2. open' = [open EXCEPT ![thread.operation] = open[thread.operation] + 1]
      BY <1>2 DEF SendRefund
    <3>. QED  BY <1>0, <3>1, <3>2 DEF TypeOK
  <2>4. [at |-> "asking", operation |-> thread.operation] \in Calls
    BY <2>1 DEF Calls
  <2>5. call' \in [Callers -> Calls]
    BY <1>0, <1>2, <2>4 DEF SendRefund, TypeOK
  <2>. QED  BY <1>0, <1>2, <2>2, <2>3, <2>5, FreeAndIdle DEF SendRefund, TypeOK
<1>3. ASSUME NEW w \in Callers, SimulatedRefund(w)
      PROVE  TypeOK'
  <2>1. call[w].operation \in Operations /\ open[call[w].operation] = 1
    BY <1>3 DEF SimulatedRefund, IInv, CallSound, SimulatedIsOpen
  <2>2. open' \in [Operations -> Nat]
    <3>1. open' = [open EXCEPT ![call[w].operation] = open[call[w].operation] - 1]
      BY <1>3 DEF SimulatedRefund
    <3>2. open' = [open EXCEPT ![call[w].operation] = 0]
      BY <2>1, <3>1
    <3>. QED  BY <1>0, <3>2 DEF TypeOK
  <2>3. given' \in [Operations -> Nat]
    <3>1. given[call[w].operation] \in Nat
      BY <1>0, <2>1 DEF TypeOK
    <3>2. \/ given' = given
          \/ given' = [given EXCEPT ![call[w].operation] = given[call[w].operation] + 1]
      BY <1>3 DEF SimulatedRefund
    <3>3. given[call[w].operation] + 1 \in Nat
      BY <3>1
    <3>. QED  BY <1>0, <3>2, <3>3 DEF TypeOK
  <2>4. known' \in [Operations -> {"none", "id", "no-id"}]
    BY <1>0, <1>3, <2>1 DEF SimulatedRefund, TypeOK
  <2>5. call' \in [Callers -> Calls]
    BY <1>0, <1>3, AnsweredCall DEF SimulatedRefund, Answers
  <2>. QED  BY <1>0, <1>3, <2>2, <2>3, <2>4, <2>5 DEF SimulatedRefund, TypeOK, storeVars
<1>4. ASSUME NEW w \in Callers,
             RefundConfirmed(w) \/ RefundNotConfirmed(w) \/ LookUp(w)
      PROVE  TypeOK'
  <2>1. PICK answer \in Answers : Answered(w, answer)
    BY <1>4 DEF RefundConfirmed, RefundNotConfirmed, LookUp, Answers
  <2>2. call' \in [Callers -> Calls]
    BY <1>0, <2>1, AnsweredCall
  <2>3. \/ known' = known
        \/ known' = [known EXCEPT ![call[w].operation] = "id"]
        \/ known' = [known EXCEPT ![call[w].operation] = "no-id"]
    BY <1>4 DEF RefundConfirmed, RefundNotConfirmed, LookUp, procVars
  <2>4. known' \in [Operations -> {"none", "id", "no-id"}]
    BY <1>0, <2>3 DEF TypeOK
  <2>. QED  BY <1>0, <1>4, <2>2, <2>4
            DEF RefundConfirmed, RefundNotConfirmed, LookUp, TypeOK, storeVars, procVars
<1>5. ASSUME NEW w \in Callers, GoOn(w) \/ GiveUp(w)
      PROVE  TypeOK'
  <2>1. call[w].operation \in Operations
    BY <1>5 DEF GoOn, GiveUp, IInv, CallSound
  <2>2. call' \in [Callers -> Calls]
    BY <1>0, <1>5, FreeAndIdle DEF GoOn, GiveUp, TypeOK
  <2>3. CASE GoOn(w)
    <3>1. thread' \in Positions
      BY <2>1, <2>3 DEF GoOn, Positions
    <3>. QED  BY <1>0, <2>2, <2>3, <3>1 DEF GoOn, TypeOK, storeVars, procVars
  <2>4. CASE GiveUp(w)
    <3>1. intent' \in [Operations -> States]
      BY <1>0, <2>1, <2>4, Settling DEF GiveUp
    <3>. QED  BY <1>0, <2>2, <2>4, <3>1 DEF GiveUp, TypeOK, procVars
  <2>. QED  BY <1>5, <2>3, <2>4
<1>6. ASSUME NEW w \in Callers, NEW o \in Operations, ResumeRefund(w, o)
      PROVE  TypeOK'
  <2>1. call' \in [Callers -> Calls]
    BY <1>0, <1>6 DEF ResumeRefund, TypeOK, Calls, Free
  <2>. QED  BY <1>0, <1>6, <2>1 DEF ResumeRefund, TypeOK, storeVars, procVars
<1>7. CASE Book
  <2>1. thread.operation \in Operations
    BY <1>7 DEF Book, IInv, ThreadSound
  <2>. DEFINE o == thread.operation
  <2>5. /\ Wanted[o] \in [Items -> Nat]
        /\ Sold \in [Items -> Nat]
        /\ returned \in [Items -> Nat]
        /\ stock \in [Items -> Nat]
    BY <1>0, <2>1, RefundAssumption DEF TypeOK
  <2>6. Insert(o) /\ Refundable(o)
    BY <1>7 DEF Book, CanBook
  <2>7. returned' = [i \in Items |-> returned[i] + Wanted[o][i]]
        /\ stock' = [i \in Items |->
                       stock[i] + (IF i \in Resalable[o] THEN Wanted[o][i] ELSE 0)]
        /\ \A i \in Items : Wanted[o][i] <= Sold[i] - returned[i]
    BY <2>6 DEF Insert, Refundable
  <2>. HIDE DEF o
  <2>2. /\ returned' \in [Items -> Nat]
        /\ \A i \in Items : returned'[i] <= Sold[i]
        /\ stock' \in [Items -> Nat]
    BY <2>5, <2>7
  <2>3. /\ record' \in [Operations -> {"none", "card", "by hand"}]
        /\ saleStatus' \in {"completed", "refunded"}
    BY <1>0, <1>7, <2>1 DEF Book, Insert, TypeOK
  <2>4. thread' \in Positions
    BY <1>0, <1>7 DEF Book, TypeOK, Positions
  <2>. QED  BY <1>0, <1>7, <2>2, <2>3, <2>4 DEF Book, TypeOK, procVars
<1>8. CASE AlreadyBooked \/ BookFails
  <2>1. thread' \in Positions
    BY <1>0, <1>8 DEF AlreadyBooked, BookFails, TypeOK, Positions
  <2>. QED  BY <1>0, <1>8, <2>1 DEF AlreadyBooked, BookFails, TypeOK, storeVars, procVars
<1>9. CASE FailBook \/ Complete
  <2>1. thread.operation \in Operations
    BY <1>9 DEF FailBook, Complete, IInv, ThreadSound
  <2>2. intent' \in [Operations -> States]
    BY <1>0, <1>9, <2>1, Settling DEF FailBook, Complete, Unbooked
  <2>. QED  BY <1>0, <1>9, <2>2, FreeAndIdle DEF FailBook, Complete, TypeOK, procVars
<1>10. CASE ConfigUnavailable \/ Crash \/ Restart
  BY <1>0, <1>10, FreeAndIdle
     DEF ConfigUnavailable, Crash, Restart, TypeOK, storeVars, procVars
<1>11. CASE UNCHANGED vars
  BY <1>0, <1>11 DEF TypeOK, vars, storeVars, procVars
<1>. QED  BY <1>1, <1>2, <1>3, <1>4, <1>5, <1>6, <1>7, <1>8, <1>9, <1>10, <1>11 DEF Next

-----------------------------------------------------------------------------
(* Each step preserves what is known of the money: MoneySound              *)

MoneySound == SentFirst /\ RememberedIsReal /\ AskedOnce

(* What "at most once" says of one operation.                              *)
LEMMA Once ==
    ASSUME IInv, NEW o \in Operations
    PROVE  /\ open[o] \in Nat /\ given[o] \in Nat /\ open[o] + given[o] <= 1
           /\ open[o] > 0 => open[o] = 1 /\ given[o] = 0
           /\ given[o] > 0 => open[o] = 0 /\ given[o] = 1
<1>1. open[o] \in Nat /\ given[o] \in Nat /\ open[o] + given[o] <= 1
  BY DEF IInv, TypeOK, AskedOnce
<1>. QED  BY <1>1

(* ... and money that was given back stays given.                          *)
LEMMA MoneyPreserved ==
    IInv /\ [Next]_vars =>
       MoneySound' /\ (\A o \in Operations : given[o] = 1 => given'[o] = 1)
<1>. SUFFICES ASSUME IInv, [Next]_vars
              PROVE  MoneySound' /\ (\A o \in Operations : given[o] = 1 => given'[o] = 1)
  OBVIOUS
<1>. DEFINE Goal == MoneySound' /\ (\A o \in Operations : given[o] = 1 => given'[o] = 1)
<1>0. TypeOK /\ SentFirst /\ RememberedIsReal /\ AskedOnce
  BY DEF IInv
<1>1. ASSUME NEW o \in Operations, StartRefund(o)
      PROVE  Goal
  <2>1. \A x \in Operations : intent'[x] \in NotSent => intent[x] \in NotSent
    BY <1>0, <1>1 DEF StartRefund, Unsent, TypeOK, NotSent
  <2>. QED  BY <1>0, <1>1, <2>1
            DEF StartRefund, procVars, MoneySound, SentFirst, RememberedIsReal, AskedOnce
<1>2. ASSUME NEW o \in Operations, ProcessorGives(o) \/ ProcessorRefuses(o)
      PROVE  Goal
  <2>1. intent' = intent /\ known' = known
    BY <1>2 DEF ProcessorGives, ProcessorRefuses, storeVars
  <2>2. open[o] = 1 /\ given[o] = 0 /\ intent[o] \notin NotSent
    BY <1>0, <1>2, Once DEF ProcessorGives, ProcessorRefuses, SentFirst
  <2>3. /\ open' = [open EXCEPT ![o] = 0]
        /\ given' = given \/ given' = [given EXCEPT ![o] = 1]
    BY <1>2, <2>2 DEF ProcessorGives, ProcessorRefuses
  <2>4. \A x \in Operations :
          /\ open'[x] = IF x = o THEN 0 ELSE open[x]
          /\ given'[x] = given[x] \/ (x = o /\ given'[x] = 1)
    BY <1>0, <2>3 DEF TypeOK
  <2>5. SentFirst'
    BY <1>0, <2>1, <2>2, <2>4 DEF SentFirst
  <2>6. RememberedIsReal'
    BY <1>0, <2>1, <2>2, <2>4 DEF RememberedIsReal
  <2>7. AskedOnce'
    BY <1>0, <2>1, <2>2, <2>4, Once DEF AskedOnce
  <2>. QED  BY <2>1, <2>2, <2>4, <2>5, <2>6, <2>7 DEF MoneySound
<1>3. ASSUME NEW w \in Callers, SendRefund(w)
      PROVE  Goal
  <2>. DEFINE o == thread.operation
  <2>1. o \in Operations /\ open[o] = 0 /\ given[o] = 0
    BY <1>0, <1>3 DEF SendRefund, IInv, ThreadSound, SentFirst, NotSent
  <2>2. /\ open' = [open EXCEPT ![o] = 1]
        /\ given' = given /\ known' = known
        /\ intent' = [intent EXCEPT ![o] = "sent"]
    BY <1>3, <2>1 DEF SendRefund
  <2>. HIDE DEF o
  <2>4. \A x \in Operations :
          /\ open'[x] = IF x = o THEN 1 ELSE open[x]
          /\ intent'[x] = IF x = o THEN "sent" ELSE intent[x]
    BY <1>0, <2>2 DEF TypeOK
  <2>5. SentFirst'
    BY <1>0, <2>1, <2>2, <2>4 DEF SentFirst, NotSent
  <2>6. RememberedIsReal'
    BY <1>0, <2>1, <2>2, <2>4 DEF RememberedIsReal
  <2>7. AskedOnce'
    BY <1>0, <2>1, <2>2, <2>4, Once DEF AskedOnce
  <2>. QED  BY <2>1, <2>2, <2>4, <2>5, <2>6, <2>7 DEF MoneySound
<1>4. ASSUME NEW w \in Callers, SimulatedRefund(w)
      PROVE  Goal
  <2>. DEFINE o == call[w].operation
  <2>1. o \in Operations /\ open[o] = 1 /\ intent[o] \notin NotSent
    BY <1>4 DEF SimulatedRefund, IInv, CallSound, SimulatedIsOpen
  <2>2. given[o] = 0
    BY <2>1, Once
  <2>3. /\ open' = [open EXCEPT ![o] = 0]
        /\ intent' = intent
        /\ \/ given' = [given EXCEPT ![o] = 1] /\ known' = [known EXCEPT ![o] = "id"]
           \/ given' = given /\ known' = known
    BY <1>4, <2>1, <2>2 DEF SimulatedRefund, storeVars
  <2>. HIDE DEF o
  <2>4. \A x \in Operations :
          /\ open'[x] = IF x = o THEN 0 ELSE open[x]
          /\ \/ given'[x] = given[x] /\ known'[x] = known[x]
             \/ x = o /\ given'[x] = 1
    BY <1>0, <2>3 DEF TypeOK
  <2>5. SentFirst'
    BY <1>0, <2>1, <2>2, <2>3, <2>4 DEF SentFirst
  <2>6. RememberedIsReal'
    BY <1>0, <2>1, <2>2, <2>3, <2>4 DEF RememberedIsReal
  <2>7. AskedOnce'
    BY <1>0, <2>1, <2>2, <2>3, <2>4, Once DEF AskedOnce
  <2>. QED  BY <2>1, <2>2, <2>3, <2>4, <2>5, <2>6, <2>7 DEF MoneySound
<1>5. ASSUME NEW w \in Callers, RefundConfirmed(w) \/ LookUp(w)
      PROVE  Goal
  <2>. DEFINE o == call[w].operation
  <2>1. open' = open /\ given' = given /\ intent' = intent
    BY <1>5 DEF RefundConfirmed, LookUp, storeVars
  <2>2. o \in Operations
    BY <1>5 DEF RefundConfirmed, LookUp, IInv, CallSound
  <2>3. \/ known' = known
        \/ /\ known' = [known EXCEPT ![o] = "id"] \/ known' = [known EXCEPT ![o] = "no-id"]
           /\ given[o] > 0
    BY <1>5 DEF RefundConfirmed, LookUp, Found, Answers
  <2>4. given[o] > 0 => given[o] = 1
    BY <2>2, Once
  <2>. HIDE DEF o
  <2>. QED  BY <1>0, <2>1, <2>2, <2>3, <2>4
            DEF TypeOK, MoneySound, SentFirst, RememberedIsReal, AskedOnce
<1>6. CASE FailBook \/ Complete \/ \E w \in Callers : GiveUp(w)
  <2>1. PICK o \in Operations, state \in {"completed", "failed", "attention"} :
             SetIntent(o, state)
    BY <1>6 DEF FailBook, Complete, GiveUp, Unbooked, IInv, ThreadSound, CallSound
  <2>2. UNCHANGED <<open, given, known>>
    BY <1>6 DEF FailBook, Complete, GiveUp, procVars
  <2>3. \A x \in Operations : intent'[x] \in NotSent => intent[x] \in NotSent
    BY <1>0, <2>1, Settling
  <2>. QED  BY <1>0, <2>2, <2>3 DEF MoneySound, SentFirst, RememberedIsReal, AskedOnce
<1>7. CASE \/ \E w \in Callers : RefundNotConfirmed(w) \/ GoOn(w)
           \/ \E w \in Callers, o \in Operations : ResumeRefund(w, o)
           \/ ConfigUnavailable \/ Book \/ AlreadyBooked \/ BookFails \/ Crash \/ Restart
           \/ UNCHANGED vars
  <2>1. UNCHANGED <<intent, open, given, known>>
    BY <1>7 DEF RefundNotConfirmed, GoOn, ResumeRefund, ConfigUnavailable, Book,
                AlreadyBooked, BookFails, Crash, Restart, vars, storeVars, procVars
  <2>. QED  BY <1>0, <2>1 DEF MoneySound, SentFirst, RememberedIsReal, AskedOnce
<1>. QED  BY <1>1, <1>2, <1>3, <1>4, <1>5, <1>6, <1>7 DEF Next

-----------------------------------------------------------------------------
(* Each step preserves what is known of the calls                          *)

(* Nothing takes an operation back to before it was sent.                  *)
LEMMA SentStays ==
    ASSUME IInv, [Next]_vars, NEW x \in Operations, intent[x] \notin NotSent
    PROVE  intent'[x] \notin NotSent
<1>0. TypeOK
  BY DEF IInv
<1>1. ASSUME NEW o \in Operations, StartRefund(o)
      PROVE  intent'[x] \notin NotSent
  BY <1>0, <1>1 DEF StartRefund, Unsent, TypeOK, NotSent
<1>2. ASSUME NEW w \in Callers, SendRefund(w)
      PROVE  intent'[x] \notin NotSent
  BY <1>0, <1>2 DEF SendRefund, TypeOK, NotSent
<1>3. CASE FailBook \/ Complete \/ \E w \in Callers : GiveUp(w)
  <2>1. PICK o \in Operations, state \in {"completed", "failed", "attention"} :
             SetIntent(o, state)
    BY <1>3 DEF FailBook, Complete, GiveUp, Unbooked, IInv, ThreadSound, CallSound
  <2>. QED  BY <1>0, <2>1, Settling
<1>4. CASE \/ \E o \in Operations : ProcessorGives(o) \/ ProcessorRefuses(o)
           \/ \E w \in Callers : \/ SimulatedRefund(w) \/ RefundConfirmed(w)
                                 \/ RefundNotConfirmed(w) \/ LookUp(w) \/ GoOn(w)
           \/ \E w \in Callers, o \in Operations : ResumeRefund(w, o)
           \/ ConfigUnavailable \/ Book \/ AlreadyBooked \/ BookFails
           \/ Crash \/ Restart \/ UNCHANGED vars
  <2>1. intent' = intent
    BY <1>4 DEF ProcessorGives, ProcessorRefuses, SimulatedRefund, RefundConfirmed,
                RefundNotConfirmed, LookUp, GoOn, ResumeRefund, ConfigUnavailable, Book,
                AlreadyBooked, BookFails, Crash, Restart, vars, storeVars
  <2>. QED  BY <2>1
<1>. QED  BY <1>1, <1>2, <1>3, <1>4 DEF Next

LEMMA CallsPreserved == IInv /\ [Next]_vars => \A v \in Callers : CallSound(v)'
<1>. SUFFICES ASSUME IInv, [Next]_vars, NEW v \in Callers
              PROVE  CallSound(v)'
  OBVIOUS
<1>0. TypeOK /\ CallSound(v)
  BY DEF IInv
(* The facts about a call last as long as the call does.                   *)
<1>1. ASSUME call'[v] = call[v] PROVE CallSound(v)'
  <2>. SUFFICES ASSUME call[v].at # "free"
                PROVE  /\ call[v].operation \in Operations \ ByHand
                       /\ intent'[call[v].operation] \notin NotSent
                       /\ call[v].at \in Paying => given'[call[v].operation] = 1
    BY <1>1 DEF CallSound
  <2>. QED  BY <1>0, SentStays, MoneyPreserved DEF CallSound
<1>2. ASSUME call'[v] = Free PROVE CallSound(v)'
  BY <1>2 DEF CallSound, Free
<1>3. ASSUME NEW w \in Callers, SendRefund(w)
      PROVE  CallSound(v)'
  <2>1. CASE v = w
    <3>1. /\ thread.operation \in Operations \ ByHand
          /\ intent'[thread.operation] = "sent"
      BY <1>0, <1>3 DEF SendRefund, IInv, ThreadSound, TypeOK
    <3>2. call'[v] = [at |-> "asking", operation |-> thread.operation]
      BY <1>0, <1>3, <2>1 DEF SendRefund, TypeOK
    <3>. QED  BY <3>1, <3>2 DEF CallSound, NotSent, Paying
  <2>2. CASE v # w
    BY <1>0, <1>1, <1>3, <2>2 DEF SendRefund, TypeOK
  <2>. QED  BY <2>1, <2>2
<1>4. ASSUME NEW w \in Callers, NEW o \in Operations, ResumeRefund(w, o)
      PROVE  CallSound(v)'
  <2>1. CASE v = w
    <3>1. call'[v] = [at |-> "looking", operation |-> o]
      BY <1>0, <1>4, <2>1 DEF ResumeRefund, TypeOK
    <3>2. o \notin ByHand /\ intent'[o] \notin NotSent
      BY <1>4 DEF ResumeRefund, storeVars, NotSent
    <3>. QED  BY <3>1, <3>2 DEF CallSound, Paying
  <2>2. CASE v # w
    BY <1>0, <1>1, <1>4, <2>2 DEF ResumeRefund, TypeOK
  <2>. QED  BY <2>1, <2>2
<1>5. ASSUME NEW w \in Callers,
             \/ SimulatedRefund(w) \/ RefundConfirmed(w)
             \/ RefundNotConfirmed(w) \/ LookUp(w)
      PROVE  CallSound(v)'
  <2>1. PICK answer \in Answers :
             Answered(w, answer) /\ (answer \in Paying => given'[call[w].operation] > 0)
    <3>1. call[w].operation \in Operations
      BY <1>5 DEF SimulatedRefund, RefundConfirmed, RefundNotConfirmed, LookUp, IInv, CallSound
    <3>2. CASE SimulatedRefund(w)
      <4>1. given[call[w].operation] \in Nat
        BY <1>0, <3>1 DEF TypeOK
      <4>2. \/ /\ Answered(w, "refunded")
               /\ given' = [given EXCEPT ![call[w].operation] =
                                          given[call[w].operation] + 1]
            \/ Answered(w, "failed")
        BY <3>2 DEF SimulatedRefund
      <4>3. Answered(w, "refunded") => given'[call[w].operation] > 0
            \/ Answered(w, "failed")
        <5>1. given[call[w].operation] + 1 > 0
          BY <4>1
        <5>. QED  BY <1>0, <3>1, <4>2, <5>1 DEF TypeOK
      <4>. QED  BY <4>2, <4>3 DEF Answers, Paying
    <3>3. CASE RefundConfirmed(w)
      BY <3>3 DEF RefundConfirmed, Answers
    <3>4. CASE RefundNotConfirmed(w)
      BY <3>4 DEF RefundNotConfirmed, Answers, Paying
    <3>5. CASE LookUp(w)
      <4>1. PICK answer \in Answers : Found(call[w].operation, answer) /\ Answered(w, answer)
        BY <3>5 DEF LookUp
      <4>2. given' = given
        BY <3>5 DEF LookUp
      <4>3. answer \in Paying => given[call[w].operation] > 0
        BY <3>1, <4>1 DEF Found, Paying, IInv, RememberedIsReal
      <4>. QED  BY <4>1, <4>2, <4>3
    <3>. QED  BY <1>5, <3>2, <3>3, <3>4, <3>5
  <2>2. CASE v = w
    <3>1. call'[v].at = answer /\ call'[v].operation = call[v].operation
      BY <1>0, <2>1, <2>2, AnsweredCall
    <3>2. call[v].at # "free"
      BY <1>5, <2>2 DEF SimulatedRefund, RefundConfirmed, RefundNotConfirmed, LookUp
    <3>3. /\ call[v].operation \in Operations \ ByHand
          /\ intent[call[v].operation] \notin NotSent
      BY <1>0, <3>2 DEF CallSound
    <3>4. given'[call[v].operation] > 0 => given'[call[v].operation] = 1
      <4>. DEFINE o == call[v].operation
      <4>1. AskedOnce' /\ TypeOK'
        BY MoneyPreserved, TypePreserved DEF MoneySound
      <4>2. open'[o] \in Nat /\ given'[o] \in Nat /\ open'[o] + given'[o] <= 1
        BY <3>3, <4>1 DEF AskedOnce, TypeOK
      <4>. QED  BY <4>2
    <3>. QED  BY <2>1, <2>2, <3>1, <3>3, <3>4, SentStays DEF CallSound
  <2>3. CASE v # w
    BY <1>0, <1>1, <2>1, <2>3, AnsweredCall
  <2>. QED  BY <2>2, <2>3
<1>6. ASSUME NEW w \in Callers, GoOn(w) \/ GiveUp(w)
      PROVE  CallSound(v)'
  <2>1. call'[v] = Free \/ call'[v] = call[v]
    BY <1>0, <1>6 DEF GoOn, GiveUp, TypeOK
  <2>. QED  BY <1>1, <1>2, <2>1
<1>7. CASE Crash
  BY <1>2, <1>7 DEF Crash
<1>8. CASE \/ \E o \in Operations : \/ StartRefund(o) \/ ProcessorGives(o)
                                    \/ ProcessorRefuses(o)
           \/ ConfigUnavailable \/ Book \/ AlreadyBooked \/ BookFails
           \/ FailBook \/ Complete \/ Restart \/ UNCHANGED vars
  <2>1. call' = call
    BY <1>8 DEF StartRefund, ProcessorGives, ProcessorRefuses, ConfigUnavailable, Book,
                AlreadyBooked, BookFails, FailBook, Complete, Restart, vars
  <2>. QED  BY <1>1, <2>1
<1>. QED  BY <1>3, <1>4, <1>5, <1>6, <1>7, <1>8 DEF Next

(* The simulated processor is asked and answers in step with the calls.    *)
LEMMA SimulatedPreserved == IInv /\ [Next]_vars => SimulatedIsOpen'
<1>. SUFFICES ASSUME IInv, [Next]_vars, adapter' = "simulated"
              PROVE  SimulatedIsOpen'
  BY DEF SimulatedIsOpen
<1>0. TypeOK /\ adapter = "simulated"
  <2>1. adapter' = adapter
    BY DEF Next, StartRefund, SendRefund, ConfigUnavailable, ProcessorGives,
           ProcessorRefuses, SimulatedRefund, RefundConfirmed, RefundNotConfirmed,
           ResumeRefund, LookUp, GoOn, GiveUp, Book, AlreadyBooked, BookFails, FailBook,
           Complete, Crash, Restart, vars, procVars
  <2>. QED  BY <2>1 DEF IInv
<1>1. SimulatedIsOpen
  BY DEF IInv
(* Calls that go on asking keep their open request.                        *)
<1>2. ASSUME open' = open,
             \A v \in Callers : call'[v].at = "asking" => call'[v] = call[v]
      PROVE  SimulatedIsOpen'
  BY <1>0, <1>1, <1>2 DEF SimulatedIsOpen
<1>3. ASSUME NEW w \in Callers, SendRefund(w)
      PROVE  SimulatedIsOpen'
  <2>. DEFINE o == thread.operation
  <2>1. o \in Operations /\ intent[o] \in NotSent /\ open[o] = 0
    BY <1>3 DEF SendRefund, IInv, ThreadSound, SentFirst, NotSent
  <2>2. \A v \in Callers : call[v].at = "asking" =>
          call[v].operation \in Operations /\ call[v].operation # o
    BY <2>1 DEF IInv, CallSound
  <2>3. /\ call' = [call EXCEPT ![w] = [at |-> "asking", operation |-> o]]
        /\ open' = [open EXCEPT ![o] = 1]
    BY <1>3, <2>1 DEF SendRefund
  <2>. HIDE DEF o
  <2>4. \A v \in Callers :
          call'[v] = IF v = w THEN [at |-> "asking", operation |-> o] ELSE call[v]
    BY <1>0, <2>3 DEF TypeOK
  <2>5. \A x \in Operations : open'[x] = IF x = o THEN 1 ELSE open[x]
    BY <1>0, <2>3 DEF TypeOK
  <2>. QED  BY <1>0, <1>1, <2>1, <2>2, <2>4, <2>5 DEF SimulatedIsOpen
<1>4. ASSUME NEW w \in Callers, SimulatedRefund(w)
      PROVE  SimulatedIsOpen'
  <2>. DEFINE o == call[w].operation
  <2>1. o \in Operations /\ call[w].at = "asking"
    BY <1>4 DEF SimulatedRefund, IInv, CallSound
  <2>2. PICK answer \in {"refunded", "failed"} : Answered(w, answer)
    BY <1>4 DEF SimulatedRefund
  <2>3. call'[w].at # "asking" /\ \A v \in Callers \ {w} : call'[v] = call[v]
    BY <1>0, <2>2, AnsweredCall DEF Answers
  <2>4. \A v \in Callers \ {w} : call[v].at = "asking" =>
          call[v].operation \in Operations /\ call[v].operation # o
    BY <1>0, <1>1, <2>1 DEF SimulatedIsOpen, IInv, CallSound
  <2>5. open' = [open EXCEPT ![o] = open[o] - 1]
    BY <1>4 DEF SimulatedRefund
  <2>. HIDE DEF o
  <2>6. \A x \in Operations \ {o} : open'[x] = open[x]
    BY <1>0, <2>5 DEF TypeOK
  <2>. QED  BY <1>0, <1>1, <2>3, <2>4, <2>6 DEF SimulatedIsOpen
<1>5. ASSUME NEW w \in Callers, LookUp(w)
      PROVE  SimulatedIsOpen'
  <2>1. PICK answer \in Answers : Answered(w, answer)
    BY <1>5 DEF LookUp
  <2>2. call'[w].at # "asking" /\ \A v \in Callers \ {w} : call'[v] = call[v]
    BY <1>0, <2>1, AnsweredCall DEF Answers
  <2>. QED  BY <1>2, <1>5, <2>2 DEF LookUp
<1>6. ASSUME NEW w \in Callers, GoOn(w) \/ GiveUp(w)
      PROVE  SimulatedIsOpen'
  <2>1. open' = open /\ call' = [call EXCEPT ![w] = Free]
    BY <1>6 DEF GoOn, GiveUp, procVars
  <2>2. Free.at # "asking"
    BY DEF Free
  <2>. QED  BY <1>0, <1>2, <2>1, <2>2 DEF TypeOK
<1>7. CASE Crash
  BY <1>2, <1>7 DEF Crash, Free, procVars
<1>8. CASE \/ \E o \in Operations : \/ StartRefund(o) \/ ProcessorGives(o)
                                    \/ ProcessorRefuses(o)
           \/ \E w \in Callers : RefundConfirmed(w) \/ RefundNotConfirmed(w)
           \/ ConfigUnavailable \/ Book \/ AlreadyBooked \/ BookFails
           \/ FailBook \/ Complete \/ Restart \/ UNCHANGED vars
  <2>1. call' = call /\ open' = open
    BY <1>0, <1>8 DEF StartRefund, ProcessorGives, ProcessorRefuses, RefundConfirmed,
                RefundNotConfirmed, ConfigUnavailable, Book, AlreadyBooked, BookFails,
                FailBook, Complete, Restart, vars, procVars
  <2>. QED  BY <1>2, <2>1
<1>9. ASSUME NEW w \in Callers, NEW o \in Operations, ResumeRefund(w, o)
      PROVE  SimulatedIsOpen'
  <2>. DEFINE new == [at |-> "looking", operation |-> o]
  <2>1. open' = open /\ call' = [call EXCEPT ![w] = new]
    BY <1>9 DEF ResumeRefund, procVars
  <2>2. new.at # "asking"
    OBVIOUS
  <2>. HIDE DEF new
  <2>. QED  BY <1>0, <1>2, <2>1, <2>2 DEF TypeOK
<1>. QED  BY <1>3, <1>4, <1>5, <1>6, <1>7, <1>8, <1>9 DEF Next

-----------------------------------------------------------------------------
(* Each step preserves what is known of the thread and of the books        *)

BooksSound == OnlyCardsAsk /\ RecordedIsReal /\ CompletedIsRecorded

LEMMA BooksPreserved == IInv /\ [Next]_vars => ThreadSound' /\ BooksSound'
<1>. SUFFICES ASSUME IInv, [Next]_vars PROVE ThreadSound' /\ BooksSound'
  OBVIOUS
<1>0. /\ TypeOK /\ ThreadSound
      /\ OnlyCardsAsk /\ RecordedIsReal /\ CompletedIsRecorded
  BY DEF IInv
<1>1. \A x \in Operations : given[x] = 1 => given'[x] = 1
  BY MoneyPreserved
(* Without a new record or a new completion the books stay sound.          *)
<1>2. ASSUME record' = record,
             \A x \in Operations : intent'[x] = "completed" =>
                intent[x] = "completed" \/ record[x] # "none"
      PROVE  BooksSound'
  BY <1>0, <1>1, <1>2 DEF BooksSound, OnlyCardsAsk, RecordedIsReal, CompletedIsRecorded
<1>3. ASSUME thread' = Idle PROVE ThreadSound'
  BY <1>3 DEF ThreadSound, Idle
<1>4. ASSUME NEW o \in Operations, StartRefund(o)
      PROVE  ThreadSound' /\ BooksSound'
  <2>1. record' = record /\ intent' = [intent EXCEPT ![o] = "recorded"]
    BY <1>4 DEF StartRefund, Unsent
  <2>2. BooksSound'
    BY <1>0, <1>2, <2>1 DEF TypeOK
  <2>3. thread' = [at |-> IF o \in ByHand THEN "book" ELSE "send",
                   operation |-> o, reference |-> "none"]
    BY <1>4 DEF StartRefund
  <2>4. intent'[o] = "recorded"
    BY <1>0, <2>1 DEF TypeOK
  <2>. QED  BY <2>2, <2>3, <2>4 DEF ThreadSound
<1>5. ASSUME NEW w \in Callers, SendRefund(w)
      PROVE  ThreadSound' /\ BooksSound'
  <2>1. /\ record' = record /\ thread' = Idle
        /\ \A x \in Operations : intent'[x] = "completed" => intent[x] = "completed"
    BY <1>0, <1>5 DEF SendRefund, TypeOK
  <2>. QED  BY <1>2, <1>3, <2>1
<1>6. ASSUME NEW w \in Callers, GoOn(w)
      PROVE  ThreadSound' /\ BooksSound'
  <2>. DEFINE o == call[w].operation
  <2>1. o \in Operations /\ given'[o] = 1
    BY <1>1, <1>6 DEF GoOn, IInv, CallSound, Paying
  <2>2. thread'.at = "book" /\ thread'.operation = o
    BY <1>6 DEF GoOn
  <2>3. record' = record /\ intent' = intent
    BY <1>6 DEF GoOn, storeVars
  <2>. QED  BY <1>2, <2>1, <2>2, <2>3 DEF ThreadSound
<1>7. CASE FailBook \/ \E w \in Callers : GiveUp(w)
  <2>1. PICK o \in Operations, state \in {"completed", "failed", "attention"} :
             SetIntent(o, state) /\ state # "completed"
    BY <1>7 DEF FailBook, GiveUp, Unbooked, IInv, ThreadSound, CallSound
  <2>2. BooksSound'
    <3>1. record' = record
      BY <1>7 DEF FailBook, GiveUp
    <3>2. \A x \in Operations : intent'[x] = "completed" => intent[x] = "completed"
      BY <1>0, <2>1, Settling
    <3>. QED  BY <1>2, <3>1, <3>2
  <2>3. thread' = Idle \/ (thread' = thread /\ thread.at = "idle")
    BY <1>7 DEF FailBook, GiveUp, CanRun
  <2>. QED  BY <1>3, <2>2, <2>3 DEF ThreadSound
<1>8. CASE Complete
  <2>1. /\ thread.operation \in Operations /\ record[thread.operation] # "none"
        /\ SetIntent(thread.operation, "completed")
        /\ record' = record /\ thread' = Idle
    BY <1>0, <1>8 DEF Complete, ThreadSound
  <2>2. \A x \in Operations : intent'[x] = "completed" =>
           intent[x] = "completed" \/ x = thread.operation
    BY <1>0, <2>1, Settling
  <2>. QED  BY <1>2, <1>3, <2>1, <2>2
<1>9. CASE Book
  <2>. DEFINE o == thread.operation
  <2>1. o \in Operations /\ (o \notin ByHand => given'[o] = 1)
    BY <1>0, <1>1, <1>9 DEF Book, ThreadSound
  <2>2. /\ record' = [record EXCEPT ![o] = IF o \in ByHand THEN "by hand" ELSE "card"]
        /\ intent' = intent
        /\ thread' = [thread EXCEPT !.at = "complete"]
    BY <1>9 DEF Book, Insert
  <2>3. thread'.at = "complete" /\ thread'.operation = o
    BY <1>0, <2>2 DEF TypeOK, Positions
  <2>. HIDE DEF o
  <2>4. \A x \in Operations :
          record'[x] = IF x = o THEN (IF o \in ByHand THEN "by hand" ELSE "card")
                       ELSE record[x]
    BY <1>0, <2>2 DEF TypeOK
  <2>5. BooksSound'
    <3>1. OnlyCardsAsk'
      BY <1>0, <2>4 DEF OnlyCardsAsk
    <3>2. RecordedIsReal'
      BY <1>0, <1>1, <2>1, <2>4 DEF RecordedIsReal
    <3>3. CompletedIsRecorded'
      <4>1. intent' = intent
        BY <2>2
      <4>2. \A x \in Operations : record'[x] = "none" => record[x] = "none"
        BY <2>4
      <4>. QED  BY <1>0, <4>1, <4>2 DEF CompletedIsRecorded
    <3>. QED  BY <3>1, <3>2, <3>3 DEF BooksSound
  <2>6. ThreadSound'
    BY <2>1, <2>3, <2>4 DEF ThreadSound
  <2>. QED  BY <2>5, <2>6
<1>10. CASE AlreadyBooked \/ BookFails
  <2>1. thread'.operation = thread.operation
    BY <1>0, <1>10 DEF AlreadyBooked, BookFails, TypeOK, Positions
  <2>2. \/ thread'.at = "complete" /\ record[thread.operation] # "none"
        \/ thread'.at = "fail"
    BY <1>0, <1>10 DEF AlreadyBooked, BookFails, TypeOK, Positions
  <2>3. record' = record /\ intent' = intent /\ thread.at = "book"
    BY <1>10 DEF AlreadyBooked, BookFails, storeVars
  <2>. QED  BY <1>0, <1>1, <1>2, <2>1, <2>2, <2>3 DEF ThreadSound
<1>11. CASE Crash \/ ConfigUnavailable
  BY <1>2, <1>3, <1>11 DEF Crash, ConfigUnavailable, storeVars
<1>12. CASE \/ \E o \in Operations : ProcessorGives(o) \/ ProcessorRefuses(o)
            \/ \E w \in Callers : \/ SimulatedRefund(w) \/ RefundConfirmed(w)
                                  \/ RefundNotConfirmed(w) \/ LookUp(w)
            \/ \E w \in Callers, o \in Operations : ResumeRefund(w, o)
            \/ Restart \/ UNCHANGED vars
  <2>1. record' = record /\ intent' = intent /\ thread' = thread
    BY <1>12 DEF ProcessorGives, ProcessorRefuses, SimulatedRefund, RefundConfirmed,
                 RefundNotConfirmed, LookUp, ResumeRefund, Restart, vars, storeVars
  <2>. QED  BY <1>0, <1>1, <1>2, <2>1 DEF ThreadSound
<1>. QED  BY <1>4, <1>5, <1>6, <1>7, <1>8, <1>9, <1>10, <1>11, <1>12 DEF Next

-----------------------------------------------------------------------------
(* The theorems *)

LEMMA Invariance == Spec => []IInv
<1>1. IInv /\ [Next]_vars => IInv'
  BY TypePreserved, MoneyPreserved, CallsPreserved, SimulatedPreserved, BooksPreserved
     DEF IInv, MoneySound, BooksSound
<1>. QED  BY <1>1, InitSound, PTL DEF Spec

(* Every state of the refund code is well formed; in particular no more of *)
(* a line is recorded as refunded than was sold.                           *)
THEOREM TypeCorrect == Spec => []TypeOK
<1>1. IInv => TypeOK
  BY DEF IInv
<1>. QED  BY <1>1, Invariance, PTL

(* Whatever crashes, retries and late answers do, a processor is asked for *)
(* the money of an operation at most once.                                 *)
THEOREM RefundsAreAskedOnce == Spec => []AskedOnce
<1>1. IInv => AskedOnce
  BY DEF IInv
<1>. QED  BY <1>1, Invariance, PTL

(* A card refund in the books is money the processor gave back.            *)
THEOREM RecordsAreReal == Spec => []RecordedIsReal
<1>1. IInv => RecordedIsReal
  BY DEF IInv
<1>. QED  BY <1>1, Invariance, PTL

(* A completed intent has its refund in the books.                         *)
THEOREM CompletionsAreRecorded == Spec => []CompletedIsRecorded
<1>1. IInv => CompletedIsRecorded
  BY DEF IInv
<1>. QED  BY <1>1, Invariance, PTL

(* A settled operation is never reopened by a call that comes back late.   *)
THEOREM SettledForGood == Spec => SettledStays
<1>. DEFINE Stays == \A o \in Operations :
                       intent[o] \in {"completed", "failed"} => intent'[o] = intent[o]
<1>1. IInv /\ [Next]_vars => [Stays]_vars
  <2>. SUFFICES ASSUME IInv, Next PROVE Stays
    OBVIOUS
  <2>0. TypeOK
    BY DEF IInv
  <2>1. ASSUME NEW o \in Operations, StartRefund(o) PROVE Stays
    BY <2>0, <2>1 DEF StartRefund, Unsent, TypeOK
  <2>2. ASSUME NEW w \in Callers, SendRefund(w) PROVE Stays
    <3>1. intent[thread.operation] = "recorded"
      BY <2>2 DEF SendRefund, IInv, ThreadSound
    <3>. QED  BY <2>0, <2>2, <3>1 DEF SendRefund, TypeOK
  <2>3. CASE FailBook \/ Complete \/ \E w \in Callers : GiveUp(w)
    <3>1. PICK o \in Operations, state \in {"completed", "failed", "attention"} :
               SetIntent(o, state)
      BY <2>3 DEF FailBook, Complete, GiveUp, Unbooked, IInv, ThreadSound, CallSound
    <3>. QED  BY <2>0, <3>1, Settling
  <2>4. CASE \/ \E o \in Operations : ProcessorGives(o) \/ ProcessorRefuses(o)
             \/ \E w \in Callers : \/ SimulatedRefund(w) \/ RefundConfirmed(w)
                                   \/ RefundNotConfirmed(w) \/ LookUp(w) \/ GoOn(w)
             \/ \E w \in Callers, o \in Operations : ResumeRefund(w, o)
             \/ ConfigUnavailable \/ Book \/ AlreadyBooked \/ BookFails
             \/ Crash \/ Restart
    BY <2>4 DEF ProcessorGives, ProcessorRefuses, SimulatedRefund, RefundConfirmed,
                RefundNotConfirmed, LookUp, GoOn, ResumeRefund, ConfigUnavailable, Book,
                AlreadyBooked, BookFails, Crash, Restart, storeVars
  <2>. QED  BY <2>1, <2>2, <2>3, <2>4 DEF Next
<1>. QED  BY <1>1, Invariance, PTL DEF Spec, SettledStays

-----------------------------------------------------------------------------
(* The refund ledger. What the recorded operations refund of a line is     *)
(* what is no longer refundable of it; a new record adds its operation to  *)
(* the sums once, and to the goods only where they can be sold again.      *)

Restocked(i) == {r \in Recorded : i \in Resalable[r]}

RefundsAddUp == IsFiniteSet(Recorded) /\ RefundLedger

(* A set of operations that grows by one refunds that much more of a line. *)
LEMMA RefundedBy ==
    ASSUME NEW S \in SUBSET Operations, IsFiniteSet(S), NEW o \in Operations \ S,
           NEW i \in Items
    PROVE  /\ SumFunction([x \in S |-> Wanted[x][i]]) \in Nat
           /\ SumFunction([x \in S \cup {o} |-> Wanted[x][i]])
                = SumFunction([x \in S |-> Wanted[x][i]]) + Wanted[o][i]
<1> DEFINE f == [x \in S |-> Wanted[x][i]]
           g == [x \in S \cup {o} |-> Wanted[x][i]]
<1>1. /\ f \in [S -> Nat] /\ f \in [S -> Int] /\ g \in [S \cup {o} -> Int]
      /\ g[o] = Wanted[o][i] /\ \A x \in S : g[x] = f[x]
  BY RefundAssumption
<1> HIDE DEF f, g
<1>2. SumFunction(f) \in Nat
  BY <1>1, SumNat
<1>3. SumFunction(g) = SumFunction(f) + g[o]
  BY <1>1, SumExtended
<1>. QED  BY <1>1, <1>2, <1>3 DEF f, g

LEMMA BookAddsUp == ASSUME IInv, RefundsAddUp, Book PROVE RefundsAddUp'
<1>1. PICK o \in Operations : thread.operation = o
  BY DEF Book, IInv, ThreadSound
<1>2. /\ record[o] = "none" /\ Refundable(o)
      /\ record' = [record EXCEPT ![o] = IF o \in ByHand THEN "by hand" ELSE "card"]
      /\ returned' = [i \in Items |-> returned[i] + Wanted[o][i]]
      /\ stock' = [i \in Items |->
                     stock[i] + (IF i \in Resalable[o] THEN Wanted[o][i] ELSE 0)]
      /\ saleStatus' = IF \A i \in Items : returned'[i] >= Sold[i]
                       THEN "refunded" ELSE saleStatus
  BY <1>1 DEF Book, CanBook, Insert
<1>3. /\ Recorded' = Recorded \cup {o} /\ o \notin Recorded
      /\ Recorded \in SUBSET Operations
  BY <1>2 DEF Recorded, IInv, TypeOK
<1>4. IsFiniteSet(Recorded')
  BY <1>3, FS_AddElement DEF RefundsAddUp
<1>5. ASSUME NEW i \in Items
      PROVE  /\ returned'[i] = SumFunction([x \in Recorded' |-> Wanted[x][i]])
             /\ stock'[i] = SumFunction([x \in Restocked(i)' |-> Wanted[x][i]])
  <2>1. /\ returned[i] = SumFunction([x \in Recorded |-> Wanted[x][i]])
        /\ stock[i] = SumFunction([x \in Restocked(i) |-> Wanted[x][i]])
        /\ IsFiniteSet(Recorded)
    BY DEF RefundsAddUp, RefundLedger, Restocked
  <2>2. returned'[i] = SumFunction([x \in Recorded' |-> Wanted[x][i]])
    <3>1. SumFunction([x \in Recorded \cup {o} |-> Wanted[x][i]])
            = SumFunction([x \in Recorded |-> Wanted[x][i]]) + Wanted[o][i]
      BY <1>3, <2>1, RefundedBy
    <3>2. returned'[i] = returned[i] + Wanted[o][i]
      BY <1>2
    <3>. QED  BY <1>3, <2>1, <3>1, <3>2
  <2>3. /\ Restocked(i) \in SUBSET Operations /\ o \in Operations \ Restocked(i)
        /\ IsFiniteSet(Restocked(i))
    BY <1>3, <2>1, FS_Subset DEF Restocked
  <2>4. /\ SumFunction([x \in Restocked(i) |-> Wanted[x][i]]) \in Nat
        /\ SumFunction([x \in Restocked(i) \cup {o} |-> Wanted[x][i]])
             = SumFunction([x \in Restocked(i) |-> Wanted[x][i]]) + Wanted[o][i]
    BY <2>3, RefundedBy
  <2>5. CASE i \in Resalable[o]
    <3>1. Restocked(i)' = Restocked(i) \cup {o}
      BY <1>3, <2>5 DEF Restocked
    <3>. QED  BY <1>2, <2>1, <2>2, <2>4, <2>5, <3>1
  <2>6. CASE i \notin Resalable[o]
    <3>1. Restocked(i)' = Restocked(i)
      BY <1>3, <2>6 DEF Restocked
    <3>2. stock'[i] = stock[i] + 0 /\ stock[i] \in Nat
      BY <1>2, <2>6 DEF IInv, TypeOK
    <3>. QED  BY <2>1, <2>2, <3>1, <3>2
  <2>. QED  BY <2>5, <2>6
<1>6. (saleStatus' = "refunded") <=> (\A i \in Items : returned'[i] >= Sold[i])
  <2>1. (saleStatus = "refunded") <=> (\A i \in Items : returned[i] >= Sold[i])
    BY DEF RefundsAddUp, RefundLedger
  <2>2. \A i \in Items : /\ returned[i] \in Nat /\ Wanted[o][i] \in Nat /\ Sold[i] \in Nat
                         /\ returned'[i] = returned[i] + Wanted[o][i]
    <3>1. returned \in [Items -> Nat]
      BY DEF IInv, TypeOK
    <3>2. Sold \in [Items -> Nat] /\ Wanted[o] \in [Items -> Nat]
      BY RefundAssumption
    <3>3. \A i \in Items : returned'[i] = returned[i] + Wanted[o][i]
      BY <1>2
    <3>. QED  BY <3>1, <3>2, <3>3
  <2>3. (\A i \in Items : returned[i] >= Sold[i]) => \A i \in Items : returned'[i] >= Sold[i]
    BY <2>2
  <2>. QED  BY <1>2, <2>1, <2>3
<1>. QED  BY <1>4, <1>5, <1>6 DEF RefundsAddUp, RefundLedger, Restocked

LEMMA RefundsKeptAddedUp ==
    ASSUME IInv, RefundsAddUp, [Next]_vars PROVE RefundsAddUp'
<1>1. Book \/ UNCHANGED <<record, returned, stock, saleStatus>>
  BY DEF Next, StartRefund, ProcessorGives, ProcessorRefuses, SendRefund,
         SimulatedRefund, RefundConfirmed, RefundNotConfirmed, LookUp, GoOn, GiveUp,
         ResumeRefund, ConfigUnavailable, AlreadyBooked, BookFails, FailBook,
         Complete, Crash, Restart, vars, storeVars
<1>2. CASE UNCHANGED <<record, returned, stock, saleStatus>>
  BY <1>2 DEF RefundsAddUp, RefundLedger, Recorded
<1>. QED  BY <1>1, <1>2, BookAddsUp

(* Every recorded operation counts once, and only recorded ones, in what   *)
(* is no longer refundable, in the goods put back and in the sale's status. *)
THEOREM RefundsBalance == Spec => []RefundLedger
<1>1. Init => RefundsAddUp
  <2> SUFFICES ASSUME Init PROVE RefundsAddUp
    OBVIOUS
  <2>1. Recorded = {}
    BY DEF Init, Recorded
  <2>2. ASSUME NEW i \in Items
        PROVE  /\ SumFunction([o \in Recorded |-> Wanted[o][i]]) = 0
               /\ SumFunction([o \in Restocked(i) |-> Wanted[o][i]]) = 0
    BY <2>1, SumEmpty DEF Restocked
  <2>3. ~(\A i \in Items : returned[i] >= Sold[i])
    BY RefundAssumption DEF Init
  <2>. QED  BY <2>1, <2>2, <2>3, FS_EmptySet
            DEF Init, RefundsAddUp, RefundLedger, Restocked
<1>2. RefundsAddUp => RefundLedger
  BY DEF RefundsAddUp
<1>. QED  BY <1>1, <1>2, RefundsKeptAddedUp, Invariance, PTL DEF Spec
=============================================================================
