--------------------------- MODULE RestoreProofs ---------------------------
(***************************************************************************)
(* A store, its outbox, the cloud and the machines it has been on: types,  *)
(* and that a restore gives back the store of the last upload, for any     *)
(* price, any number of events and machines.                               *)
(*                                                                         *)
(* The invariant says what the events are of the store: that a store is    *)
(* what its events make of it (From), on the machine, at each event that   *)
(* is still to be uploaded, and in the cloud as of the last upload.        *)
(***************************************************************************)
EXTENDS StoreRestore, SumTheorems

(* ------------------------------ The invariant ---------------------------- *)

(* The store is on a machine that trades or has just been restored.        *)
Alive == stage \in {"trading", "replayed"}

FiniteRows(s) ==
    \A rows \in {s.moves, s.ledger, s.sales, s.payments, s.refunds} : IsFiniteSet(rows)

(* An event carries the rows of its own kind only.                         *)
CarriesItsKind(e) ==
    /\ e.kind \notin {"inventory_movement", "sale", "refund"} => e.row.moves = {}
    /\ e.kind \notin {"sale", "account_payment", "refund"} => e.row.ledger = {}
    /\ e.kind # "sale" => e.row.sales = {}
    /\ e.kind # "account_payment" => e.row.payments = {}
    /\ e.kind # "refund" => e.row.refunds = {}

(* All events of the store there are, and those up to a sequence.          *)
SentOf(events) == {Sent(e) : e \in events}
Everything == cloud \cup SentOf(outbox)
UpTo(n) == cloud \cup SentOf({e \in outbox : e.seq <= n})
Unsent == {e \in outbox : Sent(e) \notin cloud}

InOrder(E) == \A a, b \in E : a.seq = b.seq => a = b
OfKind(E, kind) == {e \in E : e.kind = kind}
Newest(E, kind) == {e \in OfKind(E, kind) : \A x \in OfKind(E, kind) : x.seq <= e.seq}

(* The store s is what the events E make of the store base.                *)
SettingsFrom(E, s) ==
    InOrder(E) =>
        IF OfKind(E, "settings") = {} THEN s.settings <= 0
        ELSE \E e \in Newest(E, "settings") : s.settings = e.row.settings
ProductFrom(base, E, s) ==
    IF OfKind(E, "product") = {} THEN s.product = base.product
    ELSE \E e \in Newest(E, "product") : s.product = e.row.product
ChargeFrom(E, s) ==
    IF OfKind(E, "payment_transaction") = {} THEN s.charge = None
    ELSE \E e \in Newest(E, "payment_transaction") : s.charge = e.row.charge
KioskFrom(E, s) == s.kiosk = None <=> OfKind(E, "kiosk") = {}
RowsFrom(base, E, s) ==
    /\ s.moves = base.moves \cup UNION {e.row.moves : e \in E}
    /\ s.ledger = base.ledger \cup UNION {e.row.ledger : e \in E}
    /\ s.sales = base.sales \cup UNION {e.row.sales : e \in E}
    /\ s.payments = base.payments \cup UNION {e.row.payments : e \in E}
    /\ s.refunds = base.refunds \cup UNION {e.row.refunds : e \in E}
From(base, E, s) ==
    /\ SettingsFrom(E, s) /\ ProductFrom(base, E, s) /\ ChargeFrom(E, s)
    /\ KioskFrom(E, s) /\ RowsFrom(base, E, s)

(* An old store had rows before it had an outbox; they have no event until *)
(* the backfill.                                                           *)
Base == IF due = None THEN OldStore ELSE NewStore

(* Ids and sequences: a sequence is used twice only where settings were    *)
(* saved on a fresh machine, and what is still to be uploaded comes after  *)
(* everything in the cloud.                                                *)
Numbered ==
    /\ \A e \in Everything :
        /\ e.id[2] = e.seq /\ e.seq >= 1 /\ e.id[1] \in 1..machine
        /\ CarriesItsKind(e) /\ FiniteRows(e.row)
    /\ \A a, b \in outbox : a.seq = b.seq => a = b
    /\ \A a, b \in Everything :
        /\ a.id = b.id => a = b
        /\ a.seq = b.seq => a = b \/ a.kind = "settings" \/ b.kind = "settings"
    /\ \A e \in outbox : e.pushed => e \notin Unsent
    /\ \A e \in outbox : e.as = None /\ ~e.pushed => e.kind = "settings" /\ e.seq = 1
    /\ outbox # {} => 1 \in SequencesOf(outbox)
    /\ cloud # {} => 1 \in SequencesOf(cloud)
    /\ Alive => SequencesOf(cloud) \subseteq SequencesOf(outbox)
    /\ Alive /\ (\E e \in Unsent : e.as = None) => cloud # {}
    /\ \A e \in Unsent : e.as # None => \A c \in cloud : c.seq < e.seq

(* What a machine has at each stage.                                       *)
Staged ==
    /\ stage = "fresh" =>
        /\ store = [NewStore EXCEPT !.settings = store.settings] /\ store.settings <= 0
        /\ \A c \in cloud : c.id[1] < machine
        /\ \A e \in outbox : e.as = None /\ ~e.pushed
    /\ stage = "replayed" => \A e \in outbox : e.as = None
    /\ stage = "trading" /\ ~sync.ready => ~sync.enabled /\ cloud = {}
    /\ answer = "restored" => stage = "replayed"
    /\ answer = "refused" => stage = "fresh" /\ ~Whole

(* A store is what its events make of it: now, as of each event still to   *)
(* be uploaded, restored, and as of the last upload.                       *)
History ==
    /\ stage = "trading" /\ ~silent =>
        /\ From(Base, Everything, store)
        /\ \A e \in Unsent : e.as # None /\ (due = None \/ due <= e.seq) =>
             From(Base, UpTo(e.seq), e.as)
    /\ stage = "replayed" => From(NewStore, cloud, store)
    /\ Whole => From(NewStore, cloud, kept)

(* Every store that can be uploaded would pass the check of a restore.     *)
Sound ==
    /\ VerifyRestoreIntegrity(kept)
    /\ \A e \in outbox : e.as # None => VerifyRestoreIntegrity(e.as)
    /\ Alive => VerifyRestoreIntegrity(store)

(* The inductive invariant.                                                *)
RestoreInv ==
    /\ TypeOK
    /\ IsFiniteSet(outbox) /\ IsFiniteSet(cloud) /\ FiniteRows(store)
    /\ Numbered /\ Staged /\ History /\ Sound

(* ------------------------- Sets, orders and numbers ---------------------- *)

LEMMA ImageIsFinite ==
    ASSUME NEW S, IsFiniteSet(S), NEW f, DOMAIN f = S, f = [x \in S |-> f[x]]
    PROVE  IsFiniteSet({f[x] : x \in S})
<1> DEFINE T == {f[x] : x \in S}
<1>1. f \in Surjection(S, T)
  BY DEF Surjection
<1> QED
  BY <1>1, FS_Surjection

(* The largest of finitely many numbers.                                   *)
LEMMA LargestIs ==
    ASSUME NEW S, IsFiniteSet(S), S \subseteq Nat
    PROVE  /\ Largest(S) \in S \cup {0} /\ Largest(S) \in Nat
           /\ \A m \in S : m <= Largest(S)
<1> DEFINE Good == {U \in SUBSET S : \E n \in U \cup {0} : \A m \in U : m <= n}
<1>1. ASSUME NEW U \in SUBSET S, \A V \in SUBSET U : V # U => V \in Good
      PROVE  U \in Good
  <2>1. CASE U = {}
    BY <2>1
  <2>2. CASE U # {}
    <3>1. PICK x \in U : TRUE
      BY <2>2
    <3>2. U \ {x} \in Good
      BY <1>1, <3>1
    <3>3. PICK n \in (U \ {x}) \cup {0} : \A m \in U \ {x} : m <= n
      BY <3>2
    <3>4. x \in Nat /\ n \in Nat
      BY <3>1, <3>3
    <3>5. \A m \in U : m <= IF x <= n THEN n ELSE x
      BY <3>3, <3>4
    <3>6. (IF x <= n THEN n ELSE x) \in U \cup {0}
      BY <3>1, <3>3
    <3> QED
      BY <3>5, <3>6
  <2> QED
    BY <2>1, <2>2
<1> HIDE DEF Good
<1>2. S \in Good
  BY <1>1, SubsetInduction
<1>3. \E n \in S \cup {0} : \A m \in S : m <= n
  BY <1>2 DEF Good
<1>4. Largest(S) \in S \cup {0} /\ \A m \in S : m <= Largest(S)
  BY <1>3, Zenon DEF Largest
<1>5. S \cup {0} \subseteq Nat
  OBVIOUS
<1> QED
  BY <1>4, <1>5, Zenon

(* Sequences of events, and the numbers of rows.                           *)
LEMMA NextSequenceIs ==
    ASSUME NEW E, IsFiniteSet(E), \A e \in E : e.seq \in Nat
    PROVE  /\ Largest(SequencesOf(E)) \in Nat /\ NextSequence(E) \in Nat
           /\ NextSequence(E) = Largest(SequencesOf(E)) + 1
           /\ \A e \in E : e.seq <= Largest(SequencesOf(E)) /\ e.seq < NextSequence(E)
           /\ E # {} => Largest(SequencesOf(E)) \in SequencesOf(E) \cup {0}
           /\ E = {} => NextSequence(E) = 1
<1> DEFINE f == [e \in E |-> e.seq]
<1>1. SequencesOf(E) = {f[e] : e \in E}
  BY DEF SequencesOf
<1>6. SequencesOf(E) \subseteq Nat
  BY DEF SequencesOf
<1>7. DOMAIN f = E /\ f = [e \in E |-> f[e]]
  OBVIOUS
<1> HIDE DEF f
<1>2. IsFiniteSet(SequencesOf(E)) /\ SequencesOf(E) \subseteq Nat
  BY <1>1, <1>6, <1>7, ImageIsFinite
<1>3. /\ Largest(SequencesOf(E)) \in SequencesOf(E) \cup {0} /\ Largest(SequencesOf(E)) \in Nat
      /\ \A m \in SequencesOf(E) : m <= Largest(SequencesOf(E))
  BY <1>2, LargestIs
<1>4. \A e \in E : e.seq \in SequencesOf(E)
  BY DEF SequencesOf
<1>5. E = {} => SequencesOf(E) = {}
  BY DEF SequencesOf
<1> QED
  BY <1>3, <1>4, <1>5 DEF NextSequence

LEMMA NextSeqIs ==
    ASSUME NEW R, IsFiniteSet(R), \A r \in R : r.seq \in Nat
    PROVE  NextSeq(R) \in Nat /\ NextSeq(R) >= 1 /\ \A r \in R : r.seq < NextSeq(R)
<1>1. NextSeq(R) = NextSequence(R)
  BY DEF NextSeq, NextSequence, SequencesOf
<1> QED
  BY <1>1, NextSequenceIs

LEMMA NextNumberIs ==
    ASSUME NEW R, IsFiniteSet(R), \A r \in R : r.no \in Nat
    PROVE  /\ NextReceiptNumber(R) \in Nat /\ NextReceiptNumber(R) >= 1
           /\ \A r \in R : r.no < NextReceiptNumber(R)
<1> DEFINE f == [r \in R |-> r.no]
           N == {r.no : r \in R}
<1>1. N = {f[r] : r \in R}
  OBVIOUS
<1>6. N \subseteq Nat
  OBVIOUS
<1>7. DOMAIN f = R /\ f = [r \in R |-> f[r]]
  OBVIOUS
<1>8. \A r \in R : r.no \in N
  OBVIOUS
<1>9. NextReceiptNumber(R) = Largest(N) + 1
  BY DEF NextReceiptNumber
<1> HIDE DEF f, N
<1>2. IsFiniteSet(N) /\ N \subseteq Nat
  BY <1>1, <1>6, <1>7, ImageIsFinite
<1>3. Largest(N) \in Nat /\ \A m \in N : m <= Largest(N)
  BY <1>2, LargestIs
<1> QED
  BY <1>3, <1>8, <1>9

LEMMA TotalIsInt ==
    ASSUME NEW L, IsFiniteSet(L), \A e \in L : e.amount \in Int
    PROVE  Total(L) \in Int
<1>1. [e \in L |-> e.amount] \in [L -> Int]
  OBVIOUS
<1> QED
  BY <1>1, SumInt DEF Total

(* ----------------------------- The replay -------------------------------- *)

(* No two events of E stand in the same place of the replay.               *)
Placed(E) ==
    /\ \A e \in E : e.seq \in Nat /\ e.id[1] \in Nat
    /\ \A a, b \in E : a.seq = b.seq /\ a.id[1] = b.id[1] => a = b

LastOf(past) == CHOOSE e \in past : \A x \in past \ {e} : Before(x, e)

LEMMA BeforeIsOrder ==
    ASSUME NEW E, Placed(E)
    PROVE  /\ \A a, b \in E : a # b => Before(a, b) \/ Before(b, a)
           /\ \A a, b, c \in E : Before(a, b) /\ Before(b, c) => Before(a, c)
<1>1. \A a, b \in E : Before(a, b) <=>
        \/ a.kind # "refund" /\ b.kind = "refund"
        \/ /\ a.kind = "refund" <=> b.kind = "refund"
           /\ a.seq < b.seq \/ (a.seq = b.seq /\ a.id[1] < b.id[1])
  BY DEF Before, Earlier
<1>2. \A e \in E : e.seq \in Nat /\ e.id[1] \in Nat
  BY DEF Placed
<1>3. \A a, b \in E : a.seq = b.seq /\ a.id[1] = b.id[1] => a = b
  BY DEF Placed
<1>4. \A a, b \in E : a # b => Before(a, b) \/ Before(b, a)
  BY <1>1, <1>2, <1>3
<1>5. \A a, b, c \in E : Before(a, b) /\ Before(b, c) => Before(a, c)
  BY <1>1, <1>2
<1> QED
  BY <1>4, <1>5

LEMMA LastIs ==
    ASSUME NEW E, IsFiniteSet(E), Placed(E)
    PROVE  \A P \in SUBSET E : P # {} =>
             LastOf(P) \in P /\ \A x \in P \ {LastOf(P)} : Before(x, LastOf(P))
<1> DEFINE Good == {P \in SUBSET E : P = {} \/ \E e \in P : \A x \in P \ {e} : Before(x, e)}
<1>0. /\ \A a, b \in E : a # b => Before(a, b) \/ Before(b, a)
      /\ \A a, b, c \in E : Before(a, b) /\ Before(b, c) => Before(a, c)
  BY BeforeIsOrder
<1>1. ASSUME NEW U \in SUBSET E, \A V \in SUBSET U : V # U => V \in Good
      PROVE  U \in Good
  <2>1. CASE U = {}
    BY <2>1
  <2>2. CASE U # {}
    <3>1. PICK y \in U : TRUE
      BY <2>2
    <3>2. U \ {y} \in Good
      BY <1>1, <3>1
    <3>3. CASE U \ {y} = {}
      BY <3>1, <3>3
    <3>4. CASE U \ {y} # {}
      <4>1. PICK e \in U \ {y} : \A x \in (U \ {y}) \ {e} : Before(x, e)
        BY <3>2, <3>4
      <4>2. CASE Before(y, e)
        <5>1. \A x \in U \ {e} : Before(x, e)
          BY <4>1, <4>2
        <5> QED
          BY <4>1, <5>1
      <4>3. CASE Before(e, y)
        <5>1. \A x \in U \ {y} : Before(x, y)
          BY <1>0, <3>1, <4>1, <4>3
        <5> QED
          BY <3>1, <5>1
      <4> QED
        BY <1>0, <3>1, <4>1, <4>2, <4>3
    <3> QED
      BY <3>3, <3>4
  <2> QED
    BY <2>1, <2>2
<1> HIDE DEF Good
<1>2. \A P \in SUBSET E : P \in Good
  BY <1>1, SubsetInduction
<1>3. ASSUME NEW P \in SUBSET E, P # {}
      PROVE  \E e \in P : \A x \in P \ {e} : Before(x, e)
  BY <1>2, <1>3 DEF Good
<1> QED
  BY <1>3 DEF LastOf

(* replay gives every part of E the store after the events of that part.   *)
IsReplay(replay, E) ==
    replay = [past \in SUBSET E |->
                IF past = {} THEN store
                ELSE LET last == CHOOSE e \in past : \A x \in past \ {e} : Before(x, e)
                     IN  ApplyOne(replay[past \ {last}], last)]

(* Every part of E has a last event.                                       *)
Ends(E) == \A P \in SUBSET E : P # {} => LastOf(P) \in P

(* The replay is a recursion over sets of events; it has a solution, and   *)
(* only one, because among finitely many events there is a last one.       *)
LEMMA ReplayUnfolded ==
    ASSUME NEW E, NEW r, IsReplay(r, E)
    PROVE  /\ r[{}] = store
           /\ \A P \in SUBSET E : P # {} => r[P] = ApplyOne(r[P \ {LastOf(P)}], LastOf(P))
<1>1. \A P \in SUBSET E : r[P] =
        IF P = {} THEN store
        ELSE LET last == CHOOSE e \in P : \A x \in P \ {e} : Before(x, e)
             IN  ApplyOne(r[P \ {last}], last)
  BY DEF IsReplay
<1> QED
  BY <1>1 DEF LastOf

LEMMA ReplayUnique ==
    ASSUME NEW E, IsFiniteSet(E), Ends(E), NEW F \in SUBSET E,
           NEW r, IsReplay(r, E), NEW q, IsReplay(q, F)
    PROVE  \A P \in SUBSET F : r[P] = q[P]
<1> DEFINE Good == {P \in SUBSET F : r[P] = q[P]}
<1>1. /\ r[{}] = store /\ q[{}] = store
      /\ \A P \in SUBSET E : P # {} => r[P] = ApplyOne(r[P \ {LastOf(P)}], LastOf(P))
      /\ \A P \in SUBSET F : P # {} => q[P] = ApplyOne(q[P \ {LastOf(P)}], LastOf(P))
  BY ReplayUnfolded
<1>2. ASSUME NEW U \in SUBSET F, \A V \in SUBSET U : V # U => V \in Good
      PROVE  U \in Good
  <2>1. CASE U = {}
    BY <1>1, <2>1
  <2>2. CASE U # {}
    <3>1. LastOf(U) \in U
      BY <2>2 DEF Ends
    <3>2. U \ {LastOf(U)} \in Good
      BY <1>2, <3>1
    <3>3. r[U \ {LastOf(U)}] = q[U \ {LastOf(U)}]
      BY <3>2
    <3>4. r[U] = ApplyOne(r[U \ {LastOf(U)}], LastOf(U)) /\ U \in SUBSET E
      BY <1>1, <2>2
    <3>5. q[U] = ApplyOne(q[U \ {LastOf(U)}], LastOf(U))
      BY <1>1, <2>2
    <3> QED
      BY <3>3, <3>4, <3>5
  <2> QED
    BY <2>1, <2>2
<1> HIDE DEF Good
<1>3. IsFiniteSet(F)
  BY FS_Subset
<1>4. \A P \in SUBSET F : P \in Good
  BY <1>2, <1>3, SubsetInduction
<1> QED
  BY <1>4 DEF Good

LEMMA ReplayExists ==
    ASSUME NEW E, IsFiniteSet(E), Ends(E)
    PROVE  \E r : IsReplay(r, E)
<1> DEFINE Good == {U \in SUBSET E : \E r : IsReplay(r, U)}
           T(U) == CHOOSE r : IsReplay(r, U)
<1>1. ASSUME NEW U \in SUBSET E, \A V \in SUBSET U : V # U => V \in Good
      PROVE  U \in Good
  <2>1. \A V \in SUBSET U : V # U => IsReplay(T(V), V)
    BY <1>1
  <2>0. \A V \in SUBSET U : V # {} => LastOf(V) \in V
    BY DEF Ends
  <2> DEFINE W(V) == V \ {LastOf(V)}
             r == [V \in SUBSET U |->
                     IF V = {} THEN store ELSE ApplyOne(T(W(V))[W(V)], LastOf(V))]
  <2> HIDE DEF T
  <2>2. ASSUME NEW V \in SUBSET U, V # U PROVE r[V] = T(V)[V]
    <3>1. CASE V = {}
      BY <2>1, <2>2, <3>1, ReplayUnfolded
    <3>2. CASE V # {}
      <4>1. /\ LastOf(V) \in V /\ W(V) \in SUBSET V /\ V \in SUBSET V
            /\ T(V)[V] = ApplyOne(T(V)[W(V)], LastOf(V))
        BY <2>0, <2>1, <2>2, <3>2, ReplayUnfolded
      <4>2. IsReplay(T(W(V)), W(V)) /\ IsReplay(T(V), V)
        BY <2>1, <2>2, <4>1
      <4>3. IsFiniteSet(V) /\ Ends(V)
        BY FS_Subset DEF Ends
      <4>4. T(V)[W(V)] = T(W(V))[W(V)]
        <5> DEFINE w == W(V)
                   a == T(V)
                   b == T(w)
        <5>1. w \in SUBSET V /\ IsReplay(a, V) /\ IsReplay(b, w) /\ w \in SUBSET w
          BY <4>1, <4>2
        <5> HIDE DEF w, a, b
        <5>2. \A X \in SUBSET w : a[X] = b[X]
          BY <4>3, <5>1, ReplayUnique
        <5> QED
          BY <5>1, <5>2 DEF w, a, b
      <4> QED
        BY <3>2, <4>1, <4>4
    <3> QED
      BY <3>1, <3>2
  <2>4. ASSUME NEW V \in SUBSET U, V # {}
        PROVE  r[V] = ApplyOne(r[W(V)], LastOf(V))
    <3>1. LastOf(V) \in V /\ W(V) \in SUBSET U /\ W(V) # U
      BY <2>0, <2>4
    <3>2. r[W(V)] = T(W(V))[W(V)]
      BY <2>2, <3>1
    <3> QED
      BY <2>4, <3>2
  <2>5. r[{}] = store /\ DOMAIN r = SUBSET U
    OBVIOUS
  <2>6. r = [V \in DOMAIN r |-> r[V]]
    OBVIOUS
  <2> HIDE DEF r
  <2>7. IsReplay(r, U)
    BY <2>4, <2>5, <2>6 DEF IsReplay, LastOf
  <2> QED
    BY <2>7
<1> HIDE DEF Good
<1>2. E \in Good
  BY <1>1, SubsetInduction
<1> QED
  BY <1>2 DEF Good

LEMMA ReplayedIs ==
    ASSUME NEW E, IsFiniteSet(E), Ends(E)
    PROVE  \E r : IsReplay(r, E) /\ Replayed(E) = r[E]
<1>1. PICK r : IsReplay(r, E)
  BY ReplayExists
<1> QED
  BY <1>1 DEF Replayed, IsReplay

(* Of the events of a set the last one is replayed last.                   *)
LEMMA ReplayedStep ==
    ASSUME NEW E, IsFiniteSet(E), Placed(E)
    PROVE  /\ Replayed({}) = store
           /\ \A P \in SUBSET E : P # {} =>
                Replayed(P) = ApplyOne(Replayed(P \ {LastOf(P)}), LastOf(P))
<1>0. /\ \A P \in SUBSET E : IsFiniteSet(P)
      /\ \A P \in SUBSET E : P # {} => LastOf(P) \in P
  BY LastIs, FS_Subset
<1>1. Replayed({}) = store
  <2>1. Ends({}) /\ IsFiniteSet({})
    BY FS_EmptySet DEF Ends
  <2> QED
    BY <2>1, ReplayedIs, ReplayUnfolded
<1>2. ASSUME NEW P \in SUBSET E, P # {}
      PROVE  Replayed(P) = ApplyOne(Replayed(P \ {LastOf(P)}), LastOf(P))
  <2> DEFINE Q == P \ {LastOf(P)}
  <2>1. IsFiniteSet(P) /\ IsFiniteSet(Q) /\ Ends(P) /\ Ends(Q)
    BY <1>0 DEF Ends
  <2>2. Q \in SUBSET P /\ P \in SUBSET P /\ Q \in SUBSET Q
    OBVIOUS
  <2>3. PICK r : IsReplay(r, P) /\ Replayed(P) = r[P]
    BY <2>1, ReplayedIs
  <2> HIDE DEF Q
  <2>4. PICK q : IsReplay(q, Q) /\ Replayed(Q) = q[Q]
    BY <2>1, ReplayedIs
  <2>5. \A X \in SUBSET Q : r[X] = q[X]
    BY <2>1, <2>2, <2>3, <2>4, ReplayUnique
  <2>6. r[P] = ApplyOne(r[P \ {LastOf(P)}], LastOf(P))
    BY <1>2, <2>2, <2>3, ReplayUnfolded
  <2>7. r[Q] = q[Q]
    BY <2>2, <2>5
  <2> QED
    BY <2>3, <2>4, <2>6, <2>7 DEF Q
<1> QED
  BY <1>1, <1>2

(* ---------------- A store and the events that make it -------------------- *)

(* From s to t an event e is all that happened.                            *)
Grown(s, t, e) ==
    /\ t.settings = IF e.kind = "settings" THEN e.row.settings ELSE s.settings
    /\ t.product = IF e.kind = "product" THEN e.row.product ELSE s.product
    /\ t.charge = IF e.kind = "payment_transaction" THEN e.row.charge ELSE s.charge
    /\ t.kiosk = None <=> s.kiosk = None /\ e.kind # "kiosk"
    /\ t.moves = s.moves \cup e.row.moves
    /\ t.ledger = s.ledger \cup e.row.ledger
    /\ t.sales = s.sales \cup e.row.sales
    /\ t.payments = s.payments \cup e.row.payments
    /\ t.refunds = s.refunds \cup e.row.refunds

(* An event that comes after all others carries what changed.              *)
LEMMA FromGrown ==
    ASSUME NEW base, NEW E, NEW s, NEW t, NEW e, From(base, E, s), Grown(s, t, e),
           e.seq \in Nat, \A x \in E : x.kind = e.kind => x.seq <= e.seq
    PROVE  From(base, E \cup {e}, t)
<1> DEFINE F == E \cup {e}
<1>1. ASSUME NEW kind, e.kind # kind
      PROVE  OfKind(F, kind) = OfKind(E, kind) /\ Newest(F, kind) = Newest(E, kind)
  BY <1>1 DEF OfKind, Newest
<1>2. e \in OfKind(F, e.kind) /\ e \in Newest(F, e.kind)
  BY DEF OfKind, Newest
<1>3. SettingsFrom(F, t)
  <2>1. InOrder(F) => InOrder(E)
    BY DEF InOrder
  <2> HIDE DEF F
  <2> QED
    BY <1>1, <1>2, <2>1 DEF SettingsFrom, From, Grown
<1>4. RowsFrom(base, F, t)
  <2>1. UNION {x.row.moves : x \in F} = e.row.moves \cup UNION {x.row.moves : x \in E}
    OBVIOUS
  <2>2. UNION {x.row.ledger : x \in F} = e.row.ledger \cup UNION {x.row.ledger : x \in E}
    OBVIOUS
  <2>3. UNION {x.row.sales : x \in F} = e.row.sales \cup UNION {x.row.sales : x \in E}
    OBVIOUS
  <2>4. UNION {x.row.payments : x \in F} = e.row.payments \cup UNION {x.row.payments : x \in E}
    OBVIOUS
  <2>5. UNION {x.row.refunds : x \in F} = e.row.refunds \cup UNION {x.row.refunds : x \in E}
    OBVIOUS
  <2> HIDE DEF F
  <2> QED
    BY <2>1, <2>2, <2>3, <2>4, <2>5 DEF RowsFrom, From, Grown
<1> HIDE DEF F
<1>5. ProductFrom(base, F, t)
  BY <1>1, <1>2 DEF ProductFrom, From, Grown
<1>6. ChargeFrom(F, t)
  BY <1>1, <1>2 DEF ChargeFrom, From, Grown
<1>7. KioskFrom(F, t)
  BY <1>1, <1>2 DEF KioskFrom, From, Grown
<1> QED
  BY <1>3, <1>4, <1>5, <1>6, <1>7 DEF From, F

(* Applying an event to a store.                                           *)
LEMMA ApplyOneIs ==
    ASSUME RestoreAssumption, NEW s \in Stores, NEW e, e.kind \in Kinds,
           e.row \in Stores,
           CarriesItsKind(e)
    PROVE  ApplyOne(s, e) \in Stores /\ Grown(s, ApplyOne(s, e), e)
<1> DEFINE t == ApplyOne(s, e)
<1>0. "revoked" # None /\ "revoked" \in KioskStates
  BY DEF RestoreAssumption, KioskStates
<1> USE DEF ApplyOne, Grown, CarriesItsKind, Stores
<1>1. CASE e.kind = "settings"
  BY <1>1 DEF ApplySettings
<1>2. CASE e.kind = "product"
  BY <1>2 DEF ApplyProduct
<1>3. CASE e.kind = "inventory_movement"
  BY <1>3 DEF ApplyInventoryMovements
<1>4. CASE e.kind = "sale"
  BY <1>4 DEF ApplySale, ApplyLedgerEntry, ApplyInventoryMovements
<1>5. CASE e.kind = "account_payment"
  BY <1>5 DEF ApplyAccountPayment, ApplyLedgerEntry
<1>6. CASE e.kind = "refund"
  BY <1>6 DEF ApplyRefund, ApplyLedgerEntry, ApplyInventoryMovements
<1>7. CASE e.kind = "payment_transaction"
  BY <1>7 DEF ApplyPaymentTransaction
<1>8. CASE e.kind = "kiosk"
  BY <1>0, <1>8 DEF ApplyKiosk
<1> QED
  BY <1>1, <1>2, <1>3, <1>4, <1>5, <1>6, <1>7, <1>8 DEF Kinds

(* The rows of a fresh installation.                                       *)
Fresh(s) == s = [NewStore EXCEPT !.settings = s.settings] /\ s.settings \in Int /\ s.settings <= 0

LEMMA FreshIsFrom ==
    ASSUME RestoreAssumption, NEW s, Fresh(s)
    PROVE  s \in Stores /\ From(NewStore, {}, s)
<1>1. /\ s.product = None /\ s.charge = None /\ s.kiosk = None
      /\ s.moves = {} /\ s.ledger = {} /\ s.sales = {} /\ s.payments = {} /\ s.refunds = {}
      /\ s.settings \in Int /\ s.settings <= 0
  BY DEF Fresh, NewStore
<1>2. s \in Stores
  BY DEF Fresh, NewStore, Stores
<1>3. \A kind : OfKind({}, kind) = {}
  BY DEF OfKind
<1>4. /\ NewStore.product = None /\ NewStore.moves = {} /\ NewStore.ledger = {}
      /\ NewStore.sales = {} /\ NewStore.payments = {} /\ NewStore.refunds = {}
  BY DEF NewStore
<1>5. RowsFrom(NewStore, {}, s)
  BY <1>1, <1>4 DEF RowsFrom
<1> QED
  BY <1>1, <1>2, <1>3, <1>4, <1>5
     DEF From, SettingsFrom, ProductFrom, ChargeFrom, KioskFrom

(* What a fresh installation replays is what the events make.              *)
LEMMA ReplayedFrom ==
    ASSUME RestoreAssumption, Fresh(store), NEW E, IsFiniteSet(E), Placed(E),
           \A e \in E : e.kind \in Kinds /\ e.row \in Stores /\ CarriesItsKind(e)
    PROVE  Replayed(E) \in Stores /\ From(NewStore, E, Replayed(E))
<1> DEFINE Good == {P \in SUBSET E : Replayed(P) \in Stores /\ From(NewStore, P, Replayed(P))}
<1>0. /\ Replayed({}) = store
      /\ \A P \in SUBSET E : P # {} =>
           Replayed(P) = ApplyOne(Replayed(P \ {LastOf(P)}), LastOf(P))
  BY ReplayedStep
<1>1. ASSUME NEW U \in SUBSET E, \A V \in SUBSET U : V # U => V \in Good
      PROVE  U \in Good
  <2>1. CASE U = {}
    BY <1>0, <2>1, FreshIsFrom
  <2>2. CASE U # {}
    <3> DEFINE l == LastOf(U)
               Q == U \ {l}
               s == Replayed(Q)
               t == Replayed(U)
    <3>1. l \in U /\ \A x \in Q : Before(x, l)
      BY <2>2, LastIs
    <3>2. Q \in Good
      BY <1>1, <3>1
    <3>3. s \in Stores /\ From(NewStore, Q, s) /\ t = ApplyOne(s, l)
      BY <1>0, <2>2, <3>2
    <3>4. U = Q \cup {l} /\ l \in E
      BY <3>1
    <3>5. l.seq \in Nat /\ \A x \in Q : x.seq \in Nat /\ x.id[1] \in Nat
      BY <3>1 DEF Placed
    <3> HIDE DEF l, Q, s, t
    <3>6. \A x \in Q : x.kind = l.kind => x.seq <= l.seq
      BY <3>1, <3>5 DEF Before, Earlier
    <3>7. t \in Stores /\ Grown(s, t, l)
      BY <3>3, <3>4, ApplyOneIs
    <3>8. From(NewStore, Q \cup {l}, t)
      BY <3>3, <3>5, <3>6, <3>7, FromGrown
    <3> QED
      BY <3>4, <3>7, <3>8 DEF t
  <2> QED
    BY <2>1, <2>2
<1> HIDE DEF Good
<1>2. E \in Good
  BY <1>1, SubsetInduction
<1> QED
  BY <1>2 DEF Good

(* Two stores that the same events make.                                   *)
Alike(s, t) ==
    /\ s.product = t.product /\ s.charge = t.charge /\ (s.kiosk = None <=> t.kiosk = None)
    /\ s.moves = t.moves /\ s.ledger = t.ledger /\ s.sales = t.sales
    /\ s.payments = t.payments /\ s.refunds = t.refunds

LEMMA SameStore ==
    ASSUME NEW E, NEW s, NEW t, From(NewStore, E, s), From(NewStore, E, t),
           s.settings \in Int, t.settings \in Int, \A e \in E : e.seq \in Nat,
           \A a, b \in E : a.seq = b.seq => a = b \/ a.kind = "settings" \/ b.kind = "settings"
    PROVE  /\ Alike(s, t)
           /\ InOrder(E) /\ s.settings > 0 => s.settings = t.settings
<1>1. ASSUME NEW kind, kind # "settings", NEW a \in Newest(E, kind),
             NEW b \in Newest(E, kind)
      PROVE  a = b
  BY <1>1 DEF Newest, OfKind
<1>2. s.product = t.product
  BY <1>1 DEF From, ProductFrom
<1>3. s.charge = t.charge
  BY <1>1 DEF From, ChargeFrom
<1>4. s.kiosk = None <=> t.kiosk = None
  BY DEF From, KioskFrom
<1>5. /\ s.moves = t.moves /\ s.ledger = t.ledger /\ s.sales = t.sales
      /\ s.payments = t.payments /\ s.refunds = t.refunds
  BY DEF From, RowsFrom
<1>6. ASSUME InOrder(E), s.settings > 0 PROVE s.settings = t.settings
  <2>1. OfKind(E, "settings") # {}
    BY <1>6 DEF From, SettingsFrom
  <2>2. PICK a \in Newest(E, "settings") : s.settings = a.row.settings
    BY <1>6, <2>1 DEF From, SettingsFrom
  <2>3. PICK b \in Newest(E, "settings") : t.settings = b.row.settings
    BY <1>6, <2>1 DEF From, SettingsFrom
  <2>4. a = b
    BY <1>6 DEF Newest, OfKind, InOrder
  <2> QED
    BY <2>2, <2>3, <2>4
<1> QED
  BY <1>2, <1>3, <1>4, <1>5, <1>6 DEF Alike

LEMMA SameIntegrity ==
    ASSUME NEW s, NEW t, Alike(s, t), VerifyRestoreIntegrity(s)
    PROVE  VerifyRestoreIntegrity(t)
<1>1. NumbersUnique(t)
  BY DEF Alike, VerifyRestoreIntegrity, NumbersUnique
<1>2. NothingDangles(t)
  BY DEF Alike, VerifyRestoreIntegrity, NothingDangles
<1>3. LedgerReconciles(t)
  BY DEF Alike, VerifyRestoreIntegrity, LedgerReconciles
<1> QED
  BY <1>1, <1>2, <1>3 DEF VerifyRestoreIntegrity

(* The store the cloud gives back is the one that was kept.                *)
LEMMA KeptIsRestored ==
    ASSUME RestoreInv, Whole, NEW s \in Stores, From(NewStore, cloud, s)
    PROVE  Alike(kept, s) /\ (Ordered /\ kept.settings > 0 => kept.settings = s.settings)
<1>1. From(NewStore, cloud, kept) /\ kept \in Stores
  BY DEF RestoreInv, History, TypeOK
<1>2. \A e \in cloud : e.seq \in Nat
  BY DEF RestoreInv, TypeOK
<1>3. \A a, b \in cloud : a.seq = b.seq => a = b \/ a.kind = "settings" \/ b.kind = "settings"
  BY DEF RestoreInv, Numbered, Everything
<1>4. kept.settings \in Int /\ s.settings \in Int
  BY <1>1 DEF Stores
<1>5. InOrder(cloud) <=> Ordered
  BY DEF InOrder, Ordered
<1> QED
  BY <1>1, <1>2, <1>3, <1>4, <1>5, SameStore

(* ------------------------- Events are written ---------------------------- *)

OutboxEvents ==
    [id : (Nat \X Nat), seq : Nat, kind : Kinds, row : Stores, pushed : BOOLEAN,
     as : Stores \cup {None}]
CloudEvents == [id : (Nat \X Nat), seq : Nat, kind : Kinds, row : Stores]

(* Events that follow what the outbox has.                                 *)
Follow(A) ==
    /\ IsFiniteSet(A)
    /\ \A e \in A :
        /\ e \in OutboxEvents /\ e.id = <<machine, e.seq>> /\ e.seq >= 1 /\ ~e.pushed
        /\ e.as \in Stores /\ VerifyRestoreIntegrity(e.as)
        /\ CarriesItsKind(e) /\ FiniteRows(e.row)
        /\ \A x \in outbox : x.seq < e.seq
    /\ \A a, b \in A : a.seq = b.seq => a = b
    /\ outbox = {} /\ A # {} => 1 \in SequencesOf(A)

LEMMA NoKiosk == RestoreAssumption => "paired" # None
  BY DEF RestoreAssumption, KioskStates

LEMMA NoStore == RestoreAssumption => None \notin Stores
  BY DEF RestoreAssumption

LEMMA SentIs ==
    ASSUME NEW e \in OutboxEvents
    PROVE  /\ Sent(e) \in CloudEvents
           /\ Sent(e).id = e.id /\ Sent(e).seq = e.seq /\ Sent(e).kind = e.kind
           /\ Sent(e).row = e.row
  BY DEF Sent, OutboxEvents, CloudEvents

LEMMA TypedEvents ==
    ASSUME TypeOK
    PROVE  /\ outbox \subseteq OutboxEvents /\ cloud \subseteq CloudEvents
           /\ Everything \subseteq CloudEvents /\ machine \in Nat \ {0}
           /\ \A e \in CloudEvents : e.seq \in Nat /\ e.id[1] \in Nat /\ e.id[2] \in Nat
           /\ \A e \in OutboxEvents : e.seq \in Nat
<1>1. outbox \subseteq OutboxEvents /\ cloud \subseteq CloudEvents /\ machine \in Nat \ {0}
  BY DEF TypeOK, OutboxEvents, CloudEvents
<1>2. Everything \subseteq CloudEvents
  BY <1>1, SentIs DEF Everything, SentOf
<1>3. \A e \in CloudEvents : e.seq \in Nat /\ e.id[1] \in Nat /\ e.id[2] \in Nat
  BY DEF CloudEvents
<1>4. \A e \in OutboxEvents : e.seq \in Nat
  BY DEF OutboxEvents
<1> QED
  BY <1>1, <1>2, <1>3, <1>4

(* What follows the outbox of a store that trades follows the cloud too.   *)
LEMMA FollowEverything ==
    ASSUME RestoreInv, Alive, NEW A, Follow(A)
    PROVE  \A e \in A : \A x \in Everything : x.seq < e.seq
<1>1. \A x \in cloud : \E y \in outbox : y.seq = x.seq
  BY DEF RestoreInv, Numbered, SequencesOf
<1>2. \A x \in SentOf(outbox) : \E y \in outbox : y.seq = x.seq
  BY SentIs, TypedEvents DEF RestoreInv, SentOf
<1> QED
  BY <1>1, <1>2 DEF Follow, Everything

(* A step that adds events with the next sequences keeps the numbers.      *)
LEMMA NumberedGoesOn ==
    ASSUME RestoreAssumption, RestoreInv, Alive, NEW A, Follow(A),
           outbox' = outbox \cup A,
           UNCHANGED <<cloud, stage, machine>>
    PROVE  Numbered'
<1>0. /\ outbox \subseteq OutboxEvents /\ cloud \subseteq CloudEvents /\ A \subseteq OutboxEvents
      /\ Everything \subseteq CloudEvents /\ machine \in Nat \ {0}
  BY TypedEvents DEF RestoreInv, Follow
<1>1. Everything' = Everything \cup SentOf(A)
  BY DEF Everything, SentOf
<1>2. \A e \in A : \A x \in Everything : x.seq < e.seq
  BY FollowEverything
<1>3. \A y \in SentOf(A) : \E e \in A : y = Sent(e)
  BY DEF SentOf
<1>4. \A e \in A : /\ Sent(e).id = <<machine, e.seq>> /\ Sent(e).seq = e.seq
                   /\ Sent(e).kind = e.kind /\ Sent(e).row = e.row
                   /\ e.seq >= 1 /\ e.seq \in Nat
  BY <1>0, SentIs DEF Follow, OutboxEvents
<1>5. \A e \in Everything' :
        /\ e.id[2] = e.seq /\ e.seq >= 1 /\ e.id[1] \in 1..machine'
        /\ CarriesItsKind(e) /\ FiniteRows(e.row)
  <2>1. \A e \in A : CarriesItsKind(Sent(e)) /\ FiniteRows(Sent(e).row)
    BY <1>4 DEF Follow, CarriesItsKind
  <2>2. \A e \in A : Sent(e).id[2] = Sent(e).seq /\ Sent(e).id[1] = machine
    BY <1>4
  <2>3. ASSUME NEW e \in Everything
        PROVE  /\ e.id[2] = e.seq /\ e.seq >= 1 /\ e.id[1] \in 1..machine
               /\ CarriesItsKind(e) /\ FiniteRows(e.row)
    BY DEF RestoreInv, Numbered
  <2>4. ASSUME NEW e \in SentOf(A)
        PROVE  /\ e.id[2] = e.seq /\ e.seq >= 1 /\ e.id[1] \in 1..machine
               /\ CarriesItsKind(e) /\ FiniteRows(e.row)
    BY <1>0, <1>3, <1>4, <2>1, <2>2
  <2> QED
    BY <1>1, <2>3, <2>4
<1>6. \A a, b \in outbox' : a.seq = b.seq => a = b
  <2>1. \A a \in outbox, b \in A : a.seq < b.seq /\ a.seq \in Nat /\ b.seq \in Nat
    BY <1>0 DEF Follow, OutboxEvents
  <2>2. \A a, b \in outbox : a.seq = b.seq => a = b
    BY DEF RestoreInv, Numbered
  <2>3. \A a, b \in A : a.seq = b.seq => a = b
    BY DEF Follow
  <2> QED
    BY <2>1, <2>2, <2>3
<1>7. \A a, b \in Everything' :
        /\ a.id = b.id => a = b
        /\ a.seq = b.seq => a = b \/ a.kind = "settings" \/ b.kind = "settings"
  <2>1. \A a \in Everything : a.seq \in Nat /\ a.id[2] = a.seq
    BY <1>0, TypedEvents DEF RestoreInv, Numbered
  <2>2. \A a \in Everything, b \in SentOf(A) : a.seq # b.seq /\ a.id # b.id
    <3>1. ASSUME NEW a \in Everything, NEW e \in A
          PROVE  a.seq # Sent(e).seq /\ a.id # Sent(e).id
      <4>1. a.seq < e.seq /\ a.seq \in Nat /\ e.seq \in Nat
        BY <1>2, <1>4, <2>1
      <4>2. Sent(e).id[2] = e.seq /\ Sent(e).seq = e.seq
        BY <1>4
      <4> QED
        BY <2>1, <4>1, <4>2
    <3> QED
      BY <1>3, <3>1
  <2>3. ASSUME NEW a \in SentOf(A), NEW b \in SentOf(A)
        PROVE  (a.id = b.id => a = b) /\ (a.seq = b.seq => a = b)
    <3>1. PICK d \in A : a = Sent(d)
      BY <1>3
    <3>2. PICK e \in A : b = Sent(e)
      BY <1>3
    <3>3. a.id = b.id => a.seq = b.seq
      BY <1>4, <3>1, <3>2
    <3> QED
      BY <1>4, <3>1, <3>2, <3>3 DEF Follow
  <2>4. ASSUME NEW a \in Everything, NEW b \in Everything
        PROVE  /\ a.id = b.id => a = b
               /\ a.seq = b.seq => a = b \/ a.kind = "settings" \/ b.kind = "settings"
    BY DEF RestoreInv, Numbered
  <2> HIDE DEF Everything
  <2> QED
    BY <1>1, <2>2, <2>3, <2>4
<1>8. \A e \in outbox' : e.pushed => e \notin Unsent'
  BY DEF Follow, RestoreInv, Numbered, Unsent
<1>9. \A e \in outbox' : e.as = None /\ ~e.pushed => e.kind = "settings" /\ e.seq = 1
  BY NoStore DEF Follow, RestoreInv, Numbered
<1>10. outbox' # {} => 1 \in SequencesOf(outbox)'
  BY DEF Follow, RestoreInv, Numbered, SequencesOf
<1>11. /\ cloud' # {} => 1 \in SequencesOf(cloud')
       /\ Alive' => SequencesOf(cloud') \subseteq SequencesOf(outbox')
  BY DEF RestoreInv, Numbered, SequencesOf, Alive
<1>12. Alive' /\ (\E e \in Unsent' : e.as = None) => cloud' # {}
  BY NoStore DEF Follow, RestoreInv, Numbered, Unsent, Alive
<1>13. \A e \in Unsent' : e.as # None => \A c \in cloud' : c.seq < e.seq
  BY <1>2 DEF RestoreInv, Numbered, Unsent, Everything
<1> QED
  BY <1>5, <1>6, <1>7, <1>8, <1>9, <1>10, <1>11, <1>12, <1>13 DEF Numbered

(* The store trades on: its rows become store', its outbox has more.       *)
LEMMA GoesOn ==
    ASSUME RestoreAssumption, RestoreInv, stage = "trading", NEW A, Follow(A),
           outbox' = outbox \cup A, UNCHANGED <<cloud, stage, machine, kept, answer>>,
           store' \in Stores, FiniteRows(store'), VerifyRestoreIntegrity(store'),
           sync' \in [ready : BOOLEAN, enabled : BOOLEAN, backfilled : BOOLEAN],
           sync' = sync \/ sync'.ready,
           due' \in Nat \cup {None}, silent' \in BOOLEAN, History'
    PROVE  RestoreInv'
<1>1. Numbered'
  BY NumberedGoesOn DEF Alive
<1>2. TypeOK'
  <2>1. outbox' \subseteq OutboxEvents
    BY TypedEvents DEF RestoreInv, Follow
  <2> QED
    BY <2>1 DEF RestoreInv, TypeOK, OutboxEvents
<1>3. IsFiniteSet(outbox') /\ IsFiniteSet(cloud')
  BY FS_Union DEF RestoreInv, Follow
<1>4. Staged'
  BY DEF RestoreInv, Staged
<1>5. Sound'
  BY DEF RestoreInv, Sound, Follow
<1>6. FiniteRows(store)'
  BY DEF FiniteRows
<1> QED
  BY <1>1, <1>2, <1>3, <1>4, <1>5, <1>6 DEF RestoreInv

(* What is uploaded before an event does not change when others follow.    *)
LEMMA UpToGoesOn ==
    ASSUME RestoreInv, NEW A, Follow(A), outbox' = outbox \cup A, cloud' = cloud
    PROVE  \A e \in outbox : UpTo(e.seq)' = UpTo(e.seq)
<1>1. \A e \in outbox : {x \in outbox' : x.seq <= e.seq} = {x \in outbox : x.seq <= e.seq}
  <2>1. \A e \in outbox, x \in A : e.seq \in Nat /\ x.seq \in Nat /\ e.seq < x.seq
    BY TypedEvents DEF RestoreInv, Follow
  <2> QED
    BY <2>1
<1> QED
  BY <1>1 DEF UpTo, SentOf

(* ... and the history, when the store is what the events now make of it.  *)
LEMMA HistoryGoesOn ==
    ASSUME RestoreInv, stage = "trading", NEW A, Follow(A), outbox' = outbox \cup A,
           UNCHANGED <<cloud, stage, kept, due>>, silent => silent',
           ~silent' => /\ From(Base, Everything', store')
                       /\ \A e \in A : From(Base, UpTo(e.seq)', e.as)
    PROVE  History'
<1>1. Base' = Base
  BY DEF Base
<1>2. Whole' => From(NewStore, cloud', kept')
  BY DEF RestoreInv, History, Whole, SequencesOf
<1>3. ASSUME ~silent', NEW e \in Unsent', e.as # None, due' = None \/ due' <= e.seq
      PROVE  From(Base', UpTo(e.seq)', e.as)
  <2>1. CASE e \in A
    BY <1>1, <1>3, <2>1
  <2>2. CASE e \in outbox
    <3>1. e \in Unsent
      BY <2>2 DEF Unsent
    <3>2. From(Base, UpTo(e.seq), e.as)
      BY <1>3, <3>1 DEF RestoreInv, History
    <3>3. UpTo(e.seq)' = UpTo(e.seq)
      BY <2>2, UpToGoesOn
    <3> QED
      BY <1>1, <3>2, <3>3
  <2> QED
    BY <2>1, <2>2 DEF Unsent
<1>4. ~silent' => From(Base', Everything', store')
  BY <1>1
<1>5. stage' = "trading"
  OBVIOUS
<1> QED
  BY <1>2, <1>3, <1>4, <1>5 DEF History

(* A new event comes after the others.                                     *)
LEMMA NewEventFollows ==
    ASSUME RestoreAssumption, RestoreInv, NEW kind \in Kinds, NEW row \in Stores,
           NEW s \in Stores, VerifyRestoreIntegrity(s), FiniteRows(row),
           CarriesItsKind(Event(NextSequence(outbox), kind, row, s))
    PROVE  Follow({Event(NextSequence(outbox), kind, row, s)})
<1> DEFINE n == NextSequence(outbox)
           e == Event(n, kind, row, s)
<1>1. /\ n \in Nat /\ n >= 1 /\ (\A x \in outbox : x.seq < n)
      /\ outbox = {} => n = 1
  <2>1. IsFiniteSet(outbox) /\ \A x \in outbox : x.seq \in Nat
    BY TypedEvents DEF RestoreInv
  <2> QED
    BY <2>1, NextSequenceIs
<1>2. machine \in Nat
  BY TypedEvents DEF RestoreInv
<1> HIDE DEF n
<1>3. /\ e.id = <<machine, n>> /\ e.seq = n /\ e.kind = kind /\ e.row = row /\ e.as = s
      /\ ~e.pushed /\ e \in OutboxEvents
  BY <1>1, <1>2 DEF Event, OutboxEvents
<1>4. IsFiniteSet({e})
  BY FS_Singleton
<1>5. CarriesItsKind(e)
  BY DEF n
<1>6. outbox = {} => 1 \in SequencesOf({e})
  BY <1>1, <1>3 DEF SequencesOf
<1> HIDE DEF e
<1>7. Follow({e})
  BY <1>1, <1>3, <1>4, <1>5, <1>6 DEF Follow
<1> QED
  BY <1>7 DEF e, n

(* One transaction with one event.                                         *)
LEMMA WriteKeeps ==
    ASSUME RestoreAssumption, RestoreInv, NEW s \in Stores, NEW kind \in Kinds,
           NEW row \in Stores, Write(s, kind, row), Quiet, UNCHANGED silent,
           FiniteRows(s), VerifyRestoreIntegrity(s), FiniteRows(row),
           CarriesItsKind(Event(NextSequence(outbox), kind, row, s)),
           Grown(store, s, Event(NextSequence(outbox), kind, row, s))
    PROVE  RestoreInv'
<1>0. PICK e : e = Event(NextSequence(outbox), kind, row, s)
  OBVIOUS
<1>1. Follow({e})
  BY <1>0, NewEventFollows
<1>2. /\ stage = "trading" /\ store' = s /\ outbox' = outbox \cup {e}
      /\ UNCHANGED <<cloud, sync, stage, machine, answer, kept, due, silent>>
  BY <1>0 DEF Write, Appended, Quiet, machineVars
<1>3. /\ e.as = s /\ e \in OutboxEvents /\ e.seq \in Nat
      /\ Sent(e).seq = e.seq /\ Sent(e).kind = e.kind /\ Sent(e).row = e.row
  BY <1>0, <1>1, SentIs DEF Follow, Event, OutboxEvents
<1>4. Everything' = Everything \cup {Sent(e)}
  BY <1>2 DEF Everything, SentOf
<1>5. \A x \in Everything : x.seq < e.seq /\ x.seq \in Nat
  BY <1>1, <1>2, FollowEverything, TypedEvents DEF Alive, RestoreInv
<1>6. Grown(store, s, Sent(e))
  BY <1>0, <1>3 DEF Grown
<1>7. ASSUME ~silent PROVE From(Base, Everything', store')
  <2>1. From(Base, Everything, store)
    BY <1>2, <1>7 DEF RestoreInv, History
  <2>2. From(Base, Everything \cup {Sent(e)}, s)
    BY <1>3, <1>5, <1>6, <2>1, FromGrown
  <2> QED
    BY <1>2, <1>4, <2>2
<1>8. UpTo(e.seq)' = Everything'
  <2>1. \A x \in outbox' : x.seq <= e.seq
    BY <1>1, <1>2, <1>3, TypedEvents DEF Follow, RestoreInv
  <2> QED
    BY <1>2, <2>1 DEF UpTo, Everything
<1>9. History'
  <2>1. \A x \in {e} : ~silent => From(Base, UpTo(x.seq)', x.as)
    BY <1>2, <1>3, <1>7, <1>8
  <2> QED
    BY <1>1, <1>2, <1>7, <2>1, HistoryGoesOn
<1>10. /\ sync' \in [ready : BOOLEAN, enabled : BOOLEAN, backfilled : BOOLEAN]
       /\ due' \in Nat \cup {None} /\ silent' \in BOOLEAN
  BY <1>2 DEF RestoreInv, TypeOK
<1> QED
  BY <1>1, <1>2, <1>9, <1>10, GoesOn

(* ------------------------- The rows of an event -------------------------- *)

LEMMA NewStoreIs ==
    /\ NewStore \in Stores /\ FiniteRows(NewStore)
    /\ NewStore.settings = 0 /\ NewStore.product = None /\ NewStore.charge = None
    /\ NewStore.kiosk = None /\ NewStore.moves = {} /\ NewStore.ledger = {}
    /\ NewStore.sales = {} /\ NewStore.payments = {} /\ NewStore.refunds = {}
<1>1. NewStore \in Stores
  BY DEF NewStore, Stores
<1> QED
  BY <1>1, FS_EmptySet DEF NewStore, FiniteRows

(* A row that carries a part of the rows of a store.                       *)
PartOf(row, s) ==
    /\ row.moves \subseteq s.moves /\ row.ledger \subseteq s.ledger
    /\ row.sales \subseteq s.sales /\ row.payments \subseteq s.payments
    /\ row.refunds \subseteq s.refunds

LEMMA PartIsFinite ==
    ASSUME NEW s, NEW row, FiniteRows(s), PartOf(row, s)
    PROVE  FiniteRows(row)
  BY FS_Subset DEF FiniteRows, PartOf

LEMMA EventIs ==
    ASSUME NEW n, NEW kind, NEW row, NEW s
    PROVE  LET e == Event(n, kind, row, s)
           IN  e.kind = kind /\ e.row = row /\ e.seq = n /\ e.as = s /\ e.id = <<machine, n>>
  BY DEF Event

(* Payloads of one field of the store.                                     *)
LEMMA FieldPayloads ==
    ASSUME NEW s \in Stores
    PROVE  /\ \A row \in {SettingsPayload(s), ProductPayload(s),
                         PaymentTransactionPayload(s), KioskPayload(s)} :
                row \in Stores /\ FiniteRows(row) /\ PartOf(row, NewStore)
           /\ SettingsPayload(s).settings = s.settings
           /\ ProductPayload(s).product = s.product
           /\ PaymentTransactionPayload(s).charge = s.charge
<1>1. /\ SettingsPayload(s) \in Stores /\ PartOf(SettingsPayload(s), NewStore)
      /\ SettingsPayload(s).settings = s.settings
  BY DEF SettingsPayload, NewStore, Stores, PartOf
<1>2. /\ ProductPayload(s) \in Stores /\ PartOf(ProductPayload(s), NewStore)
      /\ ProductPayload(s).product = s.product
  BY DEF ProductPayload, NewStore, Stores, PartOf
<1>3. /\ PaymentTransactionPayload(s) \in Stores
      /\ PartOf(PaymentTransactionPayload(s), NewStore)
      /\ PaymentTransactionPayload(s).charge = s.charge
  BY DEF PaymentTransactionPayload, NewStore, Stores, PartOf
<1>4. KioskPayload(s) \in Stores /\ PartOf(KioskPayload(s), NewStore)
  BY DEF KioskPayload, NewStore, Stores, PartOf
<1>5. \A row : PartOf(row, NewStore) => FiniteRows(row)
  BY NewStoreIs, PartIsFinite
<1> QED
  BY <1>1, <1>2, <1>3, <1>4, <1>5

(* Rows of the tables that have numbers, and nothing else.                 *)
LEMMA RowsAreAStore ==
    ASSUME NEW M \in SUBSET Movements, NEW L \in SUBSET LedgerEntries,
           NEW S \in SUBSET Sales, NEW P \in SUBSET AccountPayments,
           NEW R \in SUBSET Refunds
    PROVE  [settings |-> 0, product |-> None, moves |-> M, ledger |-> L, sales |-> S,
            payments |-> P, refunds |-> R, charge |-> None, kiosk |-> None] \in Stores
  BY DEF Stores

(* Payloads of rows of the store.                                          *)
LEMMA RowPayloads ==
    ASSUME NEW s \in Stores
    PROVE  /\ \A m \in s.moves :
                /\ MovementPayload(m) \in Stores /\ PartOf(MovementPayload(m), s)
                /\ MovementPayload(m).moves = {m} /\ MovementPayload(m).ledger = {}
                /\ MovementPayload(m).sales = {} /\ MovementPayload(m).payments = {}
                /\ MovementPayload(m).refunds = {}
           /\ \A x \in s.sales :
                /\ SalePayload(s, x) \in Stores /\ PartOf(SalePayload(s, x), s)
                /\ SalePayload(s, x).moves = {m \in s.moves : m.sale = x.no /\ m.change < 0}
                /\ SalePayload(s, x).ledger
                     = {e \in s.ledger : e.kind = "sale" /\ e.of = x.no}
                /\ SalePayload(s, x).sales = {x} /\ SalePayload(s, x).payments = {}
                /\ SalePayload(s, x).refunds = {}
           /\ \A p \in s.payments :
                /\ AccountPaymentPayload(s, p) \in Stores
                /\ PartOf(AccountPaymentPayload(s, p), s)
                /\ AccountPaymentPayload(s, p).moves = {}
                /\ AccountPaymentPayload(s, p).ledger
                     = {e \in s.ledger : e.kind = "payment" /\ e.of = p.no}
                /\ AccountPaymentPayload(s, p).sales = {}
                /\ AccountPaymentPayload(s, p).payments = {p}
                /\ AccountPaymentPayload(s, p).refunds = {}
           /\ \A r \in s.refunds :
                /\ RefundPayload(s, r) \in Stores /\ PartOf(RefundPayload(s, r), s)
                /\ RefundPayload(s, r).moves
                     = {m \in s.moves : m.sale = r.sale /\ m.change > 0}
                /\ RefundPayload(s, r).ledger
                     = {e \in s.ledger : e.kind = "refund" /\ e.of = r.no}
                /\ RefundPayload(s, r).sales = {} /\ RefundPayload(s, r).payments = {}
                /\ RefundPayload(s, r).refunds = {r}
<1>1. \A m \in s.moves :
        /\ MovementPayload(m) \in Stores /\ PartOf(MovementPayload(m), s)
        /\ MovementPayload(m).moves = {m} /\ MovementPayload(m).ledger = {}
        /\ MovementPayload(m).sales = {} /\ MovementPayload(m).payments = {}
        /\ MovementPayload(m).refunds = {}
  BY DEF MovementPayload, NewStore, Stores, PartOf
<1>2. ASSUME NEW x \in s.sales
      PROVE  /\ SalePayload(s, x) \in Stores /\ PartOf(SalePayload(s, x), s)
             /\ SalePayload(s, x).moves = {m \in s.moves : m.sale = x.no /\ m.change < 0}
             /\ SalePayload(s, x).ledger = {e \in s.ledger : e.kind = "sale" /\ e.of = x.no}
             /\ SalePayload(s, x).sales = {x} /\ SalePayload(s, x).payments = {}
             /\ SalePayload(s, x).refunds = {}
  <2> DEFINE row == SalePayload(s, x)
             M == {m \in s.moves : m.sale = x.no /\ m.change < 0}
             L == {e \in s.ledger : e.kind = "sale" /\ e.of = x.no}
  <2>1. row = [NewStore EXCEPT !.sales = {x}, !.moves = M, !.ledger = L]
    BY DEF SalePayload
  <2>2. M \subseteq s.moves /\ L \subseteq s.ledger
    OBVIOUS
  <2> HIDE DEF row, M, L
  <2>3. M \subseteq Movements /\ L \subseteq LedgerEntries /\ {x} \subseteq Sales
    BY <2>2 DEF Stores
  <2>4. /\ row.moves = M /\ row.ledger = L /\ row.sales = {x} /\ row.payments = {}
        /\ row.refunds = {}
    BY <2>1 DEF NewStore
  <2>5. row \in Stores
    <3>1. row = [settings |-> 0, product |-> None, moves |-> M, ledger |-> L, sales |-> {x},
                 payments |-> {}, refunds |-> {}, charge |-> None, kiosk |-> None]
      BY <2>1 DEF NewStore
    <3> QED
      BY <2>3, <3>1, RowsAreAStore
  <2>6. PartOf(row, s)
    BY <2>2, <2>4 DEF PartOf
  <2> QED
    BY <2>4, <2>5, <2>6 DEF row, M, L
<1>3. ASSUME NEW p \in s.payments
      PROVE  /\ AccountPaymentPayload(s, p) \in Stores
             /\ PartOf(AccountPaymentPayload(s, p), s)
             /\ AccountPaymentPayload(s, p).moves = {}
             /\ AccountPaymentPayload(s, p).ledger
                  = {e \in s.ledger : e.kind = "payment" /\ e.of = p.no}
             /\ AccountPaymentPayload(s, p).sales = {}
             /\ AccountPaymentPayload(s, p).payments = {p}
             /\ AccountPaymentPayload(s, p).refunds = {}
  <2> DEFINE row == AccountPaymentPayload(s, p)
             L == {e \in s.ledger : e.kind = "payment" /\ e.of = p.no}
  <2>1. row = [NewStore EXCEPT !.payments = {p}, !.ledger = L]
    BY DEF AccountPaymentPayload
  <2>2. L \subseteq s.ledger
    OBVIOUS
  <2> HIDE DEF row, L
  <2>3. L \subseteq LedgerEntries /\ {p} \subseteq AccountPayments
    BY <2>2 DEF Stores
  <2>4. /\ row.moves = {} /\ row.ledger = L /\ row.sales = {} /\ row.payments = {p}
        /\ row.refunds = {}
    BY <2>1 DEF NewStore
  <2>5. row \in Stores
    <3>1. row = [settings |-> 0, product |-> None, moves |-> {}, ledger |-> L, sales |-> {},
                 payments |-> {p}, refunds |-> {}, charge |-> None, kiosk |-> None]
      BY <2>1 DEF NewStore
    <3> QED
      BY <2>3, <3>1, RowsAreAStore
  <2>6. PartOf(row, s)
    BY <2>2, <2>4 DEF PartOf
  <2> QED
    BY <2>4, <2>5, <2>6 DEF row, L
<1>4. ASSUME NEW r \in s.refunds
      PROVE  /\ RefundPayload(s, r) \in Stores /\ PartOf(RefundPayload(s, r), s)
             /\ RefundPayload(s, r).moves = {m \in s.moves : m.sale = r.sale /\ m.change > 0}
             /\ RefundPayload(s, r).ledger
                  = {e \in s.ledger : e.kind = "refund" /\ e.of = r.no}
             /\ RefundPayload(s, r).sales = {} /\ RefundPayload(s, r).payments = {}
             /\ RefundPayload(s, r).refunds = {r}
  <2> DEFINE row == RefundPayload(s, r)
             M == {m \in s.moves : m.sale = r.sale /\ m.change > 0}
             L == {e \in s.ledger : e.kind = "refund" /\ e.of = r.no}
  <2>1. row = [NewStore EXCEPT !.refunds = {r}, !.moves = M, !.ledger = L]
    BY DEF RefundPayload
  <2>2. M \subseteq s.moves /\ L \subseteq s.ledger
    OBVIOUS
  <2> HIDE DEF row, M, L
  <2>3. M \subseteq Movements /\ L \subseteq LedgerEntries /\ {r} \subseteq Refunds
    BY <2>2 DEF Stores
  <2>4. /\ row.moves = M /\ row.ledger = L /\ row.sales = {} /\ row.payments = {}
        /\ row.refunds = {r}
    BY <2>1 DEF NewStore
  <2>5. row \in Stores
    <3>1. row = [settings |-> 0, product |-> None, moves |-> M, ledger |-> L, sales |-> {},
                 payments |-> {}, refunds |-> {r}, charge |-> None, kiosk |-> None]
      BY <2>1 DEF NewStore
    <3> QED
      BY <2>3, <3>1, RowsAreAStore
  <2>6. PartOf(row, s)
    BY <2>2, <2>4 DEF PartOf
  <2> QED
    BY <2>4, <2>5, <2>6 DEF row, M, L
<1> QED
  BY <1>1, <1>2, <1>3, <1>4

(* ---------------------------- The store trades --------------------------- *)

(* Nothing of the ledger or the receipts changes.                          *)
LEMMA IntegrityBeside ==
    ASSUME NEW s, NEW t, VerifyRestoreIntegrity(s), s.moves = t.moves,
           s.ledger = t.ledger,
           s.sales = t.sales, s.payments = t.payments, s.refunds = t.refunds,
           s.product # None => t.product # None, s.kiosk # None => t.kiosk # None,
           t.charge # None =>
             t.charge.sale = None \/ \E sale \in t.sales : sale.no = t.charge.sale
    PROVE  VerifyRestoreIntegrity(t)
<1>1. NumbersUnique(t)
  BY DEF VerifyRestoreIntegrity, NumbersUnique
<1>2. NothingDangles(t)
  BY DEF VerifyRestoreIntegrity, NothingDangles
<1>3. LedgerReconciles(t)
  BY DEF VerifyRestoreIntegrity, LedgerReconciles
<1> QED
  BY <1>1, <1>2, <1>3 DEF VerifyRestoreIntegrity

(* A last entry of the ledger that starts from the balance.                *)
LEMMA ReconcilesMore ==
    ASSUME NEW s \in Stores, NEW t, NEW e, LedgerReconciles(s),
           t.ledger = s.ledger \cup {e}, e.seq \in Nat, \A x \in s.ledger : x.seq < e.seq,
           s.sales \subseteq t.sales, s.payments \subseteq t.payments,
           s.refunds \subseteq t.refunds,
           e.kind = "sale" =>
             \E sale \in t.sales :
               /\ sale.no = e.of
               /\ <<sale.before, sale.after>> = <<Balance(s), Balance(s) + e.amount>>,
           e.kind = "payment" =>
             \E p \in t.payments :
               /\ p.no = e.of
               /\ <<p.previous, p.new>> = <<Balance(s), Balance(s) + e.amount>>,
           e.kind = "refund" => \E r \in t.refunds : r.no = e.of
    PROVE  LedgerReconciles(t)
<1> DEFINE under(y) == {x \in t.ledger : x.seq < y.seq}
<1>1. \A x \in s.ledger : x.seq \in Nat
  BY DEF Stores, LedgerEntries
<1>2. \A y \in s.ledger : under(y) = {x \in s.ledger : x.seq < y.seq}
  BY <1>1
<1>3. under(e) = s.ledger
  BY <1>1
<1> DEFINE Met(y, u, running) ==
             /\ y.kind = "sale" =>
                 \E sale \in u.sales :
                     /\ sale.no = y.of
                     /\ <<sale.before, sale.after>> = <<running, running + y.amount>>
             /\ y.kind = "payment" =>
                 \E p \in u.payments :
                     /\ p.no = y.of
                     /\ <<p.previous, p.new>> = <<running, running + y.amount>>
             /\ y.kind = "refund" => \E r \in u.refunds : r.no = y.of
<1>4. \A y \in s.ledger : Met(y, s, Total({x \in s.ledger : x.seq < y.seq}))
  BY DEF LedgerReconciles
<1>5. \A y, running : Met(y, s, running) => Met(y, t, running)
  OBVIOUS
<1>6. \A y \in s.ledger : Met(y, t, Total(under(y)))
  BY <1>2, <1>4, <1>5
<1>7. Met(e, t, Total(under(e)))
  BY <1>3 DEF Balance
<1>8. \A y \in t.ledger : Met(y, t, Total(under(y)))
  BY <1>6, <1>7
<1> QED
  BY <1>8 DEF LedgerReconciles

(* What a store that trades has.                                           *)
LEMMA TradingStore ==
    ASSUME RestoreInv, stage = "trading"
    PROVE  /\ store \in Stores /\ FiniteRows(store) /\ VerifyRestoreIntegrity(store)
           /\ machine \in Nat \ {0}
  BY TypedEvents DEF RestoreInv, TypeOK, Sound, Alive

LEMMA UpdateSettingsKeeps ==
    ASSUME RestoreAssumption, RestoreInv, UpdateSettings PROVE RestoreInv'
<1> DEFINE s == [store EXCEPT !.settings = machine]
           row == SettingsPayload(s)
           e == Event(NextSequence(outbox), "settings", row, s)
<1>1. Write(s, "settings", row) /\ UNCHANGED silent /\ Quiet /\ stage = "trading"
  BY DEF UpdateSettings, Write
<1>2. store \in Stores /\ FiniteRows(store) /\ VerifyRestoreIntegrity(store) /\ machine \in Nat
  BY <1>1, TradingStore
<1>3. /\ s \in Stores /\ s.settings = machine /\ s.product = store.product
      /\ s.charge = store.charge /\ s.kiosk = store.kiosk /\ s.moves = store.moves
      /\ s.ledger = store.ledger /\ s.sales = store.sales /\ s.payments = store.payments
      /\ s.refunds = store.refunds
  BY <1>2 DEF Stores
<1> HIDE DEF s
<1>4. /\ row \in Stores /\ FiniteRows(row) /\ PartOf(row, NewStore)
      /\ row.settings = s.settings
  BY <1>3, FieldPayloads
<1> HIDE DEF row
<1>5. e.kind = "settings" /\ e.row = row
  BY EventIs
<1>6. CarriesItsKind(e) /\ Grown(store, s, e)
  BY <1>3, <1>4, <1>5, NewStoreIs DEF CarriesItsKind, Grown, PartOf
<1>7. VerifyRestoreIntegrity(s)
  BY <1>2, <1>3, SameIntegrity DEF Alike
<1>8. FiniteRows(s) /\ "settings" \in Kinds
  BY <1>2, <1>3 DEF FiniteRows, Kinds
<1> QED
  BY <1>1, <1>3, <1>4, <1>6, <1>7, <1>8, WriteKeeps

LEMMA SaveProductKeeps ==
    ASSUME RestoreAssumption, RestoreInv, SaveProduct PROVE RestoreInv'
<1> DEFINE version == IF store.product = None THEN 1 ELSE store.product + 1
           s == [store EXCEPT !.product = version]
           row == ProductPayload(s)
           e == Event(NextSequence(outbox), "product", row, s)
<1>1. Write(s, "product", row) /\ UNCHANGED silent /\ Quiet /\ stage = "trading"
  BY DEF SaveProduct, Write
<1>2. store \in Stores /\ FiniteRows(store) /\ VerifyRestoreIntegrity(store)
  BY <1>1, TradingStore
<1>3. version \in Nat /\ version # None
  BY <1>2 DEF Stores, RestoreAssumption
<1> HIDE DEF version
<1>4. /\ s \in Stores /\ s.settings = store.settings /\ s.product = version
      /\ s.charge = store.charge /\ s.kiosk = store.kiosk /\ s.moves = store.moves
      /\ s.ledger = store.ledger /\ s.sales = store.sales /\ s.payments = store.payments
      /\ s.refunds = store.refunds
  BY <1>2, <1>3 DEF Stores
<1> HIDE DEF s
<1>5. /\ row \in Stores /\ FiniteRows(row) /\ PartOf(row, NewStore)
      /\ row.product = s.product
  BY <1>4, FieldPayloads
<1> HIDE DEF row
<1>6. e.kind = "product" /\ e.row = row
  BY EventIs
<1>7. CarriesItsKind(e) /\ Grown(store, s, e)
  BY <1>4, <1>5, <1>6, NewStoreIs DEF CarriesItsKind, Grown, PartOf
<1>8. VerifyRestoreIntegrity(s)
  <2>1. s.charge # None => s.charge.sale = None \/ \E x \in s.sales : x.no = s.charge.sale
    BY <1>2, <1>4 DEF VerifyRestoreIntegrity, NothingDangles
  <2> QED
    BY <1>2, <1>3, <1>4, <2>1, IntegrityBeside
<1>9. FiniteRows(s) /\ "product" \in Kinds
  BY <1>2, <1>4 DEF FiniteRows, Kinds
<1> QED
  BY <1>1, <1>4, <1>5, <1>7, <1>8, <1>9, WriteKeeps

LEMMA SetChargeKeeps ==
    ASSUME RestoreAssumption, RestoreInv, NEW status \in {"initiated", "failed"},
           SetCharge(status)
    PROVE  RestoreInv'
<1> DEFINE charge == [status |-> status, sale |-> None]
           s == [store EXCEPT !.charge = charge]
           row == PaymentTransactionPayload(s)
           e == Event(NextSequence(outbox), "payment_transaction", row, s)
<1>1. /\ Write(s, "payment_transaction", row) /\ UNCHANGED silent /\ Quiet
      /\ stage = "trading"
  BY DEF SetCharge, Write
<1>2. store \in Stores /\ FiniteRows(store) /\ VerifyRestoreIntegrity(store)
  BY <1>1, TradingStore
<1>3. charge \in PaymentTransactions /\ charge.sale = None
  BY DEF PaymentTransactions
<1> HIDE DEF charge
<1>4. /\ s \in Stores /\ s.settings = store.settings /\ s.product = store.product
      /\ s.charge = charge /\ s.kiosk = store.kiosk /\ s.moves = store.moves
      /\ s.ledger = store.ledger /\ s.sales = store.sales /\ s.payments = store.payments
      /\ s.refunds = store.refunds
  BY <1>2, <1>3 DEF Stores
<1> HIDE DEF s
<1>5. /\ row \in Stores /\ FiniteRows(row) /\ PartOf(row, NewStore)
      /\ row.charge = s.charge
  BY <1>4, FieldPayloads
<1> HIDE DEF row
<1>6. e.kind = "payment_transaction" /\ e.row = row
  BY EventIs
<1>7. CarriesItsKind(e) /\ Grown(store, s, e)
  BY <1>4, <1>5, <1>6, NewStoreIs DEF CarriesItsKind, Grown, PartOf
<1>8. VerifyRestoreIntegrity(s)
  BY <1>2, <1>3, <1>4, IntegrityBeside
<1>9. FiniteRows(s) /\ "payment_transaction" \in Kinds
  BY <1>2, <1>4 DEF FiniteRows, Kinds
<1> QED
  BY <1>1, <1>4, <1>5, <1>7, <1>8, <1>9, WriteKeeps

LEMMA SetKioskKeeps ==
    ASSUME RestoreAssumption, RestoreInv, NEW status \in {"paired", "revoked"},
           SetKiosk(status)
    PROVE  RestoreInv'
<1> DEFINE s == [store EXCEPT !.kiosk = status]
           row == KioskPayload(s)
           e == Event(NextSequence(outbox), "kiosk", row, s)
<1>1. Write(s, "kiosk", row) /\ UNCHANGED silent /\ Quiet /\ stage = "trading"
  BY DEF SetKiosk, Write
<1>2. store \in Stores /\ FiniteRows(store) /\ VerifyRestoreIntegrity(store)
  BY <1>1, TradingStore
<1>3. status \in KioskStates /\ status # None
  BY DEF KioskStates, RestoreAssumption
<1>4. /\ s \in Stores /\ s.settings = store.settings /\ s.product = store.product
      /\ s.charge = store.charge /\ s.kiosk = status /\ s.moves = store.moves
      /\ s.ledger = store.ledger /\ s.sales = store.sales /\ s.payments = store.payments
      /\ s.refunds = store.refunds
  BY <1>2, <1>3 DEF Stores
<1> HIDE DEF s
<1>5. row \in Stores /\ FiniteRows(row) /\ PartOf(row, NewStore)
  BY <1>4, FieldPayloads
<1> HIDE DEF row
<1>6. e.kind = "kiosk" /\ e.row = row
  BY EventIs
<1>7. CarriesItsKind(e) /\ Grown(store, s, e)
  BY <1>3, <1>4, <1>5, <1>6, NewStoreIs DEF CarriesItsKind, Grown, PartOf
<1>8. VerifyRestoreIntegrity(s)
  <2>1. s.charge # None => s.charge.sale = None \/ \E x \in s.sales : x.no = s.charge.sale
    BY <1>2, <1>4 DEF VerifyRestoreIntegrity, NothingDangles
  <2> QED
    BY <1>2, <1>3, <1>4, <2>1, IntegrityBeside
<1>9. FiniteRows(s) /\ "kiosk" \in Kinds
  BY <1>2, <1>4 DEF FiniteRows, Kinds
<1> QED
  BY <1>1, <1>4, <1>5, <1>7, <1>8, <1>9, WriteKeeps

(* The row is there and no event tells of it.                              *)
LEMMA StopInCreateKioskKeeps ==
    ASSUME RestoreAssumption, RestoreInv, StopInCreateKiosk PROVE RestoreInv'
<1>1. /\ stage = "trading" /\ store' = [store EXCEPT !.kiosk = "paired"] /\ silent' = TRUE
      /\ UNCHANGED <<outbox, cloud, sync, stage, machine, answer, kept, due>>
  BY DEF StopInCreateKiosk, Quiet, machineVars
<1>2. store \in Stores /\ FiniteRows(store) /\ VerifyRestoreIntegrity(store)
  BY <1>1, TradingStore
<1>3. "paired" \in KioskStates /\ "paired" # None
  BY DEF KioskStates, RestoreAssumption
<1>4. /\ store' \in Stores /\ store'.product = store.product
      /\ store'.charge = store.charge /\ store'.kiosk = "paired"
      /\ store'.moves = store.moves /\ store'.ledger = store.ledger
      /\ store'.sales = store.sales /\ store'.payments = store.payments
      /\ store'.refunds = store.refunds
  BY <1>1, <1>2, <1>3 DEF Stores
<1>5. VerifyRestoreIntegrity(store')
  <2>1. PICK t : t = store'
    OBVIOUS
  <2>2. t.charge # None => t.charge.sale = None \/ \E x \in t.sales : x.no = t.charge.sale
    BY <1>2, <1>4, <2>1 DEF VerifyRestoreIntegrity, NothingDangles
  <2>3. VerifyRestoreIntegrity(t)
    BY <1>2, <1>3, <1>4, <2>1, <2>2, IntegrityBeside
  <2> QED
    BY <2>1, <2>3
<1>6. FiniteRows(store')
  BY <1>2, <1>4 DEF FiniteRows
<1>7. Follow({})
  BY FS_EmptySet DEF Follow
<1>8. History'
  BY <1>1, <1>7, HistoryGoesOn
<1> QED
  BY <1>1, <1>4, <1>5, <1>6, <1>7, <1>8, GoesOn DEF RestoreInv, TypeOK

(* A row that is added takes the next number of its table.                 *)
LEMMA NewMove ==
    ASSUME RestoreAssumption, NEW s \in Stores, FiniteRows(s), NEW change \in Int,
           NEW no \in Nat \cup {None}
    PROVE  LET m == Moved(s, change, no)
           IN  /\ m \in Movements /\ m.change = change /\ m.sale = no
               /\ \A x \in s.moves : x.seq < m.seq /\ x.seq \in Nat
<1>1. IsFiniteSet(s.moves) /\ \A x \in s.moves : x.seq \in Nat
  BY DEF FiniteRows, Stores, Movements
<1> QED
  BY <1>1, NextSeqIs DEF Moved, Movements

LEMMA NewEntry ==
    ASSUME NEW s \in Stores, FiniteRows(s), NEW amount \in Int,
           NEW kind \in {"sale", "payment", "refund"}, NEW no \in Nat
    PROVE  LET e == Entry(s, amount, kind, no)
           IN  /\ e \in LedgerEntries /\ e.amount = amount /\ e.kind = kind /\ e.of = no
               /\ \A x \in s.ledger : x.seq < e.seq /\ x.seq \in Nat
               /\ Balance(s) \in Int
<1>1. /\ IsFiniteSet(s.ledger) /\ \A x \in s.ledger : x.seq \in Nat
      /\ \A x \in s.ledger : x.amount \in Int
  BY DEF FiniteRows, Stores, LedgerEntries
<1>2. Balance(s) \in Int
  BY <1>1, TotalIsInt DEF Balance
<1>3. NextSeq(s.ledger) \in Nat /\ \A x \in s.ledger : x.seq < NextSeq(s.ledger)
  BY <1>1, NextSeqIs
<1> QED
  BY <1>1, <1>2, <1>3 DEF Entry, LedgerEntries

LEMMA NewNumbers ==
    ASSUME NEW s \in Stores, FiniteRows(s)
    PROVE  /\ NextReceiptNumber(s.sales) \in Nat
           /\ \A x \in s.sales : x.no < NextReceiptNumber(s.sales) /\ x.no \in Nat
           /\ NextReceiptNumber(s.payments) \in Nat
           /\ \A x \in s.payments : x.no < NextReceiptNumber(s.payments) /\ x.no \in Nat
           /\ NextReceiptNumber(s.refunds) \in Nat
           /\ \A x \in s.refunds : x.no < NextReceiptNumber(s.refunds) /\ x.no \in Nat
<1>1. /\ IsFiniteSet(s.sales) /\ IsFiniteSet(s.payments) /\ IsFiniteSet(s.refunds)
      /\ \A x \in s.sales \cup s.payments \cup s.refunds : x.no \in Nat
  BY DEF FiniteRows, Stores, Sales, AccountPayments, Refunds
<1> QED
  BY <1>1, NextNumberIs

(* Finitely many rows and one more.                                        *)
LEMMA FinitelyMore ==
    ASSUME NEW s, NEW t, FiniteRows(s),
           NEW a, NEW b, NEW c, NEW d, NEW e,
           t.moves \in {s.moves, s.moves \cup {a}}, t.ledger \in {s.ledger, s.ledger \cup {b}},
           t.sales \in {s.sales, s.sales \cup {c}},
           t.payments \in {s.payments, s.payments \cup {d}},
           t.refunds \in {s.refunds, s.refunds \cup {e}}
    PROVE  FiniteRows(t)
<1>1. /\ IsFiniteSet(s.moves) /\ IsFiniteSet(s.ledger) /\ IsFiniteSet(s.sales)
      /\ IsFiniteSet(s.payments) /\ IsFiniteSet(s.refunds)
  BY DEF FiniteRows
<1>2. ASSUME NEW S, NEW T, NEW x, IsFiniteSet(S), T \in {S, S \cup {x}}
      PROVE  IsFiniteSet(T)
  <2>1. IsFiniteSet(S \cup {x})
    BY <1>2, FS_AddElement
  <2>2. T = S \/ T = S \cup {x}
    BY <1>2
  <2> QED
    BY <1>2, <2>1, <2>2
<1>3. /\ IsFiniteSet(t.moves) /\ IsFiniteSet(t.ledger) /\ IsFiniteSet(t.sales)
      /\ IsFiniteSet(t.payments) /\ IsFiniteSet(t.refunds)
  <2>1. IsFiniteSet(t.moves)
    BY <1>1, <1>2
  <2>2. IsFiniteSet(t.ledger)
    BY <1>1, <1>2
  <2>3. IsFiniteSet(t.sales)
    BY <1>1, <1>2
  <2>4. IsFiniteSet(t.payments)
    BY <1>1, <1>2
  <2>5. IsFiniteSet(t.refunds)
    BY <1>1, <1>2
  <2> QED
    BY <2>1, <2>2, <2>3, <2>4, <2>5
<1> QED
  BY <1>3 DEF FiniteRows

LEMMA ReceiveStockKeeps ==
    ASSUME RestoreAssumption, RestoreInv, ReceiveStock PROVE RestoreInv'
<1> DEFINE m == Moved(store, 1, None)
           s == [store EXCEPT !.moves = @ \cup {m}]
           row == MovementPayload(m)
           e == Event(NextSequence(outbox), "inventory_movement", row, s)
<1>1. /\ Write(s, "inventory_movement", row) /\ UNCHANGED silent /\ Quiet
      /\ stage = "trading" /\ store.product # None
  BY DEF ReceiveStock, Write
<1>2. store \in Stores /\ FiniteRows(store) /\ VerifyRestoreIntegrity(store)
  BY <1>1, TradingStore
<1>3. m \in Movements /\ \A x \in store.moves : x.seq < m.seq /\ x.seq \in Nat
  <2>1. 1 \in Int /\ None \in Nat \cup {None}
    OBVIOUS
  <2> QED
    BY <1>2, <2>1, NewMove
<1> HIDE DEF m
<1>4. /\ s \in Stores /\ s.settings = store.settings /\ s.product = store.product
      /\ s.charge = store.charge /\ s.kiosk = store.kiosk /\ s.moves = store.moves \cup {m}
      /\ s.ledger = store.ledger /\ s.sales = store.sales /\ s.payments = store.payments
      /\ s.refunds = store.refunds
  BY <1>2, <1>3 DEF Stores
<1> HIDE DEF s
<1>5. FiniteRows(s) /\ "inventory_movement" \in Kinds
  BY <1>2, <1>4, FinitelyMore DEF Kinds
<1>6. /\ row \in Stores /\ PartOf(row, s)
      /\ row.moves = {m} /\ row.ledger = {} /\ row.sales = {} /\ row.payments = {}
      /\ row.refunds = {}
  BY <1>4, RowPayloads
<1> HIDE DEF row
<1>7. e.kind = "inventory_movement" /\ e.row = row
  BY EventIs
<1>8. CarriesItsKind(e) /\ Grown(store, s, e)
  BY <1>4, <1>6, <1>7 DEF CarriesItsKind, Grown
<1>9. VerifyRestoreIntegrity(s)
  <2>1. NumbersUnique(s)
    BY <1>2, <1>3, <1>4 DEF VerifyRestoreIntegrity, NumbersUnique, Movements
  <2>2. NothingDangles(s)
    BY <1>1, <1>2, <1>4 DEF VerifyRestoreIntegrity, NothingDangles
  <2>3. LedgerReconciles(s)
    BY <1>2, <1>4 DEF VerifyRestoreIntegrity, LedgerReconciles
  <2> QED
    BY <2>1, <2>2, <2>3 DEF VerifyRestoreIntegrity
<1>10. FiniteRows(row)
  BY <1>5, <1>6, PartIsFinite
<1> QED
  BY <1>1, <1>4, <1>5, <1>6, <1>8, <1>9, <1>10, WriteKeeps

LEMMA SellOnAccountKeeps ==
    ASSUME RestoreAssumption, RestoreInv, NEW kiosk \in BOOLEAN,
           SellOnAccount(kiosk)
    PROVE  RestoreInv'
<1> DEFINE no == NextReceiptNumber(store.sales)
           sale == [no |-> no, before |-> Balance(store),
                    after |-> Balance(store) + Price, kiosk |-> kiosk]
           m == Moved(store, -1, no)
           entry == Entry(store, Price, "sale", no)
           s == [store EXCEPT !.sales = @ \cup {sale}, !.moves = @ \cup {m},
                              !.ledger = @ \cup {entry}]
           row == SalePayload(s, sale)
           e == Event(NextSequence(outbox), "sale", row, s)
<1>1. /\ Write(s, "sale", row) /\ UNCHANGED silent /\ Quiet
      /\ stage = "trading" /\ store.product # None /\ (kiosk => store.kiosk = "paired")
  BY DEF SellOnAccount, Write
<1>2. store \in Stores /\ FiniteRows(store) /\ VerifyRestoreIntegrity(store) /\ Price \in Int
  BY <1>1, TradingStore DEF RestoreAssumption
<1>3. no \in Nat /\ \A x \in store.sales : x.no < no /\ x.no \in Nat
  BY <1>2, NewNumbers
<1> HIDE DEF no
<1>4. /\ m \in Movements /\ m.change = -1 /\ m.sale = no
      /\ \A x \in store.moves : x.seq < m.seq /\ x.seq \in Nat
  BY <1>2, <1>3, NewMove
<1>5. /\ entry \in LedgerEntries /\ entry.amount = Price /\ entry.kind = "sale"
      /\ entry.of = no /\ Balance(store) \in Int
      /\ \A x \in store.ledger : x.seq < entry.seq /\ x.seq \in Nat
  BY <1>2, <1>3, NewEntry
<1>6. /\ sale \in Sales /\ sale.no = no /\ sale.before = Balance(store)
      /\ sale.after = Balance(store) + Price /\ sale.kiosk = kiosk
  BY <1>2, <1>3, <1>5 DEF Sales
<1> HIDE DEF m, entry, sale
<1>7. /\ s \in Stores /\ s.settings = store.settings /\ s.product = store.product
      /\ s.charge = store.charge /\ s.kiosk = store.kiosk /\ s.moves = store.moves \cup {m}
      /\ s.ledger = store.ledger \cup {entry} /\ s.sales = store.sales \cup {sale}
      /\ s.payments = store.payments /\ s.refunds = store.refunds
  BY <1>2, <1>4, <1>5, <1>6 DEF Stores
<1> HIDE DEF s
<1>8. FiniteRows(s) /\ "sale" \in Kinds
  BY <1>2, <1>7, FinitelyMore DEF Kinds
<1>9. /\ row \in Stores /\ PartOf(row, s)
      /\ row.moves = {x \in s.moves : x.sale = sale.no /\ x.change < 0}
      /\ row.ledger = {x \in s.ledger : x.kind = "sale" /\ x.of = sale.no}
      /\ row.sales = {sale} /\ row.payments = {} /\ row.refunds = {}
  BY <1>7, RowPayloads
<1> HIDE DEF row
<1>10. e.kind = "sale" /\ e.row = row
  BY EventIs
<1>11. CarriesItsKind(e) /\ Grown(store, s, e)
  <2>1. m \in row.moves /\ entry \in row.ledger
    BY <1>4, <1>5, <1>6, <1>7, <1>9
  <2>2. row.moves \subseteq s.moves /\ row.ledger \subseteq s.ledger
    BY <1>9
  <2> QED
    BY <1>7, <1>9, <1>10, <2>1, <2>2 DEF CarriesItsKind, Grown
<1>12. VerifyRestoreIntegrity(s)
  <2>1. NumbersUnique(s)
    BY <1>2, <1>3, <1>4, <1>5, <1>6, <1>7
       DEF VerifyRestoreIntegrity, NumbersUnique, Movements, LedgerEntries
  <2>2. NothingDangles(s)
    BY <1>1, <1>2, <1>6, <1>7, NoKiosk DEF VerifyRestoreIntegrity, NothingDangles
  <2>3. LedgerReconciles(s)
    <3>1. \E x \in s.sales : x.no = entry.of
            /\ <<x.before, x.after>> = <<Balance(store), Balance(store) + entry.amount>>
      BY <1>5, <1>6, <1>7
    <3>2. LedgerReconciles(store) /\ entry.seq \in Nat
      BY <1>2, <1>5 DEF VerifyRestoreIntegrity, LedgerEntries
    <3> QED
      BY <1>2, <1>5, <1>7, <3>1, <3>2, ReconcilesMore
  <2> QED
    BY <2>1, <2>2, <2>3 DEF VerifyRestoreIntegrity
<1>13. FiniteRows(row)
  BY <1>8, <1>9, PartIsFinite
<1> QED
  BY <1>1, <1>7, <1>8, <1>9, <1>11, <1>12, <1>13, WriteKeeps

LEMMA PayAccountKeeps ==
    ASSUME RestoreAssumption, RestoreInv, PayAccount PROVE RestoreInv'
<1> DEFINE no == NextReceiptNumber(store.payments)
           payment == [no |-> no, previous |-> Balance(store), new |-> Balance(store) - 1]
           entry == Entry(store, -1, "payment", no)
           s == [store EXCEPT !.payments = @ \cup {payment}, !.ledger = @ \cup {entry}]
           row == AccountPaymentPayload(s, payment)
           e == Event(NextSequence(outbox), "account_payment", row, s)
<1>1. Write(s, "account_payment", row) /\ UNCHANGED silent /\ Quiet /\ stage = "trading"
  BY DEF PayAccount, Write
<1>2. store \in Stores /\ FiniteRows(store) /\ VerifyRestoreIntegrity(store)
  BY <1>1, TradingStore
<1>3. no \in Nat /\ \A x \in store.payments : x.no < no /\ x.no \in Nat
  BY <1>2, NewNumbers
<1> HIDE DEF no
<1>4. /\ entry \in LedgerEntries /\ entry.amount = -1 /\ entry.kind = "payment"
      /\ entry.of = no /\ Balance(store) \in Int
      /\ \A x \in store.ledger : x.seq < entry.seq /\ x.seq \in Nat
  BY <1>2, <1>3, NewEntry
<1>5. /\ payment \in AccountPayments /\ payment.no = no
      /\ payment.previous = Balance(store) /\ payment.new = Balance(store) + (-1)
  BY <1>3, <1>4 DEF AccountPayments
<1> HIDE DEF entry, payment
<1>6. /\ s \in Stores /\ s.settings = store.settings /\ s.product = store.product
      /\ s.charge = store.charge /\ s.kiosk = store.kiosk /\ s.moves = store.moves
      /\ s.ledger = store.ledger \cup {entry} /\ s.sales = store.sales
      /\ s.payments = store.payments \cup {payment} /\ s.refunds = store.refunds
  BY <1>2, <1>4, <1>5 DEF Stores
<1> HIDE DEF s
<1>7. FiniteRows(s) /\ "account_payment" \in Kinds
  BY <1>2, <1>6, FinitelyMore DEF Kinds
<1>8. /\ row \in Stores /\ PartOf(row, s) /\ row.moves = {}
      /\ row.ledger = {x \in s.ledger : x.kind = "payment" /\ x.of = payment.no}
      /\ row.sales = {} /\ row.payments = {payment} /\ row.refunds = {}
  BY <1>6, RowPayloads
<1> HIDE DEF row
<1>9. e.kind = "account_payment" /\ e.row = row
  BY EventIs
<1>10. CarriesItsKind(e) /\ Grown(store, s, e)
  <2>1. entry \in row.ledger /\ row.ledger \subseteq s.ledger
    BY <1>4, <1>5, <1>6, <1>8
  <2> QED
    BY <1>6, <1>8, <1>9, <2>1 DEF CarriesItsKind, Grown
<1>11. VerifyRestoreIntegrity(s)
  <2>1. NumbersUnique(s)
    BY <1>2, <1>3, <1>4, <1>5, <1>6
       DEF VerifyRestoreIntegrity, NumbersUnique, LedgerEntries
  <2>2. NothingDangles(s)
    BY <1>2, <1>6 DEF VerifyRestoreIntegrity, NothingDangles
  <2>3. LedgerReconciles(s)
    <3>1. \E x \in s.payments : x.no = entry.of
            /\ <<x.previous, x.new>> = <<Balance(store), Balance(store) + entry.amount>>
      BY <1>4, <1>5, <1>6
    <3>2. LedgerReconciles(store) /\ entry.seq \in Nat
      BY <1>2, <1>4 DEF VerifyRestoreIntegrity, LedgerEntries
    <3> QED
      BY <1>2, <1>4, <1>6, <3>1, <3>2, ReconcilesMore
  <2> QED
    BY <2>1, <2>2, <2>3 DEF VerifyRestoreIntegrity
<1>12. FiniteRows(row)
  BY <1>7, <1>8, PartIsFinite
<1> QED
  BY <1>1, <1>6, <1>7, <1>8, <1>10, <1>11, <1>12, WriteKeeps

LEMMA RefundSaleKeeps ==
    ASSUME RestoreAssumption, RestoreInv, NEW sale \in store.sales, RefundSale(sale)
    PROVE  RestoreInv'
<1> DEFINE no == NextReceiptNumber(store.refunds)
           refund == [no |-> no, sale |-> sale.no]
           m == Moved(store, 1, sale.no)
           entry == Entry(store, -Price, "refund", no)
           s == [store EXCEPT !.refunds = @ \cup {refund}, !.moves = @ \cup {m},
                              !.ledger = @ \cup {entry}]
           row == RefundPayload(s, refund)
           e == Event(NextSequence(outbox), "refund", row, s)
<1>1. Write(s, "refund", row) /\ UNCHANGED silent /\ Quiet /\ stage = "trading"
  BY DEF RefundSale, Write
<1>2. /\ store \in Stores /\ FiniteRows(store) /\ VerifyRestoreIntegrity(store)
      /\ -Price \in Int /\ sale.no \in Nat
  BY <1>1, TradingStore DEF RestoreAssumption, Stores, Sales
<1>3. no \in Nat /\ \A x \in store.refunds : x.no < no /\ x.no \in Nat
  BY <1>2, NewNumbers
<1> HIDE DEF no
<1>4. /\ m \in Movements /\ m.change = 1 /\ m.sale = sale.no
      /\ \A x \in store.moves : x.seq < m.seq /\ x.seq \in Nat
  BY <1>2, NewMove
<1>5. /\ entry \in LedgerEntries /\ entry.kind = "refund" /\ entry.of = no
      /\ \A x \in store.ledger : x.seq < entry.seq /\ x.seq \in Nat
  BY <1>2, <1>3, NewEntry
<1>6. refund \in Refunds /\ refund.no = no /\ refund.sale = sale.no
  BY <1>2, <1>3 DEF Refunds
<1> HIDE DEF m, entry, refund
<1>7. /\ s \in Stores /\ s.settings = store.settings /\ s.product = store.product
      /\ s.charge = store.charge /\ s.kiosk = store.kiosk /\ s.moves = store.moves \cup {m}
      /\ s.ledger = store.ledger \cup {entry} /\ s.sales = store.sales
      /\ s.payments = store.payments /\ s.refunds = store.refunds \cup {refund}
  BY <1>2, <1>4, <1>5, <1>6 DEF Stores
<1> HIDE DEF s
<1>8. FiniteRows(s) /\ "refund" \in Kinds
  <2>1. /\ IsFiniteSet(store.moves \cup {m}) /\ IsFiniteSet(store.ledger \cup {entry})
        /\ IsFiniteSet(store.refunds \cup {refund})
        /\ IsFiniteSet(store.sales) /\ IsFiniteSet(store.payments)
    BY <1>2, FS_AddElement DEF FiniteRows
  <2>2. FiniteRows(s)
    BY <1>7, <2>1 DEF FiniteRows
  <2> QED
    BY <2>2 DEF Kinds
<1>9. /\ row \in Stores /\ PartOf(row, s)
      /\ row.moves = {x \in s.moves : x.sale = refund.sale /\ x.change > 0}
      /\ row.ledger = {x \in s.ledger : x.kind = "refund" /\ x.of = refund.no}
      /\ row.sales = {} /\ row.payments = {} /\ row.refunds = {refund}
  BY <1>7, RowPayloads
<1> HIDE DEF row
<1>10. e.kind = "refund" /\ e.row = row
  BY EventIs
<1>11. CarriesItsKind(e) /\ Grown(store, s, e)
  <2>1. m \in row.moves /\ entry \in row.ledger
    BY <1>4, <1>5, <1>6, <1>7, <1>9
  <2>2. row.moves \subseteq s.moves /\ row.ledger \subseteq s.ledger
    BY <1>9
  <2> QED
    BY <1>7, <1>9, <1>10, <2>1, <2>2 DEF CarriesItsKind, Grown
<1>12. VerifyRestoreIntegrity(s)
  <2>1. NumbersUnique(s)
    BY <1>2, <1>3, <1>4, <1>5, <1>6, <1>7
       DEF VerifyRestoreIntegrity, NumbersUnique, Movements, LedgerEntries
  <2>2. NothingDangles(s)
    BY <1>2, <1>6, <1>7 DEF VerifyRestoreIntegrity, NothingDangles
  <2>3. LedgerReconciles(s)
    <3>1. \E x \in s.refunds : x.no = entry.of
      BY <1>5, <1>6, <1>7
    <3>2. LedgerReconciles(store) /\ entry.seq \in Nat
      BY <1>2, <1>5 DEF VerifyRestoreIntegrity, LedgerEntries
    <3> QED
      BY <1>2, <1>5, <1>7, <3>1, <3>2, ReconcilesMore
  <2> QED
    BY <2>1, <2>2, <2>3 DEF VerifyRestoreIntegrity
<1>13. FiniteRows(row)
  BY <1>8, <1>9, PartIsFinite
<1> QED
  BY <1>1, <1>7, <1>8, <1>9, <1>11, <1>12, <1>13, WriteKeeps

(* The sale and the charge it is linked to: two events, one transaction.   *)
LEMMA SellByCardKeeps ==
    ASSUME RestoreAssumption, RestoreInv, SellByCard PROVE RestoreInv'
<1> DEFINE no == NextReceiptNumber(store.sales)
           sale == [no |-> no, before |-> None, after |-> None, kiosk |-> FALSE]
           m == Moved(store, -1, no)
           s == [store EXCEPT !.sales = @ \cup {sale}, !.moves = @ \cup {m}]
           charge == [status |-> "approved", sale |-> no]
           linked == [s EXCEPT !.charge = charge]
           row == SalePayload(s, sale)
           paid == PaymentTransactionPayload(linked)
           first == Event(NextSequence(outbox), "sale", row, s)
           second == Event(NextSequence(outbox \cup {first}), "payment_transaction",
                           paid, linked)
<1>1. /\ stage = "trading" /\ store.product # None
      /\ store.charge = [status |-> "initiated", sale |-> None]
      /\ store' = linked /\ outbox' = (outbox \cup {first}) \cup {second}
      /\ UNCHANGED <<cloud, sync, stage, machine, answer, kept, due, silent>>
  BY DEF SellByCard, Appended, Quiet, machineVars
<1>2. /\ store \in Stores /\ FiniteRows(store) /\ VerifyRestoreIntegrity(store)
      /\ machine \in Nat
  BY <1>1, TradingStore
<1>3. no \in Nat /\ \A x \in store.sales : x.no < no /\ x.no \in Nat
  BY <1>2, NewNumbers
<1>4. /\ charge \in PaymentTransactions /\ charge.sale = no /\ charge # None
  BY <1>3 DEF PaymentTransactions, RestoreAssumption
<1> HIDE DEF no, charge
<1>5. /\ m \in Movements /\ m.change = -1 /\ m.sale = no
      /\ \A x \in store.moves : x.seq < m.seq /\ x.seq \in Nat
  BY <1>2, <1>3, NewMove
<1>6. sale \in Sales /\ sale.no = no /\ sale.before = None /\ ~sale.kiosk
  BY <1>3 DEF Sales
<1> HIDE DEF m, sale
<1>7. /\ s \in Stores /\ s.settings = store.settings /\ s.product = store.product
      /\ s.charge = store.charge /\ s.kiosk = store.kiosk /\ s.moves = store.moves \cup {m}
      /\ s.ledger = store.ledger /\ s.sales = store.sales \cup {sale}
      /\ s.payments = store.payments /\ s.refunds = store.refunds
  BY <1>2, <1>5, <1>6 DEF Stores
<1> HIDE DEF s
<1>8. /\ linked \in Stores /\ linked.settings = s.settings /\ linked.product = s.product
      /\ linked.charge = charge /\ linked.kiosk = s.kiosk /\ linked.moves = s.moves
      /\ linked.ledger = s.ledger /\ linked.sales = s.sales
      /\ linked.payments = s.payments /\ linked.refunds = s.refunds
  BY <1>4, <1>7 DEF Stores
<1> HIDE DEF linked
<1>9. FiniteRows(s) /\ FiniteRows(linked)
  <2>1. /\ IsFiniteSet(store.moves \cup {m}) /\ IsFiniteSet(store.sales \cup {sale})
        /\ IsFiniteSet(store.ledger) /\ IsFiniteSet(store.payments)
        /\ IsFiniteSet(store.refunds)
    BY <1>2, FS_AddElement DEF FiniteRows
  <2> QED
    BY <1>7, <1>8, <2>1 DEF FiniteRows
<1>10. /\ row \in Stores /\ PartOf(row, s)
       /\ row.moves = {x \in s.moves : x.sale = sale.no /\ x.change < 0}
       /\ row.ledger = {x \in s.ledger : x.kind = "sale" /\ x.of = sale.no}
       /\ row.sales = {sale} /\ row.payments = {} /\ row.refunds = {}
  BY <1>7, RowPayloads
<1>11. /\ paid \in Stores /\ FiniteRows(paid) /\ PartOf(paid, NewStore)
       /\ paid.charge = linked.charge
  BY <1>8, FieldPayloads
<1>12. FiniteRows(row)
  BY <1>9, <1>10, PartIsFinite
<1> HIDE DEF row, paid
<1>13. VerifyRestoreIntegrity(s)
  <2>1. NumbersUnique(s)
    BY <1>2, <1>3, <1>5, <1>6, <1>7
       DEF VerifyRestoreIntegrity, NumbersUnique, Movements
  <2>2. NothingDangles(s)
    BY <1>1, <1>2, <1>6, <1>7 DEF VerifyRestoreIntegrity, NothingDangles
  <2>3. LedgerReconciles(s)
    BY <1>2, <1>7 DEF VerifyRestoreIntegrity, LedgerReconciles
  <2> QED
    BY <2>1, <2>2, <2>3 DEF VerifyRestoreIntegrity
<1>14. VerifyRestoreIntegrity(linked)
  <2>1. \E x \in linked.sales : x.no = linked.charge.sale
    BY <1>4, <1>6, <1>7, <1>8
  <2> QED
    BY <1>8, <1>13, <2>1, IntegrityBeside
<1>15. PICK a : a = first
  OBVIOUS
<1>16. PICK b : b = second
  OBVIOUS
<1>17. /\ a.kind = "sale" /\ a.row = row /\ a.as = s /\ a.seq = NextSequence(outbox)
       /\ b.kind = "payment_transaction" /\ b.row = paid /\ b.as = linked
       /\ b.seq = NextSequence(outbox \cup {a})
       /\ a.id = <<machine, a.seq>> /\ b.id = <<machine, b.seq>> /\ ~a.pushed /\ ~b.pushed
  BY <1>15, <1>16 DEF Event
<1>18. /\ IsFiniteSet(outbox) /\ (\A x \in outbox : x.seq \in Nat)
       /\ a.seq \in Nat /\ a.seq >= 1 /\ (\A x \in outbox : x.seq < a.seq)
       /\ outbox = {} => a.seq = 1
  <2>1. IsFiniteSet(outbox) /\ \A x \in outbox : x.seq \in Nat
    BY TypedEvents DEF RestoreInv
  <2> QED
    BY <1>17, <2>1, NextSequenceIs
<1>19. b.seq \in Nat /\ a.seq < b.seq /\ \A x \in outbox : x.seq < b.seq
  <2>1. IsFiniteSet(outbox \cup {a}) /\ \A x \in outbox \cup {a} : x.seq \in Nat
    BY <1>18, FS_AddElement
  <2>2. \A x \in outbox \cup {a} : x.seq < NextSequence(outbox \cup {a})
    BY <2>1, NextSequenceIs
  <2>3. NextSequence(outbox \cup {a}) \in Nat
    BY <2>1, NextSequenceIs
  <2> QED
    BY <1>17, <2>2, <2>3
<1>20. CarriesItsKind(a) /\ CarriesItsKind(b)
  BY <1>10, <1>11, <1>17, NewStoreIs DEF CarriesItsKind, PartOf
<1>21. a \in OutboxEvents /\ b \in OutboxEvents
  <2>1. {"sale", "payment_transaction"} \subseteq Kinds
    BY DEF Kinds
  <2> QED
    BY <1>2, <1>7, <1>8, <1>10, <1>11, <1>15, <1>16, <1>17, <1>18, <1>19, <2>1
       DEF Event, OutboxEvents
<1> DEFINE A == {a, b}
<1>22. Follow(A)
  <2>1. IsFiniteSet(A)
    <3>1. A = {a} \cup {b} /\ IsFiniteSet({a})
      BY FS_Singleton
    <3> QED
      BY <3>1, FS_AddElement
  <2>2. outbox = {} => 1 \in SequencesOf(A)
    BY <1>18 DEF SequencesOf
  <2> QED
    BY <1>7, <1>8, <1>10, <1>11, <1>12, <1>13, <1>14, <1>17, <1>18, <1>19, <1>20,
       <1>21,
       <2>1, <2>2
    DEF Follow
<1>23. outbox' = outbox \cup A
  BY <1>1, <1>15, <1>16
<1>24. /\ Sent(a).seq = a.seq /\ Sent(a).kind = a.kind /\ Sent(a).row = a.row
       /\ Sent(b).seq = b.seq /\ Sent(b).kind = b.kind /\ Sent(b).row = b.row
  BY <1>21, SentIs
<1>25. Everything' = (Everything \cup {Sent(a)}) \cup {Sent(b)}
  BY <1>1, <1>23 DEF Everything, SentOf
<1>26. \A x \in Everything : x.seq < a.seq /\ x.seq < b.seq /\ x.seq \in Nat
  BY <1>1, <1>22, FollowEverything, TypedEvents DEF Alive, RestoreInv
<1>27. Grown(store, s, Sent(a))
  <2>1. m \in row.moves /\ row.moves \subseteq s.moves /\ row.ledger \subseteq s.ledger
    BY <1>5, <1>6, <1>7, <1>10
  <2> QED
    BY <1>7, <1>10, <1>17, <1>24, <2>1 DEF Grown
<1>28. Grown(s, linked, Sent(b))
  BY <1>8, <1>11, <1>17, <1>24, NewStoreIs DEF Grown, PartOf
<1>29. UpTo(a.seq)' = Everything \cup {Sent(a)} /\ UpTo(b.seq)' = Everything'
  <2>1. {x \in outbox' : x.seq <= a.seq} = outbox \cup {a}
    BY <1>18, <1>19, <1>23
  <2>2. {x \in outbox' : x.seq <= b.seq} = outbox'
    BY <1>18, <1>19, <1>23
  <2> QED
    BY <1>1, <2>1, <2>2 DEF UpTo, Everything, SentOf
<1>30. ASSUME ~silent
       PROVE  /\ From(Base, Everything', store')
              /\ \A e \in A : From(Base, UpTo(e.seq)', e.as)
  <2>1. From(Base, Everything, store)
    BY <1>1, <1>30 DEF RestoreInv, History
  <2>2. From(Base, Everything \cup {Sent(a)}, s)
    BY <1>18, <1>24, <1>26, <1>27, <2>1, FromGrown
  <2>3. \A x \in Everything \cup {Sent(a)} : x.seq <= Sent(b).seq
    BY <1>18, <1>19, <1>24, <1>26
  <2>4. From(Base, (Everything \cup {Sent(a)}) \cup {Sent(b)}, linked)
    BY <1>19, <1>24, <1>28, <2>2, <2>3, FromGrown
  <2> QED
    BY <1>1, <1>17, <1>25, <1>29, <2>2, <2>4
<1>31. History'
  BY <1>1, <1>22, <1>23, <1>30, HistoryGoesOn
<1>32. /\ sync' \in [ready : BOOLEAN, enabled : BOOLEAN, backfilled : BOOLEAN]
       /\ due' \in Nat \cup {None} /\ silent' \in BOOLEAN
  BY <1>1 DEF RestoreInv, TypeOK
<1> HIDE DEF A
<1> QED
  BY <1>1, <1>8, <1>9, <1>14, <1>22, <1>23, <1>31, <1>32, GoesOn

(* ------------------------- Losing and restoring -------------------------- *)

(* sync:setEnabled: the rows and the events are as before.                 *)
LEMMA SetEnabledKeeps ==
    ASSUME RestoreAssumption, RestoreInv, SetEnabled PROVE RestoreInv'
<1>1. /\ stage = "trading" /\ sync' = [sync EXCEPT !.enabled = TRUE] /\ sync.ready
      /\ UNCHANGED <<store, outbox, cloud, stage, machine, answer, kept, due, silent>>
  BY DEF SetEnabled, historyVars
<1>2. store \in Stores /\ FiniteRows(store) /\ VerifyRestoreIntegrity(store)
  BY <1>1, TradingStore
<1>3. Follow({}) /\ outbox' = outbox \cup {}
  BY <1>1, FS_EmptySet DEF Follow
<1>4. Base' = Base /\ Everything' = Everything
  BY <1>1 DEF Base, Everything
<1>5. ~silent' => From(Base, Everything', store')
  BY <1>1, <1>4 DEF RestoreInv, History
<1>6. History'
  BY <1>1, <1>3, <1>5, HistoryGoesOn
<1>7. sync' \in [ready : BOOLEAN, enabled : BOOLEAN, backfilled : BOOLEAN] /\ sync'.ready
  BY <1>1 DEF RestoreInv, TypeOK
<1>8. /\ store' \in Stores /\ FiniteRows(store') /\ VerifyRestoreIntegrity(store')
      /\ due' \in Nat \cup {None} /\ silent' \in BOOLEAN
  BY <1>1, <1>2 DEF RestoreInv, TypeOK
<1> QED
  BY <1>1, <1>3, <1>6, <1>7, <1>8, GoesOn

(* Another machine, with an empty database.                                *)
LEMMA LoseMachineKeeps ==
    ASSUME RestoreAssumption, RestoreInv, LoseMachine PROVE RestoreInv'
<1>1. /\ machine < MaxMachines /\ machine' = machine + 1 /\ stage' = "fresh"
      /\ store' = NewStore /\ outbox' = {} /\ answer' = None
      /\ sync' = [ready |-> FALSE, enabled |-> FALSE, backfilled |-> FALSE]
      /\ UNCHANGED <<cloud, kept, due, silent>>
  BY DEF LoseMachine, historyVars
<1>2. MaxMachines \in Nat /\ machine \in 1..MaxMachines
  BY DEF RestoreAssumption, RestoreInv, TypeOK
<1>3. TypeOK'
  BY <1>1, <1>2, NewStoreIs DEF RestoreInv, TypeOK
<1>4. IsFiniteSet(outbox') /\ IsFiniteSet(cloud') /\ FiniteRows(store')
  BY <1>1, NewStoreIs, FS_EmptySet DEF RestoreInv
<1>5. Everything' = cloud /\ Unsent' = {} /\ cloud \subseteq Everything
  BY <1>1 DEF Everything, SentOf, Unsent
<1>6. Numbered'
  <2>1. \A e \in cloud : e.id[1] \in 1..machine'
    BY <1>1, <1>2, <1>5 DEF RestoreInv, Numbered
  <2> QED
    BY <1>1, <1>5, <2>1 DEF RestoreInv, Numbered, Alive
<1>7. Staged'
  <2>1. store' = [NewStore EXCEPT !.settings = (store').settings] /\ (store').settings <= 0
    BY <1>1 DEF NewStore
  <2>2. \A c \in cloud' : c.id[1] < machine'
    BY <1>1, <1>2, <1>5 DEF RestoreInv, Numbered
  <2>3. answer' # "restored" /\ answer' # "refused"
    BY <1>1 DEF RestoreAssumption
  <2> QED
    BY <1>1, <2>1, <2>2, <2>3 DEF Staged
<1>8. History'
  BY <1>1 DEF RestoreInv, History, Whole
<1>9. Sound'
  BY <1>1 DEF RestoreInv, Sound, Alive
<1> QED
  BY <1>3, <1>4, <1>6, <1>7, <1>8, <1>9 DEF RestoreInv

(* Settings of the fresh installation, before the restore.                 *)
LEMMA SaveSettingsKeeps ==
    ASSUME RestoreAssumption, RestoreInv, SaveSettings PROVE RestoreInv'
<1>1. /\ stage = "fresh" /\ outbox = {} /\ store' = [store EXCEPT !.settings = -machine]
      /\ outbox' = Appended(outbox, "settings", SettingsPayload(store'), None)
      /\ UNCHANGED <<cloud, sync, stage, machine, answer, kept, due, silent>>
  BY DEF SaveSettings, machineVars, historyVars
<1>2. /\ machine \in Nat \ {0} /\ store \in Stores
      /\ store = [NewStore EXCEPT !.settings = store.settings]
  BY <1>1, TypedEvents DEF RestoreInv, TypeOK, Staged
<1>3. -machine \in Int /\ -machine <= 0
  BY <1>2
<1>4. /\ store' \in Stores /\ (store').settings = -machine
      /\ store' = [NewStore EXCEPT !.settings = -machine]
      /\ FiniteRows(store')
  <2>1. store' \in Stores
    BY <1>1, <1>2, <1>3 DEF Stores
  <2>2. store' = [NewStore EXCEPT !.settings = -machine]
    BY <1>1, <1>2 DEF NewStore
  <2> QED
    BY <2>1, <2>2, FS_EmptySet DEF NewStore, FiniteRows
<1> DEFINE row == SettingsPayload(store')
<1>5. row \in Stores /\ FiniteRows(row) /\ PartOf(row, NewStore)
  <2>1. PICK t : t = store'
    OBVIOUS
  <2> QED
    BY <1>4, <2>1, FieldPayloads
<1>6. PICK e : e = Event(NextSequence(outbox), "settings", row, None)
  OBVIOUS
<1>7. /\ outbox' = {e} /\ e.seq = 1 /\ e.id = <<machine, 1>> /\ e.kind = "settings"
      /\ e.row = row /\ e.as = None /\ ~e.pushed /\ e \in OutboxEvents
  <2>1. NextSequence(outbox) = 1
    BY <1>1, FS_EmptySet, NextSequenceIs
  <2>2. "settings" \in Kinds
    BY DEF Kinds
  <2> HIDE DEF row
  <2>3. e = [id |-> <<machine, 1>>, seq |-> 1, kind |-> "settings", row |-> row,
             pushed |-> FALSE, as |-> None]
    BY <1>6, <2>1 DEF Event
  <2>4. outbox' = {e}
    BY <1>1, <1>6 DEF Appended, row
  <2>5. e \in OutboxEvents
    BY <1>2, <1>5, <2>2, <2>3 DEF OutboxEvents
  <2> QED
    BY <2>3, <2>4, <2>5
<1> HIDE DEF row
<1>8. /\ Sent(e).id = <<machine, 1>> /\ Sent(e).seq = 1 /\ Sent(e).kind = "settings"
      /\ Sent(e).row = row
  BY <1>7, SentIs
<1>9. TypeOK'
  BY <1>1, <1>4, <1>7 DEF RestoreInv, TypeOK, OutboxEvents
<1>10. IsFiniteSet(outbox') /\ IsFiniteSet(cloud')
  BY <1>1, <1>7, FS_Singleton DEF RestoreInv
<1>11. /\ Everything' = cloud \cup {Sent(e)} /\ cloud \subseteq Everything
       /\ \A c \in cloud : c.id[1] < machine /\ c.id[1] \in Nat
  BY <1>1, <1>7, TypedEvents DEF RestoreInv, Staged, Everything, SentOf
<1>12. Numbered'
  <2>1. CarriesItsKind(Sent(e))
    BY <1>5, <1>8, NewStoreIs DEF CarriesItsKind, PartOf
  <2>2. Sent(e).id[1] = machine /\ Sent(e).id[2] = 1 /\ machine \in 1..machine
    BY <1>2, <1>8
  <2>3. \A x \in Everything' :
          /\ x.id[2] = x.seq /\ x.seq >= 1 /\ x.id[1] \in 1..machine'
          /\ CarriesItsKind(x) /\ FiniteRows(x.row)
    <3>1. ASSUME NEW x \in cloud
          PROVE  /\ x.id[2] = x.seq /\ x.seq >= 1 /\ x.id[1] \in 1..machine'
                 /\ CarriesItsKind(x) /\ FiniteRows(x.row)
      BY <1>1, <1>11 DEF RestoreInv, Numbered
    <3>2. /\ Sent(e).id[2] = Sent(e).seq /\ Sent(e).seq >= 1
          /\ Sent(e).id[1] \in 1..machine' /\ FiniteRows(Sent(e).row)
      BY <1>1, <1>5, <1>8, <2>2
    <3> QED
      BY <1>11, <2>1, <3>1, <3>2
  <2>4. \A c \in cloud : c.id # Sent(e).id
    BY <1>2, <1>11, <2>2
  <2>5. \A a, b \in Everything' :
          /\ a.id = b.id => a = b
          /\ a.seq = b.seq => a = b \/ a.kind = "settings" \/ b.kind = "settings"
    <3>1. \A a, b \in cloud :
            /\ a.id = b.id => a = b
            /\ a.seq = b.seq => a = b \/ a.kind = "settings" \/ b.kind = "settings"
      BY <1>11 DEF RestoreInv, Numbered
    <3> QED
      BY <1>8, <1>11, <2>4, <3>1
  <2>6. 1 \in SequencesOf(outbox')
    BY <1>7 DEF SequencesOf
  <2> QED
    BY <1>1, <1>7, <2>3, <2>5, <2>6 DEF RestoreInv, Numbered, Alive, Unsent
<1>13. Staged'
  BY <1>1, <1>3, <1>4, <1>7 DEF RestoreInv, Staged, Whole
<1>14. History'
  BY <1>1 DEF RestoreInv, History, Whole
<1>15. Sound'
  BY <1>1, <1>7 DEF RestoreInv, Sound, Alive
<1> QED
  BY <1>4, <1>9, <1>10, <1>12, <1>13, <1>14, <1>15 DEF RestoreInv

(* Settings with a sequence that is taken make no difference.              *)
LEMMA FromBeside ==
    ASSUME NEW base, NEW E, NEW s, From(base, E, s), NEW X,
           \A x \in X : /\ x.kind = "settings" /\ CarriesItsKind(x)
                        /\ \E c \in E : c.seq = x.seq /\ c # x
    PROVE  From(base, E \cup X, s)
<1>1. \A kind : kind # "settings" =>
        OfKind(E \cup X, kind) = OfKind(E, kind) /\ Newest(E \cup X, kind) = Newest(E, kind)
  BY DEF OfKind, Newest
<1>2. SettingsFrom(E \cup X, s)
  <2>1. CASE X = {}
    <3>1. E \cup X = E
      BY <2>1
    <3> QED
      BY <3>1 DEF From
  <2>2. CASE X # {}
    BY <2>2 DEF SettingsFrom, InOrder
  <2> QED
    BY <2>1, <2>2
<1>3. ProductFrom(base, E \cup X, s) /\ ChargeFrom(E \cup X, s) /\ KioskFrom(E \cup X, s)
  BY <1>1 DEF From, ProductFrom, ChargeFrom, KioskFrom
<1>4. RowsFrom(base, E \cup X, s)
  <2>1. \A x \in X : /\ x.row.moves = {} /\ x.row.ledger = {} /\ x.row.sales = {}
                     /\ x.row.payments = {} /\ x.row.refunds = {}
    BY DEF CarriesItsKind
  <2>2. /\ UNION {x.row.moves : x \in E \cup X} = UNION {x.row.moves : x \in E}
        /\ UNION {x.row.ledger : x \in E \cup X} = UNION {x.row.ledger : x \in E}
        /\ UNION {x.row.sales : x \in E \cup X} = UNION {x.row.sales : x \in E}
        /\ UNION {x.row.payments : x \in E \cup X} = UNION {x.row.payments : x \in E}
        /\ UNION {x.row.refunds : x \in E \cup X} = UNION {x.row.refunds : x \in E}
    BY <2>1
  <2> QED
    BY <2>2 DEF From, RowsFrom
<1> QED
  BY <1>2, <1>3, <1>4 DEF From

(* An event that was not uploaded and tells of no store is settings saved  *)
(* before a restore, and takes a sequence the cloud has.                   *)
LEMMA UntoldIsBeside ==
    ASSUME RestoreInv, Alive, NEW e \in Unsent, e.as = None
    PROVE  /\ Sent(e).kind = "settings" /\ CarriesItsKind(Sent(e)) /\ Sent(e).seq = 1
           /\ \E c \in cloud : c.seq = Sent(e).seq /\ c # Sent(e)
<1>1. e \in outbox /\ Sent(e) \notin cloud /\ Sent(e) \in Everything
  BY DEF Unsent, Everything, SentOf
<1>2. e.kind = "settings" /\ e.seq = 1 /\ cloud # {}
  BY <1>1 DEF RestoreInv, Numbered
<1>3. 1 \in SequencesOf(cloud)
  BY <1>2 DEF RestoreInv, Numbered
<1>4. Sent(e).kind = "settings" /\ Sent(e).seq = 1
  BY <1>1, <1>2, SentIs, TypedEvents DEF RestoreInv
<1>5. CarriesItsKind(Sent(e))
  BY <1>1 DEF RestoreInv, Numbered
<1> QED
  BY <1>1, <1>3, <1>4, <1>5 DEF SequencesOf

(* All there is, is in the cloud or was not uploaded.                      *)
LEMMA EverythingIs == Everything = cloud \cup SentOf(Unsent)
  BY DEF Everything, SentOf, Unsent

(* A store that adopts the cloud of the lost machine trades on.            *)
LEMMA AdoptKeeps ==
    ASSUME RestoreAssumption, RestoreInv, Adopt PROVE RestoreInv'
<1>1. /\ stage = "replayed" /\ stage' = "trading" /\ answer' = None /\ kept' = store
      /\ sync' = [ready |-> TRUE, enabled |-> TRUE, backfilled |-> TRUE]
      /\ due' = 0 /\ silent' = FALSE
      /\ UNCHANGED <<store, outbox, cloud, machine>>
  BY DEF Adopt
<1>2. TypeOK'
  BY <1>1 DEF RestoreInv, TypeOK
<1>3. From(NewStore, cloud, store) /\ VerifyRestoreIntegrity(store)
  BY <1>1 DEF RestoreInv, History, Sound, Alive
<1>4. \A e \in outbox : e.as = None
  BY <1>1 DEF RestoreInv, Staged
<1>5. Numbered'
  BY <1>1 DEF RestoreInv, Numbered, Alive, Everything, Unsent
<1>6. Staged'
  BY <1>1 DEF Staged, RestoreAssumption
<1>7. From(NewStore, Everything, store)
  <2>1. \A x \in SentOf(Unsent) : /\ x.kind = "settings" /\ CarriesItsKind(x)
                                  /\ \E c \in cloud : c.seq = x.seq /\ c # x
    BY <1>1, <1>4, UntoldIsBeside DEF Alive, SentOf, Unsent
  <2> QED
    BY <1>3, <2>1, FromBeside, EverythingIs
<1>8. Everything' = Everything /\ Base' = NewStore
  BY <1>1 DEF Everything, Base, RestoreAssumption
<1>9. History'
  BY <1>1, <1>3, <1>4, <1>7, <1>8 DEF History, Unsent
<1>10. Sound'
  BY <1>1, <1>3, <1>4 DEF Sound
<1> QED
  BY <1>1, <1>2, <1>5, <1>6, <1>9, <1>10 DEF RestoreInv

(* The manager stops before it adopts.                                     *)
LEMMA StopBeforeAdoptKeeps ==
    ASSUME RestoreAssumption, RestoreInv, StopBeforeAdopt PROVE RestoreInv'
<1>1. /\ stage' = "orphan" /\ answer' = None
      /\ UNCHANGED <<store, outbox, sync, cloud, machine, kept, due, silent>>
  BY DEF StopBeforeAdopt, historyVars
<1>2. TypeOK'
  BY <1>1 DEF RestoreInv, TypeOK
<1>3. Numbered'
  BY <1>1 DEF RestoreInv, Numbered, Alive, Everything, Unsent
<1>4. Staged'
  BY <1>1 DEF Staged, RestoreAssumption
<1>5. History'
  BY <1>1 DEF RestoreInv, History, Whole
<1>6. Sound'
  BY <1>1 DEF RestoreInv, Sound, Alive
<1> QED
  BY <1>1, <1>2, <1>3, <1>4, <1>5, <1>6 DEF RestoreInv

(* What the replay of the cloud gives a fresh installation.                *)
LEMMA CloudIsReplayed ==
    ASSUME RestoreAssumption, RestoreInv, stage = "fresh"
    PROVE  Replayed(cloud) \in Stores /\ From(NewStore, cloud, Replayed(cloud))
<1>1. Fresh(store)
  BY DEF RestoreInv, TypeOK, Staged, Fresh, Stores
<1>2. /\ cloud \subseteq CloudEvents /\ cloud \subseteq Everything
      /\ \A e \in CloudEvents : e.seq \in Nat /\ e.id[1] \in Nat /\ e.id[2] \in Nat
      /\ \A e \in CloudEvents : e.kind \in Kinds /\ e.row \in Stores
      /\ \A e \in CloudEvents : e.id = <<e.id[1], e.id[2]>>
  BY TypedEvents DEF RestoreInv, Everything, CloudEvents
<1>3. Placed(cloud)
  <2>1. \A a, b \in cloud : a.id = b.id => a = b
    BY <1>2 DEF RestoreInv, Numbered
  <2>2. \A a \in cloud : a.id = <<a.id[1], a.seq>>
    BY <1>2 DEF RestoreInv, Numbered
  <2>3. \A a, b \in cloud : a.seq = b.seq /\ a.id[1] = b.id[1] => a.id = b.id
    BY <2>2
  <2> QED
    BY <1>2, <2>1, <2>3 DEF Placed
<1>4. IsFiniteSet(cloud) /\ \A e \in cloud : CarriesItsKind(e)
  BY <1>2 DEF RestoreInv, Numbered
<1> QED
  BY <1>1, <1>2, <1>3, <1>4, ReplayedFrom

(* Everything is rolled back: the store was not whole.                     *)
LEMMA RefuseRestoreKeeps ==
    ASSUME RestoreAssumption, RestoreInv, RefuseRestore PROVE RestoreInv'
<1>1. /\ stage = "fresh" /\ ~VerifyRestoreIntegrity(Replayed(cloud)) /\ answer' = "refused"
      /\ UNCHANGED <<store, outbox, sync, cloud, stage, machine, kept, due, silent>>
  BY DEF RefuseRestore, Offered, historyVars
<1>2. ~Whole
  <2>1. SUFFICES ASSUME Whole PROVE FALSE
    OBVIOUS
  <2>2. PICK s : s = Replayed(cloud)
    OBVIOUS
  <2>3. Alike(kept, s)
    BY <1>1, <2>1, <2>2, CloudIsReplayed, KeptIsRestored
  <2>4. VerifyRestoreIntegrity(s)
    BY <2>3, SameIntegrity DEF RestoreInv, Sound
  <2> QED
    BY <1>1, <2>2, <2>4
<1>3. TypeOK'
  BY <1>1 DEF RestoreInv, TypeOK
<1>4. Numbered'
  BY <1>1 DEF RestoreInv, Numbered, Alive, Everything, Unsent
<1>5. Staged'
  BY <1>1, <1>2 DEF RestoreInv, Staged, Whole
<1>6. History'
  BY <1>1 DEF RestoreInv, History, Whole
<1>7. Sound'
  BY <1>1 DEF RestoreInv, Sound, Alive
<1> QED
  BY <1>1, <1>3, <1>4, <1>5, <1>6, <1>7 DEF RestoreInv

(* Of the events that replay a sequence, the outbox keeps the first.       *)
LEMMA FirstIs ==
    ASSUME NEW E, IsFiniteSet(E), Placed(E)
    PROVE  \A P \in SUBSET E : P # {} => \E e \in P : \A x \in P : ~Before(x, e)
<1> DEFINE Good == {P \in SUBSET E : P = {} \/ \E e \in P : \A x \in P : ~Before(x, e)}
<1>0. \A a, b, c \in E : Before(a, b) /\ Before(b, c) => Before(a, c)
  BY BeforeIsOrder
<1>9. \A a \in E : ~Before(a, a)
  BY DEF Before, Earlier, Placed
<1>1. ASSUME NEW U \in SUBSET E, \A V \in SUBSET U : V # U => V \in Good
      PROVE  U \in Good
  <2>1. CASE U = {}
    BY <2>1
  <2>2. CASE U # {}
    <3>1. PICK y \in U : TRUE
      BY <2>2
    <3>2. U \ {y} \in Good
      BY <1>1, <3>1
    <3>3. CASE U \ {y} = {}
      BY <1>9, <3>1, <3>3
    <3>4. CASE U \ {y} # {}
      <4>1. PICK e \in U \ {y} : \A x \in U \ {y} : ~Before(x, e)
        BY <3>2, <3>4
      <4>2. CASE ~Before(y, e)
        BY <4>1, <4>2
      <4>3. CASE Before(y, e)
        <5>1. \A x \in U : ~Before(x, y)
          BY <1>0, <1>9, <3>1, <4>1, <4>3
        <5> QED
          BY <3>1, <5>1
      <4> QED
        BY <4>2, <4>3
    <3> QED
      BY <3>3, <3>4
  <2> QED
    BY <2>1, <2>2
<1> HIDE DEF Good
<1>2. \A P \in SUBSET E : P \in Good
  BY <1>1, SubsetInduction
<1>3. ASSUME NEW P \in SUBSET E, P # {}
      PROVE  \E e \in P : \A x \in P : ~Before(x, e)
  BY <1>2, <1>3 DEF Good
<1> QED
  BY <1>3

(* Finitely many events of finitely many rows make a finite store.         *)
LEMMA FromIsFinite ==
    ASSUME NEW E, IsFiniteSet(E), NEW s, From(NewStore, E, s),
           \A e \in E : FiniteRows(e.row)
    PROVE  FiniteRows(s)
<1>1. ASSUME NEW f, DOMAIN f = E, \A e \in E : IsFiniteSet(f[e]),
             f = [e \in E |-> f[e]]
      PROVE  IsFiniteSet(UNION {f[e] : e \in E})
  <2>1. IsFiniteSet({f[e] : e \in E})
    BY <1>1, ImageIsFinite
  <2>2. \A T \in {f[e] : e \in E} : IsFiniteSet(T)
    BY <1>1
  <2> QED
    BY <2>1, <2>2, FS_UNION
<1>2. /\ NewStore.moves = {} /\ NewStore.ledger = {} /\ NewStore.sales = {}
      /\ NewStore.payments = {} /\ NewStore.refunds = {}
  BY DEF NewStore
<1>3. \A e \in E : /\ IsFiniteSet(e.row.moves) /\ IsFiniteSet(e.row.ledger)
                   /\ IsFiniteSet(e.row.sales) /\ IsFiniteSet(e.row.payments)
                   /\ IsFiniteSet(e.row.refunds)
  BY DEF FiniteRows
<1>4. IsFiniteSet(s.moves)
  <2> DEFINE f == [e \in E |-> e.row.moves]
  <2>1. IsFiniteSet(UNION {f[e] : e \in E})
    BY <1>1, <1>3
  <2> QED
    BY <1>2, <2>1 DEF From, RowsFrom
<1>5. IsFiniteSet(s.ledger)
  <2> DEFINE f == [e \in E |-> e.row.ledger]
  <2>1. IsFiniteSet(UNION {f[e] : e \in E})
    BY <1>1, <1>3
  <2> QED
    BY <1>2, <2>1 DEF From, RowsFrom
<1>6. IsFiniteSet(s.sales)
  <2> DEFINE f == [e \in E |-> e.row.sales]
  <2>1. IsFiniteSet(UNION {f[e] : e \in E})
    BY <1>1, <1>3
  <2> QED
    BY <1>2, <2>1 DEF From, RowsFrom
<1>7. IsFiniteSet(s.payments)
  <2> DEFINE f == [e \in E |-> e.row.payments]
  <2>1. IsFiniteSet(UNION {f[e] : e \in E})
    BY <1>1, <1>3
  <2> QED
    BY <1>2, <2>1 DEF From, RowsFrom
<1>8. IsFiniteSet(s.refunds)
  <2> DEFINE f == [e \in E |-> e.row.refunds]
  <2>1. IsFiniteSet(UNION {f[e] : e \in E})
    BY <1>1, <1>3
  <2> QED
    BY <1>2, <2>1 DEF From, RowsFrom
<1> QED
  BY <1>4, <1>5, <1>6, <1>7, <1>8 DEF FiniteRows

(* The rows and the outbox of the restored machine.                        *)
LEMMA RestoreKeeps ==
    ASSUME RestoreAssumption, RestoreInv, Restore PROVE RestoreInv'
<1>1. /\ stage = "fresh" /\ cloud # {} /\ VerifyRestoreIntegrity(Replayed(cloud))
      /\ store' = Replayed(cloud) /\ outbox' = Seeded(cloud)
      /\ stage' = "replayed" /\ answer' = "restored"
      /\ UNCHANGED <<sync, cloud, machine, kept, due, silent>>
  BY DEF Restore, Offered, historyVars
<1>2. /\ store' \in Stores /\ From(NewStore, cloud, store')
      /\ VerifyRestoreIntegrity(store')
  BY <1>1, CloudIsReplayed
<1>3. /\ outbox \subseteq OutboxEvents /\ cloud \subseteq CloudEvents
      /\ cloud \subseteq Everything /\ Everything \subseteq CloudEvents
      /\ IsFiniteSet(cloud) /\ IsFiniteSet(outbox)
      /\ \A e \in CloudEvents : e.seq \in Nat /\ e.id[1] \in Nat /\ e.id[2] \in Nat
  BY TypedEvents DEF RestoreInv, Everything
<1>4. \A e \in outbox : /\ e.as = None /\ ~e.pushed /\ e.kind = "settings" /\ e.seq = 1
  BY <1>1 DEF RestoreInv, Staged, Numbered
<1> DEFINE firsts == {x \in cloud : /\ x.seq \notin SequencesOf(outbox)
                                    /\ \A y \in cloud : y.seq = x.seq => ~Before(y, x)}
           copy(e) == [id |-> e.id, seq |-> e.seq, kind |-> e.kind, row |-> e.row,
                       pushed |-> TRUE, as |-> None]
           C == {copy(e) : e \in firsts}
<1>5. outbox' = outbox \cup C
  BY <1>1 DEF Seeded
<1>6. ASSUME NEW e \in CloudEvents
      PROVE  /\ copy(e) \in OutboxEvents /\ copy(e).as = None /\ copy(e).pushed
             /\ copy(e).seq = e.seq /\ Sent(copy(e)) = e
  BY DEF CloudEvents, OutboxEvents, Sent
<1> HIDE DEF copy
<1>7. \A x \in C : /\ x \in OutboxEvents /\ x.as = None /\ x.pushed /\ Sent(x) \in firsts
                   /\ x = copy(Sent(x)) /\ x.seq = Sent(x).seq
  BY <1>3, <1>6
<1>8. \A e \in firsts : copy(e) \in C /\ copy(e).seq = e.seq
  BY <1>3, <1>6
<1>9. IsFiniteSet(firsts)
  BY <1>3, FS_Subset
<1>10. IsFiniteSet(C)
  <2> DEFINE f == [e \in firsts |-> copy(e)]
  <2>1. C = {f[e] : e \in firsts}
    OBVIOUS
  <2>2. DOMAIN f = firsts /\ f = [e \in firsts |-> f[e]]
    OBVIOUS
  <2> HIDE DEF f, firsts, C
  <2> QED
    BY <1>9, <2>1, <2>2, ImageIsFinite
<1>11. Placed(cloud)
  <2>1. \A a, b \in cloud : a.id = b.id => a = b
    BY <1>3 DEF RestoreInv, Numbered
  <2>2. \A a \in cloud : a.id = <<a.id[1], a.seq>>
    BY <1>3 DEF RestoreInv, Numbered, CloudEvents
  <2>3. \A a, b \in cloud : a.seq = b.seq /\ a.id[1] = b.id[1] => a.id = b.id
    BY <2>2
  <2> QED
    BY <1>3, <2>1, <2>3 DEF Placed
<1>12. \A a, b \in firsts : a.seq = b.seq => a = b
  BY <1>11, BeforeIsOrder
<1>13. \A c \in cloud : c.seq \notin SequencesOf(outbox) => \E e \in firsts : e.seq = c.seq
  <2>1. SUFFICES ASSUME NEW c \in cloud, c.seq \notin SequencesOf(outbox)
                 PROVE  \E e \in firsts : e.seq = c.seq
    OBVIOUS
  <2> DEFINE P == {x \in cloud : x.seq = c.seq}
  <2>2. P \in SUBSET cloud /\ P # {}
    OBVIOUS
  <2>3. \E e \in P : \A x \in P : ~Before(x, e)
    <3> HIDE DEF P
    <3> QED
      BY <1>3, <1>11, <2>2, FirstIs
  <2> QED
    BY <2>1, <2>3
<1> HIDE DEF firsts, C
<1>14. SequencesOf(cloud) \subseteq SequencesOf(outbox')
  <2>1. ASSUME NEW c \in cloud PROVE \E e \in outbox' : e.seq = c.seq
    <3>1. CASE c.seq \in SequencesOf(outbox)
      BY <1>5, <3>1 DEF SequencesOf
    <3>2. CASE c.seq \notin SequencesOf(outbox)
      BY <1>5, <1>8, <1>13, <3>2
    <3> QED
      BY <3>1, <3>2
  <2> QED
    BY <2>1 DEF SequencesOf
<1>15. firsts \subseteq cloud
  BY DEF firsts
<1>16. SentOf(outbox') \subseteq Everything
  BY <1>5, <1>7, <1>15 DEF SentOf, Everything
<1>17. Everything' = Everything
  <2>1. SentOf(outbox') = SentOf(outbox) \cup SentOf(C)
    BY <1>5 DEF SentOf
  <2>2. SentOf(C) \subseteq cloud
    BY <1>7, <1>15 DEF SentOf
  <2> QED
    BY <1>1, <2>1, <2>2 DEF Everything
<1>18. Unsent' \subseteq Unsent
  BY <1>1, <1>5, <1>7, <1>15 DEF Unsent
<1>19. \A a, b \in outbox' : a.seq = b.seq => a = b
  <2>1. \A a, b \in outbox : a.seq = b.seq => a = b
    BY DEF RestoreInv, Numbered
  <2>2. \A a, b \in C : a.seq = b.seq => a = b
    BY <1>7, <1>12
  <2>3. \A a \in outbox, b \in C : a.seq # b.seq
    BY <1>7 DEF firsts, SequencesOf
  <2> QED
    BY <1>5, <2>1, <2>2, <2>3
<1>20. Numbered'
  <2>1. \A e \in outbox' : e.pushed => e \notin Unsent'
    BY <1>1, <1>4, <1>5, <1>7, <1>15 DEF Unsent
  <2>2. \A e \in outbox' : e.as = None /\ ~e.pushed => e.kind = "settings" /\ e.seq = 1
    BY <1>4, <1>5, <1>7
  <2>3. /\ cloud' # {} => 1 \in SequencesOf(cloud')
        /\ 1 \in SequencesOf(outbox')
    <3>1. 1 \in SequencesOf(cloud)
      BY <1>1 DEF RestoreInv, Numbered
    <3> QED
      BY <1>1, <1>14, <3>1
  <2>4. \A e \in Unsent' : e.as = None
    BY <1>4, <1>5, <1>7 DEF Unsent
  <2>5. \A e \in Everything :
          /\ e.id[2] = e.seq /\ e.seq >= 1 /\ e.id[1] \in 1..machine
          /\ CarriesItsKind(e) /\ FiniteRows(e.row)
    BY DEF RestoreInv, Numbered
  <2>6. \A a, b \in Everything :
          /\ a.id = b.id => a = b
          /\ a.seq = b.seq => a = b \/ a.kind = "settings" \/ b.kind = "settings"
    BY DEF RestoreInv, Numbered
  <2> QED
    BY <1>1, <1>14, <1>17, <1>19, <2>1, <2>2, <2>3, <2>4, <2>5, <2>6 DEF Numbered
<1>21. TypeOK'
  <2>1. outbox' \subseteq OutboxEvents
    BY <1>3, <1>5, <1>7
  <2> QED
    BY <1>1, <1>2, <2>1 DEF RestoreInv, TypeOK, OutboxEvents
<1>22. IsFiniteSet(outbox') /\ IsFiniteSet(cloud')
  BY <1>1, <1>3, <1>5, <1>10, FS_Union
<1>23. FiniteRows(store')
  <2>1. \A e \in cloud : FiniteRows(e.row)
    BY <1>3 DEF RestoreInv, Numbered
  <2> QED
    BY <1>2, <1>3, <2>1, FromIsFinite
<1>24. \A e \in outbox' : e.as = None
  BY <1>4, <1>5, <1>7
<1>25. Staged'
  BY <1>1, <1>24 DEF Staged
<1>26. History'
  BY <1>1, <1>2 DEF RestoreInv, History, Whole
<1>27. Sound'
  BY <1>1, <1>2, <1>24 DEF RestoreInv, Sound
<1> QED
  BY <1>20, <1>21, <1>22, <1>23, <1>25, <1>26, <1>27 DEF RestoreInv, FiniteRows

(* ------------------------------- Uploading ------------------------------- *)

(* Of finitely many events one has the largest sequence.                   *)
LEMMA NewestIs ==
    ASSUME NEW E, IsFiniteSet(E), E # {}, \A e \in E : e.seq \in Nat /\ e.seq >= 1
    PROVE  \E e \in E : \A x \in E : x.seq <= e.seq
<1> DEFINE n == Largest(SequencesOf(E))
<1>1. n \in Nat /\ n \in SequencesOf(E) \cup {0} /\ \A e \in E : e.seq <= n
  BY NextSequenceIs
<1> HIDE DEF n
<1>2. n # 0
  BY <1>1
<1> QED
  BY <1>1, <1>2 DEF SequencesOf

(* A batch goes to the cloud, with or without its mark in the outbox.      *)
LEMMA UploadKeeps ==
    ASSUME RestoreAssumption, RestoreInv, NEW last \in Pending,
           NEW marked \in BOOLEAN,
           Upload(last, marked)
    PROVE  RestoreInv'
<1> DEFINE n == last.seq
           batch == {e \in Pending : e.seq <= n}
           new == {e \in batch : \A c \in cloud : c.id # e.id}
           told == {e \in new : e.as # None}
           mark(e) == IF e \in batch THEN [e EXCEPT !.pushed = marked] ELSE e
<1>1. /\ stage = "trading" /\ sync.enabled /\ cloud' = cloud \cup SentOf(new)
      /\ outbox' = (outbox \ batch) \cup {[e EXCEPT !.pushed = marked] : e \in batch}
      /\ kept' = IF told = {} THEN kept
                 ELSE (CHOOSE e \in told : \A x \in told : x.seq <= e.seq).as
      /\ UNCHANGED <<store, sync, stage, machine, answer, due, silent>>
  BY DEF Upload, machineVars, SentOf
<1>2. /\ outbox \subseteq OutboxEvents /\ cloud \subseteq CloudEvents
      /\ Everything \subseteq CloudEvents /\ cloud \subseteq Everything
      /\ SentOf(outbox) \subseteq Everything
      /\ \A e \in CloudEvents : e.seq \in Nat
      /\ \A e \in OutboxEvents : e.seq \in Nat
      /\ IsFiniteSet(outbox) /\ IsFiniteSet(cloud)
  BY TypedEvents DEF RestoreInv, Everything
<1>3. \A e \in outbox : /\ Sent(e) \in Everything /\ Sent(e).id = e.id /\ Sent(e).seq = e.seq
                        /\ Sent(e).kind = e.kind /\ e.seq \in Nat
                        /\ e.seq >= 1
  <2>1. \A e \in outbox : Sent(e) \in Everything
    BY <1>2 DEF SentOf
  <2> QED
    BY <1>2, <2>1, SentIs DEF RestoreInv, Numbered
<1>4. last \in outbox /\ n \in Nat /\ n >= 1
  BY <1>3 DEF Pending
<1>5. batch \subseteq outbox /\ \A e \in batch : ~e.pushed /\ e.seq <= n
  BY DEF Pending
<1>6. new = {e \in Unsent : e.seq <= n}
  <2>1. \A e \in outbox : (\A c \in cloud : c.id # e.id) <=> Sent(e) \notin cloud
    BY <1>2, <1>3 DEF RestoreInv, Numbered
  <2>2. \A e \in Unsent : e \in outbox /\ ~e.pushed
    BY DEF RestoreInv, Numbered, Unsent
  <2> QED
    BY <2>1, <2>2 DEF Unsent, Pending
<1>7. told = {e \in Unsent : e.seq <= n /\ e.as # None}
  BY <1>6
<1>8. /\ outbox' = {mark(e) : e \in outbox}
      /\ \A e \in outbox : /\ mark(e) \in OutboxEvents /\ mark(e).seq = e.seq
                           /\ mark(e).as = e.as /\ Sent(mark(e)) = Sent(e)
                           /\ mark(e).kind = e.kind
                           /\ ~mark(e).pushed => ~e.pushed
                           /\ mark(e) = e \/ e \in batch
  <2>1. \A e \in outbox : e \notin batch => mark(e) = e
    OBVIOUS
  <2>2. \A e \in batch : mark(e) = [e EXCEPT !.pushed = marked] /\ e \in outbox
    BY <1>5
  <2>3. ASSUME NEW e \in batch
        PROVE  /\ mark(e) \in OutboxEvents /\ mark(e).seq = e.seq
               /\ mark(e).as = e.as /\ Sent(mark(e)) = Sent(e) /\ mark(e).kind = e.kind
               /\ ~e.pushed
    <3>1. PICK x : x = [e EXCEPT !.pushed = marked]
      OBVIOUS
    <3>2. e \in OutboxEvents /\ ~e.pushed
      BY <1>2, <1>5
    <3>3. x \in OutboxEvents /\ x.seq = e.seq /\ x.as = e.as /\ x.kind = e.kind
          /\ x.id = e.id /\ x.row = e.row
      BY <3>1, <3>2 DEF OutboxEvents
    <3>4. Sent(x) = Sent(e)
      BY <3>3 DEF Sent
    <3>5. mark(e) = x
      BY <2>2, <3>1
    <3> HIDE DEF mark
    <3> QED
      BY <3>2, <3>3, <3>4, <3>5
  <2> HIDE DEF mark, batch
  <2>4. outbox' = {mark(e) : e \in outbox}
    BY <1>1, <1>5, <2>1, <2>2
  <2> QED
    BY <1>2, <2>1, <2>3, <2>4
<1> HIDE DEF mark, n
<1>9. \A x \in outbox' : \E e \in outbox : x = mark(e)
  BY <1>8
<1>10. SentOf(outbox') = SentOf(outbox) /\ SequencesOf(outbox') = SequencesOf(outbox)
  <2>1. \A e \in outbox : mark(e) \in outbox'
    BY <1>8
  <2>2. SentOf(outbox') = SentOf(outbox)
    BY <1>8, <1>9, <2>1 DEF SentOf
  <2>3. SequencesOf(outbox') = SequencesOf(outbox)
    BY <1>8, <1>9, <2>1 DEF SequencesOf
  <2> QED
    BY <2>2, <2>3
<1>11. new \subseteq outbox /\ new \subseteq Unsent /\ \A e \in new : e.seq <= n
  BY <1>6 DEF Unsent
<1>12. Everything' = Everything
  <2>1. SentOf(new) \subseteq SentOf(outbox)
    BY <1>11 DEF SentOf
  <2> QED
    BY <1>1, <1>10, <2>1 DEF Everything
<1>13. cloud' = UpTo(n)
  <2>1. \A e \in outbox : e.seq <= n => e \in new \/ Sent(e) \in cloud
    BY <1>6 DEF Unsent
  <2> HIDE DEF new
  <2> QED
    BY <1>1, <1>11, <2>1 DEF UpTo, SentOf
<1>14. \A x \in Unsent' : x \in Unsent /\ x.seq > n
  <2>1. SUFFICES ASSUME NEW x \in Unsent' PROVE x \in Unsent /\ x.seq > n
    OBVIOUS
  <2>2. x \in outbox' /\ Sent(x) \notin cloud'
    BY <2>1 DEF Unsent
  <2>3. PICK e \in outbox : x = mark(e)
    BY <1>9, <2>2
  <2>4. Sent(e) \notin cloud'
    BY <1>8, <2>2, <2>3
  <2>5. ~(e.seq <= n)
    BY <1>13, <2>4 DEF UpTo, SentOf
  <2>6. x = e
    BY <1>5, <1>8, <2>3, <2>5
  <2> QED
    BY <1>1, <1>3, <1>4, <2>2, <2>5, <2>6 DEF Unsent
<1>15. \/ told = {} /\ kept' = kept
       \/ \E t \in told : kept' = t.as /\ \A x \in told : x.seq <= t.seq
  <2>1. CASE told = {}
    BY <1>1, <2>1
  <2>2. CASE told # {}
    <3>1. told \subseteq outbox
      BY <1>11
    <3>2. IsFiniteSet(told) /\ \A e \in told : e.seq \in Nat /\ e.seq >= 1
      BY <1>2, <1>3, <3>1, FS_Subset
    <3> HIDE DEF told
    <3>3. \E e \in told : \A x \in told : x.seq <= e.seq
      BY <2>2, <3>2, NewestIs
    <3>4. PICK t : t = CHOOSE e \in told : \A x \in told : x.seq <= e.seq
      OBVIOUS
    <3>5. t \in told /\ \A x \in told : x.seq <= t.seq
      BY <3>3, <3>4
    <3>6. kept' = t.as
      BY <1>1, <2>2, <3>4
    <3> QED
      BY <3>5, <3>6
  <2> QED
    BY <2>1, <2>2
<1> HIDE DEF new, told
<1>16. \A t \in told : /\ t \in Unsent /\ t \in outbox /\ t.seq <= n /\ t.as # None
                       /\ t.as \in Stores /\ VerifyRestoreIntegrity(t.as)
  <2>1. \A t \in told : t \in Unsent /\ t \in outbox /\ t.seq <= n /\ t.as # None
    BY <1>7 DEF Unsent
  <2> QED
    BY <1>2, <2>1 DEF RestoreInv, Sound, OutboxEvents
<1>17. TypeOK'
  <2>1. outbox' \subseteq OutboxEvents
    BY <1>8
  <2>2. cloud' \subseteq CloudEvents
    <3>1. SentOf(new) \subseteq SentOf(outbox)
      BY <1>11 DEF SentOf
    <3> QED
      BY <1>1, <1>2, <3>1
  <2>3. kept' \in Stores
    BY <1>15, <1>16 DEF RestoreInv, TypeOK
  <2> QED
    BY <1>1, <2>1, <2>2, <2>3 DEF RestoreInv, TypeOK, OutboxEvents, CloudEvents
<1>18. IsFiniteSet(outbox') /\ IsFiniteSet(cloud')
  <2>1. IsFiniteSet(outbox')
    <3> DEFINE f == [e \in outbox |-> mark(e)]
    <3>1. outbox' = {f[e] : e \in outbox} /\ DOMAIN f = outbox /\ f = [e \in outbox |-> f[e]]
      BY <1>8
    <3> HIDE DEF f
    <3>2. IsFiniteSet({f[e] : e \in outbox})
      BY <1>2, <3>1, ImageIsFinite
    <3> QED
      BY <3>1, <3>2
  <2>2. IsFiniteSet(SentOf(new))
    <3> DEFINE f == [e \in new |-> Sent(e)]
    <3>1. SentOf(new) = {f[e] : e \in new} /\ DOMAIN f = new /\ f = [e \in new |-> f[e]]
      BY DEF SentOf
    <3>2. IsFiniteSet(new)
      BY <1>2, <1>11, FS_Subset
    <3> HIDE DEF f
    <3>3. IsFiniteSet({f[e] : e \in new})
      BY <3>1, <3>2, ImageIsFinite
    <3> QED
      BY <3>1, <3>3
  <2> QED
    BY <1>1, <1>2, <2>1, <2>2, FS_Union
<1>19. Numbered'
  <2>1. \A e \in Everything :
          /\ e.id[2] = e.seq /\ e.seq >= 1 /\ e.id[1] \in 1..machine
          /\ CarriesItsKind(e) /\ FiniteRows(e.row)
    BY DEF RestoreInv, Numbered
  <2>2. \A x, y \in outbox' : x.seq = y.seq => x = y
    <3>1. \A a, b \in outbox : a.seq = b.seq => a = b
      BY DEF RestoreInv, Numbered
    <3> QED
      BY <1>8, <1>9, <3>1
  <2>3. \A a, b \in Everything :
          /\ a.id = b.id => a = b
          /\ a.seq = b.seq => a = b \/ a.kind = "settings" \/ b.kind = "settings"
    BY DEF RestoreInv, Numbered
  <2>4. \A e \in outbox' : e.pushed => e \notin Unsent'
    BY <1>14 DEF RestoreInv, Numbered, Unsent
  <2>5. \A x \in outbox' : x.as = None /\ ~x.pushed => x.kind = "settings" /\ x.seq = 1
    <3>1. \A e \in outbox : e.as = None /\ ~e.pushed => e.kind = "settings" /\ e.seq = 1
      BY DEF RestoreInv, Numbered
    <3> QED
      BY <1>8, <1>9, <3>1
  <2>6. 1 \in SequencesOf(outbox')
    BY <1>4, <1>10 DEF RestoreInv, Numbered
  <2>7. 1 \in SequencesOf(cloud')
    <3>1. PICK e \in outbox : e.seq = 1
      BY <1>10, <2>6 DEF SequencesOf
    <3>2. CASE cloud = {}
      <4>1. e \in new
        BY <1>4, <1>6, <3>1, <3>2 DEF Unsent
      <4> QED
        BY <1>1, <1>3, <3>1, <4>1 DEF SequencesOf, SentOf
    <3>3. CASE cloud # {}
      BY <1>1, <3>3 DEF RestoreInv, Numbered, SequencesOf
    <3> QED
      BY <3>2, <3>3
  <2>8. SequencesOf(cloud') \subseteq SequencesOf(outbox')
    <3>1. SequencesOf(cloud) \subseteq SequencesOf(outbox)
      BY <1>1 DEF RestoreInv, Numbered, Alive
    <3>2. SequencesOf(SentOf(new)) \subseteq SequencesOf(outbox)
      BY <1>3, <1>11 DEF SequencesOf, SentOf
    <3> QED
      BY <1>1, <1>10, <3>1, <3>2 DEF SequencesOf
  <2>9. (\E e \in Unsent' : e.as = None) => cloud' # {}
    BY <1>1, <1>14 DEF RestoreInv, Numbered, Alive
  <2>10. \A e \in Unsent' : e.as # None => \A c \in cloud' : c.seq < e.seq
    <3>1. SUFFICES ASSUME NEW e \in Unsent', e.as # None, NEW c \in cloud'
                   PROVE  c.seq < e.seq
      OBVIOUS
    <3>2. e \in Unsent /\ e.seq > n /\ e.seq \in Nat
      BY <1>3, <1>14, <3>1 DEF Unsent
    <3>3. CASE c \in cloud
      BY <3>1, <3>2, <3>3 DEF RestoreInv, Numbered
    <3>4. CASE c \in SentOf(new)
      BY <1>3, <1>4, <1>11, <3>2, <3>4 DEF SentOf
    <3> QED
      BY <1>1, <3>1, <3>3, <3>4
  <2> QED
    BY <1>1, <1>12, <2>1, <2>2, <2>3, <2>4, <2>5, <2>6, <2>7, <2>8, <2>9, <2>10
       DEF Numbered
<1>20. Staged'
  BY <1>1 DEF RestoreInv, Staged
<1>21. Sound'
  <2>1. VerifyRestoreIntegrity(kept')
    BY <1>15, <1>16 DEF RestoreInv, Sound
  <2>2. \A e \in outbox' : e.as # None => VerifyRestoreIntegrity(e.as)
    BY <1>8, <1>9 DEF RestoreInv, Sound
  <2>3. VerifyRestoreIntegrity(store')
    BY <1>1 DEF RestoreInv, Sound, Alive
  <2> QED
    BY <2>1, <2>2, <2>3 DEF Sound
<1>22. Base' = Base
  BY <1>1 DEF Base
<1>23. \A m \in Nat : m > n => UpTo(m)' = UpTo(m)
  <2>1. SUFFICES ASSUME NEW m \in Nat, m > n PROVE UpTo(m)' = UpTo(m)
    OBVIOUS
  <2>2. SentOf({x \in outbox' : x.seq <= m}) = SentOf({x \in outbox : x.seq <= m})
    BY <1>8, <1>9 DEF SentOf
  <2>3. UpTo(n) \subseteq UpTo(m) /\ cloud \subseteq UpTo(n)
    BY <1>3, <1>4, <2>1 DEF UpTo, SentOf
  <2>4. UpTo(m)' = cloud' \cup SentOf({x \in outbox' : x.seq <= m})
    BY DEF UpTo
  <2>5. UpTo(m) = cloud \cup SentOf({x \in outbox : x.seq <= m})
    BY DEF UpTo
  <2> QED
    BY <1>13, <2>2, <2>3, <2>4, <2>5
<1>24. ASSUME ~silent
       PROVE  /\ From(Base', Everything', store')
              /\ \A e \in Unsent' : e.as # None /\ (due' = None \/ due' <= e.seq) =>
                   From(Base', UpTo(e.seq)', e.as)
  <2>1. From(Base, Everything, store)
    BY <1>1, <1>24 DEF RestoreInv, History
  <2>2. ASSUME NEW e \in Unsent', e.as # None, due' = None \/ due' <= e.seq
        PROVE  From(Base', UpTo(e.seq)', e.as)
    <3>1. e \in Unsent /\ e.seq > n /\ e.seq \in Nat
      BY <1>3, <1>14, <2>2 DEF Unsent
    <3>2. From(Base, UpTo(e.seq), e.as)
      BY <1>1, <1>24, <2>2, <3>1 DEF RestoreInv, History
    <3> QED
      BY <1>22, <1>23, <3>1, <3>2
  <2> QED
    BY <1>1, <1>12, <1>22, <2>1, <2>2
<1>25. ASSUME Whole' PROVE From(NewStore, cloud', kept')
  <2>1. /\ ~silent /\ due # None /\ due \in Nat /\ Base = NewStore
        /\ \A i \in 1..due : \E c \in cloud' : c.seq = i
    BY <1>1, <1>25 DEF Whole, SequencesOf, Base, RestoreInv, TypeOK
  <2>2. \A e \in new : e \notin told =>
          /\ Sent(e).kind = "settings" /\ CarriesItsKind(Sent(e)) /\ Sent(e).seq = 1
          /\ e.seq = 1
          /\ \E c \in cloud : c.seq = Sent(e).seq /\ c # Sent(e)
    <3>1. \A e \in new : e \in Unsent /\ Sent(e).seq = e.seq
                         /\ (e \notin told => e.as = None)
      BY <1>3, <1>11 DEF told
    <3> QED
      BY <1>1, <3>1, UntoldIsBeside DEF Alive
  <2>3. CASE told = {} /\ kept' = kept
    <3>1. SequencesOf(cloud') = SequencesOf(cloud)
      BY <1>1, <2>2, <2>3 DEF SequencesOf, SentOf
    <3>2. Whole
      BY <1>1, <1>25, <3>1 DEF Whole
    <3>3. From(NewStore, cloud, kept)
      BY <3>2 DEF RestoreInv, History
    <3>4. \A x \in SentOf(new) : /\ x.kind = "settings" /\ CarriesItsKind(x)
                                 /\ \E c \in cloud : c.seq = x.seq /\ c # x
      BY <2>2, <2>3 DEF SentOf
    <3> QED
      BY <1>1, <2>3, <3>3, <3>4, FromBeside
  <2>4. ASSUME NEW t \in told, kept' = t.as, \A x \in told : x.seq <= t.seq
        PROVE  From(NewStore, cloud', kept')
    <3>1. t \in Unsent /\ t \in outbox /\ t.seq \in Nat /\ t.seq >= 1 /\ t.as # None
          /\ t.seq <= n
      BY <1>3, <1>16, <2>4
    <3>2. \A c \in cloud : c.seq < t.seq
      BY <3>1 DEF RestoreInv, Numbered
    <3>3. \A e \in new : e.seq <= t.seq
      BY <2>2, <2>4, <3>1
    <3>4. \A c \in cloud' : c.seq <= t.seq
      BY <1>1, <1>2, <1>3, <1>11, <3>1, <3>2, <3>3 DEF SentOf
    <3>5. due <= t.seq
      <4>1. CASE due = 0
        BY <3>1, <4>1
      <4>2. CASE due # 0
        <5>1. due \in 1..due
          BY <2>1, <4>2
        <5> QED
          BY <2>1, <3>4, <5>1
      <4> QED
        BY <4>1, <4>2
    <3>6. From(NewStore, UpTo(t.seq), t.as)
      BY <1>1, <2>1, <3>1, <3>5 DEF RestoreInv, History
    <3>7. cloud' = UpTo(t.seq)
      <4>1. UpTo(t.seq) \subseteq UpTo(n)
        BY <1>3, <1>4, <3>1 DEF UpTo, SentOf
      <4>2. cloud' \subseteq UpTo(t.seq)
        BY <1>1, <1>11, <3>3 DEF UpTo, SentOf
      <4> QED
        BY <1>13, <4>1, <4>2
    <3> QED
      BY <2>4, <3>6, <3>7
  <2> QED
    BY <1>15, <2>3, <2>4
<1>26. History'
  BY <1>1, <1>24, <1>25 DEF History
<1>27. FiniteRows(store)'
  BY <1>1 DEF RestoreInv, FiniteRows
<1> QED
  BY <1>17, <1>18, <1>19, <1>20, <1>21, <1>26, <1>27 DEF RestoreInv

(* ------------------------------ The backfill ----------------------------- *)

(* An event that tells what the store is.                                  *)
Tells(e, s) ==
    /\ e.kind = "settings" => e.row.settings = s.settings
    /\ e.kind = "product" => e.row.product = s.product
    /\ e.kind = "payment_transaction" => e.row.charge = s.charge
    /\ e.kind = "kiosk" => s.kiosk # None
    /\ PartOf(e.row, s)

(* Events that all tell what the store has now, as those of the backfill,  *)
(* do not change what the events make of the store.                        *)
LEMMA FromTold ==
    ASSUME NEW base, NEW E, NEW s, From(base, E, s), NEW X, IsFiniteSet(X),
           \A x \in X : x.seq \in Nat /\ x.seq >= 1 /\ Tells(x, s),
           \A x \in X, y \in E : y.seq \in Nat /\ y.seq < x.seq
    PROVE  From(base, E \cup X, s)
<1> DEFINE F == E \cup X
<1>1. ASSUME NEW kind, OfKind(X, kind) = {}
      PROVE  OfKind(F, kind) = OfKind(E, kind) /\ Newest(F, kind) = Newest(E, kind)
  BY <1>1 DEF OfKind, Newest
<1>2. ASSUME NEW kind, OfKind(X, kind) # {}
      PROVE  \E x \in X : x.kind = kind /\ x \in Newest(F, kind) /\ x \in OfKind(F, kind)
  <2> DEFINE K == OfKind(X, kind)
  <2>1. IsFiniteSet(K) /\ K # {} /\ \A x \in K : x.seq \in Nat /\ x.seq >= 1
    BY <1>2, FS_Subset DEF OfKind
  <2> HIDE DEF K
  <2>2. PICK x \in K : \A y \in K : y.seq <= x.seq
    BY <2>1, NewestIs
  <2>3. x \in X /\ x.kind = kind /\ \A y \in X : y.kind = kind => y.seq <= x.seq
    BY <2>2 DEF K, OfKind
  <2>4. \A y \in E : y.seq <= x.seq
    BY <2>3
  <2> QED
    BY <2>3, <2>4 DEF Newest, OfKind
<1>3. InOrder(F) => InOrder(E)
  BY DEF InOrder
<1>4. RowsFrom(base, F, s)
  <2>1. \A x \in X : /\ x.row.moves \subseteq s.moves /\ x.row.ledger \subseteq s.ledger
                     /\ x.row.sales \subseteq s.sales /\ x.row.payments \subseteq s.payments
                     /\ x.row.refunds \subseteq s.refunds
    BY DEF Tells, PartOf
  <2>2. s.moves = base.moves \cup UNION {x.row.moves : x \in F}
    BY <2>1 DEF From, RowsFrom
  <2>3. s.ledger = base.ledger \cup UNION {x.row.ledger : x \in F}
    BY <2>1 DEF From, RowsFrom
  <2>4. s.sales = base.sales \cup UNION {x.row.sales : x \in F}
    BY <2>1 DEF From, RowsFrom
  <2>5. s.payments = base.payments \cup UNION {x.row.payments : x \in F}
    BY <2>1 DEF From, RowsFrom
  <2>6. s.refunds = base.refunds \cup UNION {x.row.refunds : x \in F}
    BY <2>1 DEF From, RowsFrom
  <2> QED
    BY <2>2, <2>3, <2>4, <2>5, <2>6 DEF RowsFrom
<1> HIDE DEF F
<1>5. SettingsFrom(F, s)
  <2>1. CASE OfKind(X, "settings") = {}
    BY <1>1, <1>3, <2>1 DEF From, SettingsFrom
  <2>2. CASE OfKind(X, "settings") # {}
    <3>1. PICK x \in X : x.kind = "settings" /\ x \in Newest(F, "settings")
                         /\ x \in OfKind(F, "settings")
      BY <1>2, <2>2
    <3> QED
      BY <3>1 DEF SettingsFrom, Tells
  <2> QED
    BY <2>1, <2>2
<1>6. ProductFrom(base, F, s)
  <2>1. CASE OfKind(X, "product") = {}
    BY <1>1, <2>1 DEF From, ProductFrom
  <2>2. CASE OfKind(X, "product") # {}
    <3>1. PICK x \in X : x.kind = "product" /\ x \in Newest(F, "product")
                         /\ x \in OfKind(F, "product")
      BY <1>2, <2>2
    <3> QED
      BY <3>1 DEF ProductFrom, Tells
  <2> QED
    BY <2>1, <2>2
<1>7. ChargeFrom(F, s)
  <2>1. CASE OfKind(X, "payment_transaction") = {}
    BY <1>1, <2>1 DEF From, ChargeFrom
  <2>2. CASE OfKind(X, "payment_transaction") # {}
    <3>1. PICK x \in X : x.kind = "payment_transaction"
                         /\ x \in Newest(F, "payment_transaction")
                         /\ x \in OfKind(F, "payment_transaction")
      BY <1>2, <2>2
    <3> QED
      BY <3>1 DEF ChargeFrom, Tells
  <2> QED
    BY <2>1, <2>2
<1>8. KioskFrom(F, s)
  <2>1. CASE OfKind(X, "kiosk") = {}
    BY <1>1, <2>1 DEF From, KioskFrom
  <2>2. CASE OfKind(X, "kiosk") # {}
    <3>1. PICK x \in X : x.kind = "kiosk" /\ x \in OfKind(F, "kiosk")
      BY <1>2, <2>2
    <3> QED
      BY <3>1 DEF KioskFrom, Tells
  <2> QED
    BY <2>1, <2>2
<1> QED
  BY <1>4, <1>5, <1>6, <1>7, <1>8 DEF F, From

(* What is owed, kind by kind, with its place.                             *)
LEMMA OwedIs ==
    ASSUME NEW e \in Owed
    PROVE  /\ e.kind = "settings" \/ e.row # NewStore
           /\ ~HasEvent(e.kind, e.row)
           /\ \/ e = [place |-> <<1, 0>>, kind |-> "settings", row |-> SettingsPayload(store)]
              \/ e = [place |-> <<2, 0>>, kind |-> "product", row |-> ProductPayload(store)]
              \/ \E m \in store.moves :
                   e = [place |-> <<3, m.seq>>, kind |-> "inventory_movement",
                        row |-> MovementPayload(m)]
              \/ \E x \in store.sales :
                   e = [place |-> <<4, x.no>>, kind |-> "sale", row |-> SalePayload(store, x)]
              \/ \E p \in store.payments :
                   e = [place |-> <<5, p.no>>, kind |-> "account_payment",
                        row |-> AccountPaymentPayload(store, p)]
              \/ \E r \in store.refunds :
                   e = [place |-> <<6, r.no>>, kind |-> "refund",
                        row |-> RefundPayload(store, r)]
              \/ e = [place |-> <<7, 0>>, kind |-> "payment_transaction",
                      row |-> PaymentTransactionPayload(store)]
              \/ e = [place |-> <<8, 0>>, kind |-> "kiosk", row |-> KioskPayload(store)]
  BY Zenon DEF Owed

LEMMA OwedTells ==
    ASSUME store \in Stores, FiniteRows(store), NEW e \in Owed
    PROVE  /\ e.kind \in Kinds /\ e.row \in Stores /\ FiniteRows(e.row)
           /\ CarriesItsKind(e) /\ Tells(e, store)
           /\ e.place[1] \in 1..8 /\ e.place[2] \in Nat
           /\ e.place[1] = 1 => e.place[2] = 0
<1>1. e.kind = "settings" \/ e.row # NewStore
  BY OwedIs
<1>0. \A row : PartOf(row, NewStore) =>
        /\ row.moves = {} /\ row.ledger = {} /\ row.sales = {} /\ row.payments = {}
        /\ row.refunds = {} /\ PartOf(row, store)
  BY NewStoreIs DEF PartOf
<1>2. CASE e = [place |-> <<1, 0>>, kind |-> "settings", row |-> SettingsPayload(store)]
  <2>1. /\ e.row \in Stores /\ FiniteRows(e.row) /\ PartOf(e.row, NewStore)
        /\ e.row.settings = store.settings /\ e.kind = "settings"
        /\ e.place[1] = 1 /\ e.place[2] = 0
    BY <1>2, FieldPayloads
  <2> QED
    BY <1>0, <2>1 DEF CarriesItsKind, Tells, Kinds
<1>3. CASE e = [place |-> <<2, 0>>, kind |-> "product", row |-> ProductPayload(store)]
  <2>1. /\ e.row \in Stores /\ FiniteRows(e.row) /\ PartOf(e.row, NewStore)
        /\ e.row.product = store.product /\ e.kind = "product"
        /\ e.place[1] = 2 /\ e.place[2] = 0
    BY <1>3, FieldPayloads
  <2> QED
    BY <1>0, <2>1 DEF CarriesItsKind, Tells, Kinds
<1>4. CASE e = [place |-> <<7, 0>>, kind |-> "payment_transaction",
                row |-> PaymentTransactionPayload(store)]
  <2>1. /\ e.row \in Stores /\ FiniteRows(e.row) /\ PartOf(e.row, NewStore)
        /\ e.row.charge = store.charge /\ e.kind = "payment_transaction"
        /\ e.place[1] = 7 /\ e.place[2] = 0
    BY <1>4, FieldPayloads
  <2> QED
    BY <1>0, <2>1 DEF CarriesItsKind, Tells, Kinds
<1>5. CASE e = [place |-> <<8, 0>>, kind |-> "kiosk", row |-> KioskPayload(store)]
  <2>1. /\ e.row \in Stores /\ FiniteRows(e.row) /\ PartOf(e.row, NewStore)
        /\ e.row = KioskPayload(store) /\ e.kind = "kiosk"
        /\ e.place[1] = 8 /\ e.place[2] = 0
    BY <1>5, FieldPayloads
  <2>2. store.kiosk # None
    BY <1>1, <2>1 DEF KioskPayload, NewStore
  <2> QED
    BY <1>0, <2>1, <2>2 DEF CarriesItsKind, Tells, Kinds
<1>6. ASSUME NEW m \in store.moves,
             e = [place |-> <<3, m.seq>>, kind |-> "inventory_movement",
                  row |-> MovementPayload(m)]
      PROVE  /\ e.kind \in Kinds /\ e.row \in Stores /\ FiniteRows(e.row)
             /\ CarriesItsKind(e) /\ Tells(e, store)
             /\ e.place[1] = 3 /\ e.place[2] \in Nat
  <2>1. /\ e.row \in Stores /\ PartOf(e.row, store) /\ e.row.ledger = {}
        /\ e.row.sales = {} /\ e.row.payments = {} /\ e.row.refunds = {}
        /\ e.kind = "inventory_movement" /\ e.place[1] = 3 /\ e.place[2] = m.seq
    BY <1>6, RowPayloads
  <2>2. FiniteRows(e.row) /\ m.seq \in Nat
    BY <2>1, PartIsFinite DEF Stores, Movements
  <2> QED
    BY <2>1, <2>2 DEF CarriesItsKind, Tells, Kinds
<1>7. ASSUME NEW x \in store.sales,
             e = [place |-> <<4, x.no>>, kind |-> "sale", row |-> SalePayload(store, x)]
      PROVE  /\ e.kind \in Kinds /\ e.row \in Stores /\ FiniteRows(e.row)
             /\ CarriesItsKind(e) /\ Tells(e, store)
             /\ e.place[1] = 4 /\ e.place[2] \in Nat
  <2>1. /\ e.row \in Stores /\ PartOf(e.row, store)
        /\ e.row.payments = {} /\ e.row.refunds = {}
        /\ e.kind = "sale" /\ e.place[1] = 4 /\ e.place[2] = x.no
    BY <1>7, RowPayloads
  <2>2. FiniteRows(e.row) /\ x.no \in Nat
    BY <2>1, PartIsFinite DEF Stores, Sales
  <2> QED
    BY <2>1, <2>2 DEF CarriesItsKind, Tells, Kinds
<1>8. ASSUME NEW p \in store.payments,
             e = [place |-> <<5, p.no>>, kind |-> "account_payment",
                  row |-> AccountPaymentPayload(store, p)]
      PROVE  /\ e.kind \in Kinds /\ e.row \in Stores /\ FiniteRows(e.row)
             /\ CarriesItsKind(e) /\ Tells(e, store)
             /\ e.place[1] = 5 /\ e.place[2] \in Nat
  <2>1. /\ e.row \in Stores /\ PartOf(e.row, store) /\ e.row.moves = {}
        /\ e.row.sales = {} /\ e.row.refunds = {}
        /\ e.kind = "account_payment" /\ e.place[1] = 5 /\ e.place[2] = p.no
    BY <1>8, RowPayloads
  <2>2. FiniteRows(e.row) /\ p.no \in Nat
    BY <2>1, PartIsFinite DEF Stores, AccountPayments
  <2> QED
    BY <2>1, <2>2 DEF CarriesItsKind, Tells, Kinds
<1>9. ASSUME NEW r \in store.refunds,
             e = [place |-> <<6, r.no>>, kind |-> "refund", row |-> RefundPayload(store, r)]
      PROVE  /\ e.kind \in Kinds /\ e.row \in Stores /\ FiniteRows(e.row)
             /\ CarriesItsKind(e) /\ Tells(e, store)
             /\ e.place[1] = 6 /\ e.place[2] \in Nat
  <2>1. /\ e.row \in Stores /\ PartOf(e.row, store)
        /\ e.row.sales = {} /\ e.row.payments = {}
        /\ e.kind = "refund" /\ e.place[1] = 6 /\ e.place[2] = r.no
    BY <1>9, RowPayloads
  <2>2. FiniteRows(e.row) /\ r.no \in Nat
    BY <2>1, PartIsFinite DEF Stores, Refunds
  <2> QED
    BY <2>1, <2>2 DEF CarriesItsKind, Tells, Kinds
<1> QED
  BY <1>2, <1>3, <1>4, <1>5, <1>6, <1>7, <1>8, <1>9, OwedIs

(* No two entities have the same place.                                    *)
LEMMA PlacesDiffer ==
    ASSUME NumbersUnique(store), NEW e \in Owed, NEW f \in Owed, e.place = f.place
    PROVE  e = f
<1>1. /\ \A a, b \in store.moves : a.seq = b.seq => a = b
      /\ \A a, b \in store.sales : a.no = b.no => a = b
      /\ \A a, b \in store.payments : a.no = b.no => a = b
      /\ \A a, b \in store.refunds : a.no = b.no => a = b
  BY DEF NumbersUnique
<1> DEFINE Is(x) ==
      \/ x = [place |-> <<1, 0>>, kind |-> "settings", row |-> SettingsPayload(store)]
      \/ x = [place |-> <<2, 0>>, kind |-> "product", row |-> ProductPayload(store)]
      \/ \E m \in store.moves :
           x = [place |-> <<3, m.seq>>, kind |-> "inventory_movement",
                row |-> MovementPayload(m)]
      \/ \E y \in store.sales :
           x = [place |-> <<4, y.no>>, kind |-> "sale", row |-> SalePayload(store, y)]
      \/ \E p \in store.payments :
           x = [place |-> <<5, p.no>>, kind |-> "account_payment",
                row |-> AccountPaymentPayload(store, p)]
      \/ \E r \in store.refunds :
           x = [place |-> <<6, r.no>>, kind |-> "refund", row |-> RefundPayload(store, r)]
      \/ x = [place |-> <<7, 0>>, kind |-> "payment_transaction",
              row |-> PaymentTransactionPayload(store)]
      \/ x = [place |-> <<8, 0>>, kind |-> "kiosk", row |-> KioskPayload(store)]
<1>2. Is(e) /\ Is(f)
  BY OwedIs
<1> QED
  BY <1>1, <1>2

LEMMA OwedIsFinite ==
    ASSUME FiniteRows(store) PROVE IsFiniteSet(Owed)
<1>1. ASSUME NEW R, IsFiniteSet(R), NEW f, DOMAIN f = R, f = [r \in R |-> f[r]]
      PROVE  IsFiniteSet({f[r] : r \in R})
  BY <1>1, ImageIsFinite
<1> DEFINE M == {[place |-> <<3, m.seq>>, kind |-> "inventory_movement",
                  row |-> MovementPayload(m)] : m \in store.moves}
           S == {[place |-> <<4, x.no>>, kind |-> "sale",
                  row |-> SalePayload(store, x)] : x \in store.sales}
           P == {[place |-> <<5, p.no>>, kind |-> "account_payment",
                  row |-> AccountPaymentPayload(store, p)] : p \in store.payments}
           R == {[place |-> <<6, r.no>>, kind |-> "refund",
                  row |-> RefundPayload(store, r)] : r \in store.refunds}
           one == [place |-> <<1, 0>>, kind |-> "settings", row |-> SettingsPayload(store)]
           two == [place |-> <<2, 0>>, kind |-> "product", row |-> ProductPayload(store)]
           seven == [place |-> <<7, 0>>, kind |-> "payment_transaction",
                     row |-> PaymentTransactionPayload(store)]
           eight == [place |-> <<8, 0>>, kind |-> "kiosk", row |-> KioskPayload(store)]
<1>2. Owed \subseteq ({one} \cup {two} \cup {seven} \cup {eight}) \cup M \cup S \cup P \cup R
  BY DEF Owed
<1>3. IsFiniteSet(M)
  <2> DEFINE f == [m \in store.moves |->
                     [place |-> <<3, m.seq>>, kind |-> "inventory_movement",
                      row |-> MovementPayload(m)]]
  <2>1. M = {f[m] : m \in store.moves} /\ DOMAIN f = store.moves
        /\ f = [m \in store.moves |-> f[m]]
    OBVIOUS
  <2> HIDE DEF f, M
  <2> QED
    BY <2>1, ImageIsFinite DEF FiniteRows
<1>4. IsFiniteSet(S)
  <2> DEFINE f == [x \in store.sales |->
                     [place |-> <<4, x.no>>, kind |-> "sale",
                      row |-> SalePayload(store, x)]]
  <2>1. S = {f[m] : m \in store.sales} /\ DOMAIN f = store.sales
        /\ f = [m \in store.sales |-> f[m]]
    OBVIOUS
  <2> HIDE DEF f, S
  <2> QED
    BY <2>1, ImageIsFinite DEF FiniteRows
<1>5. IsFiniteSet(P)
  <2> DEFINE f == [p \in store.payments |->
                     [place |-> <<5, p.no>>, kind |-> "account_payment",
                      row |-> AccountPaymentPayload(store, p)]]
  <2>1. P = {f[m] : m \in store.payments} /\ DOMAIN f = store.payments
        /\ f = [m \in store.payments |-> f[m]]
    OBVIOUS
  <2> HIDE DEF f, P
  <2> QED
    BY <2>1, ImageIsFinite DEF FiniteRows
<1>6. IsFiniteSet(R)
  <2> DEFINE f == [r \in store.refunds |->
                     [place |-> <<6, r.no>>, kind |-> "refund",
                      row |-> RefundPayload(store, r)]]
  <2>1. R = {f[m] : m \in store.refunds} /\ DOMAIN f = store.refunds
        /\ f = [m \in store.refunds |-> f[m]]
    OBVIOUS
  <2> HIDE DEF f, R
  <2> QED
    BY <2>1, ImageIsFinite DEF FiniteRows
<1> HIDE DEF M, S, P, R, one, two, seven, eight
<1>7. IsFiniteSet({one} \cup {two} \cup {seven} \cup {eight})
  BY FS_Singleton, FS_Union
<1>8. IsFiniteSet(({one} \cup {two} \cup {seven} \cup {eight}) \cup M \cup S \cup P \cup R)
  BY <1>3, <1>4, <1>5, <1>6, <1>7, FS_Union
<1> QED
  BY <1>2, <1>8, FS_Subset

LEMMA PlaceIs ==
    ASSUME NEW e \in Owed PROVE e.place = <<e.place[1], e.place[2]>>
  BY OwedIs

(* The place of an entity among what is owed.                              *)
Under(e) == {x \in Owed : Earlier(x.place, e.place)}

(* Events of a backfill are numbered by their places.                      *)
LEMMA RanksDiffer ==
    ASSUME store \in Stores, FiniteRows(store), NumbersUnique(store)
    PROVE  /\ \A e \in Owed : Cardinality(Under(e)) \in Nat
           /\ \A e, f \in Owed : Cardinality(Under(e)) = Cardinality(Under(f)) => e = f
<1>1. \A e \in Owed : IsFiniteSet(Under(e)) /\ Cardinality(Under(e)) \in Nat
  BY OwedIsFinite, FS_Subset, FS_CardinalityType DEF Under
<1>2. \A e \in Owed : e.place[1] \in Nat /\ e.place[2] \in Nat
  BY OwedTells
<1>3. \A a, b : Earlier(a, b) <=> a[1] < b[1] \/ (a[1] = b[1] /\ a[2] < b[2])
  BY DEF Earlier
<1>4. ASSUME NEW e \in Owed, NEW f \in Owed, Earlier(e.place, f.place)
      PROVE  Cardinality(Under(e)) # Cardinality(Under(f))
  <2>1. \A x \in Owed : Earlier(x.place, e.place) => Earlier(x.place, f.place)
    BY <1>2, <1>3, <1>4
  <2>2. Under(e) \subseteq Under(f) /\ e \in Under(f) /\ e \notin Under(e)
    BY <1>2, <1>3, <1>4, <2>1 DEF Under
  <2> QED
    BY <1>1, <2>2, FS_Subset
<1>5. ASSUME NEW e \in Owed, NEW f \in Owed, e # f
      PROVE  Earlier(e.place, f.place) \/ Earlier(f.place, e.place)
  <2>1. e.place # f.place
    BY <1>5, PlacesDiffer
  <2>2. e.place[1] # f.place[1] \/ e.place[2] # f.place[2]
    BY <2>1, PlaceIs
  <2> QED
    BY <1>2, <1>3, <2>2
<1> QED
  BY <1>1, <1>4, <1>5

(* Every entity has an event, or is owed one.                              *)
LEMMA NothingIsLeftOut ==
    ASSUME store \in Stores, outbox \subseteq OutboxEvents
    PROVE  /\ \E e \in outbox \cup Owed : e.kind = "settings"
           /\ store.product # None => \E e \in outbox \cup Owed : e.kind = "product"
           /\ \A m \in store.moves : \E e \in outbox \cup Owed : m \in e.row.moves
           /\ \A x \in store.sales : \E e \in outbox \cup Owed :
                x \in e.row.sales
                /\ {y \in store.ledger : y.kind = "sale" /\ y.of = x.no} \subseteq e.row.ledger
<1>1. \E e \in outbox \cup Owed : e.kind = "settings"
  <2> DEFINE e == [place |-> <<1, 0>>, kind |-> "settings", row |-> SettingsPayload(store)]
  <2>1. HasEvent("settings", SettingsPayload(store)) \/ e \in Owed
    BY DEF Owed
  <2> QED
    BY <2>1 DEF HasEvent
<1>2. ASSUME store.product # None
      PROVE  \E e \in outbox \cup Owed : e.kind = "product"
  <2> DEFINE e == [place |-> <<2, 0>>, kind |-> "product", row |-> ProductPayload(store)]
  <2>1. ProductPayload(store) # NewStore
    BY <1>2, FieldPayloads, NewStoreIs
  <2>2. HasEvent("product", ProductPayload(store)) \/ e \in Owed
    BY <2>1 DEF Owed
  <2> QED
    BY <2>2 DEF HasEvent
<1>3. ASSUME NEW m \in store.moves
      PROVE  \E e \in outbox \cup Owed : m \in e.row.moves
  <2> DEFINE e == [place |-> <<3, m.seq>>, kind |-> "inventory_movement",
                   row |-> MovementPayload(m)]
  <2>1. MovementPayload(m).moves = {m}
    BY RowPayloads
  <2>2. MovementPayload(m) # NewStore
    BY <2>1, NewStoreIs
  <2>3. HasEvent("inventory_movement", MovementPayload(m)) \/ e \in Owed
    BY <2>2 DEF Owed
  <2>4. CASE HasEvent("inventory_movement", MovementPayload(m))
    <3>1. \E x \in outbox : x.row = MovementPayload(m)
      BY <2>4 DEF HasEvent, Single
    <3> QED
      BY <2>1, <3>1
  <2>5. CASE e \in Owed
    BY <2>1, <2>5
  <2> QED
    BY <2>3, <2>4, <2>5
<1>4. ASSUME NEW x \in store.sales
      PROVE  \E e \in outbox \cup Owed :
                x \in e.row.sales
                /\ {y \in store.ledger : y.kind = "sale" /\ y.of = x.no} \subseteq e.row.ledger
  <2> DEFINE e == [place |-> <<4, x.no>>, kind |-> "sale", row |-> SalePayload(store, x)]
  <2>1. /\ SalePayload(store, x).sales = {x}
        /\ SalePayload(store, x).ledger
             = {y \in store.ledger : y.kind = "sale" /\ y.of = x.no}
    BY RowPayloads
  <2>2. SalePayload(store, x) # NewStore
    BY <2>1, NewStoreIs
  <2>3. HasEvent("sale", SalePayload(store, x)) \/ e \in Owed
    BY <2>2 DEF Owed
  <2>4. CASE HasEvent("sale", SalePayload(store, x))
    <3>1. \E y \in outbox : y.row = SalePayload(store, x)
      BY <2>4 DEF HasEvent, Single
    <3> QED
      BY <2>1, <3>1
  <2>5. CASE e \in Owed
    BY <2>1, <2>5
  <2> QED
    BY <2>3, <2>4, <2>5
<1> QED
  BY <1>1, <1>2, <1>3, <1>4

(* The events of the backfill.                                             *)
Backfilled == Backfill \ outbox

(* The backfill adds events with the next sequences.                       *)
LEMMA BackfillFollows ==
    ASSUME RestoreAssumption, RestoreInv, stage = "trading"
    PROVE  /\ Backfill = outbox \cup Backfilled /\ Follow(Backfilled)
           /\ \A x \in Backfilled : x.as = store /\ Tells(Sent(x), store)
           /\ \A e \in Owed : \E x \in Backfilled : x.kind = e.kind /\ x.row = e.row
<1> DEFINE N == NextSequence(outbox)
           rank(e) == Cardinality(Under(e))
           new(e) == Event(N + rank(e), e.kind, e.row, store)
           A == {new(e) : e \in Owed}
<1>1. /\ store \in Stores /\ FiniteRows(store) /\ VerifyRestoreIntegrity(store)
      /\ machine \in Nat \ {0} /\ NumbersUnique(store)
  BY TradingStore DEF VerifyRestoreIntegrity
<1>2. /\ N \in Nat /\ N >= 1 /\ (\A x \in outbox : x.seq < N /\ x.seq \in Nat)
      /\ outbox = {} => N = 1
  <2>1. IsFiniteSet(outbox) /\ \A x \in outbox : x.seq \in Nat
    BY TypedEvents DEF RestoreInv
  <2> QED
    BY <2>1, NextSequenceIs
<1>3. /\ \A e \in Owed : rank(e) \in Nat
      /\ \A e, f \in Owed : rank(e) = rank(f) => e = f
  BY <1>1, RanksDiffer
<1>4. Backfill = outbox \cup A
  BY DEF Backfill, Under
<1> HIDE DEF N, rank
<1>5. \A e \in Owed : /\ new(e).seq = N + rank(e) /\ new(e).kind = e.kind
                      /\ new(e).row = e.row /\ new(e).as = store /\ ~new(e).pushed
                      /\ new(e).id = <<machine, N + rank(e)>>
  BY DEF Event
<1>6. \A e \in Owed : /\ e.kind \in Kinds /\ e.row \in Stores /\ FiniteRows(e.row)
                      /\ CarriesItsKind(e) /\ Tells(e, store)
  BY <1>1, OwedTells
<1>7. ASSUME NEW e \in Owed
      PROVE  /\ new(e) \in OutboxEvents /\ CarriesItsKind(new(e)) /\ Tells(new(e), store)
             /\ Tells(Sent(new(e)), store)
  <2>1. new(e) \in OutboxEvents
    BY <1>1, <1>2, <1>3, <1>6 DEF Event, OutboxEvents
  <2>2. CarriesItsKind(new(e)) /\ Tells(new(e), store)
    BY <1>5, <1>6 DEF CarriesItsKind, Tells
  <2>3. Sent(new(e)).kind = new(e).kind /\ Sent(new(e)).row = new(e).row
    BY <2>1, SentIs
  <2>4. Tells(Sent(new(e)), store)
    BY <2>2, <2>3 DEF Tells
  <2> QED
    BY <2>1, <2>2, <2>4
<1> HIDE DEF new
<1>8. \A x \in A : x \notin outbox
  BY <1>2, <1>3, <1>5
<1>9. Backfilled = A
  BY <1>4, <1>8 DEF Backfilled
<1>10. IsFiniteSet(A)
  <2> DEFINE f == [e \in Owed |-> new(e)]
  <2>1. A = {f[e] : e \in Owed} /\ DOMAIN f = Owed /\ f = [e \in Owed |-> f[e]]
    OBVIOUS
  <2> HIDE DEF f, A
  <2> QED
    BY <1>1, <2>1, OwedIsFinite, ImageIsFinite
<1>11. outbox = {} => 1 \in SequencesOf(A)
  <2>1. SUFFICES ASSUME outbox = {} PROVE 1 \in SequencesOf(A)
    OBVIOUS
  <2> DEFINE e == [place |-> <<1, 0>>, kind |-> "settings", row |-> SettingsPayload(store)]
  <2>2. e \in Owed
    BY <2>1 DEF Owed, HasEvent
  <2>3. \A x \in Owed : ~Earlier(x.place, <<1, 0>>)
    <3>1. \A x \in Owed : /\ x.place[1] \in 1..8 /\ x.place[2] \in Nat
                          /\ x.place[1] = 1 => x.place[2] = 0
      BY <1>1, OwedTells
    <3> QED
      BY <3>1 DEF Earlier
  <2>4. Under(e) = {}
    BY <2>3 DEF Under
  <2>5. rank(e) = 0
    BY <2>4, FS_EmptySet DEF rank
  <2>6. new(e).seq = 1 /\ new(e) \in A
    BY <1>2, <1>5, <2>1, <2>2, <2>5
  <2> QED
    BY <2>6 DEF SequencesOf
<1>12. Follow(A)
  <2>1. \A x \in A :
          /\ x \in OutboxEvents /\ x.id = <<machine, x.seq>> /\ x.seq >= 1 /\ ~x.pushed
          /\ x.as \in Stores /\ VerifyRestoreIntegrity(x.as)
          /\ CarriesItsKind(x) /\ FiniteRows(x.row)
          /\ \A y \in outbox : y.seq < x.seq
    <3>1. SUFFICES ASSUME NEW e \in Owed, NEW x, x = new(e)
                   PROVE  /\ x \in OutboxEvents /\ x.id = <<machine, x.seq>> /\ x.seq >= 1
                          /\ ~x.pushed
                          /\ x.as \in Stores /\ VerifyRestoreIntegrity(x.as)
                          /\ CarriesItsKind(x) /\ FiniteRows(x.row)
                          /\ \A y \in outbox : y.seq < x.seq
      OBVIOUS
    <3>2. /\ x.seq = N + rank(e) /\ x.row = e.row /\ x.as = store /\ ~x.pushed
          /\ x.id = <<machine, N + rank(e)>> /\ x \in OutboxEvents /\ CarriesItsKind(x)
      BY <1>5, <1>7, <3>1
    <3>3. rank(e) \in Nat /\ FiniteRows(e.row)
      BY <1>3, <1>6
    <3> QED
      BY <1>1, <1>2, <3>2, <3>3
  <2>2. \A x, y \in A : x.seq = y.seq => x = y
    <3>1. \A e, f \in Owed : new(e).seq = new(f).seq => e = f
      BY <1>2, <1>3, <1>5
    <3> QED
      BY <3>1
  <2> HIDE DEF A
  <2> QED
    BY <1>10, <1>11, <2>1, <2>2 DEF Follow
<1> QED
  BY <1>4, <1>5, <1>7, <1>9, <1>12

(* A store that was there before the outbox: its rows are in the events.   *)
Covers(E) ==
    /\ OfKind(E, "product") # {}
    /\ OldStore.moves \subseteq UNION {e.row.moves : e \in E}
    /\ OldStore.ledger \subseteq UNION {e.row.ledger : e \in E}
    /\ OldStore.sales \subseteq UNION {e.row.sales : e \in E}

LEMMA OldStoreIs ==
    ASSUME RestoreAssumption
    PROVE  /\ OldStore.product # None /\ OldStore.settings = 0 /\ OldStore.charge = None
           /\ OldStore.kiosk = None /\ OldStore.payments = {} /\ OldStore.refunds = {}
           /\ OldStore.ledger = {[seq |-> 1, amount |-> Price, kind |-> "sale", of |-> 1]}
           /\ OldStore.sales = {[no |-> 1, before |-> 0, after |-> Price, kiosk |-> FALSE]}
           /\ OldStore.moves = {[seq |-> 1, change |-> 2, sale |-> None],
                                [seq |-> 2, change |-> -1, sale |-> 1]}
<1>1. 1 # None
  BY DEF RestoreAssumption
<1> QED
  BY <1>1 DEF OldStore, NewStore

LEMMA FromCovered ==
    ASSUME RestoreAssumption, NEW E, Covers(E), NEW s, From(OldStore, E, s)
    PROVE  From(NewStore, E, s)
<1>1. ProductFrom(NewStore, E, s)
  BY DEF From, ProductFrom, Covers
<1>2. RowsFrom(NewStore, E, s)
  BY OldStoreIs, NewStoreIs DEF From, RowsFrom, Covers
<1> QED
  BY <1>1, <1>2 DEF From

(* The rows of the store are covered once what is owed has its events.     *)
LEMMA BackfillCovers ==
    ASSUME RestoreAssumption, RestoreInv, stage = "trading",
           From(OldStore, Everything, store)
    PROVE  Covers(Everything \cup SentOf(Backfilled))
<1> DEFINE E == Everything \cup SentOf(Backfilled)
<1>1. store \in Stores /\ outbox \subseteq OutboxEvents
  BY TradingStore, TypedEvents DEF RestoreInv
<1>2. \A e \in outbox \cup Owed : \E x \in E : x.kind = e.kind /\ x.row = e.row
  <2>1. ASSUME NEW e \in outbox PROVE \E x \in E : x.kind = e.kind /\ x.row = e.row
    <3>1. Sent(e) \in E /\ Sent(e).kind = e.kind /\ Sent(e).row = e.row
      BY <1>1, SentIs DEF Everything, SentOf
    <3> QED
      BY <3>1
  <2>2. ASSUME NEW e \in Owed PROVE \E x \in E : x.kind = e.kind /\ x.row = e.row
    <3>1. PICK x \in Backfilled : x.kind = e.kind /\ x.row = e.row
      BY BackfillFollows
    <3>2. x \in OutboxEvents
      BY <3>1, BackfillFollows DEF Follow
    <3>3. Sent(x) \in E /\ Sent(x).kind = x.kind /\ Sent(x).row = x.row
      BY <3>1, <3>2, SentIs DEF SentOf
    <3> QED
      BY <3>1, <3>3
  <2> QED
    BY <2>1, <2>2
<1>3. OfKind(Everything, "product") = {} => store.product # None
  BY OldStoreIs DEF From, ProductFrom
<1>4. OfKind(E, "product") # {}
  <2>1. CASE OfKind(Everything, "product") # {}
    BY <2>1 DEF OfKind
  <2>2. CASE OfKind(Everything, "product") = {}
    <3>1. \E e \in outbox \cup Owed : e.kind = "product"
      BY <1>1, <1>3, <2>2, NothingIsLeftOut
    <3> HIDE DEF E
    <3> QED
      BY <1>2, <3>1 DEF OfKind
  <2> QED
    BY <2>1, <2>2
<1>5. /\ OldStore.moves \subseteq store.moves /\ OldStore.sales \subseteq store.sales
      /\ OldStore.ledger \subseteq store.ledger
  BY DEF From, RowsFrom
<1> HIDE DEF E
<1>6. OldStore.moves \subseteq UNION {e.row.moves : e \in E}
  <2>1. ASSUME NEW m \in OldStore.moves PROVE \E x \in E : m \in x.row.moves
    <3>1. \E e \in outbox \cup Owed : m \in e.row.moves
      BY <1>1, <1>5, NothingIsLeftOut
    <3> QED
      BY <1>2, <3>1
  <2> QED
    BY <2>1
<1>7. ASSUME NEW y \in OldStore.sales
      PROVE  \E x \in E : y \in x.row.sales /\
               {l \in store.ledger : l.kind = "sale" /\ l.of = y.no} \subseteq x.row.ledger
  <2>1. \E e \in outbox \cup Owed : y \in e.row.sales /\
          {l \in store.ledger : l.kind = "sale" /\ l.of = y.no} \subseteq e.row.ledger
    BY <1>1, <1>5, NothingIsLeftOut
  <2> QED
    BY <1>2, <2>1
<1>8. OldStore.sales \subseteq UNION {e.row.sales : e \in E}
  BY <1>7
<1>9. OldStore.ledger \subseteq UNION {e.row.ledger : e \in E}
  <2>1. ASSUME NEW l \in OldStore.ledger PROVE \E x \in E : l \in x.row.ledger
    <3>1. l \in store.ledger /\ l.kind = "sale" /\ l.of = 1
      BY <1>5, OldStoreIs
    <3>2. \E y \in OldStore.sales : y.no = 1
      <4>1. PICK y : y = [no |-> 1, before |-> 0, after |-> Price, kiosk |-> FALSE]
        OBVIOUS
      <4> QED
        BY <4>1, OldStoreIs
    <3> QED
      BY <1>7, <3>1, <3>2
  <2> QED
    BY <2>1
<1> QED
  BY <1>4, <1>6, <1>8, <1>9 DEF Covers, E

(* Switching the backup on, with its backfill, or off.                     *)
LEMMA SaveConfigKeeps ==
    ASSUME RestoreAssumption, RestoreInv, NEW on \in BOOLEAN, SaveConfig(on)
    PROVE  RestoreInv'
<1>1. /\ stage = "trading" /\ ~sync.ready
      /\ UNCHANGED <<store, cloud, stage, machine, answer, kept, silent>>
  BY DEF SaveConfig
<1>2. /\ store \in Stores /\ FiniteRows(store) /\ VerifyRestoreIntegrity(store)
      /\ outbox \subseteq OutboxEvents /\ cloud = {}
  BY <1>1, TradingStore, TypedEvents DEF RestoreInv, Staged
<1>3. store' \in Stores /\ FiniteRows(store') /\ VerifyRestoreIntegrity(store')
      /\ silent' \in BOOLEAN
  BY <1>1, <1>2 DEF RestoreInv, TypeOK
<1>4. CASE ~(on /\ ~sync.backfilled)
  <2>1. /\ sync' = [sync EXCEPT !.ready = TRUE, !.enabled = on]
        /\ UNCHANGED <<outbox, due>>
    BY <1>4 DEF SaveConfig
  <2>2. /\ sync' \in [ready : BOOLEAN, enabled : BOOLEAN, backfilled : BOOLEAN]
        /\ sync'.ready /\ due' \in Nat \cup {None}
    BY <2>1 DEF RestoreInv, TypeOK
  <2>3. Follow({}) /\ outbox' = outbox \cup {}
    BY <2>1, FS_EmptySet DEF Follow
  <2>4. Everything' = Everything
    BY <1>1, <2>1 DEF Everything
  <2>5. ~silent' => From(Base, Everything', store')
    BY <1>1, <2>4 DEF RestoreInv, History
  <2>6. History'
    BY <1>1, <2>1, <2>3, <2>5, HistoryGoesOn
  <2> QED
    BY <1>1, <1>3, <2>2, <2>3, <2>6, GoesOn
<1>5. CASE on /\ ~sync.backfilled
  <2>1. /\ outbox' = Backfill
        /\ sync' = [ready |-> TRUE, enabled |-> TRUE, backfilled |-> TRUE]
        /\ due' = IF due = None THEN Largest(SequencesOf(Backfill)) ELSE due
    BY <1>5 DEF SaveConfig
  <2>2. PICK A : A = Backfilled
    OBVIOUS
  <2>3. /\ Backfill = outbox \cup A /\ Follow(A)
        /\ \A x \in A : x.as = store /\ Tells(Sent(x), store)
        /\ \A e \in Owed : \E x \in A : x.kind = e.kind /\ x.row = e.row
    BY <1>1, <2>2, BackfillFollows
  <2>4. outbox' = outbox \cup A
    BY <2>1, <2>3
  <2>5. \A x \in A : /\ x \in OutboxEvents /\ x.seq \in Nat /\ x.seq >= 1
                     /\ Sent(x).seq = x.seq /\ Sent(x) \in CloudEvents
                     /\ \A y \in outbox : y.seq < x.seq /\ y.seq \in Nat
                     /\ \A y \in Everything : y.seq < x.seq /\ y.seq \in Nat
    <3>1. \A x \in A : x \in OutboxEvents /\ x.seq >= 1 /\ \A y \in outbox : y.seq < x.seq
      BY <2>3 DEF Follow
    <3>2. \A x \in A : \A y \in Everything : y.seq < x.seq
      BY <1>1, <2>3, FollowEverything DEF Alive
    <3> QED
      BY <3>1, <3>2, SentIs, TypedEvents DEF RestoreInv
  <2>6. Everything' = Everything \cup SentOf(A)
    BY <1>1, <2>4 DEF Everything, SentOf
  <2>7. ASSUME ~silent, NEW Y \in SUBSET A
        PROVE  From(Base, Everything \cup SentOf(Y), store)
    <3>1. From(Base, Everything, store)
      BY <1>1, <2>7 DEF RestoreInv, History
    <3>2. IsFiniteSet(SentOf(Y))
      <4> DEFINE f == [y \in Y |-> Sent(y)]
      <4>1. SentOf(Y) = {f[y] : y \in Y} /\ DOMAIN f = Y /\ f = [y \in Y |-> f[y]]
        BY DEF SentOf
      <4>2. IsFiniteSet(Y)
        BY <2>3, FS_Subset DEF Follow
      <4> HIDE DEF f
      <4> QED
        BY <4>1, <4>2, ImageIsFinite
    <3>3. \A x \in SentOf(Y) : /\ x.seq \in Nat /\ x.seq >= 1 /\ Tells(x, store)
                               /\ \A y \in Everything : y.seq \in Nat /\ y.seq < x.seq
      BY <2>3, <2>5 DEF SentOf
    <3> QED
      BY <3>1, <3>2, <3>3, FromTold
  <2>8. \A e \in A : UpTo(e.seq)' = Everything \cup SentOf({x \in A : x.seq <= e.seq})
    <3>1. SUFFICES ASSUME NEW e \in A
                   PROVE  UpTo(e.seq)' = Everything \cup SentOf({x \in A : x.seq <= e.seq})
      OBVIOUS
    <3>2. {x \in outbox' : x.seq <= e.seq} = outbox \cup {x \in A : x.seq <= e.seq}
      BY <2>4, <2>5
    <3> QED
      BY <1>1, <3>2 DEF UpTo, Everything, SentOf
  <2>9. ASSUME ~silent
        PROVE  /\ From(Base, Everything', store')
               /\ \A e \in A : From(Base, UpTo(e.seq)', e.as)
    <3>1. From(Base, Everything \cup SentOf(A), store)
      BY <2>7, <2>9
    <3>2. ASSUME NEW e \in A PROVE From(Base, UpTo(e.seq)', e.as)
      <4>1. From(Base, Everything \cup SentOf({x \in A : x.seq <= e.seq}), store)
        BY <2>7, <2>9
      <4> QED
        BY <2>3, <2>8, <4>1
    <3> QED
      BY <1>1, <2>6, <3>1, <3>2
  <2>10. outbox' # {}
    <3>1. \E e \in outbox \cup Owed : e.kind = "settings"
      BY <1>2, NothingIsLeftOut
    <3> QED
      BY <2>3, <2>4, <3>1
  <2>11. /\ IsFiniteSet(outbox') /\ \A x \in outbox' : x.seq \in Nat
    <3>1. IsFiniteSet(outbox')
      BY <2>3, <2>4, FS_Union DEF RestoreInv, Follow
    <3>2. \A x \in outbox : x.seq \in Nat
      BY TypedEvents DEF RestoreInv
    <3> QED
      BY <2>4, <2>5, <3>1, <3>2
  <2>12. PICK m \in Nat : /\ m = Largest(SequencesOf(outbox'))
                          /\ \A x \in outbox' : x.seq <= m
    BY <2>11, NextSequenceIs
  <2>13. /\ sync' \in [ready : BOOLEAN, enabled : BOOLEAN, backfilled : BOOLEAN]
         /\ sync'.ready /\ due' \in Nat \cup {None}
    BY <2>1, <2>12 DEF RestoreInv, TypeOK
  <2>14. CASE due # None
    <3>1. due' = due
      BY <2>1, <2>14
    <3>2. History'
      BY <1>1, <2>3, <2>4, <2>9, <3>1, HistoryGoesOn
    <3> QED
      BY <1>1, <1>3, <2>3, <2>4, <2>13, <3>2, GoesOn
  <2>15. CASE due = None
    <3>1. due' = m /\ due' # None /\ Base = OldStore /\ Base' = NewStore
      BY <2>1, <2>12, <2>15 DEF Base, RestoreAssumption
    <3>2. m >= 1
      <4>1. \E x \in outbox' : x.seq >= 1
        <5>1. \A x \in outbox : x.seq >= 1
          BY <1>2, SentIs DEF RestoreInv, Numbered, Everything, SentOf
        <5> QED
          BY <2>4, <2>5, <2>10, <5>1
      <4> QED
        BY <2>11, <2>12, <4>1
    <3>3. ~Whole'
      <4>1. 1 \in 1..due'
        BY <3>1, <3>2
      <4> QED
        BY <1>1, <1>2, <4>1 DEF Whole, SequencesOf
    <3>4. ASSUME ~silent
          PROVE  /\ From(NewStore, Everything', store')
                 /\ \A e \in Unsent' : e.as # None /\ m <= e.seq =>
                      From(NewStore, UpTo(e.seq)', e.as)
      <4>1. From(OldStore, Everything, store)
        BY <1>1, <3>1, <3>4 DEF RestoreInv, History
      <4>2. Covers(Everything')
        BY <1>1, <2>2, <2>6, <4>1, BackfillCovers
      <4>3. From(OldStore, Everything', store')
        BY <2>9, <3>1, <3>4
      <4>4. From(NewStore, Everything', store')
        <5>1. PICK E, s : E = Everything' /\ s = store'
          OBVIOUS
        <5> QED
          BY <4>2, <4>3, <5>1, FromCovered
      <4>5. ASSUME NEW e \in Unsent', e.as # None, m <= e.seq
            PROVE  From(NewStore, UpTo(e.seq)', e.as)
        <5>1. e \in outbox' /\ e.seq = m
          BY <2>11, <2>12, <4>5 DEF Unsent
        <5>2. UpTo(e.seq)' = Everything'
          BY <2>12, <5>1 DEF UpTo, Everything
        <5>3. From(OldStore, Everything', e.as)
          <6>1. CASE e \in A
            BY <2>9, <3>1, <3>4, <5>2, <6>1
          <6>2. CASE e \in outbox
            <7>1. e \in Unsent
              BY <1>1, <4>5, <6>2 DEF Unsent
            <7>2. From(OldStore, UpTo(e.seq), e.as)
              BY <1>1, <2>15, <3>1, <3>4, <4>5, <7>1 DEF RestoreInv, History
            <7>3. UpTo(e.seq)' = UpTo(e.seq)
              BY <1>1, <2>3, <2>4, <6>2, UpToGoesOn
            <7> QED
              BY <5>2, <7>2, <7>3
          <6> QED
            BY <2>4, <5>1, <6>1, <6>2
        <5>4. PICK E : E = Everything'
          OBVIOUS
        <5> QED
          BY <4>2, <5>2, <5>3, <5>4, FromCovered
      <4> QED
        BY <4>4, <4>5
    <3>5. History'
      BY <1>1, <3>1, <3>3, <3>4 DEF History
    <3> QED
      BY <1>1, <1>3, <2>3, <2>4, <2>13, <3>5, GoesOn
  <2> QED
    BY <2>14, <2>15
<1> QED
  BY <1>4, <1>5

(* ---------------------------- The conclusion ----------------------------- *)

LEMMA NewStoreIsSound ==
    ASSUME RestoreAssumption
    PROVE  /\ From(NewStore, {}, NewStore) /\ VerifyRestoreIntegrity(NewStore)
<1>1. Fresh(NewStore)
  <2>1. NewStore = [NewStore EXCEPT !.settings = 0]
    BY DEF NewStore
  <2> QED
    BY <2>1, NewStoreIs DEF Fresh
<1>2. From(NewStore, {}, NewStore)
  BY <1>1, FreshIsFrom
<1>3. NumbersUnique(NewStore) /\ LedgerReconciles(NewStore)
  BY NewStoreIs DEF NumbersUnique, LedgerReconciles
<1>4. NothingDangles(NewStore)
  BY NewStoreIs DEF NothingDangles
<1> QED
  BY <1>2, <1>3, <1>4 DEF VerifyRestoreIntegrity

LEMMA OldStoreIsSound ==
    ASSUME RestoreAssumption
    PROVE  /\ OldStore \in Stores /\ FiniteRows(OldStore) /\ OldStore # NewStore
           /\ From(OldStore, {}, OldStore) /\ VerifyRestoreIntegrity(OldStore)
<1> DEFINE in == [seq |-> 1, change |-> 2, sale |-> None]
           out == [seq |-> 2, change |-> -1, sale |-> 1]
           sale == [no |-> 1, before |-> 0, after |-> Price, kiosk |-> FALSE]
           entry == [seq |-> 1, amount |-> Price, kind |-> "sale", of |-> 1]
<1>1. Price \in Nat
  BY DEF RestoreAssumption
<1>14. OldStore = [NewStore EXCEPT !.product = 1, !.moves = {in, out}, !.sales = {sale},
                                   !.ledger = {entry}]
  BY DEF OldStore
<1>3. in \in Movements /\ out \in Movements /\ in.seq = 1 /\ out.seq = 2
  BY DEF Movements
<1>4. entry \in LedgerEntries /\ entry.seq = 1 /\ entry.amount = Price /\ entry.kind = "sale"
      /\ entry.of = 1
  BY <1>1 DEF LedgerEntries
<1>5. /\ sale \in Sales /\ sale.no = 1 /\ sale.before = 0 /\ sale.after = Price
      /\ sale.kiosk = FALSE
  BY <1>1 DEF Sales
<1> HIDE DEF in, out, sale, entry
<1>2. OldStore = [settings |-> 0, product |-> 1, moves |-> {in, out}, ledger |-> {entry},
                  sales |-> {sale}, payments |-> {}, refunds |-> {}, charge |-> None,
                  kiosk |-> None]
  BY <1>14 DEF NewStore
<1>6. OldStore \in Stores
  BY <1>2, <1>3, <1>4, <1>5 DEF Stores
<1>7. /\ OldStore.settings = 0 /\ OldStore.product = 1 /\ OldStore.moves = {in, out}
      /\ OldStore.ledger = {entry} /\ OldStore.sales = {sale} /\ OldStore.payments = {}
      /\ OldStore.refunds = {} /\ OldStore.charge = None /\ OldStore.kiosk = None
  BY <1>2
<1>8. FiniteRows(OldStore)
  <2>1. IsFiniteSet({in, out})
    <3>1. {in, out} = {in} \cup {out} /\ IsFiniteSet({in})
      BY FS_Singleton
    <3> QED
      BY <3>1, FS_AddElement
  <2>2. IsFiniteSet({entry}) /\ IsFiniteSet({sale}) /\ IsFiniteSet({})
    BY FS_Singleton, FS_EmptySet
  <2> QED
    BY <1>7, <2>1, <2>2 DEF FiniteRows
<1>9. OldStore # NewStore
  BY <1>7, NewStoreIs DEF RestoreAssumption
<1>10. From(OldStore, {}, OldStore)
  <2>1. \A kind : OfKind({}, kind) = {}
    BY DEF OfKind
  <2>2. RowsFrom(OldStore, {}, OldStore)
    BY DEF RowsFrom
  <2> QED
    BY <1>7, <2>1, <2>2 DEF From, SettingsFrom, ProductFrom, ChargeFrom, KioskFrom
<1>11. NumbersUnique(OldStore)
  BY <1>3, <1>7 DEF NumbersUnique
<1>12. NothingDangles(OldStore)
  BY <1>5, <1>7 DEF NothingDangles, RestoreAssumption
<1>13. LedgerReconciles(OldStore)
  <2>1. {x \in OldStore.ledger : x.seq < entry.seq} = {}
    BY <1>4, <1>7
  <2>2. Total({}) = 0
    <3>1. [e \in {} |-> e.amount] = << >>
      OBVIOUS
    <3> QED
      BY SumEmpty DEF Total
  <2>3. \E x \in OldStore.sales :
          x.no = entry.of /\ <<x.before, x.after>> = <<0, 0 + entry.amount>>
    BY <1>1, <1>4, <1>5, <1>7
  <2> QED
    BY <1>4, <1>7, <2>1, <2>2, <2>3 DEF LedgerReconciles
<1> QED
  BY <1>6, <1>8, <1>9, <1>10, <1>11, <1>12, <1>13 DEF VerifyRestoreIntegrity

(* The invariant holds of a new store, and of one from before the outbox.  *)
LEMMA RestoreInit ==
    ASSUME RestoreAssumption, Init PROVE RestoreInv
<1>1. /\ store \in {NewStore, OldStore} /\ kept = store
      /\ due = IF store = NewStore THEN 0 ELSE None
      /\ outbox = {} /\ cloud = {} /\ stage = "trading" /\ machine = 1 /\ answer = None
      /\ sync = [ready |-> FALSE, enabled |-> FALSE, backfilled |-> FALSE]
      /\ silent = FALSE
  BY DEF Init
<1>2. /\ store \in Stores /\ FiniteRows(store) /\ VerifyRestoreIntegrity(store)
      /\ From(Base, {}, store)
      /\ due # None => store = NewStore
  BY <1>1, NewStoreIs, NewStoreIsSound, OldStoreIsSound DEF Base, RestoreAssumption
<1>3. TypeOK
  <2>1. machine \in 1..MaxMachines
    BY <1>1 DEF RestoreAssumption
  <2>2. {store, kept} \subseteq Stores /\ due \in Nat \cup {None}
    BY <1>1, <1>2
  <2>3. sync \in [ready : BOOLEAN, enabled : BOOLEAN, backfilled : BOOLEAN]
    BY <1>1
  <2> QED
    BY <1>1, <2>1, <2>2, <2>3 DEF TypeOK
<1>4. Everything = {} /\ Unsent = {} /\ IsFiniteSet({})
  BY <1>1, FS_EmptySet DEF Everything, SentOf, Unsent
<1>5. Numbered
  BY <1>1, <1>4 DEF Numbered, SequencesOf
<1>6. Staged
  BY <1>1 DEF Staged, RestoreAssumption
<1>7. History
  BY <1>1, <1>2, <1>4, NewStoreIsSound DEF History, Whole
<1>8. Sound
  BY <1>1, <1>2 DEF Sound
<1> QED
  BY <1>1, <1>2, <1>3, <1>4, <1>5, <1>6, <1>7, <1>8 DEF RestoreInv

(* Every step keeps the invariant.                                         *)
LEMMA RestoreStep ==
    ASSUME RestoreAssumption, RestoreInv, [Next]_vars PROVE RestoreInv'
<1>1. CASE UNCHANGED vars
  BY <1>1
     DEF vars, machineVars, historyVars, RestoreInv, TypeOK, Numbered, Staged,
         History,
       Sound, FiniteRows, Everything, Unsent, UpTo, Base, Whole, Alive
<1>2. CASE Next
  BY <1>2, UpdateSettingsKeeps, SaveProductKeeps, ReceiveStockKeeps,
     SellOnAccountKeeps,
     PayAccountKeeps, RefundSaleKeeps, SetChargeKeeps, SellByCardKeeps,
     SetKioskKeeps,
     StopInCreateKioskKeeps, SaveConfigKeeps, SetEnabledKeeps, UploadKeeps,
     LoseMachineKeeps, SaveSettingsKeeps, RestoreKeeps, RefuseRestoreKeeps,
     AdoptKeeps,
     StopBeforeAdoptKeeps DEF Next
<1> QED
  BY <1>1, <1>2

(* The store of a restore is the store of the last upload.                 *)
LEMMA RestoreGives ==
    ASSUME RestoreInv PROVE RestoredIsTheStore
<1>1. SUFFICES ASSUME Whole
               PROVE  /\ answer # "refused"
                      /\ answer = "restored" => Restorable(store) = Restorable(kept)
  BY DEF RestoredIsTheStore
<1>2. answer # "refused"
  BY <1>1 DEF RestoreInv, Staged
<1>3. ASSUME answer = "restored" PROVE Restorable(store) = Restorable(kept)
  <2>1. From(NewStore, cloud, store) /\ store \in Stores /\ kept \in Stores
    BY <1>3 DEF RestoreInv, Staged, History, TypeOK
  <2>2. Alike(kept, store) /\ (Ordered /\ kept.settings > 0 => kept.settings = store.settings)
    BY <1>1, <2>1, KeptIsRestored
  <2> DEFINE settings(s) == IF Ordered /\ kept.settings > 0 THEN s.settings ELSE 0
             kiosk(s) == IF s.kiosk = None THEN None ELSE "revoked"
  <2>3. ASSUME NEW s \in Stores
        PROVE  Restorable(s) =
                 [settings |-> settings(s), product |-> s.product, moves |-> s.moves,
                  ledger |-> s.ledger, sales |-> s.sales, payments |-> s.payments,
                  refunds |-> s.refunds, charge |-> s.charge, kiosk |-> kiosk(s)]
    <3>1. Restorable(s) = [s EXCEPT !.kiosk = kiosk(s), !.settings = settings(s)]
      BY DEF Restorable
    <3> HIDE DEF settings, kiosk
    <3> QED
      BY <3>1 DEF Stores
  <2>4. settings(store) = settings(kept) /\ kiosk(store) = kiosk(kept)
    BY <2>2 DEF Alike
  <2> HIDE DEF settings, kiosk
  <2> QED
    BY <2>1, <2>2, <2>3, <2>4 DEF Alike
<1> QED
  BY <1>2, <1>3

-----------------------------------------------------------------------------
(* The store, its outbox and the cloud keep their types: among others no   *)
(* event is without a sequence, and no balance is anything but a number    *)
(* (enqueueOutboxEvent, customerBalance, nextReceiptNumber).               *)
THEOREM TypeCorrect == RestoreAssumption => (Spec => []TypeOK)
<1> SUFFICES ASSUME RestoreAssumption PROVE Spec => []TypeOK
  OBVIOUS
<1>1. RestoreInv => TypeOK
  BY DEF RestoreInv
<1> QED
  BY RestoreInit, RestoreStep, <1>1, PTL DEF Spec

(* A machine that is lost can be restored, again and again, to the store   *)
(* of the last uploaded event, and the restore is not refused, unless rows *)
(* were written that have no event (backfillOutbox, pushEvents,            *)
(* restoreFromEvents, verifyRestoreIntegrity).                             *)
THEOREM RestoreIsTheStore == RestoreAssumption => (Spec => []RestoredIsTheStore)
<1> SUFFICES ASSUME RestoreAssumption PROVE Spec => []RestoredIsTheStore
  OBVIOUS
<1>1. RestoreInv => RestoredIsTheStore
  BY RestoreGives
<1> QED
  BY RestoreInit, RestoreStep, <1>1, PTL DEF Spec
=============================================================================
