----------------------------- MODULE SumTheorems -----------------------------
(***************************************************************************)
(* What the proofs need to know of sums over finite sets: amounts of the   *)
(* ledger, units of stock, quantities of a line.  The sum of a function is *)
(* SumFunction, which is a recursion over the subsets of its domain; that  *)
(* this recursion has a solution, and one only, is proved first.           *)
(***************************************************************************)
EXTENDS Integers, Functions, FiniteSetTheorems, WellFoundedInduction, TLAPS

(* Induction over the subsets of a finite set, for a set of good ones.     *)
LEMMA SubsetInduction ==
    ASSUME NEW S, IsFiniteSet(S), NEW Good,
           \A U \in SUBSET S : (\A V \in SUBSET U : V # U => V \in Good) => U \in Good
    PROVE  \A U \in SUBSET S : U \in Good
<1> DEFINE Bad == {U \in SUBSET S : U \notin Good}
<1> SUFFICES ASSUME Bad # {} PROVE FALSE
  OBVIOUS
<1>1. Bad \subseteq FiniteSubsetsOf(S)
  BY FS_Subset DEF FiniteSubsetsOf
<1>2. PICK U \in Bad : \A V \in Bad : ~(<<V, U>> \in StrictSubsetOrdering(S))
  <2>1. IsWellFoundedOn(StrictSubsetOrdering(S), FiniteSubsetsOf(S))
    BY FS_StrictSubsetOrderingWellFounded
  <2> HIDE DEF Bad
  <2> QED
    BY <1>1, <2>1, WFMin
<1>3. ASSUME NEW V \in SUBSET U, V # U PROVE V \in Good
  BY <1>2, <1>3 DEF StrictSubsetOrdering
<1> QED
  BY <1>2, <1>3

(* ------------------------- The recursion of a sum ------------------------ *)

Chosen(U) == CHOOSE x \in U : TRUE

(* t gives every subset of S the sum of f over it.                         *)
IsSum(t, f, S) ==
    t = [U \in SUBSET S |->
           IF U = {} THEN 0 ELSE LET x == CHOOSE x \in U : TRUE IN f[x] + t[U \ {x}]]

LEMMA SumUnfolded ==
    ASSUME NEW t, NEW f, NEW S, IsSum(t, f, S)
    PROVE  /\ {} \in SUBSET S /\ t[{}] = 0
           /\ \A U \in SUBSET S : U # {} =>
                /\ Chosen(U) \in U /\ U \ {Chosen(U)} \in SUBSET S
                /\ t[U] = f[Chosen(U)] + t[U \ {Chosen(U)}]
<1>1. \A U \in SUBSET S : t[U] =
        IF U = {} THEN 0 ELSE LET x == CHOOSE x \in U : TRUE IN f[x] + t[U \ {x}]
  BY DEF IsSum
<1>2. \A U \in SUBSET S : U # {} => Chosen(U) \in U
  BY DEF Chosen
<1> QED
  BY <1>1, <1>2 DEF Chosen

(* Functions that agree on T have the same sums there.                     *)
LEMMA SumUnique ==
    ASSUME NEW S, NEW f, NEW t, IsSum(t, f, S), NEW T, NEW g, NEW u, IsSum(u, g, T),
           T \subseteq S, IsFiniteSet(T), \A x \in T : f[x] = g[x]
    PROVE  \A U \in SUBSET T : t[U] = u[U]
<1> DEFINE Good == {U \in SUBSET T : t[U] = u[U]}
           Unfolded(v, h, R) ==
             /\ v[{}] = 0
             /\ \A U \in SUBSET R : U # {} =>
                  Chosen(U) \in U /\ v[U] = h[Chosen(U)] + v[U \ {Chosen(U)}]
<1>2. ASSUME NEW v, NEW h, NEW R, IsSum(v, h, R) PROVE Unfolded(v, h, R)
  BY <1>2, SumUnfolded
<1>3. Unfolded(t, f, S) /\ Unfolded(u, g, T)
  BY <1>2
<1>1. ASSUME NEW U \in SUBSET T, \A V \in SUBSET U : V # U => V \in Good
      PROVE  U \in Good
  <2>1. CASE U = {}
    BY <1>3, <2>1
  <2>2. CASE U # {}
    <3>1. /\ Chosen(U) \in U
          /\ t[U] = f[Chosen(U)] + t[U \ {Chosen(U)}]
          /\ u[U] = g[Chosen(U)] + u[U \ {Chosen(U)}]
      BY <1>3, <2>2
    <3>2. U \ {Chosen(U)} \in Good
      BY <1>1, <3>1
    <3> QED
      BY <3>1, <3>2
  <2> QED
    BY <2>1, <2>2
<1> HIDE DEF Good, Unfolded
<1>4. \A U \in SUBSET T : U \in Good
  BY <1>1, SubsetInduction
<1> QED
  BY <1>4 DEF Good

LEMMA SumExists ==
    ASSUME NEW f, NEW S, IsFiniteSet(S)
    PROVE  \E t : IsSum(t, f, S)
<1> DEFINE Good == {U \in SUBSET S : \E t : IsSum(t, f, U)}
           T(U) == CHOOSE t : IsSum(t, f, U)
<1>1. ASSUME NEW U \in SUBSET S, \A V \in SUBSET U : V # U => V \in Good
      PROVE  U \in Good
  <2>1. \A V \in SUBSET U : V # U => IsSum(T(V), f, V)
    BY <1>1
  <2> DEFINE W(V) == V \ {Chosen(V)}
             t == [V \in SUBSET U |->
                     IF V = {} THEN 0 ELSE f[Chosen(V)] + T(W(V))[W(V)]]
  <2> HIDE DEF T
  <2>2. ASSUME NEW V \in SUBSET U, V # U PROVE t[V] = T(V)[V]
    <3>1. CASE V = {}
      BY <2>1, <2>2, <3>1, SumUnfolded
    <3>2. CASE V # {}
      <4>1. /\ Chosen(V) \in V /\ W(V) \in SUBSET V
            /\ T(V)[V] = f[Chosen(V)] + T(V)[W(V)]
        BY <2>1, <2>2, <3>2, SumUnfolded
      <4>2. IsSum(T(W(V)), f, W(V)) /\ IsSum(T(V), f, V)
        BY <2>1, <2>2, <4>1
      <4>3. IsFiniteSet(W(V))
        BY FS_Subset
      <4>4. \A X \in SUBSET W(V) : T(V)[X] = T(W(V))[X]
        <5> DEFINE w == W(V)
                   a == T(V)
                   b == T(w)
        <5>1. w \in SUBSET V /\ IsFiniteSet(w) /\ IsSum(a, f, V) /\ IsSum(b, f, w)
          BY <4>1, <4>2, <4>3
        <5>2. w \subseteq V /\ \A x \in w : f[x] = f[x]
          BY <5>1
        <5> HIDE DEF w, a, b
        <5>3. \A X \in SUBSET w : a[X] = b[X]
          BY <5>1, <5>2, SumUnique
        <5> QED
          BY <5>3 DEF w, a, b
      <4> QED
        BY <3>2, <4>1, <4>4
    <3> QED
      BY <3>1, <3>2
  <2>3. \A V \in SUBSET U : V # {} => Chosen(V) \in V
    BY DEF Chosen
  <2>4. ASSUME NEW V \in SUBSET U, V # {} PROVE t[V] = f[Chosen(V)] + t[W(V)]
    BY <2>2, <2>3, <2>4
  <2>5. t[{}] = 0 /\ DOMAIN t = SUBSET U
    OBVIOUS
  <2>6. t = [V \in DOMAIN t |-> t[V]]
    OBVIOUS
  <2> HIDE DEF t
  <2>7. IsSum(t, f, U)
    BY <2>4, <2>5, <2>6 DEF IsSum, Chosen
  <2> QED
    BY <2>7
<1> HIDE DEF Good
<1>2. S \in Good
  BY <1>1, SubsetInduction
<1> QED
  BY <1>2 DEF Good

LEMMA SumOnIsSum ==
    ASSUME NEW f, NEW S, IsFiniteSet(S)
    PROVE  \E t : IsSum(t, f, S) /\ SumFunctionOnSet(f, S) = t[S]
<1>1. PICK t : IsSum(t, f, S)
  BY SumExists
<1> QED
  BY <1>1 DEF SumFunctionOnSet, FoldFunctionOnSet, MapThenFoldSet, IsSum

(* ------------------------------- Sums, unfolded -------------------------- *)

LEMMA SumOnEmpty == \A f : SumFunctionOnSet(f, {}) = 0
<1> SUFFICES ASSUME NEW f PROVE SumFunctionOnSet(f, {}) = 0
  OBVIOUS
<1>1. PICK t : IsSum(t, f, {}) /\ SumFunctionOnSet(f, {}) = t[{}]
  BY SumOnIsSum, FS_EmptySet
<1> QED
  BY <1>1, SumUnfolded

LEMMA SumOnAgrees ==
    ASSUME NEW S, IsFiniteSet(S), NEW f, NEW g, \A x \in S : f[x] = g[x]
    PROVE  SumFunctionOnSet(f, S) = SumFunctionOnSet(g, S)
<1>1. PICK t : IsSum(t, f, S) /\ SumFunctionOnSet(f, S) = t[S]
  BY SumOnIsSum
<1>2. PICK u : IsSum(u, g, S) /\ SumFunctionOnSet(g, S) = u[S]
  BY SumOnIsSum
<1>3. S \in SUBSET S /\ S \subseteq S
  OBVIOUS
<1>4. t[S] = u[S]
  BY <1>1, <1>2, <1>3, SumUnique
<1> QED
  BY <1>1, <1>2, <1>4

LEMMA SumOnChosen ==
    ASSUME NEW S, IsFiniteSet(S), S # {}, NEW f
    PROVE  /\ Chosen(S) \in S
           /\ SumFunctionOnSet(f, S)
                = f[Chosen(S)] + SumFunctionOnSet(f, S \ {Chosen(S)})
<1> DEFINE R == S \ {Chosen(S)}
<1>1. PICK t : IsSum(t, f, S) /\ SumFunctionOnSet(f, S) = t[S]
  BY SumOnIsSum
<1>2. R \in SUBSET S /\ IsFiniteSet(R) /\ S \in SUBSET S
  BY FS_Subset
<1>3. PICK u : IsSum(u, f, R) /\ SumFunctionOnSet(f, R) = u[R]
  BY <1>2, SumOnIsSum
<1>4. t[S] = f[Chosen(S)] + t[R] /\ Chosen(S) \in S
  BY <1>1, <1>2, SumUnfolded
<1>5. t[R] = u[R]
  <2>1. R \subseteq S /\ R \in SUBSET R /\ \A x \in R : f[x] = f[x]
    OBVIOUS
  <2> HIDE DEF R
  <2> QED
    BY <1>1, <1>2, <1>3, <2>1, SumUnique
<1> QED
  BY <1>1, <1>3, <1>4, <1>5

LEMMA SumOnInt ==
    ASSUME NEW S, IsFiniteSet(S), NEW f, \A x \in S : f[x] \in Int
    PROVE  \A U \in SUBSET S : SumFunctionOnSet(f, U) \in Int
<1> DEFINE Good == {U \in SUBSET S : SumFunctionOnSet(f, U) \in Int}
<1>1. ASSUME NEW U \in SUBSET S, \A V \in SUBSET U : V # U => V \in Good
      PROVE  U \in Good
  <2>1. CASE U = {}
    BY <2>1, SumOnEmpty
  <2>2. CASE U # {}
    <3>1. IsFiniteSet(U)
      BY FS_Subset
    <3>2. /\ Chosen(U) \in U
          /\ SumFunctionOnSet(f, U)
               = f[Chosen(U)] + SumFunctionOnSet(f, U \ {Chosen(U)})
      BY <2>2, <3>1, SumOnChosen
    <3>3. U \ {Chosen(U)} \in Good
      BY <1>1, <3>2
    <3> QED
      BY <3>2, <3>3
  <2> QED
    BY <2>1, <2>2
<1> HIDE DEF Good
<1>2. \A U \in SUBSET S : U \in Good
  BY <1>1, SubsetInduction
<1> QED
  BY <1>2 DEF Good

(* Any element may be taken out first.                                     *)
LEMMA SumOnSplit ==
    ASSUME NEW S, IsFiniteSet(S), NEW f, \A x \in S : f[x] \in Int
    PROVE  \A U \in SUBSET S : \A x \in U :
             SumFunctionOnSet(f, U) = f[x] + SumFunctionOnSet(f, U \ {x})
<1> DEFINE Out(U, x) == SumFunctionOnSet(f, U) = f[x] + SumFunctionOnSet(f, U \ {x})
           Good == {U \in SUBSET S : \A x \in U : Out(U, x)}
<1>1. ASSUME NEW U \in SUBSET S, \A V \in SUBSET U : V # U => V \in Good
      PROVE  U \in Good
  <2> SUFFICES ASSUME NEW x \in U PROVE Out(U, x)
    OBVIOUS
  <2> DEFINE y == Chosen(U)
             X == U \ {x}
             Y == U \ {y}
  <2>1. IsFiniteSet(U)
    BY FS_Subset
  <2>2. y \in U /\ Out(U, y)
    BY <2>1, SumOnChosen
  <2> HIDE DEF y
  <2>3. CASE x = y
    BY <2>2, <2>3
  <2>4. CASE x # y
    <3>1. X \in Good /\ Y \in Good /\ y \in X /\ x \in Y
      BY <1>1, <2>2, <2>4
    <3>2. Out(X, y) /\ Out(Y, x)
      BY <3>1
    <3>3. X \ {y} = Y \ {x}
      OBVIOUS
    <3>4. f[x] \in Int /\ f[y] \in Int /\ SumFunctionOnSet(f, X \ {y}) \in Int
      BY <2>2, SumOnInt
    <3> HIDE DEF X, Y
    <3>5. f[y] + (f[x] + SumFunctionOnSet(f, X \ {y}))
            = f[x] + (f[y] + SumFunctionOnSet(f, X \ {y}))
      BY <3>4
    <3> QED
      BY <2>2, <3>2, <3>3, <3>5 DEF X, Y
  <2> QED
    BY <2>3, <2>4
<1> HIDE DEF Good
<1>2. \A U \in SUBSET S : U \in Good
  BY <1>1, SubsetInduction
<1> QED
  BY <1>2 DEF Good


(* ------------------------------ Sums of functions ------------------------ *)

LEMMA SumEmpty == \A f : DOMAIN f = {} => SumFunction(f) = 0
  BY SumOnEmpty DEF SumFunction

LEMMA SumOnPart ==
    ASSUME NEW S, IsFiniteSet(S), NEW f
    PROVE  SumFunction([x \in S |-> f[x]]) = SumFunctionOnSet(f, S)
<1> DEFINE g == [x \in S |-> f[x]]
<1>1. DOMAIN g = S /\ \A x \in S : g[x] = f[x]
  OBVIOUS
<1> HIDE DEF g
<1>2. SumFunctionOnSet(g, S) = SumFunctionOnSet(f, S)
  BY <1>1, SumOnAgrees
<1>3. SumFunction(g) = SumFunctionOnSet(f, S)
  BY <1>1, <1>2 DEF SumFunction
<1> QED
  BY <1>3 DEF g

LEMMA SumInt ==
    ASSUME NEW S, IsFiniteSet(S), NEW f \in [S -> Int]
    PROVE  SumFunction(f) \in Int
<1>1. S \in SUBSET S /\ DOMAIN f = S /\ \A x \in S : f[x] \in Int
  OBVIOUS
<1>2. SumFunctionOnSet(f, S) \in Int
  BY <1>1, SumOnInt
<1> QED
  BY <1>1, <1>2 DEF SumFunction

LEMMA SumSplit ==
    ASSUME NEW S, IsFiniteSet(S), NEW f \in [S -> Int], NEW x \in S
    PROVE  /\ SumFunction(f) = f[x] + SumFunction([y \in S \ {x} |-> f[y]])
           /\ SumFunction([y \in S \ {x} |-> f[y]]) \in Int
<1>1. S \in SUBSET S /\ DOMAIN f = S /\ \A y \in S : f[y] \in Int
  OBVIOUS
<1>2. SumFunctionOnSet(f, S) = f[x] + SumFunctionOnSet(f, S \ {x})
  BY <1>1, SumOnSplit
<1> DEFINE R == S \ {x}
<1>3. IsFiniteSet(R) /\ R \in SUBSET S
  BY FS_Subset
<1> HIDE DEF R
<1>4. SumFunction([y \in R |-> f[y]]) = SumFunctionOnSet(f, R)
  BY <1>3, SumOnPart
<1>5. SumFunctionOnSet(f, R) \in Int
  BY <1>1, <1>3, SumOnInt
<1> QED
  BY <1>1, <1>2, <1>4, <1>5 DEF SumFunction, R

(* A sum over one element more.                                            *)
LEMMA SumExtended ==
    ASSUME NEW S, IsFiniteSet(S), NEW f \in [S -> Int], NEW x, x \notin S,
           NEW g \in [S \cup {x} -> Int], \A y \in S : g[y] = f[y]
    PROVE  SumFunction(g) = SumFunction(f) + g[x]
<1> DEFINE T == S \cup {x}
<1>1. IsFiniteSet(T) /\ x \in T /\ T \ {x} = S
  BY FS_AddElement
<1>2. [y \in S |-> g[y]] = f
  OBVIOUS
<1>3. SumFunction(f) \in Int /\ g[x] \in Int
  BY SumInt
<1>4. g \in [T -> Int]
  OBVIOUS
<1> HIDE DEF T
<1>5. SumFunction(g) = g[x] + SumFunction([y \in T \ {x} |-> g[y]])
  BY <1>1, <1>4, SumSplit
<1> QED
  BY <1>1, <1>2, <1>3, <1>5

(* One element changes its value.                                          *)
LEMMA SumChanged ==
    ASSUME NEW S, IsFiniteSet(S), NEW f \in [S -> Int], NEW g \in [S -> Int],
           NEW x \in S, \A y \in S \ {x} : g[y] = f[y]
    PROVE  SumFunction(g) = SumFunction(f) - f[x] + g[x]
<1>1. [y \in S \ {x} |-> g[y]] = [y \in S \ {x} |-> f[y]]
  OBVIOUS
<1>2. ASSUME NEW h \in [S -> Int]
      PROVE  /\ SumFunction(h) = h[x] + SumFunction([y \in S \ {x} |-> h[y]])
             /\ SumFunction([y \in S \ {x} |-> h[y]]) \in Int
  BY SumSplit
<1> DEFINE rest == SumFunction([y \in S \ {x} |-> f[y]])
<1>3. /\ SumFunction(f) = f[x] + rest
      /\ SumFunction(g) = g[x] + rest
      /\ rest \in Int
  BY <1>1, <1>2
<1>4. f[x] \in Int /\ g[x] \in Int
  OBVIOUS
<1> HIDE DEF rest
<1> QED
  BY <1>3, <1>4

LEMMA SumPlus ==
    ASSUME NEW S, IsFiniteSet(S), NEW f \in [S -> Int], NEW g \in [S -> Int],
           NEW h \in [S -> Int], \A x \in S : h[x] = f[x] + g[x]
    PROVE  SumFunction(h) = SumFunction(f) + SumFunction(g)
<1> DEFINE Adds(U) == SumFunctionOnSet(h, U)
                        = SumFunctionOnSet(f, U) + SumFunctionOnSet(g, U)
           Good == {U \in SUBSET S : Adds(U)}
<1>1. ASSUME NEW U \in SUBSET S, \A V \in SUBSET U : V # U => V \in Good
      PROVE  U \in Good
  <2>1. CASE U = {}
    BY <2>1, SumOnEmpty
  <2>2. CASE U # {}
    <3>1. PICK x \in U : TRUE
      BY <2>2
    <3> DEFINE R == U \ {x}
    <3>2. R \in Good /\ R \in SUBSET S
      BY <1>1
    <3>3. \A y \in S : f[y] \in Int /\ g[y] \in Int /\ h[y] \in Int
      OBVIOUS
    <3>4. /\ SumFunctionOnSet(f, U) = f[x] + SumFunctionOnSet(f, R)
          /\ SumFunctionOnSet(f, R) \in Int
      BY <3>2, <3>3, SumOnSplit, SumOnInt
    <3>5. /\ SumFunctionOnSet(g, U) = g[x] + SumFunctionOnSet(g, R)
          /\ SumFunctionOnSet(g, R) \in Int
      BY <3>2, <3>3, SumOnSplit, SumOnInt
    <3>6. SumFunctionOnSet(h, U) = h[x] + SumFunctionOnSet(h, R)
      BY <3>2, <3>3, SumOnSplit
    <3>7. Adds(R) /\ h[x] = f[x] + g[x] /\ f[x] \in Int /\ g[x] \in Int
      BY <3>2, <3>3
    <3> HIDE DEF R
    <3> QED
      BY <3>4, <3>5, <3>6, <3>7
  <2> QED
    BY <2>1, <2>2
<1> HIDE DEF Good
<1>2. S \in Good
  BY <1>1, SubsetInduction
<1>3. DOMAIN f = S /\ DOMAIN g = S /\ DOMAIN h = S
  OBVIOUS
<1> QED
  BY <1>2, <1>3 DEF Good, SumFunction

LEMMA SumNat ==
    ASSUME NEW S, IsFiniteSet(S), NEW f \in [S -> Nat]
    PROVE  SumFunction(f) \in Nat
<1> DEFINE Good == {U \in SUBSET S : SumFunctionOnSet(f, U) \in Nat}
<1>1. ASSUME NEW U \in SUBSET S, \A V \in SUBSET U : V # U => V \in Good
      PROVE  U \in Good
  <2>1. CASE U = {}
    BY <2>1, SumOnEmpty
  <2>2. CASE U # {}
    <3>1. PICK x \in U : TRUE
      BY <2>2
    <3>2. U \ {x} \in Good
      BY <1>1
    <3>3. \A y \in S : f[y] \in Int /\ f[y] \in Nat
      OBVIOUS
    <3>4. SumFunctionOnSet(f, U) = f[x] + SumFunctionOnSet(f, U \ {x})
      BY <3>3, SumOnSplit
    <3> QED
      BY <3>2, <3>3, <3>4
  <2> QED
    BY <2>1, <2>2
<1> HIDE DEF Good
<1>2. S \in Good
  BY <1>1, SubsetInduction
<1> QED
  BY <1>2 DEF Good, SumFunction

LEMMA SumMonotone ==
    ASSUME NEW S, IsFiniteSet(S), NEW f \in [S -> Int], NEW g \in [S -> Int],
           \A x \in S : f[x] <= g[x]
    PROVE  SumFunction(f) <= SumFunction(g)
<1> DEFINE d == [x \in S |-> g[x] - f[x]]
<1>1. d \in [S -> Nat] /\ d \in [S -> Int] /\ \A x \in S : g[x] = f[x] + d[x]
  OBVIOUS
<1> HIDE DEF d
<1>2. SumFunction(g) = SumFunction(f) + SumFunction(d)
  BY <1>1, SumPlus
<1>3. SumFunction(d) \in Nat /\ SumFunction(f) \in Int
  BY <1>1, SumNat, SumInt
<1> QED
  BY <1>2, <1>3

(* Elements that add nothing may be left out.                              *)
LEMMA SumPart ==
    ASSUME NEW S, IsFiniteSet(S), NEW f \in [S -> Int], NEW T \in SUBSET S,
           \A x \in S \ T : f[x] = 0
    PROVE  SumFunction(f) = SumFunction([x \in T |-> f[x]])
<1> DEFINE Good == {U \in SUBSET S :
                      SumFunctionOnSet(f, U) = SumFunctionOnSet(f, U \cap T)}
<1>1. ASSUME NEW U \in SUBSET S, \A V \in SUBSET U : V # U => V \in Good
      PROVE  U \in Good
  <2>1. CASE U \subseteq T
    <3>1. U \cap T = U
      BY <2>1
    <3> QED
      BY <3>1
  <2>2. CASE ~(U \subseteq T)
    <3>1. PICK x \in U : x \notin T
      BY <2>2
    <3>2. U \ {x} \in Good /\ (U \ {x}) \cap T = U \cap T /\ f[x] = 0
      BY <1>1, <3>1
    <3>3. \A y \in S : f[y] \in Int
      OBVIOUS
    <3>4. SumFunctionOnSet(f, U) = f[x] + SumFunctionOnSet(f, U \ {x})
      BY <3>3, SumOnSplit
    <3>5. SumFunctionOnSet(f, U \cap T) \in Int
      <4>1. U \cap T \in SUBSET S
        OBVIOUS
      <4> QED
        BY <3>3, <4>1, SumOnInt
    <3>6. SumFunctionOnSet(f, U \ {x}) = SumFunctionOnSet(f, U \cap T)
      BY <3>2
    <3> QED
      BY <3>2, <3>4, <3>5, <3>6
  <2> QED
    BY <2>1, <2>2
<1> HIDE DEF Good
<1>2. S \in Good
  BY <1>1, SubsetInduction
<1>3. S \cap T = T /\ DOMAIN f = S /\ IsFiniteSet(T)
  BY FS_Subset
<1>4. SumFunction([x \in T |-> f[x]]) = SumFunctionOnSet(f, T)
  BY <1>3, SumOnPart
<1> QED
  BY <1>2, <1>3, <1>4 DEF Good, SumFunction

LEMMA SumZero ==
    ASSUME NEW S, IsFiniteSet(S), NEW f \in [S -> Int], \A x \in S : f[x] = 0
    PROVE  SumFunction(f) = 0
<1>1. {} \in SUBSET S /\ \A x \in S \ {} : f[x] = 0
  OBVIOUS
<1>2. SumFunction(f) = SumFunction([x \in {} |-> f[x]])
  BY <1>1, SumPart
<1>3. DOMAIN [x \in {} |-> f[x]] = {}
  OBVIOUS
<1> QED
  BY <1>2, <1>3, SumEmpty

(* A part of the sum, and one addend taken out of it, for integers. *)
LEMMA SumSplits ==
    ASSUME NEW S, IsFiniteSet(S), NEW f \in [S -> Int]
    PROVE  /\ \A U \in SUBSET S : SumFunctionOnSet(f, U) \in Int
           /\ \A U \in SUBSET S : \A x \in U :
                SumFunctionOnSet(f, U) = f[x] + SumFunctionOnSet(f, U \ {x})
<1>1. \A x \in S : f[x] \in Int
  OBVIOUS
<1>2. \A U \in SUBSET S : SumFunctionOnSet(f, U) \in Int
  BY <1>1, SumOnInt
<1>3. ASSUME NEW U \in SUBSET S, NEW x \in U
      PROVE  SumFunctionOnSet(f, U) = f[x] + SumFunctionOnSet(f, U \ {x})
  BY <1>1, SumOnSplit
<1> QED
  BY <1>2, <1>3

(* What is summed group by group is the sum.                               *)
LEMMA SumGrouped ==
    ASSUME NEW S, IsFiniteSet(S), NEW T, IsFiniteSet(T),
           NEW f \in [S -> Int], NEW group \in [S -> T]
    PROVE  SumFunction([t \in T |->
             SumFunction([x \in {y \in S : group[y] = t} |-> f[x]])]) = SumFunction(f)
<1>a. /\ \A V \in SUBSET S : SumFunctionOnSet(f, V) \in Int
      /\ \A V \in SUBSET S : \A y \in V :
           SumFunctionOnSet(f, V) = f[y] + SumFunctionOnSet(f, V \ {y})
  BY SumSplits
<1> DEFINE In(U, t) == {y \in U : group[y] = t}
           parts(U) == [t \in T |-> SumFunctionOnSet(f, In(U, t))]
           Adds(U) == SumFunction(parts(U)) = SumFunctionOnSet(f, U)
           Good == {U \in SUBSET S : Adds(U)}
<1>1. \A y \in S : f[y] \in Int /\ group[y] \in T
  OBVIOUS
<1>2. ASSUME NEW U \in SUBSET S PROVE parts(U) \in [T -> Int]
  <2>1. \A t \in T : In(U, t) \in SUBSET S
    OBVIOUS
  <2> QED
    BY <1>1, <2>1, SumOnInt
<1>3. ASSUME NEW U \in SUBSET S, \A V \in SUBSET U : V # U => V \in Good
      PROVE  U \in Good
  <2>1. CASE U = {}
    <3>1. \A t \in T : In(U, t) = {}
      BY <2>1
    <3>2. \A t \in T : parts(U)[t] = 0
      BY <3>1, SumOnEmpty
    <3> HIDE DEF parts
    <3>3. SumFunction(parts(U)) = 0
      BY <1>2, <3>2, SumZero
    <3> QED
      BY <2>1, <3>3, SumOnEmpty
  <2>2. CASE U # {}
    <3>1. PICK x \in U : TRUE
      BY <2>2
    <3> DEFINE R == U \ {x}
               k == group[x]
    <3>2. R \in Good /\ R \in SUBSET S /\ k \in T /\ x \in S
      BY <1>1, <1>3
    <3>3. SumFunctionOnSet(f, U) = f[x] + SumFunctionOnSet(f, R)
      BY <1>1, SumOnSplit
    <3>4. In(U, k) \in SUBSET S /\ x \in In(U, k) /\ In(U, k) \ {x} = In(R, k)
      OBVIOUS
    <3>5. /\ SumFunctionOnSet(f, In(U, k)) = f[x] + SumFunctionOnSet(f, In(R, k))
          /\ SumFunctionOnSet(f, In(R, k)) \in Int
      <4> HIDE DEF In
      <4>1. In(R, k) \in SUBSET S
        BY <3>4
      <4> QED
        BY <3>4, <4>1, <1>a
    <3>6. \A t \in T \ {k} : In(U, t) = In(R, t)
      OBVIOUS
    <3>7. /\ parts(U)[k] = f[x] + parts(R)[k] /\ parts(R)[k] \in Int
          /\ \A t \in T \ {k} : parts(U)[t] = parts(R)[t]
      BY <3>2, <3>5, <3>6
    <3>8. parts(U) \in [T -> Int] /\ parts(R) \in [T -> Int]
      BY <1>2, <3>2
    <3>9. Adds(R) /\ f[x] \in Int
      BY <1>1, <3>2
    <3> HIDE DEF parts, R, k
    <3>10. SumFunction(parts(U)) = SumFunction(parts(R)) - parts(R)[k] + parts(U)[k]
      <4> DEFINE p == parts(U)
                 q == parts(R)
      <4>1. /\ p \in [T -> Int] /\ q \in [T -> Int]
            /\ \A t \in T \ {k} : p[t] = q[t]
        BY <3>7, <3>8
      <4> HIDE DEF p, q
      <4>2. SumFunction(p) = SumFunction(q) - q[k] + p[k]
        BY <3>2, <4>1, SumChanged
      <4> QED
        BY <4>2 DEF p, q
    <3>11. SumFunction(parts(R)) \in Int
      BY <3>8, SumInt
    <3> QED
      BY <3>3, <3>7, <3>9, <3>10, <3>11
  <2> QED
    BY <2>1, <2>2
<1> HIDE DEF Good
<1>4. S \in Good
  BY <1>3, SubsetInduction
<1>5. \A t \in T : SumFunction([x \in In(S, t) |-> f[x]]) = SumFunctionOnSet(f, In(S, t))
  <2> TAKE t \in T
  <2>1. IsFiniteSet(In(S, t))
    BY FS_Subset
  <2> HIDE DEF In
  <2> QED
    BY <2>1, SumOnPart
<1>6. parts(S) = [t \in T |-> SumFunction([x \in In(S, t) |-> f[x]])]
  BY <1>5
<1>7. Adds(S) /\ DOMAIN f = S
  BY <1>4 DEF Good
<1> HIDE DEF parts
<1> QED
  BY <1>6, <1>7 DEF SumFunction


(* A sum over two parts.                                                   *)
LEMMA SumParts ==
    ASSUME NEW S, IsFiniteSet(S), NEW f \in [S -> Int], NEW T \in SUBSET S,
           NEW g \in [T -> Int], \A x \in T : g[x] = f[x],
           NEW h \in [S \ T -> Int], \A x \in S \ T : h[x] = f[x]
    PROVE  SumFunction(f) = SumFunction(g) + SumFunction(h)
<1> DEFINE f1 == [x \in S |-> IF x \in T THEN f[x] ELSE 0]
           f2 == [x \in S |-> IF x \in T THEN 0 ELSE f[x]]
           R == S \ T
<1>1. f1 \in [S -> Int] /\ f2 \in [S -> Int] /\ \A x \in S : f[x] = f1[x] + f2[x]
  OBVIOUS
<1>2. /\ \A x \in S \ T : f1[x] = 0
      /\ \A x \in S \ R : f2[x] = 0
      /\ R \in SUBSET S
  OBVIOUS
<1>3. [x \in T |-> f1[x]] = g /\ [x \in R |-> f2[x]] = h
  OBVIOUS
<1> HIDE DEF f1, f2, R
<1>4. SumFunction(f) = SumFunction(f1) + SumFunction(f2)
  BY <1>1, SumPlus
<1>5. ASSUME NEW F \in [S -> Int], NEW U \in SUBSET S, \A x \in S \ U : F[x] = 0
      PROVE  SumFunction(F) = SumFunction([x \in U |-> F[x]])
  BY <1>5, SumPart
<1>6. SumFunction(f1) = SumFunction([x \in T |-> f1[x]])
  BY <1>1, <1>2, <1>5
<1>7. SumFunction(f2) = SumFunction([x \in R |-> f2[x]])
  BY <1>1, <1>2, <1>5
<1>. QED  BY <1>3, <1>4, <1>6, <1>7

LEMMA SumNegative ==
    ASSUME NEW S, IsFiniteSet(S), NEW f \in [S -> Int], NEW g \in [S -> Int],
           \A x \in S : g[x] = -f[x]
    PROVE  SumFunction(g) = -SumFunction(f)
<1> DEFINE z == [x \in S |-> 0]
<1>1. z \in [S -> Int] /\ (\A x \in S : z[x] = 0) /\ \A x \in S : z[x] = f[x] + g[x]
  OBVIOUS
<1> HIDE DEF z
<1>0. ASSUME NEW F \in [S -> Int], NEW G \in [S -> Int], NEW H \in [S -> Int],
             \A x \in S : H[x] = F[x] + G[x]
      PROVE  SumFunction(H) = SumFunction(F) + SumFunction(G)
  BY <1>0, SumPlus
<1>2. SumFunction(z) = SumFunction(f) + SumFunction(g)
  BY <1>0, <1>1
<1>3. SumFunction(z) = 0
  BY <1>1, SumZero
<1>4. SumFunction(f) \in Int /\ SumFunction(g) \in Int
  BY SumInt
<1>. QED  BY <1>2, <1>3, <1>4

(* What comes in less what goes out.                                       *)
LEMMA SumSigned ==
    ASSUME NEW S, IsFiniteSet(S), NEW f \in [S -> Int]
    PROVE  LET gains == [x \in {y \in S : f[y] > 0} |-> f[x]]
               losses == [x \in {y \in S : f[y] < 0} |-> -f[x]]
           IN  /\ SumFunction(f) = SumFunction(gains) - SumFunction(losses)
               /\ SumFunction(gains) \in Int /\ SumFunction(losses) \in Int
<1> DEFINE P == {y \in S : f[y] > 0}
           N == {y \in S : f[y] < 0}
           R == S \ P
           gains == [x \in P |-> f[x]]
           losses == [x \in N |-> -f[x]]
           rest == [x \in R |-> f[x]]
           below == [x \in N |-> f[x]]
<1>1. /\ P \in SUBSET S /\ N \in SUBSET R /\ R \subseteq S /\ N \subseteq S
      /\ IsFiniteSet(P) /\ IsFiniteSet(N) /\ IsFiniteSet(R)
  <2>1. P \in SUBSET S /\ N \in SUBSET R /\ R \subseteq S /\ N \subseteq S
    OBVIOUS
  <2> HIDE DEF P, N, R
  <2>. QED  BY <2>1, FS_Subset
<1>2. /\ gains \in [P -> Int] /\ losses \in [N -> Int] /\ rest \in [R -> Int]
      /\ below \in [N -> Int]
  OBVIOUS
<1>3. SumFunction(f) = SumFunction(gains) + SumFunction(rest)
  <2>1. (\A x \in P : gains[x] = f[x]) /\ rest \in [S \ P -> Int] /\ \A x \in S \ P : rest[x] = f[x]
    OBVIOUS
  <2>2. P \in SUBSET S /\ gains \in [P -> Int]
    BY <1>1, <1>2
  <2>3. ASSUME NEW U \in SUBSET S, NEW G \in [U -> Int], NEW H \in [S \ U -> Int],
               \A x \in U : G[x] = f[x], \A x \in S \ U : H[x] = f[x]
        PROVE  SumFunction(f) = SumFunction(G) + SumFunction(H)
    BY <2>3, SumParts
  <2> HIDE DEF P, N, R, gains, losses, rest, below
  <2>. QED  BY <2>1, <2>2, <2>3
<1>4. SumFunction(rest) = SumFunction(below)
  <2>1. \A x \in R \ N : rest[x] = 0
    OBVIOUS
  <2>2. [x \in N |-> rest[x]] = below
    OBVIOUS
  <2> HIDE DEF P, N, R, gains, losses, rest, below
  <2>3. SumFunction(rest) = SumFunction([x \in N |-> rest[x]])
    BY <1>1, <1>2, <2>1, SumPart
  <2>. QED  BY <2>2, <2>3
<1>5. SumFunction(losses) = -SumFunction(below)
  <2>1. \A x \in N : losses[x] = -below[x]
    OBVIOUS
  <2> HIDE DEF P, N, R, gains, losses, rest, below
  <2>. QED  BY <1>1, <1>2, <2>1, SumNegative
<1> HIDE DEF P, N, R, gains, losses, rest, below
<1>6. SumFunction(gains) \in Int /\ SumFunction(below) \in Int
  BY <1>1, <1>2, SumInt
<1>7. SumFunction(f) = SumFunction(gains) - SumFunction(losses) /\ SumFunction(losses) \in Int
  BY <1>3, <1>4, <1>5, <1>6
<1>. QED  BY <1>6, <1>7 DEF gains, losses, P, N
==============================================================================
