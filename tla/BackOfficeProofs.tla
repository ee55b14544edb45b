--------------------------- MODULE BackOfficeProofs ---------------------------
(***************************************************************************)
(* Theorems about the back office, for every value of its constants: the   *)
(* application implements each of its components, and what a component     *)
(* promises holds of the application as a whole.                           *)
(***************************************************************************)
EXTENDS BackOffice, StoreBooksProofs, SequenceTheorems

(* The components count as this module does.                               *)
LEMMA DoorCounts ==
    /\ \A S : Door!IsFiniteSet(S) <=> IsFiniteSet(S)
    /\ \A S : Door!Cardinality(S) = Cardinality(S)
BY DEF Door!IsFiniteSet, IsFiniteSet, Door!Cardinality, Cardinality

LEMMA CopiesCount == \A S : Copies!Cardinality(S) = Cardinality(S)
BY DEF Copies!Cardinality, Cardinality

-----------------------------------------------------------------------------
(* Stock counts *)

(* What a count stands for when every application adds its difference.     *)
Explained(c) ==
    \A p \in Count!Line(c) :
        shelfStock[p] = expected[c][p] + since[c][p]
                   + posted[c] * (counted[c][p] - expected[c][p])

(* A count that is not finished has corrected nothing and remembers no     *)
(* movement: when it is finished its history starts at zero.               *)
Untouched(c) == posted[c] = 0 /\ \A p \in Shelf : since[c][p] = 0

(* The window works on a count that was started.                           *)
Opened == window # None => stockCount[window.count] \in Count!CountRows

CountInv ==
    /\ Count!TypeOK
    /\ Opened
    /\ \A c \in Counts : IF c \in Count!Finished THEN Explained(c) ELSE Untouched(c)

(* A difference that is added once more.                                   *)
LEMMA OnceMore == \A n \in Nat, d \in Int : (n + 1) * d = n * d + d /\ n * d \in Int
  BY SMT

LEMMA LinesAreNumbers ==
    ASSUME Count!CountAssumption, Count!TypeOK, NEW c \in Count!Finished,
           NEW p \in Count!Line(c)
    PROVE  /\ counted[c][p] \in Int /\ expected[c][p] \in Int
           /\ since[c][p] \in Int /\ posted[c] \in Nat /\ shelfStock[p] \in Int
<1>1. c \in Counts /\ p \in Shelf /\ counted[c][p] # None
  BY DEF Count!Finished, Count!Line
<1>2. counted[c][p] \in ShelfStock /\ since[c][p] \in Int
  BY <1>1 DEF Count!TypeOK
<1>3. expected[c][p] \in Int
  BY DEF Count!TypeOK
<1>4. posted[c] \in Nat /\ shelfStock[p] \in Int
  BY <1>1 DEF Count!TypeOK, Count!CountAssumption
<1> QED
  BY <1>2, <1>3, <1>4 DEF Count!CountAssumption

LEMMA VarianceIsInt ==
    ASSUME Count!CountAssumption, Count!TypeOK, NEW c \in Count!Finished, NEW p \in Shelf
    PROVE  Count!Variance(c, p) \in Int
  BY LinesAreNumbers DEF Count!Variance, Count!Line

LEMMA CountInitially == Count!CountAssumption /\ Count!Init => CountInv
  BY DEF Count!CountAssumption, Count!Init, CountInv, Opened, Count!TypeOK,
     Count!Finished, Count!Line, Untouched

(* The count the window works on is one there is.                          *)
LEMMA WindowHasCount ==
    ASSUME CountInv, NEW s, Count!Stage(s)
    PROVE  window.count \in Counts /\ stockCount[window.count] \in Count!CountRows
  BY DEF CountInv, Count!TypeOK, Opened, Count!Stage, Count!Windows

LEMMA StartKeeps ==
    ASSUME Count!CountAssumption, CountInv, NEW c \in Counts, Count!StartStockCount(c)
    PROVE  CountInv'
<1> USE DEF Count!StartStockCount
<1>1. /\ stockCount' \in [Counts -> Count!CountRows \cup {None}]
      /\ window' \in Count!Windows /\ Opened'
  BY DEF CountInv, Opened, Count!TypeOK, Count!CountRows, Count!Windows
<1>2. Count!Finished' = Count!Finished
  BY DEF CountInv, Count!TypeOK, Count!Finished
<1>3. Count!TypeOK'
  BY <1>1, <1>2 DEF CountInv, Count!TypeOK, Count!Line
<1> QED
  BY <1>1, <1>2, <1>3 DEF CountInv, Explained, Untouched, Count!Line

LEMMA RecordKeeps ==
    ASSUME Count!CountAssumption, CountInv, NEW q \in Shelf, NEW units \in ShelfStock,
           Count!RecordStockCountLine(q, units)
    PROVE  CountInv'
<1> USE DEF Count!RecordStockCountLine
<1>1. window.count \in Counts \ Count!Finished
  BY WindowHasCount DEF Count!Finished
<1>2. Count!Finished' = Count!Finished /\ Opened'
  BY DEF Count!Finished, CountInv, Opened
<1>3. counted' \in [Counts -> [Shelf -> ShelfStock \cup {None}]]
  BY <1>1 DEF CountInv, Count!TypeOK
<1>4. \A c \in Count!Finished : Count!Line(c)' = Count!Line(c) /\ counted'[c] = counted[c]
  BY <1>1 DEF CountInv, Count!TypeOK, Count!Line, Count!Finished
<1>5. Count!TypeOK'
  BY <1>2, <1>3, <1>4 DEF CountInv, Count!TypeOK
<1> QED
  BY <1>2, <1>4, <1>5 DEF CountInv, Explained, Untouched

(* Finishing takes the stock of that moment: the history starts there.     *)
LEMMA FinishKeeps ==
    ASSUME Count!CountAssumption, CountInv, Count!FinishStockCount PROVE CountInv'
<1> DEFINE f == window.count
<1> USE DEF Count!FinishStockCount
<1>1. f \in Counts /\ f \notin Count!Finished /\ stockCount[f] \in Count!CountRows
  BY WindowHasCount DEF Count!Finished
<1>2. [stockCount[f] EXCEPT !.status = "applied"] \in Count!CountRows
  BY <1>1 DEF Count!CountRows
<1>3. /\ stockCount' \in [Counts -> Count!CountRows \cup {None}]
      /\ stockCount'[f] \in Count!CountRows /\ stockCount'[f].status = "applied"
      /\ \A c \in Counts \ {f} : stockCount'[c] = stockCount[c]
  BY <1>1, <1>2 DEF CountInv, Count!TypeOK, Count!CountRows
<1>4. Count!Finished' = Count!Finished \cup {f}
  BY <1>1, <1>3 DEF Count!Finished, Count!CountAssumption
<1>5. window' \in Count!Windows /\ window'.count = f /\ window' # None
  <2>1. window \in Count!Windows
    BY DEF CountInv, Count!TypeOK, Count!Stage
  <2>2. window' \in Count!Windows /\ window'.count = f
    BY <2>1 DEF Count!Windows
  <2>3. stockCount'[f] \in Count!CountRows
    BY <1>3
  <2> QED
    BY <2>2 DEF Count!CountAssumption
<1>6. Opened'
  BY <1>3, <1>5 DEF Opened
<1>7. /\ expected' \in [Counts -> [Shelf -> Int \cup {None}]]
      /\ \A p \in Count!Line(f) : expected'[f][p] = shelfStock[p] /\ shelfStock[p] \in Int
      /\ \A c \in Counts \ {f} : expected'[c] = expected[c]
  BY <1>1 DEF CountInv, Count!TypeOK, Count!Line
<1>8. \A c : Count!Line(c)' = Count!Line(c)
  BY DEF Count!Line
<1>9. Count!TypeOK'
  <2>1. \A c \in Count!Finished' : \A p \in Count!Line(c)' : expected'[c][p] \in Int
    BY <1>4, <1>7, <1>8 DEF CountInv, Count!TypeOK, Count!Finished
  <2> QED
    BY <1>3, <1>5, <1>7, <2>1 DEF CountInv, Count!TypeOK
<1>10. Explained(f)'
  <2> SUFFICES ASSUME NEW p \in Count!Line(f)
               PROVE  shelfStock'[p] = expected'[f][p] + since'[f][p]
                                  + posted'[f] * (counted'[f][p] - expected'[f][p])
    BY <1>1, <1>8 DEF Explained
  <2>1. since[f][p] = 0 /\ posted[f] = 0
    BY <1>1 DEF CountInv, Untouched, Count!Line
  <2>2. counted[f][p] \in Int /\ expected'[f][p] = shelfStock[p] /\ shelfStock[p] \in Int
    BY <1>1, <1>7 DEF CountInv, Count!TypeOK, Count!Line, Count!CountAssumption
  <2>3. 0 * (counted[f][p] - shelfStock[p]) = 0
    BY <2>2
  <2> QED
    BY <2>1, <2>2, <2>3
<1>11. \A c \in Count!Finished : Explained(c)'
  <2> TAKE c \in Count!Finished
  <2>1. c \in Counts \ {f}
    BY <1>1 DEF Count!Finished
  <2> QED
    BY <2>1, <1>7, <1>8 DEF CountInv, Explained
<1>12. \A c \in Counts \ Count!Finished' : Untouched(c)'
  BY <1>4 DEF CountInv, Untouched
<1> QED
  BY <1>4, <1>6, <1>9, <1>10, <1>11, <1>12 DEF CountInv

(* Applying adds the difference once more to the count it applies, and is  *)
(* one of the movements since for every other finished count.              *)
LEMMA ApplyKeeps ==
    ASSUME Count!CountAssumption, CountInv, Count!ApplyStockCount PROVE CountInv'
<1> DEFINE f == window.count
<1> USE DEF Count!ApplyStockCount
<1>1. f \in Count!Finished /\ f \in Counts /\ stockCount[f] \in Count!CountRows
  <2>1. f \in Counts /\ stockCount[f] \in Count!CountRows
    BY WindowHasCount
  <2> QED
    BY <2>1 DEF Count!Finished, Count!CountAssumption
<1>2. /\ stockCount' \in [Counts -> Count!CountRows \cup {None}]
      /\ stockCount'[f] \in Count!CountRows /\ stockCount'[f].status = "applied"
      /\ \A c \in Counts \ {f} : stockCount'[c] = stockCount[c]
  <2>1. [stockCount[f] EXCEPT !.completed = TRUE] \in Count!CountRows
    BY <1>1 DEF Count!CountRows
  <2>2. [stockCount[f] EXCEPT !.completed = TRUE].status = "applied"
    BY <1>1 DEF Count!CountRows
  <2> QED
    BY <1>1, <2>1, <2>2 DEF CountInv, Count!TypeOK
<1>3. Count!Finished' = Count!Finished /\ Opened'
  BY <1>1, <1>2 DEF Count!Finished, Opened, Count!CountAssumption
<1>4. \A p \in Shelf : Count!Variance(f, p) \in Int
  BY <1>1, VarianceIsInt DEF CountInv
<1> HIDE DEF f
<1>5. /\ shelfStock' \in [Shelf -> Int]
      /\ \A p \in Shelf : shelfStock'[p] = shelfStock[p] + Count!Variance(f, p)
  BY <1>4 DEF CountInv, Count!TypeOK, f
<1>6. /\ posted' \in [Counts -> 0..MaxApplied]
      /\ posted'[f] = posted[f] + 1
      /\ \A c \in Counts \ {f} : posted'[c] = posted[c]
  BY <1>1 DEF CountInv, Count!TypeOK, Count!CountAssumption, f
<1>7. /\ since'[f] = since[f]
      /\ \A c \in Count!Finished \ {f} : \A p \in Shelf :
           since'[c][p] = since[c][p] + Count!Variance(f, p)
      /\ \A c \in Counts \ Count!Finished : since'[c] = since[c]
  BY <1>1 DEF CountInv, Count!TypeOK, Count!Finished, f
<1>8. since' \in [Counts -> [Shelf -> Int]]
  <2>1. \A c \in Counts :
          (IF c # f /\ c \in Count!Finished
           THEN [p \in Shelf |-> since[c][p] + Count!Variance(f, p)] ELSE since[c])
          \in [Shelf -> Int]
    BY <1>4 DEF CountInv, Count!TypeOK
  <2> QED
    BY <2>1 DEF f
<1>9. expected' = expected /\ counted' = counted /\ \A c : Count!Line(c)' = Count!Line(c)
  BY DEF Count!Line
<1>10. Count!TypeOK'
  BY <1>2, <1>3, <1>5, <1>6, <1>8, <1>9 DEF CountInv, Count!TypeOK
<1>11. \A c \in Count!Finished : Explained(c)'
  <2> HIDE DEF Count!ApplyStockCount
  <2> SUFFICES ASSUME NEW c \in Count!Finished, NEW p \in Count!Line(c)
               PROVE  shelfStock'[p] = expected[c][p] + since'[c][p]
                                  + posted'[c] * (counted[c][p] - expected[c][p])
    BY <1>9 DEF Explained
  <2>1. c \in Counts /\ p \in Shelf
    BY DEF Count!Finished, Count!Line
  <2>2. /\ counted[c][p] \in Int /\ expected[c][p] \in Int
        /\ since[c][p] \in Int /\ posted[c] \in Nat /\ shelfStock[p] \in Int
    BY LinesAreNumbers DEF CountInv
  <2>3. shelfStock[p] = expected[c][p] + since[c][p]
                   + posted[c] * (counted[c][p] - expected[c][p])
    BY <2>1 DEF CountInv, Explained
  <2> DEFINE d == counted[c][p] - expected[c][p]
  <2>4. d \in Int
    BY <2>2
  <2>5. (posted[c] + 1) * d = posted[c] * d + d /\ posted[c] * d \in Int
    BY <2>2, <2>4, OnceMore
  <2>6. CASE c = f
    <3>1. Count!Variance(f, p) = d
      BY <2>6 DEF Count!Variance
    <3>2. shelfStock'[p] = shelfStock[p] + d /\ since'[c][p] = since[c][p]
          /\ posted'[c] = posted[c] + 1
      BY <3>1, <2>1, <2>6, <1>5, <1>6, <1>7
    <3> HIDE DEF d
    <3>3. shelfStock'[p] = expected[c][p] + since'[c][p] + posted'[c] * d
      <4>1. shelfStock[p] = expected[c][p] + since[c][p] + posted[c] * d
        BY <2>3 DEF d
      <4> QED
        BY <4>1, <3>2, <2>2, <2>4, <2>5
    <3> QED
      BY <3>3 DEF d
  <2>7. CASE c # f
    <3>1. /\ shelfStock'[p] = shelfStock[p] + Count!Variance(f, p)
          /\ since'[c][p] = since[c][p] + Count!Variance(f, p)
          /\ posted'[c] = posted[c] /\ Count!Variance(f, p) \in Int
      BY <2>1, <2>7, <1>4, <1>5, <1>6, <1>7
    <3> HIDE DEF d
    <3>2. shelfStock[p] = expected[c][p] + since[c][p] + posted[c] * d
      BY <2>3 DEF d
    <3>3. shelfStock'[p] = expected[c][p] + since'[c][p] + posted'[c] * d
      BY <3>1, <3>2, <2>2, <2>5
    <3> QED
      BY <3>3 DEF d
  <2> QED
    BY <2>6, <2>7
<1>12. \A c \in Counts \ Count!Finished : Untouched(c)'
  BY <1>1, <1>6, <1>7 DEF CountInv, Untouched
<1> QED
  BY <1>3, <1>10, <1>11, <1>12 DEF CountInv

LEMMA ShowKeeps ==
    ASSUME Count!CountAssumption, CountInv, Count!ShowDone PROVE CountInv'
<1> USE DEF Count!ShowDone
<1>1. window \in Count!Windows
  BY DEF CountInv, Count!TypeOK, Count!Stage
<1>2. window' \in Count!Windows /\ window'.count = window.count
  BY <1>1 DEF Count!Windows
<1>3. Opened'
  BY <1>1, <1>2 DEF CountInv, Opened, Count!Stage
<1>4. Count!Finished' = Count!Finished
  BY DEF Count!Finished
<1>5. Count!TypeOK'
  BY <1>2, <1>4 DEF CountInv, Count!TypeOK, Count!Line
<1> QED
  BY <1>3, <1>4, <1>5 DEF CountInv, Explained, Untouched, Count!Line

LEMMA CloseKeeps ==
    ASSUME Count!CountAssumption, CountInv, Count!CloseWindow PROVE CountInv'
<1> DEFINE f == window.count
<1> USE DEF Count!CloseWindow
<1>1. f \in Counts
  BY DEF CountInv, Count!TypeOK, Count!Windows
<1>2. stockCount' \in [Counts -> Count!CountRows \cup {None}]
  BY <1>1 DEF CountInv, Count!TypeOK, Count!CountRows
<1>3. Count!Finished' = Count!Finished
  <2>1. CASE stockCount' = stockCount
    BY <2>1 DEF Count!Finished
  <2>2. CASE stockCount' # stockCount
    <3>1. /\ stockCount[f].status = "open"
          /\ stockCount'[f].status = "cancelled"
          /\ \A c \in Counts \ {f} : stockCount'[c] = stockCount[c]
      BY <1>1, <2>2 DEF CountInv, Count!TypeOK
    <3> QED
      BY <1>1, <3>1 DEF Count!Finished
  <2> QED
    BY <2>1, <2>2
<1>4. Count!TypeOK' /\ Opened'
  BY <1>2, <1>3 DEF CountInv, Count!TypeOK, Opened, Count!Line
<1> QED
  BY <1>3, <1>4 DEF CountInv, Explained, Untouched, Count!Line

LEMMA MoveKeeps ==
    ASSUME Count!CountAssumption, CountInv, NEW q \in Shelf, NEW change \in {-1, 1},
           Count!AddInventoryMovement(q, change)
    PROVE  CountInv'
<1> USE DEF Count!AddInventoryMovement
<1>1. change \in Int
  OBVIOUS
<1>2. Count!Finished' = Count!Finished /\ Opened' /\ \A c : Count!Line(c)' = Count!Line(c)
  BY DEF Count!Finished, Opened, Count!Line, CountInv
<1>3. /\ shelfStock' \in [Shelf -> Int]
      /\ shelfStock'[q] = shelfStock[q] + change
      /\ \A p \in Shelf \ {q} : shelfStock'[p] = shelfStock[p]
  BY <1>1 DEF CountInv, Count!TypeOK
<1>4. /\ \A c \in Count!Finished : since'[c][q] = since[c][q] + change
      /\ \A c \in Count!Finished, p \in Shelf \ {q} : since'[c][p] = since[c][p]
      /\ \A c \in Counts \ Count!Finished : since'[c] = since[c]
  BY DEF CountInv, Count!TypeOK, Count!Moved, Count!Finished
<1>5. since' \in [Counts -> [Shelf -> Int]]
  <2>1. \A c \in Counts :
          (IF c \in Count!Finished THEN [since[c] EXCEPT ![q] = since[c][q] + change]
           ELSE since[c]) \in [Shelf -> Int]
    BY <1>1 DEF CountInv, Count!TypeOK
  <2> QED
    BY <2>1 DEF Count!Moved
<1>6. moves' \in 0..MaxMoves
  BY DEF CountInv, Count!TypeOK, Count!CountAssumption
<1>7. Count!TypeOK'
  BY <1>2, <1>3, <1>5, <1>6 DEF CountInv, Count!TypeOK
<1>8. \A c \in Count!Finished : Explained(c)'
  <2> SUFFICES ASSUME NEW c \in Count!Finished, NEW p \in Count!Line(c)
               PROVE  shelfStock'[p] = expected[c][p] + since'[c][p]
                                  + posted[c] * (counted[c][p] - expected[c][p])
    BY <1>2 DEF Explained, Count!Finished
  <2>1. c \in Counts /\ p \in Shelf
    BY DEF Count!Finished, Count!Line
  <2>2. /\ counted[c][p] \in Int /\ expected[c][p] \in Int
        /\ since[c][p] \in Int /\ posted[c] \in Nat /\ shelfStock[p] \in Int
    BY LinesAreNumbers DEF CountInv
  <2> DEFINE m == posted[c] * (counted[c][p] - expected[c][p])
  <2>3. m \in Int
    <3>1. posted[c] \in Nat /\ counted[c][p] - expected[c][p] \in Int
      BY <2>2
    <3>. QED  BY <3>1, OnceMore
  <2>4. shelfStock[p] = expected[c][p] + since[c][p] + m
    BY <2>1 DEF CountInv, Explained
  <2> HIDE DEF m
  <2>5. shelfStock'[p] = expected[c][p] + since'[c][p] + m
    BY <1>1, <1>3, <1>4, <2>1, <2>2, <2>3, <2>4
  <2> QED
    BY <2>5 DEF m
<1>9. \A c \in Counts \ Count!Finished : Untouched(c)'
  BY <1>4 DEF CountInv, Untouched
<1> QED
  BY <1>2, <1>7, <1>8, <1>9 DEF CountInv

(* Every step keeps the invariant.                                         *)
LEMMA CountKept ==
    Count!CountAssumption /\ CountInv /\ [Count!Next]_(Count!vars) => CountInv'
<1> SUFFICES ASSUME Count!CountAssumption, CountInv, [Count!Next]_(Count!vars)
             PROVE  CountInv'
  OBVIOUS
<1>1. CASE \E c \in Counts : Count!StartStockCount(c)
  BY <1>1, StartKeeps
<1>2. CASE \E p \in Shelf, units \in ShelfStock : Count!RecordStockCountLine(p, units)
  BY <1>2, RecordKeeps
<1>3. CASE Count!FinishStockCount
  BY <1>3, FinishKeeps
<1>4. CASE Count!ApplyStockCount
  BY <1>4, ApplyKeeps
<1>5. CASE Count!ShowDone
  BY <1>5, ShowKeeps
<1>6. CASE Count!CloseWindow
  BY <1>6, CloseKeeps
<1>7. CASE \E p \in Shelf, change \in {-1, 1} : Count!AddInventoryMovement(p, change)
  BY <1>7, MoveKeeps
<1>8. CASE UNCHANGED Count!vars
  BY <1>8 DEF CountInv, Count!TypeOK, Opened, Explained, Untouched, Count!Finished,
     Count!Line, Count!vars
<1> QED
  BY <1>1, <1>2, <1>3, <1>4, <1>5, <1>6, <1>7, <1>8 DEF Count!Next

LEMMA CountInvExplains == Count!CountAssumption /\ CountInv => Count!CountCorrects
<1> SUFFICES ASSUME Count!CountAssumption, CountInv, NEW c \in Counts
             PROVE  /\ posted[c] > 0 => c \in Count!Finished
                    /\ c \in Count!Finished => \A p \in Count!Line(c) :
                         shelfStock[p] = IF posted[c] = 1 THEN counted[c][p] + since[c][p]
                                    ELSE expected[c][p] + since[c][p]
                                         + posted[c] * (counted[c][p] - expected[c][p])
  BY DEF Count!CountCorrects
<1>1. posted[c] > 0 => c \in Count!Finished
  BY DEF CountInv, Untouched
<1>2. ASSUME c \in Count!Finished, NEW p \in Count!Line(c), posted[c] = 1
      PROVE  shelfStock[p] = counted[c][p] + since[c][p]
  <2>1. /\ counted[c][p] \in Int /\ expected[c][p] \in Int /\ since[c][p] \in Int
    BY <1>2, LinesAreNumbers DEF CountInv
  <2>2. shelfStock[p] = expected[c][p] + since[c][p] + 1 * (counted[c][p] - expected[c][p])
    BY <1>2 DEF CountInv, Explained
  <2> QED
    BY <2>1, <2>2
<1> QED
  BY <1>1, <1>2 DEF CountInv, Explained

-----------------------------------------------------------------------------
(* Every variable of the stock counts keeps its type, and a finished count *)
(* has expected quantities for all its lines (startStockCount to           *)
(* cancelStockCount).                                                      *)
THEOREM CountTypes == Count!CountAssumption => (Count!Spec => []Count!TypeOK)
<1>1. Count!CountAssumption /\ Count!Init => CountInv
  BY CountInitially
<1>2. Count!CountAssumption /\ CountInv /\ [Count!Next]_(Count!vars) => CountInv'
  BY CountKept
<1>3. CountInv => Count!TypeOK
  BY DEF CountInv
<1> SUFFICES ASSUME Count!CountAssumption PROVE Count!Spec => []Count!TypeOK
  OBVIOUS
<1> QED
  BY <1>1, <1>2, <1>3, PTL DEF Count!Spec

(* A count that is applied once leaves what was counted plus what moved    *)
(* since, whatever was sold, received or counted meanwhile, and every      *)
(* further application adds its difference again; a count that was not     *)
(* finished corrects nothing (finishStockCount, applyStockCount).          *)
THEOREM CountExplained == Count!CountAssumption => (Count!Spec => []Count!CountCorrects)
<1>1. Count!CountAssumption /\ Count!Init => CountInv
  BY CountInitially
<1>2. Count!CountAssumption /\ CountInv /\ [Count!Next]_(Count!vars) => CountInv'
  BY CountKept
<1>3. Count!CountAssumption /\ CountInv => Count!CountCorrects
  BY CountInvExplains
<1> SUFFICES ASSUME Count!CountAssumption PROVE Count!Spec => []Count!CountCorrects
  OBVIOUS
<1> QED
  BY <1>1, <1>2, <1>3, PTL DEF Count!Spec
-----------------------------------------------------------------------------
(* The register *)

(* What the screen and the store remember, with the types the steps need.  *)
TillRows ==
    /\ Till!TypeOK
    /\ \A i \in DOMAIN parked : parked[i] \in Till!Carts
    /\ sales \in [Till!Keys -> Till!SaleRows \cup {None}]
    /\ txs \in [Till!Charges -> Till!TxRows \cup {None}]
    /\ selling \in Till!Keys \cup {None, Till!Refused}
    /\ receipt \in Till!Keys \cup {None}
    /\ asking \in {None, "taken", "refused"}
    /\ touched \in BOOLEAN /\ served \subseteq Till!Keys

(* Nothing has a completion key that was not given out yet, and receipts   *)
(* that were closed have older ones.                                       *)
KeysGivenOut ==
    /\ \A c \in Till!Charges : txs[c] # None => txs[c].key <= completionKey
    /\ selling \in Till!Keys => selling <= completionKey
    /\ receipt # None => receipt <= completionKey
    /\ \A k \in served : k < completionKey

(* The goods in the cart, unless it was changed since it was to be paid.   *)
OfThisCart(goods) == goods = basket \/ touched

(* A sale that was made, whose receipt is shown or about to be.            *)
MadeSale(k) == sales[k] # None /\ (k = completionKey => OfThisCart(sales[k].cart))

ReceiptIsMade ==
    /\ selling \in Till!Keys => MadeSale(selling)
    /\ receipt # None => MadeSale(receipt)

(* The charge that is asked about is recorded, and while it is this        *)
(* customer's the card panel cannot be left nor anything else be paid.     *)
ChargeHolds ==
    asking = "taken" \/ chargeStatus = "pending" =>
        /\ chargeReference \in Till!Charges /\ txs[chargeReference] # None
        /\ txs[chargeReference].key = completionKey =>
             /\ panel = "integrated_card"
             /\ chargeStatus \in {"initiating", "pending"}
             /\ OfThisCart(txs[chargeReference].cart)

(* A card is charged for the sale that names the charge.                   *)
ChargesPay ==
    \A c \in Till!Charges :
        txs[c] # None /\ txs[c].status = "approved" =>
            sales[txs[c].key] = [cart |-> txs[c].cart, by |-> Till!CardOf(c)]

TillInv == TillRows /\ KeysGivenOut /\ ReceiptIsMade /\ ChargeHolds /\ ChargesPay

LEMMA TillNone ==
    ASSUME Till!RegisterAssumption
    PROVE  /\ None \notin Nat /\ None \notin Till!Keys /\ None \notin Till!Charges
           /\ None \notin Till!SaleRows /\ None \notin Till!TxRows
           /\ None # "taken" /\ None # "refused" /\ Till!Refused \notin Till!Keys
           /\ Till!Refused # None /\ "integrated_card" \notin Till!Tenders
           /\ "none" \notin Till!Tenders
  BY DEF Till!RegisterAssumption, Till!Keys, Till!Charges, Till!Refused, Till!Tenders

LEMMA InvImpliesOneSale == Till!RegisterAssumption /\ TillInv => Till!OneSalePerCustomer
<1> SUFFICES ASSUME Till!RegisterAssumption, TillInv PROVE Till!OneSalePerCustomer
  OBVIOUS
<1>1. completionKey \in Till!Keys /\ completionKey # None
          /\ ~(completionKey < completionKey)
  BY TillNone DEF TillInv, TillRows, Till!TypeOK, Till!Keys
<1>2. receipt = completionKey => receipt # None /\ receipt \notin served
          /\ MadeSale(receipt)
  BY <1>1 DEF TillInv, KeysGivenOut, ReceiptIsMade
<1> QED
  BY <1>2 DEF TillInv, ChargesPay, Till!OneSalePerCustomer, MadeSale, OfThisCart

(* ------------------------------- The cart ------------------------------- *)

(* The cart is changed, and what was paid or parked is as it was.          *)
LEMMA FillKeeps ==
    ASSUME Till!RegisterAssumption, TillInv, NEW goods \in Till!Carts, Till!Fill(goods),
           Till!TypeOK', \A i \in DOMAIN parked' : parked'[i] \in Till!Carts,
           UNCHANGED <<panel, Till!chargeVars, completionKey, receipt, sales, txs,
                       served>>
    PROVE  TillInv'
<1>1. TillRows'
  BY DEF TillInv, TillRows, Till!Fill, Till!chargeVars
<1>2. KeysGivenOut'
  BY DEF TillInv, KeysGivenOut, Till!chargeVars
<1>3. ReceiptIsMade' /\ ChargeHolds' /\ ChargesPay'
  BY DEF TillInv, ReceiptIsMade, MadeSale, ChargeHolds, ChargesPay, OfThisCart,
     Till!Fill,
         Till!chargeVars, Till!CardOf
<1> QED  BY <1>1, <1>2, <1>3 DEF TillInv

(* Neither cart nor payment is touched.                                    *)
LEMMA TillStillKeeps ==
    ASSUME TillInv, Till!TypeOK', \A i \in DOMAIN parked' : parked'[i] \in Till!Carts,
           UNCHANGED <<basket, panel, Till!chargeVars, completionKey, receipt, sales,
                       txs, touched, served>>
    PROVE  TillInv'
  BY DEF TillInv, TillRows, KeysGivenOut, ReceiptIsMade, MadeSale, ChargeHolds,
     ChargesPay,
         OfThisCart, Till!chargeVars, Till!CardOf

LEMMA AddKeeps ==
    ASSUME Till!RegisterAssumption, TillInv, NEW g \in Goods, Till!Add(g) PROVE TillInv'
<1>1. basket \in Till!Carts /\ MaxQuantity \in Nat
  BY DEF TillInv, TillRows, Till!TypeOK, Till!RegisterAssumption
<1>2. [basket EXCEPT ![g] = @ + 1] \in Till!Carts
  BY <1>1 DEF Till!Add, Till!Carts
<1>3. Till!Fill([basket EXCEPT ![g] = @ + 1])
  BY DEF Till!Add
<1>4. basket' = [basket EXCEPT ![g] = @ + 1]
  BY <1>3 DEF Till!Fill
<1>5. Till!TypeOK'
  BY <1>2, <1>4 DEF TillInv, TillRows, Till!TypeOK, Till!Add, Till!panelVars,
     Till!chargeVars, Till!storeVars
<1> QED
  BY <1>2, <1>3, <1>5, FillKeeps DEF Till!Add, Till!panelVars, Till!storeVars,
     TillInv, TillRows

LEMMA TakeKeeps ==
    ASSUME Till!RegisterAssumption, TillInv, NEW g \in Goods, Till!Take(g) PROVE TillInv'
<1>1. basket \in Till!Carts /\ MaxQuantity \in Nat
  BY DEF TillInv, TillRows, Till!TypeOK, Till!RegisterAssumption
<1>2. PICK left \in 0..(basket[g] - 1) : Till!Fill([basket EXCEPT ![g] = left])
  BY DEF Till!Take
<1>3. [basket EXCEPT ![g] = left] \in Till!Carts
  BY <1>1 DEF Till!Carts
<1>4. basket' = [basket EXCEPT ![g] = left]
  BY <1>2 DEF Till!Fill
<1>5. Till!TypeOK'
  BY <1>3, <1>4 DEF TillInv, TillRows, Till!TypeOK, Till!Take, Till!panelVars,
     Till!chargeVars, Till!storeVars
<1> QED
  BY <1>2, <1>3, <1>5, FillKeeps DEF Till!Take, Till!panelVars, Till!storeVars,
     TillInv, TillRows

LEMMA CreateKeeps ==
    ASSUME Till!RegisterAssumption, TillInv, Till!CreateProduct PROVE TillInv'
<1> DEFINE filled == [basket EXCEPT ![unknown] = IF @ < MaxQuantity THEN @ + 1 ELSE @]
<1>1. basket \in Till!Carts /\ MaxQuantity \in Nat /\ unknown \in Goods
  BY DEF TillInv, TillRows, Till!TypeOK, Till!RegisterAssumption, Till!CreateProduct
<1>2. filled \in Till!Carts
  BY <1>1 DEF Till!Carts
<1>3. Till!Fill(filled) /\ basket' = filled
  BY DEF Till!CreateProduct, Till!Fill
<1>4. Till!TypeOK'
  BY <1>1, <1>2, <1>3 DEF TillInv, TillRows, Till!TypeOK, Till!CreateProduct,
     Till!chargeVars
<1> HIDE DEF filled
<1> QED
  BY <1>2, <1>3, <1>4, FillKeeps DEF Till!CreateProduct, TillInv, TillRows

LEMMA FormKeeps ==
    ASSUME TillInv, Till!CloseForm \/ \E g \in Goods : Till!ScanUnknown(g) PROVE TillInv'
<1>1. Till!TypeOK'
  BY DEF TillInv, TillRows, Till!TypeOK, Till!CloseForm, Till!ScanUnknown,
     Till!chargeVars, Till!storeVars
<1> QED
  BY <1>1, TillStillKeeps DEF TillInv, TillRows, Till!CloseForm, Till!ScanUnknown,
     Till!storeVars

(* ----------------------------- Parked sales ----------------------------- *)

LEMMA ParkKeeps ==
    ASSUME Till!RegisterAssumption, TillInv, Till!Park PROVE TillInv'
<1>1. Till!EmptyCart \in Till!Carts /\ basket \in Till!Carts
  BY DEF Till!EmptyCart, Till!Carts, TillInv, TillRows, Till!TypeOK,
     Till!RegisterAssumption
<1>2. Till!Fill(Till!EmptyCart) /\ basket' = Till!EmptyCart
  BY DEF Till!Park, Till!Fill
<1>3. Till!TypeOK'
  BY <1>1, <1>2 DEF TillInv, TillRows, Till!TypeOK, Till!Park, Till!panelVars,
     Till!chargeVars
<1>4. \A i \in DOMAIN parked' : parked'[i] \in Till!Carts
  BY <1>1 DEF Till!Park, TillInv, TillRows
<1> QED
  BY <1>1, <1>2, <1>3, <1>4, FillKeeps DEF Till!Park, Till!panelVars

LEMMA ResumeSaleKeeps ==
    ASSUME Till!RegisterAssumption, TillInv, NEW id \in DOMAIN parked, Till!Resume(id)
    PROVE  TillInv'
<1>1. parked[id] \in Till!Carts
  BY DEF TillInv, TillRows
<1>2. Till!Fill(parked[id]) /\ basket' = parked[id]
  BY DEF Till!Resume, Till!Fill
<1>3. Till!TypeOK'
  BY <1>1, <1>2 DEF TillInv, TillRows, Till!TypeOK, Till!Resume, Till!panelVars,
     Till!chargeVars
<1>4. \A i \in DOMAIN parked' : parked'[i] \in Till!Carts
  BY DEF Till!Resume, Till!Unpark, TillInv, TillRows
<1> QED
  BY <1>1, <1>2, <1>3, <1>4, FillKeeps DEF Till!Resume, Till!panelVars

LEMMA DiscardKeeps ==
    ASSUME TillInv, NEW id \in DOMAIN parked, Till!Discard(id) PROVE TillInv'
<1>1. Till!TypeOK'
  BY DEF TillInv, TillRows, Till!TypeOK, Till!Discard, Till!panelVars, Till!chargeVars
<1>2. \A i \in DOMAIN parked' : parked'[i] \in Till!Carts
  BY DEF Till!Discard, Till!Unpark, TillInv, TillRows
<1> QED
  BY <1>1, <1>2, TillStillKeeps DEF Till!Discard, Till!panelVars

(* -------------------------------- Paying -------------------------------- *)

LEMMA ChooseKeeps ==
    ASSUME Till!RegisterAssumption, TillInv,
           NEW tender \in Till!Tenders \cup {"integrated_card"},
           Till!Choose(tender)
    PROVE  TillInv'
<1>1. TillRows'
  BY DEF TillInv, TillRows, Till!TypeOK, Till!Choose, Till!chargeVars, Till!storeVars
<1>2. KeysGivenOut' /\ ReceiptIsMade' /\ ChargesPay'
  BY DEF TillInv, KeysGivenOut, ReceiptIsMade, MadeSale, ChargesPay, OfThisCart,
     Till!Choose,
         Till!chargeVars, Till!storeVars, Till!CardOf
<1>3. ChargeHolds'
  BY DEF TillInv, ChargeHolds, OfThisCart, Till!Choose, Till!chargeVars, Till!storeVars
<1> QED  BY <1>1, <1>2, <1>3 DEF TillInv

LEMMA BackKeeps ==
    ASSUME Till!RegisterAssumption, TillInv, Till!Back PROVE TillInv'
<1>1. TillRows'
  BY DEF TillInv, TillRows, Till!TypeOK, Till!Back, Till!chargeVars, Till!storeVars
<1>2. KeysGivenOut' /\ ReceiptIsMade' /\ ChargesPay'
  BY DEF TillInv, KeysGivenOut, ReceiptIsMade, MadeSale, ChargesPay, OfThisCart,
     Till!Back,
         Till!chargeVars, Till!storeVars, Till!CardOf
<1>3. ChargeHolds'
  BY TillNone DEF TillInv, ChargeHolds, OfThisCart, Till!Back, Till!chargeVars,
     Till!storeVars
<1> QED  BY <1>1, <1>2, <1>3 DEF TillInv

(* A record that is made is one of a sale, and older ones stay.            *)
LEMMA MadeIsSale ==
    ASSUME Till!RegisterAssumption, TillRows, NEW k \in Till!Keys,
           NEW goods \in Till!Carts, NEW tender,
           [cart |-> goods, by |-> tender] \in Till!SaleRows, Till!Made(k, goods, tender)
    PROVE  /\ sales' \in [Till!Keys -> Till!SaleRows \cup {None}]
           /\ sales'[k] = [cart |-> goods, by |-> tender]
           /\ \A j \in Till!Keys : sales[j] # None => sales'[j] = sales[j]
<1>1. sales \in [Till!Keys -> Till!SaleRows \cup {None}]
  BY DEF TillRows
<1>2. CASE sales[k] = None
  BY <1>1, <1>2 DEF Till!Made
<1>3. CASE sales[k] # None
  <2>1. sales[k].cart = goods /\ sales[k].by = tender /\ sales' = sales
    BY <1>3 DEF Till!Made, Till!SameSale
  <2>2. sales[k] \in Till!SaleRows
    BY <1>1, <1>3
  <2>3. sales[k] = [cart |-> goods, by |-> tender]
    BY <2>1, <2>2 DEF Till!SaleRows
  <2> QED  BY <1>1, <2>1, <2>3
<1> QED  BY <1>2, <1>3

LEMMA CompleteKeeps ==
    ASSUME Till!RegisterAssumption, TillInv, Till!Complete PROVE TillInv'
<1>1. /\ panel \in Till!Tenders /\ panel # "integrated_card"
      /\ completionKey \in Till!Keys /\ basket \in Till!Carts /\ selling = None
      /\ receipt = None
  BY TillNone DEF Till!Complete, TillInv, TillRows, Till!TypeOK, Till!Shopping
<1>2. /\ sales' \in [Till!Keys -> Till!SaleRows \cup {None}]
      /\ \A j \in Till!Keys : sales[j] # None => sales'[j] = sales[j]
      /\ \/ selling' = Till!Refused
         \/ selling' = completionKey /\ sales'[completionKey] # None
            /\ sales'[completionKey].cart = basket
  <2>1. CASE Till!Made(completionKey, basket, <<panel, None>>) /\ selling' = completionKey
    <3>1. [cart |-> basket, by |-> <<panel, None>>] \in Till!SaleRows
      BY <1>1 DEF Till!SaleRows
    <3>2. /\ sales' \in [Till!Keys -> Till!SaleRows \cup {None}]
          /\ sales'[completionKey] = [cart |-> basket, by |-> <<panel, None>>]
          /\ \A j \in Till!Keys : sales[j] # None => sales'[j] = sales[j]
      BY <1>1, <2>1, <3>1, MadeIsSale DEF TillInv
    <3> QED  BY <2>1, <3>1, <3>2, TillNone
  <2>2. CASE selling' = Till!Refused /\ UNCHANGED sales
    BY <2>2 DEF TillInv, TillRows
  <2> QED  BY <2>1, <2>2 DEF Till!Complete
<1>3. TillRows'
  BY <1>1, <1>2 DEF TillInv, TillRows, Till!TypeOK, Till!Complete, Till!panelVars
<1>4. KeysGivenOut'
  BY <1>1, <1>2, TillNone DEF TillInv, KeysGivenOut, Till!Complete, Till!Keys
<1>5. ReceiptIsMade'
  BY <1>1, <1>2, TillNone
     DEF TillInv, ReceiptIsMade, MadeSale, OfThisCart, Till!Complete
<1>6. ChargeHolds'
  BY <1>1 DEF TillInv, ChargeHolds, OfThisCart, Till!Complete, Till!panelVars
<1>7. ChargesPay'
  <2> SUFFICES ASSUME NEW c \in Till!Charges, txs[c] # None, txs[c].status = "approved"
               PROVE  sales'[txs[c].key] = [cart |-> txs[c].cart, by |-> Till!CardOf(c)]
    BY DEF ChargesPay, Till!Complete, Till!CardOf
  <2>1. sales[txs[c].key] = [cart |-> txs[c].cart, by |-> Till!CardOf(c)]
            /\ txs[c] \in Till!TxRows
    BY DEF TillInv, ChargesPay, TillRows
  <2>2. [cart |-> txs[c].cart, by |-> Till!CardOf(c)] \in Till!SaleRows
            /\ txs[c].key \in Till!Keys
    BY <2>1 DEF Till!TxRows, Till!SaleRows, Till!CardOf
  <2> QED  BY <1>2, <2>1, <2>2, TillNone
<1> QED  BY <1>3, <1>4, <1>5, <1>6, <1>7 DEF TillInv

LEMMA SaleAnsweredKeeps ==
    ASSUME Till!RegisterAssumption, TillInv, Till!SaleAnswered PROVE TillInv'
<1>1. selling \in Till!Keys \cup {Till!Refused}
  BY DEF Till!SaleAnswered, TillInv, TillRows
<1>2. TillRows'
  BY <1>1 DEF TillInv, TillRows, Till!TypeOK, Till!SaleAnswered, Till!panelVars,
     Till!storeVars
<1>3. KeysGivenOut' /\ ReceiptIsMade'
  BY <1>1, TillNone
     DEF TillInv, KeysGivenOut, ReceiptIsMade, MadeSale, OfThisCart,
         Till!SaleAnswered, Till!storeVars
<1>4. ChargeHolds' /\ ChargesPay'
  BY DEF TillInv, ChargeHolds, ChargesPay, OfThisCart, Till!SaleAnswered,
     Till!panelVars, Till!storeVars,
         Till!CardOf
<1> QED  BY <1>2, <1>3, <1>4 DEF TillInv

LEMMA InitiateKeeps ==
    ASSUME Till!RegisterAssumption, TillInv, Till!InitiateCharge PROVE TillInv'
<1>1. /\ receipt = None /\ asking = None /\ completionKey \in Till!Keys
      /\ basket \in Till!Carts
      /\ txs \in [Till!Charges -> Till!TxRows \cup {None}]
      /\ panel = "integrated_card"
  BY DEF Till!InitiateCharge, Till!Shopping, TillInv, TillRows, Till!TypeOK
<1>2. /\ selling # None => touched' = touched
      /\ touched' \in BOOLEAN
  BY DEF Till!InitiateCharge, TillInv, TillRows
<1>3. ReceiptIsMade'
  BY <1>1, <1>2, TillNone DEF TillInv, ReceiptIsMade, MadeSale, OfThisCart,
     Till!InitiateCharge
<1>4. CASE /\ \E c \in Till!Charges :
                /\ txs[c] = None
                /\ txs' = [txs EXCEPT ![c] = [key |-> completionKey, cart |-> basket,
                                              status |-> "initiated"]]
                /\ chargeReference' = c
           /\ asking' = "taken"
  <2>1. PICK c \in Till!Charges :
          /\ txs[c] = None
          /\ txs' = [txs EXCEPT ![c] = [key |-> completionKey, cart |-> basket,
                                        status |-> "initiated"]]
          /\ chargeReference' = c
    BY <1>4
  <2>2. [key |-> completionKey, cart |-> basket, status |-> "initiated"] \in Till!TxRows
    BY <1>1 DEF Till!TxRows
  <2>3. /\ txs' \in [Till!Charges -> Till!TxRows \cup {None}]
        /\ txs'[c] = [key |-> completionKey, cart |-> basket, status |-> "initiated"]
        /\ \A d \in Till!Charges : d # c => txs'[d] = txs[d]
    BY <1>1, <2>1, <2>2
  <2>4. TillRows'
    <3>1. \A d \in Till!Charges : txs'[d] # None => txs'[d].key \in Till!Keys
      BY <2>3 DEF Till!TxRows
    <3> QED
      BY <1>1, <1>2, <1>4, <2>3, <3>1 DEF TillInv, TillRows, Till!TypeOK,
         Till!InitiateCharge, Till!panelVars
  <2>5. KeysGivenOut'
    <3>1. completionKey <= completionKey
      BY <1>1 DEF Till!Keys
    <3> QED
      BY <2>3, <3>1 DEF TillInv, KeysGivenOut, Till!InitiateCharge
  <2>6. ChargeHolds'
    BY <1>1, <2>1, <2>2, <2>3, TillNone
       DEF ChargeHolds, OfThisCart, Till!InitiateCharge, Till!panelVars
  <2>7. ChargesPay'
    BY <2>3 DEF TillInv, ChargesPay, Till!InitiateCharge, Till!CardOf
  <2> QED  BY <1>3, <2>4, <2>5, <2>6, <2>7 DEF TillInv
<1>5. CASE asking' = "refused" /\ chargeReference' = None /\ UNCHANGED txs
  <2>1. TillRows'
    BY <1>1, <1>2, <1>5 DEF TillInv, TillRows, Till!TypeOK, Till!InitiateCharge,
       Till!panelVars
  <2>2. KeysGivenOut' /\ ChargeHolds' /\ ChargesPay'
    BY <1>5 DEF TillInv, KeysGivenOut, ChargeHolds, ChargesPay, Till!InitiateCharge,
       Till!CardOf
  <2> QED  BY <1>3, <2>1, <2>2 DEF TillInv
<1> QED  BY <1>4, <1>5 DEF Till!InitiateCharge


LEMMA ChargeAnsweredKeeps ==
    ASSUME Till!RegisterAssumption, TillInv, Till!ChargeAnswered PROVE TillInv'
<1> DEFINE status == IF asking = "taken" THEN txs[chargeReference].status ELSE "error"
<1>1. /\ asking \in {"taken", "refused"} /\ asking' = None
      /\ \/ chargeStatus' = Till!StatusShown(status)
         \/ status = "approved" /\ chargeStatus' = "error"
      /\ receipt' = IF status = "approved" THEN txs[chargeReference].key ELSE receipt
      /\ UNCHANGED <<basket, unknown, panel, chargeReference, selling,
                     completionKey, known, parked, sales, txs, touched, served>>
  BY DEF Till!ChargeAnswered, Till!StatusAfter, TillInv, TillRows, Till!panelVars,
     Till!storeVars
<1>2. asking = "taken" =>
        chargeReference \in Till!Charges /\ txs[chargeReference] \in Till!TxRows
  BY DEF TillInv, ChargeHolds, TillRows
<1>3. chargeStatus' \in {"idle", "initiating", "pending", "declined", "error"}
  BY <1>1 DEF Till!StatusShown, TillInv, TillRows, Till!TypeOK
<1>4. CASE status = "approved"
  <2>1. asking = "taken" /\ chargeReference \in Till!Charges
            /\ txs[chargeReference] \in Till!TxRows
    BY <1>1, <1>2, <1>4
  <2>2. chargeStatus' \in {chargeStatus, "error"} /\ receipt' = txs[chargeReference].key
            /\ receipt' \in Till!Keys
    BY <1>1, <1>4, <2>1 DEF Till!StatusShown, Till!TxRows
  <2>3. txs[chargeReference] # None /\ txs[chargeReference].status = "approved"
    BY <1>4, <2>1, TillNone
  <2>4. /\ sales[txs[chargeReference].key] =
             [cart |-> txs[chargeReference].cart, by |-> Till!CardOf(chargeReference)]
        /\ txs[chargeReference].key <= completionKey
    BY <2>1, <2>3 DEF TillInv, ChargesPay, KeysGivenOut
  <2>5. sales[receipt'] # None /\ sales[receipt'].cart = txs[chargeReference].cart
    <3>1. [cart |-> txs[chargeReference].cart, by |-> Till!CardOf(chargeReference)]
                \in Till!SaleRows
      BY <2>1 DEF Till!TxRows, Till!SaleRows, Till!CardOf
    <3> QED  BY <2>2, <2>4, <3>1, TillNone
  <2>6. TillRows'
    BY <1>1, <1>3, <2>2 DEF TillInv, TillRows, Till!TypeOK
  <2>7. KeysGivenOut'
    BY <1>1, <2>2, <2>4 DEF TillInv, KeysGivenOut
  <2>8. ReceiptIsMade'
    BY <1>1, <2>1, <2>2, <2>5
       DEF TillInv, ReceiptIsMade, MadeSale, ChargeHolds, OfThisCart
  <2>9. ChargeHolds' /\ ChargesPay'
    BY <1>1, <2>2, TillNone DEF TillInv, ChargeHolds, ChargesPay, OfThisCart,
       Till!CardOf
  <2> QED  BY <2>6, <2>7, <2>8, <2>9 DEF TillInv
<1>5. CASE status # "approved"
  <2>1. receipt' = receipt
    BY <1>1, <1>5
  <2>2. chargeStatus' = "pending" => asking = "taken" \/ chargeStatus = "pending"
    BY <1>1 DEF Till!StatusShown
  <2>3. TillRows'
    BY <1>1, <1>3, <2>1 DEF TillInv, TillRows, Till!TypeOK
  <2>4. KeysGivenOut' /\ ReceiptIsMade' /\ ChargesPay'
    BY <1>1, <2>1
       DEF TillInv, KeysGivenOut, ReceiptIsMade, MadeSale, OfThisCart, ChargesPay,
           Till!CardOf
  <2>5. ChargeHolds'
    BY <1>1, <2>2, TillNone DEF TillInv, ChargeHolds, OfThisCart
  <2> QED  BY <2>3, <2>4, <2>5 DEF TillInv
<1> QED  BY <1>4, <1>5

LEMMA CheckChargeKeeps ==
    ASSUME Till!RegisterAssumption, TillInv, Till!Check \/ Till!ChooseAnother
    PROVE  TillInv'
<1>1. TillRows'
  BY DEF TillInv, TillRows, Till!TypeOK, Till!Check, Till!ChooseAnother,
     Till!panelVars, Till!storeVars
<1>2. KeysGivenOut' /\ ReceiptIsMade' /\ ChargesPay'
  BY DEF TillInv, KeysGivenOut, ReceiptIsMade, MadeSale, OfThisCart, ChargesPay,
     Till!Check,
         Till!ChooseAnother, Till!storeVars, Till!CardOf
<1>3. ChargeHolds'
  BY DEF TillInv, ChargeHolds, OfThisCart, Till!Check, Till!ChooseAnother,
     Till!panelVars, Till!storeVars
<1> QED  BY <1>1, <1>2, <1>3 DEF TillInv

(* The payment service works on a charge: its key and cart stay, and it is *)
(* approved with its sale.                                                 *)
LEMMA MovesKeep ==
    ASSUME Till!RegisterAssumption, TillInv, NEW c \in Till!Charges,
           Till!ChargeMoves(c)
    PROVE  TillInv'
<1>1. /\ txs \in [Till!Charges -> Till!TxRows \cup {None}] /\ txs[c] # None
      /\ txs[c] \in Till!TxRows
      /\ UNCHANGED <<basket, unknown, panel, Till!chargeVars, completionKey, receipt, known,
                     parked, touched, served>>
  BY DEF Till!ChargeMoves, TillInv, TillRows, Till!panelVars
<1>2. PICK status \in {"approved", "declined", "error", "unknown", "needs-attention"} :
        /\ txs' = [txs EXCEPT ![c].status = status]
        /\ IF status = "approved" THEN Till!Made(txs[c].key, txs[c].cart, Till!CardOf(c))
                                  ELSE UNCHANGED sales
  BY DEF Till!ChargeMoves
<1>3. /\ txs' \in [Till!Charges -> Till!TxRows \cup {None}]
      /\ txs'[c] \in Till!TxRows /\ txs'[c].key = txs[c].key /\ txs'[c].cart = txs[c].cart
      /\ txs'[c].status = status
      /\ \A d \in Till!Charges : d # c => txs'[d] = txs[d]
  BY <1>1, <1>2 DEF Till!TxRows
<1>4. /\ sales' \in [Till!Keys -> Till!SaleRows \cup {None}]
      /\ \A j \in Till!Keys : sales[j] # None => sales'[j] = sales[j]
      /\ status = "approved" =>
           sales'[txs[c].key] = [cart |-> txs[c].cart, by |-> Till!CardOf(c)]
  <2>1. CASE status = "approved"
    <3>1. txs[c].key \in Till!Keys /\ txs[c].cart \in Till!Carts
      BY <1>1 DEF Till!TxRows
    <3>2. [cart |-> txs[c].cart, by |-> Till!CardOf(c)] \in Till!SaleRows
      BY <3>1 DEF Till!SaleRows, Till!CardOf
    <3> QED  BY <1>2, <2>1, <3>1, <3>2, MadeIsSale DEF TillInv
  <2>2. CASE status # "approved"
    BY <1>2, <2>2 DEF TillInv, TillRows
  <2> QED  BY <2>1, <2>2
<1>5. \A d \in Till!Charges : txs'[d] # None =>
        txs[d] # None /\ txs'[d].key = txs[d].key /\ txs'[d].cart = txs[d].cart
  BY <1>1, <1>3
<1>6. \A d \in Till!Charges : txs[d] # None => txs'[d] # None
  BY <1>3, TillNone
<1>7. TillRows'
  <2>1. \A d \in Till!Charges : txs'[d] # None => txs'[d].key \in Till!Keys
    BY <1>5 DEF TillInv, TillRows, Till!TypeOK
  <2> QED
    BY <1>1, <1>3, <1>4, <2>1 DEF TillInv, TillRows, Till!TypeOK, Till!chargeVars
<1>8. KeysGivenOut'
  BY <1>1, <1>5 DEF TillInv, KeysGivenOut, Till!chargeVars
<1>9. ReceiptIsMade'
  <2>1. \A k \in Till!Keys : MadeSale(k) => MadeSale(k)'
    BY <1>1, <1>4 DEF MadeSale, OfThisCart
  <2> QED
    BY <1>1, <2>1 DEF TillInv, ReceiptIsMade, TillRows, Till!chargeVars
<1>10. ChargeHolds'
  BY <1>1, <1>5, <1>6 DEF TillInv, ChargeHolds, OfThisCart, Till!chargeVars
<1>11. ChargesPay'
  <2> SUFFICES ASSUME NEW d \in Till!Charges, txs'[d] # None, txs'[d].status = "approved"
               PROVE  sales'[txs'[d].key] = [cart |-> txs'[d].cart, by |-> Till!CardOf(d)]
    BY DEF ChargesPay, Till!CardOf
  <2>1. CASE d = c
    BY <1>3, <1>4, <2>1
  <2>2. CASE d # c
    <3>1. txs'[d] = txs[d] /\ txs[d] \in Till!TxRows
      BY <1>1, <1>3, <2>2
    <3>2. sales[txs[d].key] = [cart |-> txs[d].cart, by |-> Till!CardOf(d)]
      BY <3>1 DEF TillInv, ChargesPay
    <3>3. [cart |-> txs[d].cart, by |-> Till!CardOf(d)] \in Till!SaleRows
              /\ txs[d].key \in Till!Keys
      BY <3>1 DEF Till!TxRows, Till!SaleRows, Till!CardOf
    <3> QED  BY <1>4, <3>1, <3>2, <3>3, TillNone
  <2> QED  BY <2>1, <2>2
<1> QED  BY <1>7, <1>8, <1>9, <1>10, <1>11 DEF TillInv

(* ---------------------------- The next customer ------------------------- *)

(* The next key is newer than every other.                                 *)
LEMMA NewerKey ==
    ASSUME Till!RegisterAssumption, TillInv, completionKey < MaxKeys
    PROVE  /\ completionKey + 1 \in Till!Keys
           /\ \A k \in Till!Keys :
                k <= completionKey => k <= completionKey + 1 /\ k < completionKey + 1
                    /\ k # completionKey + 1
           /\ \A k \in Till!Keys : k < completionKey => k < completionKey + 1
  BY DEF Till!RegisterAssumption, TillInv, TillRows, Till!TypeOK, Till!Keys

LEMMA NewSaleKeeps ==
    ASSUME Till!RegisterAssumption, TillInv, Till!NewSale PROVE TillInv'
<1>1. Till!EmptyCart \in Till!Carts
  BY DEF Till!EmptyCart, Till!Carts, Till!RegisterAssumption
<1>2. completionKey' = completionKey + 1 /\ completionKey' \in Till!Keys
          /\ receipt \in Till!Keys /\ receipt <= completionKey
  BY NewerKey DEF Till!NewSale, Till!NewKey, TillInv, TillRows, KeysGivenOut
<1>3. TillRows'
  BY <1>1, <1>2 DEF TillInv, TillRows, Till!TypeOK, Till!NewSale, Till!chargeVars,
     Till!storeVars
<1>4. \A c \in Till!Charges : txs[c] # None => txs[c].key \in Till!Keys
          /\ txs[c].key <= completionKey
  BY DEF TillInv, TillRows, Till!TypeOK, KeysGivenOut
<1>5. KeysGivenOut'
  <2>1. \A k \in served' : k < completionKey'
    BY <1>2, NewerKey DEF TillInv, KeysGivenOut, Till!NewSale, TillRows
  <2> QED
    BY <1>2, <1>4, <2>1, NewerKey DEF TillInv, KeysGivenOut, Till!NewSale,
       Till!chargeVars, Till!storeVars
<1>6. ReceiptIsMade'
  BY <1>2, NewerKey DEF TillInv, KeysGivenOut, ReceiptIsMade, MadeSale, Till!NewSale,
     Till!chargeVars, Till!storeVars
<1>7. ChargeHolds'
  BY <1>2, <1>4, NewerKey DEF TillInv, ChargeHolds, Till!NewSale, Till!chargeVars,
     Till!storeVars
<1>8. ChargesPay'
  BY DEF TillInv, ChargesPay, Till!NewSale, Till!storeVars, Till!CardOf
<1> QED  BY <1>3, <1>5, <1>6, <1>7, <1>8 DEF TillInv

LEMMA LeaveKeeps ==
    ASSUME Till!RegisterAssumption, TillInv, Till!Leave PROVE TillInv'
<1>1. Till!EmptyCart \in Till!Carts
  BY DEF Till!EmptyCart, Till!Carts, Till!RegisterAssumption
<1>2. completionKey' = completionKey + 1 /\ completionKey' \in Till!Keys
  BY NewerKey DEF Till!Leave
<1>3. TillRows'
  BY <1>1, <1>2 DEF TillInv, TillRows, Till!TypeOK, Till!Leave, Till!storeVars
<1>4. \A c \in Till!Charges : txs[c] # None => txs[c].key \in Till!Keys
          /\ txs[c].key <= completionKey
  BY DEF TillInv, TillRows, Till!TypeOK, KeysGivenOut
<1>5. KeysGivenOut'
  <2>1. \A k \in served' : k < completionKey'
    BY <1>2, NewerKey DEF TillInv, KeysGivenOut, Till!Leave, TillRows
  <2> QED
    BY <1>2, <1>4, <2>1, NewerKey, TillNone DEF TillInv, KeysGivenOut, Till!Leave,
       Till!storeVars
<1>6. ReceiptIsMade' /\ ChargeHolds'
  BY TillNone DEF ReceiptIsMade, ChargeHolds, Till!Leave
<1>7. ChargesPay'
  BY DEF TillInv, ChargesPay, Till!Leave, Till!storeVars, Till!CardOf
<1> QED  BY <1>3, <1>5, <1>6, <1>7 DEF TillInv

LEMMA TillInitially == Till!RegisterAssumption /\ Till!Init => TillInv
<1> SUFFICES ASSUME Till!RegisterAssumption, Till!Init PROVE TillInv
  OBVIOUS
<1>1. Till!EmptyCart \in Till!Carts /\ 1 \in Till!Keys
  BY DEF Till!EmptyCart, Till!Carts, Till!RegisterAssumption, Till!Keys
<1>2. TillRows
  <2>1. \A i \in DOMAIN parked : parked[i] \in Till!Carts
    BY DEF Till!Init
  <2> QED  BY <1>1, <2>1 DEF Till!Init, TillRows, Till!TypeOK
<1>3. KeysGivenOut /\ ReceiptIsMade /\ ChargeHolds /\ ChargesPay
  BY TillNone DEF Till!Init, KeysGivenOut, ReceiptIsMade, ChargeHolds, ChargesPay
<1> QED  BY <1>2, <1>3 DEF TillInv

(* Every step keeps the invariant.                                         *)
LEMMA TillKept ==
    Till!RegisterAssumption /\ TillInv /\ [Till!Next]_(Till!vars) => TillInv'
<1> SUFFICES ASSUME Till!RegisterAssumption, TillInv, [Till!Next]_(Till!vars)
             PROVE  TillInv'
  OBVIOUS
<1>1. CASE \E g \in Goods : Till!Add(g) \/ Till!ScanUnknown(g) \/ Till!Take(g)
  BY <1>1, AddKeeps, FormKeeps, TakeKeeps
<1>2. CASE Till!CreateProduct \/ Till!CloseForm
  BY <1>2, CreateKeeps, FormKeeps
<1>3. CASE Till!Park
  BY <1>3, ParkKeeps
<1>4. CASE \E id \in DOMAIN parked : Till!Resume(id) \/ Till!Discard(id)
  BY <1>4, ResumeSaleKeeps, DiscardKeeps
<1>5. CASE \E tender \in Till!Tenders \cup {"integrated_card"} : Till!Choose(tender)
  BY <1>5, ChooseKeeps
<1>6. CASE Till!Back
  BY <1>6, BackKeeps
<1>7. CASE Till!Complete
  BY <1>7, CompleteKeeps
<1>8. CASE Till!SaleAnswered
  BY <1>8, SaleAnsweredKeeps
<1>9. CASE Till!InitiateCharge
  BY <1>9, InitiateKeeps
<1>10. CASE Till!ChargeAnswered
  BY <1>10, ChargeAnsweredKeeps
<1>11. CASE Till!Check \/ Till!ChooseAnother
  BY <1>11, CheckChargeKeeps
<1>12. CASE \E c \in Till!Charges : Till!ChargeMoves(c)
  BY <1>12, MovesKeep
<1>13. CASE Till!NewSale
  BY <1>13, NewSaleKeeps
<1>14. CASE Till!Leave
  BY <1>14, LeaveKeeps
<1>15. CASE UNCHANGED Till!vars
  <2>1. Till!TypeOK' /\ \A i \in DOMAIN parked' : parked'[i] \in Till!Carts
    BY <1>15 DEF TillInv, TillRows, Till!TypeOK, Till!vars, Till!panelVars,
       Till!chargeVars, Till!storeVars
  <2> QED
    BY <1>15, <2>1, TillStillKeeps DEF Till!vars, Till!panelVars, Till!storeVars
<1> QED
  BY <1>1, <1>2, <1>3, <1>4, <1>5, <1>6, <1>7, <1>8, <1>9, <1>10, <1>11, <1>12, <1>13,
     <1>14, <1>15 DEF Till!Next

-----------------------------------------------------------------------------
(* The screen and the store keep their types, whatever the cashier does    *)
(* and whichever answers come late (CheckoutScreen).                       *)
THEOREM TillTypes == Till!RegisterAssumption => (Till!Spec => []Till!TypeOK)
<1>1. Till!RegisterAssumption /\ TillInv /\ [Till!Next]_(Till!vars) => TillInv'
  BY TillKept
<1>2. TillInv => Till!TypeOK
  BY DEF TillInv, TillRows
<1> SUFFICES ASSUME Till!RegisterAssumption PROVE Till!Spec => []Till!TypeOK
  OBVIOUS
<1> QED
  BY TillInitially, <1>1, <1>2, PTL DEF Till!Spec

(* A receipt at the register is of the customer's own goods and sale, and  *)
(* a card is charged only for the sale that names the charge.              *)
THEOREM TillSales == Till!RegisterAssumption => (Till!Spec => []Till!OneSalePerCustomer)
<1>1. Till!RegisterAssumption /\ TillInv /\ [Till!Next]_(Till!vars) => TillInv'
  BY TillKept
<1>2. Till!RegisterAssumption /\ TillInv => Till!OneSalePerCustomer
  BY InvImpliesOneSale
<1> SUFFICES ASSUME Till!RegisterAssumption PROVE Till!Spec => []Till!OneSalePerCustomer
  OBVIOUS
<1> QED
  BY TillInitially, <1>1, <1>2, PTL DEF Till!Spec

-----------------------------------------------------------------------------
(* Backups *)

Databases == [sales : Nat, images : SUBSET Images, rows : SUBSET (1..clock), schema : Int]

OfKind(dir, kind) == {f \in DOMAIN dir : dir[f].kind = kind}

(* The folder's files are copies of databases, and the vault has what they *)
(* were made with.                                                         *)
FolderOK ==
    /\ DOMAIN files \subseteq 1..clock
    /\ \A f \in DOMAIN files :
         /\ files[f].kind \in Copies!Kinds
         /\ files[f].holds \in Databases
         /\ files[f].kept \subseteq vault
         /\ files[f].kept \subseteq files[f].holds.images
    /\ \A kind \in Copies!Kinds : Cardinality(OfKind(files, kind)) <= Keep[kind]

(* A safety copy and the sales since make up a database's sales.           *)
SafeCopy(name, later, total) ==
    /\ name \in DOMAIN files /\ files[name].kind = "prerestore"
    /\ files[name].holds.sales + later = total

(* While a file is restored its safety copy is there; after that, until    *)
(* another restore begins.                                                 *)
SafetyCopyKept ==
    /\ restoring \in {"copying", "closed"}
        => SafeCopy(chosen.safety, rung, database.sales)
    /\ swap # None =>
         /\ swap.safety \in 1..clock
         /\ \/ SafeCopy(swap.safety, swap.rung, swap.was)
            \/ \E f \in DOMAIN files : f > swap.safety /\ files[f].kind = "prerestore"

CopiesInv ==
    /\ clock \in Nat /\ rung \in Nat
    /\ database \in Databases
    /\ restoring \in {"open", "copying", "closed", "opening"}
    /\ restoring = "closed" => copy \in Databases
    /\ version \in Int
    /\ FolderOK
    /\ SafetyCopyKept

(* Of the files of a kind, no more are kept than have fewer newer ones     *)
(* than are to be kept: the newer ones count each of them once.            *)
LEMMA FewAreKept ==
    ASSUME NEW n \in Nat, NEW T \in SUBSET (1..n), NEW k \in Nat
    PROVE  Cardinality({f \in T : Cardinality({g \in T : g > f}) < k}) <= k
<1> DEFINE Newer(f) == {g \in T : g > f}
           S == {f \in T : Cardinality(Newer(f)) < k}
           count == [f \in S |-> Cardinality(Newer(f))]
<1>1. IsFiniteSet(T) /\ \A f \in T : f \in Nat
  <2>1. IsFiniteSet(1..n)
    BY FS_Interval
  <2>2. IsFiniteSet(T)
    BY <2>1, FS_Subset
  <2> QED  BY <2>2
<1>2. \A f \in T : IsFiniteSet(Newer(f)) /\ Cardinality(Newer(f)) \in Nat
  BY <1>1, FS_Subset, FS_CardinalityType
<1>3. IsFiniteSet(S) /\ Cardinality(S) \in Nat
  BY <1>1, FS_Subset, FS_CardinalityType
<1>4. IsFiniteSet(0..(k - 1)) /\ Cardinality(0..(k - 1)) = k
  BY FS_Interval
<1>5. \A f, g \in T : f < g => Cardinality(Newer(f)) # Cardinality(Newer(g))
  <2> SUFFICES ASSUME NEW f \in T, NEW g \in T, f < g,
                      Cardinality(Newer(f)) = Cardinality(Newer(g))
               PROVE  FALSE
    OBVIOUS
  <2>1. \A h \in T : h > g => h > f
    BY <1>1
  <2>2. Newer(g) \subseteq Newer(f)
    BY <2>1
  <2>3. g \in Newer(f) /\ g \notin Newer(g)
    BY <1>1
  <2> QED  BY <1>2, <2>2, <2>3, FS_Subset
<1>6. count \in [S -> 0..(k - 1)]
  <2>1. \A f \in S : Cardinality(Newer(f)) \in 0..(k - 1)
    <3> HIDE DEF Newer
    <3> QED  BY <1>2
  <2> HIDE DEF S
  <2> QED  BY <2>1
<1>7. ASSUME k < Cardinality(S) PROVE FALSE
  <2> HIDE DEF S, count
  <2>1. \E f, g \in S : f # g /\ count[f] = count[g]
    BY <1>3, <1>4, <1>6, <1>7, FS_PigeonHole
  <2>2. PICK f \in S, g \in S : f # g /\ Cardinality(Newer(f)) = Cardinality(Newer(g))
    BY <2>1 DEF count
  <2>3. f \in T /\ g \in T /\ (f < g \/ g < f)
    BY <1>1, <2>2 DEF S
  <2> QED  BY <1>5, <2>2, <2>3
<1> QED  BY <1>3, <1>7

(* What a backup makes of the folder.                                      *)
LEMMA BackUpMakes ==
    ASSUME Copies!BackupsAssumption, CopiesInv, NEW kind \in Copies!Kinds,
           Copies!BackUp(database, kind)
    PROVE  /\ clock' = clock + 1 /\ clock' \in Nat
           /\ clock' \in DOMAIN files'
           /\ files'[clock'].kind = kind /\ files'[clock'].holds = database
           /\ FolderOK'
           /\ \A f \in DOMAIN files : files[f].kind # kind =>
                f \in DOMAIN files' /\ files'[f] = files[f]
<1> DEFINE name == clock + 1
           full == Copies!Filled(database.images)
           made == [kind |-> kind, holds |-> database, kept |-> database.images \cap full]
           all == [f \in DOMAIN files \cup {name} |-> IF f = name THEN made ELSE files[f]]
           left == [f \in Copies!Kept(all, name) |-> all[f]]
<1>1. clock' = name /\ files' = left /\ vault' = Copies!Collected(full, database, left)
  BY DEF Copies!BackUp
<1>2. name \in Nat /\ name \in DOMAIN all /\ all[name] = made
      /\ DOMAIN all = DOMAIN files \cup {name} /\ DOMAIN all \subseteq 1..name
      /\ \A f \in DOMAIN files : f # name /\ all[f] = files[f]
  BY DEF CopiesInv, FolderOK
<1>3. /\ DOMAIN left \subseteq DOMAIN all /\ name \in DOMAIN left
      /\ \A f \in DOMAIN left : left[f] = all[f]
      /\ \A f \in DOMAIN all :
           f \in DOMAIN left <=>
             f = name \/ Cardinality({g \in OfKind(all, all[f].kind) : g > f})
                             < Keep[all[f].kind]
  <2>1. DOMAIN left = Copies!Kept(all, name)
    OBVIOUS
  <2>2. \A f \in DOMAIN all :
          {g \in DOMAIN all : all[g].kind = all[f].kind /\ g > f}
              = {g \in OfKind(all, all[f].kind) : g > f}
    BY DEF OfKind
  <2> HIDE DEF all
  <2> QED  BY <1>2, <2>1, <2>2, CopiesCount DEF Copies!Kept
<1>4. \A f \in DOMAIN files : files[f].holds \in Databases'
  BY <1>1 DEF CopiesInv, FolderOK, Databases
<1>5. database \in Databases' /\ database \in Databases
  BY <1>1 DEF CopiesInv, Databases
<1>6. \A f \in DOMAIN left :
        /\ left[f].kind \in Copies!Kinds /\ left[f].holds \in Databases'
        /\ left[f].kept \subseteq left[f].holds.images
        /\ left[f].kept \subseteq full
  <2>1. \A f \in DOMAIN all :
          /\ all[f].kind \in Copies!Kinds /\ all[f].holds \in Databases'
          /\ all[f].kept \subseteq all[f].holds.images
          /\ all[f].kept \subseteq full
    BY <1>2, <1>4, <1>5 DEF CopiesInv, FolderOK, Copies!Filled
  <2> HIDE DEF all, left
  <2> QED  BY <1>3, <2>1
<1>7. \A f \in DOMAIN left : left[f].kept \subseteq vault'
  <2> HIDE DEF left, full
  <2> QED  BY <1>1, <1>6 DEF Copies!Collected, Copies!Referenced
<1>8. \A k \in Copies!Kinds : Cardinality(OfKind(left, k)) <= Keep[k]
  <2> SUFFICES ASSUME NEW k \in Copies!Kinds PROVE Cardinality(OfKind(left, k)) <= Keep[k]
    OBVIOUS
  <2> HIDE DEF all, left, name
  <2>1. OfKind(all, k) \subseteq 1..name /\ Keep[k] \in Nat /\ Keep[k] > 0
    BY <1>2 DEF OfKind, Copies!BackupsAssumption
  <2>2. OfKind(left, k) =
          {f \in OfKind(all, k) : Cardinality({g \in OfKind(all, k) : g > f}) < Keep[k]}
    <3>1. {g \in OfKind(all, k) : g > name} = {}
      BY <1>2, <2>1
    <3>2. Cardinality({g \in OfKind(all, k) : g > name}) < Keep[k]
      BY <2>1, <3>1, FS_EmptySet
    <3> QED  BY <1>3, <3>2 DEF OfKind
  <2> QED  BY <1>2, <2>1, <2>2, FewAreKept
<1>9. \A f \in DOMAIN files : files[f].kind # kind => f \in DOMAIN left
          /\ left[f] = files[f]
  <2> SUFFICES ASSUME NEW f \in DOMAIN files, files[f].kind # kind
               PROVE  f \in DOMAIN left /\ left[f] = files[f]
    OBVIOUS
  <2>1. all[f] = files[f] /\ OfKind(all, files[f].kind) = OfKind(files, files[f].kind)
    BY <1>2 DEF OfKind
  <2>2. f \in OfKind(files, files[f].kind) /\ f \in Nat /\ files[f].kind \in Copies!Kinds
    BY DEF OfKind, CopiesInv, FolderOK
  <2>3. Cardinality({g \in OfKind(files, files[f].kind) : g > f}) < Keep[files[f].kind]
    <3> DEFINE same == OfKind(files, files[f].kind)
               newer == {g \in same : g > f}
    <3>1. IsFiniteSet(same)
      <4>1. same \subseteq 1..clock
        BY DEF OfKind, CopiesInv, FolderOK
      <4>2. IsFiniteSet(1..clock)
        BY FS_Interval DEF CopiesInv
      <4> QED  BY <4>1, <4>2, FS_Subset
    <3>2. newer \subseteq same /\ newer # same
      BY <2>2
    <3>3. Cardinality(newer) < Cardinality(same)
      BY <3>1, <3>2, FS_Subset, FS_CardinalityType
    <3>4. Cardinality(same) <= Keep[files[f].kind] /\ Keep[files[f].kind] \in Nat
      BY <2>2 DEF CopiesInv, FolderOK, Copies!BackupsAssumption
    <3>5. Cardinality(same) \in Nat /\ Cardinality(newer) \in Nat
      BY <3>1, <3>2, FS_Subset, FS_CardinalityType
    <3> QED  BY <3>3, <3>4, <3>5
  <2> HIDE DEF all, left
  <2> QED  BY <1>2, <1>3, <2>1, <2>3
<1> HIDE DEF all, left, name
<1>10. FolderOK'
  BY <1>1, <1>2, <1>3, <1>6, <1>7, <1>8 DEF FolderOK, OfKind
<1> QED
  BY <1>1, <1>2, <1>3, <1>9, <1>10 DEF name

LEMMA CopiesInitially == Copies!BackupsAssumption /\ Copies!Init => CopiesInv
<1> SUFFICES ASSUME Copies!BackupsAssumption, Copies!Init PROVE CopiesInv
  OBVIOUS
<1>1. version \in Int /\ database \in Databases /\ clock \in Nat /\ rung \in Nat
  BY DEF Copies!BackupsAssumption, Copies!Init, Databases
<1>2. FolderOK
  <2>1. DOMAIN files = {}
    BY DEF Copies!Init
  <2>2. \A kind \in Copies!Kinds : OfKind(files, kind) = {} /\ Keep[kind] \in Nat
    BY <2>1 DEF OfKind, Copies!BackupsAssumption
  <2>3. \A kind \in Copies!Kinds : Cardinality(OfKind(files, kind)) <= Keep[kind]
    BY <2>2, FS_EmptySet
  <2> QED  BY <2>1, <2>3 DEF FolderOK
<1>3. SafetyCopyKept
  BY DEF SafetyCopyKept, Copies!Init
<1> QED  BY <1>1, <1>2, <1>3 DEF CopiesInv, Copies!Init

(* The folder and what it is to keep are as they were.                     *)
LEMMA SameFolder ==
    ASSUME CopiesInv, UNCHANGED Copies!folderVars
    PROVE  FolderOK' /\ Databases' = Databases
<1>1. UNCHANGED <<files, vault, clock>>
  BY DEF Copies!folderVars
<1> QED  BY <1>1 DEF CopiesInv, FolderOK, OfKind, Databases

(* A backup that is no safety copy leaves the safety copies where they are.*)
LEMMA BackUpSafe ==
    ASSUME Copies!BackupsAssumption, CopiesInv,
           NEW kind \in Copies!Kinds \ {"prerestore"},
           Copies!BackUp(database, kind), NEW name, NEW later, NEW total
    PROVE  /\ SafeCopy(name, later, total) =>
                /\ name \in DOMAIN files' /\ files'[name].kind = "prerestore"
                /\ files'[name].holds.sales + later = total
           /\ name \in DOMAIN files /\ files[name].kind = "prerestore" =>
                name \in DOMAIN files' /\ files'[name].kind = "prerestore"
  BY BackUpMakes DEF SafeCopy

LEMMA BackUpKeepsSwap ==
    ASSUME Copies!BackupsAssumption, CopiesInv, NEW kind \in Copies!Kinds,
           Copies!BackUp(database, kind), UNCHANGED swap
    PROVE  swap # None =>
              /\ swap.safety \in 1..clock'
              /\ \/ SafeCopy(swap.safety, swap.rung, swap.was)'
                 \/ \E f \in DOMAIN files' : f > swap.safety
                    /\ files'[f].kind = "prerestore"
<1> SUFFICES ASSUME swap # None
             PROVE  /\ swap.safety \in 1..clock'
                    /\ \/ SafeCopy(swap.safety, swap.rung, swap.was)'
                       \/ \E f \in DOMAIN files' :
                             f > swap.safety /\ files'[f].kind = "prerestore"
  OBVIOUS
<1>1. /\ swap.safety \in 1..clock /\ clock \in Nat
      /\ \/ SafeCopy(swap.safety, swap.rung, swap.was)
         \/ \E f \in DOMAIN files : f > swap.safety /\ files[f].kind = "prerestore"
  BY DEF CopiesInv, SafetyCopyKept
<1>2. clock' = clock + 1 /\ clock' \in DOMAIN files' /\ files'[clock'].kind = kind
  BY BackUpMakes
<1>3. swap.safety \in 1..clock' /\ clock' > swap.safety
  BY <1>1, <1>2
<1>4. CASE kind = "prerestore"
  BY <1>2, <1>3, <1>4
<1>5. CASE kind # "prerestore"
  <2>1. SafeCopy(swap.safety, swap.rung, swap.was)
            => SafeCopy(swap.safety, swap.rung, swap.was)'
    BY <1>5, BackUpSafe DEF SafeCopy
  <2>2. \A f \in DOMAIN files : files[f].kind = "prerestore" =>
            f \in DOMAIN files' /\ files'[f].kind = "prerestore"
    BY <1>5, BackUpMakes
  <2> QED  BY <1>1, <1>3, <2>1, <2>2
<1> QED  BY <1>4, <1>5

LEMMA MakeBackupKeeps ==
    ASSUME Copies!BackupsAssumption, CopiesInv, NEW kind \in {"scheduled", "manual"},
           Copies!MakeBackup(kind)
    PROVE  CopiesInv'
<1>1. CASE Copies!BackUp(database, kind)
               /\ database' = [database EXCEPT !.rows = @ \cup {clock'}]
  <2>1. kind \in Copies!Kinds \ {"prerestore"}
    BY DEF Copies!Kinds
  <2>2. FolderOK' /\ clock' = clock + 1 /\ clock' \in Nat
    BY <1>1, <2>1, BackUpMakes
  <2>3. database' \in Databases' /\ database'.sales = database.sales
    BY <1>1, <2>2 DEF CopiesInv, Databases
  <2>4. UNCHANGED <<restoring, version, chosen, copy, swap, rung>>
            /\ restoring \in {"open", "copying"}
    BY DEF Copies!MakeBackup, Copies!Open, Copies!restoreVars, Copies!historyVars
  <2>5. restoring \in {"copying", "closed"}
            => SafeCopy(chosen.safety, rung, database.sales)'
    BY <1>1, <2>1, <2>3, <2>4, BackUpSafe DEF CopiesInv, SafetyCopyKept, SafeCopy
  <2>6. SafetyCopyKept'
    BY <1>1, <2>1, <2>4, <2>5, BackUpKeepsSwap DEF SafetyCopyKept
  <2> QED  BY <2>2, <2>3, <2>4, <2>6 DEF CopiesInv
<1>2. CASE Copies!BackupFails
  <2>1. UNCHANGED Copies!vars
    BY <1>2 DEF Copies!MakeBackup, Copies!BackupFails, Copies!vars, Copies!folderVars,
       Copies!restoreVars, Copies!historyVars
  <2> QED  BY <2>1, SameFolder DEF CopiesInv, Copies!vars, Copies!folderVars,
              Copies!restoreVars, Copies!historyVars, SafeCopy, SafetyCopyKept
<1> QED  BY <1>1, <1>2 DEF Copies!MakeBackup


(* Only the images of the database and the disk change, or its sales.      *)
LEMMA TradeKeeps ==
    ASSUME CopiesInv,
           \/ Copies!Sell
           \/ \E i \in Images : \/ Copies!AddImage(i) \/ Copies!DiscardImage(i)
                               \/ Copies!LoseImage(i)
    PROVE  CopiesInv'
<1>1. UNCHANGED Copies!folderVars
          /\ UNCHANGED <<restoring, version, Copies!restoreVars, swap>>
  BY DEF Copies!Sell, Copies!AddImage, Copies!DiscardImage, Copies!LoseImage,
     Copies!historyVars
<1>2. FolderOK' /\ Databases' = Databases /\ clock' = clock /\ files' = files
  BY <1>1, SameFolder DEF Copies!folderVars
<1>3. database' \in Databases
  BY DEF Copies!Sell, Copies!AddImage, Copies!DiscardImage, Copies!LoseImage,
     CopiesInv, Databases
<1>4. /\ rung' \in Nat
      /\ restoring = "copying" =>
           \/ database'.sales = database.sales /\ rung' = rung
           \/ database'.sales = database.sales + 1 /\ rung' = rung + 1
      /\ restoring = "closed" => database'.sales = database.sales /\ rung' = rung
  BY DEF Copies!Sell, Copies!AddImage, Copies!DiscardImage, Copies!LoseImage,
     Copies!Open, CopiesInv, Databases, Copies!historyVars
<1>5. restoring \in {"copying", "closed"} =>
        files[chosen.safety].holds.sales \in Nat
  BY DEF CopiesInv, SafetyCopyKept, SafeCopy, FolderOK, Databases
<1>6. SafetyCopyKept'
  <2>1. restoring' \in {"copying", "closed"}
            => SafeCopy(chosen.safety, rung, database.sales)'
    BY <1>1, <1>2, <1>4, <1>5 DEF CopiesInv, SafetyCopyKept, SafeCopy,
       Copies!restoreVars
  <2> QED  BY <1>1, <1>2, <2>1 DEF CopiesInv, SafetyCopyKept, SafeCopy
<1> QED  BY <1>1, <1>2, <1>3, <1>4, <1>6 DEF CopiesInv, Copies!restoreVars

(* A restore goes on only with a safety copy of the database as it is.     *)
LEMMA BeginKeeps ==
    ASSUME Copies!BackupsAssumption, CopiesInv, NEW f \in DOMAIN files,
           Copies!BeginRestore(f)
    PROVE  CopiesInv'
<1>1. PICK made \in BOOLEAN :
        /\ IF made
           THEN Copies!BackUp(database, "prerestore")
                /\ database' = [database EXCEPT !.rows = @ \cup {clock'}]
           ELSE Copies!BackupFails
        /\ restoring' = IF Copies!Guarded(made) THEN "copying" ELSE "open"
        /\ chosen' = IF Copies!Guarded(made)
                       THEN [file |-> f, safety |-> clock'] ELSE None
  BY DEF Copies!BeginRestore
<1>2. rung' = 0 /\ UNCHANGED <<version, copy, swap>>
  BY DEF Copies!BeginRestore
<1>3. CASE made
  <2>1. Copies!BackUp(database, "prerestore")
            /\ database' = [database EXCEPT !.rows = @ \cup {clock'}]
        /\ restoring' = "copying" /\ chosen' = [file |-> f, safety |-> clock']
    BY <1>1, <1>3 DEF Copies!Guarded
  <2>2. /\ FolderOK' /\ clock' = clock + 1 /\ clock' \in Nat
        /\ clock' \in DOMAIN files' /\ files'[clock'].kind = "prerestore"
        /\ files'[clock'].holds = database
    BY <2>1, BackUpMakes DEF Copies!Kinds
  <2>3. database' \in Databases' /\ database'.sales = database.sales
            /\ database.sales \in Nat
    BY <2>1, <2>2 DEF CopiesInv, Databases
  <2>4. SafeCopy(chosen.safety, rung, database.sales)'
    BY <1>2, <2>1, <2>2, <2>3 DEF SafeCopy
  <2>5. SafetyCopyKept'
    BY <1>2, <2>1, <2>4, BackUpKeepsSwap DEF SafetyCopyKept, Copies!Kinds
  <2> QED  BY <1>2, <2>1, <2>2, <2>3, <2>5 DEF CopiesInv
<1>4. CASE ~made
  <2>1. UNCHANGED <<database, Copies!folderVars>> /\ restoring' = "open"
    BY <1>1, <1>4 DEF Copies!BackupFails, Copies!Guarded
  <2>2. FolderOK' /\ Databases' = Databases /\ clock' = clock /\ files' = files
    BY <2>1, SameFolder DEF Copies!folderVars
  <2>3. SafetyCopyKept'
    BY <1>2, <2>1, <2>2 DEF CopiesInv, SafetyCopyKept, SafeCopy
  <2> QED  BY <1>2, <2>1, <2>2, <2>3 DEF CopiesInv
<1> QED  BY <1>3, <1>4

LEMMA CopiedKeeps ==
    ASSUME CopiesInv, Copies!FileCopied \/ Copies!CopyFails PROVE CopiesInv'
<1>1. UNCHANGED <<database, Copies!folderVars, version, Copies!historyVars>>
  BY DEF Copies!FileCopied, Copies!CopyFails
<1>2. FolderOK' /\ Databases' = Databases /\ clock' = clock /\ files' = files
  BY <1>1, SameFolder DEF Copies!folderVars
<1>3. /\ restoring = "copying" /\ restoring' \in {"open", "closed"}
      /\ restoring' = "closed" => copy' \in Databases /\ chosen' = chosen
  BY DEF Copies!FileCopied, Copies!CopyFails, CopiesInv, FolderOK
<1>4. SafetyCopyKept'
  BY <1>1, <1>2, <1>3 DEF CopiesInv, SafetyCopyKept, SafeCopy, Copies!historyVars
<1> QED  BY <1>1, <1>2, <1>3, <1>4 DEF CopiesInv, Copies!historyVars

(* The safety copy answers for the database that goes.                     *)
LEMMA SwapKeeps ==
    ASSUME CopiesInv, Copies!Swapped PROVE CopiesInv'
<1>1. UNCHANGED <<Copies!folderVars, version>> /\ restoring' = "opening"
          /\ restoring = "closed"
      /\ database' = copy /\ rung' = 0
      /\ swap' = [was |-> database.sales, rung |-> rung, safety |-> chosen.safety]
  BY DEF Copies!Swapped
<1>2. FolderOK' /\ Databases' = Databases /\ clock' = clock /\ files' = files
  BY <1>1, SameFolder DEF Copies!folderVars
<1>3. copy \in Databases /\ SafeCopy(chosen.safety, rung, database.sales)
  BY <1>1 DEF CopiesInv, SafetyCopyKept
<1>4. chosen.safety \in 1..clock
  BY <1>3 DEF SafeCopy, CopiesInv, FolderOK
<1>5. SafetyCopyKept'
  BY <1>1, <1>2, <1>3, <1>4 DEF SafetyCopyKept, SafeCopy
<1> QED  BY <1>1, <1>2, <1>3, <1>5 DEF CopiesInv

LEMMA RestartKeeps ==
    ASSUME Copies!BackupsAssumption, CopiesInv, Copies!SwapFails \/ Copies!Crash
    PROVE  CopiesInv'
<1>1. UNCHANGED <<database, Copies!folderVars, Copies!historyVars>>
          /\ restoring' = "opening" /\ version' \in Int
  BY DEF Copies!SwapFails, Copies!Crash, CopiesInv, Copies!BackupsAssumption
<1>2. FolderOK' /\ Databases' = Databases /\ clock' = clock /\ files' = files
  BY <1>1, SameFolder DEF Copies!folderVars
<1>3. SafetyCopyKept'
  BY <1>1, <1>2 DEF CopiesInv, SafetyCopyKept, SafeCopy, Copies!historyVars
<1> QED  BY <1>1, <1>2, <1>3 DEF CopiesInv, Copies!historyVars

LEMMA OpenDatabaseKeeps ==
    ASSUME Copies!BackupsAssumption, CopiesInv, Copies!OpenDatabase PROVE CopiesInv'
<1>1. restoring' = "open" /\ UNCHANGED <<version, chosen, copy, swap, rung>>
  BY DEF Copies!OpenDatabase, Copies!restoreVars, Copies!historyVars
<1>2. CASE /\ Copies!BackUp(database, "premigration")
           /\ database' = [database EXCEPT !.schema = version, !.rows = @ \cup {clock'}]
  <2>1. FolderOK' /\ clock' = clock + 1 /\ clock' \in Nat
    BY <1>2, BackUpMakes DEF Copies!Kinds
  <2>2. database' \in Databases'
    <3>1. database.rows \cup {clock'} \in SUBSET (1..clock')
      BY <2>1 DEF CopiesInv, Databases
    <3>2. database \in Databases /\ version \in Int
      BY DEF CopiesInv
    <3> QED  BY <1>2, <3>1, <3>2 DEF Databases
  <2>3. SafetyCopyKept'
    BY <1>1, <1>2, BackUpKeepsSwap DEF SafetyCopyKept, Copies!Kinds
  <2> QED  BY <1>1, <2>1, <2>2, <2>3 DEF CopiesInv
<1>3. CASE UNCHANGED <<database, Copies!folderVars>>
  <2>1. FolderOK' /\ Databases' = Databases /\ clock' = clock /\ files' = files
    BY <1>3, SameFolder DEF Copies!folderVars
  <2>2. SafetyCopyKept'
    BY <1>1, <1>3, <2>1 DEF CopiesInv, SafetyCopyKept, SafeCopy
  <2> QED  BY <1>1, <1>3, <2>1, <2>2 DEF CopiesInv
<1> QED  BY <1>2, <1>3 DEF Copies!OpenDatabase

(* Every step keeps the invariant.                                         *)
LEMMA CopiesKept ==
    Copies!BackupsAssumption /\ CopiesInv /\ [Copies!Next]_(Copies!vars) => CopiesInv'
<1> SUFFICES ASSUME Copies!BackupsAssumption, CopiesInv, [Copies!Next]_(Copies!vars)
             PROVE  CopiesInv'
  OBVIOUS
<1>1. CASE \E kind \in {"scheduled", "manual"} : Copies!MakeBackup(kind)
  BY <1>1, MakeBackupKeeps
<1>2. CASE \/ Copies!Sell
           \/ \E i \in Images : \/ Copies!AddImage(i) \/ Copies!DiscardImage(i)
                               \/ Copies!LoseImage(i)
  BY <1>2, TradeKeeps
<1>3. CASE \E f \in DOMAIN files : Copies!BeginRestore(f)
  BY <1>3, BeginKeeps
<1>4. CASE Copies!FileCopied \/ Copies!CopyFails
  BY <1>4, CopiedKeeps
<1>5. CASE Copies!Swapped
  BY <1>5, SwapKeeps
<1>6. CASE Copies!SwapFails \/ Copies!Crash
  BY <1>6, RestartKeeps
<1>7. CASE Copies!OpenDatabase
  BY <1>7, OpenDatabaseKeeps
<1>8. CASE UNCHANGED Copies!vars
  BY <1>8, SameFolder
     DEF CopiesInv, Copies!vars, Copies!folderVars, Copies!restoreVars,
         Copies!historyVars, SafeCopy, SafetyCopyKept
<1> QED
  BY <1>1, <1>2, <1>3, <1>4, <1>5, <1>6, <1>7, <1>8 DEF Copies!Next

LEMMA InvRestores == CopiesInv => Copies!TypeOK /\ Copies!BackupsRestore
  BY CopiesCount DEF CopiesInv, FolderOK, SafetyCopyKept, SafeCopy, Copies!TypeOK,
     Copies!BackupsRestore, OfKind, Databases

-----------------------------------------------------------------------------
(* The folder holds no more files of a kind than are to be kept, and the   *)
(* database knows only backups that were made (selectBackupsToDelete).     *)
THEOREM CopiesTypes == Copies!BackupsAssumption => (Copies!Spec => []Copies!TypeOK)
<1>1. Copies!BackupsAssumption /\ CopiesInv /\ [Copies!Next]_(Copies!vars) => CopiesInv'
  BY CopiesKept
<1>2. CopiesInv => Copies!TypeOK
  BY InvRestores
<1> SUFFICES ASSUME Copies!BackupsAssumption PROVE Copies!Spec => []Copies!TypeOK
  OBVIOUS
<1> QED
  BY CopiesInitially, <1>1, <1>2, PTL DEF Copies!Spec

(* Backups keep their images and a restore its way back.                   *)
THEOREM CopiesRestore ==
    Copies!BackupsAssumption => (Copies!Spec => []Copies!BackupsRestore)
<1>1. Copies!BackupsAssumption /\ CopiesInv /\ [Copies!Next]_(Copies!vars) => CopiesInv'
  BY CopiesKept
<1>2. CopiesInv => Copies!BackupsRestore
  BY InvRestores
<1> SUFFICES ASSUME Copies!BackupsAssumption PROVE Copies!Spec => []Copies!BackupsRestore
  OBVIOUS
<1> QED
  BY CopiesInitially, <1>1, <1>2, PTL DEF Copies!Spec

-----------------------------------------------------------------------------
(* Staff mode *)

(* The elevation of the session is an approval that is not used yet.       *)
Permitted ==
    elevation # None =>
        \E p \in permits : /\ p.permission = elevation.permission
                           /\ p.until = elevation.expiresAt

DoorInv == Door!TypeOK /\ Door!OwnersDecide /\ Permitted

(* The accounts are those they were, but for wrong PINs and locks.         *)
SameAccounts ==
    /\ DOMAIN staff' = DOMAIN staff
    /\ \A s \in DOMAIN staff :
         /\ staff'[s] \in Door!Accounts
         /\ staff'[s].role = staff[s].role /\ staff'[s].active = staff[s].active

LEMMA SameOwners == SameAccounts => Door!Owners' = Door!Owners
  BY DEF SameAccounts, Door!Owners

(* ------------------------------- The PINs -------------------------------- *)

LEMMA PinRows ==
    ASSUME Door!AccessAssumption, time \in Nat, NEW row \in Door!Accounts
    PROVE  /\ Door!Accepted(row) \in Door!Accounts
           /\ Door!Accepted(row).role = row.role /\ Door!Accepted(row).active = row.active
           /\ Door!Rejected(row) \in Door!Accounts
           /\ Door!Rejected(row).role = row.role /\ Door!Rejected(row).active = row.active
<1>1. LockTime \in Nat /\ time + LockTime \in Nat /\ row.failed + 1 \in Nat
  BY DEF Door!AccessAssumption, Door!Accounts
<1> QED
  BY <1>1 DEF Door!Accepted, Door!Rejected, Door!Accounts

LEMMA StaffPinKeeps ==
    ASSUME Door!AccessAssumption, Door!TypeOK, NEW s \in DOMAIN staff, NEW pin,
           Door!VerifyStaffPin(s, pin)
    PROVE  SameAccounts
<1>1. \A t \in DOMAIN staff : staff[t] \in Door!Accounts /\ time \in Nat
  BY DEF Door!TypeOK
<1>2. CASE staff' = staff
  BY <1>1, <1>2 DEF SameAccounts
<1>3. CASE staff' = [staff EXCEPT ![s] = Door!Accepted(staff[s])]
  BY <1>1, <1>3, PinRows DEF SameAccounts
<1>4. CASE staff' = [staff EXCEPT ![s] = Door!Rejected(staff[s])]
  BY <1>1, <1>4, PinRows DEF SameAccounts
<1> QED
  BY <1>2, <1>3, <1>4 DEF Door!VerifyStaffPin

LEMMA OwnerPinKeeps ==
    ASSUME Door!AccessAssumption, Door!TypeOK, NEW pin, Door!VerifyActiveOwnerPin(pin)
    PROVE  SameAccounts
<1>1. \A t \in DOMAIN staff : staff[t] \in Door!Accounts /\ time \in Nat
  BY DEF Door!TypeOK
<1>2. DOMAIN staff' = DOMAIN staff
  BY DEF Door!VerifyActiveOwnerPin
<1>3. \A t \in DOMAIN staff :
        staff'[t] \in {staff[t], Door!Accepted(staff[t]), Door!Rejected(staff[t])}
  BY DEF Door!VerifyActiveOwnerPin
<1> QED
  BY <1>1, <1>2, <1>3, PinRows DEF SameAccounts

(* ------------------------------- Requests -------------------------------- *)

LEMMA LiveIsElevation == Door!Live \in {None, elevation}
  BY DEF Door!Live

(* What lets a cashier's request through is an approval that is still good.*)
LEMMA SpendsAPermit ==
    ASSUME Door!TypeOK, Permitted, NEW request, Door!Spends(request)
    PROVE  \E p \in permits : Door!Usable(p, request)
<1>1. /\ elevation # None /\ elevation.expiresAt > time
      /\ elevation.permission = request
  BY DEF Door!Spends, Door!Live
<1>2. PICK p \in permits : /\ p.permission = elevation.permission
                           /\ p.until = elevation.expiresAt
  BY <1>1 DEF Permitted
<1>3. elevation.expiresAt \in Nat /\ time \in Nat
  BY <1>1 DEF Door!TypeOK
<1> QED
  BY <1>1, <1>2, <1>3 DEF Door!Usable

Elevations == [permission : Permissions, expiresAt : Nat]

LEMMA AdmitKeeps ==
    ASSUME DoorInv, NEW request, Door!Admit(request)
    PROVE  /\ elevation' \in Elevations \cup {None} /\ lastActivity' \in 0..time
           /\ overdrawn' = FALSE /\ Permitted' /\ current' = current
<1>1. /\ overdrawn = FALSE
      /\ Door!Spends(request) => \E p \in permits : Door!Usable(p, request)
  BY SpendsAPermit DEF DoorInv, Door!TypeOK, Door!OwnersDecide
<1>2. overdrawn' = FALSE
  BY <1>1 DEF Door!Admit
<1>3. elevation' \in {None, elevation}
  BY LiveIsElevation DEF Door!Admit, Door!Remaining
<1>4. Permitted'
  <2>1. CASE Door!Spends(request)
    BY <2>1 DEF Door!Admit, Door!Remaining, Permitted, Door!Spends
  <2>2. CASE ~Door!Spends(request)
    BY <1>3, <2>2 DEF Door!Admit, DoorInv, Permitted
  <2> QED
    BY <2>1, <2>2
<1>5. lastActivity' \in 0..time
  BY DEF Door!Admit, DoorInv, Door!TypeOK
<1> QED
  BY <1>2, <1>3, <1>4, <1>5 DEF Door!Admit, DoorInv, Door!TypeOK, Elevations

(* The accounts with their types, and the session with its own.            *)
AccountsOK ==
    /\ DOMAIN staff \subseteq Staff /\ \A s \in DOMAIN staff : staff[s] \in Door!Accounts
    /\ staffMode \in BOOLEAN
    /\ staffMode => Door!Owners # {}

Sessions == [id : Staff, role : Door!Roles, permissions : SUBSET Permissions]

SessionOK ==
    /\ current \in Sessions \cup {None}
    /\ elevation \in Elevations \cup {None}
    /\ overdrawn = FALSE
    /\ Permitted

ScreenOK ==
    /\ approval \in Permissions \cup {None}
    /\ DOMAIN shown \subseteq Staff /\ \A s \in DOMAIN shown : shown[s] \in Door!Accounts

ClockOK == time \in Nat /\ lastActivity \in 0..time

LEMMA DoorParts == DoorInv <=> AccountsOK /\ SessionOK /\ ScreenOK /\ ClockOK
  BY DEF DoorInv, Door!TypeOK, Door!OwnersDecide, AccountsOK, SessionOK, ScreenOK,
     ClockOK,
         Sessions, Elevations

LEMMA Together == AccountsOK' /\ SessionOK' /\ ScreenOK' /\ ClockOK' => DoorInv'
  BY DEF DoorInv, Door!TypeOK, Door!OwnersDecide, AccountsOK, SessionOK, ScreenOK,
     ClockOK,
         Sessions, Elevations

LEMMA SameAccountsOK ==
    ASSUME DoorInv, SameAccounts, UNCHANGED staffMode PROVE AccountsOK'
<1>1. Door!Owners' = Door!Owners
  BY SameOwners
<1> QED
  BY <1>1 DEF DoorInv, Door!TypeOK, Door!OwnersDecide, AccountsOK, SameAccounts

LEMMA StillOK ==
    /\ DoorInv /\ UNCHANGED Door!accountVars => AccountsOK'
    /\ DoorInv /\ UNCHANGED Door!screenVars => ScreenOK'
    /\ DoorInv /\ UNCHANGED <<lastActivity, time>> => ClockOK'
    /\ DoorInv /\ lastActivity' = time /\ UNCHANGED time => ClockOK'
<1> USE DoorParts
<1>1. DoorInv /\ UNCHANGED Door!accountVars => AccountsOK'
  BY DEF AccountsOK, Door!accountVars, Door!Owners
<1>2. DoorInv /\ UNCHANGED Door!screenVars => ScreenOK'
  BY DEF ScreenOK, Door!screenVars
<1>3. /\ DoorInv /\ UNCHANGED <<lastActivity, time>> => ClockOK'
      /\ DoorInv /\ lastActivity' = time /\ UNCHANGED time => ClockOK'
  BY DEF ClockOK
<1> QED
  BY <1>1, <1>2, <1>3

LEMMA AdmitOK ==
    ASSUME DoorInv, NEW request, Door!Admit(request), UNCHANGED time
    PROVE  SessionOK' /\ ClockOK'
  BY AdmitKeeps, DoorParts, StillOK DEF SessionOK, Sessions, Door!Admit

LEMMA EndSessionOK == DoorInv /\ Door!EndSession => SessionOK'
  BY DoorParts DEF SessionOK, Door!EndSession, Permitted

LEMMA CallKeeps ==
    ASSUME DoorInv, NEW request, Door!Call(request) PROVE DoorInv'
  BY AdmitOK, StillOK, Together DEF Door!Call

LEMMA DenyKeeps ==
    ASSUME DoorInv, NEW request \in Door!Requirements, Door!Deny(request) PROVE DoorInv'
<1>1. SessionOK'
  <2>1. CASE Door!Idle
    BY <2>1, EndSessionOK DEF Door!Deny
  <2>2. CASE ~Door!Idle
    <3>1. elevation' \in {None, elevation} /\ UNCHANGED <<current, Door!historyVars>>
      BY <2>2, LiveIsElevation DEF Door!Deny
    <3> QED
      BY <3>1, DoorParts DEF SessionOK, Permitted, Door!historyVars
  <2> QED
    BY <2>1, <2>2
<1>2. ScreenOK'
  BY DoorParts DEF Door!Deny, ScreenOK
<1> QED
  BY <1>1, <1>2, StillOK, Together DEF Door!Deny

LEMMA ElevateKeeps ==
    ASSUME Door!AccessAssumption, DoorInv, NEW pin, Door!Elevate(pin) PROVE DoorInv'
<1>1. AccountsOK'
  BY OwnerPinKeeps, SameAccountsOK DEF Door!Elevate, DoorInv
<1>2. approval \in Permissions /\ time + ElevationTime \in Nat
  BY DEF Door!Elevate, DoorInv, Door!TypeOK, Door!AccessAssumption
<1>3. SessionOK'
  <2>1. CASE Door!OwnerPin(pin)
    <3>1. /\ elevation' = [permission |-> approval, expiresAt |-> time + ElevationTime]
          /\ [permission |-> approval, until |-> time + ElevationTime] \in permits'
      BY <2>1 DEF Door!Elevate
    <3>2. elevation' \in Elevations /\ Permitted'
      BY <3>1, <1>2 DEF Elevations, Permitted
    <3> QED
      BY <3>2, DoorParts DEF Door!Elevate, SessionOK
  <2>2. CASE ~Door!OwnerPin(pin)
    BY <2>2, DoorParts DEF Door!Elevate, SessionOK, Permitted
  <2> QED
    BY <2>1, <2>2
<1>4. ScreenOK'
  BY DoorParts DEF Door!Elevate, ScreenOK
<1> QED
  BY <1>1, <1>3, <1>4, StillOK, Together DEF Door!Elevate

LEMMA CancelKeeps ==
    ASSUME DoorInv, Door!CancelApproval PROVE DoorInv'
<1>1. SessionOK'
  BY DoorParts DEF Door!CancelApproval, SessionOK, Permitted, Door!sessionVars,
     Door!historyVars
<1>2. ScreenOK'
  BY DoorParts DEF Door!CancelApproval, ScreenOK
<1>3. UNCHANGED <<lastActivity, time>>
  BY DEF Door!CancelApproval, Door!sessionVars
<1> QED
  BY <1>1, <1>2, <1>3, StillOK, Together DEF Door!CancelApproval

(* ------------------------------ The session ------------------------------ *)

LEMMA SignedInOK ==
    ASSUME NEW s \in Staff, NEW row \in Door!Accounts
    PROVE  Door!SignedIn(s, row) \in Sessions
  BY DEF Door!SignedIn, Sessions, Door!Accounts

LEMMA SignInKeeps ==
    ASSUME Door!AccessAssumption, DoorInv, NEW s, NEW pin, Door!SignIn(s, pin)
    PROVE  DoorInv'
<1>1. s \in DOMAIN staff /\ s \in Staff /\ staff[s] \in Door!Accounts
  BY DEF Door!SignIn, Door!LockScreen, DoorInv, Door!TypeOK
<1>2. AccountsOK'
  BY <1>1, StaffPinKeeps, SameAccountsOK DEF Door!SignIn, DoorInv
<1>3. SessionOK'
  <2>1. CASE Door!PinIsRight(s, pin)
    BY <1>1, <2>1, SignedInOK, DoorParts DEF Door!SignIn, Door!DropElevation,
       SessionOK, Permitted
  <2>2. CASE ~Door!PinIsRight(s, pin)
    BY <2>2, DoorParts DEF Door!SignIn, SessionOK, Permitted
  <2> QED
    BY <2>1, <2>2
<1> QED
  BY <1>2, <1>3, StillOK, Together DEF Door!SignIn

LEMMA EndKeeps ==
    ASSUME DoorInv, Door!SignOut \/ Door!CheckIdle PROVE DoorInv'
  BY EndSessionOK, StillOK, Together DEF Door!SignOut, Door!CheckIdle

LEMMA TickKeeps ==
    ASSUME DoorInv, Door!Tick PROVE DoorInv'
<1>1. SessionOK' /\ ClockOK'
  BY DoorParts DEF Door!Tick, SessionOK, ClockOK, Permitted, Door!sessionVars,
     Door!historyVars
<1> QED
  BY <1>1, StillOK, Together DEF Door!Tick

(* ------------------------------ The accounts ----------------------------- *)

LEMMA NewAccount ==
    ASSUME Door!AccessAssumption, NEW role \in Door!Roles,
           NEW permissions \in SUBSET Permissions
    PROVE  Door!Account(role, permissions) \in Door!Accounts
  BY DEF Door!Account, Door!Accounts

LEMMA FirstOwnerKeeps ==
    ASSUME Door!AccessAssumption, DoorInv, NEW s \in Staff, Door!CreateFirstOwner(s)
    PROVE  DoorInv'
<1>1. Door!Account("owner", {}) \in Door!Accounts
  BY NewAccount DEF Door!Roles
<1>2. DOMAIN staff' = {s} /\ staff'[s] = Door!Account("owner", {})
  BY DEF Door!CreateFirstOwner
<1>3. s \in Door!Owners'
  BY <1>2 DEF Door!Owners, Door!Account
<1>4. AccountsOK'
  BY <1>1, <1>2, <1>3 DEF AccountsOK, Door!CreateFirstOwner
<1>5. SessionOK'
  BY <1>1, <1>2, SignedInOK, DoorParts
     DEF Door!CreateFirstOwner, Door!DropElevation, SessionOK, Permitted
<1> QED
  BY <1>4, <1>5, StillOK, Together DEF Door!CreateFirstOwner

LEMMA RefreshKeeps ==
    ASSUME DoorInv, Door!Refresh PROVE DoorInv'
<1>1. ScreenOK'
  BY DoorParts DEF Door!Refresh, ScreenOK, AccountsOK
<1> QED
  BY <1>1, AdmitOK, StillOK, Together DEF Door!Refresh

LEMMA CreateStaffKeeps ==
    ASSUME Door!AccessAssumption, DoorInv, NEW s \in Staff, NEW role \in Door!Roles,
           NEW permissions \in SUBSET Permissions, Door!CreateStaff(s, role, permissions)
    PROVE  DoorInv'
<1>1. Door!Account(role, permissions) \in Door!Accounts
  BY NewAccount
<1>2. /\ DOMAIN staff' = DOMAIN staff \cup {s}
      /\ staff'[s] = Door!Account(role, permissions)
      /\ \A t \in DOMAIN staff : staff'[t] = staff[t]
  BY DEF Door!CreateStaff
<1>3. Door!Owners \subseteq Door!Owners'
  BY <1>2 DEF Door!Owners
<1>4. AccountsOK'
  BY <1>1, <1>2, <1>3, DoorParts DEF AccountsOK, Door!CreateStaff
<1>5. ScreenOK'
  BY <1>4, DoorParts DEF Door!CreateStaff, ScreenOK, AccountsOK
<1> QED
  BY <1>4, <1>5, AdmitOK, Together DEF Door!CreateStaff

(* The last owner is not deactivated: one of several is left.              *)
LEMMA AnotherOwner ==
    ASSUME Door!AccessAssumption, DoorInv, NEW s \in Door!Owners, Door!Dispensable(s)
    PROVE  \E t \in Door!Owners : t # s
<1>1. IsFiniteSet(Door!Owners)
  BY FS_Subset, DoorCounts DEF Door!AccessAssumption, DoorInv, Door!TypeOK, Door!Owners
<1>2. Cardinality(Door!Owners) # 1
  BY FS_CardinalityType, <1>1, DoorCounts DEF Door!Dispensable
<1> QED
  BY <1>2, FS_Singleton

LEMMA UpdateStaffKeeps ==
    ASSUME Door!AccessAssumption, DoorInv, NEW s, NEW change \in Door!Accounts,
           Door!UpdateStaff(s, change)
    PROVE  DoorInv'
<1>1. s \in DOMAIN staff /\ staff[s] \in Door!Accounts
  BY DEF Door!UpdateStaff, DoorInv, Door!TypeOK
<1>2. /\ DOMAIN staff' = DOMAIN staff
      /\ staff'[s] \in Door!Accounts /\ staff'[s].role = staff[s].role
      /\ staff'[s].active = change.active
      /\ \A t \in DOMAIN staff \ {s} : staff'[t] = staff[t]
  BY <1>1 DEF Door!UpdateStaff, Door!Accounts
<1>3. \A t \in Door!Owners \ {s} : t \in Door!Owners'
  BY <1>2 DEF Door!Owners
<1>4. ASSUME staffMode PROVE Door!Owners' # {}
  <2>1. PICK t \in Door!Owners : TRUE
    BY <1>4 DEF DoorInv, Door!OwnersDecide
  <2>2. CASE s \notin Door!Owners
    BY <2>1, <2>2, <1>3
  <2>3. CASE s \in Door!Owners /\ change.active
    BY <2>3, <1>2 DEF Door!Owners
  <2>4. CASE s \in Door!Owners /\ ~change.active
    BY <2>4, <1>3, AnotherOwner DEF Door!UpdateStaff
  <2> QED
    BY <2>2, <2>3, <2>4
<1>5. AccountsOK'
  BY <1>2, <1>4, DoorParts DEF AccountsOK, Door!UpdateStaff
<1> QED
  BY <1>5, AdmitOK, StillOK, Together DEF Door!UpdateStaff

LEMMA ToggleKeeps ==
    ASSUME Door!AccessAssumption, DoorInv, NEW s,
           Door!ToggleActive(s) \/ \E p \in Permissions : Door!TogglePermission(s, p)
    PROVE  DoorInv'
<1>1. s \in DOMAIN shown /\ shown[s] \in Door!Accounts
  BY DoorParts DEF Door!ToggleActive, Door!TogglePermission, Door!Listed, ScreenOK
<1>2. [shown[s] EXCEPT !.active = ~shown[s].active] \in Door!Accounts
  BY <1>1 DEF Door!Accounts
<1>3. \A p \in Permissions :
        [shown[s] EXCEPT !.permissions =
           IF p \in shown[s].permissions THEN shown[s].permissions \ {p}
           ELSE shown[s].permissions \cup {p}] \in Door!Accounts
  BY <1>1 DEF Door!Accounts
<1> QED
  BY <1>2, <1>3, UpdateStaffKeeps DEF Door!ToggleActive, Door!TogglePermission

LEMMA SetPinKeeps ==
    ASSUME Door!AccessAssumption, DoorInv, NEW s, Door!SetStaffPin(s) PROVE DoorInv'
<1>1. SameAccounts
  BY PinRows DEF Door!SetStaffPin, DoorInv, Door!TypeOK, SameAccounts
<1> QED
  BY <1>1, SameAccountsOK, AdmitOK, StillOK, Together DEF Door!SetStaffPin

LEMMA ReplaceKeeps ==
    ASSUME DoorInv, Door!ReplaceDatabase PROVE DoorInv'
<1>1. AccountsOK' /\ ScreenOK'
  BY DEF Door!ReplaceDatabase, Door!NoAccounts, AccountsOK, ScreenOK
<1> QED
  BY <1>1, EndSessionOK, StillOK, Together DEF Door!ReplaceDatabase

LEMMA DoorInitially == Door!Init => DoorInv
<1> SUFFICES ASSUME Door!Init PROVE DoorInv
  OBVIOUS
<1>1. DOMAIN staff = {} /\ DOMAIN shown = {}
  BY DEF Door!Init, Door!NoAccounts
<1>2. Door!TypeOK
  <2>1. staffMode \in BOOLEAN /\ overdrawn \in BOOLEAN
    BY DEF Door!Init
  <2>2. time \in Nat /\ lastActivity \in 0..time
    BY DEF Door!Init
  <2> QED
    BY <1>1, <2>1, <2>2, Zenon DEF Door!Init, Door!TypeOK
<1> QED
  BY <1>2 DEF Door!Init, DoorInv, Door!OwnersDecide, Permitted

(* Every step keeps the invariant.                                         *)
LEMMA DoorKept == Door!AccessAssumption /\ DoorInv /\ [Door!Next]_(Door!vars) => DoorInv'
<1> SUFFICES ASSUME Door!AccessAssumption, DoorInv, [Door!Next]_(Door!vars) PROVE DoorInv'
  OBVIOUS
<1>1. CASE \E request \in Door!Requirements : Door!Call(request) \/ Door!Deny(request)
  BY <1>1, CallKeeps, DenyKeeps
<1>2. CASE \E pin \in Staff \cup {None} : Door!Elevate(pin)
  BY <1>2, ElevateKeeps
<1>3. CASE Door!CancelApproval
  BY <1>3, CancelKeeps
<1>4. CASE \E s \in Staff, pin \in Staff \cup {None} : Door!SignIn(s, pin)
  BY <1>4, SignInKeeps
<1>5. CASE Door!SignOut \/ Door!CheckIdle
  BY <1>5, EndKeeps
<1>6. CASE Door!Tick
  BY <1>6, TickKeeps
<1>7. CASE Door!Refresh
  BY <1>7, RefreshKeeps
<1>8. CASE Door!ReplaceDatabase
  BY <1>8, ReplaceKeeps
<1>9. CASE \E s \in Staff : Door!CreateFirstOwner(s)
  BY <1>9, FirstOwnerKeeps
<1>10. CASE \E s \in Staff, role \in Door!Roles, permissions \in SUBSET Permissions :
              Door!CreateStaff(s, role, permissions)
  BY <1>10, CreateStaffKeeps
<1>11. CASE \E s \in Staff :
              Door!ToggleActive(s) \/ \E p \in Permissions : Door!TogglePermission(s, p)
  BY <1>11, ToggleKeeps
<1>12. CASE \E s \in Staff : Door!SetStaffPin(s)
  BY <1>12, SetPinKeeps
<1>13. CASE UNCHANGED Door!vars
  BY <1>13 DEF DoorInv, Door!TypeOK, Door!OwnersDecide, Door!Owners, Permitted,
     Door!vars, Door!accountVars,
               Door!sessionVars, Door!screenVars, Door!historyVars
<1> QED
  BY <1>1, <1>2, <1>3, <1>4, <1>5, <1>6, <1>7, <1>8, <1>9, <1>10, <1>11, <1>12, <1>13
     DEF Door!Next

-----------------------------------------------------------------------------
(* Accounts, session, settings screen and clock keep their types, with     *)
(* whatever stale row the screen sends (staff_accounts, ManagerSession).   *)
THEOREM DoorTypes == Door!AccessAssumption => (Door!Spec => []Door!TypeOK)
<1>1. Door!AccessAssumption /\ DoorInv /\ [Door!Next]_(Door!vars) => DoorInv'
  BY DoorKept
<1>2. DoorInv => Door!TypeOK
  BY DEF DoorInv
<1> SUFFICES ASSUME Door!AccessAssumption PROVE Door!Spec => []Door!TypeOK
  OBVIOUS
<1> QED
  BY DoorInitially, <1>1, <1>2, PTL DEF Door!Spec

(* Staff mode never runs out of active owners, and no request of a cashier *)
(* goes through on an approval that was used, is too old, was for another  *)
(* permission or for somebody who signed in before (authorize, elevate,    *)
(* updateStaff).                                                           *)
THEOREM DoorOwners == Door!AccessAssumption => (Door!Spec => []Door!OwnersDecide)
<1>1. Door!AccessAssumption /\ DoorInv /\ [Door!Next]_(Door!vars) => DoorInv'
  BY DoorKept
<1>2. DoorInv => Door!OwnersDecide
  BY DEF DoorInv
<1> SUFFICES ASSUME Door!AccessAssumption PROVE Door!Spec => []Door!OwnersDecide
  OBVIOUS
<1> QED
  BY DoorInitially, <1>1, <1>2, PTL DEF Door!Spec
-----------------------------------------------------------------------------
(* The managers of a cloud account *)

Row(d, prefix) == [device |-> d, prefix |-> prefix]

(* A device has one row in a store, and a prefix belongs to one device.    *)
Unique ==
    \A s \in Managers!Stores : \A r, q \in prefixes[s] :
        r.device = q.device \/ r.prefix = q.prefix => r = q

(* What was acknowledged is in the store the manager is in.                *)
OneStore ==
    \A d \in Devices : \A i \in DOMAIN ownSales[d] :
        ownSales[d][i].pushed \in {None, settings[d].store}

(* A prefix a manager believes to be confirmed is registered to it, and so *)
(* is the prefix of every sale it numbered then.                           *)
Confirmed ==
    \A d \in Devices : ~astray[d] =>
        /\ settings[d].claimed =>
             /\ settings[d].store # None
             /\ Row(d, settings[d].prefix) \in prefixes[settings[d].store]
        /\ confirmedBy[d] # None => confirmedBy[d] = settings[d].store /\ settings[d].claimed
        /\ \A i \in DOMAIN ownSales[d] : ownSales[d][i].under # None =>
             Row(d, ownSales[d][i].no[1]) \in prefixes[ownSales[d][i].under]

FinitelyMany ==
    /\ \A d \in Devices : IsFiniteSet(pulledSales[d])
    /\ \A s \in Managers!Stores : IsFiniteSet(events[s]) /\ IsFiniteSet(prefixes[s])

ManagersGood == Unique /\ OneStore /\ Confirmed /\ FinitelyMany
ManagersInv == Managers!TypeOK /\ ManagersGood

LEMMA NoneIsNoStore == Managers!AccountAssumption => None \notin Managers!Stores
  BY DEF Managers!AccountAssumption, Managers!Stores

(* -------------------------------- Numbers -------------------------------- *)

LEMMA FiniteImage ==
    ASSUME NEW S, IsFiniteSet(S), NEW f, DOMAIN f = S
    PROVE  IsFiniteSet({f[x] : x \in S})
<1> DEFINE T == {f[x] : x \in S}
           g == [x \in S |-> f[x]]
<1>1. g \in Surjection(S, T)
  BY DEF Surjection
<1> QED
  BY <1>1, FS_Surjection

(* A finite set of numbers that is not empty has a maximum.                *)
LEMMA MaxOfFinite ==
    ASSUME NEW S \in SUBSET Nat, IsFiniteSet(S), S # {}
    PROVE  Managers!Max(S) \in S
<1> DEFINE Above(x) == {y \in S : y >= x}
           T == {Above(x) : x \in S}
<1>1. T \subseteq FiniteSubsetsOf(S)
  <2>1. \A x \in S : IsFiniteSet(Above(x))
    BY FS_Subset
  <2> QED
    BY <2>1 DEF FiniteSubsetsOf
<1>2. PICK U \in T : \A V \in T : ~(<<V, U>> \in StrictSubsetOrdering(S))
  <2>1. IsWellFoundedOn(StrictSubsetOrdering(S), FiniteSubsetsOf(S))
    BY FS_StrictSubsetOrderingWellFounded
  <2> HIDE DEF T
  <2>2. T # {}
    BY DEF T
  <2> QED
    BY <1>1, <2>1, <2>2, WFMin
<1>3. PICK x \in S : U = Above(x)
  OBVIOUS
<1>4. ASSUME NEW y \in S, y > x PROVE FALSE
  <2>1. Above(y) \subseteq Above(x) /\ x \in Above(x) /\ x \notin Above(y)
    <3>1. x \in Nat /\ y \in Nat /\ \A z \in S : z \in Nat
      OBVIOUS
    <3>2. x >= x /\ ~(x >= y) /\ \A z \in S : z >= y => z >= x
      BY <1>4, <3>1
    <3> QED
      BY <3>2
  <2>2. <<Above(y), Above(x)>> \in StrictSubsetOrdering(S)
    BY <2>1 DEF StrictSubsetOrdering
  <2> QED
    BY <1>2, <1>3, <2>2
<1>5. \A y \in S : x >= y
  BY <1>4
<1> QED
  BY <1>5 DEF Managers!Max

LEMMA NextNumber ==
    ASSUME Managers!TypeOK, FinitelyMany, NEW d \in Devices
    PROVE  /\ Managers!NextReceiptNumber(d) \in Managers!Numbering
           /\ Managers!NextReceiptNumber(d)[1] = settings[d].prefix
<1> DEFINE own == [i \in 1..Len(ownSales[d]) |-> ownSales[d][i].no]
           theirs == [e \in pulledSales[d] |-> e.no]
           mine == {m \in Managers!Numbers(d) : m[1] = settings[d].prefix}
           last == [n \in mine |-> n[2]]
           used == {n[2] : n \in mine}
<1>1. ownSales[d] \in Seq(Managers!Sales) /\ Len(ownSales[d]) \in Nat
      /\ DOMAIN ownSales[d] = 1..Len(ownSales[d])
  BY LenProperties DEF Managers!TypeOK
<1>2. IsFiniteSet(Managers!OwnNumbers(d)) /\ Managers!OwnNumbers(d) \subseteq Managers!Numbering
  <2>1. IsFiniteSet({own[i] : i \in 1..Len(ownSales[d])})
    <3>1. IsFiniteSet(1..Len(ownSales[d]))
      BY <1>1, FS_Interval
    <3>2. DOMAIN own = 1..Len(ownSales[d])
      OBVIOUS
    <3> HIDE DEF own
    <3> QED
      BY <3>1, <3>2, FiniteImage
  <2>2. Managers!OwnNumbers(d) = {own[i] : i \in 1..Len(ownSales[d])}
    BY <1>1 DEF Managers!OwnNumbers
  <2>3. \A i \in DOMAIN ownSales[d] : ownSales[d][i] \in Managers!Sales
    BY <1>1, ElementOfSeq
  <2> QED
    BY <2>1, <2>2, <2>3 DEF Managers!OwnNumbers, Managers!Sales
<1>3. IsFiniteSet({e.no : e \in pulledSales[d]}) /\ {e.no : e \in pulledSales[d]} \subseteq Managers!Numbering
  <2>1. IsFiniteSet({theirs[e] : e \in pulledSales[d]})
    BY FiniteImage DEF FinitelyMany
  <2>2. {e.no : e \in pulledSales[d]} = {theirs[e] : e \in pulledSales[d]}
    OBVIOUS
  <2>3. pulledSales[d] \subseteq Managers!Events
    BY DEF Managers!TypeOK
  <2> QED
    BY <2>1, <2>2, <2>3 DEF Managers!Events
<1>4. IsFiniteSet(Managers!Numbers(d)) /\ Managers!Numbers(d) \subseteq Managers!Numbering
  BY <1>2, <1>3, FS_Union DEF Managers!Numbers
<1>5. IsFiniteSet(mine) /\ mine \subseteq Managers!Numbering
  BY <1>4, FS_Subset
<1>6. IsFiniteSet(used) /\ used \subseteq Nat
  <2> HIDE DEF mine
  <2>1. IsFiniteSet({last[n] : n \in mine})
    BY <1>5, FiniteImage
  <2>2. used = {last[n] : n \in mine}
    OBVIOUS
  <2> QED
    BY <2>1, <2>2, <1>5 DEF Managers!Numbering
<1>7. Managers!Max(used \cup {0}) \in Nat
  <2> HIDE DEF used
  <2>1. used \cup {0} \subseteq Nat /\ used \cup {0} # {}
    BY <1>6
  <2>2. IsFiniteSet(used \cup {0})
    BY <1>6, FS_AddElement
  <2> QED
    BY <2>1, <2>2, MaxOfFinite
<1>8. Managers!NextReceiptNumber(d) = <<settings[d].prefix, 1 + Managers!Max(used \cup {0})>>
  BY DEF Managers!NextReceiptNumber
<1>9. settings[d].prefix \in Nat
  BY DEF Managers!TypeOK, Managers!Settings
<1> HIDE DEF used
<1> QED
  BY <1>7, <1>8, <1>9 DEF Managers!Numbering

(* The prefix that joining asks for.                                       *)
LEMMA NextPrefix ==
    ASSUME Managers!TypeOK, FinitelyMany, NEW d \in Devices,
           settings[d].store \in Managers!Stores
    PROVE  1 + Managers!Max({row.prefix : row \in Managers!RowsOf(d)} \cup {0}) \in Nat \ {0}
<1> DEFINE f == [row \in Managers!RowsOf(d) |-> row.prefix]
           used == {row.prefix : row \in Managers!RowsOf(d)}
<1>1. IsFiniteSet(Managers!RowsOf(d)) /\ Managers!RowsOf(d) \subseteq Managers!Rows
  BY DEF Managers!RowsOf, Managers!TypeOK, FinitelyMany
<1>2. IsFiniteSet({f[row] : row \in Managers!RowsOf(d)})
  BY <1>1, FiniteImage
<1>3. used = {f[row] : row \in Managers!RowsOf(d)} /\ used \subseteq Nat
  BY <1>1 DEF Managers!Rows
<1>4. IsFiniteSet(used \cup {0})
  BY <1>2, <1>3, FS_AddElement
<1>5. used \cup {0} \subseteq Nat /\ used \cup {0} # {}
  BY <1>3
<1> HIDE DEF used
<1>6. Managers!Max(used \cup {0}) \in Nat
  BY <1>4, <1>5, MaxOfFinite
<1> QED
  BY <1>6 DEF used

(* --------------------------------- Types --------------------------------- *)

LEMMA EditedSettings ==
    ASSUME NEW l \in Managers!Settings
    PROVE  /\ \A s \in Managers!Stores : [l EXCEPT !.store = s] \in Managers!Settings
           /\ \A prefix \in Nat \ {0} :
                [l EXCEPT !.prefix = prefix, !.claimed = TRUE] \in Managers!Settings
  BY DEF Managers!Settings

(* Fields of a manager's settings and sales.                               *)
LEMMA Fields ==
    ASSUME Managers!TypeOK, NEW d \in Devices
    PROVE  /\ settings[d] \in Managers!Settings
           /\ ownSales[d] \in Seq(Managers!Sales) /\ DOMAIN ownSales[d] = 1..Len(ownSales[d])
           /\ \A i \in DOMAIN ownSales[d] : ownSales[d][i] \in Managers!Sales
  BY LenProperties, ElementOfSeq DEF Managers!TypeOK

LEMMA SellTypes ==
    ASSUME Managers!TypeOK, FinitelyMany, NEW d \in Devices, Managers!Sell(d)
    PROVE  Managers!TypeOK'
<1> DEFINE s == [no |-> Managers!NextReceiptNumber(d), pushed |-> None, under |-> confirmedBy[d]]
<1>1. s \in Managers!Sales
  BY NextNumber DEF Managers!Sales, Managers!TypeOK
<1>2. Append(ownSales[d], s) \in Seq(Managers!Sales)
  BY <1>1, Fields, AppendProperties
<1> HIDE DEF s
<1>3. ownSales' = [ownSales EXCEPT ![d] = Append(ownSales[d], s)]
  BY DEF Managers!Sell, s
<1>4. ownSales' \in [Devices -> Seq(Managers!Sales)]
  BY <1>2, <1>3 DEF Managers!TypeOK
<1> QED
  BY <1>4
     DEF Managers!TypeOK, Managers!Sell, Managers!fileVars, Managers!joinVars,
         Managers!cloudVars, Managers!historyVars

LEMMA StoreForIsStore ==
    ASSUME Managers!TypeOK, NEW a \in CloudAccounts,
           NEW adopt \in Managers!Stores \cup {None}
    PROVE  Managers!StoreFor(a, adopt) \in Managers!Stores
  BY DEF Managers!StoreFor, Managers!Stores, Managers!TypeOK

LEMMA ConfigureTypes ==
    ASSUME Managers!TypeOK, NEW d \in Devices, NEW s \in Managers!Stores,
           Managers!Configure(d, s)
    PROVE  /\ settings' \in [Devices -> Managers!Settings]
           /\ joining' \in [Devices -> Managers!Stages]
           /\ joining'[d] \in {"restoring", "looking"}
           /\ \A e \in Devices \ {d} : joining'[e] = joining[e]
           /\ confirmedBy' \in [Devices -> Managers!Stores \cup {None}]
           /\ astray' \in [Devices -> BOOLEAN]
<1>1. [settings[d] EXCEPT !.store = s] \in Managers!Settings
  BY Fields, EditedSettings
<1>2. settings' \in [Devices -> Managers!Settings]
  BY <1>1 DEF Managers!TypeOK, Managers!Configure
<1>3. /\ joining' \in [Devices -> Managers!Stages]
      /\ joining'[d] \in {"restoring", "looking"}
      /\ \A e \in Devices \ {d} : joining'[e] = joining[e]
  BY DEF Managers!TypeOK, Managers!Configure, Managers!Stages
<1>4. confirmedBy' \in [Devices -> Managers!Stores \cup {None}]
  BY DEF Managers!TypeOK, Managers!Configure
<1>5. astray' \in [Devices -> BOOLEAN]
  BY Zenon DEF Managers!TypeOK, Managers!Configure
<1> QED
  BY <1>2, <1>3, <1>4, <1>5

LEMMA GrantedTypes ==
    ASSUME Managers!TypeOK, NEW d \in Devices, NEW prefix \in Nat \ {0},
           Managers!Granted(d, prefix)
    PROVE  /\ settings' \in [Devices -> Managers!Settings]
           /\ confirmedBy' \in [Devices -> Managers!Stores \cup {None}]
           /\ joining' \in [Devices -> Managers!Stages] /\ DOMAIN readBack' = Devices
           /\ joining'[d] = "restoring"
           /\ \A e \in Devices \ {d} : joining'[e] = joining[e] /\ readBack'[e] = readBack[e]
<1>1. /\ [settings[d] EXCEPT !.prefix = prefix, !.claimed = TRUE] \in Managers!Settings
      /\ settings[d].store \in Managers!Stores \cup {None}
  BY Fields, EditedSettings DEF Managers!Settings
<1>2. settings' \in [Devices -> Managers!Settings]
  BY <1>1 DEF Managers!TypeOK, Managers!Granted
<1>3. confirmedBy' \in [Devices -> Managers!Stores \cup {None}]
  BY <1>1 DEF Managers!TypeOK, Managers!Granted
<1>4. /\ joining' \in [Devices -> Managers!Stages] /\ DOMAIN readBack' = Devices
      /\ joining'[d] = "restoring"
      /\ \A e \in Devices \ {d} : joining'[e] = joining[e] /\ readBack'[e] = readBack[e]
  BY DEF Managers!TypeOK, Managers!Granted, Managers!Stages
<1> QED
  BY <1>2, <1>3, <1>4

LEMMA TrustedInStore ==
    ASSUME Managers!TypeOK, NEW d \in Devices, Managers!Trusted(d)
    PROVE  settings[d].store \in Managers!Stores /\ signedIn[d] \in CloudAccounts
  BY Fields DEF Managers!TypeOK, Managers!Trusted, Managers!Settings

(* Steps that leave the database and the cloud alone.                      *)
LEMMA FileTypes ==
    ASSUME Managers!TypeOK, NEW d \in Devices,
           \/ \E a \in CloudAccounts : Managers!SignIn(d, a)
           \/ Managers!SignOut(d) \/ Managers!ClaimMissing(d) \/ Managers!ClaimRaced(d) \/ Managers!JoinFails(d)
    PROVE  Managers!TypeOK'
<1> USE DEF Managers!fileVars, Managers!databaseVars, Managers!joinVars,
        Managers!cloudVars, Managers!historyVars
<1>1. CASE \E a \in CloudAccounts : Managers!SignIn(d, a)
  <2>1. [store |-> settings[d].store, pushed |-> Managers!HasPushedSyncEvents(d)] \in Managers!Identities
    <3>1. Managers!HasPushedSyncEvents(d) \in BOOLEAN
      BY Zenon DEF Managers!HasPushedSyncEvents, Managers!TypeOK
    <3> QED
      BY <3>1, Fields DEF Managers!Identities, Managers!Settings
  <2> QED
    BY <1>1, <2>1 DEF Managers!SignIn, Managers!TypeOK, Managers!Stages
<1>2. CASE Managers!SignOut(d)
  BY <1>2 DEF Managers!SignOut, Managers!TypeOK
<1>3. CASE Managers!ClaimMissing(d)
  BY <1>3 DEF Managers!ClaimMissing, Managers!TypeOK, Managers!Stages
<1>4. CASE Managers!ClaimRaced(d)
  BY <1>4 DEF Managers!ClaimRaced, Managers!TypeOK, Managers!Stages
<1>5. CASE Managers!JoinFails(d)
  BY <1>5 DEF Managers!JoinFails, Managers!TypeOK, Managers!Stages
<1> QED
  BY <1>1, <1>2, <1>3, <1>4, <1>5

LEMMA PrefixesReadTypes ==
    ASSUME Managers!TypeOK, FinitelyMany, NEW d \in Devices,
           Managers!PrefixesRead(d)
    PROVE  Managers!TypeOK'
<1> DEFINE prefix == 1 + Managers!Max({row.prefix : row \in Managers!RowsOf(d)} \cup {0})
<1>1. prefix \in Nat \ {0}
  BY TrustedInStore, NextPrefix DEF Managers!PrefixesRead
<1>2. readBack' = [readBack EXCEPT ![d] = prefix]
  BY DEF Managers!PrefixesRead
<1> HIDE DEF prefix
<1> QED
  BY <1>1, <1>2
     DEF Managers!PrefixesRead, Managers!TypeOK, Managers!Stages, Managers!fileVars,
         Managers!databaseVars, Managers!cloudVars, 
                    Managers!historyVars

LEMMA NewRow ==
    ASSUME Managers!TypeOK, NEW d \in Devices,
           settings[d].store \in Managers!Stores, 
           readBack[d] \in Nat \ {0}, Managers!Registered(d)
    PROVE  prefixes' \in [Managers!Stores -> SUBSET Managers!Rows]
<1>1. Row(d, readBack[d]) \in Managers!Rows
  BY DEF Row, Managers!Rows
<1> QED
  BY <1>1 DEF Managers!Registered, Managers!TypeOK, Row

LEMMA ClaimTypes ==
    ASSUME Managers!TypeOK, NEW d \in Devices,
           Managers!ClaimFound(d) \/ Managers!ClaimAccepted(d) \/ Managers!ClaimAnswerLost(d)
    PROVE  Managers!TypeOK'
<1> USE DEF Managers!fileVars, Managers!databaseVars, Managers!joinVars,
        Managers!cloudVars, Managers!historyVars
<1>1. CASE Managers!ClaimFound(d)
  <2>1. PICK row \in Managers!RowsOf(d) : Managers!Granted(d, row.prefix)
    BY <1>1 DEF Managers!ClaimFound
  <2>2. row \in Managers!Rows
    BY <1>1, TrustedInStore
       DEF Managers!ClaimFound, Managers!RowsOf, Managers!TypeOK
  <2>3. row.prefix \in Nat \ {0}
    BY <2>2 DEF Managers!Rows
  <2> QED
    BY <1>1, <2>1, <2>3, GrantedTypes DEF Managers!ClaimFound, Managers!TypeOK
<1>2. CASE Managers!ClaimAccepted(d)
  <2>1. readBack[d] \in Nat \ {0} /\ settings[d].store \in Managers!Stores
    BY <1>2, TrustedInStore DEF Managers!ClaimAccepted, Managers!TypeOK
  <2> QED
    BY <1>2, <2>1, NewRow, GrantedTypes DEF Managers!ClaimAccepted, Managers!TypeOK
<1>3. CASE Managers!ClaimAnswerLost(d)
  <2>1. readBack[d] \in Nat \ {0} /\ settings[d].store \in Managers!Stores
    BY <1>3, TrustedInStore DEF Managers!ClaimAnswerLost, Managers!TypeOK
  <2> QED
    BY <1>3, <2>1, NewRow
       DEF Managers!ClaimAnswerLost, Managers!TypeOK, Managers!Stages
<1> QED
  BY <1>1, <1>2, <1>3

LEMMA IdentityTypes ==
    ASSUME Managers!TypeOK, NEW d \in Devices, Managers!IdentityAnswered(d)
    PROVE  Managers!TypeOK'
<1> DEFINE adopt == IF readBack[d].pushed THEN readBack[d].store ELSE None
           s == Managers!StoreFor(signedIn[d], adopt)
<1>1. readBack[d] \in Managers!Identities /\ signedIn[d] \in CloudAccounts
  BY DEF Managers!IdentityAnswered, Managers!TypeOK
<1>2. s \in Managers!Stores
  BY <1>1, StoreForIsStore DEF Managers!Identities
<1>3. /\ storeOf' = [storeOf EXCEPT ![signedIn[d]] = s]
      /\ accountFile' = [accountFile EXCEPT ![d] = s]
      /\ \/ Managers!Configure(d, s)
         \/ joining' = [joining EXCEPT ![d] = "idle"] /\ UNCHANGED <<settings, confirmedBy, astray>>
  BY DEF Managers!IdentityAnswered
<1> HIDE DEF s
<1>4. /\ storeOf' \in [CloudAccounts -> Managers!Stores \cup {None}]
      /\ accountFile' \in [Devices -> Managers!Stores \cup {None}]
  BY <1>1, <1>2, <1>3 DEF Managers!TypeOK
<1>5. /\ settings' \in [Devices -> Managers!Settings] /\ joining' \in [Devices -> Managers!Stages]
      /\ joining'[d] \notin {"identity", "claiming"}
      /\ \A e \in Devices \ {d} : joining'[e] = joining[e]
      /\ confirmedBy' \in [Devices -> Managers!Stores \cup {None}]
      /\ astray' \in [Devices -> BOOLEAN]
  <2>1. CASE Managers!Configure(d, s)
    BY <1>2, <2>1, ConfigureTypes
  <2>2. CASE joining' = [joining EXCEPT ![d] = "idle"] /\ UNCHANGED <<settings, confirmedBy, astray>>
    BY <2>2 DEF Managers!TypeOK, Managers!Stages
  <2> QED
    BY <1>3, <2>1, <2>2
<1> QED
  BY <1>4, <1>5 DEF Managers!IdentityAnswered, Managers!TypeOK

LEMMA JoinedTypes ==
    ASSUME Managers!TypeOK, NEW d \in Devices, Managers!Joined(d)
    PROVE  Managers!TypeOK'
<1>1. pulledSales' \in [Devices -> SUBSET Managers!Events] /\ restored' \in [Devices -> BOOLEAN]
  <2>1. CASE UNCHANGED <<pulledSales, restored>>
    BY <2>1 DEF Managers!TypeOK
  <2>2. CASE ~ UNCHANGED <<pulledSales, restored>>
    BY <2>2, TrustedInStore DEF Managers!TypeOK, Managers!Joined
  <2> QED
    BY <2>1, <2>2
<1>2. engineRuns' \in [Devices -> BOOLEAN]
  BY Zenon DEF Managers!TypeOK, Managers!Joined, Managers!EngineOf
<1>3. joining' \in [Devices -> Managers!Stages] /\ joining'[d] = "idle"
      /\ \A e \in Devices \ {d} : joining'[e] = joining[e]
  BY DEF Managers!TypeOK, Managers!Joined, Managers!Stages
<1> QED
  BY <1>1, <1>2, <1>3
     DEF Managers!Joined, Managers!TypeOK, Managers!fileVars, Managers!cloudVars,
         Managers!historyVars

LEMMA BootTypes ==
    ASSUME Managers!TypeOK, NEW d \in Devices, Managers!Boot(d)
    PROVE  Managers!TypeOK'
<1>1. /\ settings' \in [Devices -> Managers!Settings] /\ joining' \in [Devices -> Managers!Stages]
      /\ joining'[d] \notin {"identity", "claiming"}
      /\ \A e \in Devices \ {d} : joining'[e] = joining[e]
      /\ confirmedBy' \in [Devices -> Managers!Stores \cup {None}]
      /\ astray' \in [Devices -> BOOLEAN]
  <2>1. CASE accountFile[d] # None /\ Managers!Configure(d, accountFile[d])
    <3>1. accountFile[d] \in Managers!Stores
      BY <2>1 DEF Managers!TypeOK
    <3> QED
      BY <2>1, <3>1, ConfigureTypes
  <2>2. CASE joining' = [joining EXCEPT ![d] = "idle"] /\ UNCHANGED <<settings, confirmedBy, astray>>
    BY <2>2 DEF Managers!TypeOK, Managers!Stages
  <2> QED
    BY <2>1, <2>2 DEF Managers!Boot
<1>2. engineRuns' \in [Devices -> BOOLEAN]
  BY Zenon DEF Managers!TypeOK, Managers!Boot, Managers!EngineOf
<1> QED
  BY <1>1, <1>2
     DEF Managers!Boot, Managers!TypeOK, Managers!fileVars, Managers!cloudVars

LEMMA Acknowledged ==
    ASSUME Managers!TypeOK, NEW d \in Devices, NEW i \in DOMAIN ownSales[d],
           NEW reply \in Managers!Stores \cup {None},
           ownSales' = [ownSales EXCEPT ![d][i].pushed = reply]
    PROVE  /\ ownSales' \in [Devices -> Seq(Managers!Sales)]
           /\ \A e \in Devices \ {d} : ownSales'[e] = ownSales[e]
           /\ DOMAIN ownSales'[d] = DOMAIN ownSales[d]
           /\ \A j \in DOMAIN ownSales[d] :
                /\ ownSales'[d][j].no = ownSales[d][j].no
                /\ ownSales'[d][j].under = ownSales[d][j].under
                /\ ownSales'[d][j].pushed \in {reply, ownSales[d][j].pushed}
<1> DEFINE confirmed == [ownSales[d][i] EXCEPT !.pushed = reply]
           list == [ownSales[d] EXCEPT ![i] = confirmed]
<1>1. ownSales[d][i] \in Managers!Sales /\ ownSales[d] \in Seq(Managers!Sales) /\ i \in 1..Len(ownSales[d])
  BY Fields
<1>2. confirmed \in Managers!Sales /\ confirmed.no = ownSales[d][i].no /\ confirmed.under = ownSales[d][i].under
      /\ confirmed.pushed = reply
  BY <1>1 DEF Managers!Sales
<1>3. list \in Seq(Managers!Sales)
  <2> HIDE DEF confirmed
  <2> QED
    BY <1>1, <1>2, ExceptSeq
<1>4. ownSales' = [ownSales EXCEPT ![d] = list]
  OBVIOUS
<1> HIDE DEF confirmed
<1>5. DOMAIN list = DOMAIN ownSales[d]
      /\ \A j \in DOMAIN ownSales[d] : list[j] = IF j = i THEN confirmed ELSE ownSales[d][j]
  OBVIOUS
<1> HIDE DEF list
<1>6. /\ ownSales'[d] = list /\ ownSales' \in [Devices -> Seq(Managers!Sales)]
      /\ \A e \in Devices \ {d} : ownSales'[e] = ownSales[e]
  <2>1. ownSales \in [Devices -> Seq(Managers!Sales)]
    BY DEF Managers!TypeOK
  <2> QED
    BY <1>3, <1>4, <2>1
<1> QED
  BY <1>2, <1>5, <1>6

LEMMA TakingTypes ==
    ASSUME Managers!TypeOK, FinitelyMany, NEW s \in Managers!Stores,
           NEW e \in Managers!Events
    PROVE  /\ Managers!Taking(s, e) \in [Managers!Stores -> SUBSET Managers!Events]
           /\ \A q \in Managers!Stores : IsFiniteSet(Managers!Taking(s, e)[q])
<1>1. IsFiniteSet(events[s] \cup {e})
  BY FS_AddElement DEF FinitelyMany
<1> QED
  BY <1>1 DEF Managers!Taking, Managers!TypeOK, FinitelyMany

LEMMA PushTypes ==
    ASSUME Managers!TypeOK, FinitelyMany, NEW d \in Devices, Managers!Push(d)
    PROVE  Managers!TypeOK' /\ \A s \in Managers!Stores : IsFiniteSet(events'[s])
<1>1. settings[d].store \in Managers!Stores
  BY TrustedInStore DEF Managers!Push
<1>2. PICK i \in DOMAIN ownSales[d] :
        /\ events' = Managers!Taking(settings[d].store, [device |-> d, no |-> ownSales[d][i].no])
        /\ \E reply \in {settings[d].store, None} :
             ownSales' = [ownSales EXCEPT ![d][i].pushed = reply]
  BY DEF Managers!Push
<1>3. [device |-> d, no |-> ownSales[d][i].no] \in Managers!Events
  BY Fields DEF Managers!Events, Managers!Sales
<1>4. /\ events' \in [Managers!Stores -> SUBSET Managers!Events]
      /\ \A s \in Managers!Stores : IsFiniteSet(events'[s])
  BY <1>1, <1>2, <1>3, TakingTypes
<1>5. ownSales' \in [Devices -> Seq(Managers!Sales)]
  BY <1>1, <1>2, Acknowledged
<1> QED
  BY <1>4, <1>5
     DEF Managers!Push, Managers!TypeOK, Managers!fileVars, Managers!joinVars,
         Managers!historyVars

LEMMA PullTypes ==
    ASSUME Managers!TypeOK, FinitelyMany, NEW d \in Devices, Managers!Pull(d)
    PROVE  Managers!TypeOK' /\ \A e \in Devices : IsFiniteSet(pulledSales'[e])
<1> DEFINE new == {e \in events[settings[d].store] \ pulledSales[d] : e.device # d}
<1>1. settings[d].store \in Managers!Stores
  BY TrustedInStore DEF Managers!Pull
<1>2. new \subseteq Managers!Events /\ new \in SUBSET events[settings[d].store]
  BY <1>1 DEF Managers!TypeOK
<1>3. IsFiniteSet(new)
  BY <1>1, <1>2, FS_Subset DEF FinitelyMany
<1>4. pulledSales' = [pulledSales EXCEPT ![d] = @ \cup new]
  BY DEF Managers!Pull
<1> HIDE DEF new
<1>5. IsFiniteSet(pulledSales[d] \cup new)
  BY <1>3, FS_Union DEF FinitelyMany
<1>6. pulledSales' \in [Devices -> SUBSET Managers!Events] /\ \A e \in Devices : IsFiniteSet(pulledSales'[e])
  BY <1>2, <1>4, <1>5 DEF Managers!TypeOK, FinitelyMany
<1> QED
  BY <1>6
     DEF Managers!Pull, Managers!TypeOK, Managers!fileVars, Managers!joinVars,
         Managers!cloudVars, Managers!historyVars

(* ------------------------- Who numbers, and where ------------------------ *)

LEMMA SameGood ==
    ASSUME ManagersGood,
           UNCHANGED <<settings, ownSales, pulledSales, prefixes, events, confirmedBy, astray>>
    PROVE  ManagersGood'
  BY DEF ManagersGood, Unique, OneStore, Confirmed, FinitelyMany

(* Nothing is known of sales that were not acknowledged and of prefixes    *)
(* that were not confirmed.                                                *)
LEMMA SellGood ==
    ASSUME ManagersInv, NEW d \in Devices, Managers!Sell(d) PROVE ManagersGood'
<1> DEFINE s == [no |-> Managers!NextReceiptNumber(d), pushed |-> None, under |-> confirmedBy[d]]
<1>1. s.no[1] = settings[d].prefix /\ s.pushed = None /\ s.under = confirmedBy[d]
  BY NextNumber DEF ManagersInv, ManagersGood
<1>2. /\ ownSales' = [ownSales EXCEPT ![d] = Append(ownSales[d], s)]
      /\ UNCHANGED <<settings, pulledSales, prefixes, events, confirmedBy, astray>>
  BY DEF Managers!Sell, Managers!cloudVars, Managers!historyVars
<1>3. ownSales[d] \in Seq(Managers!Sales) /\ ownSales \in [Devices -> Seq(Managers!Sales)]
  BY Fields DEF ManagersInv, Managers!TypeOK
<1> HIDE DEF s
<1>4. /\ ownSales'[d] = Append(ownSales[d], s)
      /\ \A e \in Devices \ {d} : ownSales'[e] = ownSales[e]
  BY <1>2, <1>3
<1>5. /\ DOMAIN ownSales'[d] = 1..(Len(ownSales[d]) + 1)
      /\ DOMAIN ownSales[d] = 1..Len(ownSales[d]) /\ Len(ownSales[d]) \in Nat
      /\ \A i \in 1..Len(ownSales[d]) : ownSales'[d][i] = ownSales[d][i]
      /\ ownSales'[d][Len(ownSales[d]) + 1] = s
  BY <1>3, <1>4, LenProperties
<1>6. \A i \in DOMAIN ownSales'[d] :
        \/ i \in DOMAIN ownSales[d] /\ ownSales'[d][i] = ownSales[d][i]
        \/ ownSales'[d][i] = s
  BY <1>5
<1>7. OneStore'
  BY <1>1, <1>2, <1>4, <1>6 DEF ManagersInv, ManagersGood, OneStore
<1>8. Confirmed'
  <2>1. SUFFICES ASSUME NEW e \in Devices, ~astray[e],
                        NEW i \in DOMAIN ownSales'[e], 
                        ownSales'[e][i].under # None
                 PROVE  Row(e, ownSales'[e][i].no[1]) \in prefixes[ownSales'[e][i].under]
    BY <1>2 DEF ManagersInv, ManagersGood, Confirmed
  <2>2. CASE ownSales'[e][i] = s /\ e = d
    <3>1. confirmedBy[d] = settings[d].store /\ settings[d].claimed
      BY <1>1, <2>1, <2>2 DEF ManagersInv, ManagersGood, Confirmed
    <3> QED
      BY <1>1, <2>1, <2>2, <3>1 DEF ManagersInv, ManagersGood, Confirmed
  <2>3. CASE i \in DOMAIN ownSales[e] /\ ownSales'[e][i] = ownSales[e][i]
    BY <2>1, <2>3 DEF ManagersInv, ManagersGood, Confirmed
  <2> QED
    BY <1>4, <1>6, <2>1, <2>2, <2>3
<1>9. Unique' /\ FinitelyMany'
  BY <1>2 DEF ManagersInv, ManagersGood, Unique, FinitelyMany
<1> QED
  BY <1>7, <1>8, <1>9 DEF ManagersGood

(* A manager changes its store only before anything was acknowledged.      *)
LEMMA ConfigureGood ==
    ASSUME ManagersInv, Managers!AccountAssumption, NEW d \in Devices,
           NEW s \in Managers!Stores, 
           Managers!MayConfigure(d, s), Managers!Configure(d, s),
           UNCHANGED <<ownSales, pulledSales, prefixes, events>>
    PROVE  ManagersGood'
<1>1. settings[d] \in Managers!Settings /\ s # None
  BY Fields, NoneIsNoStore DEF ManagersInv
<1>2. /\ settings'[d].store = s /\ settings'[d].prefix = settings[d].prefix
      /\ settings'[d].claimed = settings[d].claimed
      /\ \A e \in Devices \ {d} : settings'[e] = settings[e]
  BY <1>1 DEF Managers!Configure, ManagersInv, Managers!TypeOK, Managers!Settings
<1>3. /\ confirmedBy'[d] = IF settings[d].store = s /\ settings[d].claimed THEN s ELSE None
      /\ astray'[d] = (astray[d] \/ (settings[d].claimed /\ settings[d].store # s))
      /\ \A e \in Devices \ {d} : confirmedBy'[e] = confirmedBy[e] /\ astray'[e] = astray[e]
  BY DEF Managers!Configure, Managers!PrefixAssigned, ManagersInv, Managers!TypeOK
<1>4. OneStore'
  <2>1. \A i \in DOMAIN ownSales[d] : ownSales[d][i].pushed \in {None, s}
    <3>1. CASE settings[d].store = None \/ settings[d].store = s
      BY <3>1 DEF ManagersInv, ManagersGood, OneStore
    <3>2. CASE ~Managers!HasPushedSyncEvents(d)
      BY <3>2 DEF Managers!HasPushedSyncEvents
    <3> QED
      BY <3>1, <3>2 DEF Managers!MayConfigure
  <2> QED
    BY <1>2, <2>1 DEF ManagersInv, ManagersGood, OneStore
<1>5. Confirmed'
  <2>1. SUFFICES ASSUME NEW e \in Devices, ~astray'[e]
                 PROVE  /\ settings'[e].claimed =>
                             /\ settings'[e].store # None
                             /\ Row(e, settings'[e].prefix) \in prefixes[settings'[e].store]
                        /\ confirmedBy'[e] # None =>
                             confirmedBy'[e] = settings'[e].store /\ settings'[e].claimed
                        /\ \A i \in DOMAIN ownSales[e] : ownSales[e][i].under # None =>
                             Row(e, ownSales[e][i].no[1]) \in prefixes[ownSales[e][i].under]
    BY DEF Confirmed
  <2>2. CASE e = d
    BY <1>1, <1>2, <1>3, <2>1, <2>2 DEF ManagersInv, ManagersGood, Confirmed
  <2>3. CASE e # d
    BY <1>2, <1>3, <2>1, <2>3 DEF ManagersInv, ManagersGood, Confirmed
  <2> QED
    BY <2>2, <2>3
<1>6. Unique' /\ FinitelyMany'
  BY DEF ManagersInv, ManagersGood, Unique, FinitelyMany
<1> QED
  BY <1>4, <1>5, <1>6 DEF ManagersGood

LEMMA RegisteredGrows ==
    ASSUME ManagersInv, NEW d \in Devices, settings[d].store \in Managers!Stores,
           ~Managers!Taken(d), Managers!Registered(d)
    PROVE  /\ Unique' /\ \A s \in Managers!Stores : IsFiniteSet(prefixes'[s])
           /\ \A s \in Managers!Stores : prefixes[s] \subseteq prefixes'[s]
           /\ Row(d, readBack[d]) \in prefixes'[settings[d].store]
<1> DEFINE row == Row(d, readBack[d])
<1>1. /\ prefixes'[settings[d].store] = Managers!RowsOf(d) \cup {row}
      /\ \A s \in Managers!Stores \ {settings[d].store} : prefixes'[s] = prefixes[s]
  BY DEF Managers!Registered, ManagersInv, Managers!TypeOK, Managers!RowsOf, Row
<1>2. \A r \in Managers!RowsOf(d) : r.device # row.device /\ r.prefix # row.prefix
  BY DEF Managers!Taken, Row
<1>3. IsFiniteSet(Managers!RowsOf(d)) /\ IsFiniteSet(Managers!RowsOf(d) \cup {row})
  BY FS_AddElement DEF Managers!RowsOf, ManagersInv, ManagersGood, FinitelyMany
<1> HIDE DEF row
<1>4. Unique'
  BY <1>1, <1>2 DEF ManagersInv, ManagersGood, Unique, Managers!RowsOf
<1>5. \A s \in Managers!Stores : IsFiniteSet(prefixes'[s])
  BY <1>1, <1>3 DEF ManagersInv, ManagersGood, FinitelyMany
<1> QED
  BY <1>1, <1>4, <1>5 DEF Managers!RowsOf, row

(* More rows take nothing from what was confirmed.                         *)
LEMMA GrowingGood ==
    ASSUME ManagersInv, Managers!AccountAssumption, Unique',
           \A s \in Managers!Stores : IsFiniteSet(prefixes'[s]),
           \A s \in Managers!Stores : prefixes[s] \subseteq prefixes'[s],
           UNCHANGED <<settings, ownSales, pulledSales, events, confirmedBy, astray>>
    PROVE  ManagersGood'
<1>1. \A d \in Devices : /\ settings[d].store \in Managers!Stores \cup {None}
                        /\ \A i \in DOMAIN ownSales[d] :
                             ownSales[d][i].under \in Managers!Stores \cup {None}
  BY Fields DEF ManagersInv, Managers!Settings, Managers!Sales
<1>2. Confirmed'
  BY <1>1 DEF ManagersInv, ManagersGood, Confirmed
<1>3. OneStore' /\ FinitelyMany'
  BY DEF ManagersInv, ManagersGood, OneStore, FinitelyMany
<1> QED
  BY <1>2, <1>3 DEF ManagersGood

LEMMA GrantedGood ==
    ASSUME ManagersInv, Managers!AccountAssumption, NEW d \in Devices, NEW prefix,
           Managers!Granted(d, prefix), 
           settings[d].store \in Managers!Stores, Unique',
           \A s \in Managers!Stores : IsFiniteSet(prefixes'[s]),
           \A s \in Managers!Stores : prefixes[s] \subseteq prefixes'[s],
           Row(d, prefix) \in prefixes'[settings[d].store],
           UNCHANGED <<ownSales, pulledSales, events, astray>>
    PROVE  ManagersGood'
<1>1. settings[d] \in Managers!Settings /\ settings[d].store # None
  BY Fields, NoneIsNoStore DEF ManagersInv
<1>2. /\ settings'[d].store = settings[d].store /\ settings'[d].prefix = prefix
      /\ settings'[d].claimed = TRUE
      /\ \A e \in Devices \ {d} : settings'[e] = settings[e]
  BY <1>1 DEF Managers!Granted, ManagersInv, Managers!TypeOK, Managers!Settings
<1>3. /\ confirmedBy'[d] = settings[d].store
      /\ \A e \in Devices \ {d} : confirmedBy'[e] = confirmedBy[e]
  BY DEF Managers!Granted, ManagersInv, Managers!TypeOK
<1>4. OneStore'
  BY <1>2 DEF ManagersInv, ManagersGood, OneStore
<1>5. \A e \in Devices : /\ settings[e].store \in Managers!Stores \cup {None}
                        /\ \A i \in DOMAIN ownSales[e] :
                             ownSales[e][i].under \in Managers!Stores \cup {None}
  BY Fields DEF ManagersInv, Managers!Settings, Managers!Sales
<1>6. Confirmed'
  <2>1. SUFFICES ASSUME NEW e \in Devices, ~astray[e]
                 PROVE  /\ settings'[e].claimed =>
                             /\ settings'[e].store # None
                             /\ Row(e, settings'[e].prefix) \in prefixes'[settings'[e].store]
                        /\ confirmedBy'[e] # None =>
                             confirmedBy'[e] = settings'[e].store /\ settings'[e].claimed
                        /\ \A i \in DOMAIN ownSales[e] : ownSales[e][i].under # None =>
                             Row(e, ownSales[e][i].no[1]) \in prefixes'[ownSales[e][i].under]
    BY DEF Confirmed
  <2>2. \A i \in DOMAIN ownSales[e] : ownSales[e][i].under # None =>
          Row(e, ownSales[e][i].no[1]) \in prefixes'[ownSales[e][i].under]
    BY <1>5, <2>1 DEF ManagersInv, ManagersGood, Confirmed
  <2>3. CASE e = d
    BY <1>1, <1>2, <1>3, <2>2, <2>3
  <2>4. CASE e # d
    BY <1>2, <1>3, <1>5, <2>1, <2>2, <2>4 DEF ManagersInv, ManagersGood, Confirmed
  <2> QED
    BY <2>3, <2>4
<1>7. FinitelyMany'
  BY DEF ManagersInv, ManagersGood, FinitelyMany
<1> QED
  BY <1>4, <1>6, <1>7 DEF ManagersGood

LEMMA ClaimGood ==
    ASSUME ManagersInv, Managers!AccountAssumption, NEW d \in Devices,
           Managers!ClaimFound(d) \/ Managers!ClaimAccepted(d) \/ Managers!ClaimAnswerLost(d)
    PROVE  ManagersGood'
<1> USE DEF Managers!fileVars, Managers!databaseVars, Managers!joinVars,
        Managers!cloudVars, Managers!historyVars
<1>1. settings[d].store \in Managers!Stores
  BY TrustedInStore
     DEF Managers!ClaimFound, Managers!ClaimAccepted, Managers!ClaimAnswerLost,
         ManagersInv
<1>2. CASE Managers!ClaimFound(d)
  <2>1. PICK row \in Managers!RowsOf(d) : row.device = d /\ Managers!Granted(d, row.prefix)
    BY <1>2 DEF Managers!ClaimFound
  <2>2. row \in Managers!Rows
    BY <1>1 DEF Managers!RowsOf, ManagersInv, Managers!TypeOK
  <2>3. row = Row(d, row.prefix)
    BY <2>1, <2>2 DEF Managers!Rows, Row
  <2>4. Row(d, row.prefix) \in prefixes[settings[d].store]
    BY <2>3 DEF Managers!RowsOf
  <2>5. Unique' /\ \A s \in Managers!Stores : IsFiniteSet(prefixes'[s])
    BY <1>2 DEF Managers!ClaimFound, ManagersInv, ManagersGood, Unique, FinitelyMany
  <2>6. UNCHANGED <<ownSales, pulledSales, prefixes, events, astray>>
    BY <1>2 DEF Managers!ClaimFound
  <2> QED
    BY <1>1, <2>1, <2>4, <2>5, <2>6, GrantedGood
<1>3. CASE Managers!ClaimAccepted(d)
  <2>1. /\ Managers!Registered(d) /\ Managers!Granted(d, readBack[d]) /\ ~Managers!Taken(d)
        /\ UNCHANGED <<ownSales, pulledSales, events, astray>>
    BY <1>3 DEF Managers!ClaimAccepted
  <2> QED
    BY <1>1, <2>1, RegisteredGrows, GrantedGood
<1>4. CASE Managers!ClaimAnswerLost(d)
  <2>1. /\ Managers!Registered(d) /\ ~Managers!Taken(d)
        /\ UNCHANGED <<settings, ownSales, pulledSales, events, confirmedBy, astray>>
    BY <1>4 DEF Managers!ClaimAnswerLost
  <2> QED
    BY <1>1, <2>1, RegisteredGrows, GrowingGood
<1> QED
  BY <1>2, <1>3, <1>4

LEMMA IdentityGood ==
    ASSUME ManagersInv, Managers!AccountAssumption, NEW d \in Devices,
           Managers!IdentityAnswered(d)
    PROVE  ManagersGood'
<1> DEFINE adopt == IF readBack[d].pushed THEN readBack[d].store ELSE None
           s == Managers!StoreFor(signedIn[d], adopt)
<1>1. readBack[d] \in Managers!Identities /\ signedIn[d] \in CloudAccounts
  BY DEF Managers!IdentityAnswered, ManagersInv, Managers!TypeOK
<1>2. s \in Managers!Stores
  BY <1>1, StoreForIsStore DEF Managers!Identities, ManagersInv
<1>3. /\ UNCHANGED <<ownSales, pulledSales, prefixes, events>>
      /\ \/ Managers!MayConfigure(d, s) /\ Managers!Configure(d, s)
         \/ UNCHANGED <<settings, confirmedBy, astray>>
  BY DEF Managers!IdentityAnswered
<1> HIDE DEF s
<1> QED
  BY <1>2, <1>3, ConfigureGood, SameGood DEF ManagersInv

LEMMA BootGood ==
    ASSUME ManagersInv, Managers!AccountAssumption, NEW d \in Devices,
           Managers!Boot(d)
    PROVE  ManagersGood'
<1>1. UNCHANGED <<ownSales, pulledSales, prefixes, events>>
  BY DEF Managers!Boot, Managers!cloudVars
<1>2. CASE accountFile[d] # None /\ Managers!MayConfigure(d, accountFile[d]) /\ Managers!Configure(d, accountFile[d])
  <2>1. accountFile[d] \in Managers!Stores
    BY <1>2 DEF ManagersInv, Managers!TypeOK
  <2> QED
    BY <1>1, <1>2, <2>1, ConfigureGood
<1>3. CASE UNCHANGED <<settings, confirmedBy, astray>>
  BY <1>1, <1>3, SameGood DEF ManagersInv
<1> QED
  BY <1>2, <1>3 DEF Managers!Boot

(* What is pulled or restored numbers nothing under this manager's name.   *)
LEMMA PulledGood ==
    ASSUME ManagersInv, \A d \in Devices : IsFiniteSet(pulledSales'[d]),
           UNCHANGED <<settings, ownSales, prefixes, events, confirmedBy, astray>>
    PROVE  ManagersGood'
  BY DEF ManagersInv, ManagersGood, Unique, OneStore, Confirmed, FinitelyMany

LEMMA JoinedGood ==
    ASSUME ManagersInv, NEW d \in Devices, Managers!Joined(d) PROVE ManagersGood'
<1>1. UNCHANGED <<settings, ownSales, prefixes, events, confirmedBy, astray>>
  BY DEF Managers!Joined, Managers!cloudVars, Managers!historyVars
<1>2. \A e \in Devices : IsFiniteSet(pulledSales'[e])
  <2>1. CASE UNCHANGED pulledSales
    BY <2>1 DEF ManagersInv, ManagersGood, FinitelyMany
  <2>2. CASE Managers!Trusted(d) /\ pulledSales' = [pulledSales EXCEPT ![d] = events[settings[d].store]]
    <3>1. settings[d].store \in Managers!Stores
      BY <2>2, TrustedInStore DEF ManagersInv
    <3> QED
      BY <2>2, <3>1 DEF ManagersInv, Managers!TypeOK, ManagersGood, FinitelyMany
  <2> QED
    BY <2>1, <2>2 DEF Managers!Joined
<1> QED
  BY <1>1, <1>2, PulledGood

(* An acknowledgement is of the store the manager is in.                   *)
LEMMA PushGood ==
    ASSUME ManagersInv, NEW d \in Devices, Managers!Push(d) PROVE ManagersGood'
<1>1. settings[d].store \in Managers!Stores /\ \A s \in Managers!Stores : IsFiniteSet(events'[s])
  BY TrustedInStore, PushTypes DEF Managers!Push, ManagersInv, ManagersGood
<1>2. UNCHANGED <<settings, pulledSales, prefixes, confirmedBy, astray>>
  BY DEF Managers!Push, Managers!historyVars
<1>3. PICK i \in DOMAIN ownSales[d], reply \in {settings[d].store, None} :
        ownSales' = [ownSales EXCEPT ![d][i].pushed = reply]
  BY DEF Managers!Push
<1>4. /\ \A e \in Devices \ {d} : ownSales'[e] = ownSales[e]
      /\ DOMAIN ownSales'[d] = DOMAIN ownSales[d]
      /\ \A j \in DOMAIN ownSales[d] :
           /\ ownSales'[d][j].no = ownSales[d][j].no
           /\ ownSales'[d][j].under = ownSales[d][j].under
           /\ ownSales'[d][j].pushed \in {reply, ownSales[d][j].pushed}
  BY <1>1, <1>3, Acknowledged DEF ManagersInv
<1>5. OneStore'
  BY <1>2, <1>4 DEF ManagersInv, ManagersGood, OneStore
<1>6. Confirmed'
  BY <1>2, <1>4 DEF ManagersInv, ManagersGood, Confirmed
<1>7. Unique' /\ FinitelyMany'
  BY <1>1, <1>2 DEF ManagersInv, ManagersGood, Unique, FinitelyMany
<1> QED
  BY <1>5, <1>6, <1>7 DEF ManagersGood

LEMMA OthersGood ==
    ASSUME ManagersInv, NEW d \in Devices,
           \/ \E a \in CloudAccounts : Managers!SignIn(d, a)
           \/ Managers!SignOut(d) \/ Managers!ClaimMissing(d) \/ Managers!ClaimRaced(d) \/ Managers!JoinFails(d)
           \/ Managers!PrefixesRead(d)
    PROVE  ManagersGood'
<1>1. UNCHANGED <<settings, ownSales, pulledSales, prefixes, events, confirmedBy, astray>>
  BY DEF Managers!SignIn, Managers!SignOut, Managers!ClaimMissing,
     Managers!ClaimRaced, Managers!JoinFails, Managers!PrefixesRead, 
         Managers!databaseVars, Managers!cloudVars, Managers!historyVars
<1> QED
  BY <1>1, SameGood DEF ManagersInv

(* Every step keeps the invariant.                                         *)
LEMMA ManagersKept == Managers!AccountAssumption /\ ManagersInv /\ [Managers!Next]_(Managers!vars) => ManagersInv'
<1> SUFFICES ASSUME Managers!AccountAssumption, ManagersInv,
                    [Managers!Next]_(Managers!vars)
             PROVE  ManagersInv'
  OBVIOUS
<1> USE DEF ManagersInv
<1>1. ASSUME NEW d \in Devices, Managers!Sell(d) PROVE ManagersInv'
  BY <1>1, SellTypes, SellGood DEF ManagersGood
<1>2. ASSUME NEW d \in Devices,
             \/ \E a \in CloudAccounts : Managers!SignIn(d, a)
             \/ Managers!SignOut(d) \/ Managers!ClaimMissing(d) \/ Managers!ClaimRaced(d) \/ Managers!JoinFails(d)
      PROVE  ManagersInv'
  BY <1>2, FileTypes, OthersGood
<1>3. ASSUME NEW d \in Devices, Managers!PrefixesRead(d) PROVE ManagersInv'
  BY <1>3, PrefixesReadTypes, OthersGood DEF ManagersGood
<1>4. ASSUME NEW d \in Devices, Managers!IdentityAnswered(d) PROVE ManagersInv'
  BY <1>4, IdentityTypes, IdentityGood
<1>5. ASSUME NEW d \in Devices,
             Managers!ClaimFound(d) \/ Managers!ClaimAccepted(d) \/ Managers!ClaimAnswerLost(d)
      PROVE  ManagersInv'
  BY <1>5, ClaimTypes, ClaimGood
<1>6. ASSUME NEW d \in Devices, Managers!Joined(d) PROVE ManagersInv'
  BY <1>6, JoinedTypes, JoinedGood
<1>7. ASSUME NEW d \in Devices, Managers!Boot(d) PROVE ManagersInv'
  BY <1>7, BootTypes, BootGood
<1>8. ASSUME NEW d \in Devices, Managers!Push(d) PROVE ManagersInv'
  BY <1>8, PushTypes, PushGood DEF ManagersGood
<1>9. ASSUME NEW d \in Devices, Managers!Pull(d) PROVE ManagersInv'
  <2>1. UNCHANGED <<settings, ownSales, prefixes, events, confirmedBy, astray>>
    BY <1>9 DEF Managers!Pull, Managers!cloudVars, Managers!historyVars
  <2> QED
    BY <1>9, <2>1, PullTypes, PulledGood DEF ManagersGood
<1>10. CASE UNCHANGED Managers!vars
  <2>1. UNCHANGED <<settings, ownSales, pulledSales, prefixes, events, confirmedBy, astray>>
    BY <1>10
       DEF Managers!vars, Managers!databaseVars, Managers!cloudVars,
           Managers!historyVars
  <2>2. Managers!TypeOK'
    BY <1>10
       DEF Managers!TypeOK, Managers!vars, Managers!fileVars, Managers!databaseVars,
           Managers!joinVars, Managers!cloudVars, Managers!historyVars
  <2> QED
    BY <2>1, <2>2, SameGood
<1> QED
  BY <1>1, <1>2, <1>3, <1>4, <1>5, <1>6, <1>7, <1>8, <1>9, <1>10 DEF Managers!Next

LEMMA ManagersInitially == Managers!AccountAssumption /\ Managers!Init => ManagersInv
<1> SUFFICES ASSUME Managers!AccountAssumption, Managers!Init PROVE ManagersInv
  OBVIOUS
<1>1. \A d \in Devices :
        \/ ownSales[d] = <<>>
        \/ /\ d \in Legacy
           /\ ownSales[d] = <<[no |-> <<1, 1>>, pushed |-> d, under |-> None]>>
  BY DEF Managers!Init
<1>2. \A d \in Legacy : [no |-> <<1, 1>>, pushed |-> d, under |-> None] \in Managers!Sales
  BY DEF Managers!Sales, Managers!Numbering, Managers!Stores
<1>3. ownSales \in [Devices -> Seq(Managers!Sales)]
  <2>1. ASSUME NEW d \in Devices PROVE ownSales[d] \in Seq(Managers!Sales)
    <3>1. CASE ownSales[d] = <<>>
      BY <3>1
    <3>2. CASE /\ d \in Legacy
               /\ ownSales[d] = <<[no |-> <<1, 1>>, pushed |-> d, under |-> None]>>
      <4> DEFINE r == [no |-> <<1, 1>>, pushed |-> d, under |-> None]
      <4>1. r \in Managers!Sales /\ ownSales[d] = <<r>>
        BY <1>2, <3>2
      <4> QED
        BY <4>1
    <3> QED
      BY <1>1, <3>1, <3>2
  <2>2. DOMAIN ownSales = Devices /\ ownSales = [d \in Devices |-> ownSales[d]]
    BY DEF Managers!Init
  <2> QED
    BY <2>1, <2>2
<1>4. /\ signedIn \in [Devices -> CloudAccounts \cup {None}]
      /\ accountFile \in [Devices -> Managers!Stores \cup {None}]
      /\ confirmedBy \in [Devices -> Managers!Stores \cup {None}]
      /\ storeOf \in [CloudAccounts -> Managers!Stores \cup {None}]
      /\ signIns \in [Devices -> Nat] /\ DOMAIN readBack = Devices
  BY DEF Managers!Init
<1>5. settings \in [Devices -> Managers!Settings]
  BY DEF Managers!Init, Managers!Settings, Managers!Stores
<1>6. /\ pulledSales \in [Devices -> SUBSET Managers!Events] /\ restored \in [Devices -> BOOLEAN]
      /\ engineRuns \in [Devices -> BOOLEAN] /\ astray \in [Devices -> BOOLEAN]
      /\ prefixes \in [Managers!Stores -> SUBSET Managers!Rows] /\ events \in [Managers!Stores -> SUBSET Managers!Events]
      /\ joining \in [Devices -> Managers!Stages] /\ \A d \in Devices : joining[d] = "idle"
  BY DEF Managers!Init, Managers!Stages
<1>7. Managers!TypeOK
  BY <1>3, <1>4, <1>5, <1>6 DEF Managers!TypeOK
<1>8. OneStore /\ Confirmed
  BY <1>1 DEF OneStore, Confirmed, Managers!Init
<1>9. Unique /\ FinitelyMany
  BY FS_EmptySet DEF Unique, FinitelyMany, Managers!Init
<1> QED
  BY <1>7, <1>8, <1>9 DEF ManagersInv, ManagersGood

(* Two managers with the same prefix under one store are the same.         *)
LEMMA ApartInvariant == Managers!AccountAssumption /\ ManagersInv => Managers!ManagersKeepApart
<1> SUFFICES ASSUME Managers!AccountAssumption, ManagersInv
             PROVE  Managers!ManagersKeepApart
  OBVIOUS
<1>1. ASSUME NEW d \in Devices, NEW i \in DOMAIN ownSales[d],
             NEW j \in DOMAIN ownSales[d], 
             ownSales[d][i].pushed # None, ownSales[d][j].pushed # None
      PROVE  ownSales[d][i].pushed = ownSales[d][j].pushed
  BY <1>1 DEF ManagersInv, ManagersGood, OneStore
<1>2. ASSUME NEW d \in Devices, NEW e \in Devices, ~astray[d], ~astray[e], d # e,
             NEW i \in DOMAIN ownSales[d], NEW j \in DOMAIN ownSales[e],
             ownSales[d][i].under # None, ownSales[d][i].under = ownSales[e][j].under,
             ownSales[d][i].no = ownSales[e][j].no
      PROVE  FALSE
  <2> DEFINE s == ownSales[d][i].under
             prefix == ownSales[d][i].no[1]
  <2>1. Row(d, prefix) \in prefixes[s] /\ Row(e, prefix) \in prefixes[s]
    BY <1>2 DEF ManagersInv, ManagersGood, Confirmed
  <2>2. s \in Managers!Stores
    BY <1>2, Fields DEF ManagersInv, Managers!Sales
  <2>3. Row(d, prefix).prefix = Row(e, prefix).prefix
        /\ Row(d, prefix).device = d /\ Row(e, prefix).device = e
    BY DEF Row
  <2>4. Row(d, prefix) = Row(e, prefix)
    BY <2>1, <2>2, <2>3 DEF ManagersInv, ManagersGood, Unique
  <2> QED
    BY <1>2, <2>3, <2>4
<1> QED
  BY <1>1, <1>2 DEF Managers!ManagersKeepApart

-----------------------------------------------------------------------------
(* Settings, sales, the registrations and the steps of joining keep their  *)
(* types; in particular a prefix and a receipt number are always numbers   *)
(* (sync_settings, nextReceiptNumber, claimDevicePrefix).                  *)
THEOREM ManagersTypes == Managers!AccountAssumption => (Managers!Spec => []Managers!TypeOK)
<1>1. Managers!AccountAssumption /\ ManagersInv /\ [Managers!Next]_(Managers!vars) => ManagersInv'
  BY ManagersKept
<1>2. Managers!AccountAssumption /\ Managers!Init => ManagersInv
  BY ManagersInitially
<1>3. ManagersInv => Managers!TypeOK
  BY DEF ManagersInv
<1> SUFFICES ASSUME Managers!AccountAssumption
             PROVE  Managers!Spec => []Managers!TypeOK
  OBVIOUS
<1> QED
  BY <1>1, <1>2, <1>3, PTL DEF Managers!Spec

(* What a manager got acknowledged is in one store, and managers whose     *)
(* prefixes one store has confirmed never number two sales alike, however  *)
(* claims race, answers are lost, managers die and owners sign in and out  *)
(* (configureAccountStore, claimDevicePrefix, nextReceiptNumber).          *)
THEOREM ManagersApart == Managers!AccountAssumption => (Managers!Spec => []Managers!ManagersKeepApart)
<1>1. Managers!AccountAssumption /\ ManagersInv /\ [Managers!Next]_(Managers!vars) => ManagersInv'
  BY ManagersKept
<1>2. Managers!AccountAssumption /\ Managers!Init => ManagersInv
  BY ManagersInitially
<1>3. Managers!AccountAssumption /\ ManagersInv => Managers!ManagersKeepApart
  BY ApartInvariant
<1> SUFFICES ASSUME Managers!AccountAssumption
             PROVE  Managers!Spec => []Managers!ManagersKeepApart
  OBVIOUS
<1> QED
  BY <1>1, <1>2, <1>3, PTL DEF Managers!Spec


-----------------------------------------------------------------------------
(* The restore from the cloud, whose theorems are in RestoreProofs *)

Restoring == INSTANCE RestoreProofs

LEMMA SameReplay == Cloud!Replayed(cloud) = Restoring!Replayed(cloud)
  BY DEF Cloud!Replayed, Cloud!Before, Cloud!Earlier, Cloud!ApplyOne,
         Cloud!ApplySettings, Cloud!ApplyProduct, Cloud!ApplyInventoryMovements,
         Cloud!ApplySale, Cloud!ApplyLedgerEntry, Cloud!ApplyAccountPayment,
         Cloud!ApplyRefund, Cloud!ApplyPaymentTransaction, Cloud!ApplyKiosk,
         Restoring!Replayed, Restoring!Before, Restoring!Earlier,
         Restoring!ApplyOne, Restoring!ApplySettings, Restoring!ApplyProduct,
         Restoring!ApplyInventoryMovements, Restoring!ApplySale,
         Restoring!ApplyLedgerEntry, Restoring!ApplyAccountPayment,
         Restoring!ApplyRefund, Restoring!ApplyPaymentTransaction,
         Restoring!ApplyKiosk

LEMMA SameCheck ==
    \A s : Cloud!VerifyRestoreIntegrity(s) <=> Restoring!VerifyRestoreIntegrity(s)
  BY DEF Cloud!VerifyRestoreIntegrity, Cloud!NumbersUnique,
         Cloud!NothingDangles, Cloud!LedgerReconciles, Cloud!Total,
         Cloud!SumFunction, Cloud!SumFunctionOnSet, Cloud!FoldFunctionOnSet,
         Cloud!MapThenFoldSet, Restoring!VerifyRestoreIntegrity,
         Restoring!NumbersUnique, Restoring!NothingDangles,
         Restoring!LedgerReconciles, Restoring!Total, Restoring!SumFunction,
         Restoring!SumFunctionOnSet, Restoring!FoldFunctionOnSet,
         Restoring!MapThenFoldSet

LEMMA SameStart == Cloud!Init <=> Restoring!Init
  BY DEF Cloud!Init, Cloud!NewStore, Cloud!OldStore, Restoring!Init,
         Restoring!NewStore, Restoring!OldStore

LEMMA SameSteps == Cloud!Next <=> Restoring!Next
<1>1. Cloud!UpdateSettings <=> Restoring!UpdateSettings
  BY DEF Cloud!UpdateSettings, Cloud!Write, Cloud!Cardinality, Cloud!Appended,
         Cloud!Event, Cloud!NextSequence, Cloud!Largest, Cloud!SequencesOf,
         Cloud!SettingsPayload, Cloud!NewStore, Cloud!Quiet, Cloud!machineVars,
         Restoring!UpdateSettings, Restoring!Write, Restoring!Cardinality,
         Restoring!Appended, Restoring!Event, Restoring!NextSequence,
         Restoring!Largest, Restoring!SequencesOf, Restoring!SettingsPayload,
         Restoring!NewStore, Restoring!Quiet, Restoring!machineVars
<1>2. Cloud!SaveProduct <=> Restoring!SaveProduct
  BY DEF Cloud!SaveProduct, Cloud!Write, Cloud!Cardinality, Cloud!Appended,
         Cloud!Event, Cloud!NextSequence, Cloud!Largest, Cloud!SequencesOf,
         Cloud!ProductPayload, Cloud!NewStore, Cloud!Quiet, Cloud!machineVars,
         Restoring!SaveProduct, Restoring!Write, Restoring!Cardinality,
         Restoring!Appended, Restoring!Event, Restoring!NextSequence,
         Restoring!Largest, Restoring!SequencesOf, Restoring!ProductPayload,
         Restoring!NewStore, Restoring!Quiet, Restoring!machineVars
<1>3. Cloud!ReceiveStock <=> Restoring!ReceiveStock
  BY DEF Cloud!ReceiveStock, Cloud!Moved, Cloud!NextSeq, Cloud!Largest,
         Cloud!Write, Cloud!Cardinality, Cloud!Appended, Cloud!Event,
         Cloud!NextSequence, Cloud!SequencesOf, Cloud!MovementPayload,
         Cloud!NewStore, Cloud!Quiet, Cloud!machineVars, Restoring!ReceiveStock,
         Restoring!Moved, Restoring!NextSeq, Restoring!Largest, Restoring!Write,
         Restoring!Cardinality, Restoring!Appended, Restoring!Event,
         Restoring!NextSequence, Restoring!SequencesOf,
         Restoring!MovementPayload, Restoring!NewStore, Restoring!Quiet,
         Restoring!machineVars
<1>4. \A kiosk : Cloud!SellOnAccount(kiosk) <=> Restoring!SellOnAccount(kiosk)
  BY DEF Cloud!SellOnAccount, Cloud!NextReceiptNumber, Cloud!Largest,
         Cloud!Balance, Cloud!Total, Cloud!SumFunction, Cloud!SumFunctionOnSet,
         Cloud!FoldFunctionOnSet, Cloud!MapThenFoldSet, Cloud!Moved,
         Cloud!NextSeq, Cloud!Entry, Cloud!Write, Cloud!Cardinality,
         Cloud!Appended, Cloud!Event, Cloud!NextSequence, Cloud!SequencesOf,
         Cloud!SalePayload, Cloud!NewStore, Cloud!Quiet, Cloud!machineVars,
         Restoring!SellOnAccount, Restoring!NextReceiptNumber,
         Restoring!Largest, Restoring!Balance, Restoring!Total,
         Restoring!SumFunction, Restoring!SumFunctionOnSet,
         Restoring!FoldFunctionOnSet, Restoring!MapThenFoldSet, Restoring!Moved,
         Restoring!NextSeq, Restoring!Entry, Restoring!Write,
         Restoring!Cardinality, Restoring!Appended, Restoring!Event,
         Restoring!NextSequence, Restoring!SequencesOf, Restoring!SalePayload,
         Restoring!NewStore, Restoring!Quiet, Restoring!machineVars
<1>5. Cloud!PayAccount <=> Restoring!PayAccount
  BY DEF Cloud!PayAccount, Cloud!NextReceiptNumber, Cloud!Largest,
         Cloud!Balance, Cloud!Total, Cloud!SumFunction, Cloud!SumFunctionOnSet,
         Cloud!FoldFunctionOnSet, Cloud!MapThenFoldSet, Cloud!Entry,
         Cloud!NextSeq, Cloud!Write, Cloud!Cardinality, Cloud!Appended,
         Cloud!Event, Cloud!NextSequence, Cloud!SequencesOf,
         Cloud!AccountPaymentPayload, Cloud!NewStore, Cloud!Quiet,
         Cloud!machineVars, Restoring!PayAccount, Restoring!NextReceiptNumber,
         Restoring!Largest, Restoring!Balance, Restoring!Total,
         Restoring!SumFunction, Restoring!SumFunctionOnSet,
         Restoring!FoldFunctionOnSet, Restoring!MapThenFoldSet, Restoring!Entry,
         Restoring!NextSeq, Restoring!Write, Restoring!Cardinality,
         Restoring!Appended, Restoring!Event, Restoring!NextSequence,
         Restoring!SequencesOf, Restoring!AccountPaymentPayload,
         Restoring!NewStore, Restoring!Quiet, Restoring!machineVars
<1>6. \A s : Cloud!RefundSale(s) <=> Restoring!RefundSale(s)
  BY DEF Cloud!RefundSale, Cloud!NextReceiptNumber, Cloud!Largest, Cloud!Moved,
         Cloud!NextSeq, Cloud!Entry, Cloud!Write, Cloud!Cardinality,
         Cloud!Appended, Cloud!Event, Cloud!NextSequence, Cloud!SequencesOf,
         Cloud!RefundPayload, Cloud!NewStore, Cloud!Quiet, Cloud!machineVars,
         Restoring!RefundSale, Restoring!NextReceiptNumber, Restoring!Largest,
         Restoring!Moved, Restoring!NextSeq, Restoring!Entry, Restoring!Write,
         Restoring!Cardinality, Restoring!Appended, Restoring!Event,
         Restoring!NextSequence, Restoring!SequencesOf, Restoring!RefundPayload,
         Restoring!NewStore, Restoring!Quiet, Restoring!machineVars
<1>7. \A status : Cloud!SetCharge(status) <=> Restoring!SetCharge(status)
  BY DEF Cloud!SetCharge, Cloud!Write, Cloud!Cardinality, Cloud!Appended,
         Cloud!Event, Cloud!NextSequence, Cloud!Largest, Cloud!SequencesOf,
         Cloud!PaymentTransactionPayload, Cloud!NewStore, Cloud!Quiet,
         Cloud!machineVars, Restoring!SetCharge, Restoring!Write,
         Restoring!Cardinality, Restoring!Appended, Restoring!Event,
         Restoring!NextSequence, Restoring!Largest, Restoring!SequencesOf,
         Restoring!PaymentTransactionPayload, Restoring!NewStore,
         Restoring!Quiet, Restoring!machineVars
<1>8. Cloud!SellByCard <=> Restoring!SellByCard
  BY DEF Cloud!SellByCard, Cloud!NextReceiptNumber, Cloud!Largest, Cloud!Moved,
         Cloud!NextSeq, Cloud!Cardinality, Cloud!Appended, Cloud!Event,
         Cloud!NextSequence, Cloud!SequencesOf, Cloud!SalePayload,
         Cloud!NewStore, Cloud!PaymentTransactionPayload, Cloud!Quiet,
         Cloud!machineVars, Restoring!SellByCard, Restoring!NextReceiptNumber,
         Restoring!Largest, Restoring!Moved, Restoring!NextSeq,
         Restoring!Cardinality, Restoring!Appended, Restoring!Event,
         Restoring!NextSequence, Restoring!SequencesOf, Restoring!SalePayload,
         Restoring!NewStore, Restoring!PaymentTransactionPayload,
         Restoring!Quiet, Restoring!machineVars
<1>9. \A status : Cloud!SetKiosk(status) <=> Restoring!SetKiosk(status)
  BY DEF Cloud!SetKiosk, Cloud!Write, Cloud!Cardinality, Cloud!Appended,
         Cloud!Event, Cloud!NextSequence, Cloud!Largest, Cloud!SequencesOf,
         Cloud!KioskPayload, Cloud!NewStore, Cloud!Quiet, Cloud!machineVars,
         Restoring!SetKiosk, Restoring!Write, Restoring!Cardinality,
         Restoring!Appended, Restoring!Event, Restoring!NextSequence,
         Restoring!Largest, Restoring!SequencesOf, Restoring!KioskPayload,
         Restoring!NewStore, Restoring!Quiet, Restoring!machineVars
<1>10. Cloud!StopInCreateKiosk <=> Restoring!StopInCreateKiosk
  BY DEF Cloud!StopInCreateKiosk, Cloud!Quiet, Cloud!machineVars,
         Restoring!StopInCreateKiosk, Restoring!Quiet, Restoring!machineVars
<1>11. \A on : Cloud!SaveConfig(on) <=> Restoring!SaveConfig(on)
  BY DEF Cloud!SaveConfig, Cloud!Backfill, Cloud!Event, Cloud!NextSequence,
         Cloud!Largest, Cloud!SequencesOf, Cloud!Cardinality, Cloud!Owed,
         Cloud!SettingsPayload, Cloud!NewStore, Cloud!ProductPayload,
         Cloud!PaymentTransactionPayload, Cloud!KioskPayload,
         Cloud!MovementPayload, Cloud!SalePayload, Cloud!AccountPaymentPayload,
         Cloud!RefundPayload, Cloud!HasEvent, Cloud!Single, Cloud!Earlier,
         Restoring!SaveConfig, Restoring!Backfill, Restoring!Event,
         Restoring!NextSequence, Restoring!Largest, Restoring!SequencesOf,
         Restoring!Cardinality, Restoring!Owed, Restoring!SettingsPayload,
         Restoring!NewStore, Restoring!ProductPayload,
         Restoring!PaymentTransactionPayload, Restoring!KioskPayload,
         Restoring!MovementPayload, Restoring!SalePayload,
         Restoring!AccountPaymentPayload, Restoring!RefundPayload,
         Restoring!HasEvent, Restoring!Single, Restoring!Earlier
<1>12. Cloud!SetEnabled <=> Restoring!SetEnabled
  BY DEF Cloud!SetEnabled, Cloud!historyVars, Restoring!SetEnabled,
         Restoring!historyVars
<1>13. \A last, marked : Cloud!Upload(last, marked) <=> Restoring!Upload(last, marked)
  BY DEF Cloud!Upload, Cloud!Pending, Cloud!Sent, Cloud!machineVars,
         Restoring!Upload, Restoring!Pending, Restoring!Sent,
         Restoring!machineVars
<1>14. Cloud!LoseMachine <=> Restoring!LoseMachine
  BY DEF Cloud!LoseMachine, Cloud!NewStore, Cloud!historyVars,
         Restoring!LoseMachine, Restoring!NewStore, Restoring!historyVars
<1>15. Cloud!SaveSettings <=> Restoring!SaveSettings
  BY DEF Cloud!SaveSettings, Cloud!Appended, Cloud!Event, Cloud!NextSequence,
         Cloud!Largest, Cloud!SequencesOf, Cloud!SettingsPayload,
         Cloud!NewStore, Cloud!machineVars, Cloud!historyVars,
         Restoring!SaveSettings, Restoring!Appended, Restoring!Event,
         Restoring!NextSequence, Restoring!Largest, Restoring!SequencesOf,
         Restoring!SettingsPayload, Restoring!NewStore, Restoring!machineVars,
         Restoring!historyVars
<1>16. Cloud!Restore <=> Restoring!Restore
  BY SameReplay, SameCheck
     DEF Cloud!Restore, Cloud!Offered, Cloud!IsRestoreAllowed, Cloud!Before,
         Cloud!Earlier, Cloud!Seeded, Cloud!SequencesOf, Cloud!historyVars,
         Restoring!Restore, Restoring!Offered, Restoring!IsRestoreAllowed,
         Restoring!Before, Restoring!Earlier, Restoring!Seeded,
         Restoring!SequencesOf, Restoring!historyVars
<1>17. Cloud!RefuseRestore <=> Restoring!RefuseRestore
  BY SameReplay, SameCheck
     DEF Cloud!RefuseRestore, Cloud!Offered, Cloud!IsRestoreAllowed,
         Cloud!Before, Cloud!Earlier, Cloud!historyVars,
         Restoring!RefuseRestore, Restoring!Offered, Restoring!IsRestoreAllowed,
         Restoring!Before, Restoring!Earlier, Restoring!historyVars
<1>18. Cloud!Adopt <=> Restoring!Adopt
  BY DEF Cloud!Adopt, Restoring!Adopt
<1>19. Cloud!StopBeforeAdopt <=> Restoring!StopBeforeAdopt
  BY DEF Cloud!StopBeforeAdopt, Cloud!historyVars, Restoring!StopBeforeAdopt,
         Restoring!historyVars
<1>20. Cloud!Pending = Restoring!Pending
  BY DEF Cloud!Pending, Restoring!Pending
<1>. QED
  BY <1>1, <1>2, <1>3, <1>4, <1>5, <1>6, <1>7, <1>8, <1>9, <1>10, <1>11, <1>12,
     <1>13, <1>14, <1>15, <1>16, <1>17, <1>18, <1>19, <1>20
     DEF Cloud!Next, Restoring!Next

LEMMA SameAssumption == Cloud!RestoreAssumption <=> Restoring!RestoreAssumption
  BY DEF Cloud!RestoreAssumption, Cloud!KioskStates, Cloud!PaymentTransactions,
         Cloud!Stores, Cloud!Movements, Cloud!LedgerEntries, Cloud!Sales,
         Cloud!AccountPayments, Cloud!Refunds, Restoring!RestoreAssumption,
         Restoring!KioskStates, Restoring!PaymentTransactions, Restoring!Stores,
         Restoring!Movements, Restoring!LedgerEntries, Restoring!Sales,
         Restoring!AccountPayments, Restoring!Refunds

LEMMA SameTypes == Cloud!TypeOK <=> Restoring!TypeOK
  BY DEF Cloud!TypeOK, Cloud!Stores, Cloud!Movements, Cloud!LedgerEntries,
         Cloud!Sales, Cloud!AccountPayments, Cloud!Refunds,
         Cloud!PaymentTransactions, Cloud!KioskStates, Cloud!Kinds,
         Restoring!TypeOK, Restoring!Stores, Restoring!Movements,
         Restoring!LedgerEntries, Restoring!Sales, Restoring!AccountPayments,
         Restoring!Refunds, Restoring!PaymentTransactions,
         Restoring!KioskStates, Restoring!Kinds

LEMMA SamePromise == Cloud!RestoredIsTheStore <=> Restoring!RestoredIsTheStore
  BY DEF Cloud!RestoredIsTheStore, Cloud!Whole, Cloud!SequencesOf,
         Cloud!Restorable, Cloud!Ordered, Restoring!RestoredIsTheStore,
         Restoring!Whole, Restoring!SequencesOf, Restoring!Restorable,
         Restoring!Ordered

LEMMA SameSpec == Cloud!Spec => Restoring!Spec
<1>1. UNCHANGED Cloud!vars <=> UNCHANGED Restoring!vars
  BY DEF Cloud!vars, Cloud!machineVars, Cloud!historyVars, Restoring!vars,
         Restoring!machineVars, Restoring!historyVars
<1>2. [Cloud!Next]_(Cloud!vars) => [Restoring!Next]_(Restoring!vars)
  BY <1>1, SameSteps
<1>. QED  BY <1>2, SameStart, PTL DEF Cloud!Spec, Restoring!Spec

(* The store, its outbox and the cloud keep their types.                   *)
THEOREM CloudTypes == Cloud!RestoreAssumption => (Cloud!Spec => []Cloud!TypeOK)
<1> SUFFICES ASSUME Cloud!RestoreAssumption PROVE Cloud!Spec => []Cloud!TypeOK
  OBVIOUS
<1>1. Restoring!Spec => []Restoring!TypeOK
  BY SameAssumption, Restoring!TypeCorrect
<1>. QED  BY <1>1, SameTypes, SameSpec, PTL

(* A machine that is lost can be restored, again and again, to the store   *)
(* of the last uploaded event, and the restore is not refused, unless rows *)
(* were written that have no event (backfillOutbox, pushEvents,            *)
(* restoreFromEvents, verifyRestoreIntegrity).                             *)
THEOREM CloudRestores ==
    Cloud!RestoreAssumption => (Cloud!Spec => []Cloud!RestoredIsTheStore)
<1> SUFFICES ASSUME Cloud!RestoreAssumption
             PROVE  Cloud!Spec => []Cloud!RestoredIsTheStore
  OBVIOUS
<1>1. Restoring!Spec => []Restoring!RestoredIsTheStore
  BY SameAssumption, Restoring!RestoreIsTheStore
<1>. QED  BY <1>1, SamePromise, SameSpec, PTL

-----------------------------------------------------------------------------
(* The application *)

(* A step of the application is one of each component, or leaves it alone. *)
LEMMA BooksPlay == OfficeSpec => Spec
<1>1. OfficeInit => Init
  BY DEF OfficeInit
<1>2. [OfficeNext]_officeVars => [Next]_vars
  BY DEF OfficeNext, KeepBooks, CountStock, UseTill, KeepCopies, RestoreFromCloud,
         AskAtTheDoor, JoinAccount, officeVars
<1>. QED  BY <1>1, <1>2, PTL DEF OfficeSpec, Spec

LEMMA CountPlays == OfficeSpec => Count!Spec
<1>1. OfficeInit => Count!Init
  BY DEF OfficeInit
<1>2. UNCHANGED countVars => UNCHANGED Count!vars
  BY DEF countVars, Count!vars
<1>3. [OfficeNext]_officeVars => [Count!Next]_(Count!vars)
  BY <1>2 DEF OfficeNext, KeepBooks, CountStock, UseTill, KeepCopies,
              RestoreFromCloud, AskAtTheDoor, JoinAccount, officeVars
<1>. QED  BY <1>1, <1>3, PTL DEF OfficeSpec, Count!Spec

LEMMA TillPlays == OfficeSpec => Till!Spec
<1>1. OfficeInit => Till!Init
  BY DEF OfficeInit
<1>2. UNCHANGED tillVars => UNCHANGED Till!vars
  BY DEF tillVars, Till!vars, Till!panelVars, Till!chargeVars, Till!storeVars
<1>3. [OfficeNext]_officeVars => [Till!Next]_(Till!vars)
  BY <1>2 DEF OfficeNext, KeepBooks, CountStock, UseTill, KeepCopies,
              RestoreFromCloud, AskAtTheDoor, JoinAccount, officeVars
<1>. QED  BY <1>1, <1>3, PTL DEF OfficeSpec, Till!Spec

LEMMA CopiesPlays == OfficeSpec => Copies!Spec
<1>1. OfficeInit => Copies!Init
  BY DEF OfficeInit
<1>2. UNCHANGED copyVars => UNCHANGED Copies!vars
  BY DEF copyVars, Copies!vars, Copies!folderVars, Copies!restoreVars,
     Copies!historyVars
<1>3. [OfficeNext]_officeVars => [Copies!Next]_(Copies!vars)
  BY <1>2 DEF OfficeNext, KeepBooks, CountStock, UseTill, KeepCopies,
              RestoreFromCloud, AskAtTheDoor, JoinAccount, officeVars
<1>. QED  BY <1>1, <1>3, PTL DEF OfficeSpec, Copies!Spec

LEMMA CloudPlays == OfficeSpec => Cloud!Spec
<1>1. OfficeInit => Cloud!Init
  BY DEF OfficeInit
<1>2. UNCHANGED cloudVars => UNCHANGED Cloud!vars
  BY DEF cloudVars, Cloud!vars, Cloud!machineVars, Cloud!historyVars
<1>3. [OfficeNext]_officeVars => [Cloud!Next]_(Cloud!vars)
  BY <1>2 DEF OfficeNext, KeepBooks, CountStock, UseTill, KeepCopies,
              RestoreFromCloud, AskAtTheDoor, JoinAccount, officeVars
<1>. QED  BY <1>1, <1>3, PTL DEF OfficeSpec, Cloud!Spec

LEMMA DoorPlays == OfficeSpec => Door!Spec
<1>1. OfficeInit => Door!Init
  BY DEF OfficeInit
<1>2. UNCHANGED doorVars => UNCHANGED Door!vars
  BY DEF doorVars, Door!vars, Door!accountVars, Door!sessionVars, Door!screenVars,
     Door!historyVars
<1>3. [OfficeNext]_officeVars => [Door!Next]_(Door!vars)
  BY <1>2 DEF OfficeNext, KeepBooks, CountStock, UseTill, KeepCopies,
              RestoreFromCloud, AskAtTheDoor, JoinAccount, officeVars
<1>. QED  BY <1>1, <1>3, PTL DEF OfficeSpec, Door!Spec

LEMMA ManagersPlay == OfficeSpec => Managers!Spec
<1>1. OfficeInit => Managers!Init
  BY DEF OfficeInit
<1>2. UNCHANGED accountVars => UNCHANGED Managers!vars
  BY DEF accountVars, Managers!vars, Managers!fileVars, Managers!databaseVars,
         Managers!joinVars, Managers!cloudVars, Managers!historyVars
<1>3. [OfficeNext]_officeVars => [Managers!Next]_(Managers!vars)
  BY <1>2 DEF OfficeNext, KeepBooks, CountStock, UseTill, KeepCopies,
              RestoreFromCloud, AskAtTheDoor, JoinAccount, officeVars
<1>. QED  BY <1>1, <1>3, PTL DEF OfficeSpec, Managers!Spec

(* The application is put together so that every step of it is one of one  *)
(* component. This says nothing about the code: it is what carries the     *)
(* theorems of StoreBooksProofs, and those above, to the application.      *)
LEMMA OfficeImplements ==
    OfficeSpec => /\ Spec /\ Count!Spec /\ Till!Spec /\ Copies!Spec /\ Cloud!Spec
                  /\ Door!Spec /\ Managers!Spec
BY BooksPlay, CountPlays, TillPlays, CopiesPlays, CloudPlays, DoorPlays, ManagersPlay

(* Every component keeps the types of its state: books, stock counts,      *)
(* register, backups, cloud restore, staff mode and cloud account.         *)
THEOREM OfficeTypes == OfficeSpec => []TypesHold
<1>1. /\ Count!Spec => []Count!TypeOK
      /\ Till!Spec => []Till!TypeOK
      /\ Copies!Spec => []Copies!TypeOK
      /\ Cloud!Spec => []Cloud!TypeOK
      /\ Door!Spec => []Door!TypeOK
      /\ Managers!Spec => []Managers!TypeOK
  BY OfficeAssumption, CountTypes, TillTypes, CopiesTypes, CloudTypes, DoorTypes,
     ManagersTypes
<1>2. /\ TypeOK /\ Count!TypeOK /\ Till!TypeOK /\ Copies!TypeOK /\ Cloud!TypeOK
      /\ Door!TypeOK /\ Managers!TypeOK
      => TypesHold
  BY DEF TypesHold
<1>. QED  BY <1>1, <1>2, TypeCorrect, OfficeImplements, PTL

(* A count that is applied once leaves what was counted plus what moved    *)
(* since, whatever was sold, received or counted meanwhile, and every      *)
(* further application adds its difference again; a count that was not     *)
(* finished corrects nothing (finishStockCount, applyStockCount).          *)
THEOREM CountsCorrect == OfficeSpec => []CountCorrects
<1>1. Count!CountCorrects => CountCorrects
  BY DEF CountCorrects
<1>. QED  BY <1>1, OfficeAssumption, CountExplained, CountPlays, PTL

(* A customer leaves the register with the receipt of a sale of their own, *)
(* of the goods in the cart, and a card is charged only for the sale that  *)
(* names the charge, whatever was parked, retried, left or answered late   *)
(* (complete, initiateCharge, onNew, validateExistingSaleMatch).           *)
THEOREM CustomersGetTheirSale == OfficeSpec => []OneSalePerCustomer
<1>1. Till!OneSalePerCustomer => OneSalePerCustomer
  BY DEF OneSalePerCustomer
<1>. QED  BY <1>1, OfficeAssumption, TillSales, TillPlays, PTL

(* What was saved comes back.  A backup that is kept has its images in the *)
(* vault, and a restore keeps its safety copy until another one begins,    *)
(* whatever rotates out, fails or crashes; a store restored from the cloud *)
(* is the one of the last upload, machine after machine (createBackup,     *)
(* garbageCollectImageVault, backups:restore, restoreFromEvents).          *)
THEOREM BackupsCanBeRestored == OfficeSpec => []RestoresGiveBack
<1>1. Copies!BackupsRestore /\ Cloud!RestoredIsTheStore => RestoresGiveBack
  BY DEF RestoresGiveBack
<1>. QED  BY <1>1, OfficeAssumption, CopiesRestore, CloudRestores, CopiesPlays,
             CloudPlays, PTL

(* Staff mode never runs out of active owners, and no request of a cashier *)
(* goes through on an approval that was used, is too old, was for another  *)
(* permission or for somebody who signed in before (authorize, elevate,    *)
(* updateStaff).                                                           *)
THEOREM OwnersAlwaysDecide == OfficeSpec => []OwnersDecide
<1>1. Door!OwnersDecide => OwnersDecide
  BY DEF OwnersDecide
<1>. QED  BY <1>1, OfficeAssumption, DoorOwners, DoorPlays, PTL

(* What a manager got acknowledged is in one store, and managers whose     *)
(* prefixes one store has confirmed never number two sales alike, for any  *)
(* devices and accounts (configureAccountStore, claimDevicePrefix).        *)
THEOREM ManagersStayApart == OfficeSpec => []ManagersKeepApart
<1>1. Managers!ManagersKeepApart => ManagersKeepApart
  BY DEF ManagersKeepApart
<1>. QED  BY <1>1, OfficeAssumption, ManagersApart, ManagersPlay, PTL

===============================================================================
