----------------------------- MODULE StockCount -----------------------------
(***************************************************************************)
(* Physical stock counts of StoreDatabase and the StockCountModal that     *)
(* drives them: quantities are recorded one by one while the store sells,  *)
(* finishing takes the stock that is expected, applying writes the         *)
(* difference.  Nothing keeps a finished count from being applied again:   *)
(* the button stays until the answer of the first click is there.          *)
(***************************************************************************)
EXTENDS Integers

CONSTANTS
    Products,
    Counts,        \* bound: counts that are ever started
    StartStock,    \* StartStock[p] in units, thousandths if sold by weight
    ShelfStock,    \* quantities that may be found on a shelf
    MaxMoves,      \* bound: sales, receipts and manual adjustments
    MaxApplied,    \* bound: times one count is applied
    None

(* Rows of stock_counts and states of the window.                          *)
CountRows == [status : {"open", "applied", "cancelled"}, completed : BOOLEAN]
Windows == [stage : {"count", "review", "done"}, count : Counts]

CountAssumption ==
    /\ StartStock \in [Products -> Int]
    /\ ShelfStock \subseteq Int
    /\ MaxMoves \in Nat /\ MaxApplied \in Nat
    /\ None \notin CountRows \cup Windows

VARIABLES
    stock,         \* the sum of inventory_movements
    count,         \* stock_counts: status, and completed_at as a flag
    counted,       \* stock_count_lines.counted_units, or None: no line
    expected,      \* stock_count_lines.expected_units, or None
    window,        \* StockCountModal: [stage, count], or None: closed
    posted,        \* corrections written of a count (history)
    since,         \* other movements since the count was finished (history)
    moves

vars == <<stock, count, counted, expected, window, posted, since, moves>>

Finished == {c \in Counts : count[c] # None /\ count[c].status = "applied"}
Line(c) == {p \in Products : counted[c][p] # None}

(* What the window shows: the quantities, the differences, or the result.  *)
Stage(s) == window # None /\ window.stage = s

(* Whatever moves stock, other than count c, is remembered for the counts  *)
(* that are finished.                                                      *)
Moved(p, change) ==
    [c \in Counts |-> IF c \in Finished THEN [since[c] EXCEPT ![p] = @ + change]
                      ELSE since[c]]

(* begin: the window opens with a new count.                               *)
StartStockCount(c) ==
    /\ window = None
    /\ count[c] = None
    /\ count' = [count EXCEPT ![c] = [status |-> "open", completed |-> FALSE]]
    /\ window' = [stage |-> "count", count |-> c]
    /\ UNCHANGED <<stock, counted, expected, posted, since, moves>>

(* recordStockCountLine: the last quantity entered counts.                 *)
RecordStockCountLine(p, units) ==
    /\ Stage("count")
    /\ count[window.count].status = "open"
    /\ counted' = [counted EXCEPT ![window.count][p] = units]
    /\ UNCHANGED <<stock, count, expected, window, posted, since, moves>>

(* finishStockCount.                                                       *)
FinishStockCount ==
    /\ Stage("count")
    /\ count[window.count].status = "open"
    /\ expected' = [expected EXCEPT ![window.count] =
         [p \in Products |-> IF p \in Line(window.count) THEN stock[p] ELSE None]]
    /\ count' = [count EXCEPT ![window.count].status = "applied"]
    /\ window' = [window EXCEPT !.stage = "review"]
    /\ UNCHANGED <<stock, counted, posted, since, moves>>

(* Fault: the difference is taken to the stock of now.                     *)
VarianceNow(c, p) == IF p \in Line(c) THEN counted[c][p] - stock[p] ELSE 0

Variance(c, p) == IF p \in Line(c) THEN counted[c][p] - expected[c][p] ELSE 0

(* applyStockCount, by "Apply corrections".                                *)
ApplyStockCount ==
    LET c == window.count
    IN  /\ Stage("review")
        /\ count[c].status = "applied"
        /\ posted[c] < MaxApplied
        /\ stock' = [p \in Products |-> stock[p] + Variance(c, p)]
        /\ count' = [count EXCEPT ![c].completed = TRUE]
        /\ posted' = [posted EXCEPT ![c] = @ + 1]
        /\ since' = [d \in Counts |->
             IF d # c /\ d \in Finished
             THEN [p \in Products |-> since[d][p] + Variance(c, p)] ELSE since[d]]
        /\ UNCHANGED <<counted, expected, window, moves>>

(* The answer of the first click arrives.                                  *)
ShowDone ==
    /\ Stage("review")
    /\ count[window.count].completed
    /\ window' = [window EXCEPT !.stage = "done"]
    /\ UNCHANGED <<stock, count, counted, expected, posted, since, moves>>

(* The window is closed: an open count is cancelled, a finished one that   *)
(* was not applied stays as it is.                                         *)
CloseWindow ==
    /\ window # None
    /\ count' = IF Stage("count") /\ count[window.count].status = "open"
                THEN [count EXCEPT ![window.count] =
                        [status |-> "cancelled", completed |-> TRUE]]
                ELSE count
    /\ window' = None
    /\ UNCHANGED <<stock, counted, expected, posted, since, moves>>

(* insertInventoryMovement for any other reason, a sale among them.        *)
AddInventoryMovement(p, change) ==
    /\ moves < MaxMoves
    /\ moves' = moves + 1
    /\ stock' = [stock EXCEPT ![p] = @ + change]
    /\ since' = Moved(p, change)
    /\ UNCHANGED <<count, counted, expected, window, posted>>

Init ==
    /\ stock = StartStock
    /\ count = [c \in Counts |-> None]
    /\ counted = [c \in Counts |-> [p \in Products |-> None]]
    /\ expected = [c \in Counts |-> [p \in Products |-> None]]
    /\ window = None
    /\ posted = [c \in Counts |-> 0]
    /\ since = [c \in Counts |-> [p \in Products |-> 0]]
    /\ moves = 0

Next ==
    \/ \E c \in Counts : StartStockCount(c)
    \/ \E p \in Products, units \in ShelfStock : RecordStockCountLine(p, units)
    \/ FinishStockCount
    \/ ApplyStockCount
    \/ ShowDone
    \/ CloseWindow
    \/ \E p \in Products, change \in {-1, 1} : AddInventoryMovement(p, change)

Spec == Init /\ [][Next]_vars

-----------------------------------------------------------------------------
TypeOK ==
    /\ stock \in [Products -> Int]
    /\ count \in [Counts -> CountRows \cup {None}]
    /\ counted \in [Counts -> [Products -> ShelfStock \cup {None}]]
    /\ expected \in [Counts -> [Products -> Int \cup {None}]]
    /\ window \in Windows \cup {None}
    /\ posted \in [Counts -> 0..MaxApplied]
    /\ since \in [Counts -> [Products -> Int]]
    /\ moves \in 0..MaxMoves
    /\ \A c \in Finished : \A p \in Line(c) : expected[c][p] \in Int

(* A correction replaces the stock there was when the count was finished,  *)
(* and nothing that moved since is lost in it: applied once, the count     *)
(* leaves what was counted plus what moved since, however long the review  *)
(* took and whatever other count was applied meanwhile; each further       *)
(* application adds the difference once more (finishStockCount,            *)
(* applyStockCount).  A count that was cancelled corrects nothing.         *)
CountCorrects ==
    \A c \in Counts :
        /\ posted[c] > 0 => c \in Finished
        /\ c \in Finished => \A p \in Line(c) :
             stock[p] = IF posted[c] = 1 THEN counted[c][p] + since[c][p]
                        ELSE expected[c][p] + since[c][p]
                             + posted[c] * (counted[c][p] - expected[c][p])
=============================================================================
