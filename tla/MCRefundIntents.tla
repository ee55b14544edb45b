-------------------------- MODULE MCRefundIntents --------------------------
EXTENDS RefundIntents, TLC

CONSTANTS all, part, paid, line, none

(* One line of two pieces, and three operations that want four of them: a  *)
(* card refund of both, a card refund of one, and one piece by hand.       *)
TwoSold == [i \in Items |-> 2]
FourWanted == [o \in Operations |-> [i \in Items |-> IF o = all THEN 2 ELSE 1]]
DamagedUnlessPart == [o \in Operations |-> IF o = all THEN {} ELSE Items]

(* The two callers do the same things.                                     *)
SameCallers == Permutations(Callers)
=============================================================================
