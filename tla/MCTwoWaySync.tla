---------------------------- MODULE MCTwoWaySync ----------------------------
EXTENDS TwoWaySync

CONSTANTS a, b

(* One write of a and two of b, or one of each.                            *)
OneAndTwo == [d \in Devices |-> IF d = a THEN 1 ELSE 2]
OneEach == [d \in Devices |-> 1]

(* Clocks that agree.                                                      *)
NoSkew == [d \in Devices |-> 0]

(* Every event id of b happens to compare greater than those of a.         *)
AsDrawn(x, y) == x[1] = b /\ y[1] = a
=============================================================================
