--------------------------- MODULE SharedHistory ----------------------------
(***************************************************************************)
(* What the managers of one store promise each other: a device learns of a *)
(* write only together with, or after, everything the writer knew when it  *)
(* made it.  A sale never reaches a device before the product and the      *)
(* customer it refers to, whoever made those.  Nothing is said of when a   *)
(* device learns, or of how rows that two devices edit are merged.         *)
(***************************************************************************)
EXTENDS Naturals, Sequences

CONSTANT Devices

VARIABLES
  known,   \* the writes each device knows, its own included
  basis    \* for each device and each of its writes, what it knew before

vars == <<known, basis>>

Everything == UNION {{<<d, n>> : n \in 1..Len(basis[d])} : d \in Devices}

Init ==
  /\ known = [d \in Devices |-> {}]
  /\ basis = [d \in Devices |-> <<>>]

Write(d) ==
  /\ known' = [known EXCEPT ![d] = @ \union {<<d, Len(basis[d]) + 1>>}]
  /\ basis' = [basis EXCEPT ![d] = Append(@, known[d])]

Learn(d) ==
  /\ \E new \in SUBSET (Everything \ known[d]) :
       /\ \A id \in new : basis[id[1]][id[2]] \subseteq known[d] \union new
       /\ known' = [known EXCEPT ![d] = @ \union new]
  /\ UNCHANGED basis

Next == \E d \in Devices : Write(d) \/ Learn(d)

Spec == Init /\ [][Next]_vars
=============================================================================
