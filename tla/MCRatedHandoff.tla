---------------------------- MODULE MCRatedHandoff ----------------------------
(* Instances of RatedHandoff for TLC. *)
EXTENDS RatedHandoff, TLC

CONSTANTS o1, o2, d1, d2

(* The read order of unacknowledged_outputs is Subscriptions' own. *)
AnyOrder == [o \in Occurrences |-> 0]
OldestFirst == (o1 :> 1 @@ o2 :> 2)

Symmetry == Permutations(Drainers)
=============================================================================
