---------------------------- MODULE MCPointOfSale ----------------------------
(* Instances of PointOfSale: tills of one branch. *)
EXTENDS PointOfSale, TLC

CONSTANTS b1, t1, t2

OneCode == [s \in {b1} |-> <<"east", "">>]
AtBranch == [t \in Till |-> b1]

Symmetry == Permutations(Worker) \cup Permutations(Key)
=============================================================================
