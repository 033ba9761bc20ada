---------------------------- MODULE MCInventory -----------------------------
(***************************************************************************)
(* Instances of Inventory.  Two shelves of one product (two warehouses):   *)
(* the first holds a batch that expires and the un-batched row, the second *)
(* an un-batched row.                                                      *)
(***************************************************************************)
EXTENDS Inventory, TLC

CONSTANTS s1, s2, early, late, loose1, loose2

Ln(s, q) == [shelf |-> s, qty |-> q]
Lt(r, q) == [row |-> r, qty |-> q]

\* Two batches on one shelf.
OneShelf == [r \in {early, late} |-> s1]
OneShelfExpiry == [r \in {early, late} |-> IF r = early THEN 1 ELSE 9]
OneDateExpiry == [r \in {early, late} |-> 9]
OneShelfBasket == {<<Ln(s1, 1)>>, <<Ln(s1, 2)>>}
OneShelfDelivery == {<<Lt(early, 1)>>, <<Lt(late, 1), Lt(early, 1)>>}

\* A batch and un-batched stock on one shelf, un-batched stock on the other.
TwoShelves == [r \in {early, loose1, loose2} |-> IF r = loose2 THEN s2 ELSE s1]
TwoShelvesExpiry == [r \in {early, loose1, loose2} |-> IF r = early THEN 1 ELSE 9]
TwoShelvesBasket == {<<Ln(s1, 1)>>, <<Ln(s1, 1), Ln(s2, 1)>>, <<Ln(s2, 1), Ln(s1, 1)>>}
CrossBasket == {<<Ln(s1, 1), Ln(s2, 1)>>, <<Ln(s2, 1), Ln(s1, 1)>>}
TwoShelvesDelivery == {<<Lt(early, 1)>>, <<Lt(loose2, 1), Lt(early, 1)>>}

Symmetry == Permutations(Worker) \cup Permutations(Order)
=============================================================================
