--------------------------- MODULE MCMaterialStock ---------------------------
(* Instances of MaterialStock for TLC. *)
EXTENDS MaterialStock, TLC

TwoSlots == {1, 2}
Typed == {1, -2}
One == {1}

Symmetry == Permutations(Requests) \cup Permutations(Orders)
============================================================================
