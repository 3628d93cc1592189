------------------------- MODULE MCOrderProduction -------------------------
(* Instances of OrderProduction for TLC. *)
EXTENDS OrderProduction, TLC

\* Every line is manufactured.
AllProducts == [l \in Lines |-> "product"]

\* Requests are interchangeable, and so are lines of the same kind.
RequestSymmetry == Permutations(Requests)
Symmetry == RequestSymmetry \cup Permutations(Lines)
============================================================================
