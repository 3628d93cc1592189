-------------------------- MODULE MCContractorWork --------------------------
(* A planner and an accountant over one or two requests, for TLC. *)
EXTENDS ContractorWork, TLC
CONSTANTS d1, d2, p1, p2, o1, o2, planner, accountant
OrderSymmetry == Permutations(Orders)
=============================================================================
