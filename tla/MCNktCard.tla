------------------------------ MODULE MCNktCard ------------------------------
(* Instances of NktCard for TLC. *)
EXTENDS NktCard, TLC

CONSTANTS blank, p1, p2

Entered == {blank, p1, p2}
Valid == {p1, p2}
=============================================================================
