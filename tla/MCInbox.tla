------------------------------ MODULE MCInbox ------------------------------
(* Instances of Inbox for TLC: a receipt of two lines and a document of a *)
(* type nobody handles.                                                    *)
EXTENDS Inbox, TLC

CONSTANTS receipt, other

WithOther == {receipt, other}
TwoLines == [d \in Documents |-> IF d = receipt THEN <<1, 1>> ELSE <<>>]
SecondUnknown == {<<receipt, 2>>}
ThreeSlots == {1, 2, 3}

One == {1}
Workers == Permutations(Requests)
============================================================================
