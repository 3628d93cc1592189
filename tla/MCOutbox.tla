------------------------------ MODULE MCOutbox ------------------------------
(* Instances of Outbox for TLC. *)
EXTENDS Outbox, TLC

NoneCancelled == [m \in Messages |-> m]

\* The ticker takes one message at a time and the button two.
OneOrTwo == [f \in Flushers |-> IF f = Ticker THEN 1 ELSE 2]
TwoMessages == {1, 2}
============================================================================
