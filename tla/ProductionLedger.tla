-------------------------- MODULE ProductionLedger --------------------------
(***************************************************************************)
(* What the marks of the shop promise the rest of the factory: an order's  *)
(* output is posted (production.completed, finished goods received) or it  *)
(* is not, postings and cancellations alternate, and the order is ready    *)
(* for shipment only while its output is posted.  The promise is void once *)
(* somebody else has overwritten the status (trusted becomes FALSE).       *)
(***************************************************************************)
VARIABLES posted, ready, trusted

ledgerVars == <<posted, ready, trusted>>

Init == posted = FALSE /\ ready = FALSE /\ trusted = TRUE

Post == trusted /\ ~posted /\ posted' /\ ready' /\ UNCHANGED trusted

Cancel == trusted /\ posted /\ ready /\ ~posted' /\ ~ready' /\ UNCHANGED trusted

\* Shipment or cancellation of the order: its output stays posted.
Leave == trusted /\ posted /\ ready /\ ~ready' /\ UNCHANGED <<posted, trusted>>

Overwrite == ~trusted' /\ posted' \in BOOLEAN /\ ready' \in BOOLEAN

Next == Post \/ Cancel \/ Leave \/ Overwrite

Spec == Init /\ [][Next]_ledgerVars
=============================================================================
