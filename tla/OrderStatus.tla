---------------------------- MODULE OrderStatus ----------------------------
(***************************************************************************)
(* The pure half of the order life cycle: the statuses of an order, what   *)
(* the marks of the shop say about it, and which move the state machine    *)
(* permits (internal/orderstate).  No state lives here; OrderProduction    *)
(* calls these operators with what a request has read.                     *)
(***************************************************************************)
EXTENDS Integers, FiniteSets

CONSTANTS Lines,   \* the lines the order may come to have
          Kind,    \* line -> "product" | "resale" (raw material) | "unresolved"
          Works    \* kinds of work a mark may name (routing_stage, or none)

ASSUME KindAssumption == Kind \in [Lines -> {"product", "resale", "unresolved"}]

Statuses == {"NEW", "DRAFT", "CONFIRMED", "IN_PRODUCTION", "READY_TO_SHIP",
             "SHIPPED", "CLOSED", "CANCELLED"}

\* The statuses the marks of the shop may move an order between.
Corridor == {"CONFIRMED", "IN_PRODUCTION", "READY_TO_SHIP"}

\* "" of the code: the marks ask for no change.
Keep == "KEEP"

Marks == {"not_started", "in_progress", "done"}

\* Lines the factory makes; raw material and unmatched lines do not count.
Products == {l \in Lines : Kind[l] = "product"}

\* Lines the shop may mark.  A row that was never created reads as not_started:
\* every test of the code treats the two alike.
Rows == {l \in Lines : Kind[l] # "resale"} \X Works

\* One finished kind of work finishes the line, whichever it is.
LineDone(ms, l) == \E w \in Works : ms[<<l, w>>] = "done"

\* has: the lines the order has when it is read.
AllDone(has, ms) == has \cap Products # {} /\ \A l \in has \cap Products : LineDone(ms, l)

AnyStarted(ms) == \E row \in Rows : ms[row] \in {"in_progress", "done"}

MarksAskFor(has, ms) ==
    IF AllDone(has, ms) THEN "READY_TO_SHIP"
    ELSE IF AnyStarted(ms) THEN "IN_PRODUCTION" ELSE "CONFIRMED"

DeriveStatusFromStages(current, has, ms) ==
    IF current \in Corridor /\ MarksAskFor(has, ms) # current
    THEN MarksAskFor(has, ms) ELSE Keep

(***************************************************************************)
(* The state machine.  current is the status the request has read, the     *)
(* other arguments what it has read of lines, movements and acts.  Checks  *)
(* of the request alone (roles, comment, customer BIN, balance due) can    *)
(* only refuse it, which changes nothing; they are left out.               *)
(***************************************************************************)
\* The guard ORDER_HAS_SHIPMENTS.  It stands before the terminal check.
MayCancel(shipped) == \A l \in Lines : shipped[l] = 0

\* A line the order does not have counts as none of none; an order without lines is
\* shipped in full.
ShippedInFull(shipped, qty) == \A l \in Lines : shipped[l] >= qty[l]

\* Shipment by acts may skip the shop; only from READY_TO_SHIP do the
\* movements of the warehouse count as well.
MayShip_Started(current, shipped, qty, fgOut) ==
    current \in Corridor /\ \E l \in Lines : shipped[l] > 0
MayShip(current, shipped, qty, fgOut) ==
    \/ current \in Corridor /\ ShippedInFull(shipped, qty)
    \/ current = "READY_TO_SHIP" /\ fgOut

MayClose_Unproven(current, acts) == current = "SHIPPED"
MayClose(current, acts) == current = "SHIPPED" /\ acts > 0

MayConfirm(current, has) ==
    /\ current \in {"NEW", "DRAFT"} /\ has # {}
    /\ current = "NEW" => \A l \in has : Kind[l] # "unresolved"

\* IN_PRODUCTION -> READY_TO_SHIP needs every product line done, but the
\* handler passes no product lines (ProductLineIDs: nil), and of no lines at
\* all StageProgress never says AllDone: READY_TO_SHIP has no disjunct.
Transition(current, target, has, ms, shipped, qty, fgOut, acts) ==
    /\ target # current
    /\ \/ target = "CANCELLED" /\ MayCancel(shipped)
       \/ target = "SHIPPED" /\ MayShip(current, shipped, qty, fgOut)
       \/ target = "CLOSED" /\ MayClose(current, acts)
       \/ target = "CONFIRMED" /\ MayConfirm(current, has)
       \/ target = "DRAFT" /\ current = "NEW"
       \/ target = "IN_PRODUCTION" /\ current = "CONFIRMED" /\ AnyStarted(ms)

(***************************************************************************)
(* Synchronisation with 1C (internal/onec): the statuses 1C maps to, and   *)
(* the status a synchronisation writes given the one it read.              *)
(***************************************************************************)
OneCStatuses == {"DRAFT", "CONFIRMED", "IN_PRODUCTION", "READY_TO_SHIP",
                 "CLOSED", "CANCELLED"}

KeepOurs(current, mapped) ==
    mapped = "CONFIRMED" /\ current \in {"NEW", "IN_PRODUCTION", "READY_TO_SHIP", "SHIPPED"}

NextStatus(current, mapped) ==
    IF mapped = Keep \/ KeepOurs(current, mapped) THEN current ELSE mapped
============================================================================
