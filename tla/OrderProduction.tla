-------------------------- MODULE OrderProduction --------------------------
(***************************************************************************)
(* One order under every writer of its status: the managers' transitions,  *)
(* the marks of the shop, the synchronisation with 1C and the plain PATCH. *)
(* Each request reads, decides and writes in separate steps, the way the   *)
(* handlers do over a READ COMMITTED database; a request may die between   *)
(* any two of them.                                                        *)
(***************************************************************************)
EXTENDS OrderStatus

CONSTANTS Requests,       \* requests that may be in flight at one time
          MaxQty,         \* bound: quantity of a line
          MaxMade,        \* bound: net finished goods of a line
          MaxLedger,      \* bound: distance of completed and cancelled signals
          MaxActs,        \* bound: acceptance acts of the order
          OneCConnected,  \* whether ONEC_BASE_URL is configured
          StatusPatched,  \* whether clients send "status" to PATCH /orders/:id
          StagesPatched   \* whether clients write stages through /production-plan

ASSUME BoundsAssumption ==
    /\ IsFiniteSet(Requests)
    /\ MaxQty \in Nat \ {0} /\ MaxMade \in Nat /\ MaxLedger \in Nat \ {0} /\ MaxActs \in Nat
    /\ OneCConnected \in BOOLEAN /\ StatusPatched \in BOOLEAN /\ StagesPatched \in BOOLEAN

VARIABLES
    status,    \* orders.status
    marks,     \* production_stages of the order, by line and kind of work
    lines,     \* the lines the order has
    qty,       \* order_lines.qty; 0 of a line the order does not have
    made,      \* net of the order's release and cancellation movements, by line
    ledger,    \* production.completed minus production.cancelled in the outbox
    acts,      \* acceptance_acts of the order
    acted,     \* quantity the lines of those acts name
    shipped,   \* order_lines.shipped_qty
    fgOut,     \* shipment movements cover the ordered quantity
    req,       \* the requests in flight and what each has read
    bypassed   \* observation: a status was overwritten unseen or past the state machine

vars == <<status, marks, lines, qty, made, ledger, acts, acted, shipped, fgOut, req, bypassed>>

\* 1C may zero a line of an order we already know; a new line is never empty.
Quantities == [Lines -> 0..MaxQty]

Idle == [phase |-> "idle"]

Request ==
    {Idle}
    \cup [phase: {"read"}, seen: Statuses, has: SUBSET Lines, lots: [Lines -> Nat]]
    \cup [phase: {"staged"}, seen: Statuses, lots: [Lines -> Nat], row: Rows, mark: Marks,
          to: Statuses \cup {Keep}]
    \cup [phase: {"decided"}, seen: Statuses, to: Statuses]
    \cup [phase: {"shipping"}, left: SUBSET Lines, q: Nat]

\* The database holds what its columns say, and the finished goods an order
\* has received never fall below zero (postProductionCancelled takes back only
\* what is still posted).
TypeOK ==
    /\ status \in Statuses
    /\ marks \in [Rows -> Marks]
    /\ lines \in SUBSET Lines
    /\ qty \in [Lines -> Nat] /\ made \in [Lines -> Nat]
    /\ ledger \in Int
    /\ acts \in Nat /\ acted \in [Lines -> Nat] /\ shipped \in [Lines -> Nat]
    /\ fgOut \in BOOLEAN /\ bypassed \in BOOLEAN
    /\ req \in [Requests -> Request]

\* An order 1C was the first to know is created without lines: the synchronisation
\* inserts them.
Init ==
    /\ status = "NEW"
    /\ marks = [row \in Rows |-> "not_started"]
    /\ lines \in SUBSET Lines
    /\ qty \in {q \in Quantities : \A l \in Lines : q[l] > 0 <=> l \in lines}
    /\ made = [l \in Lines |-> 0] /\ ledger = 0
    /\ acts = 0 /\ acted = [l \in Lines |-> 0] /\ shipped = [l \in Lines |-> 0]
    /\ fgOut = FALSE /\ bypassed = FALSE
    /\ req = [r \in Requests |-> Idle]

----------------------------------------------------------------------------
(* Requests                                                                *)

Start(r, record) == req[r] = Idle /\ req' = [req EXCEPT ![r] = record]
Finish(r) == req' = [req EXCEPT ![r] = Idle]

\* The process stops, the client disconnects or the database refuses a
\* statement: what the request has not committed is rolled back.
Crash(r) ==
    /\ req[r] # Idle
    /\ Finish(r)
    /\ UNCHANGED <<status, marks, lines, qty, made, ledger, acts, acted, shipped, fgOut, bypassed>>

\* Marks, transitions and synchronisations all start by reading the order,
\* outside any transaction; what a request goes on to do is its next step.
ReadOrder(r) ==
    /\ Start(r, [phase |-> "read", seen |-> status, has |-> lines, lots |-> qty])
    /\ UNCHANGED <<status, marks, lines, qty, made, ledger, acts, acted, shipped, fgOut, bypassed>>

----------------------------------------------------------------------------
(* UpdateProductionStage: a mark of the shop                               *)

\* The row of the mark is locked until the transaction ends.
RowLocked(row) == \E r \in Requests : req[r].phase = "staged" /\ req[r].row = row

\* In the transaction: the row is written, all stages are read back (the
\* committed ones and this one), and the status they ask for is derived from
\* the status read before.
StageMark(r) ==
    /\ req[r].phase = "read"
    /\ \E row \in Rows, m \in Marks :
          /\ row[1] \in req[r].has /\ ~RowLocked(row)
          /\ req' = [req EXCEPT ![r] =
                [phase |-> "staged", seen |-> @.seen, lots |-> @.lots, row |-> row, mark |-> m,
                 to |-> DeriveStatusFromStages(@.seen, @.has, [marks EXCEPT ![row] = m])]]
    /\ UNCHANGED <<status, marks, lines, qty, made, ledger, acts, acted, shipped, fgOut, bypassed>>

\* UPDATE orders ... WHERE status = o.Status finds the row.
Applies_NotRechecked(q) == q.to # Keep
Applies(q) == q.to # Keep /\ status = q.seen

\* postProductionCompleted: every product line is received into finished goods.
Received(m, lots) == [l \in Lines |-> IF l \in Products THEN m[l] + lots[l] ELSE m[l]]

\* postProductionCancelled: what is still posted (SUM(qty) > 0) is taken back.
RolledBack_CurrentLines(m, lots) == [l \in Lines |-> m[l] - lots[l]]
RolledBack(m, lots) == [l \in Lines |-> IF m[l] > 0 THEN 0 ELSE m[l]]

\* Nothing to derive, or the status has moved since: only the mark is kept.
CommitMark(r) ==
    /\ req[r].phase = "staged" /\ ~Applies(req[r])
    /\ marks' = [marks EXCEPT ![req[r].row] = req[r].mark]
    /\ Finish(r)
    /\ UNCHANGED <<status, lines, qty, made, ledger, acts, acted, shipped, fgOut, bypassed>>

\* The mark moves the order, and entering or leaving READY_TO_SHIP posts.
CommitMarkAndMove(r) ==
    LET q == req[r] IN
    /\ q.phase = "staged" /\ Applies(q)
    /\ marks' = [marks EXCEPT ![q.row] = q.mark]
    /\ status' = q.to
    /\ \/ /\ q.to = "READY_TO_SHIP"
          /\ made' = Received(made, q.lots) /\ ledger' = ledger + 1
       \/ /\ q.to # "READY_TO_SHIP" /\ q.seen = "READY_TO_SHIP"
          /\ made' = RolledBack(made, q.lots) /\ ledger' = ledger - 1
       \/ /\ q.to # "READY_TO_SHIP" /\ q.seen # "READY_TO_SHIP"
          /\ UNCHANGED <<made, ledger>>
    /\ ledger' \in -MaxLedger..MaxLedger /\ \A l \in Lines : made'[l] <= MaxMade
    /\ Finish(r)
    /\ UNCHANGED <<lines, qty, acts, acted, shipped, fgOut, bypassed>>

\* POST /production-plan and PATCH /production-plan/:id/status write a stage
\* row and look no further.
PlanMark ==
    /\ StagesPatched
    /\ \E row \in Rows, m \in Marks :
          /\ row[1] \in lines /\ ~RowLocked(row)
          /\ marks' = [marks EXCEPT ![row] = m]
    /\ UNCHANGED <<status, lines, qty, made, ledger, acts, acted, shipped, fgOut, req, bypassed>>

----------------------------------------------------------------------------
(* transitionOrder: a manager's move                                       *)

\* The rest of the context is read after the order.  A refused request has
\* changed nothing: it ends as Crash does.
DecideMove(r) ==
    /\ req[r].phase = "read"
    /\ \E s \in Statuses \ {"NEW"} :
          /\ Transition(req[r].seen, s, lines, marks, shipped, qty, fgOut, acts)
          /\ req' = [req EXCEPT ![r] = [phase |-> "decided", seen |-> @.seen, to |-> s]]
    /\ UNCHANGED <<status, marks, lines, qty, made, ledger, acts, acted, shipped, fgOut, bypassed>>

\* UPDATE orders ... WHERE id: whatever the status is by now.
WriteMove(r) ==
    /\ req[r].phase = "decided"
    /\ status' = req[r].to
    /\ bypassed' = (bypassed \/ status # req[r].seen)
    /\ Finish(r)
    /\ UNCHANGED <<marks, lines, qty, made, ledger, acts, acted, shipped, fgOut>>

\* PATCH /orders/:id takes "status" among its columns.
PatchStatus ==
    /\ StatusPatched
    /\ status' \in Statuses
    /\ bypassed' = TRUE
    /\ UNCHANGED <<marks, lines, qty, made, ledger, acts, acted, shipped, fgOut, req>>

----------------------------------------------------------------------------
(* SyncClientOrder: 1C overwrites the head and the lines                   *)

\* The status is always among the columns written, the one read included.  A line
\* of 1C writes the quantity of the line it finds among those read with the order,
\* or inserts one: two synchronisations may both insert.
CommitSync(r) ==
    /\ OneCConnected /\ req[r].phase = "read"
    /\ \E mapped \in OneCStatuses \cup {Keep} :
          LET next == NextStatus(req[r].seen, mapped) IN
          /\ status' = next
          /\ bypassed' = (bypassed \/ next # status)
    /\ \E new \in SUBSET (Lines \ lines) :
          /\ lines' = lines \cup new
          /\ qty' \in {q \in Quantities : /\ \A l \in new : q[l] > 0
                                        /\ \A l \in Lines \ (new \cup req[r].has) : q[l] = qty[l]}
    /\ fgOut' \in (IF qty' = qty THEN {fgOut} ELSE BOOLEAN)
    /\ Finish(r)
    /\ UNCHANGED <<marks, made, ledger, acts, acted, shipped>>

----------------------------------------------------------------------------
(* Acceptance acts and the finished goods warehouse                        *)

\* The act and its lines are one transaction; the status of the order and
\* the quantity still to ship are not looked at.
CreateAct(r) ==
    /\ acts < MaxActs
    /\ \E S \in SUBSET lines, n \in 1..MaxQty :
          /\ Start(r, [phase |-> "shipping", left |-> S, q |-> n])
          /\ acted' = [l \in Lines |-> IF l \in S THEN acted[l] + n ELSE acted[l]]
    /\ acts' = acts + 1
    /\ UNCHANGED <<status, marks, lines, qty, made, ledger, shipped, fgOut, bypassed>>

\* After the commit, line by line, each in a transaction of its own.
ShipLine_LineKept(r) ==
    /\ req[r].phase = "shipping"
    /\ \/ \E l \in req[r].left :
            shipped' = [shipped EXCEPT ![l] = @ + req[r].q] /\ UNCHANGED req
       \/ Finish(r) /\ UNCHANGED shipped
    /\ UNCHANGED <<status, marks, lines, qty, made, ledger, acts, acted, fgOut, bypassed>>
ShipLine(r) ==
    /\ req[r].phase = "shipping"
    /\ \/ \E l \in req[r].left :
            /\ shipped' = [shipped EXCEPT ![l] = @ + req[r].q]
            /\ req' = [req EXCEPT ![r].left = @ \ {l}]
       \/ req[r].left = {} /\ Finish(r) /\ UNCHANGED shipped
    /\ UNCHANGED <<status, marks, lines, qty, made, ledger, acts, acted, fgOut, bypassed>>

\* PostFGMovement by hand: a release counts into the order's net, a shipment
\* may bring the shipped total up to the ordered one.
PostRelease ==
    /\ \E l \in Lines, n \in 1..MaxQty :
          made[l] + n <= MaxMade /\ made' = [made EXCEPT ![l] = @ + n]
    /\ UNCHANGED <<status, marks, lines, qty, ledger, acts, acted, shipped, fgOut, req, bypassed>>

PostShipment ==
    /\ ~fgOut /\ fgOut' = TRUE
    /\ UNCHANGED <<status, marks, lines, qty, made, ledger, acts, acted, shipped, req, bypassed>>

----------------------------------------------------------------------------
Next ==
    \/ \E r \in Requests :
          \/ ReadOrder(r)
          \/ StageMark(r) \/ CommitMark(r) \/ CommitMarkAndMove(r)
          \/ DecideMove(r) \/ WriteMove(r) \/ CommitSync(r)
          \/ CreateAct(r) \/ ShipLine(r)
          \/ Crash(r)
    \/ PlanMark \/ PatchStatus \/ PostRelease \/ PostShipment

Spec == Init /\ [][Next]_vars

----------------------------------------------------------------------------
(* What holds whoever writes the status                                    *)

MarkEnds(r) == req[r].phase = "staged" /\ req'[r] = Idle

\* A mark moves an order only between the statuses of the corridor, from the
\* one it has read: an order cancelled, shipped or closed while the mark was
\* being written stays so (the WHERE of UpdateProductionStage).
MarkRespectsOthers ==
    [][\A r \in Requests : MarkEnds(r) /\ status' # status =>
          /\ status \in Corridor /\ status' \in Corridor
          /\ status = req[r].seen]_vars

\* A production.cancelled signal leaves nothing of the order posted, however
\* the lines have changed since production.completed and however often the
\* mark was set and removed (postProductionCancelled).
CancelTakesBackAll ==
    [][ledger' < ledger => \A l \in Lines : made'[l] = 0]_vars

\* The shipped quantity of a line never exceeds what acceptance acts name,
\* whatever dies between the act and the lines (AcceptanceActsHandler.Create).
ShippedBackedByActs == \A l \in Lines : shipped[l] <= acted[l]

(* What holds as long as no status was overwritten                         *)

\* The signals in the outbox agree with the status: an order ready to ship
\* has exactly one open production.completed, an order before that none
\* (UpdateProductionStage under any interleaving of marks and transitions).
LedgerAgrees ==
    ~bypassed =>
        /\ ledger \in {0, 1}
        /\ status = "READY_TO_SHIP" => ledger = 1
        /\ status \in {"NEW", "DRAFT", "CONFIRMED", "IN_PRODUCTION"} => ledger = 0

\* A closed order has an acceptance act, though the act was counted before
\* the status was written (Transition, SHIPPED to CLOSED).
ClosedHasAct == ~bypassed /\ status = "CLOSED" => acts > 0

\* Without 1C repricing the lines, a shipped order is shipped in full, by its
\* acts or by the warehouse: the evidence a transition has read cannot be
\* taken away before it writes (ValidateShippedByActsGuard).
ShippedHasEvidence ==
    ~OneCConnected /\ ~bypassed /\ status \in {"SHIPPED", "CLOSED"} =>
        fgOut \/ \A l \in Lines : shipped[l] >= qty[l]

\* The marks keep the promise of ProductionLedger until a status is overwritten.
Ledger == INSTANCE ProductionLedger WITH
              posted <- ledger = 1, ready <- status = "READY_TO_SHIP", trusted <- ~bypassed
LedgerKept == Ledger!Spec
=============================================================================
