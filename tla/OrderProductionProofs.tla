----------------------- MODULE OrderProductionProofs -----------------------
(***************************************************************************)
(* Proofs about OrderProduction for any lines, any number of requests in   *)
(* flight and any bounds, and about the outbox that carries to 1C what the *)
(* orders announce.                                                        *)
(*                                                                         *)
(* Of the orders everything rests on one observation: what a request       *)
(* carries between reading and writing (Carried) stays true while other    *)
(* requests write, so that a write which finds the status it has read      *)
(* keeps the agreement of status, signals, acts and shipments.             *)
(***************************************************************************)
EXTENDS OrderProduction, Outbox, SumProofs, TLAPS

----------------------------------------------------------------------------
(* Types                                                                   *)

\* What a request in a known phase carries.
LEMMA RequestShape ==
    ASSUME NEW q \in Request
    PROVE  /\ q.phase = "read" => q.seen \in Statuses /\ q.has \in SUBSET Lines /\ q.lots \in [Lines -> Nat]
           /\ q.phase = "staged" => /\ q.seen \in Statuses /\ q.lots \in [Lines -> Nat]
                                    /\ q.row \in Rows /\ q.mark \in Marks
                                    /\ q.to \in Statuses \cup {Keep}
           /\ q.phase = "decided" => q.seen \in Statuses /\ q.to \in Statuses
           /\ q.phase = "shipping" => /\ q \in [phase: {"shipping"}, left: SUBSET Lines, q: Nat]
                                      /\ q.left \in SUBSET Lines /\ q.q \in Nat
           /\ q = Idle <=> q.phase = "idle"
  BY DEF Request, Idle

\* The marks of the shop ask for a status or for none.
LEMMA DerivedStatus ==
    ASSUME NEW current, NEW has, NEW ms
    PROVE  LET to == DeriveStatusFromStages(current, has, ms) IN
           /\ to \in Statuses \cup {Keep}
           /\ to # Keep => current \in Corridor /\ to \in Corridor /\ to # current
  BY DEF DeriveStatusFromStages, MarksAskFor, Corridor, Statuses, Keep

\* Types are preserved by every step.
LEMMA TypeStep == TypeOK /\ [Next]_vars => TypeOK'
<1> SUFFICES ASSUME TypeOK, [Next]_vars PROVE TypeOK'
  OBVIOUS
<1> USE BoundsAssumption
<1>1. ASSUME NEW r \in Requests, ReadOrder(r) PROVE TypeOK'
  <2>1. [phase |-> "read", seen |-> status, has |-> lines, lots |-> qty] \in Request
    BY DEF Request, TypeOK
  <2> QED
    BY <1>1, <2>1 DEF ReadOrder, Start, TypeOK
<1>2. ASSUME NEW r \in Requests, StageMark(r) PROVE TypeOK'
  <2>1. PICK w \in Rows, m \in Marks :
           req' = [req EXCEPT ![r] =
                [phase |-> "staged", seen |-> @.seen, lots |-> @.lots, row |-> w, mark |-> m,
                 to |-> DeriveStatusFromStages(@.seen, @.has, [marks EXCEPT ![w] = m])]]
    BY <1>2 DEF StageMark
  <2> DEFINE to == DeriveStatusFromStages(req[r].seen, req[r].has, [marks EXCEPT ![w] = m])
  <2>2. to \in Statuses \cup {Keep}
    BY DerivedStatus
  <2>3. req[r].seen \in Statuses /\ req[r].lots \in [Lines -> Nat]
    BY <1>2, RequestShape DEF StageMark, TypeOK
  <2> HIDE DEF to
  <2>4. [phase |-> "staged", seen |-> req[r].seen, lots |-> req[r].lots, row |-> w, mark |-> m,
         to |-> to] \in Request
    BY <2>2, <2>3 DEF Request
  <2>5. req' = [req EXCEPT ![r] =
            [phase |-> "staged", seen |-> req[r].seen, lots |-> req[r].lots, row |-> w, mark |-> m,
             to |-> to]]
    BY <2>1 DEF to
  <2>6. req' \in [Requests -> Request]
    BY <2>4, <2>5 DEF TypeOK
  <2> QED
    BY <1>2, <2>6 DEF StageMark, TypeOK
<1>3. Idle \in Request
  BY DEF Request
<1>4. ASSUME NEW r \in Requests, CommitMark(r) PROVE TypeOK'
  BY <1>3, <1>4, RequestShape DEF CommitMark, Finish, TypeOK
<1>5. ASSUME NEW r \in Requests, CommitMarkAndMove(r) PROVE TypeOK'
  <2>1. req[r].lots \in [Lines -> Nat] /\ req[r].to \in Statuses \cup {Keep} /\ req[r].to # Keep
    BY <1>5, RequestShape DEF CommitMarkAndMove, Applies, TypeOK
  <2>2. marks' \in [Rows -> Marks] /\ req' \in [Requests -> Request]
    BY <1>3, <1>5, RequestShape DEF CommitMarkAndMove, Finish, TypeOK
  <2>3. Received(made, req[r].lots) \in [Lines -> Nat] /\ RolledBack(made, req[r].lots) \in [Lines -> Nat]
    BY <2>1 DEF Received, RolledBack, TypeOK
  <2>4. made' \in [Lines -> Nat] /\ ledger' \in Int
    BY <1>5, <2>3 DEF CommitMarkAndMove, TypeOK
  <2>5. status' \in Statuses
    BY <1>5, <2>1 DEF CommitMarkAndMove
  <2> QED
    BY <1>5, <2>2, <2>4, <2>5 DEF CommitMarkAndMove, TypeOK
<1>6. ASSUME NEW r \in Requests, DecideMove(r) PROVE TypeOK'
  <2>1. PICK s \in Statuses :
           req' = [req EXCEPT ![r] = [phase |-> "decided", seen |-> @.seen, to |-> s]]
    BY <1>6 DEF DecideMove
  <2>2. req[r].seen \in Statuses
    BY <1>6, RequestShape DEF DecideMove, TypeOK
  <2>3. [phase |-> "decided", seen |-> req[r].seen, to |-> s] \in Request
    BY <2>2 DEF Request
  <2> QED
    BY <1>6, <2>1, <2>3 DEF DecideMove, TypeOK
<1>7. ASSUME NEW r \in Requests, WriteMove(r) PROVE TypeOK'
  <2>1. req[r].to \in Statuses
    BY <1>7, RequestShape DEF WriteMove, TypeOK
  <2> QED
    BY <1>3, <1>7, <2>1 DEF WriteMove, Finish, TypeOK
<1>8. ASSUME NEW r \in Requests, CommitSync(r) PROVE TypeOK'
  <2>1. req[r].seen \in Statuses
    BY <1>8, RequestShape DEF CommitSync, TypeOK
  <2>2. PICK mapped \in OneCStatuses \cup {Keep} :
           /\ status' = NextStatus(req[r].seen, mapped)
           /\ bypassed' = (bypassed \/ NextStatus(req[r].seen, mapped) # status)
    BY <1>8 DEF CommitSync
  <2>3. NextStatus(req[r].seen, mapped) \in Statuses
    BY <2>1 DEF NextStatus, OneCStatuses, Statuses, Keep
  <2>4. qty' \in [Lines -> Nat] /\ fgOut' \in BOOLEAN
    BY <1>8 DEF CommitSync, Quantities, TypeOK
  <2> QED
    BY <1>3, <1>8, <2>2, <2>3, <2>4 DEF CommitSync, Finish, TypeOK
<1>9. ASSUME NEW r \in Requests, CreateAct(r) PROVE TypeOK'
  <2>1. PICK S \in SUBSET lines, n \in 1..MaxQty :
           /\ Start(r, [phase |-> "shipping", left |-> S, q |-> n])
           /\ acted' = [l \in Lines |-> IF l \in S THEN acted[l] + n ELSE acted[l]]
    BY <1>9 DEF CreateAct
  <2>2. [phase |-> "shipping", left |-> S, q |-> n] \in Request
    BY DEF Request, TypeOK
  <2>3. req' \in [Requests -> Request]
    BY <2>1, <2>2 DEF Start, TypeOK
  <2>4. acted' \in [Lines -> Nat]
    BY <2>1 DEF TypeOK
  <2> QED
    BY <1>9, <2>3, <2>4 DEF CreateAct, TypeOK
<1>10. ASSUME NEW r \in Requests, ShipLine(r) PROVE TypeOK'
  <2>1. req[r] \in [phase: {"shipping"}, left: SUBSET Lines, q: Nat]
    BY <1>10, RequestShape DEF ShipLine, TypeOK
  <2>2. CASE \E l \in req[r].left : /\ shipped' = [shipped EXCEPT ![l] = @ + req[r].q]
                                    /\ req' = [req EXCEPT ![r].left = @ \ {l}]
    <3>1. PICK l \in req[r].left : /\ shipped' = [shipped EXCEPT ![l] = @ + req[r].q]
                                   /\ req' = [req EXCEPT ![r].left = @ \ {l}]
      BY <2>2
    <3>2. [req[r] EXCEPT !.left = @ \ {l}] \in Request
      BY <2>1 DEF Request
    <3>3. req' \in [Requests -> Request] /\ shipped' \in [Lines -> Nat]
      BY <2>1, <3>1, <3>2 DEF TypeOK
    <3> QED
      BY <1>10, <3>3 DEF ShipLine, TypeOK
  <2>3. CASE Finish(r) /\ UNCHANGED shipped
    BY <1>3, <1>10, <2>3 DEF ShipLine, Finish, TypeOK
  <2> QED
    BY <1>10, <2>2, <2>3 DEF ShipLine
<1>11. ASSUME NEW r \in Requests, Crash(r) PROVE TypeOK'
  BY <1>3, <1>11 DEF Crash, Finish, TypeOK
<1>12. CASE PlanMark
  BY <1>12 DEF PlanMark, TypeOK
<1>13. CASE PatchStatus
  BY <1>13 DEF PatchStatus, TypeOK
<1>14. CASE PostRelease
  BY <1>14 DEF PostRelease, TypeOK
<1>15. CASE PostShipment
  BY <1>15 DEF PostShipment, TypeOK
<1>16. CASE UNCHANGED vars
  BY <1>16 DEF vars, TypeOK
<1> QED
  BY <1>1, <1>2, <1>4, <1>5, <1>6, <1>7, <1>8, <1>9, <1>10, <1>11, <1>12, <1>13, <1>14, <1>15,
     <1>16 DEF Next

\* The initial state has its types.
LEMMA InitialTypes == Init => TypeOK
<1> SUFFICES ASSUME Init PROVE TypeOK
  OBVIOUS
<1>1. Idle \in Request
  BY DEF Request
<1>2. lines \in SUBSET Lines /\ qty \in [Lines -> Nat]
  BY BoundsAssumption DEF Init, Quantities
<1>3. marks \in [Rows -> Marks]
  BY DEF Init, Marks
<1>4. req \in [Requests -> Request]
  BY <1>1 DEF Init
<1>5. status \in Statuses
  BY DEF Init, Statuses
<1>6. made \in [Lines -> Nat] /\ acted \in [Lines -> Nat] /\ shipped \in [Lines -> Nat]
  BY DEF Init
<1>7. ledger \in Int /\ acts \in Nat
  BY DEF Init
<1>8. fgOut \in BOOLEAN /\ bypassed \in BOOLEAN
  BY DEF Init
<1> QED
  BY <1>2, <1>3, <1>4, <1>5, <1>6, <1>7, <1>8 DEF TypeOK

\* The types of the database and of the requests hold in every behaviour; made
\* staying in Nat is the finished goods never taken back twice.
THEOREM TypeCorrect == Spec => []TypeOK
  BY InitialTypes, TypeStep, PTL DEF Spec

----------------------------------------------------------------------------
(* What a request carries while others write                               *)

\* The order has been shipped by its acts or by the warehouse.
Evidence == fgOut \/ \A l \in Lines : shipped[l] >= qty[l]

\* A mark moves within the corridor; a transition has been permitted by the
\* state machine from the status it has seen, on evidence nobody can remove.
Carried(q) ==
    /\ q.phase = "staged" /\ q.to # Keep =>
          q.seen \in Corridor /\ q.to \in Corridor /\ q.to # q.seen
    /\ q.phase = "decided" =>
          /\ q.to \notin {"NEW", "READY_TO_SHIP"}
          /\ q.to = "DRAFT" => q.seen = "NEW"
          /\ q.to = "CONFIRMED" => q.seen \in {"NEW", "DRAFT"}
          /\ q.to = "IN_PRODUCTION" => q.seen = "CONFIRMED"
          /\ q.to = "CLOSED" => q.seen = "SHIPPED" /\ acts > 0
          /\ q.to = "SHIPPED" /\ ~OneCConnected => Evidence

CarriedByAll == \A r \in Requests : Carried(req[r])

OrderInv == TypeOK /\ CarriedByAll /\ LedgerAgrees /\ ClosedHasAct /\ ShippedHasEvidence

\* Acts are never withdrawn, and without 1C neither is evidence of shipment.
LEMMA EvidenceStays ==
    ASSUME TypeOK, [Next]_vars
    PROVE  /\ acts > 0 => acts' > 0
           /\ ~OneCConnected /\ Evidence => Evidence'
<1>1. acts > 0 => acts' > 0
  <2>1. ASSUME NEW r \in Requests, CreateAct(r)  PROVE acts' = acts + 1
    BY <2>1 DEF CreateAct
  <2>2. ASSUME NEW r \in Requests,
               \/ ReadOrder(r) \/ StageMark(r) \/ CommitMark(r) \/ CommitMarkAndMove(r)
               \/ DecideMove(r) \/ WriteMove(r) \/ CommitSync(r) \/ ShipLine(r) \/ Crash(r)
        PROVE  acts' = acts
    BY <2>2 DEF ReadOrder, StageMark, CommitMark, CommitMarkAndMove, DecideMove, WriteMove,
                CommitSync, ShipLine, Crash
  <2>3. ASSUME PlanMark \/ PatchStatus \/ PostRelease \/ PostShipment  PROVE acts' = acts
    BY <2>3 DEF PlanMark, PatchStatus, PostRelease, PostShipment
  <2>4. acts' = acts + 1 \/ acts' = acts
    BY <2>1, <2>2, <2>3 DEF Next, vars
  <2> QED
    BY <2>4 DEF TypeOK
<1>2. ASSUME ~OneCConnected, Evidence PROVE Evidence'
  <2>1. CASE \E r \in Requests : ShipLine(r)
    <3>1. PICK r \in Requests : ShipLine(r)
      BY <2>1
    <3>2. req[r].left \in SUBSET Lines /\ req[r].q \in Nat
      BY <3>1, RequestShape DEF ShipLine, TypeOK
    <3>3. \A l \in Lines : shipped'[l] >= shipped[l]
      BY <3>1, <3>2 DEF ShipLine, TypeOK
    <3>4. \A l \in Lines : shipped'[l] \in Nat
      BY <3>1, <3>2 DEF ShipLine, TypeOK
    <3> QED
      BY <1>2, <3>1, <3>3, <3>4 DEF ShipLine, Evidence, TypeOK
  <2>2. CASE PostShipment
    BY <2>2 DEF PostShipment, Evidence
  <2>3. CASE ~PostShipment /\ ~(\E r \in Requests : ShipLine(r))
    <3>1. UNCHANGED <<fgOut, shipped, qty>>
      BY <1>2, <2>3 DEF Next, vars, ReadOrder, StageMark, CommitMark, CommitMarkAndMove,
         DecideMove, WriteMove, CommitSync, CreateAct, Crash, PlanMark, PatchStatus, PostRelease
    <3> QED
      BY <1>2, <3>1 DEF Evidence
  <2> QED
    BY <2>1, <2>2, <2>3
<1> QED
  BY <1>1, <1>2

\* A request nobody touches keeps what it carries.
LEMMA CarriedStays ==
    ASSUME TypeOK, [Next]_vars, NEW r \in Requests, Carried(req[r]), req'[r] = req[r]
    PROVE  Carried(req[r])'
  BY EvidenceStays DEF Carried

\* Requests carry, after every step, only what the order still supports.
LEMMA CarriedStep ==
    ASSUME TypeOK, CarriedByAll, [Next]_vars
    PROVE  CarriedByAll'
<1> SUFFICES ASSUME NEW r \in Requests, req'[r] # req[r] PROVE Carried(req[r])'
  BY CarriedStays DEF CarriedByAll
<1>1. CASE StageMark(r)
  <2>1. PICK w \in Rows, m \in Marks :
           req' = [req EXCEPT ![r] =
                [phase |-> "staged", seen |-> @.seen, lots |-> @.lots, row |-> w, mark |-> m,
                 to |-> DeriveStatusFromStages(@.seen, @.has, [marks EXCEPT ![w] = m])]]
    BY <1>1 DEF StageMark
  <2>2. /\ req'[r].phase = "staged" /\ req'[r].seen = req[r].seen
        /\ req'[r].to = DeriveStatusFromStages(req[r].seen, req[r].has, [marks EXCEPT ![w] = m])
    BY <2>1 DEF TypeOK
  <2>3. req'[r].to # Keep =>
           req'[r].seen \in Corridor /\ req'[r].to \in Corridor /\ req'[r].to # req'[r].seen
    BY <2>2, DerivedStatus
  <2> QED
    BY <2>2, <2>3 DEF Carried
<1>2. CASE DecideMove(r)
  <2>1. PICK s \in Statuses \ {"NEW"} :
           /\ Transition(req[r].seen, s, lines, marks, shipped, qty, fgOut, acts)
           /\ req' = [req EXCEPT ![r] = [phase |-> "decided", seen |-> @.seen, to |-> s]]
           /\ UNCHANGED <<acts, fgOut, shipped, qty>>
    BY <1>2 DEF DecideMove
  <2>2. req'[r] = [phase |-> "decided", seen |-> req[r].seen, to |-> s]
    BY <2>1 DEF TypeOK
  <2>3. /\ s # "READY_TO_SHIP"
        /\ s = "DRAFT" => req[r].seen = "NEW"
        /\ s = "CONFIRMED" => req[r].seen \in {"NEW", "DRAFT"}
        /\ s = "IN_PRODUCTION" => req[r].seen = "CONFIRMED"
        /\ s = "CLOSED" => req[r].seen = "SHIPPED" /\ acts > 0
        /\ s = "SHIPPED" => Evidence
    BY <2>1 DEF Transition, MayConfirm, MayClose, MayShip, ShippedInFull, Evidence
  <2> QED
    BY <2>1, <2>2, <2>3 DEF Carried, Evidence
<1>3. CASE req'[r].phase \in {"idle", "read", "shipping"}
  BY <1>3 DEF Carried
<1>4. ASSUME ~StageMark(r), ~DecideMove(r) PROVE req'[r].phase \in {"idle", "read", "shipping"}
  <2>1. PICK s \in Requests :
           \/ ReadOrder(s) \/ StageMark(s) \/ CommitMark(s) \/ CommitMarkAndMove(s)
           \/ DecideMove(s) \/ WriteMove(s) \/ CommitSync(s) \/ CreateAct(s) \/ ShipLine(s)
           \/ Crash(s)
    BY DEF Next, vars, PlanMark, PatchStatus, PostRelease, PostShipment
  <2>2. s = r
    BY <2>1 DEF TypeOK, ReadOrder, Start, StageMark, CommitMark, CommitMarkAndMove, DecideMove,
                WriteMove, CommitSync, CreateAct, ShipLine, Crash, Finish
  <2>3. CASE ReadOrder(r)
    BY <2>3 DEF ReadOrder, Start, TypeOK
  <2>4. CASE CreateAct(r)
    BY <2>4 DEF CreateAct, Start, TypeOK
  <2>5. CASE ShipLine(r) /\ ~Finish(r)
    <3>1. req[r] \in [phase: {"shipping"}, left: SUBSET Lines, q: Nat]
      BY <2>5, RequestShape DEF ShipLine, TypeOK
    <3> QED
      BY <2>5, <3>1 DEF ShipLine, TypeOK
  <2>6. CASE Finish(r)
    BY <2>6 DEF Finish, Idle, TypeOK
  <2> QED
    BY <1>4, <2>1, <2>2, <2>3, <2>4, <2>5, <2>6
       DEF CommitMark, CommitMarkAndMove, WriteMove, CommitSync, Crash
<1> QED
  BY <1>1, <1>2, <1>3, <1>4
----------------------------------------------------------------------------
(* The status, the signals, the acts and the shipments                     *)

\* Where a write that finds the status it has read takes the order.
LEMMA StatusStep == OrderInv /\ [Next]_vars => (LedgerAgrees /\ ClosedHasAct /\ ShippedHasEvidence)'
<1> SUFFICES ASSUME OrderInv, [Next]_vars
             PROVE  (LedgerAgrees /\ ClosedHasAct /\ ShippedHasEvidence)'
  OBVIOUS
<1> USE DEF OrderInv
<1>1. /\ acts > 0 => acts' > 0
      /\ ~OneCConnected /\ Evidence => Evidence'
  BY EvidenceStays
<1>2. ASSUME status' = status, ledger' = ledger, bypassed' = bypassed
      PROVE  (LedgerAgrees /\ ClosedHasAct /\ ShippedHasEvidence)'
  BY <1>1, <1>2 DEF LedgerAgrees, ClosedHasAct, ShippedHasEvidence, Evidence
<1>3. ASSUME bypassed' PROVE (LedgerAgrees /\ ClosedHasAct /\ ShippedHasEvidence)'
  BY <1>3 DEF LedgerAgrees, ClosedHasAct, ShippedHasEvidence
<1>4. ASSUME NEW r \in Requests, CommitMarkAndMove(r)
      PROVE  (LedgerAgrees /\ ClosedHasAct /\ ShippedHasEvidence)'
  <2> DEFINE q == req[r]
  <2>1. q.seen \in Corridor /\ q.to \in Corridor /\ q.to # q.seen
    BY <1>4 DEF CommitMarkAndMove, Applies, CarriedByAll, Carried
  <2>2. /\ status = q.seen /\ status' = q.to /\ bypassed' = bypassed
        /\ ledger' = IF q.to = "READY_TO_SHIP" THEN ledger + 1
                     ELSE IF q.seen = "READY_TO_SHIP" THEN ledger - 1 ELSE ledger
    BY <1>4 DEF CommitMarkAndMove, Applies
  <2>3. LedgerAgrees'
    BY <2>1, <2>2 DEF LedgerAgrees, Corridor, TypeOK
  <2>4. ClosedHasAct' /\ ShippedHasEvidence'
    BY <2>1, <2>2 DEF ClosedHasAct, ShippedHasEvidence, Corridor
  <2> QED
    BY <2>3, <2>4
<1>5. ASSUME NEW r \in Requests, WriteMove(r), ~bypassed'
      PROVE  (LedgerAgrees /\ ClosedHasAct /\ ShippedHasEvidence)'
  <2>1. /\ req[r].phase = "decided" /\ status = req[r].seen /\ status' = req[r].to
        /\ UNCHANGED <<ledger, acts, fgOut, shipped, qty>> /\ ~bypassed
    BY <1>5 DEF WriteMove
  <2>2. Carried(req[r]) /\ req[r].to \in Statuses
    BY <2>1, RequestShape DEF CarriedByAll, TypeOK
  <2>3. LedgerAgrees'
    BY <2>1, <2>2 DEF LedgerAgrees, Carried, Statuses
  <2>4. ClosedHasAct' /\ ShippedHasEvidence'
    BY <2>1, <2>2 DEF ClosedHasAct, ShippedHasEvidence, Carried, Evidence
  <2> QED
    BY <2>3, <2>4
<1>6. ASSUME NEW r \in Requests, CommitSync(r), ~bypassed'
      PROVE  status' = status /\ ledger' = ledger /\ bypassed' = bypassed
  BY <1>6 DEF CommitSync, TypeOK
<1>7. CASE UNCHANGED <<status, ledger, bypassed>>
  BY <1>2, <1>7
<1>8. CASE \E r \in Requests :
             \/ ReadOrder(r) \/ StageMark(r) \/ CommitMark(r) \/ DecideMove(r) \/ CreateAct(r)
             \/ ShipLine(r) \/ Crash(r)
  BY <1>7, <1>8 DEF ReadOrder, StageMark, CommitMark, DecideMove, CreateAct, ShipLine, Crash
<1>9. CASE PlanMark \/ PostRelease \/ PostShipment
  BY <1>7, <1>9 DEF PlanMark, PostRelease, PostShipment
<1>10. CASE PatchStatus
  BY <1>3, <1>10 DEF PatchStatus
<1> QED
  BY <1>2, <1>3, <1>4, <1>5, <1>6, <1>7, <1>8, <1>9, <1>10 DEF Next, vars

\* Requests in flight never carry anything the order no longer supports.
LEMMA OrderInvariant == Spec => []OrderInv
<1>1. Init => OrderInv
  <2>1. Init => CarriedByAll
    BY DEF Init, CarriedByAll, Carried, Idle
  <2>2. Init => LedgerAgrees /\ ClosedHasAct /\ ShippedHasEvidence
    BY DEF Init, LedgerAgrees, ClosedHasAct, ShippedHasEvidence
  <2>3. Init => TypeOK
    BY InitialTypes
  <2> QED
    BY <2>1, <2>2, <2>3 DEF OrderInv
<1>2. OrderInv /\ [Next]_vars => OrderInv'
  BY TypeStep, CarriedStep, StatusStep DEF OrderInv
<1> QED
  BY <1>1, <1>2, PTL DEF Spec

\* LedgerAgrees: an order ready to ship has exactly one open
\* production.completed and one before that none, for any lines and requests.
THEOREM SignalsAgree == Spec => []LedgerAgrees
  BY OrderInvariant, PTL DEF OrderInv

\* ClosedHasAct: no closed order is without an acceptance act.
THEOREM ClosedOrdersHaveActs == Spec => []ClosedHasAct
  BY OrderInvariant, PTL DEF OrderInv

\* ShippedHasEvidence: without 1C no shipped order is short of its quantity.
THEOREM ShipmentsAreBacked == Spec => []ShippedHasEvidence
  BY OrderInvariant, PTL DEF OrderInv

\* MarkRespectsOthers: a mark never moves an order somebody else has moved.
THEOREM MarksRespectOthers == Spec => MarkRespectsOthers
<1>1. OrderInv /\ [Next]_vars =>
         [\A r \in Requests : MarkEnds(r) /\ status' # status =>
             /\ status \in Corridor /\ status' \in Corridor
             /\ status = req[r].seen]_vars
  <2> SUFFICES ASSUME OrderInv, [Next]_vars, NEW r \in Requests, MarkEnds(r), status' # status
               PROVE  status \in Corridor /\ status' \in Corridor /\ status = req[r].seen
    OBVIOUS
  <2>1. req[r].phase = "staged" /\ req'[r] # req[r]
    BY DEF MarkEnds, Idle
  <2>2. CommitMarkAndMove(r)
    BY <2>1 DEF OrderInv, TypeOK, Next, vars, ReadOrder, Start, StageMark, CommitMark,
                CommitMarkAndMove, DecideMove, WriteMove, CommitSync, CreateAct, ShipLine, Crash,
                Finish, PlanMark, PatchStatus, PostRelease, PostShipment
  <2> QED
    BY <2>1, <2>2 DEF OrderInv, CarriedByAll, Carried, CommitMarkAndMove, Applies
<1> QED
  BY <1>1, OrderInvariant, PTL DEF Spec, MarkRespectsOthers

\* CancelTakesBackAll: a cancellation leaves nothing of the order posted.
THEOREM CancellationsTakeBackAll == Spec => CancelTakesBackAll
<1>1. TypeOK /\ [Next]_vars => [ledger' < ledger => \A l \in Lines : made'[l] = 0]_vars
  <2> SUFFICES ASSUME TypeOK, [Next]_vars, ledger' < ledger PROVE \A l \in Lines : made'[l] = 0
    OBVIOUS
  <2>1. PICK r \in Requests : CommitMarkAndMove(r)
    BY DEF TypeOK, Next, vars, ReadOrder, StageMark, CommitMark, DecideMove, WriteMove,
           CommitSync, CreateAct, ShipLine, Crash, PlanMark, PatchStatus, PostRelease, PostShipment
  <2>2. made' = RolledBack(made, req[r].lots)
    BY <2>1 DEF CommitMarkAndMove, TypeOK
  <2> QED
    BY <2>2 DEF RolledBack, TypeOK
<1> QED
  BY <1>1, TypeCorrect, PTL DEF Spec, CancelTakesBackAll

----------------------------------------------------------------------------
(* The marks implement ProductionLedger                                    *)

\* LedgerKept: postings and cancellations alternate, and an order is ready
\* only while its output is posted, until a status is overwritten.
THEOREM MarksKeepLedger == Spec => LedgerKept
<1>1. Init => Ledger!Init
  BY DEF Init, Ledger!Init
<1>2. OrderInv /\ [Next]_vars => [Ledger!Next]_(Ledger!ledgerVars)
  <2> SUFFICES ASSUME OrderInv, [Next]_vars PROVE [Ledger!Next]_(Ledger!ledgerVars)
    OBVIOUS
  <2> USE DEF OrderInv
  <2>1. CASE bypassed'
    BY <2>1 DEF Ledger!Next, Ledger!Overwrite
  <2>2. ASSUME NEW r \in Requests, CommitMarkAndMove(r), ~bypassed'
        PROVE  [Ledger!Next]_(Ledger!ledgerVars)
    <3>1. /\ req[r].seen \in Corridor /\ req[r].to \in Corridor /\ req[r].to # req[r].seen
          /\ status = req[r].seen /\ status' = req[r].to /\ bypassed' = bypassed
      BY <2>2 DEF CommitMarkAndMove, Applies, CarriedByAll, Carried
    <3>2. CASE req[r].to = "READY_TO_SHIP"
      <4>1. ledger = 0 /\ ledger' = 1 /\ status' = "READY_TO_SHIP" /\ ~bypassed
        BY <2>2, <3>1, <3>2 DEF CommitMarkAndMove, LedgerAgrees, Corridor
      <4> QED
        BY <2>2, <4>1 DEF Ledger!Next, Ledger!Post
    <3>3. CASE req[r].seen = "READY_TO_SHIP"
      <4>1. /\ ledger = 1 /\ ledger' = 0 /\ ~bypassed
            /\ status = "READY_TO_SHIP" /\ status' # "READY_TO_SHIP"
        BY <2>2, <3>1, <3>3 DEF CommitMarkAndMove, LedgerAgrees
      <4> QED
        BY <2>2, <4>1 DEF Ledger!Next, Ledger!Cancel
    <3>4. CASE req[r].to # "READY_TO_SHIP" /\ req[r].seen # "READY_TO_SHIP"
      BY <2>2, <3>1, <3>4 DEF CommitMarkAndMove, Ledger!ledgerVars
    <3> QED
      BY <3>2, <3>3, <3>4
  <2>3. ASSUME NEW r \in Requests, WriteMove(r), ~bypassed'
        PROVE  [Ledger!Next]_(Ledger!ledgerVars)
    <3>1. /\ status = req[r].seen /\ status' # "READY_TO_SHIP" /\ ledger' = ledger
          /\ ~bypassed /\ ~bypassed'
      BY <2>3 DEF WriteMove, CarriedByAll, Carried
    <3>2. CASE status = "READY_TO_SHIP"
      <4>1. ledger = 1
        BY <3>1, <3>2 DEF LedgerAgrees
      <4> QED
        BY <3>1, <3>2, <4>1 DEF Ledger!Next, Ledger!Leave
    <3>3. CASE status # "READY_TO_SHIP"
      BY <3>1, <3>3 DEF Ledger!ledgerVars
    <3> QED
      BY <3>2, <3>3
  <2>4. CASE UNCHANGED <<status, ledger, bypassed>>
    BY <2>4 DEF Ledger!ledgerVars
  <2>5. ASSUME NEW r \in Requests, CommitSync(r), ~bypassed'
        PROVE  UNCHANGED <<status, ledger, bypassed>>
    BY <2>5 DEF CommitSync, TypeOK
  <2>6. CASE \E r \in Requests :
               \/ ReadOrder(r) \/ StageMark(r) \/ CommitMark(r) \/ DecideMove(r) \/ CreateAct(r)
               \/ ShipLine(r) \/ Crash(r)
    BY <2>4, <2>6 DEF ReadOrder, StageMark, CommitMark, DecideMove, CreateAct, ShipLine, Crash
  <2>7. CASE PlanMark \/ PostRelease \/ PostShipment
    BY <2>4, <2>7 DEF PlanMark, PostRelease, PostShipment
  <2>8. CASE PatchStatus
    BY <2>1, <2>8 DEF PatchStatus
  <2> QED
    BY <2>1, <2>2, <2>3, <2>4, <2>5, <2>6, <2>7, <2>8 DEF Next, vars
<1> QED
  BY <1>1, <1>2, OrderInvariant, PTL DEF Spec, LedgerKept, Ledger!Spec

----------------------------------------------------------------------------
(* Acts and what is shipped of them                                        *)

\* What a request still has to ship of a line of its act.
ToShip(r, l) == IF req[r].phase = "shipping" /\ l \in req[r].left THEN req[r].q ELSE 0

OnTheWay(l) == SumFunctionOnSet([r \in Requests |-> ToShip(r, l)], Requests)

\* What is shipped and what is on its way never exceed what the acts name: the
\* act is written first, and a line leaves the request as it is shipped.
Backing == \A l \in Lines : shipped[l] + OnTheWay(l) <= acted[l]

\* What is to be shipped is a quantity, and so is the sum of it.
LEMMA ToShipTypes ==
    ASSUME TypeOK, NEW l \in Lines
    PROVE  (\A r \in Requests : ToShip(r, l) \in Nat) /\ OnTheWay(l) \in Nat
<1>1. \A r \in Requests : ToShip(r, l) \in Nat
  BY RequestShape DEF ToShip, TypeOK
<1> DEFINE due == [r \in Requests |-> ToShip(r, l)]
<1>2. (\A r \in Requests : due[r] \in Nat) /\ OnTheWay(l) = SumFunctionOnSet(due, Requests)
  BY <1>1 DEF OnTheWay
<1> HIDE DEF due
<1> QED
  BY <1>1, <1>2, BoundsAssumption, SumNat

\* A step of one request changes what is on its way by what that request has.
LEMMA OnTheWayChanges ==
    ASSUME TypeOK, TypeOK', NEW l \in Lines, NEW r \in Requests,
           \A p \in Requests : p # r => req'[p] = req[p]
    PROVE  OnTheWay(l)' = OnTheWay(l) + (ToShip(r, l)' - ToShip(r, l))
<1> DEFINE a == [p \in Requests |-> ToShip(p, l)]
           b == [p \in Requests |-> ToShip(p, l)']
<1>1. \A p \in Requests : ToShip(p, l) \in Nat /\ ToShip(p, l)' \in Nat
  <2>1. \A p \in Requests : req[p] \in Request /\ req'[p] \in Request
    BY DEF TypeOK
  <2>2. \A q \in Request : q.phase = "shipping" => q.q \in Nat
    BY RequestShape
  <2> QED
    BY <2>1, <2>2 DEF ToShip
<1>2. \A p \in Requests \ {r} : ToShip(p, l)' = ToShip(p, l)
  BY DEF ToShip
<1>3. /\ \A p \in Requests : a[p] \in Int /\ b[p] \in Int
      /\ \A p \in Requests \ {r} : b[p] = a[p]
      /\ a[r] = ToShip(r, l) /\ b[r] = ToShip(r, l)'
  BY <1>1, <1>2
<1>4. OnTheWay(l) = SumFunctionOnSet(a, Requests) /\ OnTheWay(l)' = SumFunctionOnSet(b, Requests)
  BY DEF OnTheWay
<1> HIDE DEF a, b
<1>5. SumFunctionOnSet(b, Requests) = SumFunctionOnSet(a, Requests) + (b[r] - a[r])
  BY <1>3, BoundsAssumption, SumChange
<1> QED
  BY <1>3, <1>4, <1>5

\* A step that neither acts nor ships leaves the backing, whatever it ends.
LEMMA BackingStays ==
    ASSUME TypeOK, TypeOK', Backing, UNCHANGED <<shipped, acted>>, NEW r \in Requests,
           \A p \in Requests : p # r => req'[p] = req[p],
           req'[r].phase = "shipping" => req'[r] = req[r]
    PROVE  Backing'
<1> SUFFICES ASSUME NEW l \in Lines PROVE (shipped[l] + OnTheWay(l) <= acted[l])'
  BY DEF Backing
<1>1. ToShip(r, l) \in Nat /\ OnTheWay(l) \in Nat /\ ToShip(r, l)' \in Nat
  <2>1. req[r] \in Request /\ req'[r] \in Request
    BY DEF TypeOK
  <2> QED
    BY <2>1, ToShipTypes, RequestShape DEF ToShip
<1>2. ToShip(r, l)' <= ToShip(r, l)
  BY <1>1 DEF ToShip
<1>3. OnTheWay(l)' = OnTheWay(l) + (ToShip(r, l)' - ToShip(r, l))
  BY OnTheWayChanges
<1>4. shipped[l] \in Nat /\ acted[l] \in Nat /\ shipped[l] + OnTheWay(l) <= acted[l]
  BY DEF TypeOK, Backing
<1> QED
  BY <1>1, <1>2, <1>3, <1>4

\* An act backs the lines it names, and each of them is shipped once.
LEMMA BackingStep == TypeOK /\ TypeOK' /\ Backing /\ [Next]_vars => Backing'
<1> SUFFICES ASSUME TypeOK, TypeOK', Backing, [Next]_vars PROVE Backing'
  OBVIOUS
<1> USE BoundsAssumption
<1>0. req \in [Requests -> Request] /\ shipped \in [Lines -> Nat] /\ acted \in [Lines -> Nat]
  BY DEF TypeOK
<1>1. ASSUME NEW r \in Requests,
             ReadOrder(r) \/ StageMark(r) \/ CommitMark(r) \/ CommitMarkAndMove(r) \/ DecideMove(r)
             \/ WriteMove(r) \/ CommitSync(r) \/ Crash(r)
      PROVE  Backing'
  <2>1. UNCHANGED <<shipped, acted>>
    BY <1>1 DEF ReadOrder, StageMark, CommitMark, CommitMarkAndMove, DecideMove, WriteMove,
               CommitSync, Crash
  <2>2. \A p \in Requests : p # r => req'[p] = req[p]
    BY <1>0, <1>1 DEF ReadOrder, Start, StageMark, CommitMark, CommitMarkAndMove, DecideMove,
               WriteMove, CommitSync, Crash, Finish
  <2>3. req'[r].phase # "shipping"
    <3>1. CASE ReadOrder(r)
      BY <1>0, <3>1 DEF ReadOrder, Start
    <3>2. CASE StageMark(r)
      BY <1>0, <3>2 DEF StageMark
    <3>3. CASE DecideMove(r)
      BY <1>0, <3>3 DEF DecideMove
    <3>4. CASE CommitMark(r) \/ CommitMarkAndMove(r) \/ WriteMove(r) \/ CommitSync(r) \/ Crash(r)
      BY <1>0, <3>4 DEF CommitMark, CommitMarkAndMove, WriteMove, CommitSync, Crash, Finish, Idle
    <3> QED
      BY <1>1, <3>1, <3>2, <3>3, <3>4
  <2> QED
    BY <2>1, <2>2, <2>3, BackingStays
<1>2. ASSUME NEW r \in Requests, CreateAct(r) PROVE Backing'
  <2>1. PICK S \in SUBSET lines, n \in 1..MaxQty :
           /\ Start(r, [phase |-> "shipping", left |-> S, q |-> n])
           /\ acted' = [l \in Lines |-> IF l \in S THEN acted[l] + n ELSE acted[l]]
    BY <1>2 DEF CreateAct
  <2>2. /\ req[r].phase = "idle" /\ shipped' = shipped
        /\ req'[r] = [phase |-> "shipping", left |-> S, q |-> n]
        /\ \A p \in Requests : p # r => req'[p] = req[p]
    BY <1>0, <1>2, <2>1 DEF CreateAct, Start, Idle
  <2>3. ASSUME NEW l \in Lines PROVE (shipped[l] + OnTheWay(l) <= acted[l])'
    <3>1. ToShip(r, l) = 0 /\ ToShip(r, l)' = IF l \in S THEN n ELSE 0
      BY <2>2 DEF ToShip
    <3>2. OnTheWay(l)' = OnTheWay(l) + (ToShip(r, l)' - ToShip(r, l)) /\ OnTheWay(l) \in Nat
      BY <2>2, <2>3, OnTheWayChanges, ToShipTypes
    <3>3. shipped[l] + OnTheWay(l) <= acted[l] /\ shipped[l] \in Nat /\ acted[l] \in Nat
      BY <1>0, <2>3 DEF Backing
    <3>4. acted'[l] = IF l \in S THEN acted[l] + n ELSE acted[l]
      BY <2>1, <2>3
    <3> QED
      BY <2>2, <3>1, <3>2, <3>3, <3>4
  <2> QED
    BY <2>3 DEF Backing
<1>3. ASSUME NEW r \in Requests, ShipLine(r) PROVE Backing'
  <2>1. /\ req[r].phase = "shipping" /\ acted' = acted
        /\ req[r].left \in SUBSET Lines /\ req[r].q \in Nat
        /\ req[r] \in [phase: {"shipping"}, left: SUBSET Lines, q: Nat]
    BY <1>0, <1>3, RequestShape DEF ShipLine
  <2>2. CASE Finish(r) /\ UNCHANGED shipped
    <3>1. req'[r].phase = "idle" /\ \A p \in Requests : p # r => req'[p] = req[p]
      BY <1>0, <2>2 DEF Finish, Idle
    <3> QED
      BY <2>1, <2>2, <3>1, BackingStays
  <2>3. ASSUME NEW k \in req[r].left, shipped' = [shipped EXCEPT ![k] = @ + req[r].q],
               req' = [req EXCEPT ![r].left = @ \ {k}]
        PROVE  Backing'
    <3>1. /\ req'[r].phase = "shipping" /\ req'[r].left = req[r].left \ {k} /\ req'[r].q = req[r].q
          /\ \A p \in Requests : p # r => req'[p] = req[p]
      BY <1>0, <2>1, <2>3
    <3>2. ASSUME NEW l \in Lines PROVE (shipped[l] + OnTheWay(l) <= acted[l])'
      <4>1. OnTheWay(l)' = OnTheWay(l) + (ToShip(r, l)' - ToShip(r, l)) /\ OnTheWay(l) \in Nat
        BY <3>1, <3>2, OnTheWayChanges, ToShipTypes
      <4>2. shipped[l] + OnTheWay(l) <= acted[l] /\ shipped[l] \in Nat /\ acted[l] \in Nat
        BY <1>0, <3>2 DEF Backing
      <4>3. CASE l = k
        <5>1. ToShip(r, l) = req[r].q /\ ToShip(r, l)' = 0 /\ shipped'[l] = shipped[l] + req[r].q
          BY <1>0, <2>1, <2>3, <3>1, <3>2, <4>3 DEF ToShip
        <5> QED
          BY <2>1, <4>1, <4>2, <5>1
      <4>4. CASE l # k
        <5>1. ToShip(r, l)' = ToShip(r, l) /\ shipped'[l] = shipped[l] /\ ToShip(r, l) \in Nat
          BY <1>0, <2>1, <2>3, <3>1, <3>2, <4>4 DEF ToShip
        <5> QED
          BY <2>1, <4>1, <4>2, <5>1
      <4> QED
        BY <4>3, <4>4
    <3> QED
      BY <3>2 DEF Backing
  <2> QED
    BY <1>3, <2>2, <2>3 DEF ShipLine
<1>4. CASE PlanMark \/ PatchStatus \/ PostRelease \/ PostShipment \/ UNCHANGED vars
  <2>1. UNCHANGED <<shipped, acted, req>>
    BY <1>4 DEF PlanMark, PatchStatus, PostRelease, PostShipment, vars
  <2> QED
    BY <2>1 DEF Backing, OnTheWay, ToShip
<1> QED
  BY <1>1, <1>2, <1>3, <1>4 DEF Next

\* ShippedBackedByActs: whatever dies between an act and its lines, no line is
\* shipped beyond what the acts of the order name.
THEOREM ShipmentsHaveActs == Spec => []ShippedBackedByActs
<1>1. Init => Backing
  <2> SUFFICES ASSUME Init, NEW l \in Lines PROVE shipped[l] + OnTheWay(l) <= acted[l]
    BY DEF Backing
  <2> DEFINE due == [r \in Requests |-> ToShip(r, l)]
  <2>1. \A r \in Requests : due[r] = 0
    BY DEF Init, ToShip, Idle
  <2>2. OnTheWay(l) = SumFunctionOnSet(due, Requests)
    BY DEF OnTheWay
  <2> HIDE DEF due
  <2>3. OnTheWay(l) = 0
    BY <2>1, <2>2, BoundsAssumption, SumZero
  <2> QED
    BY <2>3 DEF Init
<1>2. TypeOK /\ Backing => ShippedBackedByActs
  <2> SUFFICES ASSUME TypeOK, Backing, NEW l \in Lines PROVE shipped[l] <= acted[l]
    BY DEF ShippedBackedByActs
  <2>1. OnTheWay(l) \in Nat /\ shipped[l] \in Nat /\ acted[l] \in Nat
    BY ToShipTypes DEF TypeOK
  <2>2. shipped[l] + OnTheWay(l) <= acted[l]
    BY DEF Backing
  <2> QED
    BY <2>1, <2>2
<1> QED
  BY <1>1, <1>2, TypeCorrect, BackingStep, PTL DEF Spec

----------------------------------------------------------------------------
(***************************************************************************)
(* The outbox: what the orders announce, sent to 1C by any number of       *)
(* flushes.                                                                *)
(***************************************************************************)
\* What makes SentWasTaken and DeadHasFailed inductive: a flush that takes a
\* message for sent has handed it over, and neither a row that is not sent nor
\* the copy a flush has read counts more attempts than have failed.
HandedOver == \A f \in Flushers :
    work[f].phase = "accepted" => \A m \in Messages : IsHead(f, m) => m \in got
RowsCountFailures == \A m \in Messages :
    row[m].status # "SENT" => failed[m] >= row[m].attempts
CopiesCountFailures == \A f \in Flushers :
    work[f] # NoFlush => \A m \in work[f].left : failed[m] >= work[f].seen[m]
DeadIsExhausted == \A m \in Messages :
    row[m].status = "DEAD" => row[m].attempts >= MaxAttempts

OutboxInv ==
    /\ OutboxTypeOK /\ SentWasTaken
    /\ HandedOver /\ RowsCountFailures /\ CopiesCountFailures /\ DeadIsExhausted

\* A flush under way has a batch and what it has read of it.
LEMMA WorkShape ==
  ASSUME NEW w \in Work, w.phase \in {"sending", "accepted", "refused"}
  PROVE  /\ w.left \subseteq Messages
         /\ w.seen \in [Messages -> Nat]
         /\ w # NoFlush
         /\ w \in [phase : {"sending", "accepted", "refused"}, left : SUBSET Messages,
                   seen : [Messages -> Nat]]
  BY DEF Work, NoFlush

\* A batch has one oldest message.
LEMMA OneHead ==
  ASSUME NEW f \in Flushers, NEW m \in Messages, NEW n \in Messages, IsHead(f, m), IsHead(f, n)
  PROVE  m = n
  BY OutboxAssumption DEF IsHead

\* A failure is recorded with the attempts counted so far.
LEMMA FailureRow ==
  ASSUME NEW n \in Nat
  PROVE  /\ AfterFailure(n) \in Row
         /\ AfterFailure(n).attempts = n
         /\ AfterFailure(n).status \in {"FAILED", "DEAD"}
         /\ AfterFailure(n).status = "DEAD" => n >= MaxAttempts
  <1>1. BackoffMinutes(n) \in Nat
    <2>1. CASE n >= 4  BY <2>1 DEF BackoffMinutes
    <2>2. CASE n \in {0, 1, 2, 3}  BY <2>2 DEF BackoffMinutes
    <2> QED  BY <2>1, <2>2
  <1>2. CASE n >= MaxAttempts  BY <1>2 DEF AfterFailure, Row
  <1>3. CASE ~(n >= MaxAttempts)  BY <1>1, <1>3 DEF AfterFailure, Row
  <1> QED  BY <1>2, <1>3

\* Going on to the next message, or ending, keeps the work well formed.
LEMMA OnwardWork ==
  ASSUME OutboxTypeOK, NEW f \in Flushers, NEW m \in Messages, Onward(f, m),
         work[f].phase \in {"accepted", "refused"}
  PROVE  /\ work' \in [Flushers -> Work]
         /\ \A g \in Flushers : g # f => work'[g] = work[g]
         /\ work'[f] = NoFlush \/ /\ work'[f].phase = "sending"
                                  /\ work'[f].left = work[f].left \ {m}
                                  /\ work'[f].seen = work[f].seen
  <1>1. /\ work[f].left \subseteq Messages /\ work[f].seen \in [Messages -> Nat]
        /\ work[f] \in [phase : {"sending", "accepted", "refused"}, left : SUBSET Messages,
                        seen : [Messages -> Nat]]
    BY WorkShape DEF OutboxTypeOK
  <1>2. CASE work[f].left = {m}  BY <1>2 DEF Onward, OutboxTypeOK, Work
  <1>3. CASE work[f].left # {m}
    <2>1. Sending(work[f].left \ {m}, work[f].seen) \in Work
      BY <1>1 DEF Work, Sending
    <2> QED  BY <1>3, <2>1 DEF Onward, OutboxTypeOK, Sending
  <1> QED  BY <1>2, <1>3

\* Every step of a flush, the queue or the administrator preserves the invariant.
LEMMA OutboxStep == OutboxInv /\ [OutboxNext]_outboxVars => OutboxInv'
  <1> SUFFICES ASSUME OutboxInv, [OutboxNext]_outboxVars  PROVE OutboxInv'
    OBVIOUS
  <1> USE OutboxAssumption DEF OutboxInv
  <1>1. ASSUME NEW m \in Messages, Enqueue(m)  PROVE OutboxInv'
    <2> DEFINE r == [status |-> "PENDING", attempts |-> 0, wait |-> 0]
    <2>1. r \in Row /\ r.status = "PENDING" /\ r.attempts = 0  BY DEF Row
    <2>2. row' = [row EXCEPT ![m] = r]  BY <1>1 DEF Enqueue
    <2> HIDE DEF r
    <2>3. OutboxTypeOK'  BY <1>1, <2>1, <2>2 DEF Enqueue, OutboxTypeOK
    <2>4. SentWasTaken' /\ RowsCountFailures' /\ DeadIsExhausted'
      BY <1>1, <2>1, <2>2
         DEF Enqueue, OutboxTypeOK, SentWasTaken, RowsCountFailures, DeadIsExhausted
    <2>5. HandedOver' /\ CopiesCountFailures'
      BY <1>1 DEF Enqueue, HandedOver, CopiesCountFailures, IsHead
    <2> QED  BY <2>3, <2>4, <2>5
  <1>2. ASSUME NEW m \in Messages, Elapse(m)  PROVE OutboxInv'
    <2> DEFINE r == [row[m] EXCEPT !.wait = 0]
    <2>1. r \in Row /\ r.status = row[m].status /\ r.attempts = row[m].attempts
      BY <1>2 DEF OutboxTypeOK, Row
    <2>2. row' = [row EXCEPT ![m] = r]  BY <1>2 DEF Elapse
    <2> HIDE DEF r
    <2>3. OutboxTypeOK'  BY <1>2, <2>1, <2>2 DEF Elapse, OutboxTypeOK
    <2>4. SentWasTaken' /\ RowsCountFailures' /\ DeadIsExhausted'
      BY <1>2, <2>1, <2>2
         DEF Elapse, OutboxTypeOK, SentWasTaken, RowsCountFailures, DeadIsExhausted
    <2>5. HandedOver' /\ CopiesCountFailures'
      BY <1>2 DEF Elapse, HandedOver, CopiesCountFailures, IsHead
    <2> QED  BY <2>3, <2>4, <2>5
  <1>3. ASSUME NEW m \in Messages, Retry(m)  PROVE OutboxInv'
    <2> DEFINE r == [status |-> "PENDING", attempts |-> 0, wait |-> 0]
    <2>1. r \in Row /\ r.status = "PENDING" /\ r.attempts = 0  BY DEF Row
    <2>2. row' = [row EXCEPT ![m] = r]  BY <1>3 DEF Retry
    <2> HIDE DEF r
    <2>3. OutboxTypeOK'  BY <1>3, <2>1, <2>2 DEF Retry, OutboxTypeOK
    <2>4. SentWasTaken' /\ RowsCountFailures' /\ DeadIsExhausted'
      BY <1>3, <2>1, <2>2
         DEF Retry, OutboxTypeOK, SentWasTaken, RowsCountFailures, DeadIsExhausted
    <2>5. HandedOver' /\ CopiesCountFailures'
      BY <1>3 DEF Retry, HandedOver, CopiesCountFailures, IsHead
    <2> QED  BY <2>3, <2>4, <2>5
  <1>4. ASSUME NEW f \in Flushers, Begin(f)  PROVE OutboxInv'
    <2> DEFINE w == Sending(Batch(Limit[f]), [m \in Messages |-> row[m].attempts])
    <2>1. /\ w \in Work /\ w.phase = "sending" /\ w.left = Batch(Limit[f])
          /\ \A m \in Messages : w.seen[m] = row[m].attempts
      BY DEF Sending, Work, Batch, Due, OutboxTypeOK, Row
    <2>2. work' = [work EXCEPT ![f] = w]  BY <1>4 DEF Begin
    <2>3. \A m \in Batch(Limit[f]) : m \in Messages /\ row[m].status \in Open  BY DEF Batch, Due
    <2> HIDE DEF w
    <2>4. OutboxTypeOK'  BY <1>4, <2>1, <2>2 DEF Begin, OutboxTypeOK
    <2>5. SentWasTaken' /\ RowsCountFailures' /\ DeadIsExhausted'
      BY <1>4 DEF Begin, SentWasTaken, RowsCountFailures, DeadIsExhausted
    <2>6. HandedOver'  BY <1>4, <2>1, <2>2 DEF Begin, OutboxTypeOK, HandedOver, IsHead
    <2>7. CopiesCountFailures'
      <3>1. \A m \in w.left : failed[m] >= w.seen[m]
        BY <2>1, <2>3 DEF RowsCountFailures, Open
      <3>2. failed' = failed  BY <1>4 DEF Begin
      <3> QED  BY <2>2, <3>1, <3>2 DEF OutboxTypeOK, CopiesCountFailures
    <2> QED  BY <2>4, <2>5, <2>6, <2>7
  <1>5. ASSUME NEW f \in Flushers, NEW m \in Messages, Accept(f, m)  PROVE OutboxInv'
    <2> DEFINE w == [work[f] EXCEPT !.phase = "accepted"]
    <2>1. w \in Work /\ w.left = work[f].left /\ w.seen = work[f].seen /\ work[f] # NoFlush
      BY <1>5, WorkShape DEF Accept, OutboxTypeOK, Work
    <2>2. work' = [work EXCEPT ![f] = w]  BY <1>5 DEF Accept
    <2> HIDE DEF w
    <2>3. OutboxTypeOK'  BY <1>5, <2>1, <2>2 DEF Accept, OutboxTypeOK
    <2>4. SentWasTaken' /\ RowsCountFailures' /\ DeadIsExhausted'
      BY <1>5 DEF Accept, SentWasTaken, RowsCountFailures, DeadIsExhausted
    <2>5. HandedOver'
      BY <1>5, <2>1, <2>2, OneHead DEF Accept, OutboxTypeOK, HandedOver, IsHead
    <2>6. CopiesCountFailures'
      BY <1>5, <2>1, <2>2 DEF Accept, OutboxTypeOK, CopiesCountFailures
    <2> QED  BY <2>3, <2>4, <2>5, <2>6
  <1>6. ASSUME NEW f \in Flushers, NEW m \in Messages, Refuse(f, m)  PROVE OutboxInv'
    <2> DEFINE w == [work[f] EXCEPT !.phase = "refused"]
    <2>1. /\ w \in Work /\ w.left = work[f].left /\ w.seen = work[f].seen /\ work[f] # NoFlush
          /\ w.phase = "refused"
      BY <1>6, WorkShape DEF Refuse, OutboxTypeOK, Work
    <2>2. work' = [work EXCEPT ![f] = w]  BY <1>6 DEF Refuse
    <2> HIDE DEF w
    <2>3. got \subseteq got'  BY <1>6 DEF Refuse
    <2>4. OutboxTypeOK'  BY <1>6, <2>1, <2>2 DEF Refuse, OutboxTypeOK
    <2>5. SentWasTaken' /\ RowsCountFailures' /\ DeadIsExhausted'
      BY <1>6, <2>3 DEF Refuse, SentWasTaken, RowsCountFailures, DeadIsExhausted
    <2>6. HandedOver'
      BY <2>1, <2>2, <2>3 DEF OutboxTypeOK, HandedOver, IsHead
    <2>7. CopiesCountFailures'
      BY <1>6, <2>1, <2>2 DEF Refuse, OutboxTypeOK, CopiesCountFailures
    <2> QED  BY <2>4, <2>5, <2>6, <2>7
  <1>7. ASSUME NEW f \in Flushers, NEW m \in Messages, WriteSent(f, m)  PROVE OutboxInv'
    <2>0. work[f] \in Work /\ work[f].phase = "accepted" /\ row[m].wait \in Nat
      BY <1>7 DEF WriteSent, OutboxTypeOK, Row
    <2>1. /\ work[f].seen[m] \in Nat /\ work[f] # NoFlush
          /\ m \in work[f].left /\ m \in got
      BY <1>7, <2>0, WorkShape DEF WriteSent, HandedOver, IsHead
    <2> DEFINE r == [status |-> "SENT", attempts |-> work[f].seen[m] + 1, wait |-> row[m].wait]
    <2>2. r \in Row /\ r.status = "SENT"  BY <2>0, <2>1 DEF Row
    <2>3. row' = [row EXCEPT ![m] = r]  BY <1>7 DEF WriteSent
    <2> HIDE DEF r
    <2>4. /\ work' \in [Flushers -> Work]
          /\ \A g \in Flushers : g # f => work'[g] = work[g]
          /\ work'[f] = NoFlush \/ /\ work'[f].phase = "sending"
                                   /\ work'[f].left = work[f].left \ {m}
                                   /\ work'[f].seen = work[f].seen
      BY <1>7, OnwardWork DEF WriteSent
    <2>5. OutboxTypeOK'  BY <1>7, <2>2, <2>3, <2>4 DEF WriteSent, OutboxTypeOK
    <2>6. SentWasTaken' /\ RowsCountFailures' /\ DeadIsExhausted'
      BY <1>7, <2>1, <2>2, <2>3
         DEF WriteSent, OutboxTypeOK, SentWasTaken, RowsCountFailures, DeadIsExhausted
    <2>7. HandedOver'  BY <1>7, <2>4 DEF WriteSent, HandedOver, IsHead, NoFlush
    <2>8. CopiesCountFailures'
      BY <1>7, <2>1, <2>4 DEF WriteSent, CopiesCountFailures, NoFlush
    <2> QED  BY <2>5, <2>6, <2>7, <2>8
  <1>8. ASSUME NEW f \in Flushers, NEW m \in Messages, WriteFailed(f, m)  PROVE OutboxInv'
    <2>0. work[f] \in Work /\ work[f].phase = "refused" /\ failed[m] \in Nat
      BY <1>8 DEF WriteFailed, OutboxTypeOK
    <2>1. /\ work[f].seen[m] \in Nat /\ work[f] # NoFlush
          /\ m \in work[f].left /\ failed[m] >= work[f].seen[m]
          /\ failed[m] \in Nat
      BY <1>8, <2>0, WorkShape DEF WriteFailed, CopiesCountFailures, IsHead
    <2> DEFINE n == work[f].seen[m] + 1
    <2>2. n \in Nat /\ n <= failed[m] + 1  BY <2>1
    <2>3. row' = [row EXCEPT ![m] = AfterFailure(n)]  BY <1>8 DEF WriteFailed
    <2>4. failed' = [failed EXCEPT ![m] = failed[m] + 1]  BY <1>8 DEF WriteFailed
    <2> HIDE DEF n
    <2>5. /\ AfterFailure(n) \in Row /\ AfterFailure(n).attempts = n
          /\ AfterFailure(n).status \in {"FAILED", "DEAD"}
          /\ AfterFailure(n).status = "DEAD" => n >= MaxAttempts
      BY <2>2, FailureRow
    <2>6. /\ work' \in [Flushers -> Work]
          /\ \A g \in Flushers : g # f => work'[g] = work[g]
          /\ work'[f] = NoFlush \/ /\ work'[f].phase = "sending"
                                   /\ work'[f].left = work[f].left \ {m}
                                   /\ work'[f].seen = work[f].seen
      BY <1>8, OnwardWork DEF WriteFailed
    <2>7. failed' \in [Messages -> Nat] /\ \A k \in Messages : failed'[k] >= failed[k]
      BY <2>4 DEF OutboxTypeOK
    <2>8. OutboxTypeOK'  BY <1>8, <2>3, <2>5, <2>6, <2>7 DEF WriteFailed, OutboxTypeOK
    <2>9. SentWasTaken'
      BY <1>8, <2>3, <2>5 DEF WriteFailed, OutboxTypeOK, SentWasTaken
    <2>10. RowsCountFailures' /\ DeadIsExhausted'
      BY <2>2, <2>3, <2>4, <2>5 DEF OutboxTypeOK, RowsCountFailures, DeadIsExhausted
    <2>11. HandedOver'  BY <1>8, <2>6 DEF WriteFailed, HandedOver, IsHead, NoFlush
    <2>12. CopiesCountFailures'
      <3> SUFFICES ASSUME NEW g \in Flushers, work'[g] # NoFlush, NEW k \in work'[g].left
                   PROVE  failed'[k] >= work'[g].seen[k]
        BY DEF CopiesCountFailures
      <3>1. work[g] # NoFlush /\ k \in work[g].left /\ work'[g].seen = work[g].seen
        BY <2>1, <2>6
      <3>2. k \in Messages /\ work[g].seen[k] \in Nat
        BY <3>1, WorkShape DEF OutboxTypeOK, Work
      <3>3. /\ failed[k] >= work[g].seen[k] /\ failed[k] \in Nat
            /\ failed'[k] >= failed[k] /\ failed'[k] \in Nat
        BY <2>7, <3>1, <3>2 DEF CopiesCountFailures, OutboxTypeOK
      <3> QED  BY <3>1, <3>2, <3>3
    <2> QED  BY <2>8, <2>9, <2>10, <2>11, <2>12
  <1>9. ASSUME NEW f \in Flushers, SentNotWritten(f)  PROVE OutboxInv'
    <2> DEFINE w == [work[f] EXCEPT !.phase = "refused"]
    <2>1. /\ w \in Work /\ w.left = work[f].left /\ w.seen = work[f].seen /\ work[f] # NoFlush
          /\ w.phase = "refused"
      BY <1>9, WorkShape DEF SentNotWritten, OutboxTypeOK, Work
    <2>2. work' = [work EXCEPT ![f] = w]  BY <1>9 DEF SentNotWritten
    <2> HIDE DEF w
    <2>3. OutboxTypeOK'  BY <1>9, <2>1, <2>2 DEF SentNotWritten, OutboxTypeOK
    <2>4. SentWasTaken' /\ RowsCountFailures' /\ DeadIsExhausted'
      BY <1>9 DEF SentNotWritten, SentWasTaken, RowsCountFailures, DeadIsExhausted
    <2>5. HandedOver'
      BY <1>9, <2>1, <2>2 DEF SentNotWritten, OutboxTypeOK, HandedOver, IsHead
    <2>6. CopiesCountFailures'
      BY <1>9, <2>1, <2>2 DEF SentNotWritten, OutboxTypeOK, CopiesCountFailures
    <2> QED  BY <2>3, <2>4, <2>5, <2>6
  <1>10. ASSUME NEW f \in Flushers, Stop(f)  PROVE OutboxInv'
    <2>1. work' = [work EXCEPT ![f] = NoFlush]  BY <1>10 DEF Stop
    <2>2. OutboxTypeOK'  BY <1>10, <2>1 DEF Stop, OutboxTypeOK, Work
    <2>3. SentWasTaken' /\ RowsCountFailures' /\ DeadIsExhausted'
      BY <1>10 DEF Stop, SentWasTaken, RowsCountFailures, DeadIsExhausted
    <2>4. HandedOver'
      <3> SUFFICES ASSUME NEW g \in Flushers, work'[g].phase = "accepted",
                          NEW m \in Messages, IsHead(g, m)'
                   PROVE  m \in got'
        BY DEF HandedOver
      <3>1. g # f  BY <2>1 DEF OutboxTypeOK, NoFlush
      <3>2. work'[g] = work[g]  BY <2>1, <3>1 DEF OutboxTypeOK
      <3> QED  BY <1>10, <3>2 DEF Stop, HandedOver, IsHead
    <2>5. CopiesCountFailures'
      BY <1>10, <2>1 DEF Stop, OutboxTypeOK, CopiesCountFailures
    <2> QED  BY <2>2, <2>3, <2>4, <2>5
  <1>11. CASE UNCHANGED outboxVars
    BY <1>11 DEF outboxVars, OutboxTypeOK, SentWasTaken, HandedOver, RowsCountFailures,
       CopiesCountFailures, DeadIsExhausted, IsHead
  <1> QED
    BY <1>1, <1>2, <1>3, <1>4, <1>5, <1>6, <1>7, <1>8, <1>9, <1>10, <1>11 DEF OutboxNext, Step

\* The invariant holds from the empty queue on.
LEMMA OutboxInvariant == OutboxSpec => []OutboxInv
  <1>1. OutboxInit => OutboxInv
    <2> SUFFICES ASSUME OutboxInit  PROVE OutboxInv
      OBVIOUS
    <2>1. Absent \in Row /\ Absent.status = "absent" /\ Absent.attempts = 0
      BY DEF Absent, Row
    <2>2. NoFlush \in Work /\ NoFlush.phase = "idle"  BY DEF NoFlush, Work
    <2>3. OutboxTypeOK  BY <2>1, <2>2 DEF OutboxInit, OutboxTypeOK
    <2>4. SentWasTaken /\ RowsCountFailures /\ DeadIsExhausted
      BY <2>1 DEF OutboxInit, SentWasTaken, RowsCountFailures, DeadIsExhausted
    <2>5. HandedOver /\ CopiesCountFailures
      BY <2>2 DEF OutboxInit, HandedOver, CopiesCountFailures
    <2> QED  BY <2>3, <2>4, <2>5 DEF OutboxInv
  <1> QED  BY <1>1, OutboxStep, PTL DEF OutboxSpec

\* SentWasTaken: for any number of messages, flushes, retries and stops, what
\* the journal shows as sent has reached 1C.
THEOREM SentMessagesArrived == OutboxSpec => []SentWasTaken
  BY OutboxInvariant, PTL DEF OutboxInv

\* DeadHasFailed: no message is given up before MaxAttempts failed deliveries,
\* whatever flushes overwrite each other's count.
THEOREM NoneGivenUpEarly == OutboxSpec => []DeadHasFailed
  <1>1. OutboxInv => DeadHasFailed
    <2> SUFFICES ASSUME OutboxInv, NEW m \in Messages, row[m].status = "DEAD"
                 PROVE  failed[m] >= MaxAttempts
      BY DEF DeadHasFailed
    <2>1. row[m].attempts \in Nat /\ failed[m] \in Nat  BY DEF OutboxInv, OutboxTypeOK, Row
    <2> QED
      BY <2>1, OutboxAssumption DEF OutboxInv, RowsCountFailures, DeadIsExhausted
  <1> QED  BY <1>1, OutboxInvariant, PTL

\* The rows, the counts and the flushes under way keep their types.
THEOREM OutboxTypes == OutboxSpec => []OutboxTypeOK
  BY OutboxInvariant, PTL DEF OutboxInv

\* As long as no two flushes have overlapped, one at most is under way and what it has
\* left to send is neither sent nor given up.
OneFlush == ~overlapped =>
    /\ \A f, g \in Flushers : work[f] # NoFlush /\ work[g] # NoFlush => f = g
    /\ \A f \in Flushers : work[f] # NoFlush => \A m \in work[f].left : row[m].status \in Open

LEMMA OneFlushStep == OutboxInv /\ OneFlush /\ [OutboxNext]_outboxVars => OneFlush'
  <1> SUFFICES ASSUME OutboxInv, OneFlush, [OutboxNext]_outboxVars, ~overlapped'
               PROVE  /\ \A f, g \in Flushers : work'[f] # NoFlush /\ work'[g] # NoFlush => f = g
                      /\ \A f \in Flushers : work'[f] # NoFlush =>
                            \A m \in work'[f].left : row'[m].status \in Open
    BY DEF OneFlush
  <1>0. /\ row \in [Messages -> Row] /\ work \in [Flushers -> Work]
        /\ \A f \in Flushers : work[f] # NoFlush => work[f].left \subseteq Messages
        /\ \A f \in Flushers : work[f] # NoFlush <=> work[f].phase \in {"sending", "accepted", "refused"}
    <2>1. row \in [Messages -> Row] /\ work \in [Flushers -> Work]  BY DEF OutboxInv, OutboxTypeOK
    <2>2. \A f \in Flushers : work[f] # NoFlush <=> work[f].phase \in {"sending", "accepted", "refused"}
      BY <2>1 DEF Work, NoFlush
    <2>3. \A f \in Flushers : work[f] # NoFlush => work[f].left \subseteq Messages
      BY <2>1, <2>2, WorkShape
    <2> QED  BY <2>1, <2>2, <2>3
  <1>1. ASSUME ~overlapped, UNCHANGED work,
               \A m \in Messages : row[m].status \in Open => row'[m].status \in Open
        PROVE  /\ \A f, g \in Flushers : work'[f] # NoFlush /\ work'[g] # NoFlush => f = g
               /\ \A f \in Flushers : work'[f] # NoFlush =>
                     \A m \in work'[f].left : row'[m].status \in Open
    BY <1>0, <1>1 DEF OneFlush
  <1>2. ASSUME NEW m \in Messages, Enqueue(m) \/ Elapse(m) \/ Retry(m)
        PROVE  /\ ~overlapped /\ UNCHANGED work
               /\ \A n \in Messages : row[n].status \in Open => row'[n].status \in Open
    BY <1>0, <1>2 DEF Enqueue, Elapse, Retry, Open, Row
  <1>3. ASSUME NEW f \in Flushers, Begin(f)
        PROVE  /\ \A h, g \in Flushers : work'[h] # NoFlush /\ work'[g] # NoFlush => h = g
               /\ \A h \in Flushers : work'[h] # NoFlush =>
                     \A m \in work'[h].left : row'[m].status \in Open
    <2>1. /\ \A g \in Flushers \ {f} : work[g] = NoFlush
          /\ UNCHANGED row
          /\ work' = [work EXCEPT ![f] = Sending(Batch(Limit[f]), [m \in Messages |-> row[m].attempts])]
      BY <1>3 DEF Begin
    <2>2. \A g \in Flushers \ {f} : work'[g] = NoFlush  BY <1>0, <2>1
    <2>3. work'[f].left = Batch(Limit[f])  BY <1>0, <2>1 DEF Sending
    <2>4. \A m \in Batch(Limit[f]) : row[m].status \in Open  BY DEF Batch, Due
    <2> QED  BY <2>1, <2>2, <2>3, <2>4
  <1>4. ASSUME NEW f \in Flushers, work[f] # NoFlush, ~overlapped,
               \A g \in Flushers \ {f} : work'[g] = work[g],
               work'[f] # NoFlush =>
                  /\ work'[f].left \subseteq work[f].left
                  /\ \A m \in work'[f].left : row'[m].status = row[m].status
        PROVE  /\ \A h, g \in Flushers : work'[h] # NoFlush /\ work'[g] # NoFlush => h = g
               /\ \A h \in Flushers : work'[h] # NoFlush =>
                     \A m \in work'[h].left : row'[m].status \in Open
    BY <1>4 DEF OneFlush
  <1>5. ASSUME NEW f \in Flushers, Step(f)
        PROVE  /\ \A h, g \in Flushers : work'[h] # NoFlush /\ work'[g] # NoFlush => h = g
               /\ \A h \in Flushers : work'[h] # NoFlush =>
                     \A m \in work'[h].left : row'[m].status \in Open
    <2> DEFINE Kept == /\ work[f] # NoFlush /\ ~overlapped
                       /\ \A g \in Flushers \ {f} : work'[g] = work[g]
                       /\ work'[f] # NoFlush =>
                             /\ work'[f].left \subseteq work[f].left
                             /\ \A m \in work'[f].left : row'[m].status = row[m].status
    <2>1. ASSUME NEW x \in {"accepted", "refused"}, work[f].phase \in {"sending", "accepted"},
                 UNCHANGED <<row, overlapped>>, work' = [work EXCEPT ![f].phase = x]
          PROVE  Kept
      <3>1. work[f] # NoFlush /\ work[f] \in [phase : {"sending", "accepted", "refused"}, left : SUBSET Messages,
                                              seen : [Messages -> Nat]]
        BY <1>0, <2>1, WorkShape
      <3> QED  BY <1>0, <2>1, <3>1
    <2>2. ASSUME NEW m \in Messages, Accept(f, m) \/ Refuse(f, m)  PROVE Kept
      BY <2>1, <2>2 DEF Accept, Refuse
    <2>3. ASSUME SentNotWritten(f)  PROVE Kept  BY <2>1, <2>3 DEF SentNotWritten
    <2>4. ASSUME NEW m \in Messages, WriteSent(f, m) \/ WriteFailed(f, m)  PROVE Kept
      <3>1. /\ work[f].phase \in {"accepted", "refused"} /\ Onward(f, m) /\ UNCHANGED overlapped
            /\ \A n \in Messages \ {m} : row'[n] = row[n]
        BY <1>0, <2>4 DEF WriteSent, WriteFailed
      <3>2. /\ \A g \in Flushers : g # f => work'[g] = work[g]
            /\ work'[f] = NoFlush \/ work'[f].left = work[f].left \ {m}
        BY <3>1, OnwardWork DEF OutboxInv
      <3>3. work[f] # NoFlush  BY <1>0, <3>1
      <3> QED  BY <1>0, <3>1, <3>2, <3>3
    <2>5. ASSUME Stop(f)  PROVE Kept  BY <1>0, <2>5 DEF Stop
    <2>6. Kept  BY <1>5, <2>2, <2>3, <2>4, <2>5 DEF Step
    <2> QED  BY <1>4, <2>6
  <1>6. CASE UNCHANGED outboxVars  BY <1>1, <1>6 DEF outboxVars
  <1> QED  BY <1>1, <1>2, <1>3, <1>5, <1>6 DEF OutboxNext

\* The safety half of EveryMessageSettles: as long as no two flushes have overlapped, no
\* late write of a flush reopens a message or buries one that was sent.
THEOREM SettledMessagesStay == OutboxSpec => SettledStays
  <1>1. OutboxInit => OneFlush  BY DEF OutboxInit, OneFlush
  <1>2. OutboxInv /\ OneFlush /\ [OutboxNext]_outboxVars =>
          [\A m \in Messages : row[m].status \in {"SENT", "DEAD"} /\ retries' = retries /\ ~overlapped
              => row'[m] = row[m]]_outboxVars
    <2> SUFFICES ASSUME OutboxInv, OneFlush, OutboxNext, NEW m \in Messages,
                        row[m].status \in {"SENT", "DEAD"}, retries' = retries, ~overlapped
                 PROVE  row'[m] = row[m]
      OBVIOUS
    <2>0. /\ row \in [Messages -> Row] /\ work \in [Flushers -> Work] /\ retries \in Nat
          /\ \A f \in Flushers : work[f].phase \in {"accepted", "refused"} => work[f] # NoFlush
      BY DEF OutboxInv, OutboxTypeOK, NoFlush
    <2>1. ASSUME NEW n \in Messages, Enqueue(n) \/ Elapse(n) \/ Retry(n)  PROVE row'[m] = row[m]
      BY <2>0, <2>1 DEF Enqueue, Elapse, Retry
    <2>2. ASSUME NEW f \in Flushers, NEW n \in Messages, WriteSent(f, n) \/ WriteFailed(f, n)
          PROVE  row'[m] = row[m]
      <3>1. work[f] # NoFlush /\ n \in work[f].left  BY <2>0, <2>2 DEF WriteSent, WriteFailed, IsHead
      <3>2. n # m  BY <3>1 DEF OneFlush, Open
      <3> QED  BY <2>0, <2>2, <3>2 DEF WriteSent, WriteFailed
    <2>3. ASSUME NEW f \in Flushers, Begin(f) \/ SentNotWritten(f) \/ Stop(f)  PROVE row'[m] = row[m]
      BY <2>3 DEF Begin, SentNotWritten, Stop
    <2>4. ASSUME NEW f \in Flushers, NEW n \in Messages, Accept(f, n) \/ Refuse(f, n)
          PROVE  row'[m] = row[m]
      BY <2>4 DEF Accept, Refuse
    <2> QED  BY <2>1, <2>2, <2>3, <2>4 DEF OutboxNext, Step
  <1> QED  BY <1>1, <1>2, OutboxInvariant, OneFlushStep, PTL DEF OutboxSpec, SettledStays
============================================================================
