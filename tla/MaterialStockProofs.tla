------------------------ MODULE MaterialStockProofs ------------------------
(* Proofs about MaterialStock. *)
EXTENDS MaterialStock, SumProofs, TLAPS

\* An idle request is a request.
LEMMA IdleShape ==
  /\ Idle \in Job
  /\ Idle.phase = "idle" /\ Idle.qty = 0 /\ Idle.todo = {} /\ Idle.order = Own
  /\ Idle.view = [s \in Slots |-> 0]
  BY DEF Idle, Job, Phases

\* A request starts with a quantity, an order and the stock it reads.
LEMMA StartShape ==
  ASSUME TypeOK, NEW r \in Requests, NEW phase \in Phases, NEW q \in Nat,
         NEW o \in Orders \cup {Own}, Start(r, phase, q, o)
  PROVE  /\ job' \in [Requests -> Job]
         /\ job'[r].todo = {} /\ job'[r].view = [s \in Slots |-> 0]
         /\ \A p \in Requests : p # r => job'[p] = job[p]
  <1>1. [Idle EXCEPT !.phase = phase, !.qty = q, !.order = o, !.seen = stock] \in Job
    <2>1. Idle \in Job /\ stock \in Int  BY IdleShape DEF TypeOK
    <2> QED  BY <2>1 DEF Job
  <1>2. [Idle EXCEPT !.phase = phase, !.qty = q, !.order = o, !.seen = stock].todo = {}
    BY DEF Idle
  <1>3. [Idle EXCEPT !.phase = phase, !.qty = q, !.order = o, !.seen = stock].view
            = [s \in Slots |-> 0]
    BY DEF Idle
  <1> QED  BY <1>1, <1>2, <1>3 DEF Start, TypeOK

\* Going on, with or without what was read of the stock, is still a request.
LEMMA ProceedShape ==
  ASSUME TypeOK, NEW r \in Requests, NEW phase \in Phases,
         Proceed(r, phase) \/ Forget(r, phase)
  PROVE  job' \in [Requests -> Job]
  <1>1. /\ job[r] \in Job
        /\ job[r].qty \in Nat /\ job[r].order \in Orders \cup {Own} /\ job[r].seen \in Int
        /\ job[r].view \in [Slots -> Int] /\ job[r].todo \in SUBSET Slots
    BY DEF TypeOK, Job
  <1>2. [job[r] EXCEPT !.phase = phase] \in Job  BY <1>1 DEF Job
  <1>3. [job[r] EXCEPT !.phase = phase, !.seen = 0] \in Job
    <2> DEFINE j == [job[r] EXCEPT !.phase = phase]
    <2>1. [j EXCEPT !.seen = 0] \in Job
      <3>1. j \in Job  BY <1>2
      <3> HIDE DEF j
      <3> QED  BY <3>1 DEF Job
    <2> QED  BY <2>1
  <1>4. CASE Proceed(r, phase)
    <2>1. job' = [job EXCEPT ![r] = [job[r] EXCEPT !.phase = phase]]  BY <1>4 DEF Proceed
    <2> QED  BY <1>2, <2>1 DEF TypeOK
  <1>5. CASE Forget(r, phase)
    <2>1. job' = [job EXCEPT ![r] = [job[r] EXCEPT !.phase = phase, !.seen = 0]]
      BY <1>5, <1>1 DEF Forget, TypeOK, Job
    <2> QED  BY <1>3, <2>1 DEF TypeOK
  <1> QED  BY <1>4, <1>5

\* A magnitude is natural.
LEMMA AbsNat == ASSUME NEW n \in Int PROVE Abs(n) \in Nat
  BY DEF Abs

\* Every statement of every request keeps the types.
LEMMA TypeStep == TypeOK /\ [Next]_vars => TypeOK'
  <1> SUFFICES ASSUME TypeOK, [Next]_vars  PROVE TypeOK'
    OBVIOUS
  <1> USE StockAssumption
  <1>1. ASSUME NEW r \in Requests, NEW q \in Quantities, BeginReceipt(r, q)  PROVE TypeOK'
    <2>1. q \in Nat  BY <1>1 DEF BeginReceipt
    <2>2. job' \in [Requests -> Job]  BY <1>1, <2>1, StartShape DEF BeginReceipt, Phases
    <2> QED  BY <1>1, <2>2 DEF BeginReceipt, TypeOK
  <1>2. ASSUME NEW r \in Requests, NEW q \in Quantities, NEW o \in Orders, AddTolling(r, o, q)
        PROVE TypeOK'
    <2>1. Abs(q) \in Nat  BY AbsNat
    <2>2. job' \in [Requests -> Job]  BY <1>2, <2>1, StartShape DEF AddTolling, Phases
    <2> QED  BY <1>2, <2>1, <2>2 DEF AddTolling, TypeOK
  <1>3. ASSUME NEW r \in Requests, NEW q \in Quantities, NEW o \in Orders \cup {Own},
               BeginExpense(r, o, q)
        PROVE TypeOK'
    <2>1. Abs(q) \in Nat  BY AbsNat
    <2>2. job' \in [Requests -> Job]  BY <1>3, <2>1, StartShape DEF BeginExpense, Phases
    <2> QED  BY <1>3, <2>2 DEF BeginExpense, TypeOK
  <1>4. ASSUME NEW r \in Requests, RecordReceipt(r)  PROVE TypeOK'
    <2>1. job' \in [Requests -> Job]  BY <1>4, ProceedShape DEF RecordReceipt, Phases
    <2>2. job[r].qty \in Nat  BY DEF TypeOK, Job
    <2> QED  BY <1>4, <2>1, <2>2 DEF RecordReceipt, TypeOK
  <1>5. ASSUME NEW r \in Requests, WriteStock(r)  PROVE TypeOK'
    <2>1. job' \in [Requests -> Job]  BY <1>5, ProceedShape DEF WriteStock, Phases
    <2>2. job[r].qty \in Nat /\ job[r].seen \in Int  BY DEF TypeOK, Job
    <2>3. torn' \in BOOLEAN  BY <1>5, Zenon DEF WriteStock, TypeOK
    <2> QED  BY <1>5, <2>1, <2>2, <2>3 DEF WriteStock, TypeOK
  <1>6. ASSUME NEW r \in Requests, NEW s \in Slots, CreateFromMovement(r, s)  PROVE TypeOK'
    <2>1. PICK doubt \in Doubtful(job[r].order) :
             batch' = [batch EXCEPT ![s] = [used |-> TRUE, left |-> job[r].qty,
                                            owner |-> job[r].order, quarantined |-> doubt]]
      BY <1>6 DEF CreateFromMovement
    <2>2. doubt \in BOOLEAN  BY DEF Doubtful
    <2>3. [used |-> TRUE, left |-> job[r].qty, owner |-> job[r].order, quarantined |-> doubt]
             \in Batches
      BY <2>2 DEF Batches, TypeOK, Job
    <2>4. job' \in [Requests -> Job]  BY <1>6, IdleShape DEF CreateFromMovement, TypeOK
    <2> QED  BY <1>6, <2>1, <2>3, <2>4 DEF CreateFromMovement, TypeOK
  <1>7. ASSUME NEW r \in Requests, RecordTolling(r)  PROVE TypeOK'
    <2>1. job' \in [Requests -> Job]  BY <1>7, ProceedShape DEF RecordTolling, Phases
    <2>2. job[r].qty \in Nat  BY DEF TypeOK, Job
    <2> QED  BY <1>7, <2>1, <2>2 DEF RecordTolling, TypeOK
  <1>8. ASSUME NEW r \in Requests, RecordExpense(r)  PROVE TypeOK'
    <2>1. job' \in [Requests -> Job]  BY <1>8, ProceedShape DEF RecordExpense, Phases
    <2>2. job[r].qty \in Nat  BY DEF TypeOK, Job
    <2> QED  BY <1>8, <2>1, <2>2 DEF RecordExpense, TypeOK
  <1>9. ASSUME NEW r \in Requests, DeductStock(r)  PROVE TypeOK'
    <2>1. job' \in [Requests -> Job]  BY <1>9, ProceedShape DEF DeductStock, Phases
    <2>2. job[r].qty \in Nat  BY DEF TypeOK, Job
    <2> QED  BY <1>9, <2>1, <2>2 DEF DeductStock, TypeOK
  <1>10. ASSUME NEW r \in Requests, Pick(r)  PROVE TypeOK'
    <2>1. Offered(job[r].order) \subseteq Slots  BY DEF Offered
    <2>2. [s \in Slots |-> batch[s].left] \in [Slots -> Int]  BY DEF TypeOK, Batches
    <2>3. job[r] \in Job /\ "taking" \in Phases  BY DEF TypeOK, Phases
    <2>4. job' = [job EXCEPT ![r] = [job[r] EXCEPT !.phase = "taking",
                                         !.todo = Offered(job[r].order),
                                         !.view = [s \in Slots |-> batch[s].left]]]
      BY <1>10 DEF Pick
    <2>5. [job[r] EXCEPT !.phase = "taking", !.todo = Offered(job[r].order),
                         !.view = [s \in Slots |-> batch[s].left]] \in Job
      BY <2>1, <2>2, <2>3 DEF Job
    <2>6. job' \in [Requests -> Job]  BY <2>4, <2>5 DEF TypeOK
    <2> QED  BY <1>10, <2>6 DEF Pick, TypeOK
  <1>11. ASSUME NEW r \in Requests, NEW s \in Slots, Take(r, s)  PROVE TypeOK'
    <2> DEFINE take == Least(job[r].qty, job[r].view[s])
    <2>1. job[r].qty \in Nat /\ job[r].view[s] \in Int /\ job[r].todo \subseteq Slots
      BY DEF TypeOK, Job
    <2>2. take \in Int /\ job[r].qty - take \in Nat  BY <2>1 DEF Least
    <2>3. job' = [job EXCEPT ![r].qty = job[r].qty - take, ![r].todo = job[r].todo \ {s}]
          /\ batch' = [batch EXCEPT ![s].left = batch[s].left - take]
      BY <1>11 DEF Take
    <2>4. job' \in [Requests -> Job]
      <3> DEFINE left == job[r].qty - take
                 todo == job[r].todo \ {s}
                 j == [job[r] EXCEPT !.qty = left, !.todo = todo]
      <3>1. left \in Nat /\ todo \in SUBSET Slots  BY <2>1, <2>2
      <3>2. job[r] \in Job /\ job \in [Requests -> Job]  BY DEF TypeOK
      <3>3. job' = [job EXCEPT ![r] = j]  BY <2>3, <3>2
      <3> HIDE DEF take, left, todo
      <3>4. j \in Job  BY <3>1, <3>2 DEF Job
      <3> HIDE DEF j
      <3> QED  BY <3>2, <3>3, <3>4
    <2>5. batch' \in [Slots -> Batches]
      <3> HIDE DEF take
      <3> QED  BY <2>2, <2>3 DEF TypeOK, Batches
    <2> QED  BY <1>11, <2>4, <2>5 DEF Take, TypeOK
  <1>12. ASSUME NEW r \in Requests, Answer(r)  PROVE TypeOK'
    <2>1. job[r].qty \in Nat  BY DEF TypeOK, Job
    <2>2. job' \in [Requests -> Job]  BY <1>12, IdleShape DEF Answer, TypeOK
    <2> QED  BY <1>12, <2>1, <2>2 DEF Answer, TypeOK
  <1>13. ASSUME NEW s \in Slots, ClearAnomaly(s)  PROVE TypeOK'
    BY <1>13 DEF ClearAnomaly, TypeOK, Batches
  <1>14. ASSUME NEW r \in Requests, Die(r)  PROVE TypeOK'
    <2>1. job' \in [Requests -> Job]  BY <1>14, IdleShape DEF Die, TypeOK
    <2> QED  BY <1>14, <2>1 DEF Die, TypeOK
  <1>15. CASE UNCHANGED vars  BY <1>15 DEF vars, TypeOK
  <1> QED
    BY <1>1, <1>2, <1>3, <1>4, <1>5, <1>6, <1>7, <1>8, <1>9, <1>10, <1>11, <1>12, <1>13,
       <1>14, <1>15 DEF Next, ReceiptStep, ExpenseStep

\* The warehouse starts with its types.
LEMMA InitialStockTypes == Init => TypeOK
  <1> SUFFICES ASSUME Init  PROVE TypeOK
    OBVIOUS
  <1>1. Free \in Batches  BY DEF Free, Batches
  <1>2. Idle \in Job  BY IdleShape
  <1>3. batch \in [Slots -> Batches]  BY <1>1 DEF Init
  <1>4. job \in [Requests -> Job]  BY <1>2 DEF Init
  <1>5. deaths \in Nat /\ torn \in BOOLEAN  BY DEF Init
  <1>6. stock \in Int /\ received \in Nat /\ issued \in Nat /\ uncovered \in Nat
    BY DEF Init
  <1> QED  BY <1>3, <1>4, <1>5, <1>6 DEF TypeOK

\* TypeOK: the quantities a request carries, what is received, issued and left
\* uncovered never fall below zero, whatever is typed and whatever overlaps.
THEOREM StockTypes == Spec => []TypeOK
  BY InitialStockTypes, TypeStep, PTL DEF Spec

----------------------------------------------------------------------------
(* What an expense has in hand                                             *)

\* The batches an expense still means to take are those it saw with something
\* left and may take; what it saw is used, never grows, and is gone once taken.
InHand(r) ==
    /\ \A s \in job[r].todo : job[r].view[s] > 0 /\ batch[s].owner \in {Own, job[r].order}
    /\ \A t \in Slots : job[r].view[t] > 0 => batch[t].used /\ batch[t].left <= job[r].view[t]
    /\ \A t \in Slots :
          /\ job[r].view[t] > 0 /\ batch[t].owner \in {Own, job[r].order}
          /\ job[r].qty > 0 /\ t \notin job[r].todo
          => batch[t].left <= 0

\* An unused slot is empty.
UnusedEmpty == \A s \in Slots : ~batch[s].used => batch[s].left = 0

IssueInv == TypeOK /\ UnusedEmpty /\ \A r \in Requests : InHand(r)

\* A request that has just begun or ended has seen nothing.
Fresh(r) == job'[r].todo = {} /\ job'[r].view = [s \in Slots |-> 0]

\* A request that is not at an expense's batches keeps what it has in hand.
Untouched(r) ==
    /\ job'[r].todo = job[r].todo /\ job'[r].view = job[r].view
    /\ job'[r].order = job[r].order /\ job'[r].qty = job[r].qty

\* A batch in use stays in use for its owner and never gains.
Shrinks(t) ==
    /\ batch'[t].used /\ batch'[t].owner = batch[t].owner
    /\ batch'[t].left <= batch[t].left

\* Of every step, what it leaves each request with.
LEMMA JobStep ==
  ASSUME TypeOK, [Next]_vars, NEW p \in Requests
  PROVE  Fresh(p) \/ Untouched(p) \/ Pick(p) \/ \E s \in Slots : Take(p, s)
  <1> USE StockAssumption
  <1>0. job \in [Requests -> Job]  BY DEF TypeOK
  <1>1. ASSUME NEW r \in Requests, NEW q \in Quantities, BeginReceipt(r, q)
        PROVE  Fresh(p) \/ Untouched(p)
    <2>1. q \in Nat  BY <1>1 DEF BeginReceipt
    <2> QED  BY <1>1, <2>1, StartShape DEF BeginReceipt, Phases, Fresh, Untouched
  <1>2. ASSUME NEW r \in Requests, NEW q \in Quantities, NEW o \in Orders, AddTolling(r, o, q)
        PROVE  Fresh(p) \/ Untouched(p)
    <2>1. Abs(q) \in Nat  BY AbsNat
    <2> QED  BY <1>2, <2>1, StartShape DEF AddTolling, Phases, Fresh, Untouched
  <1>3. ASSUME NEW r \in Requests, NEW q \in Quantities, NEW o \in Orders \cup {Own},
               BeginExpense(r, o, q)
        PROVE  Fresh(p) \/ Untouched(p)
    <2>1. Abs(q) \in Nat  BY AbsNat
    <2> QED  BY <1>3, <2>1, StartShape DEF BeginExpense, Phases, Fresh, Untouched
  <1>4. ASSUME NEW r \in Requests, NEW phase \in Phases, Proceed(r, phase) \/ Forget(r, phase)
        PROVE  Untouched(p)
    <2>1. job[r] \in Job /\ job[p] \in Job  BY <1>0
    <2>2. CASE Proceed(r, phase)  BY <1>0, <2>1, <2>2 DEF Proceed, Untouched, Job
    <2>3. CASE Forget(r, phase)  BY <1>0, <2>1, <2>3 DEF Forget, Untouched, Job
    <2> QED  BY <1>4, <2>2, <2>3
  <1>5. ASSUME NEW r \in Requests, job' = [job EXCEPT ![r] = Idle]
        PROVE  Fresh(p) \/ Untouched(p)
    BY <1>0, <1>5, IdleShape DEF Fresh, Untouched
  <1>6. ASSUME NEW r \in Requests, ReceiptStep(r) \/ RecordTolling(r) \/ Die(r)
        PROVE  Fresh(p) \/ Untouched(p)
    BY <1>4, <1>5, <1>6 DEF ReceiptStep, RecordReceipt, WriteStock, CreateFromMovement,
       RecordTolling, Die, Phases
  <1>7. ASSUME NEW r \in Requests, RecordExpense(r) \/ DeductStock(r) \/ Answer(r)
        PROVE  Fresh(p) \/ Untouched(p)
    BY <1>4, <1>5, <1>7 DEF RecordExpense, DeductStock, Answer, Phases
  <1>8. ASSUME NEW r \in Requests, Pick(r)  PROVE Untouched(p) \/ Pick(p)
    BY <1>0, <1>8 DEF Pick, Untouched
  <1>9. ASSUME NEW r \in Requests, NEW s \in Slots, Take(r, s)
        PROVE  Untouched(p) \/ \E t \in Slots : Take(p, t)
    BY <1>0, <1>9 DEF Take, Untouched
  <1>10. ASSUME NEW s \in Slots, ClearAnomaly(s)  PROVE Untouched(p)
    BY <1>10 DEF ClearAnomaly, Untouched
  <1>11. CASE UNCHANGED vars  BY <1>11 DEF vars, Untouched
  <1> QED
    BY <1>1, <1>2, <1>3, <1>6, <1>7, <1>8, <1>9, <1>10, <1>11 DEF Next, ExpenseStep

\* Of every step, what it leaves each batch with.
LEMMA BatchStep ==
  ASSUME IssueInv, [Next]_vars, NEW t \in Slots
  PROVE  /\ batch[t].used => Shrinks(t)
         /\ ~batch'[t].used => batch'[t].left = 0
  <1> USE StockAssumption DEF IssueInv
  <1>0. batch \in [Slots -> Batches] /\ batch[t] \in Batches  BY DEF TypeOK
  <1>a. ASSUME batch'[t].used = batch[t].used, batch'[t].owner = batch[t].owner,
               batch'[t].left = batch[t].left
        PROVE  (batch[t].used => Shrinks(t)) /\ (~batch'[t].used => batch'[t].left = 0)
    BY <1>0, <1>a DEF UnusedEmpty, Shrinks, Batches
  <1>1. ASSUME NEW r \in Requests, NEW s \in Slots, CreateFromMovement(r, s)
        PROVE  (batch[t].used => Shrinks(t)) /\ (~batch'[t].used => batch'[t].left = 0)
    <2>1. CASE s = t  BY <1>0, <1>1, <2>1 DEF CreateFromMovement
    <2>2. CASE s # t
      <3>1. batch'[t] = batch[t]  BY <1>0, <1>1, <2>2 DEF CreateFromMovement
      <3> QED  BY <1>a, <3>1
    <2> QED  BY <2>1, <2>2
  <1>2. ASSUME NEW r \in Requests, NEW s \in Slots, Take(r, s)
        PROVE  (batch[t].used => Shrinks(t)) /\ (~batch'[t].used => batch'[t].left = 0)
    <2> DEFINE take == Least(job[r].qty, job[r].view[s])
    <2>1. batch' = [batch EXCEPT ![s].left = batch[s].left - take] /\ s \in job[r].todo
          /\ job[r].qty > 0
      BY <1>2 DEF Take
    <2>2. CASE s # t
      <3>1. batch'[t] = batch[t]
        <4> HIDE DEF take
        <4> QED  BY <1>0, <2>1, <2>2
      <3> QED  BY <1>a, <3>1
    <2>3. CASE s = t
      <3>1. job[r].qty \in Nat /\ job[r].view[s] \in Int  BY DEF TypeOK, Job
      <3>2. InHand(r)  OBVIOUS
      <3>3. job[r].view[s] > 0 /\ batch[s].used  BY <2>1, <3>2 DEF InHand
      <3>4. take \in Nat  BY <3>1, <3>3 DEF Least
      <3> HIDE DEF take
      <3>5. batch[t].left \in Int  BY <1>0 DEF Batches
      <3>6. /\ batch'[t].used = batch[t].used /\ batch'[t].owner = batch[t].owner
            /\ batch'[t].left = batch[t].left - take
        BY <1>0, <2>1, <2>3 DEF Batches
      <3> QED  BY <2>3, <3>3, <3>4, <3>5, <3>6 DEF Shrinks
    <2> QED  BY <2>2, <2>3
  <1>3. ASSUME NEW s \in Slots, ClearAnomaly(s)
        PROVE  (batch[t].used => Shrinks(t)) /\ (~batch'[t].used => batch'[t].left = 0)
    <2>1. /\ batch'[t].used = batch[t].used /\ batch'[t].owner = batch[t].owner
          /\ batch'[t].left = batch[t].left
      BY <1>0, <1>3 DEF ClearAnomaly, Batches
    <2> QED  BY <1>a, <2>1
  <1>4. CASE UNCHANGED batch  BY <1>a, <1>4
  <1> QED
    BY <1>1, <1>2, <1>3, <1>4 DEF Next, vars, ReceiptStep, ExpenseStep, BeginReceipt, AddTolling,
       BeginExpense, RecordReceipt, WriteStock, RecordTolling, RecordExpense, DeductStock, Pick,
       Answer, Die

\* Nothing that other requests do spoils what an expense has in hand.
LEMMA IssueStep == IssueInv /\ [Next]_vars => IssueInv'
  <1> SUFFICES ASSUME IssueInv, [Next]_vars  PROVE IssueInv'
    OBVIOUS
  <1>1. TypeOK'  BY TypeStep DEF IssueInv
  <1>2. UnusedEmpty'  BY BatchStep DEF UnusedEmpty
  <1>3. ASSUME NEW r \in Requests  PROVE InHand(r)'
    <2>1. InHand(r) /\ TypeOK  BY DEF IssueInv
    <2>2. /\ job[r] \in Job /\ job[r].qty \in Nat /\ job[r].view \in [Slots -> Int]
          /\ job[r].todo \subseteq Slots /\ job \in [Requests -> Job]
          /\ \A t \in Slots : job[r].view[t] \in Int
      BY <2>1 DEF TypeOK, Job
    <2>3. \A t \in Slots : batch[t].left \in Int /\ batch'[t].left \in Int
      BY <2>1, <1>1 DEF TypeOK, Batches
    <2>4. \A t \in Slots : job[r].view[t] > 0 => Shrinks(t)
      BY <2>1, BatchStep DEF InHand
    <2>5. CASE Fresh(r)  BY <2>5 DEF Fresh, InHand
    <2>6. CASE Untouched(r)
      <3>1. \A s \in job'[r].todo : job'[r].view[s] > 0 /\ batch'[s].owner \in {Own, job'[r].order}
        BY <2>1, <2>2, <2>4, <2>6 DEF Untouched, InHand, Shrinks
      <3>2. \A t \in Slots : job'[r].view[t] > 0
                                => batch'[t].used /\ batch'[t].left <= job'[r].view[t]
        BY <2>1, <2>2, <2>3, <2>4, <2>6 DEF Untouched, InHand, Shrinks
      <3>3. \A t \in Slots :
               /\ job'[r].view[t] > 0 /\ batch'[t].owner \in {Own, job'[r].order}
               /\ job'[r].qty > 0 /\ t \notin job'[r].todo
               => batch'[t].left <= 0
        BY <2>1, <2>3, <2>4, <2>6 DEF Untouched, InHand, Shrinks
      <3> QED  BY <3>1, <3>2, <3>3 DEF InHand
    <2>7. CASE Pick(r)
      <3>1. /\ job'[r].todo = Offered(job[r].order) /\ job'[r].order = job[r].order
            /\ job'[r].view = [s \in Slots |-> batch[s].left] /\ batch' = batch
        BY <2>2, <2>7 DEF Pick, Job
      <3>2. \A t \in Slots : batch[t].left > 0 => batch[t].used
        BY <2>3 DEF IssueInv, UnusedEmpty
      <3> QED  BY <2>3, <3>1, <3>2 DEF InHand, Offered
    <2>8. ASSUME NEW s \in Slots, Take(r, s)  PROVE InHand(r)'
      <3> DEFINE take == Least(job[r].qty, job[r].view[s])
      <3>1. /\ job' = [job EXCEPT ![r].qty = job[r].qty - take, ![r].todo = job[r].todo \ {s}]
            /\ batch' = [batch EXCEPT ![s].left = batch[s].left - take]
            /\ s \in job[r].todo /\ job[r].qty > 0
        BY <2>8 DEF Take
      <3>2. job[r].view[s] > 0 /\ batch[s].left <= job[r].view[s]
        BY <2>1, <3>1 DEF InHand
      <3>3. take \in Nat /\ (job[r].qty - take > 0 => take = job[r].view[s])
        BY <2>2, <3>2 DEF Least
      <3> HIDE DEF take
      <3>4. /\ job'[r].view = job[r].view /\ job'[r].order = job[r].order
            /\ job'[r].qty = job[r].qty - take /\ job'[r].todo = job[r].todo \ {s}
        BY <2>2, <3>1 DEF Job
      <3>5. batch'[s].left = batch[s].left - take
        BY <2>1, <3>1 DEF TypeOK, Batches
      <3>6. \A u \in job'[r].todo : job'[r].view[u] > 0 /\ batch'[u].owner \in {Own, job'[r].order}
        BY <2>1, <2>2, <2>4, <3>4 DEF InHand, Shrinks
      <3>7. \A t \in Slots : job'[r].view[t] > 0
                                => batch'[t].used /\ batch'[t].left <= job'[r].view[t]
        BY <2>1, <2>2, <2>3, <2>4, <3>4 DEF InHand, Shrinks
      <3>8. ASSUME NEW t \in Slots, job'[r].view[t] > 0, batch'[t].owner \in {Own, job'[r].order},
                   job'[r].qty > 0, t \notin job'[r].todo
            PROVE  batch'[t].left <= 0
        <4>1. CASE t = s  BY <2>2, <2>3, <3>2, <3>3, <3>4, <3>5, <3>8, <4>1
        <4>2. CASE t # s
          <5>1. Shrinks(t) /\ t \notin job[r].todo /\ job[r].view[t] > 0
            BY <2>4, <3>4, <3>8, <4>2
          <5>2. batch[t].left <= 0
            BY <2>1, <3>1, <3>4, <3>8, <5>1 DEF InHand, Shrinks
          <5> QED  BY <2>3, <5>1, <5>2 DEF Shrinks
        <4> QED  BY <4>1, <4>2
      <3> QED  BY <3>6, <3>7, <3>8 DEF InHand
    <2> QED  BY <2>1, <2>5, <2>6, <2>7, <2>8, JobStep
  <1> QED  BY <1>1, <1>2, <1>3 DEF IssueInv

\* What expenses have in hand is what the stock still offers them.
LEMMA IssueInvariant == Spec => []IssueInv
  <1>1. Init /\ TypeOK => IssueInv
    <2> SUFFICES ASSUME Init, TypeOK  PROVE IssueInv
      OBVIOUS
    <2>1. UnusedEmpty  BY DEF Init, Free, UnusedEmpty
    <2>2. ASSUME NEW r \in Requests  PROVE InHand(r)
      <3>1. job[r].todo = {} /\ job[r].view = [s \in Slots |-> 0]
        BY IdleShape DEF Init
      <3> QED  BY <3>1 DEF InHand
    <2> QED  BY <2>1, <2>2 DEF IssueInv
  <1> QED  BY <1>1, InitialStockTypes, IssueStep, PTL DEF Spec

\* Metal leaves a batch at an expense only by an expense taking it.
LEMMA TakesIsTake ==
  ASSUME IssueInv, [Next]_vars, NEW r \in Requests, NEW s \in Slots, Takes(r, s)
  PROVE  Take(r, s)
  <1>1. /\ batch'[s].left < batch[s].left /\ job'[r].qty < job[r].qty
        /\ job[r].qty \in Nat /\ batch[s].left \in Int
        /\ batch \in [Slots -> Batches] /\ job \in [Requests -> Job]
    BY DEF Takes, IssueInv, TypeOK, Batches, Job
  <1>2. batch' # batch  BY <1>1
  <1>3. CASE \E p \in Requests, t \in Slots : CreateFromMovement(p, t)
    <2>1. PICK p \in Requests, t \in Slots : CreateFromMovement(p, t)  BY <1>3
    <2>2. CASE t = s
      <3>1. batch'[s].left = job[p].qty /\ job[p].qty \in Nat /\ batch[s].left = 0
        BY <1>1, <2>1, <2>2 DEF CreateFromMovement, Job, IssueInv, UnusedEmpty
      <3> QED  BY <1>1, <3>1
    <2>3. CASE t # s
      <3>1. batch'[s] = batch[s]  BY <1>1, <2>1, <2>3 DEF CreateFromMovement
      <3> QED  BY <1>1, <3>1
    <2> QED  BY <2>2, <2>3
  <1>4. CASE \E t \in Slots : ClearAnomaly(t)
    <2>1. job' = job  BY <1>4 DEF ClearAnomaly
    <2> QED  BY <1>1, <2>1
  <1>5. CASE \E p \in Requests, t \in Slots : Take(p, t)
    <2>1. PICK p \in Requests, t \in Slots : Take(p, t)  BY <1>5
    <2>2. ASSUME p # r  PROVE FALSE
      <3>1. job'[r] = job[r]  BY <1>1, <2>1, <2>2 DEF Take
      <3> QED  BY <1>1, <3>1
    <2>3. ASSUME t # s  PROVE FALSE
      <3>1. batch'[s] = batch[s]  BY <1>1, <2>1, <2>3 DEF Take
      <3> QED  BY <1>1, <3>1
    <2> QED  BY <2>1, <2>2, <2>3
  <1> QED
    BY <1>2, <1>3, <1>4, <1>5 DEF Next, vars, ReceiptStep, ExpenseStep, BeginReceipt, AddTolling,
       BeginExpense, RecordReceipt, WriteStock, RecordTolling, RecordExpense, DeductStock, Pick,
       Answer, Die

\* TollingStaysWithOwner: a customer's metal is issued to that customer's order
\* alone, whatever receipts, expenses and failures overlap.
THEOREM TollingStays == Spec => TollingStaysWithOwner
  <1>1. ASSUME IssueInv, [Next]_vars, NEW r \in Requests, NEW s \in Slots, Takes(r, s)
        PROVE  batch[s].owner \in {Own, job[r].order}
    <2>1. s \in job[r].todo  BY <1>1, TakesIsTake DEF Take
    <2>2. InHand(r)  BY <1>1 DEF IssueInv
    <2> QED  BY <2>1, <2>2 DEF InHand
  <1>2. IssueInv /\ [Next]_vars
           => [\A r \in Requests, s \in Slots :
                  Takes(r, s) => batch[s].owner \in {Own, job[r].order}]_vars
    BY <1>1
  <1> QED  BY <1>2, IssueInvariant, PTL DEF Spec, TollingStaysWithOwner

\* TakesInTurn: an expense turns to the plant's metal, and to a later batch,
\* only when nothing is left of what comes before among the batches it saw.
THEOREM TakenInTurn == Spec => TakesInTurn
  <1>1. ASSUME IssueInv, [Next]_vars, NEW r \in Requests, NEW s \in Slots, NEW t \in Slots,
               Takes(r, s), job[r].view[t] > 0, batch[t].owner \in {Own, job[r].order}, s # t
        PROVE  \/ batch[t].left <= 0
               \/ batch[s].owner # Own /\ batch[t].owner = Own
               \/ (batch[s].owner = Own <=> batch[t].owner = Own) /\ s < t
    <2>1. Take(r, s) /\ InHand(r)  BY <1>1, TakesIsTake DEF IssueInv
    <2>2. CASE t \in job[r].todo
      <3>1. Earlier(s, t)  BY <1>1, <2>1, <2>2 DEF Take
      <3>2. CASE (batch[s].owner = Own) = (batch[t].owner = Own)
        BY <3>1, <3>2 DEF Earlier
      <3>3. CASE (batch[s].owner = Own) # (batch[t].owner = Own)
        BY <3>1, <3>3 DEF Earlier
      <3> QED  BY <3>2, <3>3
    <2>3. CASE t \notin job[r].todo  BY <1>1, <2>1, <2>3 DEF InHand, Take
    <2> QED  BY <2>2, <2>3
  <1>2. IssueInv /\ [Next]_vars
           => [\A r \in Requests, s, t \in Slots :
                  Takes(r, s) /\ job[r].view[t] > 0 /\ batch[t].owner \in {Own, job[r].order} /\ s # t
                      => \/ batch[t].left <= 0
                         \/ batch[s].owner # Own /\ batch[t].owner = Own
                         \/ (batch[s].owner = Own <=> batch[t].owner = Own) /\ s < t]_vars
    BY <1>1
  <1> QED  BY <1>2, IssueInvariant, PTL DEF Spec, TakesInTurn

----------------------------------------------------------------------------
(* The books                                                               *)

\* What a request under way has still to write, into the stock against the
\* movements and into the batches against the stock.
StockDue(r) ==
    IF job[r].phase = "stocking" THEN -job[r].qty
    ELSE IF job[r].phase \in {"tolling", "deducting"} THEN job[r].qty ELSE 0
BatchDue(r) ==
    IF job[r].phase \in {"batching", "tolling"} THEN -job[r].qty
    ELSE IF job[r].phase \in {"picking", "taking"} THEN job[r].qty ELSE 0

StockDues == SumFunctionOnSet([r \in Requests |-> StockDue(r)], Requests)
BatchDues == SumFunctionOnSet([r \in Requests |-> BatchDue(r)], Requests)

\* The books agree up to what the requests under way have still to write.
Books ==
    ~torn => /\ stock = received - issued + StockDues
             /\ InBatches = stock + uncovered + BatchDues

\* What is due is an integer.
LEMMA DueTypes ==
  ASSUME TypeOK
  PROVE  /\ \A r \in Requests : StockDue(r) \in Int /\ BatchDue(r) \in Int
         /\ StockDues \in Int /\ BatchDues \in Int /\ InBatches \in Int
  <1>1. \A r \in Requests : job[r].qty \in Nat  BY DEF TypeOK, Job
  <1>2. \A r \in Requests : StockDue(r) \in Int /\ BatchDue(r) \in Int
    BY <1>1 DEF StockDue, BatchDue
  <1>3. \A s \in Slots : batch[s].left \in Int  BY DEF TypeOK, Batches
  <1> DEFINE a == [r \in Requests |-> StockDue(r)]
             b == [r \in Requests |-> BatchDue(r)]
             c == [s \in Slots |-> batch[s].left]
  <1>4. /\ \A r \in Requests : a[r] \in Int /\ b[r] \in Int
        /\ \A s \in Slots : c[s] \in Int
    BY <1>2, <1>3
  <1>5. StockDues = SumFunctionOnSet(a, Requests) /\ BatchDues = SumFunctionOnSet(b, Requests)
        /\ InBatches = SumFunctionOnSet(c, Slots)
    BY DEF StockDues, BatchDues, InBatches
  <1> HIDE DEF a, b, c
  <1> QED  BY <1>2, <1>4, <1>5, StockAssumption, SumInt

\* A step of one request changes what is due by what is due to that request.
LEMMA DuesChange ==
  ASSUME TypeOK, TypeOK', NEW r \in Requests, \A p \in Requests : p # r => job'[p] = job[p]
  PROVE  /\ StockDues' = StockDues + (StockDue(r)' - StockDue(r))
         /\ BatchDues' = BatchDues + (BatchDue(r)' - BatchDue(r))
  <1> DEFINE a == [p \in Requests |-> StockDue(p)]
             b == [p \in Requests |-> BatchDue(p)]
             aa == [p \in Requests |-> StockDue(p)']
             bb == [p \in Requests |-> BatchDue(p)']
  <1>1. \A p \in Requests : /\ StockDue(p) \in Int /\ BatchDue(p) \in Int
                           /\ StockDue(p)' \in Int /\ BatchDue(p)' \in Int
    <2>1. \A p \in Requests : job[p].qty \in Nat /\ job'[p].qty \in Nat
      BY DEF TypeOK, Job
    <2> QED  BY <2>1 DEF StockDue, BatchDue
  <1>2. \A p \in Requests \ {r} : StockDue(p)' = StockDue(p) /\ BatchDue(p)' = BatchDue(p)
    BY DEF StockDue, BatchDue
  <1>3. /\ \A p \in Requests : /\ a[p] \in Int /\ b[p] \in Int /\ aa[p] \in Int /\ bb[p] \in Int
        /\ \A p \in Requests \ {r} : aa[p] = a[p] /\ bb[p] = b[p]
        /\ a[r] = StockDue(r) /\ aa[r] = StockDue(r)' /\ b[r] = BatchDue(r) /\ bb[r] = BatchDue(r)'
    BY <1>1, <1>2
  <1>4. /\ StockDues = SumFunctionOnSet(a, Requests) /\ StockDues' = SumFunctionOnSet(aa, Requests)
        /\ BatchDues = SumFunctionOnSet(b, Requests) /\ BatchDues' = SumFunctionOnSet(bb, Requests)
    BY DEF StockDues, BatchDues
  <1> HIDE DEF a, b, aa, bb
  <1>5. SumFunctionOnSet(aa, Requests) = SumFunctionOnSet(a, Requests) + (aa[r] - a[r])
    BY <1>3, StockAssumption, SumChange
  <1>6. SumFunctionOnSet(bb, Requests) = SumFunctionOnSet(b, Requests) + (bb[r] - b[r])
    BY <1>3, StockAssumption, SumChange
  <1> QED  BY <1>3, <1>4, <1>5, <1>6

\* A step at one batch changes what the batches hold by what it changes there.
LEMMA InBatchesChange ==
  ASSUME TypeOK, TypeOK', NEW s \in Slots,
         \A t \in Slots : t # s => batch'[t].left = batch[t].left
  PROVE  InBatches' = InBatches + (batch'[s].left - batch[s].left)
  <1> DEFINE c == [t \in Slots |-> batch[t].left]
             cc == [t \in Slots |-> batch'[t].left]
  <1>1. \A t \in Slots : batch[t].left \in Int /\ batch'[t].left \in Int
    BY DEF TypeOK, Batches
  <1>2. /\ \A t \in Slots : c[t] \in Int /\ cc[t] \in Int
        /\ \A t \in Slots \ {s} : cc[t] = c[t]
        /\ c[s] = batch[s].left /\ cc[s] = batch'[s].left
    BY <1>1
  <1>3. InBatches = SumFunctionOnSet(c, Slots) /\ InBatches' = SumFunctionOnSet(cc, Slots)
    BY DEF InBatches
  <1> HIDE DEF c, cc
  <1>4. SumFunctionOnSet(cc, Slots) = SumFunctionOnSet(c, Slots) + (cc[s] - c[s])
    BY <1>2, StockAssumption, SumChange
  <1> QED  BY <1>2, <1>3, <1>4

\* Where a request stands after it starts, and after it goes on.
LEMMA StartsAt ==
  ASSUME TypeOK, NEW r \in Requests, NEW phase \in Phases, NEW q \in Nat,
         NEW o \in Orders \cup {Own}, Start(r, phase, q, o)
  PROVE  /\ job[r].phase = "idle" /\ job'[r].phase = phase /\ job'[r].qty = q
         /\ \A p \in Requests : p # r => job'[p] = job[p]
  <1> DEFINE j == [Idle EXCEPT !.phase = phase, !.qty = q, !.order = o, !.seen = stock]
  <1>1. j.phase = phase /\ j.qty = q  BY DEF Idle
  <1>2. job' = [job EXCEPT ![r] = j] /\ job[r] = Idle  BY DEF Start
  <1> HIDE DEF j
  <1> QED  BY <1>1, <1>2, IdleShape DEF TypeOK

LEMMA ProceedsTo ==
  ASSUME TypeOK, NEW r \in Requests, NEW phase \in Phases,
         Proceed(r, phase) \/ Forget(r, phase)
  PROVE  /\ job'[r].phase = phase /\ job'[r].qty = job[r].qty
         /\ \A p \in Requests : p # r => job'[p] = job[p]
  <1>1. job[r] \in Job /\ job \in [Requests -> Job]  BY DEF TypeOK
  <1>2. CASE Proceed(r, phase)  BY <1>1, <1>2 DEF Proceed, Job
  <1>3. CASE Forget(r, phase)  BY <1>1, <1>3 DEF Forget, Job
  <1> QED  BY <1>2, <1>3

\* Every statement of every request moves the books by what was due of it, unless
\* a receipt wrote over a change or the request died.
LEMMA BooksStep == IssueInv /\ TypeOK' /\ Books /\ [Next]_vars => Books'
  <1> SUFFICES ASSUME IssueInv, TypeOK', Books, [Next]_vars  PROVE Books'
    OBVIOUS
  <1> USE StockAssumption
  <1>0. /\ TypeOK /\ UnusedEmpty /\ job \in [Requests -> Job] /\ batch \in [Slots -> Batches]
        /\ stock \in Int /\ received \in Int /\ issued \in Int /\ uncovered \in Int
        /\ \A r \in Requests : job[r].qty \in Nat /\ job[r] \in Job
        /\ StockDues \in Int /\ BatchDues \in Int /\ InBatches \in Int
    BY DueTypes DEF IssueInv, TypeOK, Job
  <1>a. ASSUME UNCHANGED batch  PROVE InBatches' = InBatches
    BY <1>a DEF InBatches
  <1>b. /\ Books /\ stock \in Int /\ received \in Int /\ issued \in Int /\ uncovered \in Int
        /\ StockDues \in Int /\ BatchDues \in Int /\ InBatches \in Int
    BY <1>0
  <1>1. ASSUME NEW r \in Requests, NEW q \in Quantities, BeginReceipt(r, q)  PROVE Books'
    <2>1. q \in Nat /\ UNCHANGED <<stock, received, issued, batch, uncovered, torn>>
      BY <1>1 DEF BeginReceipt
    <2>2. /\ job[r].phase = "idle" /\ job'[r].phase = "recording"
          /\ \A p \in Requests : p # r => job'[p] = job[p]
      BY <1>0, <1>1, <2>1, StartsAt DEF BeginReceipt, Phases
    <2>3. StockDue(r) = 0 /\ StockDue(r)' = 0 /\ BatchDue(r) = 0 /\ BatchDue(r)' = 0
      BY <2>2 DEF StockDue, BatchDue
    <2>4. /\ StockDues' = StockDues + (StockDue(r)' - StockDue(r))
          /\ BatchDues' = BatchDues + (BatchDue(r)' - BatchDue(r))
      BY <1>0, <2>2, DuesChange
    <2>5. job[r].qty \in Int /\ InBatches' = InBatches  BY <1>0, <1>a, <2>1
    <2> QED  BY <1>b, <2>1, <2>3, <2>4, <2>5 DEF Books
  <1>2. ASSUME NEW r \in Requests, NEW q \in Quantities, NEW o \in Orders, AddTolling(r, o, q)
        PROVE  Books'
    <2>1. /\ Abs(q) \in Nat /\ stock' = stock + Abs(q)
          /\ UNCHANGED <<received, issued, batch, uncovered, torn>>
      BY <1>2, AbsNat DEF AddTolling
    <2>2. /\ job[r].phase = "idle" /\ job'[r].phase = "tolling" /\ job'[r].qty = Abs(q)
          /\ \A p \in Requests : p # r => job'[p] = job[p]
      BY <1>0, <1>2, <2>1, StartsAt DEF AddTolling, Phases
    <2>3. /\ StockDue(r) = 0 /\ StockDue(r)' = Abs(q)
          /\ BatchDue(r) = 0 /\ BatchDue(r)' = -Abs(q)
      BY <2>2 DEF StockDue, BatchDue
    <2>4. /\ StockDues' = StockDues + (StockDue(r)' - StockDue(r))
          /\ BatchDues' = BatchDues + (BatchDue(r)' - BatchDue(r))
      BY <1>0, <2>2, DuesChange
    <2>5. job[r].qty \in Int /\ InBatches' = InBatches  BY <1>0, <1>a, <2>1
    <2> QED  BY <1>b, <2>1, <2>3, <2>4, <2>5 DEF Books
  <1>3. ASSUME NEW r \in Requests, NEW q \in Quantities, NEW o \in Orders \cup {Own},
               BeginExpense(r, o, q)
        PROVE  Books'
    <2>1. Abs(q) \in Nat /\ UNCHANGED <<stock, received, issued, batch, uncovered, torn>>
      BY <1>3, AbsNat DEF BeginExpense
    <2>2. /\ job[r].phase = "idle" /\ job'[r].phase = "issuing"
          /\ \A p \in Requests : p # r => job'[p] = job[p]
      BY <1>0, <1>3, <2>1, StartsAt DEF BeginExpense, Phases
    <2>3. StockDue(r) = 0 /\ StockDue(r)' = 0 /\ BatchDue(r) = 0 /\ BatchDue(r)' = 0
      BY <2>2 DEF StockDue, BatchDue
    <2>4. /\ StockDues' = StockDues + (StockDue(r)' - StockDue(r))
          /\ BatchDues' = BatchDues + (BatchDue(r)' - BatchDue(r))
      BY <1>0, <2>2, DuesChange
    <2>5. job[r].qty \in Int /\ InBatches' = InBatches  BY <1>0, <1>a, <2>1
    <2> QED  BY <1>b, <2>1, <2>3, <2>4, <2>5 DEF Books
  <1>4. ASSUME NEW r \in Requests, RecordReceipt(r)  PROVE Books'
    <2>1. /\ job[r].phase = "recording" /\ received' = received + job[r].qty
          /\ UNCHANGED <<stock, issued, batch, uncovered, torn>>
      BY <1>4 DEF RecordReceipt
    <2>2. /\ job'[r].phase = "stocking" /\ job'[r].qty = job[r].qty
          /\ \A p \in Requests : p # r => job'[p] = job[p]
      BY <1>0, <1>4, ProceedsTo DEF RecordReceipt, Phases
    <2>3. /\ StockDue(r) = 0 /\ StockDue(r)' = -job[r].qty
          /\ BatchDue(r) = 0 /\ BatchDue(r)' = 0
      BY <2>1, <2>2 DEF StockDue, BatchDue
    <2>4. /\ StockDues' = StockDues + (StockDue(r)' - StockDue(r))
          /\ BatchDues' = BatchDues + (BatchDue(r)' - BatchDue(r))
      BY <1>0, <2>2, DuesChange
    <2>5. job[r].qty \in Int /\ InBatches' = InBatches  BY <1>0, <1>a, <2>1
    <2> QED  BY <1>b, <2>1, <2>3, <2>4, <2>5 DEF Books
  <1>5. ASSUME NEW r \in Requests, WriteStock(r)  PROVE Books'
    <2>1. /\ job[r].phase = "stocking" /\ stock' = job[r].seen + job[r].qty
          /\ ~torn' => ~torn /\ stock = job[r].seen
          /\ UNCHANGED <<received, issued, batch, uncovered>>
      BY <1>5 DEF WriteStock
    <2>2. /\ job'[r].phase = "batching" /\ job'[r].qty = job[r].qty
          /\ \A p \in Requests : p # r => job'[p] = job[p]
      BY <1>0, <1>5, ProceedsTo DEF WriteStock, Phases
    <2>3. /\ StockDue(r) = -job[r].qty /\ StockDue(r)' = 0
          /\ BatchDue(r) = 0 /\ BatchDue(r)' = -job[r].qty
      BY <2>1, <2>2 DEF StockDue, BatchDue
    <2>4. /\ StockDues' = StockDues + (StockDue(r)' - StockDue(r))
          /\ BatchDues' = BatchDues + (BatchDue(r)' - BatchDue(r))
      BY <1>0, <2>2, DuesChange
    <2>5. job[r].qty \in Int /\ InBatches' = InBatches  BY <1>0, <1>a, <2>1
    <2> QED  BY <1>b, <2>1, <2>3, <2>4, <2>5 DEF Books
  <1>6. ASSUME NEW r \in Requests, NEW s \in Slots, CreateFromMovement(r, s)  PROVE Books'
    <2>1. /\ job[r].phase = "batching" /\ ~batch[s].used
          /\ UNCHANGED <<stock, received, issued, uncovered, torn>>
          /\ job' = [job EXCEPT ![r] = Idle]
      BY <1>6 DEF CreateFromMovement
    <2>2. job'[r].phase = "idle" /\ \A p \in Requests : p # r => job'[p] = job[p]
      BY <1>0, <2>1, IdleShape
    <2>3. /\ StockDue(r) = 0 /\ StockDue(r)' = 0
          /\ BatchDue(r) = -job[r].qty /\ BatchDue(r)' = 0
      BY <2>1, <2>2 DEF StockDue, BatchDue
    <2>4. /\ batch'[s].left = job[r].qty /\ batch[s].left = 0
          /\ \A t \in Slots : t # s => batch'[t].left = batch[t].left
      BY <1>0, <1>6 DEF CreateFromMovement, UnusedEmpty
    <2>5. InBatches' = InBatches + (batch'[s].left - batch[s].left)
      BY <1>0, <2>4, InBatchesChange
    <2>6. job[r].qty \in Int  BY <1>0
    <2>7. InBatches' = InBatches + job[r].qty  BY <1>0, <2>4, <2>5, <2>6
    <2>8. StockDues' = StockDues /\ BatchDues' = BatchDues + job[r].qty
      BY <1>0, <2>2, <2>3, <2>6, DuesChange
    <2> QED  BY <1>0, <2>1, <2>6, <2>7, <2>8 DEF Books
  <1>7. ASSUME NEW r \in Requests, RecordTolling(r)  PROVE Books'
    <2>1. /\ job[r].phase = "tolling" /\ received' = received + job[r].qty
          /\ UNCHANGED <<stock, issued, batch, uncovered, torn>>
      BY <1>7 DEF RecordTolling
    <2>2. /\ job'[r].phase = "batching" /\ job'[r].qty = job[r].qty
          /\ \A p \in Requests : p # r => job'[p] = job[p]
      BY <1>0, <1>7, ProceedsTo DEF RecordTolling, Phases
    <2>3. /\ StockDue(r) = job[r].qty /\ StockDue(r)' = 0
          /\ BatchDue(r) = -job[r].qty /\ BatchDue(r)' = -job[r].qty
      BY <2>1, <2>2 DEF StockDue, BatchDue
    <2>4. /\ StockDues' = StockDues + (StockDue(r)' - StockDue(r))
          /\ BatchDues' = BatchDues + (BatchDue(r)' - BatchDue(r))
      BY <1>0, <2>2, DuesChange
    <2>5. job[r].qty \in Int /\ InBatches' = InBatches  BY <1>0, <1>a, <2>1
    <2> QED  BY <1>b, <2>1, <2>3, <2>4, <2>5 DEF Books
  <1>8. ASSUME NEW r \in Requests, RecordExpense(r)  PROVE Books'
    <2>1. /\ job[r].phase = "issuing" /\ issued' = issued + job[r].qty
          /\ UNCHANGED <<stock, received, batch, uncovered, torn>>
      BY <1>8 DEF RecordExpense
    <2>2. /\ job'[r].phase = "deducting" /\ job'[r].qty = job[r].qty
          /\ \A p \in Requests : p # r => job'[p] = job[p]
      BY <1>0, <1>8, ProceedsTo DEF RecordExpense, Phases
    <2>3. /\ StockDue(r) = 0 /\ StockDue(r)' = job[r].qty
          /\ BatchDue(r) = 0 /\ BatchDue(r)' = 0
      BY <2>1, <2>2 DEF StockDue, BatchDue
    <2>4. /\ StockDues' = StockDues + (StockDue(r)' - StockDue(r))
          /\ BatchDues' = BatchDues + (BatchDue(r)' - BatchDue(r))
      BY <1>0, <2>2, DuesChange
    <2>5. job[r].qty \in Int /\ InBatches' = InBatches  BY <1>0, <1>a, <2>1
    <2> QED  BY <1>b, <2>1, <2>3, <2>4, <2>5 DEF Books
  <1>9. ASSUME NEW r \in Requests, DeductStock(r)  PROVE Books'
    <2>1. /\ job[r].phase = "deducting" /\ stock' = stock - job[r].qty
          /\ UNCHANGED <<received, issued, batch, uncovered, torn>>
      BY <1>9 DEF DeductStock
    <2>2. /\ job'[r].phase = "picking" /\ job'[r].qty = job[r].qty
          /\ \A p \in Requests : p # r => job'[p] = job[p]
      BY <1>0, <1>9, ProceedsTo DEF DeductStock, Phases
    <2>3. /\ StockDue(r) = job[r].qty /\ StockDue(r)' = 0
          /\ BatchDue(r) = 0 /\ BatchDue(r)' = job[r].qty
      BY <2>1, <2>2 DEF StockDue, BatchDue
    <2>4. job[r].qty \in Int /\ InBatches' = InBatches  BY <1>0, <1>a, <2>1
    <2>5. StockDues' = StockDues - job[r].qty /\ BatchDues' = BatchDues + job[r].qty
      BY <1>0, <2>2, <2>3, <2>4, DuesChange
    <2>6. ~torn' => stock' = received' - issued' + StockDues'
      BY <1>0, <2>1, <2>4, <2>5 DEF Books
    <2>7. ~torn' => InBatches' = stock' + uncovered' + BatchDues'
      BY <1>0, <2>1, <2>4, <2>5 DEF Books
    <2> QED  BY <2>6, <2>7 DEF Books
  <1>10. ASSUME NEW r \in Requests, Pick(r)  PROVE Books'
    <2>1. /\ job[r].phase = "picking"
          /\ UNCHANGED <<stock, received, issued, batch, uncovered, torn>>
      BY <1>10 DEF Pick
    <2>2. /\ job'[r].phase = "taking" /\ job'[r].qty = job[r].qty
          /\ \A p \in Requests : p # r => job'[p] = job[p]
      BY <1>0, <1>10 DEF Pick, Job
    <2>3. /\ StockDue(r) = 0 /\ StockDue(r)' = 0
          /\ BatchDue(r) = job[r].qty /\ BatchDue(r)' = job[r].qty
      BY <2>1, <2>2 DEF StockDue, BatchDue
    <2>4. /\ StockDues' = StockDues + (StockDue(r)' - StockDue(r))
          /\ BatchDues' = BatchDues + (BatchDue(r)' - BatchDue(r))
      BY <1>0, <2>2, DuesChange
    <2>5. job[r].qty \in Int /\ InBatches' = InBatches  BY <1>0, <1>a, <2>1
    <2> QED  BY <1>b, <2>1, <2>3, <2>4, <2>5 DEF Books
  <1>11. ASSUME NEW r \in Requests, NEW s \in Slots, Take(r, s)  PROVE Books'
    <2> DEFINE take == Least(job[r].qty, job[r].view[s])
    <2>0. take \in Int  BY <1>0 DEF Least, Job
    <2>1. /\ job[r].phase = "taking"
          /\ batch' = [batch EXCEPT ![s].left = batch[s].left - take]
          /\ job' = [job EXCEPT ![r].qty = job[r].qty - take, ![r].todo = job[r].todo \ {s}]
          /\ UNCHANGED <<stock, received, issued, uncovered, torn>>
      BY <1>11 DEF Take
    <2> HIDE DEF take
    <2>2. /\ job'[r].phase = "taking" /\ job'[r].qty = job[r].qty - take
          /\ \A p \in Requests : p # r => job'[p] = job[p]
      BY <1>0, <2>1 DEF Job
    <2>3. /\ StockDue(r) = 0 /\ StockDue(r)' = 0
          /\ BatchDue(r) = job[r].qty /\ BatchDue(r)' = job[r].qty - take
      BY <2>1, <2>2 DEF StockDue, BatchDue
    <2>4. /\ batch'[s].left = batch[s].left - take /\ batch[s].left \in Int
          /\ \A t \in Slots : t # s => batch'[t].left = batch[t].left
      BY <1>0, <2>1 DEF Batches
    <2>5. InBatches' = InBatches - take
      BY <1>0, <2>0, <2>4, InBatchesChange
    <2>6. /\ StockDues' = StockDues + (StockDue(r)' - StockDue(r))
          /\ BatchDues' = BatchDues + (BatchDue(r)' - BatchDue(r))
      BY <1>0, <2>2, DuesChange
    <2>7. job[r].qty \in Int  BY <1>0
    <2> QED  BY <1>b, <2>0, <2>1, <2>3, <2>5, <2>6, <2>7 DEF Books
  <1>12. ASSUME NEW r \in Requests, Answer(r)  PROVE Books'
    <2>1. /\ job[r].phase = "taking" /\ uncovered' = uncovered + job[r].qty
          /\ job' = [job EXCEPT ![r] = Idle]
          /\ UNCHANGED <<stock, received, issued, batch, torn>>
      BY <1>12 DEF Answer
    <2>2. job'[r].phase = "idle" /\ \A p \in Requests : p # r => job'[p] = job[p]
      BY <1>0, <2>1, IdleShape
    <2>3. /\ StockDue(r) = 0 /\ StockDue(r)' = 0
          /\ BatchDue(r) = job[r].qty /\ BatchDue(r)' = 0
      BY <2>1, <2>2 DEF StockDue, BatchDue
    <2>4. /\ StockDues' = StockDues + (StockDue(r)' - StockDue(r))
          /\ BatchDues' = BatchDues + (BatchDue(r)' - BatchDue(r))
      BY <1>0, <2>2, DuesChange
    <2>5. job[r].qty \in Int /\ InBatches' = InBatches  BY <1>0, <1>a, <2>1
    <2> QED  BY <1>b, <2>1, <2>3, <2>4, <2>5 DEF Books
  <1>13. ASSUME NEW s \in Slots, ClearAnomaly(s)  PROVE Books'
    <2>1. \A t \in Slots : batch'[t].left = batch[t].left
      BY <1>0, <1>13 DEF ClearAnomaly, Batches
    <2>2. batch[s].left \in Int /\ batch'[s].left = batch[s].left
      BY <1>0, <2>1 DEF Batches
    <2>6. InBatches' = InBatches + (batch'[s].left - batch[s].left)
      BY <1>0, <2>1, InBatchesChange
    <2>3. InBatches' = InBatches  BY <1>b, <2>2, <2>6
    <2>4. UNCHANGED <<stock, received, issued, uncovered, torn, job>>
      BY <1>13 DEF ClearAnomaly
    <2>5. StockDues' = StockDues /\ BatchDues' = BatchDues
      BY <2>4 DEF StockDues, BatchDues, StockDue, BatchDue
    <2> QED  BY <2>3, <2>4, <2>5 DEF Books
  <1>14. ASSUME NEW r \in Requests, Die(r)  PROVE Books'
    BY <1>14 DEF Die, Books
  <1>15. CASE UNCHANGED vars
    <2>1. UNCHANGED <<stock, received, issued, uncovered, torn, job, batch>>
      BY <1>15 DEF vars
    <2> QED  BY <1>a, <2>1 DEF Books, StockDues, BatchDues, StockDue, BatchDue
  <1> QED
    BY <1>1, <1>2, <1>3, <1>4, <1>5, <1>6, <1>7, <1>8, <1>9, <1>10, <1>11, <1>12, <1>13,
       <1>14, <1>15 DEF Next, ReceiptStep, ExpenseStep

\* Between any two statements of any number of overlapping requests the catalogue's
\* quantity, the movements and the batches differ by exactly what the requests in flight
\* have written to one and not yet to the other, as long as no receipt ran over another
\* request and none died.
THEOREM BooksBetweenStatements == Spec => []Books
  <1>1. Init /\ TypeOK => Books
    <2> SUFFICES ASSUME Init, TypeOK  PROVE Books
      OBVIOUS
    <2> DEFINE a == [r \in Requests |-> StockDue(r)]
               b == [r \in Requests |-> BatchDue(r)]
               c == [s \in Slots |-> batch[s].left]
    <2>1. /\ \A r \in Requests : a[r] = 0 /\ b[r] = 0
          /\ \A s \in Slots : c[s] = 0
      BY IdleShape DEF Init, StockDue, BatchDue, Free
    <2>2. StockDues = SumFunctionOnSet(a, Requests) /\ BatchDues = SumFunctionOnSet(b, Requests)
          /\ InBatches = SumFunctionOnSet(c, Slots)
      BY DEF StockDues, BatchDues, InBatches
    <2> HIDE DEF a, b, c
    <2>3. StockDues = 0 /\ BatchDues = 0 /\ InBatches = 0
      BY <2>1, <2>2, StockAssumption, SumZero
    <2> QED  BY <2>3 DEF Books, Init
  <1>2. IssueInv => TypeOK  BY DEF IssueInv
  <1> QED  BY <1>1, <1>2, InitialStockTypes, IssueInvariant, BooksStep, PTL DEF Spec

\* BooksAgree: with nothing under way nothing is owed, so the catalogue's quantity is what
\* the movements add up to and what the batches hold less what was reported as uncovered,
\* for any number of requests, batches and orders that have come and gone.
THEOREM BooksAlwaysAgree == Spec => []BooksAgree
  <1>1. IssueInv /\ Books => BooksAgree
    <2> SUFFICES ASSUME IssueInv, Books, AtRest, ~torn
                 PROVE  stock = received - issued /\ InBatches = stock + uncovered
      BY DEF BooksAgree
    <2> DEFINE a == [r \in Requests |-> StockDue(r)]
               b == [r \in Requests |-> BatchDue(r)]
    <2>1. \A r \in Requests : a[r] = 0 /\ b[r] = 0
      BY IdleShape DEF AtRest, StockDue, BatchDue
    <2>2. StockDues = SumFunctionOnSet(a, Requests) /\ BatchDues = SumFunctionOnSet(b, Requests)
      BY DEF StockDues, BatchDues
    <2> HIDE DEF a, b
    <2>3. StockDues = 0 /\ BatchDues = 0  BY <2>1, <2>2, StockAssumption, SumZero
    <2> QED  BY <2>3 DEF Books, IssueInv, TypeOK
  <1> QED  BY <1>1, IssueInvariant, BooksBetweenStatements, PTL
=============================================================================
