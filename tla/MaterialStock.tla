---------------------------- MODULE MaterialStock ----------------------------
(***************************************************************************)
(* The stock of one material (internal/warehouse): the quantity shown in   *)
(* the catalogue, the movements that explain it and the batches that hold  *)
(* it.  A receipt, a receipt of the customer's own metal (tolling) and an  *)
(* expense each write all three, one statement after the other and in no   *)
(* transaction: requests interleave between any two statements, and each   *)
(* may die there.                                                          *)
(***************************************************************************)
EXTENDS Integers, FiniteSets, FiniteSetsExt

CONSTANTS Requests,    \* requests of the warehouse under way
          Orders,      \* orders metal is issued to
          Own,         \* the plant's own metal, or no order
          Slots,       \* places of batches in the order of receipt_date, id
          Quantities,  \* bound: quantities typed into the forms
          MaxDeaths    \* bound: requests that die half way

ASSUME StockAssumption ==
    /\ Own \notin Orders
    /\ IsFiniteSet(Requests)
    /\ Slots \subseteq Nat /\ IsFiniteSet(Slots)
    /\ Quantities \subseteq Int
    /\ MaxDeaths \in Nat

VARIABLES
    stock,      \* materials.stock_qty
    received,   \* the sum of the receipt movements
    issued,     \* the sum of the expense movements
    batch,      \* material_batches by slot
    job,        \* what each request is doing
    uncovered,  \* observation: issued quantity the answers reported as uncovered
    torn,       \* observation: a request died, or a receipt wrote over a change
    deaths

vars == <<stock, received, issued, batch, job, uncovered, torn, deaths>>

Free == [used |-> FALSE, left |-> 0, owner |-> Own, quarantined |-> FALSE]
Batches == [used : BOOLEAN, left : Int, owner : Orders \cup {Own}, quarantined : BOOLEAN]

Idle == [phase |-> "idle", qty |-> 0, order |-> Own, seen |-> 0,
         view |-> [s \in Slots |-> 0], todo |-> {}]
Phases == {"idle", "recording", "stocking", "batching", "tolling",
           "issuing", "deducting", "picking", "taking"}
Job == [phase : Phases, qty : Nat, order : Orders \cup {Own}, seen : Int,
        view : [Slots -> Int], todo : SUBSET Slots]

TypeOK ==
    /\ stock \in Int /\ received \in Nat /\ issued \in Nat /\ uncovered \in Nat
    /\ batch \in [Slots -> Batches]
    /\ job \in [Requests -> Job]
    /\ torn \in BOOLEAN /\ deaths \in Nat

Init ==
    /\ stock = 0 /\ received = 0 /\ issued = 0 /\ uncovered = 0
    /\ batch = [s \in Slots |-> Free]
    /\ job = [r \in Requests |-> Idle]
    /\ torn = FALSE /\ deaths = 0

Abs(n) == IF n < 0 THEN -n ELSE n
Least(m, n) == IF m <= n THEN m ELSE n

Receiving(r) == job[r].phase \in {"recording", "stocking", "batching", "tolling"}

\* Bound: every receipt under way will find a slot for its batch.
Room == Cardinality({s \in Slots : batch[s].used}) + Cardinality({r \in Requests : Receiving(r)})
            < Cardinality(Slots)

Start(r, phase, q, o) ==
    /\ job[r] = Idle
    /\ job' = [job EXCEPT ![r] = [Idle EXCEPT !.phase = phase, !.qty = q, !.order = o,
                                              !.seen = stock]]

Proceed(r, phase) == job' = [job EXCEPT ![r].phase = phase]

\* What was read of the stock is used no more.
Forget(r, phase) == job' = [job EXCEPT ![r].phase = phase, ![r].seen = 0]

----------------------------------------------------------------------------
(* Receipt (Receive)                                                       *)

\* The stock is read with the price it is averaged with.
BeginReceipt(r, q) ==
    /\ q > 0 /\ Room
    /\ Start(r, "recording", q, Own)
    /\ UNCHANGED <<stock, received, issued, batch, uncovered, torn, deaths>>

RecordReceipt(r) ==
    /\ job[r].phase = "recording"
    /\ received' = received + job[r].qty
    /\ Proceed(r, "stocking")
    /\ UNCHANGED <<stock, issued, batch, uncovered, torn, deaths>>

\* The stock is written as the value read plus the receipt.
WriteStock(r) ==
    /\ job[r].phase = "stocking"
    /\ stock' = job[r].seen + job[r].qty
    /\ torn' = (torn \/ stock # job[r].seen)
    /\ Forget(r, "batching")
    /\ UNCHANGED <<received, issued, batch, uncovered, deaths>>

\* Prices are compared with the batches of the plant that are not in doubt;
\* tolling batches cost nothing and are never in doubt.
Doubtful(o) ==
    IF o = Own /\ (\E t \in Slots : batch[t].used /\ batch[t].owner = Own /\ ~batch[t].quarantined)
        THEN BOOLEAN ELSE {FALSE}

\* The date of the document decides the place of the batch among the others.
CreateFromMovement(r, s) ==
    /\ job[r].phase = "batching" /\ ~batch[s].used
    /\ \E doubt \in Doubtful(job[r].order) :
          batch' = [batch EXCEPT ![s] = [used |-> TRUE, left |-> job[r].qty,
                                         owner |-> job[r].order, quarantined |-> doubt]]
    /\ job' = [job EXCEPT ![r] = Idle]
    /\ UNCHANGED <<stock, received, issued, uncovered, torn, deaths>>

----------------------------------------------------------------------------
(* Receipt of tolling metal (PostTollingReceipt, CreateTollingReceipt)     *)

AddTolling(r, o, q) ==
    /\ Room
    /\ Start(r, "tolling", Abs(q), o)
    /\ stock' = stock + Abs(q)
    /\ UNCHANGED <<received, issued, batch, uncovered, torn, deaths>>

RecordTolling(r) ==
    /\ job[r].phase = "tolling"
    /\ received' = received + job[r].qty
    /\ Forget(r, "batching")
    /\ UNCHANGED <<stock, issued, batch, uncovered, torn, deaths>>

----------------------------------------------------------------------------
(* Expense (PostMaterialMovement, ConsumeFifo)                             *)

\* The stock is read and compared with the quantity.
BeginExpense(r, o, q) ==
    /\ q # 0 /\ Abs(q) <= stock
    /\ Start(r, "issuing", Abs(q), o)
    /\ UNCHANGED <<stock, received, issued, batch, uncovered, torn, deaths>>

RecordExpense(r) ==
    /\ job[r].phase = "issuing"
    /\ issued' = issued + job[r].qty
    /\ Proceed(r, "deducting")
    /\ UNCHANGED <<stock, received, batch, uncovered, torn, deaths>>

DeductStock_AsRead(r) ==
    /\ job[r].phase = "deducting"
    /\ stock' = job[r].seen - job[r].qty
    /\ Forget(r, "picking")
    /\ UNCHANGED <<received, issued, batch, uncovered, torn, deaths>>
DeductStock(r) ==
    /\ job[r].phase = "deducting"
    /\ stock' = stock - job[r].qty
    /\ Forget(r, "picking")
    /\ UNCHANGED <<received, issued, batch, uncovered, torn, deaths>>

\* What an expense may take: the plant's metal and the order's own.
Offered_AnyOwner(o) == {s \in Slots : batch[s].left > 0}
Offered(o) == {s \in Slots : batch[s].left > 0 /\ batch[s].owner \in {Own, o}}

Pick(r) ==
    /\ job[r].phase = "picking"
    /\ job' = [job EXCEPT ![r].phase = "taking", ![r].todo = Offered(job[r].order),
                          ![r].view = [s \in Slots |-> batch[s].left]]
    /\ UNCHANGED <<stock, received, issued, batch, uncovered, torn, deaths>>

\* The metal of the order goes first, then the oldest.
Earlier_ByDate(s, t) == s < t
Earlier(s, t) ==
    IF (batch[s].owner = Own) = (batch[t].owner = Own) THEN s < t ELSE batch[s].owner # Own

\* As much as the batch held when it was read; the row is decremented.
Take(r, s) ==
    /\ job[r].phase = "taking" /\ job[r].qty > 0
    /\ s \in job[r].todo /\ \A t \in job[r].todo \ {s} : Earlier(s, t)
    /\ LET take == Least(job[r].qty, job[r].view[s])
       IN  /\ batch' = [batch EXCEPT ![s].left = batch[s].left - take]
           /\ job' = [job EXCEPT ![r].qty = job[r].qty - take,
                                 ![r].todo = job[r].todo \ {s}]
    /\ UNCHANGED <<stock, received, issued, uncovered, torn, deaths>>

\* What no batch covered is reported in the answer.
Answer(r) ==
    /\ job[r].phase = "taking" /\ (job[r].qty = 0 \/ job[r].todo = {})
    /\ uncovered' = uncovered + job[r].qty
    /\ job' = [job EXCEPT ![r] = Idle]
    /\ UNCHANGED <<stock, received, issued, batch, torn, deaths>>

----------------------------------------------------------------------------
\* The supply department confirms the price of a batch.
ClearAnomaly(s) ==
    /\ batch[s].quarantined
    /\ batch' = [batch EXCEPT ![s].quarantined = FALSE]
    /\ UNCHANGED <<stock, received, issued, job, uncovered, torn, deaths>>

\* A request ends between two of its statements: an error of the database or
\* the end of the server.
Die(r) ==
    /\ job[r] # Idle /\ deaths < MaxDeaths
    /\ job' = [job EXCEPT ![r] = Idle]
    /\ torn' = TRUE
    /\ deaths' = deaths + 1
    /\ UNCHANGED <<stock, received, issued, batch, uncovered>>

\* The statements of a receipt after the first.
ReceiptStep(r) ==
    \/ RecordReceipt(r) \/ WriteStock(r)
    \/ \E s \in Slots : CreateFromMovement(r, s)

ExpenseStep(r) ==
    \/ RecordExpense(r) \/ DeductStock(r) \/ Pick(r) \/ Answer(r)
    \/ \E s \in Slots : Take(r, s)

Next ==
    \/ \E r \in Requests, q \in Quantities :
          \/ BeginReceipt(r, q)
          \/ \E o \in Orders : AddTolling(r, o, q)
          \/ \E o \in Orders \cup {Own} : BeginExpense(r, o, q)
    \/ \E r \in Requests : ReceiptStep(r) \/ RecordTolling(r) \/ ExpenseStep(r) \/ Die(r)
    \/ \E s \in Slots : ClearAnomaly(s)

Spec == Init /\ [][Next]_vars

----------------------------------------------------------------------------
AtRest == \A r \in Requests : job[r] = Idle
InBatches == SumFunctionOnSet([s \in Slots |-> batch[s].left], Slots)

\* When nothing is under way, the stock shown is what the movements add up to
\* and what the batches hold less the quantity reported as uncovered, whatever
\* expenses overlapped; no receipt ran over another request and none died.
BooksAgree ==
    AtRest /\ ~torn => stock = received - issued /\ InBatches = stock + uncovered

\* A step of request r takes metal from batch s.
Takes(r, s) == batch'[s].left < batch[s].left /\ job'[r].qty < job[r].qty

\* Metal a customer brought leaves the stock for that customer's order only
\* (ConsumeFifo), also while other orders take from the same view.
TollingStaysWithOwner ==
    [][\A r \in Requests, s \in Slots :
          Takes(r, s) => batch[s].owner \in {Own, job[r].order}]_vars

\* While an expense takes from a batch, nothing is left in the batches it saw
\* that come before: "the tolling metal of the order first (it was brought for
\* this order, our own stock is not touched while there is any)" (ConsumeFifo).
TakesInTurn ==
    [][\A r \in Requests, s, t \in Slots :
          Takes(r, s) /\ job[r].view[t] > 0 /\ batch[t].owner \in {Own, job[r].order} /\ s # t
              => \/ batch[t].left <= 0
                 \/ batch[s].owner # Own /\ batch[t].owner = Own
                 \/ (batch[s].owner = Own <=> batch[t].owner = Own) /\ s < t]_vars
=============================================================================
