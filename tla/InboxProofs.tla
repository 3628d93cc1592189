---------------------------- MODULE InboxProofs ----------------------------
(* Proofs about Inbox. *)
EXTENDS Inbox, FiniteSetTheorems, TLAPS

----------------------------------------------------------------------------
(* The warehouse under the inbox                                           *)

\* Of the warehouse the inbox relies on the shape of its requests alone.
WarehouseJobs == stock \in Int /\ job \in [Requests -> Stock!Job] /\ deaths \in Nat

\* A request of the warehouse is in the middle of a receipt.
Busy(w) == job[w].phase # "idle"

\* The warehouse starts with its requests idle.
LEMMA WarehouseStarts ==
  ASSUME Stock!Init
  PROVE  WarehouseJobs /\ \A w \in Requests : ~Busy(w)
  <1>1. Stock!Idle \in Stock!Job /\ Stock!Idle.phase = "idle"
    BY DEF Stock!Idle, Stock!Job, Stock!Phases
  <1>2. stock = 0 /\ job = [r \in Requests |-> Stock!Idle] /\ deaths = 0  BY DEF Stock!Init
  <1> QED  BY <1>1, <1>2 DEF WarehouseJobs, Busy

\* A receipt that begins makes its request busy and leaves the others alone.
LEMMA ReceiptBegins ==
  ASSUME WarehouseJobs, NEW w \in Requests, NEW q \in Nat, Stock!BeginReceipt(w, q)
  PROVE  /\ WarehouseJobs' /\ Busy(w)' /\ deaths' = deaths
         /\ \A v \in Requests : v # w => job'[v] = job[v]
  <1>1. /\ Stock!Idle \in Stock!Job /\ stock \in Int /\ deaths \in Nat
        /\ job \in [Requests -> Stock!Job]
    BY DEF Stock!Idle, Stock!Job, Stock!Phases, WarehouseJobs
  <1> DEFINE begun == [Stock!Idle EXCEPT !.phase = "recording", !.qty = q, !.order = Own,
                                         !.seen = stock]
  <1>2. begun \in Stock!Job /\ begun.phase = "recording"
    BY <1>1 DEF Stock!Job, Stock!Idle, Stock!Phases
  <1>3. job' = [job EXCEPT ![w] = begun] /\ stock' = stock /\ deaths' = deaths
    BY DEF Stock!BeginReceipt, Stock!Start
  <1> HIDE DEF begun
  <1> QED  BY <1>1, <1>2, <1>3 DEF WarehouseJobs, Busy

\* A receipt that goes on was under way, and leaves the other requests alone.
LEMMA ReceiptGoesOn ==
  ASSUME WarehouseJobs, NEW w \in Requests, Stock!ReceiptStep(w)
  PROVE  /\ WarehouseJobs' /\ Busy(w) /\ deaths' = deaths
         /\ \A v \in Requests : v # w => job'[v] = job[v]
  <1>1. /\ stock \in Int /\ job \in [Requests -> Stock!Job] /\ job[w] \in Stock!Job
        /\ deaths \in Nat
        /\ job[w].seen \in Int /\ job[w].qty \in Nat
    BY DEF WarehouseJobs, Stock!Job
  <1>2. CASE Stock!RecordReceipt(w)
    <2>1. /\ job' = [job EXCEPT ![w] = [job[w] EXCEPT !.phase = "stocking"]]
          /\ stock' = stock /\ deaths' = deaths /\ job[w].phase = "recording"
      BY <1>2 DEF Stock!RecordReceipt, Stock!Proceed
    <2>2. [job[w] EXCEPT !.phase = "stocking"] \in Stock!Job
      BY <1>1 DEF Stock!Job, Stock!Phases
    <2> QED  BY <1>1, <2>1, <2>2 DEF WarehouseJobs, Busy
  <1>3. CASE Stock!WriteStock(w)
    <2> DEFINE on == [job[w] EXCEPT !.phase = "batching"]
    <2>1. on \in Stock!Job  BY <1>1 DEF Stock!Job, Stock!Phases
    <2>2. [on EXCEPT !.seen = 0] \in Stock!Job
      <3> HIDE DEF on
      <3> QED  BY <2>1 DEF Stock!Job
    <2>3. /\ job' = [job EXCEPT ![w] = [on EXCEPT !.seen = 0]]
          /\ stock' = job[w].seen + job[w].qty /\ deaths' = deaths /\ job[w].phase = "stocking"
      BY <1>1, <1>3 DEF Stock!WriteStock, Stock!Forget, Stock!Job
    <2> HIDE DEF on
    <2> QED  BY <1>1, <2>2, <2>3 DEF WarehouseJobs, Busy
  <1>4. ASSUME NEW s \in Slots, Stock!CreateFromMovement(w, s)
        PROVE  /\ WarehouseJobs' /\ Busy(w) /\ deaths' = deaths
               /\ \A v \in Requests : v # w => job'[v] = job[v]
    <2>1. Stock!Idle \in Stock!Job  BY DEF Stock!Idle, Stock!Job, Stock!Phases
    <2>2. /\ job' = [job EXCEPT ![w] = Stock!Idle]
          /\ stock' = stock /\ deaths' = deaths /\ job[w].phase = "batching"
      BY <1>4 DEF Stock!CreateFromMovement
    <2> QED  BY <1>1, <2>1, <2>2 DEF WarehouseJobs, Busy
  <1> QED  BY <1>2, <1>3, <1>4 DEF Stock!ReceiptStep

\* A request that dies is counted, is idle, and leaves the others alone.
LEMMA ReceiptDies ==
  ASSUME WarehouseJobs, NEW w \in Requests, Stock!Die(w)
  PROVE  /\ WarehouseJobs' /\ ~Busy(w)' /\ deaths' = deaths + 1
         /\ \A v \in Requests : v # w => job'[v] = job[v]
  <1>1. Stock!Idle \in Stock!Job /\ Stock!Idle.phase = "idle"
    BY DEF Stock!Idle, Stock!Job, Stock!Phases
  <1>2. job' = [job EXCEPT ![w] = Stock!Idle] /\ stock' = stock /\ deaths' = deaths + 1
    BY DEF Stock!Die
  <1> QED  BY <1>1, <1>2 DEF WarehouseJobs, Busy

----------------------------------------------------------------------------
(* What the inbox keeps to                                                 *)

\* A worker has documents in hand.
Active(w) == work[w].phase \in {"working", "failing"}

StoredDocuments == {d \in Documents : Stored(d)}

\* No two documents arrived in the same place, so that a worker has one in hand.
ArrivalOrder ==
    /\ \A d \in StoredDocuments : arrival[d] <= Cardinality(StoredDocuments)
    /\ \A d, e \in StoredDocuments : arrival[d] = arrival[e] => d = e

\* n attempts are backed by failures on record.
Backed(n, d) == n <= failed[d] \/ failed[d] >= MaxAttempts

RowsTrue ==
    /\ \A d \in Handled : row[d].status = "PROCESSED" => \A l \in LinesOf(d) : applied[l] > 0
    /\ \A d \in Documents :
          /\ Backed(row[d].attempts, d)
          /\ row[d].status = "DEAD" => failed[d] >= MaxAttempts

\* The lines of the document in hand up to the one under way are applied.
LinesDone(w, d) ==
    /\ d \in Handled => work[w].line <= Len(Lines[d])
    /\ work[w].line > 0 => d \in Handled
    /\ Busy(w) => work[w].line > 0
    /\ \A i \in 1..work[w].line : i < work[w].line \/ ~Busy(w) => applied[<<d, i>>] > 0

\* Only a worker that applies lines is in the middle of a receipt; the documents
\* in hand are stored and the attempts read with them are backed.
WorkerInv(w) ==
    /\ work[w].phase # "working" => ~Busy(w)
    /\ Active(w) => \A d \in work[w].left : Stored(d) /\ Backed(work[w].seen[d], d)
    /\ work[w].phase = "working" => \A d \in Documents : InHand(w, d) => LinesDone(w, d)

InboxInv ==
    /\ TypeOK /\ WarehouseJobs /\ ArrivalOrder /\ RowsTrue
    /\ \A w \in Requests : WorkerInv(w)

\* What an idle worker is.
LEMMA IdleWork ==
  /\ Idle \in Work
  /\ Idle.phase = "idle" /\ Idle.left = {} /\ Idle.line = 0
  BY DEF Idle, Work

\* The lines of a document and their quantities.
LEMMA LineFacts ==
  ASSUME NEW d \in Documents
  PROVE  /\ Len(Lines[d]) \in Nat /\ DOMAIN Lines[d] = 1..Len(Lines[d])
         /\ \A i \in 1..Len(Lines[d]) :
               Lines[d][i] \in Quantities /\ Lines[d][i] \in Nat /\ <<d, i>> \in LineIds
         /\ \A l \in LinesOf(d) : \E i \in 1..Len(Lines[d]) : l = <<d, i>>
  <1>1. Lines[d] \in Seq(Quantities \cap (Nat \ {0}))  BY InboxAssumption
  <1>2. Len(Lines[d]) \in Nat /\ DOMAIN Lines[d] = 1..Len(Lines[d])  BY <1>1
  <1>3. \A i \in 1..Len(Lines[d]) : Lines[d][i] \in Quantities /\ Lines[d][i] \in Nat
    BY <1>1
  <1>4. \A i \in 1..Len(Lines[d]) : <<d, i>> \in LineIds
    BY <1>2 DEF LineIds
  <1>5. ASSUME NEW l \in LinesOf(d)  PROVE \E i \in 1..Len(Lines[d]) : l = <<d, i>>
    <2>1. PICK e \in Documents : l \in {<<e, i>> : i \in DOMAIN Lines[e]} /\ l[1] = d
      BY DEF LinesOf, LineIds
    <2>2. PICK i \in DOMAIN Lines[e] : l = <<e, i>>  BY <2>1
    <2> QED  BY <1>2, <2>1, <2>2
  <1> QED  BY <1>2, <1>3, <1>4, <1>5

\* A worker has one document in hand.
LEMMA OneInHand ==
  ASSUME TypeOK, ArrivalOrder, NEW w \in Requests, WorkerInv(w), Active(w),
         NEW d \in Documents, NEW e \in Documents, InHand(w, d), InHand(w, e)
  PROVE  d = e
  <1>1. d \in StoredDocuments /\ e \in StoredDocuments
    BY DEF WorkerInv, InHand, StoredDocuments
  <1>2. arrival[d] <= arrival[e] /\ arrival[e] <= arrival[d]
        /\ arrival[d] \in Nat /\ arrival[e] \in Nat
    BY DEF InHand, TypeOK
  <1> QED  BY <1>1, <1>2 DEF ArrivalOrder

\* Going on with the next document, and what it leaves the other workers.
LEMMA OnwardShape ==
  ASSUME TypeOK, NEW w \in Requests, NEW d \in Documents, Onward(w, d)
  PROVE  /\ work' \in [Requests -> Work]
         /\ work'[w].phase \in {"idle", "working"} /\ work'[w].line = 0
         /\ work'[w].left \subseteq work[w].left \ {d}
         /\ \A e \in Documents \ {d} : work'[w].phase = "working"
               => work'[w].seen[e] = work[w].seen[e]
         /\ \A v \in Requests : v # w => work'[v] = work[v]
  <1> DEFINE next == IF work[w].left = {d} THEN Idle
                     ELSE [phase |-> "working", left |-> work[w].left \ {d}, line |-> 0,
                           seen |-> [work[w].seen EXCEPT ![d] = 0]]
  <1>1. work' = [work EXCEPT ![w] = next]  BY DEF Onward
  <1>2. work[w] \in Work /\ work[w].seen \in [Documents -> Nat] /\ work[w].left \subseteq Documents
    BY DEF TypeOK, Work
  <1>3. CASE work[w].left = {d}
    <2>1. next = Idle  BY <1>3
    <2> HIDE DEF next
    <2> QED  BY <1>1, <1>2, <2>1, IdleWork DEF TypeOK
  <1>4. CASE work[w].left # {d}
    <2> DEFINE s == [work[w].seen EXCEPT ![d] = 0]
    <2>1. s \in [Documents -> Nat] /\ \A e \in Documents \ {d} : s[e] = work[w].seen[e]
      BY <1>2
    <2>2. next = [phase |-> "working", left |-> work[w].left \ {d}, line |-> 0, seen |-> s]
      BY <1>4
    <2> HIDE DEF s, next
    <2>3. next \in Work /\ next.phase = "working" /\ next.left = work[w].left \ {d}
          /\ next.line = 0 /\ next.seen = s
      BY <1>2, <2>1, <2>2 DEF Work
    <2> QED  BY <1>1, <2>1, <2>3 DEF TypeOK
  <1> QED  BY <1>3, <1>4

\* What a step never takes back.
Grows ==
    /\ \A d \in Documents : Stored(d) => Stored(d)' /\ arrival'[d] = arrival[d]
    /\ \A l \in LineIds : applied[l] <= applied'[l]
    /\ \A d \in Documents : failed[d] <= failed'[d]

\* A worker that a step passes over.
Steady(w) == work'[w] = work[w] /\ job'[w] = job[w]

\* What other workers do does not disturb a worker.
LEMMA OthersStay ==
  ASSUME TypeOK, TypeOK', Grows, NEW w \in Requests, Steady(w), WorkerInv(w)
  PROVE  WorkerInv(w)'
  <1>1. /\ work[w] \in Work /\ work[w].left \subseteq Documents /\ work[w].line \in Nat
        /\ work[w].seen \in [Documents -> Nat]
        /\ \A d \in Documents : failed[d] \in Nat /\ failed'[d] \in Nat
        /\ \A l \in LineIds : applied[l] \in Nat /\ applied'[l] \in Nat
    BY DEF TypeOK, Work
  <1>2. /\ MaxAttempts \in Nat
        /\ \A d \in Documents : work[w].seen[d] \in Nat
    BY <1>1, InboxAssumption
  <1>3. Active(w) => \A d \in Documents : InHand(w, d)' => InHand(w, d)
    BY <1>1 DEF InHand, Steady, Grows, WorkerInv
  <1>4. Active(w)' => \A d \in work'[w].left : Stored(d)' /\ Backed(work[w].seen[d], d)'
    BY <1>1, <1>2 DEF WorkerInv, Active, Steady, Grows, Backed
  <1>5. ASSUME work[w].phase = "working", NEW d \in Documents, InHand(w, d)'
        PROVE  LinesDone(w, d)'
    <2>1. LinesDone(w, d)  BY <1>3, <1>5 DEF WorkerInv, Active
    <2>2. \A i \in 1..work[w].line : <<d, i>> \in LineIds
      BY <1>1, <2>1, LineFacts DEF LinesDone
    <2> QED  BY <1>1, <2>1, <2>2 DEF LinesDone, Busy, Steady, Grows
  <1> QED  BY <1>4, <1>5 DEF WorkerInv, Steady, Busy, Active

\* Documents stay in the order they arrived in when none is stored.
LEMMA OrderStays ==
  ASSUME ArrivalOrder, arrival' = arrival, \A d \in Documents : Stored(d)' <=> Stored(d)
  PROVE  ArrivalOrder'
  <1>1. StoredDocuments' = StoredDocuments  BY DEF StoredDocuments
  <1> QED  BY <1>1 DEF ArrivalOrder

\* Rows that are not written stay true.
LEMMA RowsStay ==
  ASSUME TypeOK, TypeOK', RowsTrue, Grows, NEW D \in SUBSET Documents,
         \A d \in Documents \ D : row'[d] = row[d],
         \A d \in D : /\ d \in Handled /\ row'[d].status = "PROCESSED"
                            => \A l \in LinesOf(d) : applied'[l] > 0
                      /\ Backed(row[d].attempts, d)'
                      /\ row'[d].status = "DEAD" => failed'[d] >= MaxAttempts
  PROVE  RowsTrue'
  <1>1. /\ \A d \in Documents : /\ failed[d] \in Nat /\ failed'[d] \in Nat
                               /\ row[d].attempts \in Nat
        /\ \A l \in LineIds : applied[l] \in Nat /\ applied'[l] \in Nat
        /\ MaxAttempts \in Nat /\ Handled \subseteq Documents
    BY InboxAssumption DEF TypeOK, Row
  <1>2. ASSUME NEW d \in Handled, row'[d].status = "PROCESSED", NEW l \in LinesOf(d)
        PROVE  applied'[l] > 0
    <2>1. l \in LineIds  BY DEF LinesOf
    <2> QED  BY <1>1, <1>2, <2>1 DEF RowsTrue, Grows
  <1>3. ASSUME NEW d \in Documents
        PROVE  /\ Backed(row[d].attempts, d)'
               /\ row'[d].status = "DEAD" => failed'[d] >= MaxAttempts
    <2>1. CASE d \in D  BY <2>1
    <2>2. CASE d \notin D
      <3>1. /\ row'[d] = row[d] /\ Backed(row[d].attempts, d)
            /\ row[d].status = "DEAD" => failed[d] >= MaxAttempts
            /\ failed[d] <= failed'[d]
        BY <2>2 DEF RowsTrue, Grows
      <3> QED  BY <1>1, <3>1 DEF Backed
    <2> QED  BY <2>1, <2>2
  <1> QED  BY <1>2, <1>3 DEF RowsTrue

\* A step that writes no row, stores nothing and applies nothing, and only moves
\* worker w, keeps everything but what that worker has in hand.
LEMMA WorkerMoves ==
  ASSUME InboxInv, NEW w \in Requests, TypeOK', WarehouseJobs', WorkerInv(w)',
         \A v \in Requests : v # w => Steady(v),
         UNCHANGED <<row, arrival, applied, failed>>
  PROVE  InboxInv'
  <1>1. Grows
    BY DEF Grows, Stored, InboxInv, TypeOK
  <1>2. ArrivalOrder'  BY OrderStays DEF Stored, InboxInv
  <1>3. RowsTrue'  BY DEF InboxInv, RowsTrue, Backed
  <1>4. \A v \in Requests : WorkerInv(v)'
    <2>1. ASSUME NEW v \in Requests, v # w  PROVE WorkerInv(v)'
      BY <1>1, <2>1, OthersStay DEF InboxInv
    <2> QED  BY <2>1
  <1> QED  BY <1>2, <1>3, <1>4 DEF InboxInv

\* A worker that stops working is typed and has nothing in hand.
LEMMA GoesIdle ==
  ASSUME InboxInv, NEW w \in Requests, work' = [work EXCEPT ![w] = Idle]
  PROVE  /\ work' \in [Requests -> Work] /\ work'[w].phase = "idle"
         /\ \A v \in Requests : v # w => work'[v] = work[v]
  BY IdleWork DEF InboxInv, TypeOK

\* A worker changes its phase and keeps the rest.
LEMMA ChangesPhase ==
  ASSUME TypeOK, NEW w \in Requests,
         NEW phase \in {"idle", "storing", "reading", "working", "failing"},
         work' = [work EXCEPT ![w].phase = phase]
  PROVE  /\ work' \in [Requests -> Work] /\ work'[w].phase = phase
         /\ work'[w].left = work[w].left /\ work'[w].seen = work[w].seen
         /\ work'[w].line = work[w].line
         /\ \A v \in Requests : v # w => work'[v] = work[v]
  BY DEF TypeOK, Work

\* A delivery, the button, and a worker that fails or stops.
LEMMA WorkerSteps ==
  ASSUME InboxInv, NEW w \in Requests,
         \/ \E d \in Documents : Deliver(w, d) \/ UnknownMaterial(w, d) \/ MarkNotWritten(w, d)
         \/ Press(w) \/ Stop(w) \/ LineDies(w)
  PROVE  InboxInv'
  <1> USE DEF InboxInv
  <1>0. WorkerInv(w) /\ TypeOK /\ work \in [Requests -> Work] /\ work[w] \in Work
    BY DEF TypeOK
  <1>1. ASSUME NEW d \in Documents, Deliver(w, d)  PROVE InboxInv'
    <2>1. /\ work' = [work EXCEPT ![w].phase = "storing", ![w].left = {d}]
          /\ UNCHANGED <<stockVars, row, arrival, missing, applied, failed, overlapped, mishaps>>
          /\ work[w].phase = "idle"
      BY <1>1, IdleWork DEF Deliver
    <2>2. work' \in [Requests -> Work] /\ work'[w].phase = "storing"
          /\ \A v \in Requests : v # w => work'[v] = work[v]
      BY <1>0, <2>1 DEF Work
    <2>3. TypeOK' /\ WarehouseJobs' /\ job' = job
      BY <2>1, <2>2 DEF TypeOK, WarehouseJobs, stockVars, LineIds
    <2>4. WorkerInv(w)'
      BY <1>0, <2>1, <2>2, <2>3 DEF WorkerInv, Active, Busy
    <2> QED  BY <2>1, <2>2, <2>3, <2>4, WorkerMoves DEF Steady
  <1>2. CASE Press(w)
    <2>1. /\ UNCHANGED <<stockVars, row, arrival, missing, applied, failed, overlapped, mishaps>>
          /\ work[w].phase = "idle" /\ job' = job
          /\ work' \in [Requests -> Work] /\ work'[w].phase = "reading"
          /\ \A v \in Requests : v # w => work'[v] = work[v]
      BY <1>2, IdleWork, ChangesPhase DEF Press, stockVars
    <2>2. TypeOK' /\ WarehouseJobs'
      BY <2>1 DEF TypeOK, WarehouseJobs, stockVars
    <2>3. WorkerInv(w)'
      BY <1>0, <2>1 DEF WorkerInv, Active, Busy
    <2> QED  BY <2>1, <2>2, <2>3, WorkerMoves DEF Steady
  <1>3. ASSUME NEW d \in Documents, UnknownMaterial(w, d) \/ MarkNotWritten(w, d)
        PROVE  InboxInv'
    <2>1. /\ UNCHANGED <<stockVars, row, arrival, missing, applied, failed, overlapped>>
          /\ work[w].phase = "working" /\ ~Busy(w) /\ job' = job
          /\ mishaps' = mishaps \/ mishaps' = mishaps + 1
          /\ work' = [work EXCEPT ![w].phase = "failing"]
      BY <1>3 DEF UnknownMaterial, MarkNotWritten, Finished, stockVars, Busy
    <2>2. /\ work' \in [Requests -> Work] /\ work'[w].phase = "failing"
          /\ work'[w].left = work[w].left /\ work'[w].seen = work[w].seen
          /\ \A v \in Requests : v # w => work'[v] = work[v]
      BY <2>1, ChangesPhase
    <2>3. TypeOK' /\ WarehouseJobs'
      BY <2>1, <2>2 DEF TypeOK, WarehouseJobs, stockVars
    <2>4. WorkerInv(w)'
      BY <1>0, <2>1, <2>2 DEF WorkerInv, Active, Busy, Backed, Stored
    <2> QED  BY <2>1, <2>2, <2>3, <2>4, WorkerMoves DEF Steady
  <1>4. CASE Stop(w)
    <2>1. /\ UNCHANGED <<stockVars, row, arrival, missing, applied, failed, overlapped>>
          /\ ~Busy(w) /\ job' = job /\ mishaps' = mishaps + 1
          /\ work' \in [Requests -> Work] /\ work'[w].phase = "idle"
          /\ \A v \in Requests : v # w => work'[v] = work[v]
      BY <1>4, GoesIdle DEF Stop, stockVars, Busy
    <2>2. TypeOK' /\ WarehouseJobs'
      BY <2>1 DEF TypeOK, WarehouseJobs, stockVars
    <2>3. WorkerInv(w)'
      BY <2>1 DEF WorkerInv, Active, Busy
    <2> QED  BY <2>1, <2>2, <2>3, WorkerMoves DEF Steady
  <1>5. CASE LineDies(w)
    <2>1. /\ UNCHANGED <<row, arrival, missing, applied, failed, overlapped, mishaps>>
          /\ work[w].phase = "working" /\ Stock!Die(w)
          /\ \/ work' = [work EXCEPT ![w].phase = "failing"]
             \/ work' = [work EXCEPT ![w] = Idle]
      BY <1>5 DEF LineDies
    <2>2. WarehouseJobs' /\ ~Busy(w)' /\ \A v \in Requests : v # w => job'[v] = job[v]
      BY <2>1, ReceiptDies
    <2>3. /\ work' \in [Requests -> Work]
          /\ \/ work'[w].phase = "idle"
             \/ /\ work'[w].phase = "failing"
                /\ work'[w].left = work[w].left /\ work'[w].seen = work[w].seen
          /\ \A v \in Requests : v # w => work'[v] = work[v]
      BY <2>1, ChangesPhase, GoesIdle
    <2>4. TypeOK'  BY <2>1, <2>3 DEF TypeOK
    <2>5. WorkerInv(w)'
      BY <1>0, <2>1, <2>2, <2>3 DEF WorkerInv, Active, Backed, Stored
    <2> QED  BY <2>1, <2>2, <2>3, <2>4, <2>5, WorkerMoves DEF Steady
  <1> QED  BY <1>1, <1>2, <1>3, <1>4, <1>5

\* A document that is stored comes after all that were stored before it.
LEMMA StoreStep == ASSUME InboxInv, NEW w \in Requests, Store(w)  PROVE InboxInv'
  <1> USE DEF InboxInv
  <1>0. /\ WorkerInv(w) /\ TypeOK /\ ArrivalOrder /\ work \in [Requests -> Work]
        /\ work[w] \in Work /\ work[w].phase = "storing" /\ work[w].left \subseteq Documents
        /\ UNCHANGED <<stockVars, missing, applied, failed, overlapped, mishaps>>
        /\ job' = job /\ row \in [Documents -> Row] /\ arrival \in [Documents -> Nat]
    BY DEF Store, TypeOK, Work, stockVars
  <1>1. PICK d \in work[w].left :
           IF Stored(d) THEN work' = [work EXCEPT ![w] = Idle] /\ UNCHANGED <<row, arrival>>
           ELSE /\ row' = [row EXCEPT ![d].status = "PENDING"]
                /\ arrival' = [arrival EXCEPT ![d] = Cardinality({e \in Documents : Stored(e)}) + 1]
                /\ work' = [work EXCEPT ![w] = [Idle EXCEPT !.phase = "reading"]]
    BY DEF Store
  <1>2. d \in Documents  BY <1>0
  <1>3. CASE Stored(d)
    <2>1. work' = [work EXCEPT ![w] = Idle] /\ row' = row /\ arrival' = arrival
      BY <1>1, <1>3
    <2>2. /\ work' \in [Requests -> Work] /\ work'[w].phase = "idle"
          /\ \A v \in Requests : v # w => work'[v] = work[v]
      BY <2>1, GoesIdle
    <2>3. TypeOK' /\ WarehouseJobs'
      BY <1>0, <2>1, <2>2 DEF TypeOK, WarehouseJobs, stockVars
    <2>4. WorkerInv(w)'
      BY <1>0, <2>2 DEF WorkerInv, Active, Busy
    <2> QED  BY <1>0, <2>1, <2>2, <2>3, <2>4, WorkerMoves DEF Steady
  <1>4. CASE ~Stored(d)
    <2>0. /\ row' = [row EXCEPT ![d].status = "PENDING"]
          /\ arrival' = [arrival EXCEPT ![d] = Cardinality(StoredDocuments) + 1]
          /\ work' = [work EXCEPT ![w] = [Idle EXCEPT !.phase = "reading"]]
      BY <1>1, <1>4 DEF StoredDocuments
    <2>1. IsFiniteSet(StoredDocuments) /\ Cardinality(StoredDocuments) \in Nat
      <3>1. StoredDocuments \subseteq Documents  BY DEF StoredDocuments
      <3> QED  BY <3>1, InboxAssumption, FS_Subset, FS_CardinalityType
    <2>2. [Idle EXCEPT !.phase = "reading"] \in Work
          /\ [Idle EXCEPT !.phase = "reading"].phase = "reading"
      BY IdleWork DEF Work
    <2>3. /\ work' \in [Requests -> Work] /\ work'[w].phase = "reading"
          /\ \A v \in Requests : v # w => work'[v] = work[v]
      BY <1>0, <2>0, <2>2
    <2>4. /\ row' \in [Documents -> Row] /\ row'[d].status = "PENDING"
          /\ row'[d].attempts = row[d].attempts
          /\ \A e \in Documents \ {d} : row'[e] = row[e]
      BY <1>0, <1>2, <2>0 DEF Row
    <2>5. /\ arrival' \in [Documents -> Nat] /\ arrival'[d] = Cardinality(StoredDocuments) + 1
          /\ \A e \in Documents \ {d} : arrival'[e] = arrival[e]
      BY <1>0, <1>2, <2>0, <2>1
    <2>6. TypeOK' /\ WarehouseJobs'
      BY <1>0, <2>3, <2>4, <2>5 DEF TypeOK, WarehouseJobs, stockVars
    <2>7. Grows
      BY <1>0, <1>4, <2>4, <2>5 DEF Grows, Stored, TypeOK
    <2>8. StoredDocuments' = StoredDocuments \cup {d} /\ d \notin StoredDocuments
      BY <1>2, <1>4, <2>4 DEF StoredDocuments, Stored
    <2>9. Cardinality(StoredDocuments') = Cardinality(StoredDocuments) + 1
      BY <2>1, <2>8, FS_AddElement
    <2>10. ArrivalOrder'
      <3>1. \A e \in StoredDocuments : /\ arrival'[e] = arrival[e] /\ arrival[e] \in Nat
                                       /\ arrival[e] <= Cardinality(StoredDocuments)
        BY <1>0, <2>5, <2>8 DEF ArrivalOrder, StoredDocuments
      <3>2. \A e \in StoredDocuments' : arrival'[e] <= Cardinality(StoredDocuments')
        BY <2>1, <2>5, <2>8, <2>9, <3>1
      <3>3. \A e, f \in StoredDocuments' : arrival'[e] = arrival'[f] => e = f
        BY <1>0, <2>1, <2>5, <2>8, <3>1 DEF ArrivalOrder
      <3> QED  BY <3>2, <3>3 DEF ArrivalOrder
    <2>11. RowsTrue'
      <3>1. Backed(row[d].attempts, d)'
        BY <1>0, <1>2, <2>4 DEF RowsTrue, Backed
      <3> DEFINE D == {d}
      <3>2. D \in SUBSET Documents /\ \A e \in Documents \ D : row'[e] = row[e]
        BY <1>2, <2>4
      <3>3. \A e \in D : e = d  OBVIOUS
      <3> HIDE DEF D
      <3> QED  BY <2>4, <2>6, <2>7, <3>1, <3>2, <3>3, RowsStay
    <2>12. WorkerInv(w)'
      BY <1>0, <2>3 DEF WorkerInv, Active, Busy
    <2>13. \A v \in Requests : WorkerInv(v)'
      BY <1>0, <2>3, <2>6, <2>7, <2>12, OthersStay DEF Steady
    <2> QED  BY <2>6, <2>10, <2>11, <2>13
  <1> QED  BY <1>3, <1>4

\* What is read is pending and stored, and its attempts are copied with it.
LEMMA ReadStep == ASSUME InboxInv, NEW w \in Requests, Read(w)  PROVE InboxInv'
  <1> USE DEF InboxInv
  <1>0. /\ WorkerInv(w) /\ TypeOK /\ work \in [Requests -> Work] /\ work[w].phase = "reading"
        /\ UNCHANGED <<stockVars, row, arrival, missing, applied, failed, mishaps>>
        /\ job' = job /\ row \in [Documents -> Row]
    BY DEF Read, TypeOK, stockVars
  <1> DEFINE copies == [d \in Documents |-> IF d \in Oldest THEN row[d].attempts ELSE 0]
             reads == [phase |-> "working", left |-> Oldest, line |-> 0, seen |-> copies]
  <1>1. work' = [work EXCEPT ![w] = IF Oldest = {} THEN Idle ELSE reads]
    BY DEF Read
  <1>2. Oldest \subseteq Documents /\ \A d \in Oldest : Stored(d)
    BY DEF Oldest, Pending, Stored
  <1>3. copies \in [Documents -> Nat] /\ \A d \in Oldest : copies[d] = row[d].attempts
    BY <1>0, <1>2 DEF Row
  <1>4. reads \in Work /\ reads.phase = "working" /\ reads.left = Oldest
        /\ reads.line = 0 /\ reads.seen = copies
    <2> HIDE DEF copies
    <2> QED  BY <1>2, <1>3 DEF Work
  <1> HIDE DEF reads, copies
  <1>5. /\ work' \in [Requests -> Work] /\ \A v \in Requests : v # w => work'[v] = work[v]
        /\ \/ work'[w].phase = "idle"
           \/ /\ work'[w].phase = "working" /\ work'[w].line = 0
              /\ work'[w].left = Oldest /\ work'[w].seen = copies
    BY <1>0, <1>1, <1>4, IdleWork
  <1>6. overlapped' \in BOOLEAN
    BY <1>0, Zenon DEF Read, TypeOK
  <1>7. TypeOK' /\ WarehouseJobs'
    BY <1>0, <1>5, <1>6 DEF TypeOK, WarehouseJobs, stockVars
  <1>8. WorkerInv(w)'
    <2>1. \A d \in Oldest : row'[d].status # "absent"
                           /\ (copies[d] <= failed'[d] \/ failed'[d] >= MaxAttempts)
      BY <1>0, <1>2, <1>3 DEF Stored, RowsTrue, Backed
    <2>2. ~Busy(w)'  BY <1>0 DEF WorkerInv, Busy
    <2>3. work'[w].phase = "working"
             => \A d \in work'[w].left : Stored(d)' /\ Backed(work[w].seen[d], d)'
      BY <1>5, <2>1 DEF Stored, Backed
    <2>4. ASSUME NEW d \in Documents, work'[w].phase = "working"  PROVE LinesDone(w, d)'
      <3>1. work'[w].line = 0  BY <1>5, <2>4
      <3>2. d \in Handled => 0 <= Len(Lines[d])  BY LineFacts
      <3> QED  BY <2>2, <3>1, <3>2 DEF LinesDone
    <2>5. Active(w)' => work'[w].phase = "working"  BY <1>5 DEF Active
    <2> QED  BY <2>2, <2>3, <2>4, <2>5 DEF WorkerInv
  <1> QED  BY <1>0, <1>5, <1>7, <1>8, WorkerMoves DEF Steady

\* A line begins where the lines before it are applied.
LEMMA BeginLineStep ==
  ASSUME InboxInv, NEW w \in Requests, NEW d \in Documents, BeginLine(w, d)
  PROVE  InboxInv'
  <1> USE DEF InboxInv
  <1> DEFINE n == work[w].line + 1
  <1>0. /\ WorkerInv(w) /\ TypeOK /\ WarehouseJobs /\ ArrivalOrder /\ work \in [Requests -> Work]
        /\ work[w] \in Work /\ work[w].line \in Nat
        /\ work[w].phase = "working" /\ InHand(w, d) /\ d \in Handled /\ ~Busy(w)
        /\ work[w].line < Len(Lines[d]) /\ Stock!BeginReceipt(w, Lines[d][n])
        /\ work' = [work EXCEPT ![w].line = n]
        /\ UNCHANGED <<row, arrival, missing, applied, failed, overlapped, mishaps>>
    BY DEF BeginLine, TypeOK, Work, Busy
  <1>1. n \in 1..Len(Lines[d]) /\ Len(Lines[d]) \in Nat /\ n \in Nat
    BY <1>0, LineFacts
  <1>1a. Lines[d][n] \in Nat  BY <1>1, LineFacts
  <1>2. /\ WarehouseJobs' /\ Busy(w)' /\ \A v \in Requests : v # w => job'[v] = job[v]
    BY <1>0, <1>1a, ReceiptBegins
  <1>3. /\ work' \in [Requests -> Work] /\ work'[w].line = n
        /\ work'[w].phase = "working" /\ work'[w].left = work[w].left
        /\ work'[w].seen = work[w].seen
        /\ \A v \in Requests : v # w => work'[v] = work[v]
    <2> HIDE DEF n
    <2> QED  BY <1>0, <1>1 DEF Work
  <1>4. TypeOK'  BY <1>0, <1>3 DEF TypeOK
  <1>5. LinesDone(w, d)'
    <2>1. LinesDone(w, d)  BY <1>0 DEF WorkerInv
    <2> QED  BY <1>0, <1>1, <1>2, <1>3, <2>1 DEF LinesDone
  <1>6. \A e \in Documents : InHand(w, e)' => e = d
    <2>1. Active(w)  BY <1>0 DEF Active
    <2>2. \A e \in Documents : InHand(w, e)' => InHand(w, e)
      BY <1>0, <1>3 DEF InHand
    <2> QED  BY <1>0, <2>1, <2>2, OneInHand
  <1>7. WorkerInv(w)'
    BY <1>0, <1>3, <1>5, <1>6 DEF WorkerInv, Active, Stored, Backed
  <1> QED  BY <1>0, <1>2, <1>3, <1>4, <1>7, WorkerMoves DEF Steady

\* A receipt that is carried through is applied; its document stays in hand.
LEMMA ContinueLineStep ==
  ASSUME InboxInv, NEW w \in Requests, NEW d \in Documents, ContinueLine(w, d)
  PROVE  InboxInv'
  <1> USE DEF InboxInv
  <1> DEFINE n == work[w].line
  <1>0. /\ WorkerInv(w) /\ TypeOK /\ WarehouseJobs /\ ArrivalOrder
        /\ n \in Nat /\ applied \in [LineIds -> Nat]
        /\ work[w].phase = "working" /\ InHand(w, d) /\ Stock!ReceiptStep(w)
        /\ UNCHANGED <<row, arrival, work, missing, failed, overlapped, mishaps>>
        /\ applied' = IF job'[w].phase = "idle" THEN [applied EXCEPT ![<<d, n>>] = @ + 1]
                      ELSE applied
    BY DEF ContinueLine, TypeOK, Work
  <1>1. /\ WarehouseJobs' /\ Busy(w) /\ \A v \in Requests : v # w => job'[v] = job[v]
    BY <1>0, ReceiptGoesOn
  <1>2. LinesDone(w, d)  BY <1>0 DEF WorkerInv
  <1>3. n \in 1..Len(Lines[d]) /\ d \in Handled /\ Len(Lines[d]) \in Nat
    BY <1>0, <1>1, <1>2, LineFacts DEF LinesDone
  <1>4. <<d, n>> \in LineIds  BY <1>3, LineFacts
  <1>5. /\ applied' \in [LineIds -> Nat] /\ \A l \in LineIds : applied[l] <= applied'[l]
        /\ ~Busy(w)' => applied'[<<d, n>>] > 0
    <2>1. CASE Busy(w)'
      <3>1. applied' = applied  BY <1>0, <2>1 DEF Busy
      <3>2. \A l \in LineIds : applied[l] \in Nat  BY <1>0
      <3>3. applied' \in [LineIds -> Nat]  BY <1>0, <3>1
      <3>4. \A l \in LineIds : applied[l] <= applied'[l]  BY <3>1, <3>2
      <3> QED  BY <2>1, <3>3, <3>4
    <2>2. CASE ~Busy(w)'
      <3>1. applied' = [applied EXCEPT ![<<d, n>>] = @ + 1]  BY <1>0, <2>2 DEF Busy
      <3> QED  BY <1>0, <1>4, <3>1
    <2> QED  BY <2>1, <2>2
  <1>6. TypeOK'  BY <1>0, <1>5 DEF TypeOK
  <1>7. Grows  BY <1>0, <1>5 DEF Grows, Stored, TypeOK
  <1>8. LinesDone(w, d)'
    <2>1. work'[w].line = n  BY <1>0
    <2>2. \A i \in 1..n : <<d, i>> \in LineIds  BY <1>3, LineFacts
    <2>3. \A i \in 1..n : i < n => applied[<<d, i>>] > 0  BY <1>2 DEF LinesDone
    <2>4. \A i \in 1..n : i < n \/ ~Busy(w)' => applied'[<<d, i>>] > 0
      BY <1>0, <1>5, <2>2, <2>3
    <2> QED  BY <1>3, <2>1, <2>4 DEF LinesDone
  <1>9. WorkerInv(w)'
    <2>1. Active(w)  BY <1>0 DEF Active
    <2>2. \A e \in Documents : InHand(w, e)' => e = d
      BY <1>0, <2>1, OneInHand DEF InHand
    <2> QED  BY <1>0, <1>8, <2>1, <2>2 DEF WorkerInv, Active, Stored, Backed
  <1>10. \A v \in Requests : WorkerInv(v)'
    BY <1>0, <1>1, <1>6, <1>7, <1>9, OthersStay DEF Steady
  <1>11. ArrivalOrder'  BY <1>0, OrderStays DEF Stored
  <1>12. RowsTrue'
    <2> DEFINE D == {}
    <2>1. D \in SUBSET Documents /\ \A e \in Documents \ D : row'[e] = row[e]
      BY <1>0
    <2>2. \A e \in D : FALSE  OBVIOUS
    <2> HIDE DEF D
    <2> QED  BY <1>6, <1>7, <2>1, <2>2, RowsStay
  <1> QED  BY <1>1, <1>6, <1>10, <1>11, <1>12

\* One row is written to, truthfully, and its worker goes on to the next document.
LEMMA RowWritten ==
  ASSUME InboxInv, NEW w \in Requests, NEW d \in Documents,
         Active(w), InHand(w, d), ~Busy(w), Onward(w, d),
         row' \in [Documents -> Row], Stored(d)', \A e \in Documents \ {d} : row'[e] = row[e],
         d \in Handled /\ row'[d].status = "PROCESSED" => \A l \in LinesOf(d) : applied[l] > 0,
         Backed(row[d].attempts, d)',
         row'[d].status = "DEAD" => failed'[d] >= MaxAttempts,
         failed' \in [Documents -> Nat], \A e \in Documents : failed[e] <= failed'[e],
         UNCHANGED <<stockVars, arrival, missing, applied, overlapped, mishaps>>
  PROVE  InboxInv'
  <1> USE DEF InboxInv
  <1>0. /\ WorkerInv(w) /\ TypeOK /\ WarehouseJobs /\ ArrivalOrder
        /\ job' = job /\ UNCHANGED <<arrival, missing, applied, overlapped, mishaps>>
        /\ \A e \in Documents : failed[e] \in Nat /\ failed'[e] \in Nat
        /\ \A l \in LineIds : applied[l] \in Nat
        /\ MaxAttempts \in Nat
    BY InboxAssumption DEF stockVars, TypeOK
  <1>1. /\ work' \in [Requests -> Work]
        /\ work'[w].phase \in {"idle", "working"} /\ work'[w].line = 0
        /\ work'[w].left \subseteq work[w].left \ {d}
        /\ \A e \in Documents \ {d} : work'[w].phase = "working"
              => work'[w].seen[e] = work[w].seen[e]
        /\ \A v \in Requests : v # w => work'[v] = work[v]
    BY <1>0, OnwardShape
  <1>2. TypeOK' /\ WarehouseJobs'
    BY <1>0, <1>1 DEF TypeOK, WarehouseJobs, stockVars
  <1>3. \A e \in Documents : Stored(e) <=> Stored(e)'
    <2>1. Stored(d)  BY <1>0 DEF WorkerInv, InHand
    <2> QED  BY <2>1 DEF Stored
  <1>4. Grows  BY <1>0, <1>3 DEF Grows
  <1>5. ArrivalOrder'  BY <1>0, <1>3, OrderStays
  <1>6. RowsTrue'
    <2> DEFINE D == {d}
    <2>1. D \in SUBSET Documents /\ \A e \in Documents \ D : row'[e] = row[e]
      OBVIOUS
    <2>2. \A e \in D : e = d  OBVIOUS
    <2> HIDE DEF D
    <2> QED  BY <1>0, <1>2, <1>4, <2>1, <2>2, RowsStay
  <1>7. WorkerInv(w)'
    <2>1. Active(w)' => work'[w].phase = "working"  BY <1>1 DEF Active
    <2>2. ~Busy(w)'  BY <1>0 DEF Busy
    <2>3. ASSUME work'[w].phase = "working", NEW e \in work'[w].left
          PROVE  Stored(e)' /\ Backed(work[w].seen[e], e)'
      <3>1. e \in work[w].left /\ e # d /\ e \in Documents
        BY <1>0, <1>1, <2>3 DEF TypeOK, Work
      <3>2. Stored(e)' /\ Backed(work[w].seen[e], e) /\ work[w].seen[e] \in Nat
        BY <1>0, <1>3, <3>1 DEF WorkerInv, TypeOK, Work
      <3>3. work'[w].seen[e] = work[w].seen[e] /\ failed[e] <= failed'[e]
        BY <1>1, <2>3, <3>1
      <3> QED  BY <1>0, <3>1, <3>2, <3>3 DEF Backed
    <2>4. ASSUME NEW e \in Documents  PROVE LinesDone(w, e)'
      <3>1. e \in Handled => 0 <= Len(Lines[e])  BY LineFacts
      <3> QED  BY <1>1, <2>2, <3>1 DEF LinesDone
    <2> QED  BY <2>1, <2>2, <2>3, <2>4 DEF WorkerInv
  <1>8. \A v \in Requests : WorkerInv(v)'
    BY <1>0, <1>1, <1>2, <1>4, <1>7, OthersStay DEF Steady
  <1> QED  BY <1>2, <1>5, <1>6, <1>8

\* A document is shown as processed when every line of it has been applied.
LEMMA MarkProcessedStep ==
  ASSUME InboxInv, NEW w \in Requests, NEW d \in Documents, MarkProcessed(w, d)
  PROVE  InboxInv'
  <1> USE DEF InboxInv
  <1>0. /\ WorkerInv(w) /\ TypeOK /\ row \in [Documents -> Row] /\ row[d] \in Row
        /\ work[w].phase = "working" /\ InHand(w, d) /\ ~Busy(w)
        /\ d \in Handled => work[w].line = Len(Lines[d])
        /\ row' = [row EXCEPT ![d].status = Outcome(d)] /\ Onward(w, d)
        /\ UNCHANGED <<stockVars, arrival, missing, applied, failed, overlapped, mishaps>>
        /\ \A e \in Documents : failed[e] \in Nat
    BY DEF MarkProcessed, Finished, TypeOK, Busy
  <1>1. Outcome(d) \in {"PROCESSED", "IGNORED"}  BY DEF Outcome
  <1>2. /\ row' \in [Documents -> Row] /\ row'[d].status = Outcome(d)
        /\ row'[d].attempts = row[d].attempts
        /\ \A e \in Documents \ {d} : row'[e] = row[e]
    BY <1>0, <1>1 DEF Row
  <1>3. ASSUME d \in Handled, NEW l \in LinesOf(d)  PROVE applied[l] > 0
    <2>1. LinesDone(w, d)  BY <1>0 DEF WorkerInv
    <2>2. PICK i \in 1..Len(Lines[d]) : l = <<d, i>>  BY LineFacts
    <2> QED  BY <1>0, <1>3, <2>1, <2>2 DEF LinesDone
  <1>4. Backed(row[d].attempts, d)'
    BY <1>0, <1>2 DEF RowsTrue, Backed
  <1>5. Active(w) /\ Stored(d)'  BY <1>0, <1>1, <1>2 DEF Active, Stored
  <1>6. failed' \in [Documents -> Nat] /\ \A e \in Documents : failed[e] <= failed'[e]
    BY <1>0 DEF TypeOK
  <1> QED  BY <1>0, <1>1, <1>2, <1>3, <1>4, <1>5, <1>6, RowWritten

\* A failure is recorded with the attempts that were read, and counted; when
\* that gives the document up, as many failures are on record.
LEMMA MarkFailedStep ==
  ASSUME InboxInv, NEW w \in Requests, NEW d \in Documents, MarkFailed(w, d)
  PROVE  InboxInv'
  <1> USE DEF InboxInv
  <1> DEFINE n == work[w].seen[d] + 1
             status == IF n >= MaxAttempts THEN "DEAD" ELSE "FAILED"
  <1>0. /\ WorkerInv(w) /\ TypeOK /\ row \in [Documents -> Row]
        /\ work[w].phase = "failing" /\ InHand(w, d)
        /\ row' = [row EXCEPT ![d] = [status |-> status, attempts |-> n]] /\ Onward(w, d)
        /\ failed' = [failed EXCEPT ![d] = IF @ < MaxAttempts THEN @ + 1 ELSE @]
        /\ UNCHANGED <<stockVars, arrival, missing, applied, overlapped, mishaps>>
        /\ failed \in [Documents -> Nat] /\ MaxAttempts \in Nat
    BY InboxAssumption DEF MarkFailed, TypeOK
  <1>1. work[w].seen[d] \in Nat /\ n \in Nat /\ failed[d] \in Nat
    BY DEF TypeOK, Work
  <1>2. status \in {"DEAD", "FAILED"} /\ (status = "DEAD" => n >= MaxAttempts)
    OBVIOUS
  <1>3. Active(w) /\ ~Busy(w) /\ d \in work[w].left
    BY <1>0 DEF Active, WorkerInv, InHand
  <1>4. work[w].seen[d] <= failed[d] \/ failed[d] >= MaxAttempts
    BY <1>0, <1>3 DEF WorkerInv, Backed
  <1>5. /\ failed' \in [Documents -> Nat] /\ \A e \in Documents : failed[e] <= failed'[e]
        /\ failed'[d] = IF failed[d] < MaxAttempts THEN failed[d] + 1 ELSE failed[d]
    <2> HIDE DEF n, status
    <2> QED  BY <1>0
  <1>6. n <= failed'[d] \/ failed'[d] >= MaxAttempts
    BY <1>0, <1>1, <1>4, <1>5
  <1>7. status = "DEAD" => failed'[d] >= MaxAttempts
    BY <1>0, <1>1, <1>2, <1>5, <1>6
  <1> HIDE DEF n, status
  <1>8. /\ row' \in [Documents -> Row] /\ row'[d].status = status /\ row'[d].attempts = n
        /\ \A e \in Documents \ {d} : row'[e] = row[e]
    BY <1>0, <1>1, <1>2 DEF Row
  <1>9. Backed(row[d].attempts, d)'
    BY <1>6, <1>8 DEF Backed
  <1>10. Stored(d)' /\ row'[d].status # "PROCESSED"  BY <1>2, <1>8 DEF Stored
  <1> QED  BY <1>0, <1>3, <1>5, <1>7, <1>8, <1>9, <1>10, RowWritten

\* The administrator's retry, and a material that is entered.
LEMMA OfficeSteps ==
  ASSUME InboxInv, (\E d \in Documents : Retry(d)) \/ (\E l \in LineIds : AddMaterial(l))
  PROVE  InboxInv'
  <1> USE DEF InboxInv
  <1>1. ASSUME NEW d \in Documents, Retry(d)  PROVE InboxInv'
    <2>0. /\ TypeOK /\ row \in [Documents -> Row] /\ Stored(d) /\ WarehouseJobs /\ ArrivalOrder
          /\ row' = [row EXCEPT ![d] = [status |-> "PENDING", attempts |-> 0]]
          /\ mishaps' = mishaps + 1
          /\ UNCHANGED <<stockVars, arrival, work, missing, applied, failed, overlapped>>
          /\ job' = job
      BY <1>1 DEF Retry, TypeOK, stockVars
    <2>1. /\ row' \in [Documents -> Row] /\ row'[d].status = "PENDING" /\ row'[d].attempts = 0
          /\ \A e \in Documents \ {d} : row'[e] = row[e]
      BY <2>0 DEF Row
    <2>2. TypeOK' /\ WarehouseJobs'
      BY <2>0, <2>1 DEF TypeOK, WarehouseJobs, stockVars
    <2>3. \A e \in Documents : Stored(e) <=> Stored(e)'
      BY <2>0, <2>1 DEF Stored
    <2>4. Grows  BY <2>0, <2>3 DEF Grows, TypeOK
    <2>5. ArrivalOrder'  BY <2>0, <2>3, OrderStays
    <2>6. RowsTrue'
      <3> DEFINE D == {d}
      <3>1. D \in SUBSET Documents /\ \A e \in Documents \ D : row'[e] = row[e]
        BY <2>1
      <3>2. \A e \in D : e = d  OBVIOUS
      <3>3. Backed(row[d].attempts, d)'  BY <2>1, <2>2 DEF Backed, TypeOK
      <3> HIDE DEF D
      <3> QED  BY <2>1, <2>2, <2>4, <3>1, <3>2, <3>3, RowsStay
    <2>7. \A v \in Requests : WorkerInv(v)'
      BY <2>0, <2>2, <2>4, OthersStay DEF Steady
    <2> QED  BY <2>2, <2>5, <2>6, <2>7
  <1>2. ASSUME NEW l \in LineIds, AddMaterial(l)  PROVE InboxInv'
    <2>0. /\ TypeOK /\ missing' = missing \ {l} /\ WarehouseJobs /\ ArrivalOrder /\ RowsTrue
          /\ UNCHANGED <<stockVars, row, arrival, work, applied, failed, overlapped, mishaps>>
          /\ job' = job
      BY <1>2 DEF AddMaterial, stockVars
    <2>1. TypeOK' /\ WarehouseJobs'
      BY <2>0 DEF TypeOK, WarehouseJobs, stockVars
    <2>2. Grows  BY <2>0 DEF Grows, Stored, TypeOK
    <2>3. ArrivalOrder'  BY <2>0, OrderStays DEF Stored
    <2>4. RowsTrue'  BY <2>0 DEF RowsTrue, Backed
    <2>5. \A v \in Requests : WorkerInv(v)'
      BY <2>0, <2>1, <2>2, OthersStay DEF Steady
    <2> QED  BY <2>1, <2>3, <2>4, <2>5
  <1> QED  BY <1>1, <1>2

\* Every step of the inbox keeps what it relies on.
LEMMA InboxStep == InboxInv /\ [Next]_vars => InboxInv'
  <1> SUFFICES ASSUME InboxInv, [Next]_vars  PROVE InboxInv'
    OBVIOUS
  <1>1. CASE UNCHANGED vars
    <2>1. UNCHANGED <<stock, deaths, job, row, arrival, work, missing, applied, failed, overlapped, mishaps>>
      BY <1>1 DEF vars, stockVars, inboxVars
    <2>2. TypeOK' /\ WarehouseJobs'
      BY <2>1 DEF InboxInv, TypeOK, WarehouseJobs
    <2>3. Grows  BY <2>1 DEF InboxInv, TypeOK, Grows, Stored
    <2>4. ArrivalOrder'  BY <2>1, OrderStays DEF InboxInv, Stored
    <2>5. RowsTrue'  BY <2>1 DEF InboxInv, RowsTrue, Backed
    <2>6. \A v \in Requests : WorkerInv(v)'
      BY <2>1, <2>2, <2>3, OthersStay DEF InboxInv, Steady
    <2> QED  BY <2>2, <2>4, <2>5, <2>6 DEF InboxInv
  <1> QED
    BY <1>1, WorkerSteps, StoreStep, ReadStep, BeginLineStep, ContinueLineStep, MarkProcessedStep,
       MarkFailedStep, OfficeSteps DEF Next

\* The inbox starts empty, its workers idle.
LEMMA InitialInbox == Init => InboxInv
  <1> SUFFICES ASSUME Init  PROVE InboxInv
    OBVIOUS
  <1>1. WarehouseJobs /\ \A w \in Requests : ~Busy(w)
    BY WarehouseStarts DEF Init
  <1>2. TypeOK
    <2>1. Idle \in Work  BY IdleWork
    <2>2. [status |-> "absent", attempts |-> 0] \in Row  BY DEF Row
    <2>3. missing \subseteq LineIds  BY InboxAssumption DEF Init
    <2> QED  BY <2>1, <2>2, <2>3 DEF Init, TypeOK
  <1>3. \A d \in Documents : row[d].status = "absent" /\ row[d].attempts = 0 /\ failed[d] = 0
    BY DEF Init
  <1>4. ArrivalOrder  BY <1>3 DEF ArrivalOrder, StoredDocuments, Stored
  <1>5. RowsTrue  BY <1>3, InboxAssumption DEF RowsTrue, Backed
  <1>6. \A w \in Requests : WorkerInv(w)
    BY <1>1, IdleWork DEF Init, WorkerInv, Active
  <1> QED  BY <1>1, <1>2, <1>4, <1>5, <1>6 DEF InboxInv

LEMMA InboxInvariant == Spec => []InboxInv
  BY InitialInbox, InboxStep, PTL DEF Spec

\* JournalIsTrue: a receipt shown as processed has reached the warehouse with
\* every line, and a document is given up only after MaxAttempts failures on
\* record, however many workers, failures, stops and retries overlap.
THEOREM JournalTrue == Spec => []JournalIsTrue
  <1>1. InboxInv => JournalIsTrue
    BY DEF InboxInv, RowsTrue, JournalIsTrue
  <1> QED  BY <1>1, InboxInvariant, PTL

----------------------------------------------------------------------------
(* The inbox as a client of the warehouse                                  *)

\* A step of the inbox is a step of the warehouse or leaves it alone.
LEMMA WarehouseStep == InboxInv /\ [Next]_vars => [Stock!Next]_(Stock!vars)
  <1> SUFFICES ASSUME InboxInv, [Next]_vars  PROVE [Stock!Next]_(Stock!vars)
    OBVIOUS
  <1>1. ASSUME UNCHANGED stockVars  PROVE [Stock!Next]_(Stock!vars)
    BY <1>1 DEF stockVars, Stock!vars
  <1>2. ASSUME NEW w \in Requests, NEW d \in Documents, BeginLine(w, d)
        PROVE  Stock!Next
    <2> DEFINE n == work[w].line + 1
    <2>1. /\ work[w].line \in Nat /\ work[w].line < Len(Lines[d])
          /\ Stock!BeginReceipt(w, Lines[d][n])
      BY <1>2 DEF BeginLine, InboxInv, TypeOK, Work
    <2>2. n \in 1..Len(Lines[d])  BY <2>1, LineFacts
    <2>3. Lines[d][n] \in Quantities  BY <2>2, LineFacts
    <2> HIDE DEF n
    <2> QED  BY <2>1, <2>3 DEF Stock!Next
  <1>3. ASSUME NEW w \in Requests, NEW d \in Documents, ContinueLine(w, d)
        PROVE  Stock!Next
    BY <1>3 DEF ContinueLine, Stock!Next
  <1>4. ASSUME NEW w \in Requests, LineDies(w)  PROVE Stock!Next
    BY <1>4 DEF LineDies, Stock!Next
  <1>5. CASE UNCHANGED vars  BY <1>1, <1>5 DEF vars
  <1> QED
    BY <1>1, <1>2, <1>3, <1>4, <1>5 DEF Next, Store, Press, Read, Stop, Deliver, UnknownMaterial,
       MarkProcessed, MarkNotWritten, MarkFailed, Retry, AddMaterial

\* WarehouseFollowed: whatever documents arrive and however their workers
\* overlap, the warehouse sees requests as it knows them, one receipt at a time.
THEOREM InboxFollowsWarehouse == Spec => WarehouseFollowed
  <1>1. Init => Stock!Init  BY DEF Init
  <1> QED  BY <1>1, WarehouseStep, InboxInvariant, PTL DEF Spec, WarehouseFollowed, Stock!Spec

----------------------------------------------------------------------------
(* Delivered again                                                         *)

\* Nothing has failed, stopped, been retried or overlapped so far.
Calm == ~overlapped /\ mishaps = 0 /\ deaths = 0 /\ \A d \in Documents : failed[d] = 0

\* Worker w has document d in hand and line i of it behind it.
Past(w, d, i) ==
    /\ Active(w) /\ InHand(w, d)
    /\ i <= work[w].line /\ (i = work[w].line => ~Busy(w))

\* The documents workers have in hand are theirs alone and still pending.
HeldApart ==
    /\ \A v, w \in Requests :
          v # w /\ Active(v) /\ Active(w) => work[v].left \cap work[w].left = {}
    /\ \A w \in Requests : Active(w) => work[w].left \subseteq Pending

\* A line that is applied is applied once, and its document is done or in hand.
Accounted(d, i) == row[d].status = "PROCESSED" \/ \E w \in Requests : Past(w, d, i)
AppliedOnce ==
    \A d \in Documents : \A i \in 1..Len(Lines[d]) : applied[<<d, i>>] > 0 =>
        applied[<<d, i>>] = 1 /\ d \in Handled /\ Accounted(d, i)

CalmInv == Calm => HeldApart /\ AppliedOnce

\* No step takes back a document, its place, an applied line or a failure.
LEMMA EveryStepGrows == ASSUME InboxInv, [Next]_vars  PROVE Grows
  <1> USE DEF InboxInv
  <1>0. /\ row \in [Documents -> Row] /\ arrival \in [Documents -> Nat]
        /\ applied \in [LineIds -> Nat] /\ failed \in [Documents -> Nat]
        /\ MaxAttempts \in Nat
    BY InboxAssumption DEF TypeOK
  <1>1. ASSUME NEW d \in Documents, Stored(d)  PROVE Stored(d)' /\ arrival'[d] = arrival[d]
    <2>1. ASSUME NEW w \in Requests, Store(w)  PROVE Stored(d)' /\ arrival'[d] = arrival[d]
      BY <1>0, <1>1, <2>1 DEF Store, Stored, Row
    <2>2. ASSUME NEW w \in Requests, NEW e \in Documents, MarkProcessed(w, e) \/ MarkFailed(w, e)
          PROVE  Stored(d)' /\ arrival'[d] = arrival[d]
      <3>1. CASE MarkProcessed(w, e)
        <4>1. row' = [row EXCEPT ![e].status = Outcome(e)] /\ arrival' = arrival
          BY <3>1 DEF MarkProcessed
        <4> QED  BY <1>0, <1>1, <4>1 DEF Stored, Outcome, Row
      <3>2. CASE MarkFailed(w, e)
        <4> DEFINE n == work[w].seen[e] + 1
                   status == IF n >= MaxAttempts THEN "DEAD" ELSE "FAILED"
        <4>1. row' = [row EXCEPT ![e] = [status |-> status, attempts |-> n]] /\ arrival' = arrival
          BY <3>2 DEF MarkFailed
        <4>2. status # "absent"  OBVIOUS
        <4> HIDE DEF n, status
        <4> QED  BY <1>0, <1>1, <4>1, <4>2 DEF Stored
      <3> QED  BY <2>2, <3>1, <3>2
    <2>3. ASSUME NEW e \in Documents, Retry(e)  PROVE Stored(d)' /\ arrival'[d] = arrival[d]
      BY <1>0, <1>1, <2>3 DEF Retry, Stored
    <2>4. CASE UNCHANGED <<row, arrival>>  BY <1>1, <2>4 DEF Stored
    <2> QED
      BY <2>1, <2>2, <2>3, <2>4 DEF Next, vars, inboxVars, Press, Read, Stop, Deliver,
         UnknownMaterial, MarkNotWritten, AddMaterial, BeginLine, ContinueLine, LineDies
  <1>2. ASSUME NEW l \in LineIds  PROVE applied[l] <= applied'[l]
    <2>1. applied[l] \in Nat  BY <1>0
    <2>2. ASSUME NEW w \in Requests, NEW e \in Documents, ContinueLine(w, e)
          PROVE  applied[l] <= applied'[l]
      <3> DEFINE k == <<e, work[w].line>>
      <3>1. applied' = applied \/ applied' = [applied EXCEPT ![k] = @ + 1]
        BY <2>2 DEF ContinueLine
      <3> HIDE DEF k
      <3>2. applied'[l] = applied[l] \/ applied'[l] = applied[l] + 1
        BY <1>0, <3>1
      <3> QED  BY <2>1, <3>2
    <2>3. CASE UNCHANGED applied  BY <2>1, <2>3
    <2> QED
      BY <2>2, <2>3 DEF Next, vars, inboxVars, Store, Press, Read, Stop, Deliver, UnknownMaterial,
         MarkProcessed, MarkNotWritten, MarkFailed, Retry, AddMaterial, BeginLine, LineDies
  <1>3. ASSUME NEW d \in Documents  PROVE failed[d] <= failed'[d]
    <2>1. CASE \E w \in Requests, e \in Documents : MarkFailed(w, e)
      <3>1. PICK w \in Requests, e \in Documents :
               failed' = [failed EXCEPT ![e] = IF @ < MaxAttempts THEN @ + 1 ELSE @]
        BY <2>1 DEF MarkFailed
      <3>2. failed[d] \in Nat /\ failed[e] \in Nat /\ MaxAttempts \in Nat
        BY <1>0, InboxAssumption
      <3>3. CASE d = e
        <4>1. failed'[d] = IF failed[d] < MaxAttempts THEN failed[d] + 1 ELSE failed[d]
          BY <1>0, <3>1, <3>3
        <4> QED  BY <3>2, <4>1
      <3>4. CASE d # e
        <4>1. failed'[d] = failed[d]  BY <1>0, <3>1, <3>4
        <4> QED  BY <3>2, <4>1
      <3> QED  BY <3>3, <3>4
    <2>2. CASE UNCHANGED failed  BY <1>0, <2>2
    <2> QED
      BY <2>1, <2>2 DEF Next, vars, inboxVars, Store, Press, Read, Stop, Deliver, UnknownMaterial,
         MarkProcessed, MarkNotWritten, Retry, AddMaterial, BeginLine, ContinueLine, LineDies
  <1> QED  BY <1>1, <1>2, <1>3 DEF Grows

\* A calm that lasts was there before.
LEMMA CalmBefore == ASSUME InboxInv, [Next]_vars, Calm'  PROVE Calm
  <1> USE DEF InboxInv
  <1>0. /\ mishaps \in Nat /\ deaths \in Nat /\ failed \in [Documents -> Nat]
        /\ WarehouseJobs /\ overlapped \in BOOLEAN
    BY DEF TypeOK, WarehouseJobs
  <1>1. overlapped => overlapped'
    BY DEF Next, vars, inboxVars, Store, Press, Read, Stop, Deliver, UnknownMaterial,
       MarkProcessed, MarkNotWritten, MarkFailed, Retry, AddMaterial, BeginLine, ContinueLine,
       LineDies
  <1>2. mishaps' = mishaps \/ mishaps' = mishaps + 1
    BY DEF Next, vars, inboxVars, Store, Press, Read, Stop, Deliver, UnknownMaterial,
       MarkProcessed, MarkNotWritten, MarkFailed, Retry, AddMaterial, BeginLine, ContinueLine,
       LineDies
  <1>3. deaths' = deaths \/ deaths' = deaths + 1
    BY WarehouseStep DEF Stock!Next, Stock!vars, Stock!BeginReceipt, Stock!AddTolling,
       Stock!BeginExpense, Stock!ReceiptStep, Stock!RecordReceipt, Stock!WriteStock,
       Stock!CreateFromMovement, Stock!RecordTolling, Stock!ExpenseStep, Stock!RecordExpense,
       Stock!DeductStock, Stock!Pick, Stock!Answer, Stock!Take, Stock!Die, Stock!ClearAnomaly
  <1>4. \A d \in Documents : failed[d] <= failed'[d]  BY EveryStepGrows DEF Grows
  <1>5. \A d \in Documents : failed[d] \in Nat  BY <1>0
  <1> QED  BY <1>0, <1>1, <1>2, <1>3, <1>4, <1>5 DEF Calm

\* What a worker has behind it stays behind it while others move.
LEMMA PastStays ==
  ASSUME InboxInv, Grows, NEW w \in Requests, Steady(w), NEW d \in Documents, NEW i \in Nat,
         Past(w, d, i)
  PROVE  Past(w, d, i)'
  <1>1. \A e \in work[w].left : e \in Documents /\ arrival'[e] = arrival[e]
    BY DEF InboxInv, WorkerInv, Grows, Past, TypeOK, Work
  <1> QED  BY <1>1 DEF Past, Active, InHand, Busy, Steady

\* A worker that had nothing in hand, or keeps what it has, keeps the calm.
LEMMA CalmMoves ==
  ASSUME InboxInv, Grows, Calm, CalmInv, NEW w \in Requests,
         \A v \in Requests : v # w => Steady(v),
         applied' = applied, Pending \subseteq Pending',
         \A d \in Documents : row[d].status = "PROCESSED" => row'[d].status = "PROCESSED",
         Active(w)' => /\ work'[w].left \subseteq Pending'
                       /\ \A v \in Requests : v # w /\ Active(v)
                             => work[v].left \cap work'[w].left = {},
         \A d \in Documents, i \in Nat : Past(w, d, i) => Past(w, d, i)'
  PROVE  CalmInv'
  <1>1. HeldApart /\ AppliedOnce  BY DEF CalmInv
  <1>2. \A v \in Requests : v # w => (Active(v)' <=> Active(v)) /\ work'[v] = work[v]
    BY DEF Steady, Active
  <1>3. HeldApart'
    <2>1. \A v \in Requests : Active(v)' => work'[v].left \subseteq Pending'
      BY <1>1, <1>2 DEF HeldApart
    <2>2. ASSUME NEW v \in Requests, NEW u \in Requests, v # u, Active(v)', Active(u)'
          PROVE  work'[v].left \cap work'[u].left = {}
      <3>1. CASE v # w /\ u # w  BY <1>1, <1>2, <2>2, <3>1 DEF HeldApart
      <3>2. CASE v = w  BY <1>2, <2>2, <3>2
      <3>3. CASE u = w  BY <1>2, <2>2, <3>3
      <3> QED  BY <3>1, <3>2, <3>3
    <2> QED  BY <2>1, <2>2 DEF HeldApart
  <1>4. AppliedOnce'
    <2>1. ASSUME NEW d \in Documents, NEW i \in 1..Len(Lines[d]), applied'[<<d, i>>] > 0
          PROVE  applied'[<<d, i>>] = 1 /\ d \in Handled /\ Accounted(d, i)'
      <3>1. applied[<<d, i>>] = 1 /\ d \in Handled /\ Accounted(d, i)
        BY <1>1, <2>1 DEF AppliedOnce
      <3>2. i \in Nat  BY LineFacts
      <3>3. ASSUME NEW v \in Requests, Past(v, d, i)  PROVE Past(v, d, i)'
        BY <3>2, <3>3, PastStays
      <3> QED  BY <3>1, <3>3 DEF Accounted
    <2> QED  BY <2>1 DEF AppliedOnce
  <1> QED  BY <1>3, <1>4 DEF CalmInv

\* A delivery, the button, a store and a read: the worker had nothing in hand.
LEMMA CalmBegins ==
  ASSUME InboxInv, [Next]_vars, Calm, Calm', CalmInv, NEW w \in Requests,
         (\E d \in Documents : Deliver(w, d)) \/ Press(w) \/ Store(w) \/ Read(w)
  PROVE  CalmInv'
  <1> USE DEF InboxInv
  <1>0. /\ TypeOK /\ work \in [Requests -> Work] /\ row \in [Documents -> Row]
        /\ Idle.phase = "idle" /\ work[w] \in Work
    BY IdleWork DEF TypeOK
  <1>1. Grows  BY EveryStepGrows
  <1>2. ~Active(w) /\ applied' = applied /\ job' = job
    BY <1>0 DEF Deliver, Press, Store, Read, Active, stockVars
  <1>3. \A v \in Requests : v # w => Steady(v)
    BY <1>0, <1>2 DEF Deliver, Press, Store, Read, Steady
  <1>4. \A d \in Documents, i \in Nat : ~Past(w, d, i)
    BY <1>2 DEF Past
  <1>5. /\ Pending \subseteq Pending'
        /\ \A d \in Documents : row[d].status = "PROCESSED" => row'[d].status = "PROCESSED"
    <2>1. CASE UNCHANGED row  BY <2>1 DEF Pending
    <2>2. CASE Store(w)
      <3>1. PICK d \in work[w].left :
               \/ UNCHANGED row
               \/ ~Stored(d) /\ row' = [row EXCEPT ![d].status = "PENDING"]
        BY <2>2 DEF Store
      <3>2. d \in Documents  BY <1>0 DEF Work
      <3>3. ASSUME ~Stored(d), row' = [row EXCEPT ![d].status = "PENDING"], NEW e \in Documents
            PROVE  /\ row[e].status \in {"PENDING", "FAILED"} => row'[e] = row[e]
                   /\ row[e].status = "PROCESSED" => row'[e] = row[e]
        BY <1>0, <3>2, <3>3 DEF Stored
      <3>4. CASE UNCHANGED row  BY <2>1, <3>4
      <3>5. CASE ~Stored(d) /\ row' = [row EXCEPT ![d].status = "PENDING"]
        BY <3>3, <3>5 DEF Pending
      <3> QED  BY <3>1, <3>4, <3>5
    <2> QED  BY <2>1, <2>2 DEF Deliver, Press, Read
  <1>6. Active(w)' => /\ work'[w].left \subseteq Pending'
                      /\ \A v \in Requests : v # w /\ Active(v)
                            => work[v].left \cap work'[w].left = {}
    <2>1. CASE Read(w)
      <3> DEFINE reads == [phase |-> "working", left |-> Oldest, line |-> 0,
                    seen |-> [d \in Documents |-> IF d \in Oldest THEN row[d].attempts ELSE 0]]
      <3>1. /\ work' = [work EXCEPT ![w] = IF Oldest = {} THEN Idle ELSE reads]
            /\ row' = row /\ reads.left = Oldest
        BY <2>1 DEF Read
      <3>2. \A v \in Requests \ {w} : Active(v) => work[v].left \cap Oldest = {}
        BY <2>1 DEF Read, Calm, Active
      <3>3. Oldest \subseteq Pending'  BY <3>1 DEF Oldest, Pending
      <3> HIDE DEF reads
      <3>4. work'[w] = Idle \/ work'[w] = reads  BY <1>0, <3>1
      <3>5. Active(w)' => work'[w].left = Oldest  BY <1>0, <3>1, <3>4 DEF Active
      <3> QED  BY <3>2, <3>3, <3>5
    <2>2. ASSUME NEW d \in Documents, Deliver(w, d)  PROVE ~Active(w)'
      BY <1>0, <2>2 DEF Deliver, Active, Work
    <2>3. CASE Press(w)  BY <1>0, <2>3, ChangesPhase DEF Press, Active
    <2>4. CASE Store(w)
      <3> DEFINE reading == [Idle EXCEPT !.phase = "reading"]
      <3>1. reading.phase = "reading"  BY DEF Idle
      <3>2. work' = [work EXCEPT ![w] = Idle] \/ work' = [work EXCEPT ![w] = reading]
        <4>1. PICK d \in work[w].left :
                 IF Stored(d) THEN work' = [work EXCEPT ![w] = Idle] /\ UNCHANGED <<row, arrival>>
                 ELSE /\ row' = [row EXCEPT ![d].status = "PENDING"]
                      /\ arrival' = [arrival EXCEPT ![d] =
                                       Cardinality({e \in Documents : Stored(e)}) + 1]
                      /\ work' = [work EXCEPT ![w] = reading]
          BY <2>4 DEF Store
        <4> HIDE DEF reading
        <4> QED  BY <4>1, Zenon
      <3> HIDE DEF reading
      <3>3. work'[w].phase \in {"idle", "reading"}
        BY <1>0, <3>1, <3>2
      <3> QED  BY <3>3 DEF Active
    <2> QED  BY <2>1, <2>2, <2>3, <2>4
  <1> QED  BY <1>1, <1>2, <1>3, <1>4, <1>5, <1>6, CalmMoves

\* A line that begins, and one whose material is unknown: nothing behind it is lost.
LEMMA CalmInHand ==
  ASSUME InboxInv, [Next]_vars, Calm, CalmInv, NEW w \in Requests, NEW d \in Documents,
         BeginLine(w, d) \/ UnknownMaterial(w, d)
  PROVE  CalmInv'
  <1> USE DEF InboxInv
  <1>0. /\ WorkerInv(w) /\ TypeOK /\ WarehouseJobs /\ ArrivalOrder /\ work \in [Requests -> Work]
        /\ work[w] \in Work /\ work[w].line \in Nat /\ work[w].phase = "working" /\ ~Busy(w)
        /\ UNCHANGED <<row, arrival, applied>>
    BY DEF BeginLine, UnknownMaterial, TypeOK, Work, Busy
  <1>1. Grows  BY EveryStepGrows
  <1>2. /\ Active(w) /\ Active(w)' /\ work'[w].left = work[w].left
        /\ \/ work'[w].line = work[w].line + 1
           \/ work'[w].line = work[w].line /\ ~Busy(w)'
        /\ \A v \in Requests : v # w => Steady(v)
    <2>1. CASE BeginLine(w, d)
      <3> DEFINE n == work[w].line + 1
      <3>1. /\ work' = [work EXCEPT ![w].line = n] /\ work[w].line < Len(Lines[d])
            /\ Stock!BeginReceipt(w, Lines[d][n])
        BY <2>1 DEF BeginLine
      <3>2. n \in 1..Len(Lines[d])  BY <1>0, <3>1, LineFacts
      <3>3. Lines[d][n] \in Nat  BY <3>2, LineFacts
      <3>4. \A v \in Requests : v # w => job'[v] = job[v]
        BY <1>0, <3>1, <3>3, ReceiptBegins
      <3> HIDE DEF n
      <3>5. /\ work'[w].phase = "working" /\ work'[w].left = work[w].left /\ work'[w].line = n
            /\ \A v \in Requests : v # w => work'[v] = work[v]
        BY <1>0, <3>1 DEF Work
      <3> QED  BY <1>0, <3>4, <3>5 DEF Active, Steady, n
    <2>2. CASE UnknownMaterial(w, d)
      <3>1. work' = [work EXCEPT ![w].phase = "failing"] /\ job' = job
        BY <2>2 DEF UnknownMaterial, stockVars
      <3> QED  BY <1>0, <3>1, ChangesPhase DEF Active, Steady, Busy
    <2> QED  BY <2>1, <2>2
  <1>3. HeldApart  BY DEF CalmInv
  <1>4. /\ work'[w].left \subseteq Pending' /\ Pending \subseteq Pending'
        /\ \A v \in Requests : v # w /\ Active(v) => work[v].left \cap work'[w].left = {}
    BY <1>0, <1>2, <1>3 DEF HeldApart, Pending
  <1>5. \A e \in Documents, i \in Nat : Past(w, e, i) => Past(w, e, i)'
    BY <1>0, <1>2 DEF Past, InHand
  <1> QED  BY <1>0, <1>1, <1>2, <1>4, <1>5, CalmMoves

\* A receipt that is carried through had not been before.
LEMMA CalmApplies ==
  ASSUME InboxInv, InboxInv', [Next]_vars, Calm, CalmInv, NEW w \in Requests, NEW d \in Documents,
         ContinueLine(w, d)
  PROVE  CalmInv'
  <1> USE DEF InboxInv
  <1> DEFINE n == work[w].line
  <1>0. /\ WorkerInv(w) /\ TypeOK /\ WarehouseJobs /\ ArrivalOrder /\ n \in Nat
        /\ applied \in [LineIds -> Nat] /\ work[w].phase = "working" /\ InHand(w, d)
        /\ Stock!ReceiptStep(w)
        /\ UNCHANGED <<row, arrival, work, missing, failed, overlapped, mishaps>>
        /\ applied' = IF job'[w].phase = "idle" THEN [applied EXCEPT ![<<d, n>>] = @ + 1]
                      ELSE applied
    BY DEF ContinueLine, TypeOK, Work
  <1>1. Busy(w) /\ \A v \in Requests : v # w => Steady(v)
    BY <1>0, ReceiptGoesOn DEF Steady
  <1>2. Grows  BY EveryStepGrows
  <1>3. HeldApart /\ AppliedOnce  BY DEF CalmInv
  <1>4. HeldApart'  BY <1>0, <1>3 DEF HeldApart, Active, Pending
  <1>5. ASSUME NEW e \in Documents, NEW i \in Nat, NEW v \in Requests, Past(v, e, i)
        PROVE  Past(v, e, i)'
    <2>1. CASE v = w
      BY <1>0, <1>1, <1>5, <2>1 DEF Past, Active, InHand
    <2>2. CASE v # w  BY <1>1, <1>2, <1>5, <2>2, PastStays
    <2> QED  BY <2>1, <2>2
  <1>6. CASE Busy(w)'
    <2>1. applied' = applied  BY <1>0, <1>6 DEF Busy
    <2>2. \A e \in Documents, i \in Nat : Accounted(e, i) => Accounted(e, i)'
      BY <1>0, <1>5 DEF Accounted
    <2>3. \A e \in Documents : \A i \in 1..Len(Lines[e]) : i \in Nat
      BY LineFacts
    <2>4. AppliedOnce'  BY <1>3, <2>1, <2>2, <2>3 DEF AppliedOnce
    <2> QED  BY <1>4, <2>4 DEF CalmInv
  <1>7. CASE ~Busy(w)'
    <2>1. applied' = [applied EXCEPT ![<<d, n>>] = @ + 1]  BY <1>0, <1>7 DEF Busy
    <2>2. LinesDone(w, d)  BY <1>0 DEF WorkerInv
    <2>3. n \in 1..Len(Lines[d]) /\ d \in Handled /\ <<d, n>> \in LineIds
      BY <1>0, <1>1, <2>2, LineFacts DEF LinesDone
    <2>4. applied[<<d, n>>] = 0
      <3>1. SUFFICES ASSUME applied[<<d, n>>] > 0  PROVE FALSE
        BY <1>0, <2>3
      <3>2. Accounted(d, n)  BY <1>3, <2>3, <3>1 DEF AppliedOnce
      <3>3. d \in work[w].left /\ Active(w)  BY <1>0 DEF InHand, Active
      <3>4. row[d].status # "PROCESSED"
        BY <1>3, <3>3 DEF HeldApart, Pending
      <3>5. PICK v \in Requests : Past(v, d, n)  BY <3>2, <3>4 DEF Accounted
      <3>6. v = w  BY <1>3, <3>3, <3>5 DEF HeldApart, Past, InHand
      <3> QED  BY <1>1, <3>5, <3>6 DEF Past
    <2>5. ASSUME NEW i \in Nat, i = n  PROVE Past(w, d, i)'
      BY <1>0, <1>7, <2>5 DEF Past, Active, InHand
    <2>6. ASSUME NEW e \in Documents, NEW i \in 1..Len(Lines[e]), applied'[<<e, i>>] > 0
          PROVE  applied'[<<e, i>>] = 1 /\ e \in Handled /\ Accounted(e, i)'
      <3>1. i \in Nat /\ <<e, i>> \in LineIds  BY LineFacts
      <3>2. CASE <<e, i>> = <<d, n>>
        <4>1. e = d /\ i = n  BY <3>2
        <4>2. applied'[<<e, i>>] = 1
          <5> HIDE DEF n
          <5> QED  BY <1>0, <2>1, <2>3, <2>4, <3>2
        <4>3. Past(w, e, i)'  BY <2>5, <3>1, <4>1
        <4> QED  BY <2>3, <4>1, <4>2, <4>3 DEF Accounted
      <3>3. CASE <<e, i>> # <<d, n>>
        <4>1. applied'[<<e, i>>] = applied[<<e, i>>]
          <5> HIDE DEF n
          <5> QED  BY <1>0, <2>1, <3>1, <3>3
        <4>2. applied[<<e, i>>] = 1 /\ e \in Handled /\ Accounted(e, i)
          BY <1>3, <2>6, <4>1 DEF AppliedOnce
        <4> QED  BY <1>0, <1>5, <3>1, <4>1, <4>2 DEF Accounted
      <3> QED  BY <3>2, <3>3
    <2> QED  BY <1>4, <2>6 DEF CalmInv, AppliedOnce
  <1> QED  BY <1>6, <1>7

\* A document that is done is done for good: its worker lets it go.
LEMMA CalmProcessed ==
  ASSUME InboxInv, InboxInv', [Next]_vars, Calm, CalmInv, NEW w \in Requests, NEW d \in Documents,
         MarkProcessed(w, d)
  PROVE  CalmInv'
  <1> USE DEF InboxInv
  <1>0. /\ WorkerInv(w) /\ TypeOK /\ ArrivalOrder /\ row \in [Documents -> Row]
        /\ work[w].phase = "working" /\ InHand(w, d)
        /\ row' = [row EXCEPT ![d].status = Outcome(d)] /\ Onward(w, d)
        /\ arrival' = arrival /\ applied' = applied /\ job' = job
    BY DEF MarkProcessed, Finished, TypeOK, stockVars
  <1>1. /\ work'[w].left \subseteq work[w].left \ {d}
        /\ \A v \in Requests : v # w => work'[v] = work[v]
    BY <1>0, OnwardShape
  <1>2. /\ row'[d].status = Outcome(d) /\ \A e \in Documents \ {d} : row'[e] = row[e]
    BY <1>0 DEF Row
  <1>3. HeldApart /\ AppliedOnce /\ Active(w) /\ d \in work[w].left
    BY <1>0 DEF CalmInv, Active, InHand
  <1>4. \A v \in Requests : v # w => Steady(v)  BY <1>0, <1>1 DEF Steady
  <1>5. HeldApart'
    <2>1. \A v \in Requests : Active(v)' => Active(v) /\ work'[v].left \subseteq work[v].left \ {d}
      BY <1>1, <1>3 DEF HeldApart, Active
    <2>2. \A v \in Requests : Active(v)' => work'[v].left \subseteq Pending'
      BY <1>2, <1>3, <2>1 DEF HeldApart, Pending
    <2>3. \A v, u \in Requests :
             v # u /\ Active(v)' /\ Active(u)' => work'[v].left \cap work'[u].left = {}
      BY <1>3, <2>1 DEF HeldApart
    <2> QED  BY <2>2, <2>3 DEF HeldApart
  <1>6. ASSUME NEW e \in Documents, NEW i \in 1..Len(Lines[e]), applied'[<<e, i>>] > 0
        PROVE  applied'[<<e, i>>] = 1 /\ e \in Handled /\ Accounted(e, i)'
    <2>1. applied[<<e, i>>] = 1 /\ e \in Handled /\ Accounted(e, i) /\ i \in Nat
      BY <1>0, <1>3, <1>6, LineFacts DEF AppliedOnce
    <2>2. CASE e = d
      <3>1. row'[e].status = "PROCESSED"  BY <1>2, <2>1, <2>2 DEF Outcome
      <3> QED  BY <1>0, <2>1, <3>1 DEF Accounted
    <2>3. CASE e # d /\ row[e].status = "PROCESSED"
      BY <1>0, <1>2, <2>1, <2>3 DEF Accounted
    <2>4. CASE e # d /\ \E v \in Requests : Past(v, e, i)
      <3>1. PICK v \in Requests : Past(v, e, i)  BY <2>4
      <3>2. v # w
        <4>1. SUFFICES ASSUME v = w  PROVE FALSE
          OBVIOUS
        <4> QED  BY <1>0, <1>3, <2>4, <3>1, <4>1, OneInHand DEF Past
      <3>3. Grows  BY EveryStepGrows
      <3>4. Past(v, e, i)'  BY <1>4, <2>1, <3>1, <3>2, <3>3, PastStays
      <3> QED  BY <1>0, <2>1, <3>4 DEF Accounted
    <2> QED  BY <2>1, <2>2, <2>3, <2>4 DEF Accounted
  <1> QED  BY <1>5, <1>6 DEF CalmInv, AppliedOnce

\* Calm or not, no step applies a line again while the calm lasts.
LEMMA CalmStep == InboxInv /\ InboxInv' /\ CalmInv /\ [Next]_vars => CalmInv'
  <1> SUFFICES ASSUME InboxInv, InboxInv', CalmInv, [Next]_vars, Calm'  PROVE CalmInv'
    BY DEF CalmInv
  <1>0. Calm /\ mishaps = 0 /\ mishaps' = 0 /\ deaths = 0 /\ deaths' = 0
    BY CalmBefore DEF Calm
  <1>1. ASSUME NEW w \in Requests, Stop(w)  PROVE FALSE
    BY <1>0, <1>1 DEF Stop
  <1>2. ASSUME NEW w \in Requests, LineDies(w)  PROVE FALSE
    BY <1>0, <1>2 DEF LineDies, Stock!Die
  <1>3. ASSUME NEW w \in Requests, NEW d \in Documents, MarkNotWritten(w, d)  PROVE FALSE
    BY <1>0, <1>3 DEF MarkNotWritten
  <1>4. ASSUME NEW w \in Requests, NEW d \in Documents, MarkFailed(w, d)  PROVE FALSE
    <2>1. failed[d] = 0 /\ failed'[d] = 0 /\ MaxAttempts > 0 /\ failed \in [Documents -> Nat]
      BY <1>0, InboxAssumption DEF Calm, InboxInv, TypeOK
    <2>2. failed' = [failed EXCEPT ![d] = IF @ < MaxAttempts THEN @ + 1 ELSE @]
      BY <1>4 DEF MarkFailed
    <2> QED  BY <2>1, <2>2
  <1>5. ASSUME NEW d \in Documents, Retry(d)  PROVE FALSE
    BY <1>0, <1>5 DEF Retry
  <1>6. ASSUME UNCHANGED <<row, arrival, work, job, applied>>  PROVE CalmInv'
    <2>1. HeldApart' /\ AppliedOnce'
      BY <1>0, <1>6 DEF CalmInv, HeldApart, AppliedOnce, Accounted, Past, Active, InHand, Busy,
         Pending
    <2> QED  BY <2>1 DEF CalmInv
  <1>7. ASSUME NEW l \in LineIds, AddMaterial(l)  PROVE CalmInv'
    BY <1>6, <1>7 DEF AddMaterial, stockVars
  <1>8. CASE UNCHANGED vars
    BY <1>6, <1>8 DEF vars, stockVars, inboxVars
  <1> QED
    BY <1>0, <1>1, <1>2, <1>3, <1>4, <1>5, <1>7, <1>8, CalmBegins, CalmInHand, CalmApplies,
       CalmProcessed DEF Next

\* RedeliveryIsHarmless: until something fails, stops, is retried or overlaps, no
\* line is applied twice, however often and from how many sides it is delivered.
THEOREM RedeliveryHarmless == Spec => []RedeliveryIsHarmless
  <1>1. Init => CalmInv
    <2> SUFFICES ASSUME Init  PROVE CalmInv
      OBVIOUS
    <2>1. \A w \in Requests : ~Active(w)  BY IdleWork DEF Init, Active
    <2>2. \A d \in Documents : \A i \in 1..Len(Lines[d]) : applied[<<d, i>>] = 0
      BY LineFacts DEF Init
    <2> QED  BY <2>1, <2>2 DEF CalmInv, HeldApart, AppliedOnce
  <1>2. InboxInv /\ CalmInv => RedeliveryIsHarmless
    <2> SUFFICES ASSUME InboxInv, CalmInv, Calm, NEW l \in LineIds  PROVE applied[l] <= 1
      BY DEF RedeliveryIsHarmless, Calm
    <2>1. PICK d \in Documents : l \in {<<d, i>> : i \in DOMAIN Lines[d]}
      BY DEF LineIds
    <2>2. PICK i \in 1..Len(Lines[d]) : l = <<d, i>>  BY <2>1, LineFacts
    <2>3. applied[l] \in Nat  BY DEF InboxInv, TypeOK
    <2> QED  BY <2>2, <2>3 DEF CalmInv, AppliedOnce
  <1> QED  BY <1>1, <1>2, InboxInvariant, CalmStep, PTL DEF Spec
============================================================================
