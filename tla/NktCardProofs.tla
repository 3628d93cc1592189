---------------------------- MODULE NktCardProofs ----------------------------
(* Proofs about NktCard and, after them, about CatalogImport. *)
EXTENDS NktCard, CatalogImport, FiniteSetTheorems, TLAPS

\* What the worker has in hand fits the card as it is now, although it was read
\* before the call: nobody else changes the number of the request.
InHandFits ==
    \/ /\ worker.step = "validate" /\ worker.stage = "answered" /\ worker.answer = "ok"
       /\ worker.seen.request = None
    \/ /\ worker.step = "create" /\ card.request = None
       /\ \/ worker.seen.request = None /\ (worker.stage = "calling" \/ worker.answer \in {"failed", "refused"})
          \/ /\ worker.stage = "answered" /\ worker.answer = "ok"
             /\ worker.seen.request \in Ids /\ nkt[worker.seen.request] # "absent"
    \/ /\ worker.step \in {"moderate", "poll", "publish"}
       /\ worker.seen.request = card.request /\ card.request \in Ids
       /\ worker.answer = "missing" => nkt[card.request] = "gone"
       /\ worker.answer \in States =>
             /\ worker.answer \notin {"absent", "gone"}
             /\ worker.answer = "completed" => nkt[card.request] = "completed"

WorkerFits ==
    /\ worker.stage \in {"idle", "claimed", "calling"} => worker.answer = "ok"
    /\ worker.stage \in {"calling", "answered"} => InHandFits
    /\ worker.stage = "settling" => worker.then \in {"none", "waiting"}

\* A form under way calls about a request it has read.
FormFits ==
    /\ manager.stage = "resubmit" => manager.step = "update"
    /\ manager.stage = "calling" =>
          manager.step \in {"update", "moderate", "decide", "cancel"} /\ manager.seen.request \in Ids
    /\ manager.stage = "answered" => manager.step \in {"moderate", "decide", "cancel"}

\* The number on the card was given by the catalogue.
NumberGiven == card.request # None => nkt[card.request] # "absent"

NktInv ==
    /\ TypeOK /\ WorkerFits /\ FormFits /\ NumberGiven
    /\ StraysAreExplained /\ NtinIsEarned

----------------------------------------------------------------------------
(* The catalogue                                                           *)

\* What a call about a request may leave behind and answer.
LEMMA OutcomeFacts ==
  ASSUME NEW step \in Steps, NEW s \in States, NEW o \in Outcomes(step, s)
  PROVE  /\ o[1] \in States
         /\ o[1] = "absent" <=> s = "absent"
         /\ s = "gone" <=> o[1] = "gone"
         /\ s = "completed" => o[1] = "completed"
         /\ o[2] \in {"ok", "failed", "refused", "missing"}
         /\ o[2] = "missing" => s = "gone"
         /\ o[3] \in {0, 1}
  <1>1. /\ Becomes(step, s) \subseteq {"onModeration", "new", "underRevision", "completed", "cancelled"}
        /\ s \in {"absent", "gone", "completed"} => Becomes(step, s) = {}
    BY DEF Becomes, Live
  <1>2. \E t \in Becomes(step, s) \cup {s}, a \in {"ok", "failed", "refused", "missing"}, n \in {0, 1} :
           o = <<t, a, n>> /\ (a = "missing" => s = "gone")
    BY DEF Outcomes
  <1> QED  BY <1>1, <1>2 DEF States

\* Requests never come back and are never forgotten by a step of kind E.
Evolves ==
    /\ nkt' \in [Ids -> States]
    /\ \A id \in Ids : /\ nkt[id] = "absent" <=> nkt'[id] = "absent"
                       /\ nkt[id] = "gone" => nkt'[id] = "gone"
                       /\ nkt[id] = "completed" => nkt'[id] = "completed"

LEMMA OutcomeEvolves ==
  ASSUME TypeOK, NEW step \in Steps, NEW id \in Ids, NEW o \in Outcomes(step, nkt[id]),
         nkt' = [nkt EXCEPT ![id] = o[1]]
  PROVE  Evolves
  <1>1. nkt \in [Ids -> States] /\ nkt[id] \in States  BY DEF TypeOK
  <1>2. /\ o[1] \in States /\ (o[1] = "absent" <=> nkt[id] = "absent")
        /\ nkt[id] = "gone" <=> o[1] = "gone"
        /\ nkt[id] = "completed" => o[1] = "completed"
    BY <1>1, OutcomeFacts
  <1> QED  BY <1>1, <1>2 DEF Evolves

----------------------------------------------------------------------------
(* Stray requests                                                          *)

LEMMA StraysFinite == IsFiniteSet(Strays) /\ Cardinality(Strays) \in Nat
  BY NktAssumption, FS_Subset, FS_CardinalityType DEF Strays

\* A step that adds no stray, or one at the price of a fault, keeps the count.
LEMMA NoMoreStrays ==
  ASSUME TypeOK, StraysAreExplained, Strays' \subseteq Strays, faults' \in Nat, faults' >= faults
  PROVE  StraysAreExplained'
  <1>1. Cardinality(Strays') <= Cardinality(Strays) /\ Cardinality(Strays') \in Nat
    BY StraysFinite, FS_Subset, FS_CardinalityType
  <1> QED  BY <1>1, StraysFinite DEF StraysAreExplained, TypeOK

LEMMA OneMoreStray ==
  ASSUME TypeOK, StraysAreExplained, NEW x, Strays' \subseteq Strays \cup {x}, faults' = faults + 1
  PROVE  StraysAreExplained'
  <1>1. IsFiniteSet(Strays \cup {x}) /\ Cardinality(Strays \cup {x}) <= Cardinality(Strays) + 1
    BY StraysFinite, FS_AddElement
  <1>2. /\ Cardinality(Strays \cup {x}) \in Nat
        /\ Cardinality(Strays') <= Cardinality(Strays \cup {x}) /\ Cardinality(Strays') \in Nat
    BY <1>1, FS_Subset, FS_CardinalityType
  <1> QED  BY <1>1, <1>2, StraysFinite DEF StraysAreExplained, TypeOK

----------------------------------------------------------------------------
(* Kinds of steps                                                          *)

\* People, and the queue: the number on the card stays, no NTIN appears.
LEMMA PeopleKeep ==
  ASSUME NktInv, card' \in Card, queue' \in Queues, manager' \in Process, FormFits',
         resubmits' \in Nat, card'.request = card.request,
         card'.status = "HAS_NTIN" => card.status = "HAS_NTIN",
         UNCHANGED <<nkt, worker, announced, faults>>
  PROVE  NktInv'
  <1>1. TypeOK'  BY DEF NktInv, TypeOK
  <1>2. WorkerFits'  BY DEF NktInv, WorkerFits, InHandFits
  <1>3. NumberGiven'  BY DEF NktInv, NumberGiven
  <1>4. StraysAreExplained'
    <2>1. Strays' = Strays  BY DEF Strays
    <2> QED  BY <2>1, NoMoreStrays DEF NktInv, TypeOK
  <1>5. NtinIsEarned'  BY DEF NktInv, NtinIsEarned, Completed
  <1> QED  BY <1>1, <1>2, <1>3, <1>4, <1>5 DEF NktInv

\* The catalogue moves, or carries out the call of a form.
LEMMA CatalogueKeeps ==
  ASSUME NktInv, Evolves, manager' \in Process, FormFits', faults' \in Nat, faults' >= faults,
         UNCHANGED <<card, queue, worker, announced, resubmits>>
  PROVE  NktInv'
  <1>1. TypeOK'  BY DEF NktInv, TypeOK, Evolves
  <1>2. WorkerFits'
    <2>1. card.request \in Ids \cup {None} /\ None \notin Ids
      BY NktAssumption DEF NktInv, TypeOK, Card
    <2> QED  BY <2>1 DEF NktInv, WorkerFits, InHandFits, Evolves
  <1>3. NumberGiven'  BY DEF NktInv, NumberGiven, Evolves, TypeOK, Card
  <1>4. StraysAreExplained'
    <2>1. Strays' \subseteq Strays  BY DEF Strays, Evolves
    <2> QED  BY <2>1, NoMoreStrays DEF NktInv
  <1>5. NtinIsEarned'  BY DEF NktInv, NtinIsEarned, Completed, Evolves, TypeOK, Card
  <1> QED  BY <1>1, <1>2, <1>3, <1>4, <1>5 DEF NktInv

\* The worker goes from one stage to another without a call or a write; what it
\* leaves behind is no request of its own.
LEMMA WorkerKeeps ==
  ASSUME NktInv, worker' \in Process, WorkerFits', queue' \in Queues,
         ~(worker.stage = "answered" /\ worker.seen.request \in Ids \ {card.request}),
         UNCHANGED <<card, nkt, manager, announced, resubmits, faults>>
  PROVE  NktInv'
  <1>1. TypeOK'  BY DEF NktInv, TypeOK
  <1>2. FormFits' /\ NumberGiven'  BY DEF NktInv, FormFits, NumberGiven
  <1>3. StraysAreExplained'
    <2>1. Strays' \subseteq Strays  BY DEF Strays
    <2> QED  BY <2>1, NoMoreStrays DEF NktInv, TypeOK
  <1>4. NtinIsEarned'  BY DEF NktInv, NtinIsEarned, Completed
  <1> QED  BY <1>1, <1>2, <1>3, <1>4 DEF NktInv

LEMMA IdleProcess ==
  /\ Idle \in Process /\ Idle.stage = "idle" /\ Idle.answer = "ok"
  /\ Idle.seen.request = None /\ Idle.then = "none"
  BY NktAssumption DEF Idle, NoneSeen, Process, Seen, Steps, Answers, States, Queues

LEMMA SettleShape ==
  ASSUME NEW then \in {"none", "waiting"}, Settle(then)
  PROVE  worker' \in Process /\ worker'.stage = "settling" /\ worker'.then = then
  <1>1. worker' = [Idle EXCEPT !.stage = "settling", !.then = then]  BY DEF Settle
  <1> QED  BY <1>1, IdleProcess DEF Process, Queues

\* The card is written with the number it has, then the queue is to follow.
LEMMA WriteKeeps ==
  ASSUME NktInv, NEW changed \in Card, NEW then \in {"none", "waiting"}, Write(changed, then),
         worker.stage = "answered", ~(worker.step = "create" /\ worker.answer = "ok"),
         changed.request = card.request,
         changed.status = "HAS_NTIN" => card.status = "HAS_NTIN"
  PROVE  NktInv'
  <1>1. card' = changed /\ UNCHANGED <<queue, nkt, manager, announced, resubmits, faults>>
    BY DEF Write
  <1>2. worker' \in Process /\ worker'.stage = "settling" /\ worker'.then = then
    BY SettleShape DEF Write
  <1>3. TypeOK'  BY <1>1, <1>2 DEF NktInv, TypeOK
  <1>4. WorkerFits' /\ FormFits' /\ NumberGiven'
    BY <1>1, <1>2 DEF NktInv, WorkerFits, FormFits, NumberGiven
  <1>5. worker.seen.request = card.request \/ worker.seen.request = None
    BY DEF NktInv, WorkerFits, InHandFits
  <1>6. StraysAreExplained'
    <2>1. Strays' \subseteq Strays  BY <1>1, <1>2, <1>5, NktAssumption DEF Strays
    <2> QED  BY <1>1, <2>1, NoMoreStrays DEF NktInv, TypeOK
  <1>7. NtinIsEarned'  BY <1>1 DEF NktInv, NtinIsEarned, Completed
  <1> QED  BY <1>3, <1>4, <1>6, <1>7 DEF NktInv

----------------------------------------------------------------------------
(* The worker                                                              *)

LEMMA InvTypes ==
  ASSUME NktInv
  PROVE  /\ card \in Card /\ card.request \in Ids \cup {None} /\ card.attempts \in Nat
         /\ card.passport \in Passports /\ card.status \in Statuses /\ card.hash \in Passports
         /\ worker \in Process /\ manager \in Process
         /\ worker.seen \in Seen /\ manager.seen \in Seen
         /\ worker.seen.request \in Ids \cup {None} /\ worker.seen.passport \in Passports
         /\ manager.seen.request \in Ids \cup {None} /\ manager.seen.passport \in Passports
         /\ nkt \in [Ids -> States] /\ queue \in Queues
         /\ faults \in Nat /\ resubmits \in Nat /\ None \notin Ids
  BY NktAssumption DEF NktInv, TypeOK, Card, Process, Seen

LEMMA StatusWritten ==
  ASSUME NktInv, NEW s \in Statuses
  PROVE  LET c == [card EXCEPT !.status = s]
         IN  c \in Card /\ c.request = card.request /\ c.status = s
  BY InvTypes DEF Card

LEMMA AttemptsWritten ==
  ASSUME NktInv, NEW s \in Statuses, NEW n \in Nat
  PROVE  LET c == [card EXCEPT !.attempts = n]
             d == [card EXCEPT !.status = s, !.attempts = n]
         IN  /\ c \in Card /\ c.request = card.request /\ c.status = card.status
             /\ d \in Card /\ d.request = card.request /\ d.status = s
  BY InvTypes DEF Card

LEMMA HashWritten ==
  ASSUME NktInv, NEW s \in Statuses, NEW h \in Passports, NEW n \in Nat,
         card' = [card EXCEPT !.status = s, !.hash = h, !.attempts = n]
  PROVE  card' \in Card /\ card'.request = card.request /\ card'.status = s
  BY InvTypes DEF Card

LEMMA CopyFacts ==
  ASSUME NktInv, NEW step \in Steps
  PROVE  Copy(card, step) \in Seen /\ Copy(card, step).request = card.request
  BY InvTypes, NktAssumption DEF Copy, Seen

LEMMA ClaimKeeps == ASSUME NktInv, Claim PROVE NktInv'
  <1>1. worker' \in Process /\ worker'.stage = "claimed" /\ worker'.answer = worker.answer
    BY InvTypes DEF Claim, Process
  <1>2. WorkerFits'  BY <1>1 DEF Claim, NktInv, WorkerFits
  <1> QED  BY <1>1, <1>2, WorkerKeeps DEF Claim, Queues

LEMMA ReadCardKeeps == ASSUME NktInv, ReadCard PROVE NktInv'
  <1>1. CASE \E then \in {"none", "waiting"} : Settle(then)
    <2>1. worker' \in Process /\ worker'.stage = "settling" /\ worker'.then \in {"none", "waiting"}
      BY <1>1, SettleShape
    <2>2. WorkerFits'  BY <2>1 DEF WorkerFits
    <2> QED  BY <2>1, <2>2, WorkerKeeps, InvTypes DEF ReadCard
  <1>2. CASE /\ card.status \notin ForPeople \cup {"HAS_NTIN"}
             /\ ~(card.request = None /\ card.status \notin ToWork)
             /\ worker' = [worker EXCEPT
                   !.stage = IF NextStep(card) = "validate" THEN "answered" ELSE "calling",
                   !.step = NextStep(card), !.seen = Copy(card, NextStep(card))]
    <2> DEFINE step == NextStep(card)
    <2>1. /\ step \in {"validate", "create", "moderate", "poll", "publish"}
          /\ step \in {"validate", "create"} => card.request = None
          /\ step \notin {"validate", "create"} => card.request \in Ids
      BY <1>2, InvTypes DEF NextStep, Statuses, ToWork, ForPeople
    <2> HIDE DEF step
    <2>2. Copy(card, step) \in Seen /\ Copy(card, step).request = card.request
      BY <2>1, CopyFacts DEF Steps
    <2>3. /\ worker' \in Process /\ worker'.step = step /\ worker'.answer = worker.answer
          /\ worker'.seen = Copy(card, step)
          /\ worker'.stage = IF step = "validate" THEN "answered" ELSE "calling"
      BY <1>2, <2>1, <2>2, InvTypes DEF Process, Steps, step
    <2>4. worker.answer = "ok"  BY DEF NktInv, WorkerFits, ReadCard
    <2>5. UNCHANGED <<card, nkt>>  BY DEF ReadCard
    <2>6. InHandFits'
      <3>1. CASE step = "validate"  BY <2>1, <2>2, <2>3, <2>4, <3>1, <2>5 DEF InHandFits
      <3>2. CASE step = "create"  BY <2>1, <2>2, <2>3, <2>4, <3>2, <2>5 DEF InHandFits
      <3>3. CASE step \in {"moderate", "poll", "publish"}
        BY <2>1, <2>2, <2>3, <2>4, <3>3, <2>5 DEF InHandFits, States
      <3> QED  BY <2>1, <3>1, <3>2, <3>3
    <2>7. WorkerFits'  BY <2>3, <2>4, <2>6 DEF WorkerFits
    <2> QED  BY <2>3, <2>7, WorkerKeeps, InvTypes DEF ReadCard
  <1> QED  BY <1>1, <1>2 DEF ReadCard

LEMMA AnsweredShape ==
  ASSUME NktInv, NEW answer \in Answers, NEW cost \in {0, 1}, NEW id \in Ids \cup {None},
         Answered(answer, cost, id)
  PROVE  /\ worker' \in Process /\ worker'.stage = "answered" /\ worker'.answer = answer
         /\ worker'.seen.request = id /\ worker'.step = worker.step
         /\ faults' = faults + cost /\ faults' \in Nat /\ faults' >= faults
         /\ UNCHANGED <<card, queue, manager, announced, resubmits>>
  <1>1. worker' = [worker EXCEPT !.stage = "answered", !.answer = answer, !.seen.request = id]
    BY DEF Answered
  <1>2. worker' \in Process /\ worker'.stage = "answered" /\ worker'.answer = answer
        /\ worker'.seen.request = id /\ worker'.step = worker.step
    BY <1>1, InvTypes DEF Process, Seen
  <1>3. faults' = faults + cost /\ faults' \in Nat /\ faults' >= faults
    BY InvTypes DEF Answered
  <1> QED  BY <1>2, <1>3 DEF Answered

\* A call about the request on the card.
LEMMA OwnCallKeeps ==
  ASSUME NktInv, worker.stage = "calling", Evolves,
         NEW answer \in Answers, NEW cost \in {0, 1}, Answered(answer, cost, card.request),
         InHandFits'
  PROVE  NktInv'
  <1>1. /\ worker' \in Process /\ worker'.stage = "answered" /\ worker'.seen.request = card.request
        /\ faults' \in Nat /\ faults' >= faults
        /\ UNCHANGED <<card, queue, manager, announced, resubmits>>
    BY InvTypes, AnsweredShape
  <1>2. TypeOK'  BY <1>1 DEF NktInv, TypeOK, Evolves
  <1>3. WorkerFits' /\ FormFits'  BY <1>1 DEF NktInv, WorkerFits, FormFits
  <1>4. NumberGiven'  BY <1>1, InvTypes DEF NktInv, NumberGiven, Evolves
  <1>5. StraysAreExplained'
    <2>1. Strays' \subseteq Strays  BY <1>1 DEF Strays, Evolves
    <2> QED  BY <1>1, <2>1, NoMoreStrays DEF NktInv
  <1>6. NtinIsEarned'  BY <1>1, InvTypes DEF NktInv, NtinIsEarned, Completed, Evolves
  <1> QED  BY <1>2, <1>3, <1>4, <1>5, <1>6 DEF NktInv

\* A new request: its number is in the worker's hand, or the request is a stray
\* at the price of a fault.
LEMMA FilingKeeps ==
  ASSUME NktInv, worker.stage = "calling", worker.step = "create",
         NEW n \in Ids, NextNumber(n), NEW o \in Filings(n),
         nkt' = o[1], Answered(o[2], o[3], o[4])
  PROVE  NktInv'
  <1> DEFINE filed == [nkt EXCEPT ![n] = "new"]
  <1>1. \/ o[1] = filed /\ o[2] = "ok" /\ o[3] = 0 /\ o[4] = n
        \/ o[1] \in {filed, nkt} /\ o[2] \in {"failed", "refused"} /\ o[3] = 1 /\ o[4] = None
    BY DEF Filings
  <1>2. card.request = None  BY DEF NktInv, WorkerFits, InHandFits
  <1>3. /\ worker' \in Process /\ worker'.stage = "answered" /\ worker'.answer = o[2]
        /\ worker'.seen.request = o[4] /\ worker'.step = "create"
        /\ faults' = faults + o[3] /\ faults' \in Nat /\ faults' >= faults
        /\ UNCHANGED <<card, queue, manager, announced, resubmits>>
    <2>1. o[2] \in Answers /\ o[3] \in {0, 1} /\ o[4] \in Ids \cup {None}
      BY <1>1 DEF Answers
    <2> QED  BY <2>1, AnsweredShape
  <1>4. /\ filed \in [Ids -> States] /\ filed[n] = "new"
        /\ \A id \in Ids \ {n} : filed[id] = nkt[id]
    BY InvTypes DEF States
  <1> HIDE DEF filed
  <1>5. nkt' \in [Ids -> States] /\ \A id \in Ids \ {n} : nkt'[id] = nkt[id]
    BY <1>1, <1>4, InvTypes
  <1>6. TypeOK'  BY <1>3, <1>5 DEF NktInv, TypeOK
  <1>7. WorkerFits' /\ FormFits' /\ NumberGiven'
    <2>1. InHandFits'  BY <1>1, <1>2, <1>3, <1>4 DEF InHandFits
    <2> QED  BY <2>1, <1>2, <1>3 DEF NktInv, WorkerFits, FormFits, NumberGiven
  <1>8. StraysAreExplained'
    <2>1. CASE o[2] = "ok"
      <3>1. Strays' \subseteq Strays  BY <1>1, <1>2, <1>3, <1>5, <2>1 DEF Strays
      <3> QED  BY <1>3, <3>1, NoMoreStrays DEF NktInv
    <2>2. CASE o[2] # "ok"
      <3>1. Strays' \subseteq Strays \cup {n}  BY <1>2, <1>3, <1>5 DEF Strays
      <3> QED  BY <1>1, <1>3, <2>2, <3>1, OneMoreStray DEF NktInv
    <2> QED  BY <2>1, <2>2
  <1>9. NtinIsEarned'  BY <1>2, <1>3 DEF NktInv, NtinIsEarned, Completed
  <1> QED  BY <1>6, <1>7, <1>8, <1>9 DEF NktInv

LEMMA CallKeeps == ASSUME NktInv, Call PROVE NktInv'
  <1> DEFINE id == worker.seen.request
  <1>1. worker.stage = "calling" /\ InHandFits /\ worker.answer = "ok"
    BY DEF Call, NktInv, WorkerFits
  <1>2. CASE worker.step = "create"
    <2>1. \E n \in Ids : NextNumber(n) /\ \E o \in Filings(n) :
             nkt' = o[1] /\ Answered(o[2], o[3], o[4])
      BY <1>2 DEF Call
    <2> QED  BY <1>1, <1>2, <2>1, FilingKeeps
  <1>3. worker.step # "create" => id = card.request /\ card.request \in Ids
    BY <1>1 DEF InHandFits
  <1>4. CASE worker.step \in {"moderate", "publish"}
    <2>1. PICK o \in Outcomes(worker.step, nkt[id]) :
             nkt' = [nkt EXCEPT ![id] = o[1]] /\ Answered(o[2], o[3], id)
      BY <1>4 DEF Call
    <2>2. nkt[id] \in States /\ worker.step \in Steps /\ id \in Ids
      BY <1>3, <1>4, InvTypes DEF Steps
    <2>3. Evolves  BY <2>1, <2>2, OutcomeEvolves DEF NktInv
    <2>4. /\ o[2] \in {"ok", "failed", "refused", "missing"} /\ o[3] \in {0, 1}
          /\ o[2] = "missing" => nkt[id] = "gone"
      BY <2>1, <2>2, OutcomeFacts
    <2>5. o[2] \in Answers /\ o[2] \notin States  BY <2>4 DEF Answers, States
    <2>6. /\ worker'.answer = o[2] /\ worker'.seen.request = card.request
          /\ worker'.step = worker.step /\ card' = card
      BY <1>3, <1>4, <2>1, <2>4, <2>5, AnsweredShape
    <2>7. InHandFits'  BY <1>3, <1>4, <2>2, <2>3, <2>4, <2>5, <2>6 DEF InHandFits, Evolves
    <2> QED  BY <1>1, <1>3, <1>4, <2>1, <2>3, <2>4, <2>5, <2>7, OwnCallKeeps
  <1>5. CASE worker.step = "poll"
    <2>1. PICK o \in Readings(nkt[id]) : nkt' = nkt /\ Answered(o[1], o[2], id)
      BY <1>5 DEF Call
    <2>2. nkt[id] \in States /\ nkt[id] # "absent" /\ id \in Ids
      BY <1>3, <1>5, InvTypes DEF NktInv, NumberGiven
    <2>3. /\ o[2] \in {0, 1}
          /\ o[1] \in {"failed", "refused", "unknown"} \/ (o[1] = "missing" /\ nkt[id] = "gone")
             \/ (o[1] = nkt[id] /\ nkt[id] # "gone")
      BY DEF Readings
    <2>4. o[1] \in Answers  BY <2>2, <2>3 DEF Answers
    <2>5. /\ worker'.answer = o[1] /\ worker'.seen.request = card.request
          /\ worker'.step = "poll" /\ card' = card
      BY <1>3, <1>5, <2>1, <2>3, <2>4, AnsweredShape
    <2>6. Evolves  BY <2>1, InvTypes DEF Evolves
    <2>7. InHandFits'  BY <1>3, <1>5, <2>1, <2>2, <2>3, <2>5 DEF InHandFits, States
    <2> QED  BY <1>1, <1>3, <1>5, <2>1, <2>3, <2>4, <2>6, <2>7, OwnCallKeeps
  <1> QED  BY <1>2, <1>4, <1>5 DEF Call

LEMMA RecordRequestKeeps == ASSUME NktInv, RecordRequest PROVE NktInv'
  <1>1. /\ worker.stage = "answered" /\ worker.answer = "ok" /\ card.request = None
        /\ worker.seen.request \in Ids /\ nkt[worker.seen.request] # "absent"
    BY InvTypes DEF RecordRequest, NktInv, WorkerFits, InHandFits
  <1>2. card' \in Card /\ card'.request = worker.seen.request /\ card'.status = "REQUEST_CREATED"
    BY InvTypes DEF RecordRequest, Card, Statuses, ToWork
  <1>3. /\ worker' \in Process /\ worker'.stage = "calling" /\ worker'.step = "moderate"
        /\ worker'.seen.request = worker.seen.request /\ worker'.answer = "ok"
    BY <1>1, InvTypes, NktAssumption DEF RecordRequest, Process, Steps, Seen
  <1>4. UNCHANGED <<queue, nkt, manager, announced, resubmits, faults>>  BY DEF RecordRequest
  <1>5. TypeOK' /\ FormFits' /\ NumberGiven'
    BY <1>1, <1>2, <1>3, <1>4 DEF NktInv, TypeOK, FormFits, NumberGiven
  <1>6. WorkerFits'  BY <1>1, <1>2, <1>3 DEF WorkerFits, InHandFits, States
  <1>7. StraysAreExplained'
    <2>1. Strays' \subseteq Strays  BY <1>1, <1>2, <1>3, <1>4, NktAssumption DEF Strays
    <2> QED  BY <1>4, <2>1, NoMoreStrays DEF NktInv, TypeOK
  <1>8. NtinIsEarned'  BY <1>1, <1>2, <1>4 DEF NktInv, NtinIsEarned, Completed
  <1> QED  BY <1>5, <1>6, <1>7, <1>8 DEF NktInv

LEMMA RecordMissingKeeps == ASSUME NktInv, RecordMissing PROVE NktInv'
  <1>1. /\ worker.seen.request = card.request /\ card.request \in Ids
        /\ nkt[card.request] = "gone"
    BY DEF RecordMissing, NktInv, WorkerFits, InHandFits
  <1>2. /\ card' = [card EXCEPT !.request = None, !.status = "NEED_REGISTRATION"]
        /\ Settle("waiting") /\ UNCHANGED <<queue, nkt, manager, announced, resubmits, faults>>
    BY DEF RecordMissing, Write
  <1>3. card' \in Card /\ card'.request = None /\ card'.status = "NEED_REGISTRATION"
    BY <1>2, InvTypes DEF Card, Statuses, ToWork
  <1>4. worker' \in Process /\ worker'.stage = "settling" /\ worker'.then = "waiting"
    BY <1>2, SettleShape
  <1>5. TypeOK' /\ WorkerFits' /\ FormFits' /\ NumberGiven'
    BY <1>2, <1>3, <1>4 DEF NktInv, TypeOK, WorkerFits, FormFits, NumberGiven
  <1>6. StraysAreExplained'
    <2>1. Strays' \subseteq Strays  BY <1>1, <1>2, <1>3 DEF Strays
    <2> QED  BY <1>2, <2>1, NoMoreStrays DEF NktInv, TypeOK
  <1>7. NtinIsEarned'  BY <1>1, <1>2, <1>3 DEF NktInv, NtinIsEarned, Completed
  <1> QED  BY <1>5, <1>6, <1>7 DEF NktInv

\* A code of the catalogue is HAS_NTIN for us only if it is completed.
LEMMA MeaningFacts ==
  ASSUME NEW code \in States \ {"absent", "gone"}
  PROVE  Meaning(code) \in Statuses /\ (Meaning(code) = "HAS_NTIN" => code = "completed")
  BY DEF Meaning, States, Statuses, ToWork, ForPeople

LEMMA RecordStatusKeeps == ASSUME NktInv, RecordStatus PROVE NktInv'
  <1> DEFINE Put(s) == [card EXCEPT !.status = s,
                                    !.attempts = IF s = "REJECTED" THEN card.attempts ELSE 0]
  <1>0. PICK s \in MayMean(worker.answer) :
          \/ /\ s = "HAS_NTIN"
             /\ card' = Put(s) /\ queue' = "none" /\ announced' = TRUE /\ worker' = Idle
             /\ UNCHANGED <<nkt, manager, resubmits, faults>>
          \/ s # "HAS_NTIN" /\ \E then \in {"none", "waiting"} : Write(Put(s), then)
    BY DEF RecordStatus
  <1> DEFINE read == Put(s)
  <1>1. /\ worker.stage = "answered" /\ worker.step = "poll" /\ worker.answer \in States
        /\ worker.seen.request = card.request /\ card.request \in Ids
        /\ worker.answer \notin {"absent", "gone"}
        /\ worker.answer = "completed" => nkt[card.request] = "completed"
    BY DEF RecordStatus, NktInv, WorkerFits, InHandFits
  <1>2. s \in Statuses /\ (s = "HAS_NTIN" => worker.answer = "completed")
    BY <1>1, MeaningFacts DEF MayMean, Statuses, ForPeople
  <1>3. read \in Card /\ read.request = card.request /\ read.status = s
    BY <1>2, InvTypes DEF Card
  <1>4. CASE s = "HAS_NTIN"
    <2>1. /\ card' = read /\ queue' = "none" /\ announced' = TRUE /\ worker' = Idle
          /\ UNCHANGED <<nkt, manager, resubmits, faults>>
      BY <1>0, <1>4
    <2>2. TypeOK' /\ WorkerFits' /\ FormFits' /\ NumberGiven'
      BY <1>3, <2>1, IdleProcess
      DEF NktInv, TypeOK, WorkerFits, FormFits, NumberGiven, Queues
    <2>3. StraysAreExplained'
      <3>1. Strays' \subseteq Strays  BY <1>1, <1>3, <2>1 DEF Strays
      <3> QED  BY <2>1, <3>1, NoMoreStrays DEF NktInv, TypeOK
    <2>4. NtinIsEarned'
      BY <1>1, <1>2, <1>3, <1>4, <2>1, NktAssumption DEF NtinIsEarned, Completed
    <2> QED  BY <2>2, <2>3, <2>4 DEF NktInv
  <1>5. CASE s # "HAS_NTIN"
    <2>1. \E then \in {"none", "waiting"} : Write(read, then)  BY <1>0, <1>5
    <2> HIDE DEF read
    <2> QED  BY <1>1, <1>3, <1>5, <2>1, WriteKeeps
  <1> QED  BY <1>4, <1>5

LEMMA OtherRecordsKeep ==
  ASSUME NktInv,
         \/ RecordIncomplete \/ RecordModeration \/ RecordPublication
         \/ RecordUnknown \/ RecordRefusal \/ RecordFailure
  PROVE  NktInv'
  <1> DEFINE Plain(c) == c \in Card /\ c.request = card.request
                          /\ (c.status = "HAS_NTIN" => card.status = "HAS_NTIN")
  <1>1. worker.stage = "answered" /\ (worker.answer = "ok" => worker.step # "create")
    BY DEF RecordIncomplete, RecordModeration, RecordPublication,
           RecordUnknown, RecordRefusal, RecordFailure
  <1>2. ASSUME NEW status \in {"DATA_INCOMPLETE", "ERROR"}
        PROVE  Plain([card EXCEPT !.status = status])
    <2>1. status \in Statuses /\ status # "HAS_NTIN"  BY DEF Statuses, ForPeople, ToWork
    <2> QED  BY <2>1, StatusWritten
  <1>3. /\ Plain([card EXCEPT !.status = "MODERATION", !.attempts = 0])
        /\ Plain([card EXCEPT !.attempts = card.attempts + 1]) /\ Plain(card)
    <2>1. card.attempts + 1 \in Nat /\ 0 \in Nat /\ "MODERATION" \in Statuses
      BY InvTypes DEF Statuses
    <2> QED  BY <2>1, AttemptsWritten, InvTypes
  <1>4. \E c \in Card, then \in {"none", "waiting"} : Plain(c) /\ Write(c, then)
    <2> HIDE DEF Plain
    <2>1. CASE RecordIncomplete  BY <1>2, <2>1 DEF RecordIncomplete, Plain
    <2>2. CASE RecordModeration  BY <1>3, <2>2 DEF RecordModeration, Plain
    <2>3. CASE RecordPublication  BY <1>3, <2>3 DEF RecordPublication, Plain
    <2>4. CASE RecordUnknown  BY <1>3, <2>4 DEF RecordUnknown, Plain
    <2>5. CASE RecordRefusal  BY <1>2, <2>5 DEF RecordRefusal, Plain
    <2>6. CASE RecordFailure  BY <1>2, <1>3, <2>6 DEF RecordFailure, Plain
    <2> QED  BY <2>1, <2>2, <2>3, <2>4, <2>5, <2>6
  <1> QED  BY <1>1, <1>4, WriteKeeps

LEMMA RequeueKeeps == ASSUME NktInv, Requeue PROVE NktInv'
  <1>1. queue' \in Queues  BY InvTypes DEF Requeue, Requeued, NktInv, WorkerFits, Queues
  <1>2. worker' \in Process /\ WorkerFits'  BY IdleProcess DEF Requeue, WorkerFits
  <1> QED  BY <1>1, <1>2, WorkerKeeps DEF Requeue

LEMMA WorkKeeps == ASSUME NktInv, Work PROVE NktInv'
  BY ReadCardKeeps, CallKeeps, RecordRequestKeeps, RecordMissingKeeps, RecordStatusKeeps,
     OtherRecordsKeep, RequeueKeeps
  DEF Work, Record

----------------------------------------------------------------------------
(* People                                                                  *)

LEMMA SavePassportKeeps ==
  ASSUME NktInv, NEW p \in Passports, SavePassport(p)
  PROVE  NktInv'
  <1>1. card' \in Card /\ card'.request = card.request
        /\ (card'.status = "HAS_NTIN" => card.status = "HAS_NTIN")
    BY InvTypes DEF SavePassport, Card, Statuses, ToWork
  <1>2. FormFits'  BY DEF SavePassport, NktInv, FormFits
  <1> QED  BY <1>1, <1>2, InvTypes, PeopleKeep DEF SavePassport

LEMMA OpenKeeps ==
  ASSUME NktInv, OpenResubmit \/ \E step \in {"decide", "cancel"} : OpenCall(step)
  PROVE  NktInv'
  <1>1. CASE OpenResubmit
    <2>1. /\ manager' \in Process /\ manager'.stage = "resubmit" /\ manager'.step = "update"
          /\ UNCHANGED <<card, queue, nkt, worker, announced, faults>>
      BY <1>1, CopyFacts, InvTypes DEF OpenResubmit, Open, Process, Steps
    <2>2. FormFits' /\ resubmits' \in Nat  BY <1>1, <2>1, InvTypes DEF OpenResubmit, FormFits
    <2> QED  BY <2>1, <2>2, InvTypes, PeopleKeep
  <1>2. ASSUME NEW step \in {"decide", "cancel"}, OpenCall(step)  PROVE NktInv'
    <2>1. Copy(card, step) \in Seen /\ Copy(card, step).request \in Ids
      BY <1>2, CopyFacts, InvTypes DEF OpenCall, Steps
    <2>2. /\ manager' \in Process /\ manager'.stage = "calling" /\ manager'.step = step
          /\ manager'.seen.request \in Ids
          /\ UNCHANGED <<card, queue, nkt, worker, announced, faults, resubmits>>
      BY <1>2, <2>1, InvTypes DEF OpenCall, Open, Process, Steps
    <2>3. FormFits'  BY <2>2 DEF FormFits
    <2> QED  BY <2>2, <2>3, InvTypes, PeopleKeep
  <1> QED  BY <1>1, <1>2

LEMMA QueueKeeps == ASSUME NktInv, FillQueue \/ Unlock \/ Submit PROVE NktInv'
  <1>1. queue' \in Queues /\ UNCHANGED <<card, nkt, worker, manager, announced, resubmits, faults>>
    BY DEF FillQueue, Unlock, Submit, Queues
  <1>2. FormFits'  BY <1>1 DEF NktInv, FormFits
  <1> QED  BY <1>1, <1>2, InvTypes, PeopleKeep

LEMMA ResubmitKeeps == ASSUME NktInv, Resubmit PROVE NktInv'
  <1>1. /\ queue' \in Queues /\ card' \in {card, [card EXCEPT !.status = "DATA_INCOMPLETE"]}
        /\ UNCHANGED <<nkt, worker, announced, resubmits, faults>>
    BY InvTypes DEF Resubmit, Queues
  <1>2. /\ card' \in Card /\ card'.request = card.request
        /\ card'.status = "HAS_NTIN" => card.status = "HAS_NTIN"
    BY <1>1, InvTypes DEF Card, Statuses, ForPeople
  <1>3. manager' = Idle \/ (manager' = [manager EXCEPT !.stage = "calling"]
                            /\ manager.seen.request # None)
    BY DEF Resubmit
  <1>4. manager' \in Process /\ FormFits'
    <2>1. CASE manager' = Idle  BY <2>1, IdleProcess DEF FormFits
    <2>2. CASE manager' # Idle
      <3>1. manager.step = "update"  BY DEF Resubmit, NktInv, FormFits
      <3>2. /\ manager' \in Process /\ manager'.stage = "calling" /\ manager'.step = "update"
            /\ manager'.seen.request \in Ids
        BY <1>3, <2>2, <3>1, InvTypes DEF Process
      <3> QED  BY <3>2 DEF FormFits
    <2> QED  BY <2>1, <2>2
  <1> QED  BY <1>1, <1>2, <1>4, InvTypes, PeopleKeep

LEMMA FormCallKeeps == ASSUME NktInv, FormCall PROVE NktInv'
  <1> DEFINE id == manager.seen.request
  <1>1. /\ manager.stage = "calling" /\ id \in Ids
        /\ manager.step \in {"update", "moderate", "decide", "cancel"}
    BY DEF FormCall, NktInv, FormFits
  <1>2. PICK o \in Outcomes(manager.step, nkt[id]) :
          /\ faults' = faults + o[3] /\ nkt' = [nkt EXCEPT ![id] = o[1]]
          /\ manager' = IF o[2] # "ok" THEN Idle
                        ELSE IF manager.step = "update" THEN [manager EXCEPT !.step = "moderate"]
                        ELSE [manager EXCEPT !.stage = "answered"]
    BY DEF FormCall
  <1>3. nkt[id] \in States /\ manager.step \in Steps  BY <1>1, InvTypes DEF Steps
  <1>4. Evolves  BY <1>1, <1>2, <1>3, OutcomeEvolves DEF NktInv
  <1>5. faults' \in Nat /\ faults' >= faults  BY <1>2, <1>3, OutcomeFacts, InvTypes
  <1>6. manager' \in Process /\ FormFits'
    <2>1. CASE manager' = Idle  BY <2>1, IdleProcess DEF FormFits
    <2>2. CASE manager.step = "update" /\ manager' = [manager EXCEPT !.step = "moderate"]
      <3>1. /\ manager' \in Process /\ manager'.stage = "calling" /\ manager'.step = "moderate"
            /\ manager'.seen.request = id
        BY <1>1, <2>2, InvTypes DEF Process, Steps
      <3> QED  BY <1>1, <3>1 DEF FormFits
    <2>3. CASE manager.step # "update" /\ manager' = [manager EXCEPT !.stage = "answered"]
      <3>1. manager' \in Process /\ manager'.stage = "answered" /\ manager'.step = manager.step
        BY <1>1, <2>3, InvTypes DEF Process
      <3> QED  BY <1>1, <2>3, <3>1 DEF FormFits
    <2> QED  BY <1>2, <2>1, <2>2, <2>3
  <1> QED  BY <1>4, <1>5, <1>6, CatalogueKeeps DEF FormCall

LEMMA FormWriteKeeps == ASSUME NktInv, FormWrite PROVE NktInv'
  <1>1. manager.stage = "answered" /\ manager.step \in {"moderate", "decide", "cancel"}
    BY DEF FormWrite, NktInv, FormFits
  <1>2. /\ card' \in Card /\ card'.request = card.request /\ card'.status # "HAS_NTIN"
    <2>1. CASE manager.step = "moderate"
      <3> DEFINE n == card.attempts + 1
      <3>1. n \in Nat /\ "MODERATION" \in Statuses /\ manager.seen.passport \in Passports
        BY InvTypes DEF Statuses
      <3>2. card' = [card EXCEPT !.status = "MODERATION", !.hash = manager.seen.passport,
                                 !.attempts = n]
        BY <2>1 DEF FormWrite
      <3> HIDE DEF n
      <3>3. card' \in Card /\ card'.request = card.request /\ card'.status = "MODERATION"
        BY <3>1, <3>2, HashWritten
      <3> QED  BY <3>3
    <2>2. CASE manager.step = "decide"
      BY <2>2, StatusWritten DEF FormWrite, Statuses
    <2>3. CASE manager.step = "cancel"
      BY <2>3, StatusWritten DEF FormWrite, Statuses, ForPeople
    <2> QED  BY <1>1, <2>1, <2>2, <2>3
  <1>3. manager' \in Process /\ FormFits'
    BY InvTypes DEF FormWrite, Process, FormFits
  <1> QED  BY <1>2, <1>3, InvTypes, PeopleKeep DEF FormWrite

LEMMA FormQueueKeeps == ASSUME NktInv, FormQueue PROVE NktInv'
  <1>1. queue' \in Queues  BY DEF FormQueue, Requeued, Queues
  <1>2. manager' \in Process /\ FormFits'
    <2>1. CASE manager' = Idle  BY <2>1, IdleProcess DEF FormFits
    <2>2. CASE manager' = [manager EXCEPT !.stage = "delaying"]
      BY <2>2, InvTypes DEF Process, FormFits
    <2> QED  BY <2>1, <2>2 DEF FormQueue
  <1> QED  BY <1>1, <1>2, InvTypes, PeopleKeep DEF FormQueue

\* What the worker had in hand when the server stopped may be a stray now.
LEMMA StopKeeps == ASSUME NktInv, Stop PROVE NktInv'
  <1>1. /\ worker' \in {worker, Idle} /\ manager' \in {manager, Idle} /\ faults' = faults + 1
        /\ UNCHANGED <<card, queue, nkt, announced, resubmits>>
    BY DEF Stop
  <1>2. TypeOK'  BY <1>1, IdleProcess DEF NktInv, TypeOK
  <1>3. WorkerFits'
    <2>1. CASE worker' = Idle  BY <2>1, IdleProcess DEF WorkerFits
    <2>2. CASE worker' = worker  BY <1>1, <2>2 DEF NktInv, WorkerFits, InHandFits
    <2> QED  BY <1>1, <2>1, <2>2
  <1>4. FormFits' /\ NumberGiven'
    BY <1>1, IdleProcess DEF NktInv, FormFits, NumberGiven
  <1>5. StraysAreExplained'
    <2>1. Strays' \subseteq Strays \cup {worker.seen.request}  BY <1>1 DEF Strays
    <2> QED  BY <1>1, <2>1, OneMoreStray DEF NktInv
  <1>6. NtinIsEarned'  BY <1>1 DEF NktInv, NtinIsEarned, Completed
  <1> QED  BY <1>2, <1>3, <1>4, <1>5, <1>6 DEF NktInv

LEMMA CatalogueStepKeeps ==
  ASSUME NktInv, NEW id \in Ids, Moderate(id) \/ Vanish(id)
  PROVE  NktInv'
  <1>1. /\ UNCHANGED <<card, queue, worker, manager, announced, resubmits>>
        /\ faults' \in Nat /\ faults' >= faults
    BY InvTypes DEF Moderate, Vanish
  <1>2. \E s \in States : /\ nkt' = [nkt EXCEPT ![id] = s] /\ s # "absent"
                          /\ nkt[id] \notin {"absent", "gone", "completed"}
    <2>1. CASE Vanish(id)  BY <2>1 DEF Vanish, Live, States
    <2>2. CASE Moderate(id)  BY <2>2 DEF Moderate, States
    <2> QED  BY <2>1, <2>2
  <1>3. Evolves  BY <1>2, InvTypes DEF Evolves
  <1>4. FormFits'  BY <1>1 DEF NktInv, FormFits
  <1> QED  BY <1>1, <1>3, <1>4, InvTypes, CatalogueKeeps

----------------------------------------------------------------------------
(* The theorems                                                            *)

LEMMA InitInv == Init => NktInv
  <1> SUFFICES ASSUME Init PROVE NktInv  OBVIOUS
  <1>1. /\ card \in Card /\ card.request = None /\ card.status = "NEW"
    BY NktAssumption DEF Init, Card, Statuses, ToWork
  <1>2. TypeOK  BY <1>1, IdleProcess DEF Init, TypeOK, Queues, States
  <1>3. WorkerFits /\ FormFits /\ NumberGiven
    BY <1>1, IdleProcess DEF Init, WorkerFits, FormFits, NumberGiven
  <1>4. StraysAreExplained
    <2>1. Strays = {}  BY DEF Init, Strays
    <2> QED  BY <2>1, FS_EmptySet DEF Init, StraysAreExplained
  <1>5. NtinIsEarned  BY <1>1 DEF Init, NtinIsEarned
  <1> QED  BY <1>2, <1>3, <1>4, <1>5 DEF NktInv

LEMMA StepInv == NktInv /\ [Next]_vars => NktInv'
  <1> SUFFICES ASSUME NktInv, [Next]_vars PROVE NktInv'  OBVIOUS
  <1>1. CASE UNCHANGED vars
    BY <1>1 DEF vars, NktInv, TypeOK, WorkerFits, InHandFits, FormFits, NumberGiven,
                StraysAreExplained, Strays, NtinIsEarned, Completed
  <1>2. ASSUME NEW id \in Ids, Moderate(id) \/ Vanish(id)  PROVE NktInv'
    BY <1>2, CatalogueStepKeeps
  <1>3. CASE FillQueue \/ Unlock \/ Submit  BY <1>3, QueueKeeps
  <1>4. CASE Claim  BY <1>4, ClaimKeeps
  <1>5. CASE Work  BY <1>5, WorkKeeps
  <1>6. ASSUME NEW p \in Passports, SavePassport(p)  PROVE NktInv'  BY <1>6, SavePassportKeeps
  <1>7. CASE OpenResubmit \/ OpenCall("decide") \/ OpenCall("cancel")  BY <1>7, OpenKeeps
  <1>8. CASE Resubmit  BY <1>8, ResubmitKeeps
  <1>9. CASE FormCall  BY <1>9, FormCallKeeps
  <1>10. CASE FormWrite \/ FormQueue  BY <1>10, FormWriteKeeps, FormQueueKeeps
  <1>11. CASE Stop  BY <1>11, StopKeeps
  <1> QED
    BY <1>1, <1>2, <1>3, <1>4, <1>5, <1>6, <1>7, <1>8, <1>9, <1>10, <1>11 DEF Next

LEMMA Invariance == Spec => []NktInv
  BY InitInv, StepInv, PTL DEF Spec

\* The card, its row in the queue, the catalogue and the two requests keep their
\* types under every interleaving.
THEOREM NktTypes == Spec => []TypeOK
  <1>1. NktInv => TypeOK  BY DEF NktInv
  <1> QED  BY <1>1, Invariance, PTL

\* However many numbers the catalogue gives and faults occur, requests unknown to
\* the card are no more than the faults (stepValidateAndSubmit, fail).
THEOREM StraysExplained == Spec => []StraysAreExplained
  <1>1. NktInv => StraysAreExplained  BY DEF NktInv
  <1> QED  BY <1>1, Invariance, PTL

\* An NTIN is shown and announced to 1C only for a completed request that is the
\* card's own (assignNtin).
THEOREM NtinsEarned == Spec => []NtinIsEarned
  <1>1. NktInv => NtinIsEarned  BY DEF NktInv
  <1> QED  BY <1>1, Invariance, PTL

\* A request is filed only for a card without a number at that moment, although
\* the decision was taken on a card read before (stepValidateAndSubmit).
THEOREM NoSecondRequest == Spec => OneRequest
  <1> DEFINE Filed(id) == nkt[id] = "absent" /\ nkt'[id] = "new"
  <1>1. ASSUME NktInv, Next, NEW id \in Ids, Filed(id)  PROVE card.request = None
    <2>1. ~Evolves  BY <1>1 DEF Evolves
    <2>2. Call
      <3>1. ASSUME UNCHANGED nkt  PROVE FALSE  BY <1>1, <3>1
      <3>2. ~FormCall
        <4> SUFFICES ASSUME FormCall PROVE Evolves  BY <2>1
        <4>1. /\ manager.seen.request \in Ids /\ manager.step \in Steps
              /\ \E o \in Outcomes(manager.step, nkt[manager.seen.request]) :
                    nkt' = [nkt EXCEPT ![manager.seen.request] = o[1]]
          BY <1>1 DEF FormCall, NktInv, FormFits, Steps
        <4> QED  BY <1>1, <4>1, OutcomeEvolves DEF NktInv
      <3>3. ASSUME NEW i \in Ids, Moderate(i) \/ Vanish(i)  PROVE FALSE
        <4>1. nkt[i] # "absent" /\ \E s \in States : nkt' = [nkt EXCEPT ![i] = s]
          BY <3>3 DEF Moderate, Vanish, Live, States
        <4> QED  BY <1>1, <4>1, InvTypes
      <3>4. Call \/ UNCHANGED nkt
        BY <1>1, <3>2, <3>3
        DEF Next, Work, Record, RecordRequest, RecordIncomplete, RecordModeration,
            RecordPublication, RecordStatus, RecordUnknown, RecordMissing, RecordRefusal,
            RecordFailure, Write, ReadCard, Requeue, FillQueue, Unlock, Claim, SavePassport,
            OpenResubmit, OpenCall, Open, Submit, Resubmit, FormWrite, FormQueue, Stop
      <3> QED  BY <3>1, <3>4
    <2>3. worker.step = "create"
      <3> SUFFICES ASSUME worker.step # "create" PROVE Evolves  BY <2>1
      <3>1. worker.seen.request \in Ids /\ worker.step \in Steps
        BY <1>1, <2>2, InvTypes DEF Call, NktInv, WorkerFits, InHandFits, Steps
      <3>2. \/ nkt' = nkt
            \/ \E o \in Outcomes(worker.step, nkt[worker.seen.request]) :
                  nkt' = [nkt EXCEPT ![worker.seen.request] = o[1]]
        BY <2>2 DEF Call
      <3>3. ASSUME nkt' = nkt PROVE Evolves  BY <1>1, <3>3, InvTypes DEF Evolves
      <3> QED  BY <1>1, <3>1, <3>2, <3>3, OutcomeEvolves DEF NktInv
    <2> QED  BY <1>1, <2>2, <2>3 DEF Call, NktInv, WorkerFits, InHandFits
  <1>2. NktInv /\ [Next]_vars => [\A id \in Ids : nkt[id] = "absent" /\ nkt'[id] = "new"
                                      => card.request = None]_vars
    BY <1>1
  <1> QED  BY <1>2, Invariance, PTL DEF Spec, OneRequest

(***************************************************************************)
(* CatalogImport.  A script reads the base, then writes row by row, and    *)
(* people edit in between: the invariant says, for each script, what of    *)
(* its work is already as in the file, as long as nobody has acted since   *)
(* it started (acts = script.from).                                        *)
(***************************************************************************)
Stages == {<<"none", "end">>, <<"bom", "extra">>, <<"bom", "items">>, <<"bom", "end">>,
           <<"norms", "norm">>, <<"norms", "end">>,
           <<"prices", "create">>, <<"prices", "price">>, <<"prices", "unlist">>, <<"prices", "end">>,
           <<"pricelist", "price">>, <<"pricelist", "end">>, <<"backfill", "fill">>, <<"backfill", "end">>,
           <<"classify", "show">>, <<"classify", "hide">>, <<"classify", "end">>,
           <<"mark", "hide">>, <<"mark", "end">>, <<"credit", "credit">>, <<"credit", "end">>}

\* A script is at a stage of its own and was started no later than now.
ScriptShape ==
    /\ script = [name |-> script.name, step |-> script.step, replace |-> script.replace, todo |-> script.todo,
                 rows |-> script.rows, seen |-> script.seen, from |-> script.from]
    /\ <<script.name, script.step>> \in Stages /\ script.replace \in BOOLEAN /\ script.from \in 0..acts

\* Of the rows of a that are not left to write, and of no others, the composition is made.
Replaced(a, left) ==
    /\ Composition(a) \subseteq {BomFile[i].place : i \in ByArticle(a)}
    /\ \A i \in ByArticle(a) \ left : bom[BomFile[i].place] = InFile(i, purchase)

\* While nobody acts, what the replacement has done with is as in the file.
BomRun ==
    script.name = "bom" =>
        /\ script.seen \in [Materials -> Nat] /\ script.todo \subseteq Planned /\ script.rows \subseteq Accepted(BomFile)
        /\ script.step # "items" => script.rows = {}
        /\ script.step = "end" => script.todo = {}
        /\ acts = script.from => script.seen = purchase
        /\ acts = script.from /\ script.replace => \A a \in Planned \ script.todo : Replaced(a, script.rows)

\* The prices read at the start are of the articles there are, and the marks go the way
\* of the list.
PricesRun ==
    script.name \in {"prices", "pricelist"} =>
        /\ script.seen \in [Present -> Nat]
        /\ script.step = "create" => script.todo \subseteq Articles
        /\ script.step = "price" => script.todo \subseteq Priced(script.seen)
        /\ script.step = "unlist" => \A a \in InList(script.seen) : articles[a].listed
        /\ script.name = "prices" /\ script.step = "end" /\ script.replace =>
               \A a \in Present : articles[a].listed <=> a \in InList(script.seen)

OtherRuns ==
    /\ script.name = "norms" => script.todo \subseteq NormRows
    /\ script.name = "backfill" => script.todo \subseteq Present
    /\ script.name = "credit" => script.seen \in CreditFiles /\ script.todo \subseteq LogRows(script.seen)

\* What mark and classify may hide.
MayHide(a) ==
    OnlyIs(a, "material") \/ IF script.name = "mark" THEN Composition(a) = {} ELSE ~Made(a)HideRun ==
    script.name \in {"classify", "mark"} /\ acts = script.from => \A a \in script.seen.hide : MayHide(a)

\* Once a script is done, nothing has moved since.
DoneFacts ==
    done # Nothing => script.name = "none" /\ CompositionAsInFile /\ ListIsFile

CatalogInv == CatalogTypeOK /\ ScriptShape /\ BomRun /\ PricesRun /\ OtherRuns /\ HideRun /\ DoneFacts

USE CatalogAssumption

\* A step that leaves which articles there are leaves what the files say of them.
LEMMA FilesSame ==
    ASSUME Present' = Present
    PROVE  /\ Accepted(BomFile)' = Accepted(BomFile) /\ Planned' = Planned /\ NormRows' = NormRows
           /\ \A a \in Articles : ByArticle(a)' = ByArticle(a)
<1>1. Accepted(BomFile)' = Accepted(BomFile) BY DEF Accepted
<1>2. \A a \in Articles : ByArticle(a)' = ByArticle(a) BY <1>1 DEF ByArticle
<1>3. Planned' = Planned BY <1>2 DEF Planned
<1>4. NormRows' = NormRows BY DEF NormRows
<1> QED BY <1>1, <1>2, <1>3, <1>4

LEMMA BaseSame ==
    ASSUME UNCHANGED base
    PROVE  /\ Present' = Present
           /\ \A a \in Articles : Composition(a)' = Composition(a) /\ Made(a)' = Made(a)
BY DEF base, Present, Composition, Made

\* Rows and lines are not Nothing; what is present is a row.
LEMMA PresentRows ==
    ASSUME CatalogTypeOK
    PROVE  /\ Present = {a \in Articles : articles[a] \in Rows} /\ Present \subseteq Articles
           /\ \A a \in Articles : Composition(a) = {p \in Places : p[1] = a /\ bom[p] \in Lines}
<1>1. \A a \in Articles : articles[a] \in Rows \/ articles[a] = Nothing BY DEF CatalogTypeOK
<1>2. \A p \in Places : bom[p] \in Lines \/ bom[p] = Nothing BY DEF CatalogTypeOK
<1>3. Present = {a \in Articles : articles[a] \in Rows} BY <1>1 DEF Present
<1>4. \A a \in Articles : Composition(a) = {p \in Places : p[1] = a /\ bom[p] \in Lines} BY <1>2 DEF Composition
<1> QED BY <1>3, <1>4 DEF Present

\* Two rows of the file that are accepted are of different places.
LEMMA AcceptedApart ==
    ASSUME NEW i \in Accepted(BomFile), NEW j \in Accepted(BomFile), i # j
    PROVE  BomFile[i].place # BomFile[j].place
<1>1. i \in Nat /\ j \in Nat /\ (i < j \/ j < i) BY DEF Accepted
<1> QED BY <1>1 DEF Accepted

LEMMA AcceptedFacts ==
    ASSUME NEW i \in Accepted(BomFile)
    PROVE  /\ i \in DOMAIN BomFile /\ BomFile[i].place \in Places /\ BomFile[i].qty \in Nat \ {0}
           /\ BomFile[i].article = BomFile[i].place[1] /\ BomFile[i].article \in Present
           /\ BomFile[i].place[1] \in Articles /\ BomFile[i].place[2] \in Materials
           /\ BomFile[i].article \in Planned
<1>1. i \in DOMAIN BomFile /\ BomFile[i].place \in Places /\ BomFile[i].qty \in Nat \ {0} BY DEF Accepted
<1>2. BomFile[i].place[1] \in Articles /\ BomFile[i].place[2] \in Materials BY <1>1 DEF Places
<1>3. BomFile[i].article = BomFile[i].place[1] /\ BomFile[i].article \in Present BY <1>1 DEF Accepted
<1>4. BomFile[i].article \in Planned BY <1>2, <1>3 DEF Planned, ByArticle
<1> QED BY <1>1, <1>2, <1>3, <1>4

LEMMA InFileLine ==
    ASSUME NEW i \in Accepted(BomFile), NEW prices \in [Materials -> Nat]
    PROVE  InFile(i, prices) \in Lines
<1>1. BomFile[i].qty \in Nat \ {0} /\ prices[BomFile[i].place[2]] \in Nat BY AcceptedFacts
<1>2. \A q \in Nat \ {0}, c \in Nat : q * c \in Nat OBVIOUS
<1>3. BomFile[i].qty * prices[BomFile[i].place[2]] \in Nat BY <1>1, <1>2
<1> QED BY <1>1, <1>3 DEF InFile, Lines

LEMMA NewArticleRow == NewArticle \in Rows
<1>1. <<>> \in Seq(Nat) OBVIOUS
<1> QED BY <1>1 DEF NewArticle, Rows

(***************************************************************************)
(* People.                                                                 *)
(***************************************************************************)
\* An act of a person during a script takes the promises of the script away and leaves
\* what the script needs to go on.
LEMMA ActKeeps ==
    ASSUME CatalogInv, CatalogTypeOK', Act, Present' = Present,
           \A a \in Present : articles'[a].listed = articles[a].listed
    PROVE  CatalogInv'
<1>1. script' = script /\ acts' = acts + 1 /\ done' = Nothing BY DEF Act
<1>2. acts \in Nat /\ script.from \in 0..acts BY DEF CatalogInv, ScriptShape, CatalogTypeOK
<1>3. acts' # script'.from BY <1>1, <1>2
<1>4. ScriptShape' BY <1>1, <1>2 DEF CatalogInv, ScriptShape
<1>5. BomRun' BY <1>1, <1>3, FilesSame DEF CatalogInv, BomRun
<1>6. Priced(script.seen)' = Priced(script.seen) /\ InList(script.seen)' = InList(script.seen)
    BY <1>1 DEF Priced, InList
<1>8. PricesRun'
    <2>1. CASE script.name \in {"prices", "pricelist"}
        <3>1. InList(script.seen) \subseteq Present BY <2>1 DEF CatalogInv, PricesRun, InList, Priced
        <3> QED BY <1>1, <1>6, <2>1, <3>1 DEF CatalogInv, PricesRun
    <2>2. CASE script.name \notin {"prices", "pricelist"} BY <1>1, <2>2 DEF PricesRun
    <2> QED BY <2>1, <2>2
<1>9. OtherRuns' BY <1>1, FilesSame DEF CatalogInv, OtherRuns, LogRows, PayTo
<1>10. HideRun' BY <1>1, <1>3 DEF HideRun
<1>11. DoneFacts' BY <1>1 DEF DoneFacts
<1> QED BY <1>4, <1>5, <1>8, <1>9, <1>10, <1>11 DEF CatalogInv

LEMMA EditCompositionKeeps ==
    ASSUME CatalogInv, NEW p \in Places, NEW n \in Entered, EditComposition(p, n)
    PROVE  CatalogInv'
<1>1. n \in Nat \ {0} /\ purchase[p[2]] \in Nat BY DEF CatalogInv, CatalogTypeOK, Places
<1>2. \A q \in Nat \ {0}, c \in Nat : q * c \in Nat OBVIOUS
<1>3. [qty |-> n, cost |-> n * purchase[p[2]]] \in Lines BY <1>1, <1>2 DEF Lines
<1>4. bom' \in [Places -> Lines \cup {Nothing}] BY <1>3 DEF EditComposition, CatalogInv, CatalogTypeOK
<1>5. acts' \in 0..MaxActs BY DEF EditComposition, Act, CatalogInv, CatalogTypeOK
<1>6. CatalogTypeOK' BY <1>4, <1>5 DEF EditComposition, Act, CatalogInv, CatalogTypeOK
<1>7. Present' = Present /\ Act BY DEF EditComposition, Present
<1>8. \A a \in Present : articles'[a].listed = articles[a].listed BY DEF EditComposition
<1> QED BY <1>6, <1>7, <1>8, ActKeeps

\* What a write of an approved price leaves.
LEMMA PriceWritten ==
    ASSUME CatalogTypeOK, NEW a \in Present, NEW n \in Nat,
           articles' = [articles EXCEPT ![a].price = n, ![a].history = Append(@, n)]
    PROVE  /\ articles' \in [Articles -> Rows \cup {Nothing}] /\ Present' = Present
           /\ \A x \in Present : articles'[x].listed = articles[x].listed /\ articles'[x].resale = articles[x].resale
<1> DEFINE row == articles[a]
           new == [price |-> n, history |-> Append(articles[a].history, n),
                   listed |-> articles[a].listed, resale |-> articles[a].resale]
<1>1. row \in Rows /\ a \in Articles BY PresentRows
<1>2. Append(articles[a].history, n) \in Seq(Nat) BY <1>1 DEF Rows
<1>3. new \in Rows BY <1>1, <1>2 DEF Rows
<1>4. articles \in [Articles -> Rows \cup {Nothing}] BY DEF CatalogTypeOK
<1>5. articles' = [articles EXCEPT ![a] = new] BY <1>1, <1>4 DEF Rows
<1>6. articles' \in [Articles -> Rows \cup {Nothing}] BY <1>1, <1>3, <1>4, <1>5
<1>7. Present' = Present BY <1>1, <1>3, <1>4, <1>5 DEF Present
<1>8. \A x \in Present : articles'[x].listed = articles[x].listed /\ articles'[x].resale = articles[x].resale
    BY <1>1, <1>4, <1>5 DEF Present
<1> QED BY <1>6, <1>7, <1>8

LEMMA ApprovePriceKeeps ==
    ASSUME CatalogInv, NEW a \in Articles, NEW n \in Entered, ApprovePrice(a, n)
    PROVE  CatalogInv'
<1>1. n \in Nat /\ a \in Present /\ CatalogTypeOK BY DEF ApprovePrice, CatalogInv
<1>2. articles' = [articles EXCEPT ![a].price = n, ![a].history = Append(@, n)] BY DEF ApprovePrice
<1>3. /\ articles' \in [Articles -> Rows \cup {Nothing}] /\ Present' = Present
      /\ \A x \in Present : articles'[x].listed = articles[x].listed
    BY <1>1, <1>2, PriceWritten
<1>4. acts' \in 0..MaxActs BY DEF ApprovePrice, Act, CatalogInv, CatalogTypeOK
<1>5. CatalogTypeOK' BY <1>3, <1>4 DEF ApprovePrice, Act, CatalogInv, CatalogTypeOK
<1>6. Act BY DEF ApprovePrice
<1> QED BY <1>3, <1>5, <1>6, ActKeeps

LEMMA ChangePurchaseKeeps ==
    ASSUME CatalogInv, NEW m \in Materials, NEW n \in Entered, ChangePurchase(m, n)
    PROVE  CatalogInv'
<1>1. purchase' \in [Materials -> Nat] BY DEF ChangePurchase, CatalogInv, CatalogTypeOK
<1>2. acts' \in 0..MaxActs BY DEF ChangePurchase, Act, CatalogInv, CatalogTypeOK
<1>3. CatalogTypeOK' BY <1>1, <1>2 DEF ChangePurchase, Act, CatalogInv, CatalogTypeOK
<1>4. Present' = Present /\ Act /\ articles' = articles BY DEF ChangePurchase, Present
<1> QED BY <1>3, <1>4, ActKeeps

(***************************************************************************)
(* Starting a script.                                                      *)
(***************************************************************************)
LEMMA StartFacts ==
    ASSUME CatalogInv, UNCHANGED <<base, acts>>, done' = Nothing, runs' = runs + 1, runs < MaxRuns
    PROVE  CatalogTypeOK' /\ DoneFacts' /\ acts' \in Nat /\ acts' = acts
<1>1. runs' \in 0..MaxRuns /\ acts \in 0..MaxActs BY DEF CatalogInv, CatalogTypeOK
<1>2. CatalogTypeOK' BY <1>1 DEF CatalogInv, CatalogTypeOK, base
<1>3. DoneFacts' BY DEF DoneFacts
<1> QED BY <1>1, <1>2, <1>3

LEMMA StartBomKeeps == ASSUME CatalogInv, StartBom PROVE CatalogInv'
<1>1. PICK replace \in BOOLEAN : Start("bom", "extra", replace, Planned, purchase) BY DEF StartBom
<1>2. /\ script' = [name |-> "bom", step |-> "extra", replace |-> replace, todo |-> Planned,
                    rows |-> {}, seen |-> purchase, from |-> acts]
      /\ UNCHANGED <<base, acts>> /\ done' = Nothing /\ runs' = runs + 1 /\ runs < MaxRuns
    BY <1>1 DEF Start
<1>3. CatalogTypeOK' /\ DoneFacts' /\ acts' \in Nat /\ acts' = acts BY <1>2, StartFacts
<1>4. ScriptShape' BY <1>2, <1>3 DEF ScriptShape, Stages
<1>5. Planned' = Planned /\ Accepted(BomFile)' = Accepted(BomFile) BY <1>2, BaseSame, FilesSame
<1>6. purchase \in [Materials -> Nat] /\ purchase' = purchase BY <1>2 DEF CatalogInv, CatalogTypeOK, base
<1>7. BomRun' BY <1>2, <1>5, <1>6 DEF BomRun
<1>8. PricesRun' /\ OtherRuns' /\ HideRun' BY <1>2 DEF PricesRun, OtherRuns, HideRun
<1> QED BY <1>3, <1>4, <1>7, <1>8 DEF CatalogInv

LEMMA KnownPrices == CatalogTypeOK => Known \in [Present -> Nat]
BY PresentRows DEF Known, Rows

LEMMA StartPricesKeeps == ASSUME CatalogInv, StartPrices PROVE CatalogInv'
<1>1. PICK replace \in BOOLEAN, create \in BOOLEAN :
          Start("prices", "create", replace,
                {PriceFile[i].article : i \in IF create THEN DOMAIN PriceFile ELSE {}} \ Present, Known)
    BY DEF StartPrices
<1> DEFINE missing == {PriceFile[i].article : i \in IF create THEN DOMAIN PriceFile ELSE {}} \ Present
<1>a. missing \subseteq Articles OBVIOUS
<1>b. Start("prices", "create", replace, missing, Known) BY <1>1
<1> HIDE DEF missing
<1>2. /\ script' = [name |-> "prices", step |-> "create", replace |-> replace, todo |-> missing,
                    rows |-> {}, seen |-> Known, from |-> acts]
      /\ UNCHANGED <<base, acts>> /\ done' = Nothing /\ runs' = runs + 1 /\ runs < MaxRuns
    BY <1>b DEF Start
<1>3. CatalogTypeOK' /\ DoneFacts' /\ acts' \in Nat /\ acts' = acts BY <1>2, StartFacts
<1>4. ScriptShape' BY <1>2, <1>3 DEF ScriptShape, Stages
<1>5. Known \in [Present -> Nat] /\ Present' = Present BY <1>2, KnownPrices, BaseSame DEF CatalogInv
<1>7. PricesRun' BY <1>a, <1>2, <1>5 DEF PricesRun
<1>8. BomRun' /\ OtherRuns' /\ HideRun' BY <1>2 DEF BomRun, OtherRuns, HideRun
<1> QED BY <1>3, <1>4, <1>7, <1>8 DEF CatalogInv

LEMMA StartPriceListKeeps == ASSUME CatalogInv, StartPriceList PROVE CatalogInv'
<1>2. /\ script' = [name |-> "pricelist", step |-> "price", replace |-> FALSE, todo |-> Changed(Known),
                    rows |-> {}, seen |-> Known, from |-> acts]
      /\ UNCHANGED <<base, acts>> /\ done' = Nothing /\ runs' = runs + 1 /\ runs < MaxRuns
    BY DEF StartPriceList, Start
<1>3. CatalogTypeOK' /\ DoneFacts' /\ acts' \in Nat /\ acts' = acts BY <1>2, StartFacts
<1>4. ScriptShape' BY <1>2, <1>3 DEF ScriptShape, Stages
<1>5. Known \in [Present -> Nat] /\ Present' = Present BY <1>2, KnownPrices, BaseSame DEF CatalogInv
<1>6. Changed(Known) \subseteq Priced(Known) BY DEF Changed
<1>7. Priced(script.seen)' = Priced(Known) BY <1>2 DEF Priced
<1>8. PricesRun' BY <1>2, <1>5, <1>6, <1>7 DEF PricesRun
<1>9. BomRun' /\ OtherRuns' /\ HideRun' BY <1>2 DEF BomRun, OtherRuns, HideRun
<1> QED BY <1>3, <1>4, <1>8, <1>9 DEF CatalogInv

LEMMA StartOthersKeep ==
    ASSUME CatalogInv, StartNorms \/ StartBackfill \/ StartCredit
    PROVE  CatalogInv'
<1>1. CASE StartNorms
    <2>1. NormPlan \subseteq NormRows BY DEF NormPlan
    <2>2. /\ script' = [name |-> "norms", step |-> "norm", replace |-> FALSE, todo |-> NormPlan,
                        rows |-> {}, seen |-> Nothing, from |-> acts]
          /\ UNCHANGED <<base, acts>> /\ done' = Nothing /\ runs' = runs + 1 /\ runs < MaxRuns
        BY <1>1 DEF StartNorms, Start
    <2>3. CatalogTypeOK' /\ DoneFacts' /\ acts' \in Nat /\ acts' = acts BY <2>2, StartFacts
    <2>4. ScriptShape' BY <2>2, <2>3 DEF ScriptShape, Stages
    <2>5. NormRows' = NormRows BY <2>2, BaseSame, FilesSame
    <2>6. BomRun' /\ PricesRun' /\ OtherRuns' /\ HideRun'
        BY <2>1, <2>2, <2>5 DEF BomRun, PricesRun, OtherRuns, HideRun
    <2> QED BY <2>3, <2>4, <2>6 DEF CatalogInv
<1>2. CASE StartBackfill
    <2> DEFINE bare == {a \in Present : articles[a].price = 0 /\ NameFile[a] > 0}
    <2>1. bare \subseteq Present OBVIOUS
    <2>2. /\ script' = [name |-> "backfill", step |-> "fill", replace |-> FALSE, todo |-> bare,
                        rows |-> {}, seen |-> Nothing, from |-> acts]
          /\ UNCHANGED <<base, acts>> /\ done' = Nothing /\ runs' = runs + 1 /\ runs < MaxRuns
        BY <1>2 DEF StartBackfill, Start
    <2> HIDE DEF bare
    <2>3. CatalogTypeOK' /\ DoneFacts' /\ acts' \in Nat /\ acts' = acts BY <2>2, StartFacts
    <2>4. ScriptShape' BY <2>2, <2>3 DEF ScriptShape, Stages
    <2>5. Present' = Present BY <2>2, BaseSame
    <2>6. BomRun' /\ PricesRun' /\ OtherRuns' /\ HideRun'
        BY <2>1, <2>2, <2>5 DEF BomRun, PricesRun, OtherRuns, HideRun
    <2> QED BY <2>3, <2>4, <2>6 DEF CatalogInv
<1>3. CASE StartCredit
    <2>1. PICK f \in CreditFiles : Start("credit", "credit", FALSE, LogRows(f), f) BY Zenon, <1>3 DEF StartCredit
    <2>2. /\ script' = [name |-> "credit", step |-> "credit", replace |-> FALSE, todo |-> LogRows(f),
                        rows |-> {}, seen |-> f, from |-> acts]
          /\ UNCHANGED <<base, acts>> /\ done' = Nothing /\ runs' = runs + 1 /\ runs < MaxRuns
        BY <2>1 DEF Start
    <2>3. CatalogTypeOK' /\ DoneFacts' /\ acts' \in Nat /\ acts' = acts BY <2>2, StartFacts
    <2>4. ScriptShape' BY <2>2, <2>3 DEF ScriptShape, Stages
    <2>5. LogRows(script.seen)' = LogRows(f) BY <2>2 DEF LogRows, PayTo
    <2>6. BomRun' /\ PricesRun' /\ OtherRuns' /\ HideRun'
        BY <2>2, <2>5 DEF BomRun, PricesRun, OtherRuns, HideRun
    <2> QED BY <2>3, <2>4, <2>6 DEF CatalogInv
<1> QED BY <1>1, <1>2, <1>3

\* What a script that hides has chosen it may hide as long as nobody acts.
LEMMA StartHidingKeeps ==
    ASSUME CatalogInv, StartClassify \/ StartMark
    PROVE  CatalogInv'
<1>1. ToHide \subseteq Articles /\ Resold \subseteq Articles BY DEF ToHide, Resold, Present
<1>2. CASE StartClassify
    <2>1. /\ script' = [name |-> "classify", step |-> "show", replace |-> FALSE, todo |-> {},
                        rows |-> {}, seen |-> [show |-> ToShow, hide |-> ToHide], from |-> acts]
          /\ UNCHANGED <<base, acts>> /\ done' = Nothing /\ runs' = runs + 1 /\ runs < MaxRuns
        BY <1>2 DEF StartClassify, Start
    <2>2. CatalogTypeOK' /\ DoneFacts' /\ acts' \in Nat /\ acts' = acts BY <2>1, StartFacts
    <2>3. ScriptShape' BY <2>1, <2>2 DEF ScriptShape, Stages
    <2>4. \A a \in ToHide : OnlyIs(a, "material") \/ ~Made(a) BY DEF ToHide, ByShape
    <2>5. \A a \in ToHide : Made(a)' = Made(a) BY <1>1, <2>1, BaseSame
    <2>6. \A a \in ToHide : MayHide(a)' BY <2>1, <2>4, <2>5 DEF MayHide, OnlyIs
    <2>7. HideRun' BY <2>1, <2>6 DEF HideRun
    <2>8. BomRun' /\ PricesRun' /\ OtherRuns' BY <2>1 DEF BomRun, PricesRun, OtherRuns
    <2> QED BY <2>2, <2>3, <2>7, <2>8 DEF CatalogInv
<1>3. CASE StartMark
    <2>1. /\ script' = [name |-> "mark", step |-> "hide", replace |-> FALSE, todo |-> {},
                        rows |-> {}, seen |-> [show |-> {}, hide |-> Resold], from |-> acts]
          /\ UNCHANGED <<base, acts>> /\ done' = Nothing /\ runs' = runs + 1 /\ runs < MaxRuns
        BY <1>3 DEF StartMark, Start
    <2>2. CatalogTypeOK' /\ DoneFacts' /\ acts' \in Nat /\ acts' = acts BY <2>1, StartFacts
    <2>3. ScriptShape' BY <2>1, <2>2 DEF ScriptShape, Stages
    <2>4. \A a \in Resold : Composition(a) = {} BY DEF Resold
    <2>5. \A a \in Resold : Composition(a)' = Composition(a) BY <1>1, <2>1, BaseSame
    <2>6. \A a \in Resold : MayHide(a)' BY <2>1, <2>4, <2>5 DEF MayHide
    <2>7. HideRun' BY <2>1, <2>6 DEF HideRun
    <2>8. BomRun' /\ PricesRun' /\ OtherRuns' BY <2>1 DEF BomRun, PricesRun, OtherRuns
    <2> QED BY <2>2, <2>3, <2>7, <2>8 DEF CatalogInv
<1> QED BY <1>2, <1>3

(***************************************************************************)
(* The steps of a script.                                                  *)
(***************************************************************************)
\* Which script a step is of.
LEMMA StageNames ==
    ASSUME CatalogInv
    PROVE  /\ script.step \in {"extra", "items"} => script.name = "bom"
           /\ script.step = "norm" => script.name = "norms"
           /\ script.step \in {"create", "unlist"} => script.name = "prices"
           /\ script.step = "price" => script.name \in {"prices", "pricelist"}
           /\ script.step = "fill" => script.name = "backfill"
           /\ script.step = "show" => script.name = "classify"
           /\ script.step = "hide" => script.name \in {"classify", "mark"}
           /\ script.step = "credit" => script.name = "credit"
BY DEF CatalogInv, ScriptShape, Stages

LEMMA RunningFacts ==
    ASSUME CatalogInv, script.name # "none", UNCHANGED <<runs, acts, done>>
    PROVE  DoneFacts' /\ runs' \in 0..MaxRuns /\ acts' \in 0..MaxActs
<1>1. done = Nothing BY DEF CatalogInv, DoneFacts
<1> QED BY <1>1 DEF DoneFacts, CatalogInv, CatalogTypeOK

LEMMA RemoveExtraKeeps == ASSUME CatalogInv, RemoveExtra PROVE CatalogInv'
<1>1. script.step = "extra" /\ script.name = "bom" BY StageNames DEF RemoveExtra
<1>2. PICK a \in script.todo :
        /\ bom' = IF script.replace THEN [p \in Places |-> IF p \in Extra(a) THEN Nothing ELSE bom[p]] ELSE bom
        /\ script' = [script EXCEPT !.step = "items", !.todo = @ \ {a}, !.rows = ByArticle(a)]
    BY DEF RemoveExtra
<1>3. UNCHANGED <<articles, norms, purchase, credit, runs, acts, done>> BY DEF RemoveExtra
<1>4. Present' = Present BY <1>3 DEF Present
<1>5. a \in Planned /\ a \in Articles BY <1>1 DEF CatalogInv, BomRun, Planned
<1>6. DoneFacts' /\ runs' \in 0..MaxRuns /\ acts' \in 0..MaxActs BY <1>1, <1>3, RunningFacts
<1>7. bom \in [Places -> Lines \cup {Nothing}] BY DEF CatalogInv, CatalogTypeOK
<1>8. bom' \in [Places -> Lines \cup {Nothing}] BY <1>2, <1>7
<1>9. CatalogTypeOK' BY <1>3, <1>6, <1>8 DEF CatalogInv, CatalogTypeOK
<1>10. /\ script'.name = "bom" /\ script'.step = "items" /\ script'.todo = script.todo \ {a}
       /\ script'.rows = ByArticle(a) /\ script'.seen = script.seen /\ script'.from = script.from
       /\ script'.replace = script.replace
       /\ script' = [name |-> script'.name, step |-> script'.step, replace |-> script'.replace,
                     todo |-> script'.todo, rows |-> script'.rows, seen |-> script'.seen, from |-> script'.from]
    BY <1>1, <1>2 DEF CatalogInv, ScriptShape
<1>11. ScriptShape' BY <1>3, <1>10 DEF CatalogInv, ScriptShape, Stages
<1>a. PICK left : left = script'.rows OBVIOUS
<1>12. ASSUME acts' = script'.from, script'.replace, NEW b \in Planned \ script'.todo
       PROVE  Replaced(b, left)'
    <2>1. b \in Articles BY DEF Planned
    <2>2. \A p \in Places : bom'[p] = IF p \in Extra(a) THEN Nothing ELSE bom[p] BY <1>2, <1>10, <1>12
    <2>3. ByArticle(b)' = ByArticle(b) /\ purchase' = purchase BY <1>3, <1>4, <2>1, FilesSame
    <2>4. CASE b = a
        <3>1. Composition(a)' \subseteq {BomFile[i].place : i \in ByArticle(a)}
            BY <2>2 DEF Composition, Extra
        <3>2. ByArticle(a) \ left = {} BY <1>10, <1>a
        <3> QED BY <2>3, <2>4, <3>1, <3>2 DEF Replaced
    <2>5. CASE b # a
        <3>1. Replaced(b, {}) BY <1>1, <1>3, <1>10, <1>12, <2>5 DEF CatalogInv, BomRun
        <3>2. \A p \in Places : p[1] = b => bom'[p] = bom[p] BY <2>2, <2>5 DEF Extra, Composition
        <3>3. Composition(b)' = Composition(b) BY <3>2 DEF Composition
        <3>4. \A i \in ByArticle(b) : BomFile[i].place \in Places /\ BomFile[i].place[1] = b
            BY AcceptedFacts DEF ByArticle
        <3>5. \A i \in ByArticle(b) : bom'[BomFile[i].place] = InFile(i, purchase)
            BY <3>1, <3>2, <3>4 DEF Replaced
        <3> QED BY <2>3, <3>1, <3>3, <3>5 DEF Replaced, InFile
    <2> QED BY <2>4, <2>5
<1>13. Planned' = Planned /\ Accepted(BomFile)' = Accepted(BomFile) BY <1>4, FilesSame
<1>14. ByArticle(a) \subseteq Accepted(BomFile) BY DEF ByArticle
<1>15. BomRun' BY <1>1, <1>3, <1>10, <1>a, <1>12, <1>13, <1>14 DEF CatalogInv, BomRun
<1>16. PricesRun' /\ OtherRuns' /\ HideRun' BY <1>10 DEF PricesRun, OtherRuns, HideRun
<1> QED BY <1>6, <1>9, <1>11, <1>15, <1>16 DEF CatalogInv

LEMMA UpsertItemKeeps == ASSUME CatalogInv, UpsertItem PROVE CatalogInv'
<1>1. script.step = "items" /\ script.name = "bom" BY StageNames DEF UpsertItem
<1>2. PICK i \in script.rows :
        /\ bom' = [bom EXCEPT ![BomFile[i].place] = InFile(i, script.seen)]
        /\ script' = [script EXCEPT !.rows = @ \ {i}, !.step = IF script.rows = {i} THEN "extra" ELSE "items"]
    BY DEF UpsertItem
<1>3. UNCHANGED <<articles, norms, purchase, credit, runs, acts, done>> BY DEF UpsertItem
<1>4. Present' = Present BY <1>3 DEF Present
<1>5. i \in Accepted(BomFile) /\ script.seen \in [Materials -> Nat] BY <1>1 DEF CatalogInv, BomRun
<1>6. DoneFacts' /\ runs' \in 0..MaxRuns /\ acts' \in 0..MaxActs BY <1>1, <1>3, RunningFacts
<1>7. bom \in [Places -> Lines \cup {Nothing}] BY DEF CatalogInv, CatalogTypeOK
<1>8. InFile(i, script.seen) \in Lines /\ BomFile[i].place \in Places BY <1>5, InFileLine, AcceptedFacts
<1>9. bom' \in [Places -> Lines \cup {Nothing}] BY <1>2, <1>7, <1>8
<1>10. CatalogTypeOK' BY <1>3, <1>6, <1>9 DEF CatalogInv, CatalogTypeOK
<1>11. /\ script'.name = "bom" /\ script'.step = IF script.rows = {i} THEN "extra" ELSE "items"
       /\ script'.todo = script.todo /\ script'.rows = script.rows \ {i} /\ script'.seen = script.seen
       /\ script'.from = script.from /\ script'.replace = script.replace
       /\ script' = [name |-> script'.name, step |-> script'.step, replace |-> script'.replace,
                     todo |-> script'.todo, rows |-> script'.rows, seen |-> script'.seen, from |-> script'.from]
    BY <1>1, <1>2 DEF CatalogInv, ScriptShape
<1>12. <<script'.name, script'.step>> \in Stages BY <1>11 DEF Stages
<1>13. ScriptShape' BY <1>3, <1>11, <1>12 DEF CatalogInv, ScriptShape
<1>a. PICK left : left = script'.rows OBVIOUS
<1>14. ASSUME acts' = script'.from, script'.replace, NEW b \in Planned \ script'.todo
       PROVE  Replaced(b, left)'
    <2>1. Replaced(b, script.rows) /\ script.seen = purchase
        BY <1>1, <1>3, <1>11, <1>14 DEF CatalogInv, BomRun
    <2>2. b \in Articles /\ ByArticle(b)' = ByArticle(b) BY <1>4, FilesSame DEF Planned
    <2>3. \A p \in Places : bom'[p] = IF p = BomFile[i].place THEN InFile(i, purchase) ELSE bom[p]
        BY <1>2, <1>7, <2>1
    <2>4. BomFile[i].place[1] = b => i \in ByArticle(b) BY <1>5, AcceptedFacts DEF ByArticle
    <2>5. Composition(b)' \subseteq {BomFile[j].place : j \in ByArticle(b)}
        BY <2>1, <2>3, <2>4 DEF Replaced, Composition
    <2>6. ASSUME NEW j \in ByArticle(b) \ left PROVE bom'[BomFile[j].place] = InFile(j, purchase)
        <3>1. j \in Accepted(BomFile) /\ BomFile[j].place \in Places BY AcceptedFacts DEF ByArticle
        <3>2. CASE j = i BY <2>3, <3>1, <3>2
        <3>3. CASE j # i
            <4>1. BomFile[j].place # BomFile[i].place BY <1>5, <3>1, <3>3, AcceptedApart
            <4>2. j \in ByArticle(b) \ script.rows BY <1>11, <1>a, <3>3
            <4> QED BY <2>1, <2>3, <3>1, <4>1, <4>2 DEF Replaced
        <3> QED BY <3>2, <3>3
    <2> QED BY <1>3, <2>2, <2>5, <2>6 DEF Replaced, InFile
<1>15. Planned' = Planned /\ Accepted(BomFile)' = Accepted(BomFile) BY <1>4, FilesSame
<1>16. script'.step # "items" => script'.rows = {} BY <1>11
<1>17. BomRun' BY <1>1, <1>3, <1>11, <1>a, <1>14, <1>15, <1>16 DEF CatalogInv, BomRun
<1>18. PricesRun' /\ OtherRuns' /\ HideRun' BY <1>11 DEF PricesRun, OtherRuns, HideRun
<1> QED BY <1>6, <1>10, <1>13, <1>17, <1>18 DEF CatalogInv

LEMMA UpsertNormKeeps == ASSUME CatalogInv, UpsertNorm PROVE CatalogInv'
<1>1. script.step = "norm" /\ script.name = "norms" BY StageNames DEF UpsertNorm
<1>2. PICK i \in script.todo :
        norms' = [norms EXCEPT ![NormFile[i].article] = NormFile[i].hours] /\ script' = Without(i)
    BY DEF UpsertNorm
<1>3. UNCHANGED <<articles, bom, purchase, credit, runs, acts, done>> BY DEF UpsertNorm
<1>4. i \in NormRows BY <1>1 DEF CatalogInv, OtherRuns
<1>5. NormFile[i].hours \in Nat BY <1>4 DEF NormRows
<1>6. norms' \in [Articles -> Nat \cup {NoNorm}] BY <1>2, <1>5 DEF CatalogInv, CatalogTypeOK
<1>7. DoneFacts' /\ runs' \in 0..MaxRuns /\ acts' \in 0..MaxActs BY <1>1, <1>3, RunningFacts
<1>8. CatalogTypeOK' BY <1>3, <1>6, <1>7 DEF CatalogInv, CatalogTypeOK
<1>9. script'.name = "norms" /\ script'.todo \subseteq script.todo /\ ScriptShape'
    BY <1>1, <1>2, <1>3 DEF CatalogInv, ScriptShape, Without
<1>10. NormRows' = NormRows BY <1>3, FilesSame DEF Present
<1>11. BomRun' /\ PricesRun' /\ OtherRuns' /\ HideRun'
    BY <1>1, <1>9, <1>10 DEF CatalogInv, BomRun, PricesRun, OtherRuns, HideRun
<1> QED BY <1>7, <1>8, <1>9, <1>11 DEF CatalogInv

LEMMA CreateArticleKeeps == ASSUME CatalogInv, CreateArticle PROVE CatalogInv'
<1>1. script.step = "create" /\ script.name = "prices" BY StageNames DEF CreateArticle
<1>2. PICK a \in script.todo :
        /\ articles' = [articles EXCEPT ![a] = NewArticle]
        /\ script' = [Without(a) EXCEPT
                !.seen = [x \in DOMAIN script.seen \cup {a} |-> IF x = a THEN 0 ELSE script.seen[x]]]
    BY DEF CreateArticle
<1>3. UNCHANGED <<bom, norms, purchase, credit, runs, acts, done>> BY DEF CreateArticle
<1>4. a \in Articles /\ script.todo \subseteq Articles /\ script.seen \in [Present -> Nat]
    BY <1>1 DEF CatalogInv, PricesRun
<1>5. articles' \in [Articles -> Rows \cup {Nothing}] BY <1>2, NewArticleRow DEF CatalogInv, CatalogTypeOK
<1>6. Present' = Present \cup {a} BY <1>2, <1>4, NewArticleRow DEF Present, CatalogInv, CatalogTypeOK
<1>7. DoneFacts' /\ runs' \in 0..MaxRuns /\ acts' \in 0..MaxActs BY <1>1, <1>3, RunningFacts
<1>8. CatalogTypeOK' BY <1>3, <1>5, <1>7 DEF CatalogInv, CatalogTypeOK
<1>9. /\ script'.name = "prices" /\ script'.step = "create" /\ script'.todo = script.todo \ {a}
      /\ script'.seen = [x \in Present \cup {a} |-> IF x = a THEN 0 ELSE script.seen[x]]
      /\ script'.from = script.from /\ script'.replace = script.replace
      /\ script' = [name |-> script'.name, step |-> script'.step, replace |-> script'.replace,
                    todo |-> script'.todo, rows |-> script'.rows, seen |-> script'.seen, from |-> script'.from]
    BY <1>1, <1>2, <1>4 DEF CatalogInv, ScriptShape, Without
<1>10. ScriptShape' BY <1>3, <1>9 DEF CatalogInv, ScriptShape, Stages
<1>11. script'.seen \in [Present \cup {a} -> Nat] BY <1>4, <1>9
<1>12. PricesRun' BY <1>4, <1>6, <1>9, <1>11 DEF PricesRun
<1>13. BomRun' /\ OtherRuns' /\ HideRun' BY <1>9 DEF BomRun, OtherRuns, HideRun
<1> QED BY <1>7, <1>8, <1>10, <1>12, <1>13 DEF CatalogInv

LEMMA PlanPricesKeeps == ASSUME CatalogInv, PlanPrices PROVE CatalogInv'
<1>1. script.step = "create" /\ script.name = "prices" BY StageNames DEF PlanPrices
<1>2. UNCHANGED <<base, runs, acts, done>> BY DEF PlanPrices
<1>3. /\ script'.name = "prices" /\ script'.step = "price" /\ script'.todo = Changed(script.seen)
      /\ script'.seen = script.seen /\ script'.from = script.from /\ script'.replace = script.replace
      /\ script' = [name |-> script'.name, step |-> script'.step, replace |-> script'.replace,
                    todo |-> script'.todo, rows |-> script'.rows, seen |-> script'.seen, from |-> script'.from]
    BY <1>1 DEF PlanPrices, CatalogInv, ScriptShape, Then
<1>4. DoneFacts' BY <1>1, <1>2, RunningFacts
<1>5. CatalogTypeOK' BY <1>2 DEF CatalogInv, CatalogTypeOK, base
<1>6. ScriptShape' BY <1>2, <1>3 DEF CatalogInv, ScriptShape, Stages
<1>7. Present' = Present BY <1>2, BaseSame
<1>8. Changed(script.seen) \subseteq Priced(script.seen) /\ Priced(script.seen)' = Priced(script.seen)
    BY <1>3 DEF Changed, Priced
<1>9. PricesRun' BY <1>1, <1>3, <1>7, <1>8 DEF CatalogInv, PricesRun
<1>10. BomRun' /\ OtherRuns' /\ HideRun' BY <1>3 DEF BomRun, OtherRuns, HideRun
<1> QED BY <1>4, <1>5, <1>6, <1>9, <1>10 DEF CatalogInv

LEMMA SetPriceKeeps == ASSUME CatalogInv, SetPrice PROVE CatalogInv'
<1>1. script.step = "price" /\ script.name \in {"prices", "pricelist"} BY StageNames DEF SetPrice
<1>2. PICK i \in script.todo :
        /\ articles' = [articles EXCEPT ![PriceFile[i].article].price = PriceFile[i].price,
                                       ![PriceFile[i].article].history = Append(@, PriceFile[i].price)]
        /\ script' = Without(i)
    BY DEF SetPrice
<1>3. UNCHANGED <<bom, norms, purchase, credit, runs, acts, done>> BY DEF SetPrice
<1>4. i \in Priced(script.seen) /\ script.seen \in [Present -> Nat] BY <1>1 DEF CatalogInv, PricesRun
<1>5. PriceFile[i].article \in Present /\ PriceFile[i].price \in Nat BY <1>4 DEF Priced
<1>6. articles' \in [Articles -> Rows \cup {Nothing}] /\ Present' = Present
    BY <1>2, <1>5, PriceWritten DEF CatalogInv
<1>7. DoneFacts' /\ runs' \in 0..MaxRuns /\ acts' \in 0..MaxActs BY <1>1, <1>3, RunningFacts
<1>8. CatalogTypeOK' BY <1>3, <1>6, <1>7 DEF CatalogInv, CatalogTypeOK
<1>9. /\ script'.name = script.name /\ script'.step = "price" /\ script'.todo \subseteq script.todo
      /\ script'.seen = script.seen /\ ScriptShape'
    BY <1>1, <1>2, <1>3 DEF CatalogInv, ScriptShape, Without
<1>10. Priced(script.seen)' = Priced(script.seen) BY <1>9 DEF Priced
<1>11. PricesRun' BY <1>1, <1>6, <1>9, <1>10 DEF CatalogInv, PricesRun
<1>12. BomRun' /\ OtherRuns' /\ HideRun' BY <1>1, <1>9 DEF BomRun, OtherRuns, HideRun
<1> QED BY <1>7, <1>8, <1>9, <1>11, <1>12 DEF CatalogInv

\* What one statement that marks or unmarks many articles leaves.
LEMMA ListedWritten ==
    ASSUME CatalogTypeOK, NEW S, NEW value \in BOOLEAN,
           articles' = [a \in Articles |-> IF a \in S \cap Present THEN [articles[a] EXCEPT !.listed = value]
                                           ELSE articles[a]]
    PROVE  /\ articles' \in [Articles -> Rows \cup {Nothing}] /\ Present' = Present
           /\ \A a \in Present : articles'[a].listed = IF a \in S THEN value ELSE articles[a].listed
<1>1. \A a \in Present : articles[a] \in Rows /\ a \in Articles BY PresentRows
<1>2. \A a \in Present : /\ [articles[a] EXCEPT !.listed = value] \in Rows
                         /\ [articles[a] EXCEPT !.listed = value].listed = value
    BY <1>1 DEF Rows
<1>3. \A a \in Articles : articles'[a] = IF a \in S \cap Present THEN [articles[a] EXCEPT !.listed = value]
                                         ELSE articles[a]
    OBVIOUS
<1>4. articles' \in [Articles -> Rows \cup {Nothing}] BY <1>2 DEF CatalogTypeOK
<1>5. Present' = Present BY <1>2, <1>3 DEF Present
<1>6. \A a \in Present : articles'[a].listed = IF a \in S THEN value ELSE articles[a].listed
    BY <1>1, <1>2, <1>3
<1> QED BY <1>4, <1>5, <1>6

LEMMA MarkListedKeeps == ASSUME CatalogInv, MarkListed PROVE CatalogInv'
<1>1. script.step = "price" /\ script.name = "prices" BY DEF MarkListed
<1>2. articles' = [a \in Articles |-> IF a \in InList(script.seen) \cap Present
                                      THEN [articles[a] EXCEPT !.listed = TRUE] ELSE articles[a]]
    BY DEF MarkListed, SetListed
<1>3. UNCHANGED <<bom, norms, purchase, credit, runs, acts, done>> BY DEF MarkListed
<1>4. /\ articles' \in [Articles -> Rows \cup {Nothing}] /\ Present' = Present
      /\ \A a \in Present : articles'[a].listed = IF a \in InList(script.seen) THEN TRUE ELSE articles[a].listed
    BY <1>2, ListedWritten DEF CatalogInv
<1>5. DoneFacts' /\ runs' \in 0..MaxRuns /\ acts' \in 0..MaxActs BY <1>1, <1>3, RunningFacts
<1>6. CatalogTypeOK' BY <1>3, <1>4, <1>5 DEF CatalogInv, CatalogTypeOK
<1>a. PICK next : next = IF script.replace THEN "unlist" ELSE "end" OBVIOUS
<1>b. script' = Then(next, {}) BY <1>a DEF MarkListed
<1>7. /\ script'.name = "prices" /\ script'.step = next /\ script'.todo = {}
      /\ script'.seen = script.seen /\ script'.from = script.from /\ script'.replace = script.replace
      /\ script' = [name |-> script'.name, step |-> script'.step, replace |-> script'.replace,
                    todo |-> script'.todo, rows |-> script'.rows, seen |-> script'.seen, from |-> script'.from]
    BY <1>1, <1>b DEF CatalogInv, ScriptShape, Then
<1>c. next \in {"unlist", "end"} /\ (next = "end" => ~script.replace) BY <1>a
<1>8. ScriptShape' BY <1>3, <1>7, <1>c DEF CatalogInv, ScriptShape, Stages
<1>9. InList(script.seen)' = InList(script.seen) BY <1>7 DEF InList, Priced
<1>10. script.seen \in [Present -> Nat] BY <1>1 DEF CatalogInv, PricesRun
<1>11. InList(script.seen) \subseteq Present BY <1>10 DEF InList, Priced
<1>12. PricesRun' BY <1>4, <1>7, <1>c, <1>9, <1>10, <1>11 DEF PricesRun
<1>13. BomRun' /\ OtherRuns' /\ HideRun' BY <1>7 DEF BomRun, OtherRuns, HideRun
<1> QED BY <1>5, <1>6, <1>8, <1>12, <1>13 DEF CatalogInv

LEMMA UnlistKeeps == ASSUME CatalogInv, Unlist PROVE CatalogInv'
<1>1. script.step = "unlist" /\ script.name = "prices" BY StageNames DEF Unlist
<1>2. articles' = [a \in Articles |-> IF a \in (Articles \ InList(script.seen)) \cap Present
                                      THEN [articles[a] EXCEPT !.listed = FALSE] ELSE articles[a]]
    BY DEF Unlist, SetListed
<1>3. UNCHANGED <<bom, norms, purchase, credit, runs, acts, done>> BY DEF Unlist
<1>4. /\ articles' \in [Articles -> Rows \cup {Nothing}] /\ Present' = Present
      /\ \A a \in Present : articles'[a].listed
            = IF a \in Articles \ InList(script.seen) THEN FALSE ELSE articles[a].listed
    BY <1>2, ListedWritten DEF CatalogInv
<1>5. DoneFacts' /\ runs' \in 0..MaxRuns /\ acts' \in 0..MaxActs BY <1>1, <1>3, RunningFacts
<1>6. CatalogTypeOK' BY <1>3, <1>4, <1>5 DEF CatalogInv, CatalogTypeOK
<1>7. /\ script'.name = "prices" /\ script'.step = "end" /\ script'.todo = {}
      /\ script'.seen = script.seen /\ script'.from = script.from /\ script'.replace = script.replace
      /\ script' = [name |-> script'.name, step |-> script'.step, replace |-> script'.replace,
                    todo |-> script'.todo, rows |-> script'.rows, seen |-> script'.seen, from |-> script'.from]
    BY <1>1 DEF Unlist, CatalogInv, ScriptShape, Then
<1>8. ScriptShape' BY <1>3, <1>7 DEF CatalogInv, ScriptShape, Stages
<1>9. InList(script.seen)' = InList(script.seen) BY <1>7 DEF InList, Priced
<1>10. script.seen \in [Present -> Nat] /\ \A a \in InList(script.seen) : articles[a].listed
    BY <1>1 DEF CatalogInv, PricesRun
<1>11. \A a \in Present : articles'[a].listed <=> a \in InList(script.seen) BY <1>4, <1>10 DEF Present
<1>12. PricesRun' BY <1>4, <1>7, <1>9, <1>10, <1>11 DEF PricesRun
<1>13. BomRun' /\ OtherRuns' /\ HideRun' BY <1>7 DEF BomRun, OtherRuns, HideRun
<1> QED BY <1>5, <1>6, <1>8, <1>12, <1>13 DEF CatalogInv

LEMMA FillKeeps == ASSUME CatalogInv, Fill PROVE CatalogInv'
<1>1. script.step = "fill" /\ script.name = "backfill" BY StageNames DEF Fill
<1>2. PICK a \in script.todo : articles' = [articles EXCEPT ![a].price = NameFile[a]] /\ script' = Without(a)
    BY DEF Fill
<1>3. UNCHANGED <<bom, norms, purchase, credit, runs, acts, done>> BY DEF Fill
<1>4. a \in Present /\ a \in Articles /\ NameFile[a] \in Nat BY <1>1 DEF CatalogInv, OtherRuns, Present
<1>5. articles[a] \in Rows BY <1>4, PresentRows DEF CatalogInv
<1>6. [articles[a] EXCEPT !.price = NameFile[a]] \in Rows BY <1>4, <1>5 DEF Rows
<1>7. articles' = [articles EXCEPT ![a] = [articles[a] EXCEPT !.price = NameFile[a]]] BY <1>2
<1>8. articles' \in [Articles -> Rows \cup {Nothing}] BY <1>6, <1>7 DEF CatalogInv, CatalogTypeOK
<1>9. Present' = Present BY <1>4, <1>6, <1>7 DEF Present, CatalogInv, CatalogTypeOK
<1>10. DoneFacts' /\ runs' \in 0..MaxRuns /\ acts' \in 0..MaxActs BY <1>1, <1>3, RunningFacts
<1>11. CatalogTypeOK' BY <1>3, <1>8, <1>10 DEF CatalogInv, CatalogTypeOK
<1>12. script'.name = "backfill" /\ script'.todo \subseteq script.todo /\ ScriptShape'
    BY <1>1, <1>2, <1>3 DEF CatalogInv, ScriptShape, Without
<1>13. BomRun' /\ PricesRun' /\ OtherRuns' /\ HideRun'
    BY <1>1, <1>9, <1>12 DEF CatalogInv, BomRun, PricesRun, OtherRuns, HideRun
<1> QED BY <1>10, <1>11, <1>12, <1>13 DEF CatalogInv

LEMMA ResaleWritten ==
    ASSUME CatalogTypeOK, NEW S, NEW value \in BOOLEAN,
           articles' = [a \in Articles |-> IF a \in S \cap Present THEN [articles[a] EXCEPT !.resale = value]
                                           ELSE articles[a]]
    PROVE  articles' \in [Articles -> Rows \cup {Nothing}]
<1>1. \A a \in Present : articles[a] \in Rows BY PresentRows
<1>2. \A a \in Present : [articles[a] EXCEPT !.resale = value] \in Rows BY <1>1 DEF Rows
<1> QED BY <1>2 DEF CatalogTypeOK

LEMMA HidingKeeps == ASSUME CatalogInv, Show \/ Hide PROVE CatalogInv'
<1>1. script.name \in {"classify", "mark"} BY StageNames DEF Show, Hide
<1>2. articles' \in [Articles -> Rows \cup {Nothing}]
    <2>1. CASE Show
        <3>1. articles' = [a \in Articles |-> IF a \in script.seen.show \cap Present
                                              THEN [articles[a] EXCEPT !.resale = FALSE] ELSE articles[a]]
            BY <2>1 DEF Show, SetResale
        <3> QED BY <3>1, ResaleWritten DEF CatalogInv
    <2>2. CASE Hide
        <3>1. articles' = [a \in Articles |-> IF a \in script.seen.hide \cap Present
                                              THEN [articles[a] EXCEPT !.resale = TRUE] ELSE articles[a]]
            BY <2>2 DEF Hide, SetResale
        <3> QED BY <3>1, ResaleWritten DEF CatalogInv
    <2> QED BY <2>1, <2>2
<1>3. UNCHANGED <<bom, norms, purchase, credit, runs, acts, done>> BY DEF Show, Hide
<1>4. DoneFacts' /\ runs' \in 0..MaxRuns /\ acts' \in 0..MaxActs BY <1>1, <1>3, RunningFacts
<1>5. CatalogTypeOK' BY <1>2, <1>3, <1>4 DEF CatalogInv, CatalogTypeOK
<1>6. /\ script'.name = script.name /\ script'.seen = script.seen /\ script'.from = script.from
      /\ script'.replace = script.replace /\ <<script'.name, script'.step>> \in Stages
      /\ script' = [name |-> script'.name, step |-> script'.step, replace |-> script'.replace,
                    todo |-> script'.todo, rows |-> script'.rows, seen |-> script'.seen, from |-> script'.from]
    BY <1>1, StageNames DEF Show, Hide, CatalogInv, ScriptShape, Then, Stages
<1>7. ScriptShape' BY <1>3, <1>6 DEF CatalogInv, ScriptShape
<1>8. HideRun' BY <1>3, <1>6 DEF CatalogInv, HideRun, MayHide, OnlyIs, Made, Composition
<1>9. BomRun' /\ PricesRun' /\ OtherRuns' BY <1>1, <1>6 DEF BomRun, PricesRun, OtherRuns
<1> QED BY <1>4, <1>5, <1>7, <1>8, <1>9 DEF CatalogInv

LEMMA UpsertPaymentKeeps == ASSUME CatalogInv, UpsertPayment PROVE CatalogInv'
<1>1. script.step = "credit" /\ script.name = "credit" BY StageNames DEF UpsertPayment
<1>2. PICK row \in script.todo :
        credit' = [credit EXCEPT ![row[1]][row[2]] = script.seen.log[row[2]]] /\ script' = Without(row)
    BY DEF UpsertPayment
<1>3. UNCHANGED <<articles, bom, norms, purchase, runs, acts, done>> BY DEF UpsertPayment
<1>4. PICK f \in CreditFiles : f = script.seen BY <1>1 DEF CatalogInv, OtherRuns
<1>5. row \in LogRows(f) BY <1>1, <1>4 DEF CatalogInv, OtherRuns
<1>6. row[1] = f.sheets[Len(f.sheets)] /\ row[2] \in DOMAIN f.log BY <1>5 DEF LogRows, PayTo
<1>7. Len(f.sheets) \in DOMAIN f.sheets
    <2>1. PICK S : S = Range(f.sheets) OBVIOUS
    <2>2. f.sheets \in Seq(S) /\ f.sheets # <<>> BY <2>1
    <2> QED BY <2>2
<1>8. row[1] \in Contracts BY <1>6, <1>7 DEF Contracts, Range
<1>9. row[2] \in Dates /\ f.log[row[2]] \in Payments BY <1>6 DEF Dates, Payments, Range
<1>10. credit' \in [Contracts -> [Dates -> Payments \cup {Nothing}]]
    <2>1. credit \in [Contracts -> [Dates -> Payments \cup {Nothing}]] BY DEF CatalogInv, CatalogTypeOK
    <2>2. [credit[row[1]] EXCEPT ![row[2]] = f.log[row[2]]] \in [Dates -> Payments \cup {Nothing}]
        BY <1>8, <1>9, <2>1
    <2>3. credit' = [credit EXCEPT ![row[1]] = [credit[row[1]] EXCEPT ![row[2]] = f.log[row[2]]]]
        BY <1>2, <1>4
    <2> QED BY <2>1, <2>2, <2>3
<1>11. DoneFacts' /\ runs' \in 0..MaxRuns /\ acts' \in 0..MaxActs BY <1>1, <1>3, RunningFacts
<1>12. CatalogTypeOK' BY <1>3, <1>10, <1>11 DEF CatalogInv, CatalogTypeOK
<1>13. script'.name = "credit" /\ script'.todo \subseteq script.todo /\ script'.seen = script.seen /\ ScriptShape'
    BY <1>1, <1>2, <1>3 DEF CatalogInv, ScriptShape, Without
<1>14. LogRows(script.seen)' = LogRows(script.seen) BY <1>13 DEF LogRows, PayTo
<1>15. BomRun' /\ PricesRun' /\ OtherRuns' /\ HideRun'
    BY <1>1, <1>13, <1>14 DEF CatalogInv, BomRun, PricesRun, OtherRuns, HideRun
<1> QED BY <1>11, <1>12, <1>13, <1>15 DEF CatalogInv

LEMMA EndsKeep == ASSUME CatalogInv, Ends PROVE CatalogInv'
<1>1. /\ UNCHANGED <<base, runs, acts, done>> /\ script.todo = {} /\ script' = Then("end", {})
      /\ script.step \in {"extra", "norm", "fill", "credit", "price"}
      /\ script.step = "price" => script.name = "pricelist"
    BY DEF Ends, Empty
<1>2. /\ script'.name = script.name /\ script'.step = "end" /\ script'.todo = {} /\ script'.rows = script.rows
      /\ script'.seen = script.seen /\ script'.from = script.from /\ script'.replace = script.replace
      /\ script' = [name |-> script'.name, step |-> script'.step, replace |-> script'.replace,
                    todo |-> script'.todo, rows |-> script'.rows, seen |-> script'.seen, from |-> script'.from]
    BY <1>1 DEF CatalogInv, ScriptShape, Then
<1>3. script.name \in {"bom", "norms", "backfill", "credit", "pricelist"} BY <1>1, StageNames
<1>4. DoneFacts' BY <1>1, <1>3, RunningFacts
<1>5. CatalogTypeOK' BY <1>1 DEF CatalogInv, CatalogTypeOK, base
<1>6. ScriptShape' BY <1>1, <1>2, <1>3 DEF CatalogInv, ScriptShape, Stages
<1>7. Present' = Present /\ purchase' = purchase /\ bom' = bom BY <1>1, BaseSame DEF base
<1>8. Planned' = Planned /\ Accepted(BomFile)' = Accepted(BomFile) BY <1>7, FilesSame
<1>9. CASE script.name = "bom"
    <2>1. script.step = "extra" /\ script.rows = {} BY <1>1, <1>9 DEF CatalogInv, BomRun, ScriptShape, Stages
    <2>2. ASSUME NEW b \in Planned PROVE Replaced(b, {})' = Replaced(b, {})
        <3>1. b \in Articles BY DEF Planned
        <3>2. ByArticle(b)' = ByArticle(b) /\ Composition(b)' = Composition(b) BY <1>1, <1>7, <3>1, FilesSame, BaseSame
        <3> QED BY <1>7, <3>2 DEF Replaced, InFile
    <2>3. BomRun' BY <1>1, <1>2, <1>7, <1>8, <1>9, <2>1, <2>2 DEF CatalogInv, BomRun
    <2>4. PricesRun' /\ OtherRuns' /\ HideRun' BY <1>2, <1>9 DEF PricesRun, OtherRuns, HideRun
    <2> QED BY <1>4, <1>5, <1>6, <2>3, <2>4 DEF CatalogInv
<1>10. CASE script.name # "bom"
    <2>1. PricesRun' BY <1>2, <1>3, <1>7 DEF CatalogInv, PricesRun
    <2>2. OtherRuns' BY <1>2 DEF CatalogInv, OtherRuns
    <2>3. BomRun' /\ HideRun' BY <1>2, <1>3, <1>10 DEF BomRun, HideRun
    <2> QED BY <1>4, <1>5, <1>6, <2>1, <2>2, <2>3 DEF CatalogInv
<1> QED BY <1>9, <1>10

LEMMA IdleKeeps == ASSUME script = NoScript, acts \in Nat PROVE ScriptShape /\ BomRun /\ PricesRun /\ OtherRuns /\ HideRun
<1>1. ScriptShape BY DEF ScriptShape, NoScript, Stages
<1> QED BY <1>1 DEF NoScript, BomRun, PricesRun, OtherRuns, HideRun

LEMMA CrashKeeps == ASSUME CatalogInv, Crash PROVE CatalogInv'
<1>1. script' = NoScript /\ done' = Nothing /\ UNCHANGED <<base, runs, acts>> BY DEF Crash
<1>2. CatalogTypeOK' /\ acts' \in Nat BY <1>1 DEF CatalogInv, CatalogTypeOK, base
<1>3. ScriptShape' BY <1>1, <1>2 DEF ScriptShape, NoScript, Stages
<1>4. BomRun' /\ PricesRun' /\ OtherRuns' /\ HideRun' /\ DoneFacts'
    BY <1>1 DEF NoScript, BomRun, PricesRun, OtherRuns, HideRun, DoneFacts
<1> QED BY <1>2, <1>3, <1>4 DEF CatalogInv

\* A script that nobody disturbed leaves what it promises.
LEMMA FinishKeeps == ASSUME CatalogInv, Finish PROVE CatalogInv'
<1>1. /\ script' = NoScript /\ UNCHANGED <<base, runs, acts>> /\ script.step = "end"
      /\ done' = IF acts = script.from THEN [name |-> script.name, replace |-> script.replace] ELSE Nothing
    BY DEF Finish
<1>2. CatalogTypeOK' /\ acts' \in Nat BY <1>1 DEF CatalogInv, CatalogTypeOK, base
<1>3. ScriptShape' BY <1>1, <1>2 DEF ScriptShape, NoScript, Stages
<1>4. BomRun' /\ PricesRun' /\ OtherRuns' /\ HideRun'
    BY <1>1 DEF NoScript, BomRun, PricesRun, OtherRuns, HideRun
<1>5. Present' = Present /\ Planned' = Planned /\ purchase' = purchase /\ bom' = bom /\ articles' = articles
    BY <1>1, BaseSame, FilesSame DEF base
<1>6. ASSUME done' # Nothing, done'.name = "bom", done'.replace, NEW a \in Planned
      PROVE  /\ Composition(a)' = {BomFile[i].place : i \in ByArticle(a)'}
             /\ \A i \in ByArticle(a)' : bom'[BomFile[i].place] = InFile(i, purchase)'
    <2>1. acts = script.from /\ script.name = "bom" /\ script.replace BY <1>1, <1>6
    <2>2. Replaced(a, {}) BY <1>1, <2>1 DEF CatalogInv, BomRun
    <2>3. a \in Articles /\ ByArticle(a)' = ByArticle(a) /\ Composition(a)' = Composition(a)
        BY <1>1, <1>5, FilesSame, BaseSame DEF Planned
    <2>4. \A i \in ByArticle(a) : /\ BomFile[i].place \in Places /\ BomFile[i].place[1] = a
                                  /\ bom[BomFile[i].place] \in Lines
        <3>1. purchase \in [Materials -> Nat] BY DEF CatalogInv, CatalogTypeOK
        <3>2. ByArticle(a) \subseteq Accepted(BomFile) BY DEF ByArticle
        <3>3. \A i \in ByArticle(a) : InFile(i, purchase) \in Lines BY <3>1, <3>2, InFileLine
        <3>4. \A i \in ByArticle(a) : BomFile[i].place \in Places /\ BomFile[i].place[1] = a
            BY <3>2, AcceptedFacts DEF ByArticle
        <3> QED BY <2>2, <3>3, <3>4 DEF Replaced
    <2>5. {BomFile[i].place : i \in ByArticle(a)} \subseteq Composition(a) BY <2>4 DEF Composition
    <2>6. Composition(a) = {BomFile[i].place : i \in ByArticle(a)} BY <2>2, <2>5 DEF Replaced
    <2>7. \A i \in ByArticle(a) : bom'[BomFile[i].place] = InFile(i, purchase)'
        BY <1>5, <2>2 DEF Replaced, InFile
    <2> QED BY <2>3, <2>6, <2>7
<1>7. CompositionAsInFile' BY <1>2, <1>5, <1>6 DEF CompositionAsInFile
<1>8. ASSUME done' # Nothing, done'.name = "prices", done'.replace, NEW a \in Present
      PROVE  articles[a].listed <=> \E i \in DOMAIN PriceFile : PriceFile[i].article = a /\ PriceFile[i].price > 0
    <2>1. acts = script.from /\ script.name = "prices" /\ script.replace BY <1>1, <1>8
    <2>2. script.seen \in [Present -> Nat] /\ (articles[a].listed <=> a \in InList(script.seen))
        BY <1>1, <2>1 DEF CatalogInv, PricesRun
    <2> QED BY <2>2 DEF InList, Priced
<1>9. ListIsFile' BY <1>5, <1>8 DEF ListIsFile
<1>10. DoneFacts' BY <1>1, <1>7, <1>9 DEF DoneFacts, NoScript
<1> QED BY <1>2, <1>3, <1>4, <1>10 DEF CatalogInv

(***************************************************************************)
(* The theorems.                                                           *)
(***************************************************************************)
LEMMA CatalogInitInv == CatalogInit => CatalogInv
<1> SUFFICES ASSUME CatalogInit PROVE CatalogInv OBVIOUS
<1>1. PICK S \in SUBSET Articles : articles = [a \in Articles |-> IF a \in S THEN NewArticle ELSE Nothing]
    BY DEF CatalogInit
<1>2. articles \in [Articles -> Rows \cup {Nothing}] BY <1>1, NewArticleRow
<1>3. credit \in [Contracts -> [Dates -> Payments \cup {Nothing}]] BY DEF CatalogInit
<1>4. CatalogTypeOK BY <1>2, <1>3 DEF CatalogInit, CatalogTypeOK
<1>5. script = NoScript /\ acts \in Nat /\ done = Nothing BY DEF CatalogInit
<1>6. ScriptShape /\ BomRun /\ PricesRun /\ OtherRuns /\ HideRun BY <1>5, IdleKeeps
<1> QED BY <1>4, <1>5, <1>6 DEF CatalogInv, DoneFacts

LEMMA CatalogStepInv == CatalogInv /\ [CatalogNext]_catalogVars => CatalogInv'
<1> SUFFICES ASSUME CatalogInv, [CatalogNext]_catalogVars PROVE CatalogInv' OBVIOUS
<1>1. CASE PeopleStep
    BY <1>1, EditCompositionKeeps, ApprovePriceKeeps, ChangePurchaseKeeps DEF PeopleStep
<1>2. CASE Starts
    BY <1>2, StartBomKeeps, StartPricesKeeps, StartPriceListKeeps, StartOthersKeep, StartHidingKeeps DEF Starts
<1>3. CASE ScriptStep
    BY <1>3, RemoveExtraKeeps, UpsertItemKeeps, UpsertNormKeeps, CreateArticleKeeps, PlanPricesKeeps, SetPriceKeeps,
       MarkListedKeeps, UnlistKeeps, FillKeeps, HidingKeeps, UpsertPaymentKeeps, EndsKeep, FinishKeeps
    DEF ScriptStep
<1>4. CASE UNCHANGED catalogVars
    <2>1. UNCHANGED <<base, runs, acts, done, script>> BY <1>4 DEF catalogVars
    <2>2. UNCHANGED <<articles, bom, norms, purchase, credit>> BY <2>1 DEF base
    <2>3. Present' = Present /\ Planned' = Planned /\ Accepted(BomFile)' = Accepted(BomFile)
        BY <2>1, BaseSame, FilesSame
    <2>4. \A a \in Articles : /\ Composition(a)' = Composition(a) /\ Made(a)' = Made(a) /\ ByArticle(a)' = ByArticle(a)
        BY <2>1, <2>3, BaseSame, FilesSame
    <2>5. CatalogTypeOK' /\ ScriptShape' BY <2>1, <2>2 DEF CatalogInv, CatalogTypeOK, ScriptShape
    <2>6. BomRun'
        <3>1. PICK left : left = script.rows OBVIOUS
        <3>2. \A a \in Planned : Replaced(a, left) => Replaced(a, left)'
            BY <2>2, <2>4 DEF Replaced, InFile, Planned
        <3> QED BY <2>1, <2>2, <2>3, <3>1, <3>2 DEF CatalogInv, BomRun
    <2>7. Priced(script.seen)' = Priced(script.seen) /\ InList(script.seen)' = InList(script.seen)
        BY <2>1 DEF Priced, InList
    <2>8. PricesRun'
        <3>1. CASE script.name \in {"prices", "pricelist"}
            BY <2>1, <2>2, <2>3, <2>7, <3>1 DEF CatalogInv, PricesRun
        <3>2. CASE script.name \notin {"prices", "pricelist"} BY <2>1, <3>2 DEF PricesRun
        <3> QED BY <3>1, <3>2
    <2>9. OtherRuns' BY <2>1, <2>3, FilesSame DEF CatalogInv, OtherRuns, LogRows, PayTo
    <2>10. HideRun' BY <2>1, <2>2 DEF CatalogInv, HideRun, MayHide, OnlyIs, Made, Composition
    <2>11. DoneFacts'
        <3>1. CompositionAsInFile => CompositionAsInFile'
            <4>1. Planned \subseteq Articles BY DEF Planned
            <4>2. \A i \in DOMAIN BomFile : InFile(i, purchase)' = InFile(i, purchase) BY <2>2 DEF InFile
            <4>3. \A a \in Planned : ByArticle(a) \subseteq DOMAIN BomFile BY DEF ByArticle, Accepted
            <4> QED BY <2>1, <2>2, <2>3, <2>4, <2>5, <4>1, <4>2, <4>3 DEF CompositionAsInFile
        <3>2. ListIsFile' <=> ListIsFile BY <2>1, <2>2, <2>3 DEF ListIsFile
        <3> QED BY <2>1, <3>1, <3>2 DEF CatalogInv, DoneFacts
    <2> QED BY <2>5, <2>6, <2>8, <2>9, <2>10, <2>11 DEF CatalogInv
<1> QED BY <1>1, <1>2, <1>3, <1>4, CrashKeeps DEF CatalogNext

LEMMA CatalogInvariance == CatalogSpec => []CatalogInv
<1>1. CatalogInit => CatalogInv BY CatalogInitInv
<1>2. CatalogInv /\ [CatalogNext]_catalogVars => CatalogInv' BY CatalogStepInv
<1> QED BY <1>1, <1>2, PTL DEF CatalogSpec

\* A composition the script replaced to its end undisturbed is the one of the file, row
\* by row and at the prices of the base, whatever the file says and however often the
\* script stopped half way before (import-catalog --bom --replace).
THEOREM CompositionsFollowFile == CatalogSpec => []CompositionAsInFile
<1>1. CatalogInv => CompositionAsInFile BY DEF CatalogInv, DoneFacts, CompositionAsInFile
<1> QED BY <1>1, CatalogInvariance, PTL

\* After an undisturbed import of prices with --replace the list is exactly the articles
\* of the file with a price, those whose price did not change included
\* (import-catalog --prices --replace).
THEOREM PriceListFollowsFile == CatalogSpec => []ListIsFile
<1>1. CatalogInv => ListIsFile BY DEF CatalogInv, DoneFacts, ListIsFile
<1> QED BY <1>1, CatalogInvariance, PTL

\* Nothing that is made here is hidden by a guess: classify-articles-by-sheet and
\* mark-material-resale-articles, the only steps that hide, go by what the base says while
\* nobody has edited it since they read it.
THEOREM MadeIsNotHidden == CatalogSpec => MadeStaysShown
<1>1. CatalogInv /\ [CatalogNext]_catalogVars =>
        [\A a \in Present : ~articles[a].resale /\ articles'[a].resale /\ acts = script.from =>
            \/ OnlyIs(a, "material")
            \/ IF script.name = "mark" THEN Composition(a) = {} ELSE ~Made(a)]_catalogVars
    <2> SUFFICES ASSUME CatalogInv, CatalogNext, NEW a \in Present,
                        ~articles[a].resale, articles'[a].resale, acts = script.from
                 PROVE  MayHide(a)
        BY DEF MayHide
    <2>1. a \in Articles /\ articles[a] \in Rows /\ CatalogTypeOK BY PresentRows DEF CatalogInv
    <2>2. CASE Hide
        <3>1. articles'[a] = IF a \in script.seen.hide \cap Present
                             THEN [articles[a] EXCEPT !.resale = TRUE] ELSE articles[a]
            BY <2>1, <2>2 DEF Hide, SetResale
        <3>2. a \in script.seen.hide BY <3>1
        <3>3. script.name \in {"classify", "mark"} BY <2>2, StageNames DEF Hide
        <3> QED BY <3>2, <3>3 DEF CatalogInv, HideRun
    <2>3. CASE articles' = articles BY <2>3
    <2>4. CASE \E n \in Entered, x \in Articles : ApprovePrice(x, n)
        <3>1. PICK n \in Entered, x \in Articles : ApprovePrice(x, n) BY <2>4
        <3>2. articles'[a].resale = articles[a].resale
            BY <2>1, <3>1, PriceWritten DEF ApprovePrice
        <3> QED BY <3>2
    <2>5. CASE SetPrice
        <3>1. script.step = "price" /\ script.name \in {"prices", "pricelist"} BY <2>5, StageNames DEF SetPrice
        <3>2. PICK i \in script.todo :
                articles' = [articles EXCEPT ![PriceFile[i].article].price = PriceFile[i].price,
                                        ![PriceFile[i].article].history = Append(@, PriceFile[i].price)]
            BY <2>5 DEF SetPrice
        <3>3. PriceFile[i].article \in Present /\ PriceFile[i].price \in Nat
            BY <3>1 DEF CatalogInv, PricesRun, Priced
        <3>4. articles'[a].resale = articles[a].resale BY <2>1, <3>2, <3>3, PriceWritten
        <3> QED BY <3>4
    <2>6. CASE CreateArticle
        <3>1. \E x \in script.todo : articles' = [articles EXCEPT ![x] = NewArticle] BY <2>6 DEF CreateArticle
        <3>2. articles'[a] = articles[a] \/ articles'[a] = NewArticle BY <2>1, <3>1 DEF CatalogTypeOK
        <3> QED BY <3>2 DEF NewArticle
    <2>7. CASE MarkListed \/ Unlist
        <3>1. articles'[a] = articles[a] \/ \E value \in BOOLEAN : articles'[a] = [articles[a] EXCEPT !.listed = value]
            BY <2>1, <2>7 DEF MarkListed, Unlist, SetListed
        <3> QED BY <2>1, <3>1 DEF Rows
    <2>8. CASE Fill
        <3>1. \E x \in script.todo : articles' = [articles EXCEPT ![x].price = NameFile[x]] BY <2>8 DEF Fill
        <3>2. articles'[a].resale = articles[a].resale BY <2>1, <3>1 DEF CatalogTypeOK, Rows
        <3> QED BY <3>2
    <2>9. CASE Show
        <3>1. articles'[a] = IF a \in script.seen.show \cap Present
                             THEN [articles[a] EXCEPT !.resale = FALSE] ELSE articles[a]
            BY <2>1, <2>9 DEF Show, SetResale
        <3>2. [articles[a] EXCEPT !.resale = FALSE].resale = FALSE BY <2>1 DEF Rows
        <3> QED BY <3>1, <3>2
    <2>10. \/ articles' = articles \/ (\E n \in Entered, x \in Articles : ApprovePrice(x, n))
           \/ SetPrice \/ CreateArticle \/ MarkListed \/ Unlist \/ Fill \/ Show \/ Hide
        <3>1. PeopleStep => articles' = articles \/ \E n \in Entered, x \in Articles : ApprovePrice(x, n)
            BY DEF PeopleStep, EditComposition, ChangePurchase
        <3>2. Starts \/ Crash => articles' = articles
            BY DEF Starts, StartBom, StartNorms, StartPrices, StartPriceList, StartBackfill, StartClassify, StartMark,
                   StartCredit, Start, Crash, base
        <3>3. RemoveExtra \/ UpsertItem \/ UpsertNorm \/ PlanPrices \/ UpsertPayment \/ Ends \/ Finish
              => articles' = articles
            BY DEF RemoveExtra, UpsertItem, UpsertNorm, PlanPrices, UpsertPayment, Ends, Finish, base
        <3> QED BY <3>1, <3>2, <3>3 DEF CatalogNext, ScriptStep
    <2> QED BY <2>2, <2>3, <2>4, <2>5, <2>6, <2>7, <2>8, <2>9, <2>10
<1> QED BY <1>1, CatalogInvariance, PTL DEF CatalogSpec, MadeStaysShown

=============================================================================
