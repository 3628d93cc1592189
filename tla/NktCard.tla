-------------------------------- MODULE NktCard --------------------------------
(***************************************************************************)
(* One article's way into the national catalogue (internal/nkt).  A single *)
(* worker takes the card from the queue, reads its status and does what    *)
(* the status asks for: file a request with the catalogue, send it to      *)
(* moderation, poll it, publish it.  Each is a call and then a write of    *)
(* the card and a write of the queue; people edit, resubmit, decide and    *)
(* cancel meanwhile, and the server may stop anywhere.  What the queue     *)
(* calls the operation decides nothing (step) and is left out.             *)
(***************************************************************************)
EXTENDS Naturals, FiniteSets

CONSTANTS Ids,          \* numbers of requests in the catalogue, given in turn
          None,         \* no request yet
          Passports,    \* what an engineer may enter
          Complete,     \* the passports that pass Validate
          Blank,        \* the passport of a new card
          MaxAttempts,  \* maxAttempts
          MaxResubmits, \* bound: resubmissions
          MaxFaults     \* bound: calls that go wrong, requests that vanish, server stops

ASSUME NktAssumption ==
    /\ Ids \subseteq Nat /\ IsFiniteSet(Ids) /\ None \notin Ids
    /\ Complete \subseteq Passports /\ Blank \in Passports \ Complete
    /\ MaxAttempts \in Nat \ {0} /\ MaxResubmits \in Nat
    /\ MaxFaults \in Nat
    \* A number is left for every request this bound lets the worker file.
    /\ Cardinality(Ids) > MaxFaults

VARIABLES
    card,      \* nkt_cards
    queue,     \* nkt_queue: the row of the card, if any; it may be due at any time
    nkt,       \* the requests in the catalogue (external)
    worker,    \* what ProcessQueue is doing
    manager,   \* the form somebody has open
    announced, \* an nkt.ntin.assigned was put in the outbox
    resubmits, faults

vars == <<card, queue, nkt, worker, manager, announced, resubmits, faults>>

ToWork == {"NEW", "NEED_REGISTRATION", "ERROR"}
ForPeople == {"DATA_INCOMPLETE", "MATCH_REVIEW", "REWORK", "REJECTED"}
Statuses == ToWork \cup ForPeople
                \cup {"REQUEST_CREATED", "MODERATION", "READY_TO_PUBLISH", "HAS_NTIN"}
Card == [status : Statuses, request : Ids \cup {None}, passport : Passports,
         hash : Passports, attempts : Nat]

States == {"absent", "new", "onModeration", "underRevision", "duplicates",
           "readyToPublish", "completed", "rejected", "cancelled", "gone"}
Live == {"new", "onModeration", "underRevision", "duplicates", "readyToPublish"}

Seen == [request : Ids \cup {None}, passport : Passports, attempts : Nat]

\* What a step goes on to use of the card it has read.
Copy(c, step) ==
    [request |-> c.request,
     passport |-> IF step \in {"create", "update"} THEN c.passport ELSE Blank,
     attempts |-> IF step \in {"create", "moderate", "poll", "publish"} THEN c.attempts ELSE 0]
NoneSeen == [request |-> None, passport |-> Blank, attempts |-> 0]

Steps == {"validate", "create", "moderate", "poll", "publish", "decide", "update", "cancel"}
Answers == States \cup {"ok", "failed", "refused", "missing", "unknown"}
Queues == {"none", "waiting", "locked"}
Idle == [stage |-> "idle", step |-> "validate", seen |-> NoneSeen, answer |-> "ok", then |-> "none"]
Process == [stage : {"idle", "claimed", "calling", "answered", "settling",
                     "resubmit", "delaying"},
            step : Steps, seen : Seen, answer : Answers, then : Queues]

TypeOK ==
    /\ card \in Card /\ queue \in Queues
    /\ nkt \in [Ids -> States]
    /\ worker \in Process /\ manager \in Process
    /\ announced \in BOOLEAN
    /\ resubmits \in Nat /\ faults \in Nat

\* A card just made by EnsureCards.
Init ==
    /\ card = [status |-> "NEW", request |-> None, passport |-> Blank, hash |-> Blank,
               attempts |-> 0]
    /\ queue = "none"
    /\ nkt = [id \in Ids |-> "absent"]
    /\ worker = Idle /\ manager = Idle
    /\ announced = FALSE
    /\ resubmits = 0 /\ faults = 0

----------------------------------------------------------------------------
(* The catalogue (external)                                                *)

\* What a request in state s becomes when a call that fits it is carried out.
Becomes(step, s) ==
    CASE step = "moderate" /\ s \in {"new", "underRevision"} -> {"onModeration"}
      [] step = "update" /\ s \in {"new", "underRevision"} -> {s}
      [] step = "publish" /\ s = "readyToPublish" -> {"completed"}
      [] step = "decide" /\ s = "duplicates" -> {"onModeration", "completed"}
      [] step = "cancel" /\ s \in Live -> {"cancelled"}
      [] OTHER -> {}

\* A call that only repeats what was done may be answered as done.
Repeats(step, s) ==
    <<step, s>> \in {<<"moderate", "onModeration">>, <<"publish", "completed">>,
                     <<"cancel", "cancelled">>}

\* The state after a call about a request, the answer, and what it costs in
\* faults: a call may go wrong after it was carried out as well as before.
Outcomes(step, s) ==
    {<<t, "ok", 0>> : t \in Becomes(step, s)}
    \cup (IF Repeats(step, s) THEN {<<s, "ok", 0>>} ELSE {})
    \cup (IF Becomes(step, s) = {} /\ s # "gone" THEN {<<s, "refused", 0>>} ELSE {})
    \cup (IF s = "gone" THEN {<<s, "missing", 0>>} ELSE {})
    \cup (Becomes(step, s) \cup {s}) \X {"failed", "refused"} \X {1}

\* A draft is stored under the next number; the answer may be lost.
NextNumber(id) == nkt[id] = "absent" /\ \A i \in Ids : nkt[i] = "absent" => id <= i
Filings(id) ==
    LET filed == [nkt EXCEPT ![id] = "new"]
    IN  {<<filed, "ok", 0, id>>} \cup {filed, nkt} \X {"failed", "refused"} \X {1} \X {None}

\* The state of a request: a code, among them one we may not know.
Readings(s) ==
    {IF s = "gone" THEN <<"missing", 0>> ELSE <<s, 0>>}
    \cup {"failed", "refused", "unknown"} \X {1}

\* Moderators, and the catalogue, move requests on their own.
Moderate(id) ==
    /\ \E s \in (CASE nkt[id] = "new" -> {"duplicates", "rejected"}
                   [] nkt[id] = "onModeration" ->
                        {"underRevision", "duplicates", "readyToPublish", "completed", "rejected"}
                   [] OTHER -> {}) :
          nkt' = [nkt EXCEPT ![id] = s]
    /\ UNCHANGED <<card, queue, worker, manager, announced, resubmits, faults>>

Vanish(id) ==
    /\ nkt[id] \in Live /\ faults < MaxFaults
    /\ nkt' = [nkt EXCEPT ![id] = "gone"]
    /\ faults' = faults + 1
    /\ UNCHANGED <<card, queue, worker, manager, announced, resubmits>>

----------------------------------------------------------------------------
(* The queue (FillQueue, Enqueue, reschedule, dequeue, claim)              *)

\* Every night cards that wait for the worker are put back in the queue.
FillQueue ==
    /\ queue = "none" /\ card.status \notin ForPeople \cup {"HAS_NTIN"}
    /\ queue' = "waiting"
    /\ UNCHANGED <<card, nkt, worker, manager, announced, resubmits, faults>>

\* The lock of a worker that died expires.
Unlock_Never ==
    /\ FALSE
    /\ UNCHANGED vars
Unlock ==
    /\ queue = "locked"
    /\ queue' = "waiting"
    /\ UNCHANGED <<card, nkt, worker, manager, announced, resubmits, faults>>

\* The lock is taken off and a delay written to the row of the queue if there is one.
Requeued(then) == IF queue = "none" THEN "none" ELSE then

Claim ==
    /\ worker.stage = "idle" /\ queue = "waiting"
    /\ queue' = "locked"
    /\ worker' = [worker EXCEPT !.stage = "claimed"]
    /\ UNCHANGED <<card, nkt, manager, announced, resubmits, faults>>

----------------------------------------------------------------------------
(* The worker (step, stepValidateAndSubmit ... stepPublish, fail)          *)

\* What the status read from the card asks for.
NextStep_FilesAgain(c) ==
    CASE c.status \in ToWork ->
            IF c.passport \in Complete THEN "create" ELSE "validate"
      [] c.status = "REQUEST_CREATED" -> "moderate"
      [] c.status = "MODERATION" -> "poll"
      [] c.status = "READY_TO_PUBLISH" -> "publish"
NextStep(c) ==
    CASE c.status \in ToWork ->
            IF c.request # None THEN "moderate"
            ELSE IF c.passport \in Complete THEN "create" ELSE "validate"
      [] c.status = "REQUEST_CREATED" -> "moderate"
      [] c.status = "MODERATION" -> "poll"
      [] c.status = "READY_TO_PUBLISH" -> "publish"

Settle(then) == worker' = [Idle EXCEPT !.stage = "settling", !.then = then]

ReadCard ==
    /\ worker.stage = "claimed"
    /\ IF card.status \in ForPeople \cup {"HAS_NTIN"} THEN Settle("none")
       ELSE IF card.request = None /\ card.status \notin ToWork THEN Settle("waiting")
       ELSE worker' = [worker EXCEPT
                !.stage = IF NextStep(card) = "validate" THEN "answered" ELSE "calling",
                !.step = NextStep(card), !.seen = Copy(card, NextStep(card))]
    /\ UNCHANGED <<card, queue, nkt, manager, announced, resubmits, faults>>

Answered(answer, cost, id) ==
    /\ faults + cost <= MaxFaults
    /\ faults' = faults + cost
    /\ worker' = [worker EXCEPT !.stage = "answered", !.answer = answer, !.seen.request = id]
    /\ UNCHANGED <<card, queue, manager, announced, resubmits>>

Call ==
    /\ worker.stage = "calling"
    /\ LET id == worker.seen.request
       IN  \/ /\ worker.step = "create"
              /\ \E n \in Ids : NextNumber(n) /\ \E o \in Filings(n) :
                    nkt' = o[1] /\ Answered(o[2], o[3], o[4])
           \/ /\ worker.step \in {"moderate", "publish"}
              /\ \E o \in Outcomes(worker.step, nkt[id]) :
                    nkt' = [nkt EXCEPT ![id] = o[1]] /\ Answered(o[2], o[3], id)
           \/ /\ worker.step = "poll"
              /\ \E o \in Readings(nkt[id]) : nkt' = nkt /\ Answered(o[1], o[2], id)

\* The card is written; the queue row follows in a statement of its own.
Write(changed, then) ==
    /\ card' = changed
    /\ Settle(then)
    /\ UNCHANGED <<queue, nkt, manager, announced, resubmits, faults>>

\* A request was filed: its number is stored and it goes to moderation at once.
RecordRequest_NumberNotKept ==
    /\ worker.stage = "answered" /\ worker.step = "create" /\ worker.answer = "ok"
    /\ card' = [card EXCEPT !.status = "REQUEST_CREATED", !.hash = worker.seen.passport, !.attempts = 0]
    /\ worker' = [worker EXCEPT !.stage = "calling", !.step = "moderate", !.seen.passport = Blank]
    /\ UNCHANGED <<queue, nkt, manager, announced, resubmits, faults>>
RecordRequest ==
    /\ worker.stage = "answered" /\ worker.step = "create" /\ worker.answer = "ok"
    /\ card' = [card EXCEPT !.status = "REQUEST_CREATED", !.request = worker.seen.request,
                            !.hash = worker.seen.passport, !.attempts = 0]
    /\ worker' = [worker EXCEPT !.stage = "calling", !.step = "moderate", !.seen.passport = Blank]
    /\ UNCHANGED <<queue, nkt, manager, announced, resubmits, faults>>

RecordIncomplete ==
    /\ worker.stage = "answered" /\ worker.step = "validate"
    /\ Write([card EXCEPT !.status = "DATA_INCOMPLETE"], "none")

RecordModeration ==
    /\ worker.stage = "answered" /\ worker.step = "moderate" /\ worker.answer = "ok"
    /\ Write([card EXCEPT !.status = "MODERATION", !.attempts = 0], "waiting")

\* Nothing but the queue is written after a publication.
RecordPublication ==
    /\ worker.stage = "answered" /\ worker.step = "publish" /\ worker.answer = "ok"
    /\ Write(card, "waiting")

\* What each code of the catalogue means for the card (applyStatus).
Meaning_Published(code) ==
    CASE code \in {"new", "onModeration"} -> "MODERATION"
      [] code = "duplicates" -> "MATCH_REVIEW"
      [] code = "underRevision" -> "REWORK"
      [] code \in {"rejected", "cancelled"} -> "REJECTED"
      [] code \in {"readyToPublish", "completed"} -> "HAS_NTIN"
Meaning(code) ==
    CASE code \in {"new", "onModeration"} -> "MODERATION"
      [] code = "duplicates" -> "MATCH_REVIEW"
      [] code = "underRevision" -> "REWORK"
      [] code \in {"rejected", "cancelled"} -> "REJECTED"
      [] code = "readyToPublish" -> "READY_TO_PUBLISH"
      [] code = "completed" -> "HAS_NTIN"

\* The similar cards are asked for by a call of their own; when it fails, a request
\* that has them looks like one the moderator sent back.
MayMean(code) == {Meaning(code)} \cup (IF code = "duplicates" THEN {"REWORK"} ELSE {})

RecordStatus ==
    /\ worker.stage = "answered" /\ worker.step = "poll" /\ worker.answer \in States
    /\ \E s \in MayMean(worker.answer) :
        LET read == [card EXCEPT !.status = s,
                                 !.attempts = IF s = "REJECTED" THEN card.attempts ELSE 0]
        IN  \/ /\ s = "HAS_NTIN"
               /\ card' = read /\ queue' = "none" /\ announced' = TRUE  \* one transaction
               /\ worker' = Idle
               /\ UNCHANGED <<nkt, manager, resubmits, faults>>
            \/ /\ s # "HAS_NTIN"
               /\ Write(read, IF s \in {"MODERATION", "READY_TO_PUBLISH"} THEN "waiting" ELSE "none")

RecordUnknown ==
    /\ worker.stage = "answered" /\ worker.answer = "unknown"
    /\ Write(card, "waiting")

\* The request is no longer there: it is filed anew.
RecordMissing ==
    /\ worker.stage = "answered" /\ worker.answer = "missing"
    /\ Write([card EXCEPT !.request = None, !.status = "NEED_REGISTRATION"], "waiting")

RecordRefusal ==
    /\ worker.stage = "answered" /\ worker.answer = "refused"
    /\ Write([card EXCEPT !.status = "ERROR"], "none")

RecordFailure ==
    /\ worker.stage = "answered" /\ worker.answer = "failed"
    /\ IF worker.seen.attempts >= MaxAttempts
       THEN Write([card EXCEPT !.status = "ERROR"], "none")
       ELSE Write([card EXCEPT !.attempts = card.attempts + 1], "waiting")

Requeue ==
    /\ worker.stage = "settling"
    /\ queue' = Requeued(worker.then)
    /\ worker' = Idle
    /\ UNCHANGED <<card, nkt, manager, announced, resubmits, faults>>

Record ==
    \/ RecordRequest \/ RecordIncomplete \/ RecordModeration \/ RecordPublication
    \/ RecordStatus \/ RecordUnknown \/ RecordMissing \/ RecordRefusal \/ RecordFailure

----------------------------------------------------------------------------
(* People (SavePassport, Submit, Resubmit, DecideDuplicate, CancelRequest) *)

SavePassport(p) ==
    /\ card' = [card EXCEPT !.passport = p,
                    !.status = IF card.status \in {"DATA_INCOMPLETE", "ERROR", "NEW"} THEN "NEW"
                               ELSE card.status]
    /\ UNCHANGED <<queue, nkt, worker, manager, announced, resubmits, faults>>

\* Each form reads the card first and goes by what it has read.
Open(stage, step) ==
    /\ manager.stage = "idle"
    /\ manager' = [manager EXCEPT !.stage = stage, !.step = step, !.seen = Copy(card, step)]
    /\ UNCHANGED <<card, queue, nkt, worker, announced, faults>>

OpenResubmit ==
    /\ resubmits < MaxResubmits
    /\ Open("resubmit", "update")
    /\ resubmits' = resubmits + 1
OpenCall(step) ==
    /\ card.request # None
    /\ Open("calling", step)
    /\ UNCHANGED resubmits

\* The form's check that the card has no NTIN may be old by the time it puts the
\* card in the queue: a request that read the card before may come at any moment.
Submit ==
    /\ queue' = "waiting"
    /\ UNCHANGED <<card, nkt, worker, manager, announced, resubmits, faults>>

\* Without a request this is a submission; an incomplete passport is not sent,
\* nor one that was sent before.
Resubmit ==
    /\ manager.stage = "resubmit"
    /\ IF manager.seen.request = None
       THEN queue' = "waiting" /\ manager' = Idle /\ card' = card
       ELSE IF manager.seen.passport \notin Complete
       THEN card' = [card EXCEPT !.status = "DATA_INCOMPLETE"] /\ manager' = Idle /\ queue' = queue
       ELSE /\ manager' = IF card.hash = manager.seen.passport THEN Idle
                          ELSE [manager EXCEPT !.stage = "calling"]
            /\ UNCHANGED <<card, queue>>
    /\ UNCHANGED <<nkt, worker, announced, resubmits, faults>>

\* An update goes on to moderation; any call that is not answered as done ends
\* the form with an error.
FormCall ==
    /\ manager.stage = "calling"
    /\ \E o \in Outcomes(manager.step, nkt[manager.seen.request]) :
          /\ faults + o[3] <= MaxFaults
          /\ faults' = faults + o[3]
          /\ nkt' = [nkt EXCEPT ![manager.seen.request] = o[1]]
          /\ manager' = IF o[2] # "ok" THEN Idle
                        ELSE IF manager.step = "update" THEN [manager EXCEPT !.step = "moderate"]
                        ELSE [manager EXCEPT !.stage = "answered"]
    /\ UNCHANGED <<card, queue, worker, announced, resubmits>>

FormWrite ==
    /\ manager.stage = "answered"
    /\ card' = CASE manager.step = "moderate" ->
                        [card EXCEPT !.status = "MODERATION", !.hash = manager.seen.passport,
                                     !.attempts = card.attempts + 1]
                 [] manager.step = "decide" -> [card EXCEPT !.status = "MODERATION"]
                 [] manager.step = "cancel" -> [card EXCEPT !.status = "REJECTED"]
    /\ manager' = [manager EXCEPT !.stage = "settling"]
    /\ UNCHANGED <<queue, nkt, worker, announced, resubmits, faults>>

\* A resubmission delays the row of the queue, a cancellation takes it out, and
\* a decision puts it in and then delays it.
FormQueue ==
    /\ \/ /\ manager.stage = "settling" /\ manager.step = "decide"
          /\ queue' = "waiting" /\ manager' = [manager EXCEPT !.stage = "delaying"]
       \/ /\ manager.stage = "settling" /\ manager.step = "cancel"
          /\ queue' = "none" /\ manager' = Idle
       \/ /\ <<manager.stage, manager.step>> \in {<<"settling", "moderate">>, <<"delaying", "decide">>}
          /\ queue' = Requeued("waiting") /\ manager' = Idle
    /\ UNCHANGED <<card, nkt, worker, announced, resubmits, faults>>

----------------------------------------------------------------------------
\* The server stops and forgets what is under way, or an error of the database
\* ends the worker's step or the form.
Stop ==
    /\ faults < MaxFaults
    /\ \/ worker # Idle /\ worker' = Idle /\ manager' \in {manager, Idle}
       \/ manager # Idle /\ manager' = Idle /\ worker' = worker
    /\ faults' = faults + 1
    /\ UNCHANGED <<card, queue, nkt, announced, resubmits>>

Work == ReadCard \/ Call \/ Record \/ Requeue

Next ==
    \/ \E id \in Ids : Moderate(id) \/ Vanish(id)
    \/ FillQueue \/ Unlock \/ Claim \/ Work
    \/ \E p \in Passports : SavePassport(p)
    \/ OpenResubmit \/ OpenCall("decide") \/ OpenCall("cancel")
    \/ Submit \/ Resubmit \/ FormCall \/ FormWrite \/ FormQueue
    \/ Stop

Spec == Init /\ [][Next]_vars

\* The jobs run on timers, every call of the client ends within its timeout, and
\* locks expire; nothing is asked of people or of the catalogue.
FairSpec ==
    /\ Spec
    /\ WF_vars(FillQueue) /\ WF_vars(Unlock) /\ WF_vars(Claim) /\ WF_vars(Work)

----------------------------------------------------------------------------
\* "A request number on the card forbids a second request for it under any
\* circumstances" (stepValidateAndSubmit): the worker decides on a card it read
\* earlier, while people change it.
OneRequest ==
    [][\A id \in Ids : nkt[id] = "absent" /\ nkt'[id] = "new"
           => card.request = None]_vars

Completed == card.request # None /\ nkt[card.request] = "completed"

Strays == {id \in Ids : /\ nkt[id] \notin {"absent", "gone"} /\ id # card.request
                        /\ ~(worker.stage = "answered" /\ worker.seen.request = id)}

\* Requests the catalogue has and the card does not know of are no more than the
\* answers lost and the times the server stopped before storing a number.
StraysAreExplained == Cardinality(Strays) <= faults

\* 1C is told of an NTIN only when the card's request is completed, and that
\* request stays the card's (assignNtin).
NtinIsEarned ==
    announced \/ card.status = "HAS_NTIN"
        => Completed

\* Nothing is forgotten: a card the worker is to act on does not stay where it is,
\* lost calls, stops and expired locks only delay it (FillQueue, claim, fail); and a
\* request completed while the card is in moderation is noticed, also when the card
\* was not put back in the queue (Resubmit, FillQueue).
CardMovesOn ==
    LET waits == card.status \in {"NEW", "NEED_REGISTRATION", "REQUEST_CREATED"}
        overlooked == card.status = "MODERATION" /\ Completed
    IN (waits ~> ~waits) /\ (overlooked ~> card.status # "MODERATION")
=============================================================================
