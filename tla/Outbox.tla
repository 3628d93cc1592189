------------------------------- MODULE Outbox -------------------------------
(***************************************************************************)
(* The queue of messages to 1C (internal/integration).  A message is       *)
(* written with the change it announces; a flush reads a batch of due      *)
(* messages, sends them one after the other and writes back what came of   *)
(* each.  The ticker of the server and the administrator's button may      *)
(* flush at the same time: nothing claims a message.  1C is external: it   *)
(* takes a message once, whatever number of times it is sent.              *)
(***************************************************************************)
EXTENDS Integers, FiniteSets

CONSTANTS Messages,     \* a set of numbers: the order of created_at
          Flushers,     \* concurrent calls of FlushOutbox
          Ticker,       \* the one of them the server runs every five minutes
          MaxAttempts,  \* maxAttempts
          Limit,        \* how many messages a flush is asked to take
          CancelOf,     \* the production.cancelled of a production.completed (itself: none)
          MaxRetries,   \* bound: presses of the Retry button
          MaxStops      \* bound: flushes that die half way

ASSUME OutboxAssumption ==
    /\ Messages \subseteq Nat /\ IsFiniteSet(Messages)
    /\ Ticker \in Flushers
    /\ MaxAttempts \in Nat \ {0} /\ Limit \in [Flushers -> Nat \ {0}]
    /\ CancelOf \in [Messages -> Messages]
    /\ MaxRetries \in Nat /\ MaxStops \in Nat

VARIABLES
    row,      \* outbox_messages
    got,      \* the messages 1C has taken
    work,     \* what each flush is doing
    failed,   \* observation: failed deliveries of a message that were recorded
    overlapped,  \* observation: two flushes have been under way at once
    retries, stops

outboxVars == <<row, got, work, failed, overlapped, retries, stops>>

Absent == [status |-> "absent", attempts |-> 0, wait |-> 0]
Open == {"PENDING", "FAILED"}

Row == [status : {"absent", "PENDING", "SENT", "FAILED", "DEAD"}, attempts : Nat, wait : Nat]

NoFlush == [phase |-> "idle"]
Work == {NoFlush} \cup
        [phase : {"sending", "accepted", "refused"}, left : SUBSET Messages,
         seen : [Messages -> Nat]]

OutboxTypeOK ==
    /\ row \in [Messages -> Row]
    /\ got \subseteq Messages
    /\ work \in [Flushers -> Work]
    /\ failed \in [Messages -> Nat]
    /\ overlapped \in BOOLEAN
    /\ retries \in Nat /\ stops \in Nat

OutboxInit ==
    /\ row = [m \in Messages |-> Absent]
    /\ got = {}
    /\ work = [f \in Flushers |-> NoFlush]
    /\ failed = [m \in Messages |-> 0]
    /\ overlapped = FALSE
    /\ retries = 0 /\ stops = 0

\* Minutes until a message that failed is due again.
BackoffMinutes(attempt) == IF attempt >= 4 THEN 16 ELSE <<1, 2, 4, 8>>[attempt + 1]

----------------------------------------------------------------------------
\* The row is inserted in the transaction of the change it announces.  A
\* cancellation is only posted by an order whose completion is committed.
Enqueue(m) ==
    /\ row[m].status = "absent"
    /\ \A c \in Messages \ {m} : CancelOf[c] = m => row[c].status # "absent"
    /\ row' = [row EXCEPT ![m] = [status |-> "PENDING", attempts |-> 0, wait |-> 0]]
    /\ UNCHANGED <<got, work, failed, overlapped, retries, stops>>

\* The delay of a failed message runs out.
Elapse(m) ==
    /\ row[m].status = "FAILED" /\ row[m].wait > 0
    /\ row' = [row EXCEPT ![m].wait = 0]
    /\ UNCHANGED <<got, work, failed, overlapped, retries, stops>>

Due_PendingOnly == {m \in Messages : row[m].status = "PENDING"}
Due == {m \in Messages : row[m].status \in Open /\ row[m].wait = 0}

\* The oldest due messages, as many as the limit admits.
Batch(limit) == {m \in Due : Cardinality({n \in Due : n < m}) < limit}

Sending(left, seen) == [phase |-> "sending", left |-> left, seen |-> seen]

\* A flush reads the rows it is going to send and holds no lock on them.
Begin(f) ==
    /\ work[f] = NoFlush /\ Batch(Limit[f]) # {}
    /\ work' = [work EXCEPT ![f] =
          Sending(Batch(Limit[f]), [m \in Messages |-> row[m].attempts])]
    /\ overlapped' = (overlapped \/ \E g \in Flushers \ {f} : work[g] # NoFlush)
    /\ UNCHANGED <<row, got, failed, retries, stops>>

IsHead(f, m) == m \in work[f].left /\ \A n \in work[f].left : m <= n

\* 1C answers 2xx.
Accept(f, m) ==
    /\ work[f].phase = "sending" /\ IsHead(f, m)
    /\ got' = got \cup {m}
    /\ work' = [work EXCEPT ![f].phase = "accepted"]
    /\ UNCHANGED <<row, failed, overlapped, retries, stops>>

\* 1C refuses or is out of reach; or it takes the message and the answer does
\* not come within the timeout.
Refuse_StatusIgnored(f, m) ==
    /\ work[f].phase = "sending" /\ IsHead(f, m)
    /\ work' = [work EXCEPT ![f].phase = "accepted"]
    /\ UNCHANGED <<row, got, failed, overlapped, retries, stops>>
Refuse(f, m) ==
    /\ work[f].phase = "sending" /\ IsHead(f, m)
    /\ got' \in {got, got \cup {m}}
    /\ work' = [work EXCEPT ![f].phase = "refused"]
    /\ UNCHANGED <<row, failed, overlapped, retries, stops>>

\* A flush ends with its last message.
Onward_HeadKept(f, m) ==
    work' = [work EXCEPT ![f] =
        IF work[f].left = {m} THEN NoFlush ELSE Sending(work[f].left, work[f].seen)]
Onward(f, m) ==
    work' = [work EXCEPT ![f] =
        IF work[f].left = {m} THEN NoFlush ELSE Sending(work[f].left \ {m}, work[f].seen)]

\* The row is written by its id, whatever it has become since it was read.
WriteSent(f, m) ==
    /\ work[f].phase = "accepted" /\ IsHead(f, m)
    /\ row' = [row EXCEPT ![m] =
          [status |-> "SENT", attempts |-> work[f].seen[m] + 1, wait |-> @.wait]]
    /\ Onward(f, m)
    /\ UNCHANGED <<got, failed, overlapped, retries, stops>>

\* The database refuses to record the success: that is a failed delivery too.
SentNotWritten(f) ==
    /\ work[f].phase = "accepted" /\ stops < MaxStops
    /\ work' = [work EXCEPT ![f].phase = "refused"]
    /\ stops' = stops + 1
    /\ UNCHANGED <<row, got, failed, overlapped, retries>>

AfterFailure_Early(n) ==
    IF n + 1 >= MaxAttempts THEN [status |-> "DEAD", attempts |-> n, wait |-> 0]
    ELSE [status |-> "FAILED", attempts |-> n, wait |-> BackoffMinutes(n)]
AfterFailure(n) ==
    IF n >= MaxAttempts THEN [status |-> "DEAD", attempts |-> n, wait |-> 0]
    ELSE [status |-> "FAILED", attempts |-> n, wait |-> BackoffMinutes(n)]

WriteFailed(f, m) ==
    /\ work[f].phase = "refused" /\ IsHead(f, m)
    /\ row' = [row EXCEPT ![m] = AfterFailure(work[f].seen[m] + 1)]
    /\ failed' = [failed EXCEPT ![m] = @ + 1]
    /\ Onward(f, m)
    /\ UNCHANGED <<got, overlapped, retries, stops>>

\* The server stops, the administrator's request is gone or the database
\* refuses to record a failure: the rest of the batch stays as it was read.
Stop(f) ==
    /\ work[f] # NoFlush /\ stops < MaxStops
    /\ work' = [work EXCEPT ![f] = NoFlush]
    /\ stops' = stops + 1
    /\ UNCHANGED <<row, got, failed, overlapped, retries>>

\* The administrator puts a message back, whatever its status.
Retry(m) ==
    /\ row[m].status # "absent" /\ retries < MaxRetries
    /\ row' = [row EXCEPT ![m] = [status |-> "PENDING", attempts |-> 0, wait |-> 0]]
    /\ retries' = retries + 1
    /\ UNCHANGED <<got, work, failed, overlapped, stops>>

Step(f) ==
    \/ \E m \in Messages : Accept(f, m) \/ Refuse(f, m) \/ WriteSent(f, m) \/ WriteFailed(f, m)
    \/ SentNotWritten(f)
    \/ Stop(f)

OutboxNext ==
    \/ \E m \in Messages : Enqueue(m) \/ Elapse(m) \/ Retry(m)
    \/ \E f \in Flushers : Begin(f) \/ Step(f)

\* Time passes, the ticker comes round, and a flush under way goes on: every
\* send ends by its timeout.  Nobody has to press a button.
Fairness ==
    /\ \A m \in Messages : WF_outboxVars(Elapse(m))
    /\ WF_outboxVars(Begin(Ticker))
    /\ \A f \in Flushers : WF_outboxVars(Step(f))

OutboxSpec == OutboxInit /\ [][OutboxNext]_outboxVars
FairSpec == OutboxSpec /\ Fairness

----------------------------------------------------------------------------
\* A message the journal shows as sent has reached 1C, however many flushes,
\* retries and lost answers lie behind it (FlushOutbox).
SentWasTaken == \A m \in Messages : row[m].status = "SENT" => m \in got

\* No message is given up before MaxAttempts deliveries of it have failed,
\* though attempts are counted from what each flush has read.
DeadHasFailed == \A m \in Messages : row[m].status = "DEAD" => failed[m] >= MaxAttempts

\* Every message comes to an end, sent or given up, also when several flushes
\* overwrite each other's attempts and when the limit leaves it out of a batch; and
\* as long as no two flushes have overlapped, what is settled stays so unless
\* somebody presses Retry: no late write of a flush reopens a message or buries one
\* that was sent.
Settled(m) == row[m].status \in {"absent", "SENT", "DEAD"}
SettledStays ==
    [][\A m \in Messages :
          row[m].status \in {"SENT", "DEAD"} /\ retries' = retries /\ ~overlapped
              => row'[m] = row[m]]_outboxVars
EveryMessageSettles == (\A m \in Messages : []<>Settled(m)) /\ SettledStays
============================================================================
