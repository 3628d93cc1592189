-------------------------------- MODULE Inbox --------------------------------
(***************************************************************************)
(* Documents arriving from 1C (integration.Receive, ProcessPending) and    *)
(* the receipts they post to the warehouse.  A webhook stores the document *)
(* under its key and then works off the oldest unprocessed documents; so   *)
(* does the administrator's button.  Nothing claims a document.  A posted  *)
(* receipt is applied line by line, each line as MaterialStock receives    *)
(* it: a worker of the inbox is a request of the warehouse.                *)
(***************************************************************************)
EXTENDS Integers, Sequences, FiniteSets

CONSTANTS Requests, Orders, Own, Slots, Quantities, MaxDeaths,  \* MaterialStock
          Documents,    \* keys of documents (GUID of 1C)
          Lines,        \* the quantities on the lines of a document
          Handled,      \* documents of a type that has a handler
          Unknown,      \* lines whose material is not in the catalogue yet
          MaxAttempts,  \* maxAttempts
          Limit,        \* documents taken at a time
          MaxMishaps    \* bound: marks not written, workers stopped, retries pressed

VARIABLES stock, received, issued, batch, job, uncovered, torn, deaths

Stock == INSTANCE MaterialStock

VARIABLES
    row,         \* inbox_messages by key: status and attempts
    arrival,     \* received_at: the place of a document in the order of arrival
    work,        \* what each worker is doing
    missing,     \* lines whose material is not in the catalogue
    applied,     \* observation: receipts carried through for a line
    failed,      \* observation: failures recorded for a document, up to MaxAttempts
    overlapped,  \* observation: two workers have had the same document in hand
    mishaps

stockVars == <<stock, received, issued, batch, job, uncovered, torn, deaths>>
inboxVars == <<row, arrival, work, missing, applied, failed, overlapped, mishaps>>
vars == <<stockVars, inboxVars>>

Stored(d) == row[d].status # "absent"
LineIds == UNION {{<<d, i>> : i \in DOMAIN Lines[d]} : d \in Documents}

ASSUME InboxAssumption ==
    /\ Handled \subseteq Documents
    /\ \A d \in Documents : Lines[d] \in Seq(Quantities \cap (Nat \ {0}))
    /\ Unknown \subseteq LineIds
    /\ MaxAttempts \in Nat \ {0} /\ Limit \in Nat \ {0}
    /\ MaxMishaps \in Nat
    /\ IsFiniteSet(Documents)

Row == [status : {"absent", "PENDING", "PROCESSED", "FAILED", "DEAD", "IGNORED"}, attempts : Nat]
Idle == [phase |-> "idle", left |-> {}, seen |-> [d \in Documents |-> 0], line |-> 0]
Work == [phase : {"idle", "storing", "reading", "working", "failing"},
         left : SUBSET Documents, seen : [Documents -> Nat], line : Nat]

TypeOK ==
    /\ row \in [Documents -> Row]
    /\ arrival \in [Documents -> Nat]
    /\ work \in [Requests -> Work]
    /\ missing \subseteq LineIds
    /\ applied \in [LineIds -> Nat]
    /\ failed \in [Documents -> Nat]
    /\ overlapped \in BOOLEAN
    /\ mishaps \in Nat

Init ==
    /\ Stock!Init
    /\ row = [d \in Documents |-> [status |-> "absent", attempts |-> 0]]
    /\ arrival = [d \in Documents |-> 0]
    /\ work = [w \in Requests |-> Idle]
    /\ missing = Unknown
    /\ applied = [l \in LineIds |-> 0]
    /\ failed = [d \in Documents |-> 0]
    /\ overlapped = FALSE
    /\ mishaps = 0

----------------------------------------------------------------------------
(* Arrival (Handler.Receive, integration.Receive)                          *)

\* A document not known yet; one that is known is answered as a duplicate.
Deliver(w, d) ==
    /\ work[w] = Idle /\ ~Stored(d)
    /\ work' = [work EXCEPT ![w].phase = "storing", ![w].left = {d}]
    /\ UNCHANGED <<stockVars, row, arrival, missing, applied, failed, overlapped, mishaps>>

\* The unique index refuses the second of two deliveries that both looked first.
Store(w) ==
    /\ work[w].phase = "storing"
    /\ \E d \in work[w].left :
          IF Stored(d) THEN work' = [work EXCEPT ![w] = Idle] /\ UNCHANGED <<row, arrival>>
          ELSE /\ row' = [row EXCEPT ![d].status = "PENDING"]
               /\ arrival' = [arrival EXCEPT ![d] = Cardinality({e \in Documents : Stored(e)}) + 1]
               /\ work' = [work EXCEPT ![w] = [Idle EXCEPT !.phase = "reading"]]
    /\ UNCHANGED <<stockVars, missing, applied, failed, overlapped, mishaps>>

\* The administrator has the queue worked off.
Press(w) ==
    /\ work[w] = Idle
    /\ work' = [work EXCEPT ![w].phase = "reading"]
    /\ UNCHANGED <<stockVars, row, arrival, missing, applied, failed, overlapped, mishaps>>

----------------------------------------------------------------------------
(* Working off (ProcessPending, onReceiptPosted)                           *)

Pending_AllButDead == {d \in Documents : row[d].status \notin {"absent", "DEAD", "IGNORED"}}
Pending == {d \in Documents : row[d].status \in {"PENDING", "FAILED"}}

\* The oldest of them are read; nothing marks them as taken.
Oldest == {d \in Pending : Cardinality({e \in Pending : arrival[e] < arrival[d]}) < Limit}

Read(w) ==
    /\ work[w].phase = "reading"
    /\ work' = [work EXCEPT ![w] =
          IF Oldest = {} THEN Idle
          ELSE [phase |-> "working", left |-> Oldest, line |-> 0,
                seen |-> [d \in Documents |-> IF d \in Oldest THEN row[d].attempts ELSE 0]]]
    /\ overlapped' = (overlapped \/ \E v \in Requests \ {w} :
          work[v].phase \in {"working", "failing"} /\ work[v].left \cap Oldest # {})
    /\ UNCHANGED <<stockVars, row, arrival, missing, applied, failed, mishaps>>

InHand(w, d) == d \in work[w].left /\ \A e \in work[w].left : arrival[d] <= arrival[e]

\* The worker goes on with its next document.
Onward(w, d) ==
    work' = [work EXCEPT ![w] =
        IF work[w].left = {d} THEN Idle
        ELSE [phase |-> "working", left |-> work[w].left \ {d}, line |-> 0,
              seen |-> [work[w].seen EXCEPT ![d] = 0]]]

\* A line is resolved to its material and its receipt begins.
BeginLine(w, d) ==
    /\ work[w].phase = "working" /\ InHand(w, d) /\ d \in Handled
    /\ work[w].line < Len(Lines[d]) /\ <<d, work[w].line + 1>> \notin missing
    /\ job[w].phase = "idle"
    /\ Stock!BeginReceipt(w, Lines[d][work[w].line + 1])
    /\ work' = [work EXCEPT ![w].line = work[w].line + 1]
    /\ UNCHANGED <<row, arrival, missing, applied, failed, overlapped, mishaps>>

\* The receipt goes on to its next statement.
ContinueLine(w, d) ==
    /\ work[w].phase = "working" /\ InHand(w, d)
    /\ Stock!ReceiptStep(w)
    /\ applied' = IF job'[w].phase = "idle" THEN [applied EXCEPT ![<<d, work[w].line>>] = @ + 1]
                  ELSE applied
    /\ UNCHANGED <<row, arrival, work, missing, failed, overlapped, mishaps>>

\* An unknown material is an error; the lines before it stay applied.
UnknownMaterial_Skipped(w, d) ==
    /\ work[w].phase = "working" /\ InHand(w, d) /\ d \in Handled /\ job[w].phase = "idle"
    /\ work[w].line < Len(Lines[d]) /\ <<d, work[w].line + 1>> \in missing
    /\ work' = [work EXCEPT ![w].line = work[w].line + 1]
    /\ UNCHANGED <<stockVars, row, arrival, missing, applied, failed, overlapped, mishaps>>
UnknownMaterial_Booked(w, d) ==
    /\ work[w].phase = "working" /\ InHand(w, d) /\ d \in Handled /\ job[w].phase = "idle"
    /\ work[w].line < Len(Lines[d]) /\ <<d, work[w].line + 1>> \in missing
    /\ received' = received + Lines[d][work[w].line + 1]
    /\ work' = [work EXCEPT ![w].phase = "failing"]
    /\ UNCHANGED <<stock, issued, batch, job, uncovered, torn, deaths, row, arrival, missing>>
    /\ UNCHANGED <<applied, failed, overlapped, mishaps>>
UnknownMaterial(w, d) ==
    /\ work[w].phase = "working" /\ InHand(w, d) /\ d \in Handled /\ job[w].phase = "idle"
    /\ work[w].line < Len(Lines[d]) /\ <<d, work[w].line + 1>> \in missing
    /\ work' = [work EXCEPT ![w].phase = "failing"]
    /\ UNCHANGED <<stockVars, row, arrival, missing, applied, failed, overlapped, mishaps>>

\* All lines are applied.
Finished(w, d) ==
    /\ work[w].phase = "working" /\ InHand(w, d) /\ job[w].phase = "idle"
    /\ d \in Handled => work[w].line = Len(Lines[d])

Outcome(d) == IF d \in Handled THEN "PROCESSED" ELSE "IGNORED"

MarkProcessed(w, d) ==
    /\ Finished(w, d)
    /\ row' = [row EXCEPT ![d].status = Outcome(d)]
    /\ Onward(w, d)
    /\ UNCHANGED <<stockVars, arrival, missing, applied, failed, overlapped, mishaps>>

\* The mark cannot be written: that is a failure of the document too.
MarkNotWritten(w, d) ==
    /\ Finished(w, d) /\ mishaps < MaxMishaps
    /\ work' = [work EXCEPT ![w].phase = "failing"]
    /\ mishaps' = mishaps + 1
    /\ UNCHANGED <<stockVars, row, arrival, missing, applied, failed, overlapped>>

\* A statement of the receipt fails, or the server stops in it.
LineDies(w) ==
    /\ work[w].phase = "working" /\ Stock!Die(w)
    /\ \/ work' = [work EXCEPT ![w].phase = "failing"]
       \/ work' = [work EXCEPT ![w] = Idle]
    /\ UNCHANGED <<row, arrival, missing, applied, failed, overlapped, mishaps>>

MarkFailed(w, d) ==
    /\ work[w].phase = "failing" /\ InHand(w, d)
    /\ LET n == work[w].seen[d] + 1
       IN  row' = [row EXCEPT ![d] =
               [status |-> IF n >= MaxAttempts THEN "DEAD" ELSE "FAILED", attempts |-> n]]
    /\ failed' = [failed EXCEPT ![d] = IF @ < MaxAttempts THEN @ + 1 ELSE @]
    /\ Onward(w, d)
    /\ UNCHANGED <<stockVars, arrival, missing, applied, overlapped, mishaps>>

\* The server stops between two statements, or the failure cannot be recorded.
Stop(w) ==
    /\ work[w] # Idle /\ job[w].phase = "idle" /\ mishaps < MaxMishaps
    /\ work' = [work EXCEPT ![w] = Idle]
    /\ mishaps' = mishaps + 1
    /\ UNCHANGED <<stockVars, row, arrival, missing, applied, failed, overlapped>>

----------------------------------------------------------------------------
\* The administrator puts a document back, whatever its status.
Retry(d) ==
    /\ Stored(d) /\ mishaps < MaxMishaps
    /\ row' = [row EXCEPT ![d] = [status |-> "PENDING", attempts |-> 0]]
    /\ mishaps' = mishaps + 1
    /\ UNCHANGED <<stockVars, arrival, work, missing, applied, failed, overlapped>>

\* Somebody enters the material in the catalogue.
AddMaterial(l) ==
    /\ l \in missing
    /\ missing' = missing \ {l}
    /\ UNCHANGED <<stockVars, row, arrival, work, applied, failed, overlapped, mishaps>>

Next ==
    \/ \E w \in Requests : Store(w) \/ Press(w) \/ Read(w) \/ LineDies(w) \/ Stop(w)
    \/ \E w \in Requests, d \in Documents :
          \/ Deliver(w, d) \/ BeginLine(w, d) \/ ContinueLine(w, d) \/ UnknownMaterial(w, d)
          \/ MarkProcessed(w, d) \/ MarkNotWritten(w, d) \/ MarkFailed(w, d)
    \/ \E d \in Documents : Retry(d)
    \/ \E l \in LineIds : AddMaterial(l)

Spec == Init /\ [][Next]_vars

----------------------------------------------------------------------------
LinesOf(d) == {l \in LineIds : l[1] = d}

\* What the journal says is so, whatever failed, overlapped or was retried: a
\* receipt it shows as processed has reached the warehouse with every line
\* (ProcessPending), and a document is given up only after MaxAttempts recorded
\* failures, also when workers write attempts over each other (MarkFailed).
JournalIsTrue ==
    /\ TypeOK
    /\ \A d \in Handled : row[d].status = "PROCESSED" => \A l \in LinesOf(d) : applied[l] > 0
    /\ \A d \in Documents : row[d].status = "DEAD" => failed[d] >= MaxAttempts

\* Delivered any number of times, also at once, a document is applied no more
\* than once, unless an error, a stop, a retry or an overlap came between.
RedeliveryIsHarmless ==
    ~overlapped /\ mishaps = 0 /\ deaths = 0 /\ (\A d \in Documents : failed[d] = 0)
        => \A l \in LineIds : applied[l] <= 1

\* The inbox does to the warehouse what requests of the warehouse may do.
WarehouseFollowed == Stock!Spec
=============================================================================
