--------------------------- MODULE ContractorWork ---------------------------
(***************************************************************************)
(* Works given to contractors: a request for a batch of work, its way to   *)
(* Bitrix24, the allocation of what was done to orders and the act whose   *)
(* sum the orders share (pages/Production/ContractorWork over              *)
(* api/contractorRequests and the handlers behind it).  Handlers run       *)
(* without a transaction, statement by statement, next to those of other   *)
(* people, and tabs act on rows they have read earlier.                    *)
(***************************************************************************)
EXTENDS Integers, FiniteSets, Functions

CONSTANTS
    Users, CanEdit, CanAllocate, CanAccept, CanCancel,   \* people at the screen, by role
    Requests, Orders,  \* requests of one kind of work, orders it is done for
    Docs, DocSums,     \* supplier orders of 1C, the sums it may give them
    Shares,            \* parts of the work of an order, in per cent
    Amounts,           \* sums typed by hand
    MaxQty,            \* bound: quantity of a batch
    MaxCalls,          \* bound: calls to the server
    Nothing

ASSUME ContractorAssumption ==
    /\ CanEdit \cup CanAllocate \cup CanAccept \cup CanCancel \subseteq Users
    /\ Shares \subseteq 1..100 /\ Amounts \cup DocSums \subseteq Nat
    /\ MaxQty \in Nat /\ MaxCalls \in Nat
    /\ Nothing \notin Docs /\ Nothing \notin Requests /\ Requests \cap Orders = {}

VARIABLES
    reqs,      \* contractor_requests
    works,     \* contractor_works: a finite function of the ids of the rows
    tabs,      \* what each person's tab has cached and selected
    call,      \* the call of each person under way
    calls,     \* calls so far, and the id of the row the last of them may insert
    torn,      \* observation: a redistribution of the request stopped half way
    crossed    \* observation: requests and orders two calls were at work on at one time

server == <<reqs, works>>
vars == <<server, tabs, call, calls, torn, crossed>>

Statuses == {"none", "DRAFT", "SENT", "ACCEPTED", "ALLOCATED", "CANCELLED"}
Request == [status: Statuses, ready: BOOLEAN, sent: BOOLEAN, accepted: Nat, amount: Nat, doc: Docs \cup {Nothing}]
Work == [request: Requests \cup {Nothing}, order: Orders, qty: Nat, share: Shares,
         amount: Int, at: Nat, accepted: BOOLEAN]
Blank == [status |-> "none", ready |-> FALSE, sent |-> FALSE, accepted |-> 0, amount |-> 0, doc |-> Nothing]
Idle == [kind |-> "none", on |-> {}]

\* The rows of a request, those of one of its orders, and what is read of them;
\* a row given from the card of an order has no request.
Rows(r) == {i \in DOMAIN works : works[i].request = r}
Same(r, o) == {i \in Rows(r) : works[i].order = o}
Spread(S) == [i \in S |-> [order |-> works[i].order, qty |-> works[i].qty, at |-> works[i].at]]
Allocated(s) == SumFunctionOnSet([i \in DOMAIN s |-> s[i].qty], DOMAIN s)

\* The share of an order that is given away, by requests and directly, but for
\* the rows about to be replaced.
takenShare(o, S) ==
    SumFunctionOnSet([i \in DOMAIN works |-> works[i].share], {i \in DOMAIN works \ S : works[i].order = o})

\* What the buttons of the list go by.
Shown(r) == [status |-> reqs[r].status, sent |-> reqs[r].sent, open |-> reqs[r].accepted = 0 /\ Rows(r) = {}]
List == [r \in Requests |-> Shown(r)]

TypeOK ==
    /\ reqs \in [Requests -> Request]
    /\ IsFiniteSet(DOMAIN works) /\ DOMAIN works \subseteq 1..calls
    /\ \A i \in DOMAIN works : works[i] \in Work /\ (works[i].request # Nothing => works[i].qty > 0)
    /\ calls \in 0..MaxCalls /\ torn \in [Requests -> BOOLEAN] /\ crossed \subseteq Requests \cup Orders

Init ==
    /\ reqs = [r \in Requests |-> Blank] /\ works = [i \in {} |-> Blank]
    /\ tabs = [u \in Users |-> [list |-> List, detail |-> [r \in Requests |-> Nothing], selected |-> {}]]
    /\ call = [u \in Users |-> Idle] /\ calls = 0 /\ torn = [r \in Requests |-> FALSE]
    /\ crossed = {}

(***************************************************************************)
(* Splitting a sum by quantities, over the whole they are parts of: the    *)
(* row decided last takes the rest, unless something of the whole is not   *)
(* allocated: that is a part of its own, thrown away with the rest.        *)
(***************************************************************************)
Rounded(total, q, sum) == (2 * total * q + sum) \div (2 * sum)
Last(s) == CHOOSE i \in DOMAIN s : \A j \in DOMAIN s : s[j].at <= s[i].at
splitAmount(total, sum, s) ==
    LET part == [i \in DOMAIN s |-> Rounded(total, s[i].qty, sum)]
        rest == total - SumFunctionOnSet(part, DOMAIN s \ {Last(s)})
    IN IF sum > Allocated(s) THEN part
       ELSE [i \in DOMAIN s |-> IF i = Last(s) THEN rest ELSE part[i]]

Parts_NoTail(total, accepted, s) == splitAmount(total, Allocated(s), s)
Parts(total, accepted, s) ==
    splitAmount(total, IF accepted > Allocated(s) THEN accepted ELSE Allocated(s), s)

\* What the modal of the act shows, with the arithmetic of the tab itself.
Preview_OfAllocated(amount, qty, s) == Parts(amount, Allocated(s), s)
Preview(amount, qty, s) == Parts(amount, qty, s)

(***************************************************************************)
(* The tab.  The list comes back every minute and after a call of its own, *)
(* the card of a request when a panel or the modal of the act opens.       *)
(***************************************************************************)
FetchList(u) ==
    /\ call[u] = Idle /\ tabs[u].list # List
    /\ tabs' = [tabs EXCEPT ![u].list = List]
    /\ UNCHANGED <<server, call, calls, torn, crossed>>
FetchDetail(u, r) ==
    /\ call[u] = Idle /\ tabs[u].list[r].status # "none" /\ tabs[u].detail[r] # Spread(Rows(r))
    /\ tabs' = [tabs EXCEPT ![u].detail[r] = Spread(Rows(r))]
    /\ UNCHANGED <<server, call, calls, torn, crossed>>

\* A tick stays when the row stops being a draft under it; all ticks are sent, if
\* there is a draft in the list.  Ticks of who may not send are left out.
Toggle(u, r) ==
    /\ u \in CanEdit /\ tabs[u].list[r].status = "DRAFT"
    /\ tabs' = [tabs EXCEPT ![u].selected = IF r \in @ THEN @ \ {r} ELSE @ \cup {r}]
    /\ UNCHANGED <<server, call, calls, torn, crossed>>
Drafts(u) == {r \in tabs[u].selected : reqs[r].status = "DRAFT"}

Alive(u, r) == tabs[u].list[r].status \notin {"none", "CANCELLED"} /\ reqs[r].status # "CANCELLED"

(***************************************************************************)
(* A call: the handler reads and checks, then writes step by step.  A      *)
(* refused call changes nothing and is left out.  Nothing is locked: calls *)
(* may meet on a request, or on the shares of an order.                    *)
(***************************************************************************)
UnderWay == UNION {call[v].on : v \in Users}
Begin(u, c) ==
    /\ call[u] = Idle /\ calls < MaxCalls /\ calls' = calls + 1
    /\ call' = [call EXCEPT ![u] = c] /\ crossed' = crossed \cup (c.on \cap UnderWay)
    /\ UNCHANGED <<server, tabs, torn>>
Step(u, step) == call' = [call EXCEPT ![u].step = step] /\ UNCHANGED <<tabs, calls, torn, crossed>>

\* The answer invalidates the lists of the tab, which are read again at once.
End(u) ==
    /\ call' = [call EXCEPT ![u] = Idle]
    /\ tabs' = [tabs EXCEPT ![u].list = List']
    /\ UNCHANGED <<calls, crossed>>
At(u, kind, step) == call[u].kind = kind /\ call[u].step = step

\* The form names who does the work and at what price, or leaves that for later.
Create(u, r) ==
    /\ u \in CanEdit /\ reqs[r].status = "none" /\ call[u] = Idle /\ calls < MaxCalls
    /\ calls' = calls + 1
    /\ \E ready \in BOOLEAN : reqs' = [reqs EXCEPT ![r].status = "DRAFT", ![r].ready = ready]
    /\ UNCHANGED <<works, call, torn, crossed>>
    /\ tabs' = [tabs EXCEPT ![u].list = List']

(***************************************************************************)
(* What Update, Allocate, RemoveAllocation and Accept end with: the act    *)
(* and the rows are read, then each row is written the part it takes, in   *)
(* the order they were decided.  Without an act nothing is written.        *)
(***************************************************************************)
Redistributes(u, step) ==
    call[u].kind \in {"update", "allocate", "remove", "accept"} /\ call[u].step = step
RedistributeRead(u) ==
    LET r == call[u].r
        s == Spread(Rows(r))
    IN /\ Redistributes(u, "split")
       /\ call' = [call EXCEPT ![u].step = "write", ![u].read = s,
                      ![u].left = IF reqs[r].accepted = 0 THEN {} ELSE DOMAIN s,
                      ![u].parts = Parts(reqs[r].amount, reqs[r].accepted, s)]
       /\ UNCHANGED <<server, tabs, calls, torn, crossed>>
RedistributeWrite(u) ==
    LET c == call[u] IN
    /\ Redistributes(u, "write")
    /\ \E i \in c.left :
        /\ \A j \in c.left : c.read[i].at <= c.read[j].at
        /\ works' = [j \in DOMAIN works |->
                        IF j = i THEN [works[j] EXCEPT !.amount = c.parts[i]] ELSE works[j]]
        /\ call' = [call EXCEPT ![u].left = @ \ {i}]
    /\ UNCHANGED <<reqs, tabs, calls, torn, crossed>>
Redistributed(u) == Redistributes(u, "write") /\ call[u].left = {}
Whole(u) == torn' = [torn EXCEPT ![call[u].r] = FALSE]

Answer(u) ==
    /\ Redistributed(u) /\ call[u].kind # "allocate"
    /\ UNCHANGED server /\ Whole(u) /\ End(u)

\* The form of the request sends every field, the price and the contractor too;
\* rows that are allocated already get them.
BeginUpdate(u, r) ==
    /\ u \in CanEdit /\ Alive(u, r)
    /\ \E ready \in BOOLEAN :
        Begin(u, [kind |-> "update", on |-> {r}, step |-> "head", r |-> r, ready |-> ready, rows |-> Rows(r) # {},
                  read |-> Nothing, left |-> {}, parts |-> Nothing])
UpdateHead(u) ==
    LET c == call[u] IN
    /\ At(u, "update", "head")
    /\ reqs' = [reqs EXCEPT ![c.r].ready = c.ready] /\ UNCHANGED works
    /\ IF c.rows THEN Step(u, "split") ELSE End(u) /\ UNCHANGED torn

\* One deal for all the drafts among the ticked rows; it is made in Bitrix24 first,
\* and nothing here knows of it before the rows are written.
BeginSend(u) ==
    /\ u \in CanEdit /\ Drafts(u) # {} /\ \E r \in Requests : tabs[u].list[r].status = "DRAFT"
    /\ Begin(u, [kind |-> "send", on |-> Drafts(u), step |-> "deal", rows |-> Drafts(u)])
SendDeal(u) ==
    /\ At(u, "send", "deal")
    /\ UNCHANGED server /\ Step(u, "head")
SendHead(u) ==
    /\ At(u, "send", "head")
    /\ reqs' = [r \in Requests |-> IF r \in call[u].rows
                                   THEN [reqs[r] EXCEPT !.status = "SENT", !.sent = TRUE] ELSE reqs[r]]
    /\ UNCHANGED <<works, calls, torn, crossed>>
    /\ call' = [call EXCEPT ![u] = Idle]
    /\ tabs' = [tabs EXCEPT ![u].list = List', ![u].selected = {}]

(***************************************************************************)
(* Allocation of a quantity and a share of the work to an order.  A second *)
(* one to the same order updates the row and is decided anew.              *)
(***************************************************************************)
QtyFits_Replaced(r, o, qty) == reqs[r].accepted = 0 \/ qty <= reqs[r].accepted
QtyFits(r, o, qty) ==
    reqs[r].accepted = 0 \/ Allocated(Spread(Rows(r) \ Same(r, o))) + qty <= reqs[r].accepted
ShareFits_DirectForgotten(o, id, share) ==
    takenShare(o, {id} \cup {i \in DOMAIN works : works[i].request = Nothing}) + share <= 100
ShareFits(o, id, share) == takenShare(o, {id}) + share <= 100

BeginAllocate(u, r) ==
    /\ u \in CanAllocate /\ Alive(u, r) /\ reqs[r].ready
    /\ \E o \in Orders, qty \in 1..MaxQty, share \in Shares :
        \E id \in IF Same(r, o) = {} THEN {calls + 1} ELSE Same(r, o) :
            /\ QtyFits(r, o, qty) /\ ShareFits(o, id, share)
            /\ Begin(u, [kind |-> "allocate", on |-> {r, o}, step |-> "row", r |-> r, o |-> o, qty |-> qty, share |-> share,
                         id |-> id, new |-> Same(r, o) = {}, status |-> reqs[r].status, acted |-> reqs[r].accepted > 0,
                         read |-> Nothing, left |-> {}, parts |-> Nothing])

\* now(): later than what has been decided so far.
Ats == {works[i].at : i \in DOMAIN works}
Now == IF Ats = {} THEN 1 ELSE 1 + CHOOSE m \in Ats : \A n \in Ats : n <= m
Put(i, row) == works' = [j \in DOMAIN works \cup {i} |-> IF j = i THEN row ELSE works[j]]

AllocateRow(u) ==
    LET c == call[u] IN
    /\ At(u, "allocate", "row")
    /\ c.new \/ c.id \in DOMAIN works   \* a row removed meanwhile fails the call
    /\ Put(c.id, [request |-> c.r, order |-> c.o, qty |-> c.qty, share |-> c.share,
                  amount |-> IF c.new THEN 0 ELSE works[c.id].amount, at |-> Now, accepted |-> FALSE])
    /\ UNCHANGED reqs /\ Step(u, "split")
\* The status that was read is written back, ALLOCATED once the act is in.
AllocateStatus(u) ==
    LET c == call[u] IN
    /\ Redistributed(u) /\ c.kind = "allocate"
    /\ reqs' = IF c.status \in {"DRAFT", "SENT", "ACCEPTED"}
               THEN [reqs EXCEPT ![c.r].status = IF c.acted THEN "ALLOCATED" ELSE c.status]
               ELSE reqs
    /\ UNCHANGED works /\ Whole(u) /\ End(u)

BeginRemove(u, r) ==
    /\ u \in CanAllocate /\ tabs[u].detail[r] # Nothing
    /\ \E i \in DOMAIN tabs[u].detail[r] \cap Rows(r) :
        Begin(u, [kind |-> "remove", on |-> {r}, step |-> "row", r |-> r, id |-> i,
                  read |-> Nothing, left |-> {}, parts |-> Nothing])
Delete(id) == works' = [i \in DOMAIN works \ {id} |-> works[i]]
RemoveRow(u) ==
    /\ At(u, "remove", "row")
    /\ Delete(call[u].id) /\ UNCHANGED reqs /\ Step(u, "split")

(***************************************************************************)
(* The act.  The modal shows how the sum falls on the orders, from the     *)
(* card it has; a supplier order of 1C brings its sum, which may be typed  *)
(* over, and is offered only once the request has gone to Bitrix24.  The   *)
(* sum is read twice, with the card and, unless it was typed over, when    *)
(* the act is in; the sync and the imports of 1C rewrite it at any moment, *)
(* so that each time it may be any of DocSums.                             *)
(***************************************************************************)
FreeDocs(r) == {d \in Docs : \A q \in Requests \ {r} : reqs[q].doc # d}
Bases(u, r) ==
    LET docs == IF tabs[u].list[r].sent THEN FreeDocs(r) ELSE {} IN
    {[doc |-> d, asked |-> a, amount |-> a] : d \in docs \cup {Nothing}, a \in Amounts}
    \cup {[doc |-> d, asked |-> a, amount |-> b] : d \in docs, a \in DocSums, b \in DocSums}

Covers(qty, S) == Allocated(Spread(S)) <= qty

BeginAccept(u, r) ==
    /\ u \in CanAccept /\ Alive(u, r) /\ tabs[u].detail[r] # Nothing
    /\ \E qty \in 1..MaxQty, b \in Bases(u, r) :
        /\ Allocated(tabs[u].detail[r]) <= qty
        /\ Covers(qty, Rows(r))
        /\ Begin(u, [kind |-> "accept", on |-> {r}, step |-> "head", r |-> r, qty |-> qty, base |-> b,
                     status |-> IF Rows(r) # {} /\ Allocated(Spread(Rows(r))) >= qty
                                THEN "ALLOCATED" ELSE "ACCEPTED",
                     card |-> tabs[u].detail[r], shown |-> Preview(b.asked, qty, tabs[u].detail[r]),
                     read |-> Nothing, left |-> {}, parts |-> Nothing])
\* One supplier order, one request; the column is unique.
AcceptHead(u) ==
    LET c == call[u] IN
    /\ At(u, "accept", "head")
    /\ c.base.doc = Nothing \/ c.base.doc \in FreeDocs(c.r)
    /\ reqs' = [reqs EXCEPT ![c.r].status = c.status, ![c.r].accepted = c.qty,
                    ![c.r].amount = c.base.amount,
                    ![c.r].doc = IF c.base.doc = Nothing THEN @ ELSE c.base.doc]
    /\ UNCHANGED works /\ Step(u, "split")

\* The cross is shown to who may edit, for a row without orders and without an act;
\* the server lets fewer people cancel.
BeginCancel(u, r) ==
    /\ u \in CanEdit \cap CanCancel /\ Alive(u, r) /\ tabs[u].list[r].open
    /\ Rows(r) = {}
    /\ Begin(u, [kind |-> "cancel", on |-> {r}, step |-> "head", r |-> r])
CancelHead(u) ==
    /\ At(u, "cancel", "head")
    /\ reqs' = [reqs EXCEPT ![call[u].r].status = "CANCELLED"]
    /\ UNCHANGED <<works, torn>> /\ End(u)

(***************************************************************************)
(* A contractor is given a share of an order directly, from its card.  The *)
(* row the same contractor has already is looked for among all those of    *)
(* the order, of a request or not, and takes the new share.  A direct row  *)
(* is accepted and removed by itself, a row of a request only there.       *)
(***************************************************************************)
BeginAssign(u, o) ==
    \E share \in Shares, id \in {i \in DOMAIN works : works[i].order = o} \cup {calls + 1} :
        /\ ShareFits(o, id, share)
        /\ Begin(u, [kind |-> "assign", on |-> {o}, step |-> "row", o |-> o, share |-> share,
                     id |-> id, new |-> id \notin DOMAIN works])
AssignRow(u) ==
    LET c == call[u] IN
    /\ At(u, "assign", "row")
    /\ c.new \/ c.id \in DOMAIN works
    /\ Put(c.id, IF c.new THEN [request |-> Nothing, order |-> c.o, qty |-> 0, share |-> c.share,
                                amount |-> 0, at |-> Now, accepted |-> FALSE]
                 ELSE [works[c.id] EXCEPT !.share = c.share])
    /\ call' = [call EXCEPT ![u] = Idle]
    /\ UNCHANGED <<reqs, tabs, calls, torn, crossed>>

Direct == calls < MaxCalls /\ calls' = calls + 1 /\ UNCHANGED <<reqs, tabs, call, torn, crossed>>
AcceptWork(u, i) ==
    /\ Direct /\ u \in CanAllocate /\ works[i].request = Nothing /\ ~works[i].accepted
    /\ Put(i, [works[i] EXCEPT !.accepted = TRUE])
RemoveWork(i) == Direct /\ works[i].request = Nothing /\ Delete(i)

\* The server stops, the connection breaks: the rest of the call is not done.
Drop(u) ==
    /\ call[u] # Idle
    /\ torn' = IF Redistributes(u, "split") \/ (Redistributes(u, "write") /\ call[u].left # {})
               THEN [torn EXCEPT ![call[u].r] = TRUE]
               ELSE IF Redistributed(u) THEN [torn EXCEPT ![call[u].r] = FALSE] ELSE torn
    /\ call' = [call EXCEPT ![u] = Idle]
    /\ UNCHANGED <<server, tabs, calls, crossed>>

TabStep(u) == FetchList(u) \/ (\E r \in Requests : FetchDetail(u, r) \/ Toggle(u, r))
Begins(u) ==
    \/ BeginSend(u) \/ (\E o \in Orders : BeginAssign(u, o))
    \/ \E r \in Requests : Create(u, r) \/ BeginUpdate(u, r) \/ BeginAllocate(u, r)
                           \/ BeginRemove(u, r) \/ BeginAccept(u, r) \/ BeginCancel(u, r)
ServerStep(u) ==
    \/ UpdateHead(u) \/ SendDeal(u) \/ SendHead(u) \/ AllocateRow(u) \/ AllocateStatus(u)
    \/ RemoveRow(u) \/ AcceptHead(u) \/ CancelHead(u) \/ AssignRow(u)
    \/ RedistributeRead(u) \/ RedistributeWrite(u) \/ Answer(u)
Next ==
    \/ \E u \in Users : TabStep(u) \/ Begins(u) \/ ServerStep(u) \/ Drop(u)
                        \/ \E i \in DOMAIN works : AcceptWork(u, i)
    \/ \E i \in DOMAIN works : RemoveWork(i)
Spec == Init /\ [][Next]_vars

(***************************************************************************)
(* Properties.  Handlers check what they have read and lock nothing, so    *)
(* two calls that meet on a request or an order may break all of this;     *)
(* nothing is claimed of one that has been crossed.                        *)
(***************************************************************************)
\* "Принято 12 т — разнести 15 нельзя: подряд посчитался бы дважды": the orders
\* never carry more of a request than its act says was done, and nothing of a
\* request that was cancelled.
OrdersWithinAct ==
    /\ TypeOK
    /\ \A r \in Requests \ crossed :
        /\ reqs[r].accepted > 0 => Allocated(Spread(Rows(r))) <= reqs[r].accepted
        /\ reqs[r].status = "CANCELLED" => Rows(r) = {}

\* Whatever stopped half way before, the next allocation, removal or act leaves the
\* sum of the act exactly on the orders, and nobody pays for what is not allocated:
\* an order carries its part to half a unit for each order there is.
MoneyAddsUp ==
    \A r \in Requests \ (crossed \cup UnderWay) : ~torn[r] /\ reqs[r].accepted > 0 =>
        /\ Allocated(Spread(Rows(r))) = reqs[r].accepted /\ Rows(r) # {}
           => SumFunctionOnSet([i \in Rows(r) |-> works[i].amount], Rows(r)) = reqs[r].amount
        /\ \A i \in Rows(r) : 2 * works[i].amount * reqs[r].accepted
               <= 2 * reqs[r].amount * works[i].qty + reqs[r].accepted * Cardinality(Rows(r))

\* An order never has more than the whole of a kind of work given away, by requests
\* and directly together.
WholeWork == \A o \in Orders \ crossed : takenShare(o, {}) <= 100

\* "Предпросмотр акта обязан показать те же копейки, которые запишутся", unless the
\* allocation has changed since the card was read, or 1C has changed the sum the modal
\* took from it: when the call of an act has written its rows they carry the sums the
\* modal showed.
ShownIsWritten ==
    \A u \in Users : Redistributed(u) /\ call[u].kind = "accept" /\ call[u].r \notin crossed
                     /\ call[u].card = Spread(Rows(call[u].r))
                     /\ call[u].base.amount = call[u].base.asked
        => \A i \in Rows(call[u].r) : works[i].amount = call[u].shown[i]
=============================================================================
