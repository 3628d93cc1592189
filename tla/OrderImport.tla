---------------------------- MODULE OrderImport ----------------------------
(***************************************************************************)
(* The scripts an operator runs over customers and orders while the ERP is *)
(* in use: the import of the files 1C exports (prisma/import-1c-csv.ts),   *)
(* the supplement of acts, managers and exact payments                     *)
(* (import-extras.ts), the removal of doubled lines                        *)
(* (dedupe-order-lines.ts) and the wipe with the refill from a live 1C     *)
(* (go-live.ts).  No script opens a transaction around its work, so each   *)
(* statement is an action of its own, the shop works between any two, and  *)
(* a script may stop anywhere and be run again.                            *)
(***************************************************************************)
EXTENDS Integers, FiniteSets, Sequences

CONSTANTS
    Docs,        \* customer orders as documents of 1C
    Number,      \* document -> its number; the series restarts every year
    Year, Day,   \* document -> when it was written
    Row,         \* document -> its place among the rows of an export
    Amount,      \* document -> its sum
    Copies,      \* document -> how many lines it has (of one item and price)
    Printed,     \* document -> its rows in the file of lines; those without a quantity,
                 \* which become no lines, are among them
    Client,      \* document -> the customer as this document spells it
    Org,         \* spelling -> the organisation (normalised words, contractorKey)
    HasBin,      \* organisations whose card in 1C has a BIN
    ActNumber,   \* document -> what names its act: its number and, where the act names
                 \* its order, the number of that
    ReleaseNumber, \* document -> the number of the release of its goods
    PayDay,      \* document -> the day its payment came
    Paying,      \* bound: documents whose payments occur
    NoOne,       \* no order, no customer
    MaxRuns,     \* bound: scripts started
    MaxShop,     \* bound: actions of the shop and the managers
    MaxExports,  \* bound: new exports from 1C
    Says         \* bound: statuses of 1C that occur

Names == {Client[d] : d \in Docs}
Orgs  == {Org[n] : n \in Names}

Statuses1C == {"DRAFT", "CONFIRMED", "CLOSED", "CANCELLED"}

ASSUME ImportAssumption ==
    /\ IsFiniteSet(Docs) /\ MaxRuns \in Nat /\ MaxShop \in Nat /\ MaxExports \in Nat
    /\ Says \subseteq Statuses1C /\ HasBin \subseteq Orgs
    /\ Copies \in [Docs -> Nat] /\ Printed \in [Docs -> Nat]
    /\ \A d \in Docs : Copies[d] <= Printed[d]
    /\ Amount \in [Docs -> Nat]
    /\ Day \in [Docs -> Nat] /\ PayDay \in [Docs -> Nat] /\ Row \in [Docs -> Nat]
    /\ \A d, e \in Docs : Row[d] = Row[e] => d = e
    /\ NoOne \notin Docs \cup Names \cup Orgs

Abs(x) == IF x < 0 THEN -x ELSE x

(***************************************************************************)
(* What the files say.  1C prints no year in a number: documents whose     *)
(* numbers collide in one file get the year appended, and a counter within *)
(* a year; a number that does not collide is kept as it is.                *)
(***************************************************************************)
Bare(n) == <<n, 0, 1>>
SameNumber(d, file) == {e \in file : Number[e] = Number[d]}
\* Sorted by date, equal dates as they stand in the file.
Before(e, d) == Day[e] < Day[d] \/ (Day[e] = Day[d] /\ Row[e] < Row[d])
Earlier(d, file) == {e \in SameNumber(d, file) : Year[e] = Year[d] /\ Before(e, d)}

Key_NumberOnly(d, file) == Bare(Number[d])
Key(d, file) ==
    IF SameNumber(d, file) = {d} THEN Bare(Number[d])
    ELSE <<Number[d], Year[d], Cardinality(Earlier(d, file)) + 1>>

Keys == {Bare(Number[d]) : d \in Docs}
        \cup {<<Number[d], Year[d], i>> : d \in Docs, i \in 1..Cardinality(Docs)}

\* Lines carry a number and no date.  Under a colliding number the file is cut
\* where the line counter restarts, and each block goes to the document of the
\* nearest sum; when blocks and documents differ in number, no line is placed.
Blocks(d, file) == {e \in SameNumber(d, file) : Printed[e] > 0}
Placed(d, file) ==
    /\ Printed[d] > 0
    /\ SameNumber(d, file) = {d} \/ Blocks(d, file) = SameNumber(d, file)

\* A payment names the number of a document only: the nearest by date gets it.
Nearest(d, file) ==
    {e \in SameNumber(d, file) :
        \A f \in SameNumber(d, file) : Abs(Day[e] - PayDay[d]) <= Abs(Day[f] - PayDay[d])}
FuzzyPaid(e, file, payments) ==
    Cardinality({d \in payments \cap file : e = CHOOSE c \in Nearest(d, file) : TRUE})

\* The exact file of payments spells the number of the order, so a payment goes
\* to the order that carries the bare number, if any.
ExactPaid(n, payments) == Cardinality({d \in payments : Number[d] = n})

\* BIN of a customer the import creates: the real one from the file of contractors
\* the run was given (--contractors, which may be left out), or a code made of the
\* exact spelling.  A customer of that file gets the name it has there.
RealBin(o) == <<"bin", o>>
CodeBin(n) == <<"code", n>>
Bin_CodeAlways(n, listed) == CodeBin(n)
Bin(n, listed) == IF Org[n] \in listed THEN RealBin(Org[n]) ELSE CodeBin(n)
NewName(n, listed) == IF Org[n] \in listed THEN Org[n] ELSE n
Bins == {RealBin(o) : o \in Orgs} \cup {CodeBin(n) : n \in Names}

ShopStatuses == {"IN_PRODUCTION", "READY_TO_SHIP", "CANCELLED", "CLOSED"}
OWNED_BY_1C == {"NEW", "DRAFT", "CONFIRMED"}

ActNumbers == {ActNumber[d] : d \in Docs}
ReleaseNumbers == {ReleaseNumber[d] : d \in Docs}

VARIABLES
    file,       \* documents in the export on disk
    says,       \* document -> status in that export
    payments,   \* documents whose payment is in the export
    customers,  \* BIN -> name, or NoOne
    orders,     \* key -> row of the order with its lines and marks, or NoOne
    acts,       \* number of an act -> lines written of it, or NoOne
    fg,         \* number of a release -> movements under it, each with the run that wrote it
    script,     \* the running script: name, step, work left, what it has read
    runs, shop, exports, \* counters of the bounds
    imported,   \* the file of the last import that ran to its end undisturbed
    ours,       \* orders outside OWNED_BY_1C ever since the script started
    unlisted    \* organisations an import ran without the BIN of, since the base
                \* last had no customers

data == <<customers, orders, acts, fg>>
world == <<file, says, payments, exports>>
vars == <<data, world, script, runs, shop, imported, ours, unlisted>>

MaxLine == 2 * (IF Docs = {} THEN 0
                ELSE Copies[CHOOSE d \in Docs : \A e \in Docs : Copies[e] <= Copies[d]])
LineIds == 1..MaxLine
NoFile == {NoOne}

Order == [doc : Docs, status : OWNED_BY_1C \cup ShopStatuses,
          paid : 0..Cardinality(Docs), manager : BOOLEAN,
          lines : SUBSET LineIds, marks : SUBSET LineIds]

\* NoOne is not a row, a status or a number of lines.
ASSUME NoOneAssumption == NoOne \notin Order \cup OWNED_BY_1C \cup ShopStatuses \cup Nat

Idle == [name |-> "none", step |-> "end", todo |-> {}, held |-> NoOne, listed |-> {},
         met |-> {}, since |-> 0]
Steps == {"end", "wipe", "customers", "read", "write", "clear", "lines", "pay", "managers",
          "acts", "actLines", "fg", "exact", "marks", "delete", "sync"}

Existing == {k \in Keys : orders[k] # NoOne}
LineRows == {r \in Keys \X LineIds : r[1] \in Existing /\ r[2] \in orders[r[1]].lines}

TypeOK ==
    /\ file \subseteq Docs /\ payments \subseteq Docs /\ says \in [Docs -> Statuses1C]
    /\ customers \in [Bins -> Names \cup Orgs \cup {NoOne}]
    /\ orders \in [Keys -> Order \cup {NoOne}]
    /\ \A k \in Existing : orders[k].marks \subseteq orders[k].lines
    /\ acts \in [ActNumbers -> Nat \cup {NoOne}]
    /\ fg \in [ReleaseNumbers -> SUBSET (Nat \X (Docs \X Docs \X LineIds))]
    /\ script.name \in {"none", "import", "extras", "dedupe", "golive"}
    /\ script.step \in Steps
    /\ runs \in 0..MaxRuns /\ exports \in 0..MaxExports /\ shop \in 0..MaxShop /\ ours \subseteq Keys
    /\ unlisted \subseteq HasBin

NewOrder(d, lines) ==
    [doc |-> d, status |-> says[d], paid |-> 0, manager |-> FALSE,
     lines |-> lines, marks |-> {}]

(***************************************************************************)
(* The base is empty, or was filled by the import as it was before lines   *)
(* were replaced, twice over the same file (every line doubled), with a    *)
(* file of contractors or without.                                         *)
(***************************************************************************)
Init ==
    /\ \E d \in Docs : file = {d} /\ says = [e \in Docs |-> "CONFIRMED"]
        /\ \/ /\ orders = [k \in Keys |-> NoOne] /\ customers = [b \in Bins |-> NoOne]
              /\ unlisted = {}
           \/ \E listed \in SUBSET HasBin :
              /\ customers = [b \in Bins |-> IF b = Bin(Client[d], listed)
                                            THEN NewName(Client[d], listed) ELSE NoOne]
              /\ orders = [k \in Keys |-> IF k = Bare(Number[d])
                                         THEN NewOrder(d, 1..(2 * Copies[d])) ELSE NoOne]
              /\ unlisted = HasBin \ listed
    /\ payments = {}
    /\ acts = [a \in ActNumbers |-> NoOne] /\ fg = [n \in ReleaseNumbers |-> {}]
    /\ script = Idle /\ runs = 0 /\ shop = 0 /\ exports = 0 /\ imported = NoFile /\ ours = {}

(***************************************************************************)
(* Around the scripts: 1C is exported anew, the shop marks lines, a        *)
(* manager cancels, the server takes an order over from a live 1C.         *)
(***************************************************************************)
NewExport ==
    /\ script = Idle /\ exports < MaxExports /\ exports' = exports + 1
    /\ \E f \in SUBSET Docs \ {{}} : file' = f
    /\ payments' \in SUBSET (file' \cap Paying)
    /\ \E d \in Docs, s \in Says : says' \in {says, [says EXCEPT ![d] = s]}
    /\ UNCHANGED <<data, script, runs, shop, imported>>

ByMarks(o) ==
    IF o.marks = o.lines THEN "READY_TO_SHIP"
    ELSE IF o.marks # {} THEN "IN_PRODUCTION" ELSE "CONFIRMED"

Shop(k) ==
    /\ shop < MaxShop /\ shop' = shop + 1 /\ k \in Existing
    /\ \/ /\ orders[k].status \in {"CONFIRMED", "IN_PRODUCTION", "READY_TO_SHIP"}
          /\ \E l \in orders[k].lines :
               LET o == [orders[k] EXCEPT !.marks = (@ \ {l}) \cup ({l} \ @)]
               IN orders' = [orders EXCEPT ![k] = [o EXCEPT !.status = ByMarks(o)]]
       \/ /\ orders[k].status \notin {"CANCELLED", "CLOSED"}
          /\ orders' = [orders EXCEPT ![k].status = "CANCELLED"]
    /\ UNCHANGED <<customers, acts, fg, world, script, runs, imported>>

\* A customer is found by the BIN 1C gives, and takes the name 1C has for it; or by
\* that name, and takes the BIN; or is created.
ByName(n) == {b \in Bins : customers[b] = n}
UpsertCustomer(n) ==
    LET real == RealBin(Org[n])
        found == IF customers[real] # NoOne THEN {real} ELSE ByName(n) IN
    IF Org[n] \notin HasBin
    THEN customers' = IF found # {} THEN customers ELSE [customers EXCEPT ![CodeBin(n)] = n]
    ELSE IF found = {} THEN customers' = [customers EXCEPT ![real] = n]
    ELSE \E b \in found : customers' = [customers EXCEPT ![b] = NoOne, ![real] = n]

\* The order is created under its bare number.
Taken(d) ==
    /\ UpsertCustomer(Client[d])
    /\ orders' = [orders EXCEPT ![Bare(Number[d])] =
                    IF @ # NoOne THEN @ ELSE NewOrder(d, 1..Copies[d])]

LiveSync(d) ==
    /\ shop < MaxShop /\ shop' = shop + 1
    /\ orders[Bare(Number[d])] = NoOne /\ Taken(d)
    /\ UNCHANGED <<acts, fg, world, script, runs, imported>>

Start(name, step, todo, held, listed) ==
    /\ script = Idle /\ runs < MaxRuns /\ runs' = runs + 1
    /\ script' = [Idle EXCEPT !.name = name, !.step = step, !.todo = todo, !.held = held,
                              !.listed = listed, !.since = shop]

Goto(step, todo, held) == [script EXCEPT !.step = step, !.todo = todo, !.held = held]

\* The machine stops, the base refuses a statement, or the operator interrupts.
Crash ==
    /\ script # Idle /\ script' = Idle
    /\ UNCHANGED <<data, world, runs, shop, imported>>

(***************************************************************************)
(* The wipe: one deleteMany per table, children before parents.  Only      *)
(* customers have rows that forbid their deletion (orders and acts); the   *)
(* other references cascade or are set to null.                            *)
(***************************************************************************)
WipeOrder_CustomersFirst == <<"acts", "customers", "marks", "fg", "lines", "orders">>
WipeOrder == <<"acts", "marks", "fg", "lines", "orders", "customers">>

AfterWipe ==
    IF script.name = "import" THEN Goto("customers", {Client[d] : d \in file}, NoOne)
    ELSE Goto("sync", {Number[d] : d \in file}, [ok |-> {}, failed |-> {}])

NoRows == [k \in Keys |-> NoOne]
Without(f) == [k \in Keys |-> IF orders[k] = NoOne THEN NoOne ELSE f[k]]

Refused == Head(script.held) = "customers" /\ (Existing # {} \/ \E a \in ActNumbers : acts[a] # NoOne)

Wipe ==
    /\ script.step = "wipe" /\ ~Refused
    /\ LET t == Head(script.held) IN
       /\ acts' = IF t = "acts" THEN [a \in ActNumbers |-> NoOne] ELSE acts
       /\ fg' = IF t = "fg" THEN [n \in ReleaseNumbers |-> {}] ELSE fg
       /\ customers' = IF t = "customers" THEN [b \in Bins |-> NoOne] ELSE customers
       /\ orders' = CASE t = "orders" -> NoRows
                      [] t = "marks" -> Without([k \in Existing |->
                                            [orders[k] EXCEPT !.marks = {}]])
                      [] t = "lines" -> Without([k \in Existing |->
                                            [orders[k] EXCEPT !.lines = {}, !.marks = {}]])
                      [] OTHER -> orders
    /\ script' = IF Len(script.held) = 1 THEN AfterWipe
                 ELSE [script EXCEPT !.held = Tail(@)]
    /\ UNCHANGED <<world, runs, shop, imported>>

\* The key of the table refuses, the script ends with the base half wiped.
WipeRefused ==
    /\ script.step = "wipe" /\ Refused /\ script' = Idle
    /\ UNCHANGED <<data, world, runs, shop, imported>>

(***************************************************************************)
(* import-1c-csv: customers, orders, lines, payments.                      *)
(***************************************************************************)
StartImport ==
    /\ \E listed \in SUBSET HasBin :
        \/ Start("import", "customers", {Client[d] : d \in file}, NoOne, listed)
        \/ Start("import", "wipe", {}, WipeOrder, listed)
    /\ imported' = NoFile /\ UNCHANGED <<data, world, shop>>

\* Found among the names this run has met by its normalised words, then by its exact
\* name, then by BIN; created otherwise.
Known(n) == (\E m \in script.met : Org[m] = Org[n]) \/ ByName(n) # {}

ImportCustomer(n) ==
    /\ script.step = "customers" /\ n \in script.todo
    /\ LET b == Bin(n, script.listed)
           rest == script.todo \ {n} IN
       /\ customers' = IF Known(n) \/ customers[b] # NoOne THEN customers
                       ELSE [customers EXCEPT ![b] = NewName(n, script.listed)]
       /\ script' = [Goto(IF rest = {} THEN "read" ELSE "customers",
                          IF rest = {} THEN file ELSE rest, NoOne)
                     EXCEPT !.met = IF rest = {} THEN {} ELSE @ \cup {n}]
    /\ UNCHANGED <<orders, acts, fg, world, runs, shop, imported>>

\* The status is read first and the row written by a later statement.
ReadOrder(d) ==
    /\ script.step = "read" /\ d \in script.todo
    /\ script' = Goto("write", script.todo,
                      [doc |-> d, seen |-> IF orders[Key(d, file)] = NoOne THEN NoOne
                                           ELSE orders[Key(d, file)].status])
    /\ UNCHANGED <<data, world, runs, shop, imported>>

TakeStatus_Always(seen) == TRUE
TakeStatus(seen) == seen = NoOne \/ seen \in OWNED_BY_1C

Rewritten(o, d) ==
    [o EXCEPT !.doc = d,
              !.status = IF TakeStatus(script.held.seen) THEN says[d] ELSE o.status]

WriteOrder ==
    /\ script.step = "write"
    /\ LET d == script.held.doc
           rest == script.todo \ {d} IN
       /\ orders' = [orders EXCEPT ![Key(d, file)] =
                        IF @ = NoOne
                        THEN NewOrder(d, {})
                        ELSE Rewritten(@, d)]
       /\ script' = Goto(IF rest = {} THEN "clear" ELSE "read", rest, NoOne)
    /\ UNCHANGED <<customers, acts, fg, world, runs, shop, imported>>

FileLines == {r \in file \X LineIds : Placed(r[1], file) /\ r[2] <= Copies[r[1]]}
Touched == {Key(d, file) : d \in {e \in file : Placed(e, file)}}
ToPay == {d \in file : FuzzyPaid(d, file, payments) > 0}

AfterLines(todo) ==
    IF todo # {} THEN Goto("lines", todo, NoOne)
    ELSE IF ToPay # {} THEN Goto("pay", ToPay, NoOne) ELSE Idle

\* Lines of the touched orders go in one statement; the marks of the shop, the
\* costings and the contractor works of a line go with it (onDelete: Cascade).
ClearLines_None(o) == o
ClearLines(o) == [o EXCEPT !.lines = {}, !.marks = {}]
ReplaceLines ==
    /\ script.step = "clear"
    /\ orders' = [k \in Keys |-> IF k \in Touched THEN ClearLines(orders[k]) ELSE orders[k]]
    /\ script' = AfterLines(FileLines)
    /\ imported' = IF script' = Idle THEN file ELSE imported
    /\ UNCHANGED <<customers, acts, fg, world, runs, shop>>

\* Rows of one loop touch different rows of the base; their order in the file is
\* immaterial and fixed here.
First(S) == CHOOSE x \in S : TRUE

NewLine(o) == CHOOSE l \in LineIds : l \notin o.lines \/ o.lines = LineIds
AddLine ==
    /\ script.step = "lines"
    /\ LET k == Key(First(script.todo)[1], file) IN
       orders' = [orders EXCEPT ![k].lines = @ \cup {NewLine(orders[k])}]
    /\ script' = AfterLines(script.todo \ {First(script.todo)})
    /\ imported' = IF script' = Idle THEN file ELSE imported
    /\ UNCHANGED <<customers, acts, fg, world, runs, shop>>

\* Orders no payment of the file names keep what they had.
PayFuzzy ==
    /\ script.step = "pay"
    /\ LET d == First(script.todo) IN
       /\ orders' = [orders EXCEPT ![Key(d, file)].paid = FuzzyPaid(d, file, payments)]
       /\ script' = IF script.todo = {d} THEN Idle ELSE [script EXCEPT !.todo = @ \ {d}]
    /\ imported' = IF script' = Idle THEN file ELSE imported
    /\ UNCHANGED <<customers, acts, fg, world, runs, shop>>

(***************************************************************************)
(* import-extras: managers, acts with their lines, releases of finished    *)
(* goods, exact payments.  Orders are looked up by the bare number.        *)
(***************************************************************************)
Numbered == {n \in {Number[d] : d \in file} : orders[Bare(n)] # NoOne}
\* An act without a BIN of its customer is passed over.
ActsDue == {d \in file : Copies[d] > 0 /\ Org[Client[d]] \in HasBin}

StartExtras ==
    /\ Start("extras", "managers", Numbered, NoOne, {})
    /\ UNCHANGED <<data, world, shop, imported>>

LinkManager ==
    /\ script.step = "managers"
    /\ \/ /\ script.todo = {} /\ script' = Goto("acts", ActsDue, NoOne) /\ UNCHANGED orders
       \/ \E n \in {m \in script.todo : m = First(script.todo)} :
            /\ orders' = [orders EXCEPT ![Bare(n)] =
                             IF @ = NoOne THEN @ ELSE [@ EXCEPT !.manager = TRUE]]
            /\ script' = [script EXCEPT !.todo = @ \ {n}]
    /\ UNCHANGED <<customers, acts, fg, world, runs, shop, imported>>

\* An act that exists is passed over, whatever lines it has.  An act has the lines
\* of all documents under its number.
ActRows(a, f) == {r \in f \X LineIds : ActNumber[r[1]] = a /\ r[2] <= Copies[r[1]]}

WriteAct(d) ==
    /\ script.step = "acts" /\ d \in script.todo
    /\ LET b == RealBin(Org[Client[d]])
           a == ActNumber[d] IN
       IF acts[a] # NoOne
       THEN /\ script' = [script EXCEPT !.todo = @ \ {d}]
            /\ UNCHANGED <<customers, acts>>
       ELSE IF customers[b] = NoOne
       THEN /\ customers' = [customers EXCEPT ![b] = Client[d]]
            /\ UNCHANGED <<acts, script>>
       ELSE /\ acts' = [acts EXCEPT ![a] = IF @ = NoOne THEN 0 ELSE @]
            /\ script' = Goto("actLines", script.todo,
                              [doc |-> d, left |-> Cardinality(ActRows(a, file))])
            /\ UNCHANGED customers
    /\ UNCHANGED <<orders, fg, world, runs, shop, imported>>

WriteActLine ==
    /\ script.step = "actLines"
    /\ LET d == script.held.doc IN
       /\ acts' = [acts EXCEPT ![ActNumber[d]] = @ + 1]
       /\ script' = IF script.held.left > 1 THEN [script EXCEPT !.held.left = @ - 1]
                    ELSE Goto("acts", script.todo \ {d}, NoOne)
    /\ UNCHANGED <<customers, orders, fg, world, runs, shop, imported>>

\* A release is told by its number alone: each document writes the lines of all
\* documents under its number.  Numbers with any movement at the start of the step
\* are passed over; those this run writes are not added to them.
ReleaseRows(n, f) ==
    {r \in f \X f \X LineIds :
        ReleaseNumber[r[1]] = n /\ ReleaseNumber[r[2]] = n /\ r[3] <= Copies[r[2]]}
NewReleases_All == ReleaseNumbers
NewReleases == {n \in ReleaseNumbers : fg[n] = {}}

ActsDone ==
    /\ script.step = "acts" /\ script.todo = {}
    /\ script' = Goto("fg", UNION {ReleaseRows(n, file) : n \in NewReleases}, NoOne)
    /\ UNCHANGED <<data, world, runs, shop, imported>>

WriteRelease ==
    /\ script.step = "fg"
    /\ IF script.todo = {} THEN script' = Goto("exact", Numbered, NoOne) /\ UNCHANGED fg
       ELSE LET r == First(script.todo) IN
            /\ fg' = [fg EXCEPT ![ReleaseNumber[r[1]]] = @ \cup {<<runs, r>>}]
            /\ script' = [script EXCEPT !.todo = @ \ {r}]
    /\ UNCHANGED <<customers, orders, acts, world, runs, shop, imported>>

PayExact ==
    /\ script.step = "exact"
    /\ \/ script.todo = {} /\ script' = Idle /\ UNCHANGED orders
       \/ \E n \in {m \in script.todo : m = First(script.todo)} :
            /\ orders' = [orders EXCEPT ![Bare(n)] =
                   IF @ # NoOne /\ ExactPaid(n, payments) > 0
                   THEN [@ EXCEPT !.paid = ExactPaid(n, payments)] ELSE @]
            /\ script' = [script EXCEPT !.todo = @ \ {n}]
    /\ UNCHANGED <<customers, acts, fg, world, runs, shop, imported>>

(***************************************************************************)
(* dedupe-order-lines: one query chooses the second half of every group of *)
(* equal lines with an even number of copies; the deletion goes in chunks, *)
(* the marks of a chunk before its lines.  A chunk is one line here: the   *)
(* ids are random, so a boundary of 500 may fall anywhere in a group.      *)
(***************************************************************************)
Doomed(k) ==
    {S \in SUBSET orders[k].lines :
        Cardinality(S) = IF Cardinality(orders[k].lines) % 2 = 0
                         THEN Cardinality(orders[k].lines) \div 2 ELSE 0}

StartDedupe ==
    /\ \E S \in SUBSET LineRows :
        /\ \A k \in Existing : {r[2] : r \in {q \in S : q[1] = k}} \in Doomed(k)
        /\ S # {} /\ Start("dedupe", "marks", S, NoOne, {})
    /\ imported' = NoFile /\ UNCHANGED <<data, world, shop>>

DeleteMarks(k, l) ==
    /\ script.step = "marks" /\ <<k, l>> \in script.todo
    /\ orders' = [orders EXCEPT ![k].marks = @ \ {l}]
    /\ script' = Goto("delete", script.todo, <<k, l>>)
    /\ UNCHANGED <<customers, acts, fg, world, runs, shop, imported>>

DeleteLine ==
    /\ script.step = "delete"
    /\ LET k == script.held[1]
           l == script.held[2]
           rest == script.todo \ {<<k, l>>} IN
       /\ orders' = [orders EXCEPT ![k].lines = @ \ {l}, ![k].marks = @ \ {l}]
       /\ script' = IF rest = {} THEN Idle ELSE Goto("marks", rest, NoOne)
    /\ UNCHANGED <<customers, acts, fg, world, runs, shop, imported>>

(***************************************************************************)
(* go-live: after a ping of 1C, the wipe on demand, then one order after   *)
(* another through the server.  A refused order or procurement is reported *)
(* and the loop goes on.                                                   *)
(***************************************************************************)
StartGoLive ==
    /\ \/ Start("golive", "wipe", {}, WipeOrder, {})
       \/ Start("golive", "sync", {Number[d] : d \in file}, [ok |-> {}, failed |-> {}], {})
    /\ imported' = NoFile /\ UNCHANGED <<data, world, shop>>

SyncOrder(d) ==
    /\ script.step = "sync" /\ d \in file /\ Number[d] \in script.todo
    /\ \/ Taken(d)
       \/ UNCHANGED <<customers, orders>>
    /\ \E outcome \in {"ok", "failed"} :
        /\ outcome = "ok" => orders'[Bare(Number[d])] # NoOne
        /\ LET report == IF outcome = "ok"
                         THEN [script.held EXCEPT !.ok = @ \cup {Number[d]}]
                         ELSE [script.held EXCEPT !.failed = @ \cup {Number[d]}]
           IN script' = Goto("sync", script.todo \ {Number[d]}, report)
    /\ UNCHANGED <<acts, fg, world, runs, shop, imported>>

SyncDone ==
    /\ script.step = "sync" /\ script.todo = {} /\ script' = Idle
    /\ UNCHANGED <<data, world, runs, shop, imported>>

Outside(os) == {k \in Keys : os[k] # NoOne /\ os[k].status \notin OWNED_BY_1C}

ScriptStep ==
    \/ Wipe \/ WipeRefused
    \/ \E n \in Names : ImportCustomer(n)
    \/ \E d \in Docs : ReadOrder(d) \/ WriteAct(d) \/ SyncOrder(d)
    \/ WriteOrder \/ ReplaceLines
    \/ AddLine \/ PayFuzzy
    \/ LinkManager \/ WriteActLine \/ ActsDone \/ WriteRelease \/ PayExact
    \/ \E k \in Keys, l \in LineIds : DeleteMarks(k, l)
    \/ DeleteLine \/ SyncDone

Next ==
    /\ \/ NewExport \/ \E k \in Keys : Shop(k)
       \/ \E d \in Docs : LiveSync(d)
       \/ StartImport \/ StartExtras \/ StartDedupe \/ StartGoLive \/ Crash
       \/ ScriptStep
    /\ ours' = IF script' = Idle THEN {}
               ELSE IF script = Idle THEN Outside(orders')
               ELSE ours \cap Outside(orders')
    /\ unlisted' = (IF \A b \in Bins : customers'[b] = NoOne THEN {} ELSE unlisted)
                   \cup (IF script'.name = "import" THEN HasBin \ script'.listed ELSE {})

Spec == Init /\ [][Next]_vars

(***************************************************************************)
(* Properties.                                                             *)
(***************************************************************************)
\* "Импорт обязан быть повторяемым": however often the import was stopped or run
\* before, after a run to the end an order has the lines of its document, once.
LinesAsInFile ==
    imported # NoFile =>
        \A d \in imported : Placed(d, imported) =>
            Cardinality(orders[Key(d, imported)].lines) = Copies[d]

\* Documents that share a number do not overwrite each other: after an import
\* every document of the file has an order of its own.
EveryDocumentHasItsOrder ==
    imported # NoFile =>
        \A d \in imported : LET o == orders[Key(d, imported)] IN o # NoOne /\ o.doc = d

\* The base stays well-formed, and a wipe is refused by a foreign key only when the
\* server wrote meanwhile.
WipeIsInOrder == TypeOK /\ (script.step = "wipe" /\ Refused => shop > script.since)

\* An organisation with a BIN has one customer, whichever script or server call met
\* it first and however it was spelt, unless an import ran without its BIN.
CanonicalClientOnce ==
    \A o \in HasBin \ unlisted :
        Cardinality({b \in Bins : customers[b] # NoOne /\
                        (b = RealBin(o) \/ (b[1] = "code" /\ Org[b[2]] = o))}) <= 1

\* A script never takes back the status of an order that was outside the hands
\* of 1C ever since the script started, and the clean-up of doubled lines never
\* takes the last copy of a line.
ShopIsSpared ==
    /\ [][\A k \in ours : script # Idle /\ shop' = shop /\ orders'[k] # NoOne =>
              orders'[k].status = orders[k].status]_vars
    /\ [][\A k \in Existing : script.name = "dedupe" /\ orders[k].lines # {} =>
              orders'[k] # NoOne /\ orders'[k].lines # {}]_vars

\* However often the supplement is stopped and run again, and whatever is exported
\* between, an act gets no more lines than the documents under its number have, and
\* the movements under the number of a release are of one run, which wrote each line
\* of each document once.
NothingWrittenTwice ==
    /\ \A a \in ActNumbers : acts[a] # NoOne => acts[a] <= Cardinality(ActRows(a, Docs))
    /\ \A n \in ReleaseNumbers : \A x, y \in fg[n] : x[1] = y[1]
============================================================================
