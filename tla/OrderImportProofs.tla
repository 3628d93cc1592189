-------------------------- MODULE OrderImportProofs --------------------------
(***************************************************************************)
(* Proofs about OrderImport for any documents, customers and bounds.  The  *)
(* invariant says of every step of a script what it has left to do and     *)
(* what it has already done, so that a script which runs to its end has    *)
(* done the whole of it, whatever the shop wrote between two statements.   *)
(***************************************************************************)
EXTENDS OrderImport, SumProofs, TLAPS

\* The running script keeps the shape it is started with, and each step is a
\* step of one script.
Shaped ==
    script = [name |-> script.name, step |-> script.step, todo |-> script.todo,
              held |-> script.held, listed |-> script.listed, met |-> script.met,
              since |-> script.since]
ImportSteps == {"customers", "read", "write", "clear", "lines", "pay"}
StepsKnown ==
    /\ script.step = "end" => script = Idle
    /\ script.name = "none" => script = Idle
    /\ script.step = "wipe" => script.name \in {"import", "golive"}
    /\ script.step \in ImportSteps => script.name = "import"
    /\ script.step \in {"managers", "acts", "actLines", "fg", "exact"} => script.name = "extras"
    /\ script.step \in {"marks", "delete"} => script.name = "dedupe"
    /\ script.step = "sync" => script.name = "golive"

\* The tables still to wipe end the order of the wipe; those wiped are empty
\* unless the server has written since.
Tables == {"acts", "marks", "fg", "lines", "orders", "customers"}
Remaining(h) ==
    /\ h \in Seq(Tables) /\ Len(h) \in 1..6
    /\ \A j \in 1..Len(h) : h[j] = WipeOrder[j + (6 - Len(h))]
WipeGoesOn ==
    /\ script.since \in Nat /\ script.since <= shop
    /\ script.step = "wipe" =>
        /\ Remaining(script.held)
        /\ shop = script.since =>
            /\ Len(script.held) < 6 => \A a \in ActNumbers : acts[a] = NoOne
            /\ Len(script.held) < 2 => Existing = {}

\* The documents the import has written have their orders; the lines written
\* and those still to write are the lines of the document.
HaveOrders(S, f) == \A d \in S : orders[Key(d, f)] # NoOne /\ orders[Key(d, f)].doc = d
Left(d) == {i \in LineIds : <<d, i>> \in script.todo}
LinesDone(f) == \A d \in f : Placed(d, f) => Cardinality(orders[Key(d, f)].lines) = Copies[d]
ImportGoesOn ==
    /\ script.step \in {"read", "write"} =>
        script.todo \subseteq file /\ HaveOrders(file \ script.todo, file)
    /\ script.step \in {"clear", "lines", "pay"} => HaveOrders(file, file)
    /\ script.step = "lines" =>
        /\ script.todo # {} /\ script.todo \subseteq FileLines
        /\ \A d \in file : Placed(d, file) =>
              Cardinality(orders[Key(d, file)].lines) + Cardinality(Left(d)) = Copies[d]
    /\ script.step = "pay" => script.todo # {} /\ script.todo \subseteq file /\ LinesDone(file)

\* What an order had outside the hands of 1C is not written over.
StatusRead ==
    /\ ours \subseteq Outside(orders)
    /\ script.step = "write" =>
        /\ script.held.doc \in script.todo
        /\ Key(script.held.doc, file) \in ours => ~TakeStatus(script.held.seen)

ImportedStands ==
    imported # NoFile =>
        /\ script.name \notin {"import", "dedupe", "golive"} /\ imported \subseteq Docs
        /\ HaveOrders(imported, imported) /\ LinesDone(imported)

\* Lines of an act written and still to write are those under its number; the
\* movements under the numbers still to write are of this run.
SupplementGoesOn ==
    /\ NothingWrittenTwice
    /\ script.step \in {"managers", "exact"} => script.todo \subseteq {Number[d] : d \in Docs}
    /\ script.step \in {"acts", "actLines"} => script.todo \subseteq ActsDue
    /\ script.step = "actLines" =>
        /\ script.held = [doc |-> script.held.doc, left |-> script.held.left]
        /\ script.held.doc \in script.todo /\ script.held.left \in Nat \ {0}
        /\ acts[ActNumber[script.held.doc]] \in Nat
        /\ acts[ActNumber[script.held.doc]] + script.held.left
             = Cardinality(ActRows(ActNumber[script.held.doc], file))
    /\ script.step = "fg" =>
        /\ script.todo \subseteq Docs \X Docs \X LineIds
        /\ \A r \in script.todo : \A x \in fg[ReleaseNumber[r[1]]] : x[1] = runs

\* A copy of every line is not among those to delete.
CopyStays ==
    script.step \in {"marks", "delete"} =>
        /\ script.todo \subseteq {r \in Keys \X LineIds : r[1] \in Existing}
        /\ \A k \in Existing : orders[k].lines # {} =>
              \E l \in orders[k].lines : <<k, l>> \notin script.todo
        /\ script.step = "delete" => script.held \in script.todo

ImportInv ==
    /\ TypeOK /\ Shaped /\ StepsKnown /\ WipeGoesOn /\ ImportGoesOn
    /\ StatusRead /\ ImportedStands /\ SupplementGoesOn /\ CopyStays

----------------------------------------------------------------------------
(* Keys of documents                                                       *)

\* The documents of one number before a document are fewer than all documents.
LEMMA EarlierFewer ==
  ASSUME NEW f \in SUBSET Docs, NEW d \in f
  PROVE  /\ IsFiniteSet(Earlier(d, f)) /\ Cardinality(Earlier(d, f)) \in Nat
         /\ Cardinality(Docs) \in Nat
         /\ Cardinality(Earlier(d, f)) + 1 \in 1..Cardinality(Docs)
  <1>1. IsFiniteSet(Docs) /\ d \in Docs  BY ImportAssumption
  <1>2. Day[d] \in Nat /\ Row[d] \in Nat  BY <1>1, ImportAssumption
  <1>3. Earlier(d, f) \in SUBSET (Docs \ {d})
    BY <1>2 DEF Earlier, SameNumber, Before
  <1>4. /\ IsFiniteSet(Docs \ {d}) /\ Cardinality(Docs \ {d}) = Cardinality(Docs) - 1
        /\ Cardinality(Docs) \in Nat
    BY <1>1, FS_RemoveElement, FS_CardinalityType
  <1>5. /\ IsFiniteSet(Earlier(d, f)) /\ Cardinality(Earlier(d, f)) \in Nat
        /\ Cardinality(Earlier(d, f)) <= Cardinality(Docs \ {d})
    BY <1>3, <1>4, FS_Subset, FS_CardinalityType
  <1> QED  BY <1>4, <1>5

\* The key of a document in a file is a key of orders.
LEMMA KeyIsKey ==
  ASSUME NEW f \in SUBSET Docs, NEW d \in f
  PROVE  Key(d, f) \in Keys
  <1>1. Cardinality(Earlier(d, f)) + 1 \in 1..Cardinality(Docs)  BY EarlierFewer
  <1>2. <<Number[d], Year[d], Cardinality(Earlier(d, f)) + 1>> \in Keys /\ Bare(Number[d]) \in Keys
    BY <1>1 DEF Keys
  <1> QED  BY <1>2 DEF Key

\* The bare number of a document is a key.
LEMMA BareIsKey == \A d \in Docs : Bare(Number[d]) \in Keys
  BY DEF Keys

\* Two documents of one file have different keys: those of one number and year
\* are counted in the order of their dates and rows.
LEMMA KeysDiffer ==
  ASSUME NEW f \in SUBSET Docs, NEW d \in f, NEW e \in f, Key(d, f) = Key(e, f)
  PROVE  d = e
  <1>1. Number[d] = Number[e]  BY DEF Key, Bare
  <1>2. SUFFICES ASSUME d # e  PROVE FALSE
    OBVIOUS
  <1>3. SameNumber(d, f) # {d} /\ SameNumber(e, f) # {e}
    BY <1>1, <1>2 DEF SameNumber
  <1>4. Year[d] = Year[e] /\ Cardinality(Earlier(d, f)) + 1 = Cardinality(Earlier(e, f)) + 1
    BY <1>3 DEF Key
  <1>5. \A x, y \in f : Before(x, y) /\ Number[x] = Number[y] /\ Year[x] = Year[y]
           => Cardinality(Earlier(x, f)) # Cardinality(Earlier(y, f))
    <2> SUFFICES ASSUME NEW x \in f, NEW y \in f, Before(x, y), Number[x] = Number[y],
                        Year[x] = Year[y], Cardinality(Earlier(x, f)) = Cardinality(Earlier(y, f))
                 PROVE  FALSE
      OBVIOUS
    <2>1. \A z \in f : Day[z] \in Nat /\ Row[z] \in Nat  BY ImportAssumption
    <2>2. Earlier(x, f) \subseteq Earlier(y, f)
      BY <2>1 DEF Earlier, SameNumber, Before
    <2>3. x \in Earlier(y, f) /\ x \notin Earlier(x, f)
      BY <2>1 DEF Earlier, SameNumber, Before
    <2>4. IsFiniteSet(Earlier(y, f))  BY EarlierFewer
    <2> QED  BY <2>2, <2>3, <2>4, FS_Subset
  <1>6. Before(d, e) \/ Before(e, d)
    <2>1. Day[d] \in Nat /\ Day[e] \in Nat /\ Row[d] \in Nat /\ Row[e] \in Nat /\ Row[d] # Row[e]
      BY <1>2, ImportAssumption
    <2> QED  BY <2>1 DEF Before
  <1>7. Cardinality(Earlier(d, f)) \in Nat /\ Cardinality(Earlier(e, f)) \in Nat  BY EarlierFewer
  <1> QED  BY <1>1, <1>4, <1>5, <1>6, <1>7

----------------------------------------------------------------------------
(* Lines                                                                   *)

\* Some document has the most lines.
LEMMA LongestDocument ==
  ASSUME Docs # {}
  PROVE  \E d \in Docs : \A e \in Docs : Copies[e] <= Copies[d]
  <1> DEFINE Longest(d, T) == \A e \in T : Copies[e] <= Copies[d]
             P == {T \in SUBSET Docs : T # {} => \E d \in T : Longest(d, T)}
  <1>0. IsFiniteSet(Docs) /\ \A d \in Docs : Copies[d] \in Nat  BY ImportAssumption
  <1>1. {} \in P  OBVIOUS
  <1>2. ASSUME NEW T \in SUBSET Docs, T # {}, \A x \in T : T \ {x} \in P  PROVE T \in P
    <2>1. PICK x \in T : TRUE  BY <1>2
    <2>2. CASE T \ {x} = {}
      <3>1. T = {x}  BY <2>1, <2>2
      <3>2. Copies[x] <= Copies[x]  BY <1>0
      <3> QED  BY <3>1, <3>2
    <2>3. CASE T \ {x} # {}
      <3>1. PICK y \in T \ {x} : Longest(y, T \ {x})  BY <1>2, <2>1, <2>3
      <3>2. Copies[x] \in Nat /\ Copies[y] \in Nat /\ \A e \in T : Copies[e] \in Nat  BY <1>0
      <3>3. CASE Copies[x] <= Copies[y]
        <4>1. Longest(y, T)  BY <3>1, <3>3
        <4> QED  BY <4>1
      <3>4. CASE ~(Copies[x] <= Copies[y])
        <4>1. Longest(x, T)  BY <3>1, <3>2, <3>4
        <4> QED  BY <2>1, <4>1
      <3> QED  BY <3>3, <3>4
    <2> QED  BY <2>2, <2>3
  <1>3. Docs \in P
    <2> HIDE DEF P
    <2> QED  BY <1>0, <1>1, <1>2, SubsetInduction
  <1> QED  BY <1>3

\* There is room for the lines of every document, doubled.
LEMMA LineBounds ==
  /\ MaxLine \in Nat
  /\ \A d \in Docs : Copies[d] \in Nat /\ 2 * Copies[d] <= MaxLine
  <1>1. CASE Docs = {}  BY <1>1 DEF MaxLine
  <1>2. CASE Docs # {}
    <2> DEFINE top == CHOOSE d \in Docs : \A e \in Docs : Copies[e] <= Copies[d]
    <2>1. top \in Docs /\ \A e \in Docs : Copies[e] <= Copies[top]
      BY <1>2, LongestDocument
    <2>2. MaxLine = 2 * Copies[top]  BY <1>2 DEF MaxLine
    <2> HIDE DEF top
    <2>3. \A d \in Docs : Copies[d] \in Nat  BY ImportAssumption
    <2> QED  BY <2>1, <2>2, <2>3
  <1> QED  BY <1>1, <1>2

\* Sets of lines are finite and no larger than what there is room for.
LEMMA LinesFinite ==
  ASSUME NEW L \in SUBSET LineIds
  PROVE  IsFiniteSet(L) /\ Cardinality(L) \in Nat /\ Cardinality(L) <= MaxLine
  <1>1. IsFiniteSet(LineIds) /\ Cardinality(LineIds) = MaxLine
    BY LineBounds, FS_Interval DEF LineIds
  <1> QED  BY <1>1, FS_Subset, FS_CardinalityType

\* The lines of a document are as many as it has.
LEMMA LinesOfDocument ==
  ASSUME NEW d \in Docs
  PROVE  Cardinality({i \in LineIds : i <= Copies[d]}) = Copies[d]
  <1>0. Copies[d] \in Nat /\ MaxLine \in Nat /\ Copies[d] <= MaxLine  BY LineBounds
  <1>1. {i \in LineIds : i <= Copies[d]} = 1..Copies[d]  BY <1>0 DEF LineIds
  <1>2. \A n \in Nat : Cardinality(1..n) = n  BY FS_Interval
  <1>3. Cardinality(1..Copies[d]) = Copies[d]  BY <1>0, <1>2
  <1> QED  BY <1>1, <1>3

\* A new line of an order that is not full is not among its lines.
LEMMA NewLineIsNew ==
  ASSUME NEW o, o.lines \in SUBSET LineIds, Cardinality(o.lines) < MaxLine
  PROVE  NewLine(o) \in LineIds \ o.lines
  <1>1. o.lines # LineIds
    <2>1. Cardinality(LineIds) = MaxLine  BY LineBounds, FS_Interval DEF LineIds
    <2> QED  BY <2>1, LineBounds
  <1>2. \E l \in LineIds : l \notin o.lines \/ o.lines = LineIds  BY <1>1
  <1> QED  BY <1>1, <1>2 DEF NewLine

----------------------------------------------------------------------------
(* Rows of orders and the running script                                   *)

\* The row of an order that exists.
LEMMA OrderFields ==
  ASSUME TypeOK, NEW k \in Existing
  PROVE  /\ k \in Keys /\ orders[k] \in Order /\ orders[k].doc \in Docs
         /\ orders[k].status \in OWNED_BY_1C \cup ShopStatuses
         /\ orders[k].lines \in SUBSET LineIds /\ orders[k].marks \subseteq orders[k].lines
  BY DEF TypeOK, Existing, Order

\* Writing the row of one order.
LEMMA OrderWritten ==
  ASSUME TypeOK, NEW k \in Keys, NEW o \in Order, o.marks \subseteq o.lines,
         orders' = [orders EXCEPT ![k] = o]
  PROVE  /\ orders' \in [Keys -> Order \cup {NoOne}]
         /\ \A x \in Existing' : orders'[x].marks \subseteq orders'[x].lines
         /\ orders'[k] = o /\ o # NoOne /\ \A x \in Keys : x # k => orders'[x] = orders[x]
         /\ Existing' = Existing \cup {k}
  <1>1. o # NoOne  BY NoOneAssumption
  <1>2. /\ orders' \in [Keys -> Order \cup {NoOne}] /\ orders'[k] = o
        /\ \A x \in Keys : x # k => orders'[x] = orders[x]
    BY DEF TypeOK
  <1>3. Existing' = Existing \cup {k}  BY <1>1, <1>2 DEF Existing
  <1> QED  BY <1>1, <1>2, <1>3, OrderFields

\* A step that keeps every order with its document and its lines.
OrdersKept ==
    \A k \in Existing :
        orders'[k] # NoOne /\ orders'[k].doc = orders[k].doc /\ orders'[k].lines = orders[k].lines

\* It keeps what is said of the documents already written.
LEMMA OrdersKeep ==
  ASSUME TypeOK, OrdersKept, NEW f \in SUBSET Docs
  PROVE  /\ \A S \in SUBSET f : HaveOrders(S, f) =>
              \A d \in S : orders'[Key(d, f)] # NoOne /\ orders'[Key(d, f)].doc = d
         /\ HaveOrders(f, f) =>
              \A d \in f : orders'[Key(d, f)].lines = orders[Key(d, f)].lines
  <1>1. \A d \in f : Key(d, f) \in Keys  BY KeyIsKey
  <1>2. \A S \in SUBSET f : HaveOrders(S, f) => \A d \in S : Key(d, f) \in Existing
    BY <1>1 DEF HaveOrders, Existing
  <1>3. \A S \in SUBSET f : HaveOrders(S, f) =>
              \A d \in S : orders'[Key(d, f)] # NoOne /\ orders'[Key(d, f)].doc = d
    BY <1>2 DEF OrdersKept, HaveOrders
  <1>4. HaveOrders(f, f) => \A d \in f : orders'[Key(d, f)].lines = orders[Key(d, f)].lines
    BY <1>2 DEF OrdersKept
  <1> QED  BY <1>3, <1>4

\* What an import has done stands while every order keeps its lines.
LEMMA ImportedKeep ==
  ASSUME TypeOK, ImportedStands, OrdersKept, imported' = imported \/ imported' = NoFile,
         imported' # NoFile => script'.name \notin {"import", "dedupe", "golive"}
  PROVE  ImportedStands'
  <1> SUFFICES ASSUME imported' # NoFile, imported' = imported  PROVE ImportedStands'
    BY DEF ImportedStands, NoFile
  <1>1. imported # NoFile /\ imported \in SUBSET Docs /\ HaveOrders(imported, imported)
        /\ LinesDone(imported)
    BY DEF ImportedStands, NoFile
  <1>2. HaveOrders(imported, imported)'
    BY <1>1, OrdersKeep DEF HaveOrders
  <1>3. LinesDone(imported)'
    BY <1>1, OrdersKeep DEF LinesDone
  <1> QED  BY <1>1, <1>2, <1>3 DEF ImportedStands, NoFile

\* The script goes to a step.
LEMMA Moved ==
  ASSUME Shaped, NEW step, NEW todo, NEW held, script' = Goto(step, todo, held)
  PROVE  /\ script'.step = step /\ script'.todo = todo /\ script'.held = held
         /\ script'.name = script.name /\ script'.since = script.since
         /\ script'.listed = script.listed /\ Shaped'
  BY DEF Shaped, Goto

\* The script has less to do.
LEMMA TodoMoved ==
  ASSUME Shaped, NEW todo, script' = [script EXCEPT !.todo = todo]
  PROVE  /\ script'.todo = todo /\ script'.step = script.step /\ script'.held = script.held
         /\ script'.name = script.name /\ script'.since = script.since
         /\ script'.listed = script.listed /\ Shaped'
  BY DEF Shaped

\* The script holds something else.
LEMMA HeldMoved ==
  ASSUME Shaped, NEW held, script' = [script EXCEPT !.held = held]
  PROVE  /\ script'.held = held /\ script'.step = script.step /\ script'.todo = script.todo
         /\ script'.name = script.name /\ script'.since = script.since
         /\ script'.listed = script.listed /\ Shaped'
  BY DEF Shaped

\* A script has started.
LEMMA Started ==
  ASSUME NEW name, NEW step, NEW todo, NEW held, NEW listed,
         Start(name, step, todo, held, listed)
  PROVE  /\ script = Idle /\ script.step = "end" /\ script.name = "none"
         /\ script'.name = name /\ script'.step = step /\ script'.todo = todo
         /\ script'.held = held /\ script'.since = shop
         /\ Shaped' /\ runs' = runs + 1 /\ runs < MaxRuns
  BY DEF Start, Idle, Shaped

\* What is remembered of the orders the shop holds is of those there are, and
\* grows only when a script starts.
OursStep == ours' \subseteq Outside(orders') /\ (script # Idle => ours' \subseteq ours)

\* Every step moves it so.
LEMMA OursMove == Next => OursStep
  BY DEF Next, OursStep

----------------------------------------------------------------------------
(* The initial state, and what happens around the scripts                  *)

\* A customer of the files gets a BIN there is, and a name there is.
LEMMA BinsKnown ==
  /\ \A n \in Names : \A listed :
        Bin(n, listed) \in Bins /\ NewName(n, listed) \in Names \cup Orgs
  /\ \A n \in Names : RealBin(Org[n]) \in Bins /\ CodeBin(n) \in Bins /\ Org[n] \in Orgs
  <1>1. \A n \in Names : RealBin(Org[n]) \in Bins /\ CodeBin(n) \in Bins /\ Org[n] \in Orgs
    BY DEF Bins, Orgs
  <1> QED  BY <1>1 DEF Bin, NewName

\* A new row of an order.
LEMMA NewOrderIsOrder ==
  ASSUME says \in [Docs -> Statuses1C], NEW d \in Docs, NEW L \in SUBSET LineIds
  PROVE  /\ NewOrder(d, L) \in Order
         /\ NewOrder(d, L).doc = d
         /\ NewOrder(d, L).lines = L
         /\ NewOrder(d, L).marks = {}
  <1>1. Cardinality(Docs) \in Nat  BY ImportAssumption, FS_CardinalityType
  <1>2. says[d] \in OWNED_BY_1C \cup ShopStatuses
    BY DEF Statuses1C, OWNED_BY_1C, ShopStatuses
  <1> QED  BY <1>1, <1>2 DEF NewOrder, Order

\* The invariant holds of an empty base and of one filled twice.
LEMMA InitHolds == Init => ImportInv
  <1> SUFFICES ASSUME Init  PROVE ImportInv
    OBVIOUS
  <1> USE ImportAssumption
  <1>1. /\ script = Idle /\ runs = 0 /\ shop = 0 /\ exports = 0 /\ imported = NoFile /\ ours = {}
        /\ payments = {} /\ acts = [a \in ActNumbers |-> NoOne] /\ fg = [n \in ReleaseNumbers |-> {}]
    BY DEF Init
  <1>2. PICK d \in Docs :
           /\ file = {d} /\ says = [e \in Docs |-> "CONFIRMED"]
           /\ \/ /\ orders = [k \in Keys |-> NoOne] /\ customers = [b \in Bins |-> NoOne]
                 /\ unlisted = {}
              \/ \E listed \in SUBSET HasBin :
                 /\ customers = [b \in Bins |-> IF b = Bin(Client[d], listed)
                                               THEN NewName(Client[d], listed) ELSE NoOne]
                 /\ orders = [k \in Keys |-> IF k = Bare(Number[d])
                                            THEN NewOrder(d, 1..(2 * Copies[d])) ELSE NoOne]
                 /\ unlisted = HasBin \ listed
    BY DEF Init
  <1>3. says \in [Docs -> Statuses1C]  BY <1>2 DEF Statuses1C
  <1>4. Client[d] \in Names /\ \A listed : NewName(Client[d], listed) \in Names \cup Orgs
    <2>1. Client[d] \in Names  BY DEF Names
    <2> QED  BY <2>1, BinsKnown
  <1>5. customers \in [Bins -> Names \cup Orgs \cup {NoOne}]  BY <1>2, <1>4
  <1>6. unlisted \subseteq HasBin  BY <1>2
  <1> DEFINE o == NewOrder(d, 1..(2 * Copies[d]))
  <1>7. o \in Order /\ o.marks \subseteq o.lines
    <2>1. 1..(2 * Copies[d]) \in SUBSET LineIds  BY LineBounds DEF LineIds
    <2> QED  BY <1>3, <2>1, NewOrderIsOrder
  <1>8. orders = [k \in Keys |-> NoOne] \/ orders = [k \in Keys |-> IF k = Bare(Number[d]) THEN o ELSE NoOne]
    BY <1>2
  <1> HIDE DEF o
  <1>9. /\ orders \in [Keys -> Order \cup {NoOne}]
        /\ \A k \in Existing : orders[k].marks \subseteq orders[k].lines
    BY <1>7, <1>8 DEF Existing
  <1>10. TypeOK
    <2>2. file \subseteq Docs  BY <1>2
    <2>3. /\ acts \in [ActNumbers -> Nat \cup {NoOne}]
          /\ fg \in [ReleaseNumbers -> SUBSET (Nat \X (Docs \X Docs \X LineIds))]
      BY <1>1
    <2>4. 0 \in 0..MaxRuns /\ 0 \in 0..MaxExports /\ 0 \in 0..MaxShop  OBVIOUS
    <2>5. script.name = "none" /\ script.step \in Steps  BY <1>1 DEF Idle, Steps
    <2> QED  BY <1>1, <1>3, <1>5, <1>6, <1>9, <2>2, <2>3, <2>4, <2>5 DEF TypeOK
  <1>11. Shaped /\ StepsKnown  BY <1>1 DEF Idle, Shaped, StepsKnown, ImportSteps
  <1>12. WipeGoesOn  BY <1>1 DEF Idle, WipeGoesOn
  <1>14. ImportGoesOn /\ StatusRead /\ ImportedStands /\ CopyStays
    BY <1>1 DEF Idle, ImportGoesOn, StatusRead, ImportedStands, CopyStays, NoFile
  <1>15. SupplementGoesOn
    <2>1. NothingWrittenTwice  BY <1>1 DEF NothingWrittenTwice
    <2> QED  BY <1>1, <2>1 DEF Idle, SupplementGoesOn
  <1> QED  BY <1>10, <1>11, <1>12, <1>14, <1>15 DEF ImportInv

\* A write of the server or the shop that keeps every order with its lines
\* disturbs no script.
LEMMA AroundHarmless ==
  ASSUME ImportInv, TypeOK', OursStep, OrdersKept, shop' = shop + 1,
         UNCHANGED <<acts, fg, world, script, runs, imported>>
  PROVE  ImportInv'
  <1> USE DEF ImportInv, world
  <1>1. Shaped' /\ StepsKnown'  BY DEF Shaped, StepsKnown
  <1>2. WipeGoesOn'
    <2>1. script.since <= shop /\ script.since \in Nat /\ shop \in Nat
      BY DEF TypeOK, WipeGoesOn
    <2>2. script.since <= shop' /\ shop' # script.since  BY <2>1
    <2> QED  BY <2>1, <2>2 DEF WipeGoesOn
  <1>4. ImportGoesOn'
    <2>1. file \in SUBSET Docs  BY DEF TypeOK
    <2>2. \A S \in SUBSET file : HaveOrders(S, file) => HaveOrders(S, file)'
      BY <2>1, OrdersKeep DEF HaveOrders
    <2>3. HaveOrders(file, file) =>
             \A d \in file : orders'[Key(d, file)].lines = orders[Key(d, file)].lines
      BY <2>1, OrdersKeep
    <2>4. \A d : Left(d)' = Left(d)  BY DEF Left
    <2>5. CASE script.step \in {"read", "write"}
      BY <2>2, <2>5 DEF ImportGoesOn
    <2>6. CASE script.step = "clear"
      BY <2>2, <2>6 DEF ImportGoesOn
    <2>7. CASE script.step = "lines"
      BY <2>2, <2>3, <2>4, <2>7 DEF ImportGoesOn, FileLines
    <2>8. CASE script.step = "pay"
      BY <2>2, <2>3, <2>8 DEF ImportGoesOn, LinesDone
    <2>9. CASE script.step \notin {"read", "write", "clear", "lines", "pay"}
      BY <2>9 DEF ImportGoesOn
    <2> QED  BY <2>5, <2>6, <2>7, <2>8, <2>9
  <1>5. StatusRead'  BY DEF StatusRead, OursStep, Idle
  <1>6. ImportedStands'
    BY ImportedKeep DEF ImportedStands, NoFile
  <1>7. SupplementGoesOn'
    <2>1. \A a : ActRows(a, file)' = ActRows(a, file)  BY DEF ActRows
    <2> QED  BY <2>1 DEF SupplementGoesOn, NothingWrittenTwice, ActsDue
  <1>8. CopyStays'
    <2>1. \A k \in Existing : k \in Existing' /\ orders'[k].lines = orders[k].lines
      BY DEF OrdersKept, Existing
    <2> QED  BY <2>1 DEF CopyStays, Existing
  <1> QED  BY <1>1, <1>2, <1>4, <1>5, <1>6, <1>7, <1>8

\* A mark of the shop and a cancellation keep every order with its lines.
LEMMA ShopKeeps ==
  ASSUME TypeOK, NEW k \in Keys, Shop(k)
  PROVE  /\ orders' \in [Keys -> Order \cup {NoOne}]
         /\ \A x \in Existing' : orders'[x].marks \subseteq orders'[x].lines
         /\ OrdersKept
  <1>1. k \in Existing  BY DEF Shop
  <1>2. /\ orders[k] \in Order /\ orders[k].marks \subseteq orders[k].lines
        /\ orders[k].lines \in SUBSET LineIds /\ orders \in [Keys -> Order \cup {NoOne}]
    BY <1>1, OrderFields DEF TypeOK
  <1>3. PICK o : /\ orders' = [orders EXCEPT ![k] = o] /\ o \in Order
                 /\ o.doc = orders[k].doc /\ o.lines = orders[k].lines /\ o.marks \subseteq o.lines
    <2>1. CASE orders' = [orders EXCEPT ![k].status = "CANCELLED"]
      <3> DEFINE n == [orders[k] EXCEPT !.status = "CANCELLED"]
      <3>1. n \in Order /\ n.doc = orders[k].doc /\ n.lines = orders[k].lines /\ n.marks = orders[k].marks
        BY <1>2 DEF Order, ShopStatuses
      <3>2. orders' = [orders EXCEPT ![k] = n]  BY <2>1
      <3> HIDE DEF n
      <3> QED  BY <1>2, <3>1, <3>2
    <2>2. CASE \E l \in orders[k].lines :
               LET q == [orders[k] EXCEPT !.marks = (@ \ {l}) \cup ({l} \ @)]
               IN orders' = [orders EXCEPT ![k] = [q EXCEPT !.status = ByMarks(q)]]
      <3>1. PICK l \in orders[k].lines :
               LET q == [orders[k] EXCEPT !.marks = (@ \ {l}) \cup ({l} \ @)]
               IN orders' = [orders EXCEPT ![k] = [q EXCEPT !.status = ByMarks(q)]]
        BY <2>2
      <3> DEFINE q == [orders[k] EXCEPT !.marks = (@ \ {l}) \cup ({l} \ @)]
                 n == [q EXCEPT !.status = ByMarks(q)]
      <3>2. q \in Order /\ q.doc = orders[k].doc /\ q.lines = orders[k].lines /\ q.marks \subseteq q.lines
        BY <1>2, <3>1 DEF Order
      <3>3. orders' = [orders EXCEPT ![k] = n]  BY <3>1
      <3> HIDE DEF q
      <3>4. ByMarks(q) \in OWNED_BY_1C \cup ShopStatuses
        BY DEF ByMarks, OWNED_BY_1C, ShopStatuses
      <3>5. n \in Order /\ n.doc = q.doc /\ n.lines = q.lines /\ n.marks = q.marks
        BY <3>2, <3>4 DEF Order
      <3> HIDE DEF n
      <3> QED  BY <3>2, <3>3, <3>5
    <2> QED  BY <2>1, <2>2 DEF Shop
  <1>4. /\ orders' \in [Keys -> Order \cup {NoOne}] /\ o # NoOne
        /\ \A x \in Existing' : orders'[x].marks \subseteq orders'[x].lines
        /\ orders'[k] = o /\ \A x \in Keys : x # k => orders'[x] = orders[x]
    BY <1>3, OrderWritten
  <1>5. OrdersKept  BY <1>3, <1>4 DEF OrdersKept, Existing
  <1> QED  BY <1>4, <1>5

\* The shop marks a line or a manager cancels.
LEMMA ShopStep ==
  ASSUME ImportInv, OursStep, ours' \subseteq Keys, unlisted' \subseteq HasBin,
         NEW k \in Keys, Shop(k)
  PROVE  ImportInv'
  <1> USE DEF ImportInv
  <1>1. /\ shop' = shop + 1 /\ shop < MaxShop
        /\ UNCHANGED <<customers, acts, fg, world, script, runs, imported>>
    BY DEF Shop
  <1>2. shop' \in 0..MaxShop  BY <1>1, ImportAssumption DEF TypeOK
  <1>3. TypeOK'  BY <1>1, <1>2, ShopKeeps DEF TypeOK, world
  <1> QED  BY <1>1, <1>3, ShopKeeps, AroundHarmless

\* A customer of a live 1C is found, takes its BIN or is created.
LEMMA UpsertKeeps ==
  ASSUME TypeOK, NEW n \in Names, UpsertCustomer(n)
  PROVE  customers' \in [Bins -> Names \cup Orgs \cup {NoOne}]
  <1>1. RealBin(Org[n]) \in Bins /\ CodeBin(n) \in Bins  BY BinsKnown
  <1>2. customers \in [Bins -> Names \cup Orgs \cup {NoOne}]  BY DEF TypeOK
  <1>3. CASE Org[n] \notin HasBin  BY <1>1, <1>2, <1>3 DEF UpsertCustomer
  <1>4. CASE Org[n] \in HasBin
    <2>1. \/ customers' = [customers EXCEPT ![RealBin(Org[n])] = n]
          \/ \E b \in Bins : customers' = [customers EXCEPT ![b] = NoOne, ![RealBin(Org[n])] = n]
      BY <1>1, <1>4 DEF UpsertCustomer, ByName
    <2> QED  BY <1>1, <1>2, <2>1
  <1> QED  BY <1>3, <1>4

\* An order taken over from a live 1C is a new one.
LEMMA TakenKeeps ==
  ASSUME ImportInv, NEW d \in Docs, Taken(d)
  PROVE  /\ OrdersKept /\ orders' \in [Keys -> Order \cup {NoOne}]
         /\ \A x \in Existing' : orders'[x].marks \subseteq orders'[x].lines
         /\ customers' \in [Bins -> Names \cup Orgs \cup {NoOne}]
         /\ \A x \in Keys : orders[x] # NoOne => orders'[x] = orders[x]
  <1> USE DEF ImportInv
  <1> DEFINE k == Bare(Number[d])
             o == NewOrder(d, 1..Copies[d])
  <1>2. k \in Keys  BY BareIsKey
  <1>3. o \in Order /\ o.marks = {}
    <2>1. 1..Copies[d] \in SUBSET LineIds  BY LineBounds DEF LineIds
    <2>2. says \in [Docs -> Statuses1C]  BY DEF TypeOK
    <2> QED  BY <2>1, <2>2, NewOrderIsOrder
  <1>4. orders' = [orders EXCEPT ![k] = IF orders[k] # NoOne THEN orders[k] ELSE o]
    BY DEF Taken
  <1>5. customers' \in [Bins -> Names \cup Orgs \cup {NoOne}]
    <2>1. Client[d] \in Names  BY DEF Names
    <2> QED  BY <2>1, UpsertKeeps DEF Taken
  <1> HIDE DEF k, o
  <1>7. CASE orders[k] # NoOne
    <2>1. orders' = orders  BY <1>2, <1>4, <1>7 DEF TypeOK
    <2> QED  BY <1>5, <2>1, OrderFields DEF OrdersKept, TypeOK, Existing
  <1>8. CASE orders[k] = NoOne
    <2>1. /\ orders' \in [Keys -> Order \cup {NoOne}]
          /\ \A x \in Existing' : orders'[x].marks \subseteq orders'[x].lines
          /\ \A x \in Keys : x # k => orders'[x] = orders[x]
      <3>1. orders' = [orders EXCEPT ![k] = o]  BY <1>4, <1>8
      <3> QED  BY <1>2, <1>3, <3>1, OrderWritten
    <2>2. \A x \in Keys : orders[x] # NoOne => orders'[x] = orders[x]  BY <1>8, <2>1
    <2> QED  BY <1>5, <2>1, <2>2 DEF OrdersKept, Existing
  <1> QED  BY <1>7, <1>8

\* The server takes an order over from a live 1C.
LEMMA LiveSyncStep ==
  ASSUME ImportInv, OursStep, ours' \subseteq Keys, unlisted' \subseteq HasBin,
         NEW d \in Docs, LiveSync(d)
  PROVE  ImportInv'
  <1> USE DEF ImportInv
  <1>1. /\ shop' = shop + 1 /\ shop < MaxShop /\ Taken(d)
        /\ UNCHANGED <<acts, fg, world, script, runs, imported>>
    BY DEF LiveSync
  <1>2. shop' \in 0..MaxShop  BY <1>1, ImportAssumption DEF TypeOK
  <1>3. TypeOK'  BY <1>1, <1>2, TakenKeeps DEF TypeOK, world
  <1> QED  BY <1>1, <1>3, TakenKeeps, AroundHarmless

----------------------------------------------------------------------------
(* Beginning and end of a script                                           *)

\* A script that is over has nothing left to do: what remains to be said is
\* said of the base.
LEMMA NothingLeft ==
  ASSUME ImportInv, TypeOK', OursStep, script' = Idle,
         NothingWrittenTwice', ImportedStands'
  PROVE  ImportInv'
  <1>1. Shaped' /\ StepsKnown'  BY DEF Idle, Shaped, StepsKnown, ImportSteps
  <1>2. WipeGoesOn'
    <2>1. shop' \in Nat /\ 0 <= shop'  BY ImportAssumption DEF TypeOK
    <2> QED  BY <2>1 DEF Idle, WipeGoesOn
  <1>4. ImportGoesOn' /\ CopyStays'  BY DEF Idle, ImportGoesOn, CopyStays
  <1>5. StatusRead'  BY DEF Idle, StatusRead, OursStep
  <1>6. SupplementGoesOn'  BY DEF Idle, SupplementGoesOn
  <1> QED  BY <1>1, <1>2, <1>4, <1>5, <1>6 DEF ImportInv

\* A crash, a refused wipe and the end of a synchronisation leave the base as it is.
LEMMA ScriptEnds ==
  ASSUME ImportInv, OursStep, ours' \subseteq Keys, unlisted' \subseteq HasBin,
         Crash \/ WipeRefused \/ SyncDone
  PROVE  ImportInv'
  <1>1. script' = Idle /\ UNCHANGED <<data, world, runs, shop, imported>>
    BY DEF Crash, WipeRefused, SyncDone
  <1>2. TypeOK'
    <2>1. Idle.name = "none" /\ Idle.step = "end" /\ Idle.step \in Steps  BY DEF Idle, Steps
    <2> QED  BY <1>1, <2>1 DEF ImportInv, TypeOK, Existing, data, world
  <1>4. NothingWrittenTwice'  BY <1>1 DEF ImportInv, SupplementGoesOn, NothingWrittenTwice, data
  <1>5. ImportedStands'
    BY <1>1 DEF ImportInv, ImportedStands, Idle, HaveOrders, LinesDone, data
  <1> QED  BY <1>1, <1>2, <1>4, <1>5, NothingLeft

\* 1C is exported anew while no script runs.
LEMMA NewExportStep ==
  ASSUME ImportInv, OursStep, ours' \subseteq Keys, unlisted' \subseteq HasBin, NewExport
  PROVE  ImportInv'
  <1>1. /\ script = Idle /\ script' = Idle /\ exports < MaxExports /\ exports' = exports + 1
        /\ UNCHANGED <<data, runs, shop, imported>>
    BY DEF NewExport
  <1>2. file' \subseteq Docs /\ payments' \subseteq Docs  BY DEF NewExport
  <1>3. says' \in [Docs -> Statuses1C]
    <2>1. says \in [Docs -> Statuses1C]  BY DEF ImportInv, TypeOK
    <2>2. PICK d \in Docs, s \in Says : says' \in {says, [says EXCEPT ![d] = s]}
      BY DEF NewExport
    <2>3. s \in Statuses1C  BY <2>2, ImportAssumption
    <2> QED  BY <2>1, <2>2, <2>3
  <1>4. exports' \in 0..MaxExports  BY <1>1, ImportAssumption DEF ImportInv, TypeOK
  <1>5. TypeOK'  BY <1>1, <1>2, <1>3, <1>4 DEF ImportInv, TypeOK, Existing, data
  <1>7. NothingWrittenTwice'  BY <1>1 DEF ImportInv, SupplementGoesOn, NothingWrittenTwice, data
  <1>8. ImportedStands'
    BY <1>1 DEF ImportInv, ImportedStands, Idle, HaveOrders, LinesDone, data
  <1> QED  BY <1>1, <1>5, <1>7, <1>8, NothingLeft

\* What a script that has just started finds, whatever it is.
LEMMA StartFinds ==
  ASSUME ImportInv, OursStep, ours' \subseteq Keys, unlisted' \subseteq HasBin,
         NEW name \in {"import", "extras", "dedupe", "golive"},
         NEW step \in Steps, NEW todo, NEW held, NEW listed,
         Start(name, step, todo, held, listed),
         UNCHANGED <<data, world, shop>>
  PROVE  /\ TypeOK' /\ script'.name = name /\ script'.step = step /\ script'.todo = todo
         /\ script'.held = held /\ script'.since = shop' /\ Shaped'
         /\ shop' \in Nat /\ NothingWrittenTwice'
         /\ ours' \subseteq Outside(orders')
  <1>1. /\ script'.name = name /\ script'.step = step /\ script'.todo = todo
        /\ script'.held = held /\ script'.since = shop /\ Shaped'
        /\ runs' = runs + 1 /\ runs < MaxRuns
    BY Started
  <1>2. runs' \in 0..MaxRuns /\ shop \in Nat  BY <1>1, ImportAssumption DEF ImportInv, TypeOK
  <1>3. TypeOK'  BY <1>1, <1>2 DEF ImportInv, TypeOK, Existing, data, world
  <1>5. NothingWrittenTwice'  BY DEF ImportInv, SupplementGoesOn, NothingWrittenTwice, data
  <1>6. shop' = shop  OBVIOUS
  <1> QED  BY <1>1, <1>2, <1>3, <1>5, <1>6 DEF OursStep

\* The whole wipe is ahead.
LEMMA WholeWipe == Remaining(WipeOrder) /\ Len(WipeOrder) = 6
  <1>1. WipeOrder \in Seq(Tables)  BY DEF WipeOrder, Tables
  <1>3. Len(WipeOrder) = 6  BY DEF WipeOrder
  <1>2. ASSUME NEW j \in 1..6  PROVE WipeOrder[j] = WipeOrder[j + (6 - 6)]
    OBVIOUS
  <1> QED  BY <1>1, <1>2, <1>3 DEF Remaining

\* A script that begins with the wipe has everything to wipe.
LEMMA WipeStarts ==
  ASSUME ImportInv, OursStep, ours' \subseteq Keys, unlisted' \subseteq HasBin,
         NEW name \in {"import", "golive"},
         NEW listed, Start(name, "wipe", {}, WipeOrder, listed), UNCHANGED <<data, world, shop>>, imported' = NoFile
  PROVE  ImportInv'
  <1>0. "wipe" \in Steps  BY DEF Steps
  <1>1. /\ TypeOK' /\ script'.name = name /\ script'.step = "wipe" /\ script'.held = WipeOrder
        /\ script'.since = shop' /\ Shaped' /\ shop' \in Nat
        /\ NothingWrittenTwice'
        /\ ours' \subseteq Outside(orders')
    BY <1>0, StartFinds
  <1>2. StepsKnown'  BY <1>1 DEF StepsKnown, ImportSteps
  <1>3. WipeGoesOn'  BY <1>1, WholeWipe DEF WipeGoesOn
  <1>4. ImportGoesOn' /\ StatusRead' /\ CopyStays'
    BY <1>1 DEF ImportSteps, ImportGoesOn, StatusRead, CopyStays
  <1>5. ImportedStands' /\ SupplementGoesOn'
    BY <1>1 DEF ImportedStands, SupplementGoesOn
  <1> QED  BY <1>1, <1>2, <1>3, <1>4, <1>5 DEF ImportInv

\* The import starts with the wipe or with the customers of the file.
LEMMA StartImportStep ==
  ASSUME ImportInv, OursStep, ours' \subseteq Keys, unlisted' \subseteq HasBin, StartImport
  PROVE  ImportInv'
  <1>1. UNCHANGED <<data, world, shop>> /\ imported' = NoFile  BY DEF StartImport
  <1>4. PICK listed \in SUBSET HasBin :
           \/ Start("import", "customers", {Client[d] : d \in file}, NoOne, listed)
           \/ Start("import", "wipe", {}, WipeOrder, listed)
    BY DEF StartImport
  <1>2. CASE Start("import", "wipe", {}, WipeOrder, listed)  BY <1>1, <1>2, WipeStarts
  <1>3. CASE Start("import", "customers", {Client[d] : d \in file}, NoOne, listed)
    <2>0. "customers" \in Steps  BY DEF Steps
    <2>1. /\ TypeOK' /\ script'.name = "import" /\ script'.step = "customers"
          /\ script'.since = shop' /\ Shaped' /\ shop' \in Nat
          /\ NothingWrittenTwice'
          /\ ours' \subseteq Outside(orders')
      BY <1>1, <1>3, <2>0, StartFinds
    <2>2. StepsKnown' /\ WipeGoesOn'  BY <2>1 DEF StepsKnown, ImportSteps, WipeGoesOn
    <2>4. ImportGoesOn' /\ StatusRead' /\ CopyStays'
      BY <2>1 DEF ImportGoesOn, StatusRead, CopyStays
    <2>5. ImportedStands' /\ SupplementGoesOn'
      BY <1>1, <2>1 DEF ImportedStands, SupplementGoesOn
    <2> QED  BY <2>1, <2>2, <2>4, <2>5 DEF ImportInv
  <1> QED  BY <1>2, <1>3, <1>4

\* The supplement starts with the managers of the orders it finds.
LEMMA StartExtrasStep ==
  ASSUME ImportInv, OursStep, ours' \subseteq Keys, unlisted' \subseteq HasBin, StartExtras
  PROVE  ImportInv'
  <1>1. UNCHANGED <<data, world, shop, imported>> /\ Start("extras", "managers", Numbered, NoOne, {})
    BY DEF StartExtras
  <1>0. "managers" \in Steps  BY DEF Steps
  <1>2. /\ TypeOK' /\ script'.name = "extras" /\ script'.step = "managers"
        /\ script'.todo = Numbered
        /\ script'.since = shop' /\ Shaped' /\ shop' \in Nat
        /\ NothingWrittenTwice'
        /\ ours' \subseteq Outside(orders')
    BY <1>0, <1>1, StartFinds
  <1>3. StepsKnown' /\ WipeGoesOn'  BY <1>2 DEF StepsKnown, ImportSteps, WipeGoesOn
  <1>4. ImportGoesOn' /\ StatusRead' /\ CopyStays'
    BY <1>2 DEF ImportSteps, ImportGoesOn, StatusRead, CopyStays
  <1>5. ImportedStands'
    BY <1>1, <1>2 DEF ImportInv, ImportedStands, HaveOrders, LinesDone, data
  <1>6. SupplementGoesOn'
    <2>1. file \subseteq Docs  BY DEF ImportInv, TypeOK
    <2>2. Numbered \subseteq {Number[d] : d \in Docs}  BY <2>1 DEF Numbered
    <2> QED  BY <1>2, <2>2 DEF SupplementGoesOn
  <1> QED  BY <1>2, <1>3, <1>4, <1>5, <1>6 DEF ImportInv

\* The removal of doubled lines dooms at most half of the lines of an order.
LEMMA StartDedupeStep ==
  ASSUME ImportInv, OursStep, ours' \subseteq Keys, unlisted' \subseteq HasBin, StartDedupe
  PROVE  ImportInv'
  <1>1. UNCHANGED <<data, world, shop>> /\ imported' = NoFile  BY DEF StartDedupe
  <1>2. PICK S \in SUBSET LineRows :
          /\ \A k \in Existing : {r[2] : r \in {q \in S : q[1] = k}} \in Doomed(k)
          /\ Start("dedupe", "marks", S, NoOne, {})
    BY DEF StartDedupe
  <1>0. "marks" \in Steps  BY DEF Steps
  <1>3. /\ TypeOK' /\ script'.name = "dedupe" /\ script'.step = "marks" /\ script'.todo = S
        /\ script'.since = shop' /\ Shaped' /\ shop' \in Nat
        /\ NothingWrittenTwice'
        /\ ours' \subseteq Outside(orders')
    BY <1>0, <1>1, <1>2, StartFinds
  <1>4. StepsKnown' /\ WipeGoesOn'  BY <1>3 DEF StepsKnown, ImportSteps, WipeGoesOn
  <1>5. ImportGoesOn' /\ StatusRead'
    BY <1>3 DEF ImportSteps, ImportGoesOn, StatusRead
  <1>6. ImportedStands' /\ SupplementGoesOn'
    BY <1>1, <1>3 DEF ImportedStands, SupplementGoesOn
  <1>7. ASSUME NEW k \in Existing, orders[k].lines # {}
        PROVE  \E l \in orders[k].lines : <<k, l>> \notin S
    <2> DEFINE D == {r[2] : r \in {q \in S : q[1] = k}}
               L == orders[k].lines
    <2>1. L \in SUBSET LineIds /\ L # {}  BY <1>7, OrderFields DEF ImportInv
    <2>2. IsFiniteSet(L) /\ Cardinality(L) \in Nat /\ Cardinality(L) # 0
      BY <2>1, LinesFinite, FS_EmptySet
    <2>3. D \in Doomed(k)  BY <1>2
    <2>4. D \subseteq L /\ Cardinality(D) =
             IF Cardinality(L) % 2 = 0 THEN Cardinality(L) \div 2 ELSE 0
      BY <2>3 DEF Doomed
    <2>5. D # L
      <3> HIDE DEF D, L
      <3> QED  BY <2>2, <2>4
    <2>6. PICK l \in L : l \notin D  BY <2>4, <2>5
    <2>7. <<k, l>> \notin S
      <3> SUFFICES ASSUME <<k, l>> \in S  PROVE l \in D
        BY <2>6
      <3>1. <<k, l>> \in {q \in S : q[1] = k} /\ <<k, l>>[2] = l  OBVIOUS
      <3> QED  BY <3>1
    <2> QED  BY <2>6, <2>7
  <1>8. CopyStays'
    <2>1. S \subseteq {r \in Keys \X LineIds : r[1] \in Existing}  BY DEF LineRows
    <2>2. Existing' = Existing /\ orders' = orders  BY <1>1 DEF data, Existing
    <2> QED  BY <1>3, <1>7, <2>1, <2>2 DEF CopyStays
  <1> QED  BY <1>3, <1>4, <1>5, <1>6, <1>8 DEF ImportInv

\* The refill starts with the wipe or with the orders of the live 1C.
LEMMA StartGoLiveStep ==
  ASSUME ImportInv, OursStep, ours' \subseteq Keys, unlisted' \subseteq HasBin, StartGoLive
  PROVE  ImportInv'
  <1>1. UNCHANGED <<data, world, shop>> /\ imported' = NoFile  BY DEF StartGoLive
  <1>2. CASE Start("golive", "wipe", {}, WipeOrder, {})  BY <1>1, <1>2, WipeStarts
  <1>3. CASE Start("golive", "sync", {Number[d] : d \in file}, [ok |-> {}, failed |-> {}], {})
    <2>0. "sync" \in Steps  BY DEF Steps
    <2>1. /\ TypeOK' /\ script'.name = "golive" /\ script'.step = "sync"
          /\ script'.since = shop' /\ Shaped' /\ shop' \in Nat
          /\ NothingWrittenTwice'
          /\ ours' \subseteq Outside(orders')
      BY <1>1, <1>3, <2>0, StartFinds
    <2>2. StepsKnown' /\ WipeGoesOn'  BY <2>1 DEF StepsKnown, ImportSteps, WipeGoesOn
    <2>3. ImportGoesOn' /\ StatusRead' /\ CopyStays'
      BY <2>1 DEF ImportSteps, ImportGoesOn, StatusRead, CopyStays
    <2>4. ImportedStands' /\ SupplementGoesOn'
      BY <1>1, <2>1 DEF ImportedStands, SupplementGoesOn
    <2> QED  BY <2>1, <2>2, <2>3, <2>4 DEF ImportInv
  <1> QED  BY <1>2, <1>3 DEF StartGoLive

----------------------------------------------------------------------------
(* The wipe                                                                *)

\* The next table to wipe is told by how many are left, and so is the rest.
LEMMA NextTable ==
  ASSUME NEW h, Remaining(h)
  PROVE  /\ Len(h) \in 1..6 /\ Head(h) = WipeOrder[7 - Len(h)]
         /\ Len(h) > 1 => Remaining(Tail(h)) /\ Len(Tail(h)) = Len(h) - 1
  <1>1. /\ h \in Seq(Tables) /\ Len(h) \in 1..6
        /\ \A j \in 1..Len(h) : h[j] = WipeOrder[j + (6 - Len(h))]
    BY DEF Remaining
  <1>0. Len(h) \in 1..6 /\ h \in Seq(Tables)  BY <1>1
  <1>2. Head(h) = h[1] /\ 1 \in 1..Len(h)
    <2>1. 1 \in 1..Len(h)  BY <1>0
    <2>2. h # <<>>
      <3>1. Len(<<>>) = 0 /\ ~(0 \in 1..6)  OBVIOUS
      <3> QED  BY <1>0, <3>1
    <2> QED  BY <1>0, <2>1, <2>2
  <1>3. Head(h) = WipeOrder[1 + (6 - Len(h))]  BY <1>1, <1>2
  <1>4. 1 + (6 - Len(h)) = 7 - Len(h)  BY <1>1
  <1>5. ASSUME Len(h) > 1  PROVE Remaining(Tail(h)) /\ Len(Tail(h)) = Len(h) - 1
    <2>1. Tail(h) \in Seq(Tables) /\ Len(Tail(h)) = Len(h) - 1  BY <1>1, <1>5
    <2>2. \A j \in 1..(Len(h) - 1) : Tail(h)[j] = h[j + 1]  BY <1>1, <1>5
    <2>3. ASSUME NEW j \in 1..(Len(h) - 1)
          PROVE  Tail(h)[j] = WipeOrder[j + (6 - (Len(h) - 1))]
      <3>1. j + 1 \in 1..Len(h) /\ j + 1 + (6 - Len(h)) = j + (6 - (Len(h) - 1))  BY <1>1
      <3>2. h[j + 1] = WipeOrder[j + 1 + (6 - Len(h))]  BY <1>1, <3>1
      <3> QED  BY <2>2, <3>1, <3>2
    <2>4. Len(h) - 1 \in 1..6  BY <1>1, <1>5
    <2> QED  BY <2>1, <2>3, <2>4 DEF Remaining
  <1> QED  BY <1>1, <1>3, <1>4, <1>5

\* The tables in their order.
LEMMA TableOrder ==
  /\ WipeOrder[1] = "acts" /\ WipeOrder[2] = "marks" /\ WipeOrder[3] = "fg"
  /\ WipeOrder[4] = "lines" /\ WipeOrder[5] = "orders" /\ WipeOrder[6] = "customers"
  BY DEF WipeOrder

\* A wipe of rows that hang on orders leaves the orders there.
LEMMA WithoutKeeps ==
  ASSUME TypeOK, NEW f, orders' = Without(f),
         \A k \in Existing : f[k] \in Order /\ f[k].status = orders[k].status /\ f[k].marks = {}
  PROVE  /\ orders' \in [Keys -> Order \cup {NoOne}]
         /\ \A k \in Existing' : orders'[k].marks \subseteq orders'[k].lines
         /\ \A k \in Existing' : k \in Existing /\ orders'[k].status = orders[k].status
  <1>1. \A o \in Order : o # NoOne  BY NoOneAssumption
  <1>2. \A k \in Keys : /\ orders[k] = NoOne => orders'[k] = NoOne
                        /\ orders[k] # NoOne => orders'[k] = f[k]
    BY DEF Without
  <1>3. \A k \in Keys : orders[k] # NoOne => f[k] \in Order  BY DEF Existing
  <1>4. orders' \in [Keys -> Order \cup {NoOne}]  BY <1>3 DEF Without
  <1>5. \A k \in Keys : orders'[k] # NoOne => k \in Existing /\ orders'[k] = f[k]
    BY <1>2 DEF Existing
  <1>6. \A k \in Existing' : k \in Existing /\ orders'[k] = f[k]  BY <1>5 DEF Existing
  <1> QED  BY <1>4, <1>6

\* A statement of the wipe keeps the base well-formed and adds nothing to it.
LEMMA WipeKeeps ==
  ASSUME TypeOK, Wipe
  PROVE  /\ orders' \in [Keys -> Order \cup {NoOne}]
         /\ \A k \in Existing' : orders'[k].marks \subseteq orders'[k].lines
         /\ \A k \in Existing' : k \in Existing /\ orders'[k].status = orders[k].status
         /\ customers' \in [Bins -> Names \cup Orgs \cup {NoOne}]
         /\ \A b \in Bins : customers'[b] # NoOne => customers[b] # NoOne
         /\ acts' = acts \/ acts' = [a \in ActNumbers |-> NoOne]
         /\ fg' = fg \/ fg' = [n \in ReleaseNumbers |-> {}]
  <1> DEFINE t == Head(script.held)
  <1>1. /\ acts' = IF t = "acts" THEN [a \in ActNumbers |-> NoOne] ELSE acts
        /\ fg' = IF t = "fg" THEN [n \in ReleaseNumbers |-> {}] ELSE fg
        /\ customers' = IF t = "customers" THEN [b \in Bins |-> NoOne] ELSE customers
    BY DEF Wipe
  <1>2. \/ orders' = orders \/ orders' = NoRows
        \/ orders' = Without([k \in Existing |-> [orders[k] EXCEPT !.marks = {}]])
        \/ orders' = Without([k \in Existing |-> [orders[k] EXCEPT !.lines = {}, !.marks = {}]])
    BY DEF Wipe
  <1> HIDE DEF t
  <1>3. /\ customers' \in [Bins -> Names \cup Orgs \cup {NoOne}]
        /\ \A b \in Bins : customers'[b] # NoOne => customers[b] # NoOne
    BY <1>1 DEF TypeOK
  <1>4. \A o \in Order : o # NoOne  BY NoOneAssumption
  <1>5. CASE orders' = orders  BY <1>1, <1>3, <1>5 DEF TypeOK, Existing
  <1>6. CASE orders' = NoRows  BY <1>1, <1>3, <1>6 DEF NoRows, Existing
  <1>7. CASE orders' = Without([k \in Existing |-> [orders[k] EXCEPT !.marks = {}]])
    <2> DEFINE f == [k \in Existing |-> [orders[k] EXCEPT !.marks = {}]]
    <2>1. \A k \in Existing : f[k] \in Order /\ f[k].status = orders[k].status /\ f[k].marks = {}
      BY OrderFields DEF Order
    <2>2. orders' = Without(f)  BY <1>7
    <2> HIDE DEF f
    <2> QED  BY <1>1, <1>3, <2>1, <2>2, WithoutKeeps
  <1>8. CASE orders' = Without([k \in Existing |-> [orders[k] EXCEPT !.lines = {}, !.marks = {}]])
    <2> DEFINE f == [k \in Existing |-> [orders[k] EXCEPT !.lines = {}, !.marks = {}]]
    <2>1. \A k \in Existing : f[k] \in Order /\ f[k].status = orders[k].status /\ f[k].marks = {}
      BY OrderFields DEF Order
    <2>2. orders' = Without(f)  BY <1>8
    <2> HIDE DEF f
    <2> QED  BY <1>1, <1>3, <2>1, <2>2, WithoutKeeps
  <1> QED  BY <1>2, <1>5, <1>6, <1>7, <1>8

\* The wipe goes on to the next table, and after the last one to the refill.
LEMMA WipeStep ==
  ASSUME ImportInv, OursStep, ours' \subseteq Keys, unlisted' \subseteq HasBin, Wipe
  PROVE  ImportInv'
  <1> DEFINE h == script.held
             t == Head(h)
  <1>1. /\ script.step = "wipe" /\ ~Refused /\ UNCHANGED <<world, runs, shop, imported>>
        /\ script' = IF Len(h) = 1 THEN AfterWipe ELSE [script EXCEPT !.held = Tail(h)]
    BY DEF Wipe
  <1>2. /\ script.name \in {"import", "golive"} /\ Remaining(h)
        /\ script.since \in Nat /\ script.since <= shop
        /\ Shaped /\ TypeOK /\ imported = NoFile
    BY <1>1 DEF ImportInv, StepsKnown, WipeGoesOn, ImportedStands
  <1>3. Len(h) \in 1..6 /\ t = WipeOrder[7 - Len(h)]  BY <1>2, NextTable
  <1>0. Len(h) \in 1..6 /\ (Len(h) = 6 \/ Len(h) < 6) /\ (Len(h) # 1 => Len(h) > 1)
        /\ (Len(h) - 1 < 2 /\ Len(h) # 1 => Len(h) = 2)
    <2>1. \A n \in 1..6 : (n = 6 \/ n < 6) /\ (n # 1 => n > 1) /\ (n - 1 < 2 /\ n # 1 => n = 2)
      OBVIOUS
    <2> HIDE DEF h, t
    <2> QED  BY <1>3, <2>1
  <1>4. /\ script'.name = script.name /\ script'.since = script.since /\ Shaped'
        /\ Len(h) # 1 => script'.step = "wipe" /\ script'.held = Tail(h)
        /\ Len(h) = 1 /\ script.name = "import" =>
              script'.step = "customers"
        /\ Len(h) = 1 /\ script.name = "golive" => script'.step = "sync"
    <2>1. CASE Len(h) # 1
      <3>1. script' = [script EXCEPT !.held = Tail(h)]  BY <1>1, <2>1
      <3> QED  BY <1>1, <1>2, <2>1, <3>1, HeldMoved
    <2>2. CASE Len(h) = 1 /\ script.name = "import"
      <3>1. script' = Goto("customers", {Client[d] : d \in file}, NoOne)
        BY <1>1, <2>2 DEF AfterWipe
      <3> QED  BY <1>2, <2>2, <3>1, Moved
    <2>3. CASE Len(h) = 1 /\ script.name = "golive"
      <3>1. script' = Goto("sync", {Number[d] : d \in file}, [ok |-> {}, failed |-> {}])
        BY <1>1, <2>3 DEF AfterWipe
      <3> QED  BY <1>2, <2>3, <3>1, Moved
    <2> QED  BY <1>2, <2>1, <2>2, <2>3
  <1>5. script'.step \in {"wipe", "customers", "sync"}  BY <1>2, <1>4
  <1>6. NothingWrittenTwice' /\ acts' \in [ActNumbers -> Nat \cup {NoOne}]
        /\ fg' \in [ReleaseNumbers -> SUBSET (Nat \X (Docs \X Docs \X LineIds))]
    <2>1. acts \in [ActNumbers -> Nat \cup {NoOne}]
          /\ fg \in [ReleaseNumbers -> SUBSET (Nat \X (Docs \X Docs \X LineIds))]
      BY <1>2 DEF TypeOK
    <2>2. NothingWrittenTwice  BY DEF ImportInv, SupplementGoesOn
    <2> QED  BY <1>2, <2>1, <2>2, WipeKeeps DEF NothingWrittenTwice
  <1>7. TypeOK'
    <2>1. script'.step \in Steps  BY <1>5 DEF Steps
    <2> QED  BY <1>1, <1>2, <1>4, <1>6, <2>1, WipeKeeps DEF TypeOK, world
  <1>8. StepsKnown'  BY <1>2, <1>4 DEF StepsKnown, ImportSteps
  <1>9. WipeGoesOn'
    <2>1. shop' = shop  BY <1>1
    <2>2. ASSUME Len(h) # 1, shop = script.since
          PROVE  \A a \in ActNumbers : acts'[a] = NoOne
      <3>1. CASE Len(h) = 6
        <4>1. t = "acts"  BY <1>3, <3>1, TableOrder
        <4>2. acts' = [a \in ActNumbers |-> NoOne]  BY <4>1 DEF Wipe
        <4> QED  BY <4>2
      <3>2. CASE Len(h) < 6
        <4>1. \A a \in ActNumbers : acts[a] = NoOne  BY <1>1, <2>2, <3>2 DEF ImportInv, WipeGoesOn
        <4> QED  BY <1>2, <4>1, WipeKeeps
      <3> HIDE DEF h, t
      <3> QED  BY <1>0, <3>1, <3>2
    <2>3. ASSUME Len(h) = 2  PROVE Existing' = {}
      <3>1. t = "orders"  BY <1>3, <2>3, TableOrder
      <3>2. orders' = NoRows  BY <3>1 DEF Wipe
      <3> QED  BY <3>2 DEF Existing, NoRows
    <2>4. ASSUME Len(h) # 1  PROVE Remaining(Tail(h)) /\ Len(Tail(h)) = Len(h) - 1
      <3> HIDE DEF h, t
      <3>1. Len(h) > 1  BY <1>0, <2>4
      <3> QED  BY <1>2, <3>1, NextTable
    <2>5. CASE Len(h) # 1
      <3>1. Len(Tail(h)) < 2 => Len(h) = 2
        <4> HIDE DEF h, t
        <4>1. Len(Tail(h)) = Len(h) - 1  BY <2>4, <2>5
        <4> QED  BY <1>0, <2>5, <4>1
      <3>2. script'.step = "wipe" /\ script'.held = Tail(h)
            /\ script'.since = script.since
        BY <1>4, <2>5
      <3> HIDE DEF h
      <3> QED  BY <1>2, <2>1, <2>2, <2>3, <2>4, <2>5, <3>1, <3>2 DEF WipeGoesOn
    <2>6. CASE Len(h) = 1
      <3>1. script'.step # "wipe"  BY <1>2, <1>4, <2>6
      <3> QED  BY <1>2, <1>4, <2>1, <3>1 DEF WipeGoesOn
    <2> QED  BY <2>5, <2>6
  <1>11. ImportGoesOn' /\ StatusRead' /\ CopyStays'
    BY <1>5 DEF OursStep, ImportGoesOn, StatusRead, CopyStays
  <1>12. ImportedStands' /\ SupplementGoesOn'
    BY <1>1, <1>2, <1>5, <1>6 DEF ImportedStands, SupplementGoesOn
  <1> QED  BY <1>4, <1>7, <1>8, <1>9, <1>11, <1>12 DEF ImportInv

----------------------------------------------------------------------------
(* The import                                                              *)

\* What no step of the import but the last disturbs.
LEMMA ImportMoves ==
  ASSUME ImportInv, OursStep, TypeOK', Shaped', script.name = "import", script'.name = "import",
         script'.step \in ImportSteps, script'.since = script.since,
         UNCHANGED <<acts, fg, world, shop>>, imported' = imported,
         ImportGoesOn', StatusRead'
  PROVE  ImportInv'
  <1>1. StepsKnown' /\ WipeGoesOn' /\ CopyStays'
    BY DEF ImportInv, StepsKnown, WipeGoesOn, CopyStays, ImportSteps
  <1>2. ImportedStands'  BY DEF ImportInv, ImportedStands
  <1>3. SupplementGoesOn'
    BY DEF ImportInv, SupplementGoesOn, NothingWrittenTwice, ImportSteps
  <1> QED  BY <1>1, <1>2, <1>3 DEF ImportInv

\* The running import has disturbed what the last one left.
LEMMA ImportRuns ==
  ASSUME ImportInv, script.step \in ImportSteps
  PROVE  /\ script.name = "import" /\ imported = NoFile /\ Shaped /\ TypeOK
         /\ file \subseteq Docs /\ script.step \in Steps
  BY DEF ImportInv, StepsKnown, ImportedStands, TypeOK

\* The import writes or finds a customer.
LEMMA ImportCustomerStep ==
  ASSUME ImportInv, OursStep, ours' \subseteq Keys, unlisted' \subseteq HasBin,
         NEW n \in Names, ImportCustomer(n)
  PROVE  ImportInv'
  <1> DEFINE b == Bin(n, script.listed)
             name == NewName(n, script.listed)
             rest == script.todo \ {n}
             step == IF rest = {} THEN "read" ELSE "customers"
             todo == IF rest = {} THEN file ELSE rest
             met == IF rest = {} THEN {} ELSE script.met \cup {n}
  <1>1. /\ script.step = "customers" /\ n \in script.todo
        /\ customers' = customers \/ customers' = [customers EXCEPT ![b] = name]
        /\ UNCHANGED <<orders, acts, fg, world, runs, shop, imported>>
    BY DEF ImportCustomer
  <1>2. script.step \in ImportSteps  BY <1>1 DEF ImportSteps
  <1>3. /\ script.name = "import" /\ imported = NoFile /\ Shaped /\ TypeOK /\ file \subseteq Docs
    BY <1>2, ImportRuns
  <1>4. script' = [Goto(step, todo, NoOne) EXCEPT !.met = met]
    <2>1. Goto(step, todo, NoOne).met = script.met  BY <1>3 DEF Shaped, Goto
    <2> QED  BY <2>1 DEF ImportCustomer
  <1>5. b \in Bins /\ name \in Names \cup Orgs  BY BinsKnown
  <1> HIDE DEF b, name
  <1>6. /\ script'.step = step /\ script'.todo = todo
        /\ script'.name = script.name /\ script'.since = script.since /\ Shaped'
    <2> HIDE DEF step, todo, met
    <2> QED  BY <1>3, <1>4 DEF Goto, Shaped
  <1>7. step \in {"read", "customers"} /\ step \in Steps  BY DEF Steps
  <1>8. TypeOK'
    <2>1. customers' \in [Bins -> Names \cup Orgs \cup {NoOne}]
      BY <1>1, <1>3, <1>5 DEF TypeOK
    <2> HIDE DEF step, todo, met
    <2> QED  BY <1>1, <1>3, <1>6, <1>7, <2>1 DEF TypeOK, world, Existing
  <1>10. ImportGoesOn'
    <2>1. CASE rest = {}
      <3>1. script'.step = "read" /\ script'.todo = file  BY <1>6, <2>1
      <3>2. file' = file  BY <1>1 DEF world
      <3>3. HaveOrders(file \ file, file)'  BY DEF HaveOrders
      <3> QED  BY <3>1, <3>2, <3>3 DEF ImportGoesOn
    <2>2. CASE rest # {}
      <3>1. script'.step = "customers"  BY <1>6, <2>2
      <3> QED  BY <3>1 DEF ImportGoesOn
    <2> QED  BY <2>1, <2>2
  <1>11. StatusRead'  BY <1>6, <1>7 DEF StatusRead, OursStep
  <1> QED
    <2>1. script'.step \in ImportSteps  BY <1>6, <1>7 DEF ImportSteps
    <2> QED  BY <1>1, <1>3, <1>6, <1>8, <1>10, <1>11, <2>1, ImportMoves

\* The status of an order is read before the row is written.
LEMMA ReadOrderStep ==
  ASSUME ImportInv, OursStep, ours' \subseteq Keys, unlisted' \subseteq HasBin,
         NEW d \in Docs, ReadOrder(d)
  PROVE  ImportInv'
  <1> DEFINE held == [doc |-> d, seen |-> IF orders[Key(d, file)] = NoOne THEN NoOne
                                          ELSE orders[Key(d, file)].status]
  <1>1. /\ script.step = "read" /\ d \in script.todo /\ script' = Goto("write", script.todo, held)
        /\ UNCHANGED <<data, world, runs, shop, imported>>
    BY DEF ReadOrder
  <1>2. script.step \in ImportSteps /\ "write" \in Steps /\ "write" \in ImportSteps
    BY <1>1 DEF ImportSteps, Steps
  <1>3. /\ script.name = "import" /\ imported = NoFile /\ Shaped /\ TypeOK /\ file \subseteq Docs
    BY <1>2, ImportRuns
  <1>4. held.doc = d /\ held.seen = IF orders[Key(d, file)] = NoOne THEN NoOne
                                    ELSE orders[Key(d, file)].status
    OBVIOUS
  <1> HIDE DEF held
  <1>5. /\ script'.step = "write" /\ script'.todo = script.todo /\ script'.held = held
        /\ script'.name = script.name /\ script'.since = script.since /\ Shaped'
    BY <1>1, <1>3, Moved
  <1>6. TypeOK'  BY <1>1, <1>2, <1>3, <1>5 DEF TypeOK, Existing, data, world
  <1>8. ImportGoesOn'
    <2>1. script.todo \subseteq file /\ HaveOrders(file \ script.todo, file)
      BY <1>1 DEF ImportInv, ImportGoesOn
    <2>2. file' = file /\ orders' = orders  BY <1>1 DEF world, data
    <2>3. HaveOrders(file \ script.todo, file)'
      BY <1>5, <2>1, <2>2 DEF HaveOrders
    <2> QED  BY <1>5, <2>1, <2>2, <2>3 DEF ImportGoesOn
  <1>9. StatusRead'
    <2>1. ASSUME Key(d, file) \in ours'  PROVE ~TakeStatus(held.seen)
      <3>1. orders' = orders  BY <1>1 DEF data
      <3>2. orders[Key(d, file)] # NoOne /\ orders[Key(d, file)].status \notin OWNED_BY_1C
        BY <2>1, <3>1 DEF OursStep, Outside
      <3>3. orders[Key(d, file)].status # NoOne
        <4>1. Key(d, file) \in Existing  BY <2>1, <3>2 DEF Existing
        <4> QED  BY <1>3, <4>1, OrderFields, NoOneAssumption
      <3> QED  BY <1>4, <3>2, <3>3 DEF TakeStatus
    <2>2. file' = file  BY <1>1 DEF world
    <2> QED  BY <1>1, <1>4, <1>5, <2>1, <2>2 DEF StatusRead, OursStep
  <1> QED
    <2>1. UNCHANGED <<acts, fg, world, shop>>  BY <1>1 DEF data
    <2> QED  BY <1>1, <1>2, <1>3, <1>5, <1>6, <1>8, <1>9, <2>1, ImportMoves

\* The row the import writes of the order of a document.
LEMMA RowWritten ==
  ASSUME ImportInv, script.step = "write", WriteOrder
  PROVE  \E o \in Order :
           LET d == script.held.doc
               k == Key(d, file) IN
           /\ d \in file /\ k \in Keys /\ orders' = [orders EXCEPT ![k] = o]
           /\ o.doc = d /\ o.marks \subseteq o.lines
           /\ orders[k] # NoOne => o.status = orders[k].status \/ TakeStatus(script.held.seen)
  <1> DEFINE d == script.held.doc
             k == Key(d, file)
  <1>1. d \in script.todo /\ script.todo \subseteq file 
    BY DEF ImportInv, StatusRead, ImportGoesOn
  <1>2. TypeOK /\ file \in SUBSET Docs /\ says \in [Docs -> Statuses1C]
    BY DEF ImportInv, TypeOK
  <1>3. d \in file /\ k \in Keys /\ d \in Docs  BY <1>1, <1>2, KeyIsKey
  <1>4. CASE orders[k] = NoOne
    <2> DEFINE o == NewOrder(d, {})
    <2>2. o \in Order /\ o.doc = d /\ o.lines = {} /\ o.marks = {}
      BY <1>2, <1>3, NewOrderIsOrder
    <2>3. orders' = [orders EXCEPT ![k] = o]  BY <1>4 DEF WriteOrder
    <2> HIDE DEF o
    <2> QED  BY <1>3, <1>4, <2>2, <2>3
  <1>5. CASE orders[k] # NoOne
    <2> DEFINE s == IF TakeStatus(script.held.seen) THEN says[d] ELSE orders[k].status
               o == [orders[k] EXCEPT !.doc = d, !.status = s]
    <2>1. orders[k] \in Order /\ orders[k].marks \subseteq orders[k].lines
          /\ orders[k].status \in OWNED_BY_1C \cup ShopStatuses
      BY <1>2, <1>3, <1>5, OrderFields DEF Existing
    <2>2. s \in OWNED_BY_1C \cup ShopStatuses
      <3>1. says[d] \in Statuses1C  BY <1>2, <1>3
      <3> QED  BY <2>1, <3>1 DEF Statuses1C, OWNED_BY_1C, ShopStatuses
    <2>3. orders' = [orders EXCEPT ![k] = o]
      BY <1>5 DEF WriteOrder, Rewritten
    <2>4. s # orders[k].status => TakeStatus(script.held.seen)
      OBVIOUS
    <2> HIDE DEF d, s
    <2>5. o \in Order /\ o.doc = d /\ o.status = s /\ o.lines = orders[k].lines
          /\ o.marks = orders[k].marks
      BY <1>3, <2>1, <2>2 DEF Order
    <2>6. orders' = [orders EXCEPT ![k] = o] /\ o \in Order /\ d \in file /\ k \in Keys
          /\ o.doc = d /\ o.marks \subseteq o.lines
          /\ (o.status = orders[k].status \/ TakeStatus(script.held.seen))
      BY <1>3, <2>1, <2>3, <2>4, <2>5
    <2> HIDE DEF o
    <2> QED  BY <2>6 DEF d
  <1> QED  BY <1>4, <1>5

\* The import writes the order of a document.
LEMMA WriteOrderStep ==
  ASSUME ImportInv, OursStep, ours' \subseteq Keys, unlisted' \subseteq HasBin, WriteOrder
  PROVE  ImportInv'
  <1> DEFINE d == script.held.doc
             k == Key(d, file)
             rest == script.todo \ {d}
             step == IF rest = {} THEN "clear" ELSE "read"
  <1>1. /\ script.step = "write" /\ script' = Goto(step, rest, NoOne)
        /\ UNCHANGED <<customers, acts, fg, world, runs, shop, imported>>
    BY DEF WriteOrder
  <1>2. script.step \in ImportSteps /\ step \in Steps /\ step \in ImportSteps /\ step \in {"clear", "read"}
    BY <1>1 DEF ImportSteps, Steps
  <1>3. /\ script.name = "import" /\ imported = NoFile /\ Shaped /\ TypeOK /\ file \in SUBSET Docs
    BY <1>2, ImportRuns
  <1>4. /\ script'.step = step /\ script'.todo = rest
        /\ script'.name = script.name /\ script'.since = script.since /\ Shaped'
    <2> HIDE DEF step, rest
    <2> QED  BY <1>1, <1>3, Moved
  <1>5. PICK o \in Order : /\ d \in file /\ k \in Keys /\ orders' = [orders EXCEPT ![k] = o]
                           /\ o.doc = d /\ o.marks \subseteq o.lines
    BY <1>1, RowWritten
  <1>6. /\ orders' \in [Keys -> Order \cup {NoOne}]
        /\ \A x \in Existing' : orders'[x].marks \subseteq orders'[x].lines
        /\ orders'[k] = o /\ o # NoOne /\ \A x \in Keys : x # k => orders'[x] = orders[x]
    BY <1>3, <1>5, OrderWritten
  <1>7. TypeOK'
    <2> HIDE DEF step, rest, k, d
    <2> QED  BY <1>1, <1>2, <1>3, <1>4, <1>6 DEF TypeOK, world
  <1>9. script.todo \subseteq file /\ HaveOrders(file \ script.todo, file)
    BY <1>1 DEF ImportInv, ImportGoesOn
  <1>10. file' = file  BY <1>1 DEF world
  <1>11. \A e \in file \ rest : orders'[Key(e, file)] # NoOne /\ orders'[Key(e, file)].doc = e
    <2> SUFFICES ASSUME NEW e \in file \ rest
                 PROVE  orders'[Key(e, file)] # NoOne /\ orders'[Key(e, file)].doc = e
      OBVIOUS
    <2>1. CASE e = d  BY <1>5, <1>6, <2>1
    <2>2. CASE e # d
      <3>1. e \in file \ script.todo  BY <2>2
      <3>2. Key(e, file) # k /\ Key(e, file) \in Keys
        BY <1>3, <1>5, <2>2, KeysDiffer, KeyIsKey
      <3> QED  BY <1>6, <1>9, <3>1, <3>2 DEF HaveOrders
    <2> QED  BY <2>1, <2>2
  <1>12. ImportGoesOn'
    <2>1. CASE rest = {}
      <3>1. script'.step = "clear"  BY <1>4, <2>1
      <3>2. HaveOrders(file, file)'  BY <1>10, <1>11, <2>1 DEF HaveOrders
      <3> QED  BY <3>1, <3>2 DEF ImportGoesOn
    <2>2. CASE rest # {}
      <3>1. script'.step = "read" /\ script'.todo = rest  BY <1>4, <2>2
      <3>2. rest \subseteq file  BY <1>9
      <3>3. HaveOrders(file \ script.todo, file)'  BY <1>10, <1>11, <3>1 DEF HaveOrders
      <3>4. script'.todo \subseteq file'  BY <1>10, <3>1, <3>2
      <3>5. script'.step = "read"  BY <3>1
      <3> QED  BY <3>3, <3>4, <3>5 DEF ImportGoesOn
    <2> QED  BY <2>1, <2>2
  <1>13. StatusRead'
    <2> HIDE DEF step
    <2> QED  BY <1>2, <1>4 DEF StatusRead, OursStep
  <1> QED
    <2> HIDE DEF step, rest
    <2> QED  BY <1>1, <1>2, <1>3, <1>4, <1>7, <1>12, <1>13, ImportMoves

\* Lines go on to be written, then payments, then the import is over: nothing of
\* the file is left out on the way.
LEMMA LinesGoOn ==
  ASSUME ImportInv, OursStep, ours' \subseteq Keys, unlisted' \subseteq HasBin,
         script.step \in {"clear", "lines"},
         NEW todo \in SUBSET FileLines, script' = AfterLines(todo),
         imported' = IF script' = Idle THEN file ELSE imported,
         UNCHANGED <<customers, acts, fg, world, runs, shop>>,
         orders' \in [Keys -> Order \cup {NoOne}],
         \A k \in Existing' : orders'[k].marks \subseteq orders'[k].lines,
         \A d \in file : orders'[Key(d, file)] # NoOne /\ orders'[Key(d, file)].doc = d,
         \A d \in file : Placed(d, file) =>
            Cardinality(orders'[Key(d, file)].lines)
              + Cardinality({i \in LineIds : <<d, i>> \in todo}) = Copies[d]
  PROVE  ImportInv'
  <1>1. script.step \in ImportSteps  BY DEF ImportSteps
  <1>2. /\ script.name = "import" /\ imported = NoFile /\ Shaped /\ TypeOK /\ file \in SUBSET Docs
    BY <1>1, ImportRuns
  <1>3. file' = file /\ \A d \in file : Key(d, file) \in Keys  BY <1>2, KeyIsKey DEF world
  <1>4. HaveOrders(file, file)'  BY <1>3 DEF HaveOrders
  <1>5. todo = {} => \A d \in file : Placed(d, file) =>
                        Cardinality(orders'[Key(d, file)].lines) = Copies[d]
    <2> SUFFICES ASSUME todo = {}, NEW d \in file, Placed(d, file)
                 PROVE  Cardinality(orders'[Key(d, file)].lines) = Copies[d]
      OBVIOUS
    <2> DEFINE L == orders'[Key(d, file)].lines
    <2>1. L \in SUBSET LineIds
      <3>1. orders'[Key(d, file)] \in Order  BY <1>3
      <3> QED  BY <3>1 DEF Order
    <2>2. Cardinality(L) \in Nat  BY <2>1, LinesFinite
    <2>3. Cardinality({i \in LineIds : <<d, i>> \in todo}) = 0
      <3>1. {i \in LineIds : <<d, i>> \in todo} = {}  OBVIOUS
      <3> QED  BY <3>1, FS_EmptySet
    <2> QED  BY <2>2, <2>3
  <1>6. todo = {} => LinesDone(file)'  BY <1>3, <1>5 DEF LinesDone, Placed, SameNumber, Blocks
  <1>8. CASE todo = {} /\ ToPay = {}
    <2>1. script' = Idle /\ imported' = file  BY <1>8 DEF AfterLines
    <2>2. TypeOK'
      <3>1. Idle.name = "none" /\ Idle.step \in Steps  BY DEF Idle, Steps
      <3> QED  BY <1>2, <2>1, <3>1 DEF TypeOK, world
    <2>3. NothingWrittenTwice'  BY DEF ImportInv, SupplementGoesOn, NothingWrittenTwice
    <2>4. ImportedStands'
      <3>1. imported' = file'  BY <1>3, <2>1
      <3>2. HaveOrders(imported, imported)'  BY <1>4, <3>1 DEF HaveOrders
      <3>3. LinesDone(imported)'  BY <1>6, <1>8, <3>1 DEF LinesDone
      <3>4. Idle.name = "none"  BY DEF Idle
      <3> QED  BY <1>2, <2>1, <3>2, <3>3, <3>4 DEF ImportedStands
    <2> QED  BY <2>1, <2>2, <2>3, <2>4, NothingLeft
  <1>9. CASE ~(todo = {} /\ ToPay = {})
    <2> DEFINE step == IF todo # {} THEN "lines" ELSE "pay"
               next == IF todo # {} THEN todo ELSE ToPay
    <2>1. script' = Goto(step, next, NoOne)  BY <1>9 DEF AfterLines
    <2>2. step \in {"lines", "pay"} /\ step \in Steps /\ step \in ImportSteps
      BY DEF Steps, ImportSteps
    <2>3. next # {} /\ (step = "lines" => todo # {} /\ next = todo)
          /\ (step = "pay" => todo = {} /\ next = ToPay)
      BY <1>9
    <2> HIDE DEF step, next
    <2>4. /\ script'.step = step /\ script'.todo = next
          /\ script'.name = script.name /\ script'.since = script.since /\ Shaped'
      BY <1>2, <2>1, Moved
    <2>5. script' # Idle
      <3>1. Idle.step = "end"  BY DEF Idle
      <3> QED  BY <2>2, <2>4, <3>1
    <2>6. imported' = imported  BY <2>5
    <2>7. TypeOK'  BY <1>2, <2>2, <2>4 DEF TypeOK, world
    <2>9. ImportGoesOn'
      <3>1. CASE step = "lines"
        <4>1. script'.step = "lines" /\ script'.todo = todo /\ todo # {}  BY <2>3, <2>4, <3>1
        <4>2. FileLines' = FileLines
          BY <1>3 DEF FileLines, Placed, SameNumber, Blocks
        <4>3. \A d \in file : Left(d)' = {i \in LineIds : <<d, i>> \in todo}
          BY <4>1 DEF Left
        <4>4. \A d \in file' : Placed(d, file') => Placed(d, file)  BY <1>3
        <4> QED  BY <1>3, <1>4, <4>1, <4>2, <4>3, <4>4 DEF ImportGoesOn
      <3>2. CASE step = "pay"
        <4>1. script'.step = "pay" /\ script'.todo = ToPay /\ ToPay # {} /\ LinesDone(file)'
          BY <1>6, <2>3, <2>4, <3>2
        <4>2. ToPay \subseteq file  BY DEF ToPay
        <4> QED  BY <1>3, <1>4, <4>1, <4>2 DEF ImportGoesOn
      <3> QED  BY <2>2, <3>1, <3>2
    <2>10. StatusRead'  BY <2>2, <2>4 DEF StatusRead, OursStep
    <2> QED  BY <1>2, <2>2, <2>4, <2>6, <2>7, <2>9, <2>10, ImportMoves
  <1> QED  BY <1>8, <1>9

\* The lines of the touched orders go in one statement.
LEMMA ReplaceLinesStep ==
  ASSUME ImportInv, OursStep, ours' \subseteq Keys, unlisted' \subseteq HasBin, ReplaceLines
  PROVE  ImportInv'
  <1>1. /\ script.step = "clear" /\ script' = AfterLines(FileLines)
        /\ orders' = [k \in Keys |-> IF k \in Touched THEN ClearLines(orders[k]) ELSE orders[k]]
        /\ imported' = IF script' = Idle THEN file ELSE imported
        /\ UNCHANGED <<customers, acts, fg, world, runs, shop>>
    BY DEF ReplaceLines
  <1>2. TypeOK /\ file \in SUBSET Docs /\ HaveOrders(file, file)
    BY <1>1 DEF ImportInv, TypeOK, ImportGoesOn
  <1>3. \A d \in file : Key(d, file) \in Existing  BY <1>2, KeyIsKey DEF HaveOrders, Existing
  <1>4. Touched \subseteq Existing  BY <1>3 DEF Touched
  <1>5. \A k \in Existing : LET o == ClearLines(orders[k]) IN
           o \in Order /\ o.doc = orders[k].doc /\ o.lines = {} /\ o.marks = {}
    BY <1>2, OrderFields DEF ClearLines, Order
  <1>6. \A o \in Order : o # NoOne  BY NoOneAssumption
  <1>7. \A k \in Keys : /\ k \in Touched => orders'[k] = ClearLines(orders[k])
                        /\ k \notin Touched => orders'[k] = orders[k]
    BY <1>1
  <1>8. orders' \in [Keys -> Order \cup {NoOne}]
    BY <1>1, <1>2, <1>4, <1>5 DEF TypeOK
  <1>9. \A k \in Existing' : orders'[k].marks \subseteq orders'[k].lines
    <2>1. \A k \in Keys : orders'[k] # NoOne => orders'[k].marks \subseteq orders'[k].lines
      BY <1>2, <1>4, <1>5, <1>7, OrderFields DEF Existing
    <2> QED  BY <2>1 DEF Existing
  <1>10. \A d \in file : orders'[Key(d, file)] # NoOne /\ orders'[Key(d, file)].doc = d
    <2> SUFFICES ASSUME NEW d \in file
                 PROVE  orders'[Key(d, file)] # NoOne /\ orders'[Key(d, file)].doc = d
      OBVIOUS
    <2> DEFINE k == Key(d, file)
    <2>1. k \in Existing /\ k \in Keys /\ orders[k].doc = d /\ orders[k] # NoOne
      BY <1>2, <1>3 DEF HaveOrders, Existing
    <2> HIDE DEF k
    <2>2. orders'[k] # NoOne /\ orders'[k].doc = d
      <3>1. CASE k \in Touched  BY <1>5, <1>6, <1>7, <2>1, <3>1
      <3>2. CASE k \notin Touched  BY <1>7, <2>1, <3>2
      <3> QED  BY <3>1, <3>2
    <2> QED  BY <2>2 DEF k
  <1>11. ASSUME NEW d \in file, Placed(d, file)
         PROVE  Cardinality(orders'[Key(d, file)].lines)
                  + Cardinality({i \in LineIds : <<d, i>> \in FileLines}) = Copies[d]
    <2>1. Key(d, file) \in Touched /\ Key(d, file) \in Existing /\ Key(d, file) \in Keys
      BY <1>3, <1>4, <1>11 DEF Touched, Existing
    <2>2. orders'[Key(d, file)].lines = {}  BY <1>5, <1>7, <2>1
    <2>3. {i \in LineIds : <<d, i>> \in FileLines} = {i \in LineIds : i <= Copies[d]}
      BY <1>11 DEF FileLines
    <2>4. Cardinality({i \in LineIds : i <= Copies[d]}) = Copies[d] /\ Copies[d] \in Nat
      BY <1>2, LinesOfDocument, LineBounds
    <2>5. Cardinality({}) = 0  BY FS_EmptySet
    <2>6. Cardinality(orders'[Key(d, file)].lines) = 0  BY <2>2, <2>5
    <2>7. Cardinality({i \in LineIds : <<d, i>> \in FileLines}) = Copies[d]  BY <2>3, <2>4
    <2>8. 0 + Copies[d] = Copies[d]  BY <2>4
    <2> QED  BY <2>6, <2>7, <2>8
  <1> QED  BY <1>1, <1>8, <1>9, <1>10, <1>11, LinesGoOn

\* A line of the file is written to its order, which has room for it.
LEMMA AddLineStep ==
  ASSUME ImportInv, OursStep, ours' \subseteq Keys, unlisted' \subseteq HasBin, AddLine
  PROVE  ImportInv'
  <1> DEFINE r == First(script.todo)
             d == r[1]
             k == Key(d, file)
             todo == script.todo \ {r}
  <1>1. /\ script.step = "lines" /\ script' = AfterLines(todo)
        /\ orders' = [orders EXCEPT ![k].lines = orders[k].lines \cup {NewLine(orders[k])}]
        /\ imported' = IF script' = Idle THEN file ELSE imported
        /\ UNCHANGED <<customers, acts, fg, world, runs, shop>>
    BY DEF AddLine
  <1>2. /\ TypeOK /\ file \in SUBSET Docs /\ HaveOrders(file, file)
        /\ script.todo # {} /\ script.todo \subseteq FileLines
        /\ \A e \in file : Placed(e, file) =>
              Cardinality(orders[Key(e, file)].lines) + Cardinality(Left(e)) = Copies[e]
    BY <1>1 DEF ImportInv, TypeOK, ImportGoesOn
  <1>3. r \in script.todo  BY <1>2 DEF First
  <1>4. /\ r \in file \X LineIds /\ d \in file /\ r[2] \in LineIds /\ r = <<d, r[2]>>
        /\ Placed(d, file)
    BY <1>2, <1>3 DEF FileLines
  <1> DEFINE i == r[2]
             old == orders[k].lines
             o == [orders[k] EXCEPT !.lines = old \cup {NewLine(orders[k])}]
  <1>5. k \in Existing /\ k \in Keys  BY <1>2, <1>4, KeyIsKey DEF HaveOrders, Existing
  <1>6. orders[k] \in Order /\ old \in SUBSET LineIds /\ orders[k].marks \subseteq old
    BY <1>2, <1>5, OrderFields
  <1>7. \A e \in file : IsFiniteSet(Left(e)) /\ Cardinality(Left(e)) \in Nat
    BY LinesFinite DEF Left
  <1>8. i \in Left(d)  BY <1>3, <1>4 DEF Left
  <1>9. {j \in LineIds : <<d, j>> \in todo} = Left(d) \ {i}
    BY <1>4 DEF Left
  <1>10. \A e \in file : e # d => {j \in LineIds : <<e, j>> \in todo} = Left(e)
    BY <1>4 DEF Left
  <1>11. Cardinality(Left(d) \ {i}) = Cardinality(Left(d)) - 1 /\ Cardinality(Left(d)) # 0
    <2> HIDE DEF i
    <2>1. Cardinality(Left(d) \ {i}) = Cardinality(Left(d)) - 1
      BY <1>4, <1>7, <1>8, FS_RemoveElement
    <2>2. Cardinality(Left(d)) # 0  BY <1>4, <1>7, <1>8, FS_EmptySet
    <2> QED  BY <2>1, <2>2
  <1>12. Cardinality(old) + Cardinality(Left(d)) = Copies[d]  BY <1>2, <1>4
  <1>13. IsFiniteSet(old) /\ Cardinality(old) \in Nat  BY <1>6, LinesFinite
  <1>14. Copies[d] \in Nat /\ MaxLine \in Nat /\ 2 * Copies[d] <= MaxLine  BY <1>2, <1>4, LineBounds
  <1>15. Cardinality(old) < MaxLine
    <2> DEFINE a == Cardinality(old)
               b == Cardinality(Left(d))
               c == Copies[d]
    <2>1. a \in Nat /\ b \in Nat /\ b # 0 /\ a + b = c /\ c \in Nat /\ MaxLine \in Nat
          /\ 2 * c <= MaxLine
      BY <1>4, <1>7, <1>11, <1>12, <1>13, <1>14
    <2> HIDE DEF a, b, c
    <2>2. a < MaxLine  BY <2>1
    <2> QED  BY <2>2 DEF a
  <1>16. NewLine(orders[k]) \in LineIds \ old  BY <1>6, <1>15, NewLineIsNew
  <1> DEFINE new == NewLine(orders[k])
  <1> HIDE DEF new
  <1>17. Cardinality(old \cup {new}) = Cardinality(old) + 1
    BY <1>13, <1>16, FS_AddElement DEF new
  <1>18. o = [orders[k] EXCEPT !.lines = old \cup {new}]  BY DEF new
  <1>19. o \in Order /\ o.doc = orders[k].doc /\ o.lines = old \cup {new} /\ o.marks \subseteq o.lines
    <2>1. old \cup {new} \in SUBSET LineIds  BY <1>6, <1>16 DEF new
    <2> HIDE DEF o, k
    <2> QED  BY <1>6, <1>18, <2>1 DEF Order
  <1>20. orders' = [orders EXCEPT ![k] = o]  BY <1>1
  <1> HIDE DEF o
  <1>21. /\ orders' \in [Keys -> Order \cup {NoOne}]
         /\ \A x \in Existing' : orders'[x].marks \subseteq orders'[x].lines
         /\ orders'[k] = o /\ o # NoOne /\ \A x \in Keys : x # k => orders'[x] = orders[x]
    BY <1>2, <1>5, <1>19, <1>20, OrderWritten
  <1>22. \A e \in file : e # d => Key(e, file) # k /\ Key(e, file) \in Keys
    BY <1>2, <1>4, KeysDiffer, KeyIsKey
  <1>23. \A e \in file : orders'[Key(e, file)] # NoOne /\ orders'[Key(e, file)].doc = e
    <2>1. orders'[k] # NoOne /\ orders'[k].doc = d
      BY <1>2, <1>4, <1>19, <1>21 DEF HaveOrders
    <2> QED  BY <1>2, <1>21, <1>22, <2>1 DEF HaveOrders
  <1>24. ASSUME NEW e \in file, Placed(e, file)
         PROVE  Cardinality(orders'[Key(e, file)].lines)
                  + Cardinality({j \in LineIds : <<e, j>> \in todo}) = Copies[e]
    <2>1. CASE e = d
      <3>1. orders'[Key(e, file)].lines = old \cup {new}  BY <1>19, <1>21, <2>1
      <3>2. Cardinality(orders'[Key(e, file)].lines) = Cardinality(old) + 1  BY <1>17, <3>1
      <3>3. Cardinality({j \in LineIds : <<e, j>> \in todo}) = Cardinality(Left(d)) - 1
        BY <1>9, <1>11, <2>1
      <3> DEFINE a == Cardinality(old)
                 b == Cardinality(Left(d))
      <3>4. a \in Nat /\ b \in Nat /\ a + b = Copies[e]  BY <1>4, <1>7, <1>12, <1>13, <2>1
      <3> HIDE DEF a, b
      <3>5. (a + 1) + (b - 1) = Copies[e]  BY <3>4
      <3> QED  BY <3>2, <3>3, <3>5 DEF a, b
    <2>2. CASE e # d
      <3>1. orders'[Key(e, file)] = orders[Key(e, file)]  BY <1>21, <1>22, <2>2
      <3>2. {j \in LineIds : <<e, j>> \in todo} = Left(e)  BY <1>10, <2>2
      <3> QED  BY <1>2, <1>24, <3>1, <3>2
    <2> QED  BY <2>1, <2>2
  <1>25. todo \in SUBSET FileLines  BY <1>2
  <1> HIDE DEF todo
  <1> QED  BY <1>1, <1>21, <1>23, <1>24, <1>25, LinesGoOn

\* A payment of the file is written to its order.
LEMMA PayFuzzyStep ==
  ASSUME ImportInv, OursStep, ours' \subseteq Keys, unlisted' \subseteq HasBin, PayFuzzy
  PROVE  ImportInv'
  <1> DEFINE d == First(script.todo)
             k == Key(d, file)
             paid == FuzzyPaid(d, file, payments)
             o == [orders[k] EXCEPT !.paid = paid]
             rest == script.todo \ {d}
  <1>1. /\ script.step = "pay" /\ orders' = [orders EXCEPT ![k] = o]
        /\ script' = IF script.todo = {d} THEN Idle ELSE [script EXCEPT !.todo = rest]
        /\ imported' = IF script' = Idle THEN file ELSE imported
        /\ UNCHANGED <<customers, acts, fg, world, runs, shop>>
    BY DEF PayFuzzy
  <1>2. /\ TypeOK /\ file \in SUBSET Docs /\ HaveOrders(file, file) /\ LinesDone(file)
        /\ script.todo # {} /\ script.todo \subseteq file
    BY <1>1 DEF ImportInv, TypeOK, ImportGoesOn
  <1>3. d \in script.todo /\ d \in file  BY <1>2 DEF First
  <1>4. script.step \in ImportSteps /\ script.name = "import" /\ imported = NoFile /\ Shaped
    <2>1. script.step \in ImportSteps  BY <1>1 DEF ImportSteps
    <2> QED  BY <2>1, ImportRuns
  <1>5. k \in Existing /\ k \in Keys  BY <1>2, <1>3, KeyIsKey DEF HaveOrders, Existing
  <1>6. paid \in 0..Cardinality(Docs)
    <2> DEFINE P == {e \in payments \cap file : d = CHOOSE c \in Nearest(e, file) : TRUE}
    <2>1. P \in SUBSET Docs  BY <1>2
    <2>2. paid = Cardinality(P)  BY DEF FuzzyPaid
    <2> HIDE DEF P, paid
    <2>3. IsFiniteSet(Docs) /\ Cardinality(Docs) \in Nat  BY ImportAssumption, FS_CardinalityType
    <2>4. Cardinality(P) \in Nat /\ Cardinality(P) <= Cardinality(Docs)
      BY <2>1, <2>3, FS_Subset, FS_CardinalityType
    <2> QED  BY <2>2, <2>3, <2>4
  <1> HIDE DEF paid, k
  <1>7. /\ o \in Order /\ o.doc = orders[k].doc /\ o.lines = orders[k].lines
        /\ o.marks = orders[k].marks
    BY <1>2, <1>5, <1>6, OrderFields DEF Order
  <1> HIDE DEF o
  <1>8. /\ orders' \in [Keys -> Order \cup {NoOne}]
        /\ \A x \in Existing' : orders'[x].marks \subseteq orders'[x].lines
        /\ orders'[k] = o /\ o # NoOne /\ \A x \in Keys : x # k => orders'[x] = orders[x]
    <2>1. o.marks \subseteq o.lines  BY <1>2, <1>5, <1>7, OrderFields
    <2> QED  BY <1>1, <1>2, <1>5, <1>7, <2>1, OrderWritten
  <1>9. OrdersKept  BY <1>5, <1>7, <1>8 DEF OrdersKept, Existing
  <1>10. /\ \A e \in file : orders'[Key(e, file)] # NoOne /\ orders'[Key(e, file)].doc = e
         /\ \A e \in file : orders'[Key(e, file)].lines = orders[Key(e, file)].lines
    BY <1>2, <1>9, OrdersKeep
  <1>11. file' = file  BY <1>1 DEF world
  <1>12. HaveOrders(file, file)' /\ LinesDone(file)'
    BY <1>2, <1>10, <1>11 DEF HaveOrders, LinesDone, Placed, SameNumber, Blocks
  <1>14. CASE script.todo = {d}
    <2>1. script' = Idle /\ imported' = file  BY <1>1, <1>14
    <2>2. TypeOK'
      <3>1. Idle.name = "none" /\ Idle.step \in Steps  BY DEF Idle, Steps
      <3> QED  BY <1>1, <1>2, <1>8, <2>1, <3>1 DEF TypeOK, world
    <2>3. NothingWrittenTwice'
      BY <1>1 DEF ImportInv, SupplementGoesOn, NothingWrittenTwice
    <2>4. ImportedStands'
      <3>1. imported' = file'  BY <1>11, <2>1
      <3>2. HaveOrders(imported, imported)' /\ LinesDone(imported)'
        BY <1>12, <3>1 DEF HaveOrders, LinesDone
      <3>3. Idle.name = "none"  BY DEF Idle
      <3> QED  BY <1>2, <2>1, <3>2, <3>3 DEF ImportedStands
    <2> QED  BY <2>1, <2>2, <2>3, <2>4, NothingLeft
  <1>15. CASE script.todo # {d}
    <2>1. script' = [script EXCEPT !.todo = rest]  BY <1>1, <1>15
    <2>2. rest # {} /\ rest \subseteq file  BY <1>2, <1>3, <1>15
    <2> HIDE DEF rest
    <2>3. /\ script'.step = "pay" /\ script'.todo = rest
          /\ script'.name = script.name /\ script'.since = script.since /\ Shaped'
      BY <1>1, <1>4, <2>1, TodoMoved
    <2>4. imported' = imported
      <3>1. Idle.step = "end"  BY DEF Idle
      <3> QED  BY <1>1, <2>3, <3>1
    <2>5. "pay" \in Steps /\ "pay" \in ImportSteps  BY DEF Steps, ImportSteps
    <2>6. TypeOK'  BY <1>1, <1>2, <1>8, <2>3, <2>5 DEF TypeOK, world
    <2>8. ImportGoesOn'  BY <1>11, <1>12, <2>2, <2>3 DEF ImportGoesOn
    <2>9. StatusRead'  BY <2>3 DEF StatusRead, OursStep
    <2> QED  BY <1>1, <1>4, <2>3, <2>4, <2>5, <2>6, <2>8, <2>9, ImportMoves
  <1> QED  BY <1>14, <1>15

----------------------------------------------------------------------------
(* The supplement                                                          *)

ExtrasSteps == {"managers", "acts", "actLines", "fg", "exact"}

\* What a step of the supplement does not disturb.
LEMMA ExtrasMoves ==
  ASSUME ImportInv, OursStep, TypeOK', Shaped', script.step \in ExtrasSteps,
         script'.name = script.name, script'.step \in ExtrasSteps, script'.since = script.since,
         UNCHANGED <<world, shop, imported>>, OrdersKept, SupplementGoesOn'
  PROVE  ImportInv'
  <1>1. script.name = "extras"  BY DEF ImportInv, StepsKnown, ExtrasSteps
  <1>2. StepsKnown' /\ WipeGoesOn' /\ CopyStays' /\ ImportGoesOn' /\ StatusRead'
    BY <1>1 DEF ImportInv, StepsKnown, WipeGoesOn, CopyStays, ImportGoesOn,
                StatusRead, OursStep, ImportSteps, ExtrasSteps
  <1>3. ImportedStands'  BY <1>1, ImportedKeep DEF ImportInv
  <1> QED  BY <1>2, <1>3 DEF ImportInv

\* A row written with another manager or payment keeps everything else.
LEMMA RowKept ==
  ASSUME TypeOK, NEW k \in Existing, NEW o \in Order, orders' = [orders EXCEPT ![k] = o],
         o.doc = orders[k].doc, o.lines = orders[k].lines, o.marks = orders[k].marks,
         o.status = orders[k].status
  PROVE  /\ orders' \in [Keys -> Order \cup {NoOne}]
         /\ \A x \in Existing' : orders'[x].marks \subseteq orders'[x].lines
         /\ OrdersKept /\ \A x \in Existing : orders'[x].status = orders[x].status
  <1>1. k \in Keys /\ orders[k].marks \subseteq orders[k].lines  BY OrderFields
  <1>2. /\ orders' \in [Keys -> Order \cup {NoOne}]
        /\ \A x \in Existing' : orders'[x].marks \subseteq orders'[x].lines
        /\ orders'[k] = o /\ o # NoOne /\ \A x \in Keys : x # k => orders'[x] = orders[x]
    BY <1>1, OrderWritten
  <1> QED  BY <1>2 DEF OrdersKept, Existing

\* No row is written.
LEMMA NoRowKept ==
  ASSUME TypeOK, orders' = orders
  PROVE  /\ orders' \in [Keys -> Order \cup {NoOne}]
         /\ \A x \in Existing' : orders'[x].marks \subseteq orders'[x].lines
         /\ OrdersKept /\ \A x \in Existing : orders'[x].status = orders[x].status
  BY DEF TypeOK, OrdersKept, Existing

\* The managers are linked to the orders that carry the bare number.
LEMMA LinkManagerKeeps ==
  ASSUME TypeOK, LinkManager, script.todo \subseteq {Number[d] : d \in Docs}
  PROVE  /\ orders' \in [Keys -> Order \cup {NoOne}]
         /\ \A x \in Existing' : orders'[x].marks \subseteq orders'[x].lines
         /\ OrdersKept /\ \A x \in Existing : orders'[x].status = orders[x].status
  <1>1. CASE orders' = orders  BY <1>1, NoRowKept
  <1>2. ASSUME NEW n \in script.todo,
               orders' = [orders EXCEPT ![Bare(n)] =
                             IF orders[Bare(n)] = NoOne THEN orders[Bare(n)]
                             ELSE [orders[Bare(n)] EXCEPT !.manager = TRUE]]
        PROVE  /\ orders' \in [Keys -> Order \cup {NoOne}]
               /\ \A x \in Existing' : orders'[x].marks \subseteq orders'[x].lines
               /\ OrdersKept /\ \A x \in Existing : orders'[x].status = orders[x].status
    <2> DEFINE k == Bare(n)
               o == [orders[k] EXCEPT !.manager = TRUE]
    <2>1. k \in Keys  BY BareIsKey
    <2> HIDE DEF k
    <2>2. orders' = [orders EXCEPT ![k] = IF orders[k] = NoOne THEN orders[k] ELSE o]
      BY <1>2 DEF k
    <2>3. CASE orders[k] = NoOne
      <3>1. orders' = orders  BY <2>1, <2>2, <2>3 DEF TypeOK
      <3> QED  BY <3>1, NoRowKept
    <2>4. CASE orders[k] # NoOne
      <3>1. k \in Existing  BY <2>1, <2>4 DEF Existing
      <3>2. /\ o \in Order /\ o.doc = orders[k].doc /\ o.lines = orders[k].lines
            /\ o.marks = orders[k].marks /\ o.status = orders[k].status
        BY <3>1, OrderFields DEF Order
      <3>3. orders' = [orders EXCEPT ![k] = o]  BY <2>2, <2>4
      <3> HIDE DEF o
      <3> QED  BY <3>1, <3>2, <3>3, RowKept
    <2> QED  BY <2>3, <2>4
  <1> QED  BY <1>1, <1>2 DEF LinkManager

\* A manager is linked, or the acts are next.
LEMMA LinkManagerStep ==
  ASSUME ImportInv, OursStep, ours' \subseteq Keys, unlisted' \subseteq HasBin, LinkManager
  PROVE  ImportInv'
  <1>1. /\ script.step = "managers"
        /\ UNCHANGED <<customers, acts, fg, world, runs, shop, imported>>
        /\ \/ script' = Goto("acts", ActsDue, NoOne)
           \/ \E n \in script.todo : script' = [script EXCEPT !.todo = script.todo \ {n}]
    BY DEF LinkManager
  <1>2. TypeOK /\ Shaped /\ script.todo \subseteq {Number[d] : d \in Docs} /\ NothingWrittenTwice
    BY <1>1 DEF ImportInv, SupplementGoesOn
  <1>3. /\ script'.name = script.name /\ script'.since = script.since /\ Shaped'
        /\ \/ script'.step = "acts" /\ script'.todo = ActsDue
           \/ script'.step = "managers" /\ script'.todo \subseteq script.todo
    <2>1. CASE script' = Goto("acts", ActsDue, NoOne)  BY <1>2, <2>1, Moved
    <2>2. CASE \E n \in script.todo : script' = [script EXCEPT !.todo = script.todo \ {n}]
      <3>1. PICK n \in script.todo : script' = [script EXCEPT !.todo = script.todo \ {n}]  BY <2>2
      <3>2. /\ script'.todo = script.todo \ {n} /\ script'.step = script.step
            /\ script'.name = script.name /\ script'.since = script.since /\ Shaped'
        BY <1>2, <3>1, TodoMoved
      <3> QED  BY <1>1, <3>2
    <2> QED  BY <1>1, <2>1, <2>2
  <1>4. script'.step \in {"acts", "managers"} /\ script'.step \in ExtrasSteps /\ script'.step \in Steps
        /\ script.step \in ExtrasSteps
    BY <1>1, <1>3 DEF Steps, ExtrasSteps
  <1>5. /\ orders' \in [Keys -> Order \cup {NoOne}]
        /\ \A x \in Existing' : orders'[x].marks \subseteq orders'[x].lines
        /\ OrdersKept
    BY <1>2, LinkManagerKeeps
  <1>6. TypeOK'  BY <1>1, <1>2, <1>3, <1>4, <1>5 DEF TypeOK, world
  <1>8. SupplementGoesOn'
    <2>1. NothingWrittenTwice'  BY <1>1, <1>2 DEF NothingWrittenTwice
    <2>2. ActsDue' = ActsDue  BY <1>1 DEF world, ActsDue
    <2> QED  BY <1>2, <1>3, <2>1, <2>2 DEF SupplementGoesOn
  <1> QED  BY <1>1, <1>3, <1>4, <1>5, <1>6, <1>8, ExtrasMoves

\* The lines under the number of an act in a file are finitely many, and no more
\* than those of all documents under it.
LEMMA ActRowsFinite ==
  ASSUME NEW a, NEW f \in SUBSET Docs
  PROVE  /\ IsFiniteSet(ActRows(a, f)) /\ Cardinality(ActRows(a, f)) \in Nat
         /\ Cardinality(ActRows(a, Docs)) \in Nat
         /\ Cardinality(ActRows(a, f)) <= Cardinality(ActRows(a, Docs))
  <1>1. IsFiniteSet(Docs) /\ IsFiniteSet(LineIds)
    BY ImportAssumption, LineBounds, FS_Interval DEF LineIds
  <1>2. IsFiniteSet(Docs \X LineIds)  BY <1>1, FS_Product
  <1>3. ActRows(a, Docs) \subseteq Docs \X LineIds /\ ActRows(a, f) \subseteq ActRows(a, Docs)
    BY DEF ActRows
  <1>4. IsFiniteSet(ActRows(a, Docs))  BY <1>2, <1>3, FS_Subset
  <1> QED  BY <1>3, <1>4, FS_Subset, FS_CardinalityType

\* An act is passed over, gets its customer, or is created with no lines yet.
LEMMA WriteActStep ==
  ASSUME ImportInv, OursStep, ours' \subseteq Keys, unlisted' \subseteq HasBin,
         NEW d \in Docs, WriteAct(d)
  PROVE  ImportInv'
  <1> DEFINE b == RealBin(Org[Client[d]])
             a == ActNumber[d]
             rows == Cardinality(ActRows(a, file))
  <1>1. /\ script.step = "acts" /\ d \in script.todo
        /\ UNCHANGED <<orders, fg, world, runs, shop, imported>>
    BY DEF WriteAct
  <1>2. /\ TypeOK /\ Shaped /\ script.todo \subseteq ActsDue /\ NothingWrittenTwice
        /\ script.step \in ExtrasSteps /\ file \in SUBSET Docs
    BY <1>1 DEF ImportInv, SupplementGoesOn, ExtrasSteps, TypeOK
  <1>3. Client[d] \in Names /\ b \in Bins /\ a \in ActNumbers
    <2>1. Client[d] \in Names  BY DEF Names
    <2> QED  BY <2>1, BinsKnown DEF ActNumbers
  <1>4. rows \in Nat \ {0} /\ 0 <= Cardinality(ActRows(a, Docs))
    <2>1. Copies[d] > 0 /\ d \in file  BY <1>1, <1>2 DEF ActsDue
    <2>2. Copies[d] \in Nat /\ MaxLine \in Nat /\ 2 * Copies[d] <= MaxLine  BY LineBounds
    <2>3. 1 \in LineIds /\ 1 <= Copies[d]  BY <2>1, <2>2 DEF LineIds
    <2>4. <<d, 1>> \in ActRows(a, file)  BY <2>1, <2>3 DEF ActRows
    <2>5. /\ IsFiniteSet(ActRows(a, file)) /\ Cardinality(ActRows(a, file)) \in Nat
          /\ Cardinality(ActRows(a, Docs)) \in Nat
      BY <1>2, ActRowsFinite
    <2>6. Cardinality(ActRows(a, file)) # 0  BY <2>4, <2>5, FS_EmptySet
    <2> QED  BY <2>5, <2>6
  <1>5. /\ orders' \in [Keys -> Order \cup {NoOne}]
        /\ \A x \in Existing' : orders'[x].marks \subseteq orders'[x].lines
        /\ OrdersKept
    BY <1>1, <1>2, NoRowKept
  <1>6. ActsDue' = ActsDue /\ ActRows(a, file)' = ActRows(a, file)
    BY <1>1 DEF world, ActsDue, ActRows
  <1>8. acts \in [ActNumbers -> Nat \cup {NoOne}]  BY <1>2 DEF TypeOK
  <1>9. "acts" \in ExtrasSteps /\ "acts" \in Steps /\ "actLines" \in ExtrasSteps /\ "actLines" \in Steps
    BY DEF ExtrasSteps, Steps
  <1>10. CASE acts[a] # NoOne
    <2>1. script' = [script EXCEPT !.todo = script.todo \ {d}] /\ UNCHANGED <<customers, acts>>
      BY <1>10 DEF WriteAct
    <2>2. /\ script'.todo = script.todo \ {d} /\ script'.step = "acts"
          /\ script'.name = script.name /\ script'.since = script.since /\ Shaped'
      BY <1>1, <1>2, <2>1, TodoMoved
    <2>3. TypeOK'  BY <1>1, <1>2, <1>5, <1>9, <2>1, <2>2 DEF TypeOK, world
    <2>4. SupplementGoesOn'
      <3>1. NothingWrittenTwice'  BY <1>1, <1>2, <2>1 DEF NothingWrittenTwice
      <3> QED  BY <1>2, <1>6, <2>2, <3>1 DEF SupplementGoesOn
    <2> QED  BY <1>1, <1>2, <1>5, <1>9, <2>1, <2>2, <2>3, <2>4, ExtrasMoves
  <1>11. CASE acts[a] = NoOne /\ customers[b] = NoOne
    <2>1. customers' = [customers EXCEPT ![b] = Client[d]] /\ UNCHANGED <<acts, script>>
      BY <1>11 DEF WriteAct
    <2> HIDE DEF b
    <2>2. customers' \in [Bins -> Names \cup Orgs \cup {NoOne}]
      BY <1>2, <1>3, <2>1 DEF TypeOK
    <2>4. TypeOK'  BY <1>1, <1>2, <1>5, <2>1, <2>2 DEF TypeOK, world
    <2>5. SupplementGoesOn'
      <3>1. NothingWrittenTwice'  BY <1>1, <1>2, <2>1 DEF NothingWrittenTwice
      <3> QED  BY <1>1, <1>2, <1>6, <2>1, <3>1 DEF SupplementGoesOn
    <2>6. Shaped'  BY <1>2, <2>1 DEF Shaped
    <2> QED  BY <1>1, <1>2, <1>5, <2>1, <2>4, <2>5, <2>6, ExtrasMoves
  <1>12. CASE acts[a] = NoOne /\ customers[b] # NoOne
    <2> DEFINE held == [doc |-> d, left |-> rows]
    <2>1. /\ acts' = [acts EXCEPT ![a] = IF acts[a] = NoOne THEN 0 ELSE acts[a]]
          /\ script' = Goto("actLines", script.todo, held) /\ customers' = customers
      BY <1>12 DEF WriteAct
    <2>3. acts' = [acts EXCEPT ![a] = 0]  BY <1>12, <2>1
    <2>4. held = [doc |-> held.doc, left |-> held.left] /\ held.doc = d /\ held.left = rows
      OBVIOUS
    <2> HIDE DEF held
    <2>5. /\ script'.todo = script.todo /\ script'.step = "actLines" /\ script'.held = held
          /\ script'.name = script.name /\ script'.since = script.since /\ Shaped'
      BY <1>2, <2>1, Moved
    <2>6. acts' \in [ActNumbers -> Nat \cup {NoOne}] /\ acts'[a] = 0
          /\ \A e \in ActNumbers : e # a => acts'[e] = acts[e]
      BY <1>3, <1>8, <2>3
    <2>7. TypeOK'  BY <1>1, <1>2, <1>5, <1>9, <2>1, <2>5, <2>6 DEF TypeOK, world
    <2>8. NothingWrittenTwice'
      <3>1. \A e \in ActNumbers : acts'[e] # NoOne => acts'[e] <= Cardinality(ActRows(e, Docs))
        <4> SUFFICES ASSUME NEW e \in ActNumbers, acts'[e] # NoOne
                     PROVE  acts'[e] <= Cardinality(ActRows(e, Docs))
          OBVIOUS
        <4>1. CASE e = a  BY <1>4, <2>6, <4>1
        <4>2. CASE e # a  BY <1>2, <2>6, <4>2 DEF NothingWrittenTwice
        <4> QED  BY <4>1, <4>2
      <3> QED  BY <1>1, <1>2, <3>1 DEF NothingWrittenTwice
    <2>9. SupplementGoesOn'
      <3>1. script'.todo \subseteq ActsDue'  BY <1>2, <1>6, <2>5
      <3>2. script'.held.doc = d /\ script'.held.left = rows
            /\ script'.held = [doc |-> script'.held.doc, left |-> script'.held.left]
        BY <2>4, <2>5
      <3>3. acts'[ActNumber[script'.held.doc]] = 0 /\ script'.held.left \in Nat \ {0}
        BY <1>4, <2>6, <3>2
      <3>4. Cardinality(ActRows(ActNumber[script'.held.doc], file')) = rows
        BY <1>6, <3>2
      <3> HIDE DEF rows
      <3>5. acts'[ActNumber[script'.held.doc]] + script'.held.left
              = Cardinality(ActRows(ActNumber[script'.held.doc], file'))
        BY <1>4, <3>2, <3>3, <3>4
      <3>6. acts'[ActNumber[script'.held.doc]] \in Nat  BY <3>3
      <3> QED  BY <1>1, <2>5, <2>8, <3>1, <3>2, <3>3, <3>5, <3>6 DEF SupplementGoesOn
    <2> QED  BY <1>1, <1>2, <1>5, <1>9, <2>1, <2>5, <2>7, <2>9, ExtrasMoves
  <1> QED  BY <1>10, <1>11, <1>12

\* A line of the act is written; after the last one the next act follows.
LEMMA WriteActLineStep ==
  ASSUME ImportInv, OursStep, ours' \subseteq Keys, unlisted' \subseteq HasBin, WriteActLine
  PROVE  ImportInv'
  <1> DEFINE d == script.held.doc
             left == script.held.left
             a == ActNumber[d]
  <1>1. /\ script.step = "actLines" /\ acts' = [acts EXCEPT ![a] = acts[a] + 1]
        /\ left > 1 => script' = [script EXCEPT !.held.left = left - 1]
        /\ ~(left > 1) => script' = Goto("acts", script.todo \ {d}, NoOne)
        /\ UNCHANGED <<customers, orders, fg, world, runs, shop, imported>>
    BY DEF WriteActLine
  <1>2. /\ TypeOK /\ Shaped /\ script.todo \subseteq ActsDue /\ NothingWrittenTwice
        /\ script.step \in ExtrasSteps
        /\ script.held = [doc |-> d, left |-> left] /\ d \in script.todo /\ left \in Nat \ {0}
        /\ acts[a] \in Nat /\ acts[a] + left = Cardinality(ActRows(a, file))
    BY <1>1 DEF ImportInv, SupplementGoesOn, ExtrasSteps
  <1>3. d \in Docs /\ file \in SUBSET Docs  BY <1>2 DEF ActsDue, TypeOK
  <1>0. a \in ActNumbers  BY <1>3 DEF ActNumbers
  <1>10. ActsDue' = ActsDue /\ ActRows(a, file') = ActRows(a, file)  BY <1>1 DEF world, ActsDue
  <1>15. script'.held.doc = d => ActNumber[script'.held.doc] = a  OBVIOUS
  <1> HIDE DEF d, left, a
  <1>4. /\ Cardinality(ActRows(a, file)) \in Nat /\ Cardinality(ActRows(a, Docs)) \in Nat
        /\ Cardinality(ActRows(a, file)) <= Cardinality(ActRows(a, Docs))
    BY <1>3, ActRowsFinite
  <1>5. /\ acts[a] + 1 \in Nat /\ acts[a] + 1 <= Cardinality(ActRows(a, Docs))
        /\ left > 1 => /\ left - 1 \in Nat \ {0}
                       /\ (acts[a] + 1) + (left - 1) = Cardinality(ActRows(a, file))
    <2> DEFINE n == Cardinality(ActRows(a, file))
               m == Cardinality(ActRows(a, Docs))
    <2>1. n \in Nat /\ m \in Nat /\ n <= m /\ acts[a] \in Nat /\ left \in Nat \ {0} /\ acts[a] + left = n
      BY <1>2, <1>4
    <2> HIDE DEF n, m
    <2>2. /\ acts[a] + 1 \in Nat /\ acts[a] + 1 <= m
          /\ left > 1 => left - 1 \in Nat \ {0} /\ (acts[a] + 1) + (left - 1) = n
      BY <2>1
    <2> QED  BY <2>2 DEF n, m
  <1>6. acts \in [ActNumbers -> Nat \cup {NoOne}]  BY <1>2 DEF TypeOK
  <1>7. acts' \in [ActNumbers -> Nat \cup {NoOne}] /\ acts'[a] = acts[a] + 1
        /\ \A e \in ActNumbers : e # a => acts'[e] = acts[e]
    BY <1>0, <1>1, <1>5, <1>6
  <1>8. NothingWrittenTwice'
    <2>1. \A e \in ActNumbers : acts'[e] # NoOne => acts'[e] <= Cardinality(ActRows(e, Docs))
      <3> SUFFICES ASSUME NEW e \in ActNumbers, acts'[e] # NoOne
                   PROVE  acts'[e] <= Cardinality(ActRows(e, Docs))
        OBVIOUS
      <3>1. CASE e = a  BY <1>5, <1>7, <3>1
      <3>2. CASE e # a  BY <1>2, <1>7, <3>2 DEF NothingWrittenTwice
      <3> QED  BY <3>1, <3>2
    <2> QED  BY <1>1, <1>2, <2>1 DEF NothingWrittenTwice
  <1>9. /\ orders' \in [Keys -> Order \cup {NoOne}]
        /\ \A x \in Existing' : orders'[x].marks \subseteq orders'[x].lines
        /\ OrdersKept
    BY <1>1, <1>2, NoRowKept
  <1>12. "acts" \in ExtrasSteps /\ "acts" \in Steps /\ "actLines" \in ExtrasSteps /\ "actLines" \in Steps
    BY DEF ExtrasSteps, Steps
  <1>13. CASE left > 1
    <2> DEFINE held == [doc |-> d, left |-> left - 1]
    <2>1. script' = [script EXCEPT !.held = held]
      <3>1. script' = [script EXCEPT !.held.left = left - 1]  BY <1>1, <1>13
      <3>2. [script.held EXCEPT !.left = left - 1] = held  BY <1>2
      <3> QED  BY <3>1, <3>2
    <2>2. held = [doc |-> held.doc, left |-> held.left] /\ held.doc = d /\ held.left = left - 1
      OBVIOUS
    <2> HIDE DEF held
    <2>3. /\ script'.todo = script.todo /\ script'.step = "actLines" /\ script'.held = held
          /\ script'.name = script.name /\ script'.since = script.since /\ Shaped'
      BY <1>1, <1>2, <2>1, HeldMoved
    <2>4. TypeOK'  BY <1>1, <1>2, <1>7, <1>9, <1>12, <2>3 DEF TypeOK, world
    <2>5. SupplementGoesOn'
      <3>1. script'.todo \subseteq ActsDue'  BY <1>2, <1>10, <2>3
      <3>2. script'.held.doc = d /\ script'.held.left = left - 1
            /\ script'.held = [doc |-> script'.held.doc, left |-> script'.held.left]
        BY <2>2, <2>3
      <3>6. ActNumber[script'.held.doc] = a  BY <1>15, <3>2
      <3>3. script'.held.left \in Nat \ {0} /\ acts'[ActNumber[script'.held.doc]] \in Nat
        BY <1>5, <1>7, <1>13, <3>2, <3>6
      <3>4. acts'[ActNumber[script'.held.doc]] + script'.held.left
              = Cardinality(ActRows(ActNumber[script'.held.doc], file'))
        BY <1>5, <1>7, <1>10, <1>13, <3>2, <3>6
      <3>5. script'.held.doc \in script'.todo  BY <1>2, <2>3, <3>2
      <3> QED  BY <1>8, <2>3, <3>1, <3>2, <3>3, <3>4, <3>5 DEF SupplementGoesOn
    <2> QED  BY <1>1, <1>2, <1>9, <1>12, <2>3, <2>4, <2>5, ExtrasMoves
  <1>14. CASE ~(left > 1)
    <2>1. script' = Goto("acts", script.todo \ {d}, NoOne)  BY <1>1, <1>14
    <2>2. /\ script'.todo = script.todo \ {d} /\ script'.step = "acts"
          /\ script'.name = script.name /\ script'.since = script.since /\ Shaped'
      BY <1>2, <2>1, Moved
    <2>3. TypeOK'  BY <1>1, <1>2, <1>7, <1>9, <1>12, <2>2 DEF TypeOK, world
    <2>4. SupplementGoesOn'  BY <1>2, <1>8, <1>10, <2>2 DEF SupplementGoesOn
    <2> QED  BY <1>1, <1>2, <1>9, <1>12, <2>2, <2>3, <2>4, ExtrasMoves
  <1> QED  BY <1>13, <1>14

\* When the acts are written, the releases with no movement are known.
LEMMA ActsDoneStep ==
  ASSUME ImportInv, OursStep, ours' \subseteq Keys, unlisted' \subseteq HasBin, ActsDone
  PROVE  ImportInv'
  <1> DEFINE todo == UNION {ReleaseRows(n, file) : n \in NewReleases}
  <1>1. /\ script.step = "acts" /\ script' = Goto("fg", todo, NoOne)
        /\ UNCHANGED <<data, world, runs, shop, imported>>
    BY DEF ActsDone
  <1>2. TypeOK /\ Shaped /\ NothingWrittenTwice /\ script.step \in ExtrasSteps
        /\ "fg" \in ExtrasSteps /\ "fg" \in Steps
    BY <1>1 DEF ImportInv, SupplementGoesOn, ExtrasSteps, Steps
  <1>3. file \subseteq Docs  BY <1>2 DEF TypeOK
  <1>4. ASSUME NEW r \in todo
        PROVE  r \in Docs \X Docs \X LineIds /\ fg[ReleaseNumber[r[1]]] = {}
    <2>1. PICK n \in NewReleases : r \in ReleaseRows(n, file)  OBVIOUS
    <2>2. r \in file \X file \X LineIds /\ ReleaseNumber[r[1]] = n  BY <2>1 DEF ReleaseRows
    <2>3. fg[n] = {}  BY <2>1 DEF NewReleases
    <2> QED  BY <1>3, <2>2, <2>3
  <1> HIDE DEF todo
  <1>6. /\ script'.todo = todo /\ script'.step = "fg"
        /\ script'.name = script.name /\ script'.since = script.since /\ Shaped'
    BY <1>1, <1>2, Moved
  <1>7. TypeOK'  BY <1>1, <1>2, <1>6 DEF TypeOK, Existing, data, world
  <1>8. OrdersKept  BY <1>1, <1>2, NoRowKept DEF data
  <1>10. SupplementGoesOn'
    <2>1. NothingWrittenTwice'  BY <1>1, <1>2 DEF NothingWrittenTwice, data
    <2>2. fg' = fg  BY <1>1 DEF data
    <2>3. script'.todo \subseteq Docs \X Docs \X LineIds  BY <1>4, <1>6
    <2>4. \A r \in script'.todo : \A x \in fg'[ReleaseNumber[r[1]]] : x[1] = runs'
      BY <1>4, <1>6, <2>2
    <2> QED  BY <1>6, <2>1, <2>3, <2>4 DEF SupplementGoesOn
  <1> QED  BY <1>1, <1>2, <1>6, <1>7, <1>8, <1>10, ExtrasMoves

\* The orders found are orders of documents.
LEMMA NumberedKnown ==
  ASSUME TypeOK
  PROVE  Numbered \subseteq {Number[d] : d \in Docs}
  BY DEF Numbered, TypeOK

\* A line of a release is written, or the exact payments are next.
LEMMA WriteReleaseStep ==
  ASSUME ImportInv, OursStep, ours' \subseteq Keys, unlisted' \subseteq HasBin, WriteRelease
  PROVE  ImportInv'
  <1>1. /\ script.step = "fg" /\ UNCHANGED <<customers, orders, acts, world, runs, shop, imported>>
    BY DEF WriteRelease
  <1>2. /\ TypeOK /\ Shaped /\ NothingWrittenTwice /\ script.step \in ExtrasSteps
        /\ script.todo \subseteq Docs \X Docs \X LineIds
        /\ \A r \in script.todo : \A x \in fg[ReleaseNumber[r[1]]] : x[1] = runs
        /\ "fg" \in ExtrasSteps /\ "fg" \in Steps /\ "exact" \in ExtrasSteps /\ "exact" \in Steps
    BY <1>1 DEF ImportInv, SupplementGoesOn, ExtrasSteps, Steps
  <1>3. /\ orders' \in [Keys -> Order \cup {NoOne}]
        /\ \A x \in Existing' : orders'[x].marks \subseteq orders'[x].lines
        /\ OrdersKept
    BY <1>1, <1>2, NoRowKept
  <1>5. fg \in [ReleaseNumbers -> SUBSET (Nat \X (Docs \X Docs \X LineIds))] /\ runs \in Nat
    BY <1>2, ImportAssumption DEF TypeOK
  <1>6. CASE script.todo = {}
    <2>1. script' = Goto("exact", Numbered, NoOne) /\ fg' = fg  BY <1>6 DEF WriteRelease
    <2>2. /\ script'.todo = Numbered /\ script'.step = "exact"
          /\ script'.name = script.name /\ script'.since = script.since /\ Shaped'
      BY <1>2, <2>1, Moved
    <2>3. TypeOK'  BY <1>1, <1>2, <1>3, <2>1, <2>2 DEF TypeOK, world
    <2>4. SupplementGoesOn'
      <3>1. NothingWrittenTwice'  BY <1>1, <1>2, <2>1 DEF NothingWrittenTwice
      <3> QED  BY <1>2, <2>2, <3>1, NumberedKnown DEF SupplementGoesOn
    <2> QED  BY <1>1, <1>2, <1>3, <2>2, <2>3, <2>4, ExtrasMoves
  <1>7. CASE script.todo # {}
    <2>1. PICK r \in script.todo :
            /\ fg' = [fg EXCEPT ![ReleaseNumber[r[1]]] = fg[ReleaseNumber[r[1]]] \cup {<<runs, r>>}]
            /\ script' = [script EXCEPT !.todo = script.todo \ {r}]
      BY <1>7 DEF WriteRelease, First
    <2>2. PICK n : n = ReleaseNumber[r[1]]  OBVIOUS
    <2>3. r \in Docs \X Docs \X LineIds /\ n \in ReleaseNumbers
      <3>1. r \in Docs \X Docs \X LineIds  BY <1>2
      <3>2. r[1] \in Docs  BY <3>1
      <3> QED  BY <2>2, <3>1, <3>2 DEF ReleaseNumbers
    <2>4. /\ script'.todo = script.todo \ {r} /\ script'.step = "fg"
          /\ script'.name = script.name /\ script'.since = script.since /\ Shaped'
      BY <1>1, <1>2, <2>1, TodoMoved
    <2>5. fg' = [fg EXCEPT ![n] = fg[n] \cup {<<runs, r>>}]  BY <2>1, <2>2
    <2>6. /\ fg' \in [ReleaseNumbers -> SUBSET (Nat \X (Docs \X Docs \X LineIds))]
          /\ fg'[n] = fg[n] \cup {<<runs, r>>}
          /\ \A m \in ReleaseNumbers : m # n => fg'[m] = fg[m]
      BY <1>5, <2>3, <2>5
    <2>7. \A x \in fg'[n] : x[1] = runs  BY <1>2, <2>2, <2>6
    <2>8. TypeOK'  BY <1>1, <1>2, <1>3, <2>4, <2>6 DEF TypeOK, world
    <2>9. NothingWrittenTwice'
      <3>1. \A m \in ReleaseNumbers : \A x, y \in fg'[m] : x[1] = y[1]
        <4> SUFFICES ASSUME NEW m \in ReleaseNumbers, NEW x \in fg'[m], NEW y \in fg'[m]
                     PROVE  x[1] = y[1]
          OBVIOUS
        <4>1. CASE m = n  BY <2>7, <4>1
        <4>2. CASE m # n  BY <1>2, <2>6, <4>2 DEF NothingWrittenTwice
        <4> QED  BY <4>1, <4>2
      <3> QED  BY <1>1, <1>2, <3>1 DEF NothingWrittenTwice
    <2>10. ASSUME NEW q \in script'.todo, NEW x \in fg'[ReleaseNumber[q[1]]]
           PROVE  x[1] = runs'
      <3>1. q \in script.todo /\ runs' = runs  BY <1>1, <2>4
      <3>2. ReleaseNumber[q[1]] \in ReleaseNumbers
        <4>1. q \in Docs \X Docs \X LineIds  BY <1>2, <3>1
        <4>2. q[1] \in Docs  BY <4>1
        <4> QED  BY <4>2 DEF ReleaseNumbers
      <3>3. CASE ReleaseNumber[q[1]] = n  BY <2>7, <3>1, <3>3
      <3>4. CASE ReleaseNumber[q[1]] # n  BY <1>2, <2>6, <3>1, <3>2, <3>4
      <3> QED  BY <3>3, <3>4
    <2>11. script'.todo \subseteq Docs \X Docs \X LineIds  BY <1>2, <2>4
    <2>12. SupplementGoesOn'  BY <2>4, <2>9, <2>10, <2>11 DEF SupplementGoesOn
    <2> QED  BY <1>1, <1>2, <1>3, <2>4, <2>8, <2>12, ExtrasMoves
  <1> QED  BY <1>6, <1>7

\* The exact payments are written to the orders that carry the bare number.
LEMMA PayExactKeeps ==
  ASSUME TypeOK, PayExact, script.todo \subseteq {Number[d] : d \in Docs}
  PROVE  /\ orders' \in [Keys -> Order \cup {NoOne}]
         /\ \A x \in Existing' : orders'[x].marks \subseteq orders'[x].lines
         /\ OrdersKept /\ \A x \in Existing : orders'[x].status = orders[x].status
  <1>1. CASE orders' = orders  BY <1>1, NoRowKept
  <1>2. ASSUME NEW n \in script.todo,
               orders' = [orders EXCEPT ![Bare(n)] =
                   IF orders[Bare(n)] # NoOne /\ ExactPaid(n, payments) > 0
                   THEN [orders[Bare(n)] EXCEPT !.paid = ExactPaid(n, payments)]
                   ELSE orders[Bare(n)]]
        PROVE  /\ orders' \in [Keys -> Order \cup {NoOne}]
               /\ \A x \in Existing' : orders'[x].marks \subseteq orders'[x].lines
               /\ OrdersKept /\ \A x \in Existing : orders'[x].status = orders[x].status
    <2> DEFINE k == Bare(n)
               paid == ExactPaid(n, payments)
               o == [orders[k] EXCEPT !.paid = paid]
    <2>1. k \in Keys  BY BareIsKey
    <2>2. paid \in 0..Cardinality(Docs)
      <3> DEFINE P == {d \in payments : Number[d] = n}
      <3>1. P \in SUBSET Docs  BY DEF TypeOK
      <3>2. paid = Cardinality(P)  BY DEF ExactPaid
      <3> HIDE DEF P, paid
      <3>3. IsFiniteSet(Docs) /\ Cardinality(Docs) \in Nat  BY ImportAssumption, FS_CardinalityType
      <3>4. Cardinality(P) \in Nat /\ Cardinality(P) <= Cardinality(Docs)
        BY <3>1, <3>3, FS_Subset, FS_CardinalityType
      <3> QED  BY <3>2, <3>3, <3>4
    <2> HIDE DEF k, paid
    <2>3. orders' = [orders EXCEPT ![k] = IF orders[k] # NoOne /\ paid > 0 THEN o ELSE orders[k]]
      BY <1>2 DEF k, paid
    <2>4. CASE ~(orders[k] # NoOne /\ paid > 0)
      <3>1. orders' = orders  BY <2>1, <2>3, <2>4 DEF TypeOK
      <3> QED  BY <3>1, NoRowKept
    <2>5. CASE orders[k] # NoOne /\ paid > 0
      <3>1. k \in Existing  BY <2>1, <2>5 DEF Existing
      <3>2. /\ o \in Order /\ o.doc = orders[k].doc /\ o.lines = orders[k].lines
            /\ o.marks = orders[k].marks /\ o.status = orders[k].status
        BY <2>2, <3>1, OrderFields DEF Order
      <3>3. orders' = [orders EXCEPT ![k] = o]  BY <2>3, <2>5
      <3> HIDE DEF o
      <3> QED  BY <3>1, <3>2, <3>3, RowKept
    <2> QED  BY <2>4, <2>5
  <1> QED  BY <1>1, <1>2 DEF PayExact

\* A payment is written, or the supplement is over.
LEMMA PayExactStep ==
  ASSUME ImportInv, OursStep, ours' \subseteq Keys, unlisted' \subseteq HasBin, PayExact
  PROVE  ImportInv'
  <1>1. /\ script.step = "exact"
        /\ UNCHANGED <<customers, acts, fg, world, runs, shop, imported>>
        /\ \/ script' = Idle
           \/ \E n \in script.todo : script' = [script EXCEPT !.todo = script.todo \ {n}]
    BY DEF PayExact
  <1>2. /\ TypeOK /\ Shaped /\ script.todo \subseteq {Number[d] : d \in Docs} /\ NothingWrittenTwice
        /\ script.step \in ExtrasSteps /\ "exact" \in ExtrasSteps /\ "exact" \in Steps
    BY <1>1 DEF ImportInv, SupplementGoesOn, ExtrasSteps, Steps
  <1>3. /\ orders' \in [Keys -> Order \cup {NoOne}]
        /\ \A x \in Existing' : orders'[x].marks \subseteq orders'[x].lines
        /\ OrdersKept
    BY <1>2, PayExactKeeps
  <1>5. NothingWrittenTwice'  BY <1>1, <1>2 DEF NothingWrittenTwice
  <1>6. CASE script' = Idle
    <2>1. Idle.name = "none" /\ Idle.step = "end" /\ Idle.step \in Steps  BY DEF Idle, Steps
    <2>2. TypeOK'  BY <1>1, <1>2, <1>3, <1>6, <2>1 DEF TypeOK, world
    <2>3. ImportedStands'
      BY <1>1, <1>2, <1>3, <1>6, <2>1, ImportedKeep DEF ImportInv
    <2> QED  BY <1>5, <1>6, <2>2, <2>3, NothingLeft
  <1>7. CASE \E n \in script.todo : script' = [script EXCEPT !.todo = script.todo \ {n}]
    <2>1. PICK n \in script.todo : script' = [script EXCEPT !.todo = script.todo \ {n}]  BY <1>7
    <2>2. /\ script'.todo = script.todo \ {n} /\ script'.step = "exact"
          /\ script'.name = script.name /\ script'.since = script.since /\ Shaped'
      BY <1>1, <1>2, <2>1, TodoMoved
    <2>3. TypeOK'  BY <1>1, <1>2, <1>3, <2>2 DEF TypeOK, world
    <2>4. SupplementGoesOn'  BY <1>2, <1>5, <2>2 DEF SupplementGoesOn
    <2> QED  BY <1>1, <1>2, <1>3, <2>2, <2>3, <2>4, ExtrasMoves
  <1> QED  BY <1>1, <1>6, <1>7

----------------------------------------------------------------------------
(* The removal of doubled lines and the refill from a live 1C              *)

\* A mark or a line of one order is deleted.
LEMMA DeletionKeeps ==
  ASSUME ImportInv, NEW k \in Keys, NEW l \in LineIds, <<k, l>> \in script.todo,
         script.step \in {"marks", "delete"}, NEW L \in {orders[k].lines, orders[k].lines \ {l}},
         orders' = [orders EXCEPT ![k] = [orders[k] EXCEPT !.lines = L, !.marks = orders[k].marks \ {l}]]
  PROVE  /\ orders' \in [Keys -> Order \cup {NoOne}]
         /\ \A x \in Existing' : orders'[x].marks \subseteq orders'[x].lines
         /\ Existing' = Existing /\ orders'[k].lines = L
         /\ \A x \in Existing : orders'[x].status = orders[x].status
         /\ \A x \in Existing : x # k => orders'[x] = orders[x]
         /\ \A x \in Existing : orders[x].lines # {} =>
               \E j \in orders'[x].lines : <<x, j>> \notin script.todo
  <1>1. /\ TypeOK /\ script.todo \subseteq {r \in Keys \X LineIds : r[1] \in Existing}
        /\ \A x \in Existing : orders[x].lines # {} =>
              \E j \in orders[x].lines : <<x, j>> \notin script.todo
    BY DEF ImportInv, CopyStays
  <1>2. k \in Existing  BY <1>1
  <1>3. orders[k] \in Order /\ orders[k].lines \in SUBSET LineIds /\ orders[k].marks \subseteq orders[k].lines
    BY <1>1, <1>2, OrderFields
  <1> DEFINE M == orders[k].marks \ {l}
             o == [orders[k] EXCEPT !.lines = L, !.marks = M]
  <1>4. L \in SUBSET LineIds /\ M \subseteq L  BY <1>3
  <1>5. o \in Order /\ o.lines = L /\ o.marks = M /\ o.status = orders[k].status
    <2> HIDE DEF M
    <2> QED  BY <1>3, <1>4 DEF Order
  <1>6. orders' = [orders EXCEPT ![k] = o]  OBVIOUS
  <1> HIDE DEF M, o
  <1>7. /\ orders' \in [Keys -> Order \cup {NoOne}]
        /\ \A x \in Existing' : orders'[x].marks \subseteq orders'[x].lines
        /\ orders'[k] = o /\ o # NoOne /\ \A x \in Keys : x # k => orders'[x] = orders[x]
        /\ Existing' = Existing \cup {k}
    BY <1>1, <1>4, <1>5, <1>6, OrderWritten
  <1>8. \A x \in Existing : orders[x].lines # {} =>
               \E j \in orders'[x].lines : <<x, j>> \notin script.todo
    <2> SUFFICES ASSUME NEW x \in Existing, orders[x].lines # {}
                 PROVE  \E j \in orders'[x].lines : <<x, j>> \notin script.todo
      OBVIOUS
    <2>1. PICK j \in orders[x].lines : <<x, j>> \notin script.todo  BY <1>1
    <2>2. CASE x = k
      <3>1. j # l  BY <2>1, <2>2
      <3>2. j \in orders'[x].lines  BY <1>5, <1>7, <2>1, <2>2, <3>1
      <3> QED  BY <2>1, <3>2
    <2>3. CASE x # k
      <3>1. orders'[x] = orders[x]  BY <1>7, <2>3 DEF Existing
      <3> QED  BY <2>1, <3>1
    <2> QED  BY <2>2, <2>3
  <1> QED  BY <1>2, <1>5, <1>7, <1>8 DEF Existing

\* The marks of a line go before the line.
LEMMA DeleteMarksStep ==
  ASSUME ImportInv, OursStep, ours' \subseteq Keys, unlisted' \subseteq HasBin,
         NEW k \in Keys, NEW l \in LineIds, DeleteMarks(k, l)
  PROVE  /\ ImportInv'
         /\ \A x \in Existing : orders'[x].status = orders[x].status
         /\ \A x \in Existing : orders[x].lines # {} => x \in Existing' /\ orders'[x].lines # {}
  <1>1. /\ script.step = "marks" /\ <<k, l>> \in script.todo
        /\ script' = Goto("delete", script.todo, <<k, l>>)
        /\ UNCHANGED <<customers, acts, fg, world, runs, shop, imported>>
    BY DEF DeleteMarks
  <1>2. /\ TypeOK /\ Shaped /\ script.name = "dedupe" /\ imported = NoFile
        /\ script.todo \subseteq {r \in Keys \X LineIds : r[1] \in Existing}
    BY <1>1 DEF ImportInv, StepsKnown, ImportedStands, CopyStays
  <1>3. k \in Existing  BY <1>1, <1>2
  <1> DEFINE L == orders[k].lines
  <1>4. orders' = [orders EXCEPT ![k] = [orders[k] EXCEPT !.lines = L, !.marks = orders[k].marks \ {l}]]
    <2>1. orders[k] \in Order  BY <1>2, <1>3, OrderFields
    <2>2. [orders[k] EXCEPT !.marks = orders[k].marks \ {l}]
            = [orders[k] EXCEPT !.lines = L, !.marks = orders[k].marks \ {l}]
      BY <2>1 DEF Order
    <2>3. orders' = [orders EXCEPT ![k] = [orders[k] EXCEPT !.marks = orders[k].marks \ {l}]]
      BY DEF DeleteMarks
    <2> QED  BY <2>2, <2>3
  <1> HIDE DEF L
  <1>5. L \in {orders[k].lines, orders[k].lines \ {l}}  BY DEF L
  <1>6. /\ orders' \in [Keys -> Order \cup {NoOne}]
        /\ \A x \in Existing' : orders'[x].marks \subseteq orders'[x].lines
        /\ Existing' = Existing /\ orders'[k].lines = L
        /\ \A x \in Existing : orders'[x].status = orders[x].status
        /\ \A x \in Existing : x # k => orders'[x] = orders[x]
        /\ \A x \in Existing : orders[x].lines # {} =>
              \E j \in orders'[x].lines : <<x, j>> \notin script.todo
    BY <1>1, <1>4, <1>5, DeletionKeeps
  <1>7. /\ script'.step = "delete" /\ script'.todo = script.todo /\ script'.held = <<k, l>>
        /\ script'.name = script.name /\ script'.since = script.since /\ Shaped'
    BY <1>1, <1>2, Moved
  <1>8. TypeOK'
    <2>1. "delete" \in Steps  BY DEF Steps
    <2> QED  BY <1>1, <1>2, <1>6, <1>7, <2>1 DEF TypeOK, world
  <1>9. CopyStays'
    <2>1. \A x \in Existing : orders'[x].lines = orders[x].lines  BY <1>6 DEF L
    <2> QED  BY <1>1, <1>2, <1>6, <1>7, <2>1 DEF CopyStays
  <1>10. StepsKnown' /\ WipeGoesOn' /\ ImportGoesOn' /\ StatusRead'
    BY <1>1, <1>2, <1>7 DEF ImportInv, StepsKnown, WipeGoesOn, ImportGoesOn,
       StatusRead, OursStep, ImportSteps
  <1>11. ImportedStands' /\ SupplementGoesOn'
    BY <1>1, <1>2, <1>7 DEF ImportInv, ImportedStands, SupplementGoesOn, NothingWrittenTwice
  <1>12. \A x \in Existing : orders[x].lines # {} => x \in Existing' /\ orders'[x].lines # {}
    BY <1>6
  <1> QED  BY <1>6, <1>7, <1>8, <1>9, <1>10, <1>11, <1>12 DEF ImportInv

\* The line goes; another copy of it stays.
LEMMA DeleteLineStep ==
  ASSUME ImportInv, OursStep, ours' \subseteq Keys, unlisted' \subseteq HasBin, DeleteLine
  PROVE  /\ ImportInv'
         /\ \A x \in Existing : orders'[x].status = orders[x].status
         /\ \A x \in Existing : orders[x].lines # {} => x \in Existing' /\ orders'[x].lines # {}
  <1>1. /\ script.step = "delete" /\ UNCHANGED <<customers, acts, fg, world, runs, shop, imported>>
    BY DEF DeleteLine
  <1>2. /\ TypeOK /\ Shaped /\ script.name = "dedupe" /\ imported = NoFile
        /\ script.todo \subseteq {r \in Keys \X LineIds : r[1] \in Existing}
        /\ script.held \in script.todo
    BY <1>1 DEF ImportInv, StepsKnown, ImportedStands, CopyStays
  <1>3. PICK k \in Existing, l \in LineIds : script.held = <<k, l>> /\ k \in Keys
    BY <1>2
  <1> DEFINE L == orders[k].lines \ {l}
             rest == script.todo \ {<<k, l>>}
  <1>4. orders' = [orders EXCEPT ![k] = [orders[k] EXCEPT !.lines = L, !.marks = orders[k].marks \ {l}]]
    <2>1. orders[k] \in Order /\ orders \in [Keys -> Order \cup {NoOne}]
      BY <1>2, <1>3, OrderFields DEF TypeOK
    <2>2. orders' = [orders EXCEPT ![k].lines = @ \ {l}, ![k].marks = @ \ {l}]
      BY <1>3 DEF DeleteLine
    <2> QED  BY <1>3, <2>1, <2>2
  <1>5. script' = IF rest = {} THEN Idle ELSE Goto("marks", rest, NoOne)
    BY <1>3 DEF DeleteLine
  <1> HIDE DEF L
  <1>6. L \in {orders[k].lines, orders[k].lines \ {l}}  BY DEF L
  <1>7. /\ orders' \in [Keys -> Order \cup {NoOne}]
        /\ \A x \in Existing' : orders'[x].marks \subseteq orders'[x].lines
        /\ Existing' = Existing /\ orders'[k].lines = L
        /\ \A x \in Existing : orders'[x].status = orders[x].status
        /\ \A x \in Existing : x # k => orders'[x] = orders[x]
        /\ \A x \in Existing : orders[x].lines # {} =>
              \E j \in orders'[x].lines : <<x, j>> \notin script.todo
    BY <1>1, <1>2, <1>3, <1>4, <1>6, DeletionKeeps
  <1>8. \A x \in Existing : orders[x].lines # {} => x \in Existing' /\ orders'[x].lines # {}
    BY <1>7
  <1>10. NothingWrittenTwice'  BY <1>1 DEF ImportInv, SupplementGoesOn, NothingWrittenTwice
  <1>11. ImportedStands'  BY <1>1, <1>2 DEF ImportedStands
  <1>12. CASE rest = {}
    <2>1. script' = Idle  BY <1>5, <1>12
    <2>2. Idle.name = "none" /\ Idle.step \in Steps  BY DEF Idle, Steps
    <2>3. TypeOK'  BY <1>1, <1>2, <1>7, <2>1, <2>2 DEF TypeOK, world
    <2>4. ImportInv'  BY <1>10, <1>11, <2>1, <2>3, NothingLeft
    <2> QED  BY <1>7, <1>8, <2>4
  <1>13. CASE rest # {}
    <2>1. script' = Goto("marks", rest, NoOne)  BY <1>5, <1>13
    <2> HIDE DEF rest
    <2>2. /\ script'.step = "marks" /\ script'.todo = rest
          /\ script'.name = script.name /\ script'.since = script.since /\ Shaped'
      BY <1>2, <2>1, Moved
    <2>3. TypeOK'
      <3>1. "marks" \in Steps  BY DEF Steps
      <3> QED  BY <1>1, <1>2, <1>7, <2>2, <3>1 DEF TypeOK, world
    <2>4. CopyStays'
      <3>1. rest \subseteq script.todo  BY DEF rest
      <3>2. \A x \in Existing : orders'[x].lines # {} => orders[x].lines # {}
        BY <1>7 DEF L
      <3>3. \A x \in Existing' : orders'[x].lines # {} =>
              \E j \in orders'[x].lines : <<x, j>> \notin rest
        BY <1>7, <3>1, <3>2
      <3>4. rest \subseteq {r \in Keys \X LineIds : r[1] \in Existing'}  BY <1>2, <1>7, <3>1
      <3> QED  BY <2>2, <3>3, <3>4 DEF CopyStays
    <2>5. StepsKnown' /\ WipeGoesOn' /\ ImportGoesOn' /\ StatusRead'
      BY <1>1, <1>2, <2>2 DEF ImportInv, StepsKnown, WipeGoesOn, ImportGoesOn,
         StatusRead, OursStep, ImportSteps
    <2>6. SupplementGoesOn'  BY <1>10, <2>2 DEF SupplementGoesOn
    <2>7. ImportInv'  BY <1>11, <2>2, <2>3, <2>4, <2>5, <2>6 DEF ImportInv
    <2> QED  BY <1>7, <1>8, <2>7
  <1> QED  BY <1>12, <1>13

\* One order of the refill through the server, taken over or refused.
LEMMA SyncOrderStep ==
  ASSUME ImportInv, OursStep, ours' \subseteq Keys, unlisted' \subseteq HasBin,
         NEW d \in Docs, SyncOrder(d)
  PROVE  ImportInv' /\ \A x \in Keys : orders[x] # NoOne => orders'[x] = orders[x]
  <1>1. /\ script.step = "sync" /\ UNCHANGED <<acts, fg, world, runs, shop, imported>>
        /\ Taken(d) \/ UNCHANGED <<customers, orders>>
    BY DEF SyncOrder
  <1>2. PICK report : script' = Goto("sync", script.todo \ {Number[d]}, report)
    BY DEF SyncOrder
  <1>3. /\ TypeOK /\ Shaped /\ script.name = "golive" /\ imported = NoFile
    BY <1>1 DEF ImportInv, StepsKnown, ImportedStands
  <1>4. /\ orders' \in [Keys -> Order \cup {NoOne}]
        /\ \A x \in Existing' : orders'[x].marks \subseteq orders'[x].lines
        /\ customers' \in [Bins -> Names \cup Orgs \cup {NoOne}]
        /\ \A x \in Keys : orders[x] # NoOne => orders'[x] = orders[x]
    <2>1. CASE Taken(d)  BY <2>1, TakenKeeps
    <2>2. CASE UNCHANGED <<customers, orders>>
      BY <1>3, <2>2, NoRowKept DEF ImportInv, TypeOK
    <2> QED  BY <1>1, <2>1, <2>2
  <1>5. /\ script'.step = "sync"
        /\ script'.name = script.name /\ script'.since = script.since /\ Shaped'
    BY <1>2, <1>3, Moved
  <1>6. TypeOK'
    <2>1. "sync" \in Steps  BY DEF Steps
    <2> QED  BY <1>1, <1>3, <1>4, <1>5, <2>1 DEF TypeOK, world
  <1>7. StepsKnown' /\ WipeGoesOn' /\ ImportGoesOn' /\ StatusRead' /\ CopyStays'
    BY <1>1, <1>3, <1>4, <1>5 DEF ImportInv, StepsKnown, WipeGoesOn, ImportGoesOn,
       StatusRead, CopyStays, OursStep, ImportSteps
  <1>8. ImportedStands' /\ SupplementGoesOn'
    BY <1>1, <1>3, <1>5 DEF ImportInv, ImportedStands, SupplementGoesOn, NothingWrittenTwice
  <1> QED  BY <1>4, <1>5, <1>6, <1>7, <1>8 DEF ImportInv

----------------------------------------------------------------------------
(* The invariant and what follows from it                                  *)

\* Every step keeps the invariant.
LEMMA NextKeeps == ImportInv /\ [Next]_vars => ImportInv'
  <1>1. ASSUME ImportInv, Next  PROVE ImportInv'
    <2>1. OursStep  BY <1>1, OursMove
    <2>2. ours' \subseteq Keys /\ unlisted' \subseteq HasBin
      <3>1. unlisted \subseteq HasBin  BY <1>1 DEF ImportInv, TypeOK
      <3> QED  BY <1>1, <2>1, <3>1 DEF OursStep, Outside, Next
    <2>3. CASE NewExport  BY <1>1, <2>1, <2>2, <2>3, NewExportStep
    <2>4. CASE \E k \in Keys : Shop(k)  BY <1>1, <2>1, <2>2, <2>4, ShopStep
    <2>5. CASE \E d \in Docs : LiveSync(d)  BY <1>1, <2>1, <2>2, <2>5, LiveSyncStep
    <2>6. CASE StartImport  BY <1>1, <2>1, <2>2, <2>6, StartImportStep
    <2>7. CASE StartExtras  BY <1>1, <2>1, <2>2, <2>7, StartExtrasStep
    <2>8. CASE StartDedupe  BY <1>1, <2>1, <2>2, <2>8, StartDedupeStep
    <2>9. CASE StartGoLive  BY <1>1, <2>1, <2>2, <2>9, StartGoLiveStep
    <2>10. CASE Crash \/ WipeRefused \/ SyncDone  BY <1>1, <2>1, <2>2, <2>10, ScriptEnds
    <2>11. CASE Wipe  BY <1>1, <2>1, <2>2, <2>11, WipeStep
    <2>12. CASE \E n \in Names : ImportCustomer(n)  BY <1>1, <2>1, <2>2, <2>12, ImportCustomerStep
    <2>13. CASE \E d \in Docs : ReadOrder(d)  BY <1>1, <2>1, <2>2, <2>13, ReadOrderStep
    <2>14. CASE \E d \in Docs : WriteAct(d)  BY <1>1, <2>1, <2>2, <2>14, WriteActStep
    <2>15. CASE \E d \in Docs : SyncOrder(d)  BY <1>1, <2>1, <2>2, <2>15, SyncOrderStep
    <2>16. CASE WriteOrder  BY <1>1, <2>1, <2>2, <2>16, WriteOrderStep
    <2>17. CASE ReplaceLines  BY <1>1, <2>1, <2>2, <2>17, ReplaceLinesStep
    <2>18. CASE AddLine  BY <1>1, <2>1, <2>2, <2>18, AddLineStep
    <2>19. CASE PayFuzzy  BY <1>1, <2>1, <2>2, <2>19, PayFuzzyStep
    <2>20. CASE LinkManager  BY <1>1, <2>1, <2>2, <2>20, LinkManagerStep
    <2>21. CASE WriteActLine  BY <1>1, <2>1, <2>2, <2>21, WriteActLineStep
    <2>22. CASE ActsDone  BY <1>1, <2>1, <2>2, <2>22, ActsDoneStep
    <2>23. CASE WriteRelease  BY <1>1, <2>1, <2>2, <2>23, WriteReleaseStep
    <2>24. CASE PayExact  BY <1>1, <2>1, <2>2, <2>24, PayExactStep
    <2>25. CASE \E k \in Keys, l \in LineIds : DeleteMarks(k, l)
      BY <1>1, <2>1, <2>2, <2>25, DeleteMarksStep
    <2>26. CASE DeleteLine  BY <1>1, <2>1, <2>2, <2>26, DeleteLineStep
    <2> QED
      BY <1>1, <2>3, <2>4, <2>5, <2>6, <2>7, <2>8, <2>9, <2>10, <2>11, <2>12, <2>13, <2>14, <2>15,
         <2>16, <2>17, <2>18, <2>19, <2>20, <2>21, <2>22, <2>23, <2>24, <2>25, <2>26
      DEF Next, ScriptStep
  <1>2. ASSUME ImportInv, UNCHANGED vars  PROVE ImportInv'
    <2> USE <1>2 DEF ImportInv, vars, data, world
    <2>1. TypeOK' /\ Shaped' /\ StepsKnown'  BY DEF TypeOK, Existing, Shaped, StepsKnown
    <2>2. WipeGoesOn'  BY DEF WipeGoesOn, Existing
    <2>3. ImportGoesOn'
      <3>1. FileLines' = FileLines  BY DEF FileLines
      <3>2. \A d : Left(d)' = Left(d)  BY DEF Left
      <3> QED  BY <3>1, <3>2 DEF ImportGoesOn, HaveOrders, LinesDone
    <2>4. StatusRead' /\ ImportedStands'
      BY DEF StatusRead, Outside, ImportedStands, HaveOrders, LinesDone
    <2>5. SupplementGoesOn'
      <3>1. ActsDue' = ActsDue  BY DEF ActsDue
      <3>2. \A a : ActRows(a, file)' = ActRows(a, file)  BY DEF ActRows
      <3> QED  BY <3>1, <3>2 DEF SupplementGoesOn, NothingWrittenTwice
    <2>6. CopyStays'  BY DEF CopyStays, Existing
    <2> QED  BY <2>1, <2>2, <2>3, <2>4, <2>5, <2>6
  <1> QED  BY <1>1, <1>2

\* What holds of the scripts between any two statements.
THEOREM ScriptsGoOn == Spec => []ImportInv
  BY InitHolds, NextKeeps, PTL DEF Spec

\* The base stays well-formed whatever script stops where, and the order of the
\* wipe (import-1c-csv, go-live) meets a row that forbids its statement only when
\* the server wrote one meanwhile.
THEOREM WipeMeetsNoRow == Spec => []WipeIsInOrder
  <1>1. ImportInv => WipeIsInOrder
    <2> SUFFICES ASSUME ImportInv, script.step = "wipe", Refused  PROVE shop > script.since
      BY DEF ImportInv, WipeIsInOrder
    <2> DEFINE h == script.held
    <2>1. /\ Remaining(h) /\ script.since \in Nat /\ script.since <= shop /\ shop \in Nat
          /\ shop = script.since =>
              /\ Len(h) < 6 => \A a \in ActNumbers : acts[a] = NoOne
              /\ Len(h) < 2 => Existing = {}
      BY DEF ImportInv, WipeGoesOn, TypeOK
    <2>2. Len(h) \in 1..6 /\ Head(h) = WipeOrder[7 - Len(h)]  BY <2>1, NextTable
    <2>3. Head(h) = "customers" /\ (Existing # {} \/ \E a \in ActNumbers : acts[a] # NoOne)
      BY DEF Refused
    <2>4. Len(h) < 2
      <3>1. \A n \in 1..6 : WipeOrder[7 - n] = "customers" => n < 2
        <4> SUFFICES ASSUME NEW n \in 1..6, WipeOrder[7 - n] = "customers"  PROVE n < 2
          OBVIOUS
        <4>1. 7 - n \in 1..6 /\ (7 - n = 1 \/ 7 - n = 2 \/ 7 - n = 3 \/ 7 - n = 4 \/ 7 - n = 5 \/ 7 - n = 6)
          OBVIOUS
        <4>2. 7 - n = 6
          <5> HIDE DEF WipeOrder
          <5> QED  BY <4>1, TableOrder
        <4> QED  BY <4>2
      <3> HIDE DEF h
      <3> QED  BY <2>2, <2>3, <3>1
    <2>5. Len(h) < 6
      <3>1. \A n \in 1..6 : n < 2 => n < 6  OBVIOUS
      <3> HIDE DEF h
      <3> QED  BY <2>2, <2>4, <3>1
    <2>6. shop # script.since
      <3> HIDE DEF h
      <3> QED  BY <2>1, <2>3, <2>4, <2>5
    <2> QED  BY <2>1, <2>6
  <1> QED  BY <1>1, ScriptsGoOn, PTL

\* Whatever runs of the import were stopped before, the orders of a finished one
\* have the lines of their documents, once (import-1c-csv replaces the lines of the
\* orders it touches).
THEOREM LinesStayAsInFile == Spec => []LinesAsInFile
  <1>1. ImportInv => LinesAsInFile
    BY DEF ImportInv, ImportedStands, LinesDone, LinesAsInFile
  <1> QED  BY <1>1, ScriptsGoOn, PTL

\* No document of a finished import has written over the order of another one of
\* the same number (buildUniqueKeys).
THEOREM OneOrderPerDocument == Spec => []EveryDocumentHasItsOrder
  <1>1. ImportInv => EveryDocumentHasItsOrder
    BY DEF ImportInv, ImportedStands, HaveOrders, EveryDocumentHasItsOrder
  <1> QED  BY <1>1, ScriptsGoOn, PTL

\* No customer has a code of its own in place of a BIN every import had; a running
\* import has the BINs of all organisations but the unlisted.
ByCode(b) == \E n \in Names : b = CodeBin(n) /\ Org[n] \in HasBin \ unlisted
CustomersClean ==
    /\ \A b \in Bins : customers[b] # NoOne => ~ByCode(b)
    /\ script.name = "import" => HasBin \ script.listed \subseteq unlisted

\* A customer that appears has the BIN of its organisation, or a code where the
\* organisation has none or this import was not given it.
LEMMA NewCustomers ==
  ASSUME ImportInv, Next, NEW b \in Bins, customers'[b] # NoOne, customers[b] = NoOne
  PROVE  \/ \E o \in Orgs : b = RealBin(o)
         \/ \E n \in Names : b = CodeBin(n) /\ Org[n] \notin HasBin
         \/ script.name = "import" /\ \E n \in Names : b = CodeBin(n) /\ Org[n] \notin script.listed
  <1>0. customers \in [Bins -> Names \cup Orgs \cup {NoOne}]  BY DEF ImportInv, TypeOK
  <1>1. customers' # customers  OBVIOUS
  <1>2. ASSUME NEW n \in Names, UpsertCustomer(n)
        PROVE  \/ \E o \in Orgs : b = RealBin(o)
               \/ \E m \in Names : b = CodeBin(m) /\ Org[m] \notin HasBin
    <2>1. CASE Org[n] \notin HasBin
      <3>1. customers' = [customers EXCEPT ![CodeBin(n)] = n]
        BY <1>1, <1>2, <2>1 DEF UpsertCustomer
      <3>2. b = CodeBin(n)  BY <1>0, <3>1
      <3> QED  BY <2>1, <3>2
    <2>2. CASE Org[n] \in HasBin
      <3>1. \/ customers' = [customers EXCEPT ![RealBin(Org[n])] = n]
            \/ \E c \in Bins : customers' = [customers EXCEPT ![c] = NoOne, ![RealBin(Org[n])] = n]
        BY <1>2, <2>2, BinsKnown DEF UpsertCustomer, ByName
      <3>2. b = RealBin(Org[n])  BY <1>0, <3>1
      <3> QED  BY <3>2, BinsKnown
    <2> QED  BY <2>1, <2>2
  <1>3. CASE Wipe
    <2>1. customers' = customers \/ customers' = [c \in Bins |-> NoOne]  BY <1>3 DEF Wipe
    <2> QED  BY <2>1
  <1>4. CASE \E n \in Names : ImportCustomer(n)
    <2>1. PICK n \in Names : ImportCustomer(n)  BY <1>4
    <2>2. customers' = [customers EXCEPT ![Bin(n, script.listed)] = NewName(n, script.listed)]
      BY <1>1, <2>1 DEF ImportCustomer
    <2>3. b = Bin(n, script.listed)  BY <1>0, <2>2
    <2>4. script.name = "import"
      <3>1. script.step \in ImportSteps  BY <2>1 DEF ImportCustomer, ImportSteps
      <3> QED  BY <3>1, ImportRuns
    <2>5. CASE Org[n] \in script.listed  BY <2>3, <2>5, BinsKnown DEF Bin
    <2>6. CASE Org[n] \notin script.listed  BY <2>3, <2>4, <2>6 DEF Bin
    <2> QED  BY <2>5, <2>6
  <1>5. CASE \E d \in Docs : WriteAct(d)
    <2>1. PICK d \in Docs : WriteAct(d)  BY <1>5
    <2>2. customers' = [customers EXCEPT ![RealBin(Org[Client[d]])] = Client[d]]
      BY <1>1, <2>1 DEF WriteAct
    <2>3. b = RealBin(Org[Client[d]])  BY <1>0, <2>2
    <2>4. Client[d] \in Names  BY DEF Names
    <2> QED  BY <2>3, <2>4, BinsKnown
  <1>6. CASE \E d \in Docs : LiveSync(d) \/ SyncOrder(d)
    <2>1. PICK d \in Docs : Taken(d)  BY <1>1, <1>6 DEF LiveSync, SyncOrder
    <2>2. Client[d] \in Names /\ UpsertCustomer(Client[d])  BY <2>1 DEF Taken, Names
    <2> QED  BY <1>2, <2>2
  <1>7. CASE NewExport \/ StartImport \/ StartExtras \/ StartDedupe \/ StartGoLive \/ Crash
             \/ WipeRefused \/ SyncDone \/ ActsDone \/ \E d \in Docs : ReadOrder(d)
    BY <1>1, <1>7 DEF NewExport, StartImport, StartExtras, StartDedupe, StartGoLive, Crash,
                      WipeRefused, SyncDone, ActsDone, ReadOrder, data
  <1>8. CASE \/ \E k \in Keys : Shop(k)
             \/ WriteOrder \/ ReplaceLines \/ AddLine \/ PayFuzzy \/ LinkManager \/ WriteActLine
             \/ WriteRelease \/ PayExact \/ DeleteLine
             \/ \E k \in Keys, l \in LineIds : DeleteMarks(k, l)
    BY <1>1, <1>8 DEF Shop, WriteOrder, ReplaceLines, AddLine, PayFuzzy, LinkManager, WriteActLine,
                      WriteRelease, PayExact, DeleteLine, DeleteMarks
  <1> QED  BY <1>3, <1>4, <1>5, <1>6, <1>7, <1>8 DEF Next, ScriptStep

\* Every step keeps the codes away: an import without the BIN of an organisation
\* takes it off the list before it writes.
LEMMA CustomersStayClean == ImportInv /\ CustomersClean /\ [Next]_vars => CustomersClean'
  <1>1. ASSUME ImportInv, CustomersClean, Next  PROVE CustomersClean'
    <2>1. script'.name = "import" => HasBin \ script'.listed \subseteq unlisted'  BY <1>1 DEF Next
    <2>2. CASE \A b \in Bins : customers'[b] = NoOne  BY <2>1, <2>2 DEF CustomersClean
    <2>3. CASE ~\A b \in Bins : customers'[b] = NoOne
      <3>1. unlisted \subseteq unlisted'  BY <1>1, <2>3 DEF Next
      <3>2. \A b : ByCode(b)' => ByCode(b)  BY <3>1 DEF ByCode
      <3>3. \A b \in Bins : customers'[b] # NoOne => ~ByCode(b)'
        <4> SUFFICES ASSUME NEW b \in Bins, customers'[b] # NoOne  PROVE ~ByCode(b)'
          OBVIOUS
        <4>1. CASE customers[b] # NoOne  BY <1>1, <3>2, <4>1 DEF CustomersClean
        <4>2. CASE customers[b] = NoOne
          <5>1. \/ \E o \in Orgs : b = RealBin(o)
                \/ \E n \in Names : b = CodeBin(n) /\ Org[n] \notin HasBin
                \/ /\ HasBin \ script.listed \subseteq unlisted
                   /\ \E n \in Names : b = CodeBin(n) /\ Org[n] \notin script.listed
            BY <1>1, <4>2, NewCustomers DEF CustomersClean
          <5> QED  BY <3>1, <5>1 DEF ByCode, RealBin, CodeBin
        <4> QED  BY <4>1, <4>2
      <3> QED  BY <2>1, <3>3 DEF CustomersClean
    <2> QED  BY <2>2, <2>3
  <1>2. ASSUME CustomersClean, UNCHANGED vars  PROVE CustomersClean'
    BY <1>2 DEF vars, data, CustomersClean, ByCode
  <1> QED  BY <1>1, <1>2

\* The scripts and the server keep one customer for an organisation with a BIN,
\* however a document spells it, as long as no import ran without its BIN
\* (import-1c-csv, where --contractors may be left out; upsertCustomer).
THEOREM OneCustomerPerBin == Spec => []CanonicalClientOnce
  <1>1. Init => CustomersClean
    <2> SUFFICES ASSUME Init  PROVE CustomersClean
      OBVIOUS
    <2>1. script.name = "none"  BY DEF Init, Idle
    <2>2. \/ customers = [b \in Bins |-> NoOne]
          \/ \E n \in Names, listed \in SUBSET HasBin :
               /\ customers = [b \in Bins |-> IF b = Bin(n, listed) THEN NewName(n, listed) ELSE NoOne]
               /\ unlisted = HasBin \ listed
      BY DEF Init, Names
    <2> QED  BY <2>1, <2>2 DEF CustomersClean, ByCode, Bin, RealBin, CodeBin
  <1>2. CustomersClean => CanonicalClientOnce
    <2> SUFFICES ASSUME CustomersClean, NEW o \in HasBin \ unlisted
                 PROVE  Cardinality({b \in Bins : customers[b] # NoOne /\
                          (b = RealBin(o) \/ (b[1] = "code" /\ Org[b[2]] = o))}) <= 1
      BY DEF CanonicalClientOnce
    <2> DEFINE S == {b \in Bins : customers[b] # NoOne /\
                          (b = RealBin(o) \/ (b[1] = "code" /\ Org[b[2]] = o))}
    <2>1. \A b \in S : b = RealBin(o)
      <3> SUFFICES ASSUME NEW b \in S, b # RealBin(o)  PROVE FALSE
        OBVIOUS
      <3>1. b \in Bins /\ customers[b] # NoOne /\ b[1] = "code" /\ Org[b[2]] = o
        OBVIOUS
      <3>2. PICK n \in Names : b = CodeBin(n)  BY <3>1 DEF Bins, RealBin
      <3>3. Org[n] = o  BY <3>1, <3>2 DEF CodeBin
      <3> QED  BY <3>1, <3>2, <3>3 DEF ByCode, CustomersClean
    <2>2. S \subseteq {RealBin(o)}  BY <2>1
    <2>3. IsFiniteSet({RealBin(o)}) /\ Cardinality({RealBin(o)}) = 1  BY FS_Singleton
    <2> HIDE DEF S
    <2>4. Cardinality(S) <= 1  BY <2>2, <2>3, FS_Subset
    <2> QED  BY <2>4 DEF S
  <1> QED  BY <1>1, <1>2, CustomersStayClean, ScriptsGoOn, PTL DEF Spec

\* However often the supplement is stopped and run again, an act gets no more lines
\* than the documents under its number have, and no second run adds to the movements
\* of a release (import-extras).
THEOREM SupplementWritesOnce == Spec => []NothingWrittenTwice
  <1>1. ImportInv => NothingWrittenTwice  BY DEF ImportInv, SupplementGoesOn
  <1> QED  BY <1>1, ScriptsGoOn, PTL

\* Writing a field of a row that is not its status.
LEMMA LineAdded ==
  ASSUME NEW k \in Existing, NEW x, NEW L, orders' = [orders EXCEPT ![x].lines = L], TypeOK
  PROVE  orders'[k].status = orders[k].status
  <1>1. k \in Keys /\ orders[k] \in Order /\ orders \in [Keys -> Order \cup {NoOne}]
    BY OrderFields DEF TypeOK
  <1>2. [orders[k] EXCEPT !.lines = L].status = orders[k].status  BY <1>1 DEF Order
  <1> QED  BY <1>1, <1>2

\* Writing the payment of a row leaves its status.
LEMMA PaidWritten ==
  ASSUME NEW k \in Existing, NEW x, NEW n, orders' = [orders EXCEPT ![x].paid = n], TypeOK
  PROVE  orders'[k].status = orders[k].status
  <1>1. k \in Keys /\ orders[k] \in Order /\ orders \in [Keys -> Order \cup {NoOne}]
    BY OrderFields DEF TypeOK
  <1>2. [orders[k] EXCEPT !.paid = n].status = orders[k].status  BY <1>1 DEF Order
  <1> QED  BY <1>1, <1>2

\* No statement of a script writes the status of an order the shop holds.
LEMMA StatusIsSpared ==
  ASSUME ImportInv, Next, NEW k \in ours, script # Idle, shop' = shop, orders'[k] # NoOne
  PROVE  orders'[k].status = orders[k].status
  <1>1. OursStep /\ ours' \subseteq Keys /\ unlisted' \subseteq HasBin
    <2>1. unlisted \subseteq HasBin  BY DEF ImportInv, TypeOK
    <2> QED  BY <2>1, OursMove DEF OursStep, Outside, Next
  <1>2. TypeOK /\ k \in Keys /\ k \in Existing /\ k \in Existing' /\ shop \in Nat
    BY DEF ImportInv, TypeOK, StatusRead, Outside, Existing
  <1>3. CASE NewExport \/ StartImport \/ StartExtras \/ StartDedupe \/ StartGoLive
    BY <1>3 DEF NewExport, StartImport, StartExtras, StartDedupe, StartGoLive, Start
  <1>4. CASE (\E x \in Keys : Shop(x)) \/ \E d \in Docs : LiveSync(d)
    <2>1. shop' = shop + 1  BY <1>4 DEF Shop, LiveSync
    <2> QED  BY <1>2, <2>1
  <1>5. CASE orders' = orders  BY <1>5
  <1>6. CASE Wipe  BY <1>2, <1>6, WipeKeeps
  <1>7. CASE \E d \in Docs : SyncOrder(d)
    BY <1>1, <1>2, <1>7, SyncOrderStep DEF Existing
  <1>8. CASE WriteOrder
    <2>1. script.step = "write"  BY <1>8 DEF WriteOrder
    <2>2. PICK x \in Keys, o \in Order :
            /\ x = Key(script.held.doc, file) /\ orders' = [orders EXCEPT ![x] = o]
            /\ orders[x] # NoOne => (o.status = orders[x].status \/ TakeStatus(script.held.seen))
      BY <1>8, <2>1, RowWritten
    <2>3. x = k => ~TakeStatus(script.held.seen)  BY <2>1, <2>2 DEF ImportInv, StatusRead
    <2>4. orders \in [Keys -> Order \cup {NoOne}] /\ orders[k] # NoOne
      BY <1>2 DEF TypeOK, Existing
    <2>5. CASE x = k
      <3>1. o.status = orders[k].status  BY <2>2, <2>3, <2>4, <2>5
      <3>2. orders'[k] = o  BY <2>2, <2>4, <2>5
      <3> QED  BY <3>1, <3>2
    <2>6. CASE x # k
      <3>1. orders'[k] = orders[k]  BY <1>2, <2>2, <2>4, <2>6
      <3> QED  BY <3>1
    <2> QED  BY <2>5, <2>6
  <1>9. CASE ReplaceLines
    <2>1. orders'[k] = orders[k] \/ orders'[k] = ClearLines(orders[k])
      BY <1>2, <1>9 DEF ReplaceLines
    <2>2. ClearLines(orders[k]).status = orders[k].status
      BY <1>2, OrderFields DEF ClearLines, Order
    <2> QED  BY <2>1, <2>2
  <1>10. CASE AddLine
    <2>1. \E x, L : orders' = [orders EXCEPT ![x].lines = L]  BY <1>10 DEF AddLine
    <2> QED  BY <1>2, <2>1, LineAdded
  <1>11. CASE PayFuzzy
    <2>1. \E x, n : orders' = [orders EXCEPT ![x].paid = n]  BY <1>11 DEF PayFuzzy
    <2> QED  BY <1>2, <2>1, PaidWritten
  <1>12. CASE LinkManager
    <2>1. script.todo \subseteq {Number[d] : d \in Docs}
      BY <1>12 DEF LinkManager, ImportInv, SupplementGoesOn
    <2> QED  BY <1>2, <1>12, <2>1, LinkManagerKeeps
  <1>13. CASE PayExact
    <2>1. script.todo \subseteq {Number[d] : d \in Docs}
      BY <1>13 DEF PayExact, ImportInv, SupplementGoesOn
    <2> QED  BY <1>2, <1>13, <2>1, PayExactKeeps
  <1>14. CASE (\E x \in Keys, l \in LineIds : DeleteMarks(x, l)) \/ DeleteLine
    BY <1>1, <1>2, <1>14, DeleteMarksStep, DeleteLineStep
  <1>15. CASE \/ Crash \/ WipeRefused \/ SyncDone \/ WriteActLine \/ ActsDone \/ WriteRelease
              \/ \E n \in Names : ImportCustomer(n)
              \/ \E d \in Docs : ReadOrder(d) \/ WriteAct(d)
    <2>1. orders' = orders
      BY <1>15 DEF Crash, WipeRefused, SyncDone, WriteActLine, ActsDone, WriteRelease,
                   ImportCustomer, ReadOrder, WriteAct, data
    <2> QED  BY <2>1
  <1> QED
    BY <1>3, <1>4, <1>6, <1>7, <1>8, <1>9, <1>10, <1>11, <1>12, <1>13, <1>14, <1>15
    DEF Next, ScriptStep

\* While doubled lines are removed, no step takes the last line of an order.
LEMMA LastLineStays ==
  ASSUME ImportInv, Next, NEW k \in Existing, script.name = "dedupe", orders[k].lines # {}
  PROVE  orders'[k] # NoOne /\ orders'[k].lines # {}
  <1>1. OursStep /\ ours' \subseteq Keys /\ unlisted' \subseteq HasBin
    <2>1. unlisted \subseteq HasBin  BY DEF ImportInv, TypeOK
    <2> QED  BY <2>1, OursMove DEF OursStep, Outside, Next
  <1>2. TypeOK /\ script # Idle /\ script.step \in {"marks", "delete"}
    BY DEF ImportInv, StepsKnown, TypeOK, Idle, Steps, ImportSteps
  <1>3. CASE NewExport \/ StartImport \/ StartExtras \/ StartDedupe \/ StartGoLive
    BY <1>2, <1>3 DEF NewExport, StartImport, StartExtras, StartDedupe, StartGoLive, Start
  <1>4. CASE \E x \in Keys : Shop(x)  BY <1>2, <1>4, ShopKeeps DEF OrdersKept
  <1>5. CASE \E d \in Docs : LiveSync(d)
    <2>1. OrdersKept  BY <1>5, TakenKeeps DEF LiveSync
    <2> QED  BY <2>1 DEF OrdersKept
  <1>6. CASE Crash  BY <1>6 DEF Crash, data, Existing
  <1>7. CASE ScriptStep
    <2>1. (\E x \in Keys, l \in LineIds : DeleteMarks(x, l)) \/ DeleteLine
      BY <1>2, <1>7 DEF ScriptStep, Wipe, WipeRefused, ImportCustomer, ReadOrder, WriteAct, SyncOrder,
         WriteOrder, ReplaceLines, AddLine, PayFuzzy, LinkManager, WriteActLine, ActsDone,
         WriteRelease, PayExact, SyncDone
    <2>2. k \in Existing' /\ orders'[k].lines # {}
      BY <1>1, <2>1, DeleteMarksStep, DeleteLineStep
    <2> QED  BY <2>2 DEF Existing
  <1> QED  BY <1>3, <1>4, <1>5, <1>6, <1>7 DEF Next

\* A script never takes back what the shop did to an order, and the removal of
\* doubled lines leaves one copy of each.
THEOREM ScriptsSpareTheShop == Spec => ShopIsSpared
  <1>1. ImportInv /\ [Next]_vars =>
          [\A k \in ours : script # Idle /\ shop' = shop /\ orders'[k] # NoOne =>
              orders'[k].status = orders[k].status]_vars
    BY StatusIsSpared
  <1>2. ImportInv /\ [Next]_vars =>
          [\A k \in Existing : script.name = "dedupe" /\ orders[k].lines # {} =>
              orders'[k] # NoOne /\ orders'[k].lines # {}]_vars
    BY LastLineStays
  <1> QED  BY <1>1, <1>2, ScriptsGoOn, PTL DEF Spec, ShopIsSpared
=============================================================================
