---------------------------- MODULE SupplyImport ----------------------------
(***************************************************************************)
(* The supply half of the import from 1C (prisma/import-1c-csv.ts): orders *)
(* to suppliers with their lines and historical batches, the payments of   *)
(* them, and the snapshot of the stock; and the quarantine set afterwards  *)
(* (prisma/quarantine-inventory-batches.ts).  Every statement is an action *)
(* of its own, a script may stop anywhere, and the warehouse and supply    *)
(* work meanwhile.                                                         *)
(***************************************************************************)
EXTENDS BatchPrice

CONSTANTS
    Docs,        \* orders to suppliers, by their unique key
    Materials,
    Exports,     \* what 1C may export: documents, lines, payments, rows of stock
    RefPrice,    \* material -> its price in the catalogue
    Threshold,   \* ANOMALY_THRESHOLD
    Today,       \* the day of a live receipt
    Amounts,     \* quantities received and issued, sums paid
    Quantities,  \* quantities a price is asked for
    Recognised,  \* sets of materials the names in the files lead to at first
    Nothing,     \* no document, no material, no export
    MaxRuns,     \* bound: scripts started
    MaxActs      \* bound: actions of the server

\* The files: money and date of the documents they hold, what is paid of some, the
\* lines of those documents in order, and the rows of the stock.
IsExport(e) ==
    /\ DOMAIN e.total \subseteq Docs /\ DOMAIN e.paid \subseteq DOMAIN e.total
    /\ e.total \in [DOMAIN e.total -> Nat] /\ e.date \in [DOMAIN e.total -> Nat]
    /\ e.paid \in [DOMAIN e.paid -> Nat]
    /\ e.lines \in Seq([doc : DOMAIN e.total, item : Materials, qty : Int, price : Int])
    /\ e.stock \in Seq([item : Materials, day : Nat, qty : Nat, price : Nat])

ASSUME SupplyAssumption ==
    /\ IsFiniteSet(Docs) /\ IsFiniteSet(Materials)
    /\ Nothing \notin Docs \cup Materials \cup Exports
    /\ \A e \in Exports : IsExport(e)
    /\ RefPrice \in [Materials -> Nat] /\ Threshold \in Nat \ {0} /\ Today \in Nat
    /\ Amounts \subseteq Nat \ {0} /\ Quantities \subseteq Nat
    /\ Recognised \subseteq SUBSET Materials
    /\ MaxRuns \in Nat /\ MaxActs \in Nat

VARIABLES
    export,     \* the files on disk
    docs,       \* payment_documents: money, status, number of lines; or Nothing
    batches,    \* material_batches
    stockQty,   \* materials.stock_qty
    known,      \* materials a name in the files leads to (by code, name or alias)
    script,     \* the running script: name, step, work left, what it has read
    runs, acts, \* counters of the bounds
    done        \* the files of the last import that nothing disturbed

base == <<docs, batches, stockQty, known>>
vars == <<export, base, script, runs, acts, done>>

Status == {"UNPAID", "PARTIALLY_PAID", "PAID"}
InFile == DOMAIN export.total

Document == [total : Nat, paid : Nat, unpaid : Nat, status : Status, lines : Nat]
BatchRecord ==
    [id : {1, 2, 3} \X Nat \X Nat, material : Materials, origin : {"LOCAL", "ONEC", "INVENTORY"},
     doc : Docs \cup {Nothing}, day : Nat, price : Nat, left : Nat, anomaly : BOOLEAN,
     cleared : BOOLEAN]

\* What an import has read and counted: the actions seen at its start, the healthy
\* prices of the file, the materials of the last snapshot, a total, and the
\* quantities and materials of the new snapshot.
Read ==
    [acts : Nat, healthy : [Materials -> Seq(Nat)], old : SUBSET Materials, total : Nat,
     sum : [Materials -> Nat], found : SUBSET Materials]
NothingRead ==
    [acts |-> acts, healthy |-> [m \in Materials |-> <<>>], old |-> {}, total |-> 0,
     sum |-> [m \in Materials |-> 0], found |-> {}]
Idle == [name |-> "none", step |-> "end", todo |-> {}, at |-> 0, held |-> Nothing]

TypeOK ==
    /\ export \in Exports /\ done \in Exports \cup {Nothing}
    /\ docs \in [Docs -> Document \cup {Nothing}]
    /\ batches \subseteq BatchRecord /\ IsFiniteSet(batches)
    /\ stockQty \in [Materials -> Int] /\ known \subseteq Materials
    /\ runs \in 0..MaxRuns /\ acts \in 0..MaxActs
    /\ script.name \in {"none", "import", "quarantine"}
    /\ script.name = "import" => script.held \in Read

\* Rows of a material in the table of stock, and what they add up to.
StockRows(m) == {i \in DOMAIN export.stock : export.stock[i].item = m}
RowsSum(rows) == SumFunctionOnSet([i \in rows |-> export.stock[i].qty], rows)
StockOf(m) == RowsSum(StockRows(m))

Batch(id, m, origin, d, day, price, left, anomaly) ==
    [id |-> id, material |-> m, origin |-> origin, doc |-> d, day |-> day,
     price |-> price, left |-> left, anomaly |-> anomaly, cleared |-> FALSE]
LiveId(n) == <<1, n, 0>>
LineId(i) == <<2, runs, i>>
RowId(i) == <<3, runs, i>>
Of(m) == {b \in batches : b.material = m}

Init ==
    /\ export \in Exports
    /\ docs = [d \in Docs |-> Nothing] /\ batches = {} /\ known \in Recognised
    /\ stockQty = [m \in Materials |-> 0]
    /\ script = Idle /\ runs = 0 /\ acts = 0 /\ done = Nothing

(***************************************************************************)
(* Around the scripts.                                                     *)
(***************************************************************************)
NewExport ==
    /\ script = Idle /\ export' \in Exports \ {export}
    /\ done' = Nothing /\ UNCHANGED <<base, script, runs, acts>>

Act == acts < MaxActs /\ acts' = acts + 1 /\ done' = Nothing /\ UNCHANGED <<export, script, runs>>

\* A receipt of the warehouse or of the live synchronisation: a batch without a
\* document, judged by the batches of the material out of quarantine.
Receive(m, q) ==
    /\ Act
    /\ LET others == {b \in Of(m) : ~b.anomaly}
           anomaly == IsPriceAnomaly(RefPrice[m], [b \in others |-> b.price], Threshold)
       IN batches' = batches \cup
             {Batch(LiveId(acts), m, "LOCAL", Nothing, Today, RefPrice[m], q, anomaly)}
    /\ stockQty' = [stockQty EXCEPT ![m] = stockQty[m] + q]
    /\ UNCHANGED <<docs, known>>

\* The oldest batches first, in quarantine or not (ConsumeFifo).
Issue(m, q) ==
    /\ Act
    /\ LET left == {b \in Of(m) : b.left > 0} IN
       batches' = {IF b \in left THEN [b EXCEPT !.left = b.left - Taken(b, left, q)] ELSE b :
                      b \in batches}
    /\ stockQty' = [stockQty EXCEPT ![m] = stockQty[m] - q]
    /\ UNCHANGED <<docs, known>>

\* Supply confirms a suspicious price.
Confirm(b) ==
    /\ Act /\ b.anomaly
    /\ batches' = (batches \ {b}) \cup {[b EXCEPT !.anomaly = FALSE, !.cleared = TRUE]}
    /\ UNCHANGED <<docs, stockQty, known>>

AddAlias(m) ==
    /\ Act /\ m \notin known /\ known' = known \cup {m}
    /\ UNCHANGED <<docs, batches, stockQty>>

PayDocument(d, sum) ==
    /\ Act /\ docs[d] # Nothing
    /\ LET paid == docs[d].paid + sum IN
       docs' = [docs EXCEPT ![d] =
                  [docs[d] EXCEPT !.paid = paid, !.unpaid = AtLeastZero(docs[d].total - paid),
                                  !.status = IF paid >= docs[d].total THEN "PAID"
                                             ELSE "PARTIALLY_PAID"]]
    /\ UNCHANGED <<batches, stockQty, known>>

Goto(step, todo, at) == [script EXCEPT !.step = step, !.todo = todo, !.at = at]

Crash ==
    /\ script # Idle /\ script' = Idle /\ done' = Nothing
    /\ UNCHANGED <<export, base, runs, acts>>

\* The import ends; `done` remembers the files if no one else wrote since its start.
Ended == [script EXCEPT !.step = "ended"]
Finished ==
    /\ script.step = "ended" /\ script' = Idle
    /\ done' = IF script.name = "import" /\ script.held.acts = acts THEN export ELSE done
    /\ UNCHANGED <<export, base, runs, acts>>

(***************************************************************************)
(* import-1c-csv: orders to suppliers.                                     *)
(***************************************************************************)
Start(name, step, todo, held) ==
    /\ script = Idle /\ runs < MaxRuns /\ runs' = runs + 1
    /\ script' = [name |-> name, step |-> step, todo |-> todo, at |-> 0, held |-> held]
    /\ done' = Nothing /\ UNCHANGED <<export, base, acts>>

StartImport == Start("import", "docs", InFile, NothingRead)

StatusOf(total, paid) ==
    IF total > 0 /\ paid >= total THEN "PAID"
    ELSE IF paid > 0 THEN "PARTIALLY_PAID" ELSE "UNPAID"

\* The unpaid rest is set when the document is created only.
UpsertDoc(d) ==
    /\ script.step = "docs" /\ d \in script.todo
    /\ docs' = [docs EXCEPT ![d] =
            IF docs[d] = Nothing
            THEN [total |-> export.total[d], paid |-> 0, unpaid |-> export.total[d],
                  status |-> "UNPAID", lines |-> 0]
            ELSE [docs[d] EXCEPT !.total = export.total[d]]]
    /\ script' = Goto("docs", script.todo \ {d}, 0)
    /\ UNCHANGED <<export, batches, stockQty, known, runs, acts, done>>

ClearLines ==
    /\ script.step = "docs" /\ script.todo = {}
    /\ docs' = [d \in Docs |-> IF d \in InFile THEN [docs[d] EXCEPT !.lines = 0] ELSE docs[d]]
    /\ script' = Goto("clearBatches", {}, 0)
    /\ UNCHANGED <<export, batches, stockQty, known, runs, acts, done>>

\* The batches an import created of the documents in the file.
Replaced_AllOfOnec == {b \in batches : b.origin = "ONEC"}
Replaced_None == {}
Replaced == {b \in batches : b.origin = "ONEC" /\ b.doc \in InFile}
NextLine(i) == IF i < Len(export.lines) THEN Goto("line", {}, i + 1)
               ELSE Goto("pay", DOMAIN export.paid, 0)
ClearBatches ==
    /\ script.step = "clearBatches" /\ batches' = batches \ Replaced
    /\ script' = NextLine(0)
    /\ UNCHANGED <<export, docs, stockQty, known, runs, acts, done>>

\* A line gives a batch when it has a quantity and a price and its material is
\* recognised; it is kept whether or not it does.
Line == export.lines[script.at]
GivesBatch(line) == line.item \in known /\ line.qty > 0 /\ line.price > 0

WriteLine ==
    /\ script.step = "line"
    /\ docs' = [docs EXCEPT ![Line.doc] = [docs[Line.doc] EXCEPT !.lines = docs[Line.doc].lines + 1]]
    /\ script' = IF GivesBatch(Line) THEN Goto("batch", {}, script.at) ELSE NextLine(script.at)
    /\ UNCHANGED <<export, batches, stockQty, known, runs, acts, done>>

\* A price is compared with those of this file already found healthy.
Judged_ByAll(healthy, price, anomaly) == Append(healthy, price)
Judged(healthy, price, anomaly) == IF anomaly THEN healthy ELSE Append(healthy, price)
Heard(held, m, price, anomaly) ==
    [held EXCEPT !.healthy =
        [held.healthy EXCEPT ![m] = Judged(held.healthy[m], price, anomaly)]]

WriteBatch ==
    /\ script.step = "batch"
    /\ LET m == Line.item
           anomaly == IsPriceAnomaly(Line.price, script.held.healthy[m], Threshold)
       IN /\ batches' = batches \cup {Batch(LineId(script.at), m, "ONEC", Line.doc,
                                            export.date[Line.doc], Line.price, 0, anomaly)}
          /\ script' = [NextLine(script.at) EXCEPT
                           !.held = Heard(script.held, m, Line.price, anomaly)]
    /\ UNCHANGED <<export, docs, stockQty, known, runs, acts, done>>

\* The total is read by one statement and the payment written by the next.
ReadDoc(d) ==
    /\ script.step = "pay" /\ d \in script.todo
    /\ script' = [Goto("paid", script.todo, d) EXCEPT
                     !.held = [script.held EXCEPT !.total = docs[d].total]]
    /\ UNCHANGED <<export, base, runs, acts, done>>

WritePaid ==
    /\ script.step = "paid"
    /\ LET d == script.at
           paid == export.paid[d]
           total == script.held.total IN
       /\ docs' = [docs EXCEPT ![d] =
                     [docs[d] EXCEPT !.paid = paid, !.unpaid = AtLeastZero(total - paid),
                                     !.status = StatusOf(total, paid)]]
       /\ script' = Goto("pay", script.todo \ {d}, 0)
    /\ UNCHANGED <<export, batches, stockQty, known, runs, acts, done>>

(***************************************************************************)
(* The snapshot of the stock: the batches of the last one are read, then   *)
(* deleted, then written anew row by row; at last the quantity of every    *)
(* material of either snapshot is set.  No rows, no step.                  *)
(***************************************************************************)
Snapshot == {b \in batches : b.origin = "INVENTORY"}
ReadSnapshot ==
    /\ script.step = "pay" /\ script.todo = {}
    /\ script' = IF export.stock = <<>> THEN Ended
                 ELSE [Goto("unstock", {}, 0) EXCEPT
                         !.held = [script.held EXCEPT !.old = {b.material : b \in Snapshot}]]
    /\ UNCHANGED <<export, base, runs, acts, done>>

DeleteSnapshot ==
    /\ script.step = "unstock" /\ batches' = batches \ Snapshot
    /\ script' = Goto("restock", {}, 1)
    /\ UNCHANGED <<export, docs, stockQty, known, runs, acts, done>>

\* The names are looked up row by row, the quantities summed up in memory.
Row == export.stock[script.at]
Counted(held, row) ==
    IF row.item \in known
    THEN [held EXCEPT !.sum = [held.sum EXCEPT ![row.item] = held.sum[row.item] + row.qty],
                      !.found = held.found \cup {row.item}]
    ELSE held

WriteStock ==
    /\ script.step = "restock"
    /\ batches' = IF Row.item \in known
                  THEN batches \cup {Batch(RowId(script.at), Row.item, "INVENTORY", Nothing,
                                           Row.day, Row.price, Row.qty, FALSE)}
                  ELSE batches
    /\ LET held == Counted(script.held, Row) IN
       script' = [(IF script.at < Len(export.stock) THEN Goto("restock", {}, script.at + 1)
                   ELSE Goto("setQty", held.found \cup held.old, 0)) EXCEPT !.held = held]
    /\ UNCHANGED <<export, docs, stockQty, known, runs, acts, done>>

\* The snapshot sets the quantity, it does not add to it.
SetQty_Added(m) == stockQty[m] + script.held.sum[m]
SetQty(m) == script.held.sum[m]

WriteQty(m) ==
    /\ script.step = "setQty" /\ m \in script.todo
    /\ stockQty' = [stockQty EXCEPT ![m] = SetQty(m)]
    /\ script' = Goto("setQty", script.todo \ {m}, 0)
    /\ UNCHANGED <<export, docs, batches, known, runs, acts, done>>

QtyWritten ==
    /\ script.step = "setQty" /\ script.todo = {} /\ script' = Ended
    /\ UNCHANGED <<export, base, runs, acts, done>>

(***************************************************************************)
(* quarantine-inventory-batches: the batches of the snapshot are read once *)
(* and flagged one by one against the price of the catalogue.              *)
(***************************************************************************)
Suspicious(b) ==
    /\ b.origin = "INVENTORY" /\ b.price > 0 /\ RefPrice[b.material] > 0 /\ ~b.anomaly
    /\ IsPriceAnomaly(b.price, <<RefPrice[b.material]>>, Threshold)

StartQuarantine ==
    Start("quarantine", "flag", {b.id : b \in {c \in batches : Suspicious(c)}}, Nothing)

Flag(id) ==
    /\ script.step = "flag" /\ id \in script.todo
    /\ batches' = {IF b.id = id THEN [b EXCEPT !.anomaly = TRUE] ELSE b : b \in batches}
    /\ script' = Goto("flag", script.todo \ {id}, 0)
    /\ UNCHANGED <<export, docs, stockQty, known, runs, acts, done>>

Flagged ==
    /\ script.step = "flag" /\ script.todo = {} /\ script' = Ended
    /\ UNCHANGED <<export, base, runs, acts, done>>

ServerStep ==
    \/ \E m \in Materials : AddAlias(m) \/ \E q \in Amounts : Receive(m, q) \/ Issue(m, q)
    \/ \E b \in batches : Confirm(b)
    \/ \E d \in Docs, sum \in Amounts : PayDocument(d, sum)

ImportStep ==
    \/ \E d \in Docs : UpsertDoc(d) \/ ReadDoc(d)
    \/ ClearLines \/ ClearBatches \/ WriteLine \/ WriteBatch \/ WritePaid
    \/ ReadSnapshot \/ DeleteSnapshot \/ WriteStock \/ QtyWritten
    \/ \E m \in Materials : WriteQty(m)

QuarantineStep == (\E id \in script.todo : Flag(id)) \/ Flagged

Next ==
    \/ NewExport \/ ServerStep \/ StartImport \/ StartQuarantine \/ Crash
    \/ ImportStep \/ QuarantineStep \/ Finished
Spec == Init /\ [][Next]_vars

(***************************************************************************)
(* Properties.                                                             *)
(***************************************************************************)
\* "Повторная загрузка обязана заменить прошлый снимок, а не прибавиться к нему":
\* after an import the stock of a material is what the file says, however often
\* the import ran or was stopped before.
SnapshotIsFile ==
    /\ TypeOK
    /\ done # Nothing => \A m \in known : StockRows(m) # {} =>
        /\ stockQty[m] = StockOf(m)
        /\ LeftIn({b \in Snapshot : b.material = m}) = StockOf(m)

\* Lines and batches of an order to a supplier are those of its document, once, its
\* total is the document's, and paid, unpaid and status agree when its payments were
\* imported.
LinesOf(d) == {i \in DOMAIN export.lines : export.lines[i].doc = d}
BatchesOf(d) == {b \in batches : b.doc = d}
DocumentsAsInFile ==
    done # Nothing => \A d \in InFile :
        /\ docs[d].total = done.total[d]
        /\ docs[d].lines = Cardinality(LinesOf(d))
        /\ {b.id[3] : b \in BatchesOf(d)} = {i \in LinesOf(d) : GivesBatch(export.lines[i])}
        /\ \A b, c \in BatchesOf(d) : b.id[3] = c.id[3] => b = c
        /\ d \in DOMAIN done.paid =>
            /\ docs[d].paid = done.paid[d]
            /\ docs[d].unpaid = AtLeastZero(docs[d].total - docs[d].paid)
            /\ docs[d].status = StatusOf(docs[d].total, docs[d].paid)

\* "Партии прихода из живой синхронизации 1С не трогаем": no script removes a batch
\* a receipt brought in, nor one of a document that the file does not hold.
OthersBatchesStay ==
    [][\A b \in batches : b.origin = "LOCAL" \/ (b.origin = "ONEC" /\ b.doc \notin InFile) =>
            \E c \in batches' : c.id = b.id]_vars

\* "Одна ошибка не должна утаскивать за собой оценку следующих": when the prices of a
\* material in the file are those that agree with the first one, and with each
\* other, and mistakes far from all of these, then just the mistakes are put in
\* quarantine, wherever in the file they stand.
Agree(p, q) == p <= Threshold * q /\ q <= Threshold * p
Beyond(p, q) == 100 * p > (100 * Threshold + 1) * q
Priced(m) == {i \in DOMAIN export.lines :
                 export.lines[i].item = m /\ GivesBatch(export.lines[i])}
Sound(m) == {i \in Priced(m) : Agree(export.lines[i].price, export.lines[Min(Priced(m))].price)}
MistakesStandOut(m) ==
    /\ \A i, j \in Sound(m) : Agree(export.lines[i].price, export.lines[j].price)
    /\ \A i \in Sound(m), j \in Priced(m) \ Sound(m) :
          \/ Beyond(export.lines[i].price, export.lines[j].price)
          \/ Beyond(export.lines[j].price, export.lines[i].price)

OneMistakeOnly ==
    done # Nothing => \A m \in Materials : MistakesStandOut(m) =>
        \A b \in Of(m) : b.doc \in InFile => (b.anomaly <=> b.id[3] \notin Sound(m))

\* However the price of a quantity is chosen, what is covered and what is short add up
\* to it, no batch gives more than it has, and none in quarantine gives anything unless
\* the caller overrules it: asked for by its id it is refused, and so is a batch of
\* another material. Oldest first and the weighted average cover the same, and a younger
\* batch is touched only when every older one that counts is used up (resolvePrice).
PriceCoversQuantity ==
    \A m \in Materials, q \in Quantities, allow \in BOOLEAN :
        LET f == Fifo(Of(m), q, allow)
            w == WeightedAvg(Of(m), q, allow)
            asked == UNION {Specific(Of(m), q, b.id, allow) : b \in batches}
            counts(b) == b.material = m /\ (allow \/ ~b.anomaly)
            used(b) == QtyOf({a \in f.allocations : a.id = b.id})
        IN /\ \A r \in {f, w, LastPurchase(Of(m), q, allow)} \cup asked :
                 r.covered + r.shortage = q /\ r.covered <= q
           /\ \A r \in {f} \cup asked : \A a \in r.allocations :
                 \E b \in batches : b.id = a.id /\ counts(b) /\ a.qty <= b.left
           /\ \A b \in batches : Specific(Of(m), q, b.id, allow) # {} <=> counts(b)
           /\ f.covered = w.covered
           /\ \A b, c \in {x \in batches : counts(x) /\ x.left > 0} :
                 b.day < c.day /\ used(c) > 0 => used(b) = b.left
=============================================================================
