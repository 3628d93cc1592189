------------------------- MODULE SupplyImportProofs -------------------------
(***************************************************************************)
(* Proofs about SupplyImport and BatchPrice: an import that nobody disturbs *)
(* leaves the documents, batches and stock of the file, once, however many *)
(* imports stopped before it; the quarantine tells mistakes from prices;   *)
(* no script removes a batch that is not its own; and a price covers the   *)
(* quantity it is asked for, whatever lies in the batches.                 *)
(***************************************************************************)
EXTENDS SupplyImport, SumProofs, TLAPS

(***************************************************************************)
(* The inductive invariant.                                                *)
(***************************************************************************)
Ids == {1, 2, 3} \X Nat \X Nat
ImportSteps ==
    {"docs", "clearBatches", "line", "batch", "pay", "paid", "unstock", "restock", "setQty",
     "ended"}
Importing == script.name = "import"

\* The lines written and judged, and the rows of the stock written, by this import.
Written ==
    IF script.step \in {"docs", "clearBatches"} THEN 0
    ELSE IF script.step = "line" THEN script.at - 1
    ELSE IF script.step = "batch" THEN script.at ELSE Len(export.lines)
JudgedTo ==
    IF script.step \in {"docs", "clearBatches"} THEN 0
    ELSE IF script.step \in {"line", "batch"} THEN script.at - 1 ELSE Len(export.lines)
StockedTo ==
    IF script.step = "restock" THEN script.at - 1
    ELSE IF script.step \in {"setQty", "ended"} THEN Len(export.stock) ELSE 0
BatchesMade == script.step \notin {"docs", "clearBatches"}
SnapshotMade ==
    script.step \in {"restock", "setQty"} \/ (script.step = "ended" /\ export.stock # <<>>)

\* What a script carries, step by step.
Carried ==
    [name : {"import"}, step : ImportSteps, todo : SUBSET (Docs \cup Materials),
     at : Nat \cup Docs, held : Read]
ImportShape ==
    /\ script \in Carried
    /\ script.held.acts <= acts
    /\ script.step = "docs" => script.todo \subseteq InFile
    /\ script.step \in {"line", "batch"} => script.at \in 1..Len(export.lines)
    /\ script.step = "batch" => GivesBatch(Line)
    /\ script.step \in {"pay", "paid"} => script.todo \subseteq DOMAIN export.paid
    /\ script.step = "paid" => script.at \in script.todo
    /\ script.step \in {"unstock", "restock", "setQty"} => export.stock # <<>>
    /\ script.step = "restock" => script.at \in 1..Len(export.stock)
    /\ script.step = "setQty" => script.todo \subseteq Materials
QuarantineShape ==
    script \in [name : {"quarantine"}, step : {"flag", "ended"}, todo : SUBSET Ids, at : {0},
                held : {Nothing}]
Shaped == script = Idle \/ ImportShape \/ QuarantineShape

\* A batch tells by its identity where it comes from, and no two have the same.
Marked(b) ==
    /\ b.origin = "LOCAL" => b.id[1] = 1 /\ b.id[2] < acts /\ b.doc = Nothing
    /\ b.origin = "ONEC" => b.id[1] = 2 /\ b.id[2] <= runs /\ b.doc \in Docs
    /\ b.origin = "INVENTORY" => b.id[1] = 3 /\ b.id[2] <= runs /\ b.doc = Nothing
OneById == \A b, c \in batches : b.id = c.id => b = c
IdsTold ==
    /\ \A b \in batches : Marked(b)
    /\ OneById
    /\ Importing => \A b \in batches : b.id[2] = runs =>
          /\ b.origin = "ONEC" => b.id[3] \in 1..JudgedTo
          /\ b.origin = "INVENTORY" => b.id[3] \in 1..StockedTo

\* A document or material the step has still to write.
ToWrite(step, x) == script.step = step /\ x \in script.todo

\* The documents of the file, and the lines written of each.
LinesTo(d, n) == {i \in 1..n : export.lines[i].doc = d}
DocsWritten ==
    Importing =>
        /\ \A d \in InFile : ToWrite("docs", d)
                                \/ (docs[d] \in Document /\ docs[d].total = export.total[d])
        /\ script.step # "docs" =>
              \A d \in InFile : docs[d].lines = Cardinality(LinesTo(d, Written))
        /\ script.step = "paid" => script.held.total = docs[script.at].total

\* Once the batches of the last import are removed, those of the documents in the
\* file are of this one; likewise those of the snapshot.
OldRemoved ==
    Importing =>
        /\ BatchesMade => \A b \in batches : b.doc \in InFile => b.id[2] = runs
        /\ SnapshotMade => \A b \in Snapshot : b.id[2] = runs

\* Nobody but the import has written since it began.
Calm == Importing /\ script.held.acts = acts

\* Batches and payments so far.
BatchesAsInFile ==
    Calm /\ BatchesMade => \A d \in InFile :
        {b.id[3] : b \in BatchesOf(d)} = {i \in LinesTo(d, JudgedTo) : GivesBatch(export.lines[i])}
PaidAsInFile ==
    Calm /\ script.step \in {"pay", "paid", "unstock", "restock", "setQty", "ended"} =>
        \A d \in DOMAIN export.paid :
            \/ ToWrite("pay", d) \/ ToWrite("paid", d)
            \/ /\ docs[d].paid = export.paid[d]
               /\ docs[d].unpaid = AtLeastZero(docs[d].total - docs[d].paid)
               /\ docs[d].status = StatusOf(docs[d].total, docs[d].paid)

\* The snapshot so far: what is summed up in memory, and what lies in the batches.
RowsTo(m, n) == {i \in StockRows(m) : i <= n}
SnapshotAsInFile ==
    Calm => \A m \in Materials :
        /\ script.held.sum[m] = IF m \in known THEN RowsSum(RowsTo(m, StockedTo)) ELSE 0
        /\ m \in script.held.found <=> m \in known /\ RowsTo(m, StockedTo) # {}
        /\ SnapshotMade => LeftIn({b \in Snapshot : b.material = m}) = script.held.sum[m]
        /\ m \in script.held.found /\ script.step \in {"setQty", "ended"} =>
              \/ ToWrite("setQty", m)
              \/ stockQty[m] = script.held.sum[m]

\* The judgement of the prices so far.
JudgedWell ==
    Calm => \A m \in Materials : MistakesStandOut(m) =>
        /\ \A k \in DOMAIN script.held.healthy[m] : \E i \in Sound(m) :
              i <= JudgedTo /\ script.held.healthy[m][k] = export.lines[i].price
        /\ (\E i \in Priced(m) : i <= JudgedTo) => script.held.healthy[m] # <<>>
        /\ BatchesMade => \A b \in Of(m) :
              b.doc \in InFile => (b.anomaly <=> b.id[3] \notin Sound(m))

\* What is said of an import that ended undisturbed is said with no script running.
AfterEnd ==
    done # Nothing =>
        /\ script = Idle /\ done = export
        /\ SnapshotIsFile /\ DocumentsAsInFile /\ OneMistakeOnly

SupplyInv ==
    /\ TypeOK /\ Shaped /\ IdsTold /\ DocsWritten /\ OldRemoved
    /\ BatchesAsInFile /\ PaidAsInFile /\ SnapshotAsInFile /\ JudgedWell /\ AfterEnd

----------------------------------------------------------------------------
(* Quotients and medians                                                   *)

\* A quotient is at most, or at least, what its bound multiplied out says.
LEMMA DivAtMost ==
  ASSUME NEW n \in Int, NEW d \in Nat \ {0}, NEW q \in Int, n < (q + 1) * d
  PROVE  n \div d <= q
  <1> DEFINE k == n \div d
  <1>1. k \in Int /\ d * k <= n  OBVIOUS
  <1> HIDE DEF k
  <1>2. ASSUME k >= q + 1  PROVE FALSE
    <2>1. d * k >= d * (q + 1)  BY <1>1, <1>2
    <2> QED  BY <1>1, <2>1
  <1>3. k <= q  BY <1>1, <1>2
  <1> QED  BY <1>3 DEF k

LEMMA DivAtLeast ==
  ASSUME NEW n \in Int, NEW d \in Nat \ {0}, NEW q \in Int, n >= q * d
  PROVE  n \div d >= q
  <1> DEFINE k == n \div d
  <1>1. k \in Int /\ n < d * k + d  OBVIOUS
  <1> HIDE DEF k
  <1>2. ASSUME k <= q - 1  PROVE FALSE
    <2>1. d * k <= d * (q - 1)  BY <1>1, <1>2
    <2> QED  BY <1>1, <2>1
  <1>3. k >= q  BY <1>1, <1>2
  <1> QED  BY <1>3 DEF k

\* The same of a quotient rounded half up.
LEMMA RoundAtMost ==
  ASSUME NEW a \in Nat, NEW b \in Nat \ {0}, NEW q \in Nat, 2 * a + b < (q + 1) * (2 * b)
  PROVE  RoundDiv(a, b) \in Int /\ RoundDiv(a, b) <= q
  <1> DEFINE n == 2 * a + b
             d == 2 * b
  <1>1. n \in Int /\ d \in Nat \ {0} /\ n < (q + 1) * d  OBVIOUS
  <1>2. RoundDiv(a, b) = n \div d  BY DEF RoundDiv
  <1> HIDE DEF n, d
  <1>3. n \div d <= q  BY <1>1, DivAtMost
  <1> QED  BY <1>1, <1>2, <1>3

LEMMA RoundAtLeast ==
  ASSUME NEW a \in Nat, NEW b \in Nat \ {0}, NEW q \in Nat, 2 * a + b >= q * (2 * b)
  PROVE  RoundDiv(a, b) \in Int /\ RoundDiv(a, b) >= q
  <1> DEFINE n == 2 * a + b
             d == 2 * b
  <1>1. n \in Int /\ d \in Nat \ {0} /\ n >= q * d  OBVIOUS
  <1>2. RoundDiv(a, b) = n \div d  BY DEF RoundDiv
  <1> HIDE DEF n, d
  <1>3. n \div d >= q  BY <1>1, DivAtLeast
  <1> QED  BY <1>1, <1>2, <1>3

\* The k-th price is one of the prices.
LEMMA KthIsOne ==
  ASSUME NEW prices, NEW at, IsFiniteSet(at), at # {}, \A i \in at : prices[i] \in Nat,
         NEW k \in Nat, k <= Cardinality(at)
  PROVE  \E i \in at : Kth(prices, at, k) = prices[i]
  <1> DEFINE most == {j \in at : Cardinality({h \in at : prices[h] <= prices[j]}) >= k}
             S == {prices[i] : i \in most}
  <1>1. PICK j \in at : \A h \in at : prices[h] <= prices[j]
    BY MostExists
  <1>2. {h \in at : prices[h] <= prices[j]} = at  BY <1>1
  <1>3. Cardinality(at) \in Nat  BY FS_CardinalityType
  <1>4. j \in most  BY <1>2, <1>3
  <1>5. S \subseteq Nat /\ S # {}  BY <1>4
  <1>6. \E x \in S : \A y \in S : x <= y
    <2> HIDE DEF S
    <2> QED  BY <1>5, LeastExists
  <1>7. Min(S) \in S
    <2> HIDE DEF S
    <2> QED  BY <1>6 DEF Min
  <1>8. Kth(prices, at, k) = Min(S)  BY DEF Kth
  <1> HIDE DEF S
  <1>9. Kth(prices, at, k) \in S  BY <1>7, <1>8
  <1> QED  BY <1>9 DEF S

\* Twice the median of positive prices is the sum of two of them.
LEMMA MedianOfTwo ==
  ASSUME NEW prices, IsFiniteSet(DOMAIN prices), \A i \in DOMAIN prices : prices[i] \in Nat \ {0}
  PROVE  /\ DOMAIN prices = {} => TwiceMedian(prices) = 0
         /\ DOMAIN prices # {} =>
              \E i, j \in DOMAIN prices : TwiceMedian(prices) = prices[i] + prices[j]
  <1> DEFINE at == {i \in DOMAIN prices : prices[i] > 0}
             n == Cardinality(at)
             k == (n + 1) \div 2
             l == n \div 2 + 1
  <1>1. at = DOMAIN prices  OBVIOUS
  <1>2. CASE DOMAIN prices = {}  BY <1>1, <1>2 DEF TwiceMedian
  <1>3. CASE DOMAIN prices # {}
    <2>1. n \in Nat /\ n # 0  BY <1>1, <1>3, FS_CardinalityType, FS_EmptySet
    <2>2. k \in Nat /\ k <= n /\ l \in Nat /\ l <= n
      <3> HIDE DEF n
      <3> QED  BY <2>1
    <2>3. TwiceMedian(prices) = Kth(prices, at, k) + Kth(prices, at, l)
      BY <1>1, <1>3 DEF TwiceMedian
    <2>4. IsFiniteSet(at) /\ at # {} /\ \A i \in at : prices[i] \in Nat  BY <1>1, <1>3
    <2> HIDE DEF at, k, l
    <2>5. PICK i \in at : Kth(prices, at, k) = prices[i]  BY <2>2, <2>4, KthIsOne DEF n
    <2>6. PICK j \in at : Kth(prices, at, l) = prices[j]  BY <2>2, <2>4, KthIsOne DEF n
    <2> QED  BY <1>1, <2>3, <2>5, <2>6
  <1> QED  BY <1>2, <1>3

\* A price near enough to the median is not suspicious, one far from it is.
LEMMA NearIsFine ==
  ASSUME NEW price \in Nat \ {0}, NEW others, NEW mid \in Nat \ {0}, NEW limit \in Nat,
         TwiceMedian(others) = mid,
         2 * price <= limit * mid, mid <= limit * (2 * price)
  PROVE  ~IsPriceAnomaly(price, others, limit)
  <1> DEFINE up == RoundDiv(200 * price, mid)
             down == RoundDiv(100 * mid, 2 * price)
  <1>1. up <= 100 * limit /\ up \in Int
    <2>1. 2 * (200 * price) + mid < (100 * limit + 1) * (2 * mid)
      <3>1. 400 * price <= 200 * (limit * mid)  OBVIOUS
      <3>2. (100 * limit + 1) * (2 * mid) = 200 * (limit * mid) + 2 * mid  OBVIOUS
      <3> QED  BY <3>1, <3>2
    <2> QED  BY <2>1, RoundAtMost
  <1>2. down <= 100 * limit /\ down \in Int
    <2>1. 2 * (100 * mid) + 2 * price < (100 * limit + 1) * (2 * (2 * price))
      <3>1. 200 * mid <= 200 * (limit * (2 * price))  OBVIOUS
      <3>2. (100 * limit + 1) * (2 * (2 * price)) = 200 * (limit * (2 * price)) + 4 * price
        OBVIOUS
      <3> QED  BY <3>1, <3>2
    <2> QED  BY <2>1, RoundAtMost
  <1>3. AnomalyFactor(price, others) = IF up > down THEN up ELSE down
    BY DEF AnomalyFactor
  <1> HIDE DEF up, down
  <1>4. AnomalyFactor(price, others) <= 100 * limit /\ AnomalyFactor(price, others) \in Int
    BY <1>1, <1>2, <1>3
  <1> QED  BY <1>4 DEF IsPriceAnomaly

LEMMA FarIsAnomaly ==
  ASSUME NEW price \in Nat \ {0}, NEW others, NEW mid \in Nat \ {0}, NEW limit \in Nat,
         TwiceMedian(others) = mid,
         \/ 200 * price > (100 * limit + 1) * mid
         \/ 100 * mid > (100 * limit + 1) * (2 * price)
  PROVE  IsPriceAnomaly(price, others, limit)
  <1> DEFINE up == RoundDiv(200 * price, mid)
             down == RoundDiv(100 * mid, 2 * price)
  <1>0. up \in Int /\ down \in Int  BY DEF RoundDiv
  <1>1. ASSUME 200 * price > (100 * limit + 1) * mid  PROVE up >= 100 * limit + 1
    <2>1. 2 * (200 * price) + mid >= (100 * limit + 1) * (2 * mid)
      <3>1. (100 * limit + 1) * (2 * mid) = 2 * ((100 * limit + 1) * mid)  OBVIOUS
      <3> QED  BY <1>1, <3>1
    <2> QED  BY <2>1, RoundAtLeast
  <1>2. ASSUME 100 * mid > (100 * limit + 1) * (2 * price)  PROVE down >= 100 * limit + 1
    <2>1. 2 * (100 * mid) + 2 * price >= (100 * limit + 1) * (2 * (2 * price))
      <3>1. (100 * limit + 1) * (2 * (2 * price)) = 2 * ((100 * limit + 1) * (2 * price))
        OBVIOUS
      <3> QED  BY <1>2, <3>1
    <2> DEFINE a == 100 * mid
               b == 2 * price
               q == 100 * limit + 1
    <2>2. a \in Nat /\ b \in Nat \ {0} /\ q \in Nat  OBVIOUS
    <2>3. 2 * a + b >= q * (2 * b)  BY <2>1
    <2> HIDE DEF a, b, q
    <2>4. RoundDiv(a, b) >= q  BY <2>2, <2>3, RoundAtLeast
    <2> QED  BY <2>4 DEF a, b, q
  <1>3. AnomalyFactor(price, others) = IF up > down THEN up ELSE down
    BY DEF AnomalyFactor
  <1> HIDE DEF up, down
  <1>4. up >= 100 * limit + 1 \/ down >= 100 * limit + 1  BY <1>1, <1>2
  <1>5. AnomalyFactor(price, others) >= 100 * limit + 1 /\ AnomalyFactor(price, others) \in Int
    BY <1>0, <1>3, <1>4
  <1> QED  BY <1>5 DEF IsPriceAnomaly

----------------------------------------------------------------------------
(* What the scripts carry                                                  *)

\* What the exports hold, in the words of IsExport.
LEMMA FileHolds ==
  ASSUME TypeOK
  PROVE  /\ InFile \subseteq Docs /\ DOMAIN export.paid \subseteq InFile
         /\ IsFiniteSet(InFile) /\ Nothing \notin InFile /\ export # Nothing
         /\ export.total \in [InFile -> Nat] /\ export.date \in [InFile -> Nat]
         /\ export.paid \in [DOMAIN export.paid -> Nat]
         /\ export.lines \in Seq([doc : InFile, item : Materials, qty : Int, price : Int])
         /\ export.stock \in Seq([item : Materials, day : Nat, qty : Nat, price : Nat])
  <1>1. IsExport(export) /\ export # Nothing  BY SupplyAssumption DEF TypeOK
  <1>2. InFile \subseteq Docs  BY <1>1 DEF IsExport, InFile
  <1>3. IsFiniteSet(InFile) /\ Nothing \notin InFile  BY <1>2, FS_Subset, SupplyAssumption
  <1> QED  BY <1>1, <1>2, <1>3 DEF IsExport, InFile

\* The lines and the rows are records, and there are so many of them.
LEMMA LinesHold ==
  ASSUME TypeOK
  PROVE  /\ Len(export.lines) \in Nat /\ DOMAIN export.lines = 1..Len(export.lines)
         /\ \A i \in 1..Len(export.lines) :
              /\ export.lines[i].doc \in InFile /\ export.lines[i].item \in Materials
              /\ export.lines[i].qty \in Int /\ export.lines[i].price \in Int
         /\ Len(export.stock) \in Nat /\ DOMAIN export.stock = 1..Len(export.stock)
         /\ \A i \in 1..Len(export.stock) :
              /\ export.stock[i].item \in Materials /\ export.stock[i].day \in Nat
              /\ export.stock[i].qty \in Nat /\ export.stock[i].price \in Nat
         /\ export.stock # <<>> <=> Len(export.stock) > 0
  <1> DEFINE A == [doc : InFile, item : Materials, qty : Int, price : Int]
             B == [item : Materials, day : Nat, qty : Nat, price : Nat]
  <1>1. export.lines \in Seq(A) /\ export.stock \in Seq(B)  BY FileHolds
  <1> HIDE DEF A, B
  <1>2. /\ Len(export.lines) \in Nat /\ DOMAIN export.lines = 1..Len(export.lines)
        /\ \A i \in 1..Len(export.lines) : export.lines[i] \in A
    BY <1>1
  <1>3. /\ Len(export.stock) \in Nat /\ DOMAIN export.stock = 1..Len(export.stock)
        /\ \A i \in 1..Len(export.stock) : export.stock[i] \in B
    BY <1>1
  <1>4. export.stock # <<>> <=> Len(export.stock) > 0  BY <1>1
  <1> QED  BY <1>2, <1>3, <1>4 DEF A, B

\* The fields of a script that goes on, and of one whose readings change.
LEMMA GotoIs ==
  ASSUME script \in Carried, NEW step \in ImportSteps, NEW todo \in SUBSET (Docs \cup Materials),
         NEW at \in Nat \cup Docs
  PROVE  /\ Goto(step, todo, at) \in Carried /\ Goto(step, todo, at).step = step
         /\ Goto(step, todo, at).todo = todo /\ Goto(step, todo, at).at = at
         /\ Goto(step, todo, at).held = script.held
  BY DEF Goto, Carried

LEMMA HeldIs ==
  ASSUME NEW s \in Carried, NEW h \in Read
  PROVE  /\ [s EXCEPT !.held = h] \in Carried /\ [s EXCEPT !.held = h].step = s.step
         /\ [s EXCEPT !.held = h].todo = s.todo /\ [s EXCEPT !.held = h].at = s.at
         /\ [s EXCEPT !.held = h].held = h
  BY DEF Carried

LEMMA EndedIs ==
  ASSUME script \in Carried
  PROVE  /\ Ended \in Carried /\ Ended.step = "ended" /\ Ended.todo = script.todo
         /\ Ended.at = script.at /\ Ended.held = script.held
  BY DEF Ended, Carried, ImportSteps

LEMMA NextLineIs ==
  ASSUME TypeOK, script \in Carried, NEW i \in Nat
  PROVE  /\ NextLine(i) \in Carried /\ NextLine(i).held = script.held
         /\ i < Len(export.lines) => NextLine(i).step = "line" /\ NextLine(i).at = i + 1
         /\ ~(i < Len(export.lines)) =>
              NextLine(i).step = "pay" /\ NextLine(i).todo = DOMAIN export.paid
  <1>1. DOMAIN export.paid \in SUBSET (Docs \cup Materials)  BY FileHolds
  <1>2. "line" \in ImportSteps /\ "pay" \in ImportSteps /\ 0 \in Nat \cup Docs
        /\ i + 1 \in Nat \cup Docs /\ {} \in SUBSET (Docs \cup Materials)
    BY DEF ImportSteps
  <1>3. CASE i < Len(export.lines)
    BY <1>2, <1>3, GotoIs DEF NextLine
  <1>4. CASE ~(i < Len(export.lines))
    BY <1>1, <1>2, <1>4, GotoIs DEF NextLine
  <1> QED  BY <1>3, <1>4

\* What a total, a list of materials, a judged price and a counted row make of the readings.
LEMMA ReadingIs ==
  ASSUME NEW held \in Read
  PROVE  /\ \A n \in Nat : LET h == [held EXCEPT !.total = n] IN
              /\ h \in Read /\ h.acts = held.acts /\ h.healthy = held.healthy /\ h.total = n
              /\ h.sum = held.sum /\ h.found = held.found
         /\ \A ms \in SUBSET Materials : LET h == [held EXCEPT !.old = ms] IN
              /\ h \in Read /\ h.acts = held.acts /\ h.healthy = held.healthy
              /\ h.sum = held.sum /\ h.found = held.found
  BY DEF Read

LEMMA HeardIs ==
  ASSUME NEW held \in Read, NEW m \in Materials, NEW price \in Nat, NEW anomaly \in BOOLEAN
  PROVE  /\ Heard(held, m, price, anomaly) \in Read
         /\ Heard(held, m, price, anomaly).acts = held.acts
         /\ Heard(held, m, price, anomaly).sum = held.sum
         /\ Heard(held, m, price, anomaly).found = held.found
         /\ \A k \in Materials : Heard(held, m, price, anomaly).healthy[k]
              = IF k = m THEN Judged(held.healthy[m], price, anomaly) ELSE held.healthy[k]
  <1>1. held.healthy[m] \in Seq(Nat)  BY DEF Read
  <1>2. Append(held.healthy[m], price) \in Seq(Nat)  BY <1>1
  <1>3. Judged(held.healthy[m], price, anomaly) \in Seq(Nat)  BY <1>1, <1>2 DEF Judged
  <1> DEFINE j == Judged(held.healthy[m], price, anomaly)
             f == [held.healthy EXCEPT ![m] = j]
  <1>4. f \in [Materials -> Seq(Nat)]
    <2> HIDE DEF j
    <2> QED  BY <1>3 DEF Read, j
  <1>7. \A k \in Materials : f[k] = IF k = m THEN j ELSE held.healthy[k]  BY DEF Read
  <1>5. Heard(held, m, price, anomaly) = [held EXCEPT !.healthy = f]  BY DEF Heard
  <1> HIDE DEF f
  <1>6. /\ [held EXCEPT !.healthy = f] \in Read /\ [held EXCEPT !.healthy = f].acts = held.acts
        /\ [held EXCEPT !.healthy = f].healthy = f /\ [held EXCEPT !.healthy = f].sum = held.sum
        /\ [held EXCEPT !.healthy = f].found = held.found
    BY <1>4 DEF Read
  <1> QED  BY <1>5, <1>6, <1>7 DEF f

LEMMA CountedIs ==
  ASSUME NEW held \in Read, NEW row \in [item : Materials, day : Nat, qty : Nat, price : Nat]
  PROVE  /\ Counted(held, row) \in Read /\ Counted(held, row).acts = held.acts
         /\ Counted(held, row).healthy = held.healthy /\ Counted(held, row).old = held.old
         /\ row.item \notin known => Counted(held, row) = held
         /\ row.item \in known =>
              /\ Counted(held, row).sum
                   = [held.sum EXCEPT ![row.item] = held.sum[row.item] + row.qty]
              /\ Counted(held, row).found = held.found \cup {row.item}
  <1> DEFINE f == [held.sum EXCEPT ![row.item] = held.sum[row.item] + row.qty]
             g == held.found \cup {row.item}
  <1>1. f \in [Materials -> Nat] /\ g \in SUBSET Materials  BY DEF Read
  <1>2. Counted(held, row)
          = IF row.item \in known THEN [held EXCEPT !.sum = f, !.found = g] ELSE held
    BY DEF Counted
  <1> HIDE DEF f, g
  <1>3. /\ [held EXCEPT !.sum = f, !.found = g] \in Read
        /\ [held EXCEPT !.sum = f, !.found = g].acts = held.acts
        /\ [held EXCEPT !.sum = f, !.found = g].healthy = held.healthy
        /\ [held EXCEPT !.sum = f, !.found = g].old = held.old
        /\ [held EXCEPT !.sum = f, !.found = g].sum = f
        /\ [held EXCEPT !.sum = f, !.found = g].found = g
    BY <1>1 DEF Read
  <1> QED  BY <1>2, <1>3 DEF f, g

\* A step of an import leaves the import with a shape, and the rest of the world,
\* the readings of its start included, as it was.
LEMMA ImportScripts ==
  ASSUME TypeOK, ImportShape, DocsWritten, ImportStep
  PROVE  /\ ImportShape' /\ script'.held.acts = script.held.acts
         /\ UNCHANGED <<export, known, runs, acts, done>>
  <1>1. ASSUME UNCHANGED <<export, known, runs, acts, done>>, script' \in Carried,
               script'.held.acts = script.held.acts,
               \/ script'.step \in {"clearBatches", "ended"}
               \/ script'.step = "unstock" /\ export.stock # <<>>
               \/ script'.step = "docs" /\ script'.todo \subseteq InFile
               \/ script'.step = "line" /\ script'.at \in 1..Len(export.lines)
               \/ script'.step = "batch" /\ script'.at = script.at /\ script.step = "line"
                    /\ GivesBatch(Line)
               \/ script'.step = "pay" /\ script'.todo \subseteq DOMAIN export.paid
               \/ script'.step = "paid" /\ script'.todo \subseteq DOMAIN export.paid
                    /\ script'.at \in script'.todo
               \/ script'.step = "restock" /\ script'.at \in 1..Len(export.stock)
               \/ script'.step = "setQty" /\ export.stock # <<>> /\ script'.todo \subseteq Materials
        PROVE  ImportShape'
    BY <1>1 DEF ImportShape, InFile, Line, GivesBatch
  <1>a. /\ script \in Carried /\ script.held \in Read
        /\ Importing /\ script.todo \in SUBSET (Docs \cup Materials)
    BY DEF ImportShape, Carried, Importing
  <1>b. /\ {} \in SUBSET (Docs \cup Materials) /\ 0 \in Nat \cup Docs /\ 1 \in Nat \cup Docs
        /\ "docs" \in ImportSteps /\ "clearBatches" \in ImportSteps /\ "batch" \in ImportSteps
        /\ "pay" \in ImportSteps /\ "paid" \in ImportSteps /\ "unstock" \in ImportSteps
        /\ "restock" \in ImportSteps /\ "setQty" \in ImportSteps
    BY DEF ImportSteps
  <1>2. CASE \E d \in Docs : UpsertDoc(d)
    <2>1. PICK d \in Docs : UpsertDoc(d)  BY <1>2
    <2>2. script.todo \subseteq InFile /\ script' = Goto("docs", script.todo \ {d}, 0)
          /\ UNCHANGED <<export, known, runs, acts, done>>
      BY <2>1 DEF UpsertDoc, ImportShape
    <2>3. script.todo \ {d} \in SUBSET (Docs \cup Materials)  BY <1>a
    <2>4. /\ script' \in Carried /\ script'.held = script.held /\ script'.step = "docs"
          /\ script'.todo \subseteq InFile
      BY <1>a, <1>b, <2>2, <2>3, GotoIs
    <2> QED  BY <1>1, <2>2, <2>4
  <1>3. CASE \E d \in Docs : ReadDoc(d)
    <2>1. PICK d \in Docs : ReadDoc(d)  BY <1>3
    <2> DEFINE h == [script.held EXCEPT !.total = docs[d].total]
    <2>2. /\ script.step = "pay" /\ script.todo \subseteq DOMAIN export.paid /\ d \in script.todo
          /\ script' = [Goto("paid", script.todo, d) EXCEPT !.held = h]
          /\ UNCHANGED <<export, known, runs, acts, done>>
      BY <2>1 DEF ReadDoc, base, ImportShape
    <2>3. docs[d].total \in Nat
      <3>1. d \in InFile  BY <2>2, FileHolds
      <3>2. docs[d] \in Document  BY <1>a, <2>2, <3>1 DEF DocsWritten, ToWrite
      <3> QED  BY <3>2 DEF Document
    <2>4. h \in Read /\ h.acts = script.held.acts  BY <1>a, <2>3, ReadingIs
    <2> HIDE DEF h
    <2> DEFINE s == Goto("paid", script.todo, d)
    <2>5. s \in Carried /\ s.step = "paid" /\ s.todo = script.todo /\ s.at = d
      <3>1. d \in Nat \cup Docs /\ "paid" \in ImportSteps  BY <1>b
      <3> QED  BY <1>a, <3>1 DEF Goto, Carried
    <2>7. script' = [s EXCEPT !.held = h]  BY <2>2
    <2> HIDE DEF s
    <2>6. /\ script' \in Carried /\ script'.step = "paid" /\ script'.todo = script.todo
          /\ script'.at = d /\ script'.held = h
      BY <2>7, <2>4, <2>5, HeldIs
    <2> QED  BY <1>1, <2>2, <2>4, <2>6
  <1>4. CASE ClearLines
    <2>1. script' = Goto("clearBatches", {}, 0) /\ UNCHANGED <<export, known, runs, acts, done>>
      BY <1>4 DEF ClearLines
    <2>2. script' \in Carried /\ script'.held = script.held /\ script'.step = "clearBatches"
      BY <1>a, <1>b, <2>1, GotoIs
    <2> QED  BY <1>1, <2>1, <2>2
  <1>c. ASSUME NEW i \in 0..Len(export.lines), script' = NextLine(i),
               UNCHANGED <<export, known, runs, acts, done>>
        PROVE  ImportShape' /\ script'.held.acts = script.held.acts
    <2>1. /\ script' \in Carried /\ script'.held = script.held
          /\ i < Len(export.lines) => script'.step = "line" /\ script'.at = i + 1
          /\ ~(i < Len(export.lines)) =>
               script'.step = "pay" /\ script'.todo = DOMAIN export.paid
      BY <1>a, <1>c, NextLineIs
    <2>2. i < Len(export.lines) => i + 1 \in 1..Len(export.lines)  BY LinesHold
    <2> QED  BY <1>1, <1>c, <2>1, <2>2
  <1>5. CASE ClearBatches
    <2>1. script' = NextLine(0) /\ UNCHANGED <<export, known, runs, acts, done>>
      BY <1>5 DEF ClearBatches
    <2>2. 0 \in 0..Len(export.lines)  BY LinesHold
    <2> QED  BY <1>c, <2>1, <2>2
  <1>6. CASE WriteLine
    <2>1. /\ script.step = "line" /\ script.at \in 1..Len(export.lines)
          /\ script' = IF GivesBatch(Line) THEN Goto("batch", {}, script.at)
                       ELSE NextLine(script.at)
          /\ UNCHANGED <<export, known, runs, acts, done>>
      BY <1>6 DEF WriteLine, ImportShape
    <2>2. CASE GivesBatch(Line)
      <3>0. script.at \in Nat \cup Docs  BY <2>1
      <3>1. /\ script' \in Carried /\ script'.held = script.held /\ script'.step = "batch"
            /\ script'.at = script.at
        BY <1>a, <1>b, <2>1, <2>2, <3>0, GotoIs
      <3> QED  BY <1>1, <2>1, <2>2, <3>1
    <2>3. CASE ~GivesBatch(Line)
      <3>1. script.at \in 0..Len(export.lines)  BY <2>1
      <3> QED  BY <1>c, <2>1, <2>3, <3>1
    <2> QED  BY <2>2, <2>3
  <1>7. CASE WriteBatch
    <2> DEFINE m == Line.item
               anomaly == IsPriceAnomaly(Line.price, script.held.healthy[m], Threshold)
               h == Heard(script.held, m, Line.price, anomaly)
    <2>1. /\ script.step = "batch" /\ script.at \in 1..Len(export.lines) /\ GivesBatch(Line)
          /\ script' = [NextLine(script.at) EXCEPT !.held = h]
          /\ UNCHANGED <<export, known, runs, acts, done>>
      BY <1>7 DEF WriteBatch, ImportShape
    <2>2. m \in Materials /\ Line.price \in Nat  BY <2>1, LinesHold DEF Line, GivesBatch
    <2>3. h \in Read /\ h.acts = script.held.acts
      <3> DEFINE price == Line.price
      <3>1. price \in Nat /\ h = Heard(script.held, m, price, anomaly)  BY <2>2
      <3>5. anomaly \in BOOLEAN  BY DEF IsPriceAnomaly
      <3> HIDE DEF h, m, price, anomaly
      <3>2. script.held \in Read  BY <1>a
      <3>3. m \in Materials  BY <2>2
      <3>4. LET g == Heard(script.held, m, price, anomaly) IN
            g \in Read /\ g.acts = script.held.acts
        BY <3>1, <3>2, <3>3, <3>5, HeardIs
      <3> QED  BY <3>1, <3>4
    <2> HIDE DEF h
    <2>4. script.at \in Nat /\ NextLine(script.at) \in Carried  BY <1>a, <2>1, NextLineIs
    <2>5. /\ script' \in Carried /\ script'.held = h
          /\ script.at < Len(export.lines) => script'.step = "line" /\ script'.at = script.at + 1
          /\ ~(script.at < Len(export.lines)) =>
               script'.step = "pay" /\ script'.todo = DOMAIN export.paid
      BY <1>a, <2>1, <2>3, <2>4, NextLineIs, HeldIs
    <2>6. script.at < Len(export.lines) => script.at + 1 \in 1..Len(export.lines)
      BY <2>1, LinesHold
    <2> QED  BY <1>1, <2>1, <2>3, <2>5, <2>6
  <1>8. CASE WritePaid
    <2>1. /\ script.step = "paid" /\ script.todo \subseteq DOMAIN export.paid
          /\ script' = Goto("pay", script.todo \ {script.at}, 0)
          /\ UNCHANGED <<export, known, runs, acts, done>>
      BY <1>8 DEF WritePaid, ImportShape
    <2>2. script.todo \ {script.at} \in SUBSET (Docs \cup Materials)  BY <1>a
    <2>3. /\ script' \in Carried /\ script'.held = script.held /\ script'.step = "pay"
          /\ script'.todo = script.todo \ {script.at}
      BY <1>a, <1>b, <2>1, <2>2, GotoIs
    <2> QED  BY <1>1, <2>1, <2>3
  <1>9. CASE ReadSnapshot
    <2> DEFINE h == [script.held EXCEPT !.old = {b.material : b \in Snapshot}]
    <2>1. /\ script' = IF export.stock = <<>> THEN Ended
                       ELSE [Goto("unstock", {}, 0) EXCEPT !.held = h]
          /\ UNCHANGED <<export, known, runs, acts, done>>
      BY <1>9 DEF ReadSnapshot, base
    <2>2. CASE export.stock = <<>>
      <3>1. script' \in Carried /\ script'.step = "ended" /\ script'.held = script.held
        BY <1>a, <2>1, <2>2, EndedIs
      <3> QED  BY <1>1, <2>1, <3>1
    <2>3. CASE export.stock # <<>>
      <3>1. {b.material : b \in Snapshot} \in SUBSET Materials
        BY DEF TypeOK, BatchRecord, Snapshot
      <3>2. h \in Read /\ h.acts = script.held.acts  BY <1>a, <3>1, ReadingIs
      <3> HIDE DEF h
      <3>3. Goto("unstock", {}, 0) \in Carried /\ Goto("unstock", {}, 0).step = "unstock"
        BY <1>a, <1>b, GotoIs
      <3>4. script' \in Carried /\ script'.step = "unstock" /\ script'.held = h
        BY <2>1, <2>3, <3>2, <3>3, HeldIs
      <3>5. script'.held.acts = script.held.acts  BY <3>2, <3>4
      <3> QED  BY <1>1, <2>1, <2>3, <3>4, <3>5
    <2> QED  BY <2>2, <2>3
  <1>10. CASE DeleteSnapshot
    <2>1. script' = Goto("restock", {}, 1) /\ UNCHANGED <<export, known, runs, acts, done>>
      BY <1>10 DEF DeleteSnapshot, ImportShape
    <2>2. /\ script' \in Carried /\ script'.held = script.held /\ script'.step = "restock"
          /\ script'.at = 1
      BY <1>a, <1>b, <2>1, GotoIs
    <2>3. export.stock # <<>>  BY <1>10 DEF DeleteSnapshot, ImportShape
    <2>4. Len(export.stock) \in Nat /\ Len(export.stock) > 0  BY <2>3, LinesHold
    <2>5. 1 \in 1..Len(export.stock)  BY <2>4
    <2> QED  BY <1>1, <2>1, <2>2, <2>5
  <1>11. CASE WriteStock
    <2> DEFINE h == Counted(script.held, Row)
               next == IF script.at < Len(export.stock) THEN Goto("restock", {}, script.at + 1)
                       ELSE Goto("setQty", h.found \cup h.old, 0)
    <2>1. /\ script.step = "restock" /\ script.at \in 1..Len(export.stock)
          /\ script' = [next EXCEPT !.held = h]
          /\ UNCHANGED <<export, known, runs, acts, done>>
      BY <1>11 DEF WriteStock, ImportShape
    <2>2. Row \in [item : Materials, day : Nat, qty : Nat, price : Nat]
      <3> DEFINE B == [item : Materials, day : Nat, qty : Nat, price : Nat]
      <3>1. export.stock \in Seq(B)  BY FileHolds
      <3> HIDE DEF B
      <3>2. export.stock[script.at] \in B  BY <2>1, <3>1
      <3> QED  BY <3>2 DEF Row, B
    <2>3. h \in Read /\ h.acts = script.held.acts  BY <1>a, <2>2, CountedIs
    <2> HIDE DEF h
    <2>4. h.found \cup h.old \in SUBSET (Docs \cup Materials) /\ h.found \cup h.old \subseteq Materials
      BY <2>3 DEF Read
    <2>5. /\ next \in Carried
          /\ script.at < Len(export.stock) => next.step = "restock" /\ next.at = script.at + 1
          /\ ~(script.at < Len(export.stock)) =>
               next.step = "setQty" /\ next.todo = h.found \cup h.old
      <3>1. script.at + 1 \in Nat \cup Docs  BY <2>1
      <3>2. CASE script.at < Len(export.stock)
        <4>1. next = Goto("restock", {}, script.at + 1)  BY <3>2
        <4> QED  BY <1>a, <1>b, <3>1, <3>2, <4>1 DEF Goto, Carried
      <3>3. CASE ~(script.at < Len(export.stock))  BY <1>a, <1>b, <2>4, <3>3, GotoIs
      <3> QED  BY <3>2, <3>3
    <2> HIDE DEF next
    <2>6. /\ script' \in Carried /\ script'.step = next.step /\ script'.at = next.at
          /\ script'.todo = next.todo /\ script'.held = h
      BY <2>1, <2>3, <2>5, HeldIs
    <2>7. script.at < Len(export.stock) => script.at + 1 \in 1..Len(export.stock)
      BY <2>1, LinesHold
    <2> QED  BY <1>1, <2>1, <2>3, <2>4, <2>5, <2>6, <2>7
  <1>12. CASE QtyWritten
    <2>1. script' = Ended /\ UNCHANGED <<export, known, runs, acts, done>>
      BY <1>12 DEF QtyWritten, base
    <2>2. script' \in Carried /\ script'.step = "ended" /\ script'.held = script.held
      BY <1>a, <2>1, EndedIs
    <2> QED  BY <1>1, <2>1, <2>2
  <1>13. CASE \E m \in Materials : WriteQty(m)
    <2>1. PICK m \in Materials : WriteQty(m)  BY <1>13
    <2>2. /\ script.todo \subseteq Materials /\ export.stock # <<>>
          /\ script' = Goto("setQty", script.todo \ {m}, 0)
          /\ UNCHANGED <<export, known, runs, acts, done>>
      BY <2>1 DEF WriteQty, ImportShape
    <2>3. script.todo \ {m} \in SUBSET (Docs \cup Materials)  BY <1>a
    <2>4. /\ script' \in Carried /\ script'.held = script.held /\ script'.step = "setQty"
          /\ script'.todo \subseteq Materials
      BY <1>a, <1>b, <2>2, <2>3, GotoIs
    <2> QED  BY <1>1, <2>2, <2>4
  <1> QED
    BY <1>2, <1>3, <1>4, <1>5, <1>6, <1>7, <1>8, <1>9, <1>10, <1>11, <1>12, <1>13 DEF ImportStep

\* What is known of the batches there are.
LEMMA BatchHolds ==
  ASSUME TypeOK, NEW b \in batches
  PROVE  /\ b.id \in Ids /\ b.material \in Materials
         /\ b.origin \in {"LOCAL", "ONEC", "INVENTORY"} /\ b.doc \in Docs \cup {Nothing}
         /\ b.day \in Nat /\ b.price \in Nat /\ b.left \in Nat /\ b.anomaly \in BOOLEAN
         /\ b.cleared \in BOOLEAN
  BY DEF TypeOK, BatchRecord, Ids

\* The batch a line gives, and the one a row gives.
LEMMA LineBatch ==
  ASSUME TypeOK, ImportShape, WriteBatch
  PROVE  /\ script.step = "batch" /\ script.at \in 1..Len(export.lines)
         /\ GivesBatch(Line) /\ Line = export.lines[script.at]
         /\ Line.item \in Materials /\ Line.doc \in InFile /\ Line.price \in Nat \ {0}
         /\ UNCHANGED <<export, docs, stockQty, known, runs, acts, done>>
         /\ \E b \in BatchRecord :
              /\ batches' = batches \cup {b} /\ b.id = <<2, runs, script.at>> /\ b.doc = Line.doc
              /\ b.material = Line.item /\ b.origin = "ONEC" /\ b.price = Line.price /\ b.left = 0
              /\ b.anomaly = IsPriceAnomaly(Line.price, script.held.healthy[Line.item], Threshold)
  <1> DEFINE anomaly == IsPriceAnomaly(Line.price, script.held.healthy[Line.item], Threshold)
             day == export.date[Line.doc]
             b == Batch(LineId(script.at), Line.item, "ONEC", Line.doc, day, Line.price, 0, anomaly)
  <1>1. /\ script.step = "batch" /\ script.at \in 1..Len(export.lines)
        /\ GivesBatch(Line) /\ Line = export.lines[script.at] /\ batches' = batches \cup {b}
        /\ UNCHANGED <<export, docs, stockQty, known, runs, acts, done>>
    BY DEF WriteBatch, ImportShape, Line
  <1>2. Line.item \in Materials /\ Line.doc \in InFile /\ Line.price \in Nat \ {0}
    BY <1>1, LinesHold DEF GivesBatch
  <1>3. day \in Nat /\ Line.doc \in Docs \cup {Nothing}  BY <1>2, FileHolds
  <1>4. anomaly \in BOOLEAN  BY DEF IsPriceAnomaly
  <1>5. LineId(script.at) = <<2, runs, script.at>> /\ LineId(script.at) \in Ids
    <2>1. runs \in Nat /\ script.at \in Nat  BY <1>1, SupplyAssumption DEF TypeOK
    <2> QED  BY <2>1 DEF LineId, Ids
  <1> HIDE DEF anomaly, day
  <1>6. /\ b \in BatchRecord /\ b.id = LineId(script.at) /\ b.material = Line.item
        /\ b.origin = "ONEC" /\ b.doc = Line.doc /\ b.price = Line.price /\ b.left = 0
        /\ b.anomaly = anomaly
    BY <1>2, <1>3, <1>4, <1>5 DEF Batch, BatchRecord, Ids
  <1> HIDE DEF b
  <1> QED  BY <1>1, <1>2, <1>5, <1>6 DEF anomaly

LEMMA RowBatch ==
  ASSUME TypeOK, ImportShape, WriteStock
  PROVE  /\ script.step = "restock" /\ script.at \in 1..Len(export.stock)
         /\ Row = export.stock[script.at] /\ Row.item \in Materials /\ Row.qty \in Nat
         /\ script'.held = Counted(script.held, Row)
         /\ UNCHANGED <<export, docs, stockQty, known, runs, acts, done>>
         /\ Row.item \notin known => batches' = batches
         /\ Row.item \in known => \E b \in BatchRecord :
              /\ batches' = batches \cup {b} /\ b.id = <<3, runs, script.at>> /\ b.doc = Nothing
              /\ b.material = Row.item /\ b.origin = "INVENTORY" /\ b.left = Row.qty
         /\ script.at < Len(export.stock) =>
              script'.step = "restock" /\ script'.at = script.at + 1
         /\ ~(script.at < Len(export.stock)) =>
              /\ script'.step = "setQty"
              /\ script'.todo = Counted(script.held, Row).found \cup Counted(script.held, Row).old
  <1> DEFINE b == Batch(RowId(script.at), Row.item, "INVENTORY", Nothing, Row.day, Row.price,
                        Row.qty, FALSE)
             h == Counted(script.held, Row)
             next == IF script.at < Len(export.stock) THEN Goto("restock", {}, script.at + 1)
                     ELSE Goto("setQty", h.found \cup h.old, 0)
  <1>1. /\ script.step = "restock" /\ script.at \in 1..Len(export.stock)
        /\ Row = export.stock[script.at] /\ script \in Carried
        /\ batches' = IF Row.item \in known THEN batches \cup {b} ELSE batches
        /\ script' = [next EXCEPT !.held = h]
        /\ UNCHANGED <<export, docs, stockQty, known, runs, acts, done>>
    BY DEF WriteStock, ImportShape, Row
  <1>2. Row.item \in Materials /\ Row.day \in Nat /\ Row.qty \in Nat /\ Row.price \in Nat
    BY <1>1, LinesHold
  <1>3. RowId(script.at) = <<3, runs, script.at>> /\ RowId(script.at) \in Ids
    <2>1. runs \in Nat /\ script.at \in Nat  BY <1>1, SupplyAssumption DEF TypeOK
    <2> QED  BY <2>1 DEF RowId, Ids
  <1>4. /\ b \in BatchRecord /\ b.id = RowId(script.at) /\ b.material = Row.item
        /\ b.origin = "INVENTORY" /\ b.doc = Nothing /\ b.left = Row.qty
    BY <1>2, <1>3 DEF Batch, BatchRecord, Ids
  <1> HIDE DEF b
  <1>5. h \in Read
    <2>1. Row \in [item : Materials, day : Nat, qty : Nat, price : Nat]
      <3> DEFINE B == [item : Materials, day : Nat, qty : Nat, price : Nat]
      <3>1. export.stock \in Seq(B)  BY FileHolds
      <3> HIDE DEF B
      <3>2. export.stock[script.at] \in B  BY <1>1, <3>1
      <3> QED  BY <1>1, <3>2 DEF B
    <2>2. script.held \in Read  BY <1>1 DEF Carried
    <2> QED  BY <2>1, <2>2, CountedIs
  <1>6. h.found \cup h.old \in SUBSET (Docs \cup Materials)  BY <1>5 DEF Read
  <1> HIDE DEF h
  <1>7. /\ next \in Carried
        /\ script.at < Len(export.stock) => next.step = "restock" /\ next.at = script.at + 1
        /\ ~(script.at < Len(export.stock)) =>
             next.step = "setQty" /\ next.todo = h.found \cup h.old
    <2>1. CASE script.at < Len(export.stock)
      <3>1. next = Goto("restock", {}, script.at + 1) /\ script.at + 1 \in Nat  BY <1>1, <2>1
      <3> QED  BY <1>1, <2>1, <3>1 DEF Goto, Carried, ImportSteps
    <2>2. CASE ~(script.at < Len(export.stock))
      <3> DEFINE t == h.found \cup h.old
      <3>1. next = Goto("setQty", t, 0) /\ t \in SUBSET (Docs \cup Materials)  BY <1>6, <2>2
      <3> HIDE DEF t, next
      <3>2. next.step = "setQty" /\ next.todo = t /\ next \in Carried
        BY <1>1, <3>1 DEF Goto, Carried, ImportSteps
      <3> QED  BY <2>2, <3>2 DEF t
    <2> QED  BY <2>1, <2>2
  <1> HIDE DEF next
  <1>8. script'.step = next.step /\ script'.at = next.at /\ script'.todo = next.todo
        /\ script'.held = h
    BY <1>1, <1>5, <1>7, HeldIs
  <1> QED  BY <1>1, <1>2, <1>3, <1>4, <1>7, <1>8 DEF h

\* What an import writes of the documents, of the batches and of the stock.
LEMMA ImportTypes ==
  ASSUME TypeOK, ImportShape, DocsWritten, ImportStep
  PROVE  TypeOK'
  <1>1. ASSUME docs' \in [Docs -> Document \cup {Nothing}],
               batches' \subseteq BatchRecord, IsFiniteSet(batches'),
               stockQty' \in [Materials -> Int]
        PROVE  TypeOK'
    <2>1. script'.name = "import" /\ script'.held \in Read  BY ImportScripts DEF ImportShape, Carried
    <2>2. UNCHANGED <<export, known, runs, acts, done>>  BY ImportScripts
    <2> QED  BY <1>1, <2>1, <2>2 DEF TypeOK
  <1>a. /\ docs \in [Docs -> Document \cup {Nothing}] /\ batches \subseteq BatchRecord
        /\ IsFiniteSet(batches) /\ stockQty \in [Materials -> Int]
    BY DEF TypeOK
  <1>b. script \in Carried /\ Importing  BY DEF ImportShape, Carried, Importing
  <1>c. ASSUME NEW d \in InFile, script.step # "docs" \/ d \notin script.todo
        PROVE  d \in Docs /\ docs[d] \in Document
    BY <1>b, <1>c, FileHolds DEF DocsWritten, ToWrite
  <1>2. CASE \E d \in Docs : UpsertDoc(d)
    <2>1. PICK d \in Docs : UpsertDoc(d)  BY <1>2
    <2>2. d \in InFile /\ UNCHANGED <<batches, stockQty>>  BY <2>1 DEF UpsertDoc, ImportShape
    <2>3. export.total[d] \in Nat  BY <2>2, FileHolds
    <2> DEFINE r == IF docs[d] = Nothing
                    THEN [total |-> export.total[d], paid |-> 0, unpaid |-> export.total[d],
                          status |-> "UNPAID", lines |-> 0]
                    ELSE [docs[d] EXCEPT !.total = export.total[d]]
    <2>4. docs' = [docs EXCEPT ![d] = r]  BY <2>1 DEF UpsertDoc
    <2>5. r \in Document
      <3>1. CASE docs[d] = Nothing  BY <2>3, <3>1 DEF Document, Status
      <3>2. CASE docs[d] # Nothing
        <4>1. docs[d] \in Document  BY <1>a, <3>2
        <4>2. r = [docs[d] EXCEPT !.total = export.total[d]]  BY <3>2
        <4> QED  BY <2>3, <4>1, <4>2 DEF Document
      <3> QED  BY <3>1, <3>2
    <2> HIDE DEF r
    <2> QED  BY <1>1, <1>a, <2>2, <2>4, <2>5
  <1>3. CASE (\E d \in Docs : ReadDoc(d)) \/ ReadSnapshot \/ QtyWritten
    <2>1. UNCHANGED base  BY <1>3 DEF ReadDoc, ReadSnapshot, QtyWritten
    <2> QED  BY <1>1, <1>a, <2>1 DEF base
  <1>4. CASE ClearLines
    <2>1. /\ script.step = "docs" /\ script.todo = {} /\ UNCHANGED <<batches, stockQty>>
          /\ docs' = [d \in Docs |-> IF d \in InFile THEN [docs[d] EXCEPT !.lines = 0] ELSE docs[d]]
      BY <1>4 DEF ClearLines
    <2>2. ASSUME NEW d \in InFile  PROVE [docs[d] EXCEPT !.lines = 0] \in Document
      <3>1. docs[d] \in Document  BY <1>c, <2>1
      <3> QED  BY <3>1 DEF Document
    <2> QED  BY <1>1, <1>a, <2>1, <2>2
  <1>5. CASE ClearBatches \/ DeleteSnapshot
    <2>1. batches' \subseteq batches /\ UNCHANGED <<docs, stockQty>>
      BY <1>5 DEF ClearBatches, DeleteSnapshot
    <2>2. IsFiniteSet(batches')  BY <1>a, <2>1, FS_Subset
    <2> QED  BY <1>1, <1>a, <2>1, <2>2
  <1>6. CASE WriteLine
    <2> DEFINE d == Line.doc
               r == [docs[d] EXCEPT !.lines = docs[d].lines + 1]
    <2>1. /\ script.step = "line" /\ script.at \in 1..Len(export.lines)
          /\ docs' = [docs EXCEPT ![d] = r] /\ UNCHANGED <<batches, stockQty>>
      BY <1>6 DEF WriteLine, ImportShape
    <2>2. d \in InFile  BY <2>1, LinesHold DEF Line
    <2> HIDE DEF d
    <2>3. d \in Docs /\ docs[d] \in Document  BY <1>c, <2>1, <2>2
    <2>4. r \in Document  BY <2>3 DEF Document
    <2> HIDE DEF r
    <2> QED  BY <1>1, <1>a, <2>1, <2>3, <2>4
  <1>7. CASE WriteBatch
    <2>1. PICK b \in BatchRecord : batches' = batches \cup {b}  BY <1>7, LineBatch
    <2>2. UNCHANGED <<docs, stockQty>>  BY <1>7, LineBatch
    <2>3. IsFiniteSet(batches')  BY <1>a, <2>1, FS_AddElement
    <2> QED  BY <1>1, <1>a, <2>1, <2>2, <2>3
  <1>8. CASE WritePaid
    <2> DEFINE d == script.at
               paid == export.paid[d]
               rest == AtLeastZero(script.held.total - paid)
               status == StatusOf(script.held.total, paid)
               r == [docs[d] EXCEPT !.paid = paid, !.unpaid = rest, !.status = status]
    <2>1. /\ script.step = "paid" /\ d \in script.todo /\ script.todo \subseteq DOMAIN export.paid
          /\ docs' = [docs EXCEPT ![d] = r] /\ UNCHANGED <<batches, stockQty>>
      BY <1>8 DEF WritePaid, ImportShape
    <2> HIDE DEF d
    <2>2. d \in InFile /\ paid \in Nat  BY <2>1, FileHolds
    <2>3. d \in Docs /\ docs[d] \in Document  BY <1>c, <2>1, <2>2
    <2>4. script.held.total \in Nat  BY <1>b DEF Carried, Read
    <2>5. rest \in Nat /\ status \in Status
      <3> HIDE DEF paid
      <3> QED  BY <2>2, <2>4 DEF AtLeastZero, StatusOf, Status
    <2> HIDE DEF paid, rest, status
    <2>6. r \in Document  BY <2>2, <2>3, <2>5 DEF Document
    <2> HIDE DEF r
    <2> QED  BY <1>1, <1>a, <2>1, <2>3, <2>6
  <1>9. CASE WriteStock
    <2>1. UNCHANGED <<docs, stockQty>>  BY <1>9, RowBatch
    <2>2. batches' = batches \/ \E b \in BatchRecord : batches' = batches \cup {b}
      BY <1>9, RowBatch
    <2>3. batches' \subseteq BatchRecord /\ IsFiniteSet(batches')
      BY <1>a, <2>2, FS_AddElement
    <2> QED  BY <1>1, <1>a, <2>1, <2>3
  <1>10. CASE \E m \in Materials : WriteQty(m)
    <2>1. PICK m \in Materials : WriteQty(m)  BY <1>10
    <2>2. stockQty' = [stockQty EXCEPT ![m] = script.held.sum[m]] /\ UNCHANGED <<docs, batches>>
      BY <2>1 DEF WriteQty, SetQty
    <2>3. script.held.sum[m] \in Int  BY <1>b DEF Carried, Read
    <2>4. stockQty' \in [Materials -> Int]  BY <1>a, <2>2, <2>3
    <2> QED  BY <1>1, <1>a, <2>2, <2>4
  <1> QED
    BY <1>2, <1>3, <1>4, <1>5, <1>6, <1>7, <1>8, <1>9, <1>10 DEF ImportStep
----------------------------------------------------------------------------
(* The server and the quarantine                                           *)

\* Where a batch comes from is never rewritten.
SameSource(b, c) ==
    b.id = c.id /\ b.origin = c.origin /\ b.doc = c.doc /\ b.material = c.material

\* What the invariant says of identities, carried to batches of the same sources.
LEMMA SourcesKept ==
  ASSUME TypeOK, IdsTold, OldRemoved, NEW F, batches' = {F[b] : b \in batches},
         \A b \in batches : F[b] \in BatchRecord /\ SameSource(F[b], b),
         export' = export, runs' = runs, acts' \in Nat, acts' >= acts,
         script' = script \/ script'.name # "import"
  PROVE  /\ batches' \subseteq BatchRecord /\ IsFiniteSet(batches')
         /\ \A b \in batches : \E c \in batches' : c.id = b.id
         /\ IdsTold' /\ OldRemoved'
  <1>1. \A c \in batches' : \E b \in batches : c = F[b] /\ SameSource(c, b)  OBVIOUS
  <1>2. batches' \subseteq BatchRecord /\ IsFiniteSet(batches')
    <2>1. IsFiniteSet(batches)  BY DEF TypeOK
    <2> QED  BY <2>1, ImageFinite
  <1>3. \A b \in batches : \E c \in batches' : c.id = b.id  BY DEF SameSource
  <1>4. acts \in Nat  BY SupplyAssumption DEF TypeOK
  <1>5. ASSUME NEW c \in batches'  PROVE Marked(c)'
    <2>1. PICK b \in batches : SameSource(c, b)  BY <1>1
    <2>2. Marked(b) /\ b.id[2] \in Nat
      <3>1. b.id \in Ids  BY BatchHolds
      <3> QED  BY <3>1 DEF IdsTold, Ids
    <2> QED  BY <1>4, <2>1, <2>2 DEF Marked, SameSource
  <1>6. OneById'
    <2>1. ASSUME NEW c \in batches', NEW e \in batches', c.id = e.id  PROVE c = e
      <3>1. PICK b \in batches : c = F[b] /\ c.id = b.id  BY <1>1 DEF SameSource
      <3>2. PICK d \in batches : e = F[d] /\ e.id = d.id  BY <1>1 DEF SameSource
      <3>3. b = d  BY <2>1, <3>1, <3>2 DEF IdsTold, OneById
      <3> QED  BY <3>1, <3>2, <3>3
    <2> QED  BY <2>1 DEF OneById
  <1>7. Importing' => /\ Importing /\ JudgedTo' = JudgedTo /\ StockedTo' = StockedTo
                      /\ BatchesMade' = BatchesMade /\ SnapshotMade' = SnapshotMade
                      /\ InFile' = InFile
    BY DEF Importing, JudgedTo, StockedTo, BatchesMade, SnapshotMade, InFile
  <1>8. ASSUME Importing', NEW c \in batches', c.id[2] = runs'
        PROVE  /\ c.origin = "ONEC" => c.id[3] \in 1..JudgedTo'
               /\ c.origin = "INVENTORY" => c.id[3] \in 1..StockedTo'
    <2>1. PICK b \in batches : SameSource(c, b)  BY <1>1
    <2> QED  BY <1>7, <1>8, <2>1 DEF IdsTold, SameSource
  <1>9. IdsTold'  BY <1>5, <1>6, <1>8 DEF IdsTold
  <1>10. OldRemoved'
    <2>1. ASSUME Importing', NEW c \in batches'
          PROVE  /\ BatchesMade' /\ c.doc \in InFile' => c.id[2] = runs'
                 /\ SnapshotMade' /\ c.origin = "INVENTORY" => c.id[2] = runs'
      <3>1. PICK b \in batches : SameSource(c, b)  BY <1>1
      <3> QED  BY <1>7, <2>1, <3>1 DEF OldRemoved, Snapshot, SameSource
    <2> QED  BY <2>1 DEF OldRemoved, Snapshot
  <1> QED  BY <1>2, <1>3, <1>9, <1>10

\* Batches hold a natural quantity, and what is taken of one is no more than it holds.
LEMMA LeftInNat ==
  ASSUME NEW S, IsFiniteSet(S), \A b \in S : b.left \in Nat
  PROVE  LeftIn(S) \in Nat
  <1> DEFINE f == [b \in S |-> b.left]
  <1>1. \A b \in S : f[b] \in Nat  OBVIOUS
  <1> HIDE DEF f
  <1>2. SumFunctionOnSet(f, S) \in Nat  BY <1>1, SumNat
  <1> QED  BY <1>2 DEF LeftIn, f

LEMMA TakenIs ==
  ASSUME NEW S, IsFiniteSet(S), \A b \in S : b.left \in Nat, NEW b \in S, NEW qty \in Int
  PROVE  Taken(b, S, qty) \in Nat /\ Taken(b, S, qty) <= b.left
  <1>1. LeftIn(Before(b, S)) \in Nat
    <2>1. Before(b, S) \subseteq S  BY DEF Before
    <2>2. IsFiniteSet(Before(b, S))  BY <2>1, FS_Subset
    <2> QED  BY <2>1, <2>2, LeftInNat
  <1> DEFINE n == LeftIn(Before(b, S))
             l == b.left
  <1>2. l \in Nat /\ n \in Nat  BY <1>1
  <1>3. Taken(b, S, qty) = Least(l, AtLeastZero(qty - n))  BY DEF Taken
  <1> HIDE DEF n, l
  <1>4. Least(l, AtLeastZero(qty - n)) \in Nat /\ Least(l, AtLeastZero(qty - n)) <= l
    BY <1>2 DEF Least, AtLeastZero
  <1> QED  BY <1>3, <1>4 DEF l

\* A step of the server.
LEMMA ServerSteps ==
  ASSUME TypeOK, Shaped, IdsTold, DocsWritten, OldRemoved, ServerStep
  PROVE  /\ TypeOK' /\ Shaped' /\ IdsTold' /\ DocsWritten' /\ OldRemoved'
         /\ acts' = acts + 1 /\ done' = Nothing /\ UNCHANGED <<export, script, runs>>
         /\ \A b \in batches : \E c \in batches' : c.id = b.id
  <1>1. Act
    BY DEF ServerStep, AddAlias, Receive, Issue, Confirm, PayDocument
  <1>2. /\ acts \in Nat /\ acts' \in Nat /\ acts' = acts + 1 /\ acts' \in 0..MaxActs
        /\ done' = Nothing /\ UNCHANGED <<export, script, runs>>
    BY <1>1, SupplyAssumption DEF Act, TypeOK
  <1>a. /\ docs \in [Docs -> Document \cup {Nothing}] /\ batches \subseteq BatchRecord
        /\ IsFiniteSet(batches) /\ stockQty \in [Materials -> Int] /\ known \subseteq Materials
        /\ Amounts \subseteq Nat \ {0}
    BY SupplyAssumption DEF TypeOK
  <1>3. known' \subseteq Materials /\ known \subseteq known'
    BY <1>a DEF ServerStep, AddAlias, Receive, Issue, Confirm, PayDocument
  <1>4. Shaped'
    <2>1. CASE script = Idle  BY <1>2, <2>1 DEF Shaped, Idle
    <2>2. CASE QuarantineShape  BY <1>2, <2>2 DEF Shaped, QuarantineShape
    <2>3. CASE ImportShape
      <3>1. /\ script.held.acts \in Nat /\ script.held.acts <= acts
        BY <2>3 DEF ImportShape, Carried, Read
      <3>2. script'.held.acts <= acts'  BY <1>2, <3>1
      <3>3. GivesBatch(Line) => GivesBatch(Line)'  BY <1>2, <1>3 DEF GivesBatch, Line
      <3> QED  BY <1>2, <2>3, <3>2, <3>3 DEF Shaped, ImportShape, InFile
    <2> QED  BY <2>1, <2>2, <2>3 DEF Shaped
  <1>5. ASSUME docs' \in [Docs -> Document \cup {Nothing}],
               batches' \subseteq BatchRecord, IsFiniteSet(batches'),
               stockQty' \in [Materials -> Int]
        PROVE  TypeOK'
    BY <1>2, <1>3, <1>5 DEF TypeOK
  <1>6. ASSUME \A d \in Docs : \/ docs'[d] = docs[d]
                               \/ /\ docs[d] \in Document /\ docs'[d] \in Document
                                  /\ docs'[d].total = docs[d].total
                                  /\ docs'[d].lines = docs[d].lines
        PROVE  DocsWritten'
    <2>1. InFile \subseteq Docs  BY FileHolds
    <2>2. Written' = Written /\ InFile' = InFile /\ Importing' = Importing
      BY <1>2 DEF Written, InFile, Importing
    <2>3. \A d, n : LinesTo(d, n)' = LinesTo(d, n)  BY <1>2 DEF LinesTo
    <2>4. SUFFICES ASSUME Importing  PROVE DocsWritten'
      BY <2>2 DEF DocsWritten
    <2>5. ASSUME NEW d \in InFile
          PROVE  /\ ToWrite("docs", d)'
                      \/ (docs'[d] \in Document /\ docs'[d].total = export.total[d])
                 /\ script.step # "docs" => docs'[d].lines = Cardinality(LinesTo(d, Written))
      <3>1. ToWrite("docs", d)' = ToWrite("docs", d)  BY <1>2 DEF ToWrite
      <3> QED  BY <1>6, <2>1, <2>4, <3>1 DEF DocsWritten
    <2>6. script.step = "paid" => script.held.total = docs'[script.at].total
      <3>1. script.step = "paid" => script.at \in Docs
        <4>1. ImportShape  BY <2>4 DEF Shaped, Idle, QuarantineShape, Importing
        <4> QED  BY <2>1, <4>1, FileHolds DEF ImportShape
      <3> QED  BY <1>6, <2>4, <3>1 DEF DocsWritten
    <2> QED  BY <1>2, <2>2, <2>3, <2>5, <2>6 DEF DocsWritten
  <1>7. ASSUME docs' = docs  PROVE DocsWritten' /\ docs' \in [Docs -> Document \cup {Nothing}]
    BY <1>6, <1>7, <1>a
  <1>8. ASSUME NEW F, batches' = {F[b] : b \in batches},
               \A b \in batches : F[b] \in BatchRecord /\ SameSource(F[b], b)
        PROVE  /\ batches' \subseteq BatchRecord /\ IsFiniteSet(batches')
               /\ \A b \in batches : \E c \in batches' : c.id = b.id
               /\ IdsTold' /\ OldRemoved'
    BY <1>2, <1>8, SourcesKept
  <1>9. ASSUME batches' = batches
        PROVE  /\ batches' \subseteq BatchRecord /\ IsFiniteSet(batches')
               /\ \A b \in batches : \E c \in batches' : c.id = b.id
               /\ IdsTold' /\ OldRemoved'
    <2> DEFINE F == [b \in batches |-> b]
    <2>1. batches' = {F[b] : b \in batches}  BY <1>9
    <2>2. \A b \in batches : F[b] \in BatchRecord /\ SameSource(F[b], b)
      BY <1>a DEF SameSource
    <2> HIDE DEF F
    <2> QED  BY <1>8, <2>1, <2>2
  <1>10. ASSUME NEW m \in Materials, AddAlias(m)
         PROVE  /\ TypeOK' /\ IdsTold' /\ DocsWritten' /\ OldRemoved'
                /\ \A b \in batches : \E c \in batches' : c.id = b.id
    <2>1. UNCHANGED <<docs, batches, stockQty>>  BY <1>10 DEF AddAlias
    <2> QED  BY <1>5, <1>7, <1>9, <1>a, <2>1
  <1>11. ASSUME NEW m \in Materials, NEW q \in Amounts, Receive(m, q)
         PROVE  /\ TypeOK' /\ IdsTold' /\ DocsWritten' /\ OldRemoved'
                /\ \A b \in batches : \E c \in batches' : c.id = b.id
    <2> DEFINE anomaly == IsPriceAnomaly(RefPrice[m], [b \in {c \in Of(m) : ~c.anomaly} |-> b.price],
                                         Threshold)
               new == Batch(LiveId(acts), m, "LOCAL", Nothing, Today, RefPrice[m], q, anomaly)
    <2>1. /\ batches' = batches \cup {new} /\ UNCHANGED <<docs, known>>
          /\ stockQty' = [stockQty EXCEPT ![m] = stockQty[m] + q]
      BY <1>11 DEF Receive
    <2>2. anomaly \in BOOLEAN  BY DEF IsPriceAnomaly
    <2> HIDE DEF anomaly
    <2>n. /\ new \in BatchRecord /\ new.id = <<1, acts, 0>> /\ new.origin = "LOCAL"
          /\ new.doc = Nothing
      <3>1. RefPrice[m] \in Nat /\ Today \in Nat /\ q \in Nat
        BY SupplyAssumption
      <3>2. LiveId(acts) = <<1, acts, 0>> /\ LiveId(acts) \in Ids  BY <1>2 DEF LiveId, Ids
      <3> QED  BY <2>2, <3>1, <3>2 DEF Batch, BatchRecord, Ids
    <2> HIDE DEF new
    <2>3. PICK n \in BatchRecord :
             /\ batches' = batches \cup {n} /\ n.id = <<1, acts, 0>> /\ n.origin = "LOCAL"
             /\ n.doc = Nothing
      BY <2>1, <2>n
    <2>4. TypeOK'
      <3>1. batches' \subseteq BatchRecord /\ IsFiniteSet(batches')
        BY <1>a, <2>3, FS_AddElement
      <3>2. q \in Int  BY <1>a
      <3>3. stockQty' \in [Materials -> Int]  BY <1>a, <2>1, <3>2
      <3> QED  BY <1>5, <1>7, <2>1, <3>1, <3>3
    <2>5. \A b \in batches' : Marked(b)'
      <3>1. \A b \in batches : Marked(b) /\ b.id[2] \in Nat
        BY BatchHolds DEF IdsTold, Ids
      <3>2. Marked(n)'  BY <1>2, <2>3 DEF Marked
      <3>3. ASSUME NEW b \in batches  PROVE Marked(b)'
        BY <1>2, <3>1 DEF Marked
      <3> QED  BY <2>3, <3>2, <3>3
    <2>6. \A b \in batches : b.id # n.id
      <3>1. ASSUME NEW b \in batches, b.id = <<1, acts, 0>>  PROVE FALSE
        <4>1. Marked(b) /\ b.origin \in {"LOCAL", "ONEC", "INVENTORY"}
          BY BatchHolds DEF IdsTold
        <4>2. b.id[1] = 1 /\ b.id[2] = acts  BY <3>1
        <4> QED  BY <1>2, <4>1, <4>2 DEF Marked
      <3> QED  BY <2>3, <3>1
    <2>7. OneById'  BY <2>3, <2>6 DEF IdsTold, OneById
    <2>8. InFile' = InFile /\ JudgedTo' = JudgedTo /\ StockedTo' = StockedTo
          /\ Importing' = Importing /\ BatchesMade' = BatchesMade /\ SnapshotMade' = SnapshotMade
      BY <1>2 DEF InFile, JudgedTo, StockedTo, Importing, BatchesMade, SnapshotMade
    <2>9. IdsTold'
      <3>1. Importing' => \A b \in batches' : b.id[2] = runs' =>
               /\ b.origin = "ONEC" => b.id[3] \in 1..JudgedTo'
               /\ b.origin = "INVENTORY" => b.id[3] \in 1..StockedTo'
        BY <1>2, <2>3, <2>8 DEF IdsTold
      <3> QED  BY <2>5, <2>7, <3>1 DEF IdsTold
    <2>10. OldRemoved'
      <3>1. n.doc \notin InFile  BY <2>3, FileHolds
      <3>2. Snapshot' = Snapshot  BY <2>3 DEF Snapshot
      <3> QED  BY <1>2, <2>3, <2>8, <3>1, <3>2 DEF OldRemoved
    <2> QED  BY <1>7, <2>1, <2>4, <2>9, <2>10
  <1>12. ASSUME NEW m \in Materials, NEW q \in Amounts, Issue(m, q)
         PROVE  /\ TypeOK' /\ IdsTold' /\ DocsWritten' /\ OldRemoved'
                /\ \A b \in batches : \E c \in batches' : c.id = b.id
    <2> DEFINE L == {b \in Of(m) : b.left > 0}
               F == [b \in batches |->
                       IF b \in L THEN [b EXCEPT !.left = b.left - Taken(b, L, q)] ELSE b]
    <2>1. /\ batches' = {F[b] : b \in batches} /\ UNCHANGED <<docs, known>>
          /\ stockQty' = [stockQty EXCEPT ![m] = stockQty[m] - q]
      BY <1>12 DEF Issue
    <2>2. L \subseteq batches /\ IsFiniteSet(L) /\ \A b \in L : b.left \in Nat
      <3>1. L \subseteq batches  BY DEF Of
      <3>2. \A b \in batches : b.left \in Nat  BY BatchHolds
      <3> QED  BY <1>a, <3>1, <3>2, FS_Subset
    <2>3. ASSUME NEW b \in batches  PROVE F[b] \in BatchRecord /\ SameSource(F[b], b)
      <3>1. CASE b \in L
        <4> DEFINE n == b.left - Taken(b, L, q)
        <4>1. q \in Int  BY <1>a
        <4>2. n \in Nat
          <5>1. Taken(b, L, q) \in Nat /\ Taken(b, L, q) <= b.left
            <6> HIDE DEF L
            <6> QED  BY <2>2, <3>1, <4>1, TakenIs
          <5>2. b.left \in Nat  BY BatchHolds
          <5> QED  BY <5>1, <5>2
        <4>3. F[b] = [b EXCEPT !.left = n]  BY <3>1
        <4> HIDE DEF n, F
        <4> QED  BY <1>a, <4>2, <4>3 DEF BatchRecord, SameSource
      <3>2. CASE b \notin L  BY <1>a, <3>2 DEF SameSource
      <3> QED  BY <3>1, <3>2
    <2>4. stockQty' \in [Materials -> Int]
      <3>1. q \in Int  BY <1>a
      <3> QED  BY <1>a, <2>1, <3>1
    <2> HIDE DEF F
    <2>5. /\ batches' \subseteq BatchRecord /\ IsFiniteSet(batches')
          /\ \A b \in batches : \E c \in batches' : c.id = b.id
          /\ IdsTold' /\ OldRemoved'
      BY <1>8, <2>1, <2>3
    <2> QED  BY <1>5, <1>7, <2>1, <2>4, <2>5
  <1>13. ASSUME NEW b \in batches, Confirm(b)
         PROVE  /\ TypeOK' /\ IdsTold' /\ DocsWritten' /\ OldRemoved'
                /\ \A a \in batches : \E c \in batches' : c.id = a.id
    <2> DEFINE n == [b EXCEPT !.anomaly = FALSE, !.cleared = TRUE]
               F == [a \in batches |-> IF a = b THEN n ELSE a]
    <2>1. batches' = (batches \ {b}) \cup {n} /\ UNCHANGED <<docs, stockQty, known>>
      BY <1>13 DEF Confirm
    <2>2. n \in BatchRecord /\ SameSource(n, b)  BY <1>a DEF BatchRecord, SameSource
    <2> HIDE DEF n
    <2>3. batches' = {F[a] : a \in batches}  BY <2>1
    <2>4. \A a \in batches : F[a] \in BatchRecord /\ SameSource(F[a], a)
      BY <1>a, <2>2 DEF SameSource
    <2> HIDE DEF F
    <2> QED  BY <1>5, <1>7, <1>8, <1>a, <2>1, <2>3, <2>4
  <1>14. ASSUME NEW d \in Docs, NEW sum \in Amounts, PayDocument(d, sum)
         PROVE  /\ TypeOK' /\ IdsTold' /\ DocsWritten' /\ OldRemoved'
                /\ \A b \in batches : \E c \in batches' : c.id = b.id
    <2> DEFINE paid == docs[d].paid + sum
               rest == AtLeastZero(docs[d].total - paid)
               status == IF paid >= docs[d].total THEN "PAID" ELSE "PARTIALLY_PAID"
               r == [docs[d] EXCEPT !.paid = paid, !.unpaid = rest, !.status = status]
    <2>1. docs' = [docs EXCEPT ![d] = r] /\ UNCHANGED <<batches, stockQty, known>>
      BY <1>14 DEF PayDocument
    <2>2. docs[d] \in Document  BY <1>14, <1>a DEF PayDocument
    <2>3. paid \in Nat /\ rest \in Nat /\ status \in Status
      <3>1. sum \in Nat /\ docs[d].paid \in Nat /\ docs[d].total \in Nat
        BY <1>a, <2>2 DEF Document
      <3> QED  BY <3>1 DEF AtLeastZero, Status
    <2> HIDE DEF paid, rest, status
    <2>4. r \in Document /\ r.total = docs[d].total /\ r.lines = docs[d].lines
      BY <2>2, <2>3 DEF Document
    <2> HIDE DEF r
    <2>5. docs' \in [Docs -> Document \cup {Nothing}]  BY <1>a, <2>1, <2>4
    <2>6. DocsWritten'
      <3>1. \A e \in Docs : docs'[e] = IF e = d THEN r ELSE docs[e]  BY <1>a, <2>1
      <3> QED  BY <1>6, <2>2, <2>4, <3>1
    <2> QED  BY <1>5, <1>9, <1>a, <2>1, <2>5, <2>6
  <1> QED
    BY <1>2, <1>4, <1>10, <1>11, <1>12, <1>13, <1>14 DEF ServerStep

\* A step of the quarantine.
LEMMA QuarantineSteps ==
  ASSUME TypeOK, Shaped, IdsTold, OldRemoved, QuarantineStep
  PROVE  /\ TypeOK' /\ Shaped' /\ IdsTold' /\ DocsWritten' /\ OldRemoved'
         /\ ~Importing' /\ script # Idle /\ done' = done /\ export' = export
         /\ \A b \in batches : \E c \in batches' : c.id = b.id
  <1>1. script.step = "flag" /\ UNCHANGED <<export, docs, stockQty, known, runs, acts, done>>
    BY DEF QuarantineStep, Flag, Flagged, base
  <1>2. QuarantineShape /\ script # Idle
    BY <1>1 DEF Shaped, Idle, ImportShape, Carried, ImportSteps
  <1>3. Shaped' /\ script'.name = "quarantine"
    <2>1. CASE \E id \in script.todo : Flag(id)
      <3>1. PICK id : script' = Goto("flag", script.todo \ {id}, 0)  BY <2>1 DEF Flag
      <3> QED  BY <1>2, <3>1 DEF Shaped, QuarantineShape, Goto
    <2>2. CASE Flagged
      BY <1>2, <2>2 DEF Flagged, Ended, Shaped, QuarantineShape
    <2> QED  BY <2>1, <2>2 DEF QuarantineStep
  <1>4. \E F : /\ batches' = {F[b] : b \in batches}
               /\ \A b \in batches : F[b] \in BatchRecord /\ SameSource(F[b], b)
    <2>1. batches \subseteq BatchRecord  BY DEF TypeOK
    <2>2. CASE \E id \in script.todo : Flag(id)
      <3>1. PICK id \in script.todo : Flag(id)  BY <2>2
      <3> DEFINE F == [b \in batches |-> IF b.id = id THEN [b EXCEPT !.anomaly = TRUE] ELSE b]
      <3>2. batches' = {F[b] : b \in batches}  BY <3>1 DEF Flag
      <3>3. ASSUME NEW b \in batches  PROVE F[b] \in BatchRecord /\ SameSource(F[b], b)
        <4>1. [b EXCEPT !.anomaly = TRUE] \in BatchRecord
              /\ SameSource([b EXCEPT !.anomaly = TRUE], b)
          BY <2>1 DEF BatchRecord, SameSource
        <4>2. SameSource(b, b)  BY DEF SameSource
        <4> QED  BY <2>1, <4>1, <4>2
      <3> HIDE DEF F
      <3> QED  BY <3>2, <3>3
    <2>3. CASE Flagged
      <3> DEFINE F == [b \in batches |-> b]
      <3>1. batches' = {F[b] : b \in batches}  BY <2>3 DEF Flagged, base
      <3>2. \A b \in batches : F[b] \in BatchRecord /\ SameSource(F[b], b)
        BY <2>1 DEF SameSource
      <3> HIDE DEF F
      <3> QED  BY <3>1, <3>2
    <2> QED  BY <2>2, <2>3 DEF QuarantineStep
  <1>5. acts' \in Nat /\ acts' >= acts  BY <1>1, SupplyAssumption DEF TypeOK
  <1>6. /\ batches' \subseteq BatchRecord /\ IsFiniteSet(batches')
        /\ \A b \in batches : \E c \in batches' : c.id = b.id
        /\ IdsTold' /\ OldRemoved'
    BY <1>1, <1>3, <1>4, <1>5, SourcesKept
  <1>7. TypeOK'  BY <1>1, <1>3, <1>6 DEF TypeOK
  <1>8. ~Importing'  BY <1>3 DEF Importing
  <1> QED  BY <1>1, <1>2, <1>3, <1>6, <1>7, <1>8 DEF DocsWritten

\* The export of other files, the end of a script and its crash leave no script.
LEMMA RestSteps ==
  ASSUME TypeOK, Shaped, IdsTold, NewExport \/ Crash \/ Finished
  PROVE  /\ TypeOK' /\ Shaped' /\ IdsTold' /\ DocsWritten' /\ OldRemoved'
         /\ ~Importing' /\ batches' = batches
  <1>1. script' = Idle /\ UNCHANGED <<base, runs, acts>> /\ export' \in Exports
    BY DEF NewExport, Crash, Finished, TypeOK
  <1>2. done' \in Exports \cup {Nothing}
    BY DEF NewExport, Crash, Finished, TypeOK
  <1>3. Idle.name = "none"  BY DEF Idle
  <1>4. TypeOK'  BY <1>1, <1>2, <1>3 DEF TypeOK, base
  <1>5. ~Importing'  BY <1>1, <1>3 DEF Importing
  <1>6. \A b \in batches' : Marked(b)'
    <2>1. ASSUME NEW b \in batches  PROVE Marked(b)'
      BY <1>1 DEF IdsTold, Marked
    <2> QED  BY <1>1, <2>1 DEF base
  <1>7. OneById'  BY <1>1 DEF IdsTold, OneById, base
  <1> QED  BY <1>1, <1>4, <1>5, <1>6, <1>7 DEF Shaped, IdsTold, DocsWritten, OldRemoved, base

\* A script begins.
LEMMA StartSteps ==
  ASSUME TypeOK, Shaped, IdsTold, StartImport \/ StartQuarantine
  PROVE  /\ TypeOK' /\ Shaped' /\ IdsTold' /\ DocsWritten' /\ OldRemoved'
         /\ batches' = batches /\ done' = Nothing /\ export' = export
         /\ Importing' => /\ script'.step = "docs"
                          /\ \A m \in Materials : script'.held.healthy[m] = <<>>
                          /\ \A m \in Materials : script'.held.sum[m] = 0
                          /\ script'.held.found = {}
  <1>1. /\ script = Idle /\ runs < MaxRuns /\ runs' = runs + 1 /\ done' = Nothing
        /\ UNCHANGED <<export, base, acts>>
    BY DEF StartImport, StartQuarantine, Start
  <1>2. /\ runs \in Nat /\ runs' \in Nat /\ runs' \in 0..MaxRuns /\ acts \in Nat
    BY <1>1, SupplyAssumption DEF TypeOK
  <1>3. ASSUME StartImport
        PROVE  /\ ImportShape' /\ script'.step = "docs" /\ script'.todo = InFile
               /\ \A m \in Materials : script'.held.healthy[m] = <<>>
               /\ \A m \in Materials : script'.held.sum[m] = 0
               /\ script'.held.found = {}
    <2>1. script' = [name |-> "import", step |-> "docs", todo |-> InFile, at |-> 0,
                     held |-> NothingRead]
      BY <1>3 DEF StartImport, Start
    <2>2. /\ NothingRead \in Read /\ NothingRead.acts = acts
          /\ \A m \in Materials : NothingRead.healthy[m] = <<>>
          /\ \A m \in Materials : NothingRead.sum[m] = 0
          /\ NothingRead.found = {}
      <3> DEFINE f == [m \in Materials |-> <<>>]
                 g == [m \in Materials |-> 0]
      <3>1. f \in [Materials -> Seq(Nat)] /\ \A m \in Materials : f[m] = <<>>  OBVIOUS
      <3>2. g \in [Materials -> Nat] /\ \A m \in Materials : g[m] = 0  OBVIOUS
      <3>3. NothingRead = [acts |-> acts, healthy |-> f, old |-> {}, total |-> 0, sum |-> g,
                           found |-> {}]
        BY DEF NothingRead
      <3> HIDE DEF f, g
      <3> QED  BY <1>2, <3>1, <3>2, <3>3 DEF Read
    <2>3. InFile \in SUBSET (Docs \cup Materials)  BY FileHolds
    <2>4. script' \in Carried /\ script'.step = "docs" /\ script'.todo = InFile
          /\ script'.held = NothingRead
      BY <2>1, <2>2, <2>3 DEF Carried, ImportSteps
    <2>5. InFile' = InFile  BY <1>1 DEF InFile
    <2>6. script'.held.acts <= acts'  BY <1>1, <1>2, <2>2, <2>4
    <2>7. ImportShape'  BY <2>4, <2>5, <2>6 DEF ImportShape
    <2> QED  BY <2>2, <2>4, <2>7
  <1>4. ASSUME StartQuarantine  PROVE QuarantineShape'
    <2> DEFINE t == {b.id : b \in {c \in batches : Suspicious(c)}}
    <2>1. script' = [name |-> "quarantine", step |-> "flag", todo |-> t, at |-> 0,
                     held |-> Nothing]
      BY <1>4 DEF StartQuarantine, Start
    <2>2. t \in SUBSET Ids  BY BatchHolds
    <2> HIDE DEF t
    <2> QED  BY <2>1, <2>2 DEF QuarantineShape
  <1>5. Shaped'  BY <1>3, <1>4 DEF Shaped
  <1>6. TypeOK'
    <2>1. /\ script'.name \in {"none", "import", "quarantine"}
          /\ script'.name = "import" => script'.held \in Read
      BY <1>3, <1>4 DEF ImportShape, QuarantineShape, Carried
    <2> QED  BY <1>1, <1>2, <2>1 DEF TypeOK, base
  <1>7. Importing' => StartImport  BY <1>4 DEF Importing, QuarantineShape
  <1>8. IdsTold'
    <2>1. ASSUME NEW b \in batches
          PROVE  /\ Marked(b)'
                 /\ b.id[2] = runs' => b.origin # "ONEC" /\ b.origin # "INVENTORY"
      <3>1. Marked(b) /\ b.id[2] \in Nat
        <4>1. b.id \in Ids  BY BatchHolds
        <4> QED  BY <4>1 DEF IdsTold, Ids
      <3> QED  BY <1>1, <1>2, <3>1 DEF Marked
    <2>2. OneById'  BY <1>1 DEF IdsTold, OneById, base
    <2> QED  BY <1>1, <2>1, <2>2 DEF IdsTold, base
  <1>9. DocsWritten'
    <2>1. InFile' = InFile  BY <1>1 DEF InFile
    <2>2. Importing' => /\ script'.step = "docs" /\ \A d \in InFile' : ToWrite("docs", d)'
      BY <1>3, <1>7, <2>1 DEF ToWrite
    <2> QED  BY <2>2 DEF DocsWritten
  <1>10. OldRemoved'
    <2>1. Importing' => ~BatchesMade' /\ ~SnapshotMade'
      BY <1>3, <1>7 DEF BatchesMade, SnapshotMade
    <2> QED  BY <2>1 DEF OldRemoved
  <1> QED  BY <1>1, <1>3, <1>5, <1>6, <1>7, <1>8, <1>9, <1>10 DEF base
----------------------------------------------------------------------------
(* The import                                                              *)

\* The next line, or the payments.
Goes(i) ==
    /\ script'.held = script.held
    /\ i < Len(export.lines) => script'.step = "line" /\ script'.at = i + 1
    /\ ~(i < Len(export.lines)) => script'.step = "pay" /\ script'.todo = DOMAIN export.paid

\* From which step to which the statements of an import go.
LEMMA ImportGoes ==
  ASSUME TypeOK, ImportShape
  PROVE  /\ \A d \in Docs : UpsertDoc(d) =>
              /\ script.step = "docs" /\ script'.step = "docs" /\ d \in InFile
              /\ script'.todo = script.todo \ {d} /\ script'.held = script.held
         /\ ClearLines =>
              /\ script.step = "docs" /\ script.todo = {} /\ script'.step = "clearBatches"
              /\ script'.held = script.held
         /\ ClearBatches => script.step = "clearBatches" /\ Goes(0)
         /\ WriteLine =>
              /\ script.step = "line" /\ script.at \in 1..Len(export.lines)
              /\ script'.held = script.held
              /\ GivesBatch(Line) => script'.step = "batch" /\ script'.at = script.at
              /\ ~GivesBatch(Line) => Goes(script.at)
         /\ WritePaid =>
              /\ script.step = "paid" /\ script'.step = "pay" /\ script'.held = script.held
              /\ script'.todo = script.todo \ {script.at}
         /\ DeleteSnapshot =>
              /\ script.step = "unstock" /\ script'.step = "restock" /\ script'.at = 1
              /\ script'.held = script.held
         /\ QtyWritten =>
              /\ script.step = "setQty" /\ script.todo = {} /\ script'.step = "ended"
              /\ script'.held = script.held
         /\ \A m \in Materials : WriteQty(m) =>
              /\ script.step = "setQty" /\ script'.step = "setQty" /\ script'.held = script.held
              /\ script'.todo = script.todo \ {m}
  <1>1. /\ script \in Carried /\ script.todo \in SUBSET (Docs \cup Materials)
        /\ {} \in SUBSET (Docs \cup Materials) /\ 0 \in Nat \cup Docs /\ 1 \in Nat \cup Docs
    BY DEF ImportShape, Carried
  <1>2. /\ "docs" \in ImportSteps /\ "clearBatches" \in ImportSteps /\ "batch" \in ImportSteps
        /\ "pay" \in ImportSteps /\ "restock" \in ImportSteps /\ "setQty" \in ImportSteps
    BY DEF ImportSteps
  <1>3. ASSUME NEW i \in Nat, script' = NextLine(i)  PROVE Goes(i)
    BY <1>1, <1>3, NextLineIs DEF Goes
  <1>4. ASSUME NEW d \in Docs, UpsertDoc(d)
        PROVE  /\ script.step = "docs" /\ script'.step = "docs" /\ d \in InFile
               /\ script'.todo = script.todo \ {d} /\ script'.held = script.held
    <2> DEFINE t == script.todo \ {d}
    <2>1. script.step = "docs" /\ d \in InFile /\ script' = Goto("docs", t, 0)
      BY <1>4 DEF UpsertDoc, ImportShape
    <2>2. t \in SUBSET (Docs \cup Materials)  BY <1>1
    <2> HIDE DEF t
    <2>3. script'.step = "docs" /\ script'.todo = t /\ script'.held = script.held
      BY <1>1, <1>2, <2>1, <2>2, GotoIs
    <2> QED  BY <2>1, <2>3 DEF t
  <1>5. ClearLines =>
          /\ script.step = "docs" /\ script.todo = {} /\ script'.step = "clearBatches"
          /\ script'.held = script.held
    BY <1>1, <1>2, GotoIs DEF ClearLines
  <1>6. ClearBatches => script.step = "clearBatches" /\ Goes(0)
    BY <1>3 DEF ClearBatches
  <1>7. ASSUME WriteLine
        PROVE  /\ script.step = "line" /\ script.at \in 1..Len(export.lines)
               /\ script'.held = script.held
               /\ GivesBatch(Line) => script'.step = "batch" /\ script'.at = script.at
               /\ ~GivesBatch(Line) => Goes(script.at)
    <2>1. /\ script.step = "line" /\ script.at \in 1..Len(export.lines)
          /\ GivesBatch(Line) => script' = Goto("batch", {}, script.at)
          /\ ~GivesBatch(Line) => script' = NextLine(script.at)
      BY <1>7 DEF WriteLine, ImportShape
    <2>2. script.at \in Nat /\ script.at \in Nat \cup Docs  BY <2>1
    <2>3. CASE GivesBatch(Line)  BY <1>1, <1>2, <2>1, <2>2, <2>3, GotoIs
    <2>4. CASE ~GivesBatch(Line)
      <3>1. Goes(script.at)  BY <1>3, <2>1, <2>2, <2>4
      <3> QED  BY <2>1, <2>4, <3>1 DEF Goes
    <2> QED  BY <2>3, <2>4
  <1>8. ASSUME WritePaid
        PROVE  /\ script.step = "paid" /\ script'.step = "pay" /\ script'.held = script.held
               /\ script'.todo = script.todo \ {script.at}
    <2> DEFINE t == script.todo \ {script.at}
    <2>1. script.step = "paid" /\ script' = Goto("pay", t, 0)  BY <1>8 DEF WritePaid
    <2>2. t \in SUBSET (Docs \cup Materials)  BY <1>1
    <2> HIDE DEF t
    <2>3. script'.step = "pay" /\ script'.todo = t /\ script'.held = script.held
      BY <1>1, <1>2, <2>1, <2>2, GotoIs
    <2> QED  BY <2>1, <2>3 DEF t
  <1>9. DeleteSnapshot =>
          /\ script.step = "unstock" /\ script'.step = "restock" /\ script'.at = 1
          /\ script'.held = script.held
    BY <1>1, <1>2, GotoIs DEF DeleteSnapshot
  <1>10. QtyWritten =>
          /\ script.step = "setQty" /\ script.todo = {} /\ script'.step = "ended"
          /\ script'.held = script.held
    BY <1>1, EndedIs DEF QtyWritten
  <1>11. ASSUME NEW m \in Materials, WriteQty(m)
         PROVE  /\ script.step = "setQty" /\ script'.step = "setQty"
                /\ script'.held = script.held /\ script'.todo = script.todo \ {m}
    <2> DEFINE t == script.todo \ {m}
    <2>1. script.step = "setQty" /\ script' = Goto("setQty", t, 0)  BY <1>11 DEF WriteQty
    <2>2. t \in SUBSET (Docs \cup Materials)  BY <1>1
    <2> HIDE DEF t
    <2>3. script'.step = "setQty" /\ script'.todo = t /\ script'.held = script.held
      BY <1>1, <1>2, <2>1, <2>2, GotoIs
    <2> QED  BY <2>1, <2>3 DEF t
  <1> QED  BY <1>4, <1>5, <1>6, <1>7, <1>8, <1>9, <1>10, <1>11

\* The reading of a document, of the snapshot, and the writing of a batch.
LEMMA ReadingGoes ==
  ASSUME TypeOK, ImportShape, DocsWritten
  PROVE  /\ \A d \in Docs : ReadDoc(d) =>
              /\ script.step = "pay" /\ d \in script.todo /\ d \in InFile
              /\ script'.step = "paid" /\ script'.todo = script.todo /\ script'.at = d
              /\ script'.held = [script.held EXCEPT !.total = docs[d].total]
              /\ script'.held.total = docs[d].total
         /\ ReadSnapshot =>
              /\ script.step = "pay" /\ script.todo = {}
              /\ export.stock = <<>> => script'.step = "ended" /\ script'.held = script.held
              /\ export.stock # <<>> =>
                   /\ script'.step = "unstock"
                   /\ script'.held = [script.held EXCEPT !.old = {b.material : b \in Snapshot}]
         /\ WriteBatch =>
              LET m == Line.item
                  anomaly == IsPriceAnomaly(Line.price, script.held.healthy[m], Threshold)
              IN /\ script'.held = Heard(script.held, m, Line.price, anomaly)
                 /\ script.at < Len(export.lines) =>
                      script'.step = "line" /\ script'.at = script.at + 1
                 /\ ~(script.at < Len(export.lines)) =>
                      script'.step = "pay" /\ script'.todo = DOMAIN export.paid
  <1>1. /\ script \in Carried /\ script.held \in Read
        /\ script.todo \in SUBSET (Docs \cup Materials)
    BY DEF ImportShape, Carried
  <1>2. ASSUME NEW d \in Docs, ReadDoc(d)
        PROVE  /\ script.step = "pay" /\ d \in script.todo /\ d \in InFile
               /\ script'.step = "paid" /\ script'.todo = script.todo /\ script'.at = d
               /\ script'.held = [script.held EXCEPT !.total = docs[d].total]
               /\ script'.held.total = docs[d].total
    <2> DEFINE h == [script.held EXCEPT !.total = docs[d].total]
               s == Goto("paid", script.todo, d)
    <2>1. script.step = "pay" /\ d \in script.todo /\ script' = [s EXCEPT !.held = h]
      BY <1>2 DEF ReadDoc
    <2>2. d \in InFile  BY <2>1, FileHolds DEF ImportShape
    <2>3. s \in Carried /\ s.step = "paid" /\ s.todo = script.todo /\ s.at = d
      BY <1>1 DEF Goto, Carried, ImportSteps
    <2>4. docs[d] \in Document
      BY <1>1, <2>1, <2>2 DEF DocsWritten, Importing, ToWrite, Carried
    <2>5. docs[d].total \in Nat  BY <2>4 DEF Document
    <2>6. h \in Read /\ h.total = docs[d].total  BY <1>1, <2>5, ReadingIs
    <2> HIDE DEF s, h
    <2>7. script'.step = s.step /\ script'.todo = s.todo /\ script'.at = s.at /\ script'.held = h
      BY <2>1, <2>3, <2>6, HeldIs
    <2>8. script'.step = "paid" /\ script'.todo = script.todo /\ script'.at = d
      BY <2>3, <2>7
    <2> QED  BY <2>1, <2>2, <2>6, <2>7, <2>8 DEF h
  <1>3. ASSUME ReadSnapshot
        PROVE  /\ script.step = "pay" /\ script.todo = {}
               /\ export.stock = <<>> => script'.step = "ended" /\ script'.held = script.held
               /\ export.stock # <<>> =>
                    /\ script'.step = "unstock"
                    /\ script'.held = [script.held EXCEPT !.old = {b.material : b \in Snapshot}]
    <2> DEFINE h == [script.held EXCEPT !.old = {b.material : b \in Snapshot}]
               s == Goto("unstock", {}, 0)
    <2>1. /\ script.step = "pay" /\ script.todo = {}
          /\ export.stock = <<>> => script' = Ended
          /\ export.stock # <<>> => script' = [s EXCEPT !.held = h]
      BY <1>3 DEF ReadSnapshot
    <2>2. {b.material : b \in Snapshot} \in SUBSET Materials  BY BatchHolds DEF Snapshot
    <2>3. h \in Read  BY <1>1, <2>2, ReadingIs
    <2>4. s \in Carried /\ s.step = "unstock"  BY <1>1 DEF Goto, Carried, ImportSteps
    <2>5. Ended.step = "ended" /\ Ended.held = script.held  BY <1>1, EndedIs
    <2> HIDE DEF s, h
    <2>6. [s EXCEPT !.held = h].step = "unstock" /\ [s EXCEPT !.held = h].held = h
      BY <2>3, <2>4, HeldIs
    <2>7. export.stock = <<>> => script'.step = "ended" /\ script'.held = script.held
      BY <2>1, <2>5
    <2>8. export.stock # <<>> => script'.step = "unstock" /\ script'.held = h
      BY <2>1, <2>6
    <2> QED  BY <2>1, <2>7, <2>8 DEF h
  <1>4. ASSUME WriteBatch
        PROVE  LET m == Line.item
                   anomaly == IsPriceAnomaly(Line.price, script.held.healthy[m], Threshold)
               IN /\ script'.held = Heard(script.held, m, Line.price, anomaly)
                  /\ script.at < Len(export.lines) =>
                       script'.step = "line" /\ script'.at = script.at + 1
                  /\ ~(script.at < Len(export.lines)) =>
                       script'.step = "pay" /\ script'.todo = DOMAIN export.paid
    <2> DEFINE m == Line.item
               anomaly == IsPriceAnomaly(Line.price, script.held.healthy[m], Threshold)
               h == Heard(script.held, m, Line.price, anomaly)
               s == NextLine(script.at)
    <2>1. script' = [s EXCEPT !.held = h]  BY <1>4 DEF WriteBatch
    <2>2. script.at \in Nat  BY <1>4, LineBatch
    <2>3. /\ s \in Carried
          /\ script.at < Len(export.lines) => s.step = "line" /\ s.at = script.at + 1
          /\ ~(script.at < Len(export.lines)) => s.step = "pay" /\ s.todo = DOMAIN export.paid
      BY <1>1, <2>2, NextLineIs
    <2> HIDE DEF s, h
    <2>4. /\ script'.step = s.step /\ script'.at = s.at /\ script'.todo = s.todo
          /\ script'.held = h
      BY <2>1, <2>3 DEF Carried
    <2> QED  BY <2>3, <2>4 DEF h
  <1> QED  BY <1>2, <1>3, <1>4

\* How far the statements of an import bring it.
LEMMA ImportMoves ==
  ASSUME TypeOK, ImportShape, DocsWritten, ImportStep
  PROVE  /\ InFile' = InFile
         /\ \/ /\ WriteLine /\ Written' = Written + 1 /\ Written' = script.at
               /\ JudgedTo + 1 = script.at
               /\ JudgedTo' = IF GivesBatch(Line) THEN JudgedTo ELSE JudgedTo + 1
            \/ /\ WriteBatch /\ Written' = Written
               /\ JudgedTo + 1 = script.at /\ JudgedTo' = JudgedTo + 1
            \/ /\ ~WriteLine /\ ~WriteBatch /\ Written' = Written /\ JudgedTo' = JudgedTo
         /\ \/ WriteStock /\ StockedTo + 1 = script.at /\ StockedTo' = StockedTo + 1
            \/ ~WriteStock /\ StockedTo' = StockedTo
         /\ BatchesMade' <=> BatchesMade \/ ClearBatches
         /\ SnapshotMade' <=> SnapshotMade \/ DeleteSnapshot
  <1> DEFINE n == Len(export.lines)
             k == Len(export.stock)
  <1>1. /\ n \in Nat /\ k \in Nat /\ export' = export
        /\ export.stock = <<>> => k = 0
    BY LinesHold, ImportScripts
  <1>2. InFile' = InFile  BY <1>1 DEF InFile
  <1>3. /\ Written' = IF script'.step \in {"docs", "clearBatches"} THEN 0
                      ELSE IF script'.step = "line" THEN script'.at - 1
                      ELSE IF script'.step = "batch" THEN script'.at ELSE n
        /\ JudgedTo' = IF script'.step \in {"docs", "clearBatches"} THEN 0
                       ELSE IF script'.step \in {"line", "batch"} THEN script'.at - 1 ELSE n
        /\ StockedTo' = IF script'.step = "restock" THEN script'.at - 1
                        ELSE IF script'.step \in {"setQty", "ended"} THEN k ELSE 0
        /\ BatchesMade' <=> script'.step \notin {"docs", "clearBatches"}
        /\ SnapshotMade' <=> \/ script'.step \in {"restock", "setQty"}
                             \/ script'.step = "ended" /\ export.stock # <<>>
    BY <1>1 DEF Written, JudgedTo, StockedTo, BatchesMade, SnapshotMade
  <1>4. /\ Written = IF script.step \in {"docs", "clearBatches"} THEN 0
                     ELSE IF script.step = "line" THEN script.at - 1
                     ELSE IF script.step = "batch" THEN script.at ELSE n
        /\ JudgedTo = IF script.step \in {"docs", "clearBatches"} THEN 0
                      ELSE IF script.step \in {"line", "batch"} THEN script.at - 1 ELSE n
        /\ StockedTo = IF script.step = "restock" THEN script.at - 1
                       ELSE IF script.step \in {"setQty", "ended"} THEN k ELSE 0
        /\ BatchesMade <=> script.step \notin {"docs", "clearBatches"}
        /\ SnapshotMade <=> \/ script.step \in {"restock", "setQty"}
                            \/ script.step = "ended" /\ export.stock # <<>>
    BY DEF Written, JudgedTo, StockedTo, BatchesMade, SnapshotMade
  <1>5. /\ WriteLine => script.step = "line"
        /\ WriteBatch => script.step = "batch"
        /\ WriteStock => script.step = "restock"
        /\ ClearBatches => script.step = "clearBatches"
        /\ DeleteSnapshot => script.step = "unstock"
    BY DEF WriteLine, WriteBatch, WriteStock, ClearBatches, DeleteSnapshot
  <1> HIDE DEF n, k
  <1>6. ASSUME NEW d \in Docs, UpsertDoc(d)
        PROVE  script.step = "docs" /\ script'.step = "docs"
    BY <1>6, ImportGoes
  <1>7. ASSUME NEW d \in Docs, ReadDoc(d)
        PROVE  script.step = "pay" /\ script'.step = "paid"
    BY <1>7, ReadingGoes
  <1>8. ASSUME NEW m \in Materials, WriteQty(m)
        PROVE  script.step = "setQty" /\ script'.step = "setQty" /\ export.stock # <<>>
    BY <1>8, ImportGoes DEF ImportShape
  <1>9. CASE \/ \E d \in Docs : UpsertDoc(d) \/ ReadDoc(d)
             \/ \E m \in Materials : WriteQty(m)
             \/ ClearLines \/ WritePaid \/ QtyWritten
    <2>1. \/ script.step = "docs" /\ script'.step \in {"docs", "clearBatches"}
          \/ script.step = "pay" /\ script'.step = "paid"
          \/ script.step = "paid" /\ script'.step = "pay"
          \/ script.step = "setQty" /\ script'.step \in {"setQty", "ended"}
               /\ export.stock # <<>>
      BY <1>6, <1>7, <1>8, <1>9, ImportGoes DEF ImportShape
    <2> QED  BY <1>2, <1>3, <1>4, <1>5, <2>1
  <1>10. CASE ClearBatches
    <2>1. /\ script.step = "clearBatches"
          /\ \/ script'.step = "line" /\ script'.at = 1
             \/ script'.step = "pay" /\ n = 0
      BY <1>1, <1>10, ImportGoes DEF Goes, n
    <2> QED  BY <1>2, <1>3, <1>4, <1>5, <1>10, <2>1
  <1>11. CASE WriteLine
    <2>1. /\ script.step = "line" /\ script.at \in 1..n
          /\ GivesBatch(Line) => script'.step = "batch" /\ script'.at = script.at
          /\ ~GivesBatch(Line) => \/ script'.step = "line" /\ script'.at = script.at + 1
                                  \/ script'.step = "pay" /\ script.at = n
      BY <1>1, <1>11, ImportGoes DEF Goes, n
    <2> QED  BY <1>2, <1>3, <1>4, <1>5, <1>11, <2>1
  <1>12. CASE WriteBatch
    <2>1. /\ script.step = "batch" /\ script.at \in 1..n
          /\ \/ script'.step = "line" /\ script'.at = script.at + 1
             \/ script'.step = "pay" /\ script.at = n
      BY <1>1, <1>12, ReadingGoes, LineBatch DEF n
    <2> QED  BY <1>2, <1>3, <1>4, <1>5, <1>12, <2>1
  <1>13. CASE ReadSnapshot
    <2>1. /\ script.step = "pay"
          /\ \/ script'.step = "ended" /\ export.stock = <<>>
             \/ script'.step = "unstock"
      BY <1>13, ReadingGoes
    <2> QED  BY <1>1, <1>2, <1>3, <1>4, <1>5, <2>1
  <1>14. CASE DeleteSnapshot
    <2>1. script.step = "unstock" /\ script'.step = "restock" /\ script'.at = 1
      BY <1>14, ImportGoes
    <2> QED  BY <1>2, <1>3, <1>4, <1>5, <1>14, <2>1
  <1>15. CASE WriteStock
    <2>1. /\ script.step = "restock" /\ script.at \in 1..k
          /\ \/ script'.step = "restock" /\ script'.at = script.at + 1
             \/ script'.step = "setQty" /\ script.at = k
      BY <1>1, <1>15, RowBatch DEF k
    <2> QED  BY <1>2, <1>3, <1>4, <1>5, <1>15, <2>1
  <1> QED
    BY <1>9, <1>10, <1>11, <1>12, <1>13, <1>14, <1>15 DEF ImportStep

\* The numbers they reach are numbers of lines and of rows.
LEMMA MovesBound ==
  ASSUME TypeOK, ImportShape
  PROVE  /\ Written \in 0..Len(export.lines) /\ JudgedTo \in 0..Len(export.lines)
         /\ StockedTo \in 0..Len(export.stock)
  BY LinesHold DEF ImportShape, Written, JudgedTo, StockedTo

\* Which batches the statements of an import write and remove.
LEMMA ImportBatches ==
  ASSUME TypeOK, ImportShape, ImportStep
  PROVE  \/ batches' = batches /\ ~WriteBatch /\ ~ClearBatches /\ ~DeleteSnapshot
         \/ ClearBatches /\ batches' = batches \ Replaced
         \/ DeleteSnapshot /\ batches' = batches \ Snapshot
         \/ WriteBatch /\ \E b \in BatchRecord :
              /\ batches' = batches \cup {b} /\ b.id = <<2, runs, script.at>> /\ b.doc = Line.doc
              /\ b.material = Line.item /\ b.origin = "ONEC"
         \/ WriteStock /\ \E b \in BatchRecord :
              /\ batches' = batches \cup {b} /\ b.id = <<3, runs, script.at>> /\ b.doc = Nothing
              /\ b.material = Row.item /\ b.origin = "INVENTORY"
  <1>1. CASE ClearBatches  BY <1>1 DEF ClearBatches
  <1>2. CASE DeleteSnapshot  BY <1>2 DEF DeleteSnapshot
  <1>3. CASE WriteBatch  BY <1>3, LineBatch
  <1>4. CASE WriteStock
    <2>1. script.step = "restock"  BY <1>4, RowBatch
    <2>2. ~WriteBatch /\ ~ClearBatches /\ ~DeleteSnapshot
      BY <2>1 DEF WriteBatch, ClearBatches, DeleteSnapshot
    <2> QED  BY <1>4, <2>2, RowBatch
  <1>5. CASE ~ClearBatches /\ ~DeleteSnapshot /\ ~WriteBatch /\ ~WriteStock
    <2>1. batches' = batches
      BY <1>5 DEF ImportStep, UpsertDoc, ReadDoc, ClearLines, WriteLine, WritePaid, ReadSnapshot,
                  QtyWritten, WriteQty, base
    <2> QED  BY <1>5, <2>1
  <1> QED  BY <1>1, <1>2, <1>3, <1>4, <1>5

LEMMA ImportIds ==
  ASSUME TypeOK, ImportShape, DocsWritten, IdsTold, OldRemoved, ImportStep
  PROVE  IdsTold' /\ OldRemoved'
  <1>1. /\ UNCHANGED <<export, known, runs, acts, done>> /\ ImportShape' /\ InFile' = InFile
        /\ Importing /\ Importing'
    BY ImportScripts, ImportMoves DEF ImportShape, Carried, Importing
  <1>2. runs \in Nat  BY SupplyAssumption DEF TypeOK
  <1>3. /\ JudgedTo \in Nat /\ StockedTo \in Nat
        /\ JudgedTo' \in Nat /\ JudgedTo' >= JudgedTo
        /\ StockedTo' \in Nat /\ StockedTo' >= StockedTo
    BY LinesHold, MovesBound, ImportMoves
  <1>4. /\ WriteBatch => JudgedTo' = script.at /\ JudgedTo + 1 = script.at
        /\ WriteStock => StockedTo' = script.at /\ StockedTo + 1 = script.at
    BY <1>3, ImportMoves DEF WriteLine, WriteBatch
  <1>5. \A b \in batches : Marked(b) => Marked(b)'  BY <1>1 DEF Marked
  <1>6. ASSUME batches' \subseteq batches  PROVE IdsTold'
    <2>1. \A b \in batches' : Marked(b)'  BY <1>5, <1>6 DEF IdsTold
    <2>2. OneById'  BY <1>6 DEF IdsTold, OneById
    <2>3. ASSUME NEW b \in batches', b.id[2] = runs'
          PROVE  /\ b.origin = "ONEC" => b.id[3] \in 1..JudgedTo'
                 /\ b.origin = "INVENTORY" => b.id[3] \in 1..StockedTo'
      <3>1. /\ b.origin = "ONEC" => b.id[3] \in 1..JudgedTo
            /\ b.origin = "INVENTORY" => b.id[3] \in 1..StockedTo
        BY <1>1, <1>6, <2>3 DEF IdsTold
      <3> QED  BY <1>3, <3>1
    <2> QED  BY <2>1, <2>2, <2>3 DEF IdsTold
  <1>7. ASSUME NEW n, batches' = batches \cup {n}, n.id[2] = runs, n.id[3] = script.at,
               \/ WriteBatch /\ n.id[1] = 2 /\ n.origin = "ONEC" /\ n.doc \in Docs
               \/ WriteStock /\ n.id[1] = 3 /\ n.origin = "INVENTORY" /\ n.doc = Nothing
        PROVE  IdsTold'
    <2>1. Marked(n)'  BY <1>1, <1>2, <1>7 DEF Marked
    <2>2. \A b \in batches' : Marked(b)'  BY <1>5, <1>7, <2>1 DEF IdsTold
    <2>3. ASSUME NEW b \in batches, b.id = n.id  PROVE FALSE
      <3>1. /\ Marked(b) /\ b.origin \in {"LOCAL", "ONEC", "INVENTORY"}
        BY BatchHolds DEF IdsTold
      <3>2. b.origin = n.origin  BY <1>7, <2>3, <3>1 DEF Marked
      <3>3. b.id[2] = runs /\ b.id[3] = script.at  BY <1>7, <2>3
      <3>4. \/ WriteBatch /\ script.at \in 1..JudgedTo
            \/ WriteStock /\ script.at \in 1..StockedTo
        BY <1>1, <1>7, <3>2, <3>3 DEF IdsTold
      <3> QED  BY <1>3, <1>4, <3>4
    <2>4. OneById'  BY <1>7, <2>3 DEF IdsTold, OneById
    <2>5. ASSUME NEW b \in batches', b.id[2] = runs'
          PROVE  /\ b.origin = "ONEC" => b.id[3] \in 1..JudgedTo'
                 /\ b.origin = "INVENTORY" => b.id[3] \in 1..StockedTo'
      <3>1. CASE b \in batches
        <4>1. /\ b.origin = "ONEC" => b.id[3] \in 1..JudgedTo
              /\ b.origin = "INVENTORY" => b.id[3] \in 1..StockedTo
          BY <1>1, <2>5, <3>1 DEF IdsTold
        <4> QED  BY <1>3, <4>1
      <3>2. CASE b = n
        <4>1. CASE WriteBatch /\ n.origin = "ONEC"
          BY <1>3, <1>4, <1>7, <3>2, <4>1
        <4>2. CASE WriteStock /\ n.origin = "INVENTORY"
          BY <1>3, <1>4, <1>7, <3>2, <4>2
        <4> QED  BY <1>7, <4>1, <4>2
      <3> QED  BY <1>7, <2>5, <3>1, <3>2
    <2> QED  BY <2>2, <2>4, <2>5 DEF IdsTold
  <1>8. ASSUME \A b \in batches' : \/ b \in batches /\ ~(ClearBatches /\ b \in Replaced)
                                      /\ ~(DeleteSnapshot /\ b \in Snapshot)
                                   \/ b.id[2] = runs
        PROVE  OldRemoved'
    <2>1. ASSUME NEW b \in batches', BatchesMade', b.doc \in InFile  PROVE b.id[2] = runs
      <3>1. CASE b \in batches /\ BatchesMade  BY <1>1, <2>1, <3>1 DEF OldRemoved
      <3>2. CASE b \in batches /\ ~(ClearBatches /\ b \in Replaced) /\ ~BatchesMade
        <4>1. ClearBatches  BY <2>1, <3>2, ImportMoves
        <4>2. b.origin # "ONEC"  BY <2>1, <3>2, <4>1 DEF Replaced
        <4>3. b.doc = Nothing  BY <3>2, <4>2, BatchHolds DEF IdsTold, Marked
        <4> QED  BY <2>1, <4>3, FileHolds
      <3> QED  BY <1>8, <3>1, <3>2
    <2>2. ASSUME NEW b \in Snapshot', SnapshotMade'  PROVE b.id[2] = runs
      <3>0. b \in batches' /\ b.origin = "INVENTORY"  BY <2>2 DEF Snapshot
      <3>1. CASE b \in batches /\ SnapshotMade  BY <1>1, <3>0, <3>1 DEF OldRemoved, Snapshot
      <3>2. CASE b \in batches /\ ~SnapshotMade /\ ~(DeleteSnapshot /\ b \in Snapshot)
        <4>1. DeleteSnapshot  BY <2>2, <3>2, ImportMoves
        <4> QED  BY <3>0, <3>2, <4>1 DEF Snapshot
      <3> QED  BY <1>8, <3>0, <3>1, <3>2
    <2> QED  BY <1>1, <2>1, <2>2 DEF OldRemoved
  <1>9. CASE batches' = batches /\ ~ClearBatches /\ ~DeleteSnapshot  BY <1>6, <1>8, <1>9
  <1>10. CASE ClearBatches /\ batches' = batches \ Replaced
    <2>1. ~DeleteSnapshot  BY <1>10 DEF ClearBatches, DeleteSnapshot
    <2> QED  BY <1>6, <1>8, <1>10, <2>1
  <1>11. CASE DeleteSnapshot /\ batches' = batches \ Snapshot
    <2>1. ~ClearBatches  BY <1>11 DEF ClearBatches, DeleteSnapshot
    <2> QED  BY <1>6, <1>8, <1>11, <2>1
  <1>12. CASE WriteBatch
    <2>1. PICK n \in BatchRecord :
            /\ batches' = batches \cup {n} /\ n.id = <<2, runs, script.at>> /\ n.doc = Line.doc
            /\ n.origin = "ONEC"
      BY <1>12, LineBatch
    <2>2. n.id[1] = 2 /\ n.id[2] = runs /\ n.id[3] = script.at /\ n.doc \in Docs
      BY <1>12, <2>1, LineBatch, FileHolds
    <2>3. ~ClearBatches /\ ~DeleteSnapshot  BY <1>12 DEF WriteBatch, ClearBatches, DeleteSnapshot
    <2> QED  BY <1>7, <1>8, <1>12, <2>1, <2>2, <2>3
  <1>13. CASE WriteStock
    <2>3. ~ClearBatches /\ ~DeleteSnapshot  BY <1>13 DEF WriteStock, ClearBatches, DeleteSnapshot
    <2>1. CASE Row.item \in known
      <3>1. PICK n \in BatchRecord :
              /\ batches' = batches \cup {n} /\ n.id = <<3, runs, script.at>> /\ n.doc = Nothing
              /\ n.origin = "INVENTORY"
        BY <1>13, <2>1, RowBatch
      <3>2. n.id[1] = 3 /\ n.id[2] = runs /\ n.id[3] = script.at  BY <3>1
      <3> QED  BY <1>7, <1>8, <1>13, <2>3, <3>1, <3>2
    <2>2. CASE Row.item \notin known
      <3>1. batches' = batches  BY <1>13, <2>2, RowBatch
      <3> QED  BY <1>9, <2>3, <3>1
    <2> QED  BY <2>1, <2>2
  <1> QED  BY <1>9, <1>10, <1>11, <1>12, <1>13, ImportBatches

\* One line more is one line more of its document.
LEMMA LinesGrow ==
  ASSUME NEW n \in Nat, NEW d
  PROVE  /\ LinesTo(d, 0) = {} /\ Cardinality(LinesTo(d, 0)) = 0
         /\ IsFiniteSet(LinesTo(d, n)) /\ Cardinality(LinesTo(d, n)) \in Nat
         /\ export.lines[n + 1].doc = d =>
              /\ LinesTo(d, n + 1) = LinesTo(d, n) \cup {n + 1}
              /\ Cardinality(LinesTo(d, n + 1)) = Cardinality(LinesTo(d, n)) + 1
         /\ export.lines[n + 1].doc # d => LinesTo(d, n + 1) = LinesTo(d, n)
  <1>1. LinesTo(d, 0) = {}  BY DEF LinesTo
  <1>2. IsFiniteSet(LinesTo(d, n))
    <2>1. IsFiniteSet(1..n)  BY FS_Interval
    <2>2. LinesTo(d, n) \subseteq 1..n  BY DEF LinesTo
    <2> QED  BY <2>1, <2>2, FS_Subset
  <1>3. 1..(n + 1) = (1..n) \cup {n + 1}  OBVIOUS
  <1>4. export.lines[n + 1].doc = d => LinesTo(d, n + 1) = LinesTo(d, n) \cup {n + 1}
    BY <1>3 DEF LinesTo
  <1>5. export.lines[n + 1].doc # d => LinesTo(d, n + 1) = LinesTo(d, n)
    BY <1>3 DEF LinesTo
  <1>6. n + 1 \notin LinesTo(d, n)  BY DEF LinesTo
  <1>7. Cardinality(LinesTo(d, n) \cup {n + 1}) = Cardinality(LinesTo(d, n)) + 1
    BY <1>2, <1>6, FS_AddElement
  <1> QED  BY <1>1, <1>2, <1>4, <1>5, <1>7, FS_EmptySet, FS_CardinalityType

LEMMA ImportDocs ==
  ASSUME TypeOK, ImportShape, DocsWritten, ImportStep
  PROVE  DocsWritten'
  <1>1. /\ UNCHANGED <<export, known, runs, acts, done>> /\ InFile' = InFile /\ Importing
        /\ InFile \subseteq Docs /\ script.held \in Read
    BY ImportScripts, ImportMoves, FileHolds DEF ImportShape, Carried, Importing
  <1>2. \A d, n : LinesTo(d, n)' = LinesTo(d, n)  BY <1>1 DEF LinesTo
  <1>3. \A d \in InFile : script.step # "docs" \/ d \notin script.todo =>
           docs[d] \in Document /\ docs[d].total = export.total[d]
    BY <1>1 DEF DocsWritten, ToWrite
  <1>4. script.step # "docs" => \A d \in InFile : docs[d].lines = Cardinality(LinesTo(d, Written))
    BY <1>1 DEF DocsWritten
  <1>5. docs \in [Docs -> Document \cup {Nothing}]  BY DEF TypeOK
  <1>6. ASSUME script'.step # "docs", script'.step # "paid",
               \A d \in InFile : /\ docs'[d] \in Document /\ docs'[d].total = export.total[d]
                                 /\ docs'[d].lines = Cardinality(LinesTo(d, Written'))
        PROVE  DocsWritten'
    BY <1>1, <1>2, <1>6 DEF DocsWritten
  <1>7. ASSUME docs' = docs, Written' = Written, script.step # "docs", script'.step # "docs",
               script'.step # "paid"
        PROVE  DocsWritten'
    BY <1>3, <1>4, <1>6, <1>7
  <1>8. ASSUME NEW d \in Docs, UpsertDoc(d)  PROVE DocsWritten'
    <2>1. /\ script.step = "docs" /\ d \in InFile /\ d \in script.todo
          /\ script'.step = "docs" /\ script'.todo = script.todo \ {d}
      BY <1>8, ImportGoes DEF UpsertDoc
    <2> DEFINE r == IF docs[d] = Nothing
                    THEN [total |-> export.total[d], paid |-> 0, unpaid |-> export.total[d],
                          status |-> "UNPAID", lines |-> 0]
                    ELSE [docs[d] EXCEPT !.total = export.total[d]]
    <2>2. docs' = [docs EXCEPT ![d] = r]  BY <1>8 DEF UpsertDoc
    <2>3. export.total[d] \in Nat  BY <2>1, FileHolds
    <2>4. r \in Document /\ r.total = export.total[d]
      <3>1. CASE docs[d] = Nothing  BY <2>3, <3>1 DEF Document, Status
      <3>2. CASE docs[d] # Nothing
        <4>1. docs[d] \in Document  BY <1>5, <3>2
        <4>2. r = [docs[d] EXCEPT !.total = export.total[d]]  BY <3>2
        <4> QED  BY <2>3, <4>1, <4>2 DEF Document
      <3> QED  BY <3>1, <3>2
    <2> HIDE DEF r
    <2>5. ASSUME NEW e \in InFile
          PROVE  ToWrite("docs", e)' \/ (docs'[e] \in Document /\ docs'[e].total = export.total[e])
      <3>1. CASE e = d
        <4>1. docs'[e] = r  BY <1>5, <2>2, <3>1
        <4> QED  BY <2>4, <3>1, <4>1
      <3>2. CASE e # d /\ e \in script.todo  BY <2>1, <3>2 DEF ToWrite
      <3>3. CASE e # d /\ e \notin script.todo
        <4>1. docs'[e] = docs[e]  BY <1>1, <1>5, <2>2, <3>3
        <4> QED  BY <1>3, <3>3, <4>1
      <3> QED  BY <3>1, <3>2, <3>3
    <2> QED  BY <1>1, <2>1, <2>5 DEF DocsWritten
  <1>9. ASSUME NEW d \in Docs, ReadDoc(d)  PROVE DocsWritten'
    <2>1. /\ script.step = "pay" /\ d \in InFile /\ script'.step = "paid" /\ script'.at = d
          /\ script'.held.total = docs[d].total
      BY <1>9, ReadingGoes
    <2>2. docs' = docs  BY <1>9 DEF ReadDoc, base
    <2>3. Written' = Written  BY <2>1, ImportMoves DEF WriteLine
    <2>4. script'.held.total = docs'[script'.at].total  BY <2>1, <2>2
    <2>5. \A e \in InFile : /\ docs'[e] \in Document /\ docs'[e].total = export.total[e]
                            /\ docs'[e].lines = Cardinality(LinesTo(e, Written'))
      BY <1>3, <1>4, <2>1, <2>2, <2>3
    <2> QED  BY <1>1, <1>2, <2>4, <2>5 DEF DocsWritten
  <1>10. CASE ClearLines
    <2>1. /\ script.step = "docs" /\ script.todo = {} /\ script'.step = "clearBatches"
          /\ docs' = [d \in Docs |-> IF d \in InFile THEN [docs[d] EXCEPT !.lines = 0] ELSE docs[d]]
      BY <1>10, ImportGoes DEF ClearLines
    <2>2. Written' = 0  BY <2>1 DEF Written
    <2>3. ASSUME NEW d \in InFile
          PROVE  /\ docs'[d] \in Document /\ docs'[d].total = export.total[d]
                 /\ docs'[d].lines = 0
      <3>1. docs[d] \in Document /\ docs[d].total = export.total[d]  BY <1>3, <2>1
      <3>2. docs'[d] = [docs[d] EXCEPT !.lines = 0]  BY <1>1, <2>1
      <3> QED  BY <3>1, <3>2 DEF Document
    <2>4. \A d : Cardinality(LinesTo(d, 0)) = 0  BY LinesGrow
    <2> QED  BY <1>6, <2>1, <2>2, <2>3, <2>4
  <1>11. CASE ClearBatches
    <2>1. script.step = "clearBatches" /\ docs' = docs /\ script'.step \in {"line", "pay"}
      BY <1>11, LinesHold, ImportGoes DEF ClearBatches, Goes
    <2>2. Written' = Written  BY <2>1, ImportMoves DEF WriteLine
    <2> QED  BY <1>7, <2>1, <2>2
  <1>12. CASE WriteLine
    <2> DEFINE d == export.lines[script.at].doc
               r == [docs[d] EXCEPT !.lines = docs[d].lines + 1]
    <2>1. /\ script.step = "line" /\ script.at \in 1..Len(export.lines)
          /\ docs' = [docs EXCEPT ![d] = r]
      BY <1>12, ImportGoes DEF WriteLine, Line
    <2>2. script'.step \in {"batch", "line", "pay"}
      BY <1>12, LinesHold, ImportGoes DEF Goes
    <2>3. d \in InFile  BY <2>1, LinesHold
    <2>4. Written' = Written + 1 /\ Written' = script.at /\ Written \in Nat
      <3>1. Written' = Written + 1 /\ Written' = script.at
        BY <1>12, <2>1, ImportMoves DEF WriteBatch
      <3> QED  BY <3>1, MovesBound, LinesHold
    <2> DEFINE n == Written
    <2>5. n \in Nat /\ Written' = n + 1 /\ export.lines[n + 1].doc = d  BY <2>4
    <2> HIDE DEF d, n
    <2>6. docs[d] \in Document /\ docs[d].lines = Cardinality(LinesTo(d, n))
      BY <1>3, <1>4, <2>1, <2>3 DEF n
    <2>7. /\ r \in Document /\ r.total = docs[d].total
          /\ r.lines = Cardinality(LinesTo(d, n)) + 1
      BY <2>6 DEF Document
    <2> HIDE DEF r
    <2>8. ASSUME NEW e \in InFile
          PROVE  /\ docs'[e] \in Document /\ docs'[e].total = export.total[e]
                 /\ docs'[e].lines = Cardinality(LinesTo(e, n + 1))
      <3>1. CASE e = d
        <4>1. docs'[e] = r  BY <1>1, <1>5, <2>1, <3>1
        <4>2. Cardinality(LinesTo(d, n + 1)) = Cardinality(LinesTo(d, n)) + 1
          BY <2>5, LinesGrow
        <4>3. docs[d].total = export.total[d]  BY <1>3, <2>1, <2>3
        <4> QED  BY <2>7, <3>1, <4>1, <4>2, <4>3
      <3>2. CASE e # d
        <4>1. docs'[e] = docs[e]  BY <1>1, <1>5, <2>1, <3>2
        <4>2. LinesTo(e, n + 1) = LinesTo(e, n)  BY <2>5, <3>2, LinesGrow
        <4>3. docs[e].lines = Cardinality(LinesTo(e, n))  BY <1>4, <2>1 DEF n
        <4> QED  BY <1>3, <2>1, <4>1, <4>2, <4>3
      <3> QED  BY <3>1, <3>2
    <2> QED  BY <1>6, <2>2, <2>5, <2>8
  <1>13. CASE WriteBatch
    <2>1. /\ script.step = "batch" /\ docs' = docs /\ script'.step \in {"line", "pay"}
      BY <1>13, LinesHold, LineBatch, ReadingGoes
    <2>2. Written' = Written  BY <2>1, ImportMoves DEF WriteLine
    <2> QED  BY <1>7, <2>1, <2>2
  <1>14. CASE WritePaid
    <2> DEFINE d == script.at
               paid == export.paid[d]
               rest == AtLeastZero(script.held.total - paid)
               status == StatusOf(script.held.total, paid)
               r == [docs[d] EXCEPT !.paid = paid, !.unpaid = rest, !.status = status]
    <2>1. /\ script.step = "paid" /\ script'.step = "pay" /\ docs' = [docs EXCEPT ![d] = r]
      BY <1>14, ImportGoes DEF WritePaid
    <2>2. d \in InFile  BY <2>1, FileHolds DEF ImportShape
    <2>3. docs[d] \in Document  BY <1>3, <2>1, <2>2
    <2>4. r.total = docs[d].total /\ r.lines = docs[d].lines
      <3> HIDE DEF d, paid, rest, status
      <3> QED  BY <2>3 DEF Document
    <2>5. docs'[d] \in Document
      <3>2. paid \in Nat  BY <2>1, FileHolds DEF ImportShape
      <3>3. script.held.total \in Nat  BY <1>1 DEF Read
      <3>4. rest \in Nat /\ status \in Status
        <4> HIDE DEF d, paid
        <4> QED  BY <3>2, <3>3 DEF AtLeastZero, StatusOf, Status
      <3> HIDE DEF d, paid, rest, status
      <3>5. r \in Document  BY <2>3, <3>2, <3>4 DEF Document
      <3> HIDE DEF r
      <3> QED  BY <1>1, <1>5, <2>1, <2>2, <3>5
    <2>6. Written' = Written  BY <2>1, ImportMoves DEF WriteLine, WriteBatch
    <2> HIDE DEF d, r
    <2>7. ASSUME NEW e \in InFile
          PROVE  /\ docs'[e] \in Document /\ docs'[e].total = export.total[e]
                 /\ docs'[e].lines = Cardinality(LinesTo(e, Written))
      <3>1. docs'[e] = IF e = d THEN r ELSE docs[e]  BY <1>1, <1>5, <2>1
      <3>2. docs[e] \in Document /\ docs[e].total = export.total[e]
            /\ docs[e].lines = Cardinality(LinesTo(e, Written))
        BY <1>3, <1>4, <2>1
      <3> QED  BY <2>4, <2>5, <3>1, <3>2
    <2> QED  BY <1>6, <2>1, <2>6, <2>7
  <1>15. CASE ReadSnapshot
    <2>1. script.step = "pay" /\ script'.step \in {"ended", "unstock"} /\ docs' = docs
      BY <1>15, ReadingGoes DEF ReadSnapshot, base
    <2>2. Written' = Written  BY <2>1, ImportMoves DEF WriteLine
    <2> QED  BY <1>7, <2>1, <2>2
  <1>16. CASE DeleteSnapshot
    <2>1. script.step = "unstock" /\ script'.step = "restock" /\ docs' = docs
      BY <1>16, ImportGoes DEF DeleteSnapshot
    <2>2. Written' = Written  BY <2>1, ImportMoves DEF WriteLine
    <2> QED  BY <1>7, <2>1, <2>2
  <1>17. CASE WriteStock
    <2>1. script.step = "restock" /\ script'.step \in {"restock", "setQty"} /\ docs' = docs
      BY <1>17, RowBatch, LinesHold
    <2>2. Written' = Written  BY <2>1, ImportMoves DEF WriteLine
    <2> QED  BY <1>7, <2>1, <2>2
  <1>18. CASE QtyWritten
    <2>1. script.step = "setQty" /\ script'.step = "ended" /\ docs' = docs
      BY <1>18, ImportGoes DEF QtyWritten, base
    <2>2. Written' = Written  BY <2>1, ImportMoves DEF WriteLine
    <2> QED  BY <1>7, <2>1, <2>2
  <1>19. ASSUME NEW m \in Materials, WriteQty(m)  PROVE DocsWritten'
    <2>1. script.step = "setQty" /\ script'.step = "setQty" /\ docs' = docs
      BY <1>19, ImportGoes DEF WriteQty
    <2>2. Written' = Written  BY <2>1, ImportMoves DEF WriteLine
    <2> QED  BY <1>7, <2>1, <2>2
  <1> QED
    BY <1>8, <1>9, <1>10, <1>11, <1>12, <1>13, <1>14, <1>15, <1>16, <1>17, <1>18, <1>19
    DEF ImportStep

\* An import nobody disturbs was not disturbed before.
LEMMA ImportCalm ==
  ASSUME TypeOK, ImportShape, DocsWritten, ImportStep
  PROVE  /\ Calm' => Calm /\ UNCHANGED <<export, known, runs, acts, done>>
         /\ Importing /\ Importing' /\ InFile' = InFile
         /\ \A d, n : LinesTo(d, n)' = LinesTo(d, n)
         /\ \A l : GivesBatch(l)' = GivesBatch(l)
         /\ \A m, n : RowsTo(m, n)' = RowsTo(m, n)
  <1>1. UNCHANGED <<export, known, runs, acts, done>> /\ script'.held.acts = script.held.acts
        /\ ImportShape'
    BY ImportScripts
  <1>2. Importing /\ Importing'  BY <1>1 DEF ImportShape, Carried, Importing
  <1>3. Calm' => Calm  BY <1>1, <1>2 DEF Calm
  <1>4. \A d, n : LinesTo(d, n)' = LinesTo(d, n)  BY <1>1 DEF LinesTo
  <1>5. \A l : GivesBatch(l)' = GivesBatch(l)  BY <1>1 DEF GivesBatch
  <1>6. \A m, n : RowsTo(m, n)' = RowsTo(m, n)  BY <1>1 DEF RowsTo, StockRows
  <1> QED  BY <1>1, <1>2, <1>3, <1>4, <1>5, <1>6, ImportMoves

\* The batches of a document in the file change only when they are removed all, or
\* the batch of a line of the document is written.
LEMMA DocBatches ==
  ASSUME TypeOK, ImportShape, DocsWritten, IdsTold, ImportStep, NEW d \in InFile
  PROVE  /\ ClearBatches => BatchesOf(d)' = {}
         /\ ~ClearBatches /\ ~(WriteBatch /\ Line.doc = d) => BatchesOf(d)' = BatchesOf(d)
  <1>1. d # Nothing  BY FileHolds
  <1>2. \A b \in batches : b.doc = d => b.origin = "ONEC"
    BY <1>1, BatchHolds DEF IdsTold, Marked
  <1>3. CASE ClearBatches
    BY <1>2, <1>3 DEF ClearBatches, Replaced, BatchesOf
  <1>4. CASE DeleteSnapshot /\ batches' = batches \ Snapshot
    <2>1. ~ClearBatches  BY <1>4 DEF DeleteSnapshot, ClearBatches
    <2> QED  BY <1>2, <1>4, <2>1 DEF Snapshot, BatchesOf
  <1>5. CASE WriteBatch
    <2>1. ~ClearBatches  BY <1>5 DEF WriteBatch, ClearBatches
    <2> QED  BY <1>5, <2>1, LineBatch DEF BatchesOf
  <1>6. ASSUME NEW n, batches' = batches \cup {n}, n.doc = Nothing, WriteStock
        PROVE  ~ClearBatches /\ BatchesOf(d)' = BatchesOf(d)
    BY <1>1, <1>6 DEF BatchesOf, WriteStock, ClearBatches
  <1>7. CASE batches' = batches /\ ~ClearBatches
    BY <1>7 DEF BatchesOf
  <1> QED  BY <1>3, <1>4, <1>5, <1>6, <1>7, ImportBatches

LEMMA ImportBatchesAsInFile ==
  ASSUME TypeOK, ImportShape, DocsWritten, IdsTold, BatchesAsInFile, ImportStep
  PROVE  BatchesAsInFile'
  <1>1. SUFFICES ASSUME Calm', BatchesMade', NEW d \in InFile
                 PROVE  {b.id[3] : b \in BatchesOf(d)'}
                          = {i \in LinesTo(d, JudgedTo') : GivesBatch(export.lines[i])}
    BY ImportCalm DEF BatchesAsInFile, BatchesOf
  <1>2. Calm  BY <1>1, ImportCalm
  <1>3. BatchesMade => {b.id[3] : b \in BatchesOf(d)}
                         = {i \in LinesTo(d, JudgedTo) : GivesBatch(export.lines[i])}
    BY <1>1, <1>2 DEF BatchesAsInFile
  <1>4. JudgedTo \in Nat  BY MovesBound, LinesHold
  <1>5. CASE ClearBatches
    <2>1. JudgedTo' = 0
      <3>1. ~WriteLine /\ ~WriteBatch  BY <1>5 DEF ClearBatches, WriteLine, WriteBatch
      <3>2. JudgedTo = 0  BY <1>5 DEF ClearBatches, JudgedTo
      <3> QED  BY <3>1, <3>2, ImportMoves
    <2>2. BatchesOf(d)' = {}  BY <1>5, DocBatches
    <2>3. LinesTo(d, 0) = {}  BY LinesGrow
    <2> QED  BY <2>1, <2>2, <2>3
  <1>6. CASE ~ClearBatches /\ ~WriteBatch
    <2>1. BatchesMade /\ BatchesOf(d)' = BatchesOf(d)
      BY <1>1, <1>6, ImportMoves, DocBatches
    <2>2. CASE JudgedTo' = JudgedTo  BY <1>3, <2>1, <2>2
    <2>3. CASE WriteLine /\ ~GivesBatch(Line) /\ JudgedTo' = JudgedTo + 1
      <3>1. JudgedTo + 1 = script.at  BY <1>6, <2>3, ImportMoves
      <3> DEFINE n == JudgedTo
      <3>2. n \in Nat /\ JudgedTo' = n + 1 /\ ~GivesBatch(export.lines[n + 1])
        BY <1>4, <2>3, <3>1 DEF Line
      <3> HIDE DEF n
      <3>3. LinesTo(d, n + 1) = LinesTo(d, n) \cup {n + 1} \/ LinesTo(d, n + 1) = LinesTo(d, n)
        BY <3>2, LinesGrow
      <3>4. {i \in LinesTo(d, n + 1) : GivesBatch(export.lines[i])}
              = {i \in LinesTo(d, n) : GivesBatch(export.lines[i])}
        BY <3>2, <3>3
      <3> QED  BY <1>3, <2>1, <3>2, <3>4 DEF n
    <2> QED  BY <1>6, <2>2, <2>3, ImportMoves
  <1>7. CASE WriteBatch
    <2>1. ~ClearBatches /\ ~WriteLine  BY <1>7 DEF WriteBatch, ClearBatches, WriteLine
    <2>2. BatchesMade /\ JudgedTo + 1 = script.at /\ JudgedTo' = JudgedTo + 1
      BY <1>1, <1>7, <2>1, ImportMoves
    <2> DEFINE n == JudgedTo
    <2>3. /\ n \in Nat /\ JudgedTo' = n + 1 /\ Line = export.lines[n + 1]
          /\ GivesBatch(export.lines[n + 1])
      BY <1>4, <1>7, <2>2, LineBatch
    <2>4. {b.id[3] : b \in BatchesOf(d)} = {i \in LinesTo(d, n) : GivesBatch(export.lines[i])}
      BY <1>3, <2>2
    <2> HIDE DEF n
    <2>5. CASE Line.doc = d
      <3>1. PICK a : batches' = batches \cup {a} /\ a.id = <<2, runs, n + 1>> /\ a.doc = d
        <4>1. script.at = n + 1  BY <2>2 DEF n
        <4> QED  BY <1>7, <2>5, <4>1, LineBatch
      <3>2. BatchesOf(d)' = BatchesOf(d) \cup {a} /\ a.id[3] = n + 1
        BY <3>1 DEF BatchesOf
      <3>3. {b.id[3] : b \in BatchesOf(d)'} = {b.id[3] : b \in BatchesOf(d)} \cup {n + 1}
        BY <3>2
      <3>4. LinesTo(d, n + 1) = LinesTo(d, n) \cup {n + 1}  BY <2>3, <2>5, LinesGrow
      <3> QED  BY <2>3, <2>4, <3>3, <3>4
    <2>6. CASE Line.doc # d
      <3>1. BatchesOf(d)' = BatchesOf(d)  BY <2>1, <2>6, DocBatches
      <3>2. LinesTo(d, n + 1) = LinesTo(d, n)  BY <2>3, <2>6, LinesGrow
      <3> QED  BY <2>3, <2>4, <3>1, <3>2
    <2> QED  BY <2>5, <2>6
  <1> QED  BY <1>5, <1>6, <1>7

LEMMA ImportPaidAsInFile ==
  ASSUME TypeOK, ImportShape, DocsWritten, PaidAsInFile, ImportStep
  PROVE  PaidAsInFile'
  <1> DEFINE Settled(d) ==
               /\ docs[d].paid = export.paid[d]
               /\ docs[d].unpaid = AtLeastZero(docs[d].total - docs[d].paid)
               /\ docs[d].status = StatusOf(docs[d].total, docs[d].paid)
  <1>1. SUFFICES ASSUME Calm', NEW d \in DOMAIN export.paid,
                        script'.step \in {"pay", "paid", "unstock", "restock", "setQty", "ended"}
                 PROVE  ToWrite("pay", d)' \/ ToWrite("paid", d)' \/ Settled(d)'
    BY ImportCalm DEF PaidAsInFile
  <1>2. Calm /\ export' = export /\ d \in InFile /\ InFile \subseteq Docs
    BY <1>1, ImportCalm, FileHolds
  <1>3. script.step \in {"pay", "paid", "unstock", "restock", "setQty", "ended"} =>
          ToWrite("pay", d) \/ ToWrite("paid", d) \/ Settled(d)
    BY <1>1, <1>2 DEF PaidAsInFile
  <1>4. docs' = docs => Settled(d)' = Settled(d)  BY <1>2
  <1>5. CASE ClearBatches \/ WriteLine \/ WriteBatch
    <2>1. script'.step = "pay" => script'.todo = DOMAIN export.paid
      BY <1>5, LinesHold, ImportGoes, ReadingGoes, LineBatch DEF Goes
    <2>2. script'.step \in {"pay", "line", "batch"}
      BY <1>5, LinesHold, ImportGoes, ReadingGoes, LineBatch DEF Goes
    <2> QED  BY <1>1, <2>1, <2>2 DEF ToWrite
  <1>6. ClearLines \/ (\E e \in Docs : UpsertDoc(e)) => FALSE
    BY <1>1, ImportGoes
  <1>7. ASSUME NEW e \in Docs, ReadDoc(e)
        PROVE  ToWrite("pay", d)' \/ ToWrite("paid", d)' \/ Settled(d)'
    <2>1. script.step = "pay" /\ script'.step = "paid" /\ script'.todo = script.todo
      BY <1>7, ReadingGoes
    <2>2. docs' = docs  BY <1>7 DEF ReadDoc, base
    <2>3. ToWrite("pay", d) => ToWrite("paid", d)'  BY <2>1 DEF ToWrite
    <2>4. ~ToWrite("paid", d)  BY <2>1 DEF ToWrite
    <2> QED  BY <1>3, <1>4, <2>1, <2>2, <2>3, <2>4
  <1>8. CASE WritePaid
    <2> DEFINE x == script.at
               paid == export.paid[x]
               total == script.held.total
               r == [docs[x] EXCEPT !.paid = paid, !.unpaid = AtLeastZero(total - paid),
                                    !.status = StatusOf(total, paid)]
    <2>1. /\ script.step = "paid" /\ script'.step = "pay" /\ script'.todo = script.todo \ {x}
          /\ docs' = [docs EXCEPT ![x] = r]
      BY <1>8, ImportGoes DEF WritePaid
    <2>2. docs \in [Docs -> Document \cup {Nothing}]  BY DEF TypeOK
    <2>3. CASE d = x
      <3>1. docs'[d] = r  BY <1>2, <2>1, <2>2, <2>3
      <3>2. docs[x] \in Document
        BY <1>2, <2>1, <2>3, ImportCalm DEF DocsWritten, ToWrite
      <3>3. total = docs[x].total  BY <2>1, ImportCalm DEF DocsWritten
      <3> HIDE DEF x, paid, total
      <3>4. /\ r.paid = paid /\ r.unpaid = AtLeastZero(total - paid)
            /\ r.status = StatusOf(total, paid) /\ r.total = docs[x].total
        BY <3>2 DEF Document
      <3> HIDE DEF r
      <3>5. paid = export.paid[d]  BY <2>3 DEF paid
      <3>6. Settled(d)'  BY <1>2, <3>1, <3>3, <3>4, <3>5
      <3> QED  BY <3>6
    <2>4. CASE d # x
      <3>1. docs'[d] = docs[d]  BY <1>2, <2>1, <2>2, <2>4
      <3>2. Settled(d) => Settled(d)'  BY <1>2, <3>1
      <3>3. ToWrite("paid", d) => ToWrite("pay", d)'  BY <2>1, <2>4 DEF ToWrite
      <3>4. ~ToWrite("pay", d)  BY <2>1 DEF ToWrite
      <3> QED  BY <1>3, <2>1, <3>2, <3>3, <3>4
    <2> QED  BY <2>3, <2>4
  <1>9. CASE ReadSnapshot
    <2>1. script.step = "pay" /\ script.todo = {} /\ docs' = docs
      BY <1>9 DEF ReadSnapshot, base
    <2> QED  BY <1>3, <1>4, <2>1 DEF ToWrite
  <1>10. CASE \/ DeleteSnapshot \/ WriteStock \/ QtyWritten
              \/ \E m \in Materials : WriteQty(m)
    <2>1. script.step \in {"unstock", "restock", "setQty"} /\ docs' = docs
      BY <1>10 DEF DeleteSnapshot, WriteStock, QtyWritten, WriteQty, base
    <2> QED  BY <1>3, <1>4, <2>1 DEF ToWrite
  <1> QED  BY <1>5, <1>6, <1>7, <1>8, <1>9, <1>10 DEF ImportStep

\* The rows of a material added up, one row more at a time.
LEMMA RowsGrow ==
  ASSUME TypeOK, NEW m \in Materials, NEW n \in 0..Len(export.stock)
  PROVE  /\ RowsTo(m, 0) = {} /\ RowsSum({}) = 0
         /\ RowsSum(RowsTo(m, n)) \in Nat
         /\ n + 1 \in 1..Len(export.stock) =>
              /\ export.stock[n + 1].item # m => RowsTo(m, n + 1) = RowsTo(m, n)
              /\ export.stock[n + 1].item = m =>
                   /\ RowsTo(m, n + 1) = RowsTo(m, n) \cup {n + 1}
                   /\ RowsSum(RowsTo(m, n + 1))
                        = RowsSum(RowsTo(m, n)) + export.stock[n + 1].qty
         /\ n = Len(export.stock) => RowsTo(m, n) = StockRows(m)
  <1> DEFINE k == Len(export.stock)
  <1>1. k \in Nat /\ DOMAIN export.stock = 1..k /\ \A i \in 1..k : export.stock[i].qty \in Nat
    BY LinesHold
  <1>2. RowsTo(m, 0) = {}  BY <1>1 DEF RowsTo, StockRows
  <1>3. RowsSum({}) = 0
    <2>1. IsFiniteSet({})  BY FS_EmptySet
    <2> QED  BY <2>1, SumStep DEF RowsSum
  <1> DEFINE S == RowsTo(m, n)
  <1>4. S \subseteq 1..k /\ IsFiniteSet(S) /\ n + 1 \notin S
    <2>1. S \subseteq 1..k  BY <1>1 DEF RowsTo, StockRows
    <2>2. IsFiniteSet(1..k)  BY <1>1, FS_Interval
    <2>3. n + 1 \notin S  BY DEF RowsTo
    <2> HIDE DEF S, k
    <2> QED  BY <2>1, <2>2, <2>3, FS_Subset
  <1>5. RowsSum(S) \in Nat
    <2> DEFINE f == [i \in S |-> export.stock[i].qty]
    <2>1. \A i \in S : f[i] \in Nat  BY <1>1, <1>4
    <2>2. RowsSum(S) = SumFunctionOnSet(f, S)  BY DEF RowsSum
    <2> HIDE DEF f, S
    <2> QED  BY <1>4, <2>1, <2>2, SumNat
  <1>6. ASSUME n + 1 \in 1..k, export.stock[n + 1].item # m  PROVE RowsTo(m, n + 1) = S
    <2>1. \A i \in 1..k : i <= n + 1 <=> i <= n \/ i = n + 1  BY <1>1
    <2> QED  BY <1>1, <1>6, <2>1 DEF RowsTo, StockRows
  <1>7. ASSUME n + 1 \in 1..k, export.stock[n + 1].item = m
        PROVE  /\ RowsTo(m, n + 1) = S \cup {n + 1}
               /\ RowsSum(S \cup {n + 1}) = RowsSum(S) + export.stock[n + 1].qty
    <2>1. \A i \in 1..k : i <= n + 1 <=> i <= n \/ i = n + 1  BY <1>1
    <2>2. RowsTo(m, n + 1) = S \cup {n + 1}
      BY <1>1, <1>7, <2>1 DEF RowsTo, StockRows
    <2> DEFINE T == S \cup {n + 1}
               f == [i \in T |-> export.stock[i].qty]
               g == [i \in S |-> export.stock[i].qty]
    <2>3. \A i \in T : f[i] \in Int /\ f[i] = export.stock[i].qty  BY <1>1, <1>4, <1>7
    <2>4. \A i \in S : f[i] = g[i]  OBVIOUS
    <2>5. RowsSum(T) = SumFunctionOnSet(f, T) /\ RowsSum(S) = SumFunctionOnSet(g, S)
      BY DEF RowsSum
    <2>6. n + 1 \in T  OBVIOUS
    <2> DEFINE j == n + 1
    <2>7. /\ IsFiniteSet(S) /\ j \notin S /\ T = S \cup {j} /\ j \in T  BY <1>4
    <2> HIDE DEF f, g, S, j
    <2>8. SumFunctionOnSet(f, S \cup {j}) = SumFunctionOnSet(f, S) + f[j]
      BY <2>3, <2>7, SumAdd
    <2>9. SumFunctionOnSet(f, S) = SumFunctionOnSet(g, S)  BY <2>4, <2>7, SumSame
    <2>10. f[j] = export.stock[j].qty  BY <2>3, <2>7
    <2> QED  BY <2>2, <2>5, <2>7, <2>8, <2>9, <2>10 DEF j
  <1>8. n = k => S = StockRows(m)  BY <1>1 DEF RowsTo, StockRows
  <1> QED  BY <1>2, <1>3, <1>5, <1>6, <1>7, <1>8

\* One batch more is what it holds more.
LEMMA LeftInGrows ==
  ASSUME NEW S, IsFiniteSet(S), NEW b, b \notin S, \A c \in S \cup {b} : c.left \in Nat
  PROVE  LeftIn(S \cup {b}) = LeftIn(S) + b.left
  <1> DEFINE T == S \cup {b}
             f == [c \in T |-> c.left]
             g == [c \in S |-> c.left]
  <1>1. \A c \in T : f[c] \in Int  OBVIOUS
  <1>2. \A c \in S : f[c] = g[c]  OBVIOUS
  <1>3. f[b] = b.left  OBVIOUS
  <1>4. LeftIn(T) = SumFunctionOnSet(f, T) /\ LeftIn(S) = SumFunctionOnSet(g, S)
    BY DEF LeftIn
  <1>5. T = S \cup {b}  OBVIOUS
  <1> HIDE DEF f, g
  <1>6. SumFunctionOnSet(f, S \cup {b}) = SumFunctionOnSet(f, S) + f[b]  BY <1>1, SumAdd
  <1>7. SumFunctionOnSet(f, S) = SumFunctionOnSet(g, S)  BY <1>2, SumSame
  <1> QED  BY <1>3, <1>4, <1>5, <1>6, <1>7

LEMMA NothingLeft ==
  LeftIn({}) = 0
  <1>1. IsFiniteSet({})  BY FS_EmptySet
  <1> QED  BY <1>1, SumStep DEF LeftIn

\* The batches of the snapshot of a material.
SnapshotOf(m) == {b \in Snapshot : b.material = m}

LEMMA SnapshotIs ==
  ASSUME TypeOK, NEW m
  PROVE  /\ IsFiniteSet(SnapshotOf(m)) /\ SnapshotOf(m) \subseteq batches
         /\ \A b \in SnapshotOf(m) : b.left \in Nat
  <1>1. SnapshotOf(m) \subseteq batches  BY DEF SnapshotOf, Snapshot
  <1>2. IsFiniteSet(batches)  BY DEF TypeOK
  <1>3. IsFiniteSet(SnapshotOf(m))  BY <1>1, <1>2, FS_Subset
  <1> QED  BY <1>1, <1>3, BatchHolds

\* The snapshot changes only when it is removed, or when a row of it is written.
LEMMA SnapshotWritten ==
  ASSUME TypeOK, ImportShape, DocsWritten, ImportStep, ~DeleteSnapshot, ~WriteStock, NEW m
  PROVE  SnapshotOf(m)' = SnapshotOf(m)
  <1>1. CASE batches' = batches  BY <1>1 DEF SnapshotOf, Snapshot
  <1>2. CASE batches' = batches \ Replaced  BY <1>2 DEF SnapshotOf, Snapshot, Replaced
  <1>3. ASSUME NEW n, batches' = batches \cup {n}, n.origin = "ONEC"
        PROVE  SnapshotOf(m)' = SnapshotOf(m)
    BY <1>3 DEF SnapshotOf, Snapshot
  <1> QED  BY <1>1, <1>2, <1>3, ImportBatches

LEMMA ImportSnapshotAsInFile ==
  ASSUME TypeOK, ImportShape, DocsWritten, IdsTold, SnapshotAsInFile, ImportStep
  PROVE  SnapshotAsInFile'
  <1>1. /\ Calm' => Calm /\ UNCHANGED <<export, known, runs, acts, done>>
        /\ script \in Carried /\ script.held \in Read
    BY ImportCalm DEF ImportShape, Carried
  <1>2. SUFFICES ASSUME Calm', NEW m \in Materials
        PROVE  /\ script'.held.sum[m] = IF m \in known THEN RowsSum(RowsTo(m, StockedTo')) ELSE 0
               /\ m \in script'.held.found <=> m \in known /\ RowsTo(m, StockedTo') # {}
               /\ SnapshotMade' => LeftIn(SnapshotOf(m)') = script'.held.sum[m]
               /\ m \in script'.held.found /\ script'.step \in {"setQty", "ended"} =>
                     ToWrite("setQty", m)' \/ stockQty'[m] = script'.held.sum[m]
    <2>1. SUFFICES ASSUME Calm'  PROVE SnapshotAsInFile'
      BY DEF SnapshotAsInFile
    <2>2. export' = export /\ known' = known  BY <1>1, <2>1
    <2>3. ASSUME NEW m \in Materials
          PROVE  /\ RowsTo(m, StockedTo)' = RowsTo(m, StockedTo')
                 /\ RowsSum(RowsTo(m, StockedTo))' = RowsSum(RowsTo(m, StockedTo'))
                 /\ LeftIn({b \in Snapshot : b.material = m})' = LeftIn(SnapshotOf(m)')
      <3>1. RowsTo(m, StockedTo)' = RowsTo(m, StockedTo')  BY <2>2 DEF RowsTo, StockRows
      <3>2. RowsSum(RowsTo(m, StockedTo))' = RowsSum(RowsTo(m, StockedTo'))
        BY <2>2, <3>1 DEF RowsSum
      <3>3. LeftIn({b \in Snapshot : b.material = m})' = LeftIn(SnapshotOf(m)')
        BY DEF LeftIn, SnapshotOf
      <3> QED  BY <3>1, <3>2, <3>3
    <2> QED  BY <1>2, <2>1, <2>2, <2>3 DEF SnapshotAsInFile
  <1>3. Calm /\ export' = export /\ known' = known  BY <1>1, <1>2
  <1>4. /\ script.held.sum[m] = IF m \in known THEN RowsSum(RowsTo(m, StockedTo)) ELSE 0
        /\ m \in script.held.found <=> m \in known /\ RowsTo(m, StockedTo) # {}
        /\ SnapshotMade => LeftIn(SnapshotOf(m)) = script.held.sum[m]
        /\ m \in script.held.found /\ script.step \in {"setQty", "ended"} =>
              ToWrite("setQty", m) \/ stockQty[m] = script.held.sum[m]
    BY <1>2, <1>3 DEF SnapshotAsInFile, SnapshotOf
  <1>5. ASSUME script'.held.sum = script.held.sum, script'.held.found = script.held.found,
               ~WriteStock, ~DeleteSnapshot
        PROVE  /\ script'.held.sum[m] = IF m \in known THEN RowsSum(RowsTo(m, StockedTo')) ELSE 0
               /\ m \in script'.held.found <=> m \in known /\ RowsTo(m, StockedTo') # {}
               /\ SnapshotMade' => LeftIn(SnapshotOf(m)') = script'.held.sum[m]
    <2>1. StockedTo' = StockedTo /\ (SnapshotMade' => SnapshotMade)  BY <1>5, ImportMoves
    <2>2. SnapshotOf(m)' = SnapshotOf(m)  BY <1>5, SnapshotWritten
    <2> QED  BY <1>4, <1>5, <2>1, <2>2
  <1>6. CASE \/ \E d \in Docs : UpsertDoc(d) \/ ReadDoc(d)
             \/ ClearLines \/ ClearBatches \/ WriteLine \/ WriteBatch \/ WritePaid
    <2>1. script'.held.sum = script.held.sum /\ script'.held.found = script.held.found
      <3>1. ASSUME NEW d \in Docs, ReadDoc(d)
            PROVE  script'.held.sum = script.held.sum /\ script'.held.found = script.held.found
        <4> DEFINE n == docs[d].total
        <4>1. script'.held = [script.held EXCEPT !.total = n]  BY <3>1, ReadingGoes
        <4> HIDE DEF n
        <4> QED  BY <1>1, <4>1 DEF Read
      <3>2. ASSUME WriteBatch
            PROVE  script'.held.sum = script.held.sum /\ script'.held.found = script.held.found
        <4> DEFINE k == Line.item
                   price == Line.price
                   anomaly == IsPriceAnomaly(price, script.held.healthy[k], Threshold)
        <4>1. script'.held = Heard(script.held, k, price, anomaly)  BY <3>2, ReadingGoes
        <4>2. k \in Materials /\ price \in Nat /\ anomaly \in BOOLEAN
          BY <3>2, LineBatch DEF IsPriceAnomaly
        <4> HIDE DEF k, price, anomaly
        <4> QED  BY <1>1, <4>1, <4>2, HeardIs
      <3>3. CASE \/ \E d \in Docs : UpsertDoc(d)
                 \/ ClearLines \/ ClearBatches \/ WriteLine \/ WritePaid
        <4>1. script'.held = script.held  BY <3>3, ImportGoes DEF Goes
        <4> QED  BY <4>1
      <3> QED  BY <1>6, <3>1, <3>2, <3>3
    <2>2. script'.step \in {"docs", "clearBatches", "line", "batch", "pay", "paid"}
      BY <1>6, LinesHold, ImportGoes, ReadingGoes, LineBatch DEF Goes
    <2>3. ~WriteStock /\ ~DeleteSnapshot
      BY <1>6 DEF WriteStock, DeleteSnapshot, UpsertDoc, ReadDoc, ClearLines, ClearBatches,
                  WriteLine, WriteBatch, WritePaid
    <2> QED  BY <1>5, <2>1, <2>2, <2>3
  <1>7. CASE ReadSnapshot
    <2>1. script'.held.sum = script.held.sum /\ script'.held.found = script.held.found
      <3> DEFINE ms == {b.material : b \in Snapshot}
      <3>1. script'.held = script.held \/ script'.held = [script.held EXCEPT !.old = ms]
        BY <1>7, ReadingGoes
      <3> HIDE DEF ms
      <3> QED  BY <1>1, <3>1 DEF Read
    <2>2. ~WriteStock /\ ~DeleteSnapshot  BY <1>7 DEF ReadSnapshot, WriteStock, DeleteSnapshot
    <2>3. script'.step = "setQty" => FALSE  BY <1>7, ReadingGoes
    <2>4. script'.step = "ended" => m \notin script'.held.found
      <3>1. script'.step = "ended" => export.stock = <<>>  BY <1>7, ReadingGoes
      <3>2. script.step = "pay"  BY <1>7, ReadingGoes
      <3>3. StockedTo' = 0
        <4>1. StockedTo = 0  BY <3>2 DEF StockedTo
        <4> QED  BY <2>2, <4>1, ImportMoves
      <3>4. RowsTo(m, 0) = {}
        <4>1. 0 \in 0..Len(export.stock)  BY LinesHold
        <4> QED  BY <4>1, RowsGrow
      <3> QED  BY <1>5, <2>1, <2>2, <3>3, <3>4
    <2> QED  BY <1>5, <2>1, <2>2, <2>3, <2>4
  <1>8. CASE DeleteSnapshot
    <2>1. script.step = "unstock" /\ script'.step = "restock" /\ script'.held = script.held
      BY <1>8, ImportGoes
    <2>2. StockedTo = 0 /\ StockedTo' = 0
      <3>1. StockedTo = 0  BY <2>1 DEF StockedTo
      <3> QED  BY <2>1, <3>1, ImportMoves DEF WriteStock
    <2>3. SnapshotOf(m)' = {}  BY <1>8 DEF DeleteSnapshot, SnapshotOf, Snapshot
    <2>4. RowsTo(m, 0) = {} /\ RowsSum({}) = 0
      <3>1. 0 \in 0..Len(export.stock)  BY LinesHold
      <3> QED  BY <3>1, RowsGrow
    <2>5. script.held.sum[m] = 0  BY <1>4, <2>2, <2>4
    <2>6. LeftIn(SnapshotOf(m)') = 0  BY <2>3, NothingLeft
    <2> QED  BY <1>4, <2>1, <2>2, <2>5, <2>6
  <1>9. CASE WriteStock
    <2> DEFINE h == Counted(script.held, Row)
               n == StockedTo
    <2>1. /\ script.at \in 1..Len(export.stock) /\ Row = export.stock[script.at]
          /\ Row.item \in Materials /\ Row.qty \in Nat /\ script'.held = h
          /\ script.step = "restock"
      BY <1>9, RowBatch
    <2>2. /\ n \in 0..Len(export.stock) /\ n + 1 = script.at /\ StockedTo' = n + 1
      BY <1>9, MovesBound, ImportMoves
    <2>3. /\ n + 1 \in 1..Len(export.stock) /\ Row = export.stock[n + 1]
      BY <2>1, <2>2
    <2>4. Row \in [item : Materials, day : Nat, qty : Nat, price : Nat]
      <3> DEFINE B == [item : Materials, day : Nat, qty : Nat, price : Nat]
      <3>1. export.stock \in Seq(B)  BY FileHolds
      <3> HIDE DEF B, n
      <3>2. export.stock[script.at] \in B  BY <2>1, <3>1
      <3> QED  BY <2>1, <3>2 DEF B
    <2>5. /\ Row.item \notin known => h = script.held
          /\ Row.item \in known =>
               /\ h.sum = [script.held.sum EXCEPT ![Row.item] = script.held.sum[Row.item] + Row.qty]
               /\ h.found = script.held.found \cup {Row.item}
          /\ h.old = script.held.old
      BY <1>1, <2>4, CountedIs
    <2>6. SnapshotMade  BY <2>1 DEF SnapshotMade
    <2>7. script'.step \in {"setQty", "ended"} => script'.step = "setQty"
             /\ script'.todo = h.found \cup h.old
      BY <1>9, LinesHold, RowBatch
    <2> HIDE DEF h, n
    <2>8. m \in script'.held.found /\ script'.step \in {"setQty", "ended"} =>
             ToWrite("setQty", m)'
      BY <2>1, <2>7 DEF ToWrite
    <2>9. script.held.sum \in [Materials -> Nat]  BY <1>1 DEF Read
    <2>10. n = StockedTo  BY DEF n
    <2>11. CASE Row.item = m /\ m \in known
      <3>1. /\ script'.held.sum[m] = script.held.sum[m] + Row.qty /\ m \in script'.held.found
        BY <2>1, <2>5, <2>9, <2>11
      <3>2. /\ RowsTo(m, n + 1) = RowsTo(m, n) \cup {n + 1}
            /\ RowsSum(RowsTo(m, n + 1)) = RowsSum(RowsTo(m, n)) + Row.qty
        BY <2>2, <2>3, <2>11, RowsGrow
      <3>3. PICK b \in BatchRecord :
               /\ batches' = batches \cup {b} /\ b.id = <<3, runs, script.at>>
               /\ b.material = m /\ b.origin = "INVENTORY" /\ b.left = Row.qty
        BY <1>9, <2>11, RowBatch
      <3>4. SnapshotOf(m)' = SnapshotOf(m) \cup {b}  BY <3>3 DEF SnapshotOf, Snapshot
      <3>5. b \notin SnapshotOf(m)
        <4>1. ASSUME b \in SnapshotOf(m)  PROVE FALSE
          <5>1. b \in batches /\ b.origin = "INVENTORY"  BY <4>1 DEF SnapshotOf, Snapshot
          <5>2. b.id[2] = runs /\ b.id[3] = script.at  BY <3>3
          <5>3. script.at \in 1..StockedTo  BY <5>1, <5>2, ImportCalm DEF IdsTold
          <5>4. StockedTo \in Nat /\ StockedTo + 1 = script.at  BY <2>2, <2>10
          <5> QED  BY <5>3, <5>4
        <4> QED  BY <4>1
      <3>6. b.left \in Nat  BY <2>1, <3>3
      <3>7. LeftIn(SnapshotOf(m) \cup {b}) = LeftIn(SnapshotOf(m)) + b.left
        BY <3>5, <3>6, SnapshotIs, LeftInGrows
      <3>8. LeftIn(SnapshotOf(m)') = script'.held.sum[m]
        BY <1>4, <2>6, <3>1, <3>3, <3>4, <3>7
      <3> QED  BY <1>4, <2>2, <2>8, <2>10, <2>11, <3>1, <3>2, <3>8
    <2>12. CASE Row.item = m /\ m \notin known
      <3>1. script'.held = script.held /\ batches' = batches
        BY <1>9, <2>1, <2>5, <2>12, RowBatch
      <3>2. SnapshotOf(m)' = SnapshotOf(m)  BY <3>1 DEF SnapshotOf, Snapshot
      <3> QED  BY <1>4, <2>6, <2>8, <2>12, <3>1, <3>2
    <2>13. CASE Row.item # m
      <3>1. /\ script'.held.sum[m] = script.held.sum[m]
            /\ m \in script'.held.found <=> m \in script.held.found
        BY <2>1, <2>5, <2>9, <2>13
      <3>2. RowsTo(m, n + 1) = RowsTo(m, n)  BY <2>2, <2>3, <2>13, RowsGrow
      <3>3. SnapshotOf(m)' = SnapshotOf(m)
        <4>1. CASE Row.item \in known
          <5>1. PICK b : batches' = batches \cup {b} /\ b.material = Row.item
            BY <1>9, <4>1, RowBatch
          <5> QED  BY <2>13, <5>1 DEF SnapshotOf, Snapshot
        <4>2. CASE Row.item \notin known
          <5>1. batches' = batches  BY <1>9, <4>2, RowBatch
          <5> QED  BY <5>1 DEF SnapshotOf, Snapshot
        <4> QED  BY <4>1, <4>2
      <3> QED  BY <1>4, <2>2, <2>6, <2>8, <2>10, <3>1, <3>2, <3>3
    <2> QED  BY <2>11, <2>12, <2>13
  <1>10. CASE QtyWritten
    <2>1. script.step = "setQty" /\ script.todo = {} /\ script'.held = script.held
      BY <1>10, ImportGoes
    <2>2. ~WriteStock /\ ~DeleteSnapshot /\ stockQty' = stockQty
      BY <1>10, <2>1 DEF QtyWritten, WriteStock, DeleteSnapshot, base
    <2>3. ~ToWrite("setQty", m)  BY <2>1 DEF ToWrite
    <2> QED  BY <1>4, <1>5, <2>1, <2>2, <2>3
  <1>11. ASSUME NEW k \in Materials, WriteQty(k)
         PROVE  /\ script'.held.sum[m] = IF m \in known THEN RowsSum(RowsTo(m, StockedTo')) ELSE 0
                /\ m \in script'.held.found <=> m \in known /\ RowsTo(m, StockedTo') # {}
                /\ SnapshotMade' => LeftIn(SnapshotOf(m)') = script'.held.sum[m]
                /\ m \in script'.held.found /\ script'.step \in {"setQty", "ended"} =>
                      ToWrite("setQty", m)' \/ stockQty'[m] = script'.held.sum[m]
    <2>1. /\ script.step = "setQty" /\ script'.step = "setQty" /\ script'.held = script.held
          /\ script'.todo = script.todo \ {k}
      BY <1>11, ImportGoes
    <2>2. ~WriteStock /\ ~DeleteSnapshot  BY <2>1 DEF WriteStock, DeleteSnapshot
    <2>3. stockQty' = [stockQty EXCEPT ![k] = script.held.sum[k]] /\ stockQty \in [Materials -> Int]
      BY <1>11 DEF WriteQty, SetQty, TypeOK
    <2>4. m = k => stockQty'[m] = script'.held.sum[m]  BY <2>1, <2>3
    <2>5. m # k => /\ stockQty'[m] = stockQty[m]
                   /\ ToWrite("setQty", m) => ToWrite("setQty", m)'
      BY <2>1, <2>3 DEF ToWrite
    <2> QED  BY <1>4, <1>5, <2>1, <2>2, <2>4, <2>5
  <1> QED  BY <1>6, <1>7, <1>8, <1>9, <1>10, <1>11 DEF ImportStep
----------------------------------------------------------------------------
(* The judgement of prices                                                 *)

\* A mistake is on the same side of any two prices that agree.
LEMMA SameSide ==
  ASSUME NEW p \in Nat \ {0}, NEW q \in Nat \ {0}, NEW r \in Nat \ {0}, Agree(p, q),
         Beyond(p, r) \/ Beyond(r, p), Beyond(q, r) \/ Beyond(r, q)
  PROVE  \/ Beyond(p, r) /\ Beyond(q, r)
         \/ Beyond(r, p) /\ Beyond(r, q)
  <1> DEFINE t == Threshold
             c == 100 * t + 1
  <1>1. t \in Nat \ {0} /\ c \in Nat /\ c > 100  BY SupplyAssumption
  <1>2. ASSUME NEW x \in Nat \ {0}, NEW y \in Nat \ {0}, x <= t * y, 100 * x > c * r,
               100 * r > c * y
        PROVE  FALSE
    <2>1. c * y >= 100 * y
      <3> HIDE DEF c
      <3> QED  BY <1>1
    <2>2. c * y \in Int /\ c * r \in Int
      <3> HIDE DEF c
      <3> QED  BY <1>1
    <2>3. r > y
      <3> HIDE DEF c
      <3> QED  BY <1>2, <2>1, <2>2
    <2>4. c * r >= c * y
      <3> HIDE DEF c
      <3> QED  BY <1>1, <2>3
    <2>5. c * y = 100 * (t * y) + y
      <3> HIDE DEF t
      <3> QED  BY <1>1
    <2>6. t * y \in Int
      <3> HIDE DEF t
      <3> QED  BY <1>1
    <2>7. 100 * x <= 100 * (t * y)
      <3> HIDE DEF t, c
      <3> QED  BY <1>2, <2>6
    <2> HIDE DEF t, c
    <2> QED  BY <1>2, <2>2, <2>4, <2>5, <2>6, <2>7
  <1>3. ~(Beyond(p, r) /\ Beyond(r, q))  BY <1>2 DEF Agree, Beyond
  <1>4. ~(Beyond(q, r) /\ Beyond(r, p))  BY <1>2 DEF Agree, Beyond
  <1> QED  BY <1>3, <1>4

\* The lines that give batches of a material, and the first of them.
LEMMA PricedIs ==
  ASSUME TypeOK, NEW m
  PROVE  /\ Priced(m) \subseteq 1..Len(export.lines) /\ Sound(m) \subseteq Priced(m)
         /\ \A i \in Priced(m) : export.lines[i].price \in Nat \ {0}
         /\ Priced(m) # {} =>
              Min(Priced(m)) \in Sound(m) /\ \A i \in Priced(m) : Min(Priced(m)) <= i
  <1>1. Priced(m) \subseteq 1..Len(export.lines)  BY LinesHold DEF Priced
  <1>2. \A i \in Priced(m) : export.lines[i].price \in Nat \ {0}
    BY <1>1, LinesHold DEF Priced, GivesBatch
  <1>3. ASSUME Priced(m) # {}
        PROVE  Min(Priced(m)) \in Priced(m) /\ \A i \in Priced(m) : Min(Priced(m)) <= i
    <2> DEFINE S == Priced(m)
    <2>1. S \in SUBSET Nat /\ S # {}  BY <1>1, <1>3, LinesHold
    <2> HIDE DEF S
    <2>2. \E x \in S : \A y \in S : x <= y  BY <2>1, LeastExists
    <2>3. Min(S) \in S /\ \A i \in S : Min(S) <= i  BY <2>2 DEF Min
    <2> QED  BY <2>3 DEF S
  <1>4. \A p \in Nat \ {0} : Agree(p, p)
    <2>1. SUFFICES ASSUME NEW p \in Nat \ {0}  PROVE p <= Threshold * p
      BY DEF Agree
    <2> DEFINE t == Threshold
    <2>2. t \in Nat \ {0}  BY SupplyAssumption
    <2> HIDE DEF t
    <2>3. p <= t * p  BY <2>2
    <2> QED  BY <2>3 DEF t
  <1>5. Sound(m) \subseteq Priced(m)  BY DEF Sound
  <1>6. Priced(m) # {} => Min(Priced(m)) \in Sound(m)  BY <1>2, <1>3, <1>4 DEF Sound
  <1> QED  BY <1>1, <1>2, <1>3, <1>5, <1>6

\* Judged by sound prices, just the mistakes are suspicious.
LEMMA Judgement ==
  ASSUME TypeOK, NEW m, MistakesStandOut(m), NEW j \in Priced(m), NEW H \in Seq(Nat),
         \A k \in DOMAIN H : \E i \in Sound(m) : H[k] = export.lines[i].price,
         j \notin Sound(m) => H # <<>>
  PROVE  IsPriceAnomaly(export.lines[j].price, H, Threshold) <=> j \notin Sound(m)
  <1> DEFINE r == export.lines[j].price
             t == Threshold
             mid == TwiceMedian(H)
  <1>1. r \in Nat \ {0} /\ t \in Nat \ {0}  BY PricedIs, SupplyAssumption
  <1>2. /\ IsFiniteSet(DOMAIN H) /\ \A k \in DOMAIN H : H[k] \in Nat \ {0}
        /\ H # <<>> => DOMAIN H # {}
    <2>1. DOMAIN H = 1..Len(H) /\ Len(H) \in Nat  OBVIOUS
    <2>2. IsFiniteSet(1..Len(H))  BY <2>1, FS_Interval
    <2>3. H # <<>> => 1 \in DOMAIN H  BY <2>1
    <2>4. \A i \in Sound(m) : export.lines[i].price \in Nat \ {0}  BY PricedIs
    <2> QED  BY <2>1, <2>2, <2>3, <2>4
  <1>3. CASE DOMAIN H = {}
    <2>1. TwiceMedian(H) = 0  BY <1>2, <1>3, MedianOfTwo
    <2>2. AnomalyFactor(r, H) = 0  BY <2>1 DEF AnomalyFactor
    <2>3. ~IsPriceAnomaly(r, H, t)
      <3> HIDE DEF r, t
      <3> QED  BY <1>1, <2>2 DEF IsPriceAnomaly
    <2> QED  BY <1>2, <1>3, <2>3
  <1>4. CASE DOMAIN H # {}
    <2>1. PICK k, l \in DOMAIN H : TwiceMedian(H) = H[k] + H[l]  BY <1>2, <1>4, MedianOfTwo
    <2>2. PICK a \in Sound(m) : H[k] = export.lines[a].price  OBVIOUS
    <2>3. PICK b \in Sound(m) : H[l] = export.lines[b].price  OBVIOUS
    <2> DEFINE p == H[k]
               q == H[l]
    <2>4. p \in Nat \ {0} /\ q \in Nat \ {0} /\ mid = p + q /\ Agree(p, q)
      BY <1>2, <2>1, <2>2, <2>3 DEF MistakesStandOut
    <2>5. mid \in Nat \ {0}
      <3> HIDE DEF p, q, mid
      <3> QED  BY <2>4
    <2>6. CASE j \in Sound(m)
      <3>1. Agree(r, p) /\ Agree(r, q)  BY <2>2, <2>3, <2>6 DEF MistakesStandOut
      <3>2. r <= t * p /\ p <= t * r /\ r <= t * q /\ q <= t * r  BY <3>1 DEF Agree
      <3> HIDE DEF p, q, r, t, mid
      <3>3. t * mid = t * p + t * q /\ t * (2 * r) = 2 * (t * r)
            /\ t * p \in Int /\ t * q \in Int /\ t * r \in Int
        BY <1>1, <2>4
      <3>4. 2 * r <= t * mid /\ mid <= t * (2 * r)  BY <1>1, <2>4, <3>2, <3>3
      <3>5. ~IsPriceAnomaly(r, H, t)  BY <1>1, <2>5, <3>4, NearIsFine DEF mid
      <3> QED  BY <2>6, <3>5 DEF r, t
    <2>7. CASE j \notin Sound(m)
      <3>1. /\ Beyond(p, r) \/ Beyond(r, p)
            /\ Beyond(q, r) \/ Beyond(r, q)
        BY <2>2, <2>3, <2>7 DEF MistakesStandOut
      <3>2. \/ Beyond(p, r) /\ Beyond(q, r)
            \/ Beyond(r, p) /\ Beyond(r, q)
        <4> HIDE DEF p, q, r
        <4> QED  BY <1>1, <2>4, <3>1, SameSide
      <3> DEFINE c == 100 * t + 1
      <3>3. \/ 100 * p > c * r /\ 100 * q > c * r
            \/ 100 * r > c * p /\ 100 * r > c * q
        BY <3>2 DEF Beyond
      <3>4. c \in Nat
        <4> HIDE DEF t
        <4> QED  BY <1>1
      <3> HIDE DEF p, q, r, c, mid
      <3>5. /\ c * mid = c * p + c * q /\ c * (2 * r) = 2 * (c * r)
            /\ c * p \in Int /\ c * q \in Int /\ c * r \in Int
        BY <1>1, <2>4, <3>4
      <3>6. 200 * r > c * mid \/ 100 * mid > c * (2 * r)
        <4> DEFINE x == c * p
                   y == c * q
                   z == c * r
        <4>1. /\ p \in Nat /\ q \in Nat /\ r \in Nat /\ x \in Int /\ y \in Int /\ z \in Int
              /\ c * mid = x + y /\ c * (2 * r) = 2 * z /\ mid = p + q
          BY <1>1, <2>4, <3>5
        <4>2. (100 * p > z /\ 100 * q > z) \/ (100 * r > x /\ 100 * r > y)  BY <3>3
        <4> HIDE DEF x, y, z
        <4>3. 200 * r > x + y \/ 100 * (p + q) > 2 * z  BY <4>1, <4>2
        <4> QED  BY <4>1, <4>3
      <3>7. 200 * r > (100 * t + 1) * mid \/ 100 * mid > (100 * t + 1) * (2 * r)
        BY <3>6 DEF c
      <3> HIDE DEF t
      <3>8. IsPriceAnomaly(r, H, t)  BY <1>1, <2>5, <3>7, FarIsAnomaly DEF mid
      <3> QED  BY <2>7, <3>8 DEF r, t
    <2> QED  BY <2>6, <2>7
  <1> QED  BY <1>3, <1>4

\* What the lines of a material say does not change under the import.
LEMMA LinesKeep ==
  ASSUME TypeOK, ImportShape, DocsWritten, ImportStep, Calm', NEW m
  PROVE  /\ Priced(m)' = Priced(m) /\ Sound(m)' = Sound(m)
         /\ MistakesStandOut(m)' = MistakesStandOut(m)
  <1>1. export' = export /\ known' = known  BY ImportCalm
  <1>2. Priced(m)' = Priced(m)  BY <1>1 DEF Priced, GivesBatch
  <1>3. Sound(m)' = Sound(m)  BY <1>1, <1>2 DEF Sound
  <1> QED  BY <1>1, <1>2, <1>3 DEF MistakesStandOut

LEMMA ImportJudgedWell ==
  ASSUME TypeOK, ImportShape, DocsWritten, IdsTold, JudgedWell, ImportStep
  PROVE  JudgedWell'
  <1>1. SUFFICES ASSUME Calm', NEW m \in Materials, MistakesStandOut(m)
        PROVE  /\ \A k \in DOMAIN script'.held.healthy[m] : \E i \in Sound(m) :
                     i <= JudgedTo' /\ script'.held.healthy[m][k] = export.lines[i].price
               /\ (\E i \in Priced(m) : i <= JudgedTo') => script'.held.healthy[m] # <<>>
               /\ BatchesMade' => \A b \in Of(m)' :
                     b.doc \in InFile => (b.anomaly <=> b.id[3] \notin Sound(m))
    <2>1. SUFFICES ASSUME Calm'  PROVE JudgedWell'
      BY DEF JudgedWell
    <2>2. InFile' = InFile /\ export' = export  BY <2>1, ImportCalm
    <2> QED  BY <1>1, <2>1, <2>2, LinesKeep DEF JudgedWell
  <1>2. /\ Calm /\ export' = export /\ script.held \in Read
    BY <1>1, ImportCalm DEF ImportShape, Carried
  <1>3. /\ \A k \in DOMAIN script.held.healthy[m] : \E i \in Sound(m) :
              i <= JudgedTo /\ script.held.healthy[m][k] = export.lines[i].price
        /\ (\E i \in Priced(m) : i <= JudgedTo) => script.held.healthy[m] # <<>>
        /\ BatchesMade => \A b \in Of(m) :
              b.doc \in InFile => (b.anomaly <=> b.id[3] \notin Sound(m))
    BY <1>1, <1>2 DEF JudgedWell
  <1>4. JudgedTo \in Nat /\ JudgedTo' \in {JudgedTo, JudgedTo + 1}
    BY MovesBound, LinesHold, ImportMoves
  <1>5. Priced(m) \subseteq 1..Len(export.lines) /\ Sound(m) \subseteq Priced(m)
    BY PricedIs
  <1>6. CASE ~WriteBatch
    <2>1. script'.held.healthy = script.held.healthy
      <3>1. ASSUME NEW d \in Docs, ReadDoc(d)
            PROVE  script'.held.healthy = script.held.healthy
        <4> DEFINE n == docs[d].total
        <4>1. script'.held = [script.held EXCEPT !.total = n]  BY <3>1, ReadingGoes
        <4> HIDE DEF n
        <4> QED  BY <1>2, <4>1 DEF Read
      <3>2. ASSUME ReadSnapshot
            PROVE  script'.held.healthy = script.held.healthy
        <4> DEFINE ms == {b.material : b \in Snapshot}
        <4>1. script'.held = script.held \/ script'.held = [script.held EXCEPT !.old = ms]
          BY <3>2, ReadingGoes
        <4> HIDE DEF ms
        <4> QED  BY <1>2, <4>1 DEF Read
      <3>3. ASSUME WriteStock
            PROVE  script'.held.healthy = script.held.healthy
        <4>1. Row \in [item : Materials, day : Nat, qty : Nat, price : Nat]
          <5> DEFINE B == [item : Materials, day : Nat, qty : Nat, price : Nat]
          <5>1. export.stock \in Seq(B)  BY FileHolds
          <5>2. script.at \in 1..Len(export.stock) /\ Row = export.stock[script.at]
            BY <3>3, RowBatch
          <5> HIDE DEF B
          <5>3. export.stock[script.at] \in B  BY <5>1, <5>2
          <5> QED  BY <5>2, <5>3 DEF B
        <4>2. script'.held = Counted(script.held, Row)  BY <3>3, RowBatch
        <4> DEFINE row == Row
                   h == script.held
        <4>3. /\ h \in Read /\ script'.held = Counted(h, row)
              /\ row \in [item : Materials, day : Nat, qty : Nat, price : Nat]
          BY <1>2, <4>1, <4>2
        <4> HIDE DEF row, h
        <4>4. Counted(h, row).healthy = h.healthy  BY <4>3, CountedIs
        <4> QED  BY <4>3, <4>4 DEF h
      <3>4. CASE \/ \E d \in Docs : UpsertDoc(d)
                 \/ ClearLines \/ ClearBatches \/ WriteLine \/ WritePaid
        <4>1. script'.held = script.held  BY <3>4, ImportGoes DEF Goes
        <4> QED  BY <4>1
      <3>5. CASE \/ DeleteSnapshot \/ QtyWritten
                 \/ \E k \in Materials : WriteQty(k)
        <4>1. script'.held = script.held  BY <3>5, ImportGoes
        <4> QED  BY <4>1
      <3> QED  BY <1>6, <3>1, <3>2, <3>3, <3>4, <3>5 DEF ImportStep
    <2>2. ASSUME NEW i \in Priced(m), i <= JudgedTo'  PROVE i <= JudgedTo
      <3>1. i \in Nat  BY <1>5, LinesHold
      <3>2. CASE JudgedTo' = JudgedTo  BY <2>2, <3>2
      <3>3. CASE WriteLine /\ ~GivesBatch(Line) /\ JudgedTo' = JudgedTo + 1
        <4>1. JudgedTo + 1 = script.at  BY <1>6, <3>3, ImportMoves
        <4>2. script.at \notin Priced(m)  BY <3>3 DEF Priced, Line
        <4> QED  BY <1>4, <2>2, <3>1, <3>3, <4>1, <4>2
      <3> QED  BY <1>6, <3>2, <3>3, ImportMoves
    <2>3. ASSUME BatchesMade', NEW b \in Of(m)', b.doc \in InFile
          PROVE  b.anomaly <=> b.id[3] \notin Sound(m)
      <3>1. b \in batches' /\ b.material = m  BY <2>3 DEF Of
      <3> DEFINE d == b.doc
      <3>2. b \in BatchesOf(d)'  BY <3>1 DEF BatchesOf
      <3>3. ~ClearBatches  BY <2>3, <3>2, DocBatches
      <3>4. b \in BatchesOf(d)  BY <1>6, <2>3, <3>2, <3>3, DocBatches
      <3>5. b \in Of(m)  BY <3>1, <3>4 DEF Of, BatchesOf
      <3>6. BatchesMade  BY <2>3, <3>3, ImportMoves
      <3> QED  BY <1>3, <2>3, <3>5, <3>6
    <2>4. ASSUME NEW k \in DOMAIN script'.held.healthy[m]
          PROVE  \E i \in Sound(m) :
                    i <= JudgedTo' /\ script'.held.healthy[m][k] = export.lines[i].price
      <3>1. PICK i \in Sound(m) :
               i <= JudgedTo /\ script.held.healthy[m][k] = export.lines[i].price
        BY <1>3, <2>1, <2>4
      <3>2. i <= JudgedTo'  BY <1>4, <1>5, <3>1, LinesHold
      <3> QED  BY <2>1, <3>1, <3>2
    <2> QED  BY <1>3, <2>1, <2>2, <2>3, <2>4
  <1>7. CASE WriteBatch
    <2> DEFINE j == script.at
               k == Line.item
               price == Line.price
               H == script.held.healthy[k]
               anomaly == IsPriceAnomaly(price, H, Threshold)
    <2>1. /\ j \in 1..Len(export.lines) /\ GivesBatch(Line) /\ Line = export.lines[j]
          /\ k \in Materials /\ price \in Nat \ {0} /\ Line.doc \in InFile
      BY <1>7, LineBatch
    <2>2. JudgedTo + 1 = j /\ JudgedTo' = j
      BY <1>4, <1>7, ImportMoves DEF WriteLine, WriteBatch
    <2>3. PICK n \in BatchRecord :
             /\ batches' = batches \cup {n} /\ n.id = <<2, runs, j>> /\ n.material = k
             /\ n.anomaly = anomaly
      BY <1>7, LineBatch
    <2>4. BatchesMade /\ n.id[3] = j
      <3>1. script.step = "batch"  BY <1>7, LineBatch
      <3> QED  BY <2>3, <3>1 DEF BatchesMade
    <2>5. script'.held = Heard(script.held, k, price, anomaly)
      BY <1>7, ReadingGoes
    <2>6. anomaly \in BOOLEAN /\ H \in Seq(Nat)  BY <1>2, <2>1 DEF IsPriceAnomaly, Read
    <2>7. \A x \in Materials : script'.held.healthy[x]
             = IF x = k THEN Judged(H, price, anomaly) ELSE script.held.healthy[x]
      <3> HIDE DEF k, price, anomaly
      <3>1. k \in Materials /\ price \in Nat  BY <2>1 DEF price
      <3> QED  BY <1>2, <2>5, <2>6, <3>1, HeardIs
    <2>8. CASE m # k
      <3>1. script'.held.healthy[m] = script.held.healthy[m]  BY <2>7, <2>8
      <3>2. Of(m)' = Of(m)  BY <2>3, <2>8 DEF Of
      <3>3. j \notin Priced(m)  BY <2>1, <2>8 DEF Priced
      <3>4. ASSUME NEW i \in Priced(m), i <= JudgedTo'  PROVE i <= JudgedTo
        BY <1>4, <1>5, <2>2, <3>3, <3>4
      <3>5. ASSUME NEW i \in Sound(m), i <= JudgedTo  PROVE i <= JudgedTo'
        BY <1>4, <1>5, <2>2, <3>5
      <3> QED  BY <1>3, <2>4, <3>1, <3>2, <3>4, <3>5
    <2>9. CASE m = k
      <3>1. j \in Priced(m)  BY <2>1, <2>9, LinesHold DEF Priced
      <3>2. \A x \in DOMAIN H : \E i \in Sound(m) : H[x] = export.lines[i].price
        BY <1>3, <2>9
      <3>3. ASSUME j \notin Sound(m)  PROVE H # <<>>
        <4> DEFINE i == Min(Priced(m))
        <4>1. i \in Sound(m) /\ i <= j /\ i \in Priced(m)  BY <3>1, PricedIs
        <4>2. i # j  BY <3>3, <4>1
        <4> HIDE DEF i
        <4>3. i <= JudgedTo  BY <1>4, <1>5, <2>2, <4>1, <4>2
        <4> QED  BY <1>3, <2>9, <4>1, <4>3
      <3>4. anomaly <=> j \notin Sound(m)
        <4> HIDE DEF H
        <4>1. IsPriceAnomaly(export.lines[j].price, H, Threshold) <=> j \notin Sound(m)
          BY <1>1, <2>6, <3>1, <3>2, <3>3, Judgement
        <4> QED  BY <2>1, <4>1
      <3>5. script'.held.healthy[m] = Judged(H, price, anomaly)  BY <2>7, <2>9
      <3> DEFINE G == script'.held.healthy[m]
      <3>6. CASE j \in Sound(m)
        <4>1. G = Append(H, price)  BY <3>4, <3>5, <3>6 DEF Judged
        <4> HIDE DEF G, H, j, price
        <4>2. /\ G # <<>>
              /\ \A x \in DOMAIN G : (x \in DOMAIN H /\ G[x] = H[x]) \/ G[x] = price
          <5>1. price \in Nat  BY <2>1 DEF price
          <5> QED  BY <2>6, <4>1, <5>1
        <4>3. ASSUME NEW x \in DOMAIN G
              PROVE  \E i \in Sound(m) : i <= JudgedTo' /\ G[x] = export.lines[i].price
          <5>1. CASE G[x] = price
            <6>1. price = export.lines[j].price  BY <2>1 DEF price, j
            <6>2. j <= JudgedTo'  BY <1>4, <2>2
            <6> QED  BY <3>6, <5>1, <6>1, <6>2
          <5>2. CASE x \in DOMAIN H /\ G[x] = H[x]
            <6>1. PICK i \in Sound(m) : i <= JudgedTo /\ H[x] = export.lines[i].price
              BY <1>3, <2>9, <5>2 DEF H
            <6>2. i <= JudgedTo'  BY <1>4, <1>5, <2>2, <6>1
            <6> QED  BY <5>2, <6>1, <6>2
          <5> QED  BY <4>2, <5>1, <5>2
        <4>4. ASSUME NEW b \in Of(m)', b.doc \in InFile
              PROVE  b.anomaly <=> b.id[3] \notin Sound(m)
          <5>1. CASE b = n  BY <2>3, <2>4, <3>4, <5>1
          <5>2. CASE b # n
            <6>1. b \in Of(m)  BY <2>3, <4>4, <5>2 DEF Of
            <6> QED  BY <1>3, <2>4, <4>4, <6>1
          <5> QED  BY <5>1, <5>2
        <4> QED  BY <4>2, <4>3, <4>4 DEF G
      <3>7. CASE j \notin Sound(m)
        <4>1. G = H /\ H # <<>>  BY <3>3, <3>4, <3>5, <3>7 DEF Judged
        <4>2. G = script.held.healthy[m]  BY <2>9, <4>1
        <4>3. ASSUME NEW i \in Sound(m), i <= JudgedTo  PROVE i <= JudgedTo'
          BY <1>4, <1>5, <2>2, <4>3
        <4>4. ASSUME NEW b \in Of(m)', b.doc \in InFile
              PROVE  b.anomaly <=> b.id[3] \notin Sound(m)
          <5>1. CASE b = n  BY <2>3, <2>4, <3>4, <5>1
          <5>2. CASE b # n
            <6>1. b \in Of(m)  BY <2>3, <4>4, <5>2 DEF Of
            <6> QED  BY <1>3, <2>4, <4>4, <6>1
          <5> QED  BY <5>1, <5>2
        <4> QED  BY <1>3, <4>1, <4>2, <4>3, <4>4
      <3> QED  BY <3>6, <3>7
    <2> QED  BY <2>8, <2>9
  <1> QED  BY <1>6, <1>7

(***************************************************************************)
(* The invariant.                                                          *)
(***************************************************************************)
\* Nothing is said of an import while someone else writes or no import runs, and
\* nothing but of its beginning when it has just begun.
LEMMA Disturbed ==
  ASSUME ~Calm'
  PROVE  BatchesAsInFile' /\ PaidAsInFile' /\ SnapshotAsInFile' /\ JudgedWell'
  BY DEF BatchesAsInFile, PaidAsInFile, SnapshotAsInFile, JudgedWell

LEMMA JustBegun ==
  ASSUME TypeOK, Shaped, IdsTold, StartImport \/ StartQuarantine
  PROVE  BatchesAsInFile' /\ PaidAsInFile' /\ SnapshotAsInFile' /\ JudgedWell'
  <1>1. SUFFICES ASSUME Importing'
        PROVE  BatchesAsInFile' /\ PaidAsInFile' /\ SnapshotAsInFile' /\ JudgedWell'
    BY Disturbed DEF Calm
  <1>2. /\ script'.step = "docs" /\ script'.held.found = {}
        /\ \A m \in Materials : script'.held.healthy[m] = <<>> /\ script'.held.sum[m] = 0
    BY <1>1, StartSteps
  <1>3. ~BatchesMade' /\ ~SnapshotMade' /\ JudgedTo' = 0 /\ StockedTo' = 0
    BY <1>2 DEF BatchesMade, SnapshotMade, JudgedTo, StockedTo
  <1>4. export' = export /\ known' = known
    BY DEF StartImport, StartQuarantine, Start, base
  <1>5. BatchesAsInFile' /\ PaidAsInFile'  BY <1>2, <1>3 DEF BatchesAsInFile, PaidAsInFile
  <1>6. SnapshotAsInFile'
    <2>1. \A m \in Materials : RowsTo(m, 0)' = {} /\ RowsSum({})' = 0
      <3>1. \A m \in Materials : RowsTo(m, 0) = {} /\ RowsSum({}) = 0
        BY LinesHold, RowsGrow
      <3>2. \A m \in Materials : RowsTo(m, 0)' = RowsTo(m, 0)  BY <1>4 DEF RowsTo, StockRows
      <3>3. RowsSum({})' = RowsSum({})  BY <1>4 DEF RowsSum
      <3> QED  BY <3>1, <3>2, <3>3
    <2>2. \A m \in Materials : RowsTo(m, StockedTo)' = {} /\ RowsSum(RowsTo(m, StockedTo))' = 0
      BY <1>3, <2>1
    <2> QED  BY <1>2, <1>3, <2>2 DEF SnapshotAsInFile
  <1>7. JudgedWell'
    <2>1. ASSUME NEW m \in Materials, NEW i \in Priced(m)'  PROVE ~(i <= JudgedTo')
      <3>1. Priced(m)' = Priced(m)  BY <1>4 DEF Priced, GivesBatch
      <3>2. i \in 1..Len(export.lines)  BY <2>1, <3>1, PricedIs
      <3> QED  BY <1>3, <3>2
    <2> QED  BY <1>2, <1>3, <2>1 DEF JudgedWell
  <1> QED  BY <1>5, <1>6, <1>7

\* What is there when an import ends that nobody disturbed.
LEMMA SnapshotAtEnd ==
  ASSUME TypeOK, ImportShape, SnapshotAsInFile, Calm, script.step = "ended"
  PROVE  \A m \in known : StockRows(m) # {} =>
            /\ stockQty[m] = StockOf(m)
            /\ LeftIn({b \in Snapshot : b.material = m}) = StockOf(m)
  <1> SUFFICES ASSUME NEW m \in known, StockRows(m) # {}
      PROVE  /\ stockQty[m] = StockOf(m)
             /\ LeftIn({b \in Snapshot : b.material = m}) = StockOf(m)
    OBVIOUS
  <1>1. m \in Materials /\ export.stock # <<>>  BY LinesHold DEF TypeOK, StockRows
  <1>2. StockedTo = Len(export.stock) /\ SnapshotMade  BY <1>1 DEF StockedTo, SnapshotMade
  <1>3. RowsTo(m, StockedTo) = StockRows(m)  BY <1>1, <1>2, LinesHold, RowsGrow
  <1>4. script.held.sum[m] = StockOf(m) /\ m \in script.held.found
    BY <1>1, <1>3 DEF SnapshotAsInFile, StockOf
  <1>5. LeftIn({b \in Snapshot : b.material = m}) = script.held.sum[m]
    BY <1>1, <1>2 DEF SnapshotAsInFile
  <1>6. stockQty[m] = script.held.sum[m]
    BY <1>1, <1>4 DEF SnapshotAsInFile, ToWrite
  <1> QED  BY <1>4, <1>5, <1>6

LEMMA DocumentsAtEnd ==
  ASSUME TypeOK, ImportShape, IdsTold, DocsWritten, OldRemoved, BatchesAsInFile, PaidAsInFile, Calm,
         script.step = "ended"
  PROVE  \A d \in InFile :
            /\ docs[d].total = export.total[d]
            /\ docs[d].lines = Cardinality(LinesOf(d))
            /\ {b.id[3] : b \in BatchesOf(d)}
                  = {i \in LinesOf(d) : GivesBatch(export.lines[i])}
            /\ \A b, c \in BatchesOf(d) : b.id[3] = c.id[3] => b = c
            /\ d \in DOMAIN export.paid =>
                 /\ docs[d].paid = export.paid[d]
                 /\ docs[d].unpaid = AtLeastZero(docs[d].total - docs[d].paid)
                 /\ docs[d].status = StatusOf(docs[d].total, docs[d].paid)
  <1>1. Importing  BY DEF Calm
  <1>2. Written = Len(export.lines) /\ JudgedTo = Len(export.lines) /\ BatchesMade
    BY DEF Written, JudgedTo, BatchesMade
  <1> SUFFICES ASSUME NEW d \in InFile
      PROVE  /\ docs[d].total = export.total[d]
             /\ docs[d].lines = Cardinality(LinesOf(d))
             /\ {b.id[3] : b \in BatchesOf(d)}
                   = {i \in LinesOf(d) : GivesBatch(export.lines[i])}
             /\ \A b, c \in BatchesOf(d) : b.id[3] = c.id[3] => b = c
             /\ d \in DOMAIN export.paid =>
                  /\ docs[d].paid = export.paid[d]
                  /\ docs[d].unpaid = AtLeastZero(docs[d].total - docs[d].paid)
                  /\ docs[d].status = StatusOf(docs[d].total, docs[d].paid)
    OBVIOUS
  <1>3. LinesTo(d, Len(export.lines)) = LinesOf(d)  BY LinesHold DEF LinesTo, LinesOf
  <1>4. docs[d].total = export.total[d] /\ docs[d].lines = Cardinality(LinesOf(d))
    BY <1>1, <1>2, <1>3 DEF DocsWritten, ToWrite
  <1>5. {b.id[3] : b \in BatchesOf(d)} = {i \in LinesOf(d) : GivesBatch(export.lines[i])}
    BY <1>2, <1>3 DEF BatchesAsInFile
  <1>6. ASSUME NEW b \in BatchesOf(d)
        PROVE  b \in batches /\ b.id = <<2, runs, b.id[3]>>
    <2>1. b \in batches /\ b.doc = d  BY DEF BatchesOf
    <2>2. b.id[2] = runs  BY <1>1, <1>2, <2>1 DEF OldRemoved
    <2>3. Nothing # d  BY FileHolds
    <2>4. b.id[1] = 2  BY <1>1, <2>1, <2>3, BatchHolds DEF IdsTold, Marked
    <2>5. b.id \in Ids  BY <2>1, BatchHolds
    <2> QED  BY <2>1, <2>2, <2>4, <2>5 DEF Ids
  <1>7. \A b, c \in BatchesOf(d) : b.id[3] = c.id[3] => b = c
    <2>1. SUFFICES ASSUME NEW b \in BatchesOf(d), NEW c \in BatchesOf(d), b.id[3] = c.id[3]
          PROVE  b = c
      OBVIOUS
    <2>2. b.id = c.id  BY <1>6, <2>1
    <2> QED  BY <1>6, <2>2 DEF IdsTold, OneById
  <1>8. d \in DOMAIN export.paid =>
          /\ docs[d].paid = export.paid[d]
          /\ docs[d].unpaid = AtLeastZero(docs[d].total - docs[d].paid)
          /\ docs[d].status = StatusOf(docs[d].total, docs[d].paid)
    BY DEF PaidAsInFile, ToWrite
  <1> QED  BY <1>4, <1>5, <1>7, <1>8

\* The import ends, and with it what is said of it stands.
LEMMA FinishedWell ==
  ASSUME SupplyInv, Finished
  PROVE  AfterEnd'
  <1>1. script # Idle /\ TypeOK'  BY RestSteps DEF SupplyInv, Finished, Idle
  <1>2. /\ script' = Idle /\ done = Nothing /\ UNCHANGED <<export, base, runs, acts>>
        /\ done' = IF script.name = "import" /\ script.held.acts = acts THEN export ELSE done
    BY <1>1 DEF SupplyInv, AfterEnd, Finished
  <1>3. SUFFICES ASSUME Calm, done' = export
        PROVE  SnapshotIsFile' /\ DocumentsAsInFile' /\ OneMistakeOnly'
    <2>1. CASE done' = Nothing  BY <2>1 DEF AfterEnd
    <2>2. CASE Calm /\ done' = export  BY <1>2, <1>3, <2>2 DEF AfterEnd
    <2> QED  BY <1>2, <2>1, <2>2 DEF Calm, Importing
  <1>4. ImportShape /\ script.step = "ended"
    BY <1>2, <1>3 DEF SupplyInv, Shaped, QuarantineShape, Calm, Importing, Finished, Idle
  <1>5. UNCHANGED <<export, docs, batches, stockQty, known>>  BY <1>2 DEF base
  <1>6. SnapshotIsFile'
    <2>1. \A m \in known : StockRows(m) # {} =>
            /\ stockQty[m] = StockOf(m)
            /\ LeftIn({b \in Snapshot : b.material = m}) = StockOf(m)
      BY <1>3, <1>4, SnapshotAtEnd DEF SupplyInv
    <2>2. /\ \A m : StockRows(m)' = StockRows(m) /\ StockOf(m)' = StockOf(m)
          /\ Snapshot' = Snapshot
      BY <1>5 DEF StockRows, StockOf, RowsSum, Snapshot
    <2> QED  BY <1>1, <1>5, <2>1, <2>2 DEF SnapshotIsFile
  <1>7. DocumentsAsInFile'
    <2>1. /\ InFile' = InFile /\ \A d : LinesOf(d)' = LinesOf(d) /\ BatchesOf(d)' = BatchesOf(d)
          /\ \A l : GivesBatch(l)' = GivesBatch(l)
      BY <1>5 DEF InFile, LinesOf, BatchesOf, GivesBatch
    <2>2. \A d \in InFile :
            /\ docs[d].total = export.total[d]
            /\ docs[d].lines = Cardinality(LinesOf(d))
            /\ {b.id[3] : b \in BatchesOf(d)}
                  = {i \in LinesOf(d) : GivesBatch(export.lines[i])}
            /\ \A b, c \in BatchesOf(d) : b.id[3] = c.id[3] => b = c
            /\ d \in DOMAIN export.paid =>
                 /\ docs[d].paid = export.paid[d]
                 /\ docs[d].unpaid = AtLeastZero(docs[d].total - docs[d].paid)
                 /\ docs[d].status = StatusOf(docs[d].total, docs[d].paid)
      BY <1>3, <1>4, DocumentsAtEnd DEF SupplyInv
    <2> QED  BY <1>3, <1>5, <2>1, <2>2 DEF DocumentsAsInFile
  <1>8. OneMistakeOnly'
    <2>1. BatchesMade  BY <1>4 DEF BatchesMade
    <2>2. \A m \in Materials : MistakesStandOut(m) =>
            \A b \in Of(m) : b.doc \in InFile => (b.anomaly <=> b.id[3] \notin Sound(m))
      BY <1>3, <2>1 DEF SupplyInv, JudgedWell
    <2>3. /\ InFile' = InFile /\ \A m : Of(m)' = Of(m) /\ Priced(m)' = Priced(m)
      BY <1>5 DEF InFile, Of, Priced, GivesBatch
    <2>4. \A m : Sound(m)' = Sound(m)  BY <1>5, <2>3 DEF Sound
    <2>5. \A m : MistakesStandOut(m)' = MistakesStandOut(m)
      BY <1>5, <2>3, <2>4 DEF MistakesStandOut
    <2> QED  BY <2>2, <2>3, <2>4, <2>5 DEF OneMistakeOnly
  <1> QED  BY <1>6, <1>7, <1>8

LEMMA AtFirst ==
  ASSUME Init  PROVE SupplyInv
  <1>1. TypeOK
    <2>1. [d \in Docs |-> Nothing] \in [Docs -> Document \cup {Nothing}]  OBVIOUS
    <2>2. [m \in Materials |-> 0] \in [Materials -> Int]  OBVIOUS
    <2>3. IsFiniteSet({}) /\ 0 \in 0..MaxRuns /\ 0 \in 0..MaxActs
      BY FS_EmptySet, SupplyAssumption
    <2>4. known \subseteq Materials  BY SupplyAssumption DEF Init
    <2> QED  BY <2>1, <2>2, <2>3, <2>4 DEF Init, TypeOK, Idle
  <1>2. script = Idle /\ batches = {} /\ done = Nothing  BY DEF Init
  <1>3. ~Importing /\ ~Calm  BY <1>2 DEF Importing, Calm, Idle
  <1>4. Shaped /\ IdsTold /\ DocsWritten /\ OldRemoved
    BY <1>2, <1>3 DEF Shaped, IdsTold, OneById, DocsWritten, OldRemoved
  <1>5. BatchesAsInFile /\ PaidAsInFile /\ SnapshotAsInFile /\ JudgedWell /\ AfterEnd
    BY <1>2, <1>3 DEF BatchesAsInFile, PaidAsInFile, SnapshotAsInFile, JudgedWell, AfterEnd
  <1> QED  BY <1>1, <1>4, <1>5 DEF SupplyInv

\* Without a step, what is said still stands.
LEMMA Unmoved ==
  ASSUME SupplyInv, UNCHANGED vars  PROVE SupplyInv'
  <1>1. UNCHANGED <<export, docs, batches, stockQty, known, script, runs, acts, done>>
    BY DEF vars, base
  <1>2. /\ InFile' = InFile /\ Importing' = Importing /\ Calm' = Calm
        /\ Snapshot' = Snapshot /\ \A l : GivesBatch(l)' = GivesBatch(l)
        /\ \A m : StockRows(m)' = StockRows(m) /\ Of(m)' = Of(m)
        /\ \A d : LinesOf(d)' = LinesOf(d) /\ BatchesOf(d)' = BatchesOf(d)
        /\ \A d, n : LinesTo(d, n)' = LinesTo(d, n)
    BY <1>1 DEF InFile, Importing, Calm, Snapshot, GivesBatch, StockRows, Of, LinesOf, BatchesOf,
                LinesTo
  <1>3. /\ Written' = Written /\ JudgedTo' = JudgedTo /\ StockedTo' = StockedTo
        /\ BatchesMade' = BatchesMade /\ SnapshotMade' = SnapshotMade
    BY <1>1 DEF Written, JudgedTo, StockedTo, BatchesMade, SnapshotMade
  <1>4. /\ \A m : Priced(m)' = Priced(m)
        /\ \A rows : RowsSum(rows)' = RowsSum(rows)
        /\ \A m, n : RowsTo(m, n)' = RowsTo(m, n)
    BY <1>1, <1>2 DEF Priced, RowsSum, RowsTo
  <1>5. /\ \A m : Sound(m)' = Sound(m) /\ StockOf(m)' = StockOf(m)
    BY <1>1, <1>2, <1>4 DEF Sound, StockOf
  <1>6. \A m : MistakesStandOut(m)' = MistakesStandOut(m)
    BY <1>1, <1>4, <1>5 DEF MistakesStandOut
  <1>7. TypeOK'  BY <1>1 DEF SupplyInv, TypeOK
  <1>8. Shaped'
    BY <1>1, <1>2 DEF SupplyInv, Shaped, ImportShape, QuarantineShape, Line
  <1>9. IdsTold'
    BY <1>1, <1>2, <1>3 DEF SupplyInv, IdsTold, Marked, OneById
  <1>10. DocsWritten'
    BY <1>1, <1>2, <1>3 DEF SupplyInv, DocsWritten, ToWrite
  <1>11. OldRemoved'
    BY <1>1, <1>2, <1>3 DEF SupplyInv, OldRemoved
  <1>12. BatchesAsInFile' /\ PaidAsInFile'
    BY <1>1, <1>2, <1>3 DEF SupplyInv, BatchesAsInFile, PaidAsInFile, ToWrite
  <1>13. SnapshotAsInFile'
    <2>1. \A m \in Materials : RowsSum(RowsTo(m, StockedTo))' = RowsSum(RowsTo(m, StockedTo))
      BY <1>1, <1>3, <1>4
    <2> QED  BY <1>1, <1>2, <1>3, <1>4, <2>1 DEF SupplyInv, SnapshotAsInFile, ToWrite
  <1>14. JudgedWell'
    BY <1>1, <1>2, <1>3, <1>4, <1>5, <1>6 DEF SupplyInv, JudgedWell
  <1>15. AfterEnd'
    BY <1>1, <1>2, <1>4, <1>5, <1>6, <1>7 DEF SupplyInv, AfterEnd, SnapshotIsFile,
       DocumentsAsInFile, OneMistakeOnly
  <1> QED
    BY <1>7, <1>8, <1>9, <1>10, <1>11, <1>12, <1>13, <1>14, <1>15 DEF SupplyInv

\* A step of an import is taken by an import only.
LEMMA ImportRuns ==
  ASSUME SupplyInv, ImportStep  PROVE ImportShape
  <1>1. script.step \notin {"end", "flag"} /\ (script.step = "ended" => FALSE)
    BY DEF ImportStep, UpsertDoc, ReadDoc, ClearLines, ClearBatches, WriteLine, WriteBatch,
           WritePaid, ReadSnapshot, DeleteSnapshot, WriteStock, QtyWritten, WriteQty
  <1> QED  BY <1>1 DEF SupplyInv, Shaped, Idle, QuarantineShape

\* Every step keeps the invariant.
LEMMA SupplyMoves ==
  ASSUME SupplyInv, Next  PROVE SupplyInv'
  <1>0. /\ TypeOK /\ Shaped /\ IdsTold /\ DocsWritten /\ OldRemoved
        /\ BatchesAsInFile /\ PaidAsInFile /\ SnapshotAsInFile /\ JudgedWell
    BY DEF SupplyInv
  <1>1. CASE ServerStep
    <2>1. /\ TypeOK' /\ Shaped' /\ IdsTold' /\ DocsWritten' /\ OldRemoved'
          /\ acts' = acts + 1 /\ done' = Nothing /\ script' = script
      BY <1>0, <1>1, ServerSteps
    <2>2. ~Calm'
      <3>1. SUFFICES ASSUME Importing  PROVE script.held.acts # acts + 1
        BY <2>1 DEF Calm, Importing
      <3>2. ImportShape  BY <1>0, <3>1 DEF Shaped, QuarantineShape, Importing, Idle
      <3>3. script.held.acts <= acts /\ script.held.acts \in Nat /\ acts \in Nat
        BY <1>0, <3>2, SupplyAssumption DEF ImportShape, Carried, Read, TypeOK
      <3> QED  BY <3>3
    <2>3. AfterEnd'  BY <2>1 DEF AfterEnd
    <2> QED  BY <2>1, <2>2, <2>3, Disturbed DEF SupplyInv
  <1>2. CASE StartImport \/ StartQuarantine
    <2>1. /\ TypeOK' /\ Shaped' /\ IdsTold' /\ DocsWritten' /\ OldRemoved' /\ done' = Nothing
      BY <1>0, <1>2, StartSteps
    <2>2. BatchesAsInFile' /\ PaidAsInFile' /\ SnapshotAsInFile' /\ JudgedWell'
      BY <1>0, <1>2, JustBegun
    <2>3. AfterEnd'  BY <2>1 DEF AfterEnd
    <2> QED  BY <2>1, <2>2, <2>3 DEF SupplyInv
  <1>3. CASE NewExport \/ Crash \/ Finished
    <2>1. /\ TypeOK' /\ Shaped' /\ IdsTold' /\ DocsWritten' /\ OldRemoved' /\ ~Importing'
      BY <1>0, <1>3, RestSteps
    <2>2. BatchesAsInFile' /\ PaidAsInFile' /\ SnapshotAsInFile' /\ JudgedWell'
      BY <2>1, Disturbed DEF Calm
    <2>3. AfterEnd'
      <3>1. CASE NewExport \/ Crash
        <4>1. done' = Nothing  BY <3>1 DEF NewExport, Crash
        <4> QED  BY <4>1 DEF AfterEnd
      <3> QED  BY <1>3, <3>1, FinishedWell
    <2> QED  BY <2>1, <2>2, <2>3 DEF SupplyInv
  <1>4. CASE QuarantineStep
    <2>1. /\ TypeOK' /\ Shaped' /\ IdsTold' /\ DocsWritten' /\ OldRemoved' /\ ~Importing'
          /\ script # Idle /\ done' = done
      BY <1>0, <1>4, QuarantineSteps
    <2>2. BatchesAsInFile' /\ PaidAsInFile' /\ SnapshotAsInFile' /\ JudgedWell'
      BY <2>1, Disturbed DEF Calm
    <2>3. done' = Nothing  BY <2>1 DEF SupplyInv, AfterEnd
    <2>4. AfterEnd'  BY <2>3 DEF AfterEnd
    <2> QED  BY <2>1, <2>2, <2>4 DEF SupplyInv
  <1>5. CASE ImportStep
    <2>1. ImportShape  BY <1>5, ImportRuns
    <2>2. ImportShape' /\ done' = done  BY <1>0, <1>5, <2>1, ImportScripts
    <2>3. TypeOK'  BY <1>0, <1>5, <2>1, ImportTypes
    <2>4. IdsTold' /\ OldRemoved'  BY <1>0, <1>5, <2>1, ImportIds
    <2>5. DocsWritten'  BY <1>0, <1>5, <2>1, ImportDocs
    <2>6. BatchesAsInFile'  BY <1>0, <1>5, <2>1, ImportBatchesAsInFile
    <2>7. PaidAsInFile'  BY <1>0, <1>5, <2>1, ImportPaidAsInFile
    <2>8. SnapshotAsInFile'  BY <1>0, <1>5, <2>1, ImportSnapshotAsInFile
    <2>9. JudgedWell'  BY <1>0, <1>5, <2>1, ImportJudgedWell
    <2>10. AfterEnd'
      <3>1. script # Idle  BY <2>1 DEF ImportShape, Carried, Idle
      <3>2. done' = Nothing  BY <2>2, <3>1 DEF SupplyInv, AfterEnd
      <3> QED  BY <3>2 DEF AfterEnd
    <2>11. Shaped'  BY <2>2 DEF Shaped
    <2> QED
      BY <2>3, <2>4, <2>5, <2>6, <2>7, <2>8, <2>9, <2>10, <2>11 DEF SupplyInv
  <1> QED  BY <1>1, <1>2, <1>3, <1>4, <1>5 DEF Next

\* In every state of every run: the types, the shape of the scripts, and how far an
\* import has come with the documents, batches, payments and stock of its file.
THEOREM SupplyGoesOn == Spec => []SupplyInv
  <1>1. Init => SupplyInv  BY AtFirst
  <1>2. SupplyInv /\ [Next]_vars => SupplyInv'  BY SupplyMoves, Unmoved
  <1> QED  BY <1>1, <1>2, PTL DEF Spec

\* An import nobody disturbed leaves the stock of every recognised material as the
\* file has it, however many imports stopped before it.
THEOREM StockAsInFile == Spec => []SnapshotIsFile
  <1>1. SupplyInv => SnapshotIsFile  BY DEF SupplyInv, AfterEnd, SnapshotIsFile
  <1> QED  BY <1>1, SupplyGoesOn, PTL

\* It leaves the lines, batches and payments of every document of the file, once.
THEOREM DocumentsOnce == Spec => []DocumentsAsInFile
  <1>1. SupplyInv => DocumentsAsInFile  BY DEF SupplyInv, AfterEnd, DocumentsAsInFile
  <1> QED  BY <1>1, SupplyGoesOn, PTL

\* It puts in quarantine the mistakes of the file and no other price, for every file
\* whose mistakes stand out and wherever in it they stand.
THEOREM MistakesOnly == Spec => []OneMistakeOnly
  <1>1. SupplyInv => OneMistakeOnly  BY DEF SupplyInv, AfterEnd, OneMistakeOnly
  <1> QED  BY <1>1, SupplyGoesOn, PTL

\* Whatever lies in the batches, no step of any script or of the server removes one
\* that a receipt brought in, nor one of a document the file does not hold.
THEOREM OthersStay == Spec => OthersBatchesStay
  <1>1. ASSUME SupplyInv, Next, NEW b \in batches,
               b.origin = "LOCAL" \/ (b.origin = "ONEC" /\ b.doc \notin InFile)
        PROVE  \E c \in batches' : c.id = b.id
    <2>0. TypeOK /\ Shaped /\ IdsTold /\ DocsWritten /\ OldRemoved  BY <1>1 DEF SupplyInv
    <2>1. CASE ServerStep  BY <2>0, <2>1, ServerSteps
    <2>2. CASE QuarantineStep  BY <2>0, <2>2, QuarantineSteps
    <2>3. CASE StartImport \/ StartQuarantine  BY <2>0, <2>3, StartSteps
    <2>4. CASE NewExport \/ Crash \/ Finished  BY <2>0, <2>4, RestSteps
    <2>5. CASE ImportStep
      <3>1. ImportShape  BY <1>1, <2>5, ImportRuns
      <3>2. b \notin Replaced /\ b \notin Snapshot  BY <1>1 DEF Replaced, Snapshot
      <3>3. b \in batches'  BY <2>0, <2>5, <3>1, <3>2, ImportBatches
      <3> QED  BY <3>3
    <2> QED  BY <1>1, <2>1, <2>2, <2>3, <2>4, <2>5 DEF Next
  <1>2. SupplyInv /\ [Next]_vars =>
          [\A b \in batches : b.origin = "LOCAL" \/ (b.origin = "ONEC" /\ b.doc \notin InFile) =>
              \E c \in batches' : c.id = b.id]_vars
    BY <1>1
  <1> QED  BY <1>2, SupplyGoesOn, PTL DEF Spec, OthersBatchesStay

(***************************************************************************)
(* The choice of a price.  Batches that can be put in order: each has what *)
(* is left of it, a day and an identity of its own.                        *)
(***************************************************************************)
Orderly(U) ==
    /\ IsFiniteSet(U)
    /\ \A b \in U : b.left \in Nat /\ b.day \in Nat /\ b.id \in Ids
    /\ \A b, c \in U : b.id = c.id => b = c

\* Batches are in order by their day, and on one day by their identity.
LEMMA SoonerIs ==
  ASSUME NEW i \in Ids, NEW j \in Ids, NEW k \in Ids
  PROVE  /\ ~Sooner(i, i)
         /\ Sooner(i, j) /\ Sooner(j, k) => Sooner(i, k)
         /\ i # j => Sooner(i, j) \/ Sooner(j, i)
  <1>1. \A x \in Ids : x[1] \in Nat /\ x[2] \in Nat /\ x[3] \in Nat /\ x = <<x[1], x[2], x[3]>>
    BY DEF Ids
  <1>2. i # j => i[1] # j[1] \/ i[2] # j[2] \/ i[3] # j[3]  BY <1>1
  <1>3. /\ i[1] \in Nat /\ i[2] \in Nat /\ i[3] \in Nat
        /\ j[1] \in Nat /\ j[2] \in Nat /\ j[3] \in Nat
        /\ k[1] \in Nat /\ k[2] \in Nat /\ k[3] \in Nat
    BY <1>1
  <1> QED  BY <1>2, <1>3 DEF Sooner

LEMMA OlderIs ==
  ASSUME NEW U, Orderly(U), NEW a \in U, NEW b \in U, NEW c \in U
  PROVE  /\ ~Older(a, a)
         /\ Older(a, b) /\ Older(b, c) => Older(a, c)
         /\ a # b => Older(a, b) \/ Older(b, a)
  <1>1. /\ a.day \in Nat /\ b.day \in Nat /\ c.day \in Nat
        /\ a.id \in Ids /\ b.id \in Ids /\ c.id \in Ids
        /\ a # b => a.id # b.id
    BY DEF Orderly
  <1>2. /\ ~Sooner(a.id, a.id)
        /\ Sooner(a.id, b.id) /\ Sooner(b.id, c.id) => Sooner(a.id, c.id)
        /\ a.id # b.id => Sooner(a.id, b.id) \/ Sooner(b.id, a.id)
    BY <1>1, SoonerIs
  <1> QED  BY <1>1, <1>2 DEF Older

\* Of some batches one is the youngest.
LEMMA YoungestExists ==
  ASSUME NEW U, Orderly(U)
  PROVE  U = {} \/ \E x \in U : \A y \in U : y # x => Older(y, x)
  <1> DEFINE P == {T \in SUBSET U : T = {} \/ \E x \in T : \A y \in T : y # x => Older(y, x)}
  <1>1. {} \in P  OBVIOUS
  <1>2. ASSUME NEW T \in SUBSET U, T # {}, \A x \in T : T \ {x} \in P
        PROVE  T \in P
    <2>1. PICK z \in T : TRUE  BY <1>2
    <2>2. T \ {z} \in P  BY <1>2
    <2>3. CASE T \ {z} = {}  BY <2>1, <2>3
    <2>4. CASE T \ {z} # {}
      <3>1. PICK x \in T \ {z} : \A y \in T \ {z} : y # x => Older(y, x)  BY <2>2, <2>4
      <3>2. Older(x, z) \/ Older(z, x)  BY <2>1, <3>1, OlderIs
      <3>3. CASE Older(z, x)  BY <3>1, <3>3
      <3>4. CASE Older(x, z)
        <4>1. ASSUME NEW y \in T, y # z  PROVE Older(y, z)
          <5>1. y = x \/ Older(y, x)  BY <3>1, <4>1
          <5>2. y \in U /\ x \in U /\ z \in U  OBVIOUS
          <5> QED  BY <3>4, <5>1, <5>2, OlderIs
        <4> QED  BY <4>1
      <3> QED  BY <3>2, <3>3, <3>4
    <2> QED  BY <2>3, <2>4
  <1>3. IsFiniteSet(U)  BY DEF Orderly
  <1> HIDE DEF P
  <1>4. U \in P  BY <1>1, <1>2, <1>3, SubsetInduction
  <1> QED  BY <1>4 DEF P

\* What some of the batches hold, all of them hold.
LEMMA LeftInLess ==
  ASSUME NEW S, IsFiniteSet(S), \A b \in S : b.left \in Nat, NEW R \in SUBSET S
  PROVE  LeftIn(R) <= LeftIn(S)
  <1> DEFINE P == {T \in SUBSET S : LeftIn(R \cap T) <= LeftIn(T)}
  <1>1. {} \in P
    <2>1. R \cap {} = {} /\ LeftIn({}) = 0  BY NothingLeft
    <2> QED  BY <2>1
  <1>2. ASSUME NEW T \in SUBSET S, T # {}, \A x \in T : T \ {x} \in P
        PROVE  T \in P
    <2>1. PICK z \in T : TRUE  BY <1>2
    <2> DEFINE O == T \ {z}
               I == R \cap O
    <2>2. LeftIn(I) <= LeftIn(O)  BY <1>2
    <2>3. IsFiniteSet(O) /\ IsFiniteSet(I) /\ z \notin O /\ z \notin I  BY FS_Subset
    <2>4. /\ (\A c \in O \cup {z} : c.left \in Nat) /\ \A c \in I \cup {z} : c.left \in Nat
          /\ z.left \in Nat /\ T = O \cup {z}
          /\ (z \in R => R \cap T = I \cup {z}) /\ (z \notin R => R \cap T = I)
      BY <2>1
    <2> HIDE DEF O, I
    <2>5. LeftIn(O \cup {z}) = LeftIn(O) + z.left  BY <2>3, <2>4, LeftInGrows
    <2>6. LeftIn(I \cup {z}) = LeftIn(I) + z.left  BY <2>3, <2>4, LeftInGrows
    <2>7. LeftIn(O) \in Nat /\ LeftIn(I) \in Nat  BY <2>3, <2>4, LeftInNat
    <2>8. LeftIn(T) = LeftIn(O) + z.left /\ z.left \in Nat  BY <2>4, <2>5
    <2>9. LeftIn(R \cap T) = LeftIn(I) \/ LeftIn(R \cap T) = LeftIn(I) + z.left
      BY <2>4, <2>6
    <2>10. LeftIn(R \cap T) <= LeftIn(T)
      <3> DEFINE l == z.left
                 o == LeftIn(O)
                 i == LeftIn(I)
      <3>1. /\ l \in Nat /\ o \in Nat /\ i \in Nat /\ i <= o
            /\ LeftIn(T) = o + l /\ (LeftIn(R \cap T) = i \/ LeftIn(R \cap T) = i + l)
        BY <2>2, <2>7, <2>8, <2>9
      <3> HIDE DEF l, o, i
      <3> QED  BY <3>1
    <2> QED  BY <2>10
  <1> HIDE DEF P
  <1>3. S \in P  BY <1>1, <1>2, SubsetInduction
  <1>4. R \cap S = R  OBVIOUS
  <1> QED  BY <1>3, <1>4 DEF P

\* What the batches give, oldest first, is the quantity or all there is.
LEMMA TakenInAll ==
  ASSUME NEW U, Orderly(U), NEW q \in Nat, NEW f, \A b \in U : f[b] = Taken(b, U, q)
  PROVE  SumFunctionOnSet(f, U) = Least(q, LeftIn(U))
  <1> DEFINE Down(D) == \A b \in D, c \in U : Older(c, b) => c \in D
             P == {D \in SUBSET U : Down(D) => SumFunctionOnSet(f, D) = Least(q, LeftIn(D))}
  <1>0. /\ IsFiniteSet(U) /\ \A b \in U : b.left \in Nat  BY DEF Orderly
  <1>a. \A b \in U : f[b] \in Int /\ f[b] = Taken(b, U, q)
    <2>1. ASSUME NEW b \in U  PROVE Taken(b, U, q) \in Nat  BY <1>0, TakenIs
    <2> QED  BY <2>1
  <1>1. {} \in P
    <2>1. SumFunctionOnSet(f, {}) = 0  BY FS_EmptySet, SumStep
    <2>2. Least(q, LeftIn({})) = 0  BY NothingLeft DEF Least
    <2> QED  BY <2>1, <2>2
  <1>2. ASSUME NEW D \in SUBSET U, D # {}, \A x \in D : D \ {x} \in P, Down(D)
        PROVE  SumFunctionOnSet(f, D) = Least(q, LeftIn(D))
    <2>1. Orderly(D)  BY <1>0, FS_Subset DEF Orderly
    <2>2. PICK x \in D : \A y \in D : y # x => Older(y, x)  BY <1>2, <2>1, YoungestExists
    <2> DEFINE O == D \ {x}
    <2>3. ~Older(x, x) /\ \A y \in D : ~(Older(x, y) /\ Older(y, x))
      BY OlderIs
    <2>4. Before(x, U) = O
      <3>1. ASSUME NEW c \in U, Older(c, x)  PROVE c \in O
        BY <1>2, <2>2, <2>3, <3>1
      <3>2. ASSUME NEW c \in O  PROVE Older(c, x) /\ c \in U  BY <2>2
      <3> QED  BY <3>1, <3>2 DEF Before
    <2>5. Down(O)
      <3>1. SUFFICES ASSUME NEW b \in O, NEW c \in U, Older(c, b)  PROVE c \in O
        OBVIOUS
      <3>2. c \in D  BY <1>2, <3>1
      <3>3. c # x  BY <2>2, <2>3, <3>1
      <3> QED  BY <3>2, <3>3
    <2>6. SumFunctionOnSet(f, O) = Least(q, LeftIn(O))  BY <1>2, <2>5
    <2>7. /\ IsFiniteSet(O) /\ x \notin O /\ D = O \cup {x}
          /\ \A y \in O \cup {x} : f[y] \in Int /\ y.left \in Nat
      BY <1>0, <1>a, FS_Subset
    <2> HIDE DEF O
    <2>8. SumFunctionOnSet(f, O \cup {x}) = SumFunctionOnSet(f, O) + f[x]  BY <2>7, SumAdd
    <2>9. LeftIn(O \cup {x}) = LeftIn(O) + x.left  BY <2>7, LeftInGrows
    <2>10. f[x] = Least(x.left, AtLeastZero(q - LeftIn(O)))  BY <1>a, <2>4 DEF Taken
    <2> DEFINE n == LeftIn(O)
               l == x.left
    <2>11. n \in Nat /\ l \in Nat  BY <2>7, LeftInNat
    <2> HIDE DEF n, l
    <2>12. Least(q, n) + Least(l, AtLeastZero(q - n)) = Least(q, n + l)
      BY <2>11 DEF Least, AtLeastZero
    <2> QED  BY <2>6, <2>7, <2>8, <2>9, <2>10, <2>12 DEF n, l
  <1>3. U \in P
    <2>1. \A D \in SUBSET U : D # {} /\ (\A x \in D : D \ {x} \in P) => D \in P  BY <1>2
    <2> HIDE DEF P
    <2> QED  BY <1>0, <1>1, <2>1, SubsetInduction
  <1>4. Down(U)  OBVIOUS
  <1> QED  BY <1>3, <1>4

\* What a set of allocations takes, of a function of the batches.
LEMMA QtyOfTaken ==
  ASSUME NEW U, Orderly(U), NEW f, \A b \in U : f[b] \in Nat, NEW A,
         A = {Take(b, f[b]) : b \in U}
  PROVE  QtyOf(A) = SumFunctionOnSet(f, U)
  <1> DEFINE g == [b \in U |-> Take(b, f[b])]
             h == [a \in A |-> a.qty]
  <1>1. \A b \in U : g[b] = Take(b, f[b]) /\ g[b].id = b.id /\ g[b].qty = f[b]  BY DEF Take
  <1>2. \A b, c \in U : g[b] = g[c] => b = c
    <2>1. SUFFICES ASSUME NEW b \in U, NEW c \in U, g[b] = g[c]  PROVE b = c
      OBVIOUS
    <2>2. b.id = c.id
      <3> HIDE DEF g
      <3> QED  BY <1>1, <2>1
    <2> QED  BY <2>2 DEF Orderly
  <1>3. A = {g[b] : b \in U}  BY <1>1
  <1> HIDE DEF g
  <1>4. \A b \in U : h[g[b]] = f[b]  BY <1>1, <1>3
  <1>5. QtyOf(A) = SumFunctionOnSet(h, A)  BY DEF QtyOf
  <1>6. IsFiniteSet(U)  BY DEF Orderly
  <1> HIDE DEF h
  <1>7. \A b \in U : f[b] \in Int  OBVIOUS
  <1>8. SumFunctionOnSet(h, {g[b] : b \in U}) = SumFunctionOnSet(f, U)
    BY <1>2, <1>4, <1>6, <1>7, SumImage
  <1> QED  BY <1>3, <1>5, <1>8

\* Allocations of no quantity, and of one.
LEMMA QtyOfFew ==
  ASSUME NEW a, a.qty \in Nat
  PROVE  QtyOf({}) = 0 /\ QtyOf({a}) = a.qty
  <1>1. QtyOf({}) = 0  BY FS_EmptySet, SumStep DEF QtyOf
  <1> DEFINE f == [x \in {a} |-> x.qty]
  <1>2. f[a] = a.qty /\ f[a] \in Int  OBVIOUS
  <1>3. QtyOf({a}) = SumFunctionOnSet(f, {a})  BY DEF QtyOf
  <1> HIDE DEF f
  <1>4. IsFiniteSet({}) /\ {} \cup {a} = {a} /\ SumFunctionOnSet(f, {}) = 0
    BY FS_EmptySet, SumStep
  <1>5. SumFunctionOnSet(f, {} \cup {a}) = SumFunctionOnSet(f, {}) + f[a]
    BY <1>2, <1>4, SumAdd
  <1> QED  BY <1>1, <1>2, <1>3, <1>4, <1>5

\* What is covered and what is short add up to the quantity, if no more is taken.
LEMMA FinishIs ==
  ASSUME NEW q \in Nat, NEW A, NEW B, NEW allow, NEW r, r = Finish(q, A, B, allow),
         QtyOf(A) \in 0..q
  PROVE  /\ r.allocations = A /\ r.covered = QtyOf(A)
         /\ r.covered + r.shortage = q /\ r.covered <= q
  <1> DEFINE n == QtyOf(A)
  <1>1. r.allocations = A /\ r.covered = n /\ r.shortage = AtLeastZero(q - n)
    BY DEF Finish
  <1>2. n \in 0..q  OBVIOUS
  <1> HIDE DEF n
  <1>3. n + AtLeastZero(q - n) = q /\ n <= q  BY <1>2 DEF AtLeastZero
  <1> QED  BY <1>1, <1>3 DEF n

LEMMA LeastIs ==
  ASSUME NEW q \in Nat, NEW n \in Nat  PROVE Least(q, n) \in 0..q
  BY DEF Least

\* The allocations oldest first: of every batch what it gives, and together the
\* quantity or all there is.
LEMMA FifoIs ==
  ASSUME NEW B, NEW allow, NEW q \in Nat, NEW U, U = Usable(B, allow), Orderly(U),
         NEW f, f = Fifo(B, q, allow)
  PROVE  /\ f.covered = Least(q, LeftIn(U)) /\ f.covered + f.shortage = q /\ f.covered <= q
         /\ \A a \in f.allocations : \E b \in U : a = Take(b, Taken(b, U, q))
         /\ \A b \in U : QtyOf({a \in f.allocations : a.id = b.id}) = Taken(b, U, q)
  <1> DEFINE T == [b \in U |-> Taken(b, U, q)]
             V == {b \in U : Taken(b, U, q) > 0}
             A == {Take(b, Taken(b, U, q)) : b \in V}
  <1>0. IsFiniteSet(U) /\ \A b \in U : b.left \in Nat  BY DEF Orderly
  <1>1. \A b \in U : T[b] = Taken(b, U, q) /\ T[b] \in Nat
    <2>1. ASSUME NEW b \in U  PROVE Taken(b, U, q) \in Nat  BY <1>0, TakenIs
    <2> QED  BY <2>1
  <1>2. f = Finish(q, A, B, allow)  BY DEF Fifo
  <1>3. A = {Take(b, T[b]) : b \in V}  BY <1>1
  <1> HIDE DEF T
  <1>4. Orderly(V)  BY FS_Subset DEF Orderly
  <1>5. V \subseteq U /\ \A b \in U \ V : T[b] = 0
    <2>1. ASSUME NEW b \in U, ~(Taken(b, U, q) > 0)  PROVE T[b] = 0
      <3>1. T[b] \in Nat /\ ~(T[b] > 0)  BY <1>1, <2>1
      <3> QED  BY <3>1
    <2> QED  BY <2>1
  <1>6. LeftIn(U) \in Nat  BY <1>0, LeftInNat
  <1> HIDE DEF V, A
  <1>7. QtyOf(A) = Least(q, LeftIn(U))
    <2>1. \A b \in U : T[b] = Taken(b, U, q) /\ T[b] \in Int  BY <1>1
    <2>2. SumFunctionOnSet(T, U) = Least(q, LeftIn(U))  BY <2>1, TakenInAll
    <2>3. SumFunctionOnSet(T, U) = SumFunctionOnSet(T, V)  BY <1>0, <1>5, <2>1, SumSupport
    <2>4. \A b \in V : T[b] \in Nat  BY <1>1, <1>5
    <2>5. QtyOf(A) = SumFunctionOnSet(T, V)  BY <1>3, <1>4, <2>4, QtyOfTaken
    <2> QED  BY <2>2, <2>3, <2>5
  <1>8. Least(q, LeftIn(U)) \in 0..q  BY <1>6, LeastIs
  <1>9. f.allocations = A /\ f.covered = QtyOf(A) /\ f.covered + f.shortage = q /\ f.covered <= q
    <2>1. QtyOf(A) \in 0..q  BY <1>7, <1>8
    <2> QED  BY <1>2, <2>1, FinishIs
  <1>10. ASSUME NEW b \in U  PROVE QtyOf({a \in A : a.id = b.id}) = Taken(b, U, q)
    <2> DEFINE t == Take(b, T[b])
               F == {a \in A : a.id = b.id}
    <2>1. \A c \in U : Take(c, T[c]).id = c.id /\ (c.id = b.id => c = b)
      BY DEF Take, Orderly
    <2>2. t.qty = T[b] /\ t.qty \in Nat /\ t.id = b.id  BY <1>1 DEF Take
    <2>3. \A a \in F : b \in V /\ a = t
      <3>1. SUFFICES ASSUME NEW a \in A, a.id = b.id  PROVE b \in V /\ a = t
        OBVIOUS
      <3>2. PICK c \in V : a = Take(c, T[c])  BY <1>3
      <3>3. c = b  BY <1>5, <2>1, <3>1, <3>2
      <3> QED  BY <3>2, <3>3
    <2>4. b \in V => t \in F  BY <1>3, <2>2
    <2> HIDE DEF t, F
    <2>5. QtyOf({t}) = T[b] /\ QtyOf({}) = 0  BY <2>2, QtyOfFew
    <2>6. QtyOf(F) = T[b]
      <3>1. CASE b \in V
        <4>1. F = {t}  BY <2>3, <2>4, <3>1
        <4> QED  BY <2>5, <4>1
      <3>2. CASE b \notin V
        <4>1. F = {} /\ T[b] = 0  BY <1>5, <2>3, <3>2
        <4> QED  BY <2>5, <4>1
      <3> QED  BY <3>1, <3>2
    <2> QED  BY <1>1, <2>6 DEF F
  <1>11. \A a \in A : \E b \in U : a = Take(b, Taken(b, U, q))
    BY <1>1, <1>3, <1>5
  <1> QED  BY <1>7, <1>9, <1>10, <1>11

\* A younger batch gives something only when the older ones give all they have.
LEMMA OlderFirst ==
  ASSUME NEW U, Orderly(U), NEW q \in Nat, NEW b \in U, NEW c \in U, Older(b, c),
         Taken(c, U, q) > 0
  PROVE  Taken(b, U, q) = b.left
  <1> DEFINE X == Before(b, U)
             Y == Before(c, U)
             n == LeftIn(X)
             k == LeftIn(Y)
             l == b.left
             r == c.left
  <1>1. X \subseteq U /\ Y \subseteq U /\ b \notin X
    BY OlderIs DEF Before
  <1>2. X \cup {b} \subseteq Y
    <2>1. ASSUME NEW x \in X  PROVE x \in Y
      <3>1. x \in U /\ Older(x, b)  BY DEF Before
      <3>2. Older(x, c)  BY <3>1, OlderIs
      <3> QED  BY <3>1, <3>2 DEF Before
    <2>2. b \in Y  BY DEF Before
    <2> QED  BY <2>1, <2>2
  <1>3. IsFiniteSet(X) /\ IsFiniteSet(Y) /\ \A x \in U : x.left \in Nat
    BY <1>1, FS_Subset DEF Orderly
  <1> HIDE DEF X, Y
  <1>4. LeftIn(X \cup {b}) = n + l
    BY <1>1, <1>3, LeftInGrows
  <1>5. LeftIn(X \cup {b}) <= k
    <2>1. \A x \in Y : x.left \in Nat  BY <1>1, <1>3
    <2> QED  BY <1>2, <1>3, <2>1, LeftInLess
  <1>6. n \in Nat /\ k \in Nat /\ l \in Nat /\ r \in Nat
    <2>1. (\A x \in X : x.left \in Nat) /\ (\A x \in Y : x.left \in Nat)  BY <1>1, <1>3
    <2> QED  BY <1>3, <2>1, LeftInNat
  <1>7. Least(r, AtLeastZero(q - k)) > 0 /\ Taken(b, U, q) = Least(l, AtLeastZero(q - n))
    BY DEF Taken, X, Y
  <1> HIDE DEF n, k, l, r
  <1>8. n + l <= k  BY <1>4, <1>5
  <1>9. Least(l, AtLeastZero(q - n)) = l  BY <1>6, <1>7, <1>8 DEF Least, AtLeastZero
  <1> QED  BY <1>7, <1>9 DEF l

\* What all the batches together cover, and what one of them does.
LEMMA AverageIs ==
  ASSUME NEW B, NEW allow, NEW q \in Nat, NEW U, U = Usable(B, allow), LeftIn(U) \in Nat,
         NEW w, w = WeightedAvg(B, q, allow)
  PROVE  w.covered = Least(q, LeftIn(U)) /\ w.covered + w.shortage = q /\ w.covered <= q
  <1> DEFINE n == Least(q, LeftIn(U))
             a == [id |-> <<>>, qty |-> n, price |-> RoundDiv(WorthOf(U), LeftIn(U)),
                   cost |-> RoundDiv(n * WorthOf(U), LeftIn(U) * 1000)]
             A == IF n > 0 THEN {a} ELSE {}
  <1>1. w = Finish(q, A, B, allow)  BY DEF WeightedAvg
  <1>2. n \in 0..q  BY LeastIs
  <1>3. a.qty = n  OBVIOUS
  <1> HIDE DEF a, n
  <1>4. QtyOf({a}) = n /\ QtyOf({}) = 0
    <2>1. a.qty \in Nat  BY <1>2, <1>3
    <2> QED  BY <1>3, <2>1, QtyOfFew
  <1>5. QtyOf(A) = n /\ QtyOf(A) \in 0..q  BY <1>2, <1>4
  <1> HIDE DEF A
  <1>6. w.covered = n /\ w.covered + w.shortage = q /\ w.covered <= q
    BY <1>1, <1>5, FinishIs
  <1> QED  BY <1>6 DEF n

\* What one batch gives: no more than it has, and nothing but of itself.
LEMMA FromOneIs ==
  ASSUME NEW B, NEW allow, NEW q \in Nat, NEW b, b.left \in Nat
  PROVE  LET r == FromOne(B, q, b, allow) IN
         /\ r.covered + r.shortage = q /\ r.covered <= q
         /\ \A a \in r.allocations : a.id = b.id /\ a.qty <= b.left
  <1> DEFINE n == Least(q, AtLeastZero(b.left))
             a == Take(b, n)
             A == IF n > 0 THEN {a} ELSE {}
             r == FromOne(B, q, b, allow)
  <1>1. r = Finish(q, A, B, allow)  BY DEF FromOne
  <1>2. n \in 0..q /\ n <= b.left  BY DEF Least, AtLeastZero
  <1>3. a.qty = n /\ a.id = b.id  BY DEF Take
  <1> HIDE DEF a, n
  <1>4. QtyOf({a}) = n /\ QtyOf({}) = 0
    <2>1. a.qty \in Nat  BY <1>2, <1>3
    <2> QED  BY <1>3, <2>1, QtyOfFew
  <1>5. QtyOf(A) \in 0..q  BY <1>2, <1>4
  <1>6. \A x \in A : x.id = b.id /\ x.qty <= b.left  BY <1>2, <1>3
  <1> HIDE DEF A, r
  <1>7. r.allocations = A /\ r.covered + r.shortage = q /\ r.covered <= q
    BY <1>1, <1>5, FinishIs
  <1> QED  BY <1>6, <1>7 DEF r

\* What is asked for by its id is a batch that counts, or refused.
LEMMA SpecificIs ==
  ASSUME OneById, NEW m, NEW q, NEW allow, NEW b \in batches
  PROVE  /\ Specific(Of(m), q, b.id, allow) # {} <=> b.material = m /\ (allow \/ ~b.anomaly)
         /\ \A r \in Specific(Of(m), q, b.id, allow) :
              r = FromOne(Of(m), q, b, allow) /\ b.material = m /\ (allow \/ ~b.anomaly)
  <1> DEFINE B == Of(m)
             A == Asked(B, b.id, allow)
             S == Specific(B, q, b.id, allow)
  <1>1. ASSUME NEW x \in A  PROVE x = b /\ b.material = m /\ (allow \/ ~b.anomaly)
    <2>1. x \in batches /\ x.id = b.id /\ x.material = m /\ (allow \/ ~x.anomaly)
      BY DEF Asked, Of
    <2>2. x = b  BY <2>1 DEF OneById
    <2> QED  BY <2>1, <2>2
  <1>2. ASSUME b.material = m, allow \/ ~b.anomaly  PROVE b \in A
    BY <1>2 DEF Asked, Of
  <1>3. S = {FromOne(B, q, x, allow) : x \in A}  BY DEF Specific
  <1> HIDE DEF A, B, S
  <1>4. ASSUME NEW r \in S
        PROVE  r = FromOne(B, q, b, allow) /\ b.material = m /\ (allow \/ ~b.anomaly)
    <2>1. PICK x \in A : r = FromOne(B, q, x, allow)  BY <1>3
    <2>2. x = b /\ b.material = m /\ (allow \/ ~b.anomaly)  BY <1>1
    <2> QED  BY <2>1, <2>2
  <1>5. ASSUME b.material = m, allow \/ ~b.anomaly  PROVE S # {}
    <2>1. b \in A  BY <1>2, <1>5
    <2>2. FromOne(B, q, b, allow) \in S  BY <1>3, <2>1
    <2> QED  BY <2>2
  <1>6. S # {} => b.material = m /\ (allow \/ ~b.anomaly)  BY <1>4
  <1>7. S # {} <=> b.material = m /\ (allow \/ ~b.anomaly)  BY <1>5, <1>6
  <1> QED  BY <1>4, <1>7 DEF S, B

\* However the price of a quantity is chosen, and whatever the batches: what is covered
\* and what is short add up to the quantity, no batch gives more than it has or anything
\* out of quarantine unless the caller overrules it, a batch asked for in quarantine is
\* refused, and the older batches are used up first.
THEOREM QuantityCovered == Spec => []PriceCoversQuantity
  <1>1. ASSUME SupplyInv, NEW m \in Materials, NEW q \in Quantities, NEW allow
        PROVE  LET f == Fifo(Of(m), q, allow)
                   w == WeightedAvg(Of(m), q, allow)
                   asked == UNION {Specific(Of(m), q, b.id, allow) : b \in batches}
                   counts(b) == b.material = m /\ (allow \/ ~b.anomaly)
                   used(b) == QtyOf({a \in f.allocations : a.id = b.id})
               IN /\ \A r \in {f, w, LastPurchase(Of(m), q, allow)} \cup asked :
                        r.covered + r.shortage = q /\ r.covered <= q
                  /\ \A r \in {f} \cup asked : \A a \in r.allocations :
                        \E b \in batches : b.id = a.id /\ counts(b) /\ a.qty <= b.left
                  /\ \A b \in batches : Specific(Of(m), q, b.id, allow) # {} <=> counts(b)
                  /\ f.covered = w.covered
                  /\ \A b, c \in {x \in batches : counts(x) /\ x.left > 0} :
                        b.day < c.day /\ used(c) > 0 => used(b) = b.left
    <2> DEFINE B == Of(m)
               U == Usable(B, allow)
               f == Fifo(B, q, allow)
               w == WeightedAvg(B, q, allow)
               l == LastPurchase(B, q, allow)
               one(b) == Specific(B, q, b.id, allow)
               asked == UNION {one(b) : b \in batches}
               counts(b) == b.material = m /\ (allow \/ ~b.anomaly)
               used(b) == QtyOf({a \in f.allocations : a.id = b.id})
    <2>0. TypeOK /\ OneById  BY <1>1 DEF SupplyInv, IdsTold
    <2>1. q \in Nat  BY SupplyAssumption
    <2>2. B = {x \in batches : x.material = m}  BY DEF Of
    <2>a. \A b \in batches : b.left \in Nat /\ b.day \in Nat /\ b.id \in Ids
      BY <2>0, BatchHolds
    <2>3. U = {x \in batches : counts(x) /\ x.left > 0}  BY <2>2 DEF Usable
    <2>4. Orderly(U)
      <3>1. IsFiniteSet(batches) /\ U \subseteq batches  BY <2>0, <2>3 DEF TypeOK
      <3>2. IsFiniteSet(U)  BY <3>1, FS_Subset
      <3> QED  BY <2>0, <2>a, <2>3, <3>1, <3>2 DEF Orderly, OneById
    <2>5. LeftIn(U) \in Nat  BY <2>4, LeftInNat DEF Orderly
    <2>6. /\ f.covered = Least(q, LeftIn(U)) /\ f.covered + f.shortage = q /\ f.covered <= q
          /\ \A a \in f.allocations : \E b \in U : a = Take(b, Taken(b, U, q))
          /\ \A b \in U : used(b) = Taken(b, U, q)
      <3>1. U = Usable(B, allow) /\ f = Fifo(B, q, allow)  OBVIOUS
      <3> HIDE DEF U, B, f
      <3> QED  BY <2>1, <2>4, <3>1, FifoIs
    <2>7. w.covered = Least(q, LeftIn(U)) /\ w.covered + w.shortage = q /\ w.covered <= q
      <3>1. U = Usable(B, allow) /\ w = WeightedAvg(B, q, allow)  OBVIOUS
      <3> HIDE DEF U, B, w
      <3> QED  BY <2>1, <2>5, <3>1, AverageIs
    <2>8. ASSUME NEW b \in batches
          PROVE  /\ one(b) # {} <=> counts(b)
                 /\ \A r \in one(b) : /\ r.covered + r.shortage = q /\ r.covered <= q
                                      /\ counts(b)
                                      /\ \A a \in r.allocations : a.id = b.id /\ a.qty <= b.left
      <3>1. /\ one(b) # {} <=> counts(b)
            /\ \A r \in one(b) : r = FromOne(B, q, b, allow) /\ counts(b)
        BY <2>0, SpecificIs
      <3>2. b.left \in Nat  BY <2>a
      <3> HIDE DEF one, counts, B
      <3>3. ASSUME NEW r \in one(b)
            PROVE  /\ r.covered + r.shortage = q /\ r.covered <= q
                   /\ \A a \in r.allocations : a.id = b.id /\ a.qty <= b.left
        <4>1. r = FromOne(B, q, b, allow)  BY <3>1
        <4>2. /\ FromOne(B, q, b, allow).covered + FromOne(B, q, b, allow).shortage = q
              /\ FromOne(B, q, b, allow).covered <= q
              /\ \A a \in FromOne(B, q, b, allow).allocations : a.id = b.id /\ a.qty <= b.left
          BY ONLY <2>1, <3>2, FromOneIs
        <4> QED  BY <4>1, <4>2
      <3> QED  BY <3>1, <3>3
    <2>9. l.covered + l.shortage = q /\ l.covered <= q
      BY <2>1 DEF LastPurchase, Flat
    <2>10. ASSUME NEW a \in f.allocations
           PROVE  \E b \in batches : b.id = a.id /\ counts(b) /\ a.qty <= b.left
      <3>1. PICK b \in U : a = Take(b, Taken(b, U, q))  BY <2>6
      <3>2. Taken(b, U, q) <= b.left
        <4> HIDE DEF U
        <4>1. IsFiniteSet(U) /\ (\A c \in U : c.left \in Nat) /\ b \in U /\ q \in Int
          BY <2>1, <2>4 DEF Orderly
        <4> QED  BY <4>1, TakenIs
      <3>3. a.id = b.id /\ a.qty = Taken(b, U, q)  BY <3>1 DEF Take
      <3>4. b \in batches /\ counts(b)  BY <2>3
      <3> HIDE DEF U, counts
      <3> QED  BY <3>2, <3>3, <3>4
    <2>11. ASSUME NEW b \in U, NEW c \in U, b.day < c.day, used(c) > 0
           PROVE  used(b) = b.left
      <3> HIDE DEF U, used
      <3>1. Older(b, c)  BY <2>11 DEF Older
      <3>2. Taken(c, U, q) > 0  BY <2>6, <2>11
      <3>3. Taken(b, U, q) = b.left  BY <2>1, <2>4, <3>1, <3>2, OlderFirst
      <3> QED  BY <2>6, <3>3
    <2> HIDE DEF U, f, w, l, B, one, counts, used
    <2>12. /\ f.covered = w.covered
           /\ \A b, c \in {x \in batches : counts(x) /\ x.left > 0} :
                b.day < c.day /\ used(c) > 0 => used(b) = b.left
      BY <2>3, <2>6, <2>7, <2>11
    <2>13. \A r \in {f, w, l} \cup asked : r.covered + r.shortage = q /\ r.covered <= q
      BY <2>6, <2>7, <2>8, <2>9
    <2>14. \A r \in {f} \cup asked : \A a \in r.allocations :
             \E b \in batches : b.id = a.id /\ counts(b) /\ a.qty <= b.left
      BY <2>8, <2>10
    <2>15. \A b \in batches : one(b) # {} <=> counts(b)  BY <2>8
    <2> QED  BY <2>12, <2>13, <2>14, <2>15 DEF f, w, l, B, one, counts, used
  <1>2. SupplyInv => PriceCoversQuantity  BY <1>1 DEF PriceCoversQuantity
  <1> QED  BY <1>2, SupplyGoesOn, PTL
=============================================================================
