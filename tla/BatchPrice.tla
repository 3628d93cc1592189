----------------------------- MODULE BatchPrice -----------------------------
(***************************************************************************)
(* Prices of material batches (prisma/lib/material-batches.ts): the        *)
(* quarantine of a price and the choice of a purchase price for a quantity.*)
(* Money is in hundredths, quantities in thousandths; every product and    *)
(* quotient is rounded where the code rounds it (round2, round3).          *)
(* A batch is a record with the fields id, day, price, left, anomaly; an   *)
(* id is a triple of numbers, compared as the code compares its strings.   *)
(***************************************************************************)
EXTENDS Integers, FiniteSets, Sequences, FiniteSetsExt

RoundDiv(a, b) == (2 * a + b) \div (2 * b)
Cost(qty, price) == RoundDiv(qty * price, 1000)
AtLeastZero(x) == IF x < 0 THEN 0 ELSE x
Least(a, b) == IF a < b THEN a ELSE b

\* The k-th price in ascending order, of those at the places `at`.
Kth(prices, at, k) ==
    Min({prices[i] : i \in {j \in at : Cardinality({h \in at : prices[h] <= prices[j]}) >= k}})

\* Twice the median of the known prices, so that the mean of the two middle ones
\* stays whole; 0 when none is known.
TwiceMedian(prices) ==
    LET at == {i \in DOMAIN prices : prices[i] > 0}
        n == Cardinality(at)
    IN IF at = {} THEN 0
       ELSE Kth(prices, at, (n + 1) \div 2) + Kth(prices, at, n \div 2 + 1)

\* How many times the price differs from the median, either way, in hundredths;
\* 0 when there is nothing to compare with.
AnomalyFactor(price, others) ==
    LET base == TwiceMedian(others) IN
    IF base = 0 \/ price <= 0 THEN 0
    ELSE LET up == RoundDiv(200 * price, base)
             down == RoundDiv(100 * base, 2 * price)
         IN IF up > down THEN up ELSE down

IsPriceAnomaly(price, others, threshold) == AnomalyFactor(price, others) > 100 * threshold

(***************************************************************************)
(* The choice of a price.  `batches` is the set the caller has read.       *)
(***************************************************************************)
Usable_Quarantined(batches, allow) == {b \in batches : b.left > 0}
Usable(batches, allow) == {b \in batches : b.left > 0 /\ (allow \/ ~b.anomaly)}

LastPurchasePrice(batches) ==
    IF batches = {} THEN 0
    ELSE (CHOOSE b \in batches : \A c \in batches : c.day <= b.day).price

Healthy(batches, allow) == {b \in batches : allow \/ ~b.anomaly}

\* What batches hold and are worth, and what allocations take and cost.
LeftIn(batches) == SumFunctionOnSet([b \in batches |-> b.left], batches)
WorthOf(batches) == SumFunctionOnSet([b \in batches |-> b.left * b.price], batches)
QtyOf(allocations) == SumFunctionOnSet([a \in allocations |-> a.qty], allocations)
CostOf(allocations) == SumFunctionOnSet([a \in allocations |-> a.cost], allocations)

\* What a set of allocations costs with the rest at the price of the last purchase.
Finish(qty, allocations, batches, allow) ==
    LET covered == QtyOf(allocations)
        shortage == AtLeastZero(qty - covered)
        rate == IF shortage > 0 THEN LastPurchasePrice(Healthy(batches, allow)) ELSE 0
        total == CostOf(allocations) + Cost(shortage, rate)
    IN [allocations |-> allocations, covered |-> covered, shortage |-> shortage,
        total |-> total, unitPrice |-> IF qty > 0 THEN RoundDiv(total * 1000, qty) ELSE 0]

Flat(qty, price) ==
    [allocations |-> {}, covered |-> qty, shortage |-> 0, total |-> Cost(qty, price),
     unitPrice |-> price]

Take(b, qty) == [id |-> b.id, qty |-> qty, price |-> b.price, cost |-> Cost(qty, b.price)]

LastPurchase(batches, qty, allow) == Flat(qty, LastPurchasePrice(Healthy(batches, allow)))

\* The batch asked for, as a set: empty when the caller's batches have none of that
\* id (BATCH_NOT_FOUND) or it is in quarantine (BATCH_IN_QUARANTINE).
Asked_Quarantined(batches, id, allow) == {b \in batches : b.id = id}
Asked(batches, id, allow) == {b \in batches : b.id = id /\ (allow \/ ~b.anomaly)}

FromOne(batches, qty, b, allow) ==
    LET take == Least(qty, AtLeastZero(b.left)) IN
    Finish(qty, IF take > 0 THEN {Take(b, take)} ELSE {}, batches, allow)

\* The answer, as a set: empty when it is a refusal.
Specific(batches, qty, id, allow) ==
    {FromOne(batches, qty, b, allow) : b \in Asked(batches, id, allow)}

WeightedAvg(batches, qty, allow) ==
    LET usable == Usable(batches, allow)
        left == LeftIn(usable)
        covered == Least(qty, left)
    IN Finish(qty,
              IF covered > 0
              THEN {[id |-> <<>>, qty |-> covered, price |-> RoundDiv(WorthOf(usable), left),
                     cost |-> RoundDiv(covered * WorthOf(usable), left * 1000)]}
              ELSE {},
              batches, allow)

Sooner(i, j) ==
    \/ i[1] < j[1]
    \/ i[1] = j[1] /\ i[2] < j[2]
    \/ i[1] = j[1] /\ i[2] = j[2] /\ i[3] < j[3]
Older(a, b) == a.day < b.day \/ (a.day = b.day /\ Sooner(a.id, b.id))

\* Old batches first; each gives what the older ones left to take.
Before(b, batches) == {c \in batches : Older(c, b)}
Taken(b, usable, qty) == Least(b.left, AtLeastZero(qty - LeftIn(Before(b, usable))))
Fifo(batches, qty, allow) ==
    LET usable == Usable(batches, allow)
        taking == {b \in usable : Taken(b, usable, qty) > 0}
    IN Finish(qty, {Take(b, Taken(b, usable, qty)) : b \in taking}, batches, allow)
=============================================================================
