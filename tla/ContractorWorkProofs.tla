----------------------- MODULE ContractorWorkProofs -----------------------
(***************************************************************************)
(* Proofs about ContractorWork, for any requests, orders, sums, people and *)
(* bounds: how a sum is split and what the parts add up to, and, of what   *)
(* no two calls have met on, that orders stay within the act and the whole *)
(* of the work and carry the money of the act.                             *)
(***************************************************************************)
EXTENDS ContractorWork, SumProofs

(***************************************************************************)
(* Splitting a sum                                                         *)
(***************************************************************************)

\* What is rounded is half a unit away at most.
LEMMA RoundedClose ==
  ASSUME NEW total \in Nat, NEW q \in Nat, NEW sum \in Nat \ {0}
  PROVE  /\ Rounded(total, q, sum) \in Int
         /\ (2 * sum) * Rounded(total, q, sum) <= (2 * total) * q + sum
         /\ (2 * sum) * Rounded(total, q, sum) + sum >= (2 * total) * q
  <1> DEFINE a == 2 * total * q + sum
             b == 2 * sum
             k == a \div b
  <1>1. a \in Nat /\ b \in Nat \ {0}
    <2>1. total * q \in Nat  OBVIOUS
    <2>2. 2 * total * q = 2 * (total * q)  OBVIOUS
    <2> QED  BY <2>1, <2>2
  <1>2. k \in Int /\ b * k <= a /\ a < b * k + b
    <2> HIDE DEF a, b
    <2> QED  BY <1>1
  <1>3. Rounded(total, q, sum) = k  BY DEF Rounded
  <1>4. 2 * total * q = (2 * total) * q /\ (2 * total) * q \in Int  OBVIOUS
  <1> DEFINE m == (2 * total) * q
             p == b * k
  <1>5. a = m + sum /\ m \in Int  BY <1>4
  <1>6. p \in Int
    <2> HIDE DEF k, b
    <2> QED  BY <1>1, <1>2
  <1>7. p <= m + sum /\ m + sum < p + 2 * sum  BY <1>2, <1>5 DEF b
  <1>8. p <= m + sum /\ p + sum >= m
    <2> HIDE DEF p, m
    <2> QED  BY <1>5, <1>6, <1>7
  <1>9. (2 * sum) * Rounded(total, q, sum) = p  BY <1>3 DEF b
  <1> QED  BY <1>2, <1>3, <1>8, <1>9

\* A bound on every element with a slack is a bound on the sum with as many slacks.
LEMMA SumSlack ==
  ASSUME NEW S, IsFiniteSet(S), NEW f, NEW g,
         \A x \in S : f[x] \in Int /\ g[x] \in Int,
         NEW c \in Int, NEW d \in Int, NEW k \in Int,
         \A x \in S : d * f[x] + k >= c * g[x]
  PROVE  d * SumFunctionOnSet(f, S) + k * Cardinality(S) >= c * SumFunctionOnSet(g, S)
  <1> DEFINE F(T) == SumFunctionOnSet(f, T)
             G(T) == SumFunctionOnSet(g, T)
             P == {T \in SUBSET S : d * F(T) + k * Cardinality(T) >= c * G(T)}
  <1>1. \A T \in SUBSET S : IsFiniteSet(T) /\ F(T) \in Int /\ G(T) \in Int /\ Cardinality(T) \in Int
    BY FS_Subset, FS_CardinalityType, SumInt
  <1>2. {} \in P
    <2>1. F({}) = 0 /\ G({}) = 0 /\ Cardinality({}) = 0  BY FS_EmptySet, SumStep
    <2> QED  BY <2>1
  <1>3. ASSUME NEW T \in SUBSET S, T # {}, \A x \in T : T \ {x} \in P  PROVE T \in P
    <2>1. PICK x \in T : TRUE  BY <1>3
    <2> DEFINE U == T \ {x}
    <2>2. /\ F(T) = f[x] + F(U) /\ G(T) = g[x] + G(U)
          /\ Cardinality(T) = Cardinality(U) + 1
      <3>1. IsFiniteSet(T) /\ \A y \in T : f[y] \in Int /\ g[y] \in Int  BY <1>1
      <3>2. F(T) = f[x] + F(U) /\ G(T) = g[x] + G(U)  BY <2>1, <3>1, SumRemove
      <3>3. Cardinality(U) = Cardinality(T) - 1  BY <2>1, <3>1, FS_RemoveElement
      <3> QED  BY <1>1, <3>2, <3>3
    <2>3. U \in SUBSET S /\ d * F(U) + k * Cardinality(U) >= c * G(U)  BY <1>3, <2>1
    <2>4. d * f[x] + k >= c * g[x] /\ f[x] \in Int /\ g[x] \in Int  BY <2>1
    <2>5. F(U) \in Int /\ G(U) \in Int /\ Cardinality(U) \in Int  BY <1>1, <2>3
    <2> DEFINE fu == F(U)
               gu == G(U)
               n == Cardinality(U)
               fx == f[x]
               gx == g[x]
    <2>6. d * (fx + fu) + k * (n + 1) >= c * (gx + gu)
      <3>1. fx \in Int /\ gx \in Int /\ fu \in Int /\ gu \in Int /\ n \in Int  BY <2>4, <2>5
      <3>2. d * fu + k * n >= c * gu /\ d * fx + k >= c * gx  BY <2>3, <2>4
      <3> HIDE DEF fu, gu, n, fx, gx
      <3>3. d * (fx + fu) = d * fx + d * fu /\ c * (gx + gu) = c * gx + c * gu /\ k * (n + 1) = k * n + k
        BY <3>1
      <3>4. d * fx \in Int /\ d * fu \in Int /\ c * gx \in Int /\ c * gu \in Int /\ k * n \in Int
        BY <3>1
      <3> QED  BY <3>2, <3>3, <3>4
    <2>7. d * F(T) + k * Cardinality(T) >= c * G(T)  BY <2>2, <2>6
    <2> QED  BY <2>7
  <1>4. S \in P
    <2> HIDE DEF P
    <2> QED  BY <1>2, <1>3, SubsetInduction
  <1> QED  BY <1>4

\* What a card needs for its parts to be computed.
CardOK(s) == IsFiniteSet(DOMAIN s) /\ \A i \in DOMAIN s : s[i].qty \in Nat /\ s[i].at \in Nat

LEMMA AllocatedNat ==
  ASSUME NEW s, CardOK(s)
  PROVE  Allocated(s) \in Nat /\ \A S \in SUBSET DOMAIN s : SumFunctionOnSet([i \in DOMAIN s |-> s[i].qty], S) \in Nat
  <1> DEFINE q == [i \in DOMAIN s |-> s[i].qty]
  <1>1. ASSUME NEW S \in SUBSET DOMAIN s  PROVE SumFunctionOnSet(q, S) \in Nat
    <2>1. IsFiniteSet(S) /\ \A i \in S : q[i] \in Nat  BY FS_Subset DEF CardOK
    <2> QED  BY <2>1, SumNat
  <1> QED  BY <1>1 DEF Allocated

LEMMA LastIsThere ==
  ASSUME NEW s, CardOK(s), DOMAIN s # {}
  PROVE  Last(s) \in DOMAIN s
  <1> DEFINE f == [i \in DOMAIN s |-> s[i].at]
  <1>1. \A i \in DOMAIN s : f[i] \in Int  BY DEF CardOK
  <1>2. \E i \in DOMAIN s : \A j \in DOMAIN s : f[j] <= f[i]
    <2> HIDE DEF f
    <2> QED  BY <1>1, MostExists DEF CardOK
  <1>3. \E i \in DOMAIN s : \A j \in DOMAIN s : s[j].at <= s[i].at  BY <1>2
  <1> QED  BY <1>3 DEF Last

\* A row more on a card.
LEMMA AllocatedMore ==
  ASSUME NEW s, CardOK(s), NEW t, CardOK(t), NEW y, y \notin DOMAIN s, DOMAIN t = DOMAIN s \cup {y},
         \A i \in DOMAIN s : t[i].qty = s[i].qty
  PROVE  Allocated(t) = Allocated(s) + t[y].qty
  <1> DEFINE f == [i \in DOMAIN s |-> s[i].qty]
             g == [i \in DOMAIN t |-> t[i].qty]
             S == DOMAIN s
  <1>1. \A i \in S \cup {y} : g[i] \in Int  BY DEF CardOK
  <1>2. SumFunctionOnSet(g, S \cup {y}) = SumFunctionOnSet(g, S) + g[y]
    <2>1. IsFiniteSet(S) /\ y \notin S  BY DEF CardOK
    <2> HIDE DEF g, S
    <2> QED  BY <1>1, <2>1, SumAdd
  <1>3. SumFunctionOnSet(g, S) = SumFunctionOnSet(f, S)
    <2>1. IsFiniteSet(S) /\ \A i \in S : g[i] = f[i]  BY DEF CardOK
    <2> HIDE DEF f, g, S
    <2> QED  BY <2>1, SumSame
  <1> QED  BY <1>2, <1>3 DEF Allocated

\* Fewer rows carry less.
LEMMA AllocatedLess ==
  ASSUME NEW s, CardOK(s), NEW t, CardOK(t), NEW y \in DOMAIN s, DOMAIN t = DOMAIN s \ {y},
         \A i \in DOMAIN t : t[i].qty = s[i].qty
  PROVE  Allocated(t) <= Allocated(s)
  <1>1. y \notin DOMAIN t /\ DOMAIN s = DOMAIN t \cup {y} /\ \A i \in DOMAIN t : s[i].qty = t[i].qty
    OBVIOUS
  <1>2. ASSUME NEW a, CardOK(a), NEW b, CardOK(b), y \notin DOMAIN a, DOMAIN b = DOMAIN a \cup {y},
               \A i \in DOMAIN a : b[i].qty = a[i].qty
        PROVE  Allocated(b) = Allocated(a) + b[y].qty
    BY <1>2, AllocatedMore
  <1>4. Allocated(s) = Allocated(t) + s[y].qty  BY <1>1, <1>2
  <1>3. Allocated(t) \in Nat /\ s[y].qty \in Nat  BY AllocatedNat DEF CardOK
  <1> QED  BY <1>3, <1>4

\* The rounded parts, and what the rows carry but for the one decided last.
RoundedParts(total, sum, s) == [i \in DOMAIN s |-> Rounded(total, s[i].qty, sum)]
Others(total, sum, s) == SumFunctionOnSet(RoundedParts(total, sum, s), DOMAIN s \ {Last(s)})

\* Each part of a sum is rounded; when nothing of the whole is left over the row
\* decided last takes what the others leave.
LEMMA SplitParts ==
  ASSUME NEW total \in Nat, NEW sum \in Nat, NEW s, CardOK(s), DOMAIN s # {}, sum # 0
  PROVE  /\ splitAmount(total, sum, s) = [i \in DOMAIN s |-> splitAmount(total, sum, s)[i]]
         /\ Others(total, sum, s) \in Int
         /\ \A i \in DOMAIN s : /\ splitAmount(total, sum, s)[i] \in Int
                                /\ RoundedParts(total, sum, s)[i] \in Int
         /\ sum > Allocated(s) => \A i \in DOMAIN s : splitAmount(total, sum, s)[i] = RoundedParts(total, sum, s)[i]
         /\ ~(sum > Allocated(s)) =>
               /\ splitAmount(total, sum, s)[Last(s)] = total - Others(total, sum, s)
               /\ \A i \in DOMAIN s \ {Last(s)} : splitAmount(total, sum, s)[i] = RoundedParts(total, sum, s)[i]
  <1> DEFINE part == RoundedParts(total, sum, s)
             p == splitAmount(total, sum, s)
             others == Others(total, sum, s)
  <1>0. /\ part = [i \in DOMAIN s |-> Rounded(total, s[i].qty, sum)]
        /\ others = SumFunctionOnSet(part, DOMAIN s \ {Last(s)})
    BY DEF RoundedParts, Others
  <1> SUFFICES
        /\ p = [i \in DOMAIN s |-> p[i]] /\ others \in Int
        /\ \A i \in DOMAIN s : p[i] \in Int /\ part[i] \in Int
        /\ sum > Allocated(s) => \A i \in DOMAIN s : p[i] = part[i]
        /\ ~(sum > Allocated(s)) => p[Last(s)] = total - others /\ \A i \in DOMAIN s \ {Last(s)} : p[i] = part[i]
    OBVIOUS
  <1>1. \A i \in DOMAIN s : part[i] \in Int
    <2>1. ASSUME NEW i \in DOMAIN s  PROVE part[i] \in Int
      <3>1. Rounded(total, s[i].qty, sum) \in Int  BY RoundedClose DEF CardOK
      <3> QED  BY <1>0, <3>1
    <2> QED  BY <2>1
  <1>2. others \in Int
    <2> DEFINE R == DOMAIN s \ {Last(s)}
    <2>1. IsFiniteSet(R) /\ \A i \in R : part[i] \in Int  BY <1>1, FS_Subset DEF CardOK
    <2> HIDE DEF part, others
    <2>2. SumFunctionOnSet(part, R) \in Int
      <3> HIDE DEF R
      <3> QED  BY <2>1, SumInt
    <2> QED  BY <1>0, <2>2 DEF R
  <1>3. p = IF sum > Allocated(s) THEN part
            ELSE [i \in DOMAIN s |-> IF i = Last(s) THEN total - others ELSE part[i]]
    BY DEF splitAmount, RoundedParts, Others
  <1> HIDE DEF part, p, others
  <1>4. Last(s) \in DOMAIN s  BY LastIsThere
  <1>5. DOMAIN part = DOMAIN s /\ part = [i \in DOMAIN s |-> part[i]]  BY <1>0
  <1>6. CASE sum > Allocated(s)  BY <1>1, <1>2, <1>3, <1>5, <1>6
  <1>7. CASE ~(sum > Allocated(s))
    <2>1. p = [i \in DOMAIN s |-> IF i = Last(s) THEN total - others ELSE part[i]]  BY <1>3, <1>7
    <2>2. /\ DOMAIN p = DOMAIN s /\ p = [i \in DOMAIN s |-> p[i]]
          /\ p[Last(s)] = total - others /\ \A i \in DOMAIN s \ {Last(s)} : p[i] = part[i]
      BY <1>4, <2>1
    <2>3. total - others \in Int  BY <1>2
    <2>4. \A i \in DOMAIN s : p[i] \in Int  BY <1>1, <2>2, <2>3
    <2> QED  BY <1>1, <1>2, <1>7, <2>2, <2>4
  <1> QED  BY <1>6, <1>7

\* When nothing of the whole is left over the parts add up to the sum, to the last unit.
THEOREM PartsAddUp ==
  ASSUME NEW total \in Nat, NEW accepted \in Nat, NEW s, CardOK(s), DOMAIN s # {},
         accepted # 0, Allocated(s) = accepted
  PROVE  SumFunctionOnSet(Parts(total, accepted, s), DOMAIN s) = total
  <1> DEFINE part == RoundedParts(total, accepted, s)
             p == splitAmount(total, accepted, s)
             R == DOMAIN s \ {Last(s)}
             others == Others(total, accepted, s)
  <1>1. Parts(total, accepted, s) = p  BY DEF Parts
  <1>2. /\ others \in Int /\ \A i \in DOMAIN s : p[i] \in Int /\ part[i] \in Int
        /\ p[Last(s)] = total - others /\ \A i \in R : p[i] = part[i]
    <2>1. ~(accepted > Allocated(s))  OBVIOUS
    <2> QED  BY <2>1, SplitParts
  <1>3. Last(s) \in DOMAIN s /\ IsFiniteSet(DOMAIN s) /\ IsFiniteSet(R)
    BY LastIsThere, FS_Subset DEF CardOK
  <1>4. SumFunctionOnSet(p, R) = others
    <2>1. others = SumFunctionOnSet(part, R)  BY DEF Others
    <2> HIDE DEF part, p, R, others
    <2> QED  BY <1>2, <1>3, <2>1, SumSame
  <1>5. SumFunctionOnSet(p, DOMAIN s) = p[Last(s)] + SumFunctionOnSet(p, R)
    <2> HIDE DEF part, p, others
    <2> QED  BY <1>2, <1>3, SumRemove
  <1>6. SumFunctionOnSet(p, DOMAIN s) = total
    <2> HIDE DEF part, p, R, others
    <2> QED  BY <1>2, <1>4, <1>5
  <1> QED  BY <1>1, <1>6

\* No row carries more than its part of the sum by more than half a unit for each row.
THEOREM PartsBounded ==
  ASSUME NEW total \in Nat, NEW accepted \in Nat, NEW s, CardOK(s), NEW i \in DOMAIN s,
         accepted # 0, Allocated(s) <= accepted
  PROVE  2 * Parts(total, accepted, s)[i] * accepted
           <= 2 * total * s[i].qty + accepted * Cardinality(DOMAIN s)
  <1> DEFINE part == RoundedParts(total, accepted, s)
             q == [j \in DOMAIN s |-> s[j].qty]
             p == splitAmount(total, accepted, s)
             n == Cardinality(DOMAIN s)
             z == Last(s)
             R == DOMAIN s \ {z}
             others == Others(total, accepted, s)
             rest == SumFunctionOnSet(q, R)
             d == 2 * accepted
             c == 2 * total
  <1>1. Parts(total, accepted, s) = p
    <2>1. Allocated(s) \in Nat  BY AllocatedNat
    <2>2. CASE accepted > Allocated(s)  BY <2>2 DEF Parts
    <2>3. CASE ~(accepted > Allocated(s))
      <3>1. Allocated(s) = accepted  BY <2>1, <2>3
      <3> QED  BY <3>1 DEF Parts
    <2> QED  BY <2>2, <2>3
  <1>2. /\ others \in Int /\ \A j \in DOMAIN s : p[j] \in Int /\ part[j] \in Int
        /\ accepted > Allocated(s) => \A j \in DOMAIN s : p[j] = part[j]
        /\ ~(accepted > Allocated(s)) => p[z] = total - others /\ \A j \in R : p[j] = part[j]
    <2>1. DOMAIN s # {}  OBVIOUS
    <2> QED  BY <2>1, SplitParts
  <1>3. /\ z \in DOMAIN s /\ IsFiniteSet(DOMAIN s) /\ IsFiniteSet(R) /\ i \notin {} /\ n \in Nat
        /\ Cardinality(R) = n - 1
    <2>1. z \in DOMAIN s /\ IsFiniteSet(DOMAIN s)  BY LastIsThere DEF CardOK
    <2> HIDE DEF z
    <2> QED  BY <2>1, FS_RemoveElement, FS_CardinalityType
  <1>4. n >= 1
    <2>1. Cardinality(R) \in Nat  BY <1>3, FS_CardinalityType
    <2> QED  BY <1>3, <2>1
  <1>5. \A j \in DOMAIN s : /\ q[j] \in Nat /\ d * part[j] <= c * q[j] + accepted
                            /\ d * part[j] + accepted >= c * q[j]
    <2>1. ASSUME NEW j \in DOMAIN s
          PROVE  /\ q[j] \in Nat /\ d * part[j] <= c * q[j] + accepted
                 /\ d * part[j] + accepted >= c * q[j]
      <3>1. s[j].qty \in Nat  BY DEF CardOK
      <3>2. part[j] = Rounded(total, s[j].qty, accepted) /\ q[j] = s[j].qty  BY DEF RoundedParts
      <3> HIDE DEF part, q
      <3> QED  BY <3>1, <3>2, RoundedClose
    <2> QED  BY <2>1
  <1>6. d * p[i] <= c * q[i] + accepted * n
    <2>1. CASE p[i] = part[i]
      <3>1. d * part[i] <= c * q[i] + accepted /\ q[i] \in Nat /\ part[i] \in Int  BY <1>2, <1>5
      <3>2. accepted * n >= accepted /\ accepted * n \in Nat
        <4>1. n - 1 \in Nat  BY <1>3, <1>4
        <4>2. accepted * (n - 1) \in Nat  BY <4>1
        <4>3. accepted * n = accepted * (n - 1) + accepted  BY <1>3
        <4> HIDE DEF n
        <4> QED  BY <1>3, <4>2, <4>3
      <3> DEFINE a == d * part[i]
                 b == c * q[i]
                 k == accepted * n
      <3>3. a \in Int /\ b \in Int
        <4> HIDE DEF part, q
        <4> QED  BY <3>1
      <3>4. a <= b + k
        <4>1. a <= b + accepted /\ k >= accepted /\ k \in Nat  BY <3>1, <3>2
        <4> HIDE DEF a, b, k
        <4> QED  BY <3>3, <4>1
      <3> QED  BY <2>1, <3>4
    <2>2. CASE p[i] # part[i]
      <3>1. i = z /\ ~(accepted > Allocated(s)) /\ p[i] = total - others
        BY <1>2, <2>2
      <3>2. Allocated(s) = accepted  BY <3>1, AllocatedNat
      <3>3. accepted = q[i] + rest /\ rest \in Nat /\ q[i] \in Nat
        <4>1. SumFunctionOnSet(q, DOMAIN s) = accepted  BY <3>2 DEF Allocated
        <4>2. \A j \in DOMAIN s : q[j] \in Int  BY <1>5
        <4>3. rest \in Nat  BY AllocatedNat
        <4>4. q[i] \in Nat  BY <1>5
        <4> HIDE DEF q, z
        <4> QED  BY <1>3, <3>1, <4>1, <4>2, <4>3, <4>4, SumRemove
      <3>4. d * others + accepted * Cardinality(R) >= c * rest
        <4>1. \A j \in R : part[j] \in Int /\ q[j] \in Int /\ d * part[j] + accepted >= c * q[j]
          BY <1>2, <1>5
        <4>2. d \in Int /\ c \in Int /\ accepted \in Int  OBVIOUS
        <4>3. others = SumFunctionOnSet(part, R)  BY DEF Others
        <4> HIDE DEF part, q, R, d, c, others
        <4> QED  BY <1>3, <4>1, <4>2, <4>3, SumSlack
      <3> DEFINE m == Cardinality(R)
                 qi == q[i]
      <3>5. /\ d * p[i] = d * total - d * others
            /\ d * total = c * accepted /\ c * accepted = c * qi + c * rest
            /\ accepted * n = accepted * m + accepted
            /\ d * total \in Int /\ d * others \in Int /\ c * qi \in Int /\ c * rest \in Int /\ accepted * m \in Nat
        <4>1. qi \in Nat /\ rest \in Nat /\ others \in Int /\ accepted = qi + rest  BY <1>2, <3>3
        <4>2. m \in Nat /\ n = m + 1  BY <1>3, <1>4
        <4>3. p[i] = total - others  BY <3>1
        <4>4. d * total = c * accepted  OBVIOUS
        <4>5. c \in Nat /\ d \in Nat  OBVIOUS
        <4> HIDE DEF p, others, rest, qi, m, n, c, d
        <4>6. d * p[i] = d * total - d * others  BY <4>1, <4>3, <4>5
        <4>7. c * accepted = c * qi + c * rest  BY <4>1, <4>5
        <4>8. accepted * n = accepted * m + accepted  BY <4>2
        <4>9. d * total \in Int /\ d * others \in Int  BY <4>1, <4>5
        <4>10. c * qi \in Int /\ c * rest \in Int  BY <4>1, <4>5
        <4>11. accepted * m \in Nat  BY <4>2
        <4> QED  BY <4>4, <4>6, <4>7, <4>8, <4>9, <4>10, <4>11
      <3> DEFINE k == accepted * m
                 x == d * others
                 y == c * rest
                 w == c * qi
      <3>6. x + k >= y  BY <3>4
      <3> HIDE DEF k, x, y, w
      <3>7. d * p[i] = w + y - x /\ accepted * n = k + accepted /\ x \in Int /\ y \in Int /\ w \in Int /\ k \in Nat
        <4>1. d * p[i] = d * total - x  BY <3>5 DEF x
        <4>2. d * total = w + y  BY <3>5 DEF w, y
        <4>3. d * total \in Int  BY <3>5
        <4> QED  BY <3>5, <4>1, <4>2, <4>3 DEF x, y, w, k
      <3>8. d * p[i] <= w + accepted * n
        <4> DEFINE l == d * p[i]
                   r == accepted * n
        <4>1. l = w + y - x /\ r = k + accepted  BY <3>7
        <4> HIDE DEF l, r
        <4>2. l <= w + r  BY <3>6, <3>7, <4>1
        <4> QED  BY <4>2 DEF l, r
      <3> QED  BY <3>8 DEF w
    <2> QED  BY <2>1, <2>2
  <1>7. 2 * p[i] * accepted = d * p[i] /\ 2 * total * s[i].qty = c * q[i]
    <2>1. p[i] \in Int /\ s[i].qty \in Nat /\ q[i] = s[i].qty  BY <1>2 DEF CardOK
    <2> HIDE DEF p, q
    <2>2. 2 * p[i] * accepted = d * p[i]  BY <2>1
    <2>3. 2 * total * s[i].qty = c * q[i]  BY <2>1
    <2> QED  BY <2>2, <2>3
  <1> QED  BY <1>1, <1>6, <1>7
(***************************************************************************)
(* The inductive invariant.  Calls meet wherever they like; what is said   *)
(* of a request or of an order is said of one no two calls have met on.    *)
(***************************************************************************)

\* A request has one row for an order, and its rows stay within its act.
OneRowOf(r) == \A i, j \in Rows(r) : works[i].order = works[j].order => i = j
WithinOf(r) ==
    /\ reqs[r].accepted > 0 => Allocated(Spread(Rows(r))) <= reqs[r].accepted
    /\ reqs[r].status = "CANCELLED" => Rows(r) = {}
Within == \A r \in Requests \ crossed : OneRowOf(r) /\ WithinOf(r)

\* The rows of an act carry its parts, but while a call writes them and after one
\* that stopped half way.
PartsOf(r) == Parts(reqs[r].amount, reqs[r].accepted, Spread(Rows(r)))
Balanced(r) == \A i \in Rows(r) : works[i].amount = PartsOf(r)[i]
Redoes(u, r) == (Redistributes(u, "split") \/ Redistributes(u, "write")) /\ call[u].r = r
Balance == \A r \in Requests \ crossed :
    reqs[r].accepted > 0 /\ ~torn[r] /\ (\A u \in Users : ~Redoes(u, r)) => Balanced(r)

RedoKinds == {"update", "allocate", "remove", "accept"}
RedoFields == {"kind", "on", "step", "r", "read", "left", "parts"}

\* The rows a call names, and the one it has yet to insert, which nobody else names.
Held(c) == (IF c.kind \in {"allocate", "remove", "assign"} THEN {c.id} ELSE {})
           \cup (IF c.kind \in RedoKinds THEN c.left ELSE {})
Pending(c) == c.kind \in {"allocate", "assign"} /\ c.step = "row" /\ c.new
NewIds == \A u, v \in Users : u # v /\ Pending(call[u]) => call[u].id \notin Held(call[v])

\* What two calls have met on has been crossed.
Exclusive == \A u, v \in Users : u # v => call[u].on \cap call[v].on \subseteq crossed

\* What a call has read and decided still holds when it writes.
WriteOK(c) ==
    /\ c.read = Spread(Rows(c.r)) /\ c.parts = PartsOf(c.r) /\ c.left \subseteq Rows(c.r)
    /\ reqs[c.r].accepted > 0 => \A i \in Rows(c.r) \ c.left : works[i].amount = c.parts[i]
    /\ reqs[c.r].accepted = 0 => c.left = {}
AllocateOK(c) ==
    /\ {"o", "qty", "share", "id", "new", "status", "acted"} \subseteq DOMAIN c
    /\ c.o \in Orders /\ c.qty \in Nat \ {0} /\ c.share \in Shares /\ c.new \in BOOLEAN
    /\ c.status \in Statuses \ {"CANCELLED"}
    /\ c.id \in DOMAIN works => works[c.id].order = c.o
    /\ c.step = "row" =>
        /\ c.new => c.id \notin DOMAIN works
        /\ c.o \notin crossed => ShareFits(c.o, c.id, c.share)
        /\ c.r \notin crossed =>
            /\ reqs[c.r].status # "CANCELLED" /\ QtyFits(c.r, c.o, c.qty)
            /\ c.new => Same(c.r, c.o) = {}
            /\ ~c.new => c.id \in Same(c.r, c.o)
AcceptOK(c) ==
    /\ {"qty", "base", "status", "card", "shown"} \subseteq DOMAIN c
    /\ c.shown = Preview(c.base.asked, c.qty, c.card) /\ c.qty \in Nat \ {0}
    /\ c.status \in Statuses \ {"CANCELLED"}
    /\ c.base.amount \in Nat /\ c.base.doc \in Docs \cup {Nothing}
    /\ c.r \notin crossed =>
        IF c.step = "head" THEN Covers(c.qty, Rows(c.r))
        ELSE reqs[c.r].accepted = c.qty /\ reqs[c.r].amount = c.base.amount

RedoOK(c) ==
    /\ c.kind \in RedoKinds /\ RedoFields \subseteq DOMAIN c /\ c.r \in Requests
    /\ c.on = IF c.kind = "allocate" THEN {c.r, c.o} ELSE {c.r}
    /\ c.step \in {"head", "row", "split", "write"}
    /\ c.kind = "update" => {"ready", "rows"} \subseteq DOMAIN c /\ c.ready \in BOOLEAN
    /\ c.kind = "allocate" => AllocateOK(c)
    /\ c.kind = "accept" => AcceptOK(c)
    /\ c.kind = "remove" => "id" \in DOMAIN c
    /\ \A i \in Held(c) : i \in 1..calls /\ (i \in DOMAIN works => works[i].request = c.r)
    /\ \A i \in c.left : c.parts[i] \in Int
    /\ c.r \notin crossed =>
        /\ c.kind = "remove" /\ c.step = "row" => c.id \in Rows(c.r)
        /\ c.step = "write" => WriteOK(c)
SendOK(c) ==
    /\ c.kind = "send" /\ {"kind", "on", "step", "rows"} \subseteq DOMAIN c
    /\ c.step \in {"deal", "head"} /\ c.on = c.rows /\ c.rows \subseteq Requests
CancelOK(c) ==
    /\ c.kind = "cancel" /\ {"kind", "on", "step", "r"} \subseteq DOMAIN c
    /\ c.step = "head" /\ c.r \in Requests /\ c.on = {c.r}
    /\ c.r \notin crossed => Rows(c.r) = {}
AssignOK(c) ==
    /\ c.kind = "assign" /\ {"kind", "on", "step", "o", "share", "id", "new"} \subseteq DOMAIN c
    /\ c.step = "row" /\ c.o \in Orders /\ c.on = {c.o}
    /\ c.share \in Shares /\ c.id \in 1..calls /\ c.new \in BOOLEAN
    /\ c.id \in DOMAIN works => works[c.id].order = c.o
    /\ c.new => c.id \notin DOMAIN works
    /\ c.o \notin crossed => ShareFits(c.o, c.id, c.share)
CallOK(c) == c = Idle \/ RedoOK(c) \/ SendOK(c) \/ CancelOK(c) \/ AssignOK(c)
CallsOK == call = [u \in Users |-> call[u]] /\ \A u \in Users : CallOK(call[u])

CWInv == TypeOK /\ Exclusive /\ NewIds /\ Within /\ WholeWork /\ Balance /\ CallsOK

(***************************************************************************)
(* Rows and cards                                                          *)
(***************************************************************************)

LEMMA SpreadIs ==
  ASSUME NEW S
  PROVE  /\ DOMAIN Spread(S) = S
         /\ \A i \in S : /\ Spread(S)[i].order = works[i].order /\ Spread(S)[i].qty = works[i].qty
                         /\ Spread(S)[i].at = works[i].at
  BY DEF Spread

LEMMA SpreadIsNext ==
  ASSUME NEW S
  PROVE  /\ DOMAIN Spread(S)' = S'
         /\ \A i \in S' : /\ Spread(S)'[i].order = works'[i].order /\ Spread(S)'[i].qty = works'[i].qty
                          /\ Spread(S)'[i].at = works'[i].at
  BY DEF Spread

LEMMA CardsOK ==
  ASSUME TypeOK, NEW S \in SUBSET DOMAIN works
  PROVE  CardOK(Spread(S)) /\ IsFiniteSet(S) /\ \A i \in S : works[i] \in Work
  <1>1. \A i \in S : works[i] \in Work  BY DEF TypeOK
  <1>2. IsFiniteSet(S)  BY FS_Subset DEF TypeOK
  <1> QED  BY <1>1, <1>2, SpreadIs DEF CardOK, Work

\* Rows that keep their order, quantity and date give the same card.
LEMMA SameCard ==
  ASSUME NEW S, \A i \in S : /\ works'[i].order = works[i].order /\ works'[i].qty = works[i].qty
                             /\ works'[i].at = works[i].at
  PROVE  [i \in S |-> [order |-> works'[i].order, qty |-> works'[i].qty, at |-> works'[i].at]] = Spread(S)
  BY DEF Spread

\* Rows of a request that are all there still and read the same.
LEMMA RowsKeep ==
  ASSUME NEW r, Rows(r)' = Rows(r),
         \A i \in Rows(r) : /\ works'[i].order = works[i].order /\ works'[i].qty = works[i].qty
                            /\ works'[i].at = works[i].at
  PROVE  Spread(Rows(r))' = Spread(Rows(r))
  <1>1. Spread(Rows(r))' = [i \in Rows(r) |->
           [order |-> works'[i].order, qty |-> works'[i].qty, at |-> works'[i].at]]
    BY DEF Spread
  <1> QED  BY <1>1, SameCard

LEMMA CardNext ==
  ASSUME TypeOK', NEW r
  PROVE  CardOK(Spread(Rows(r))')
  <1>1. \A i \in Rows(r)' : works'[i] \in Work  BY DEF TypeOK, Rows
  <1>2. IsFiniteSet(Rows(r)')  BY FS_Subset DEF TypeOK, Rows
  <1> QED  BY <1>1, <1>2, SpreadIsNext DEF CardOK, Work

LEMMA ShareNat ==
  ASSUME TypeOK
  PROVE  \A i \in DOMAIN works : works[i].share \in Nat
  <1>1. \A i \in DOMAIN works : works[i].share \in Shares  BY DEF TypeOK, Work
  <1>2. Shares \subseteq 1..100  BY ContractorAssumption
  <1>3. \A x \in Shares : x \in Nat  BY <1>2
  <1> QED  BY <1>1, <1>3

\* What is given away of an order: a number, whatever rows are left out.
LEMMA TakenNat ==
  ASSUME TypeOK, NEW o, NEW S
  PROVE  takenShare(o, S) \in Nat
  <1> DEFINE f == [i \in DOMAIN works |-> works[i].share]
             T == {i \in DOMAIN works \ S : works[i].order = o}
  <1>1. IsFiniteSet(T)  BY FS_Subset DEF TypeOK
  <1>2. \A i \in T : f[i] \in Nat  BY ShareNat
  <1>3. SumFunctionOnSet(f, T) \in Nat
    <2> HIDE DEF f, T
    <2> QED  BY <1>1, <1>2, SumNat
  <1> QED  BY <1>3 DEF takenShare

\* The date of a row decided now.
LEMMA NowNat ==
  ASSUME TypeOK
  PROVE  Now \in Nat
  <1> DEFINE f == [i \in DOMAIN works |-> works[i].at]
  <1>1. \A i \in DOMAIN works : f[i] \in Nat  BY DEF TypeOK, Work
  <1>2. CASE DOMAIN works = {}  BY <1>2 DEF Now, Ats
  <1>3. CASE DOMAIN works # {}
    <2>1. IsFiniteSet(DOMAIN works)  BY DEF TypeOK
    <2>2. \A i \in DOMAIN works : f[i] \in Int  BY <1>1
    <2>3. PICK x \in DOMAIN works : \A y \in DOMAIN works : f[y] <= f[x]
      <3> HIDE DEF f
      <3> QED  BY <1>3, <2>1, <2>2, MostExists
    <2>4. f[x] \in Ats /\ \A n \in Ats : n <= f[x]  BY <2>3 DEF Ats
    <2> DEFINE m == CHOOSE k \in Ats : \A n \in Ats : n <= k
    <2>5. m \in Ats  BY <2>4
    <2>6. Ats \subseteq Nat /\ Ats # {}  BY <1>1, <2>4 DEF Ats
    <2>7. Now = 1 + m  BY <2>6 DEF Now
    <2>8. m \in Nat  BY <2>5, <2>6
    <2> HIDE DEF m
    <2> QED  BY <2>7, <2>8
  <1> QED  BY <1>2, <1>3
----------------------------------------------------------------------------
(* What a step leaves alone                                                *)

\* A request reads as it did, and has not been cancelled.
Apart(q) ==
    /\ reqs'[q].accepted = reqs[q].accepted /\ reqs'[q].amount = reqs[q].amount
    /\ reqs'[q].status = "CANCELLED" => reqs[q].status = "CANCELLED"
    /\ Rows(q)' = Rows(q)
    /\ \A i \in Rows(q) : /\ works'[i].order = works[i].order /\ works'[i].qty = works[i].qty
                          /\ works'[i].at = works[i].at /\ works'[i].amount = works[i].amount
\* No more of an order is given away than was.
NoMore(o) == \A T : takenShare(o, T)' \in Int /\ takenShare(o, T)' <= takenShare(o, T)
\* A row that is there still is one of the same request and order.
RowsStay == \A i \in DOMAIN works \cap DOMAIN works' :
    works'[i].request = works[i].request /\ works'[i].order = works[i].order
Frame(S) == (\A q \in Requests \ S : Apart(q)) /\ (\A o \in Orders \ S : NoMore(o)) /\ RowsStay

LEMMA ApartSame ==
  ASSUME NEW q, Apart(q)
  PROVE  /\ Rows(q)' = Rows(q) /\ Spread(Rows(q))' = Spread(Rows(q)) /\ PartsOf(q)' = PartsOf(q)
         /\ Balanced(q) => Balanced(q)'
         /\ OneRowOf(q) /\ WithinOf(q) => OneRowOf(q)' /\ WithinOf(q)'
  <1>1. Rows(q)' = Rows(q) /\ Spread(Rows(q))' = Spread(Rows(q))  BY RowsKeep DEF Apart
  <1>2. PartsOf(q)' = PartsOf(q)  BY <1>1 DEF PartsOf, Apart
  <1>3. Balanced(q) => Balanced(q)'  BY <1>1, <1>2 DEF Balanced, Apart
  <1>4. OneRowOf(q) => OneRowOf(q)'  BY <1>1 DEF OneRowOf, Apart
  <1>5. WithinOf(q) => WithinOf(q)'  BY <1>1 DEF WithinOf, Apart
  <1> QED  BY <1>1, <1>2, <1>3, <1>4, <1>5

\* What is allocated but for an order reads the same, too.
LEMMA ApartFits ==
  ASSUME NEW q, Apart(q), NEW o, NEW n
  PROVE  /\ Same(q, o)' = Same(q, o)
         /\ QtyFits(q, o, n) => QtyFits(q, o, n)'
  <1>1. Same(q, o)' = Same(q, o)  BY DEF Same, Apart
  <1>2. Spread(Rows(q) \ Same(q, o))' = Spread(Rows(q) \ Same(q, o))
    <2> DEFINE A == Rows(q) \ Same(q, o)
    <2>1. A' = A  BY <1>1 DEF Apart
    <2>2. \A i \in A : /\ works'[i].order = works[i].order /\ works'[i].qty = works[i].qty
                       /\ works'[i].at = works[i].at
      BY DEF Apart
    <2>3. Spread(A)' = [i \in A |->
             [order |-> works'[i].order, qty |-> works'[i].qty, at |-> works'[i].at]]
      BY <2>1 DEF Spread
    <2>4. [i \in A |-> [order |-> works'[i].order, qty |-> works'[i].qty, at |-> works'[i].at]] = Spread(A)
      BY <2>2 DEF Spread
    <2> QED  BY <2>3, <2>4
  <1> QED  BY <1>1, <1>2 DEF QtyFits, Apart

\* Rows as they were, and requests that read as they did.
LEMMA WorksAsWere ==
  ASSUME TypeOK, UNCHANGED works, NEW S,
         \A q \in Requests \ S : /\ reqs'[q].accepted = reqs[q].accepted /\ reqs'[q].amount = reqs[q].amount
                                 /\ reqs'[q].status = "CANCELLED" => reqs[q].status = "CANCELLED"
  PROVE  Frame(S)
  <1>1. \A q \in Requests \ S : Apart(q)  BY DEF Apart, Rows
  <1>2. \A o : NoMore(o)
    <2> SUFFICES ASSUME NEW o, NEW T PROVE takenShare(o, T)' \in Int /\ takenShare(o, T)' <= takenShare(o, T)
      BY DEF NoMore
    <2>1. takenShare(o, T)' = takenShare(o, T)  BY DEF takenShare
    <2>2. takenShare(o, T) \in Nat  BY TakenNat
    <2> QED  BY <2>1, <2>2
  <1> QED  BY <1>1, <1>2 DEF Frame, RowsStay

\* Of what a step does not touch, and no call met another on, the claims stand.
LEMMA WithinKeeps ==
  ASSUME Within, NEW S, Frame(S), crossed \subseteq crossed',
         \A q \in (Requests \cap S) \ crossed' : OneRowOf(q)' /\ WithinOf(q)'
  PROVE  Within'
  <1> SUFFICES ASSUME NEW q \in Requests \ crossed' PROVE OneRowOf(q)' /\ WithinOf(q)'  BY DEF Within
  <1>1. CASE q \in S  BY <1>1
  <1>2. CASE q \notin S
    <2>1. Apart(q) /\ OneRowOf(q) /\ WithinOf(q)  BY <1>2 DEF Frame, Within
    <2> QED  BY <2>1, ApartSame
  <1> QED  BY <1>1, <1>2

LEMMA WholeKeeps ==
  ASSUME TypeOK, WholeWork, NEW S, Frame(S), crossed \subseteq crossed',
         \A o \in (Orders \cap S) \ crossed' : takenShare(o, {})' <= 100
  PROVE  WholeWork'
  <1> SUFFICES ASSUME NEW o \in Orders \ crossed' PROVE takenShare(o, {})' <= 100  BY DEF WholeWork
  <1>1. CASE o \in S  BY <1>1
  <1>2. CASE o \notin S
    <2>1. takenShare(o, {})' \in Int /\ takenShare(o, {})' <= takenShare(o, {})  BY <1>2 DEF Frame, NoMore
    <2>2. takenShare(o, {}) \in Nat /\ takenShare(o, {}) <= 100  BY TakenNat DEF WholeWork
    <2> QED  BY <2>1, <2>2
  <1> QED  BY <1>1, <1>2

----------------------------------------------------------------------------
(* Calls under way, while others take their steps                          *)

LEMMA OnOf ==
  ASSUME NEW c, RedoOK(c)
  PROVE  /\ c.r \in c.on /\ c.r \in Requests /\ c.on \cap Requests = {c.r}
         /\ c.kind = "allocate" => c.o \in c.on /\ c.on \cap Orders = {c.o} /\ c.on = {c.r, c.o}
         /\ c.kind # "allocate" => c.on = {c.r} /\ c.on \cap Orders = {}
  <1>1. c.kind = "allocate" => c.o \in Orders  BY DEF RedoOK, AllocateOK
  <1>2. Requests \cap Orders = {}  BY ContractorAssumption
  <1> QED  BY <1>1, <1>2 DEF RedoOK

\* A share that fitted fits still.
LEMMA FitsStill ==
  ASSUME TypeOK, NEW o, NoMore(o), NEW id, NEW share \in Shares, ShareFits(o, id, share)
  PROVE  ShareFits(o, id, share)'
  <1>1. takenShare(o, {id})' \in Int /\ takenShare(o, {id})' <= takenShare(o, {id})  BY DEF NoMore
  <1>2. takenShare(o, {id}) \in Nat /\ takenShare(o, {id}) + share <= 100  BY TakenNat DEF ShareFits
  <1>3. share \in Nat
    <2>1. Shares \subseteq 1..100  BY ContractorAssumption
    <2> QED  BY <2>1
  <1>4. takenShare(o, {id})' + share <= 100  BY <1>1, <1>2, <1>3
  <1> QED  BY <1>4 DEF ShareFits

\* A call stays as good as it was when the step of another touches nothing it is on
\* but what has been crossed, and inserts no row it names.
LEMMA CallKeeps ==
  ASSUME TypeOK, NEW c, CallOK(c), NEW S, Frame(S), c.on \cap S \subseteq crossed, crossed \subseteq crossed',
         calls \in Nat, calls' \in Nat, calls <= calls',
         \A i \in DOMAIN works' \ DOMAIN works : i \notin Held(c)
  PROVE  CallOK(c)'
  <1>1. \A i \in DOMAIN works' : i \in Held(c) =>
          i \in DOMAIN works /\ works'[i].request = works[i].request /\ works'[i].order = works[i].order
    BY DEF Frame, RowsStay
  <1>2. \A x : x \notin crossed' => x \notin crossed  OBVIOUS
  <1>3. \A i \in 1..calls : i \in 1..calls'  OBVIOUS
  <1>4. CASE c = Idle  BY <1>4 DEF CallOK
  <1>5. CASE RedoOK(c)
    <2>1. c.r \notin crossed' => Apart(c.r)
      <3>1. c.r \in c.on /\ c.r \in Requests  BY <1>5, OnOf
      <3> QED  BY <3>1 DEF Frame
    <2>2. c.kind = "allocate" => AllocateOK(c)'
      <3> SUFFICES ASSUME c.kind = "allocate" PROVE AllocateOK(c)'  OBVIOUS
      <3>1. AllocateOK(c) /\ c.id \in Held(c) /\ c.o \in c.on  BY <1>5, OnOf DEF RedoOK, Held
      <3>2. c.id \in DOMAIN works' => works'[c.id].order = c.o  BY <1>1, <3>1 DEF AllocateOK
      <3>3. c.step = "row" /\ c.new => c.id \notin DOMAIN works'  BY <1>1, <3>1 DEF AllocateOK
      <3>4. c.step = "row" /\ c.o \notin crossed' => ShareFits(c.o, c.id, c.share)'
        <4> SUFFICES ASSUME c.step = "row", c.o \notin crossed' PROVE ShareFits(c.o, c.id, c.share)'  OBVIOUS
        <4>1. c.o \in Orders /\ c.share \in Shares /\ ShareFits(c.o, c.id, c.share)
          BY <1>2, <3>1 DEF AllocateOK
        <4>2. NoMore(c.o)  BY <3>1, <4>1 DEF Frame
        <4> QED  BY <4>1, <4>2, FitsStill
      <3>5. c.step = "row" /\ c.r \notin crossed' =>
              /\ reqs'[c.r].status # "CANCELLED" /\ QtyFits(c.r, c.o, c.qty)'
              /\ c.new => Same(c.r, c.o)' = {}
              /\ ~c.new => c.id \in Same(c.r, c.o)'
        <4> SUFFICES ASSUME c.step = "row", c.r \notin crossed'
                     PROVE  /\ reqs'[c.r].status # "CANCELLED" /\ QtyFits(c.r, c.o, c.qty)'
                            /\ c.new => Same(c.r, c.o)' = {}
                            /\ ~c.new => c.id \in Same(c.r, c.o)'
          OBVIOUS
        <4>1. /\ reqs[c.r].status # "CANCELLED" /\ QtyFits(c.r, c.o, c.qty)
              /\ c.new => Same(c.r, c.o) = {}
              /\ ~c.new => c.id \in Same(c.r, c.o)
          BY <1>2, <3>1 DEF AllocateOK
        <4>2. /\ Same(c.r, c.o)' = Same(c.r, c.o)
              /\ QtyFits(c.r, c.o, c.qty) => QtyFits(c.r, c.o, c.qty)'
          BY <2>1, ApartFits
        <4>3. reqs'[c.r].status # "CANCELLED"  BY <2>1, <4>1 DEF Apart
        <4> QED  BY <4>1, <4>2, <4>3
      <3> QED  BY <3>1, <3>2, <3>3, <3>4, <3>5 DEF AllocateOK
    <2>3. c.kind = "accept" => AcceptOK(c)'
      <3> SUFFICES ASSUME c.kind = "accept" PROVE AcceptOK(c)'  OBVIOUS
      <3>1. AcceptOK(c)  BY <1>5 DEF RedoOK
      <3>2. (c.shown = Preview(c.base.asked, c.qty, c.card))'  BY <3>1 DEF AcceptOK
      <3>3. c.r \notin crossed' =>
              (IF c.step = "head" THEN Covers(c.qty, Rows(c.r))
               ELSE reqs[c.r].accepted = c.qty /\ reqs[c.r].amount = c.base.amount)'
        <4> SUFFICES ASSUME c.r \notin crossed'
                     PROVE  (IF c.step = "head" THEN Covers(c.qty, Rows(c.r))
                             ELSE reqs[c.r].accepted = c.qty /\ reqs[c.r].amount = c.base.amount)'
          OBVIOUS
        <4>1. Apart(c.r) /\ Spread(Rows(c.r))' = Spread(Rows(c.r))  BY <2>1, ApartSame
        <4>2. IF c.step = "head" THEN Covers(c.qty, Rows(c.r))
              ELSE reqs[c.r].accepted = c.qty /\ reqs[c.r].amount = c.base.amount
          BY <1>2, <3>1 DEF AcceptOK
        <4>3. CASE c.step = "head"  BY <4>1, <4>2, <4>3 DEF Covers
        <4>4. CASE c.step # "head"  BY <4>1, <4>2, <4>4 DEF Apart
        <4> QED  BY <4>3, <4>4
      <3> QED  BY <3>1, <3>2, <3>3 DEF AcceptOK
    <2>4. \A i \in Held(c) : i \in 1..calls' /\ (i \in DOMAIN works' => works'[i].request = c.r)
      BY <1>1, <1>3, <1>5 DEF RedoOK
    <2>5. c.r \notin crossed' =>
            /\ c.kind = "remove" /\ c.step = "row" => c.id \in Rows(c.r)'
            /\ c.step = "write" => WriteOK(c)'
      <3> SUFFICES ASSUME c.r \notin crossed'
                   PROVE  /\ c.kind = "remove" /\ c.step = "row" => c.id \in Rows(c.r)'
                          /\ c.step = "write" => WriteOK(c)'
        OBVIOUS
      <3>1. /\ c.kind = "remove" /\ c.step = "row" => c.id \in Rows(c.r)
            /\ c.step = "write" => WriteOK(c)
        BY <1>2, <1>5 DEF RedoOK
      <3>2. /\ Rows(c.r)' = Rows(c.r) /\ Spread(Rows(c.r))' = Spread(Rows(c.r)) /\ PartsOf(c.r)' = PartsOf(c.r)
            /\ reqs'[c.r].accepted = reqs[c.r].accepted
            /\ \A i \in Rows(c.r) : works'[i].amount = works[i].amount
        BY <2>1, ApartSame DEF Apart
      <3>3. c.step = "write" => WriteOK(c)'  BY <3>1, <3>2 DEF WriteOK
      <3> QED  BY <3>1, <3>2, <3>3
    <2>6. RedoOK(c)'
      <3>1. Held(c)' = Held(c)  BY DEF Held
      <3> QED  BY <1>5, <2>2, <2>3, <2>4, <2>5, <3>1 DEF RedoOK
    <2> QED  BY <2>6 DEF CallOK
  <1>6. CASE SendOK(c)  BY <1>6 DEF CallOK, SendOK
  <1>7. CASE CancelOK(c)
    <2>1. c.r \notin crossed' => Rows(c.r)' = {}
      BY <1>2, <1>7 DEF CancelOK, Frame, Apart
    <2> QED  BY <1>7, <2>1 DEF CallOK, CancelOK
  <1>8. CASE AssignOK(c)
    <2>1. c.id \in Held(c)  BY <1>8 DEF AssignOK, Held
    <2>2. /\ c.id \in DOMAIN works' => works'[c.id].order = c.o
          /\ c.new => c.id \notin DOMAIN works'
          /\ c.id \in 1..calls'
      BY <1>1, <1>3, <1>8, <2>1 DEF AssignOK
    <2>3. c.o \notin crossed' => ShareFits(c.o, c.id, c.share)'
      <3> SUFFICES ASSUME c.o \notin crossed' PROVE ShareFits(c.o, c.id, c.share)'  OBVIOUS
      <3>1. c.o \in Orders /\ c.share \in Shares /\ ShareFits(c.o, c.id, c.share) /\ c.o \in c.on
        BY <1>2, <1>8 DEF AssignOK
      <3>2. NoMore(c.o)  BY <3>1 DEF Frame
      <3> QED  BY <3>1, <3>2, FitsStill
    <2> QED  BY <1>8, <2>2, <2>3 DEF CallOK, AssignOK
  <1> QED  BY <1>4, <1>5, <1>6, <1>7, <1>8 DEF CallOK

----------------------------------------------------------------------------
(* Who is busy                                                             *)

LEMMA Busy ==
  ASSUME CWInv, NEW u \in Users, call[u] # Idle
  PROVE  /\ call = [v \in Users |-> call[v]] /\ CallOK(call[u])
         /\ call[u].kind \in RedoKinds => RedoOK(call[u])
         /\ call[u].kind = "send" => SendOK(call[u])
         /\ call[u].kind = "cancel" => CancelOK(call[u])
         /\ call[u].kind = "assign" => AssignOK(call[u])
         /\ call[u].kind # "none" /\ "step" \in DOMAIN call[u]
  <1>1. call = [v \in Users |-> call[v]] /\ CallOK(call[u])  BY DEF CWInv, CallsOK
  <1> QED  BY <1>1 DEF CallOK, RedoOK, SendOK, CancelOK, AssignOK, RedoKinds, RedoFields

LEMMA KindBusy ==
  ASSUME NEW u, call[u].kind # "none"
  PROVE  call[u] # Idle
  BY DEF Idle

LEMMA IdleNames ==
  Idle.on = {} /\ Held(Idle) = {} /\ ~Pending(Idle) /\ Idle.kind = "none"
  BY DEF Idle, Held, Pending, RedoKinds

\* Who rewrites the rows of a request is on it.
LEMMA RedoesOn ==
  ASSUME CWInv, NEW v \in Users, NEW q, Redoes(v, q)
  PROVE  q \in call[v].on /\ call[v].kind \in RedoKinds
  <1>1. call[v].kind \in RedoKinds /\ call[v].r = q  BY DEF Redoes, Redistributes, RedoKinds
  <1>2. RedoOK(call[v])  BY <1>1, KindBusy, Busy DEF RedoKinds
  <1> QED  BY <1>1, <1>2, OnOf

LEMMA CallsNat ==
  ASSUME TypeOK
  PROVE  /\ calls \in Nat /\ calls <= MaxCalls /\ DOMAIN works \subseteq 1..calls /\ IsFiniteSet(DOMAIN works)
         /\ \A i \in DOMAIN works : works[i] \in Work /\ (works[i].request # Nothing => works[i].qty > 0)
         /\ reqs \in [Requests -> Request] /\ torn \in [Requests -> BOOLEAN]
         /\ crossed \subseteq Requests \cup Orders
  BY ContractorAssumption DEF TypeOK

\* The rows a call names have been given numbers.
LEMMA HeldBelow ==
  ASSUME NEW c, CallOK(c)
  PROVE  Held(c) \subseteq 1..calls /\ (Pending(c) => c.id \in Held(c) /\ c.id \notin DOMAIN works)
  <1>1. CASE c = Idle  BY <1>1, IdleNames
  <1>2. CASE RedoOK(c)
    <2>1. Held(c) \subseteq 1..calls  BY <1>2 DEF RedoOK
    <2>2. Pending(c) => c.kind = "allocate" /\ AllocateOK(c) /\ c.step = "row" /\ c.new
      BY <1>2 DEF Pending, RedoOK, RedoKinds
    <2>3. Pending(c) => c.id \in Held(c) /\ c.id \notin DOMAIN works
      BY <2>2 DEF AllocateOK, Held
    <2> QED  BY <2>1, <2>3
  <1>3. CASE SendOK(c) \/ CancelOK(c)
    BY <1>3 DEF SendOK, CancelOK, Held, Pending, RedoKinds
  <1>4. CASE AssignOK(c)
    BY <1>4 DEF AssignOK, Held, Pending, RedoKinds
  <1> QED  BY <1>1, <1>2, <1>3, <1>4 DEF CallOK

\* The invariant after a step of the caller u, from what the step says of the database,
\* of its call and of what it is on; nobody else is on that unless it has been crossed.
LEMMA CallerKeeps ==
  ASSUME CWInv, NEW u \in Users, NEW S, S = call[u].on, Frame(S), TypeOK',
         NEW d, call' = [call EXCEPT ![u] = d], CallOK(d)', UNCHANGED <<calls, crossed>>,
         d.on \subseteq S, ~Pending(d), Held(d) \subseteq Held(call[u]) \cup DOMAIN works,
         \A i \in DOMAIN works' \ DOMAIN works : Pending(call[u]) /\ i = call[u].id,
         \A q \in Requests \ S : torn'[q] = torn[q],
         \A q \in (Requests \cap S) \ crossed :
            /\ OneRowOf(q)' /\ WithinOf(q)'
            /\ reqs'[q].accepted > 0 /\ ~torn'[q] /\ ~Redoes(u, q)' => Balanced(q)',
         \A o \in (Orders \cap S) \ crossed : takenShare(o, {})' <= 100
  PROVE  CWInv'
  <1>1. /\ call = [v \in Users |-> call[v]] /\ call' = [v \in Users |-> call'[v]] /\ call'[u] = d
        /\ \A v \in Users \ {u} : call'[v] = call[v]
    BY DEF CWInv, CallsOK
  <1>2. Within' /\ WholeWork'  BY WithinKeeps, WholeKeeps DEF CWInv
  <1>3. Exclusive'
    <2> SUFFICES ASSUME NEW v \in Users, NEW w \in Users, v # w
                 PROVE  call'[v].on \cap call'[w].on \subseteq crossed
      BY DEF Exclusive
    <2>1. \A x \in Users : call'[x].on \subseteq call[x].on  BY <1>1
    <2>2. call[v].on \cap call[w].on \subseteq crossed  BY DEF CWInv, Exclusive
    <2> QED  BY <2>1, <2>2
  <1>4. NewIds'
    <2> SUFFICES ASSUME NEW v \in Users, NEW w \in Users, v # w, Pending(call[v])'
                 PROVE  (call[v].id \notin Held(call[w]))'
      BY DEF NewIds
    <2>1. v # u
      <3>1. Pending(call[u])' <=> Pending(d)  BY <1>1 DEF Pending
      <3> QED  BY <3>1
    <2>2. call'[v] = call[v] /\ Pending(call[v])  BY <1>1, <2>1 DEF Pending
    <2>3. call[v].id \notin Held(call[w])  BY <2>2 DEF CWInv, NewIds
    <2>4. CASE w # u
      <3>1. Held(call[w])' = Held(call[w])  BY <1>1, <2>4 DEF Held
      <3> QED  BY <2>2, <2>3, <3>1
    <2>5. CASE w = u
      <3>1. Held(call[w])' = Held(d)  BY <1>1, <2>5 DEF Held
      <3>2. call[v].id \notin DOMAIN works
        <4>1. CallOK(call[v])  BY DEF CWInv, CallsOK
        <4> QED  BY <2>2, <4>1, HeldBelow
      <3> QED  BY <2>2, <2>3, <2>5, <3>1, <3>2
    <2> QED  BY <2>4, <2>5
  <1>5. CallsOK'
    <2>1. ASSUME NEW v \in Users PROVE CallOK(call[v])'
      <3>1. CASE v = u
        <4>1. call'[v] = d  BY <1>1, <3>1
        <4> QED  BY <4>1
      <3>2. CASE v # u
        <4>1. PICK c : c = call[v]  OBVIOUS
        <4>2. CallOK(c) /\ call'[v] = c  BY <1>1, <3>2, <4>1 DEF CWInv, CallsOK
        <4>3. c.on \cap S \subseteq crossed  BY <3>2, <4>1 DEF CWInv, Exclusive
        <4>4. \A i \in DOMAIN works' \ DOMAIN works : i \notin Held(c)
          BY <3>2, <4>1 DEF CWInv, NewIds
        <4>5. TypeOK /\ calls \in Nat /\ calls' \in Nat /\ calls <= calls'  BY CallsNat DEF CWInv
        <4>6. crossed \subseteq crossed'  OBVIOUS
        <4>7. CallOK(c)'  BY <4>2, <4>3, <4>4, <4>5, <4>6, CallKeeps
        <4> QED  BY <4>2, <4>7
      <3> QED  BY <3>1, <3>2
    <2> QED  BY <1>1, <2>1 DEF CallsOK
  <1>6. Balance'
    <2> SUFFICES ASSUME NEW q \in Requests \ crossed, reqs'[q].accepted > 0, ~torn'[q],
                        \A v \in Users : ~Redoes(v, q)'
                 PROVE  Balanced(q)'
      BY DEF Balance
    <2>1. CASE q \in S  BY <2>1
    <2>2. CASE q \notin S
      <3>1. Apart(q) /\ torn'[q] = torn[q]  BY <2>2 DEF Frame
      <3>2. \A v \in Users : ~Redoes(v, q)
        <4>1. ~Redoes(u, q)  BY <2>2, RedoesOn
        <4>2. \A v \in Users \ {u} : Redoes(v, q)' <=> Redoes(v, q)
          BY <1>1 DEF Redoes, Redistributes
        <4> QED  BY <4>1, <4>2
      <3>3. reqs[q].accepted > 0  BY <3>1 DEF Apart
      <3>4. Balanced(q)  BY <3>1, <3>2, <3>3 DEF CWInv, Balance
      <3> QED  BY <3>1, <3>4, ApartSame
    <2> QED  BY <2>1, <2>2
  <1> QED  BY <1>2, <1>3, <1>4, <1>5, <1>6 DEF CWInv

\* A step of nobody's call, which touches no request and gives away no more.
LEMMA QuietKeeps ==
  ASSUME CWInv, Frame({}), TypeOK', UNCHANGED <<call, torn, crossed>>, calls <= calls',
         DOMAIN works' \subseteq DOMAIN works
  PROVE  CWInv'
  <1>1. Within' /\ WholeWork'  BY WithinKeeps, WholeKeeps DEF CWInv
  <1>2. Exclusive' /\ NewIds'  BY DEF CWInv, Exclusive, NewIds, Pending, Held
  <1>3. CallsOK'
    <2>1. ASSUME NEW v \in Users PROVE CallOK(call[v])'
      <3>1. PICK c : c = call[v]  OBVIOUS
      <3>2. CallOK(c) /\ call'[v] = c  BY <3>1 DEF CWInv, CallsOK
      <3>3. TypeOK /\ calls \in Nat /\ calls' \in Nat
        BY ContractorAssumption DEF CWInv, TypeOK
      <3>4. c.on \cap {} \subseteq crossed /\ crossed \subseteq crossed'  OBVIOUS
      <3>5. \A i \in DOMAIN works' \ DOMAIN works : i \notin Held(c)  OBVIOUS
      <3>6. CallOK(c)'  BY <3>2, <3>3, <3>4, <3>5, CallKeeps
      <3> QED  BY <3>2, <3>6
    <2> QED  BY <2>1 DEF CWInv, CallsOK
  <1>4. Balance'
    <2> SUFFICES ASSUME NEW q \in Requests \ crossed, reqs'[q].accepted > 0, ~torn'[q],
                        \A v \in Users : ~Redoes(v, q)'
                 PROVE  Balanced(q)'
      BY DEF Balance
    <2>1. Apart(q) /\ reqs[q].accepted > 0  BY DEF Frame, Apart
    <2>2. \A v \in Users : ~Redoes(v, q)  BY DEF Redoes, Redistributes
    <2>3. Balanced(q)  BY <2>1, <2>2 DEF CWInv, Balance
    <2> QED  BY <2>1, <2>3, ApartSame
  <1> QED  BY <1>1, <1>2, <1>3, <1>4 DEF CWInv

\* A call that begins has nothing to rewrite yet, and meets the calls under way on what
\* is crossed by that.
LEMMA BeginKeeps ==
  ASSUME CWInv, NEW u \in Users, NEW c, Begin(u, c), CallOK(c)', c.step \notin {"split", "write"},
         c.on \subseteq Requests \cup Orders,
         Held(c) \subseteq DOMAIN works \cup {calls + 1}, Pending(c) => c.id = calls + 1
  PROVE  CWInv'
  <1>1. /\ call[u] = Idle /\ UNCHANGED <<reqs, works, torn>> /\ calls' = calls + 1 /\ calls < MaxCalls
        /\ call' = [call EXCEPT ![u] = c] /\ crossed' = crossed \cup (c.on \cap UnderWay)
    BY DEF Begin, server
  <1>2. /\ call = [v \in Users |-> call[v]] /\ call' = [v \in Users |-> call'[v]] /\ call'[u] = c
        /\ \A v \in Users \ {u} : call'[v] = call[v]
    BY <1>1 DEF CWInv, CallsOK
  <1>3. Frame({})  BY <1>1, WorksAsWere DEF CWInv
  <1>4. TypeOK /\ calls \in Nat /\ calls' \in 0..MaxCalls /\ DOMAIN works \subseteq 1..calls'
    BY <1>1, CallsNat, ContractorAssumption DEF CWInv
  <1>5. TypeOK'
    <2>1. crossed' \subseteq Requests \cup Orders  BY <1>1 DEF CWInv, TypeOK
    <2> QED  BY <1>1, <1>4, <2>1 DEF TypeOK
  <1>6. Within' /\ WholeWork'  BY <1>1, <1>3, WithinKeeps, WholeKeeps DEF CWInv
  <1>7. Exclusive'
    <2>1. \A v \in Users : call[v].on \subseteq UnderWay  BY DEF UnderWay
    <2> SUFFICES ASSUME NEW v \in Users, NEW w \in Users, v # w
                 PROVE  call'[v].on \cap call'[w].on \subseteq crossed'
      BY DEF Exclusive
    <2>2. CASE v = u  BY <1>1, <1>2, <2>1, <2>2
    <2>3. CASE w = u  BY <1>1, <1>2, <2>1, <2>3
    <2>4. CASE v # u /\ w # u
      <3>1. call[v].on \cap call[w].on \subseteq crossed  BY DEF CWInv, Exclusive
      <3> QED  BY <1>1, <1>2, <2>4, <3>1
    <2> QED  BY <2>2, <2>3, <2>4
  <1>8. \A v \in Users : Held(call[v]) \subseteq 1..calls
                         /\ (Pending(call[v]) => call[v].id \in Held(call[v]) /\ call[v].id \notin DOMAIN works)
    BY HeldBelow DEF CWInv, CallsOK
  <1>9. NewIds'
    <2> SUFFICES ASSUME NEW v \in Users, NEW w \in Users, v # w, Pending(call[v])'
                 PROVE  (call[v].id \notin Held(call[w]))'
      BY DEF NewIds
    <2>1. CASE v = u
      <3>1. Pending(c) /\ call'[v] = c  BY <1>2, <2>1 DEF Pending
      <3>2. Held(call[w])' = Held(call[w])  BY <1>2, <2>1 DEF Held
      <3>3. calls + 1 \notin Held(call[w])  BY <1>4, <1>8
      <3> QED  BY <3>1, <3>2, <3>3
    <2>2. CASE v # u
      <3>1. Pending(call[v]) /\ call'[v] = call[v]  BY <1>2, <2>2 DEF Pending
      <3>2. CASE w = u
        <4>1. Held(call[w])' = Held(c)  BY <1>2, <3>2 DEF Held
        <4>2. call[v].id \notin DOMAIN works /\ call[v].id # calls + 1  BY <1>4, <1>8, <3>1
        <4> QED  BY <3>1, <4>1, <4>2
      <3>3. CASE w # u
        <4>1. Held(call[w])' = Held(call[w])  BY <1>2, <3>3 DEF Held
        <4> QED  BY <3>1, <4>1 DEF CWInv, NewIds
      <3> QED  BY <3>2, <3>3
    <2> QED  BY <2>1, <2>2
  <1>10. CallsOK'
    <2>1. ASSUME NEW v \in Users PROVE CallOK(call[v])'
      <3>1. CASE v = u
        <4>1. call'[v] = c  BY <1>2, <3>1
        <4> QED  BY <4>1
      <3>2. CASE v # u
        <4>1. PICK e : e = call[v]  OBVIOUS
        <4>2. CallOK(e) /\ call'[v] = e  BY <1>2, <3>2, <4>1 DEF CWInv, CallsOK
        <4>3. calls' \in Nat /\ calls <= calls'  BY <1>1, <1>4
        <4>4. e.on \cap {} \subseteq crossed /\ crossed \subseteq crossed'  BY <1>1
        <4>5. \A i \in DOMAIN works' \ DOMAIN works : i \notin Held(e)  BY <1>1
        <4>6. CallOK(e)'  BY <1>3, <1>4, <4>2, <4>3, <4>4, <4>5, CallKeeps
        <4> QED  BY <4>2, <4>6
      <3> QED  BY <3>1, <3>2
    <2> QED  BY <1>2, <2>1 DEF CallsOK
  <1>11. Balance'
    <2> SUFFICES ASSUME NEW q \in Requests \ crossed', reqs'[q].accepted > 0, ~torn'[q],
                        \A v \in Users : ~Redoes(v, q)'
                 PROVE  Balanced(q)'
      BY DEF Balance
    <2>1. \A v \in Users : ~Redoes(v, q)
      <3>1. ~Redoes(u, q)  BY <1>1, IdleNames DEF Redoes, Redistributes
      <3>2. \A v \in Users \ {u} : Redoes(v, q)' <=> Redoes(v, q)  BY <1>2 DEF Redoes, Redistributes
      <3> QED  BY <3>1, <3>2
    <2>2. Balanced(q)  BY <1>1, <2>1 DEF CWInv, Balance
    <2>3. Apart(q)  BY <1>3 DEF Frame
    <2> QED  BY <2>2, <2>3, ApartSame
  <1> QED  BY <1>5, <1>6, <1>7, <1>9, <1>10, <1>11 DEF CWInv

----------------------------------------------------------------------------
(* Calls that begin                                                        *)

LEMMA BeginUpdateKeeps ==
  ASSUME CWInv, NEW u \in Users, NEW r \in Requests, BeginUpdate(u, r)
  PROVE  CWInv'
  <1>1. PICK ready \in BOOLEAN :
          Begin(u, [kind |-> "update", on |-> {r}, step |-> "head", r |-> r, ready |-> ready, rows |-> Rows(r) # {},
                    read |-> Nothing, left |-> {}, parts |-> Nothing])
    BY DEF BeginUpdate
  <1>2. PICK c : c = [kind |-> "update", on |-> {r}, step |-> "head", r |-> r, ready |-> ready, rows |-> Rows(r) # {},
                      read |-> Nothing, left |-> {}, parts |-> Nothing]
    OBVIOUS
  <1>3. Begin(u, c)  BY <1>1, <1>2
  <1>4. /\ c.kind = "update" /\ c.step = "head" /\ c.r = r /\ c.ready = ready /\ c.on = {r} /\ c.left = {}
        /\ DOMAIN c = {"kind", "on", "step", "r", "ready", "rows", "read", "left", "parts"}
    BY <1>2
  <1>5. Held(c) = {} /\ ~Pending(c)  BY <1>4 DEF Held, Pending
  <1>6. CallOK(c)'
    <2>1. Held(c)' = {}  BY <1>4 DEF Held
    <2> QED  BY <1>4, <2>1 DEF CallOK, RedoOK, RedoKinds, RedoFields
  <1> QED  BY <1>3, <1>4, <1>5, <1>6, BeginKeeps

LEMMA BeginSendKeeps ==
  ASSUME CWInv, NEW u \in Users, BeginSend(u), tabs[u].selected \subseteq Requests
  PROVE  CWInv'
  <1>1. PICK c : c = [kind |-> "send", on |-> Drafts(u), step |-> "deal", rows |-> Drafts(u)]  OBVIOUS
  <1>2. Begin(u, c)  BY <1>1 DEF BeginSend
  <1>3. /\ c.kind = "send" /\ c.step = "deal" /\ c.on = c.rows /\ c.rows = Drafts(u)
        /\ DOMAIN c = {"kind", "on", "step", "rows"}
    BY <1>1
  <1>4. c.rows \subseteq Requests  BY <1>3 DEF Drafts
  <1>5. Held(c) = {} /\ ~Pending(c)  BY <1>3 DEF Held, Pending, RedoKinds
  <1>6. CallOK(c)'  BY <1>3, <1>4 DEF CallOK, SendOK
  <1> QED  BY <1>2, <1>3, <1>4, <1>5, <1>6, BeginKeeps

LEMMA BeginRemoveKeeps ==
  ASSUME CWInv, NEW u \in Users, NEW r \in Requests, BeginRemove(u, r)
  PROVE  CWInv'
  <1>1. PICK i \in Rows(r) :
          Begin(u, [kind |-> "remove", on |-> {r}, step |-> "row", r |-> r, id |-> i,
                    read |-> Nothing, left |-> {}, parts |-> Nothing])
    BY DEF BeginRemove
  <1>2. PICK c : c = [kind |-> "remove", on |-> {r}, step |-> "row", r |-> r, id |-> i,
                      read |-> Nothing, left |-> {}, parts |-> Nothing]
    OBVIOUS
  <1>3. Begin(u, c)  BY <1>1, <1>2
  <1>4. /\ c.kind = "remove" /\ c.step = "row" /\ c.r = r /\ c.id = i /\ c.on = {r} /\ c.left = {}
        /\ DOMAIN c = {"kind", "on", "step", "r", "id", "read", "left", "parts"}
    BY <1>2
  <1>5. Held(c) = {i} /\ ~Pending(c)  BY <1>4 DEF Held, Pending
  <1>6. UNCHANGED works /\ calls' = calls + 1  BY <1>3 DEF Begin, server
  <1>7. i \in DOMAIN works /\ works[i].request = r /\ i \in 1..calls'
    <2>1. calls \in Nat /\ DOMAIN works \subseteq 1..calls  BY CallsNat DEF CWInv
    <2> QED  BY <1>1, <1>6, <2>1 DEF Rows
  <1>8. CallOK(c)'
    <2>1. Rows(r)' = Rows(r)  BY <1>6 DEF Rows
    <2>2. Held(c)' = {i}  BY <1>4 DEF Held
    <2>3. \A j \in {i} : j \in 1..calls' /\ works'[j].request = r  BY <1>6, <1>7
    <2>4. RedoOK(c)'
      BY <1>1, <1>4, <2>1, <2>2, <2>3 DEF RedoOK, RedoKinds, RedoFields
    <2> QED  BY <2>4 DEF CallOK
  <1> QED  BY <1>3, <1>4, <1>5, <1>7, <1>8, BeginKeeps

LEMMA BeginCancelKeeps ==
  ASSUME CWInv, NEW u \in Users, NEW r \in Requests, BeginCancel(u, r)
  PROVE  CWInv'
  <1>1. PICK c : c = [kind |-> "cancel", on |-> {r}, step |-> "head", r |-> r]  OBVIOUS
  <1>2. Begin(u, c) /\ Rows(r) = {}  BY <1>1 DEF BeginCancel
  <1>3. /\ c.kind = "cancel" /\ c.step = "head" /\ c.r = r /\ c.on = {r} /\ DOMAIN c = {"kind", "on", "step", "r"}
    BY <1>1
  <1>4. Held(c) = {} /\ ~Pending(c)  BY <1>3 DEF Held, Pending, RedoKinds
  <1>5. CallOK(c)'
    <2>1. Rows(r)' = Rows(r)  BY <1>2 DEF Begin, server, Rows
    <2> QED  BY <1>2, <1>3, <2>1 DEF CallOK, CancelOK
  <1> QED  BY <1>2, <1>3, <1>4, <1>5, BeginKeeps

\* The row of an order that the request has already is the one that takes the share.
LEMMA BeginAllocateKeeps ==
  ASSUME CWInv, NEW u \in Users, NEW r \in Requests, BeginAllocate(u, r)
  PROVE  CWInv'
  <1>0. PICK o \in Orders, qty \in 1..MaxQty, share \in Shares :
          \E id \in IF Same(r, o) = {} THEN {calls + 1} ELSE Same(r, o) :
          /\ QtyFits(r, o, qty) /\ ShareFits(o, id, share)
          /\ Begin(u, [kind |-> "allocate", on |-> {r, o}, step |-> "row", r |-> r, o |-> o, qty |-> qty,
                       share |-> share, id |-> id, new |-> Same(r, o) = {}, status |-> reqs[r].status,
                       acted |-> reqs[r].accepted > 0, read |-> Nothing, left |-> {}, parts |-> Nothing])
    BY DEF BeginAllocate
  <1>1. PICK id \in IF Same(r, o) = {} THEN {calls + 1} ELSE Same(r, o) :
          /\ QtyFits(r, o, qty) /\ ShareFits(o, id, share)
          /\ Begin(u, [kind |-> "allocate", on |-> {r, o}, step |-> "row", r |-> r, o |-> o, qty |-> qty,
                       share |-> share, id |-> id, new |-> Same(r, o) = {}, status |-> reqs[r].status,
                       acted |-> reqs[r].accepted > 0, read |-> Nothing, left |-> {}, parts |-> Nothing])
    BY <1>0
  <1>2. PICK c : c = [kind |-> "allocate", on |-> {r, o}, step |-> "row", r |-> r, o |-> o, qty |-> qty,
                      share |-> share, id |-> id, new |-> Same(r, o) = {}, status |-> reqs[r].status,
                      acted |-> reqs[r].accepted > 0, read |-> Nothing, left |-> {}, parts |-> Nothing]
    OBVIOUS
  <1>3. Begin(u, c)  BY <1>1, <1>2
  <1>4. /\ c.kind = "allocate" /\ c.step = "row" /\ c.r = r /\ c.o = o /\ c.qty = qty /\ c.share = share
        /\ c.id = id /\ c.status = reqs[r].status /\ c.on = {r, o} /\ c.left = {}
        /\ DOMAIN c = {"kind", "on", "step", "r", "o", "qty", "share", "id", "new", "status", "acted",
                       "read", "left", "parts"}
    BY <1>2
  <1>5. c.new = (Same(r, o) = {})  BY <1>2
  <1>6. UNCHANGED server /\ calls' = calls + 1  BY <1>3 DEF Begin
  <1>7. reqs[r].status \in Statuses \ {"CANCELLED"}
    BY DEF BeginAllocate, Alive, CWInv, TypeOK, Request
  <1>8. /\ id \in 1..calls'
        /\ Same(r, o) = {} => id = calls + 1 /\ id \notin DOMAIN works
        /\ Same(r, o) # {} => id \in Same(r, o) /\ id \in DOMAIN works
        /\ id \in DOMAIN works => works[id].request = r /\ works[id].order = o
    <2>1. calls \in Nat /\ DOMAIN works \subseteq 1..calls  BY CallsNat DEF CWInv
    <2>2. \A i \in Same(r, o) : i \in DOMAIN works /\ works[i].request = r /\ works[i].order = o
      BY DEF Same, Rows
    <2> QED  BY <1>1, <1>6, <2>1, <2>2
  <1>9. /\ QtyFits(r, o, qty)' /\ ShareFits(o, id, share)' /\ Same(r, o)' = Same(r, o)
        /\ works' = works /\ reqs'[r].status = reqs[r].status
    BY <1>1, <1>6 DEF server, QtyFits, ShareFits, takenShare, Rows, Same, Spread
  <1>10. AllocateOK(c)'
    <2>1. qty \in Nat \ {0} /\ share \in Shares /\ o \in Orders  BY <1>1, ContractorAssumption
    <2>2. c.new \in BOOLEAN  BY <1>5
    <2>3. c.new => id \notin DOMAIN works /\ Same(r, o) = {}  BY <1>5, <1>8
    <2>4. ~c.new => id \in Same(r, o)  BY <1>5, <1>8
    <2>5. c.status \in Statuses \ {"CANCELLED"} /\ reqs'[c.r].status # "CANCELLED"
      BY <1>4, <1>7, <1>9
    <2>6. {"o", "qty", "share", "id", "new", "status", "acted"} \subseteq DOMAIN c  BY <1>4
    <2>7. id \in DOMAIN works' => works'[id].order = o  BY <1>8, <1>9
    <2> QED  BY <1>4, <1>9, <2>1, <2>2, <2>3, <2>4, <2>5, <2>6, <2>7 DEF AllocateOK
  <1>11. Held(c) = {id}  BY <1>4 DEF Held, RedoKinds
  <1>12. CallOK(c)'
    <2>1. Held(c)' = {id}  BY <1>4 DEF Held, RedoKinds
    <2>2. \A i \in {id} : i \in 1..calls' /\ (i \in DOMAIN works' => works'[i].request = r)  BY <1>8, <1>9
    <2>3. RedoOK(c)'  BY <1>4, <1>10, <2>1, <2>2 DEF RedoOK, RedoKinds, RedoFields
    <2> QED  BY <2>3 DEF CallOK
  <1>13. Pending(c) => id = calls + 1  BY <1>5, <1>8 DEF Pending
  <1>14. id \in DOMAIN works \cup {calls + 1} /\ {r, o} \subseteq Requests \cup Orders  BY <1>8
  <1> QED  BY <1>3, <1>4, <1>11, <1>12, <1>13, <1>14, BeginKeeps

\* The modal shows what the rows of the card would get.
LEMMA BeginAcceptKeeps ==
  ASSUME CWInv, NEW u \in Users, NEW r \in Requests, BeginAccept(u, r)
  PROVE  CWInv'
  <1> DEFINE st(q) == IF Rows(r) # {} /\ Allocated(Spread(Rows(r))) >= q THEN "ALLOCATED" ELSE "ACCEPTED"
  <1>1. PICK qty \in 1..MaxQty, b \in Bases(u, r) :
          /\ Covers(qty, Rows(r))
          /\ Begin(u, [kind |-> "accept", on |-> {r}, step |-> "head", r |-> r, qty |-> qty, base |-> b,
                       status |-> st(qty), card |-> tabs[u].detail[r],
                       shown |-> Preview(b.asked, qty, tabs[u].detail[r]),
                       read |-> Nothing, left |-> {}, parts |-> Nothing])
    BY DEF BeginAccept
  <1>2. PICK c : c = [kind |-> "accept", on |-> {r}, step |-> "head", r |-> r, qty |-> qty, base |-> b,
                      status |-> st(qty), card |-> tabs[u].detail[r],
                      shown |-> Preview(b.asked, qty, tabs[u].detail[r]),
                      read |-> Nothing, left |-> {}, parts |-> Nothing]
    OBVIOUS
  <1>3. Begin(u, c)  BY <1>1, <1>2
  <1>4. /\ c.kind = "accept" /\ c.step = "head" /\ c.r = r /\ c.qty = qty /\ c.base = b
        /\ c.status = st(qty) /\ c.card = tabs[u].detail[r] /\ c.on = {r} /\ c.left = {}
        /\ c.shown = Preview(b.asked, qty, tabs[u].detail[r])
        /\ DOMAIN c = {"kind", "on", "step", "r", "qty", "base", "status", "card", "shown", "read", "left", "parts"}
    BY <1>2
  <1>5. c.status \in Statuses \ {"CANCELLED"}  BY <1>4 DEF Statuses
  <1>6. b.amount \in Nat /\ b.doc \in Docs \cup {Nothing}
    <2>1. b \in [doc : Docs \cup {Nothing}, asked : Nat, amount : Nat]
      BY <1>1, ContractorAssumption DEF Bases, FreeDocs
    <2> QED  BY <2>1
  <1>7. Covers(qty, Rows(r))'
    <2>1. Spread(Rows(r))' = Spread(Rows(r))  BY <1>3 DEF Begin, server, Spread, Rows
    <2> QED  BY <1>1, <2>1 DEF Covers
  <1>8. c.shown = Preview(c.base.asked, c.qty, c.card)  BY <1>4
  <1>9. AcceptOK(c)'
    <2>1. qty \in Nat \ {0}  BY <1>1, ContractorAssumption
    <2>2. (c.shown = Preview(c.base.asked, c.qty, c.card))'  BY <1>8
    <2> QED  BY <1>4, <1>5, <1>6, <1>7, <2>1, <2>2 DEF AcceptOK
  <1>10. Held(c) = {} /\ ~Pending(c)  BY <1>4 DEF Held, Pending
  <1>11. CallOK(c)'
    <2>1. Held(c)' = {}  BY <1>4 DEF Held
    <2> QED  BY <1>4, <1>9, <2>1 DEF CallOK, RedoOK, RedoKinds, RedoFields
  <1> QED  BY <1>3, <1>4, <1>10, <1>11, BeginKeeps

\* The row of the contractor on the order, if it has one, takes the new share.
LEMMA BeginAssignKeeps ==
  ASSUME CWInv, NEW u \in Users, NEW o \in Orders, BeginAssign(u, o)
  PROVE  CWInv'
  <1>1. PICK share \in Shares, id \in {i \in DOMAIN works : works[i].order = o} \cup {calls + 1} :
          /\ ShareFits(o, id, share)
          /\ Begin(u, [kind |-> "assign", on |-> {o}, step |-> "row", o |-> o, share |-> share,
                       id |-> id, new |-> id \notin DOMAIN works])
    BY DEF BeginAssign
  <1>2. PICK c : c = [kind |-> "assign", on |-> {o}, step |-> "row", o |-> o, share |-> share,
                      id |-> id, new |-> id \notin DOMAIN works]
    OBVIOUS
  <1>3. Begin(u, c)  BY <1>1, <1>2
  <1>4. /\ c.kind = "assign" /\ c.step = "row" /\ c.o = o /\ c.share = share /\ c.id = id /\ c.on = {o}
        /\ DOMAIN c = {"kind", "on", "step", "o", "share", "id", "new"}
    BY <1>2
  <1>5. c.new = (id \notin DOMAIN works)  BY <1>2
  <1>6. UNCHANGED works /\ calls' = calls + 1  BY <1>3 DEF Begin, server
  <1>7. /\ id \in 1..calls' /\ (id \in DOMAIN works => works[id].order = o)
        /\ id \notin DOMAIN works => id = calls + 1
    <2>1. calls \in Nat /\ DOMAIN works \subseteq 1..calls  BY CallsNat DEF CWInv
    <2> QED  BY <1>1, <1>6, <2>1
  <1>8. Held(c) = {id} /\ (Pending(c) => id = calls + 1)  BY <1>4, <1>5, <1>7 DEF Held, Pending, RedoKinds
  <1>9. CallOK(c)'
    <2>1. ShareFits(o, id, share)'  BY <1>1, <1>6 DEF ShareFits, takenShare
    <2>2. c.new \in BOOLEAN /\ (c.new => id \notin DOMAIN works')  BY <1>5, <1>6
    <2>3. id \in DOMAIN works' => works'[id].order = o  BY <1>6, <1>7
    <2>4. AssignOK(c)'  BY <1>4, <1>7, <2>1, <2>2, <2>3 DEF AssignOK
    <2> QED  BY <2>4 DEF CallOK
  <1>10. id \in DOMAIN works \cup {calls + 1} /\ {o} \subseteq Requests \cup Orders  BY <1>1
  <1> QED  BY <1>3, <1>4, <1>8, <1>9, <1>10, BeginKeeps

----------------------------------------------------------------------------
(* Steps that leave the rows as they are                                   *)

\* What a call that rewrites the rows is after a step: on the same, with the rows it
\* names and the parts it has read.
LEMMA RedoAfter ==
  ASSUME NEW c, NEW d, RedoOK(c), DOMAIN d = DOMAIN c, UNCHANGED <<calls, crossed>>,
         \A f \in DOMAIN c \ {"step", "read", "left", "parts"} : d[f] = c[f],
         d.step \in {"split", "write"},
         \A i \in d.left : /\ i \in 1..calls /\ d.parts[i] \in Int
                           /\ i \in DOMAIN works' => works'[i].request = c.r,
         c.kind \in {"allocate", "remove"} =>
            (c.id \in DOMAIN works' => works'[c.id].request = c.r),
         c.kind = "allocate" => (c.id \in DOMAIN works' => works'[c.id].order = c.o),
         c.kind = "accept" /\ c.r \notin crossed =>
            reqs'[c.r].accepted = c.qty /\ reqs'[c.r].amount = c.base.amount,
         d.step = "write" /\ c.r \notin crossed => WriteOK(d)'
  PROVE  /\ CallOK(d)' /\ d.r = c.r /\ d.on = c.on /\ d.kind = c.kind /\ ~Pending(d)
         /\ Held(d) \subseteq Held(c) \cup d.left
  <1>1. RedoFields \subseteq DOMAIN d /\ d.r = c.r /\ d.on = c.on /\ d.kind = c.kind
    BY DEF RedoOK, RedoFields
  <1>2. ~Pending(d)  BY DEF Pending
  <1>3. c.kind \in {"allocate", "remove"} => d.id = c.id /\ c.id \in Held(c)
    <2>1. c.kind = "allocate" => "id" \in DOMAIN c  BY DEF RedoOK, AllocateOK
    <2>2. c.kind = "remove" => "id" \in DOMAIN c  BY DEF RedoOK
    <2> QED  BY <2>1, <2>2 DEF Held
  <1>4. Held(d) \subseteq Held(c) \cup d.left /\ Held(d)' = Held(d)
    BY <1>1, <1>3 DEF Held, RedoOK, RedoKinds
  <1>5. c.kind = "allocate" => AllocateOK(d)' /\ d.o = c.o
    <2> SUFFICES ASSUME c.kind = "allocate" PROVE AllocateOK(d)' /\ d.o = c.o  OBVIOUS
    <2>1. AllocateOK(c)  BY DEF RedoOK
    <2>2. /\ d.o = c.o /\ d.qty = c.qty /\ d.share = c.share /\ d.new = c.new /\ d.status = c.status
          /\ d.id = c.id /\ d.step # "row"
      BY <2>1 DEF AllocateOK
    <2> QED  BY <2>1, <2>2 DEF AllocateOK
  <1>6. c.kind = "accept" => AcceptOK(d)'
    <2> SUFFICES ASSUME c.kind = "accept" PROVE AcceptOK(d)'  OBVIOUS
    <2>1. AcceptOK(c)  BY DEF RedoOK
    <2>2. /\ d.shown = c.shown /\ d.base = c.base /\ d.qty = c.qty /\ d.card = c.card /\ d.status = c.status
          /\ d.step # "head"
      BY <2>1 DEF AcceptOK
    <2>3. (d.shown = Preview(d.base.asked, d.qty, d.card))'  BY <2>1, <2>2 DEF AcceptOK, Preview
    <2> QED  BY <1>1, <2>1, <2>2, <2>3 DEF AcceptOK
  <1>7. c.kind = "update" => {"ready", "rows"} \subseteq DOMAIN d /\ d.ready \in BOOLEAN  BY DEF RedoOK
  <1>8. d.on = IF d.kind = "allocate" THEN {d.r, d.o} ELSE {d.r}  BY <1>1, <1>5 DEF RedoOK
  <1>9. \A i \in Held(d) : i \in 1..calls /\ (i \in DOMAIN works' => works'[i].request = c.r)
    <2>1. \A i \in Held(c) : i \in 1..calls  BY DEF RedoOK
    <2>2. \A i \in Held(d) : i \in d.left \/ (c.kind \in {"allocate", "remove"} /\ i = c.id)
      BY <1>1, <1>3 DEF Held, RedoOK, RedoKinds
    <2> QED  BY <1>3, <2>1, <2>2
  <1>10. c.kind = "remove" => "id" \in DOMAIN d  BY DEF RedoOK
  <1>11. d.kind \in RedoKinds /\ d.r \in Requests  BY <1>1 DEF RedoOK
  <1>12. RedoOK(d)'
    BY <1>1, <1>4, <1>5, <1>6, <1>7, <1>8, <1>9, <1>10, <1>11 DEF RedoOK
  <1> QED  BY <1>1, <1>2, <1>4, <1>12 DEF CallOK

\* A step of a call that rewrites the rows leaves what it was called with.
LEMMA StepIs ==
  ASSUME CWInv, NEW u \in Users, call[u] # Idle, NEW x, Step(u, x)
  PROVE  \E d : /\ call' = [call EXCEPT ![u] = d]
                /\ DOMAIN d = DOMAIN call[u] /\ d.step = x
                /\ \A f \in DOMAIN call[u] \ {"step"} : d[f] = call[u][f]
  <1> DEFINE d == [call[u] EXCEPT !.step = x]
  <1>1. call = [v \in Users |-> call[v]] /\ "step" \in DOMAIN call[u]  BY Busy
  <1>2. call' = [call EXCEPT ![u].step = x]  BY DEF Step
  <1>3. call' = [call EXCEPT ![u] = d]  BY <1>1, <1>2
  <1>4. /\ DOMAIN d = DOMAIN call[u] /\ d.step = x
        /\ \A f \in DOMAIN call[u] \ {"step"} : d[f] = call[u][f]
    BY <1>1
  <1> QED  BY <1>3, <1>4

\* A step of the caller that changes no row, no act and cancels nothing.
LEMMA CallerQuiet ==
  ASSUME CWInv, NEW u \in Users, UNCHANGED <<works, calls, crossed>>,
         reqs' \in [Requests -> Request], torn' \in [Requests -> BOOLEAN],
         \A q \in Requests : /\ reqs'[q].accepted = reqs[q].accepted /\ reqs'[q].amount = reqs[q].amount
                             /\ reqs'[q].status = "CANCELLED" => reqs[q].status = "CANCELLED",
         NEW d, call' = [call EXCEPT ![u] = d], CallOK(d)',
         d.on \subseteq call[u].on, ~Pending(d), Held(d) \subseteq Held(call[u]) \cup DOMAIN works,
         \A q \in Requests \ call[u].on : torn'[q] = torn[q],
         \A q \in (Requests \cap call[u].on) \ crossed :
            reqs[q].accepted > 0 /\ ~torn'[q] /\ ~Redoes(u, q)' => Balanced(q)
  PROVE  CWInv'
  <1>1. PICK S : S = call[u].on  OBVIOUS
  <1>2. Frame(S)
    <2>1. TypeOK  BY DEF CWInv
    <2> QED  BY <2>1, WorksAsWere
  <1>3. Frame({})
    <2>1. TypeOK  BY DEF CWInv
    <2> QED  BY <2>1, WorksAsWere
  <1>4. TypeOK'  BY DEF CWInv, TypeOK
  <1>5. \A q \in (Requests \cap S) \ crossed :
            /\ OneRowOf(q)' /\ WithinOf(q)'
            /\ reqs'[q].accepted > 0 /\ ~torn'[q] /\ ~Redoes(u, q)' => Balanced(q)'
    <2> SUFFICES ASSUME NEW q \in (Requests \cap S) \ crossed
                 PROVE  /\ OneRowOf(q)' /\ WithinOf(q)'
                        /\ reqs'[q].accepted > 0 /\ ~torn'[q] /\ ~Redoes(u, q)' => Balanced(q)'
      OBVIOUS
    <2>1. Apart(q)  BY <1>3 DEF Frame
    <2>2. OneRowOf(q)' /\ WithinOf(q)'  BY <2>1, ApartSame DEF CWInv, Within
    <2>3. reqs'[q].accepted = reqs[q].accepted  BY <2>1 DEF Apart
    <2>4. reqs'[q].accepted > 0 /\ ~torn'[q] /\ ~Redoes(u, q)' => Balanced(q)  BY <1>1, <2>3
    <2> QED  BY <2>1, <2>2, <2>4, ApartSame
  <1>6. \A o \in (Orders \cap S) \ crossed : takenShare(o, {})' <= 100
    <2> SUFFICES ASSUME NEW o \in Orders \ crossed PROVE takenShare(o, {})' <= 100  OBVIOUS
    <2>1. takenShare(o, {}) <= 100  BY DEF CWInv, WholeWork
    <2> QED  BY <2>1 DEF takenShare
  <1>7. \A i \in DOMAIN works' \ DOMAIN works : Pending(call[u]) /\ i = call[u].id  OBVIOUS
  <1> QED  BY <1>1, <1>2, <1>4, <1>5, <1>6, <1>7, CallerKeeps

\* The rows of an act are balanced when nobody rewrites them and no rewriting of them was
\* broken off; on a request not crossed, nobody is but the caller.
LEMMA CallerAlone ==
  ASSUME CWInv, NEW u \in Users, NEW q \in (Requests \cap call[u].on) \ crossed,
         reqs[q].accepted > 0, ~torn[q], ~Redoes(u, q)
  PROVE  Balanced(q)
  <1>1. \A v \in Users : ~Redoes(v, q)
    <2> SUFFICES ASSUME NEW v \in Users, v # u, Redoes(v, q) PROVE FALSE  OBVIOUS
    <2>1. q \in call[v].on  BY RedoesOn
    <2> QED  BY <2>1 DEF CWInv, Exclusive
  <1> QED  BY <1>1 DEF CWInv, Balance

LEMMA UpdateHeadKeeps ==
  ASSUME CWInv, NEW u \in Users, UpdateHead(u)
  PROVE  CWInv'
  <1>0. PICK c : c = call[u]  OBVIOUS
  <1>1. /\ c.kind = "update" /\ c.step = "head" /\ UNCHANGED works
        /\ reqs' = [reqs EXCEPT ![c.r].ready = c.ready]
        /\ Step(u, "split") \/ (End(u) /\ UNCHANGED torn)
    BY <1>0 DEF UpdateHead, At
  <1>2. call[u] # Idle /\ RedoOK(c)
    BY <1>0, <1>1, KindBusy, Busy DEF RedoKinds
  <1>3. c.r \in Requests /\ c.ready \in BOOLEAN  BY <1>1, <1>2 DEF RedoOK
  <1>4. reqs \in [Requests -> Request] /\ torn \in [Requests -> BOOLEAN]  BY CallsNat DEF CWInv
  <1>5. UNCHANGED <<calls, torn, crossed>>  BY <1>1 DEF Step, End
  <1>6. /\ reqs' \in [Requests -> Request] /\ torn' \in [Requests -> BOOLEAN]
        /\ \A q \in Requests : /\ reqs'[q].accepted = reqs[q].accepted /\ reqs'[q].amount = reqs[q].amount
                               /\ reqs'[q].status = "CANCELLED" => reqs[q].status = "CANCELLED"
    BY <1>1, <1>3, <1>4, <1>5 DEF Request, Statuses
  <1>7. \A q : ~Redoes(u, q)  BY <1>0, <1>1 DEF Redoes, Redistributes
  <1>8. \A q \in (Requests \cap call[u].on) \ crossed : reqs[q].accepted > 0 /\ ~torn'[q] => Balanced(q)
    BY <1>5, <1>7, CallerAlone
  <1>9. CASE Step(u, "split")
    <2>1. PICK d : /\ call' = [call EXCEPT ![u] = d]
                   /\ DOMAIN d = DOMAIN c /\ d.step = "split"
                   /\ \A f \in DOMAIN c \ {"step"} : d[f] = c[f]
      <3>1. \A x : Step(u, x) => \E d : /\ call' = [call EXCEPT ![u] = d]
                                        /\ DOMAIN d = DOMAIN call[u] /\ d.step = x
                                        /\ \A f \in DOMAIN call[u] \ {"step"} : d[f] = call[u][f]
        BY <1>2, StepIs
      <3> QED  BY <1>0, <1>9, <3>1
    <2>2. d.left = c.left /\ d.parts = c.parts  BY <1>2, <2>1 DEF RedoOK, RedoFields
    <2>3. c.left \subseteq Held(c)  BY <1>1 DEF Held, RedoKinds
    <2>4. \A i \in d.left : /\ i \in 1..calls /\ d.parts[i] \in Int
                            /\ i \in DOMAIN works' => works'[i].request = c.r
      BY <1>1, <1>2, <2>2, <2>3 DEF RedoOK
    <2>5. /\ CallOK(d)' /\ d.on = c.on /\ ~Pending(d) /\ Held(d) \subseteq Held(c) \cup d.left
      BY <1>1, <1>2, <1>5, <2>1, <2>4, RedoAfter
    <2>6. Held(d) \subseteq Held(call[u]) \cup DOMAIN works /\ d.on \subseteq call[u].on
      BY <1>0, <2>2, <2>3, <2>5
    <2> QED  BY <1>1, <1>5, <1>6, <1>8, <2>1, <2>5, <2>6, CallerQuiet
  <1>10. CASE End(u) /\ UNCHANGED torn
    <2>1. call' = [call EXCEPT ![u] = Idle]  BY <1>10 DEF End
    <2>2. CallOK(Idle)' /\ Idle.on \subseteq call[u].on /\ ~Pending(Idle)
          /\ Held(Idle) \subseteq Held(call[u]) \cup DOMAIN works
      BY IdleNames DEF CallOK
    <2> QED  BY <1>1, <1>5, <1>6, <1>8, <2>1, <2>2, CallerQuiet
  <1> QED  BY <1>1, <1>9, <1>10

\* Nothing is written for a deal that is being made.
LEMMA SendDealKeeps ==
  ASSUME CWInv, NEW u \in Users, SendDeal(u)
  PROVE  CWInv'
  <1>0. PICK c : c = call[u]  OBVIOUS
  <1>1. /\ c.kind = "send" /\ c.step = "deal" /\ UNCHANGED <<reqs, works, calls, torn, crossed>>
        /\ Step(u, "head")
    BY <1>0 DEF SendDeal, At, Step, server
  <1>2. call[u] # Idle /\ SendOK(c)  BY <1>0, <1>1, KindBusy, Busy
  <1>3. PICK d : /\ call' = [call EXCEPT ![u] = d]
                 /\ DOMAIN d = DOMAIN c /\ d.step = "head"
                 /\ \A f \in DOMAIN c \ {"step"} : d[f] = c[f]
    <2>1. \A x : Step(u, x) => \E d : /\ call' = [call EXCEPT ![u] = d]
                                      /\ DOMAIN d = DOMAIN call[u] /\ d.step = x
                                      /\ \A f \in DOMAIN call[u] \ {"step"} : d[f] = call[u][f]
      BY <1>2, StepIs
    <2> QED  BY <1>0, <1>1, <2>1
  <1>4. d.kind = "send" /\ d.step = "head" /\ d.on = c.on /\ d.rows = c.rows  BY <1>1, <1>2, <1>3 DEF SendOK
  <1>5. CallOK(d)'  BY <1>2, <1>3, <1>4 DEF CallOK, SendOK
  <1>6. Held(d) = {} /\ ~Pending(d)  BY <1>4 DEF Held, Pending, RedoKinds
  <1>7. \A q : ~Redoes(u, q)  BY <1>0, <1>1 DEF Redoes, Redistributes
  <1>8. \A q \in (Requests \cap call[u].on) \ crossed : reqs[q].accepted > 0 /\ ~torn'[q] => Balanced(q)
    BY <1>1, <1>7, CallerAlone
  <1>9. /\ reqs' \in [Requests -> Request] /\ torn' \in [Requests -> BOOLEAN]
        /\ \A q \in Requests : reqs'[q] = reqs[q]
    BY <1>1, CallsNat DEF CWInv
  <1>10. d.on \subseteq call[u].on  BY <1>0, <1>4
  <1> QED  BY <1>1, <1>3, <1>5, <1>6, <1>8, <1>9, <1>10, CallerQuiet

LEMMA SendHeadKeeps ==
  ASSUME CWInv, NEW u \in Users, SendHead(u)
  PROVE  CWInv'
  <1>1. /\ call[u].kind = "send" /\ UNCHANGED <<works, calls, torn, crossed>>
        /\ call' = [call EXCEPT ![u] = Idle]
    BY DEF SendHead, At
  <1>2. PICK rows : rows = call[u].rows  OBVIOUS
  <1>3. reqs' = [r \in Requests |-> IF r \in rows
                                    THEN [reqs[r] EXCEPT !.status = "SENT", !.sent = TRUE] ELSE reqs[r]]
    BY <1>2 DEF SendHead
  <1>4. reqs \in [Requests -> Request] /\ torn \in [Requests -> BOOLEAN]  BY CallsNat DEF CWInv
  <1>5. \A q \in Requests : /\ reqs'[q] \in Request
                            /\ reqs'[q].accepted = reqs[q].accepted /\ reqs'[q].amount = reqs[q].amount
                            /\ reqs'[q].status = "CANCELLED" => reqs[q].status = "CANCELLED"
    <2> SUFFICES ASSUME NEW q \in Requests
                 PROVE  /\ reqs'[q] \in Request
                        /\ reqs'[q].accepted = reqs[q].accepted /\ reqs'[q].amount = reqs[q].amount
                        /\ reqs'[q].status = "CANCELLED" => reqs[q].status = "CANCELLED"
      OBVIOUS
    <2>1. reqs'[q] = IF q \in rows THEN [reqs[q] EXCEPT !.status = "SENT", !.sent = TRUE] ELSE reqs[q]
      BY <1>3
    <2>2. reqs[q] \in Request  BY <1>4
    <2> QED  BY <2>1, <2>2 DEF Request, Statuses
  <1>6. reqs' \in [Requests -> Request] /\ torn' \in [Requests -> BOOLEAN]  BY <1>1, <1>3, <1>4, <1>5
  <1>7. \A q : ~Redoes(u, q)  BY <1>1 DEF Redoes, Redistributes
  <1>8. \A q \in (Requests \cap call[u].on) \ crossed : reqs[q].accepted > 0 /\ ~torn'[q] => Balanced(q)
    BY <1>1, <1>7, CallerAlone
  <1>9. CallOK(Idle)' /\ Idle.on \subseteq call[u].on /\ ~Pending(Idle)
        /\ Held(Idle) \subseteq Held(call[u]) \cup DOMAIN works
    BY IdleNames DEF CallOK
  <1> QED  BY <1>1, <1>5, <1>6, <1>8, <1>9, CallerQuiet

\* A call whose rows are written leaves its request balanced, unless it was crossed.
LEMMA DoneBalanced ==
  ASSUME CWInv, NEW u \in Users, Redistributed(u)
  PROVE  /\ call[u].r \in Requests /\ RedoOK(call[u]) /\ call[u] # Idle
         /\ \A q \in (Requests \cap call[u].on) \ crossed : reqs[q].accepted > 0 => Balanced(q)
         /\ call[u].r \in call[u].on
  <1>1. call[u].kind \in RedoKinds /\ call[u].step = "write" /\ call[u].left = {}
    BY DEF Redistributed, Redistributes, RedoKinds
  <1>2. call[u] # Idle /\ RedoOK(call[u])  BY <1>1, KindBusy, Busy DEF RedoKinds
  <1>3. /\ call[u].r \in Requests /\ call[u].r \in call[u].on
        /\ call[u].on \cap Requests = {call[u].r}
    BY <1>2, OnOf
  <1>4. call[u].r \notin crossed => WriteOK(call[u])  BY <1>1, <1>2 DEF RedoOK
  <1>5. call[u].r \notin crossed /\ reqs[call[u].r].accepted > 0 => Balanced(call[u].r)
    BY <1>1, <1>4 DEF WriteOK, Balanced
  <1> QED  BY <1>2, <1>3, <1>5

\* A call that ends with its rows written, or that is broken off.
LEMMA DropKeeps ==
  ASSUME CWInv, NEW u \in Users, Drop(u)
  PROVE  CWInv'
  <1>1. /\ call[u] # Idle /\ UNCHANGED <<reqs, works, calls, crossed>> /\ call' = [call EXCEPT ![u] = Idle]
        /\ torn' = IF Redistributes(u, "split") \/ (Redistributes(u, "write") /\ call[u].left # {})
                   THEN [torn EXCEPT ![call[u].r] = TRUE]
                   ELSE IF Redistributed(u) THEN [torn EXCEPT ![call[u].r] = FALSE] ELSE torn
    BY DEF Drop, server
  <1>2. reqs \in [Requests -> Request] /\ torn \in [Requests -> BOOLEAN]  BY CallsNat DEF CWInv
  <1>3. torn' \in [Requests -> BOOLEAN]  BY <1>1, <1>2
  <1>4. \A q \in Requests \ call[u].on : torn'[q] = torn[q]
    <2>1. CASE Redistributes(u, "split") \/ Redistributes(u, "write")
      <3>1. call[u].kind \in RedoKinds  BY <2>1 DEF Redistributes, RedoKinds
      <3>2. call[u].r \in call[u].on  BY <1>1, <3>1, Busy, OnOf
      <3> QED  BY <1>1, <1>2, <3>2
    <2>2. CASE ~(Redistributes(u, "split") \/ Redistributes(u, "write"))
      BY <1>1, <2>2 DEF Redistributed
    <2> QED  BY <2>1, <2>2
  <1>5. \A q \in (Requests \cap call[u].on) \ crossed : reqs[q].accepted > 0 /\ ~torn'[q] => Balanced(q)
    <2> SUFFICES ASSUME NEW q \in (Requests \cap call[u].on) \ crossed, reqs[q].accepted > 0, ~torn'[q]
                 PROVE  Balanced(q)
      OBVIOUS
    <2>1. CASE Redistributed(u)  BY <2>1, DoneBalanced
    <2>2. CASE ~Redistributed(u)
      <3>1. ~torn[q] /\ ~Redoes(u, q)  BY <1>1, <1>2, <2>2 DEF Redistributed, Redoes
      <3> QED  BY <3>1, CallerAlone
    <2> QED  BY <2>1, <2>2
  <1>6. CallOK(Idle)' /\ Idle.on \subseteq call[u].on /\ ~Pending(Idle)
        /\ Held(Idle) \subseteq Held(call[u]) \cup DOMAIN works
    BY IdleNames DEF CallOK
  <1>7. reqs' \in [Requests -> Request] /\ \A q \in Requests : reqs'[q] = reqs[q]  BY <1>1, <1>2
  <1> QED  BY <1>1, <1>3, <1>4, <1>5, <1>6, <1>7, CallerQuiet

LEMMA AnswerKeeps ==
  ASSUME CWInv, NEW u \in Users, Answer(u)
  PROVE  CWInv'
  <1>1. /\ Redistributed(u) /\ UNCHANGED <<reqs, works, calls, crossed>>
        /\ call' = [call EXCEPT ![u] = Idle] /\ torn' = [torn EXCEPT ![call[u].r] = FALSE]
    BY DEF Answer, Whole, End, server
  <1>2. reqs \in [Requests -> Request] /\ torn \in [Requests -> BOOLEAN]  BY CallsNat DEF CWInv
  <1>3. torn' \in [Requests -> BOOLEAN] /\ \A q \in Requests \ call[u].on : torn'[q] = torn[q]
    <2>1. call[u].r \in call[u].on  BY <1>1, DoneBalanced
    <2> QED  BY <1>1, <1>2, <2>1
  <1>4. \A q \in (Requests \cap call[u].on) \ crossed : reqs[q].accepted > 0 => Balanced(q)
    BY <1>1, DoneBalanced
  <1>5. CallOK(Idle)' /\ Idle.on \subseteq call[u].on /\ ~Pending(Idle)
        /\ Held(Idle) \subseteq Held(call[u]) \cup DOMAIN works
    BY IdleNames DEF CallOK
  <1>6. reqs' \in [Requests -> Request] /\ \A q \in Requests : reqs'[q] = reqs[q]  BY <1>1, <1>2
  <1> QED  BY <1>1, <1>3, <1>4, <1>5, <1>6, CallerQuiet

LEMMA AllocateStatusKeeps ==
  ASSUME CWInv, NEW u \in Users, AllocateStatus(u)
  PROVE  CWInv'
  <1>0. PICK c, r : c = call[u] /\ r = call[u].r  OBVIOUS
  <1>1. /\ Redistributed(u) /\ c.kind = "allocate" /\ UNCHANGED <<works, calls, crossed>>
        /\ call' = [call EXCEPT ![u] = Idle] /\ torn' = [torn EXCEPT ![r] = FALSE]
        /\ reqs' = IF c.status \in {"DRAFT", "SENT", "ACCEPTED"}
                   THEN [reqs EXCEPT ![r].status = IF c.acted THEN "ALLOCATED" ELSE c.status]
                   ELSE reqs
    BY <1>0 DEF AllocateStatus, Whole, End
  <1>2. r \in Requests /\ r \in call[u].on  BY <1>0, <1>1, DoneBalanced
  <1>3. PICK st \in Statuses \ {"CANCELLED"} : reqs' = [reqs EXCEPT ![r].status = st] \/ reqs' = reqs
    <2>1. CASE c.status \in {"DRAFT", "SENT", "ACCEPTED"} /\ c.acted  BY <1>1, <2>1 DEF Statuses
    <2>2. CASE c.status \in {"DRAFT", "SENT", "ACCEPTED"} /\ ~c.acted  BY <1>1, <2>2 DEF Statuses
    <2>3. CASE c.status \notin {"DRAFT", "SENT", "ACCEPTED"}  BY <1>1, <2>3 DEF Statuses
    <2> QED  BY <2>1, <2>2, <2>3
  <1>4. reqs \in [Requests -> Request] /\ torn \in [Requests -> BOOLEAN]  BY CallsNat DEF CWInv
  <1>5. /\ reqs' \in [Requests -> Request]
        /\ \A q \in Requests : /\ reqs'[q].accepted = reqs[q].accepted /\ reqs'[q].amount = reqs[q].amount
                               /\ reqs'[q].status = "CANCELLED" => reqs[q].status = "CANCELLED"
    BY <1>2, <1>3, <1>4 DEF Request
  <1>6. torn' \in [Requests -> BOOLEAN] /\ \A q \in Requests \ call[u].on : torn'[q] = torn[q]
    BY <1>1, <1>2, <1>4
  <1>7. \A q \in (Requests \cap call[u].on) \ crossed : reqs[q].accepted > 0 => Balanced(q)
    BY <1>1, DoneBalanced
  <1>8. CallOK(Idle)' /\ Idle.on \subseteq call[u].on /\ ~Pending(Idle)
        /\ Held(Idle) \subseteq Held(call[u]) \cup DOMAIN works
    BY IdleNames DEF CallOK
  <1> QED  BY <1>1, <1>5, <1>6, <1>7, <1>8, CallerQuiet

\* The parts that are read are numbers, and are written to rows of the request.
LEMMA PartsRead ==
  ASSUME TypeOK, NEW r \in Requests, reqs[r].accepted # 0, NEW i \in Rows(r)
  PROVE  PartsOf(r)[i] \in Int
  <1> DEFINE s == Spread(Rows(r))
             total == reqs[r].amount
             sum == IF reqs[r].accepted > Allocated(s) THEN reqs[r].accepted ELSE Allocated(s)
  <1>1. CardOK(s) /\ DOMAIN s = Rows(r)  BY CardsOK, SpreadIs DEF Rows
  <1>2. total \in Nat /\ reqs[r].accepted \in Nat  BY DEF TypeOK, Request
  <1>3. PartsOf(r) = splitAmount(total, sum, s)  BY DEF PartsOf, Parts
  <1>4. sum \in Nat /\ sum # 0
    <2>1. Allocated(s) \in Nat
      <3> HIDE DEF s
      <3> QED  BY <1>1, AllocatedNat
    <2> HIDE DEF s
    <2> QED  BY <1>2, <2>1
  <1>5. i \in DOMAIN s  BY <1>1
  <1> HIDE DEF s, sum, total
  <1>6. splitAmount(total, sum, s)[i] \in Int  BY <1>1, <1>2, <1>4, <1>5, SplitParts
  <1> QED  BY <1>3, <1>6

\* What was read is written back, a row at a time.
LEMMA ReadKeeps ==
  ASSUME CWInv, NEW u \in Users, RedistributeRead(u)
  PROVE  CWInv'
  <1>0. PICK c, r, s, left : /\ c = call[u] /\ r = call[u].r /\ s = Spread(Rows(r))
                             /\ left = IF reqs[r].accepted = 0 THEN {} ELSE DOMAIN s
    OBVIOUS
  <1>1. /\ Redistributes(u, "split") /\ UNCHANGED <<reqs, works, calls, torn, crossed>>
        /\ call' = [call EXCEPT ![u].step = "write", ![u].read = s, ![u].left = left,
                        ![u].parts = Parts(reqs[r].amount, reqs[r].accepted, s)]
    BY <1>0 DEF RedistributeRead, server
  <1>2. c.kind \in RedoKinds /\ c.step = "split"
    BY <1>0, <1>1 DEF Redistributes, RedoKinds
  <1>3. call[u] # Idle /\ call = [v \in Users |-> call[v]] /\ RedoOK(c)
    BY <1>0, <1>2, KindBusy, Busy DEF RedoKinds
  <1>4. PICK d : d = [c EXCEPT !.step = "write", !.read = s, !.left = left,
                          !.parts = Parts(reqs[r].amount, reqs[r].accepted, s)]
    OBVIOUS
  <1>5. call' = [call EXCEPT ![u] = d]  BY <1>0, <1>1, <1>3, <1>4
  <1>6. /\ DOMAIN d = DOMAIN c /\ d.step = "write" /\ d.read = s /\ d.left = left /\ d.parts = PartsOf(r)
        /\ \A f \in DOMAIN c \ {"step", "read", "left", "parts"} : d[f] = c[f]
    BY <1>0, <1>3, <1>4 DEF RedoOK, RedoFields, PartsOf
  <1>7. r \in Requests /\ c.r = r  BY <1>0, <1>3 DEF RedoOK
  <1>8. DOMAIN s = Rows(r) /\ left \subseteq Rows(r) /\ reqs[r].accepted \in Nat
    <2>1. DOMAIN s = Rows(r)  BY <1>0, SpreadIs
    <2>2. reqs[r].accepted \in Nat  BY <1>7 DEF CWInv, TypeOK, Request
    <2> QED  BY <1>0, <2>1, <2>2
  <1>9. \A i \in d.left : /\ i \in 1..calls /\ d.parts[i] \in Int
                          /\ i \in DOMAIN works' => works'[i].request = c.r
    <2> SUFFICES ASSUME NEW i \in left PROVE i \in 1..calls /\ PartsOf(r)[i] \in Int /\ works[i].request = r
      BY <1>1, <1>6, <1>7
    <2>1. reqs[r].accepted # 0 /\ i \in Rows(r)  BY <1>0, <1>8
    <2>2. i \in DOMAIN works /\ works[i].request = r  BY <2>1 DEF Rows
    <2>3. TypeOK /\ i \in 1..calls  BY <2>2 DEF CWInv, TypeOK
    <2> QED  BY <1>7, <2>1, <2>2, <2>3, PartsRead
  <1>10. c.kind \in {"allocate", "remove"} => (c.id \in DOMAIN works' => works'[c.id].request = c.r)
    BY <1>1, <1>3 DEF RedoOK, Held
  <1>11. c.kind = "allocate" => (c.id \in DOMAIN works' => works'[c.id].order = c.o)
    BY <1>1, <1>3 DEF RedoOK, AllocateOK
  <1>12. c.kind = "accept" /\ c.r \notin crossed =>
            reqs'[c.r].accepted = c.qty /\ reqs'[c.r].amount = c.base.amount
    BY <1>1, <1>2, <1>3 DEF RedoOK, AcceptOK
  <1>13. WriteOK(d)'
    <2>1. d.r = r  BY <1>3, <1>6, <1>7 DEF RedoOK, RedoFields
    <2>2. WriteOK(d)  BY <1>0, <1>6, <1>8, <2>1 DEF WriteOK
    <2> QED  BY <1>1, <2>2 DEF WriteOK, PartsOf, Rows, Spread
  <1>14. /\ CallOK(d)' /\ d.r = c.r /\ d.on = c.on /\ d.kind = c.kind /\ ~Pending(d)
         /\ Held(d) \subseteq Held(c) \cup d.left
    BY <1>1, <1>3, <1>6, <1>9, <1>10, <1>11, <1>12, <1>13, RedoAfter
  <1>15. Held(d) \subseteq Held(call[u]) \cup DOMAIN works /\ d.on \subseteq call[u].on
    BY <1>0, <1>6, <1>8, <1>14 DEF Rows
  <1>16. \A q \in (Requests \cap call[u].on) \ crossed : ~Redoes(u, q)' => Balanced(q)
    <2>1. Redoes(u, r)'
      <3>1. call'[u] = d  BY <1>3, <1>5
      <3> QED  BY <1>2, <1>6, <1>7, <1>14, <3>1 DEF Redoes, Redistributes, RedoKinds
    <2>2. \A q \in Requests \cap call[u].on : q = r  BY <1>0, <1>3, <1>7, OnOf
    <2> QED  BY <2>1, <2>2
  <1>17. /\ reqs' \in [Requests -> Request] /\ torn' \in [Requests -> BOOLEAN]
         /\ \A q \in Requests : reqs'[q] = reqs[q]
    BY <1>1, CallsNat DEF CWInv
  <1> QED  BY <1>1, <1>5, <1>14, <1>15, <1>16, <1>17, CallerQuiet

\* A request without rows is cancelled: whoever is on it too has crossed it.
LEMMA CancelHeadKeeps ==
  ASSUME CWInv, NEW u \in Users, CancelHead(u)
  PROVE  CWInv'
  <1>0. PICK c, r, S : c = call[u] /\ r = call[u].r /\ S = call[u].on  OBVIOUS
  <1>1. /\ c.kind = "cancel" /\ UNCHANGED <<works, calls, torn, crossed>>
        /\ call' = [call EXCEPT ![u] = Idle]
        /\ reqs' = [reqs EXCEPT ![r].status = "CANCELLED"]
    BY <1>0 DEF CancelHead, At, End
  <1>2. call[u] # Idle /\ CancelOK(c)  BY <1>0, <1>1, KindBusy, Busy
  <1>3. r \in Requests /\ S = {r} /\ (r \notin crossed => Rows(r) = {})  BY <1>0, <1>2 DEF CancelOK
  <1>4. reqs \in [Requests -> Request] /\ TypeOK  BY CallsNat DEF CWInv
  <1>5. /\ reqs' \in [Requests -> Request]
        /\ \A q \in Requests : /\ reqs'[q].accepted = reqs[q].accepted /\ reqs'[q].amount = reqs[q].amount
                               /\ q # r => reqs'[q].status = reqs[q].status
    BY <1>1, <1>3, <1>4 DEF Request, Statuses
  <1>6. Frame(S)  BY <1>1, <1>3, <1>4, <1>5, WorksAsWere
  <1>7. TypeOK'  BY <1>1, <1>4, <1>5 DEF TypeOK
  <1>8. \A q \in (Requests \cap S) \ crossed :
            /\ OneRowOf(q)' /\ WithinOf(q)'
            /\ reqs'[q].accepted > 0 /\ ~torn'[q] /\ ~Redoes(u, q)' => Balanced(q)'
    <2>1. r \notin crossed => Rows(r)' = {}  BY <1>1, <1>3 DEF Rows
    <2>2. r \notin crossed => OneRowOf(r)' /\ Balanced(r)'  BY <2>1 DEF OneRowOf, Balanced
    <2>3. r \notin crossed => WithinOf(r)'
      <3> SUFFICES ASSUME r \notin crossed PROVE WithinOf(r)'  OBVIOUS
      <3>1. WithinOf(r)  BY <1>3 DEF CWInv, Within
      <3>2. Spread(Rows(r))' = Spread(Rows(r))  BY <1>1 DEF Spread, Rows
      <3> QED  BY <1>3, <1>5, <2>1, <3>1, <3>2 DEF WithinOf
    <2> QED  BY <1>3, <2>2, <2>3
  <1>9. \A o \in (Orders \cap S) \ crossed : takenShare(o, {})' <= 100
    BY <1>3, ContractorAssumption
  <1>10. CallOK(Idle)' /\ Idle.on \subseteq S /\ ~Pending(Idle)
        /\ Held(Idle) \subseteq Held(call[u]) \cup DOMAIN works
    BY IdleNames DEF CallOK
  <1>11. \A i \in DOMAIN works' \ DOMAIN works : Pending(call[u]) /\ i = call[u].id  BY <1>1
  <1> QED  BY <1>0, <1>1, <1>6, <1>7, <1>8, <1>9, <1>10, <1>11, CallerKeeps

\* A call that goes on to the redistribution of its request: the rows are to be written.
LEMMA SplitNext ==
  ASSUME CWInv, NEW u \in Users, NEW c, c = call[u], c.kind \in RedoKinds, Step(u, "split"),
         \A i \in DOMAIN works' : i \in DOMAIN works => works'[i].request = works[i].request
                                                        /\ works'[i].order = works[i].order,
         \A i \in DOMAIN works' \ DOMAIN works :
            Pending(c) /\ i = c.id /\ works'[i].request = c.r /\ works'[i].order = c.o,
         c.kind = "accept" /\ c.r \notin crossed =>
            reqs'[c.r].accepted = c.qty /\ reqs'[c.r].amount = c.base.amount
  PROVE  \E d : /\ call' = [call EXCEPT ![u] = d] /\ CallOK(d)' /\ UNCHANGED <<calls, crossed, torn>>
                /\ d.on \subseteq c.on /\ ~Pending(d) /\ Held(d) \subseteq Held(c) \cup DOMAIN works
                /\ Redoes(u, c.r)'
  <1>1. call[u] # Idle /\ RedoOK(c) /\ call = [v \in Users |-> call[v]]  BY KindBusy, Busy DEF RedoKinds
  <1>2. PICK d : /\ call' = [call EXCEPT ![u] = d]
                 /\ DOMAIN d = DOMAIN c /\ d.step = "split"
                 /\ \A f \in DOMAIN c \ {"step"} : d[f] = c[f]
    <2>1. \A x : Step(u, x) => \E d : /\ call' = [call EXCEPT ![u] = d]
                                      /\ DOMAIN d = DOMAIN call[u] /\ d.step = x
                                      /\ \A f \in DOMAIN call[u] \ {"step"} : d[f] = call[u][f]
      BY <1>1, StepIs
    <2> QED  BY <2>1
  <1>3. UNCHANGED <<calls, crossed, torn>>  BY DEF Step
  <1>4. d.left = c.left /\ d.parts = c.parts  BY <1>1, <1>2 DEF RedoOK, RedoFields
  <1>5. c.left \subseteq Held(c)  BY DEF Held
  <1>6. \A i \in Held(c) : i \in 1..calls /\ (i \in DOMAIN works' => works'[i].request = c.r)
    BY <1>1 DEF RedoOK
  <1>7. \A i \in d.left : /\ i \in 1..calls /\ d.parts[i] \in Int
                          /\ i \in DOMAIN works' => works'[i].request = c.r
    BY <1>1, <1>4, <1>5, <1>6 DEF RedoOK
  <1>8. c.kind \in {"allocate", "remove"} => (c.id \in DOMAIN works' => works'[c.id].request = c.r)
    BY <1>6 DEF Held
  <1>9. c.kind = "allocate" => (c.id \in DOMAIN works' => works'[c.id].order = c.o)
    BY <1>1 DEF RedoOK, AllocateOK
  <1>10. d.step # "write"  BY <1>2
  <1>11. /\ CallOK(d)' /\ d.r = c.r /\ d.on = c.on /\ d.kind = c.kind /\ ~Pending(d)
         /\ Held(d) \subseteq Held(c) \cup d.left
    BY <1>1, <1>2, <1>3, <1>7, <1>8, <1>9, <1>10, RedoAfter
  <1>12. Redoes(u, c.r)'
    <2>1. call'[u] = d  BY <1>1, <1>2
    <2> QED  BY <1>2, <1>11, <2>1 DEF Redoes, Redistributes, RedoKinds
  <1> QED  BY <1>2, <1>3, <1>4, <1>5, <1>11, <1>12

\* The act: what was allocated before fits in it still.
LEMMA AcceptHeadKeeps ==
  ASSUME CWInv, NEW u \in Users, AcceptHead(u)
  PROVE  CWInv'
  <1>0. PICK c, r, S : c = call[u] /\ r = call[u].r /\ S = call[u].on  OBVIOUS
  <1>1. /\ c.kind = "accept" /\ c.step = "head" /\ UNCHANGED works /\ Step(u, "split")
        /\ reqs' = [reqs EXCEPT ![r].status = c.status, ![r].accepted = c.qty,
                       ![r].amount = c.base.amount,
                       ![r].doc = IF c.base.doc = Nothing THEN @ ELSE c.base.doc]
    BY <1>0 DEF AcceptHead, At
  <1>2. c.kind \in RedoKinds /\ RedoOK(c)  BY <1>0, <1>1, KindBusy, Busy DEF RedoKinds
  <1>3. r \in Requests /\ AcceptOK(c) /\ S = {r} /\ c.r = r
    BY <1>0, <1>1, <1>2, OnOf DEF RedoOK
  <1>4. /\ c.status \in Statuses \ {"CANCELLED"} /\ c.qty \in Nat \ {0}
        /\ c.base.amount \in Nat /\ c.base.doc \in Docs \cup {Nothing}
        /\ r \notin crossed => Covers(c.qty, Rows(r))
    BY <1>1, <1>3 DEF AcceptOK
  <1>5. reqs \in [Requests -> Request] /\ TypeOK  BY CallsNat DEF CWInv
  <1>6. UNCHANGED <<calls, torn, crossed>>  BY <1>1 DEF Step
  <1>7. /\ reqs' \in [Requests -> Request]
        /\ reqs'[r].accepted = c.qty /\ reqs'[r].amount = c.base.amount /\ reqs'[r].status # "CANCELLED"
        /\ \A q \in Requests \ {r} : reqs'[q] = reqs[q]
    <2>1. \A q \in Requests \ {r} : reqs'[q] = reqs[q]  BY <1>1, <1>5
    <2>2. PICK st, qty, amount, doc :
            st = c.status /\ qty = c.qty /\ amount = c.base.amount
            /\ doc = (IF c.base.doc = Nothing THEN reqs[r].doc ELSE c.base.doc)
      OBVIOUS
    <2>3. reqs' = [q \in Requests |-> IF q = r
                     THEN [reqs[r] EXCEPT !.status = st, !.accepted = qty, !.amount = amount, !.doc = doc]
                     ELSE reqs[q]]
      BY <1>1, <1>3, <1>5, <2>2
    <2>4. reqs[r] \in Request  BY <1>3, <1>5
    <2>5. doc \in Docs \cup {Nothing}  BY <1>4, <2>2, <2>4 DEF Request
    <2>6. /\ reqs'[r] \in Request /\ reqs'[r].accepted = qty /\ reqs'[r].amount = amount
          /\ reqs'[r].status # "CANCELLED"
      BY <1>3, <1>4, <2>2, <2>3, <2>4, <2>5 DEF Request
    <2> QED  BY <1>5, <2>1, <2>2, <2>3, <2>6
  <1>8. Frame(S)  BY <1>1, <1>3, <1>5, <1>7, WorksAsWere
  <1>9. TypeOK'  BY <1>1, <1>5, <1>6, <1>7 DEF TypeOK
  <1>10. PICK d : /\ call' = [call EXCEPT ![u] = d] /\ CallOK(d)' /\ UNCHANGED <<calls, crossed, torn>>
                  /\ d.on \subseteq c.on /\ ~Pending(d) /\ Held(d) \subseteq Held(c) \cup DOMAIN works
                  /\ Redoes(u, c.r)'
    <2>1. \A i \in DOMAIN works' : i \in DOMAIN works => works'[i].request = works[i].request
                                                         /\ works'[i].order = works[i].order
      BY <1>1
    <2>2. \A i \in DOMAIN works' \ DOMAIN works :
             Pending(c) /\ i = c.id /\ works'[i].request = c.r /\ works'[i].order = c.o
      BY <1>1
    <2>3. c.kind = "accept" /\ c.r \notin crossed =>
            reqs'[c.r].accepted = c.qty /\ reqs'[c.r].amount = c.base.amount
      BY <1>3, <1>7
    <2>4. c = call[u] /\ c.kind \in RedoKinds /\ Step(u, "split")  BY <1>0, <1>1, <1>2
    <2> QED  BY <2>1, <2>2, <2>3, <2>4, SplitNext
  <1>11. \A q \in (Requests \cap S) \ crossed :
            /\ OneRowOf(q)' /\ WithinOf(q)'
            /\ reqs'[q].accepted > 0 /\ ~torn'[q] /\ ~Redoes(u, q)' => Balanced(q)'
    <2> SUFFICES ASSUME r \notin crossed PROVE OneRowOf(r)' /\ WithinOf(r)'  BY <1>3, <1>10
    <2>1. OneRowOf(r)  BY <1>3 DEF CWInv, Within
    <2>2. Rows(r)' = Rows(r) /\ Spread(Rows(r))' = Spread(Rows(r))  BY <1>1 DEF Spread, Rows
    <2>3. OneRowOf(r)'  BY <1>1, <2>1, <2>2 DEF OneRowOf
    <2>4. WithinOf(r)'  BY <1>4, <1>7, <2>2 DEF WithinOf, Covers
    <2> QED  BY <2>3, <2>4
  <1>12. \A o \in (Orders \cap S) \ crossed : takenShare(o, {})' <= 100
    BY <1>3, ContractorAssumption
  <1>13. \A i \in DOMAIN works' \ DOMAIN works : Pending(call[u]) /\ i = call[u].id  BY <1>1
  <1>14. d.on \subseteq S /\ Held(d) \subseteq Held(call[u]) \cup DOMAIN works  BY <1>0, <1>10
  <1> QED  BY <1>0, <1>6, <1>8, <1>9, <1>10, <1>11, <1>12, <1>13, <1>14, CallerKeeps

----------------------------------------------------------------------------
(* Steps that write the rows                                               *)

\* A row put for an order, in place of the one of that id, takes its share there.
LEMMA PutShare ==
  ASSUME TypeOK, NEW o, NEW id, NEW row, Put(id, row), row.order = o, row.share \in Nat,
         id \in DOMAIN works => works[id].order = o
  PROVE  /\ takenShare(o, {})' = takenShare(o, {id}) + row.share
         /\ \A x : x # o => NoMore(x)
  <1>1. /\ DOMAIN works' = DOMAIN works \cup {id} /\ works'[id] = row
        /\ \A j \in DOMAIN works \ {id} : works'[j] = works[j]
    BY DEF Put
  <1> DEFINE f == [i \in DOMAIN works |-> works[i].share]
             g == [i \in DOMAIN works' |-> works'[i].share]
  <1>2. takenShare(o, {})' = takenShare(o, {id}) + row.share
    <2> DEFINE V == {i \in DOMAIN works \ {id} : works[i].order = o}
               U == {i \in DOMAIN works' \ {} : works'[i].order = o}
    <2>1. U = V \cup {id} /\ id \notin V  BY <1>1
    <2>2. IsFiniteSet(V)  BY FS_Subset DEF TypeOK
    <2>3. \A i \in V : g[i] = f[i]  BY <1>1
    <2>4. \A i \in V \cup {id} : g[i] \in Int
      <3>1. \A i \in DOMAIN works : works[i].share \in Int  BY ShareNat
      <3> QED  BY <1>1, <3>1
    <2>5. g[id] = row.share  BY <1>1
    <2>6. takenShare(o, {})' = SumFunctionOnSet(g, U)  BY DEF takenShare
    <2>7. takenShare(o, {id}) = SumFunctionOnSet(f, V)  BY DEF takenShare
    <2> HIDE DEF f, g, V, U
    <2>8. SumFunctionOnSet(g, V \cup {id}) = SumFunctionOnSet(g, V) + g[id]  BY <2>1, <2>2, <2>4, SumAdd
    <2>9. SumFunctionOnSet(g, V) = SumFunctionOnSet(f, V)  BY <2>2, <2>3, SumSame
    <2> QED  BY <2>1, <2>5, <2>6, <2>7, <2>8, <2>9
  <1>3. ASSUME NEW x, x # o, NEW T
        PROVE  takenShare(x, T)' \in Int /\ takenShare(x, T)' <= takenShare(x, T)
    <2> DEFINE V == {i \in DOMAIN works \ T : works[i].order = x}
               U == {i \in DOMAIN works' \ T : works'[i].order = x}
    <2>1. U = V  BY <1>1, <1>3
    <2>2. IsFiniteSet(V)  BY FS_Subset DEF TypeOK
    <2>3. \A i \in V : g[i] = f[i]  BY <1>1, <1>3
    <2>4. takenShare(x, T)' = SumFunctionOnSet(g, U)  BY DEF takenShare
    <2>5. takenShare(x, T) = SumFunctionOnSet(f, V)  BY DEF takenShare
    <2>6. takenShare(x, T) \in Nat  BY TakenNat
    <2> HIDE DEF f, g, V, U
    <2>7. SumFunctionOnSet(g, V) = SumFunctionOnSet(f, V)  BY <2>2, <2>3, SumSame
    <2> QED  BY <2>1, <2>4, <2>5, <2>6, <2>7
  <1> QED  BY <1>2, <1>3 DEF NoMore

\* A row taken away gives back its share.
LEMMA DeleteShare ==
  ASSUME TypeOK, NEW id, Delete(id), NEW x
  PROVE  NoMore(x)
  <1> SUFFICES ASSUME NEW Z PROVE takenShare(x, Z)' \in Int /\ takenShare(x, Z)' <= takenShare(x, Z)
    BY DEF NoMore
  <1> DEFINE f == [i \in DOMAIN works |-> works[i].share]
             g == [i \in DOMAIN works' |-> works'[i].share]
             T == {i \in DOMAIN works \ Z : works[i].order = x}
             U == {i \in DOMAIN works' \ Z : works'[i].order = x}
  <1>1. DOMAIN works' = DOMAIN works \ {id} /\ \A j \in DOMAIN works' : works'[j] = works[j]  BY DEF Delete
  <1>2. U = T \ {id} /\ IsFiniteSet(T) /\ IsFiniteSet(U)  BY <1>1, FS_Subset DEF TypeOK
  <1>3. \A i \in T : f[i] \in Nat  BY ShareNat
  <1>4. \A i \in U : g[i] = f[i] /\ f[i] \in Nat  BY <1>1, <1>3
  <1>5. takenShare(x, Z) = SumFunctionOnSet(f, T) /\ takenShare(x, Z)' = SumFunctionOnSet(g, U)
    BY DEF takenShare
  <1> HIDE DEF f, g, T, U
  <1>6. SumFunctionOnSet(g, U) = SumFunctionOnSet(f, U)  BY <1>2, <1>4, SumSame
  <1>7. SumFunctionOnSet(f, T) \in Nat /\ SumFunctionOnSet(f, U) \in Nat  BY <1>2, <1>3, <1>4, SumNat
  <1>8. SumFunctionOnSet(f, U) <= SumFunctionOnSet(f, T)
    <2>1. CASE id \in T
      <3>1. SumFunctionOnSet(f, T) = f[id] + SumFunctionOnSet(f, T \ {id})
        <4>1. \A i \in T : f[i] \in Int  BY <1>3
        <4> QED  BY <1>2, <2>1, <4>1, SumRemove
      <3> QED  BY <1>2, <1>3, <1>7, <2>1, <3>1
    <2>2. CASE id \notin T
      <3>1. U = T  BY <1>2, <2>2
      <3> QED  BY <1>7, <3>1
    <2> QED  BY <2>1, <2>2
  <1> QED  BY <1>5, <1>6, <1>7, <1>8

\* Rows that are all there with their orders and shares.
LEMMA SameShare ==
  ASSUME TypeOK, DOMAIN works' = DOMAIN works,
         \A j \in DOMAIN works : works'[j].order = works[j].order /\ works'[j].share = works[j].share,
         NEW x
  PROVE  NoMore(x) /\ takenShare(x, {})' = takenShare(x, {})
  <1>1. ASSUME NEW T PROVE takenShare(x, T)' = takenShare(x, T)
    <2>1. [j \in DOMAIN works' |-> works'[j].share] = [j \in DOMAIN works |-> works[j].share]  OBVIOUS
    <2>2. {j \in DOMAIN works' \ T : works'[j].order = x} = {j \in DOMAIN works \ T : works[j].order = x}
      OBVIOUS
    <2> QED  BY <2>1, <2>2 DEF takenShare
  <1>2. \A T : takenShare(x, T)' \in Int /\ takenShare(x, T)' <= takenShare(x, T)
    <2> SUFFICES ASSUME NEW T PROVE takenShare(x, T)' \in Int /\ takenShare(x, T)' <= takenShare(x, T)
      OBVIOUS
    <2>1. takenShare(x, T) \in Nat  BY TakenNat
    <2> QED  BY <1>1, <2>1
  <1> QED  BY <1>1, <1>2 DEF NoMore

\* Nothing of a request is touched by what is done to a row of another.
LEMMA NotMine ==
  ASSUME UNCHANGED reqs, NEW q, Rows(q)' = Rows(q), NEW id, id \notin Rows(q),
         \A j \in DOMAIN works \ {id} : works'[j] = works[j]
  PROVE  Apart(q)
  <1>1. \A i \in Rows(q) : works'[i] = works[i]  BY DEF Rows
  <1> QED  BY <1>1 DEF Apart

LEMMA RemoveRowKeeps ==
  ASSUME CWInv, NEW u \in Users, RemoveRow(u)
  PROVE  CWInv'
  <1>0. PICK c, r, id, S : c = call[u] /\ r = call[u].r /\ id = call[u].id /\ S = call[u].on  OBVIOUS
  <1>1. /\ c.kind = "remove" /\ c.step = "row" /\ UNCHANGED reqs
        /\ Delete(id) /\ Step(u, "split") /\ UNCHANGED <<calls, torn, crossed>>
    BY <1>0 DEF RemoveRow, At, Step
  <1>2. c.kind \in RedoKinds /\ RedoOK(c)  BY <1>0, <1>1, KindBusy, Busy DEF RedoKinds
  <1>3. /\ r \in Requests /\ S = {r} /\ c.r = r
        /\ id \in DOMAIN works => works[id].request = r
        /\ r \notin crossed => id \in Rows(r)
    <2>1. id \in Held(c)  BY <1>0, <1>1 DEF Held
    <2> QED  BY <1>0, <1>1, <1>2, <2>1, OnOf DEF RedoOK
  <1>4. DOMAIN works' = DOMAIN works \ {id} /\ \A j \in DOMAIN works' : works'[j] = works[j]
    BY <1>1 DEF Delete
  <1>5. TypeOK'
    <2>1. IsFiniteSet(DOMAIN works') /\ DOMAIN works' \subseteq 1..calls
      BY <1>4, FS_Subset DEF CWInv, TypeOK
    <2> QED  BY <1>1, <1>4, <2>1 DEF CWInv, TypeOK
  <1>6. \A q : Rows(q)' = Rows(q) \ {id} /\ (q # r => id \notin Rows(q))
    <2> SUFFICES ASSUME NEW q PROVE Rows(q)' = Rows(q) \ {id} /\ (q # r => id \notin Rows(q))  OBVIOUS
    <2>1. Rows(q)' = Rows(q) \ {id}  BY <1>4 DEF Rows
    <2>2. q # r => id \notin Rows(q)  BY <1>3 DEF Rows
    <2> QED  BY <2>1, <2>2
  <1>7. Frame(S)
    <2>1. ASSUME NEW q \in Requests \ S PROVE Apart(q)
      <3>1. Rows(q)' = Rows(q) /\ id \notin Rows(q)  BY <1>3, <1>6
      <3>2. \A j \in DOMAIN works \ {id} : works'[j] = works[j]  BY <1>4
      <3> QED  BY <1>1, <3>1, <3>2, NotMine
    <2>2. \A o : NoMore(o)  BY <1>1, DeleteShare DEF CWInv
    <2> QED  BY <1>4, <2>1, <2>2 DEF Frame, RowsStay
  <1>8. PICK d : /\ call' = [call EXCEPT ![u] = d] /\ CallOK(d)' /\ UNCHANGED <<calls, crossed, torn>>
                 /\ d.on \subseteq c.on /\ ~Pending(d) /\ Held(d) \subseteq Held(c) \cup DOMAIN works
                 /\ Redoes(u, c.r)'
    <2>1. \A i \in DOMAIN works' : i \in DOMAIN works => works'[i].request = works[i].request
                                                         /\ works'[i].order = works[i].order
      BY <1>4
    <2>2. \A i \in DOMAIN works' \ DOMAIN works :
             Pending(c) /\ i = c.id /\ works'[i].request = c.r /\ works'[i].order = c.o
      BY <1>4
    <2>3. c = call[u] /\ c.kind \in RedoKinds /\ Step(u, "split") /\ c.kind # "accept"
      BY <1>0, <1>1, <1>2
    <2> QED  BY <2>1, <2>2, <2>3, SplitNext
  <1>9. ASSUME r \notin crossed PROVE OneRowOf(r)' /\ WithinOf(r)'
    <2>1. OneRowOf(r) /\ WithinOf(r) /\ id \in Rows(r)  BY <1>3, <1>9 DEF CWInv, Within
    <2>2. Rows(r)' = Rows(r) \ {id} /\ \A i \in Rows(r)' : works'[i] = works[i]
      <3>1. \A i \in Rows(r)' : i \in DOMAIN works'  BY DEF Rows
      <3> QED  BY <1>4, <1>6, <3>1
    <2>3. OneRowOf(r)'  BY <2>1, <2>2 DEF OneRowOf
    <2> DEFINE s == Spread(Rows(r))
               t == Spread(Rows(r))'
    <2>4. CardOK(s) /\ CardOK(t)  BY <1>5, CardNext, CardsOK DEF CWInv, Rows
    <2>5. DOMAIN s = Rows(r) /\ DOMAIN t = Rows(r) \ {id} /\ \A i \in DOMAIN t : t[i].qty = s[i].qty
      <3>1. /\ DOMAIN s = Rows(r) /\ DOMAIN t = Rows(r)'
            /\ \A i \in Rows(r) : s[i].qty = works[i].qty
            /\ \A i \in Rows(r)' : t[i].qty = works'[i].qty
        BY SpreadIs, SpreadIsNext
      <3> HIDE DEF s, t
      <3> QED  BY <2>2, <3>1
    <2>6. Allocated(t) <= Allocated(s) /\ Allocated(t) \in Nat /\ Allocated(s) \in Nat
      <3> HIDE DEF s, t
      <3> QED  BY <2>1, <2>4, <2>5, AllocatedLess, AllocatedNat
    <2>7. reqs[r].accepted \in Nat  BY <1>3 DEF CWInv, TypeOK, Request
    <2>8. reqs[r].accepted > 0 => Allocated(s) <= reqs[r].accepted  BY <2>1 DEF WithinOf
    <2> HIDE DEF s, t
    <2>9. reqs[r].accepted > 0 => Allocated(t) <= reqs[r].accepted  BY <2>6, <2>7, <2>8
    <2>10. reqs[r].status = "CANCELLED" => Rows(r)' = {}  BY <2>1, <2>2 DEF WithinOf
    <2>11. WithinOf(r)'
      <3> USE DEF t
      <3> QED  BY <1>1, <2>9, <2>10 DEF WithinOf
    <2> QED  BY <2>3, <2>11
  <1>10. \A q \in (Requests \cap S) \ crossed :
            /\ OneRowOf(q)' /\ WithinOf(q)'
            /\ reqs'[q].accepted > 0 /\ ~torn'[q] /\ ~Redoes(u, q)' => Balanced(q)'
    BY <1>3, <1>8, <1>9
  <1>11. \A o \in (Orders \cap S) \ crossed : takenShare(o, {})' <= 100
    BY <1>3, ContractorAssumption
  <1>12. \A i \in DOMAIN works' \ DOMAIN works : Pending(call[u]) /\ i = call[u].id  BY <1>4
  <1>13. d.on \subseteq S /\ Held(d) \subseteq Held(call[u]) \cup DOMAIN works  BY <1>0, <1>8
  <1> QED  BY <1>0, <1>1, <1>5, <1>7, <1>8, <1>10, <1>11, <1>12, <1>13, CallerKeeps

\* The row of an order is put, in place of the one there was, where it fitted.
LEMMA AllocateRowKeeps ==
  ASSUME CWInv, NEW u \in Users, AllocateRow(u)
  PROVE  CWInv'
  <1>0. PICK c, r, id, o, qty, share, new, S :
          /\ c = call[u] /\ r = call[u].r /\ id = call[u].id /\ o = call[u].o /\ qty = call[u].qty
          /\ share = call[u].share /\ new = call[u].new /\ S = call[u].on
    OBVIOUS
  <1>1. /\ c.kind = "allocate" /\ c.step = "row" /\ UNCHANGED reqs /\ (new \/ id \in DOMAIN works)
        /\ Step(u, "split") /\ UNCHANGED <<calls, torn, crossed>>
    BY <1>0 DEF AllocateRow, At, Step
  <1>2. c.kind \in RedoKinds /\ RedoOK(c)  BY <1>0, <1>1, KindBusy, Busy DEF RedoKinds
  <1>3. AllocateOK(c) /\ r \in Requests /\ c.r = r /\ c.o = o /\ c.id = id /\ S = {r, o}
    BY <1>0, <1>1, <1>2, OnOf DEF RedoOK
  <1>4. /\ o \in Orders /\ qty \in Nat \ {0} /\ share \in Shares /\ new \in BOOLEAN /\ id \in 1..calls
        /\ id \in DOMAIN works => works[id].request = r /\ works[id].order = o
        /\ new => id \notin DOMAIN works
        /\ o \notin crossed => ShareFits(o, id, share)
    <2>1. id \in Held(c)  BY <1>0, <1>1 DEF Held
    <2>2. id \in 1..calls /\ (id \in DOMAIN works => works[id].request = r)  BY <1>2, <1>3, <2>1 DEF RedoOK
    <2> QED  BY <1>0, <1>1, <1>3, <2>2 DEF AllocateOK
  <1>5. r \notin crossed => /\ reqs[r].status # "CANCELLED" /\ QtyFits(r, o, qty)
                            /\ new => Same(r, o) = {}
                            /\ ~new => id \in Same(r, o)
    BY <1>0, <1>1, <1>3 DEF AllocateOK
  <1>6. PICK row : row = [request |-> r, order |-> o, qty |-> qty, share |-> share,
                          amount |-> IF new THEN 0 ELSE works[id].amount, at |-> Now, accepted |-> FALSE]
    OBVIOUS
  <1>7. Put(id, row)  BY <1>0, <1>6 DEF AllocateRow
  <1>8. /\ DOMAIN works' = DOMAIN works \cup {id} /\ works'[id] = row
        /\ \A j \in DOMAIN works \ {id} : works'[j] = works[j]
    BY <1>7 DEF Put
  <1>9. row \in Work /\ row.request = r /\ row.order = o /\ row.qty = qty /\ row.share = share
    <2>1. Now \in Nat  BY NowNat DEF CWInv
    <2>2. ~new => works[id].amount \in Int
      BY <1>1, <1>4 DEF CWInv, TypeOK, Work
    <2>3. PICK a \in Int : a = (IF new THEN 0 ELSE works[id].amount)  BY <1>4, <2>2
    <2> QED  BY <1>3, <1>4, <1>6, <2>1, <2>3 DEF Work
  <1>10. TypeOK'
    <2>1. IsFiniteSet(DOMAIN works')  BY <1>8, FS_AddElement DEF CWInv, TypeOK
    <2>2. DOMAIN works' \subseteq 1..calls  BY <1>4, <1>8 DEF CWInv, TypeOK
    <2>3. \A i \in DOMAIN works' : works'[i] \in Work /\ (works'[i].request # Nothing => works'[i].qty > 0)
      BY <1>4, <1>8, <1>9 DEF CWInv, TypeOK
    <2> QED  BY <1>1, <2>1, <2>2, <2>3 DEF CWInv, TypeOK
  <1>11. \A q : Rows(q)' = (Rows(q) \ {id}) \cup (IF q = r THEN {id} ELSE {})
                /\ (q # r => id \notin Rows(q))
    <2> SUFFICES ASSUME NEW q PROVE Rows(q)' = (Rows(q) \ {id}) \cup (IF q = r THEN {id} ELSE {})
                                    /\ (q # r => id \notin Rows(q))
      OBVIOUS
    <2>1. Rows(q)' = (Rows(q) \ {id}) \cup (IF q = r THEN {id} ELSE {})  BY <1>8, <1>9 DEF Rows
    <2>2. q # r => id \notin Rows(q)  BY <1>4 DEF Rows
    <2> QED  BY <2>1, <2>2
  <1>12. (id \in DOMAIN works => works[id].order = o) /\ share \in Nat
    <2>1. Shares \subseteq 1..100  BY ContractorAssumption
    <2> QED  BY <1>4, <2>1
  <1>13. takenShare(o, {})' = takenShare(o, {id}) + share /\ \A x : x # o => NoMore(x)
    <2>1. TypeOK  BY DEF CWInv
    <2> QED  BY <1>7, <1>9, <1>12, <2>1, PutShare
  <1>14. Frame(S)
    <2>1. ASSUME NEW q \in Requests \ S PROVE Apart(q)
      <3>1. Rows(q)' = Rows(q) /\ id \notin Rows(q)  BY <1>3, <1>11
      <3> QED  BY <1>1, <1>8, <3>1, NotMine
    <2>2. \A x \in Orders \ S : NoMore(x)  BY <1>3, <1>13
    <2>3. RowsStay  BY <1>4, <1>8, <1>9 DEF RowsStay
    <2> QED  BY <2>1, <2>2, <2>3 DEF Frame
  <1>15. Pending(c) <=> new  BY <1>0, <1>1 DEF Pending
  <1>16. \A i \in DOMAIN works' \ DOMAIN works : Pending(c) /\ i = id
    BY <1>1, <1>8, <1>15
  <1>17. PICK d : /\ call' = [call EXCEPT ![u] = d] /\ CallOK(d)' /\ UNCHANGED <<calls, crossed, torn>>
                  /\ d.on \subseteq c.on /\ ~Pending(d) /\ Held(d) \subseteq Held(c) \cup DOMAIN works
                  /\ Redoes(u, c.r)'
    <2>1. \A i \in DOMAIN works' : i \in DOMAIN works => works'[i].request = works[i].request
                                                         /\ works'[i].order = works[i].order
      BY <1>4, <1>8, <1>9
    <2>2. \A i \in DOMAIN works' \ DOMAIN works :
             Pending(c) /\ i = c.id /\ works'[i].request = c.r /\ works'[i].order = c.o
      BY <1>3, <1>8, <1>9, <1>16
    <2>3. c = call[u] /\ c.kind \in RedoKinds /\ Step(u, "split") /\ c.kind # "accept"
      BY <1>0, <1>1, <1>2
    <2> QED  BY <2>1, <2>2, <2>3, SplitNext
  <1>18. ASSUME r \notin crossed PROVE OneRowOf(r)' /\ WithinOf(r)'
    <2> DEFINE A == Rows(r) \ Same(r, o)
    <2>1. OneRowOf(r) /\ WithinOf(r)  BY <1>3, <1>18 DEF CWInv, Within
    <2>2. Same(r, o) \subseteq {id}
      BY <1>4, <1>5, <1>18, <2>1 DEF OneRowOf, Same
    <2>3. Rows(r)' = A \cup {id} /\ id \notin A /\ A \subseteq Rows(r)
      <3>1. Rows(r) \ {id} = A  BY <1>4, <2>2 DEF Same, Rows
      <3> QED  BY <1>11, <3>1
    <2>4. \A i \in A : i \in DOMAIN works \ {id} /\ works[i].order # o  BY <2>3 DEF Rows, Same
    <2>5. OneRowOf(r)'
      <3>1. \A i \in A : works'[i] = works[i] /\ works'[i].order # o  BY <1>8, <2>4
      <3>2. works'[id].order = o  BY <1>8, <1>9
      <3> SUFFICES ASSUME NEW i \in A \cup {id}, NEW j \in A \cup {id}, works'[i].order = works'[j].order
                   PROVE  i = j
        BY <2>3 DEF OneRowOf
      <3> QED  BY <2>1, <2>3, <3>1, <3>2 DEF OneRowOf
    <2> DEFINE s == Spread(A)
               t == Spread(Rows(r))'
    <2>6. CardOK(s) /\ CardOK(t)
      <3>1. A \subseteq DOMAIN works  BY <2>4
      <3> QED  BY <1>10, <3>1, CardNext, CardsOK DEF CWInv
    <2>7. DOMAIN s = A /\ \A i \in A : s[i].qty = works[i].qty  BY SpreadIs
    <2>8. DOMAIN t = A \cup {id} /\ \A i \in A \cup {id} : t[i].qty = works'[i].qty  BY <2>3, SpreadIsNext
    <2>9. id \notin DOMAIN s /\ DOMAIN t = DOMAIN s \cup {id} /\ t[id].qty = qty
          /\ \A i \in DOMAIN s : t[i].qty = s[i].qty
      <3> HIDE DEF A, s, t
      <3> QED  BY <1>8, <1>9, <2>3, <2>4, <2>7, <2>8
    <2>10. Allocated(t) = Allocated(s) + qty
      <3> HIDE DEF s, t
      <3>1. Allocated(t) = Allocated(s) + t[id].qty  BY <2>6, <2>9, AllocatedMore
      <3> QED  BY <2>9, <3>1
    <2>11. reqs[r].accepted = 0 \/ Allocated(s) + qty <= reqs[r].accepted  BY <1>5, <1>18 DEF QtyFits
    <2> HIDE DEF s, t
    <2>12. reqs'[r].accepted > 0 => Allocated(t) <= reqs'[r].accepted  BY <1>1, <2>10, <2>11
    <2>13. reqs'[r].status # "CANCELLED"  BY <1>1, <1>5, <1>18
    <2>14. WithinOf(r)'
      <3> USE DEF t
      <3> QED  BY <2>12, <2>13 DEF WithinOf
    <2> QED  BY <2>5, <2>14
  <1>19. \A q \in (Requests \cap S) \ crossed :
            /\ OneRowOf(q)' /\ WithinOf(q)'
            /\ reqs'[q].accepted > 0 /\ ~torn'[q] /\ ~Redoes(u, q)' => Balanced(q)'
    <2>1. \A q \in Requests \cap S : q = r  BY <1>3, <1>4, ContractorAssumption
    <2> QED  BY <1>3, <1>17, <1>18, <2>1
  <1>20. \A x \in (Orders \cap S) \ crossed : takenShare(x, {})' <= 100
    <2>1. \A x \in Orders \cap S : x = o  BY <1>3, ContractorAssumption
    <2>2. o \notin crossed => takenShare(o, {id}) + share <= 100  BY <1>4 DEF ShareFits
    <2> QED  BY <1>13, <2>1, <2>2
  <1>21. \A i \in DOMAIN works' \ DOMAIN works : Pending(call[u]) /\ i = call[u].id
    BY <1>0, <1>16
  <1>22. d.on \subseteq S /\ Held(d) \subseteq Held(call[u]) \cup DOMAIN works  BY <1>0, <1>17
  <1> QED  BY <1>0, <1>1, <1>10, <1>14, <1>17, <1>19, <1>20, <1>21, <1>22, CallerKeeps

\* A row is written the part it takes.
LEMMA WriteKeeps ==
  ASSUME CWInv, NEW u \in Users, RedistributeWrite(u)
  PROVE  CWInv'
  <1>0. PICK c, r, S : c = call[u] /\ r = call[u].r /\ S = call[u].on  OBVIOUS
  <1>1. /\ Redistributes(u, "write") /\ UNCHANGED <<reqs, tabs, calls, torn, crossed>>
        /\ \E i \in c.left :
              /\ works' = [j \in DOMAIN works |->
                              IF j = i THEN [works[j] EXCEPT !.amount = c.parts[i]] ELSE works[j]]
              /\ call' = [call EXCEPT ![u].left = @ \ {i}]
    BY <1>0 DEF RedistributeWrite
  <1>2. c.kind \in RedoKinds /\ c.step = "write"
    BY <1>0, <1>1 DEF Redistributes, RedoKinds
  <1>3. call[u] # Idle /\ call = [v \in Users |-> call[v]] /\ RedoOK(c)
    BY <1>0, <1>2, KindBusy, Busy DEF RedoKinds
  <1>4. PICK i \in c.left :
              /\ works' = [j \in DOMAIN works |->
                              IF j = i THEN [works[j] EXCEPT !.amount = c.parts[i]] ELSE works[j]]
              /\ call' = [call EXCEPT ![u].left = @ \ {i}]
    BY <1>1
  <1>5. PICK a, d : a = c.parts[i] /\ d = [c EXCEPT !.left = @ \ {i}]  OBVIOUS
  <1>6. call' = [call EXCEPT ![u] = d]  BY <1>0, <1>3, <1>4, <1>5
  <1>7. /\ DOMAIN d = DOMAIN c /\ d.left = c.left \ {i}
        /\ \A f \in DOMAIN c \ {"left"} : d[f] = c[f]
    BY <1>3, <1>5 DEF RedoOK, RedoFields
  <1>8. d.kind = c.kind /\ d.step = "write" /\ d.r = r /\ d.read = c.read /\ d.parts = c.parts
    BY <1>0, <1>2, <1>3, <1>7 DEF RedoOK, RedoFields
  <1>9. /\ r \in Requests /\ c.r = r /\ S \cap Requests = {r} /\ r \in S /\ a \in Int
        /\ S \cap Orders = IF c.kind = "allocate" THEN {c.o} ELSE {}
    BY <1>0, <1>3, <1>4, <1>5, OnOf DEF RedoOK
  <1>10. c.left \subseteq Held(c) /\ \A j \in Held(c) : j \in 1..calls /\ (j \in DOMAIN works => works[j].request = r)
    BY <1>2, <1>3, <1>9 DEF Held, RedoOK
  <1>11. /\ DOMAIN works' = DOMAIN works
         /\ i \in DOMAIN works => works'[i] = [works[i] EXCEPT !.amount = a]
         /\ \A j \in DOMAIN works \ {i} : works'[j] = works[j]
    BY <1>4, <1>5
  <1>12. \A j \in DOMAIN works : works[j] \in Work /\ (works[j].request # Nothing => works[j].qty > 0)
    BY DEF CWInv, TypeOK
  <1>13. /\ \A j \in DOMAIN works :
              /\ works'[j] \in Work /\ works'[j].request = works[j].request /\ works'[j].order = works[j].order
              /\ works'[j].qty = works[j].qty /\ works'[j].at = works[j].at /\ works'[j].share = works[j].share
         /\ i \in DOMAIN works => works'[i].amount = a
    <2> SUFFICES ASSUME NEW j \in DOMAIN works
                 PROVE  /\ works'[j] \in Work /\ works'[j].request = works[j].request
                        /\ works'[j].order = works[j].order /\ works'[j].qty = works[j].qty
                        /\ works'[j].at = works[j].at /\ works'[j].share = works[j].share
                        /\ j = i => works'[j].amount = a
      OBVIOUS
    <2>1. CASE j = i  BY <1>9, <1>11, <1>12, <2>1 DEF Work
    <2>2. CASE j # i  BY <1>11, <1>12, <2>2
    <2> QED  BY <2>1, <2>2
  <1>14. TypeOK'  BY <1>1, <1>11, <1>12, <1>13 DEF CWInv, TypeOK
  <1>15. \A q : /\ Rows(q)' = Rows(q)
                /\ \A j \in Rows(q) : /\ works'[j].order = works[j].order /\ works'[j].qty = works[j].qty
                                      /\ works'[j].at = works[j].at
    BY <1>11, <1>13 DEF Rows
  <1>16. \A q : Spread(Rows(q))' = Spread(Rows(q))  BY <1>15, RowsKeep
  <1>17. \A x : NoMore(x) /\ takenShare(x, {})' = takenShare(x, {})
    <2>1. TypeOK  BY DEF CWInv
    <2> QED  BY <1>11, <1>13, <2>1, SameShare
  <1>18. Frame(S)
    <2>1. ASSUME NEW q \in Requests \ S PROVE Apart(q)
      <3>1. i \notin Rows(q)  BY <1>9, <1>10 DEF Rows
      <3>2. Rows(q)' = Rows(q)  BY <1>15
      <3> QED  BY <1>1, <1>11, <3>1, <3>2, NotMine
    <2>2. RowsStay  BY <1>11, <1>13 DEF RowsStay
    <2> QED  BY <1>17, <2>1, <2>2 DEF Frame
  <1>19. r \notin crossed => WriteOK(d)'
    <2> SUFFICES ASSUME r \notin crossed PROVE WriteOK(d)'  OBVIOUS
    <2>1. WriteOK(c)  BY <1>2, <1>3, <1>9 DEF RedoOK
    <2>2. /\ Rows(r)' = Rows(r) /\ Spread(Rows(r))' = Spread(Rows(r))
          /\ PartsOf(r)' = PartsOf(r) /\ reqs' = reqs
      BY <1>1, <1>15, <1>16 DEF PartsOf
    <2>3. /\ d.read = Spread(Rows(r)) /\ d.parts = PartsOf(r) /\ d.left \subseteq Rows(r)
          /\ reqs[r].accepted = 0 => d.left = {}
      BY <1>7, <1>8, <1>9, <2>1 DEF WriteOK
    <2>4. reqs[r].accepted > 0 => \A j \in Rows(r) \ d.left : works'[j].amount = d.parts[j]
      <3> SUFFICES ASSUME reqs[r].accepted > 0, NEW j \in Rows(r) \ d.left
                   PROVE  works'[j].amount = d.parts[j]
        OBVIOUS
      <3>1. j \in DOMAIN works  BY DEF Rows
      <3>2. CASE j = i  BY <1>5, <1>8, <1>13, <3>1, <3>2
      <3>3. CASE j # i
        <4>1. j \in Rows(r) \ c.left  BY <1>7, <3>3
        <4>2. works[j].amount = c.parts[j]  BY <1>9, <2>1, <4>1 DEF WriteOK
        <4> QED  BY <1>8, <1>11, <3>1, <3>3, <4>2
      <3> QED  BY <3>2, <3>3
    <2> QED  BY <1>8, <2>2, <2>3, <2>4 DEF WriteOK
  <1>20. /\ CallOK(d)' /\ d.on = c.on /\ ~Pending(d) /\ Held(d) \subseteq Held(c) \cup d.left
    <2>1. \A j \in d.left : /\ j \in 1..calls /\ d.parts[j] \in Int
                            /\ j \in DOMAIN works' => works'[j].request = c.r
      <3> SUFFICES ASSUME NEW j \in c.left
                   PROVE  /\ j \in 1..calls /\ c.parts[j] \in Int
                          /\ j \in DOMAIN works' => works'[j].request = c.r
        BY <1>7, <1>8
      <3>1. c.parts[j] \in Int  BY <1>3 DEF RedoOK
      <3> QED  BY <1>9, <1>10, <1>11, <1>13, <3>1
    <2>2. c.kind \in {"allocate", "remove"} => (c.id \in DOMAIN works' => works'[c.id].request = c.r)
      <3>1. c.kind \in {"allocate", "remove"} => c.id \in Held(c)  BY DEF Held
      <3> QED  BY <1>9, <1>10, <1>11, <1>13, <3>1
    <2>3. c.kind = "allocate" => (c.id \in DOMAIN works' => works'[c.id].order = c.o)
      <3>1. c.kind = "allocate" => (c.id \in DOMAIN works => works[c.id].order = c.o)
        BY <1>3 DEF RedoOK, AllocateOK
      <3> QED  BY <1>11, <1>13, <3>1
    <2>4. c.kind = "accept" /\ c.r \notin crossed =>
            reqs'[c.r].accepted = c.qty /\ reqs'[c.r].amount = c.base.amount
      BY <1>1, <1>2, <1>3 DEF RedoOK, AcceptOK
    <2>5. d.step \in {"split", "write"} /\ UNCHANGED <<calls, crossed>> /\ DOMAIN d = DOMAIN c
          /\ \A f \in DOMAIN c \ {"step", "read", "left", "parts"} : d[f] = c[f]
      BY <1>1, <1>7, <1>8
    <2>6. d.step = "write" /\ c.r \notin crossed => WriteOK(d)'  BY <1>9, <1>19
    <2> QED  BY <1>3, <2>1, <2>2, <2>3, <2>4, <2>5, <2>6, RedoAfter
  <1>21. d.on \subseteq S /\ Held(d) \subseteq Held(call[u]) \cup DOMAIN works
    BY <1>0, <1>7, <1>10, <1>20
  <1>22. \A q \in (Requests \cap S) \ crossed :
            /\ OneRowOf(q)' /\ WithinOf(q)'
            /\ reqs'[q].accepted > 0 /\ ~torn'[q] /\ ~Redoes(u, q)' => Balanced(q)'
    <2>1. Redoes(u, r)'
      <3>1. call'[u] = d  BY <1>3, <1>6
      <3> QED  BY <1>2, <1>8, <3>1 DEF Redoes, Redistributes, RedoKinds
    <2>2. r \notin crossed => OneRowOf(r)' /\ WithinOf(r)'
      <3> SUFFICES ASSUME r \notin crossed PROVE OneRowOf(r)' /\ WithinOf(r)'  OBVIOUS
      <3>1. OneRowOf(r) /\ WithinOf(r)  BY <1>9 DEF CWInv, Within
      <3>2. OneRowOf(r)'  BY <1>15, <3>1 DEF OneRowOf
      <3>3. WithinOf(r)'  BY <1>1, <1>15, <1>16, <3>1 DEF WithinOf
      <3> QED  BY <3>2, <3>3
    <2> QED  BY <1>9, <2>1, <2>2
  <1>23. \A o \in (Orders \cap S) \ crossed : takenShare(o, {})' <= 100
    <2> SUFFICES ASSUME NEW o \in Orders \ crossed PROVE takenShare(o, {})' <= 100  OBVIOUS
    <2>1. takenShare(o, {}) <= 100  BY DEF CWInv, WholeWork
    <2> QED  BY <1>17, <2>1
  <1>24. \A j \in DOMAIN works' \ DOMAIN works : Pending(call[u]) /\ j = call[u].id  BY <1>11
  <1>25. UNCHANGED <<calls, crossed>> /\ \A q \in Requests \ S : torn'[q] = torn[q]  BY <1>1
  <1> QED  BY <1>0, <1>6, <1>14, <1>18, <1>20, <1>21, <1>22, <1>23, <1>24, <1>25, CallerKeeps

\* A share given away directly, in a row of its own or in the one the contractor has.
LEMMA AssignRowKeeps ==
  ASSUME CWInv, NEW u \in Users, AssignRow(u)
  PROVE  CWInv'
  <1>0. PICK c, id, o, share, new, S :
          /\ c = call[u] /\ id = call[u].id /\ o = call[u].o /\ share = call[u].share
          /\ new = call[u].new /\ S = call[u].on
    OBVIOUS
  <1>1. /\ c.kind = "assign" /\ c.step = "row" /\ (new \/ id \in DOMAIN works)
        /\ call' = [call EXCEPT ![u] = Idle] /\ UNCHANGED <<reqs, calls, torn, crossed>>
    BY <1>0 DEF AssignRow, At
  <1>2. AssignOK(c)  BY <1>0, <1>1, KindBusy, Busy
  <1>3. /\ o \in Orders /\ S = {o} /\ share \in Shares /\ id \in 1..calls /\ new \in BOOLEAN
        /\ id \in DOMAIN works => works[id].order = o
        /\ new => id \notin DOMAIN works
        /\ o \notin crossed => ShareFits(o, id, share)
    BY <1>0, <1>2 DEF AssignOK
  <1>4. PICK row : row = IF new THEN [request |-> Nothing, order |-> o, qty |-> 0, share |-> share,
                                      amount |-> 0, at |-> Now, accepted |-> FALSE]
                         ELSE [works[id] EXCEPT !.share = share]
    OBVIOUS
  <1>5. Put(id, row)  BY <1>0, <1>4 DEF AssignRow
  <1>6. /\ DOMAIN works' = DOMAIN works \cup {id} /\ works'[id] = row
        /\ \A j \in DOMAIN works \ {id} : works'[j] = works[j]
    BY <1>5 DEF Put
  <1>7. ~new => /\ id \in DOMAIN works /\ row \in Work /\ row.request = works[id].request
                /\ row.order = o /\ row.qty = works[id].qty /\ row.at = works[id].at
                /\ row.amount = works[id].amount /\ row.share = share
                /\ row.request # Nothing => row.qty > 0
    <2> SUFFICES ASSUME ~new
                 PROVE  /\ id \in DOMAIN works /\ row \in Work /\ row.request = works[id].request
                        /\ row.order = o /\ row.qty = works[id].qty /\ row.at = works[id].at
                        /\ row.amount = works[id].amount /\ row.share = share
                        /\ row.request # Nothing => row.qty > 0
      OBVIOUS
    <2>1. id \in DOMAIN works  BY <1>1
    <2>2. works[id] \in Work /\ (works[id].request # Nothing => works[id].qty > 0)
      BY <2>1 DEF CWInv, TypeOK
    <2>3. row = [works[id] EXCEPT !.share = share]  BY <1>4
    <2> QED  BY <1>3, <2>1, <2>2, <2>3 DEF Work
  <1>8. new => /\ id \notin DOMAIN works /\ row \in Work /\ row.request = Nothing
               /\ row.order = o /\ row.share = share
    <2> SUFFICES ASSUME new PROVE /\ id \notin DOMAIN works /\ row \in Work /\ row.request = Nothing
                                  /\ row.order = o /\ row.share = share
      OBVIOUS
    <2>1. Now \in Nat  BY NowNat DEF CWInv
    <2>2. row = [request |-> Nothing, order |-> o, qty |-> 0, share |-> share,
                 amount |-> 0, at |-> Now, accepted |-> FALSE]
      BY <1>4
    <2> QED  BY <1>3, <2>1, <2>2 DEF Work
  <1>9. TypeOK'
    <2>1. IsFiniteSet(DOMAIN works')  BY <1>6, FS_AddElement DEF CWInv, TypeOK
    <2>2. DOMAIN works' \subseteq 1..calls  BY <1>3, <1>6 DEF CWInv, TypeOK
    <2>3. \A i \in DOMAIN works' : works'[i] \in Work /\ (works'[i].request # Nothing => works'[i].qty > 0)
      BY <1>3, <1>6, <1>7, <1>8 DEF CWInv, TypeOK
    <2> QED  BY <1>1, <2>1, <2>2, <2>3 DEF CWInv, TypeOK
  <1>10. \A j \in DOMAIN works : /\ works'[j].request = works[j].request /\ works'[j].order = works[j].order
                                 /\ works'[j].qty = works[j].qty /\ works'[j].at = works[j].at
                                 /\ works'[j].amount = works[j].amount
    BY <1>3, <1>6, <1>7, <1>8
  <1>11. ASSUME NEW q \in Requests PROVE Apart(q)
    <2>1. q # Nothing  BY ContractorAssumption
    <2>2. Rows(q)' = Rows(q)  BY <1>3, <1>6, <1>7, <1>8, <1>10, <2>1 DEF Rows
    <2>3. Rows(q) \subseteq DOMAIN works  BY DEF Rows
    <2> QED  BY <1>1, <1>10, <2>2, <2>3 DEF Apart
  <1>12. (id \in DOMAIN works => works[id].order = o) /\ share \in Nat /\ row.order = o /\ row.share = share
    <2>1. Shares \subseteq 1..100  BY ContractorAssumption
    <2> QED  BY <1>3, <1>7, <1>8, <2>1
  <1>13. takenShare(o, {})' = takenShare(o, {id}) + share /\ \A x : x # o => NoMore(x)
    <2>1. TypeOK  BY DEF CWInv
    <2> QED  BY <1>5, <1>12, <2>1, PutShare
  <1>14. Frame(S)
    <2>1. RowsStay  BY <1>10 DEF RowsStay
    <2>2. \A x \in Orders \ S : NoMore(x)  BY <1>3, <1>13
    <2> QED  BY <1>11, <2>1, <2>2 DEF Frame
  <1>15. \A q \in (Requests \cap S) \ crossed :
            /\ OneRowOf(q)' /\ WithinOf(q)'
            /\ reqs'[q].accepted > 0 /\ ~torn'[q] /\ ~Redoes(u, q)' => Balanced(q)'
    BY <1>3, ContractorAssumption
  <1>16. \A x \in (Orders \cap S) \ crossed : takenShare(x, {})' <= 100
    <2>1. o \notin crossed => takenShare(o, {id}) + share <= 100  BY <1>3 DEF ShareFits
    <2> QED  BY <1>3, <1>13, <2>1
  <1>17. CallOK(Idle)' /\ Idle.on \subseteq S /\ ~Pending(Idle)
         /\ Held(Idle) \subseteq Held(call[u]) \cup DOMAIN works
    BY IdleNames DEF CallOK
  <1>18. \A i \in DOMAIN works' \ DOMAIN works : Pending(call[u]) /\ i = call[u].id
    <2>1. Pending(c) <=> new  BY <1>0, <1>1 DEF Pending
    <2> QED  BY <1>0, <1>1, <1>6, <2>1
  <1> QED  BY <1>0, <1>1, <1>9, <1>14, <1>15, <1>16, <1>17, <1>18, CallerKeeps

----------------------------------------------------------------------------
(* Steps that are one call's only step, and steps of the tabs              *)

LEMMA CreateKeeps ==
  ASSUME CWInv, NEW u \in Users, NEW r \in Requests, Create(u, r)
  PROVE  CWInv'
  <1>1. PICK ready \in BOOLEAN : reqs' = [reqs EXCEPT ![r].status = "DRAFT", ![r].ready = ready]
    BY DEF Create
  <1>2. calls' = calls + 1 /\ calls < MaxCalls /\ UNCHANGED <<works, call, torn, crossed>>
    BY DEF Create
  <1>3. /\ calls \in Nat /\ calls' \in 0..MaxCalls /\ calls <= calls' /\ DOMAIN works \subseteq 1..calls'
        /\ reqs \in [Requests -> Request]
    BY <1>2, CallsNat, ContractorAssumption DEF CWInv
  <1>4. /\ reqs' \in [Requests -> Request]
        /\ \A q \in Requests : /\ reqs'[q].accepted = reqs[q].accepted /\ reqs'[q].amount = reqs[q].amount
                               /\ reqs'[q].status = "CANCELLED" => reqs[q].status = "CANCELLED"
    BY <1>1, <1>3 DEF Request, Statuses
  <1>5. TypeOK'  BY <1>2, <1>3, <1>4 DEF CWInv, TypeOK
  <1>6. Frame({})
    <2>1. TypeOK  BY DEF CWInv
    <2> QED  BY <1>2, <1>4, <2>1, WorksAsWere
  <1> QED  BY <1>2, <1>3, <1>5, <1>6, QuietKeeps

LEMMA AcceptWorkKeeps ==
  ASSUME CWInv, NEW u \in Users, NEW id \in DOMAIN works, AcceptWork(u, id)
  PROVE  CWInv'
  <1>1. calls' = calls + 1 /\ calls < MaxCalls /\ UNCHANGED <<reqs, call, torn, crossed>>
    BY DEF AcceptWork, Direct
  <1>2. PICK row : row = [works[id] EXCEPT !.accepted = TRUE]  OBVIOUS
  <1>3. Put(id, row)  BY <1>2 DEF AcceptWork
  <1>4. /\ DOMAIN works' = DOMAIN works /\ works'[id] = row
        /\ \A j \in DOMAIN works \ {id} : works'[j] = works[j]
    BY <1>3 DEF Put
  <1>5. works[id] \in Work /\ (works[id].request # Nothing => works[id].qty > 0)  BY DEF CWInv, TypeOK
  <1>6. /\ row \in Work /\ row.request = works[id].request /\ row.order = works[id].order
        /\ row.qty = works[id].qty /\ row.at = works[id].at /\ row.amount = works[id].amount
        /\ row.share = works[id].share
    BY <1>2, <1>5 DEF Work
  <1>7. calls \in Nat /\ calls' \in 0..MaxCalls /\ calls <= calls' /\ DOMAIN works \subseteq 1..calls'
    BY <1>1, CallsNat, ContractorAssumption DEF CWInv
  <1>8. TypeOK'
    <2>1. \A i \in DOMAIN works' : works'[i] \in Work /\ (works'[i].request # Nothing => works'[i].qty > 0)
      BY <1>4, <1>5, <1>6 DEF CWInv, TypeOK
    <2> QED  BY <1>1, <1>4, <1>7, <2>1 DEF CWInv, TypeOK
  <1>9. \A j \in DOMAIN works : /\ works'[j].request = works[j].request /\ works'[j].order = works[j].order
                                /\ works'[j].qty = works[j].qty /\ works'[j].at = works[j].at
                                /\ works'[j].amount = works[j].amount /\ works'[j].share = works[j].share
    BY <1>4, <1>6
  <1>10. Frame({})
    <2>1. ASSUME NEW q PROVE Apart(q)
      <3>1. Rows(q)' = Rows(q) /\ Rows(q) \subseteq DOMAIN works  BY <1>4, <1>9 DEF Rows
      <3> QED  BY <1>1, <1>9, <3>1 DEF Apart
    <2>2. \A x : NoMore(x)
      <3>1. TypeOK  BY DEF CWInv
      <3> QED  BY <1>4, <1>9, <3>1, SameShare
    <2>3. RowsStay  BY <1>9 DEF RowsStay
    <2> QED  BY <2>1, <2>2, <2>3 DEF Frame
  <1> QED  BY <1>1, <1>4, <1>7, <1>8, <1>10, QuietKeeps

LEMMA RemoveWorkKeeps ==
  ASSUME CWInv, NEW id \in DOMAIN works, RemoveWork(id)
  PROVE  CWInv'
  <1>1. /\ calls' = calls + 1 /\ calls < MaxCalls /\ UNCHANGED <<reqs, call, torn, crossed>>
        /\ works[id].request = Nothing /\ Delete(id)
    BY DEF RemoveWork, Direct
  <1>2. DOMAIN works' = DOMAIN works \ {id} /\ \A j \in DOMAIN works' : works'[j] = works[j]
    BY <1>1 DEF Delete
  <1>3. calls \in Nat /\ calls' \in 0..MaxCalls /\ calls <= calls' /\ DOMAIN works' \subseteq 1..calls'
    BY <1>1, <1>2, CallsNat, ContractorAssumption DEF CWInv
  <1>4. TypeOK'
    <2>1. IsFiniteSet(DOMAIN works')  BY <1>2, FS_Subset DEF CWInv, TypeOK
    <2> QED  BY <1>1, <1>2, <1>3, <2>1 DEF CWInv, TypeOK
  <1>5. Frame({})
    <2>1. ASSUME NEW q \in Requests PROVE Apart(q)
      <3>1. q # Nothing  BY ContractorAssumption
      <3>2. id \notin Rows(q)  BY <1>1, <3>1 DEF Rows
      <3>3. Rows(q)' = Rows(q)  BY <1>2, <3>2 DEF Rows
      <3>4. \A j \in DOMAIN works \ {id} : works'[j] = works[j]  BY <1>2
      <3> QED  BY <1>1, <3>2, <3>3, <3>4, NotMine
    <2>2. \A x : NoMore(x)  BY <1>1, DeleteShare DEF CWInv
    <2>3. RowsStay  BY <1>2 DEF RowsStay
    <2> QED  BY <2>1, <2>2, <2>3 DEF Frame
  <1> QED  BY <1>1, <1>2, <1>3, <1>4, <1>5, QuietKeeps

\* What a tab reads and ticks is nothing to the server.
LEMMA QuietStep ==
  ASSUME CWInv, UNCHANGED <<reqs, works, call, calls, torn, crossed>>
  PROVE  CWInv'
  <1>1. TypeOK'  BY DEF CWInv, TypeOK
  <1>2. Frame({})
    <2>1. TypeOK  BY DEF CWInv
    <2> QED  BY <2>1, WorksAsWere
  <1>3. calls <= calls'
    <2>1. calls \in Nat  BY CallsNat DEF CWInv
    <2> QED  BY <2>1
  <1> QED  BY <1>1, <1>2, <1>3, QuietKeeps

\* Only requests are ticked.
TabsOK ==
    /\ tabs = [u \in Users |-> tabs[u]]
    /\ \A u \in Users : "selected" \in DOMAIN tabs[u] /\ tabs[u].selected \subseteq Requests

LEMMA TabAfter ==
  ASSUME TabsOK, NEW u \in Users, NEW t, tabs' = [tabs EXCEPT ![u] = t],
         "selected" \in DOMAIN t, t.selected \subseteq Requests
  PROVE  TabsOK'
  <1>1. tabs' = [v \in Users |-> IF v = u THEN t ELSE tabs[v]]  BY DEF TabsOK
  <1> QED  BY <1>1 DEF TabsOK

LEMMA ListAfter ==
  ASSUME TabsOK, NEW u \in Users, NEW x, tabs' = [tabs EXCEPT ![u].list = x]
  PROVE  TabsOK'
  <1>1. PICK t : t = [tabs[u] EXCEPT !.list = x]  OBVIOUS
  <1>2. tabs' = [tabs EXCEPT ![u] = t]  BY <1>1
  <1>3. "selected" \in DOMAIN t /\ t.selected = tabs[u].selected  BY <1>1 DEF TabsOK
  <1> QED  BY <1>2, <1>3, TabAfter DEF TabsOK

LEMMA EndTabs ==
  ASSUME TabsOK, NEW u \in Users, End(u)
  PROVE  TabsOK'
  <1>1. tabs' = [tabs EXCEPT ![u].list = List']  BY DEF End
  <1>2. PICK x : x = List'  OBVIOUS
  <1>3. tabs' = [tabs EXCEPT ![u].list = x]  BY <1>1, <1>2
  <1> QED  BY <1>3, ListAfter

LEMMA TabsKeep ==
  ASSUME TabsOK, [Next]_vars
  PROVE  TabsOK'
  <1>1. CASE UNCHANGED tabs  BY <1>1 DEF TabsOK
  <1>2. ASSUME NEW u \in Users, FetchList(u) PROVE TabsOK'
    BY <1>2, ListAfter DEF FetchList
  <1>3. ASSUME NEW u \in Users, NEW r \in Requests, FetchDetail(u, r) PROVE TabsOK'
    <2>1. PICK x : x = [tabs[u].detail EXCEPT ![r] = Spread(Rows(r))]  OBVIOUS
    <2>2. PICK t : t = [tabs[u] EXCEPT !.detail = x]  OBVIOUS
    <2>3. tabs' = [tabs EXCEPT ![u].detail[r] = Spread(Rows(r))]  BY <1>3 DEF FetchDetail
    <2>4. tabs' = [tabs EXCEPT ![u] = t]  BY <2>1, <2>2, <2>3
    <2>5. "selected" \in DOMAIN t /\ t.selected = tabs[u].selected  BY <2>2 DEF TabsOK
    <2> QED  BY <2>4, <2>5, TabAfter DEF TabsOK
  <1>4. ASSUME NEW u \in Users, NEW r \in Requests, Toggle(u, r) PROVE TabsOK'
    <2>1. PICK x : x = IF r \in tabs[u].selected THEN tabs[u].selected \ {r} ELSE tabs[u].selected \cup {r}
      OBVIOUS
    <2>2. PICK t : t = [tabs[u] EXCEPT !.selected = x]  OBVIOUS
    <2>3. tabs' = [tabs EXCEPT ![u] = t]  BY <1>4, <2>1, <2>2 DEF Toggle
    <2>4. x \subseteq Requests  BY <2>1 DEF TabsOK
    <2>5. "selected" \in DOMAIN t /\ t.selected = x  BY <2>2 DEF TabsOK
    <2> QED  BY <2>3, <2>4, <2>5, TabAfter
  <1>5. ASSUME NEW u \in Users, NEW r \in Requests, Create(u, r) PROVE TabsOK'
    <2>1. PICK x : x = List'  OBVIOUS
    <2>2. tabs' = [tabs EXCEPT ![u].list = x]  BY <1>5, <2>1 DEF Create
    <2> QED  BY <2>2, ListAfter
  <1>6. ASSUME NEW u \in Users, SendHead(u) PROVE TabsOK'
    <2>1. PICK x : x = List'  OBVIOUS
    <2>2. PICK t : t = [tabs[u] EXCEPT !.list = x, !.selected = {}]  OBVIOUS
    <2>3. tabs' = [tabs EXCEPT ![u] = t]  BY <1>6, <2>1, <2>2 DEF SendHead
    <2>4. "selected" \in DOMAIN t /\ t.selected = {}  BY <2>2 DEF TabsOK
    <2> QED  BY <2>3, <2>4, TabAfter
  <1>7. ASSUME NEW u \in Users, TabStep(u) PROVE TabsOK'  BY <1>2, <1>3, <1>4, <1>7 DEF TabStep
  <1>8. ASSUME NEW u \in Users, Begins(u) PROVE TabsOK'
    <2>1. CASE \E r \in Requests : Create(u, r)  BY <1>5, <2>1
    <2>2. CASE ~\E r \in Requests : Create(u, r)
      <3>1. UNCHANGED tabs
        BY <1>8, <2>2 DEF Begins, BeginSend, BeginAssign, BeginUpdate, BeginAllocate, BeginRemove,
                          BeginAccept, BeginCancel, Begin
      <3> QED  BY <1>1, <3>1
    <2> QED  BY <2>1, <2>2
  <1>9. ASSUME NEW u \in Users, ServerStep(u) PROVE TabsOK'
    <2>1. CASE UpdateHead(u) \/ CancelHead(u) \/ Answer(u) \/ AllocateStatus(u)
      <3>1. End(u) \/ UNCHANGED tabs  BY <2>1 DEF UpdateHead, CancelHead, Answer, AllocateStatus, Step
      <3> QED  BY <1>1, <3>1, EndTabs
    <2>2. CASE SendDeal(u) \/ AllocateRow(u) \/ RemoveRow(u) \/ AcceptHead(u) \/ AssignRow(u)
               \/ RedistributeRead(u) \/ RedistributeWrite(u)
      <3>1. UNCHANGED tabs
        BY <2>2 DEF SendDeal, AllocateRow, RemoveRow, AcceptHead, AssignRow, RedistributeRead,
                    RedistributeWrite, Step
      <3> QED  BY <1>1, <3>1
    <2>3. CASE SendHead(u)  BY <1>6, <2>3
    <2> QED  BY <1>9, <2>1, <2>2, <2>3 DEF ServerStep
  <1>10. ASSUME NEW u \in Users, Drop(u) PROVE TabsOK'  BY <1>1, <1>10 DEF Drop
  <1>11. ASSUME NEW i, NEW u, AcceptWork(u, i) \/ RemoveWork(i) PROVE TabsOK'
    BY <1>1, <1>11 DEF AcceptWork, RemoveWork, Direct
  <1>12. CASE UNCHANGED vars  BY <1>1, <1>12 DEF vars
  <1> QED  BY <1>7, <1>8, <1>9, <1>10, <1>11, <1>12 DEF Next

----------------------------------------------------------------------------
(* The theorems                                                            *)

LEMMA InitInv ==
  ASSUME Init
  PROVE  CWInv /\ TabsOK
  <1>1. /\ reqs = [r \in Requests |-> Blank] /\ DOMAIN works = {} /\ call = [u \in Users |-> Idle]
        /\ calls = 0 /\ torn = [r \in Requests |-> FALSE] /\ crossed = {}
    BY DEF Init
  <1>2. TypeOK
    <2>1. IsFiniteSet(DOMAIN works)  BY <1>1, FS_EmptySet
    <2>2. Blank \in Request  BY DEF Blank, Request, Statuses
    <2> QED  BY <1>1, <2>1, <2>2, ContractorAssumption DEF TypeOK
  <1>3. Exclusive /\ NewIds
    <2>1. \A u \in Users : call[u].on = {} /\ ~Pending(call[u])  BY <1>1, IdleNames
    <2> QED  BY <2>1 DEF Exclusive, NewIds
  <1>4. Within
    <2>1. \A r \in Requests : Rows(r) = {}  BY <1>1 DEF Rows
    <2>2. \A r \in Requests : reqs[r].accepted = 0  BY <1>1 DEF Blank
    <2> QED  BY <2>1, <2>2 DEF Within, OneRowOf, WithinOf
  <1>5. WholeWork
    <2> SUFFICES ASSUME NEW o \in Orders PROVE takenShare(o, {}) <= 100  BY DEF WholeWork
    <2> DEFINE f == [i \in DOMAIN works |-> works[i].share]
    <2>1. {i \in DOMAIN works \ {} : works[i].order = o} = {}  BY <1>1
    <2>2. takenShare(o, {}) = SumFunctionOnSet(f, {})  BY <2>1 DEF takenShare
    <2>3. SumFunctionOnSet(f, {}) = 0
      <3> HIDE DEF f
      <3> QED  BY FS_EmptySet, SumZero
    <2> HIDE DEF f
    <2> QED  BY <2>2, <2>3
  <1>6. Balance  BY <1>1 DEF Balance, Blank
  <1>7. CallsOK  BY <1>1 DEF CallsOK, CallOK
  <1>8. TabsOK  BY DEF Init, TabsOK
  <1> QED  BY <1>2, <1>3, <1>4, <1>5, <1>6, <1>7, <1>8 DEF CWInv

LEMMA StutterStep ==
  ASSUME CWInv, UNCHANGED vars
  PROVE  CWInv'
  <1>1. reqs' = reqs /\ works' = works  BY DEF vars, server
  <1>2. call' = call /\ calls' = calls /\ torn' = torn /\ crossed' = crossed  BY DEF vars
  <1>3. UNCHANGED <<reqs, works, call, calls, torn, crossed>>  BY <1>1, <1>2
  <1> QED  BY <1>3, QuietStep

LEMMA NextInv ==
  ASSUME CWInv, TabsOK, [Next]_vars
  PROVE  CWInv' /\ TabsOK'
  <1>1. ASSUME NEW u \in Users, TabStep(u)  PROVE CWInv'
    <2>1. UNCHANGED <<reqs, works, call, calls, torn, crossed>>
      BY <1>1 DEF TabStep, FetchList, FetchDetail, Toggle, server
    <2> QED  BY <2>1, QuietStep
  <1>2. ASSUME NEW u \in Users, Begins(u)  PROVE CWInv'
    <2>1. CASE BeginSend(u)  BY <2>1, BeginSendKeeps DEF TabsOK
    <2>2. ASSUME NEW r \in Requests, Create(u, r)  PROVE CWInv'  BY <2>2, CreateKeeps
    <2>3. ASSUME NEW r \in Requests, BeginUpdate(u, r)  PROVE CWInv'  BY <2>3, BeginUpdateKeeps
    <2>4. ASSUME NEW r \in Requests, BeginAllocate(u, r)  PROVE CWInv'  BY <2>4, BeginAllocateKeeps
    <2>5. ASSUME NEW r \in Requests, BeginRemove(u, r)  PROVE CWInv'  BY <2>5, BeginRemoveKeeps
    <2>6. ASSUME NEW r \in Requests, BeginAccept(u, r)  PROVE CWInv'  BY <2>6, BeginAcceptKeeps
    <2>7. ASSUME NEW r \in Requests, BeginCancel(u, r)  PROVE CWInv'  BY <2>7, BeginCancelKeeps
    <2>8. ASSUME NEW o \in Orders, BeginAssign(u, o)  PROVE CWInv'  BY <2>8, BeginAssignKeeps
    <2> QED  BY <1>2, <2>1, <2>2, <2>3, <2>4, <2>5, <2>6, <2>7, <2>8 DEF Begins
  <1>3. ASSUME NEW u \in Users, ServerStep(u)  PROVE CWInv'
    BY <1>3, UpdateHeadKeeps, SendDealKeeps, SendHeadKeeps, AllocateRowKeeps, AllocateStatusKeeps,
       RemoveRowKeeps, AcceptHeadKeeps, CancelHeadKeeps, AssignRowKeeps, ReadKeeps, WriteKeeps,
       AnswerKeeps
       DEF ServerStep
  <1>4. ASSUME NEW u \in Users, Drop(u)  PROVE CWInv'  BY <1>4, DropKeeps
  <1>5. ASSUME NEW u \in Users, NEW i \in DOMAIN works, AcceptWork(u, i)  PROVE CWInv'
    BY <1>5, AcceptWorkKeeps
  <1>6. ASSUME NEW i \in DOMAIN works, RemoveWork(i)  PROVE CWInv'  BY <1>6, RemoveWorkKeeps
  <1>7. ASSUME UNCHANGED vars  PROVE CWInv'  BY <1>7, StutterStep
  <1>8. CWInv'  BY <1>1, <1>2, <1>3, <1>4, <1>5, <1>6, <1>7 DEF Next
  <1> QED  BY <1>8, TabsKeep

LEMMA MoneyFollows ==
  ASSUME CWInv
  PROVE  MoneyAddsUp
  <1> SUFFICES ASSUME NEW r \in Requests \ (crossed \cup UnderWay), ~torn[r], reqs[r].accepted > 0
               PROVE  /\ Allocated(Spread(Rows(r))) = reqs[r].accepted /\ Rows(r) # {}
                         => SumFunctionOnSet([i \in Rows(r) |-> works[i].amount], Rows(r)) = reqs[r].amount
                      /\ \A i \in Rows(r) : 2 * works[i].amount * reqs[r].accepted
                           <= 2 * reqs[r].amount * works[i].qty + reqs[r].accepted * Cardinality(Rows(r))
    BY DEF MoneyAddsUp
  <1> DEFINE s == Spread(Rows(r))
             f == [i \in Rows(r) |-> works[i].amount]
             total == reqs[r].amount
             acc == reqs[r].accepted
  <1>1. \A v \in Users : ~Redoes(v, r)
    <2>1. \A v \in Users : r \notin call[v].on  BY DEF UnderWay
    <2> QED  BY <2>1, RedoesOn
  <1>2. Balanced(r)  BY <1>1 DEF CWInv, Balance
  <1>3. CardOK(s) /\ IsFiniteSet(Rows(r)) /\ DOMAIN s = Rows(r)
        /\ \A i \in Rows(r) : s[i].qty = works[i].qty
    BY CardsOK, SpreadIs DEF CWInv, Rows
  <1>4. total \in Nat /\ acc \in Nat /\ acc # 0  BY DEF CWInv, TypeOK, Request
  <1>5. \A i \in Rows(r) : f[i] = Parts(total, acc, s)[i]  BY <1>2 DEF Balanced, PartsOf
  <1>6. Allocated(s) <= acc  BY DEF CWInv, Within, WithinOf
  <1>7. ASSUME Allocated(s) = acc, Rows(r) # {}
        PROVE  SumFunctionOnSet(f, Rows(r)) = total
    <2> HIDE DEF s, f, total, acc
    <2>1. SumFunctionOnSet(Parts(total, acc, s), DOMAIN s) = total  BY <1>3, <1>4, <1>7, PartsAddUp
    <2>2. SumFunctionOnSet(f, Rows(r)) = SumFunctionOnSet(Parts(total, acc, s), Rows(r))
      BY <1>3, <1>5, SumSame
    <2> QED  BY <1>3, <2>1, <2>2
  <1>8. ASSUME NEW i \in Rows(r)
        PROVE  2 * works[i].amount * acc <= 2 * total * works[i].qty + acc * Cardinality(Rows(r))
    <2>1. works[i].amount = Parts(total, acc, s)[i]  BY <1>5
    <2>2. s[i].qty = works[i].qty  BY <1>3
    <2> HIDE DEF s, total, acc
    <2>3. 2 * Parts(total, acc, s)[i] * acc <= 2 * total * s[i].qty + acc * Cardinality(DOMAIN s)
      BY <1>3, <1>4, <1>6, PartsBounded
    <2> QED  BY <1>3, <2>1, <2>2, <2>3
  <1> QED  BY <1>7, <1>8

LEMMA ShownFollows ==
  ASSUME CWInv
  PROVE  ShownIsWritten
  <1> SUFFICES ASSUME NEW u \in Users, Redistributed(u), call[u].kind = "accept",
                      call[u].r \notin crossed,
                      call[u].card = Spread(Rows(call[u].r)),
                      call[u].base.amount = call[u].base.asked, NEW i \in Rows(call[u].r)
               PROVE  works[i].amount = call[u].shown[i]
    BY DEF ShownIsWritten
  <1> DEFINE c == call[u]
  <1>1. RedoOK(c) /\ c.step = "write" /\ c.left = {}  BY DoneBalanced DEF Redistributed, Redistributes
  <1>2. AcceptOK(c) /\ WriteOK(c)  BY <1>1 DEF RedoOK
  <1>3. c.parts = PartsOf(c.r)  BY <1>2 DEF WriteOK
  <1>4. c.shown = PartsOf(c.r) /\ reqs[c.r].accepted > 0
    BY <1>1, <1>2 DEF AcceptOK, Preview, PartsOf
  <1>5. works[i].amount = c.parts[i]  BY <1>1, <1>2, <1>4 DEF WriteOK
  <1> QED  BY <1>3, <1>4, <1>5

\* What was allocated of a request no two calls have met on never exceeds what its act
\* says was done, and once cancelled it carries nothing (Allocate and Accept of
\* contractor_common.go check it before they write).
THEOREM AllocationStaysWithinAct == Spec => []OrdersWithinAct
  <1>1. Init => CWInv /\ TabsOK  BY InitInv
  <1>2. CWInv /\ TabsOK /\ [Next]_vars => CWInv' /\ TabsOK'  BY NextInv
  <1>3. CWInv => OrdersWithinAct  BY DEF CWInv, Within, WithinOf, OrdersWithinAct
  <1> QED  BY <1>1, <1>2, <1>3, PTL DEF Spec

\* Whenever no call is at work on a request, and none have met on it or been broken off
\* while they rewrote it, its rows carry the whole sum of its act, once all of it is
\* allocated, and no row more than its part, to half a unit for each order.
THEOREM ActSumIsDistributed == Spec => []MoneyAddsUp
  <1>1. Init => CWInv /\ TabsOK  BY InitInv
  <1>2. CWInv /\ TabsOK /\ [Next]_vars => CWInv' /\ TabsOK'  BY NextInv
  <1>3. CWInv => MoneyAddsUp  BY MoneyFollows
  <1> QED  BY <1>1, <1>2, <1>3, PTL DEF Spec

\* Requests and direct assignments together never give away more than the whole of a
\* work of an order no two calls have met on, whatever rows are replaced, taken back or
\* broken off, and whoever works on the other orders.
THEOREM SharesStayWithinWork == Spec => []WholeWork
  <1>1. Init => CWInv /\ TabsOK  BY InitInv
  <1>2. CWInv /\ TabsOK /\ [Next]_vars => CWInv' /\ TabsOK'  BY NextInv
  <1>3. CWInv => WholeWork  BY DEF CWInv
  <1> QED  BY <1>1, <1>2, <1>3, PTL DEF Spec

\* The sums the modal of the act showed are the sums its rows are written, unless
\* another call met it on the request, or the allocation or the sum of the supplier
\* order changed after the card was read.
THEOREM PreviewIsWritten == Spec => []ShownIsWritten
  <1>1. Init => CWInv /\ TabsOK  BY InitInv
  <1>2. CWInv /\ TabsOK /\ [Next]_vars => CWInv' /\ TabsOK'  BY NextInv
  <1>3. CWInv => ShownIsWritten  BY ShownFollows
  <1> QED  BY <1>1, <1>2, <1>3, PTL DEF Spec
=============================================================================
