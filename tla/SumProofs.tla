----------------------------- MODULE SumProofs -----------------------------
(***************************************************************************)
(* What the sums of the community modules compute: SumFunctionOnSet(f, S)  *)
(* adds up f[x] for x in the finite set S, in whatever order CHOOSE takes  *)
(* them.  The quantities of the batches, what requests have still to write *)
(* and the lines still to ship are added up with it.  Induction is over    *)
(* the sets themselves: a set of good subsets, as the library's principles *)
(* with a predicate as a parameter cannot be used.                         *)
(***************************************************************************)
EXTENDS Integers, FiniteSets, Functions, FiniteSetTheorems, WellFoundedInduction, TLAPS

\* A set that holds 0, and n + 1 with every n, holds every natural number.
LEMMA NaturalsReached ==
  ASSUME NEW Q, 0 \in Q, \A n \in Nat : n \in Q => n + 1 \in Q
  PROVE  \A n \in Nat : n \in Q
  <1> DEFINE T == {n \in Nat : n \notin Q}
             R == OpToRel(<, Nat)
  <1>1. SUFFICES ASSUME T # {}  PROVE FALSE
    OBVIOUS
  <1>2. IsWellFoundedOn(R, Nat)  BY NatLessThanWellFounded
  <1>3. T \subseteq Nat  OBVIOUS
  <1>4. \A m, n \in Nat : m < n => <<m, n>> \in R  BY DEF OpToRel
  <1> HIDE DEF R
  <1>5. PICK n \in T : \A m \in T : <<m, n>> \notin R
    <2> HIDE DEF T
    <2> QED  BY <1>1, <1>2, <1>3, WFMin
  <1>6. n # 0 /\ n \in Nat  BY <1>5
  <1>7. n - 1 \in Nat /\ n - 1 < n  BY <1>6
  <1>8. n - 1 \notin T  BY <1>4, <1>5, <1>6, <1>7
  <1> QED  BY <1>5, <1>6, <1>7, <1>8

\* A property of the empty set that a set has when it holds of all the sets with
\* one element less, every finite set has.
LEMMA SubsetInduction ==
  ASSUME NEW S, IsFiniteSet(S), NEW P, {} \in P,
         \A T \in SUBSET S : T # {} /\ (\A x \in T : T \ {x} \in P) => T \in P
  PROVE  S \in P
  <1> DEFINE Q == {n \in Nat : \A T \in SUBSET S : Cardinality(T) = n => T \in P}
  <1>1. \A T \in SUBSET S : IsFiniteSet(T) /\ Cardinality(T) \in Nat
    BY FS_Subset, FS_CardinalityType
  <1>2. 0 \in Q  BY <1>1, FS_EmptySet
  <1>3. ASSUME NEW n \in Nat, n \in Q  PROVE n + 1 \in Q
    <2>1. ASSUME NEW T \in SUBSET S, Cardinality(T) = n + 1  PROVE T \in P
      <3>1. T # {}
        <4>1. Cardinality(T) # 0  BY <2>1
        <4> QED  BY <4>1, FS_EmptySet
      <3>2. ASSUME NEW x \in T  PROVE T \ {x} \in P
        <4>1. Cardinality(T \ {x}) = n  BY <1>1, <2>1, FS_RemoveElement
        <4> QED  BY <1>3, <4>1
      <3> QED  BY <3>1, <3>2
    <2> QED  BY <2>1
  <1>4. \A n \in Nat : n \in Q
    <2> HIDE DEF Q
    <2> QED  BY <1>2, <1>3, NaturalsReached
  <1> QED  BY <1>1, <1>4

----------------------------------------------------------------------------
(* The recursion of the sum                                                *)

Some(s) == CHOOSE x \in s : TRUE

\* g gives the sum of f over every set of D.
Sums(g, f, D) == g = [s \in D |-> IF s = {} THEN 0 ELSE f[Some(s)] + g[s \ {Some(s)}]]

\* The sum as the modules define it.
LEMMA SumUnfolds ==
  ASSUME NEW f, NEW S
  PROVE  SumFunctionOnSet(f, S) =
           (CHOOSE g : g = [s \in SUBSET S |->
                               IF s = {} THEN 0 ELSE f[Some(s)] + g[s \ {Some(s)}]])[S]
  BY Zenon DEF SumFunctionOnSet, FoldFunctionOnSet, MapThenFoldSet, Some

\* Taking the chosen element away makes a set smaller.
LEMMA SomeLess ==
  ASSUME NEW T, IsFiniteSet(T), T # {}
  PROVE  /\ Some(T) \in T /\ IsFiniteSet(T \ {Some(T)})
         /\ Cardinality(T) \in Nat /\ Cardinality(T \ {Some(T)}) \in Nat
         /\ Cardinality(T \ {Some(T)}) = Cardinality(T) - 1
  <1>1. Some(T) \in T  BY DEF Some
  <1> QED  BY <1>1, FS_RemoveElement, FS_CardinalityType

\* The recursion has a solution: level by level, over the sets of n elements.
LEMMA SumsExist ==
  ASSUME NEW f, NEW S, IsFiniteSet(S)
  PROVE  \E g : Sums(g, f, SUBSET S)
  <1> DEFINE L(n) == {s \in SUBSET S : Cardinality(s) <= n}
             Q == {n \in Nat : \E g : Sums(g, f, L(n))}
  <1>0. \A s \in SUBSET S : IsFiniteSet(s) /\ Cardinality(s) \in Nat
    BY FS_Subset, FS_CardinalityType
  <1>1. 0 \in Q
    <2>1. \A s \in L(0) : s = {}  BY <1>0, FS_EmptySet
    <2> DEFINE g == [s \in L(0) |-> 0]
    <2>2. g = [s \in L(0) |-> IF s = {} THEN 0 ELSE f[Some(s)] + g[s \ {Some(s)}]]
      BY <2>1
    <2>3. Sums(g, f, L(0))  BY <2>2 DEF Sums
    <2> QED  BY <2>3
  <1>2. ASSUME NEW n \in Nat, n \in Q  PROVE n + 1 \in Q
    <2>1. PICK g : Sums(g, f, L(n))  BY <1>2
    <2> DEFINE h == [s \in L(n + 1) |->
                        IF s = {} THEN 0 ELSE f[Some(s)] + g[s \ {Some(s)}]]
    <2>2. ASSUME NEW s \in L(n)  PROVE s \in L(n + 1) /\ h[s] = g[s]
      <3>1. s \in L(n + 1)  BY <1>0
      <3>2. g[s] = IF s = {} THEN 0 ELSE f[Some(s)] + g[s \ {Some(s)}]
        BY <2>1 DEF Sums
      <3> QED  BY <3>1, <3>2
    <2>3. ASSUME NEW s \in L(n + 1), s # {}  PROVE h[s \ {Some(s)}] = g[s \ {Some(s)}]
      <3>1. s \ {Some(s)} \in L(n)  BY <1>0, <2>3, SomeLess
      <3> QED  BY <2>2, <3>1
    <2>4. h = [s \in L(n + 1) |-> IF s = {} THEN 0 ELSE f[Some(s)] + h[s \ {Some(s)}]]
      BY <2>3
    <2>5. Sums(h, f, L(n + 1))
      <3> HIDE DEF h, L
      <3> QED  BY <2>4 DEF Sums
    <2> HIDE DEF h, L
    <2> QED  BY <2>5
  <1>3. \A n \in Nat : n \in Q
    <2> HIDE DEF Q
    <2> QED  BY <1>1, <1>2, NaturalsReached
  <1>4. Cardinality(S) \in Q  BY <1>0, <1>3
  <1>5. L(Cardinality(S)) = SUBSET S  BY <1>0, FS_Subset
  <1> QED  BY <1>4, <1>5

\* It has no other.
LEMMA SumsAgree ==
  ASSUME NEW f, NEW S, IsFiniteSet(S), NEW T \in SUBSET S, NEW g, NEW h,
         Sums(g, f, SUBSET S), Sums(h, f, SUBSET T)
  PROVE  g[T] = h[T]
  <1> DEFINE P == {U \in SUBSET T : g[U] = h[U]}
  <1>0. IsFiniteSet(T)  BY FS_Subset
  <1>1. ASSUME NEW U \in SUBSET T
        PROVE  /\ g[U] = IF U = {} THEN 0 ELSE f[Some(U)] + g[U \ {Some(U)}]
               /\ h[U] = IF U = {} THEN 0 ELSE f[Some(U)] + h[U \ {Some(U)}]
    BY DEF Sums
  <1>2. {} \in P  BY <1>1
  <1>3. ASSUME NEW U \in SUBSET T, U # {}, \A x \in U : U \ {x} \in P  PROVE U \in P
    <2>1. U \ {Some(U)} \in P  BY <1>3 DEF Some
    <2> QED  BY <1>1, <1>3, <2>1
  <1>4. T \in P
    <2> HIDE DEF P
    <2> QED  BY <1>0, <1>2, <1>3, SubsetInduction
  <1> QED  BY <1>4

\* The sum over no element is 0; over some, the chosen one and the sum of the rest.
LEMMA SumRecursion ==
  ASSUME NEW f, NEW S, IsFiniteSet(S)
  PROVE  SumFunctionOnSet(f, S) =
           IF S = {} THEN 0 ELSE f[Some(S)] + SumFunctionOnSet(f, S \ {Some(S)})
  <1> DEFINE G(T) == CHOOSE g : Sums(g, f, SUBSET T)
  <1>1. ASSUME NEW T, IsFiniteSet(T)
        PROVE  Sums(G(T), f, SUBSET T) /\ SumFunctionOnSet(f, T) = G(T)[T]
    <2>1. \E g : Sums(g, f, SUBSET T)  BY <1>1, SumsExist
    <2>2. SumFunctionOnSet(f, T) = G(T)[T]  BY SumUnfolds, Zenon DEF Sums
    <2> QED  BY <2>1, <2>2
  <1> HIDE DEF G
  <1>2. G(S)[S] = IF S = {} THEN 0 ELSE f[Some(S)] + G(S)[S \ {Some(S)}]
    BY <1>1 DEF Sums
  <1>3. CASE S = {}  BY <1>1, <1>2, <1>3
  <1>4. CASE S # {}
    <2> DEFINE T == S \ {Some(S)}
    <2>1. IsFiniteSet(T) /\ T \in SUBSET S  BY <1>4, SomeLess
    <2>2. G(S)[T] = G(T)[T]
      <3>1. Sums(G(S), f, SUBSET S) /\ Sums(G(T), f, SUBSET T)  BY <1>1, <2>1
      <3> HIDE DEF T
      <3> QED  BY <2>1, <3>1, SumsAgree
    <2> QED  BY <1>1, <1>2, <1>4, <2>1, <2>2
  <1> QED  BY <1>3, <1>4

----------------------------------------------------------------------------
(* What follows from it                                                    *)

\* The chosen element, and what is left when it is taken away.
LEMMA SumStep ==
  ASSUME NEW f, NEW S, IsFiniteSet(S)
  PROVE  /\ S = {} => SumFunctionOnSet(f, S) = 0
         /\ S # {} => /\ Some(S) \in S
                      /\ SumFunctionOnSet(f, S)
                           = f[Some(S)] + SumFunctionOnSet(f, S \ {Some(S)})
  BY SumRecursion DEF Some

\* A sum of integers is an integer.
LEMMA SumInt ==
  ASSUME NEW f, NEW S, IsFiniteSet(S), \A x \in S : f[x] \in Int
  PROVE  SumFunctionOnSet(f, S) \in Int
  <1> DEFINE P == {T \in SUBSET S : SumFunctionOnSet(f, T) \in Int}
  <1>1. \A T \in SUBSET S : IsFiniteSet(T)  BY FS_Subset
  <1>2. {} \in P
    <2>1. SumFunctionOnSet(f, {}) = 0  BY <1>1, SumStep
    <2> QED  BY <2>1
  <1>3. ASSUME NEW T \in SUBSET S, T # {}, \A x \in T : T \ {x} \in P  PROVE T \in P
    <2>1. Some(T) \in T /\ SumFunctionOnSet(f, T) = f[Some(T)] + SumFunctionOnSet(f, T \ {Some(T)})
      BY <1>1, <1>3, SumStep
    <2> QED  BY <1>3, <2>1
  <1>4. S \in P
    <2> HIDE DEF P
    <2> QED  BY <1>2, <1>3, SubsetInduction
  <1> QED  BY <1>4

\* A sum of naturals is natural.
LEMMA SumNat ==
  ASSUME NEW f, NEW S, IsFiniteSet(S), \A x \in S : f[x] \in Nat
  PROVE  SumFunctionOnSet(f, S) \in Nat
  <1> DEFINE P == {T \in SUBSET S : SumFunctionOnSet(f, T) \in Nat}
  <1>1. \A T \in SUBSET S : IsFiniteSet(T)  BY FS_Subset
  <1>2. {} \in P
    <2>1. SumFunctionOnSet(f, {}) = 0  BY <1>1, SumStep
    <2> QED  BY <2>1
  <1>3. ASSUME NEW T \in SUBSET S, T # {}, \A x \in T : T \ {x} \in P  PROVE T \in P
    <2>1. Some(T) \in T /\ SumFunctionOnSet(f, T) = f[Some(T)] + SumFunctionOnSet(f, T \ {Some(T)})
      BY <1>1, <1>3, SumStep
    <2> QED  BY <1>3, <2>1
  <1>4. S \in P
    <2> HIDE DEF P
    <2> QED  BY <1>2, <1>3, SubsetInduction
  <1> QED  BY <1>4

\* Only the values on the set count.
LEMMA SumSame ==
  ASSUME NEW f, NEW g, NEW S, IsFiniteSet(S), \A x \in S : f[x] = g[x]
  PROVE  SumFunctionOnSet(f, S) = SumFunctionOnSet(g, S)
  <1> DEFINE P == {T \in SUBSET S : SumFunctionOnSet(f, T) = SumFunctionOnSet(g, T)}
  <1>1. \A T \in SUBSET S : IsFiniteSet(T)  BY FS_Subset
  <1>2. {} \in P
    <2>1. SumFunctionOnSet(f, {}) = 0 /\ SumFunctionOnSet(g, {}) = 0  BY <1>1, SumStep
    <2> QED  BY <2>1
  <1>3. ASSUME NEW T \in SUBSET S, T # {}, \A x \in T : T \ {x} \in P  PROVE T \in P
    <2>1. /\ Some(T) \in T
          /\ SumFunctionOnSet(f, T) = f[Some(T)] + SumFunctionOnSet(f, T \ {Some(T)})
          /\ SumFunctionOnSet(g, T) = g[Some(T)] + SumFunctionOnSet(g, T \ {Some(T)})
      BY <1>1, <1>3, SumStep
    <2> QED  BY <1>3, <2>1
  <1>4. S \in P
    <2> HIDE DEF P
    <2> QED  BY <1>2, <1>3, SubsetInduction
  <1> QED  BY <1>4

\* A sum of zeros is zero.
LEMMA SumZero ==
  ASSUME NEW f, NEW S, IsFiniteSet(S), \A x \in S : f[x] = 0
  PROVE  SumFunctionOnSet(f, S) = 0
  <1> DEFINE P == {T \in SUBSET S : SumFunctionOnSet(f, T) = 0}
  <1>1. \A T \in SUBSET S : IsFiniteSet(T)  BY FS_Subset
  <1>2. {} \in P
    <2>1. SumFunctionOnSet(f, {}) = 0  BY <1>1, SumStep
    <2> QED  BY <2>1
  <1>3. ASSUME NEW T \in SUBSET S, T # {}, \A x \in T : T \ {x} \in P  PROVE T \in P
    <2>1. Some(T) \in T /\ SumFunctionOnSet(f, T) = f[Some(T)] + SumFunctionOnSet(f, T \ {Some(T)})
      BY <1>1, <1>3, SumStep
    <2> QED  BY <1>3, <2>1
  <1>4. S \in P
    <2> HIDE DEF P
    <2> QED  BY <1>2, <1>3, SubsetInduction
  <1> QED  BY <1>4

\* Any element may be the one that is added last.
LEMMA SumRemove ==
  ASSUME NEW f, NEW S, IsFiniteSet(S), \A x \in S : f[x] \in Int, NEW y \in S
  PROVE  SumFunctionOnSet(f, S) = f[y] + SumFunctionOnSet(f, S \ {y})
  <1> DEFINE P == {T \in SUBSET S :
                     \A x \in T : SumFunctionOnSet(f, T) = f[x] + SumFunctionOnSet(f, T \ {x})}
  <1>1. {} \in P  OBVIOUS
  <1>2. ASSUME NEW T \in SUBSET S, T # {}, \A x \in T : T \ {x} \in P  PROVE T \in P
    <2>1. IsFiniteSet(T)  BY FS_Subset
    <2>2. ASSUME NEW x \in T
          PROVE  SumFunctionOnSet(f, T) = f[x] + SumFunctionOnSet(f, T \ {x})
      <3> DEFINE z == Some(T)
                 U == T \ {z}
                 V == T \ {x}
                 W == T \ {x, z}
      <3>1. z \in T /\ SumFunctionOnSet(f, T) = f[z] + SumFunctionOnSet(f, U)
        BY <1>2, <2>1, SumStep
      <3>2. CASE x = z  BY <3>1, <3>2
      <3>3. CASE x # z
        <4>1. U \in P /\ V \in P  BY <1>2, <3>1
        <4>2. x \in U /\ z \in V /\ U \ {x} = W /\ V \ {z} = W
          BY <3>1, <3>3
        <4>3. SumFunctionOnSet(f, U) = f[x] + SumFunctionOnSet(f, W)
          BY <4>1, <4>2
        <4>4. SumFunctionOnSet(f, V) = f[z] + SumFunctionOnSet(f, W)
          BY <4>1, <4>2
        <4>5. f[x] \in Int /\ f[z] \in Int /\ SumFunctionOnSet(f, W) \in Int
          <5>1. IsFiniteSet(W) /\ \A w \in W : f[w] \in Int  BY <2>1, FS_Subset
          <5> QED  BY <3>1, <5>1, SumInt
        <4> HIDE DEF z, U, V, W
        <4>6. SumFunctionOnSet(f, T) = f[x] + SumFunctionOnSet(f, V)
          BY <3>1, <4>3, <4>4, <4>5
        <4> QED  BY <4>6 DEF V
      <3> QED  BY <3>2, <3>3
    <2> QED  BY <2>2
  <1>3. S \in P
    <2> HIDE DEF P
    <2> QED  BY <1>1, <1>2, SubsetInduction
  <1> QED  BY <1>3

\* Changing one value changes the sum by as much.
LEMMA SumChange ==
  ASSUME NEW f, NEW g, NEW S, IsFiniteSet(S), NEW y \in S,
         \A x \in S : f[x] \in Int /\ g[x] \in Int,
         \A x \in S \ {y} : g[x] = f[x]
  PROVE  /\ SumFunctionOnSet(f, S) \in Int /\ SumFunctionOnSet(g, S) \in Int
         /\ SumFunctionOnSet(g, S) = SumFunctionOnSet(f, S) + (g[y] - f[y])
  <1> DEFINE R == S \ {y}
  <1>1. IsFiniteSet(R)  BY FS_Subset
  <1>2. /\ SumFunctionOnSet(f, S) = f[y] + SumFunctionOnSet(f, R)
        /\ SumFunctionOnSet(g, S) = g[y] + SumFunctionOnSet(g, R)
    BY SumRemove
  <1>3. SumFunctionOnSet(f, R) = SumFunctionOnSet(g, R) /\ SumFunctionOnSet(f, R) \in Int
    BY <1>1, SumSame, SumInt
  <1> HIDE DEF R
  <1> QED  BY <1>2, <1>3

\* One more element adds its value.
LEMMA SumAdd ==
  ASSUME NEW f, NEW S, IsFiniteSet(S), NEW y, y \notin S,
         \A x \in S \cup {y} : f[x] \in Int
  PROVE  SumFunctionOnSet(f, S \cup {y}) = SumFunctionOnSet(f, S) + f[y]
  <1> DEFINE T == S \cup {y}
  <1>1. IsFiniteSet(T) /\ y \in T /\ T \ {y} = S /\ \A x \in T : f[x] \in Int
    BY FS_AddElement
  <1>2. SumFunctionOnSet(f, T) = f[y] + SumFunctionOnSet(f, T \ {y})
    <2> HIDE DEF T
    <2> QED  BY <1>1, SumRemove
  <1>3. SumFunctionOnSet(f, S) \in Int /\ f[y] \in Int  BY SumInt
  <1>4. SumFunctionOnSet(f, T) = f[y] + SumFunctionOnSet(f, S)
    <2> HIDE DEF T
    <2> QED  BY <1>1, <1>2
  <1> QED  BY <1>3, <1>4

\* Zeros may be left out.
LEMMA SumSupport ==
  ASSUME NEW f, NEW S, IsFiniteSet(S), \A x \in S : f[x] \in Int,
         NEW T \in SUBSET S, \A x \in S \ T : f[x] = 0
  PROVE  SumFunctionOnSet(f, S) = SumFunctionOnSet(f, T)
  <1> DEFINE R == S \ T
             P == {U \in SUBSET R : SumFunctionOnSet(f, T \cup U) = SumFunctionOnSet(f, T)}
  <1>1. IsFiniteSet(R) /\ \A U \in SUBSET R : IsFiniteSet(T \cup U)
    <2>1. \A U \in SUBSET R : T \cup U \in SUBSET S  OBVIOUS
    <2> QED  BY <2>1, FS_Subset
  <1>2. {} \in P
    <2>1. T \cup {} = T  OBVIOUS
    <2> QED  BY <2>1
  <1>3. ASSUME NEW U \in SUBSET R, U # {}, \A x \in U : U \ {x} \in P  PROVE U \in P
    <2>1. PICK y \in U : TRUE  BY <1>3
    <2> DEFINE V == T \cup (U \ {y})
    <2>2. /\ IsFiniteSet(V) /\ y \notin V /\ T \cup U = V \cup {y}
          /\ \A x \in V \cup {y} : f[x] \in Int
          /\ f[y] = 0 /\ SumFunctionOnSet(f, V) = SumFunctionOnSet(f, T)
      BY <1>1, <1>3, <2>1
    <2>3. SumFunctionOnSet(f, V) \in Int /\ SumFunctionOnSet(f, V \cup {y}) = SumFunctionOnSet(f, V) + f[y]
      <3> HIDE DEF V
      <3> QED  BY <2>2, SumAdd, SumInt
    <2>4. SumFunctionOnSet(f, T \cup U) = SumFunctionOnSet(f, T)
      <3> HIDE DEF V, R, P
      <3>1. SumFunctionOnSet(f, V \cup {y}) = SumFunctionOnSet(f, T)  BY <2>2, <2>3
      <3>2. T \cup U = V \cup {y}  BY <2>2
      <3> QED  BY <3>1, <3>2, Zenon
    <2> QED  BY <2>4
  <1>4. R \in P
    <2> HIDE DEF P, R
    <2> QED  BY <1>1, <1>2, <1>3, SubsetInduction
  <1>5. T \cup R = S  OBVIOUS
  <1> QED  BY <1>4, <1>5

\* The image of a finite set is finite.
LEMMA ImageFinite ==
  ASSUME NEW S, IsFiniteSet(S), NEW g
  PROVE  IsFiniteSet({g[x] : x \in S})
  <1> DEFINE P == {T \in SUBSET S : IsFiniteSet({g[x] : x \in T})}
  <1>1. {} \in P
    <2>1. {g[x] : x \in {}} = {}  OBVIOUS
    <2> QED  BY <2>1, FS_EmptySet
  <1>2. ASSUME NEW T \in SUBSET S, T # {}, \A x \in T : T \ {x} \in P  PROVE T \in P
    <2>1. PICK y \in T : TRUE  BY <1>2
    <2>2. {g[x] : x \in T} = {g[x] : x \in T \ {y}} \cup {g[y]}  BY <2>1
    <2>3. IsFiniteSet({g[x] : x \in T \ {y}})  BY <1>2, <2>1
    <2> HIDE DEF P
    <2> DEFINE A == {g[x] : x \in T \ {y}}
               B == {g[x] : x \in T}
    <2> HIDE DEF A, B
    <2>5. B = A \cup {g[y]} /\ IsFiniteSet(A)  BY <2>2, <2>3 DEF A, B
    <2>6. IsFiniteSet(B)  BY <2>5, FS_AddElement
    <2>4. IsFiniteSet({g[x] : x \in T})  BY <2>6 DEF B
    <2> QED  BY <2>4 DEF P
  <1>3. S \in P
    <2> HIDE DEF P
    <2> QED  BY <1>1, <1>2, SubsetInduction
  <1> QED  BY <1>3

\* A sum may be taken over other names for the elements.
LEMMA SumImage ==
  ASSUME NEW f, NEW S, IsFiniteSet(S), \A x \in S : f[x] \in Int, NEW g, NEW h,
         \A x, y \in S : g[x] = g[y] => x = y,
         \A x \in S : h[g[x]] = f[x]
  PROVE  SumFunctionOnSet(h, {g[x] : x \in S}) = SumFunctionOnSet(f, S)
  <1> DEFINE A(T) == {g[x] : x \in T}
             P == {T \in SUBSET S : SumFunctionOnSet(h, A(T)) = SumFunctionOnSet(f, T)}
  <1>1. {} \in P
    <2>1. A({}) = {} /\ IsFiniteSet({})  BY FS_EmptySet
    <2>2. SumFunctionOnSet(f, {}) = 0 /\ SumFunctionOnSet(h, {}) = 0  BY <2>1, SumStep
    <2> QED  BY <2>1, <2>2
  <1>2. ASSUME NEW T \in SUBSET S, T # {}, \A x \in T : T \ {x} \in P  PROVE T \in P
    <2>1. PICK y \in T : TRUE  BY <1>2
    <2> DEFINE U == T \ {y}
    <2>2. /\ IsFiniteSet(U) /\ U \subseteq S /\ y \in S /\ y \notin U /\ T = U \cup {y}
          /\ U \in P
      BY <1>2, <2>1, FS_Subset
    <2>3. A(T) = A(U) \cup {g[y]} /\ g[y] \notin A(U)
      <3> HIDE DEF U
      <3> QED  BY <2>2
    <2>4. IsFiniteSet(A(U))  BY <2>2, ImageFinite
    <2>5. \A z \in A(U) \cup {g[y]} : h[z] \in Int
      <3> HIDE DEF U
      <3> QED  BY <2>2
    <2>6. h[g[y]] = f[y] /\ \A x \in U \cup {y} : f[x] \in Int  BY <2>2
    <2>7. SumFunctionOnSet(h, A(U)) = SumFunctionOnSet(f, U)  BY <2>2
    <2> HIDE DEF U, P, A
    <2>8. SumFunctionOnSet(h, A(T)) = SumFunctionOnSet(h, A(U)) + h[g[y]]
      BY <2>3, <2>4, <2>5, SumAdd
    <2>9. SumFunctionOnSet(f, T) = SumFunctionOnSet(f, U) + f[y]  BY <2>2, <2>6, SumAdd
    <2>10. SumFunctionOnSet(h, A(T)) = SumFunctionOnSet(f, T)  BY <2>6, <2>7, <2>8, <2>9
    <2> QED  BY <2>10 DEF P
  <1>3. S \in P
    <2> HIDE DEF P
    <2> QED  BY <1>1, <1>2, SubsetInduction
  <1> QED  BY <1>3

\* A set of naturals that is not empty has a least element.
LEMMA LeastExists ==
  ASSUME NEW S \in SUBSET Nat, S # {}
  PROVE  \E x \in S : \A y \in S : x <= y
  <1> DEFINE Q == {n \in Nat : (\E x \in S : x <= n) => \E x \in S : \A y \in S : x <= y}
  <1>1. 0 \in Q  OBVIOUS
  <1>2. ASSUME NEW n \in Nat, n \in Q  PROVE n + 1 \in Q
    <2>1. CASE \E x \in S : x <= n  BY <1>2, <2>1
    <2>2. CASE ~\E x \in S : x <= n
      <3>1. \A y \in S : n + 1 <= y  BY <2>2
      <3> QED  BY <3>1
    <2> QED  BY <2>1, <2>2
  <1>3. \A n \in Nat : n \in Q
    <2> HIDE DEF Q
    <2> QED  BY <1>1, <1>2, NaturalsReached
  <1>4. PICK z \in S : TRUE  OBVIOUS
  <1>5. z \in Nat /\ z \in Q  BY <1>3, <1>4
  <1>6. \E x \in S : x <= z  BY <1>4, <1>5
  <1> QED  BY <1>5, <1>6

\* Among finitely many elements one has the greatest value.
LEMMA MostExists ==
  ASSUME NEW S, IsFiniteSet(S), S # {}, NEW f, \A x \in S : f[x] \in Int
  PROVE  \E x \in S : \A y \in S : f[y] <= f[x]
  <1> DEFINE P == {T \in SUBSET S : T # {} => \E x \in T : \A y \in T : f[y] <= f[x]}
  <1>1. {} \in P  OBVIOUS
  <1>2. ASSUME NEW T \in SUBSET S, T # {}, \A x \in T : T \ {x} \in P  PROVE T \in P
    <2>1. PICK z \in T : TRUE  BY <1>2
    <2>2. CASE T = {z}  BY <2>2
    <2>3. CASE T # {z}
      <3>1. PICK x \in T \ {z} : \A y \in T \ {z} : f[y] <= f[x]  BY <1>2, <2>1, <2>3
      <3>2. f[x] \in Int /\ f[z] \in Int  BY <3>1
      <3>3. CASE f[z] <= f[x]  BY <3>1, <3>3
      <3>4. CASE ~(f[z] <= f[x])
        <4>1. \A y \in T : f[y] <= f[z]
          <5>1. \A y \in T : f[y] \in Int  OBVIOUS
          <5> QED  BY <3>1, <3>2, <3>4, <5>1
        <4> QED  BY <4>1
      <3> QED  BY <3>3, <3>4
    <2> QED  BY <2>2, <2>3
  <1>3. S \in P
    <2> HIDE DEF P
    <2> QED  BY <1>1, <1>2, SubsetInduction
  <1> QED  BY <1>3
============================================================================
