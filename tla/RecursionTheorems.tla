------------------------- MODULE RecursionTheorems -------------------------
(* Induction over data without operators as parameters: every set of natural *)
(* numbers has a least element, and a recursive function whose value at k    *)
(* depends on its values at elements of lower rank exists.  tlapm reads the  *)
(* definition f[k \in I] == e(f, k) as CHOOSE f : f = [k \in I |-> e(f, k)], *)
(* so the second fact is what unfolds such a definition.  Sums over finite   *)
(* sets are such functions.                                                  *)
EXTENDS Integers, FiniteSets, FiniteSetTheorems, WellFoundedInduction, TLAPS

\* A set of natural numbers that is not empty has a least element.
LEMMA LeastNat ==
  ASSUME NEW S, S \subseteq Nat, S # {}
  PROVE  \E k \in S : \A j \in S : k <= j
<1>1. IsWellFoundedOn(OpToRel(<, Nat), Nat)
  BY NatLessThanWellFounded
<1>2. PICK k \in S : \A j \in S : ~(<<j, k>> \in OpToRel(<, Nat))
  BY <1>1, WFMin
<1>3. \A j \in S : ~(j < k)
  BY <1>2 DEF OpToRel
<1> QED
  BY <1>3

\* A set of natural numbers with an upper bound that is not empty has a
\* greatest element.
LEMMA GreatestNat ==
  ASSUME NEW n \in Nat, NEW S, S \subseteq 0 .. n, S # {}
  PROVE  \E k \in S : \A j \in S : j <= k
<1> DEFINE Gaps == {n - k : k \in S}
<1>1. Gaps \subseteq Nat /\ Gaps # {}
  <2>1. \A k \in S : n - k \in Nat
    OBVIOUS
  <2> QED BY <2>1
<1>2. PICK g \in Gaps : \A h \in Gaps : g <= h
  <2> HIDE DEF Gaps
  <2> QED BY <1>1, LeastNat
<1>3. PICK k \in S : g = n - k
  BY <1>2
<1>4. \A j \in S : n - j \in Gaps /\ j \in 0 .. n
  OBVIOUS
<1>5. \A j \in S : n - k <= n - j
  BY <1>2, <1>3, <1>4
<1> QED
  BY <1>3, <1>4, <1>5

\* D[k][f] depends only on the values of f at elements of I whose rank is lower
\* than that of k; the values are in V and the ranks are bounded by n.
Recursion(I, V, n, rank, D) ==
  /\ V # {} /\ n \in Nat
  /\ rank \in [I -> 0 .. n]
  /\ D \in [I -> [[I -> V] -> V]]
  /\ \A k \in I : \A g, h \in [I -> V] :
       (\A j \in I : rank[j] < rank[k] => g[j] = h[j]) => D[k][g] = D[k][h]

\* Then the function with f[k] = D[k][f] for every k exists.
LEMMA RecursiveFunctionExists ==
  ASSUME NEW I, NEW V, NEW n, NEW rank, NEW D, Recursion(I, V, n, rank, D)
  PROVE  \E f \in [I -> V] : \A k \in I : f[k] = D[k][f]
<1> USE DEF Recursion
<1> DEFINE Solves(f, m) == \A k \in I : rank[k] < m => f[k] = D[k][f]
           Bad == {m \in Nat : ~\E f \in [I -> V] : Solves(f, m)}
<1>0. \A k \in I : rank[k] \in 0 .. n
  OBVIOUS
<1>1. Bad = {}
  <2> SUFFICES ASSUME Bad # {} PROVE FALSE
    OBVIOUS
  <2>1. Bad \subseteq Nat
    OBVIOUS
  <2>2. PICK m \in Bad : \A j \in Bad : m <= j
    <3> HIDE DEF Bad
    <3> QED BY <2>1, LeastNat
  <2>3. m \in Nat /\ ~\E f \in [I -> V] : Solves(f, m)
    BY <2>2
  <2>4. CASE m = 0
    <3>1. PICK v \in V : TRUE
      OBVIOUS
    <3>2. [k \in I |-> v] \in [I -> V]
      OBVIOUS
    <3>3. Solves([k \in I |-> v], 0)
      <4>1. \A k \in I : ~(rank[k] < 0)
        OBVIOUS
      <4> QED BY <4>1
    <3> QED BY <2>3, <2>4, <3>2, <3>3
  <2>5. CASE m # 0
    <3>1. m - 1 \in Nat /\ ~(m <= m - 1)
      BY <2>3, <2>5
    <3>2. m - 1 \notin Bad
      BY <2>2, <3>1
    <3>3. PICK f \in [I -> V] : Solves(f, m - 1)
      BY <3>1, <3>2
    <3> DEFINE g == [k \in I |-> IF rank[k] = m - 1 THEN D[k][f] ELSE f[k]]
    <3>4. g \in [I -> V]
      OBVIOUS
    <3>5. \A k \in I : rank[k] < m => D[k][g] = D[k][f]
      <4> SUFFICES ASSUME NEW k \in I, rank[k] < m PROVE D[k][g] = D[k][f]
        OBVIOUS
      <4>1. \A j \in I : rank[j] < rank[k] => g[j] = f[j]
        BY <2>3
      <4> HIDE DEF g
      <4> QED BY <3>4, <4>1
    <3>6. \A k \in I : rank[k] < m => g[k] = D[k][f]
      <4> SUFFICES ASSUME NEW k \in I, rank[k] < m PROVE g[k] = D[k][f]
        OBVIOUS
      <4>1. CASE rank[k] = m - 1
        BY <4>1
      <4>2. CASE rank[k] # m - 1
        <5>1. rank[k] \in Int /\ m \in Int
          BY <1>0, <2>3
        <5>2. \A a, b \in Int : a < b /\ a # b - 1 => a < b - 1
          OBVIOUS
        <5>3. rank[k] < m - 1
          BY <4>2, <5>1, <5>2
        <5> QED BY <4>2, <5>3, <3>3
      <4> QED BY <4>1, <4>2
    <3>7. Solves(g, m)
      <4> HIDE DEF g
      <4> QED BY <3>5, <3>6
    <3> QED BY <2>3, <3>4, <3>7
  <2> QED BY <2>4, <2>5
<1>2. n + 1 \in Nat
  OBVIOUS
<1>3. PICK f \in [I -> V] : Solves(f, n + 1)
  BY <1>1, <1>2
<1>4. \A k \in I : rank[k] < n + 1
  BY <1>0
<1> QED
  BY <1>3, <1>4

-----------------------------------------------------------------------------
(* Functions on 0 .. n                                                       *)

\* A set with 0 that has k if it has k - 1 has all of 0 .. n.
LEMMA UpTo ==
  ASSUME NEW n \in Nat, NEW G, 0 \in G, \A k \in 1 .. n : k - 1 \in G => k \in G
  PROVE  \A k \in 0 .. n : k \in G
<1> DEFINE Bad == {k \in 0 .. n : k \notin G}
<1>1. SUFFICES ASSUME Bad # {} PROVE FALSE
  OBVIOUS
<1>2. PICK k \in Bad : \A j \in Bad : k <= j
  <2>1. Bad \subseteq Nat
    OBVIOUS
  <2> HIDE DEF Bad
  <2> QED BY <1>1, <2>1, LeastNat
<1>3. k \in 1 .. n /\ k \notin G /\ k - 1 \in 0 .. n /\ ~(k <= k - 1)
  <2>1. k \in 0 .. n /\ k \notin G
    OBVIOUS
  <2>2. k # 0
    BY <2>1
  <2> QED BY <2>1, <2>2
<1>4. k - 1 \notin Bad
  BY <1>2, <1>3
<1> QED
  BY <1>3, <1>4

\* f starts at 0 and goes on from k - 1 to k with one step.
Iterates(f, n, start, step) ==
  f[0] = start /\ \A k \in 1 .. n : f[k] = step[k][f[k - 1]]

\* A function can be defined by its value at 0 and its steps.
LEMMA IterationExists ==
  ASSUME NEW n \in Nat, NEW V, NEW start \in V, NEW step \in [1 .. n -> [V -> V]]
  PROVE  \E f \in [0 .. n -> V] : Iterates(f, n, start, step)
<1> DEFINE I == 0 .. n
           D == [k \in I |-> [f \in [I -> V] |-> IF k = 0 THEN start ELSE step[k][f[k - 1]]]]
           rank == [k \in I |-> k]
<1>1. \A k \in I : k # 0 => k \in 1 .. n /\ k - 1 \in I /\ k - 1 < k
  OBVIOUS
<1>2. D \in [I -> [[I -> V] -> V]]
  <2>1. \A k \in I, f \in [I -> V] : (IF k = 0 THEN start ELSE step[k][f[k - 1]]) \in V
    BY <1>1
  <2> QED BY <2>1
<1>3. Recursion(I, V, n, rank, D)
  <2>1. \A k \in I : \A g, h \in [I -> V] :
          (\A j \in I : rank[j] < rank[k] => g[j] = h[j]) => D[k][g] = D[k][h]
    <3> SUFFICES ASSUME NEW k \in I, NEW g \in [I -> V], NEW h \in [I -> V],
                        \A j \in I : rank[j] < rank[k] => g[j] = h[j]
                 PROVE  D[k][g] = D[k][h]
      OBVIOUS
    <3>1. k # 0 => g[k - 1] = h[k - 1]
      BY <1>1
    <3> QED BY <3>1
  <2>2. rank \in [I -> 0 .. n] /\ V # {}
    OBVIOUS
  <2> HIDE DEF D, rank, I
  <2> QED BY <1>2, <2>1, <2>2 DEF Recursion
<1>4. PICK f \in [I -> V] : \A k \in I : f[k] = D[k][f]
  <2> HIDE DEF D, rank, I
  <2> QED BY <1>3, RecursiveFunctionExists
<1>5. \A k \in I : f[k] = IF k = 0 THEN start ELSE step[k][f[k - 1]]
  BY <1>4
<1>6. 0 \in I /\ \A k \in 1 .. n : k \in I /\ k # 0
  OBVIOUS
<1> QED
  BY <1>5, <1>6 DEF Iterates

-----------------------------------------------------------------------------
(* Sums over finite sets, as MapThenSumSet of FiniteSetsExt computes them    *)

\* g gives every subset of S the sum of the f[x] over its elements.
Sums(f, g, S) ==
  g = [s \in SUBSET S |->
         IF s = {} THEN 0
         ELSE f[CHOOSE x \in s : TRUE] + g[s \ {CHOOSE x \in s : TRUE}]]

\* Subsets of a finite set lose one in size with each element.
LEMMA SizesOfSubsets ==
  ASSUME NEW S, IsFiniteSet(S)
  PROVE  /\ Cardinality(S) \in Nat
         /\ \A s \in SUBSET S : IsFiniteSet(s) /\ Cardinality(s) \in 0 .. Cardinality(S)
         /\ \A s \in SUBSET S : \A x \in s :
              s \ {x} \in SUBSET S /\ Cardinality(s \ {x}) = Cardinality(s) - 1
<1>1. \A s \in SUBSET S : IsFiniteSet(s) /\ Cardinality(s) <= Cardinality(S)
  BY FS_Subset
<1>2. Cardinality(S) \in Nat /\ \A s \in SUBSET S : Cardinality(s) \in Nat
  BY <1>1, FS_CardinalityType
<1>3. \A s \in SUBSET S : \A x \in s : Cardinality(s \ {x}) = Cardinality(s) - 1
  BY <1>1, FS_RemoveElement
<1> QED
  BY <1>1, <1>2, <1>3

\* The sums exist.
LEMMA SumsExist ==
  ASSUME NEW S, IsFiniteSet(S), NEW f \in [S -> Int]
  PROVE  \E g \in [SUBSET S -> Int] : Sums(f, g, S)
<1> DEFINE I == SUBSET S
           n == Cardinality(S)
           c(s) == CHOOSE x \in s : TRUE
           D == [s \in I |-> [g \in [I -> Int] |->
                               IF s = {} THEN 0 ELSE f[c(s)] + g[s \ {c(s)}]]]
           rank == [s \in I |-> Cardinality(s)]
<1>1. \A s \in I : s # {} => c(s) \in s
  OBVIOUS
<1>2. \A s \in I : s # {} => f[c(s)] \in Int /\ s \ {c(s)} \in I
  <2> HIDE DEF c
  <2> QED BY <1>1
<1>3. \A s \in I : s # {} => Cardinality(s \ {c(s)}) < Cardinality(s)
  <2> HIDE DEF c
  <2> QED BY <1>1, SizesOfSubsets
<1>4. D \in [I -> [[I -> Int] -> Int]]
  <2>1. \A s \in I, g \in [I -> Int] :
          (IF s = {} THEN 0 ELSE f[c(s)] + g[s \ {c(s)}]) \in Int
    <3> HIDE DEF c, I
    <3> QED BY <1>2
  <2> HIDE DEF c, I
  <2> QED BY <2>1
<1>5. \A s \in I, g \in [I -> Int] :
        D[s][g] = IF s = {} THEN 0 ELSE f[c(s)] + g[s \ {c(s)}]
  <2> HIDE DEF c, I
  <2> QED OBVIOUS
<1>6. Recursion(I, Int, n, rank, D)
  <2>1. \A s \in I : \A g, h \in [I -> Int] :
          (\A t \in I : rank[t] < rank[s] => g[t] = h[t]) => D[s][g] = D[s][h]
    <3> SUFFICES ASSUME NEW s \in I, NEW g \in [I -> Int], NEW h \in [I -> Int],
                        \A t \in I : rank[t] < rank[s] => g[t] = h[t]
                 PROVE  D[s][g] = D[s][h]
      OBVIOUS
    <3>1. s # {} => g[s \ {c(s)}] = h[s \ {c(s)}]
      <4> HIDE DEF c, I
      <4> QED BY <1>2, <1>3
    <3> HIDE DEF D, c, I, rank
    <3> QED BY <1>5, <3>1
  <2>2. rank \in [I -> 0 .. n] /\ n \in Nat /\ Int # {}
    BY SizesOfSubsets
  <2> HIDE DEF D, rank, I, n
  <2> QED BY <1>4, <2>1, <2>2 DEF Recursion
<1>7. PICK g \in [I -> Int] : \A s \in I : g[s] = D[s][g]
  <2> HIDE DEF D, rank, I, n
  <2> QED BY <1>6, RecursiveFunctionExists
<1>8. g = [s \in I |-> IF s = {} THEN 0 ELSE f[c(s)] + g[s \ {c(s)}]]
  <2> HIDE DEF D, rank, I, n, c
  <2> QED BY <1>5, <1>7
<1> QED
  BY <1>8 DEF Sums

\* The sum over no element is 0, any other that of one term and of the others.
Splits(f, g, S) ==
  /\ g \in [SUBSET S -> Int] /\ g[{}] = 0
  /\ \A s \in SUBSET S : \A x \in s : g[s] = f[x] + g[s \ {x}]

\* A sum does not depend on the elements that are chosen.
LEMMA SumsOfOthers ==
  ASSUME NEW S, IsFiniteSet(S), NEW f \in [S -> Int], NEW g, Sums(f, g, S)
  PROVE  Splits(f, g, S)
<1> DEFINE c(s) == CHOOSE x \in s : TRUE
           Right(s) == g[s] \in Int /\ \A x \in s : g[s] = f[x] + g[s \ {x}]
           Sizes == {m \in Nat : \A s \in SUBSET S : Cardinality(s) <= m => Right(s)}
           n == Cardinality(S)
<1>1. \A s \in SUBSET S : g[s] = IF s = {} THEN 0 ELSE f[c(s)] + g[s \ {c(s)}]
  BY DEF Sums
<1>2. \A s \in SUBSET S : s # {} => c(s) \in s
  OBVIOUS
<1>3. g[{}] = 0
  BY <1>1
<1> HIDE DEF c
<1>4. 0 \in Sizes
  <2>1. \A s \in SUBSET S : Cardinality(s) <= 0 => s = {}
    <3> SUFFICES ASSUME NEW s \in SUBSET S, Cardinality(s) <= 0 PROVE s = {}
      OBVIOUS
    <3>1. Cardinality(s) = 0 /\ IsFiniteSet(s)
      BY SizesOfSubsets
    <3> QED BY <3>1, FS_EmptySet
  <2>2. Right({})
    BY <1>3
  <2>3. \A s \in SUBSET S : Cardinality(s) <= 0 => Right(s)
    <3> HIDE DEF Right
    <3> QED BY <2>1, <2>2
  <2> HIDE DEF Right
  <2> QED BY <2>3
<1>5. ASSUME NEW k \in 1 .. n, k - 1 \in Sizes PROVE k \in Sizes
  <2> SUFFICES ASSUME NEW s \in SUBSET S, Cardinality(s) <= k PROVE Right(s)
    <3>1. k \in Nat
      BY SizesOfSubsets
    <3> QED BY <3>1
  <2>1. CASE s = {}
    BY <1>3, <2>1
  <2>2. CASE s # {}
    <3>1. \A t \in SUBSET S : \A x \in t : t \ {x} \in SUBSET S /\ Cardinality(t) \in Nat
                                           /\ Cardinality(t \ {x}) = Cardinality(t) - 1
      BY SizesOfSubsets
    <3>2. \A x \in s : Right(s \ {x})
      <4> SUFFICES ASSUME NEW x \in s PROVE Right(s \ {x})
        OBVIOUS
      <4>1. s \ {x} \in SUBSET S /\ Cardinality(s \ {x}) <= k - 1
        BY <3>1, SizesOfSubsets
      <4> HIDE DEF Right
      <4> QED BY <1>5, <4>1
    <3>3. c(s) \in s /\ g[s] = f[c(s)] + g[s \ {c(s)}]
      BY <1>1, <1>2, <2>2
    <3>4. \A x \in s : f[x] \in Int /\ g[s \ {x}] \in Int
      BY <3>2
    <3>5. ASSUME NEW x \in s PROVE g[s] = f[x] + g[s \ {x}]
      <4>1. CASE x = c(s)
        BY <3>3, <4>1
      <4>2. CASE x # c(s)
        <5> DEFINE rest == s \ {x, c(s)}
        <5>1. (s \ {c(s)}) \ {x} = rest /\ (s \ {x}) \ {c(s)} = rest
          OBVIOUS
        <5>2. g[s \ {c(s)}] = f[x] + g[rest]
          <6>1. x \in s \ {c(s)}
            BY <4>2
          <6> HIDE DEF rest
          <6> QED BY <3>2, <3>3, <5>1, <6>1
        <5>3. g[s \ {x}] = f[c(s)] + g[rest]
          <6>1. c(s) \in s \ {x}
            BY <3>3, <4>2
          <6> HIDE DEF rest
          <6> QED BY <3>2, <5>1, <6>1
        <5>4. g[rest] \in Int
          <6>1. rest \in SUBSET S /\ Cardinality(rest) <= k - 1
            <7>1. s \ {x} \in SUBSET S /\ Cardinality(s \ {x}) = Cardinality(s) - 1
              BY <3>1
            <7>2. c(s) \in s \ {x}
              BY <3>3, <4>2
            <7>3. /\ Cardinality((s \ {x}) \ {c(s)}) = Cardinality(s \ {x}) - 1
                  /\ Cardinality(s) \in Nat /\ (s \ {x}) \ {c(s)} \in SUBSET S
              BY <3>1, <7>1, <7>2
            <7> QED BY <5>1, <7>1, <7>3
          <6> HIDE DEF rest
          <6> QED BY <1>5, <6>1
        <5> HIDE DEF rest
        <5> QED BY <3>3, <3>4, <5>2, <5>3, <5>4
      <4> QED BY <4>1, <4>2
    <3>6. g[s] \in Int
      BY <3>3, <3>4
    <3> QED BY <3>5, <3>6
  <2> QED BY <2>1, <2>2
<1>6. n \in Nat
  BY SizesOfSubsets
<1>7. n \in Sizes
  <2>1. \A k \in 0 .. n : k \in Sizes
    <3> HIDE DEF Sizes, n
    <3> QED BY <1>4, <1>5, <1>6, UpTo
  <2> QED BY <1>6, <2>1
<1>8. \A s \in SUBSET S : Right(s)
  <2>1. \A s \in SUBSET S : Cardinality(s) <= n
    BY SizesOfSubsets
  <2> QED BY <1>7, <2>1
<1>9. g \in [SUBSET S -> Int]
  <2>1. DOMAIN g = SUBSET S /\ g = [s \in SUBSET S |-> g[s]]
    BY DEF Sums
  <2> QED BY <1>8, <2>1
<1> QED
  BY <1>3, <1>8, <1>9 DEF Splits

\* The sum over a set depends only on the terms of its elements.
LEMMA SumsAgree ==
  ASSUME NEW S, IsFiniteSet(S), NEW f \in [S -> Int], NEW g, Sums(f, g, S),
         NEW T, IsFiniteSet(T), NEW h \in [T -> Int], NEW k, Sums(h, k, T),
         S \subseteq T, \A x \in S : f[x] = h[x]
  PROVE  g[S] = k[S]
<1> DEFINE n == Cardinality(S)
           Sizes == {m \in Nat : \A s \in SUBSET S : Cardinality(s) <= m => g[s] = k[s]}
<1>1. /\ g[{}] = 0 /\ \A s \in SUBSET S : \A x \in s : g[s] = f[x] + g[s \ {x}]
      /\ k[{}] = 0 /\ \A s \in SUBSET T : \A x \in s : k[s] = h[x] + k[s \ {x}]
  <2>1. Splits(f, g, S) /\ Splits(h, k, T)
    BY SumsOfOthers
  <2> QED BY <2>1 DEF Splits
<1>2. 0 \in Sizes
  <2>1. \A s \in SUBSET S : Cardinality(s) <= 0 => s = {}
    <3> SUFFICES ASSUME NEW s \in SUBSET S, Cardinality(s) <= 0 PROVE s = {}
      OBVIOUS
    <3>1. Cardinality(s) = 0 /\ IsFiniteSet(s)
      BY SizesOfSubsets
    <3> QED BY <3>1, FS_EmptySet
  <2> QED BY <1>1, <2>1
<1>3. ASSUME NEW m \in 1 .. n, m - 1 \in Sizes PROVE m \in Sizes
  <2>1. \A s \in SUBSET S : Cardinality(s) <= m => g[s] = k[s]
    <3> SUFFICES ASSUME NEW s \in SUBSET S, Cardinality(s) <= m PROVE g[s] = k[s]
      OBVIOUS
    <3>1. CASE s = {}
      BY <1>1, <3>1
    <3>2. CASE s # {}
      <4>1. PICK x \in s : TRUE
        BY <3>2
      <4>2. s \ {x} \in SUBSET S /\ Cardinality(s \ {x}) <= m - 1
        BY SizesOfSubsets
      <4>3. g[s \ {x}] = k[s \ {x}]
        BY <1>3, <4>2
      <4> QED BY <1>1, <4>3
    <3> QED BY <3>1, <3>2
  <2> QED BY <2>1
<1>4. n \in Nat
  BY SizesOfSubsets
<1>5. n \in Sizes
  <2>1. \A j \in 0 .. n : j \in Sizes
    <3> HIDE DEF Sizes, n
    <3> QED BY <1>2, <1>3, <1>4, UpTo
  <2> QED BY <1>4, <2>1
<1> QED
  BY <1>5, SizesOfSubsets
=============================================================================
