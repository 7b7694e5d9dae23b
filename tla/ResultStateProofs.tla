--------------------------- MODULE ResultStateProofs ---------------------------
(***************************************************************************)
(* Proofs about ResultState: its type invariant; that no result that       *)
(* contradicts an earlier one of the same feature gets past the session;   *)
(* that the items of the database mean what the device does; and that      *)
(* right results never make the session panic.                             *)
(*                                                                         *)
(* The first half is about the functions of TileItems: what the orders of  *)
(* bits, the words of an enumeration, its merge with another and the       *)
(* passes over numbers give, for diffs of any size, and when they give it. *)
(* Then come the diffs that a right result gives in any place, and what    *)
(* each collector makes of them.  The invariants of the session are the    *)
(* last part.                                                              *)
(***************************************************************************)
EXTENDS ResultState, TLAPS, FiniteSetTheorems, WellFoundedInduction

(* Minimal counterexamples stand for induction over numbers: finite sets of *)
(* numbers are well founded.                                               *)

\* A set of numbers that is not empty has a least member.
LEMMA LeastNat ==
    ASSUME NEW T \in SUBSET Nat, T # {}
    PROVE  \E n \in T : \A m \in T : n <= m
<1> DEFINE U == {1..n : n \in T}
<1>1. U \subseteq FiniteSubsetsOf(Nat) /\ U # {}
  <2>1. ASSUME NEW n \in T PROVE 1..n \in FiniteSubsetsOf(Nat)
    <3>1. n \in Int /\ 1 \in Int /\ 1..n \subseteq Nat
      OBVIOUS
    <3>2. IsFiniteSet(1..n)
      BY <3>1, FS_Interval
    <3> QED
      BY <3>1, <3>2 DEF FiniteSubsetsOf
  <2> QED
    BY <2>1 DEF FiniteSubsetsOf
<1>2. PICK x \in U : \A y \in U : <<y, x>> \notin StrictSubsetOrdering(Nat)
  <2> HIDE DEF U
  <2> QED
    BY <1>1, FS_StrictSubsetOrderingWellFounded, WFMin
<1>3. PICK n \in T : x = 1..n
  BY <1>2
<1>4. ASSUME NEW m \in T, m < n PROVE FALSE
  <2>1. 1..m \subseteq 1..n /\ 1..m # 1..n
    <3>1. n \in 1..n /\ n \notin 1..m
      BY <1>4
    <3> QED
      BY <1>4, <3>1
  <2>2. <<1..m, x>> \in StrictSubsetOrdering(Nat)
    BY <2>1, <1>3 DEF StrictSubsetOrdering
  <2> QED
    BY <2>2, <1>2
<1> QED
  BY <1>4

\* What N steps of a loop make of v when step k leads from V[k - 1] to V[k].
Iterates(f, N, V, G, v) ==
    /\ f = [k \in 0..N |-> IF k = 0 THEN v ELSE G[k][f[k - 1]]]
    /\ \A k \in 0..N : f[k] \in V[k]

\* A loop of N steps whose step k leads from V[k - 1] to V[k] has an outcome after each.
LEMMA Iterate ==
    ASSUME NEW N \in Nat, NEW V, NEW G, NEW v, v \in V[0],
           \A k \in 1..N : G[k] \in [V[k - 1] -> V[k]]
    PROVE  \E f : Iterates(f, N, V, G, v)
<1> DEFINE Upto(n) == \E f : /\ f = [k \in 0..n |-> IF k = 0 THEN v ELSE G[k][f[k - 1]]]
                             /\ \A k \in 0..n : f[k] \in V[k]
           T == {n \in 0..N : ~ Upto(n)}
<1>1. T = {}
  <2>1. SUFFICES ASSUME T # {} PROVE FALSE
    OBVIOUS
  <2>2. T \in SUBSET Nat
    OBVIOUS
  <2>3. PICK n \in T : \A k \in T : n <= k
    <3> HIDE DEF T
    <3> QED
      BY <2>1, <2>2, LeastNat
  <2>4. CASE n = 0
    <3> DEFINE g == [k \in 0..0 |-> v]
    <3>1. g = [k \in 0..0 |-> IF k = 0 THEN v ELSE G[k][g[k - 1]]]
      OBVIOUS
    <3>2. \A k \in 0..0 : g[k] \in V[k]
      OBVIOUS
    <3> QED
      BY <3>1, <3>2, <2>4
  <2>5. CASE n # 0
    <3>1. n - 1 \in 0..N /\ n \in 1..N /\ Upto(n - 1)
      BY <2>5, <2>3
    <3>2. PICK g : /\ g = [k \in 0..(n - 1) |-> IF k = 0 THEN v ELSE G[k][g[k - 1]]]
                   /\ \A k \in 0..(n - 1) : g[k] \in V[k]
      BY <3>1
    <3> DEFINE h == [k \in 0..n |-> IF k = n THEN G[n][g[n - 1]] ELSE g[k]]
    <3>3. \A k \in 0..(n - 1) : h[k] = g[k]
      BY <3>1
    <3>4. h[n] = G[n][g[n - 1]]
      BY <3>1
    <3>5. DOMAIN h = 0..n /\ h = [k \in 0..n |-> h[k]]
      OBVIOUS
    <3>6. \A k \in 0..n : h[k] = IF k = 0 THEN v ELSE G[k][h[k - 1]]
      <4> SUFFICES ASSUME NEW k \in 0..n PROVE h[k] = IF k = 0 THEN v ELSE G[k][h[k - 1]]
        OBVIOUS
      <4> HIDE DEF h
      <4>1. CASE k = n
        BY <4>1, <3>3, <3>4, <3>1
      <4>2. CASE k # n
        <5>1. k \in 0..(n - 1)
          BY <4>2, <3>1
        <5>2. g[k] = IF k = 0 THEN v ELSE G[k][g[k - 1]]
          BY <5>1, <3>2
        <5>3. k # 0 => h[k - 1] = g[k - 1]
          BY <5>1, <3>3
        <5> QED
          BY <5>1, <5>2, <5>3, <3>3
      <4> QED
        BY <4>1, <4>2
    <3>7. \A k \in 0..n : h[k] \in V[k]
      <4> HIDE DEF h
      <4>1. h[n] \in V[n]
        <5>1. g[n - 1] \in V[n - 1] /\ G[n] \in [V[n - 1] -> V[n]]
          BY <3>1, <3>2
        <5> QED
          BY <5>1, <3>4
      <4> QED
        BY <4>1, <3>1, <3>2, <3>3
    <3>8. Upto(n)
      <4> HIDE DEF h
      <4>1. h = [k \in 0..n |-> IF k = 0 THEN v ELSE G[k][h[k - 1]]]
        BY <3>5, <3>6
      <4> QED
        BY <4>1, <3>7
    <3> QED
      BY <3>8
  <2> QED
    BY <2>4, <2>5
<1> QED
  BY <1>1 DEF Iterates

\* A loop written with any step that is G's on V keeps to V too.
LEMMA Iterated ==
    ASSUME NEW N \in Nat, NEW V, NEW G, NEW h, h[0] \in V[0],
           \A k \in 1..N : G[k] \in [V[k - 1] -> V[k]],
           \A k \in 1..N : h[k - 1] \in V[k - 1] => h[k] = G[k][h[k - 1]]
    PROVE  \A k \in 0..N : h[k] \in V[k]
<1> DEFINE T == {n \in 0..N : h[n] \notin V[n]}
<1>1. SUFFICES ASSUME T # {} PROVE FALSE
  OBVIOUS
<1>2. T \in SUBSET Nat
  OBVIOUS
<1>3. PICK n \in T : \A k \in T : n <= k
  <2> HIDE DEF T
  <2> QED
    BY <1>1, <1>2, LeastNat
<1>4. n # 0 /\ n \in 1..N /\ n - 1 \in 0..N /\ h[n - 1] \in V[n - 1]
  BY <1>3
<1>5. h[n] = G[n][h[n - 1]] /\ G[n] \in [V[n - 1] -> V[n]]
  BY <1>4
<1>6. h[n] \in V[n]
  BY <1>4, <1>5
<1> QED
  BY <1>3, <1>6

-----------------------------------------------------------------------------
(* Orders.                                                                 *)

\* A finite set of numbers that is not empty has a least and a greatest member.
LEMMA MinMax ==
    ASSUME NEW S \in SUBSET Nat, IsFiniteSet(S), S # {}
    PROVE  /\ Min(S) \in S /\ \A x \in S : Min(S) <= x
           /\ Max(S) \in S /\ \A x \in S : x <= Max(S)
<1>1. \E n \in S : \A m \in S : n <= m
  BY LeastNat
<1>2. Min(S) \in S /\ \A x \in S : Min(S) <= x
  BY <1>1 DEF Min
<1>3. \E n \in S : \A m \in S : n >= m
  <2> DEFINE P(U) == U # {} => \E n \in U : \A m \in U : n >= m
             T == {Cardinality(U) : U \in {V \in SUBSET S : ~P(V)}}
  <2>1. SUFFICES ASSUME T # {} PROVE FALSE
    OBVIOUS
  <2>2. T \in SUBSET Nat
    BY FS_Subset, FS_CardinalityType
  <2>3. PICK c \in T : \A d \in T : c <= d
    <3> HIDE DEF T
    <3> QED
      BY <2>1, <2>2, LeastNat
  <2>4. PICK U \in SUBSET S : ~P(U) /\ c = Cardinality(U)
    BY <2>3
  <2>5. PICK k \in U : TRUE
    BY <2>4
  <2>6. IsFiniteSet(U)
    BY FS_Subset
  <2>7. Cardinality(U \ {k}) = c - 1 /\ c \in Nat
    BY <2>4, <2>5, <2>6, FS_RemoveElement, FS_CardinalityType
  <2>8. P(U \ {k})
    <3>1. Cardinality(U \ {k}) \notin T
      BY <2>3, <2>7, <2>2
    <3> HIDE DEF P
    <3> QED
      BY <3>1
  <2>9. CASE U \ {k} = {}
    <3>1. \A m \in U : k >= m
      BY <2>9, <2>5
    <3> QED
      BY <3>1, <2>4, <2>5
  <2>10. CASE U \ {k} # {}
    <3>1. PICK n \in U \ {k} : \A m \in U \ {k} : n >= m
      BY <2>8, <2>10
    <3>2. n \in Nat /\ k \in Nat
      BY <2>5
    <3>3. CASE n >= k
      <4>1. \A m \in U : n >= m
        BY <3>1, <3>3
      <4> QED
        BY <4>1, <2>4
    <3>4. CASE k >= n
      <4>1. \A m \in U : k >= m
        <5> TAKE m \in U
        <5>1. m \in Nat
          OBVIOUS
        <5> QED
          BY <5>1, <3>1, <3>2, <3>4
      <4> QED
        BY <4>1, <2>4, <2>5
    <3> QED
      BY <3>2, <3>3, <3>4
  <2> QED
    BY <2>9, <2>10
<1>4. Max(S) \in S /\ \A x \in S : Max(S) >= x
  BY <1>3 DEF Max
<1> QED
  BY <1>2, <1>4

\* R orders the members of S.
Orders(R, S) ==
    /\ \A x \in S : <<x, x>> \notin R
    /\ \A x, y \in S : x # y => <<x, y>> \in R \/ <<y, x>> \in R
    /\ \A x, y, z \in S : <<x, y>> \in R /\ <<y, z>> \in R => <<x, z>> \in R

Ranks(R, S) == InOrder(S, [x \in S |-> {y \in S : <<y, x>> \in R}])

\* In an order, the sequence of the members by how many are before them has them all.
LEMMA Ranked ==
    ASSUME NEW S, IsFiniteSet(S), NEW R, Orders(R, S)
    PROVE  /\ Cardinality(S) \in Nat
           /\ \A i \in 1..Cardinality(S) : Ranks(R, S)[i] \in S
           /\ \A x \in S : \E i \in 1..Cardinality(S) : Ranks(R, S)[i] = x
<1> DEFINE n == Cardinality(S)
           below(x) == {y \in S : <<y, x>> \in R}
           rank == [x \in S |-> Cardinality(below(x))]
<1>0. Ranks(R, S) = [i \in 1..Cardinality(S) |-> CHOOSE x \in S : rank[x] = i - 1]
  <2> DEFINE b == [x \in S |-> below(x)]
  <2>1. \A x \in S : Cardinality(b[x]) = rank[x]
    OBVIOUS
  <2>2. Ranks(R, S) = InOrder(S, b)
    BY Zenon DEF Ranks
  <2> HIDE DEF b, rank
  <2> QED
    BY <2>1, <2>2 DEF InOrder
<1>1. n \in Nat
  BY FS_CardinalityType
<1>2. ASSUME NEW x \in S PROVE rank[x] \in 0..(n - 1)
  <2>1. below(x) \subseteq S \ {x}
    BY DEF Orders
  <2>2. IsFiniteSet(S \ {x}) /\ Cardinality(S \ {x}) = n - 1
    BY FS_RemoveElement
  <2>3. IsFiniteSet(below(x)) /\ Cardinality(below(x)) <= n - 1
    <3> HIDE DEF below
    <3> QED
      BY <2>1, <2>2, FS_Subset
  <2>4. Cardinality(below(x)) \in Nat
    BY <2>3, FS_CardinalityType
  <2> HIDE DEF below, n
  <2> QED
    BY <1>1, <2>3, <2>4
<1>3. ASSUME NEW x \in S, NEW y \in S, <<x, y>> \in R PROVE rank[x] # rank[y]
  <2>1. below(x) \subseteq below(y) /\ x \in below(y) /\ x \notin below(x)
    BY <1>3 DEF Orders
  <2>2. IsFiniteSet(below(y))
    BY FS_Subset
  <2>3. Cardinality(below(x)) # Cardinality(below(y))
    <3> HIDE DEF below
    <3> QED
      BY <2>1, <2>2, FS_Subset
  <2> QED
    BY <2>3
<1>4. rank \in Injection(S, 0..(n - 1))
  <2>1. rank \in [S -> 0..(n - 1)]
    <3> HIDE DEF n
    <3> QED
      BY <1>2
  <2>2. \A x, y \in S : rank[x] = rank[y] => x = y
    <3> HIDE DEF rank
    <3> QED
      BY <1>3 DEF Orders
  <2> HIDE DEF rank, n
  <2> QED
    BY <2>1, <2>2 DEF Injection, IsInjective
<1>5. IsFiniteSet(0..(n - 1)) /\ Cardinality(0..(n - 1)) = n
  <2>1. 0 \in Int /\ n - 1 \in Int
    BY <1>1
  <2> QED
    BY <1>1, <2>1, FS_Interval
<1>6. rank \in Surjection(S, 0..(n - 1))
  <2> HIDE DEF rank
  <2> QED
    BY <1>4, <1>5, FS_Injection
<1>7. \A i \in 0..(n - 1) : \E x \in S : rank[x] = i
  <2> HIDE DEF rank, n
  <2> QED
    BY <1>6 DEF Surjection
<1>8. \A i \in 1..n : Ranks(R, S)[i] \in S /\ rank[Ranks(R, S)[i]] = i - 1
  <2> TAKE i \in 1..n
  <2>1. i - 1 \in 0..(n - 1)
    BY <1>1
  <2> HIDE DEF rank
  <2>2. \E x \in S : rank[x] = i - 1
    BY <1>7, <2>1
  <2>3. Ranks(R, S)[i] = CHOOSE x \in S : rank[x] = i - 1
    BY <1>0
  <2> QED
    BY <2>2, <2>3
<1>9. ASSUME NEW x \in S PROVE \E i \in 1..n : Ranks(R, S)[i] = x
  <2>1. rank[x] + 1 \in 1..n /\ (rank[x] + 1) - 1 = rank[x]
    <3> HIDE DEF rank, n
    <3> QED
      BY <1>1, <1>2
  <2>2. rank[Ranks(R, S)[rank[x] + 1]] = rank[x] /\ Ranks(R, S)[rank[x] + 1] \in S
    <3> HIDE DEF rank, n
    <3> QED
      BY <2>1, <1>8
  <2>3. Ranks(R, S)[rank[x] + 1] = x
    <3> HIDE DEF rank
    <3> QED
      BY <2>2, <1>4 DEF Injection, IsInjective
  <2> QED
    BY <2>1, <2>3
<1> QED
  BY <1>1, <1>8, <1>9

\* q lists the members of S.
Lists(q, S) ==
    /\ Cardinality(S) \in Nat /\ q \in [1..Cardinality(S) -> S]
    /\ \A x \in S : \E i \in 1..Cardinality(S) : q[i] = x

LEMMA RanksList ==
    ASSUME NEW S, IsFiniteSet(S), NEW R, Orders(R, S)
    PROVE  Lists(Ranks(R, S), S)
<1>1. Ranks(R, S) = [i \in 1..Cardinality(S) |-> Ranks(R, S)[i]]
  <2> DEFINE before == [x \in S |-> {y \in S : <<y, x>> \in R}]
  <2>1. Ranks(R, S) = InOrder(S, before)
    BY Zenon DEF Ranks
  <2> HIDE DEF before
  <2>2. InOrder(S, before) = [i \in 1..Cardinality(S) |-> InOrder(S, before)[i]]
    BY DEF InOrder
  <2> QED
    BY <2>1, <2>2
<1> QED
  BY <1>1, Ranked DEF Lists

LEMMA SortedLists ==
    ASSUME NEW S \in SUBSET (Nat \X Nat), IsFiniteSet(S)
    PROVE  Lists(Sorted(S), S)
<1> DEFINE R == {p \in S \X S : BitBefore(p[1], p[2])}
<1>1. \A x, y \in S : <<x, y>> \in R <=> BitBefore(x, y)
  OBVIOUS
<1>2. \A x \in S : x[1] \in Nat /\ x[2] \in Nat /\ x = <<x[1], x[2]>>
  OBVIOUS
<1>3. Orders(R, S)
  <2> HIDE DEF R
  <2>1. \A x \in S : ~BitBefore(x, x)
    BY <1>2 DEF BitBefore
  <2>2. \A x, y \in S : x # y => BitBefore(x, y) \/ BitBefore(y, x)
    BY <1>2 DEF BitBefore
  <2>3. \A x, y, z \in S : BitBefore(x, y) /\ BitBefore(y, z) => BitBefore(x, z)
    BY <1>2 DEF BitBefore
  <2> QED
    BY <1>1, <2>1, <2>2, <2>3 DEF Orders
<1>4. Sorted(S) = Ranks(R, S)
  <2>1. [x \in S |-> {y \in S : BitBefore(y, x)}] = [x \in S |-> {y \in S : <<y, x>> \in R}]
    BY <1>1
  <2> HIDE DEF R
  <2> QED
    BY <2>1 DEF Sorted, Ranks
<1> QED
  BY <1>3, <1>4, RanksList

\* Bits by the first number in which they differ, and after that among themselves.
LexicBefore(K, V, a, b) ==
    \/ (\A i \in K : V[i][a] = V[i][b]) /\ BitBefore(a, b)
    \/ \E m \in K : /\ V[m][a] /\ ~V[m][b]
                    /\ \A i \in K : i < m => V[i][a] = V[i][b]

Lexic(S, K, V) == {p \in S \X S : LexicBefore(K, V, p[1], p[2])}

LEMMA LexicOrders ==
    ASSUME NEW S \in SUBSET (Nat \X Nat), NEW K \in SUBSET Nat, NEW V,
           \A i \in K : \A b \in S : V[i][b] \in BOOLEAN
    PROVE  Orders(Lexic(S, K, V), S)
<1> DEFINE R == Lexic(S, K, V)
           Same(a, b) == \A i \in K : V[i][a] = V[i][b]
           First(m, a, b) == V[m][a] /\ ~V[m][b] /\ \A i \in K : i < m => V[i][a] = V[i][b]
<1>1. \A x, y \in S : <<x, y>> \in R <=> LexicBefore(K, V, x, y)
  BY Zenon DEF Lexic
<1>2. \A x, y \in S : LexicBefore(K, V, x, y) <=> (Same(x, y) /\ BitBefore(x, y)) \/ \E m \in K : First(m, x, y)
  BY DEF LexicBefore
<1>3. \A x \in S : x[1] \in Nat /\ x[2] \in Nat /\ x = <<x[1], x[2]>>
  OBVIOUS
<1>4. ASSUME NEW x \in S PROVE <<x, x>> \notin R
  <2>1. ~BitBefore(x, x)
    BY <1>3 DEF BitBefore
  <2> QED
    BY <1>1, <1>2, <2>1
<1>5. ASSUME NEW x \in S, NEW y \in S, x # y PROVE <<x, y>> \in R \/ <<y, x>> \in R
  <2>1. BitBefore(x, y) \/ BitBefore(y, x)
    BY <1>3, <1>5 DEF BitBefore
  <2>2. CASE Same(x, y)
    <3>1. Same(y, x)
      BY <2>2
    <3> QED
      BY <1>1, <1>2, <2>1, <2>2, <3>1
  <2>3. CASE ~Same(x, y)
    <3> DEFINE T == {i \in K : V[i][x] # V[i][y]}
    <3>1. T \in SUBSET Nat /\ T # {}
      BY <2>3
    <3>2. PICK m \in T : \A i \in T : m <= i
      <4> HIDE DEF T
      <4> QED
        BY <3>1, LeastNat
    <3>3. \A i \in K : i < m => V[i][x] = V[i][y]
      BY <3>2
    <3>4. First(m, x, y) \/ First(m, y, x)
      BY <3>2, <3>3
    <3> QED
      BY <1>1, <1>2, <3>4
  <2> QED
    BY <2>2, <2>3
<1>6. ASSUME NEW x \in S, NEW y \in S, NEW z \in S, <<x, y>> \in R, <<y, z>> \in R
      PROVE  <<x, z>> \in R
  <2>0. LexicBefore(K, V, x, y) /\ LexicBefore(K, V, y, z)
    BY <1>1, <1>6
  <2>1. ASSUME NEW m \in K, First(m, x, z) PROVE <<x, z>> \in R
    <3> HIDE DEF Same, First, R
    <3> QED
      BY <1>1, <1>2, <2>1
  <2>2. CASE Same(x, y) /\ Same(y, z)
    <3>1. BitBefore(x, y) /\ BitBefore(y, z)
      BY <1>2, <2>0, <2>2
    <3>2. BitBefore(x, z)
      BY <3>1, <1>3 DEF BitBefore
    <3>3. Same(x, z)
      BY <2>2
    <3> QED
      BY <1>1, <1>2, <3>2, <3>3
  <2>3. ASSUME Same(x, y), NEW m \in K, First(m, y, z) PROVE <<x, z>> \in R
    <3>1. First(m, x, z)
      BY <2>3
    <3> QED
      BY <2>1, <3>1
  <2>4. ASSUME Same(y, z), NEW m \in K, First(m, x, y) PROVE <<x, z>> \in R
    <3>1. First(m, x, z)
      BY <2>4
    <3> QED
      BY <2>1, <3>1
  <2>5. ASSUME NEW m \in K, First(m, x, y), NEW n \in K, First(n, y, z) PROVE <<x, z>> \in R
    <3>1. m \in Nat /\ n \in Nat /\ m # n
      BY <2>5
    <3>2. CASE m < n
      <4>1. V[m][x] /\ ~V[m][z]
        BY <2>5, <3>1, <3>2
      <4>2. \A i \in K : i < m => V[i][x] = V[i][y] /\ V[i][y] = V[i][z]
        BY <2>5, <3>1, <3>2
      <4>3. First(m, x, z)
        BY <4>1, <4>2
      <4> QED
        BY <2>1, <4>3
    <3>3. CASE n < m
      <4>1. V[n][x] /\ ~V[n][z]
        BY <2>5, <3>1, <3>3
      <4>2. \A i \in K : i < n => V[i][x] = V[i][y] /\ V[i][y] = V[i][z]
        BY <2>5, <3>1, <3>3
      <4>3. First(n, x, z)
        BY <4>1, <4>2
      <4> QED
        BY <2>1, <4>3
    <3> QED
      BY <3>1, <3>2, <3>3
  <2> HIDE DEF Same, First
  <2> QED
    BY <1>2, <2>0, <2>2, <2>3, <2>4, <2>5
<1> HIDE DEF R
<1> QED
  BY <1>4, <1>5, <1>6 DEF Orders, R

\* The diffs of D have their bits in B.
AreDiffs(D, B) ==
    /\ B \in SUBSET (Nat \X Nat) /\ IsFiniteSet(B)
    /\ Len(D) \in Nat /\ DOMAIN D = 1..Len(D)
    /\ \A i \in DOMAIN D : \E S \in SUBSET B : D[i].diff \in [S -> BOOLEAN]

LEMMA ValueIs ==
    ASSUME NEW D, NEW B, AreDiffs(D, B)
    PROVE  /\ Occurring(D) \in SUBSET B /\ IsFiniteSet(Occurring(D))
           /\ \A i \in DOMAIN D : \A b \in Occurring(D) : Value(D, i, b) \in BOOLEAN
<1>1. \A i \in DOMAIN D : DOMAIN D[i].diff \subseteq B /\ \A b \in DOMAIN D[i].diff : D[i].diff[b] \in BOOLEAN
  BY DEF AreDiffs
<1>2. Occurring(D) \in SUBSET B
  BY <1>1 DEF Occurring
<1>3. IsFiniteSet(Occurring(D))
  BY <1>2, FS_Subset DEF AreDiffs
<1>4. ASSUME NEW b \in Occurring(D) PROVE Polarity(D, b) \in BOOLEAN
  <2>1. \E j \in DOMAIN D : b \in DOMAIN D[j].diff
    BY DEF Occurring
  <2> DEFINE i == CHOOSE j \in DOMAIN D : b \in DOMAIN D[j].diff
  <2>2. i \in DOMAIN D /\ b \in DOMAIN D[i].diff
    BY <2>1
  <2> HIDE DEF i
  <2>3. D[i].diff[b] \in BOOLEAN
    BY <1>1, <2>2
  <2> QED
    BY <2>3 DEF Polarity, i
<1> QED
  BY <1>2, <1>3, <1>4 DEF Value

LEMMA ValueOrderLists ==
    ASSUME NEW D, NEW B, AreDiffs(D, B)
    PROVE  Lists(ValueOrder(D), Occurring(D))
<1> DEFINE S == Occurring(D)
           K == DOMAIN D
           V == [i \in K |-> [b \in S |-> Value(D, i, b)]]
           R == Lexic(S, K, V)
<1>1. S \in SUBSET (Nat \X Nat) /\ IsFiniteSet(S)
  BY ValueIs DEF AreDiffs
<1>2. K \in SUBSET Nat /\ IsFiniteSet(K)
  <2>1. 1 \in Int /\ Len(D) \in Int
    BY DEF AreDiffs
  <2> QED
    BY <2>1, FS_Interval DEF AreDiffs
<1>3. \A i \in K : \A b \in S : V[i][b] = Value(D, i, b) /\ V[i][b] \in BOOLEAN
  BY ValueIs
<1>4. Orders(R, S)
  <2>1. \A i \in K : \A b \in S : V[i][b] \in BOOLEAN
    BY <1>3
  <2> HIDE DEF S, K, V
  <2> QED
    BY <1>1, <1>2, <2>1, LexicOrders DEF R
<1>5. ASSUME NEW a \in S, NEW b \in S PROVE ValueBefore(D, a, b) <=> LexicBefore(K, V, a, b)
  <2> DEFINE differ == {i \in DOMAIN D : Value(D, i, a) # Value(D, i, b)}
  <2>1. ValueBefore(D, a, b) <=> IF differ = {} THEN BitBefore(a, b) ELSE Value(D, Min(differ), a)
    BY Zenon DEF ValueBefore
  <2>2. differ = {i \in K : V[i][a] # V[i][b]}
    BY <1>3
  <2>3. CASE differ = {}
    <3>1. \A i \in K : V[i][a] = V[i][b]
      BY <2>2, <2>3
    <3>2. ~\E m \in K : V[m][a] /\ ~V[m][b]
      BY <3>1
    <3> HIDE DEF differ, V, K
    <3> QED
      BY <2>1, <2>3, <3>1, <3>2 DEF LexicBefore
  <2>4. CASE differ # {}
    <3> DEFINE m == Min(differ)
    <3>1. differ \in SUBSET Nat /\ IsFiniteSet(differ)
      BY <1>2, FS_Subset
    <3>2. m \in differ /\ \A i \in differ : m <= i
      <4> HIDE DEF differ
      <4> QED
        BY <2>4, <3>1, MinMax
    <3>3. m \in K /\ V[m][a] # V[m][b] /\ V[m][a] = Value(D, m, a)
      BY <3>2, <1>3
    <3>4. \A i \in K : V[i][a] # V[i][b] => m <= i
      <4> HIDE DEF V, m
      <4> QED
        BY <2>2, <3>2
    <3>5. ~\A i \in K : V[i][a] = V[i][b]
      BY <3>3
    <3>6. LexicBefore(K, V, a, b) <=> V[m][a]
      <4>1. ASSUME V[m][a] PROVE LexicBefore(K, V, a, b)
        <5>1. ~V[m][b] /\ m \in K
          BY <4>1, <3>3, <1>3
        <5>2. \A i \in K : i < m => V[i][a] = V[i][b]
          <6> HIDE DEF V, m
          <6> QED
            BY <3>4, <3>3, <1>2
        <5> HIDE DEF V, m, K
        <5> QED
          BY <4>1, <5>1, <5>2 DEF LexicBefore
      <4>2. ASSUME LexicBefore(K, V, a, b) PROVE V[m][a]
        <5> HIDE DEF V, m, K, S
        <5>1. PICK n \in K : V[n][a] /\ ~V[n][b] /\ \A i \in K : i < n => V[i][a] = V[i][b]
          BY <4>2, <3>5 DEF LexicBefore
        <5>2. n = m
          BY <5>1, <3>3, <3>4, <1>2
        <5> QED
          BY <5>1, <5>2
      <4> QED
        BY <4>1, <4>2
    <3> QED
      <4> HIDE DEF m, differ, V
      <4> QED
        BY <2>1, <2>4, <3>3, <3>6 DEF m
  <2> QED
    BY <2>3, <2>4
<1>6. \A x, y \in S : <<x, y>> \in R <=> LexicBefore(K, V, x, y)
  BY Zenon DEF Lexic
<1>7. ValueOrder(D) = Ranks(R, S)
  <2>1. [x \in S |-> {y \in S : ValueBefore(D, y, x)}] = [x \in S |-> {y \in S : <<y, x>> \in R}]
    <3> HIDE DEF V, K, S, R
    <3> QED
      BY <1>5, <1>6
  <2> HIDE DEF R, V, K
  <2> QED
    BY <2>1 DEF ValueOrder, Ranks
<1> QED
  BY <1>1, <1>4, <1>7, RanksList

\* A group of one-hot positions is made of positions.
OneHotStep(D, s, T, X, n) ==
    IF n \in T \/ \E x \in X : \E i \in DOMAIN D : Value(D, i, s[x]) /\ Value(D, i, s[n])
    THEN X ELSE X \cup {n}

LEMMA OneHotIs ==
    ASSUME NEW D, NEW s, Len(s) \in Nat, NEW taken, NEW first \in 1..Len(s)
    PROVE  OneHot(D, s, taken, first) \in SUBSET (1..Len(s))
<1> DEFINE N == Len(s)
           T == taken \cup 1..first
           W == SUBSET (1..N)
           V == [k \in 0..N |-> W]
           G == [k \in 1..N |-> [X \in W |-> OneHotStep(D, s, T, X, k)]]
           Clash(x, y) == \E i \in DOMAIN D : Value(D, i, s[x]) /\ Value(D, i, s[y])
           g[n \in 0..Len(s)] ==
               IF n = 0 THEN {first}
               ELSE IF n \in taken \cup 1..first \/ \E x \in g[n - 1] : Clash(x, n) THEN g[n - 1]
               ELSE g[n - 1] \cup {n}
<1>1. N \in Nat /\ {first} \in V[0]
  OBVIOUS
<1>2. \A k \in 1..N : \A X \in W : OneHotStep(D, s, T, X, k) \in W
  BY DEF OneHotStep
<1>3. OneHot(D, s, taken, first) = g[N]
  BY DEF OneHot
<1> HIDE DEF W
<1>4. \A k \in 1..N : G[k] \in [V[k - 1] -> V[k]]
  BY <1>2
<1>5. \A k \in 1..N : \A X \in V[k - 1] : G[k][X] = OneHotStep(D, s, T, X, k)
  OBVIOUS
<1>6. \A k \in 0..N : V[k] = W
  OBVIOUS
<1> HIDE DEF G, V
<1>7. \E f : f = [k \in 0..N |-> IF k = 0 THEN {first} ELSE OneHotStep(D, s, T, f[k - 1], k)]
  <2>1. PICK f : Iterates(f, N, V, G, {first})
    <3> HIDE DEF N
    <3> QED
      BY <1>1, <1>4, Iterate
  <2> HIDE DEF N
  <2>2. \A k \in 0..N : k # 0 => k \in 1..N /\ k - 1 \in 0..N
    BY <1>1
  <2>3. \A k \in 0..N : k # 0 => G[k][f[k - 1]] = OneHotStep(D, s, T, f[k - 1], k)
    BY <2>1, <2>2, <1>5 DEF Iterates
  <2>4. f = [k \in 0..N |-> IF k = 0 THEN {first} ELSE OneHotStep(D, s, T, f[k - 1], k)]
    BY <2>1, <2>3 DEF Iterates
  <2> QED
    BY <2>4
<1>8. g = [k \in 0..N |-> IF k = 0 THEN {first} ELSE OneHotStep(D, s, T, g[k - 1], k)]
  BY <1>7 DEF OneHotStep
<1> HIDE DEF g
<1>9. \A k \in 0..N : g[k] \in V[k]
  <2>1. g[0] \in V[0]
    BY <1>1, <1>8
  <2>2. \A k \in 1..N : g[k] = OneHotStep(D, s, T, g[k - 1], k)
    <3>1. \A k \in 1..N : k \in 0..N /\ k # 0
      OBVIOUS
    <3> HIDE DEF N, T
    <3> QED
      BY <1>8, <3>1
  <2>3. \A k \in 1..N : g[k - 1] \in V[k - 1] => g[k] = G[k][g[k - 1]]
    BY <2>2, <1>5
  <2> HIDE DEF N
  <2> QED
    BY <2>1, <2>3, <1>1, <1>4, Iterated
<1> QED
  BY <1>1, <1>3, <1>6, <1>9 DEF W

\* Groups are sets of positions.
GroupStep(D, s, F, n) ==
    LET group == OneHot(D, s, UNION F, n)
    IN IF n \notin UNION F /\ Full(D, s, group) THEN F \cup {group} ELSE F

LEMMA MuxGroupsAre ==
    ASSUME NEW D, NEW s, Len(s) \in Nat
    PROVE  MuxGroups(D, s) \in SUBSET SUBSET (1..Len(s))
<1> DEFINE N == Len(s)
           W == SUBSET SUBSET (1..N)
           V == [k \in 0..N |-> W]
           G == [k \in 1..N |-> [F \in W |-> GroupStep(D, s, F, k)]]
           f[n \in 0..Len(s)] ==
               IF n = 0 THEN {}
               ELSE LET taken == UNION f[n - 1]
                        group == OneHot(D, s, taken, n)
                    IN IF n \notin taken /\ Full(D, s, group) THEN f[n - 1] \cup {group}
                       ELSE f[n - 1]
<1>1. N \in Nat /\ {} \in V[0]
  OBVIOUS
<1>2. \A k \in 1..N : \A F \in W : GroupStep(D, s, F, k) \in W
  <2> SUFFICES ASSUME NEW k \in 1..N, NEW F \in W PROVE GroupStep(D, s, F, k) \in W
    OBVIOUS
  <2>1. OneHot(D, s, UNION F, k) \in SUBSET (1..N)
    BY OneHotIs
  <2>2. GroupStep(D, s, F, k) \in {F, F \cup {OneHot(D, s, UNION F, k)}}
    BY DEF GroupStep
  <2> QED
    BY <2>1, <2>2
<1>3. MuxGroups(D, s) = f[N]
  BY DEF MuxGroups
<1> HIDE DEF W
<1>4. \A k \in 1..N : G[k] \in [V[k - 1] -> V[k]]
  BY <1>2
<1>5. \A k \in 1..N : \A F \in V[k - 1] : G[k][F] = GroupStep(D, s, F, k)
  OBVIOUS
<1>6. \A k \in 0..N : V[k] = W
  OBVIOUS
<1> HIDE DEF G, V
<1>7. \E h : h = [k \in 0..N |-> IF k = 0 THEN {} ELSE GroupStep(D, s, h[k - 1], k)]
  <2>1. PICK h : Iterates(h, N, V, G, {})
    <3> HIDE DEF N
    <3> QED
      BY <1>1, <1>4, Iterate
  <2> HIDE DEF N
  <2>2. \A k \in 0..N : k # 0 => k \in 1..N /\ k - 1 \in 0..N
    BY <1>1
  <2>3. \A k \in 0..N : k # 0 => G[k][h[k - 1]] = GroupStep(D, s, h[k - 1], k)
    BY <2>1, <2>2, <1>5 DEF Iterates
  <2>4. h = [k \in 0..N |-> IF k = 0 THEN {} ELSE GroupStep(D, s, h[k - 1], k)]
    BY <2>1, <2>3 DEF Iterates
  <2> QED
    BY <2>4
<1>8. f = [k \in 0..N |-> IF k = 0 THEN {} ELSE GroupStep(D, s, f[k - 1], k)]
  BY <1>7 DEF GroupStep
<1> HIDE DEF f
<1>9. \A k \in 0..N : f[k] \in V[k]
  <2>1. f[0] \in V[0]
    BY <1>1, <1>8
  <2>2. \A k \in 1..N : f[k] = GroupStep(D, s, f[k - 1], k)
    <3>1. \A k \in 1..N : k \in 0..N /\ k # 0
      OBVIOUS
    <3> HIDE DEF N
    <3> QED
      BY <1>8, <3>1
  <2>3. \A k \in 1..N : f[k - 1] \in V[k - 1] => f[k] = G[k][f[k - 1]]
    BY <2>2, <1>5
  <2> HIDE DEF N
  <2> QED
    BY <2>1, <2>3, <1>1, <1>4, Iterated
<1> QED
  BY <1>1, <1>3, <1>6, <1>9 DEF W

LEMMA MuxKeyIs ==
    ASSUME NEW s, NEW n \in Nat, Len(s) \in Nat, NEW groups \in SUBSET SUBSET (1..Len(s))
    PROVE  \E a, b, c \in Int : MuxKey(s, groups, n) = <<a, b, c, n>>
<1>1. CASE \A g \in groups : n \notin g
  <2>1. MuxKey(s, groups, n) = <<3, 0, 0, n>>
    BY <1>1 DEF MuxKey
  <2>2. 3 \in Int /\ 0 \in Int
    OBVIOUS
  <2> QED
    BY <2>1, <2>2
<1>2. CASE \E g \in groups : n \in g
  <2> DEFINE g == CHOOSE x \in groups : n \in x
  <2>1. g \in groups /\ n \in g
    BY <1>2
  <2>2. MuxKey(s, groups, n) =
            IF Cardinality(g) = 1 THEN <<1, 0, 0, n>> ELSE <<2, Len(s) - Cardinality(g), Min(g), n>>
    BY <1>2 DEF MuxKey
  <2> HIDE DEF g
  <2>3. g \in SUBSET Nat /\ IsFiniteSet(g) /\ g # {}
    <3>1. 1 \in Int /\ Len(s) \in Int
      OBVIOUS
    <3>2. g \in SUBSET (1..Len(s))
      BY <2>1
    <3>3. IsFiniteSet(1..Len(s)) /\ 1..Len(s) \subseteq Nat
      BY <3>1, FS_Interval
    <3> QED
      BY <2>1, <3>2, <3>3, FS_Subset
  <2>4. Cardinality(g) \in Nat /\ Min(g) \in Nat
    <3>1. Min(g) \in g
      BY <2>3, MinMax
    <3> QED
      BY <2>3, <3>1, FS_CardinalityType
  <2>5. Len(s) - Cardinality(g) \in Int /\ Min(g) \in Int /\ 0 \in Int /\ 1 \in Int /\ 2 \in Int
    BY <2>4
  <2> QED
    BY <2>2, <2>5
<1> QED
  BY <1>1, <1>2

LEMMA MuxSortedLists ==
    ASSUME NEW S, NEW s, Lists(s, S), NEW groups \in SUBSET SUBSET (1..Len(s))
    PROVE  Lists(MuxSorted(s, groups), S)
<1> DEFINE N == Cardinality(S)
           key == [n \in DOMAIN s |-> MuxKey(s, groups, n)]
           R == {p \in (1..N) \X (1..N) : KeyBefore(key[p[1]], key[p[2]])}
           order == InOrder(DOMAIN s, [n \in DOMAIN s |-> {m \in DOMAIN s : KeyBefore(key[m], key[n])}])
<1>1. N \in Nat /\ DOMAIN s = 1..N /\ s \in Seq(S) /\ Len(s) = N
  BY DEF Lists
<1>2. \A n \in 1..N : \E a, b, c \in Int : key[n] = <<a, b, c, n>>
  BY <1>1, MuxKeyIs
<1>3. MuxSorted(s, groups) = [n \in DOMAIN s |-> s[order[n]]]
  BY Zenon DEF MuxSorted
<1> HIDE DEF key, N
<1>4. \A m, n \in 1..N : <<m, n>> \in R <=> KeyBefore(key[m], key[n])
  OBVIOUS
<1>5. \A n \in 1..N : n \in Nat /\ key[n][4] = n /\ key[n][1] \in Int /\ key[n][2] \in Int /\ key[n][3] \in Int
  BY <1>1, <1>2
<1>6. \A m, n \in 1..N : KeyBefore(key[m], key[n]) <=>
          \/ key[m][1] < key[n][1]
          \/ key[m][1] = key[n][1] /\ key[m][2] < key[n][2]
          \/ key[m][1] = key[n][1] /\ key[m][2] = key[n][2] /\ key[m][3] < key[n][3]
          \/ key[m][1] = key[n][1] /\ key[m][2] = key[n][2] /\ key[m][3] = key[n][3] /\ m < n
  <2>1. 1..4 = {1, 2, 3, 4} /\ 1..(1 - 1) = {} /\ 1..(2 - 1) = {1} /\ 1..(3 - 1) = {1, 2} /\ 1..(4 - 1) = {1, 2, 3}
    OBVIOUS
  <2> QED
    BY <2>1, <1>5 DEF KeyBefore
<1>7. Orders(R, 1..N)
  <2> HIDE DEF R
  <2>1. \A n \in 1..N : ~KeyBefore(key[n], key[n])
    BY <1>5, <1>6
  <2>2. \A m, n \in 1..N : m # n => KeyBefore(key[m], key[n]) \/ KeyBefore(key[n], key[m])
    BY <1>5, <1>6
  <2>3. ASSUME NEW m \in 1..N, NEW n \in 1..N, NEW k \in 1..N,
               KeyBefore(key[m], key[n]), KeyBefore(key[n], key[k])
        PROVE  KeyBefore(key[m], key[k])
    <3> DEFINE m1 == key[m][1]  n1 == key[n][1]  k1 == key[k][1]
               m2 == key[m][2]  n2 == key[n][2]  k2 == key[k][2]
               m3 == key[m][3]  n3 == key[n][3]  k3 == key[k][3]
    <3>1. /\ m \in Nat /\ m1 \in Int /\ m2 \in Int /\ m3 \in Int
          /\ n \in Nat /\ n1 \in Int /\ n2 \in Int /\ n3 \in Int
          /\ k \in Nat /\ k1 \in Int /\ k2 \in Int /\ k3 \in Int
      BY Zenon, <1>5
    <3>2. \/ m1 < n1 \/ (m1 = n1 /\ m2 < n2) \/ (m1 = n1 /\ m2 = n2 /\ m3 < n3)
          \/ (m1 = n1 /\ m2 = n2 /\ m3 = n3 /\ m < n)
      BY <1>6, <2>3
    <3>3. \/ n1 < k1 \/ (n1 = k1 /\ n2 < k2) \/ (n1 = k1 /\ n2 = k2 /\ n3 < k3)
          \/ (n1 = k1 /\ n2 = k2 /\ n3 = k3 /\ n < k)
      BY <1>6, <2>3
    <3>4. KeyBefore(key[m], key[k]) <=>
          \/ m1 < k1 \/ (m1 = k1 /\ m2 < k2) \/ (m1 = k1 /\ m2 = k2 /\ m3 < k3)
          \/ (m1 = k1 /\ m2 = k2 /\ m3 = k3 /\ m < k)
      BY <1>6
    <3> HIDE DEF m1, n1, k1, m2, n2, k2, m3, n3, k3
    <3> QED
      BY <3>1, <3>2, <3>3, <3>4
  <2> QED
    BY <1>4, <2>1, <2>2, <2>3 DEF Orders
<1>8. order = Ranks(R, 1..N)
  <2>1. [n \in 1..N |-> {m \in 1..N : KeyBefore(key[m], key[n])}] = [n \in 1..N |-> {m \in 1..N : <<m, n>> \in R}]
    BY <1>4
  <2> HIDE DEF R
  <2> QED
    BY <1>1, <2>1 DEF Ranks
<1>9. Lists(order, 1..N)
  <2>1. 1 \in Int /\ N \in Int
    BY <1>1
  <2>2. IsFiniteSet(1..N)
    BY <2>1, FS_Interval
  <2> HIDE DEF order, R
  <2> QED
    BY <2>2, <1>7, <1>8, RanksList
<1>10. Cardinality(1..N) = N
  <2>1. 1 \in Int /\ N \in Int
    BY <1>1
  <2> QED
    BY <1>1, <2>1, FS_Interval
<1> HIDE DEF order
<1>11. /\ \A n \in 1..N : order[n] \in 1..N
       /\ \A n \in 1..N : \E m \in 1..N : order[m] = n
  BY <1>9, <1>10 DEF Lists
<1>12. ASSUME NEW x \in S PROVE \E n \in 1..N : s[order[n]] = x
  <2>1. PICK k \in 1..N : s[k] = x
    BY DEF Lists, N
  <2>2. PICK n \in 1..N : order[n] = k
    BY <1>11
  <2> QED
    BY <2>1, <2>2
<1>13. MuxSorted(s, groups) \in [1..N -> S]
  BY <1>1, <1>3, <1>11
<1> QED
  BY <1>1, <1>3, <1>12, <1>13 DEF Lists, N

\* Whatever the mode, an item has all the bits that occur.
LEMMA MuxOrderLists ==
    ASSUME NEW D, NEW B, AreDiffs(D, B)
    PROVE  Lists(MuxOrder(D), Occurring(D))
<1> DEFINE s == ValueOrder(D)
<1>1. Lists(s, Occurring(D))
  BY ValueOrderLists
<1>2. MuxOrder(D) = MuxSorted(s, MuxGroups(D, s))
  BY DEF MuxOrder
<1> HIDE DEF s
<1>3. Len(s) \in Nat
  BY <1>1 DEF Lists
<1> QED
  BY <1>1, <1>2, <1>3, MuxGroupsAre, MuxSortedLists

-----------------------------------------------------------------------------
(* Enumerations.                                                           *)

\* The difference that the configuration w makes.
Change(base, w) == {b \in DOMAIN base : w[b] # base[b]}
Puts(base, w) == [b \in Change(base, w) |-> w[b]]

Words(base) == [DOMAIN base -> BOOLEAN]

\* The diffs of D are those of the configurations W.
Worded(D, W, base) ==
    /\ base \in Words(base) /\ DOMAIN base \in SUBSET (Nat \X Nat) /\ IsFiniteSet(DOMAIN base)
    /\ Len(D) \in Nat /\ DOMAIN D = 1..Len(D)
    /\ W \in [DOMAIN D -> Words(base)]
    /\ \A i \in DOMAIN D : D[i].diff = Puts(base, W[i])

\* What is taken for the value of a bit in a diff is what the configuration has there.
LEMMA WordedAre ==
    ASSUME NEW D, NEW W, NEW base, Worded(D, W, base)
    PROVE  /\ AreDiffs(D, DOMAIN base)
           /\ Occurring(D) = {b \in DOMAIN base : \E i \in DOMAIN D : W[i][b] # base[b]}
           /\ \A i \in DOMAIN D : \A b \in Occurring(D) : Value(D, i, b) = W[i][b]
<1> DEFINE B == DOMAIN base
<1>1. \A i \in DOMAIN D :
          /\ DOMAIN D[i].diff = {c \in B : W[i][c] # base[c]}
          /\ \A b \in DOMAIN D[i].diff : D[i].diff[b] = W[i][b]
  BY DEF Worded, Puts, Change
<1>2. \A i \in DOMAIN D : \A b \in B : W[i][b] \in BOOLEAN /\ base[b] \in BOOLEAN
  BY DEF Worded, Words
<1>3. AreDiffs(D, B)
  <2>1. ASSUME NEW i \in DOMAIN D PROVE \E S \in SUBSET B : D[i].diff \in [S -> BOOLEAN]
    <3> DEFINE S == {c \in B : W[i][c] # base[c]}
    <3>1. D[i].diff \in [S -> BOOLEAN]
      BY <1>2, <2>1 DEF Worded, Puts, Change
    <3>2. S \in SUBSET B
      OBVIOUS
    <3> QED
      BY <3>1, <3>2
  <2> QED
    BY <2>1 DEF AreDiffs, Worded
<1>4. Occurring(D) = {b \in B : \E i \in DOMAIN D : W[i][b] # base[b]}
  BY <1>1 DEF Occurring
<1>5. ASSUME NEW b \in Occurring(D) PROVE Polarity(D, b) = ~base[b]
  <2> DEFINE i == CHOOSE j \in DOMAIN D : b \in DOMAIN D[j].diff
  <2>1. i \in DOMAIN D /\ b \in DOMAIN D[i].diff
    BY DEF Occurring
  <2>2. Polarity(D, b) = D[i].diff[b]
    BY DEF Polarity
  <2> HIDE DEF i
  <2>3. D[i].diff[b] = W[i][b] /\ W[i][b] # base[b] /\ b \in B
    BY <1>1, <2>1
  <2> QED
    BY <1>2, <2>1, <2>2, <2>3
<1>6. ASSUME NEW i \in DOMAIN D, NEW b \in Occurring(D) PROVE Value(D, i, b) = W[i][b]
  <2>1. b \in B /\ W[i][b] \in BOOLEAN /\ base[b] \in BOOLEAN
    BY <1>2, <1>4
  <2>2. b \in DOMAIN D[i].diff <=> W[i][b] # base[b]
    BY <1>1, <2>1
  <2>3. Value(D, i, b) = IF W[i][b] # base[b] THEN ~base[b] ELSE ~ ~base[b]
    BY <1>5, <2>2 DEF Value
  <2> QED
    BY <2>1, <2>3
<1> QED
  BY <1>3, <1>4, <1>6

\* What the words of an item made of such diffs are.
Spells(item, D, W) ==
    /\ "values" \in DOMAIN item /\ \E n \in Nat : DOMAIN item.bits = 1..n
    /\ BitSet(item) = Occurring(D)
    /\ DOMAIN item.values = {D[i].val : i \in DOMAIN D}
    /\ \A i \in DOMAIN D : item.values[D[i].val] = [n \in DOMAIN item.bits |-> W[i][item.bits[n]]]

LEMMA ItemInSpells ==
    ASSUME NEW D, NEW W, NEW base, Worded(D, W, base), NEW order, Lists(order, Occurring(D)),
           NEW item \in ItemIn(D, order)
    PROVE  Spells(item, D, W)
<1> DEFINE Word(i) == [n \in DOMAIN order |-> Value(D, i, order[n])]
           Of(v) == CHOOSE i \in DOMAIN D : D[i].val = v
           values == [v \in {D[i].val : i \in DOMAIN D} |-> Word(Of(v))]
<1>1. item = [bits |-> order, values |-> values] /\ \A i, j \in DOMAIN D : D[i].val = D[j].val => Word(i) = Word(j)
  BY DEF ItemIn
<1>2. item.bits = order /\ item.values = values /\ "values" \in DOMAIN item
  BY <1>1
<1>3. \A n \in DOMAIN order : order[n] \in Occurring(D)
  BY DEF Lists
<1>4. \A i \in DOMAIN D : Word(i) = [n \in DOMAIN order |-> W[i][order[n]]]
  BY <1>3, WordedAre
<1>5. ASSUME NEW i \in DOMAIN D PROVE values[D[i].val] = Word(i)
  <2>1. Of(D[i].val) \in DOMAIN D /\ D[Of(D[i].val)].val = D[i].val
    BY <1>5
  <2>2. values[D[i].val] = Word(Of(D[i].val))
    BY <1>5
  <2> HIDE DEF Word, Of, values
  <2> QED
    BY <1>1, <2>1, <2>2, <1>5
<1>6. BitSet(item) = Occurring(D)
  BY <1>2 DEF BitSet, Lists
<1>7. \E n \in Nat : DOMAIN order = 1..n
  BY DEF Lists
<1>8. DOMAIN values = {D[i].val : i \in DOMAIN D}
  OBVIOUS
<1> HIDE DEF values, Word
<1> QED
  BY <1>1, <1>2, <1>4, <1>5, <1>6, <1>7, <1>8 DEF Spells

\* Whatever the order of its bits.
LEMMA EnumSpells ==
    ASSUME NEW D, NEW W, NEW base, Worded(D, W, base), NEW mode, NEW item \in xlat_enum_ocd(D, mode)
    PROVE  Spells(item, D, W)
<1>1. AreDiffs(D, DOMAIN base)
  BY WordedAre
<1>2. Occurring(D) \in SUBSET (Nat \X Nat) /\ IsFiniteSet(Occurring(D))
  BY <1>1, ValueIs DEF AreDiffs
<1>3. /\ Lists(MuxOrder(D), Occurring(D))
      /\ Lists(ValueOrder(D), Occurring(D))
      /\ Lists(Sorted(Occurring(D)), Occurring(D))
  BY <1>1, <1>2, MuxOrderLists, ValueOrderLists, SortedLists
<1>4. PICK order \in {MuxOrder(D), ValueOrder(D), Sorted(Occurring(D))} : item \in ItemIn(D, order)
  BY DEF xlat_enum_ocd
<1> QED
  BY <1>3, <1>4, ItemInSpells

\* Diffs of configurations always make an item, if a value has one configuration.
LEMMA EnumSucceeds ==
    ASSUME NEW D, NEW W, NEW base, Worded(D, W, base), NEW mode,
           \A i, j \in DOMAIN D : D[i].val = D[j].val => W[i] = W[j]
    PROVE  xlat_enum_ocd(D, mode) # {}
<1> DEFINE order == CASE mode = "mux" -> MuxOrder(D)
                      [] mode = "value" -> ValueOrder(D)
                      [] OTHER -> Sorted(Occurring(D))
<1>1. \A i \in DOMAIN D :
          D[i].diff = Puts(base, W[i]) /\ \A b \in DOMAIN D[i].diff : b \in DOMAIN base /\ D[i].diff[b] = W[i][b] /\ W[i][b] # base[b]
  BY DEF Worded, Puts, Change
<1>2. \A i \in DOMAIN D : \A b \in DOMAIN base : W[i][b] \in BOOLEAN /\ base[b] \in BOOLEAN
  BY DEF Worded, Words
<1>3. OnePolarity(D)
  <2> SUFFICES ASSUME NEW i \in DOMAIN D, NEW j \in DOMAIN D, NEW b \in DOMAIN D[i].diff \cap DOMAIN D[j].diff
               PROVE  D[i].diff[b] = D[j].diff[b]
    BY DEF OnePolarity
  <2>1. /\ b \in DOMAIN base /\ D[i].diff[b] = W[i][b] /\ D[j].diff[b] = W[j][b]
        /\ W[i][b] # base[b] /\ W[j][b] # base[b]
    BY <1>1
  <2> QED
    BY <2>1, <1>2
<1>4. \A i, j \in DOMAIN D : D[i].val = D[j].val =>
          [n \in DOMAIN order |-> Value(D, i, order[n])] = [n \in DOMAIN order |-> Value(D, j, order[n])]
  <2> SUFFICES ASSUME NEW i \in DOMAIN D, NEW j \in DOMAIN D, D[i].val = D[j].val
               PROVE  \A b : Value(D, i, b) = Value(D, j, b)
    <3> HIDE DEF order
    <3> QED
      OBVIOUS
  <2>1. D[i].diff = D[j].diff
    BY <1>1
  <2> QED
    BY <2>1 DEF Value
<1> HIDE DEF order
<1>5. ItemIn(D, order) # {}
  BY <1>3, <1>4 DEF ItemIn
<1> QED
  BY <1>5 DEF xlat_enum_ocd, order

\* What an item says of the configuration w: its bits are as x says, the others as in base.
Shows(item, base, w, x) ==
    /\ \A n \in DOMAIN item.bits : w[item.bits[n]] = x[n]
    /\ \A b \in DOMAIN base : b \notin BitSet(item) => w[b] = base[b]

LEMMA SpellsShows ==
    ASSUME NEW D, NEW W, NEW base, Worded(D, W, base), NEW item, Spells(item, D, W), NEW i \in DOMAIN D
    PROVE  Shows(item, base, W[i], item.values[D[i].val])
<1>1. \A b \in DOMAIN base : W[i][b] # base[b] => b \in BitSet(item)
  BY WordedAre DEF Spells
<1>2. \A n \in DOMAIN item.bits : W[i][item.bits[n]] = item.values[D[i].val][n]
  BY DEF Spells
<1> QED
  BY <1>1, <1>2 DEF Shows

\* An entry of the database for an enumeration: C has the configurations of its values,
\* `on` the bits of it that are on in base.
Entry(item, C, base, on) ==
    /\ "values" \in DOMAIN item /\ \E n \in Nat : DOMAIN item.bits = 1..n
    /\ BitSet(item) \subseteq DOMAIN base
    /\ on = {b \in BitSet(item) : base[b]}
    /\ DOMAIN item.values \subseteq DOMAIN C
    /\ \A v \in DOMAIN item.values :
          /\ item.values[v] = [n \in DOMAIN item.bits |-> C[v][item.bits[n]]]
          /\ \A b \in DOMAIN base : b \notin BitSet(item) => C[v][b] = base[b]

WordOff(item, v, x) == WordAt(item, v, x, FALSE)

\* A bit the item does not have is off, unless it is one of those that all entries have.
LEMMA WordAtIs ==
    ASSUME NEW item, NEW C, NEW base, NEW on, Entry(item, C, base, on), base \in Words(base)
    PROVE  \A v \in DOMAIN item.values : \A x \in DOMAIN base :
               (base[x] => x \in on) => WordOff(item, v, x) = C[v][x]
<1> SUFFICES ASSUME NEW v \in DOMAIN item.values, NEW x \in DOMAIN base, base[x] => x \in on
             PROVE  WordOff(item, v, x) = C[v][x]
  OBVIOUS
<1>1. CASE x \in BitSet(item)
  <2> DEFINE k == CHOOSE n \in DOMAIN item.bits : item.bits[n] = x
  <2>1. k \in DOMAIN item.bits /\ item.bits[k] = x
    BY <1>1 DEF BitSet
  <2>2. WordOff(item, v, x) = item.values[v][k]
    BY <1>1 DEF WordAt, WordOff
  <2> HIDE DEF k
  <2>3. item.values[v] = [n \in DOMAIN item.bits |-> C[v][item.bits[n]]]
    BY DEF Entry
  <2> QED
    BY <2>1, <2>2, <2>3
<1>2. CASE x \notin BitSet(item)
  <2>1. C[v][x] = base[x] /\ base[x] \in BOOLEAN /\ ~base[x]
    BY <1>2 DEF Entry, Words
  <2>2. WordOff(item, v, x) = FALSE
    BY <1>2 DEF WordAt, WordOff
  <2> QED
    BY <2>1, <2>2
<1> QED
  BY <1>1, <1>2

\* The bits of two entries in their order, and what the values of an entry are there.
LEMMA MergedBits ==
    ASSUME NEW C, NEW base, DOMAIN base \in SUBSET (Nat \X Nat), IsFiniteSet(DOMAIN base), NEW on,
           NEW a, Entry(a, C, base, on), NEW b, Entry(b, C, base, on)
    PROVE  LET S == BitSet(a) \cup BitSet(b)
               order == Sorted(S)
           IN /\ S \in SUBSET DOMAIN base /\ Lists(order, S)
              /\ \A n \in DOMAIN order : order[n] \in DOMAIN base /\ (base[order[n]] => order[n] \in on)
<1> DEFINE S == BitSet(a) \cup BitSet(b)
           order == Sorted(S)
<1>1. S \in SUBSET DOMAIN base /\ S \in SUBSET (Nat \X Nat) /\ IsFiniteSet(S)
  <2>1. S \in SUBSET DOMAIN base
    BY DEF Entry
  <2> HIDE DEF S
  <2> QED
    BY <2>1, FS_Subset
<1>2. Lists(order, S)
  <2> HIDE DEF S
  <2> QED
    BY <1>1, SortedLists
<1>3. \A n \in DOMAIN order : order[n] \in DOMAIN base /\ (base[order[n]] => order[n] \in on)
  <2>1. \A n \in DOMAIN order : order[n] \in S
    <3> HIDE DEF S, order
    <3> QED
      BY <1>2 DEF Lists
  <2>2. \A x \in S : base[x] => x \in on
    BY DEF Entry
  <2> HIDE DEF S, order
  <2> QED
    BY <1>1, <2>1, <2>2
<1> QED
  BY <1>1, <1>2, <1>3

LEMMA SpreadIs ==
    ASSUME NEW C, NEW base, base \in Words(base), NEW on, NEW a, Entry(a, C, base, on), NEW order,
           \A n \in DOMAIN order : order[n] \in DOMAIN base /\ (base[order[n]] => order[n] \in on),
           NEW v \in DOMAIN a.values
    PROVE  [n \in DOMAIN order |-> WordOff(a, v, order[n])] = [n \in DOMAIN order |-> C[v][order[n]]]
<1>1. ASSUME NEW n \in DOMAIN order PROVE WordOff(a, v, order[n]) = C[v][order[n]]
  <2> DEFINE x == order[n]
  <2>1. x \in DOMAIN base /\ (base[x] => x \in on)
    BY <1>1
  <2> HIDE DEF x
  <2>2. WordOff(a, v, x) = C[v][x]
    BY <2>1, WordAtIs
  <2> QED
    BY <2>2 DEF x
<1> QED
  BY <1>1

\* Two entries make one, if the bits that are on in base are the same in both.
LEMMA MergeEntry ==
    ASSUME NEW C, NEW base, base \in Words(base), DOMAIN base \in SUBSET (Nat \X Nat),
           IsFiniteSet(DOMAIN base), NEW on,
           NEW a, Entry(a, C, base, on), NEW b, Entry(b, C, base, on), NEW c \in merge(a, b, FALSE)
    PROVE  Entry(c, C, base, on)
<1>1. CASE a = b
  BY <1>1 DEF merge
<1>2. CASE a # b
  <2> DEFINE S == BitSet(a) \cup BitSet(b)
             order == Sorted(S)
             Spread(i, v) == [n \in DOMAIN order |-> WordOff(i, v, order[n])]
             values == [v \in DOMAIN a.values \cup DOMAIN b.values |->
                           IF v \in DOMAIN a.values THEN Spread(a, v) ELSE Spread(b, v)]
  <2>1. c = [bits |-> order, values |-> values]
    BY <1>2 DEF merge, WordOff
  <2>2. S \in SUBSET DOMAIN base /\ Lists(order, S)
    BY MergedBits
  <2>4. \A n \in DOMAIN order : order[n] \in DOMAIN base /\ (base[order[n]] => order[n] \in on)
    BY MergedBits
  <2>5. \A v \in DOMAIN a.values : Spread(a, v) = [n \in DOMAIN order |-> C[v][order[n]]]
    <3> HIDE DEF order
    <3> QED
      BY <2>4, SpreadIs
  <2>6. \A v \in DOMAIN b.values : Spread(b, v) = [n \in DOMAIN order |-> C[v][order[n]]]
    <3> HIDE DEF order
    <3> QED
      BY <2>4, SpreadIs
  <2>7. c.bits = order /\ c.values = values /\ "values" \in DOMAIN c
    BY <2>1
  <2>8. BitSet(c) = S
    <3> HIDE DEF S, order
    <3> QED
      BY <2>2, <2>7 DEF BitSet, Lists
  <2>9. \E n \in Nat : DOMAIN order = 1..n
    <3> HIDE DEF S, order
    <3> QED
      BY <2>2 DEF Lists
  <2>10. on = {x \in S : base[x]}
    BY DEF Entry
  <2>11. DOMAIN values = DOMAIN a.values \cup DOMAIN b.values /\ DOMAIN values \subseteq DOMAIN C
    BY DEF Entry
  <2>12. \A v \in DOMAIN values : values[v] = [n \in DOMAIN order |-> C[v][order[n]]]
    <3> HIDE DEF Spread, order
    <3> QED
      BY <2>5, <2>6
  <2>13. \A v \in DOMAIN values : \A x \in DOMAIN base : x \notin S => C[v][x] = base[x]
    BY <2>11 DEF Entry
  <2> HIDE DEF order, values, S
  <2>14. \A v \in DOMAIN c.values :
            /\ c.values[v] = [n \in DOMAIN c.bits |-> C[v][c.bits[n]]]
            /\ \A x \in DOMAIN base : x \notin BitSet(c) => C[v][x] = base[x]
    BY <2>7, <2>8, <2>12, <2>13
  <2>15. "values" \in DOMAIN c /\ (\E n \in Nat : DOMAIN c.bits = 1..n) /\ DOMAIN c.values \subseteq DOMAIN C
    BY <2>7, <2>9, <2>11
  <2>16. BitSet(c) \subseteq DOMAIN base /\ on = {x \in BitSet(c) : base[x]}
    BY <2>2, <2>8, <2>10
  <2> QED
    BY <2>14, <2>15, <2>16 DEF Entry
<1> QED
  BY <1>1, <1>2

\* The database never refuses the second.
LEMMA MergeSucceeds ==
    ASSUME NEW C, NEW base, base \in Words(base), DOMAIN base \in SUBSET (Nat \X Nat),
           IsFiniteSet(DOMAIN base), NEW on,
           NEW a, Entry(a, C, base, on), NEW b, Entry(b, C, base, on)
    PROVE  merge(a, b, FALSE) # {}
<1> DEFINE order == Sorted(BitSet(a) \cup BitSet(b))
           Spread(i, v) == [n \in DOMAIN order |-> WordOff(i, v, order[n])]
<1>1. \A n \in DOMAIN order : order[n] \in DOMAIN base /\ (base[order[n]] => order[n] \in on)
  BY MergedBits
<1>2. \A v \in DOMAIN a.values \cap DOMAIN b.values : Spread(a, v) = Spread(b, v)
  <2> HIDE DEF order
  <2>1. ASSUME NEW v \in DOMAIN a.values \cap DOMAIN b.values PROVE Spread(a, v) = Spread(b, v)
    <3>1. Spread(a, v) = [n \in DOMAIN order |-> C[v][order[n]]]
      BY <1>1, SpreadIs
    <3>2. Spread(b, v) = [n \in DOMAIN order |-> C[v][order[n]]]
      BY <1>1, SpreadIs
    <3> QED
      BY <3>1, <3>2
  <2> QED
    BY <2>1
<1>3. "values" \in DOMAIN a
  BY DEF Entry
<1> QED
  BY <1>2, <1>3 DEF merge, WordOff

\* What is no enumeration must be the same.
LEMMA MergeSame ==
    ASSUME NEW a, NEW b, "values" \notin DOMAIN a, NEW c \in merge(a, b, FALSE)
    PROVE  c = a
  BY DEF merge

-----------------------------------------------------------------------------
(* Bit vectors.                                                            *)

Vectorial(item) ==
    /\ "values" \notin DOMAIN item
    /\ DOMAIN item.invert = DOMAIN item.bits

\* The n-th bit is the one that w changes, inverted as it is in base.
Element(item, n, base, w) ==
    /\ Change(base, w) = {item.bits[n]}
    /\ item.invert[n] = base[item.bits[n]]

\* The diffs of a vector: each has a bit of its own, inverted as it is in base.
LEMMA BitvecIs ==
    ASSUME NEW base, base \in Words(base), IsFiniteSet(DOMAIN base), NEW diffs, NEW W,
           \A n \in DOMAIN diffs : W[n] \in Words(base) /\ diffs[n] = Puts(base, W[n]),
           NEW item \in xlat_bitvec(diffs)
    PROVE  /\ Vectorial(item) /\ DOMAIN item.bits = DOMAIN diffs
           /\ \A n \in DOMAIN diffs : Element(item, n, base, W[n])
<1> DEFINE bit(n) == CHOOSE b \in DOMAIN diffs[n] : TRUE
           bits == [n \in DOMAIN diffs |-> bit(n)]
           invert == [n \in DOMAIN diffs |-> ~diffs[n][bit(n)]]
<1>1. item = [bits |-> bits, invert |-> invert] /\ \A n \in DOMAIN diffs : Cardinality(DOMAIN diffs[n]) = 1
  BY DEF xlat_bitvec
<1>2. item.bits = bits /\ item.invert = invert /\ Vectorial(item) /\ DOMAIN bits = DOMAIN diffs
  BY <1>1 DEF Vectorial
<1>3. ASSUME NEW n \in DOMAIN diffs
      PROVE  /\ Change(base, W[n]) = {bits[n]}
             /\ invert[n] = base[bits[n]]
  <2> DEFINE S == Change(base, W[n])
  <2>1. DOMAIN diffs[n] = S /\ \A b \in S : diffs[n][b] = W[n][b]
    BY DEF Puts
  <2>2. bits[n] = bit(n) /\ invert[n] \in BOOLEAN /\ invert[n] = ~diffs[n][bit(n)]
    OBVIOUS
  <2>3. \E b : S = {b}
    <3>1. Cardinality(S) = 1
      BY <1>1, <2>1
    <3>2. IsFiniteSet(S)
      BY FS_Subset DEF Change
    <3> QED
      BY <3>1, <3>2, FS_Singleton
  <2>4. S = {bit(n)}
    <3> HIDE DEF S
    <3> QED
      BY <2>1, <2>3
  <2> HIDE DEF bit, bits, invert
  <2>5. W[n][bit(n)] # base[bit(n)] /\ bit(n) \in DOMAIN base
    BY <2>4 DEF Change
  <2>6. W[n][bit(n)] \in BOOLEAN /\ base[bit(n)] \in BOOLEAN
    BY <2>5 DEF Words
  <2>7. diffs[n][bit(n)] = W[n][bit(n)]
    BY <2>1, <2>4
  <2>8. (~W[n][bit(n)]) = base[bit(n)]
    BY <2>5, <2>6
  <2> QED
    BY <2>2, <2>4, <2>6, <2>7, <2>8
<1> HIDE DEF bits, invert
<1>4. \A n \in DOMAIN diffs : Element(item, n, base, W[n])
  BY <1>2, <1>3 DEF Element
<1> QED
  BY <1>2, <1>4

\* What a boolean item says of two configurations, the one that is off and the one that is on.
Switches(item, base, off, on) ==
    /\ \A n \in DOMAIN item.bits :
          item.bits[n] \in DOMAIN base /\ off[item.bits[n]] = item.invert[n] /\ on[item.bits[n]] = ~item.invert[n]
    /\ \A b \in DOMAIN base : b \notin BitSet(item) => off[b] = base[b] /\ on[b] = base[b]

LEMMA BoolIs ==
    ASSUME NEW base, base \in Words(base), IsFiniteSet(DOMAIN base),
           NEW off \in Words(base), NEW on \in Words(base),
           NEW item \in xlat_bool(Puts(base, off), Puts(base, on))
    PROVE  Vectorial(item) /\ Switches(item, base, off, on)
<1> DEFINE diffs == <<Puts(off, on)>>
<1>1. DOMAIN off = DOMAIN base /\ DOMAIN on = DOMAIN base
  BY DEF Words
<1>2. \A w \in Words(base) : Puts(base, w) = NoBits => w = base
  <2> SUFFICES ASSUME NEW w \in Words(base), Puts(base, w) = NoBits PROVE w = base
    OBVIOUS
  <2>1. DOMAIN Puts(base, w) = {b \in DOMAIN base : w[b] # base[b]}
    BY DEF Puts, Change
  <2>2. \A b \in DOMAIN base : w[b] = base[b]
    BY <2>1 DEF NoBits
  <2> QED
    BY <2>2 DEF Words
<1>3. (off = base \/ on = base) /\ item \in xlat_bitvec(diffs)
  <2>1. CASE Puts(base, off) = NoBits
    BY <2>1, <1>2 DEF xlat_bool
  <2>2. CASE Puts(base, off) # NoBits
    <3>1. on = base /\ item \in xlat_bitvec(<<Flipped(Puts(base, off))>>)
      BY <2>2, <1>2 DEF xlat_bool
    <3>2. Flipped(Puts(base, off)) = Puts(off, base)
      <4> DEFINE p == Puts(base, off)
                 S == Change(base, off)
      <4>1. S = Change(off, base)
        BY <1>1 DEF Change
      <4>2. DOMAIN p = S /\ \A b \in S : p[b] = off[b]
        BY DEF Puts
      <4>3. \A b \in S : (~off[b]) = base[b] /\ base[b] \in BOOLEAN
        BY DEF Words, Change
      <4>4. \A b \in S : (~p[b]) = base[b] /\ base[b] \in BOOLEAN
        BY <4>2, <4>3
      <4>5. Puts(off, base) = [b \in S |-> base[b]]
        BY <4>1 DEF Puts
      <4> HIDE DEF p, S
      <4>6. Flipped(p) = [b \in S |-> base[b]]
        <5>1. \A b \in S : (~p[b]) = base[b]
          BY Zenon, <4>4
        <5>2. Flipped(p) = [b \in S |-> ~p[b]]
          BY <4>2 DEF Flipped
        <5> QED
          BY Zenon, <5>1, <5>2
      <4> QED
        BY <4>5, <4>6 DEF p
    <3> QED
      BY <3>1, <3>2
  <2> QED
    BY <2>1, <2>2
<1>4. Vectorial(item) /\ DOMAIN item.bits = {1} /\ Element(item, 1, off, on)
  <2> DEFINE W == <<on>>
  <2>1. off \in Words(off) /\ IsFiniteSet(DOMAIN off)
    BY <1>1 DEF Words
  <2>2. DOMAIN diffs = {1} /\ \A n \in DOMAIN diffs : W[n] \in Words(off) /\ diffs[n] = Puts(off, W[n])
    BY <1>1 DEF Words
  <2>3. W[1] = on
    OBVIOUS
  <2> HIDE DEF diffs, W
  <2>4. /\ Vectorial(item) /\ DOMAIN item.bits = DOMAIN diffs
        /\ \A n \in DOMAIN diffs : Element(item, n, off, W[n])
    BY <1>3, <2>1, <2>2, BitvecIs
  <2> QED
    BY <2>2, <2>3, <2>4
<1>5. BitSet(item) = {item.bits[1]}
  BY <1>4 DEF BitSet
<1>6. \A b \in DOMAIN base : off[b] \in BOOLEAN /\ on[b] \in BOOLEAN
  BY DEF Words
<1>7. item.bits[1] \in DOMAIN base /\ on[item.bits[1]] = ~item.invert[1] /\ off[item.bits[1]] = item.invert[1]
  <2> DEFINE b == item.bits[1]
  <2>1. b \in DOMAIN base /\ on[b] # off[b]
    BY <1>1, <1>4 DEF Change, Element
  <2> HIDE DEF b
  <2>2. off[b] \in BOOLEAN /\ on[b] \in BOOLEAN /\ item.invert[1] = off[b]
    BY <2>1, <1>4, <1>6 DEF b, Element
  <2> QED
    BY <2>1, <2>2 DEF b
<1>8. \A b \in DOMAIN base : b \notin BitSet(item) => off[b] = base[b] /\ on[b] = base[b]
  BY <1>1, <1>3, <1>4, <1>5 DEF Change, Element
<1> QED
  BY <1>4, <1>7, <1>8 DEF Switches

\* The two diffs of a boolean.
Pair(off, on) == <<[val |-> 0, diff |-> off], [val |-> 1, diff |-> on]>>

LEMMA PairIs ==
    ASSUME NEW base, base \in Words(base), DOMAIN base \in SUBSET (Nat \X Nat), IsFiniteSet(DOMAIN base),
           NEW off \in Words(base), NEW on \in Words(base)
    PROVE  LET D == Pair(Puts(base, off), Puts(base, on))
               W == <<off, on>>
           IN /\ Worded(D, W, base) /\ DOMAIN D = {1, 2}
              /\ W[1] = off /\ W[2] = on /\ D[1].val = 0 /\ D[2].val = 1
<1> DEFINE D == Pair(Puts(base, off), Puts(base, on))
           W == <<off, on>>
<1>1. DOMAIN D = 1..2 /\ Len(D) = 2 /\ 1..2 = {1, 2} /\ D[1].val = 0 /\ D[2].val = 1
  BY DEF Pair
<1>2. W \in [1..2 -> Words(base)] /\ W[1] = off /\ W[2] = on
  OBVIOUS
<1>3. D[1].diff = Puts(base, W[1]) /\ D[2].diff = Puts(base, W[2])
  BY DEF Pair
<1> HIDE DEF D, W
<1>4. Worded(D, W, base)
  BY <1>1, <1>2, <1>3 DEF Worded
<1> QED
  BY <1>1, <1>2, <1>4 DEF D, W

LEMMA MixedIs ==
    ASSUME NEW base, base \in Words(base), DOMAIN base \in SUBSET (Nat \X Nat), IsFiniteSet(DOMAIN base),
           NEW off \in Words(base), NEW on \in Words(base),
           NEW item \in xlat_bool_wide_mixed(Puts(base, off), Puts(base, on))
    PROVE  Vectorial(item) /\ Switches(item, base, off, on)
<1> DEFINE D == Pair(Puts(base, off), Puts(base, on))
           W == <<off, on>>
<1>1. PICK j \in xlat_enum_ocd(D, "value") :
          /\ \A n \in DOMAIN j.bits : j.values[0][n] = ~j.values[1][n]
          /\ item = [bits |-> j.bits, invert |-> j.values[0]]
  BY DEF xlat_bool_wide_mixed, Pair
<1>2. Worded(D, W, base)
  BY PairIs
<1>3. 1 \in DOMAIN D /\ 2 \in DOMAIN D /\ W[1] = off /\ W[2] = on /\ D[1].val = 0 /\ D[2].val = 1
  BY DEF Pair
<1> HIDE DEF D, W
<1>4. Spells(j, D, W)
  BY <1>1, <1>2, EnumSpells
<1>5. Shows(j, base, off, j.values[0]) /\ Shows(j, base, on, j.values[1])
  BY <1>2, <1>3, <1>4, SpellsShows
<1>6. item.bits = j.bits /\ item.invert = j.values[0] /\ DOMAIN item = {"bits", "invert"}
  BY <1>1
<1>7. j.values[0] = [n \in DOMAIN j.bits |-> off[j.bits[n]]] /\ j.values[1] = [n \in DOMAIN j.bits |-> on[j.bits[n]]]
  BY <1>3, <1>4 DEF Spells
<1>8. BitSet(item) = BitSet(j)
  BY <1>6 DEF BitSet
<1>9. \A n \in DOMAIN j.bits : j.bits[n] \in DOMAIN base /\ on[j.bits[n]] = ~off[j.bits[n]]
  <2> TAKE n \in DOMAIN j.bits
  <2>1. j.bits[n] \in DOMAIN base
    <3>1. j.bits[n] \in Occurring(D)
      BY <1>4 DEF Spells, BitSet
    <3> QED
      BY <3>1, <1>2, WordedAre
  <2>2. off[j.bits[n]] \in BOOLEAN /\ on[j.bits[n]] \in BOOLEAN
    BY <2>1 DEF Words
  <2>3. off[j.bits[n]] = ~on[j.bits[n]]
    <3>1. j.values[0][n] = ~j.values[1][n]
      BY <1>1
    <3>2. j.values[0][n] = off[j.bits[n]] /\ j.values[1][n] = on[j.bits[n]]
      BY <1>7
    <3> QED
      BY <3>1, <3>2
  <2> QED
    BY <2>1, <2>2, <2>3
<1> QED
  BY <1>5, <1>6, <1>7, <1>8, <1>9 DEF Vectorial, Switches, Shows

\* If no bit differs in both the two words are opposite.
LEMMA MixedSucceeds ==
    ASSUME NEW base, base \in Words(base), DOMAIN base \in SUBSET (Nat \X Nat), IsFiniteSet(DOMAIN base),
           NEW off \in Words(base), NEW on \in Words(base), Change(base, off) \cap Change(base, on) = {}
    PROVE  \E item \in xlat_bool_wide_mixed(Puts(base, off), Puts(base, on)) :
               \A n \in DOMAIN item.invert : \E b \in Change(base, off) \cup Change(base, on) : item.invert[n] = off[b]
<1> DEFINE D == Pair(Puts(base, off), Puts(base, on))
           W == <<off, on>>
<1>1. Worded(D, W, base) /\ DOMAIN D = {1, 2} /\ W[1] = off /\ W[2] = on /\ D[1].val = 0 /\ D[2].val = 1
  BY PairIs
<1>2. /\ \A i : i \in xlat_enum_ocd(D, "value") /\ (\A n \in DOMAIN i.bits : i.values[0][n] = ~i.values[1][n]) =>
             [bits |-> i.bits, invert |-> i.values[0]] \in xlat_bool_wide_mixed(Puts(base, off), Puts(base, on))
  BY DEF xlat_bool_wide_mixed, Pair
<1> HIDE DEF D, W
<1>3. PICK j : j \in xlat_enum_ocd(D, "value")
  BY <1>1, EnumSucceeds
<1>4. Spells(j, D, W)
  BY <1>1, <1>3, EnumSpells
<1>5. j.values[0] = [n \in DOMAIN j.bits |-> off[j.bits[n]]] /\ j.values[1] = [n \in DOMAIN j.bits |-> on[j.bits[n]]]
  <2>1. 1 \in DOMAIN D /\ 2 \in DOMAIN D /\ W[1] = off /\ W[2] = on /\ D[1].val = 0 /\ D[2].val = 1
    BY <1>1
  <2> HIDE DEF W
  <2> QED
    BY <2>1, <1>4 DEF Spells
<1>6. ASSUME NEW n \in DOMAIN j.bits
      PROVE  j.bits[n] \in Change(base, off) \cup Change(base, on) /\ off[j.bits[n]] = ~on[j.bits[n]]
  <2> DEFINE b == j.bits[n]
  <2>1. b \in Occurring(D)
    BY <1>4 DEF Spells, BitSet
  <2> HIDE DEF b
  <2>2. b \in DOMAIN base /\ (off[b] # base[b] \/ on[b] # base[b])
    BY <2>1, <1>1, WordedAre
  <2>3. b \in Change(base, off) \cup Change(base, on)
    BY <2>2 DEF Change
  <2>4. off[b] = base[b] \/ on[b] = base[b]
    BY <2>2 DEF Change
  <2>5. off[b] \in BOOLEAN /\ on[b] \in BOOLEAN /\ base[b] \in BOOLEAN
    BY <2>2 DEF Words
  <2>6. off[b] = ~on[b]
    BY <2>2, <2>4, <2>5
  <2> QED
    BY <2>3, <2>6 DEF b
<1>7. \A n \in DOMAIN j.bits : j.values[0][n] = ~j.values[1][n]
  <2>1. \A n \in DOMAIN j.bits : j.values[0][n] = off[j.bits[n]] /\ j.values[1][n] = on[j.bits[n]]
    BY <1>5
  <2> TAKE n \in DOMAIN j.bits
  <2>2. j.values[0][n] = off[j.bits[n]] /\ j.values[1][n] = on[j.bits[n]]
    BY <2>1
  <2>3. off[j.bits[n]] = ~on[j.bits[n]]
    BY <1>6
  <2> QED
    BY <2>2, <2>3
<1> DEFINE item == [bits |-> j.bits, invert |-> j.values[0]]
<1>8. item \in xlat_bool_wide_mixed(Puts(base, off), Puts(base, on))
  BY <1>2, <1>3, <1>7
<1>9. item.invert = [n \in DOMAIN j.bits |-> off[j.bits[n]]]
  BY <1>5
<1> HIDE DEF item
<1> QED
  BY <1>6, <1>8, <1>9

LEMMA WideIs ==
    ASSUME NEW diff0, NEW diff1, NEW item \in xlat_bool_wide(diff0, diff1)
    PROVE  item \in xlat_bool_wide_mixed(diff0, diff1)
  BY DEF xlat_bool_wide

\* If they all are off, or all on, the two words are.
LEMMA WideSucceeds ==
    ASSUME NEW base, base \in Words(base), DOMAIN base \in SUBSET (Nat \X Nat), IsFiniteSet(DOMAIN base),
           NEW off \in Words(base), NEW on \in Words(base), Change(base, off) \cap Change(base, on) = {},
           Level(off, Change(base, off) \cup Change(base, on))
    PROVE  xlat_bool_wide(Puts(base, off), Puts(base, on)) # {}
<1>1. PICK item \in xlat_bool_wide_mixed(Puts(base, off), Puts(base, on)) :
          \A n \in DOMAIN item.invert : \E b \in Change(base, off) \cup Change(base, on) : item.invert[n] = off[b]
  BY MixedSucceeds
<1>2. \A m, n \in DOMAIN item.invert : item.invert[m] = item.invert[n]
  BY <1>1 DEF Level
<1> QED
  BY <1>2 DEF xlat_bool_wide

\* A boolean that is one of the base has a single bit.
LEMMA BoolSucceeds ==
    ASSUME NEW base, NEW off, NEW on, {} \in {Change(base, off), Change(base, on)},
           Cardinality(Change(base, off) \cup Change(base, on)) = 1
    PROVE  xlat_bool(Puts(base, off), Puts(base, on)) # {}
<1>1. ASSUME NEW d, Cardinality(DOMAIN d) = 1 PROVE xlat_bitvec(<<d>>) # {}
  <2> DEFINE q == <<d>>
  <2>1. DOMAIN q = {1} /\ q[1] = d
    OBVIOUS
  <2> HIDE DEF q
  <2>2. \A n \in DOMAIN q : Cardinality(DOMAIN q[n]) = 1
    BY <1>1, <2>1
  <2>3. xlat_bitvec(q) # {}
    BY Zenon, <2>2 DEF xlat_bitvec
  <2> QED
    BY <2>3 DEF q
<1>2. \A w : DOMAIN Puts(base, w) = Change(base, w)
  BY DEF Puts
<1>3. CASE Change(base, off) = {}
  <2>1. Puts(base, off) = NoBits
    BY <1>3 DEF Puts, NoBits
  <2>2. Cardinality(DOMAIN Puts(base, on)) = 1
    <3>1. Change(base, off) \cup Change(base, on) = Change(base, on)
      BY <1>3
    <3> QED
      BY <3>1, <1>2
  <2> QED
    BY <1>1, <2>1, <2>2 DEF xlat_bool
<1>4. CASE Change(base, off) # {}
  <2>1. Change(base, on) = {}
    BY <1>4
  <2>2. Puts(base, on) = NoBits
    BY <2>1 DEF Puts, NoBits
  <2>3. Puts(base, off) # NoBits
    BY <1>2, <1>4 DEF NoBits
  <2>4. DOMAIN Flipped(Puts(base, off)) = Change(base, off)
    BY <1>2 DEF Flipped
  <2>5. Change(base, off) \cup Change(base, on) = Change(base, off)
    BY <2>1
  <2>6. Cardinality(DOMAIN Flipped(Puts(base, off))) = 1
    BY <2>4, <2>5
  <2> QED
    BY <1>1, <2>2, <2>3, <2>6 DEF xlat_bool
<1> QED
  BY <1>3, <1>4

\* All these functions return one item at most.
OneAtMost(S) == \A i, j \in S : i = j

LEMMA OnlyItem ==
    ASSUME NEW x, NEW y
    PROVE  /\ OneAtMost(xlat_bitvec(x)) /\ OneAtMost(xlat_bool(x, y))
           /\ OneAtMost(xlat_bool_wide(x, y)) /\ OneAtMost(xlat_bool_wide_mixed(x, y))
           /\ OneAtMost(xlat_enum_int(x))
<1>1. \A d : OneAtMost(xlat_bitvec(d))
  BY DEF OneAtMost, xlat_bitvec
<1>2. OneAtMost(xlat_bool(x, y))
  BY <1>1 DEF OneAtMost, xlat_bool
<1>3. \A D : OneAtMost(xlat_enum_ocd(D, "value"))
  BY DEF OneAtMost, xlat_enum_ocd, ItemIn
<1>4. OneAtMost(xlat_bool_wide_mixed(x, y))
  BY <1>3 DEF OneAtMost, xlat_bool_wide_mixed
<1>5. OneAtMost(xlat_bool_wide(x, y))
  BY <1>4 DEF OneAtMost, xlat_bool_wide
<1>6. OneAtMost(xlat_enum_int(x))
  BY DEF OneAtMost, xlat_enum_int
<1> QED
  BY <1>1, <1>2, <1>4, <1>5, <1>6

-----------------------------------------------------------------------------
(* Integers.                                                               *)

Numbered(D, W, base) ==
    /\ Worded(D, W, base)
    /\ \A i \in DOMAIN D : D[i].num \in SUBSET Nat /\ IsFiniteSet(D[i].num)

\* Where digits have been found: a digit is one in which some number differs from x.
Places(D, x, B) ==
    {at \in UNION {[S -> B] : S \in SUBSET Nat} :
        /\ IsFiniteSet(DOMAIN at)
        /\ \A m \in DOMAIN at : \E i \in DOMAIN D : m \in Unlike(D[i].num, x)}

\* The digits found are what a diff consists of.
Explained(d, x, at) ==
    LET num == Unlike(d.num, x) IN
    /\ num \subseteq DOMAIN at
    /\ \A m, n \in num : at[m] = at[n] => m = n
    /\ DOMAIN d.diff = {at[n] : n \in num}
    /\ \A n \in num : d.diff[at[n]] <=> n \notin x

\* The first k diffs of a pass that has not failed or left one out.
Passing(D, x, B, k) ==
    {a \in [at : Places(D, x, B), ok : BOOLEAN, progress : BOOLEAN, done : BOOLEAN] :
        a.ok /\ a.done => \A i \in 1..k : Explained(D[i], x, a.at)}

LEMMA XorIs ==
    ASSUME NEW D, NEW W, NEW base, Numbered(D, W, base)
    PROVE  /\ Xor(D) \in SUBSET Nat /\ IsFiniteSet(Xor(D))
           /\ \/ Xor(D) = {} /\ \A i \in DOMAIN D : D[i].diff # NoBits
              \/ \E i \in DOMAIN D : D[i].diff = NoBits /\ Xor(D) = D[i].num
<1> DEFINE same == {i \in DOMAIN D : D[i].diff = NoBits}
<1>1. Xor(D) = IF same = {} THEN {} ELSE D[Max(same)].num
  BY DEF Xor
<1>2. same \in SUBSET Nat /\ IsFiniteSet(same)
  <2>1. 1 \in Int /\ Len(D) \in Int /\ DOMAIN D = 1..Len(D)
    BY DEF Numbered, Worded
  <2>2. IsFiniteSet(DOMAIN D) /\ DOMAIN D \subseteq Nat
    BY <2>1, FS_Interval
  <2> QED
    BY <2>2, FS_Subset
<1>3. same # {} => Max(same) \in same
  <2> HIDE DEF same
  <2> QED
    BY <1>2, MinMax
<1>4. CASE same = {}
  BY <1>1, <1>4, FS_EmptySet
<1>5. CASE same # {}
  BY <1>1, <1>3, <1>5 DEF Numbered
<1> QED
  BY <1>4, <1>5

LEMMA UnlikeIs ==
    ASSUME NEW m \in SUBSET Nat, NEW n \in SUBSET Nat, IsFiniteSet(m), IsFiniteSet(n)
    PROVE  Unlike(m, n) \in SUBSET Nat /\ IsFiniteSet(Unlike(m, n))
<1>1. IsFiniteSet(m \cup n)
  BY FS_Union
<1>2. Unlike(m, n) \in SUBSET (m \cup n)
  BY DEF Unlike
<1> QED
  BY <1>1, <1>2, FS_Subset

\* A further digit does not disturb what has been explained.
LEMMA ExplainedStays ==
    ASSUME NEW d, NEW x, NEW at, Explained(d, x, at), NEW k, k \notin DOMAIN at, NEW b
    PROVE  Explained(d, x, [n \in DOMAIN at \cup {k} |-> IF n = k THEN b ELSE at[n]])
<1> DEFINE new == [n \in DOMAIN at \cup {k} |-> IF n = k THEN b ELSE at[n]]
           num == Unlike(d.num, x)
<1>1. num \subseteq DOMAIN at
  BY DEF Explained
<1>2. \A n \in num : n \in DOMAIN new /\ new[n] = at[n]
  BY <1>1
<1> HIDE DEF new
<1>3. {new[n] : n \in num} = {at[n] : n \in num}
  BY <1>2
<1>4. Explained(d, x, new)
  BY <1>2, <1>3 DEF Explained
<1> QED
  BY <1>4 DEF new

LEMMA StepPasses ==
    ASSUME NEW D, NEW W, NEW base, Numbered(D, W, base), NEW k \in DOMAIN D,
           NEW a \in Passing(D, Xor(D), DOMAIN base, k - 1)
    PROVE  DigitStep(a, Xor(D), D[k]) \in Passing(D, Xor(D), DOMAIN base, k)
<1> DEFINE B == DOMAIN base
           x == Xor(D)
           d == D[k]
           at == a.at
           num == Unlike(d.num, x)
           old == num \cap DOMAIN at
           open == num \ old
           rest == Without(d.diff, {at[n] : n \in old})
           fits == /\ \A n \in old : at[n] \in DOMAIN d.diff /\ d.diff[at[n]] = (n \notin x)
                   /\ \A m, n \in old : at[m] = at[n] => m = n
           next == DigitStep(a, x, d)
           digit == CHOOSE n \in open : TRUE
           bit == CHOOSE c \in DOMAIN rest : TRUE
           found == [n \in DOMAIN at \cup {digit} |-> IF n = digit THEN bit ELSE at[n]]
<1>0. SUFFICES next \in Passing(D, x, B, k)
  OBVIOUS
<1>1. /\ at \in Places(D, x, B) /\ a \in [at : Places(D, x, B), ok : BOOLEAN, progress : BOOLEAN, done : BOOLEAN]
      /\ a.ok /\ a.done => \A i \in 1..(k - 1) : Explained(D[i], x, at)
  BY DEF Passing
<1>2. k \in Nat /\ k # 0 /\ \A i \in 1..k : i = k \/ i \in 1..(k - 1)
  <2>1. k \in 1..Len(D) /\ Len(D) \in Nat
    BY DEF Numbered, Worded
  <2> QED
    BY <2>1
<1>3. DOMAIN d.diff \subseteq B /\ \A c \in DOMAIN d.diff : d.diff[c] \in BOOLEAN
  <2>1. d.diff = Puts(base, W[k]) /\ W[k] \in Words(base)
    BY DEF Numbered, Worded
  <2> HIDE DEF d
  <2> QED
    BY <2>1 DEF Puts, Change, Words
<1>4. num \in SUBSET Nat /\ IsFiniteSet(num)
  <2>1. x \in SUBSET Nat /\ IsFiniteSet(x)
    BY XorIs
  <2>2. d.num \in SUBSET Nat /\ IsFiniteSet(d.num)
    BY DEF Numbered
  <2> HIDE DEF x, d
  <2> QED
    BY <2>1, <2>2, UnlikeIs
<1>5. DOMAIN rest = DOMAIN d.diff \ {at[n] : n \in old} /\ \A c \in DOMAIN rest : rest[c] = d.diff[c]
  BY DEF Without
<1>6. CASE ~a.ok \/ ~fits
  <2>1. next = [a EXCEPT !.ok = FALSE]
    BY <1>6 DEF DigitStep
  <2> QED
    BY <2>1, <1>1 DEF Passing
<1>7. CASE a.ok /\ fits /\ open = {}
  <2>1. next = [a EXCEPT !.ok = (rest = NoBits)]
    BY <1>7 DEF DigitStep
  <2>2. ASSUME rest = NoBits PROVE Explained(d, x, at)
    <3>1. DOMAIN rest = {}
      BY <2>2 DEF NoBits
    <3>2. old = num
      BY <1>7
    <3>3. DOMAIN d.diff = {at[n] : n \in num}
      <4>1. \A n \in num : at[n] \in DOMAIN d.diff
        BY <1>7, <3>2
      <4> QED
        BY <3>1, <3>2, <4>1, <1>5
    <3>4. num \subseteq DOMAIN at
      BY <3>2
    <3>5. \A n \in num : d.diff[at[n]] <=> n \notin x
      BY <1>7, <3>2
    <3>6. \A m, n \in num : at[m] = at[n] => m = n
      BY <1>7, <3>2
    <3> QED
      BY <3>3, <3>4, <3>5, <3>6 DEF Explained
  <2>3. next.at = at /\ next.ok = (rest = NoBits) /\ next.done = a.done
        /\ next \in [at : Places(D, x, B), ok : BOOLEAN, progress : BOOLEAN, done : BOOLEAN]
    <3> HIDE DEF rest, next
    <3> QED
      BY <2>1, <1>1
  <2>4. next.ok /\ next.done => \A i \in 1..k : Explained(D[i], x, next.at)
    <3> HIDE DEF next, rest, at, num, old, open, x
    <3> QED
      BY <2>2, <2>3, <1>1, <1>2, <1>7
  <2> HIDE DEF next, at
  <2> QED
    BY <2>3, <2>4 DEF Passing
<1>8. CASE a.ok /\ fits /\ open # {} /\ Cardinality(open) # 1
  <2>1. next = [a EXCEPT !.done = FALSE]
    BY <1>8 DEF DigitStep
  <2> QED
    BY <2>1, <1>1 DEF Passing
<1>9. CASE a.ok /\ fits /\ open # {} /\ Cardinality(open) = 1 /\ Cardinality(DOMAIN rest) # 1
  <2>1. next = [a EXCEPT !.ok = FALSE]
    BY <1>9 DEF DigitStep
  <2> QED
    BY <2>1, <1>1 DEF Passing
<1>10. CASE a.ok /\ fits /\ open # {} /\ Cardinality(open) = 1 /\ Cardinality(DOMAIN rest) = 1
  <2>1. next = [a EXCEPT !.ok = (rest[bit] = (digit \notin x)), !.progress = TRUE, !.at = found]
    BY <1>10 DEF DigitStep
  <2>2. open = {digit}
    <3>1. IsFiniteSet(open)
      BY <1>4, FS_Subset
    <3>2. \E n : open = {n}
      <4> HIDE DEF open
      <4> QED
        BY <1>10, <3>1, FS_Singleton
    <3> HIDE DEF open
    <3> QED
      BY <3>2
  <2>3. DOMAIN rest = {bit}
    <3>1. IsFiniteSet(B)
      BY DEF Numbered, Worded
    <3>2. DOMAIN rest \in SUBSET B
      BY <1>3, <1>5
    <3>3. IsFiniteSet(DOMAIN rest)
      <4> HIDE DEF rest, B
      <4> QED
        BY <3>1, <3>2, FS_Subset
    <3>4. \E c : DOMAIN rest = {c}
      <4> HIDE DEF rest
      <4> QED
        BY <1>10, <3>3, FS_Singleton
    <3> HIDE DEF rest
    <3> QED
      BY <3>4
  <2>4. digit \in num /\ digit \notin DOMAIN at /\ digit \in Nat /\ num = old \cup {digit}
    <3>1. digit \in open
      BY <2>2
    <3> HIDE DEF digit
    <3> QED
      BY <3>1, <2>2, <1>4
  <2>5. bit \in DOMAIN d.diff /\ bit \in B /\ rest[bit] = d.diff[bit] /\ \A n \in old : at[n] # bit
    <3>1. bit \in DOMAIN rest
      BY <2>3
    <3> HIDE DEF bit, rest
    <3> QED
      BY <3>1, <1>3, <1>5
  <2> HIDE DEF digit, bit
  <2>6. found[digit] = bit /\ DOMAIN found = DOMAIN at \cup {digit} /\ \A n \in DOMAIN at : found[n] = at[n]
    BY <2>4
  <2>7. found \in Places(D, x, B)
    <3>1. PICK S \in SUBSET Nat : at \in [S -> B]
      BY <1>1 DEF Places
    <3>2. S \cup {digit} \in SUBSET Nat /\ found \in [S \cup {digit} -> B]
      BY <3>1, <2>4, <2>5
    <3>3. IsFiniteSet(DOMAIN found)
      <4> HIDE DEF found, at
      <4> QED
        BY <1>1, <2>6, FS_AddElement DEF Places
    <3>4. \A m \in DOMAIN found : \E i \in DOMAIN D : m \in Unlike(D[i].num, x)
      <4>1. digit \in Unlike(D[k].num, x)
        BY <2>4
      <4> HIDE DEF found, at
      <4> QED
        BY <1>1, <2>6, <4>1 DEF Places
    <3> HIDE DEF found
    <3> QED
      BY <3>2, <3>3, <3>4 DEF Places
  <2>8. ASSUME rest[bit] = (digit \notin x) PROVE Explained(d, x, found)
    <3>1. num \subseteq DOMAIN found
      BY <2>4, <2>6
    <3>2. \A n \in old : found[n] = at[n] /\ at[n] \in DOMAIN d.diff /\ (d.diff[at[n]] <=> n \notin x)
      <4>1. \A n \in old : found[n] = at[n]
        BY <2>6
      <4> QED
        BY <1>10, <4>1
    <3>3. d.diff[found[digit]] <=> digit \notin x
      BY <2>5, <2>6, <2>8
    <3>4. \A n \in num : d.diff[found[n]] <=> n \notin x
      <4> HIDE DEF found, old, num, d, x
      <4> QED
        BY <2>4, <3>2, <3>3
    <3>5. \A m, n \in num : found[m] = found[n] => m = n
      <4>1. \A m, n \in old : at[m] = at[n] => m = n
        BY <1>10
      <4> HIDE DEF found, old, num, d, x, at
      <4> QED
        BY <2>4, <2>5, <2>6, <3>2, <4>1
    <3>6. DOMAIN d.diff = {found[n] : n \in num}
      <4>1. \A n \in num : found[n] \in DOMAIN d.diff
        <5> HIDE DEF found, old, num, d, x, at
        <5> QED
          BY <2>4, <2>5, <2>6, <3>2
      <4>2. \A c \in DOMAIN d.diff : \E n \in num : found[n] = c
        <5> SUFFICES ASSUME NEW c \in DOMAIN d.diff PROVE \E n \in num : found[n] = c
          OBVIOUS
        <5>1. c \in DOMAIN rest \/ \E n \in old : c = at[n]
          BY <1>5
        <5> HIDE DEF found, old, num, d, x, at, rest
        <5> QED
          BY <5>1, <2>3, <2>4, <2>6, <3>2
      <4> HIDE DEF found, num, d
      <4> QED
        BY <4>1, <4>2
    <3> HIDE DEF found
    <3> QED
      BY <3>1, <3>4, <3>5, <3>6 DEF Explained
  <2>9. \A e : Explained(e, x, at) => Explained(e, x, found)
    <3> SUFFICES ASSUME NEW e, Explained(e, x, at) PROVE Explained(e, x, found)
      OBVIOUS
    <3>1. digit \notin DOMAIN at
      BY <2>4
    <3> HIDE DEF at, x
    <3> QED
      BY <3>1, ExplainedStays
  <2>10. next.at = found /\ next.ok = (rest[bit] = (digit \notin x)) /\ next.done = a.done
         /\ next \in [at : Places(D, x, B), ok : BOOLEAN, progress : BOOLEAN, done : BOOLEAN]
    <3> HIDE DEF rest, next, found
    <3> QED
      BY <2>1, <2>7, <1>1
  <2>11. next.ok /\ next.done => \A i \in 1..k : Explained(D[i], x, next.at)
    <3> HIDE DEF next, rest, at, num, old, open, found, x
    <3> QED
      BY <2>8, <2>9, <2>10, <1>1, <1>2, <1>10
  <2> HIDE DEF next, at, found
  <2> QED
    BY <2>10, <2>11 DEF Passing
<1> HIDE DEF next, rest, at, num, old, open, found, fits
<1> QED
  BY <1>6, <1>7, <1>8, <1>9, <1>10

\* A pass goes from step to step.
LEMMA PassKeeps ==
    ASSUME NEW D, NEW at, NEW V, Len(D) \in Nat,
           [at |-> at, ok |-> TRUE, progress |-> FALSE, done |-> TRUE] \in V[0],
           \A k \in 1..Len(D) : \A a \in V[k - 1] : DigitStep(a, Xor(D), D[k]) \in V[k]
    PROVE  DigitPass(D, at) \in V[Len(D)]
<1> DEFINE N == Len(D)
           x == Xor(D)
           first == [at |-> at, ok |-> TRUE, progress |-> FALSE, done |-> TRUE]
           G == [k \in 1..N |-> [a \in V[k - 1] |-> DigitStep(a, x, D[k])]]
           f[n \in 0..Len(D)] ==
               IF n = 0 THEN [at |-> at, ok |-> TRUE, progress |-> FALSE, done |-> TRUE]
               ELSE DigitStep(f[n - 1], Xor(D), D[n])
<1>1. N \in Nat /\ first \in V[0]
  OBVIOUS
<1>2. DigitPass(D, at) = f[N]
  BY DEF DigitPass
<1> HIDE DEF first
<1>3. \A k \in 1..N : k \in 0..N /\ k - 1 \in 0..N /\ k # 0
  BY <1>1
<1>4. \A k \in 1..N : G[k] \in [V[k - 1] -> V[k]]
  OBVIOUS
<1>5. \A k \in 1..N : \A a \in V[k - 1] : G[k][a] = DigitStep(a, x, D[k])
  OBVIOUS
<1> HIDE DEF G
<1>6. \E h : h = [k \in 0..N |-> IF k = 0 THEN first ELSE DigitStep(h[k - 1], x, D[k])]
  <2>1. PICK h : Iterates(h, N, V, G, first)
    <3> HIDE DEF N
    <3> QED
      BY <1>1, <1>4, Iterate
  <2> HIDE DEF N
  <2>2. \A k \in 0..N : k # 0 => k \in 1..N /\ k - 1 \in 0..N
    BY <1>1
  <2>3. \A k \in 0..N : k # 0 => G[k][h[k - 1]] = DigitStep(h[k - 1], x, D[k])
    BY <2>1, <2>2, <1>5 DEF Iterates
  <2> HIDE DEF x
  <2>4. h = [k \in 0..N |-> IF k = 0 THEN first ELSE DigitStep(h[k - 1], x, D[k])]
    BY <2>1, <2>3 DEF Iterates
  <2> QED
    BY <2>4
<1>7. f = [k \in 0..N |-> IF k = 0 THEN first ELSE DigitStep(f[k - 1], x, D[k])]
  BY <1>6 DEF first
<1> HIDE DEF f
<1>8. \A k \in 0..N : f[k] \in V[k]
  <2>1. f[0] \in V[0]
    BY <1>1, <1>7
  <2>2. \A k \in 1..N : f[k] = DigitStep(f[k - 1], x, D[k])
    <3> HIDE DEF N, x
    <3> QED
      BY <1>3, <1>7
  <2>3. \A k \in 1..N : f[k - 1] \in V[k - 1] => f[k] = G[k][f[k - 1]]
    BY <2>2, <1>5
  <2> HIDE DEF N
  <2> QED
    BY <2>1, <2>3, <1>1, <1>4, Iterated
<1> QED
  BY <1>1, <1>2, <1>8

\* A pass from digits found before finds more, or fails.
LEMMA PassIs ==
    ASSUME NEW D, NEW W, NEW base, Numbered(D, W, base), NEW at \in Places(D, Xor(D), DOMAIN base)
    PROVE  DigitPass(D, at) \in Passing(D, Xor(D), DOMAIN base, Len(D))
<1> DEFINE N == Len(D)
           P(k) == Passing(D, Xor(D), DOMAIN base, k)
           V == [k \in 0..N |-> P(k)]
<1>1. N \in Nat /\ DOMAIN D = 1..N
  BY DEF Numbered, Worded
<1>2. [at |-> at, ok |-> TRUE, progress |-> FALSE, done |-> TRUE] \in P(0)
  BY DEF Passing
<1>3. \A k \in 1..N : \A a \in P(k - 1) : DigitStep(a, Xor(D), D[k]) \in P(k)
  <2> SUFFICES ASSUME NEW k \in 1..N, NEW a \in P(k - 1) PROVE DigitStep(a, Xor(D), D[k]) \in P(k)
    OBVIOUS
  <2>1. k \in DOMAIN D
    BY <1>1
  <2> QED
    BY <2>1, StepPasses
<1> HIDE DEF P
<1>4. V[0] = P(0) /\ V[N] = P(N) /\ \A k \in 1..N : V[k] = P(k) /\ V[k - 1] = P(k - 1)
  BY <1>1
<1> HIDE DEF V
<1>5. DigitPass(D, at) \in V[N]
  BY <1>1, <1>2, <1>3, <1>4, PassKeeps
<1> QED
  BY <1>4, <1>5 DEF P

\* What is done after a pass, and what is made of the last.
Again(D, a) == IF a.ok /\ a.progress /\ ~a.done THEN DigitPass(D, a.at) ELSE a

IntItem(end) ==
    LET width == Cardinality(DOMAIN end.at) IN
    IF end.ok /\ end.done /\ DOMAIN end.at = 0..(width - 1)
    THEN {[bits |-> [n \in 1..width |-> end.at[n - 1]],
          invert |-> [n \in 1..width |-> FALSE]]}
    ELSE {}

LEMMA PassesKeep ==
    ASSUME NEW D, NEW V, Len(D) \in Nat, DigitPass(D, << >>) \in V[0],
           \A k \in 1..(Len(D) + 1) : \A a \in V[k - 1] : Again(D, a) \in V[k]
    PROVE  \E end \in V[Len(D) + 1] : xlat_enum_int(D) = IntItem(end)
<1> DEFINE N == Len(D)
           first == DigitPass(D, << >>)
           G == [k \in 1..(N + 1) |-> [a \in V[k - 1] |-> Again(D, a)]]
           f[n \in 0..(Len(D) + 1)] ==
               IF n = 0 THEN DigitPass(D, << >>)
               ELSE IF f[n - 1].ok /\ f[n - 1].progress /\ ~f[n - 1].done
                    THEN DigitPass(D, f[n - 1].at) ELSE f[n - 1]
<1>1. N \in Nat /\ N + 1 \in Nat /\ first \in V[0]
  OBVIOUS
<1>2. xlat_enum_int(D) = IntItem(f[N + 1])
  BY DEF xlat_enum_int, IntItem
<1> HIDE DEF first
<1>3. \A k \in 1..(N + 1) : k \in 0..(N + 1) /\ k - 1 \in 0..(N + 1) /\ k # 0
  BY <1>1
<1>4. \A k \in 1..(N + 1) : G[k] \in [V[k - 1] -> V[k]]
  OBVIOUS
<1>5. \A k \in 1..(N + 1) : \A a \in V[k - 1] : G[k][a] = Again(D, a)
  OBVIOUS
<1> HIDE DEF G
<1>6. \E h : h = [k \in 0..(N + 1) |-> IF k = 0 THEN first ELSE Again(D, h[k - 1])]
  <2>1. PICK h : Iterates(h, N + 1, V, G, first)
    <3> HIDE DEF N
    <3> QED
      BY <1>1, <1>4, Iterate
  <2> HIDE DEF N
  <2>2. \A k \in 0..(N + 1) : k # 0 => k \in 1..(N + 1) /\ k - 1 \in 0..(N + 1)
    BY <1>1
  <2>3. \A k \in 0..(N + 1) : k # 0 => G[k][h[k - 1]] = Again(D, h[k - 1])
    BY <2>1, <2>2, <1>5 DEF Iterates
  <2>4. h = [k \in 0..(N + 1) |-> IF k = 0 THEN first ELSE Again(D, h[k - 1])]
    BY <2>1, <2>3 DEF Iterates
  <2> QED
    BY <2>4
<1>7. f = [k \in 0..(N + 1) |-> IF k = 0 THEN first ELSE Again(D, f[k - 1])]
  BY <1>6 DEF first, Again
<1> HIDE DEF f
<1>8. \A k \in 0..(N + 1) : f[k] \in V[k]
  <2>1. f[0] \in V[0]
    BY <1>1, <1>7
  <2>2. \A k \in 1..(N + 1) : f[k] = Again(D, f[k - 1])
    <3> HIDE DEF N
    <3> QED
      BY <1>3, <1>7
  <2>3. \A k \in 1..(N + 1) : f[k - 1] \in V[k - 1] => f[k] = G[k][f[k - 1]]
    BY <2>2, <1>5
  <2> HIDE DEF N
  <2> QED
    BY <2>1, <2>3, <1>1, <1>4, Iterated
<1> QED
  BY <1>1, <1>2, <1>8

\* All passes together.
LEMMA IntFound ==
    ASSUME NEW D, NEW W, NEW base, Numbered(D, W, base), NEW item \in xlat_enum_int(D)
    PROVE  \E at \in Places(D, Xor(D), DOMAIN base) : \E width \in Nat :
               /\ DOMAIN at = 0..(width - 1)
               /\ item = [bits |-> [n \in 1..width |-> at[n - 1]], invert |-> [n \in 1..width |-> FALSE]]
               /\ \A i \in DOMAIN D : Explained(D[i], Xor(D), at)
<1> DEFINE N == Len(D)
           X == Places(D, Xor(D), DOMAIN base)
           P == Passing(D, Xor(D), DOMAIN base, N)
           V == [k \in 0..(N + 1) |-> P]
<1>1. N \in Nat /\ DOMAIN D = 1..N
  BY DEF Numbered, Worded
<1>2. \A a \in P : a.at \in X
  BY DEF Passing
<1>3. << >> \in X
  <2>1. DOMAIN << >> = {} /\ << >> \in [{} -> DOMAIN base] /\ {} \in SUBSET Nat
    OBVIOUS
  <2> QED
    BY <2>1, FS_EmptySet DEF Places
<1>4. \A at \in X : DigitPass(D, at) \in P
  BY PassIs
<1> HIDE DEF P, X
<1>5. DigitPass(D, << >>) \in P /\ \A a \in P : Again(D, a) \in P
  BY <1>2, <1>3, <1>4 DEF Again
<1>6. V[0] = P /\ V[N + 1] = P /\ \A k \in 1..(N + 1) : V[k] = P /\ V[k - 1] = P
  BY <1>1
<1> HIDE DEF V
<1>7. \E e \in V[N + 1] : xlat_enum_int(D) = IntItem(e)
  BY <1>1, <1>5, <1>6, PassesKeep
<1>8. PICK end \in P : xlat_enum_int(D) = IntItem(end)
  BY <1>6, <1>7
<1> DEFINE width == Cardinality(DOMAIN end.at)
<1>9. /\ end.ok /\ end.done /\ DOMAIN end.at = 0..(width - 1)
      /\ item = [bits |-> [n \in 1..width |-> end.at[n - 1]], invert |-> [n \in 1..width |-> FALSE]]
  BY <1>8 DEF IntItem
<1>10. end.at \in X /\ \A i \in DOMAIN D : Explained(D[i], Xor(D), end.at)
  BY <1>1, <1>2, <1>8, <1>9 DEF Passing, P
<1>11. width \in Nat
  <2>1. IsFiniteSet(DOMAIN end.at)
    BY <1>10 DEF X, Places
  <2> QED
    BY <2>1, FS_CardinalityType
<1> HIDE DEF width
<1> QED
  BY <1>9, <1>10, <1>11 DEF X

\* Any two digits are together in a number and both missing from one.
Apart(D) ==
    \A m, n \in UNION {D[i].num : i \in DOMAIN D} : m # n =>
        /\ \E i \in DOMAIN D : {m, n} \subseteq D[i].num
        /\ \E i \in DOMAIN D : {m, n} \cap D[i].num = {}

\* What an item says of the configuration w of a number.
Counts(item, base, w, num) ==
    /\ \A n \in DOMAIN item.bits :
          item.bits[n] \in DOMAIN base /\ (w[item.bits[n]] <=> (n - 1) \in num) /\ item.invert[n] = FALSE
    /\ \A b \in DOMAIN base : b \notin BitSet(item) => w[b] = base[b]

\* The bits found for the digits of a number are on where the digit is one.
Read(at, base, w, num) ==
    /\ \A m \in DOMAIN at : at[m] \in DOMAIN base /\ (w[at[m]] <=> m \in num)
    /\ \A b \in DOMAIN base : (\A m \in DOMAIN at : at[m] # b) => w[b] = base[b]

\* They are bits of their own.
LEMMA DigitsFound ==
    ASSUME NEW D, NEW W, NEW base, Numbered(D, W, base), Apart(D),
           NEW at \in Places(D, Xor(D), DOMAIN base), \A i \in DOMAIN D : Explained(D[i], Xor(D), at),
           NEW i \in DOMAIN D
    PROVE  Read(at, base, W[i], D[i].num)
<1> DEFINE x == Xor(D)
           U(j) == Unlike(D[j].num, x)
<1>1. \A j \in DOMAIN D :
          /\ U(j) \subseteq DOMAIN at
          /\ \A m, n \in U(j) : at[m] = at[n] => m = n
          /\ DOMAIN D[j].diff = {at[n] : n \in U(j)}
          /\ \A n \in U(j) : D[j].diff[at[n]] <=> n \notin x
  BY DEF Explained
<1>2. \A j \in DOMAIN D :
          /\ DOMAIN D[j].diff = {b \in DOMAIN base : W[j][b] # base[b]}
          /\ \A b \in DOMAIN D[j].diff : D[j].diff[b] = W[j][b]
  BY DEF Numbered, Worded, Puts, Change
<1>3. \A j \in DOMAIN D : \A b \in DOMAIN base : W[j][b] \in BOOLEAN /\ base[b] \in BOOLEAN
  BY DEF Numbered, Worded, Words
<1>4. \A m \in DOMAIN at : at[m] \in DOMAIN base /\ \E j \in DOMAIN D : m \in U(j)
  BY DEF Places
<1>5. \A j \in DOMAIN D : \A n : n \in U(j) <=> (n \in D[j].num <=> n \notin x)
  BY DEF Unlike
<1>6. x \subseteq UNION {D[j].num : j \in DOMAIN D}
  BY XorIs
<1> HIDE DEF U, x
<1>7. \A j \in DOMAIN D : \A n \in U(j) : at[n] \in DOMAIN base /\ W[j][at[n]] # base[at[n]] /\ (W[j][at[n]] <=> n \notin x)
  <2> SUFFICES ASSUME NEW j \in DOMAIN D, NEW n \in U(j)
               PROVE  at[n] \in DOMAIN base /\ W[j][at[n]] # base[at[n]] /\ (W[j][at[n]] <=> n \notin x)
    OBVIOUS
  <2>1. at[n] \in DOMAIN D[j].diff
    BY <1>1
  <2> QED
    BY <2>1, <1>1, <1>2
<1>8. \A m \in DOMAIN at : base[at[m]] <=> m \in x
  <2> SUFFICES ASSUME NEW m \in DOMAIN at PROVE base[at[m]] <=> m \in x
    OBVIOUS
  <2>1. PICK j \in DOMAIN D : m \in U(j)
    BY <1>4
  <2> QED
    BY <2>1, <1>3, <1>7
<1>9. \A m, n \in DOMAIN at : at[m] = at[n] => m = n
  <2> SUFFICES ASSUME NEW m \in DOMAIN at, NEW n \in DOMAIN at, at[m] = at[n], m # n PROVE FALSE
    OBVIOUS
  <2>1. m \in UNION {D[j].num : j \in DOMAIN D} /\ n \in UNION {D[j].num : j \in DOMAIN D}
    <3>1. \A k \in DOMAIN at : k \in UNION {D[j].num : j \in DOMAIN D}
      <4> SUFFICES ASSUME NEW k \in DOMAIN at PROVE k \in UNION {D[j].num : j \in DOMAIN D}
        OBVIOUS
      <4>1. PICK j \in DOMAIN D : k \in U(j)
        BY <1>4
      <4>2. k \in D[j].num \/ k \in x
        BY <4>1, <1>5
      <4> QED
        BY <4>2, <1>6
    <3> QED
      BY <3>1
  <2>2. PICK j \in DOMAIN D : {m, n} \subseteq D[j].num
    BY <2>1 DEF Apart
  <2>3. PICK k \in DOMAIN D : {m, n} \cap D[k].num = {}
    BY <2>1 DEF Apart
  <2>4. m \in x <=> n \in x
    BY <1>8
  <2>5. CASE m \in x
    <3>1. m \in U(k) /\ n \in U(k)
      BY <2>3, <2>4, <2>5, <1>5
    <3> QED
      BY <3>1, <1>1
  <2>6. CASE m \notin x
    <3>1. m \in U(j) /\ n \in U(j)
      BY <2>2, <2>4, <2>6, <1>5
    <3> QED
      BY <3>1, <1>1
  <2> QED
    BY <2>5, <2>6
<1>10. \A m \in DOMAIN at : W[i][at[m]] <=> m \in D[i].num
  <2> SUFFICES ASSUME NEW m \in DOMAIN at PROVE W[i][at[m]] <=> m \in D[i].num
    OBVIOUS
  <2>1. CASE m \in U(i)
    BY <2>1, <1>5, <1>7
  <2>2. CASE m \notin U(i)
    <3>1. at[m] \notin DOMAIN D[i].diff
      BY <2>2, <1>1, <1>9
    <3>2. W[i][at[m]] = base[at[m]]
      BY <3>1, <1>2, <1>4
    <3> QED
      BY <3>2, <2>2, <1>5, <1>8
  <2> QED
    BY <2>1, <2>2
<1>11. \A b \in DOMAIN base : (\A m \in DOMAIN at : at[m] # b) => W[i][b] = base[b]
  <2> SUFFICES ASSUME NEW b \in DOMAIN base, \A m \in DOMAIN at : at[m] # b PROVE W[i][b] = base[b]
    OBVIOUS
  <2>1. b \notin DOMAIN D[i].diff
    BY <1>1
  <2> QED
    BY <2>1, <1>2
<1> QED
  BY <1>4, <1>10, <1>11 DEF Read

LEMMA IntIs ==
    ASSUME NEW D, NEW W, NEW base, Numbered(D, W, base), Apart(D), NEW item \in xlat_enum_int(D)
    PROVE  /\ Vectorial(item)
           /\ \A i \in DOMAIN D : Counts(item, base, W[i], D[i].num)
<1>1. PICK at \in Places(D, Xor(D), DOMAIN base) : \E width \in Nat :
          /\ DOMAIN at = 0..(width - 1)
          /\ item = [bits |-> [n \in 1..width |-> at[n - 1]], invert |-> [n \in 1..width |-> FALSE]]
          /\ \A i \in DOMAIN D : Explained(D[i], Xor(D), at)
  BY IntFound
<1>2. PICK width \in Nat :
          /\ DOMAIN at = 0..(width - 1)
          /\ item = [bits |-> [n \in 1..width |-> at[n - 1]], invert |-> [n \in 1..width |-> FALSE]]
          /\ \A i \in DOMAIN D : Explained(D[i], Xor(D), at)
  BY <1>1
<1>3. /\ DOMAIN item = {"bits", "invert"} /\ DOMAIN item.bits = 1..width /\ DOMAIN item.invert = 1..width
      /\ \A n \in 1..width : item.bits[n] = at[n - 1] /\ item.invert[n] = FALSE
  BY <1>2
<1>4. \A n \in 1..width : n - 1 \in DOMAIN at
  BY <1>2
<1>5. \A m \in DOMAIN at : m + 1 \in 1..width /\ (m + 1) - 1 = m
  BY <1>2
<1>6. \A m \in DOMAIN at : at[m] \in BitSet(item)
  BY <1>3, <1>5 DEF BitSet
<1>7. ASSUME NEW i \in DOMAIN D PROVE Counts(item, base, W[i], D[i].num)
  <2>1. Read(at, base, W[i], D[i].num)
    BY <1>2, DigitsFound
  <2>2. \A n \in DOMAIN item.bits :
            item.bits[n] \in DOMAIN base /\ (W[i][item.bits[n]] <=> (n - 1) \in D[i].num) /\ item.invert[n] = FALSE
    BY <2>1, <1>3, <1>4 DEF Read
  <2>3. \A b \in DOMAIN base : b \notin BitSet(item) => W[i][b] = base[b]
    BY <2>1, <1>6 DEF Read
  <2> QED
    BY <2>2, <2>3 DEF Counts
<1> QED
  BY <1>3, <1>7 DEF Vectorial

\* Each digit of the numbers has a bit of its own, and every choice of digits is a number.
Fitting(D, W, base, at) ==
    /\ \A m, n \in DOMAIN at : at[m] = at[n] => m = n
    /\ \A i \in DOMAIN D : Read(at, base, W[i], D[i].num) /\ D[i].num \in SUBSET DOMAIN at
    /\ \A S \in SUBSET DOMAIN at : \E i \in DOMAIN D : D[i].num = S

\* Then one number is what the base has, and the bits explain all the others.
LEMMA FittingExplained ==
    ASSUME NEW D, NEW W, NEW base, Numbered(D, W, base), NEW at, Fitting(D, W, base, at)
    PROVE  /\ \A i \in DOMAIN D : Explained(D[i], Xor(D), at)
           /\ \A n \in DOMAIN at : \E i \in DOMAIN D : Unlike(D[i].num, Xor(D)) = {n}
<1> DEFINE x0 == {n \in DOMAIN at : base[at[n]]}
<1>0. /\ \A i \in DOMAIN D : Read(at, base, W[i], D[i].num) /\ D[i].num \in SUBSET DOMAIN at
      /\ \A S \in SUBSET DOMAIN at : \E i \in DOMAIN D : D[i].num = S
      /\ \A m, n \in DOMAIN at : at[m] = at[n] => m = n
  BY Zenon DEF Fitting
<1>1. /\ \A i \in DOMAIN D : D[i].num \subseteq DOMAIN at /\ DOMAIN D[i].diff = Change(base, W[i])
      /\ \A i \in DOMAIN D : \A b \in DOMAIN D[i].diff : D[i].diff[b] = W[i][b]
  <2>1. \A i \in DOMAIN D : D[i].diff = Puts(base, W[i])
    BY DEF Numbered, Worded
  <2>2. \A i \in DOMAIN D : D[i].num \subseteq DOMAIN at
    BY <1>0
  <2>3. \A w : DOMAIN Puts(base, w) = Change(base, w) /\ \A b \in Change(base, w) : Puts(base, w)[b] = w[b]
    BY DEF Puts
  <2> QED
    BY <2>1, <2>2, <2>3
<1>2. \E i \in DOMAIN D : D[i].num = {}
  <2>1. {} \in SUBSET DOMAIN at
    OBVIOUS
  <2> QED
    BY <2>1, <1>0
<1>11. \A n \in DOMAIN at : at[n] \in DOMAIN base
  BY <1>0, <1>2 DEF Read
<1>3. \A i \in DOMAIN D : \A b \in DOMAIN base : W[i][b] \in BOOLEAN /\ base[b] \in BOOLEAN
  BY DEF Numbered, Worded, Words
<1>4. \A i \in DOMAIN D : \A n \in DOMAIN at : W[i][at[n]] <=> n \in D[i].num
  BY <1>0 DEF Read
<1>5. \A i \in DOMAIN D : \A b \in DOMAIN base : W[i][b] # base[b] => \E n \in DOMAIN at : at[n] = b
  BY <1>0 DEF Read
<1>6. \A i \in DOMAIN D : \A n \in DOMAIN at : at[n] \in Change(base, W[i]) <=> n \in Unlike(D[i].num, x0)
  <2> SUFFICES ASSUME NEW i \in DOMAIN D, NEW n \in DOMAIN at
               PROVE  at[n] \in Change(base, W[i]) <=> n \in Unlike(D[i].num, x0)
    OBVIOUS
  <2>1. at[n] \in Change(base, W[i]) <=> W[i][at[n]] # base[at[n]]
    BY <1>11 DEF Change
  <2>2. W[i][at[n]] \in BOOLEAN /\ base[at[n]] \in BOOLEAN
    BY <1>11, <1>3
  <2>3. (W[i][at[n]] <=> n \in D[i].num) /\ (base[at[n]] <=> n \in x0)
    BY <1>4
  <2> HIDE DEF x0
  <2> QED
    BY <2>1, <2>2, <2>3 DEF Unlike
<1>7. \A i \in DOMAIN D : D[i].num = x0 <=> D[i].diff = NoBits
  <2> SUFFICES ASSUME NEW i \in DOMAIN D PROVE D[i].num = x0 <=> D[i].diff = NoBits
    OBVIOUS
  <2>1. ASSUME D[i].num = x0 PROVE D[i].diff = NoBits
    <3>1. Unlike(D[i].num, x0) = {}
      BY <2>1 DEF Unlike
    <3>2. Change(base, W[i]) = {}
      <4>1. \A b \in Change(base, W[i]) : \E n \in DOMAIN at : at[n] = b
        BY <1>5 DEF Change
      <4> HIDE DEF x0
      <4> QED
        BY <4>1, <3>1, <1>6
    <3>3. D[i].diff = Puts(base, W[i])
      BY DEF Numbered, Worded
    <3> QED
      BY <3>2, <3>3 DEF Puts, NoBits
  <2>2. ASSUME D[i].diff = NoBits PROVE D[i].num = x0
    <3>1. Change(base, W[i]) = {}
      BY <2>2, <1>1 DEF NoBits
    <3>2. \A n \in DOMAIN at : n \notin Unlike(D[i].num, x0)
      BY <3>1, <1>6
    <3>3. x0 \subseteq DOMAIN at
      OBVIOUS
    <3> HIDE DEF x0
    <3> QED
      BY <3>2, <3>3, <1>1 DEF Unlike
  <2> QED
    BY <2>1, <2>2
<1>8. Xor(D) = x0
  <2>1. \E i \in DOMAIN D : D[i].num = x0
    <3>1. x0 \in SUBSET DOMAIN at
      OBVIOUS
    <3> HIDE DEF x0
    <3> QED
      BY <3>1, <1>0
  <2> HIDE DEF x0
  <2> QED
    BY <2>1, <1>7, XorIs
<1>9. ASSUME NEW i \in DOMAIN D PROVE Explained(D[i], x0, at)
  <2> DEFINE num == Unlike(D[i].num, x0)
  <2>1. num \subseteq DOMAIN at
    BY <1>1 DEF Unlike
  <2>2. \A n \in num : at[n] \in DOMAIN D[i].diff
    BY <2>1, <1>1, <1>6
  <2>3. \A b \in DOMAIN D[i].diff : \E n \in num : at[n] = b
    <3> SUFFICES ASSUME NEW b \in Change(base, W[i]) PROVE \E n \in num : at[n] = b
      BY <1>1
    <3>1. PICK n \in DOMAIN at : at[n] = b
      BY <1>5 DEF Change
    <3> QED
      BY <3>1, <1>6
  <2>4. \A n \in num : D[i].diff[at[n]] <=> n \notin x0
    <3> SUFFICES ASSUME NEW n \in num PROVE D[i].diff[at[n]] <=> n \notin x0
      OBVIOUS
    <3>1. D[i].diff[at[n]] = W[i][at[n]] /\ n \in DOMAIN at
      BY <1>1, <2>1, <2>2
    <3>2. W[i][at[n]] <=> n \in D[i].num
      BY <3>1, <1>4
    <3>3. n \in D[i].num <=> n \notin x0
      BY DEF Unlike
    <3> HIDE DEF x0, num
    <3> QED
      BY <3>1, <3>2, <3>3
  <2>5. \A m, n \in num : at[m] = at[n] => m = n
    BY <2>1, <1>0
  <2>6. DOMAIN D[i].diff = {at[n] : n \in num}
    <3> HIDE DEF num
    <3> QED
      BY <2>2, <2>3
  <2> HIDE DEF x0
  <2> QED
    BY <2>1, <2>4, <2>5, <2>6 DEF Explained
<1>10. ASSUME NEW n \in DOMAIN at PROVE \E i \in DOMAIN D : Unlike(D[i].num, x0) = {n}
  <2>1. Unlike(x0, {n}) \in SUBSET DOMAIN at
    BY DEF Unlike
  <2>2. PICK i \in DOMAIN D : D[i].num = Unlike(x0, {n})
    BY <2>1, <1>0
  <2> HIDE DEF x0
  <2>3. Unlike(Unlike(x0, {n}), x0) = {n}
    BY DEF Unlike
  <2> QED
    BY <2>2, <2>3
<1> HIDE DEF x0
<1> QED
  BY <1>8, <1>9, <1>10

\* The states of a pass that has the digits S to begin with and has gone through k
\* numbers, if the bits are those of `at`.
Finding(D, x, at, S, k) ==
    {a \in [at : {[n \in T |-> at[n]] : T \in SUBSET DOMAIN at}, ok : {TRUE}, progress : BOOLEAN, done : BOOLEAN] :
        /\ S \subseteq DOMAIN a.at
        /\ \A i \in 1..k : \A n \in DOMAIN at : Unlike(D[i].num, x) = {n} => n \in DOMAIN a.at
        /\ DOMAIN a.at = S \/ a.progress
        /\ a.done \/ DOMAIN at # S}

LEMMA FindingIs ==
    ASSUME NEW D, NEW x, NEW at, NEW S, NEW k, NEW T \in SUBSET DOMAIN at, NEW a,
           a.at = [n \in T |-> at[n]], a.ok = TRUE, a.progress \in BOOLEAN, a.done \in BOOLEAN,
           a = [at |-> a.at, ok |-> a.ok, progress |-> a.progress, done |-> a.done],
           S \subseteq T, \A i \in 1..k : \A n \in DOMAIN at : Unlike(D[i].num, x) = {n} => n \in T,
           T = S \/ a.progress, a.done \/ DOMAIN at # S
    PROVE  a \in Finding(D, x, at, S, k)
<1> DEFINE P == {[n \in U |-> at[n]] : U \in SUBSET DOMAIN at}
<1>1. a.at \in P /\ DOMAIN a.at = T
  OBVIOUS
<1> HIDE DEF P
<1>2. a \in [at : P, ok : {TRUE}, progress : BOOLEAN, done : BOOLEAN]
  BY <1>1
<1> QED
  BY <1>1, <1>2 DEF Finding, P

\* No step of it fails, and a number that is one digit away from the base's gives it.
LEMMA StepFinds ==
    ASSUME NEW D, NEW W, NEW base, Numbered(D, W, base), NEW at, NEW S,
           NEW k \in DOMAIN D, Explained(D[k], Xor(D), at),
           NEW a \in Finding(D, Xor(D), at, S, k - 1)
    PROVE  DigitStep(a, Xor(D), D[k]) \in Finding(D, Xor(D), at, S, k)
<1> DEFINE x == Xor(D)
           d == D[k]
           cur == a.at
           num == Unlike(d.num, x)
           old == num \cap DOMAIN cur
           open == num \ old
           rest == Without(d.diff, {cur[n] : n \in old})
           fits == /\ \A n \in old : cur[n] \in DOMAIN d.diff /\ d.diff[cur[n]] = (n \notin x)
                   /\ \A m, n \in old : cur[m] = cur[n] => m = n
           next == DigitStep(a, x, d)
           digit == CHOOSE n \in open : TRUE
           bit == CHOOSE c \in DOMAIN rest : TRUE
           found == [n \in DOMAIN cur \cup {digit} |-> IF n = digit THEN bit ELSE cur[n]]
<1>1. PICK T \in SUBSET DOMAIN at : cur = [n \in T |-> at[n]]
  BY DEF Finding
<1>2. DOMAIN cur = T /\ \A n \in T : cur[n] = at[n]
  BY <1>1
<1>3. /\ a.ok = TRUE /\ a.progress \in BOOLEAN /\ a.done \in BOOLEAN
      /\ a = [at |-> a.at, ok |-> a.ok, progress |-> a.progress, done |-> a.done]
  BY DEF Finding
<1>4. /\ S \subseteq T /\ (T = S \/ a.progress) /\ (a.done \/ DOMAIN at # S)
      /\ \A i \in 1..(k - 1) : \A n \in DOMAIN at : Unlike(D[i].num, x) = {n} => n \in T
  BY <1>2 DEF Finding
<1>5. k \in Nat /\ k # 0 /\ \A i \in 1..k : i = k \/ i \in 1..(k - 1)
  <2>1. k \in 1..Len(D) /\ Len(D) \in Nat
    BY DEF Numbered, Worded
  <2> QED
    BY <2>1
<1>6. IsFiniteSet(num)
  <2>1. x \in SUBSET Nat /\ IsFiniteSet(x)
    BY XorIs
  <2>2. d.num \in SUBSET Nat /\ IsFiniteSet(d.num)
    BY DEF Numbered
  <2> HIDE DEF x, d
  <2> QED
    BY <2>1, <2>2, UnlikeIs
<1>7. /\ num \subseteq DOMAIN at /\ DOMAIN d.diff = {at[n] : n \in num}
      /\ \A m, n \in num : at[m] = at[n] => m = n
      /\ \A n \in num : d.diff[at[n]] <=> n \notin x
  BY DEF Explained
<1>8. \A c \in DOMAIN d.diff : d.diff[c] \in BOOLEAN
  <2>1. d.diff = Puts(base, W[k]) /\ W[k] \in Words(base)
    BY DEF Numbered, Worded
  <2> HIDE DEF d
  <2> QED
    BY <2>1 DEF Puts, Change, Words
<1>9. DOMAIN rest = DOMAIN d.diff \ {cur[n] : n \in old} /\ \A c \in DOMAIN rest : rest[c] = d.diff[c]
  BY DEF Without
<1>10. \A i \in 1..k : \A n \in DOMAIN at : Unlike(D[i].num, x) = {n} => n \in T \/ num = {n}
  BY <1>4, <1>5
<1>11. old = num \cap T /\ open = num \ T /\ open \subseteq num
  BY <1>2
<1>12. \A n \in num : at[n] \in DOMAIN d.diff /\ d.diff[at[n]] = (n \notin x)
  <2> SUFFICES ASSUME NEW n \in num PROVE at[n] \in DOMAIN d.diff /\ d.diff[at[n]] = (n \notin x)
    OBVIOUS
  <2>1. at[n] \in DOMAIN d.diff
    BY <1>7
  <2>2. (d.diff[at[n]] <=> n \notin x) /\ d.diff[at[n]] \in BOOLEAN
    BY <2>1, <1>7, <1>8
  <2> HIDE DEF num, d, x
  <2> QED
    BY <2>1, <2>2
<1>13. fits
  <2>1. \A n \in old : n \in num /\ cur[n] = at[n]
    BY <1>2, <1>11
  <2> HIDE DEF old, num, cur, d, x
  <2> QED
    BY <2>1, <1>7, <1>12
<1>14. DOMAIN rest = {at[n] : n \in open}
  <2>1. {cur[n] : n \in old} = {at[n] : n \in old}
    <3>1. \A n \in old : cur[n] = at[n]
      BY <1>2, <1>11
    <3> HIDE DEF old, cur
    <3> QED
      BY <3>1
  <2>2. old \cup open = num /\ old \cap open = {}
    OBVIOUS
  <2> HIDE DEF rest, d, cur, old, open, num
  <2>3. DOMAIN rest = {at[n] : n \in num} \ {at[n] : n \in old}
    BY <1>7, <1>9, <2>1
  <2> QED
    BY <2>2, <2>3, <1>7
<1>15. CASE open = {}
  <2>1. rest = NoBits
    <3>1. DOMAIN rest = {}
      BY <1>14, <1>15
    <3> QED
      BY <3>1 DEF NoBits, Without
  <2>2. next = [a EXCEPT !.ok = (rest = NoBits)]
    BY <1>3, <1>13, <1>15 DEF DigitStep
  <2>3. next = a
    <3> HIDE DEF next, rest
    <3> QED
      BY <2>1, <2>2, <1>3
  <2>4. \A i \in 1..k : \A n \in DOMAIN at : Unlike(D[i].num, x) = {n} => n \in T
    <3>1. num \subseteq T
      BY <1>11, <1>15
    <3> HIDE DEF num, x
    <3> QED
      BY <3>1, <1>10
  <2>5. a \in Finding(D, x, at, S, k)
    <3> HIDE DEF x
    <3> QED
      BY <2>4, <1>1, <1>3, <1>4, FindingIs
  <2> QED
    BY <2>3, <2>5
<1>16. CASE open # {} /\ Cardinality(open) # 1
  <2>1. next = [a EXCEPT !.done = FALSE]
    BY <1>3, <1>13, <1>16 DEF DigitStep
  <2>2. /\ next.at = cur /\ next.ok = TRUE /\ next.progress = a.progress /\ next.done = FALSE
        /\ next = [at |-> next.at, ok |-> next.ok, progress |-> next.progress, done |-> next.done]
    <3> HIDE DEF next
    <3> QED
      BY <2>1, <1>3
  <2>3. \A n : open # {n}
    BY <1>16, FS_Singleton
  <2>4. \A i \in 1..k : \A n \in DOMAIN at : Unlike(D[i].num, x) = {n} => n \in T
    <3>1. \A n : num = {n} => n \in T
      <4> SUFFICES ASSUME NEW n, num = {n}, n \notin T PROVE open = {n}
        BY <2>3
      <4> HIDE DEF num, open
      <4> QED
        BY <1>11
    <3> HIDE DEF num, x
    <3> QED
      BY <3>1, <1>10
  <2>5. DOMAIN at # S
    <3> HIDE DEF num, open
    <3> QED
      BY <1>4, <1>7, <1>11, <1>16
  <2>6. next \in Finding(D, x, at, S, k)
    <3> HIDE DEF next, x
    <3> QED
      BY <2>2, <2>4, <2>5, <1>1, <1>3, <1>4, FindingIs
  <2> QED
    BY <2>6
<1>17. CASE Cardinality(open) = 1
  <2>1. open = {digit}
    <3>1. IsFiniteSet(open)
      BY <1>6, FS_Subset
    <3>2. \E n : open = {n}
      <4> HIDE DEF open
      <4> QED
        BY <1>17, <3>1, FS_Singleton
    <3> HIDE DEF open
    <3> QED
      BY <3>2
  <2>2. DOMAIN rest = {at[digit]}
    <3> HIDE DEF rest, open, digit
    <3> QED
      BY <2>1, <1>14
  <2>3. Cardinality(DOMAIN rest) = 1 /\ bit = at[digit]
    <3> HIDE DEF rest, digit
    <3> QED
      BY <2>2, FS_Singleton
  <2>4. digit \in num /\ digit \notin T /\ digit \in DOMAIN at
    <3> HIDE DEF open, digit, num
    <3> QED
      BY <2>1, <1>7, <1>11
  <2>5. rest[bit] = (digit \notin x)
    <3>1. rest[bit] = d.diff[at[digit]]
      BY <2>2, <2>3, <1>9
    <3> HIDE DEF rest, bit, digit, num, d, x
    <3> QED
      BY <3>1, <2>4, <1>12
  <2>6. next = [a EXCEPT !.ok = (rest[bit] = (digit \notin x)), !.progress = TRUE, !.at = found]
    <3>1. open # {}
      <4> HIDE DEF open, digit
      <4> QED
        BY <2>1
    <3> QED
      BY <2>3, <3>1, <1>3, <1>13, <1>17 DEF DigitStep
  <2> DEFINE U == T \cup {digit}
  <2>7. found = [n \in U |-> at[n]]
    <3>1. \A n \in U : (IF n = digit THEN bit ELSE cur[n]) = at[n]
      <4> HIDE DEF digit, bit, cur
      <4> QED
        BY <2>3, <1>2
    <3>2. DOMAIN cur \cup {digit} = U
      BY <1>2
    <3> HIDE DEF digit, bit, cur, U
    <3> QED
      BY <3>1, <3>2
  <2>8. /\ next.at = found /\ next.ok = TRUE /\ next.progress = TRUE /\ next.done = a.done
        /\ next = [at |-> next.at, ok |-> next.ok, progress |-> next.progress, done |-> next.done]
    <3> HIDE DEF next, rest, bit, digit, found, x
    <3> QED
      BY <2>5, <2>6, <1>3
  <2>9. \A i \in 1..k : \A n \in DOMAIN at : Unlike(D[i].num, x) = {n} => n \in U
    <3>1. \A n : num = {n} => n \in U
      <4> HIDE DEF num, digit
      <4> QED
        BY <2>4
    <3> HIDE DEF num, x, digit
    <3> QED
      BY <3>1, <1>10
  <2>10. U \in SUBSET DOMAIN at /\ S \subseteq U
    <3> HIDE DEF digit
    <3> QED
      BY <2>4, <1>4
  <2>11. next \in Finding(D, x, at, S, k)
    <3> HIDE DEF next, x, U, found
    <3> QED
      BY <2>7, <2>8, <2>9, <2>10, <1>3, <1>4, FindingIs
  <2> QED
    BY <2>11
<1> HIDE DEF next, open
<1> QED
  BY <1>15, <1>16, <1>17

LEMMA PassFinds ==
    ASSUME NEW D, NEW W, NEW base, Numbered(D, W, base), NEW at, Fitting(D, W, base, at),
           NEW S \in SUBSET DOMAIN at
    PROVE  /\ DigitPass(D, [n \in S |-> at[n]]) \in Finding(D, Xor(D), at, S, Len(D))
           /\ \A a \in Finding(D, Xor(D), at, S, Len(D)) : DOMAIN a.at = DOMAIN at /\ a.at = [n \in DOMAIN at |-> at[n]]
<1> DEFINE N == Len(D)
           P(k) == Finding(D, Xor(D), at, S, k)
           V == [k \in 0..N |-> P(k)]
           first == [at |-> [n \in S |-> at[n]], ok |-> TRUE, progress |-> FALSE, done |-> TRUE]
<1>1. N \in Nat /\ DOMAIN D = 1..N
  BY DEF Numbered, Worded
<1>2. first \in P(0)
  <2>1. /\ first.at = [n \in S |-> at[n]] /\ first.ok = TRUE /\ first.progress = FALSE /\ first.done = TRUE
        /\ first = [at |-> first.at, ok |-> first.ok, progress |-> first.progress, done |-> first.done]
    OBVIOUS
  <2> HIDE DEF first
  <2>2. \A i \in 1..0 : \A n \in DOMAIN at : Unlike(D[i].num, Xor(D)) = {n} => n \in S
    OBVIOUS
  <2>3. first \in Finding(D, Xor(D), at, S, 0)
    BY <2>1, <2>2, FindingIs
  <2> QED
    BY <2>3
<1>3. \A k \in 1..N : \A a \in P(k - 1) : DigitStep(a, Xor(D), D[k]) \in P(k)
  <2> SUFFICES ASSUME NEW k \in 1..N, NEW a \in P(k - 1) PROVE DigitStep(a, Xor(D), D[k]) \in P(k)
    OBVIOUS
  <2>1. k \in DOMAIN D
    BY <1>1
  <2>2. Explained(D[k], Xor(D), at)
    BY <2>1, FittingExplained
  <2> QED
    BY <2>1, <2>2, StepFinds
<1>4. ASSUME NEW a \in P(N) PROVE DOMAIN a.at = DOMAIN at /\ a.at = [n \in DOMAIN at |-> at[n]]
  <2>1. PICK T \in SUBSET DOMAIN at : a.at = [n \in T |-> at[n]]
    BY DEF Finding
  <2>2. \A i \in 1..N : \A n \in DOMAIN at : Unlike(D[i].num, Xor(D)) = {n} => n \in T
    BY <2>1 DEF Finding
  <2>3. \A n \in DOMAIN at : \E i \in DOMAIN D : Unlike(D[i].num, Xor(D)) = {n}
    BY FittingExplained
  <2>4. T = DOMAIN at
    BY <2>2, <2>3, <1>1
  <2> QED
    BY <2>1, <2>4
<1> HIDE DEF P, first
<1>5. V[0] = P(0) /\ V[N] = P(N) /\ \A k \in 1..N : V[k] = P(k) /\ V[k - 1] = P(k - 1)
  BY <1>1
<1> HIDE DEF V
<1>6. DigitPass(D, [n \in S |-> at[n]]) \in V[N]
  BY <1>1, <1>2, <1>3, <1>5, PassKeeps DEF first
<1> QED
  BY <1>4, <1>5, <1>6 DEF P

\* Two passes find everything: the numbers one digit away from the base's give the bits,
\* the others are then explained.
LEMMA IntSucceeds ==
    ASSUME NEW D, NEW W, NEW base, Numbered(D, W, base), NEW at, Fitting(D, W, base, at),
           DOMAIN at = 0..(Cardinality(DOMAIN at) - 1)
    PROVE  xlat_enum_int(D) # {}
<1> DEFINE N == Len(D)
           Q(S) == Finding(D, Xor(D), at, S, N)
           End == {a \in Q({}) \cup Q(DOMAIN at) : a.done}
           V == [k \in 0..(N + 1) |-> IF k = 0 THEN Q({}) ELSE End]
<1>1. N \in Nat
  BY DEF Numbered, Worded
<1>2. /\ {} \in SUBSET DOMAIN at /\ DOMAIN at \in SUBSET DOMAIN at
      /\ \A S \in SUBSET DOMAIN at : DigitPass(D, [n \in S |-> at[n]]) \in Q(S)
      /\ \A S \in SUBSET DOMAIN at : \A a \in Q(S) : DOMAIN a.at = DOMAIN at /\ a.at = [n \in DOMAIN at |-> at[n]]
  <2>1. ASSUME NEW S \in SUBSET DOMAIN at
        PROVE  /\ DigitPass(D, [n \in S |-> at[n]]) \in Q(S)
               /\ \A a \in Q(S) : DOMAIN a.at = DOMAIN at /\ a.at = [n \in DOMAIN at |-> at[n]]
    BY PassFinds
  <2> QED
    BY <2>1
<1>3. \A S : \A a \in Q(S) : a.ok /\ a.done \in BOOLEAN /\ (DOMAIN a.at = S \/ a.progress) /\ (a.done \/ DOMAIN at # S)
  BY DEF Finding
<1> HIDE DEF Q
<1>4. DigitPass(D, << >>) \in Q({})
  <2>1. << >> = [n \in {} |-> at[n]]
    OBVIOUS
  <2> QED
    BY <2>1, <1>2
<1>5. ASSUME NEW a \in Q({}) PROVE Again(D, a) \in End
  <2>1. CASE a.done
    BY <2>1, <1>3 DEF Again
  <2>2. CASE ~a.done
    <3>1. a.ok /\ a.progress
      BY <2>2, <1>2, <1>3
    <3>2. Again(D, a) = DigitPass(D, [n \in DOMAIN at |-> at[n]])
      BY <3>1, <2>2, <1>2 DEF Again
    <3>3. Again(D, a) \in Q(DOMAIN at)
      BY <3>2, <1>2
    <3>4. Again(D, a).done
      BY <3>3, <1>3
    <3> QED
      BY <3>3, <3>4
  <2> QED
    BY <2>1, <2>2, <1>3
<1>6. \A a \in End : Again(D, a) \in End
  BY DEF Again
<1> HIDE DEF End
<1>7. /\ V[0] = Q({}) /\ V[N + 1] = End
      /\ \A k \in 1..(N + 1) : V[k] = End /\ (V[k - 1] = Q({}) \/ V[k - 1] = End)
  BY <1>1
<1> HIDE DEF V
<1>8. \A k \in 1..(N + 1) : \A a \in V[k - 1] : Again(D, a) \in V[k]
  BY <1>5, <1>6, <1>7
<1>9. \E e \in V[N + 1] : xlat_enum_int(D) = IntItem(e)
  BY <1>1, <1>4, <1>7, <1>8, PassesKeep
<1>10. PICK end \in End : xlat_enum_int(D) = IntItem(end)
  BY <1>7, <1>9
<1>11. end.ok /\ end.done /\ DOMAIN end.at = DOMAIN at
  BY <1>2, <1>3 DEF End
<1>12. IntItem(end) # {}
  BY <1>11 DEF IntItem
<1> QED
  BY <1>10, <1>12

-----------------------------------------------------------------------------
(* What return_fuzzer makes of a true result.                              *)

\* What a slot has.
LEMMA SlotIs ==
    ASSUME case \in Cases, NEW s \in Slots
    PROVE  /\ case.slots[s].base \in Words(case.slots[s].base)
           /\ DOMAIN case.slots[s].base \in SUBSET (Nat \X Nat) /\ IsFiniteSet(DOMAIN case.slots[s].base)
           /\ Slots \subseteq Nat /\ 1 \in Slots
  BY SlotsAssumption, CasesAssumption DEF Slots, Words

LEMMA WordIs ==
    ASSUME case \in Cases, NEW s \in Slots, NEW p \in DOMAIN case.parts, NEW v \in Vals(p)
    PROVE  /\ case.slots[s].words[v] \in Seq(Words(case.slots[s].base))
           /\ Width(v) \in Nat /\ Len(case.slots[s].words[v]) = Width(v)
           /\ DOMAIN case.slots[s].words[v] = 1..Width(v)
           /\ \A n \in 1..Width(v) : case.slots[s].words[v][n] \in Words(case.slots[s].base)
           /\ case.slots[s].mode = "bitvec" \/ Width(v) = 1
<1> DEFINE slot == case.slots[s]
           B == Words(slot.base)
<1>1. PICK i \in DOMAIN case.parts[p] : v = case.parts[p][i]
  BY DEF Vals
<1>2. /\ slot.words[v] \in Seq(B)
      /\ Len(slot.words[v]) = Len(case.slots[1].words[v])
      /\ slot.mode = "bitvec" \/ Len(slot.words[v]) = 1
  BY <1>1, SlotsAssumption DEF Slots, Words
<1> HIDE DEF B, slot
<1>3. Len(slot.words[v]) \in Nat /\ DOMAIN slot.words[v] = 1..Len(slot.words[v])
      /\ \A n \in 1..Len(slot.words[v]) : slot.words[v][n] \in B
  <2> DEFINE q == slot.words[v]
  <2>1. q \in Seq(B)
    BY <1>2
  <2> HIDE DEF q
  <2>2. Len(q) \in Nat /\ DOMAIN q = 1..Len(q) /\ \A n \in 1..Len(q) : q[n] \in B
    BY <2>1
  <2> QED
    BY <2>2 DEF q
<1> QED
  BY <1>2, <1>3 DEF Width, slot, B

\* A position of a tile is one of its bits.
LEMMA PosIs ==
    ASSUME NEW t \in [from : Nat, size : Nat, flip : BOOLEAN], NEW o \in Nat, o < t.size
    PROVE  /\ xlat_pos_fwd(t, o) \in t.from..(t.from + t.size - 1)
           /\ xlat_pos_rev(t, xlat_pos_fwd(t, o)) = {o}
<1> DEFINE k == xlat_pos_fwd(t, o)
<1>1. t.from \in Nat /\ t.size \in Nat /\ t.flip \in BOOLEAN
  OBVIOUS
<1>2. CASE t.flip
  <2>1. k = t.from + t.size - 1 - o
    BY <1>2 DEF xlat_pos_fwd
  <2>2. k \in t.from..(t.from + t.size - 1) /\ t.size - 1 - (k - t.from) = o
    BY <1>1, <2>1
  <2> HIDE DEF k
  <2>3. xlat_pos_rev(t, k) = {t.size - 1 - (k - t.from)}
    BY <1>2, <2>2 DEF xlat_pos_rev
  <2> QED
    BY <2>2, <2>3 DEF k
<1>3. CASE ~t.flip
  <2>1. k = t.from + o
    BY <1>3 DEF xlat_pos_fwd
  <2>2. k \in t.from..(t.from + t.size - 1) /\ k - t.from = o
    BY <1>1, <2>1
  <2> HIDE DEF k
  <2>3. xlat_pos_rev(t, k) = {k - t.from}
    BY <1>3, <2>2 DEF xlat_pos_rev
  <2> QED
    BY <2>2, <2>3 DEF k
<1> QED
  BY <1>2, <1>3

\* Where a place has a bit x[2] of a slot x[1].
Position(fz, x) == xlat_pos_fwd(fz.place[x[1]][x[2][1]], x[2][2])

\* No other tile has it.
LEMMA HomeIs ==
    ASSUME case \in Cases, NEW fz, fz.place \in case.places,
           NEW s \in Slots, NEW b \in DOMAIN case.slots[s].base
    PROVE  /\ Homes(fz, Position(fz, <<s, b>>)) = {<<s, b[1]>>}
           /\ Home(fz, Position(fz, <<s, b>>)) = <<s, b[1]>>
           /\ xlat_pos_rev(fz.place[s][b[1]], Position(fz, <<s, b>>)) = {b[2]}
<1> DEFINE place == fz.place
           Tile == [from : Nat, size : Nat, flip : BOOLEAN]
           i == b[1]
           k == Position(fz, <<s, b>>)
<1>1. /\ DOMAIN place = Slots
      /\ \A t \in Slots : place[t] \in Seq(Tile)
      /\ b[1] \in DOMAIN place[s] /\ b[2] < place[s][b[1]].size
      /\ \A t, u \in Slots : \A j \in DOMAIN place[t], l \in DOMAIN place[u] :
            <<t, j>> # <<u, l>> =>
                \/ place[t][j].from + place[t][j].size <= place[u][l].from
                \/ place[u][l].from + place[u][l].size <= place[t][j].from
  BY PlacesAssumption DEF Slots
<1>2. b \in Nat \X Nat /\ Slots \subseteq Nat
  <2>1. DOMAIN case.slots[s].base \in SUBSET (Nat \X Nat) /\ Slots \subseteq Nat
    BY SlotIs
  <2> QED
    BY <2>1
<1>3. \A t \in Slots : \A j \in DOMAIN place[t] : place[t][j] \in Tile /\ j \in Nat
  <2> SUFFICES ASSUME NEW t \in Slots PROVE \A j \in DOMAIN place[t] : place[t][j] \in Tile /\ j \in Nat
    OBVIOUS
  <2> DEFINE q == place[t]
  <2>1. q \in Seq(Tile)
    BY <1>1
  <2> HIDE DEF q, Tile
  <2>2. \A j \in DOMAIN q : q[j] \in Tile /\ j \in Nat
    BY <2>1
  <2> QED
    BY <2>2 DEF q
<1>4. k = xlat_pos_fwd(place[s][i], b[2])
  BY DEF Position
<1> HIDE DEF k, place
<1>5. place[s][i] \in Tile /\ b[2] \in Nat /\ b[2] < place[s][i].size
  BY <1>1, <1>2, <1>3
<1>6. k \in place[s][i].from..(place[s][i].from + place[s][i].size - 1) /\ xlat_pos_rev(place[s][i], k) = {b[2]}
  BY <1>4, <1>5, PosIs
<1>7. \A t \in Slots : \A j \in DOMAIN place[t] : xlat_pos_rev(place[t][j], k) # {} => <<t, j>> = <<s, i>>
  <2> SUFFICES ASSUME NEW t \in Slots, NEW j \in DOMAIN place[t], xlat_pos_rev(place[t][j], k) # {}, <<t, j>> # <<s, i>>
               PROVE  FALSE
    OBVIOUS
  <2> DEFINE p == place[t][j]
             q == place[s][i]
  <2>1. k \in p.from..(p.from + p.size - 1)
    BY DEF xlat_pos_rev
  <2>2. p.from + p.size <= q.from \/ q.from + q.size <= p.from
    BY <1>1
  <2>3. p.from \in Nat /\ p.size \in Nat /\ q.from \in Nat /\ q.size \in Nat
    BY <1>3, <1>5
  <2>4. k \in q.from..(q.from + q.size - 1)
    BY <1>6
  <2> HIDE DEF p, q
  <2> QED
    BY <2>1, <2>2, <2>3, <2>4
<1>8. Homes(fz, k) = {<<s, i>>}
  <2> DEFINE All == UNION {{t} \X DOMAIN place[t] : t \in DOMAIN place}
  <2>1. Homes(fz, k) = {h \in All : xlat_pos_rev(place[h[1]][h[2]], k) # {}}
    BY DEF Homes, place
  <2>2. <<s, i>> \in All
    BY <1>1
  <2>3. \A h \in All : h[1] \in Slots /\ h[2] \in DOMAIN place[h[1]] /\ h = <<h[1], h[2]>>
    BY <1>1
  <2>4. <<s, i>>[1] = s /\ <<s, i>>[2] = i
    OBVIOUS
  <2>5. <<s, i>> \in Homes(fz, k)
    <3> HIDE DEF All, i
    <3>1. xlat_pos_rev(place[s][i], k) # {}
      BY <1>6
    <3> QED
      BY <2>1, <2>2, <2>4, <3>1
  <2>6. \A h \in Homes(fz, k) : h = <<s, i>>
    <3> HIDE DEF All, i
    <3> QED
      BY <2>1, <2>3, <1>7
  <2> HIDE DEF i
  <2> QED
    BY <2>5, <2>6
<1>9. Home(fz, k) = <<s, i>>
  <2> DEFINE S == {<<s, i>>}
  <2>1. S \in SUBSET (Nat \X Nat)
    BY <1>1, <1>2, <1>3
  <2>2. IsFiniteSet(S) /\ Cardinality(S) = 1
    BY FS_Singleton
  <2>3. Lists(Sorted(S), S)
    <3> HIDE DEF S
    <3> QED
      BY <2>1, <2>2, SortedLists
  <2>4. Sorted(S)[1] \in S
    <3> HIDE DEF S
    <3> QED
      BY <2>2, <2>3 DEF Lists
  <2> QED
    BY <2>4, <1>8 DEF Home
<1> QED
  BY <1>6, <1>8, <1>9 DEF k, place

\* What a fuzzer changes with its n-th word: bits of slots.
Spots(fz, n) == UNION {{s} \X Changed(s, case.slots[s].words[fz.val][n]) : s \in Slots}

LEMMA SpotsAre ==
    ASSUME case \in Cases, NEW p \in DOMAIN case.parts, NEW fz \in Fuzzers(p), NEW n \in 1..Width(fz.val)
    PROVE  /\ \A s \in Slots : Changed(s, case.slots[s].words[fz.val][n]) =
                                   Change(case.slots[s].base, case.slots[s].words[fz.val][n])
           /\ \A x \in Spots(fz, n) :
                 /\ x = <<x[1], x[2]>> /\ x[1] \in Slots /\ x[2] \in Nat \X Nat
                 /\ x[2] \in Changed(x[1], case.slots[x[1]].words[fz.val][n])
                 /\ x[2] \in DOMAIN case.slots[x[1]].base
           /\ \A s \in Slots : \A b \in Changed(s, case.slots[s].words[fz.val][n]) : <<s, b>> \in Spots(fz, n)
<1>1. fz.val \in Vals(p)
  BY DEF Fuzzers
<1>2. \A s \in Slots : case.slots[s].words[fz.val][n] \in Words(case.slots[s].base)
  BY <1>1, WordIs
<1>3. \A s \in Slots : Changed(s, case.slots[s].words[fz.val][n]) =
                                   Change(case.slots[s].base, case.slots[s].words[fz.val][n])
  BY <1>2 DEF Changed, Change, Words
<1>4. \A s \in Slots : Changed(s, case.slots[s].words[fz.val][n]) \subseteq DOMAIN case.slots[s].base
  BY <1>3 DEF Change
<1>5. \A s \in Slots : DOMAIN case.slots[s].base \subseteq Nat \X Nat
  BY SlotIs
<1>6. \A x \in Spots(fz, n) :
          /\ x = <<x[1], x[2]>> /\ x[1] \in Slots
          /\ x[2] \in Changed(x[1], case.slots[x[1]].words[fz.val][n])
  BY DEF Spots
<1>7. \A s \in Slots : \A b \in Changed(s, case.slots[s].words[fz.val][n]) : <<s, b>> \in Spots(fz, n)
  BY DEF Spots
<1> QED
  BY <1>3, <1>4, <1>5, <1>6, <1>7

\* They are all at positions of their own.
LEMMA SpotHome ==
    ASSUME case \in Cases, NEW p \in DOMAIN case.parts, NEW fz \in Fuzzers(p), NEW n \in 1..Width(fz.val)
    PROVE  /\ \A x \in Spots(fz, n) :
                 /\ Homes(fz, Position(fz, x)) # {}
                 /\ Home(fz, Position(fz, x)) = <<x[1], x[2][1]>>
                 /\ xlat_pos_rev(fz.place[x[1]][x[2][1]], Position(fz, x)) = {x[2][2]}
           /\ \A x, y \in Spots(fz, n) : Position(fz, x) = Position(fz, y) => x = y
<1>1. fz.place \in case.places
  BY DEF Fuzzers
<1>2. ASSUME NEW x \in Spots(fz, n)
      PROVE  /\ Homes(fz, Position(fz, x)) # {}
             /\ Home(fz, Position(fz, x)) = <<x[1], x[2][1]>>
             /\ xlat_pos_rev(fz.place[x[1]][x[2][1]], Position(fz, x)) = {x[2][2]}
  <2> DEFINE s == x[1]
             b == x[2]
  <2>1. s \in Slots /\ b \in DOMAIN case.slots[s].base /\ x = <<s, b>>
    BY SpotsAre
  <2> HIDE DEF s, b
  <2>2. /\ Homes(fz, Position(fz, <<s, b>>)) = {<<s, b[1]>>}
        /\ Home(fz, Position(fz, <<s, b>>)) = <<s, b[1]>>
        /\ xlat_pos_rev(fz.place[s][b[1]], Position(fz, <<s, b>>)) = {b[2]}
    BY <1>1, <2>1, HomeIs
  <2>3. /\ Homes(fz, Position(fz, x)) # {}
        /\ Home(fz, Position(fz, x)) = <<s, b[1]>>
        /\ xlat_pos_rev(fz.place[s][b[1]], Position(fz, x)) = {b[2]}
    BY <2>1, <2>2
  <2> QED
    BY <2>3 DEF s, b
<1>3. ASSUME NEW x \in Spots(fz, n), NEW y \in Spots(fz, n), Position(fz, x) = Position(fz, y)
      PROVE  x = y
  <2>1. <<x[1], x[2][1]>> = <<y[1], y[2][1]>>
    BY <1>2, <1>3
  <2>2. x[1] = y[1] /\ x[2][1] = y[2][1]
    BY <2>1
  <2>3. {x[2][2]} = {y[2][2]}
    BY <1>2, <1>3, <2>2
  <2>4. x[2] \in Nat \X Nat /\ y[2] \in Nat \X Nat /\ x = <<x[1], x[2]>> /\ y = <<y[1], y[2]>>
    BY SpotsAre
  <2>5. x[2] = y[2]
    BY <2>2, <2>3, <2>4
  <2> QED
    BY <2>2, <2>4, <2>5
<1> QED
  BY <1>2, <1>3

\* The bits of a true result are those of the spots.
LEMMA TrueBitsAre ==
    ASSUME case \in Cases, NEW p \in DOMAIN case.parts, NEW fz \in Fuzzers(p)
    PROVE  /\ DOMAIN TrueBits(fz) = 1..Width(fz.val)
           /\ \A n \in 1..Width(fz.val) :
                 /\ DOMAIN TrueBits(fz)[n] = {Position(fz, x) : x \in Spots(fz, n)}
                 /\ \A x \in Spots(fz, n) :
                       TrueBits(fz)[n][Position(fz, x)] = case.slots[x[1]].words[fz.val][n][x[2]]
<1> DEFINE Of(n, k) == CHOOSE y \in Spots(fz, n) : Position(fz, y) = k
           Bits(n) == [k \in {Position(fz, x) : x \in Spots(fz, n)} |->
                          case.slots[Of(n, k)[1]].words[fz.val][n][Of(n, k)[2]]]
<1>1. TrueBits(fz) = [n \in 1..Width(fz.val) |-> Bits(n)]
  BY DEF TrueBits, Spots, Position
<1>2. ASSUME NEW n \in 1..Width(fz.val), NEW x \in Spots(fz, n)
      PROVE  Bits(n)[Position(fz, x)] = case.slots[x[1]].words[fz.val][n][x[2]]
  <2>1. Of(n, Position(fz, x)) = x
    BY SpotHome
  <2>2. Position(fz, x) \in {Position(fz, y) : y \in Spots(fz, n)}
    OBVIOUS
  <2> HIDE DEF Of
  <2> QED
    BY <2>1, <2>2
<1>3. \A n \in 1..Width(fz.val) : DOMAIN Bits(n) = {Position(fz, x) : x \in Spots(fz, n)}
  OBVIOUS
<1> HIDE DEF Bits
<1> QED
  BY <1>1, <1>2, <1>3

\* Translated to the slots it is what each slot's configuration changes.
LEMMA TrueDiffs ==
    ASSUME case \in Cases, NEW p \in DOMAIN case.parts, NEW fz \in Fuzzers(p)
    PROVE  /\ Translates(fz, TrueBits(fz))
           /\ \A s \in Slots : FDiffs(fz, TrueBits(fz))[s] =
                 [n \in 1..Width(fz.val) |-> Puts(case.slots[s].base, case.slots[s].words[fz.val][n])]
<1> DEFINE bits == TrueBits(fz)
           Word(s, n) == case.slots[s].words[fz.val][n]
<1>1. DOMAIN bits = 1..Width(fz.val) /\ \A n \in 1..Width(fz.val) : DOMAIN bits[n] = {Position(fz, x) : x \in Spots(fz, n)}
  BY TrueBitsAre
<1>2. \A n \in 1..Width(fz.val) : \A x \in Spots(fz, n) : bits[n][Position(fz, x)] = Word(x[1], n)[x[2]]
  BY TrueBitsAre
<1> HIDE DEF bits
<1>3. Translates(fz, bits)
  <2>1. \A n \in 1..Width(fz.val) : \A x \in Spots(fz, n) : Homes(fz, Position(fz, x)) # {}
    BY SpotHome
  <2> QED
    BY <1>1, <2>1 DEF Translates
<1>4. DOMAIN fz.place = Slots
  BY PlacesAssumption DEF Fuzzers, Slots
<1>5. ASSUME NEW s \in Slots, NEW n \in 1..Width(fz.val)
      PROVE  FDiff(fz, bits[n], s) = Puts(case.slots[s].base, Word(s, n))
  <2> DEFINE S == Changed(s, Word(s, n))
             mine == {k \in DOMAIN bits[n] : Home(fz, k)[1] = s}
             At(k) == <<Home(fz, k)[2], CHOOSE o \in xlat_pos_rev(fz.place[s][Home(fz, k)[2]], k) : TRUE>>
             Pos(b) == Position(fz, <<s, b>>)
  <2>1. S = Change(case.slots[s].base, Word(s, n))
    BY SpotsAre
  <2>2. \A b \in S : <<s, b>> \in Spots(fz, n) /\ b \in Nat \X Nat
    <3>1. \A b \in S : <<s, b>> \in Spots(fz, n)
      BY SpotsAre
    <3>2. \A x \in Spots(fz, n) : x[2] \in Nat \X Nat
      BY SpotsAre
    <3> HIDE DEF S
    <3>3. \A b \in S : <<s, b>>[2] = b
      OBVIOUS
    <3> QED
      BY <3>1, <3>2, <3>3
  <2>3. ASSUME NEW b \in S PROVE Pos(b) \in mine /\ At(Pos(b)) = b /\ bits[n][Pos(b)] = Word(s, n)[b]
    <3> DEFINE x == <<s, b>>
    <3>1. x \in Spots(fz, n) /\ x[1] = s /\ x[2] = b /\ b \in Nat \X Nat
      BY <2>2
    <3> HIDE DEF x
    <3>2. Home(fz, Position(fz, x)) = <<x[1], x[2][1]>>
          /\ xlat_pos_rev(fz.place[x[1]][x[2][1]], Position(fz, x)) = {x[2][2]}
      BY <3>1, SpotHome
    <3>3. bits[n][Position(fz, x)] = Word(x[1], n)[x[2]] /\ Position(fz, x) \in DOMAIN bits[n]
      BY <3>1, <1>1, <1>2
    <3> DEFINE k == Position(fz, x)
    <3>4. Home(fz, k)[1] = s /\ Home(fz, k)[2] = b[1] /\ xlat_pos_rev(fz.place[s][b[1]], k) = {b[2]}
      BY <3>1, <3>2
    <3> HIDE DEF k
    <3>5. At(k) = <<b[1], b[2]>>
      BY <3>4
    <3>6. k \in mine /\ At(k) = b /\ bits[n][k] = Word(s, n)[b]
      <4>1. <<b[1], b[2]>> = b
        BY <3>1
      <4> HIDE DEF At, Word
      <4> QED
        BY <3>1, <3>3, <3>4, <3>5, <4>1 DEF k
    <3> HIDE DEF At, Word, mine
    <3> QED
      BY <3>6 DEF k, x
  <2>4. ASSUME NEW k \in mine PROVE \E b \in S : k = Pos(b)
    <3>1. PICK x \in Spots(fz, n) : k = Position(fz, x)
      BY <1>1
    <3>2. Home(fz, k) = <<x[1], x[2][1]>>
      BY <3>1, SpotHome
    <3>3. x[1] = s
      BY <3>2
    <3>4. x = <<x[1], x[2]>> /\ x[2] \in Changed(x[1], Word(x[1], n))
      BY SpotsAre
    <3>5. x[2] \in S /\ x = <<s, x[2]>>
      BY <3>3, <3>4
    <3> HIDE DEF S
    <3> QED
      BY <3>1, <3>5
  <2>5. FDiff(fz, bits[n], s) = [b \in {At(k) : k \in mine} |-> bits[n][CHOOSE k \in mine : At(k) = b]]
    BY DEF FDiff
  <2> HIDE DEF S, mine, At, Pos, Word
  <2>6. {At(k) : k \in mine} = S
    BY <2>3, <2>4
  <2>7. \A b \in S : (CHOOSE k \in mine : At(k) = b) = Pos(b)
    <3> SUFFICES ASSUME NEW b \in S PROVE (CHOOSE k \in mine : At(k) = b) = Pos(b)
      OBVIOUS
    <3>1. \A k \in mine : At(k) = b => k = Pos(b)
      BY <2>3, <2>4
    <3> QED
      BY <3>1, <2>3
  <2>8. FDiff(fz, bits[n], s) = [b \in S |-> Word(s, n)[b]]
    <3>1. FDiff(fz, bits[n], s) = [b \in S |-> bits[n][CHOOSE k \in mine : At(k) = b]]
      BY <2>5, <2>6
    <3>2. \A b \in S : bits[n][CHOOSE k \in mine : At(k) = b] = Word(s, n)[b]
      BY <2>3, <2>7
    <3> QED
      BY <3>1, <3>2
  <2> QED
    BY <2>1, <2>8 DEF Puts
<1>6. \A s \in Slots : FDiffs(fz, bits)[s] = [n \in 1..Width(fz.val) |-> FDiff(fz, bits[n], s)]
  BY <1>1, <1>4 DEF FDiffs
<1>7. \A s \in Slots : FDiffs(fz, bits)[s] = [n \in 1..Width(fz.val) |-> Puts(case.slots[s].base, Word(s, n))]
  <2> HIDE DEF Word
  <2> QED
    BY <1>5, <1>6
<1> QED
  BY <1>3, <1>7 DEF bits

-----------------------------------------------------------------------------
(* What a collector makes of true diffs.                                   *)

Base(s) == case.slots[s].base
Configured(s, v) == IF v = DefaultVal THEN Base(s) ELSE case.slots[s].words[v][1]

\* The configurations of all values, of all parts.
AllVals == UNION {Vals(p) : p \in DOMAIN case.parts}
Confs(s) == [v \in AllVals \cup {DefaultVal} |-> Configured(s, v)]

\* The bits on in the base that are seen to change.
OnSeen(s) == {b \in Seen(s, 1) : Base(s)[b]}

\* An item of the database that means what the device does.
Good(s, item) ==
    IF Enumeration(s) THEN Entry(item, Confs(s), Base(s), OnSeen(s))
    ELSE "values" \notin DOMAIN item /\ Decodes(s, item)

LEMMA ConfsAre ==
    ASSUME case \in Cases, NEW s \in Slots, case.slots[s].mode # "bitvec", NEW v \in DOMAIN Confs(s)
    PROVE  Confs(s)[v] = Configured(s, v) /\ Configured(s, v) \in Words(Base(s))
<1>1. CASE v = DefaultVal
  BY <1>1, SlotIs DEF Confs, Configured, Base
<1>2. CASE v # DefaultVal
  <2>4. v \in AllVals
    BY <1>2 DEF Confs
  <2>1. PICK p \in DOMAIN case.parts : v \in Vals(p)
    BY <2>4 DEF AllVals
  <2>2. Width(v) = 1 /\ \A n \in 1..Width(v) : case.slots[s].words[v][n] \in Words(case.slots[s].base)
    BY <2>1, WordIs
  <2>3. case.slots[s].words[v][1] \in Words(case.slots[s].base)
    BY <2>2
  <2> QED
    BY <1>2, <2>3 DEF Confs, Configured, Base
<1> QED
  BY <1>1, <1>2

LEMMA EntryDecodes ==
    ASSUME case \in Cases, NEW s \in Slots, Enumeration(s), NEW item, Entry(item, Confs(s), Base(s), OnSeen(s))
    PROVE  Decodes(s, item)
<1> DEFINE C == Confs(s)
           B == Base(s)
           W(v) == IF v = DefaultVal THEN case.slots[s].base ELSE case.slots[s].words[v][1]
<1>1. \A v \in DOMAIN item.values : C[v] = W(v) /\ W(v) \in Words(B)
  <2>1. case.slots[s].mode # "bitvec"
    BY DEF Enumeration
  <2> QED
    BY <2>1, ConfsAre DEF Entry, Configured, Base
<1>2. B \in Words(B)
  BY SlotIs DEF Base
<1>3. \A v \in DOMAIN item.values : \A b \in BitSet(item) : WordOff(item, v, b) = W(v)[b]
  <2> SUFFICES ASSUME NEW v \in DOMAIN item.values, NEW b \in BitSet(item) PROVE WordOff(item, v, b) = W(v)[b]
    OBVIOUS
  <2>1. b \in DOMAIN B /\ (B[b] => b \in OnSeen(s))
    BY DEF Entry
  <2>2. WordOff(item, v, b) = C[v][b]
    <3> HIDE DEF C, B
    <3> QED
      BY <1>2, <2>1, WordAtIs DEF C, B
  <2> QED
    BY <1>1, <2>2
<1>4. \A v \in DOMAIN item.values : Others(s, item, W(v))
  <2> SUFFICES ASSUME NEW v \in DOMAIN item.values PROVE Others(s, item, W(v))
    OBVIOUS
  <2>1. \A b \in DOMAIN B : b \notin BitSet(item) => C[v][b] = B[b]
    BY DEF Entry
  <2>2. DOMAIN W(v) = DOMAIN B
    BY <1>1 DEF Words
  <2> DEFINE w == W(v)
  <2>3. C[v] = w
    BY <1>1
  <2> HIDE DEF w, C
  <2>4. Others(s, item, w)
    BY <2>1, <2>2, <2>3 DEF Others, Base, w
  <2> QED
    BY <2>4 DEF w
<1>5. Decodes(s, item) <=> \A v \in DOMAIN item.values :
          (\A b \in BitSet(item) : WordOff(item, v, b) = W(v)[b]) /\ Others(s, item, W(v))
  BY DEF Decodes, WordOff, Enumeration
<1> HIDE DEF W
<1> QED
  BY <1>3, <1>4, <1>5

\* The other modes, one by one.
LEMMA VectorDecodes ==
    ASSUME NEW s, case.slots[s].mode = "bitvec", NEW item,
           VectorIs(s, item, [n \in DOMAIN item.bits |-> FALSE], Base(s)),
           \A n \in 1..Width(case.parts[1][1]) :
               VectorIs(s, item, [[k \in DOMAIN item.bits |-> FALSE] EXCEPT ![n] = TRUE],
                        case.slots[s].words[case.parts[1][1]][n])
    PROVE  Decodes(s, item)
  BY DEF Decodes, Enumeration, Base

LEMMA NumberDecodes ==
    ASSUME NEW s, case.slots[s].mode = "int", NEW item,
           \A i \in DOMAIN case.parts[1] :
               VectorIs(s, item, [n \in DOMAIN item.bits |-> (n - 1) \in Digits(case.parts[1][i])],
                        Configured(s, case.parts[1][i]))
    PROVE  Decodes(s, item)
  BY DEF Decodes, Enumeration, Base, Configured

LEMMA BooleanDecodes ==
    ASSUME NEW s, case.slots[s].mode \in {"bool", "wide", "mixed"}, NEW item,
           VectorIs(s, item, [n \in DOMAIN item.bits |-> FALSE], Configured(s, case.parts[1][1])),
           VectorIs(s, item, [n \in DOMAIN item.bits |-> TRUE], Configured(s, case.parts[1][2]))
    PROVE  Decodes(s, item)
  BY DEF Decodes, Enumeration, Base, Configured

\* What is known of an item's bits is what it decodes to.
LEMMA SwitchVector ==
    ASSUME NEW s, NEW item, NEW off \in Words(Base(s)), NEW on \in Words(Base(s)),
           Switches(item, Base(s), off, on)
    PROVE  /\ VectorIs(s, item, [n \in DOMAIN item.bits |-> FALSE], off)
           /\ VectorIs(s, item, [n \in DOMAIN item.bits |-> TRUE], on)
<1> DEFINE no == [n \in DOMAIN item.bits |-> FALSE]
           yes == [n \in DOMAIN item.bits |-> TRUE]
<1>1. \A b \in DOMAIN Base(s) : off[b] \in BOOLEAN /\ on[b] \in BOOLEAN
  BY DEF Words
<1>2. \A n \in DOMAIN item.bits : off[item.bits[n]] = (no[n] # item.invert[n]) /\ on[item.bits[n]] = (yes[n] # item.invert[n])
  <2> SUFFICES ASSUME NEW n \in DOMAIN item.bits
               PROVE  off[item.bits[n]] = (no[n] # item.invert[n]) /\ on[item.bits[n]] = (yes[n] # item.invert[n])
    OBVIOUS
  <2>1. no[n] = FALSE /\ yes[n] = TRUE
    OBVIOUS
  <2>2. off[item.bits[n]] \in BOOLEAN /\ on[item.bits[n]] \in BOOLEAN
    BY <1>1 DEF Switches
  <2>3. off[item.bits[n]] = item.invert[n] /\ on[item.bits[n]] = ~item.invert[n]
    BY DEF Switches
  <2>4. item.invert[n] \in BOOLEAN
    BY <2>2, <2>3
  <2> HIDE DEF no, yes
  <2> QED
    BY <2>1, <2>2, <2>3, <2>4
<1>3. Others(s, item, off) /\ Others(s, item, on)
  BY DEF Others, Switches, Base, Words
<1> HIDE DEF no, yes
<1>4. VectorIs(s, item, no, off) /\ VectorIs(s, item, yes, on)
  BY <1>2, <1>3 DEF VectorIs
<1> QED
  BY <1>4 DEF no, yes

LEMMA CountVector ==
    ASSUME NEW s, NEW item, NEW w \in Words(Base(s)), NEW num, Counts(item, Base(s), w, num)
    PROVE  VectorIs(s, item, [n \in DOMAIN item.bits |-> (n - 1) \in num], w)
<1> DEFINE x == [n \in DOMAIN item.bits |-> (n - 1) \in num]
<1>1. \A b \in DOMAIN Base(s) : w[b] \in BOOLEAN
  BY DEF Words
<1>2. \A n \in DOMAIN item.bits : w[item.bits[n]] = (x[n] # item.invert[n])
  <2> SUFFICES ASSUME NEW n \in DOMAIN item.bits PROVE w[item.bits[n]] = (x[n] # item.invert[n])
    OBVIOUS
  <2>1. x[n] = ((n - 1) \in num)
    OBVIOUS
  <2> DEFINE bit == item.bits[n]
             inverted == item.invert[n]
  <2>2. bit \in DOMAIN Base(s) /\ (w[bit] <=> (n - 1) \in num) /\ inverted = FALSE
    BY DEF Counts
  <2> HIDE DEF x, bit, inverted
  <2>3. w[bit] \in BOOLEAN
    BY <1>1, <2>2
  <2>4. CASE (n - 1) \in num
    BY <2>1, <2>2, <2>3, <2>4 DEF bit, inverted
  <2>5. CASE (n - 1) \notin num
    <3>1. x[n] = FALSE
      <4>1. ((n - 1) \in num) = FALSE
        BY <2>5
      <4> QED
        BY <2>1, <4>1, Zenon
    <3>2. w[bit] = FALSE
      BY <2>2, <2>3, <2>5
    <3> QED
      BY <3>1, <3>2, <2>2 DEF bit, inverted
  <2> QED
    BY <2>4, <2>5
<1>3. Others(s, item, w)
  BY DEF Others, Counts, Base, Words
<1> HIDE DEF x
<1>4. VectorIs(s, item, x, w)
  BY <1>2, <1>3 DEF VectorIs
<1> QED
  BY <1>4 DEF x

LEMMA ElementVector ==
    ASSUME NEW s, Base(s) \in Words(Base(s)), NEW item, NEW N \in Nat, DOMAIN item.bits = 1..N,
           NEW W, \A n \in 1..N : W[n] \in Words(Base(s)) /\ Element(item, n, Base(s), W[n]),
           \A m, n \in 1..N : m # n => Change(Base(s), W[m]) # Change(Base(s), W[n])
    PROVE  /\ VectorIs(s, item, [n \in DOMAIN item.bits |-> FALSE], Base(s))
           /\ \A n \in 1..N :
                 VectorIs(s, item, [[k \in DOMAIN item.bits |-> FALSE] EXCEPT ![n] = TRUE], W[n])
<1> DEFINE B == Base(s)
           no == [k \in DOMAIN item.bits |-> FALSE]
<1>1. \A b \in DOMAIN B : B[b] \in BOOLEAN
  BY DEF Words
<1>2. \A n \in 1..N : /\ item.bits[n] \in DOMAIN B /\ item.invert[n] \in BOOLEAN
                      /\ item.invert[n] = B[item.bits[n]]
  BY <1>1 DEF Element, Change
<1>3. VectorIs(s, item, no, B)
  <2>1. \A n \in DOMAIN item.bits : B[item.bits[n]] = (no[n] # item.invert[n])
    <3> SUFFICES ASSUME NEW n \in DOMAIN item.bits PROVE B[item.bits[n]] = (no[n] # item.invert[n])
      OBVIOUS
    <3>1. no[n] = FALSE
      OBVIOUS
    <3> HIDE DEF no, B
    <3> QED
      BY <3>1, <1>2
  <2>2. Others(s, item, B)
    BY DEF Others, Base
  <2> HIDE DEF no, B
  <2> QED
    BY <2>1, <2>2 DEF VectorIs
<1>4. ASSUME NEW n \in 1..N PROVE VectorIs(s, item, [no EXCEPT ![n] = TRUE], W[n])
  <2> DEFINE x == [no EXCEPT ![n] = TRUE]
             w == W[n]
  <2>1. w \in Words(B) /\ Change(B, w) = {item.bits[n]}
    BY DEF Element
  <2>2. \A b \in DOMAIN B : w[b] \in BOOLEAN
    BY <2>1 DEF Words
  <2>3. \A k \in DOMAIN item.bits : w[item.bits[k]] = (x[k] # item.invert[k])
    <3> SUFFICES ASSUME NEW k \in DOMAIN item.bits PROVE w[item.bits[k]] = (x[k] # item.invert[k])
      OBVIOUS
    <3>1. item.bits[k] \in DOMAIN B /\ w[item.bits[k]] \in BOOLEAN /\ item.invert[k] \in BOOLEAN
          /\ item.invert[k] = B[item.bits[k]] /\ B[item.bits[k]] \in BOOLEAN
      BY <1>1, <1>2, <2>2
    <3>2. CASE k = n
      <4>1. x[k] = TRUE
        BY <3>2
      <4>2. w[item.bits[k]] # B[item.bits[k]]
        BY <2>1, <3>2 DEF Change
      <4> HIDE DEF x, w, B
      <4> QED
        BY <3>1, <4>1, <4>2
    <3>3. CASE k # n
      <4>1. x[k] = FALSE
        BY <3>3
      <4>2. Change(B, W[k]) = {item.bits[k]} /\ Change(B, W[k]) # Change(B, w)
        BY <3>3 DEF Element
      <4>3. item.bits[k] \notin Change(B, w)
        BY <2>1, <4>2
      <4>4. w[item.bits[k]] = B[item.bits[k]]
        BY <3>1, <4>3 DEF Change
      <4> HIDE DEF x, w, B
      <4> QED
        BY <3>1, <4>1, <4>4
    <3> QED
      BY <3>2, <3>3
  <2>4. Others(s, item, w)
    <3>1. item.bits[n] \in BitSet(item)
      BY DEF BitSet
    <3>2. \A b \in DOMAIN B : b \notin BitSet(item) => w[b] = B[b]
      BY <2>1, <3>1 DEF Change
    <3>3. DOMAIN w = DOMAIN B
      BY <2>1 DEF Words
    <3> HIDE DEF w
    <3> QED
      BY <3>2, <3>3 DEF Others, Base
  <2> HIDE DEF x, w
  <2>5. VectorIs(s, item, x, w)
    BY <2>3, <2>4 DEF VectorIs
  <2> QED
    BY <2>5 DEF x, w
<1> QED
  BY <1>3, <1>4

\* The bits in which the values of a part are seen.
LEMMA SeenIs ==
    ASSUME case \in Cases, NEW s \in Slots, case.slots[s].mode # "bitvec", NEW p \in DOMAIN case.parts
    PROVE  Seen(s, p) = {b \in DOMAIN Base(s) : \E v \in Vals(p) : Configured(s, v)[b] # Base(s)[b]}
<1> DEFINE w(v) == case.slots[s].words[v][1]
<1>1. \A v \in Vals(p) : Width(v) = 1 /\ w(v) \in Words(Base(s)) /\ w(v) = Configured(s, v)
  <2> SUFFICES ASSUME NEW v \in Vals(p) PROVE Width(v) = 1 /\ w(v) \in Words(Base(s)) /\ w(v) = Configured(s, v)
    OBVIOUS
  <2>1. Width(v) = 1 /\ \A n \in 1..Width(v) : case.slots[s].words[v][n] \in Words(case.slots[s].base)
    BY WordIs
  <2>2. v # DefaultVal
    BY CasesAssumption DEF Vals
  <2>3. case.slots[s].words[v][1] \in Words(case.slots[s].base)
    BY <2>1
  <2> QED
    BY <2>1, <2>2, <2>3 DEF Configured, Base
<1>2. \A v \in Vals(p) : UNION {Changed(s, case.slots[s].words[v][n]) : n \in 1..Width(v)} = Changed(s, w(v))
  <2> SUFFICES ASSUME NEW v \in Vals(p)
               PROVE  UNION {Changed(s, case.slots[s].words[v][n]) : n \in 1..Width(v)} = Changed(s, w(v))
    OBVIOUS
  <2>1. 1..Width(v) = {1}
    BY <1>1
  <2> QED
    BY <2>1
<1>3. \A v \in Vals(p) : Changed(s, w(v)) = {b \in DOMAIN Base(s) : Configured(s, v)[b] # Base(s)[b]}
  <2> HIDE DEF w
  <2> QED
    BY <1>1 DEF Changed, Base, Words
<1>4. Seen(s, p) = UNION {Changed(s, w(v)) : v \in Vals(p)}
  BY <1>2 DEF Seen
<1> HIDE DEF w
<1> QED
  BY <1>3, <1>4

\* An enumeration's item, if what is on in the base is seen in all parts or in none.
LEMMA SpellsEntry ==
    ASSUME case \in Cases, NEW s \in Slots, Neutral(s), NEW p \in DOMAIN case.parts,
           NEW D, NEW W, Worded(D, W, Base(s)), Occurring(D) = Seen(s, p),
           \A i \in DOMAIN D : D[i].val \in DOMAIN Confs(s) /\ W[i] = Confs(s)[D[i].val],
           NEW item, Spells(item, D, W)
    PROVE  Entry(item, Confs(s), Base(s), OnSeen(s))
<1>1. 1 \in DOMAIN case.parts
  BY CasesAssumption
<1>2. OnSeen(s) = {b \in Seen(s, p) : Base(s)[b]}
  <2>1. \A b \in Seen(s, p) : Base(s)[b] => b \in Seen(s, 1)
    BY <1>1 DEF Neutral, Base
  <2>2. \A b \in Seen(s, 1) : Base(s)[b] => b \in Seen(s, p)
    BY <1>1 DEF Neutral, Base
  <2> QED
    BY <2>1, <2>2 DEF OnSeen
<1>3. BitSet(item) = Seen(s, p) /\ BitSet(item) \subseteq DOMAIN Base(s)
  BY WordedAre DEF Spells
<1>4. ASSUME NEW v \in DOMAIN item.values
      PROVE  /\ v \in DOMAIN Confs(s)
             /\ item.values[v] = [n \in DOMAIN item.bits |-> Confs(s)[v][item.bits[n]]]
             /\ \A b \in DOMAIN Base(s) : b \notin BitSet(item) => Confs(s)[v][b] = Base(s)[b]
  <2>1. PICK i \in DOMAIN D : v = D[i].val
    BY DEF Spells
  <2>2. v \in DOMAIN Confs(s) /\ W[i] = Confs(s)[v]
    BY <2>1
  <2>3. item.values[v] = [n \in DOMAIN item.bits |-> W[i][item.bits[n]]]
    BY <2>1 DEF Spells
  <2>4. \A b \in DOMAIN Base(s) : b \notin BitSet(item) => W[i][b] = Base(s)[b]
    BY SpellsShows DEF Shows
  <2> QED
    BY <2>2, <2>3, <2>4
<1>5. "values" \in DOMAIN item /\ \E n \in Nat : DOMAIN item.bits = 1..n
  BY DEF Spells
<1>6. OnSeen(s) = {b \in BitSet(item) : Base(s)[b]}
  BY <1>2, <1>3
<1> QED
  BY <1>3, <1>4, <1>5, <1>6 DEF Entry

\* The features of a slot are what the device does.
TrueFeatures(s) ==
    \A v \in Vals(part) : features[<<s, v>>].diffs =
        [n \in 1..Width(v) |-> Puts(Base(s), case.slots[s].words[v][n])]

LEMMA FeatureIs ==
    ASSUME case \in Cases, part \in DOMAIN case.parts, NEW s \in Slots, TrueFeatures(s),
           case.slots[s].mode # "bitvec", NEW v \in Vals(part)
    PROVE  /\ v \in DOMAIN Confs(s) /\ v # DefaultVal /\ Confs(s)[v] = Configured(s, v)
           /\ Configured(s, v) \in Words(Base(s))
           /\ Configured(s, v) = case.slots[s].words[v][1]
           /\ features[<<s, v>>].diffs[1] = Puts(Base(s), Configured(s, v))
<1>1. v # DefaultVal
  BY CasesAssumption DEF Vals
<1>2. v \in DOMAIN Confs(s)
  BY DEF Confs, AllVals
<1>3. Width(v) = 1
  BY WordIs
<1>4. Configured(s, v) = case.slots[s].words[v][1]
  BY <1>1 DEF Configured
<1>5. features[<<s, v>>].diffs[1] = Puts(Base(s), case.slots[s].words[v][1])
  <2>1. features[<<s, v>>].diffs = [n \in 1..1 |-> Puts(Base(s), case.slots[s].words[v][n])]
    BY <1>3 DEF TrueFeatures
  <2> QED
    BY <2>1
<1> QED
  BY <1>1, <1>2, <1>4, <1>5, ConfsAre

LEMMA PartIs ==
    ASSUME case \in Cases, NEW p \in DOMAIN case.parts
    PROVE  /\ Len(case.parts[p]) \in Nat /\ DOMAIN case.parts[p] = 1..Len(case.parts[p])
           /\ \A i \in DOMAIN case.parts[p] : case.parts[p][i] \in Nat /\ case.parts[p][i] \in Vals(p)
<1> DEFINE q == case.parts
           r == case.parts[p]
<1>1. q \in Seq(Seq(Nat))
  BY CasesAssumption
<1>2. r \in Seq(Nat)
  <2> HIDE DEF q
  <2>1. \A k \in DOMAIN q : q[k] \in Seq(Nat)
    BY <1>1
  <2> QED
    BY <2>1 DEF q
<1>3. Len(r) \in Nat /\ DOMAIN r = 1..Len(r) /\ \A i \in DOMAIN r : r[i] \in Nat
  <2> HIDE DEF r
  <2> QED
    BY <1>2
<1> QED
  BY <1>3 DEF Vals

\* The diffs by their values' names.
Named(s, vals) == [i \in DOMAIN vals |-> [val |-> vals[i], diff |-> features[<<s, vals[i]>>].diffs[1]]]

LEMMA NamedAre ==
    ASSUME case \in Cases, part \in DOMAIN case.parts, NEW s \in Slots, TrueFeatures(s),
           case.slots[s].mode # "bitvec"
    PROVE  LET vals == case.parts[part]
               D == Named(s, vals)
           IN /\ Len(D) = Len(vals) /\ DOMAIN D = DOMAIN vals
              /\ \A i \in DOMAIN vals :
                    /\ D[i].val = vals[i] /\ vals[i] \in Vals(part)
                    /\ D[i].diff = Puts(Base(s), Configured(s, vals[i]))
                    /\ Configured(s, vals[i]) \in Words(Base(s))
                    /\ vals[i] \in DOMAIN Confs(s) /\ Configured(s, vals[i]) = Confs(s)[vals[i]]
<1> DEFINE vals == case.parts[part]
           D == Named(s, vals)
<1>1. Len(vals) \in Nat /\ DOMAIN vals = 1..Len(vals) /\ \A i \in DOMAIN vals : vals[i] \in Vals(part)
  BY PartIs
<1> HIDE DEF vals
<1>2. Len(D) = Len(vals) /\ DOMAIN D = DOMAIN vals
  BY <1>1 DEF Named
<1>3. ASSUME NEW i \in DOMAIN vals
      PROVE  /\ D[i].val = vals[i] /\ vals[i] \in Vals(part)
             /\ D[i].diff = Puts(Base(s), Configured(s, vals[i]))
             /\ Configured(s, vals[i]) \in Words(Base(s))
             /\ vals[i] \in DOMAIN Confs(s) /\ Configured(s, vals[i]) = Confs(s)[vals[i]]
  <2>1. vals[i] \in Vals(part)
    BY <1>1
  <2>2. D[i] = [val |-> vals[i], diff |-> features[<<s, vals[i]>>].diffs[1]]
    BY DEF Named
  <2> HIDE DEF D
  <2>3. D[i].val = vals[i] /\ D[i].diff = features[<<s, vals[i]>>].diffs[1]
    BY <2>2
  <2> QED
    BY <2>1, <2>3, FeatureIs
<1> HIDE DEF D
<1> QED
  BY <1>2, <1>3 DEF vals, D

\* A collector of an enumeration takes the values D with their configurations W.
Collected(s, D, W) ==
    /\ \E mode : Extract(s, case.parts[part]) = xlat_enum_ocd(D, mode)
    /\ Worded(D, W, Base(s)) /\ Occurring(D) = Seen(s, part)
    /\ \A i \in DOMAIN D : D[i].val \in DOMAIN Confs(s) /\ W[i] = Confs(s)[D[i].val]

LEMMA NamedCollected ==
    ASSUME case \in Cases, part \in DOMAIN case.parts, NEW s \in Slots, TrueFeatures(s),
           case.slots[s].mode \in {"bit", "value", "mux"}
    PROVE  \E D, W : Collected(s, D, W)
<1> DEFINE vals == case.parts[part]
           D == Named(s, vals)
           W == [i \in DOMAIN vals |-> Configured(s, vals[i])]
<1>1. Extract(s, vals) = xlat_enum_ocd(D, case.slots[s].mode)
  BY DEF Extract, Named
<1>2. case.slots[s].mode # "bitvec" /\ Enumeration(s)
  BY DEF Enumeration
<1>3. /\ Len(D) = Len(vals) /\ DOMAIN D = DOMAIN vals
      /\ \A i \in DOMAIN vals :
            /\ D[i].val = vals[i] /\ vals[i] \in Vals(part)
            /\ D[i].diff = Puts(Base(s), Configured(s, vals[i]))
            /\ Configured(s, vals[i]) \in Words(Base(s))
            /\ vals[i] \in DOMAIN Confs(s) /\ Configured(s, vals[i]) = Confs(s)[vals[i]]
  BY <1>2, NamedAre
<1>4. Len(vals) \in Nat /\ DOMAIN vals = 1..Len(vals)
  BY PartIs
<1>5. Vals(part) = {vals[i] : i \in DOMAIN vals}
  BY DEF Vals
<1> HIDE DEF D, vals
<1>6. Worded(D, W, Base(s))
  BY <1>3, <1>4, SlotIs DEF Worded, Base
<1>7. \A i \in DOMAIN D : D[i].val \in DOMAIN Confs(s) /\ W[i] = Confs(s)[D[i].val]
  BY <1>3
<1>8. Occurring(D) = Seen(s, part)
  <2>1. Occurring(D) = {b \in DOMAIN Base(s) : \E i \in DOMAIN D : W[i][b] # Base(s)[b]}
    BY <1>6, WordedAre
  <2>2. Seen(s, part) = {b \in DOMAIN Base(s) : \E v \in Vals(part) : Configured(s, v)[b] # Base(s)[b]}
    BY <1>2, SeenIs
  <2>3. \A i \in DOMAIN D : W[i] = Configured(s, vals[i])
    BY <1>3
  <2> HIDE DEF W
  <2>4. ASSUME NEW b \in DOMAIN Base(s)
        PROVE  (\E i \in DOMAIN D : W[i][b] # Base(s)[b]) <=> \E v \in Vals(part) : Configured(s, v)[b] # Base(s)[b]
    BY <2>3, <1>3, <1>5
  <2> QED
    BY <2>1, <2>2, <2>4
<1> HIDE DEF W
<1>9. Collected(s, D, W)
  BY <1>1, <1>6, <1>7, <1>8 DEF Collected, vals
<1> QED
  BY <1>9

LEMMA Prepended ==
    ASSUME NEW S, NEW e \in S, NEW q \in Seq(S)
    PROVE  /\ Len(<<e>> \o q) = Len(q) + 1 /\ DOMAIN (<<e>> \o q) = 1..(Len(q) + 1)
           /\ (<<e>> \o q)[1] = e
           /\ \A i \in 1..Len(q) : (<<e>> \o q)[i + 1] = q[i]
<1> DEFINE r == <<e>> \o q
<1>1. r \in Seq(S) /\ Len(r) = Len(q) + 1 /\ Len(q) \in Nat
  OBVIOUS
<1>2. DOMAIN r = 1..(Len(q) + 1)
  <2> HIDE DEF r
  <2> QED
    BY <1>1
<1>3. r[1] = e
  OBVIOUS
<1>4. \A i \in 1..Len(q) : r[i + 1] = q[i]
  OBVIOUS
<1> QED
  BY <1>1, <1>2, <1>3, <1>4

LEMMA DefaultCollected ==
    ASSUME case \in Cases, part \in DOMAIN case.parts, NEW s \in Slots, TrueFeatures(s),
           case.slots[s].mode = "default"
    PROVE  \E D, W : Collected(s, D, W)
<1> DEFINE vals == case.parts[part]
           E == Named(s, vals)
           N == Len(vals)
           D == <<[val |-> DefaultVal, diff |-> NoBits]>> \o E
           W == [i \in 1..(N + 1) |-> IF i = 1 THEN Base(s) ELSE Configured(s, vals[i - 1])]
<1>1. Extract(s, vals) = xlat_enum_ocd(D, "value")
  BY DEF Extract, Named
<1>2. case.slots[s].mode # "bitvec" /\ Enumeration(s)
  BY DEF Enumeration
<1>3. /\ Len(E) = Len(vals) /\ DOMAIN E = DOMAIN vals
      /\ \A i \in DOMAIN vals :
            /\ E[i].val = vals[i] /\ vals[i] \in Vals(part)
            /\ E[i].diff = Puts(Base(s), Configured(s, vals[i]))
            /\ Configured(s, vals[i]) \in Words(Base(s))
            /\ vals[i] \in DOMAIN Confs(s) /\ Configured(s, vals[i]) = Confs(s)[vals[i]]
  BY <1>2, NamedAre
<1>4. Len(vals) \in Nat /\ DOMAIN vals = 1..Len(vals)
  BY PartIs
<1>5. Vals(part) = {vals[i] : i \in DOMAIN vals}
  BY DEF Vals
<1>6. Base(s) \in Words(Base(s)) /\ DOMAIN Base(s) \in SUBSET (Nat \X Nat) /\ IsFiniteSet(DOMAIN Base(s))
  BY SlotIs DEF Base
<1>7. NoBits = Puts(Base(s), Base(s)) /\ DefaultVal \in DOMAIN Confs(s) /\ Base(s) = Confs(s)[DefaultVal]
  <2>1. Change(Base(s), Base(s)) = {}
    BY DEF Change
  <2> QED
    BY <2>1 DEF Puts, NoBits, Confs, Configured
<1> HIDE DEF E, vals
<1>8. /\ Len(D) = N + 1 /\ DOMAIN D = 1..(N + 1)
      /\ D[1] = [val |-> DefaultVal, diff |-> NoBits]
      /\ \A i \in 1..N : D[i + 1] = E[i]
  <2> DEFINE e == [val |-> DefaultVal, diff |-> NoBits]
             S == {E[i] : i \in 1..N} \cup {e}
  <2>1. e \in S
    OBVIOUS
  <2>2. E = [i \in 1..N |-> E[i]]
    BY <1>4 DEF E, Named
  <2>3. \A i \in 1..N : E[i] \in S
    OBVIOUS
  <2> HIDE DEF S, e
  <2>4. E \in Seq(S)
    BY <2>2, <2>3, <1>4
  <2>5. Len(E) = N /\ D = <<e>> \o E
    BY <1>3 DEF e
  <2> HIDE DEF D, N
  <2>6. Len(D) = N + 1 /\ DOMAIN D = 1..(N + 1) /\ D[1] = e /\ \A i \in 1..N : D[i + 1] = E[i]
    BY <2>1, <2>4, <2>5, Prepended
  <2> QED
    BY <2>6 DEF e
<1>9. \A i \in DOMAIN D : i # 1 => i - 1 \in DOMAIN vals /\ D[i] = E[i - 1] /\ W[i] = Configured(s, vals[i - 1])
  <2> SUFFICES ASSUME NEW i \in DOMAIN D, i # 1
               PROVE  i - 1 \in DOMAIN vals /\ D[i] = E[i - 1] /\ W[i] = Configured(s, vals[i - 1])
    OBVIOUS
  <2>1. i - 1 \in 1..N /\ i \in 1..(N + 1) /\ (i - 1) + 1 = i
    BY <1>4, <1>8
  <2> HIDE DEF D
  <2> QED
    BY <2>1, <1>4, <1>8
<1>10. DOMAIN W = DOMAIN D /\ W[1] = Base(s) /\ 1 \in DOMAIN D /\ \A i \in 1..N : i + 1 \in DOMAIN D /\ W[i + 1] = Configured(s, vals[i])
  BY <1>4, <1>8
<1>11. W \in [DOMAIN D -> Words(Base(s))]
  <2>1. \A i \in DOMAIN D : W[i] \in Words(Base(s))
    <3> HIDE DEF W, D
    <3> QED
      BY <1>3, <1>6, <1>9, <1>10
  <2>2. W = [i \in DOMAIN D |-> W[i]]
    BY <1>10
  <2> HIDE DEF W, D
  <2> QED
    BY <2>1, <2>2
<1> HIDE DEF D, W
<1>12. D[1].val = DefaultVal /\ D[1].diff = NoBits
  BY <1>8
<1>13. Worded(D, W, Base(s))
  <2>1. \A i \in DOMAIN D : D[i].diff = Puts(Base(s), W[i])
    BY <1>3, <1>7, <1>9, <1>10, <1>12
  <2>2. Len(D) \in Nat /\ DOMAIN D = 1..Len(D)
    BY <1>4, <1>8
  <2> QED
    BY <2>1, <2>2, <1>6, <1>11 DEF Worded
<1>14. \A i \in DOMAIN D : D[i].val \in DOMAIN Confs(s) /\ W[i] = Confs(s)[D[i].val]
  BY <1>3, <1>7, <1>9, <1>10, <1>12
<1>15. Occurring(D) = Seen(s, part)
  <2>1. Occurring(D) = {b \in DOMAIN Base(s) : \E i \in DOMAIN D : W[i][b] # Base(s)[b]}
    BY <1>13, WordedAre
  <2>2. Seen(s, part) = {b \in DOMAIN Base(s) : \E v \in Vals(part) : Configured(s, v)[b] # Base(s)[b]}
    BY <1>2, SeenIs
  <2>3. ASSUME NEW b \in DOMAIN Base(s)
        PROVE  (\E i \in DOMAIN D : W[i][b] # Base(s)[b]) <=> \E v \in Vals(part) : Configured(s, v)[b] # Base(s)[b]
    <3>1. ASSUME NEW i \in DOMAIN D, W[i][b] # Base(s)[b] PROVE \E v \in Vals(part) : Configured(s, v)[b] # Base(s)[b]
      <4>1. i # 1
        BY <3>1, <1>10
      <4>2. i - 1 \in DOMAIN vals /\ W[i] = Configured(s, vals[i - 1])
        BY <4>1, <1>9
      <4>3. vals[i - 1] \in Vals(part) /\ Configured(s, vals[i - 1])[b] # Base(s)[b]
        BY <4>2, <3>1, <1>3
      <4> QED
        BY <4>3
    <3>2. ASSUME NEW v \in Vals(part), Configured(s, v)[b] # Base(s)[b] PROVE \E i \in DOMAIN D : W[i][b] # Base(s)[b]
      <4>1. PICK i \in DOMAIN vals : v = vals[i]
        BY <1>5
      <4>2. i + 1 \in DOMAIN D /\ W[i + 1] = Configured(s, v)
        BY <4>1, <1>4, <1>10
      <4> QED
        BY <4>2, <3>2
    <3> QED
      BY <3>1, <3>2
  <2> QED
    BY <2>1, <2>2, <2>3
<1>16. Collected(s, D, W)
  BY <1>1, <1>13, <1>14, <1>15 DEF Collected, vals
<1> QED
  BY <1>16

LEMMA EnumGood ==
    ASSUME case \in Cases, part \in DOMAIN case.parts, NEW s \in Slots, TrueFeatures(s), Neutral(s),
           Enumeration(s), NEW item \in Extract(s, case.parts[part])
    PROVE  Good(s, item)
<1>1. PICK D, W : Collected(s, D, W)
  BY NamedCollected, DefaultCollected DEF Enumeration
<1>2. Worded(D, W, Base(s)) /\ \E mode : item \in xlat_enum_ocd(D, mode)
  BY <1>1 DEF Collected
<1>3. Spells(item, D, W)
  BY <1>2, EnumSpells
<1>4. Entry(item, Confs(s), Base(s), OnSeen(s))
  BY <1>1, <1>3, SpellsEntry DEF Collected
<1> QED
  BY <1>4 DEF Good

LEMMA DigitsAre ==
    ASSUME NEW v \in Nat
    PROVE  Digits(v) \in SUBSET Nat /\ IsFiniteSet(Digits(v))
<1>1. IsFiniteSet(0..v)
  <2>1. 0 \in Int /\ v \in Int
    OBVIOUS
  <2> QED
    BY <2>1, FS_Interval
<1>2. Digits(v) \in SUBSET (0..v)
  BY DEF Digits
<1> QED
  BY <1>1, <1>2, FS_Subset

\* Any two digits of the numbers are together in one and both missing from one.
TellApart(vals) ==
    \A m, n \in UNION {Digits(vals[i]) : i \in DOMAIN vals} : m # n =>
        /\ \E i \in DOMAIN vals : {m, n} \subseteq Digits(vals[i])
        /\ \E i \in DOMAIN vals : {m, n} \cap Digits(vals[i]) = {}

\* The mode and the values of what is no enumeration.
LEMMA ModeIs ==
    ASSUME case \in Cases, part \in DOMAIN case.parts, NEW s \in Slots, ~Enumeration(s)
    PROVE  /\ case.parts[part] = case.parts[1]
           /\ \/ case.slots[s].mode = "bitvec" /\ Len(case.parts[1]) = 1
              \/ case.slots[s].mode \in {"bool", "wide", "mixed"} /\ Len(case.parts[1]) = 2
              \/ case.slots[s].mode = "int" /\ TellApart(case.parts[1])
<1> DEFINE mode == case.slots[s].mode
           vals == case.parts[1]
           numbers == {Digits(vals[i]) : i \in DOMAIN vals}
<1>1. /\ case.parts[part] = vals
      /\ \/ mode = "bitvec" /\ Len(vals) = 1
         \/ mode \in {"bool", "wide", "mixed"} /\ Len(vals) = 2
         \/ /\ mode = "int"
            /\ \A m, n \in UNION numbers : m # n =>
                  /\ \E x \in numbers : {m, n} \subseteq x
                  /\ \E x \in numbers : {m, n} \cap x = {}
  BY ModesAssumption DEF Enumeration, Slots
<1>2. ASSUME \A m, n \in UNION numbers : m # n =>
                /\ \E x \in numbers : {m, n} \subseteq x
                /\ \E x \in numbers : {m, n} \cap x = {}
      PROVE  \A m, n \in UNION numbers : m # n =>
                /\ \E i \in DOMAIN vals : {m, n} \subseteq Digits(vals[i])
                /\ \E i \in DOMAIN vals : {m, n} \cap Digits(vals[i]) = {}
  BY <1>2
<1> HIDE DEF vals
<1>3. /\ case.parts[part] = vals
      /\ \/ mode = "bitvec" /\ Len(vals) = 1
         \/ mode \in {"bool", "wide", "mixed"} /\ Len(vals) = 2
         \/ mode = "int" /\ TellApart(vals)
  BY <1>1, <1>2 DEF TellApart
<1> QED
  BY <1>3 DEF vals

LEMMA NumberGood ==
    ASSUME case \in Cases, part \in DOMAIN case.parts, NEW s \in Slots, TrueFeatures(s),
           case.slots[s].mode = "int", NEW item \in Extract(s, case.parts[part])
    PROVE  Good(s, item)
<1> DEFINE vals == case.parts[part]
           D == [i \in DOMAIN vals |-> [num |-> Digits(vals[i]), diff |-> features[<<s, vals[i]>>].diffs[1]]]
           W == [i \in DOMAIN vals |-> Configured(s, vals[i])]
<1>1. item \in xlat_enum_int(D)
  BY DEF Extract
<1>2. case.slots[s].mode # "bitvec" /\ ~Enumeration(s)
  BY DEF Enumeration
<1>3. Len(vals) \in Nat /\ DOMAIN vals = 1..Len(vals) /\ \A i \in DOMAIN vals : vals[i] \in Nat /\ vals[i] \in Vals(part)
  BY PartIs
<1>4. vals = case.parts[1] /\ TellApart(vals)
  <2>1. vals = case.parts[1] /\ TellApart(case.parts[1])
    BY <1>2, ModeIs
  <2> HIDE DEF vals
  <2> QED
    BY <2>1
<1> HIDE DEF vals
<1>5. \A i \in DOMAIN vals :
          /\ D[i].num = Digits(vals[i]) /\ D[i].diff = Puts(Base(s), W[i]) /\ W[i] = Configured(s, vals[i])
          /\ W[i] \in Words(Base(s))
  <2> SUFFICES ASSUME NEW i \in DOMAIN vals
               PROVE  /\ D[i].num = Digits(vals[i]) /\ D[i].diff = Puts(Base(s), W[i]) /\ W[i] = Configured(s, vals[i])
                      /\ W[i] \in Words(Base(s))
    OBVIOUS
  <2>1. /\ features[<<s, vals[i]>>].diffs[1] = Puts(Base(s), Configured(s, vals[i]))
        /\ Configured(s, vals[i]) \in Words(Base(s))
    BY <1>2, <1>3, FeatureIs
  <2>2. D[i].num = Digits(vals[i]) /\ D[i].diff = features[<<s, vals[i]>>].diffs[1] /\ W[i] = Configured(s, vals[i])
    OBVIOUS
  <2> HIDE DEF D, W
  <2> QED
    BY <2>1, <2>2
<1>6. Len(D) = Len(vals) /\ DOMAIN D = DOMAIN vals
  BY <1>3
<1>7. W \in [DOMAIN vals -> Words(Base(s))]
  BY <1>5
<1> HIDE DEF D, W
<1>8. Worded(D, W, Base(s))
  BY <1>3, <1>5, <1>6, <1>7, SlotIs DEF Worded, Base
<1>9. Numbered(D, W, Base(s))
  <2>1. \A i \in DOMAIN D : D[i].num \in SUBSET Nat /\ IsFiniteSet(D[i].num)
    BY <1>3, <1>5, <1>6, DigitsAre
  <2> QED
    BY <2>1, <1>8 DEF Numbered
<1>10. Apart(D)
  <2>1. \A i \in DOMAIN vals : D[i].num = Digits(vals[i])
    BY <1>5
  <2> SUFFICES ASSUME NEW m \in UNION {D[i].num : i \in DOMAIN D}, NEW n \in UNION {D[i].num : i \in DOMAIN D}, m # n
               PROVE  /\ \E i \in DOMAIN D : {m, n} \subseteq D[i].num
                      /\ \E i \in DOMAIN D : {m, n} \cap D[i].num = {}
    BY DEF Apart
  <2>2. m \in UNION {Digits(vals[i]) : i \in DOMAIN vals} /\ n \in UNION {Digits(vals[i]) : i \in DOMAIN vals}
    BY <2>1, <1>6
  <2>3. /\ \E i \in DOMAIN vals : {m, n} \subseteq Digits(vals[i])
        /\ \E i \in DOMAIN vals : {m, n} \cap Digits(vals[i]) = {}
    BY <2>2, <1>4 DEF TellApart
  <2> QED
    BY <2>1, <2>3, <1>6
<1>11. Vectorial(item) /\ \A i \in DOMAIN D : Counts(item, Base(s), W[i], D[i].num)
  BY <1>1, <1>9, <1>10, IntIs
<1>12. \A i \in DOMAIN vals :
           VectorIs(s, item, [n \in DOMAIN item.bits |-> (n - 1) \in Digits(vals[i])], Configured(s, vals[i]))
  <2> SUFFICES ASSUME NEW i \in DOMAIN vals
               PROVE  VectorIs(s, item, [n \in DOMAIN item.bits |-> (n - 1) \in Digits(vals[i])], Configured(s, vals[i]))
    OBVIOUS
  <2> DEFINE w == Configured(s, vals[i])
             num == Digits(vals[i])
  <2>1. w \in Words(Base(s)) /\ Counts(item, Base(s), w, num)
    BY <1>5, <1>6, <1>11
  <2> HIDE DEF w, num
  <2>2. VectorIs(s, item, [n \in DOMAIN item.bits |-> (n - 1) \in num], w)
    BY <2>1, CountVector
  <2> QED
    BY <2>2 DEF w, num
<1>13. Decodes(s, item)
  BY <1>4, <1>12, NumberDecodes
<1> QED
  BY <1>2, <1>11, <1>13 DEF Good, Vectorial

LEMMA VectorGood ==
    ASSUME case \in Cases, part \in DOMAIN case.parts, NEW s \in Slots, TrueFeatures(s), Separate(s),
           case.slots[s].mode = "bitvec", NEW item \in Extract(s, case.parts[part])
    PROVE  Good(s, item)
<1> DEFINE v == case.parts[1][1]
           W == case.slots[s].words[v]
           N == Width(v)
           diffs == [n \in 1..N |-> Puts(Base(s), W[n])]
<1>1. ~Enumeration(s)
  BY DEF Enumeration
<1>2. case.parts[part] = case.parts[1] /\ Len(case.parts[1]) = 1
  BY <1>1, ModeIs
<1>3. v \in Vals(part) /\ v \in Vals(1) /\ 1 \in DOMAIN case.parts
  <2>1. 1 \in DOMAIN case.parts
    BY CasesAssumption
  <2>2. DOMAIN case.parts[1] = 1..Len(case.parts[1]) /\ \A i \in DOMAIN case.parts[1] : case.parts[1][i] \in Vals(1)
    BY <2>1, PartIs
  <2>3. Vals(part) = Vals(1)
    BY <1>2 DEF Vals
  <2> QED
    BY <1>2, <2>1, <2>2, <2>3
<1>4. item \in xlat_bitvec(features[<<s, v>>].diffs)
  BY <1>2 DEF Extract
<1>5. features[<<s, v>>].diffs = diffs
  BY <1>3 DEF TrueFeatures
<1>6. N \in Nat /\ \A n \in 1..N : W[n] \in Words(Base(s))
  BY <1>3, WordIs DEF Base
<1>7. Base(s) \in Words(Base(s)) /\ IsFiniteSet(DOMAIN Base(s))
  BY SlotIs DEF Base
<1>8. DOMAIN diffs = 1..N /\ \A n \in 1..N : diffs[n] = Puts(Base(s), W[n])
  OBVIOUS
<1>9. \A m, n \in 1..N : m # n => Change(Base(s), W[m]) # Change(Base(s), W[n])
  <2>1. \A n \in 1..N : Changed(s, W[n]) = Change(Base(s), W[n])
    BY <1>6 DEF Changed, Change, Base, Words
  <2>2. \A m, n \in 1..N : m # n => Changed(s, W[m]) # Changed(s, W[n])
    BY <1>3 DEF Separate
  <2> HIDE DEF W, N
  <2> QED
    BY <2>1, <2>2
<1> HIDE DEF diffs, W, N
<1>10. Vectorial(item) /\ DOMAIN item.bits = 1..N /\ \A n \in 1..N : Element(item, n, Base(s), W[n])
  <2>1. item \in xlat_bitvec(diffs)
    BY <1>4, <1>5
  <2>2. /\ Vectorial(item) /\ DOMAIN item.bits = DOMAIN diffs
        /\ \A n \in DOMAIN diffs : Element(item, n, Base(s), W[n])
    BY <2>1, <1>6, <1>7, <1>8, BitvecIs
  <2> QED
    BY <2>2, <1>8
<1>11. /\ VectorIs(s, item, [n \in DOMAIN item.bits |-> FALSE], Base(s))
       /\ \A n \in 1..N :
             VectorIs(s, item, [[k \in DOMAIN item.bits |-> FALSE] EXCEPT ![n] = TRUE], W[n])
  BY <1>6, <1>7, <1>9, <1>10, ElementVector
<1>12. Decodes(s, item)
  BY <1>11, VectorDecodes DEF N, W
<1> QED
  BY <1>1, <1>10, <1>12 DEF Good, Vectorial

LEMMA BooleanGood ==
    ASSUME case \in Cases, part \in DOMAIN case.parts, NEW s \in Slots, TrueFeatures(s),
           case.slots[s].mode \in {"bool", "wide", "mixed"}, NEW item \in Extract(s, case.parts[part])
    PROVE  Good(s, item)
<1> DEFINE vals == case.parts[part]
           off == Configured(s, vals[1])
           on == Configured(s, vals[2])
           D(i) == features[<<s, vals[i]>>].diffs[1]
<1>1. case.slots[s].mode # "bitvec" /\ ~Enumeration(s)
  BY DEF Enumeration
<1>2. vals = case.parts[1] /\ Len(vals) = 2
  BY <1>1, ModeIs
<1>3. DOMAIN vals = 1..Len(vals) /\ \A i \in DOMAIN vals : vals[i] \in Vals(part)
  BY PartIs
<1>4. vals[1] \in Vals(part) /\ vals[2] \in Vals(part) /\ DOMAIN vals = {1, 2}
  <2> HIDE DEF vals
  <2> QED
    BY <1>2, <1>3
<1>5. /\ D(1) = Puts(Base(s), off) /\ off \in Words(Base(s))
      /\ D(2) = Puts(Base(s), on) /\ on \in Words(Base(s))
  <2> HIDE DEF vals
  <2> QED
    BY <1>1, <1>4, FeatureIs
<1>6. item \in xlat_bool(D(1), D(2)) \/ item \in xlat_bool_wide(D(1), D(2)) \/ item \in xlat_bool_wide_mixed(D(1), D(2))
  <2> DEFINE named == [i \in DOMAIN vals |-> [val |-> vals[i], diff |-> D(i)]]
  <2>1. named[1].diff = D(1) /\ named[2].diff = D(2)
    BY <1>4
  <2>2. \/ item \in xlat_bool(named[1].diff, named[2].diff)
        \/ item \in xlat_bool_wide(named[1].diff, named[2].diff)
        \/ item \in xlat_bool_wide_mixed(named[1].diff, named[2].diff)
    BY DEF Extract
  <2> HIDE DEF named, D
  <2> QED
    BY <2>1, <2>2
<1>7. Base(s) \in Words(Base(s)) /\ IsFiniteSet(DOMAIN Base(s)) /\ DOMAIN Base(s) \in SUBSET (Nat \X Nat)
  BY SlotIs DEF Base
<1> HIDE DEF off, on, D
<1>8. Vectorial(item) /\ Switches(item, Base(s), off, on)
  <2>1. CASE item \in xlat_bool(D(1), D(2))
    BY <2>1, <1>5, <1>7, BoolIs
  <2>2. CASE item \in xlat_bool_wide(D(1), D(2)) \/ item \in xlat_bool_wide_mixed(D(1), D(2))
    <3>1. item \in xlat_bool_wide_mixed(D(1), D(2))
      BY <2>2, WideIs
    <3> QED
      BY <3>1, <1>5, <1>7, MixedIs
  <2> QED
    BY <2>1, <2>2, <1>6
<1>9. /\ VectorIs(s, item, [n \in DOMAIN item.bits |-> FALSE], off)
      /\ VectorIs(s, item, [n \in DOMAIN item.bits |-> TRUE], on)
  BY <1>5, <1>8, SwitchVector
<1>10. Decodes(s, item)
  <2>1. off = Configured(s, case.parts[1][1]) /\ on = Configured(s, case.parts[1][2])
    BY <1>2 DEF off, on
  <2> QED
    BY <2>1, <1>9, BooleanDecodes
<1> QED
  BY <1>1, <1>8, <1>10 DEF Good, Vectorial

\* Whatever the collector, the item it makes of true diffs means what the device does.
LEMMA ExtractGood ==
    ASSUME case \in Cases, part \in DOMAIN case.parts, NEW s \in Slots, TrueFeatures(s),
           Neutral(s), Separate(s), NEW item \in Extract(s, case.parts[part])
    PROVE  Good(s, item)
<1>1. case.slots[s].mode \in {"bit", "value", "mux", "default", "bitvec", "bool", "wide", "mixed", "int"}
  BY ModeIs DEF Enumeration
<1> QED
  BY <1>1, EnumGood, VectorGood, BooleanGood, NumberGood DEF Enumeration

\* So does what the database makes of it and an item that it has.
LEMMA InsertGood ==
    ASSUME case \in Cases, NEW s \in Slots, \A i \in tiledb[s] : Good(s, i),
           NEW item, Good(s, item), NEW c \in Insert(s, item)
    PROVE  Good(s, c)
<1>1. CASE tiledb[s] = {}
  BY <1>1 DEF Insert
<1>2. CASE tiledb[s] # {}
  <2>1. PICK i \in tiledb[s] : c \in merge(i, item, FALSE)
    BY <1>2 DEF Insert
  <2>2. CASE Enumeration(s)
    <3>1. Entry(i, Confs(s), Base(s), OnSeen(s)) /\ Entry(item, Confs(s), Base(s), OnSeen(s))
      BY <2>2 DEF Good
    <3>2. Base(s) \in Words(Base(s)) /\ IsFiniteSet(DOMAIN Base(s)) /\ DOMAIN Base(s) \in SUBSET (Nat \X Nat)
      BY SlotIs DEF Base
    <3>3. Entry(c, Confs(s), Base(s), OnSeen(s))
      BY <2>1, <3>1, <3>2, MergeEntry
    <3> QED
      BY <2>2, <3>3 DEF Good
  <2>3. CASE ~Enumeration(s)
    <3>1. "values" \notin DOMAIN i
      BY <2>3 DEF Good
    <3>2. c = i
      BY <2>1, <3>1, MergeSame
    <3> QED
      BY <3>2
  <2> QED
    BY <2>2, <2>3
<1> QED
  BY <1>1, <1>2

LEMMA GoodDecodes ==
    ASSUME case \in Cases, NEW s \in Slots, NEW item, Good(s, item)
    PROVE  Decodes(s, item)
  BY EntryDecodes DEF Good

-----------------------------------------------------------------------------
\* While results are still to come no feature has been taken away, so those that came
\* have all been stored or compared.
StoredWhileWaiting ==
    status = "run" /\ waiting # {} =>
        \A fz \in DOMAIN gave : \A s \in Slots : <<s, fz.val>> \in DOMAIN features

IInv == Unanimous /\ StoredWhileWaiting

-----------------------------------------------------------------------------
\* What a result that is accepted does to the features.
LEMMA StoredResult ==
    ASSUME NEW fz, NEW fdiffs
    PROVE  /\ DOMAIN Stored(fz, fdiffs) = DOMAIN features \cup {<<s, fz.val>> : s \in Slots}
           /\ \A id \in DOMAIN features :
                 /\ Stored(fz, fdiffs)[id].diffs = features[id].diffs
                 /\ features[id].fuzzers \subseteq Stored(fz, fdiffs)[id].fuzzers
           /\ \A s \in Slots :
                 /\ fz \in Stored(fz, fdiffs)[<<s, fz.val>>].fuzzers
                 /\ <<s, fz.val>> \notin DOMAIN features =>
                       Stored(fz, fdiffs)[<<s, fz.val>>].diffs = fdiffs[s]
  BY DEF Stored

LEMMA ReturnKeeps ==
    ASSUME IInv, status = "run", NEW fz \in waiting, NEW bits, Return(fz, bits)
    PROVE  IInv'
<1>1. Slots' = Slots
  BY DEF Return, Slots
<1>2. CASE status' = "oops"
  BY <1>2 DEF IInv, Unanimous, StoredWhileWaiting
<1>3. CASE features' = Stored(fz, FDiffs(fz, bits)) /\ status' = "run"
  <2> DEFINE fdiffs == FDiffs(fz, bits)
  <2>1. \A s \in Slots : Agrees(<<s, fz.val>>, fdiffs[s])
    BY <1>3 DEF Return, return_fuzzer
  <2>2. gave' = [g \in DOMAIN gave \cup {fz} |-> IF g = fz THEN bits ELSE gave[g]]
    BY DEF Return
  <2>3. \A g \in DOMAIN gave : \A s \in Slots : <<s, g.val>> \in DOMAIN features
    BY DEF IInv, StoredWhileWaiting
  <2>. HIDE DEF fdiffs
  <2>4. /\ DOMAIN features' = DOMAIN features \cup {<<s, fz.val>> : s \in Slots}
        /\ \A id \in DOMAIN features :
              /\ features'[id].diffs = features[id].diffs
              /\ features[id].fuzzers \subseteq features'[id].fuzzers
        /\ \A s \in Slots :
              /\ fz \in features'[<<s, fz.val>>].fuzzers
              /\ <<s, fz.val>> \notin DOMAIN features =>
                    features'[<<s, fz.val>>].diffs = fdiffs[s]
    <3>1. features' = Stored(fz, fdiffs)
      BY <1>3 DEF fdiffs
    <3>2. /\ DOMAIN Stored(fz, fdiffs) = DOMAIN features \cup {<<s, fz.val>> : s \in Slots}
          /\ \A id \in DOMAIN features :
                /\ Stored(fz, fdiffs)[id].diffs = features[id].diffs
                /\ features[id].fuzzers \subseteq Stored(fz, fdiffs)[id].fuzzers
          /\ \A s \in Slots :
                /\ fz \in Stored(fz, fdiffs)[<<s, fz.val>>].fuzzers
                /\ <<s, fz.val>> \notin DOMAIN features =>
                      Stored(fz, fdiffs)[<<s, fz.val>>].diffs = fdiffs[s]
      BY StoredResult
    <3> QED
      BY <3>1, <3>2
  <2>5. StoredWhileWaiting'
    BY <1>1, <2>2, <2>3, <2>4 DEF StoredWhileWaiting
  <2>6. ASSUME NEW g \in DOMAIN gave', NEW s \in Slots
        PROVE  /\ features'[<<s, g.val>>].diffs = FDiffs(g, gave'[g])[s]
               /\ g \in features'[<<s, g.val>>].fuzzers
    <3>1. CASE g = fz
      <4>1. gave'[g] = bits
        BY <2>2, <3>1
      <4>2. CASE <<s, fz.val>> \in DOMAIN features
        BY <2>1, <2>4, <3>1, <4>1, <4>2 DEF Agrees, fdiffs
      <4>3. CASE <<s, fz.val>> \notin DOMAIN features
        BY <2>4, <3>1, <4>1, <4>3 DEF fdiffs
      <4> QED
        BY <4>2, <4>3
    <3>2. CASE g # fz
      <4>1. g \in DOMAIN gave /\ gave'[g] = gave[g]
        BY <2>2, <2>6, <3>2
      <4>2. <<s, g.val>> \in DOMAIN features
        BY <2>3, <4>1
      <4>3. /\ features[<<s, g.val>>].diffs = FDiffs(g, gave[g])[s]
            /\ g \in features[<<s, g.val>>].fuzzers
        BY <4>1, <4>2 DEF IInv, Unanimous
      <4> QED
        BY <2>4, <4>1, <4>2, <4>3
    <3> QED
      BY <3>1, <3>2
  <2> QED
    BY <1>1, <2>5, <2>6 DEF IInv, Unanimous
<1> QED
  BY <1>2, <1>3 DEF Return, return_fuzzer

LEMMA CollectKeeps ==
    ASSUME IInv, status = "run", NEW s \in Slots, Collect(s)
    PROVE  IInv'
<1>1. /\ waiting' = {} /\ gave' = gave /\ Slots' = Slots
      /\ features' = [id \in {i \in DOMAIN features : i[1] # s} |-> features[id]]
  BY DEF Collect, Store, Slots
<1>2. \A id \in DOMAIN features' : id \in DOMAIN features /\ features'[id] = features[id]
  BY <1>1
<1>3. Unanimous'
  BY <1>1, <1>2 DEF IInv, Unanimous
<1> QED
  BY <1>1, <1>3 DEF IInv, StoredWhileWaiting

LEMMA StepKeeps == IInv /\ [Next]_vars => IInv'
<1> SUFFICES ASSUME IInv, [Next]_vars PROVE IInv'
  OBVIOUS
<1>1. CASE UNCHANGED vars
  BY <1>1 DEF vars, IInv, Unanimous, StoredWhileWaiting, Slots
<1>2. ASSUME status = "run", NEW fz \in waiting, ReturnTrue(fz) \/ ReturnWrong(fz) PROVE IInv'
  BY <1>2, ReturnKeeps DEF ReturnTrue, ReturnWrong
<1>3. ASSUME status = "run", NEW s \in Slots, Collect(s) PROVE IInv'
  BY <1>3, CollectKeeps
<1>4. CASE NextPart
  BY <1>4 DEF NextPart, IInv, Unanimous, StoredWhileWaiting
<1> QED
  BY <1>1, <1>2, <1>3, <1>4 DEF Next

-----------------------------------------------------------------------------
LEMMA ReturnTypes ==
    ASSUME TypeOK, status = "run", NEW fz \in waiting, NEW bits, Return(fz, bits)
    PROVE  /\ UNCHANGED <<case, part, tiledb, trusted>>
           /\ Slots' = Slots /\ Vals(part)' = Vals(part) /\ Fuzzers(part)' = Fuzzers(part)
           /\ waiting' \subseteq Fuzzers(part)
           /\ DOMAIN features' \subseteq Slots \X Vals(part)
           /\ status' \in {"run", "oops", "failed"}
           /\ DOMAIN gave' = Fuzzers(part) \ waiting'
<1>1. UNCHANGED <<case, part, tiledb, trusted>> /\ waiting' = waiting \ {fz}
  BY DEF Return
<1>2. Slots' = Slots /\ Vals(part)' = Vals(part) /\ Fuzzers(part)' = Fuzzers(part)
  BY <1>1 DEF Slots, Vals, Fuzzers
<1>3. fz.val \in Vals(part)
  BY DEF TypeOK, Fuzzers
<1>4. DOMAIN features' \subseteq Slots \X Vals(part) /\ status' \in {"run", "oops", "failed"}
  <2>1. CASE features' = features
    BY <2>1 DEF TypeOK, Return, return_fuzzer
  <2>2. CASE features' = Stored(fz, FDiffs(fz, bits)) /\ status' = "run"
    <3>1. DOMAIN Stored(fz, FDiffs(fz, bits)) = DOMAIN features \cup {<<s, fz.val>> : s \in Slots}
      BY StoredResult
    <3> QED
      BY <1>3, <2>2, <3>1 DEF TypeOK
  <2> QED
    BY <2>1, <2>2 DEF Return, return_fuzzer
<1>5. DOMAIN gave' = DOMAIN gave \cup {fz}
  BY DEF Return
<1> QED
  BY <1>1, <1>2, <1>4, <1>5 DEF TypeOK

\* The results of a part come from its fuzzers and no others, and its features are of
\* its own values.
THEOREM TypeCorrect == Spec => []TypeOK
<1>1. Init => TypeOK
  <2> SUFFICES ASSUME Init PROVE TypeOK
    OBVIOUS
  <2>1. case \in Cases /\ part \in DOMAIN case.parts /\ 0 \in 0..case.noise
    BY CasesAssumption DEF Init
  <2>2. DOMAIN features = {} /\ DOMAIN gave = {}
    BY DEF Init
  <2> QED
    BY <2>1, <2>2 DEF Init, TypeOK
<1>2. TypeOK /\ [Next]_vars => TypeOK'
  <2> SUFFICES ASSUME TypeOK, [Next]_vars PROVE TypeOK'
    OBVIOUS
  <2>1. CASE UNCHANGED vars
    BY <2>1 DEF vars, TypeOK, Slots, Vals, Fuzzers
  <2>2. ASSUME status = "run", NEW fz \in waiting, ReturnTrue(fz) \/ ReturnWrong(fz) PROVE TypeOK'
    <3>1. PICK bits : Return(fz, bits)
      BY <2>2 DEF ReturnTrue, ReturnWrong
    <3>2. noise' \in 0..case.noise
      BY <2>2, CasesAssumption DEF ReturnTrue, ReturnWrong, TypeOK
    <3> QED
      BY <2>2, <3>1, <3>2, ReturnTypes DEF TypeOK
  <2>3. ASSUME status = "run", NEW s \in Slots, Collect(s) PROVE TypeOK'
    <3>1. UNCHANGED <<case, part, waiting, noise, gave>> /\ DOMAIN features' \subseteq DOMAIN features
      BY <2>3 DEF Collect, Store
    <3>2. Slots' = Slots /\ Vals(part)' = Vals(part) /\ Fuzzers(part)' = Fuzzers(part)
      BY <3>1 DEF Slots, Vals, Fuzzers
    <3>3. status' \in {"run", "failed"} /\ trusted' \in [Slots -> BOOLEAN]
      BY <2>3 DEF Collect, Store, TypeOK
    <3> QED
      BY <3>1, <3>2, <3>3 DEF TypeOK
  <2>4. CASE NextPart
    <3>1. /\ UNCHANGED <<case, features, status, noise, trusted>>
          /\ DOMAIN features = {} /\ DOMAIN gave' = {}
      BY <2>4 DEF NextPart
    <3>2. part' \in DOMAIN case.parts
      BY <2>4, CasesAssumption DEF NextPart, TypeOK
    <3>3. waiting' = Fuzzers(part)' /\ Slots' = Slots
      BY <2>4 DEF NextPart, Fuzzers, Vals, Slots
    <3> QED
      BY <3>1, <3>2, <3>3 DEF TypeOK
  <2> QED
    BY <2>1, <2>2, <2>3, <2>4 DEF Next
<1> QED
  BY <1>1, <1>2, PTL DEF Spec

LEMMA InvariantAlways == Spec => []IInv
<1>1. Init => IInv
  BY DEF Init, IInv, Unanimous, StoredWhileWaiting
<1> QED
  BY <1>1, StepKeeps, PTL DEF Spec

\* No result that contradicts an earlier one of its feature gets past the session,
\* however many wrong results there are: what a collector is given is what all fuzzers of
\* the feature gave (State::return_fuzzer).
THEOREM UnanimousAlways == Spec => []Unanimous
  BY InvariantAlways, PTL DEF IInv

-----------------------------------------------------------------------------
(* The database.                                                           *)

\* A collector takes all features of a slot: as long as one is left they all are.
TakenTogether ==
    status = "run" =>
        \A s \in Slots : ToCollect(s) # {} => \A fz \in DOMAIN gave : <<s, fz.val>> \in DOMAIN features

\* Items are not only as DbTrue says: a later part can still add to them.
DbGood ==
    /\ DOMAIN tiledb = Slots
    /\ status = "run" =>
          \A s \in Slots : trusted[s] /\ Neutral(s) /\ Separate(s) => \A item \in tiledb[s] : Good(s, item)

\* None of this depends on anything but the case.
LEMMA SameCase ==
    ASSUME case' = case, NEW s, NEW item
    PROVE  /\ Slots' = Slots
           /\ Neutral(s)' <=> Neutral(s)
           /\ Separate(s)' <=> Separate(s)
           /\ Good(s, item)' <=> Good(s, item)
<1>1. Slots' = Slots
  BY DEF Slots
<1>2. \A p : Vals(p)' = Vals(p)
  BY DEF Vals
<1>3. \A v : Width(v)' = Width(v)
  BY DEF Width
<1>4. \A w : Changed(s, w)' = Changed(s, w)
  BY DEF Changed
<1>5. \A p : Seen(s, p)' = Seen(s, p)
  BY <1>2, <1>3, <1>4 DEF Seen
<1>6. Neutral(s)' <=> Neutral(s)
  BY <1>5 DEF Neutral
<1>7. Separate(s)' <=> Separate(s)
  BY <1>2, <1>3, <1>4 DEF Separate
<1>8. Base(s)' = Base(s) /\ OnSeen(s)' = OnSeen(s)
  BY <1>5 DEF Base, OnSeen
<1>9. Confs(s)' = Confs(s)
  BY <1>2 DEF Confs, AllVals, Configured, Base
<1>10. Decodes(s, item)' <=> Decodes(s, item)
  BY <1>3 DEF Decodes, Enumeration, VectorIs, Others
<1>11. Good(s, item)' <=> Good(s, item)
  BY <1>8, <1>9, <1>10 DEF Good, Enumeration
<1> QED
  BY <1>1, <1>6, <1>7, <1>11
LEMMA ReturnDb ==
    ASSUME IInv, TakenTogether, DbGood, status = "run", NEW fz \in waiting, NEW bits, Return(fz, bits)
    PROVE  TakenTogether' /\ DbGood'
<1>1. /\ case' = case /\ tiledb' = tiledb /\ trusted' = trusted /\ Slots' = Slots
      /\ DOMAIN gave' = DOMAIN gave \cup {fz}
  BY DEF Return, Slots
<1>2. TakenTogether'
  <2>1. CASE status' = "oops"
    BY <2>1 DEF TakenTogether
  <2>2. CASE features' = Stored(fz, FDiffs(fz, bits))
    <3>1. DOMAIN features' = DOMAIN features \cup {<<s, fz.val>> : s \in Slots}
      <4>1. DOMAIN Stored(fz, FDiffs(fz, bits)) = DOMAIN features \cup {<<s, fz.val>> : s \in Slots}
        BY StoredResult
      <4> QED
        BY <2>2, <4>1
    <3>2. \A g \in DOMAIN gave : \A s \in Slots : <<s, g.val>> \in DOMAIN features
      BY DEF IInv, StoredWhileWaiting
    <3>3. \A g \in DOMAIN gave' : \A s \in Slots' : <<s, g.val>> \in DOMAIN features'
      BY <1>1, <3>1, <3>2
    <3> QED
      BY <3>3 DEF TakenTogether
  <2> QED
    BY <2>1, <2>2 DEF Return, return_fuzzer
<1>3. DbGood'
  <2>1. \A s \in Slots : trusted[s] /\ Neutral(s) /\ Separate(s) => \A item \in tiledb[s] : Good(s, item)
    BY DEF DbGood
  <2>2. \A s : \A item : (Neutral(s)' <=> Neutral(s)) /\ (Separate(s)' <=> Separate(s)) /\ (Good(s, item)' <=> Good(s, item))
    BY <1>1, SameCase
  <2> QED
    BY <1>1, <2>1, <2>2 DEF DbGood
<1> QED
  BY <1>2, <1>3

\* The features of a slot whose features all had a true result are the device's.
LEMMA TrustedTrue ==
    ASSUME TypeOK, IInv, TakenTogether, status = "run", NEW s \in Slots, ToCollect(s) # {},
           \A v \in Vals(part) : \E fz \in DOMAIN gave : fz.val = v /\ gave[fz] = TrueBits(fz)
    PROVE  TrueFeatures(s)
<1> SUFFICES ASSUME NEW v \in Vals(part)
             PROVE  features[<<s, v>>].diffs = [n \in 1..Width(v) |-> Puts(Base(s), case.slots[s].words[v][n])]
  BY DEF TrueFeatures
<1>1. PICK fz \in DOMAIN gave : fz.val = v /\ gave[fz] = TrueBits(fz)
  OBVIOUS
<1>2. case \in Cases /\ part \in DOMAIN case.parts /\ fz \in Fuzzers(part)
  BY DEF TypeOK
<1>3. <<s, v>> \in DOMAIN features
  BY <1>1 DEF TakenTogether
<1>4. features[<<s, v>>].diffs = FDiffs(fz, TrueBits(fz))[s]
  BY <1>1, <1>3 DEF IInv, Unanimous
<1>5. FDiffs(fz, TrueBits(fz))[s] =
          [n \in 1..Width(fz.val) |-> Puts(case.slots[s].base, case.slots[s].words[fz.val][n])]
  BY <1>2, TrueDiffs
<1> QED
  BY <1>1, <1>4, <1>5 DEF Base

LEMMA CollectDb ==
    ASSUME TypeOK, IInv, TakenTogether, DbGood, status = "run", NEW s \in Slots, Collect(s)
    PROVE  TakenTogether' /\ DbGood'
<1> DEFINE new == UNION {Insert(s, i) : i \in Extract(s, case.parts[part])}
<1>1. /\ UNCHANGED <<case, part, waiting, noise, gave>> /\ Slots' = Slots
      /\ waiting = {} /\ ToCollect(s) # {}
      /\ features' = [id \in {i \in DOMAIN features : i[1] # s} |-> features[id]]
      /\ trusted' = [trusted EXCEPT ![s] = @ /\ \A v \in Vals(part) :
                        \E fz \in DOMAIN gave : fz.val = v /\ gave[fz] = TrueBits(fz)]
      /\ Store(s, new)
  BY DEF Collect, Slots
<1>2. Vals(part)' = Vals(part)
  BY <1>1 DEF Vals
<1>3. TakenTogether'
  <2> SUFFICES ASSUME NEW t \in Slots, ToCollect(t)' # {}, NEW fz \in DOMAIN gave
               PROVE  <<t, fz.val>> \in DOMAIN features'
    BY <1>1 DEF TakenTogether
  <2>1. PICK v \in Vals(part) : <<t, v>> \in DOMAIN features'
    BY <1>2 DEF ToCollect
  <2>2. t # s /\ <<t, v>> \in DOMAIN features
    BY <1>1, <2>1
  <2>3. <<t, fz.val>> \in DOMAIN features
    BY <2>2 DEF TakenTogether, ToCollect
  <2> QED
    BY <1>1, <2>2, <2>3
<1>4. DOMAIN tiledb' = Slots
  BY <1>1 DEF Store, DbGood
<1>5. ASSUME status' = "run", NEW t \in Slots, trusted'[t], Neutral(t), Separate(t), NEW item \in tiledb'[t]
      PROVE  Good(t, item)
  <2>1. tiledb' = [tiledb EXCEPT ![s] = new]
    BY <1>1, <1>5 DEF Store
  <2>2. CASE t # s
    <3>1. tiledb'[t] = tiledb[t] /\ trusted'[t] = trusted[t]
      BY <1>1, <2>1, <2>2
    <3> QED
      BY <3>1, <1>5 DEF DbGood
  <2>3. CASE t = s
    <3>1. item \in new
      BY <2>1, <2>3, <1>5 DEF DbGood
    <3>2. trusted[s] /\ \A v \in Vals(part) : \E fz \in DOMAIN gave : fz.val = v /\ gave[fz] = TrueBits(fz)
      BY <1>1, <1>5, <2>3 DEF TypeOK
    <3>3. TrueFeatures(s)
      BY <1>1, <3>2, TrustedTrue
    <3>4. PICK i \in Extract(s, case.parts[part]) : item \in Insert(s, i)
      BY <3>1
    <3>5. case \in Cases /\ part \in DOMAIN case.parts
      BY DEF TypeOK
    <3>6. Good(s, i)
      BY <1>5, <2>3, <3>3, <3>5, ExtractGood
    <3>7. \A j \in tiledb[s] : Good(s, j)
      BY <1>5, <2>3, <3>2 DEF DbGood
    <3> QED
      BY <2>3, <3>4, <3>5, <3>6, <3>7, InsertGood
  <2> QED
    BY <2>2, <2>3
<1>6. DbGood'
  <2>1. \A t : \A item : (Neutral(t)' <=> Neutral(t)) /\ (Separate(t)' <=> Separate(t)) /\ (Good(t, item)' <=> Good(t, item))
    BY <1>1, SameCase
  <2> QED
    BY <1>1, <1>4, <1>5, <2>1 DEF DbGood
<1> QED
  BY <1>3, <1>6

LEMMA StepDb == TypeOK /\ IInv /\ TakenTogether /\ DbGood /\ [Next]_vars => TakenTogether' /\ DbGood'
<1> SUFFICES ASSUME TypeOK, IInv, TakenTogether, DbGood, [Next]_vars PROVE TakenTogether' /\ DbGood'
  OBVIOUS
<1>1. ASSUME case' = case, tiledb' = tiledb, trusted' = trusted, status' = status PROVE DbGood'
  <2>1. Slots' = Slots
    BY <1>1 DEF Slots
  <2>2. \A s : \A item : (Neutral(s)' <=> Neutral(s)) /\ (Separate(s)' <=> Separate(s)) /\ (Good(s, item)' <=> Good(s, item))
    BY <1>1, SameCase
  <2> QED
    BY <1>1, <2>1, <2>2 DEF DbGood
<1>2. CASE UNCHANGED vars
  <2>1. TakenTogether'
    BY <1>2 DEF vars, TakenTogether, ToCollect, Slots, Vals
  <2> QED
    BY <1>1, <1>2, <2>1 DEF vars
<1>3. ASSUME status = "run", NEW fz \in waiting, ReturnTrue(fz) \/ ReturnWrong(fz)
      PROVE  TakenTogether' /\ DbGood'
  BY <1>3, ReturnDb DEF ReturnTrue, ReturnWrong
<1>4. ASSUME status = "run", NEW s \in Slots, Collect(s) PROVE TakenTogether' /\ DbGood'
  BY <1>4, CollectDb
<1>5. CASE NextPart
  <2>1. TakenTogether'
    BY <1>5 DEF NextPart, TakenTogether
  <2> QED
    BY <1>1, <1>5, <2>1 DEF NextPart
<1> QED
  BY <1>2, <1>3, <1>4, <1>5 DEF Next

\* Put into its item's bits, a value gives what the vendor's tool makes of it: for every
\* device family, however many places and parts the bits came from, whatever the order
\* of the results and however many of them were wrong (the xlat functions, merge).
THEOREM DatabaseTrue == Spec => []DbTrue
<1>1. Init => TakenTogether /\ DbGood
  BY DEF Init, TakenTogether, DbGood, ToCollect
<1>2. TypeOK /\ DbGood => DbTrue
  BY GoodDecodes DEF TypeOK, DbGood, DbTrue
<1> QED
  BY <1>1, <1>2, StepDb, TypeCorrect, InvariantAlways, PTL DEF Spec
-----------------------------------------------------------------------------
(* No false alarm.                                                         *)

\* The true diffs of a slot that is no enumeration, which are those of the first part.
TrueDiff(s, i) == Puts(Base(s), Configured(s, case.parts[1][i]))
TrueNumbers(s) == [i \in DOMAIN case.parts[1] |-> [num |-> Digits(case.parts[1][i]), diff |-> TrueDiff(s, i)]]
TrueElements(s) ==
    LET v == case.parts[1][1] IN [n \in 1..Width(v) |-> Puts(Base(s), case.slots[s].words[v][n])]

\* What a collector makes of them: the only item the database can get for the slot.
Single(s) ==
    LET mode == case.slots[s].mode IN
    CASE mode = "int" -> xlat_enum_int(TrueNumbers(s))
      [] mode = "bitvec" -> xlat_bitvec(TrueElements(s))
      [] mode = "bool" -> xlat_bool(TrueDiff(s, 1), TrueDiff(s, 2))
      [] mode = "wide" -> xlat_bool_wide(TrueDiff(s, 1), TrueDiff(s, 2))
      [] mode = "mixed" -> xlat_bool_wide_mixed(TrueDiff(s, 1), TrueDiff(s, 2))

LEMMA ConfIs ==
    ASSUME case \in Cases, NEW s \in Slots, case.slots[s].mode # "bitvec", NEW p \in DOMAIN case.parts, NEW v \in Vals(p)
    PROVE  /\ v # DefaultVal /\ v \in DOMAIN Confs(s)
           /\ Configured(s, v) = case.slots[s].words[v][1]
           /\ Configured(s, v) \in Words(Base(s))
           /\ Changed(s, Configured(s, v)) = Change(Base(s), Configured(s, v))
<1>1. v # DefaultVal
  BY CasesAssumption DEF Vals
<1>2. v \in DOMAIN Confs(s)
  BY DEF Confs, AllVals
<1>3. Configured(s, v) \in Words(Base(s))
  BY <1>2, ConfsAre
<1>4. Configured(s, v) = case.slots[s].words[v][1]
  BY <1>1 DEF Configured
<1>5. Changed(s, Configured(s, v)) = Change(Base(s), Configured(s, v))
  BY <1>3 DEF Changed, Change, Base, Words
<1> QED
  BY <1>1, <1>2, <1>3, <1>4, <1>5

\* True features give nothing else, in whatever part.
LEMMA ExtractSingle ==
    ASSUME case \in Cases, part \in DOMAIN case.parts, NEW s \in Slots, TrueFeatures(s), ~Enumeration(s)
    PROVE  Extract(s, case.parts[part]) = Single(s)
<1> DEFINE vals == case.parts[1]
           F(i) == features[<<s, vals[i]>>].diffs
           mode == case.slots[s].mode
<1>1. /\ case.parts[part] = vals /\ Vals(part) = Vals(1)
      /\ \/ mode = "bitvec" /\ Len(vals) = 1
         \/ mode \in {"bool", "wide", "mixed"} /\ Len(vals) = 2
         \/ mode = "int"
  BY ModeIs DEF Vals
<1>2. 1 \in DOMAIN case.parts
  BY CasesAssumption
<1>3. DOMAIN vals = 1..Len(vals) /\ \A i \in DOMAIN vals : vals[i] \in Vals(part)
  BY <1>1, <1>2, PartIs
<1>4. ASSUME mode # "bitvec", NEW i \in DOMAIN vals PROVE F(i)[1] = TrueDiff(s, i)
  <2>1. vals[i] \in Vals(part)
    BY <1>3
  <2>2. features[<<s, vals[i]>>].diffs[1] = Puts(Base(s), Configured(s, vals[i]))
    BY <1>4, <2>1, FeatureIs
  <2> QED
    BY <2>2 DEF TrueDiff
<1>5. CASE mode = "int"
  <2> DEFINE D == [i \in DOMAIN vals |-> [num |-> Digits(vals[i]), diff |-> F(i)[1]]]
  <2>1. Extract(s, vals) = xlat_enum_int(D)
    BY <1>5 DEF Extract
  <2>2. D = TrueNumbers(s)
    <3>1. \A i \in DOMAIN vals : F(i)[1] = TrueDiff(s, i)
      BY <1>4, <1>5
    <3> HIDE DEF F
    <3> QED
      BY <3>1 DEF TrueNumbers
  <2>3. Single(s) = xlat_enum_int(TrueNumbers(s))
    BY <1>5 DEF Single
  <2> QED
    BY <2>1, <2>2, <2>3, <1>1
<1>6. CASE mode = "bitvec"
  <2>1. Extract(s, vals) = xlat_bitvec(F(1))
    BY <1>6 DEF Extract
  <2>2. F(1) = TrueElements(s)
    <3>1. vals[1] \in Vals(part)
      <4> HIDE DEF vals
      <4> QED
        BY <1>1, <1>3, <1>6
    <3> QED
      BY <3>1 DEF TrueFeatures, TrueElements
  <2>3. Single(s) = xlat_bitvec(TrueElements(s))
    BY <1>6 DEF Single
  <2> QED
    BY <2>1, <2>2, <2>3, <1>1
<1>7. CASE mode \in {"bool", "wide", "mixed"}
  <2> DEFINE named == [i \in DOMAIN vals |-> [val |-> vals[i], diff |-> F(i)[1]]]
             d1 == named[1].diff
             d2 == named[2].diff
  <2>1. 1 \in DOMAIN vals /\ 2 \in DOMAIN vals
    <3> HIDE DEF vals
    <3> QED
      BY <1>1, <1>3, <1>7
  <2>2. d1 = TrueDiff(s, 1) /\ d2 = TrueDiff(s, 2)
    <3>1. d1 = F(1)[1] /\ d2 = F(2)[1]
      BY <2>1
    <3>2. F(1)[1] = TrueDiff(s, 1) /\ F(2)[1] = TrueDiff(s, 2)
      BY <1>4, <1>7, <2>1
    <3> QED
      BY <3>1, <3>2
  <2>3. /\ mode = "bool" => Extract(s, vals) = xlat_bool(d1, d2)
        /\ mode = "wide" => Extract(s, vals) = xlat_bool_wide(d1, d2)
        /\ mode = "mixed" => Extract(s, vals) = xlat_bool_wide_mixed(d1, d2)
    BY DEF Extract
  <2> HIDE DEF d1, d2
  <2>4. /\ mode = "bool" => Single(s) = xlat_bool(TrueDiff(s, 1), TrueDiff(s, 2))
        /\ mode = "wide" => Single(s) = xlat_bool_wide(TrueDiff(s, 1), TrueDiff(s, 2))
        /\ mode = "mixed" => Single(s) = xlat_bool_wide_mixed(TrueDiff(s, 1), TrueDiff(s, 2))
    BY DEF Single
  <2> HIDE DEF vals, mode
  <2>5. Extract(s, vals) = Single(s)
    BY <2>2, <2>3, <2>4, <1>7
  <2> QED
    BY <2>5, <1>1 DEF vals
<1> QED
  BY <1>1, <1>5, <1>6, <1>7

LEMMA SingleOnly ==
    ASSUME case \in Cases, part \in DOMAIN case.parts, NEW s \in Slots, ~Enumeration(s)
    PROVE  OneAtMost(Single(s))
<1>1. case.slots[s].mode \in {"bitvec", "bool", "wide", "mixed", "int"}
  BY ModeIs
<1>2. /\ OneAtMost(xlat_enum_int(TrueNumbers(s))) /\ OneAtMost(xlat_bitvec(TrueElements(s)))
      /\ OneAtMost(xlat_bool(TrueDiff(s, 1), TrueDiff(s, 2)))
      /\ OneAtMost(xlat_bool_wide(TrueDiff(s, 1), TrueDiff(s, 2)))
      /\ OneAtMost(xlat_bool_wide_mixed(TrueDiff(s, 1), TrueDiff(s, 2)))
  BY OnlyItem
<1> QED
  BY <1>1, <1>2 DEF Single
\* The numbers of a device that fits have digits with bits of their own.
LEMMA NumberSucceeds ==
    ASSUME case \in Cases, NEW s \in Slots, case.slots[s].mode = "int", Fits(s)
    PROVE  xlat_enum_int(TrueNumbers(s)) # {}
<1> DEFINE vals == case.parts[1]
           D == TrueNumbers(s)
           W == [i \in DOMAIN vals |-> Configured(s, vals[i])]
           base == Base(s)
           digits == UNION {Digits(v) : v \in Vals(1)}
<1>1. 1 \in DOMAIN case.parts /\ case.slots[s].mode # "bitvec" /\ ~Enumeration(s)
  BY CasesAssumption DEF Enumeration
<1>2. Len(vals) \in Nat /\ DOMAIN vals = 1..Len(vals) /\ \A i \in DOMAIN vals : vals[i] \in Nat /\ vals[i] \in Vals(1)
  BY <1>1, PartIs
<1>3. Vals(1) = {vals[i] : i \in DOMAIN vals}
  BY DEF Vals
<1>4. \A v \in Vals(1) : Configured(s, v) = case.slots[s].words[v][1] /\ Configured(s, v) \in Words(base)
  BY <1>1, ConfIs
<1>5. /\ digits = 0..(Cardinality(digits) - 1)
      /\ {Digits(v) : v \in Vals(1)} = SUBSET digits
      /\ \E at \in [digits -> DOMAIN base] :
            /\ \A m, n \in digits : at[m] = at[n] => m = n
            /\ \A v \in Vals(1) : case.slots[s].words[v][1] = [b \in DOMAIN base |->
                  IF \E n \in digits : at[n] = b THEN \E n \in Digits(v) : at[n] = b ELSE base[b]]
  BY <1>1 DEF Fits, NumbersFit, Base
<1> HIDE DEF digits
<1>6. PICK at \in [digits -> DOMAIN base] :
          /\ \A m, n \in digits : at[m] = at[n] => m = n
          /\ \A v \in Vals(1) : case.slots[s].words[v][1] = [b \in DOMAIN base |->
                IF \E n \in digits : at[n] = b THEN \E n \in Digits(v) : at[n] = b ELSE base[b]]
  BY <1>5
<1>7. \A i \in DOMAIN vals : D[i].num = Digits(vals[i]) /\ D[i].diff = Puts(base, W[i]) /\ W[i] = Configured(s, vals[i])
  BY DEF TrueNumbers, TrueDiff
<1>8. Len(D) = Len(vals) /\ DOMAIN D = DOMAIN vals
  BY <1>2 DEF TrueNumbers
<1>9. W \in [DOMAIN vals -> Words(base)]
  BY <1>2, <1>4
<1> HIDE DEF D, W, vals
<1>10. base \in Words(base) /\ DOMAIN base \in SUBSET (Nat \X Nat) /\ IsFiniteSet(DOMAIN base)
  BY SlotIs DEF Base
<1> HIDE DEF base
<1>11. Numbered(D, W, base)
  <2>1. \A i \in DOMAIN D : D[i].num \in SUBSET Nat /\ IsFiniteSet(D[i].num)
    BY <1>2, <1>7, <1>8, DigitsAre
  <2>2. Worded(D, W, base)
    BY <1>2, <1>7, <1>8, <1>9, <1>10 DEF Worded
  <2> QED
    BY <2>1, <2>2 DEF Numbered
<1>12. Fitting(D, W, base, at)
  <2>1. ASSUME NEW i \in DOMAIN D PROVE Read(at, base, W[i], D[i].num) /\ D[i].num \in SUBSET DOMAIN at
    <3> DEFINE v == vals[i]
    <3>1. v \in Vals(1) /\ D[i].num = Digits(v) /\ W[i] = case.slots[s].words[v][1]
      BY <1>2, <1>4, <1>7, <1>8
    <3> HIDE DEF v
    <3>2. Digits(v) \subseteq digits
      BY <3>1 DEF digits
    <3>3. W[i] = [b \in DOMAIN base |->
                    IF \E n \in digits : at[n] = b THEN \E n \in Digits(v) : at[n] = b ELSE base[b]]
      BY <1>6, <3>1
    <3>4. ASSUME NEW m \in digits PROVE at[m] \in DOMAIN base /\ (W[i][at[m]] <=> m \in Digits(v))
      <4>1. at[m] \in DOMAIN base
        BY <1>6
      <4>2. W[i][at[m]] = \E n \in Digits(v) : at[n] = at[m]
        BY <3>3, <4>1
      <4>3. (\E n \in Digits(v) : at[n] = at[m]) <=> m \in Digits(v)
        BY <1>6, <3>2
      <4> QED
        BY <4>1, <4>2, <4>3
    <3>5. \A b \in DOMAIN base : (\A m \in digits : at[m] # b) => W[i][b] = base[b]
      BY <3>3
    <3>6. DOMAIN at = digits
      BY <1>6
    <3> QED
      BY <3>1, <3>2, <3>4, <3>5, <3>6 DEF Read
  <2>2. ASSUME NEW S \in SUBSET digits PROVE \E i \in DOMAIN D : D[i].num = S
    <3>1. PICK v \in Vals(1) : S = Digits(v)
      BY <1>5
    <3>2. PICK i \in DOMAIN vals : v = vals[i]
      BY <1>3
    <3> QED
      BY <3>1, <3>2, <1>7, <1>8
  <2>3. DOMAIN at = digits
    BY <1>6
  <2> QED
    BY <1>6, <2>1, <2>2, <2>3 DEF Fitting
<1>13. DOMAIN at = 0..(Cardinality(DOMAIN at) - 1)
  <2>1. DOMAIN at = digits
    BY <1>6
  <2> QED
    BY <2>1, <1>5
<1>14. xlat_enum_int(D) # {}
  BY <1>11, <1>12, <1>13, IntSucceeds
<1> QED
  BY <1>14 DEF D

LEMMA VectorSucceeds ==
    ASSUME case \in Cases, NEW s \in Slots, case.slots[s].mode = "bitvec", Fits(s)
    PROVE  xlat_bitvec(TrueElements(s)) # {}
<1> DEFINE v == case.parts[1][1]
           W == case.slots[s].words[v]
           diffs == TrueElements(s)
<1>1. 1 \in DOMAIN case.parts /\ ~Enumeration(s)
  BY CasesAssumption DEF Enumeration
<1>2. v \in Vals(1)
  <2>1. Len(case.parts[1]) = 1
    BY <1>1, ModesAssumption DEF Enumeration, Slots
  <2>2. DOMAIN case.parts[1] = 1..Len(case.parts[1]) /\ \A i \in DOMAIN case.parts[1] : case.parts[1][i] \in Vals(1)
    BY <1>1, PartIs
  <2> QED
    BY <2>1, <2>2
<1>3. \A n \in 1..Width(v) : W[n] \in Words(Base(s))
  BY <1>1, <1>2, WordIs DEF Base
<1>4. \A n \in 1..Width(v) : Cardinality(Changed(s, W[n])) = 1
  BY <1>1 DEF Fits, VectorFits
<1>5. DOMAIN diffs = 1..Width(v) /\ \A n \in 1..Width(v) : diffs[n] = Puts(Base(s), W[n])
  BY DEF TrueElements
<1> HIDE DEF diffs, W
<1>6. \A n \in 1..Width(v) : DOMAIN diffs[n] = Changed(s, W[n])
  BY <1>3, <1>5 DEF Puts, Change, Changed, Base, Words
<1> HIDE DEF v
<1>7. \A n \in DOMAIN diffs : Cardinality(DOMAIN diffs[n]) = 1
  BY <1>4, <1>5, <1>6
<1>8. xlat_bitvec(diffs) # {}
  BY Zenon, <1>7 DEF xlat_bitvec
<1> QED
  BY <1>8 DEF diffs

LEMMA BooleanSucceeds ==
    ASSUME case \in Cases, NEW s \in Slots, case.slots[s].mode \in {"bool", "wide", "mixed"}, Fits(s)
    PROVE  Single(s) # {}
<1> DEFINE vals == case.parts[1]
           mode == case.slots[s].mode
           base == Base(s)
           off == Configured(s, vals[1])
           on == Configured(s, vals[2])
<1>1. 1 \in DOMAIN case.parts /\ mode # "bitvec" /\ ~Enumeration(s)
  BY CasesAssumption DEF Enumeration
<1>2. Len(vals) = 2
  BY <1>1, ModesAssumption DEF Enumeration, Slots
<1>3. DOMAIN vals = 1..Len(vals) /\ \A i \in DOMAIN vals : vals[i] \in Vals(1)
  BY <1>1, PartIs
<1>4. vals[1] \in Vals(1) /\ vals[2] \in Vals(1) /\ Vals(1) = {vals[1], vals[2]}
  <2>1. Vals(1) = {vals[i] : i \in DOMAIN vals}
    BY DEF Vals
  <2> HIDE DEF vals
  <2>2. DOMAIN vals = {1, 2}
    BY <1>2, <1>3
  <2> QED
    BY <2>1, <2>2
<1>5. /\ off = case.slots[s].words[vals[1]][1] /\ off \in Words(base) /\ Changed(s, off) = Change(base, off)
      /\ on = case.slots[s].words[vals[2]][1] /\ on \in Words(base) /\ Changed(s, on) = Change(base, on)
  <2> HIDE DEF vals
  <2> QED
    BY <1>1, <1>4, ConfIs
<1>6. TrueDiff(s, 1) = Puts(base, off) /\ TrueDiff(s, 2) = Puts(base, on)
  BY DEF TrueDiff
<1>7. base \in Words(base) /\ DOMAIN base \in SUBSET (Nat \X Nat) /\ IsFiniteSet(DOMAIN base)
  BY SlotIs DEF Base
<1>8. CASE mode = "bool"
  <2> DEFINE Ch(v) == Changed(s, case.slots[s].words[v][1])
  <2>1. {} \in {Ch(v) : v \in Vals(1)} /\ Cardinality(UNION {Ch(v) : v \in Vals(1)}) = 1
    BY <1>8 DEF Fits, BoolFits, Enumeration
  <2>2. Ch(vals[1]) = Change(base, off) /\ Ch(vals[2]) = Change(base, on)
    BY <1>5
  <2> HIDE DEF Ch, vals, off, on, base
  <2>3. {Ch(v) : v \in Vals(1)} = {Change(base, off), Change(base, on)}
    BY <1>4, <2>2
  <2>4. UNION {Ch(v) : v \in Vals(1)} = Change(base, off) \cup Change(base, on)
    BY <2>3
  <2>5. xlat_bool(Puts(base, off), Puts(base, on)) # {}
    BY <2>1, <2>3, <2>4, BoolSucceeds
  <2> QED
    BY <2>5, <1>6, <1>8 DEF Single
<1>9. CASE mode \in {"wide", "mixed"}
  <2>1. /\ Changed(s, case.slots[s].words[vals[1]][1]) \cap Changed(s, case.slots[s].words[vals[2]][1]) = {}
        /\ mode = "wide" =>
              \A b, c \in Changed(s, case.slots[s].words[vals[1]][1]) \cup Changed(s, case.slots[s].words[vals[2]][1]) :
                  case.slots[s].words[vals[1]][1][b] = case.slots[s].words[vals[1]][1][c]
    BY <1>9 DEF Fits, WideFits, Level, MixedFits, Enumeration
  <2>2. /\ Change(base, off) \cap Change(base, on) = {}
        /\ mode = "wide" => \A b, c \in Change(base, off) \cup Change(base, on) : off[b] = off[c]
    BY <2>1, <1>5
  <2> HIDE DEF off, on, base
  <2>3. xlat_bool_wide_mixed(Puts(base, off), Puts(base, on)) # {}
    BY <2>2, <1>5, <1>7, MixedSucceeds
  <2>4. ASSUME mode = "wide" PROVE xlat_bool_wide(Puts(base, off), Puts(base, on)) # {}
    <3>1. Level(off, Change(base, off) \cup Change(base, on))
      BY <2>2, <2>4 DEF Level
    <3>2. off \in Words(base) /\ on \in Words(base) /\ Change(base, off) \cap Change(base, on) = {}
      BY <1>5, <2>2
    <3> QED
      BY Zenon, <3>1, <3>2, <1>7, WideSucceeds
  <2> QED
    BY <2>3, <2>4, <1>6, <1>9 DEF Single
<1> QED
  BY <1>8, <1>9

LEMMA SingleSucceeds ==
    ASSUME case \in Cases, NEW s \in Slots, ~Enumeration(s), Fits(s)
    PROVE  Single(s) # {}
<1>1. 1 \in DOMAIN case.parts
  BY CasesAssumption
<1>2. case.slots[s].mode \in {"bitvec", "bool", "wide", "mixed", "int"}
  BY ModesAssumption DEF Enumeration, Slots
<1>3. CASE case.slots[s].mode = "int"
  BY <1>3, NumberSucceeds DEF Single
<1>4. CASE case.slots[s].mode = "bitvec"
  BY <1>4, VectorSucceeds DEF Single
<1> QED
  BY <1>2, <1>3, <1>4, BooleanSucceeds
LEMMA EnumFits ==
    ASSUME case \in Cases, part \in DOMAIN case.parts, NEW s \in Slots, TrueFeatures(s), Enumeration(s)
    PROVE  Extract(s, case.parts[part]) # {}
<1>1. PICK D, W : Collected(s, D, W)
  BY NamedCollected, DefaultCollected DEF Enumeration
<1>2. PICK mode : Extract(s, case.parts[part]) = xlat_enum_ocd(D, mode)
  BY <1>1 DEF Collected
<1>3. Worded(D, W, Base(s)) /\ \A i, j \in DOMAIN D : D[i].val = D[j].val => W[i] = W[j]
  BY <1>1 DEF Collected
<1> QED
  BY <1>2, <1>3, EnumSucceeds

\* What the database makes of an item.
InsertAll(s) == UNION {Insert(s, i) : i \in Extract(s, case.parts[part])}

\* An enumeration that looks the same in all parts goes into the database ...
LEMMA EnumInserted ==
    ASSUME case \in Cases, part \in DOMAIN case.parts, NEW s \in Slots, TrueFeatures(s), Enumeration(s), Neutral(s),
           \A j \in tiledb[s] : Good(s, j)
    PROVE  InsertAll(s) # {}
<1>1. PICK i : i \in Extract(s, case.parts[part])
  BY EnumFits
<1>2. Good(s, i)
  BY <1>1, EnumGood
<1>3. Insert(s, i) # {}
  <2>1. CASE tiledb[s] = {}
    BY <2>1 DEF Insert
  <2>2. CASE tiledb[s] # {}
    <3>1. PICK j : j \in tiledb[s]
      BY <2>2
    <3>2. Entry(i, Confs(s), Base(s), OnSeen(s)) /\ Entry(j, Confs(s), Base(s), OnSeen(s))
      BY <1>2, <3>1 DEF Good
    <3>3. Base(s) \in Words(Base(s)) /\ IsFiniteSet(DOMAIN Base(s)) /\ DOMAIN Base(s) \in SUBSET (Nat \X Nat)
      BY SlotIs DEF Base
    <3>4. merge(j, i, FALSE) # {}
      BY <3>2, <3>3, MergeSucceeds
    <3> QED
      BY <2>2, <3>1, <3>4 DEF Insert
  <2> QED
    BY <2>1, <2>2
<1> QED
  BY <1>1, <1>3 DEF InsertAll

\* ... and so does, again and again, the only item of anything else.
LEMMA SingleInserted ==
    ASSUME case \in Cases, part \in DOMAIN case.parts, NEW s \in Slots, TrueFeatures(s), ~Enumeration(s),
           tiledb[s] \subseteq Single(s)
    PROVE  InsertAll(s) = Single(s)
<1>1. Extract(s, case.parts[part]) = Single(s)
  BY ExtractSingle
<1>2. OneAtMost(Single(s))
  BY SingleOnly
<1>3. ASSUME NEW i \in Single(s) PROVE Insert(s, i) = {i}
  <2>1. CASE tiledb[s] = {}
    BY <2>1 DEF Insert
  <2>2. CASE tiledb[s] # {}
    <3>1. tiledb[s] = {i}
      BY <1>2, <2>2 DEF OneAtMost
    <3>2. merge(i, i, FALSE) = {i}
      BY DEF merge
    <3> QED
      BY <2>2, <3>1, <3>2 DEF Insert
  <2> QED
    BY <2>1, <2>2
<1>4. InsertAll(s) = UNION {{i} : i \in Single(s)}
  BY <1>1, <1>3 DEF InsertAll
<1> QED
  BY <1>4

\* What there are features of has had results.
FromFuzzers == \A id \in DOMAIN features : \E fz \in DOMAIN gave : fz.val = id[2]

\* As long as no result was wrong ...
AllTrue ==
    noise = 0 => (\A fz \in DOMAIN gave : gave[fz] = TrueBits(fz)) /\ (\A s \in Slots : trusted[s]) /\ status # "oops"

Made == noise = 0 => \A s \in Slots : ~Enumeration(s) => tiledb[s] \subseteq Single(s)

FailsUnfit == noise = 0 /\ status = "failed" => \E s \in Slots : ~Fits(s)

Quiet == FromFuzzers /\ AllTrue /\ Made /\ FailsUnfit

LEMMA SameDevice ==
    ASSUME case' = case, NEW s, NEW fz
    PROVE  /\ Slots' = Slots /\ TrueBits(fz)' = TrueBits(fz)
           /\ Enumeration(s)' <=> Enumeration(s)
           /\ Single(s)' = Single(s)
           /\ Fits(s)' <=> Fits(s)
<1>1. Slots' = Slots /\ (Enumeration(s)' <=> Enumeration(s)) /\ Base(s)' = Base(s)
  BY DEF Slots, Enumeration, Base
<1>2. /\ \A v : Width(v)' = Width(v)
      /\ \A v : Configured(s, v)' = Configured(s, v)
      /\ \A p : Vals(p)' = Vals(p)
  BY DEF Width, Configured, Base, Vals
<1>3. \A t, w : Changed(t, w)' = Changed(t, w)
  BY DEF Changed
<1>4. TrueBits(fz)' = TrueBits(fz)
  <2> DEFINE Bits(n, S, slots) ==
                 [k \in {Position(fz, x) : x \in S} |->
                     LET x == CHOOSE y \in S : Position(fz, y) = k IN slots[x[1]].words[fz.val][n][x[2]]]
  <2>1. \A n : Spots(fz, n)' = Spots(fz, n)
    BY <1>1, <1>3 DEF Spots
  <2>2. TrueBits(fz) = [n \in 1..Width(fz.val) |-> Bits(n, Spots(fz, n), case.slots)]
    BY DEF TrueBits, Spots, Position
  <2>3. TrueBits(fz)' = [n \in 1..Width(fz.val)' |-> Bits(n, Spots(fz, n)', case'.slots)]
    BY DEF TrueBits, Spots, Position
  <2> HIDE DEF Bits
  <2> QED
    BY <1>2, <2>1, <2>2, <2>3
<1>5. Single(s)' = Single(s)
  <2>1. \A i : TrueDiff(s, i)' = TrueDiff(s, i)
    BY <1>1, <1>2 DEF TrueDiff
  <2>2. TrueElements(s)' = TrueElements(s)
    BY <1>1, <1>2 DEF TrueElements
  <2>3. TrueNumbers(s)' = TrueNumbers(s)
    BY <2>1 DEF TrueNumbers
  <2> QED
    BY <2>1, <2>2, <2>3 DEF Single
<1>6. Neutral(s)' <=> Neutral(s)
  BY SameCase
<1>7. Fits(s)' <=> Fits(s)
  <2>1. NumbersFit(case.slots[s], Vals(1))' <=> NumbersFit(case.slots[s], Vals(1))
    BY <1>2
  <2>2. VectorFits(s)' <=> VectorFits(s)
    BY <1>2, <1>3 DEF VectorFits
  <2>3. BoolFits(s)' <=> BoolFits(s)
    BY <1>2, <1>3 DEF BoolFits
  <2>4. MixedFits(s)' <=> MixedFits(s)
    BY <1>3 DEF MixedFits
  <2>5. WideFits(s)' <=> WideFits(s)
    BY <1>3 DEF WideFits
  <2> QED
    BY <1>1, <1>6, <2>1, <2>2, <2>3, <2>4, <2>5 DEF Fits
<1> QED
  BY <1>1, <1>4, <1>5, <1>7
\* What a result that is right says depends on the value of its fuzzer alone, so it
\* agrees with what has come before.
LEMMA TrueAgrees ==
    ASSUME TypeOK, IInv, Quiet, status = "run", noise = 0, NEW fz \in waiting, Return(fz, TrueBits(fz))
    PROVE  status' # "oops"
<1> DEFINE fdiffs == FDiffs(fz, TrueBits(fz))
           Of(v, s) == [n \in 1..Width(v) |-> Puts(case.slots[s].base, case.slots[s].words[v][n])]
<1>1. case \in Cases /\ part \in DOMAIN case.parts /\ fz \in Fuzzers(part) /\ DOMAIN gave \subseteq Fuzzers(part)
  BY DEF TypeOK
<1>2. \A g \in Fuzzers(part) : \A s \in Slots : FDiffs(g, TrueBits(g))[s] = Of(g.val, s)
  BY <1>1, TrueDiffs
<1> HIDE DEF Of
<1>3. Translates(fz, TrueBits(fz))
  BY <1>1, TrueDiffs
<1>4. ASSUME NEW s \in Slots PROVE Agrees(<<s, fz.val>>, fdiffs[s])
  <2> SUFFICES ASSUME <<s, fz.val>> \in DOMAIN features PROVE features[<<s, fz.val>>].diffs = fdiffs[s]
    BY DEF Agrees
  <2>1. PICK g \in DOMAIN gave : g.val = fz.val
    BY DEF Quiet, FromFuzzers
  <2>2. gave[g] = TrueBits(g)
    BY DEF Quiet, AllTrue
  <2>3. features[<<s, fz.val>>].diffs = FDiffs(g, TrueBits(g))[s]
    BY <2>1, <2>2 DEF IInv, Unanimous
  <2>4. FDiffs(g, TrueBits(g))[s] = fdiffs[s]
    BY <1>1, <1>2, <2>1
  <2> QED
    BY <2>3, <2>4
<1>5. status' = "run"
  BY <1>3, <1>4 DEF Return, return_fuzzer
<1> QED
  BY <1>5

LEMMA ReturnQuiet ==
    ASSUME TypeOK, IInv, Quiet, status = "run", NEW fz \in waiting, ReturnTrue(fz) \/ ReturnWrong(fz)
    PROVE  Quiet'
<1>1. PICK bits : Return(fz, bits)
  BY DEF ReturnTrue, ReturnWrong
<1>2. /\ case' = case /\ tiledb' = tiledb /\ trusted' = trusted
      /\ gave' = [g \in DOMAIN gave \cup {fz} |-> IF g = fz THEN bits ELSE gave[g]]
  BY <1>1 DEF Return
<1>3. FromFuzzers'
  <2>1. DOMAIN gave' = DOMAIN gave \cup {fz}
    BY <1>2
  <2>2. DOMAIN features' \subseteq DOMAIN features \cup {<<s, fz.val>> : s \in Slots}
    <3>1. DOMAIN Stored(fz, FDiffs(fz, bits)) = DOMAIN features \cup {<<s, fz.val>> : s \in Slots}
      BY StoredResult
    <3> QED
      BY <1>1, <3>1 DEF Return, return_fuzzer
  <2> QED
    BY <2>1, <2>2 DEF Quiet, FromFuzzers
<1>4. CASE noise' # 0
  BY <1>3, <1>4 DEF Quiet, AllTrue, Made, FailsUnfit
<1>5. CASE noise' = 0
  <2>1. noise = 0 /\ Return(fz, TrueBits(fz))
    <3>1. noise \in Nat
      <4>1. noise \in 0..case.noise
        BY DEF TypeOK
      <4> QED
        BY <4>1
    <3>2. ~ReturnWrong(fz)
      BY <1>5, <3>1 DEF ReturnWrong
    <3> QED
      BY <1>5, <3>2 DEF ReturnTrue
  <2>2. status' # "oops" /\ status' # "failed"
    <3>1. status' # "oops"
      BY <2>1, TrueAgrees
    <3> QED
      BY <3>1, <1>1 DEF Return, return_fuzzer
  <2>3. gave' = [g \in DOMAIN gave \cup {fz} |-> IF g = fz THEN TrueBits(fz) ELSE gave[g]]
    BY <2>1 DEF Return
  <2>4. Slots' = Slots /\ \A g : TrueBits(g)' = TrueBits(g)
    BY <1>2, SameDevice
  <2>5. AllTrue'
    <3>1. (\A g \in DOMAIN gave : gave[g] = TrueBits(g)) /\ \A s \in Slots : trusted[s]
      BY <2>1 DEF Quiet, AllTrue
    <3>2. \A g \in DOMAIN gave' : gave'[g] = TrueBits(g)
      BY <2>3, <3>1
    <3> QED
      BY <1>2, <2>2, <2>4, <3>1, <3>2 DEF AllTrue
  <2>6. Made'
    <3>1. \A s : (Enumeration(s)' <=> Enumeration(s)) /\ Single(s)' = Single(s)
      BY <1>2, SameDevice
    <3> QED
      BY <1>2, <2>1, <2>4, <3>1 DEF Quiet, Made
  <2> QED
    BY <1>3, <2>2, <2>5, <2>6 DEF Quiet, FailsUnfit
<1> QED
  BY <1>4, <1>5

\* When a collector runs every fuzzer has given its result.
LEMMA AllGave ==
    ASSUME TypeOK, FromFuzzers, waiting = {}, NEW s \in Slots, ToCollect(s) # {}, NEW v \in Vals(part)
    PROVE  \E fz \in DOMAIN gave : fz.val = v
<1>1. PICK u \in Vals(part) : <<s, u>> \in DOMAIN features
  BY DEF ToCollect
<1>2. PICK g \in DOMAIN gave : g.val = u
  BY <1>1 DEF FromFuzzers
<1>3. DOMAIN gave = [val : Vals(part), place : case.places]
  BY DEF TypeOK, Fuzzers
<1>4. g.place \in case.places
  BY <1>2, <1>3
<1>5. [val |-> v, place |-> g.place] \in DOMAIN gave
  BY <1>3, <1>4
<1> QED
  BY <1>5

LEMMA CollectQuiet ==
    ASSUME TypeOK, IInv, TakenTogether, DbGood, Quiet, status = "run", NEW s \in Slots, Collect(s)
    PROVE  Quiet'
<1>1. /\ UNCHANGED <<case, part, waiting, noise, gave>>
      /\ waiting = {} /\ ToCollect(s) # {}
      /\ features' = [id \in {i \in DOMAIN features : i[1] # s} |-> features[id]]
      /\ trusted' = [trusted EXCEPT ![s] = @ /\ \A v \in Vals(part) :
                        \E fz \in DOMAIN gave : fz.val = v /\ gave[fz] = TrueBits(fz)]
      /\ Store(s, InsertAll(s))
  BY DEF Collect, InsertAll
<1>2. FromFuzzers'
  <2>1. DOMAIN features' \subseteq DOMAIN features
    BY <1>1
  <2> QED
    BY <1>1, <2>1 DEF Quiet, FromFuzzers
<1>3. CASE noise # 0
  BY <1>1, <1>2, <1>3 DEF Quiet, AllTrue, Made, FailsUnfit
<1>4. CASE noise = 0
  <2>1. /\ \A fz \in DOMAIN gave : gave[fz] = TrueBits(fz)
        /\ \A t \in Slots : trusted[t]
        /\ \A t \in Slots : ~Enumeration(t) => tiledb[t] \subseteq Single(t)
    BY <1>4 DEF Quiet, AllTrue, Made
  <2>2. \A v \in Vals(part) : \E fz \in DOMAIN gave : fz.val = v /\ gave[fz] = TrueBits(fz)
    <3>1. \A v \in Vals(part) : \E fz \in DOMAIN gave : fz.val = v
      BY <1>1, AllGave DEF Quiet
    <3> QED
      BY <2>1, <3>1
  <2>3. case \in Cases /\ part \in DOMAIN case.parts
    BY DEF TypeOK
  <2>4. TrueFeatures(s)
    BY <1>1, <2>2, TrustedTrue
  <2>5. Slots' = Slots
        /\ \A x : /\ TrueBits(x)' = TrueBits(x) /\ (Enumeration(x)' <=> Enumeration(x))
                  /\ Single(x)' = Single(x) /\ (Fits(x)' <=> Fits(x))
    BY <1>1, SameDevice
  <2>6. \A t \in Slots : trusted'[t]
    BY <1>1, <2>1, <2>2 DEF TypeOK
  <2>7. status' # "oops"
    BY <1>1 DEF Store
  <2>8. ~Enumeration(s) => InsertAll(s) = Single(s)
    BY <2>1, <2>3, <2>4, SingleInserted
  <2>9. ASSUME Fits(s) PROVE InsertAll(s) # {}
    <3>1. CASE Enumeration(s)
      <4>1. Neutral(s) /\ Separate(s)
        BY <2>9, <3>1 DEF Fits, Enumeration, Separate
      <4>2. \A j \in tiledb[s] : Good(s, j)
        BY <4>1, <2>1 DEF DbGood
      <4> QED
        BY <3>1, <4>1, <4>2, <2>3, <2>4, EnumInserted
    <3>2. CASE ~Enumeration(s)
      BY <2>3, <2>8, <2>9, <3>2, SingleSucceeds
    <3> QED
      BY <3>1, <3>2
  <2>10. ASSUME NEW t \in Slots, ~Enumeration(t) PROVE tiledb'[t] \subseteq Single(t)
    <3>1. \/ tiledb' = tiledb
          \/ tiledb' = [tiledb EXCEPT ![s] = InsertAll(s)]
      BY <1>1 DEF Store
    <3> QED
      BY <3>1, <2>1, <2>8, <2>10 DEF DbGood
  <2>11. AllTrue'
    BY <1>1, <2>1, <2>5, <2>6, <2>7 DEF AllTrue
  <2>12. Made'
    BY <2>5, <2>10 DEF Made
  <2>13. FailsUnfit'
    <3>1. status' = "failed" => ~Fits(s)
      BY <1>1, <2>9 DEF Store
    <3> QED
      BY <2>5, <3>1 DEF FailsUnfit
  <2> QED
    BY <1>2, <2>11, <2>12, <2>13 DEF Quiet
<1> QED
  BY <1>3, <1>4

LEMMA StepQuiet == TypeOK /\ IInv /\ TakenTogether /\ DbGood /\ Quiet /\ [Next]_vars => Quiet'
<1> SUFFICES ASSUME TypeOK, IInv, TakenTogether, DbGood, Quiet, [Next]_vars PROVE Quiet'
  OBVIOUS
<1>1. ASSUME UNCHANGED <<case, features, tiledb, status, noise, trusted>>,
             gave' = gave \/ (DOMAIN features = {} /\ DOMAIN gave' = {})
      PROVE  Quiet'
  <2>1. Slots' = Slots
        /\ \A x : /\ TrueBits(x)' = TrueBits(x) /\ (Enumeration(x)' <=> Enumeration(x))
                  /\ Single(x)' = Single(x) /\ (Fits(x)' <=> Fits(x))
    BY <1>1, SameDevice
  <2>2. FromFuzzers'
    BY <1>1 DEF Quiet, FromFuzzers
  <2>3. AllTrue'
    BY <1>1, <2>1 DEF Quiet, AllTrue
  <2>4. Made'
    BY <1>1, <2>1 DEF Quiet, Made
  <2>5. FailsUnfit'
    BY <1>1, <2>1 DEF Quiet, FailsUnfit
  <2> QED
    BY <2>2, <2>3, <2>4, <2>5 DEF Quiet
<1>2. CASE UNCHANGED vars
  BY <1>1, <1>2 DEF vars
<1>3. ASSUME status = "run", NEW fz \in waiting, ReturnTrue(fz) \/ ReturnWrong(fz)
      PROVE  Quiet'
  BY <1>3, ReturnQuiet
<1>4. ASSUME status = "run", NEW s \in Slots, Collect(s) PROVE Quiet'
  BY <1>4, CollectQuiet
<1>5. CASE NextPart
  BY <1>1, <1>5 DEF NextPart
<1> QED
  BY <1>2, <1>3, <1>4, <1>5 DEF Next

\* As long as the vendor's tool is right no session panics but for a device that is not
\* what its collectors are written for: of every device family, the places of a tile class
\* agree on what a fuzzer changes, and what the collectors make of it can be made and goes
\* into the database, from part to part (State::return_fuzzer, the xlat functions,
\* BsData::insert).
THEOREM NoFalseAlarmAlways == Spec => []NoFalseAlarm
<1>1. Init => TakenTogether /\ DbGood /\ Quiet
  <2> SUFFICES ASSUME Init PROVE TakenTogether /\ DbGood /\ Quiet
    OBVIOUS
  <2>1. TakenTogether /\ DbGood
    BY DEF Init, TakenTogether, DbGood, ToCollect
  <2>2. DOMAIN features = {} /\ DOMAIN gave = {} /\ \A s \in Slots : tiledb[s] = {} /\ trusted[s]
    BY DEF Init
  <2>3. status = "run"
    BY DEF Init
  <2> QED
    BY <2>1, <2>2, <2>3 DEF Quiet, FromFuzzers, AllTrue, Made, FailsUnfit
<1>2. Quiet => NoFalseAlarm
  BY DEF Quiet, AllTrue, FailsUnfit, NoFalseAlarm
<1> QED
  BY <1>1, <1>2, StepDb, StepQuiet, TypeCorrect, InvariantAlways, PTL DEF Spec
=============================================================================
