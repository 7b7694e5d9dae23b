---------------------------- MODULE HammerRunProofs ----------------------------
(***************************************************************************)
(* Proofs about the threads of a hammer run, for any number of workers and *)
(* any list of batches.                                                    *)
(***************************************************************************)
EXTENDS HammerRun, TLAPS, FiniteSetTheorems, WellFoundedInduction

\* The slots are the pairs of a batch and one of its runs.
LEMMA SlotPairs ==
    ASSUME TypeOK
    PROVE  /\ \A s \in Slots : /\ s = <<s[1], s[2]>> /\ s # NoRun
                               /\ s[1] \in Batches /\ s[2] \in 0..plan[s[1]].width
           /\ \A b \in Batches : \A i \in 0..plan[b].width : <<b, i>> \in Slots
<1>1. \A s : s \in Slots <=> \E b \in Batches : \E i \in 0..plan[b].width : s = <<b, i>>
  BY DEF Slots, SlotsOf, Batches
<1>2. ASSUME NEW s \in Slots
      PROVE  /\ s = <<s[1], s[2]>> /\ s # NoRun
             /\ s[1] \in Batches /\ s[2] \in 0..plan[s[1]].width
  <2>0. PICK b \in Batches : \E i \in 0..plan[b].width : s = <<b, i>>
    BY <1>1
  <2>1. PICK i \in 0..plan[b].width : s = <<b, i>>
    BY <2>0
  <2>2. s[1] = b /\ s[2] = i
    BY <2>1
  <2>3. s # <<>>
    BY <2>1
  <2> QED
    BY <2>1, <2>2, <2>3 DEF NoRun
<1> QED
  BY <1>1, <1>2

\* The batches have at least one run besides the base run, and a fuzzer.
LEMMA PlanFacts ==
    ASSUME TypeOK
    PROVE  /\ Len(plan) \in Nat /\ Batches = 1..Len(plan)
           /\ \A b \in Batches : plan[b].width \in Nat \ {0} /\ plan[b].fuzzers \in Nat \ {0}
<1>1. plan \in Seq(BatchShape)
  BY PlansFit DEF TypeOK
<1>2. Len(plan) \in Nat /\ Batches = 1..Len(plan)
  BY <1>1 DEF Batches
<1>3. \A b \in 1..Len(plan) : plan[b] \in BatchShape
  BY <1>1
<1> QED
  BY <1>2, <1>3 DEF BatchShape

-----------------------------------------------------------------------------
(* The queue: the runs of the batches one after the other.                 *)

\* Every nonempty set of numbers has a least one.
LEMMA LeastNat ==
    ASSUME NEW T \in SUBSET Nat, T # {}
    PROVE  \E n \in T : \A m \in T : n <= m
<1> DEFINE U == {1..n : n \in T}
<1>1. U \subseteq FiniteSubsetsOf(Nat) /\ U # {}
  <2>1. ASSUME NEW n \in T PROVE 1..n \in FiniteSubsetsOf(Nat)
    <3>1. n \in Int /\ 1 \in Int /\ 1..n \subseteq Nat
      OBVIOUS
    <3>2. IsFiniteSet(1..n)
      BY <3>1, FS_Interval
    <3> QED
      BY <3>1, <3>2 DEF FiniteSubsetsOf
  <2> QED
    BY <2>1 DEF FiniteSubsetsOf
<1>2. PICK x \in U : \A y \in U : <<y, x>> \notin StrictSubsetOrdering(Nat)
  <2> HIDE DEF U
  <2> QED
    BY <1>1, FS_StrictSubsetOrderingWellFounded, WFMin
<1>3. PICK n \in T : x = 1..n
  BY <1>2
<1>4. ASSUME NEW m \in T, m < n PROVE FALSE
  <2>1. 1..m \subseteq 1..n /\ 1..m # 1..n
    <3>1. n \in 1..n /\ n \notin 1..m
      BY <1>4
    <3> QED
      BY <1>4, <3>1
  <2>2. <<1..m, x>> \in StrictSubsetOrdering(Nat)
    BY <2>1, <1>3 DEF StrictSubsetOrdering
  <2> QED
    BY <2>2, <1>2
<1> QED
  BY <1>4

\* The runs of batch b of plan P, as the queue has them.
RunsOf(P, b) == [i \in 1..(P[b].width + 1) |-> <<b, i - 1>>]

\* A queue of the slots of the first k batches, each once, batch by batch.
Queues(P, k) ==
    {q \in Seq(SlotsOf(P)) :
        /\ \A s \in SlotsOf(P) : s[1] <= k => \E i \in DOMAIN q : q[i] = s
        /\ \A i \in DOMAIN q : q[i][1] <= k
        /\ \A i, j \in DOMAIN q :
              /\ q[i] = q[j] => i = j
              /\ i <= j => q[i][1] <= q[j][1]}

\* The runs of one batch are slots, in order.
LEMMA RunsFit ==
    ASSUME NEW P \in Seq(BatchShape), NEW b \in DOMAIN P
    PROVE  /\ b \in Nat \ {0} /\ P[b].width \in Nat
           /\ RunsOf(P, b) \in Seq(SlotsOf(P)) /\ Len(RunsOf(P, b)) = P[b].width + 1
           /\ \A i \in 1..(P[b].width + 1) : RunsOf(P, b)[i] = <<b, i - 1>>
           /\ \A s \in SlotsOf(P) : s[1] = b => \E i \in 1..(P[b].width + 1) : RunsOf(P, b)[i] = s
           /\ \A s \in SlotsOf(P) : s[1] \in Nat \ {0}
<1>1. Len(P) \in Nat /\ DOMAIN P = 1..Len(P) /\ \A c \in DOMAIN P : P[c] \in BatchShape
  OBVIOUS
<1>2. \A c \in DOMAIN P : P[c].width \in Nat
  BY <1>1 DEF BatchShape
<1>3. \A s : s \in SlotsOf(P) <=> \E c \in DOMAIN P : \E i \in 0..P[c].width : s = <<c, i>>
  BY DEF SlotsOf
<1>4. \A i \in 1..(P[b].width + 1) : <<b, i - 1>> \in SlotsOf(P)
  <2>1. \A i \in 1..(P[b].width + 1) : i - 1 \in 0..P[b].width
    BY <1>2
  <2> QED
    BY <2>1, <1>3
<1>5. P[b].width + 1 \in Nat /\ P[b].width \in Nat
  BY <1>2
<1>6. RunsOf(P, b) \in Seq(SlotsOf(P)) /\ Len(RunsOf(P, b)) = P[b].width + 1
  BY <1>4, <1>5 DEF RunsOf
<1>7. \A s \in SlotsOf(P) : s[1] = b => \E i \in 1..(P[b].width + 1) : RunsOf(P, b)[i] = s
  <2> SUFFICES ASSUME NEW s \in SlotsOf(P), s[1] = b
               PROVE  \E i \in 1..(P[b].width + 1) : RunsOf(P, b)[i] = s
    OBVIOUS
  <2>1. PICK c \in DOMAIN P : \E i \in 0..P[c].width : s = <<c, i>>
    BY <1>3
  <2>2. PICK i \in 0..P[c].width : s = <<c, i>>
    BY <2>1
  <2>3. c = b /\ i + 1 \in 1..(P[b].width + 1) /\ (i + 1) - 1 = i
    BY <2>2, <1>5
  <2>4. RunsOf(P, b)[i + 1] = <<b, (i + 1) - 1>>
    BY <2>3 DEF RunsOf
  <2> QED
    BY <2>2, <2>3, <2>4
<1>8. \A s \in SlotsOf(P) : s[1] \in Nat \ {0}
  BY <1>1, <1>3
<1>9. \A i \in 1..(P[b].width + 1) : RunsOf(P, b)[i] = <<b, i - 1>>
  BY DEF RunsOf
<1> QED
  BY <1>1, <1>5, <1>6, <1>7, <1>8, <1>9

\* Two sequences, one after the other.
LEMMA Joined ==
    ASSUME NEW S, NEW p \in Seq(S), NEW q \in Seq(S), NEW n, Len(q) = n
    PROVE  LET m == Len(p)
           IN /\ p \o q \in Seq(S) /\ Len(p \o q) = m + n /\ DOMAIN (p \o q) = 1..(m + n)
              /\ \A i \in 1..m : (p \o q)[i] = p[i]
              /\ \A i \in 1..n : (p \o q)[m + i] = q[i]
<1> DEFINE m == Len(p)
<1>1. m \in Nat /\ n \in Nat
  OBVIOUS
<1>2. p \o q \in Seq(S) /\ Len(p \o q) = m + n
  OBVIOUS
<1>3. \A i \in 1..m : (p \o q)[i] = p[i]
  OBVIOUS
<1>4. ASSUME NEW i \in 1..n PROVE (p \o q)[m + i] = q[i]
  <2>1. m + i \in 1..(m + n) /\ ~ (m + i <= m) /\ (m + i) - m = i
    BY <1>1
  <2> QED
    BY <2>1, <1>1
<1> QED
  BY <1>1, <1>2, <1>3, <1>4

\* Another batch put at the end of a queue of those before it.
LEMMA QueueGrows ==
    ASSUME NEW P \in Seq(BatchShape), NEW b \in DOMAIN P, NEW q \in Queues(P, b - 1)
    PROVE  q \o RunsOf(P, b) \in Queues(P, b)
<1> DEFINE m == Len(q)
           n == P[b].width + 1
           r == RunsOf(P, b)
           qr == q \o r
<1>1. q \in Seq(SlotsOf(P)) /\ m \in Nat /\ DOMAIN q = 1..m
  BY DEF Queues
<1>2. /\ r \in Seq(SlotsOf(P)) /\ Len(r) = n /\ n \in Nat /\ b \in Nat \ {0}
      /\ \A i \in 1..n : r[i] = <<b, i - 1>>
      /\ \A s \in SlotsOf(P) : s[1] = b => \E i \in 1..n : r[i] = s
      /\ \A s \in SlotsOf(P) : s[1] \in Nat \ {0}
  BY RunsFit
<1>3. /\ qr \in Seq(SlotsOf(P)) /\ Len(qr) = m + n /\ DOMAIN qr = 1..(m + n)
      /\ \A i \in 1..m : qr[i] = q[i]
      /\ \A i \in 1..n : qr[m + i] = r[i]
  <2>1. r \in Seq(SlotsOf(P)) /\ Len(r) = n
    BY <1>2
  <2> HIDE DEF r, n
  <2> QED
    BY <2>1, <1>1, Joined
<1> HIDE DEF r, qr
<1>4. \A i \in 1..m : qr[i] = q[i] /\ q[i] \in SlotsOf(P) /\ q[i][1] \in Nat /\ q[i][1] <= b - 1
  BY <1>1, <1>2, <1>3 DEF Queues
<1>5. \A i \in (m + 1)..(m + n) : i - m \in 1..n /\ qr[i] = <<b, (i - m) - 1>> /\ qr[i][1] = b
  <2> SUFFICES ASSUME NEW i \in (m + 1)..(m + n)
               PROVE  i - m \in 1..n /\ qr[i] = <<b, (i - m) - 1>> /\ qr[i][1] = b
    OBVIOUS
  <2>1. i - m \in 1..n /\ m + (i - m) = i
    BY <1>1, <1>2
  <2>2. qr[i] = r[i - m] /\ r[i - m] = <<b, (i - m) - 1>>
    BY <2>1, <1>2, <1>3
  <2> QED
    BY <2>1, <2>2
<1>6. \A i \in 1..(m + n) : i \in 1..m \/ i \in (m + 1)..(m + n)
  BY <1>1, <1>2
<1>7. ASSUME NEW s \in SlotsOf(P), s[1] <= b PROVE \E i \in DOMAIN qr : qr[i] = s
  <2>1. CASE s[1] <= b - 1
    <3>1. PICK i \in DOMAIN q : q[i] = s
      BY <2>1 DEF Queues
    <3> QED
      BY <3>1, <1>1, <1>2, <1>3
  <2>2. CASE s[1] = b
    <3>1. PICK i \in 1..n : r[i] = s
      BY <2>2, <1>2
    <3>2. m + i \in 1..(m + n) /\ qr[m + i] = s
      BY <3>1, <1>1, <1>2, <1>3
    <3> QED
      BY <3>2, <1>3
  <2>3. s[1] \in Nat
    BY <1>2
  <2> QED
    BY <1>2, <1>7, <2>1, <2>2, <2>3
<1>8. \A i \in DOMAIN qr : qr[i][1] <= b
  BY <1>2, <1>3, <1>4, <1>5, <1>6
<1>9. ASSUME NEW i \in DOMAIN qr, NEW j \in DOMAIN qr
      PROVE  (qr[i] = qr[j] => i = j) /\ (i <= j => qr[i][1] <= qr[j][1])
  <2>1. CASE i \in 1..m /\ j \in 1..m
    BY <2>1, <1>1, <1>4 DEF Queues
  <2>2. CASE i \in 1..m /\ j \in (m + 1)..(m + n)
    <3>1. qr[i][1] <= b - 1 /\ qr[i][1] \in Nat /\ qr[j][1] = b
      BY <2>2, <1>4, <1>5
    <3> QED
      BY <3>1, <1>2
  <2>3. CASE i \in (m + 1)..(m + n) /\ j \in 1..m
    <3>1. qr[j][1] <= b - 1 /\ qr[j][1] \in Nat /\ qr[i][1] = b /\ ~ (i <= j)
      BY <2>3, <1>1, <1>2, <1>4, <1>5
    <3> QED
      BY <3>1, <1>2
  <2>4. CASE i \in (m + 1)..(m + n) /\ j \in (m + 1)..(m + n)
    <3>1. qr[i] = <<b, (i - m) - 1>> /\ qr[j] = <<b, (j - m) - 1>>
      BY <2>4, <1>5
    <3>2. qr[i] = qr[j] => (i - m) - 1 = (j - m) - 1
      BY <3>1
    <3> QED
      BY <2>4, <3>1, <3>2, <1>1, <1>2
  <2> QED
    BY <1>3, <1>6, <2>1, <2>2, <2>3, <2>4
<1> QED
  BY <1>3, <1>7, <1>8, <1>9 DEF Queues, qr, r

\* The queue holds every slot once, batch by batch.
LEMMA QueueFits ==
    ASSUME NEW P \in Plans
    PROVE  /\ ItemsOf(P) \in Seq(SlotsOf(P))
           /\ \A s \in SlotsOf(P) : \E k \in DOMAIN ItemsOf(P) : ItemsOf(P)[k] = s
           /\ \A k, l \in DOMAIN ItemsOf(P) :
                 /\ ItemsOf(P)[k] = ItemsOf(P)[l] => k = l
                 /\ k <= l => ItemsOf(P)[k][1] <= ItemsOf(P)[l][1]
<1> DEFINE n == Len(P)
           parts == [b \in DOMAIN P |-> RunsOf(P, b)]
           Flat(f, k) == f = [i \in 1..k |-> IF i = 1 THEN parts[i] ELSE f[i - 1] \o parts[i]]
<1>1. P \in Seq(BatchShape) /\ n \in Nat /\ DOMAIN P = 1..n /\ DOMAIN parts = 1..n
  BY PlansFit
<1>2. Len(parts) = n /\ \A b \in 1..n : parts[b] = RunsOf(P, b)
  BY <1>1
<1>3. ItemsOf(P) = FlattenSeq(parts)
  BY DEF ItemsOf, RunsOf
<1>4. \A s \in SlotsOf(P) : s[1] \in 1..n
  BY <1>1 DEF SlotsOf
<1>5. CASE n = 0
  <2>1. SlotsOf(P) = {}
    BY <1>4, <1>5
  <2>2. parts = << >> /\ FlattenSeq(parts) = parts
    BY <1>1, <1>2, <1>5 DEF FlattenSeq
  <2>3. << >> \in Seq(SlotsOf(P)) /\ DOMAIN << >> = {}
    OBVIOUS
  <2> HIDE DEF parts
  <2> QED
    BY <1>3, <2>1, <2>2, <2>3
<1>6. CASE n # 0
  <2> HIDE DEF parts
  <2> DEFINE T == {k \in 1..n : ~ \E f : Flat(f, k)}
  <2>1. T = {}
    <3>1. SUFFICES ASSUME T # {} PROVE FALSE
      OBVIOUS
    <3>2. T \in SUBSET Nat
      <4> HIDE DEF Flat
      <4> QED
        BY <1>1
    <3>3. PICK k \in T : \A l \in T : k <= l
      <4> HIDE DEF T
      <4> QED
        BY <3>1, <3>2, LeastNat
    <3>4. k \in Nat \ {0} /\ k <= n
      BY <1>1, <3>3
    <3>5. CASE k = 1
      <4> DEFINE g == [i \in 1..1 |-> parts[i]]
      <4>1. g = [i \in 1..1 |-> IF i = 1 THEN parts[i] ELSE g[i - 1] \o parts[i]]
        OBVIOUS
      <4> QED
        BY <4>1, <3>3, <3>5
    <3>6. CASE k # 1
      <4>1. k - 1 \in 1..n /\ k - 1 \notin T
        <5> HIDE DEF T
        <5>1. k - 1 \in 1..n /\ ~ (k <= k - 1)
          BY <3>4, <3>6, <1>1
        <5> QED
          BY <5>1, <3>3
      <4>2. PICK g : Flat(g, k - 1)
        <5> HIDE DEF Flat
        <5> QED
          BY <4>1
      <4> DEFINE h == [i \in 1..k |-> IF i = k THEN g[k - 1] \o parts[k] ELSE g[i]]
      <4>3. /\ h = [i \in 1..k |-> h[i]] /\ h[k] = g[k - 1] \o parts[k]
            /\ \A i \in 1..(k - 1) : h[i] = g[i]
        <5>1. k \in 1..k /\ \A i \in 1..(k - 1) : i \in 1..k /\ i # k
          BY <3>4
        <5>2. DOMAIN h = 1..k
          OBVIOUS
        <5> QED
          BY <5>1, <5>2
      <4> HIDE DEF h
      <4>4. ASSUME NEW i \in 1..k PROVE h[i] = IF i = 1 THEN parts[i] ELSE h[i - 1] \o parts[i]
        <5>1. CASE i = k
          <6>1. k - 1 \in 1..(k - 1)
            BY <3>4, <3>6
          <6>2. h[k - 1] = g[k - 1]
            BY <4>3, <6>1
          <6> QED
            BY <5>1, <6>2, <3>6, <4>3
        <5>2. CASE i # k
          <6>1. i \in 1..(k - 1)
            BY <3>4, <5>2
          <6>2. g[i] = IF i = 1 THEN parts[i] ELSE g[i - 1] \o parts[i]
            BY <4>2, <6>1
          <6>3. i # 1 => i - 1 \in 1..(k - 1)
            BY <3>4, <6>1
          <6> QED
            BY <4>3, <6>1, <6>2, <6>3
        <5> QED
          BY <5>1, <5>2
      <4>5. Flat(h, k)
        BY <4>3, <4>4
      <4> QED
        BY <4>5, <3>3
    <3> QED
      BY <3>5, <3>6
  <2>2. n \in 1..n
    BY <1>1, <1>6
  <2> DEFINE flat == CHOOSE f : Flat(f, n)
  <2>3. Flat(flat, n)
    BY <2>1, <2>2
  <2>4. ItemsOf(P) = flat[n]
    BY <1>2, <1>3, <1>6 DEF FlattenSeq
  <2> HIDE DEF flat
  <2>5. \A i \in 1..n : flat[i] = IF i = 1 THEN parts[i] ELSE flat[i - 1] \o parts[i]
    BY <2>3
  <2> HIDE DEF T, Flat
  <2> DEFINE B == {k \in 1..n : flat[k] \notin Queues(P, k)}
  <2>6. B = {}
    <3>1. SUFFICES ASSUME B # {} PROVE FALSE
      OBVIOUS
    <3>2. B \in SUBSET Nat
      BY <1>1
    <3>3. PICK k \in B : \A l \in B : k <= l
      <4> HIDE DEF B
      <4> QED
        BY <3>1, <3>2, LeastNat
    <3>4. k \in 1..n /\ k \in Nat \ {0} /\ k \in DOMAIN P
      BY <1>1, <3>3
    <3>5. CASE k = 1
      <4>1. << >> \in Queues(P, 0)
        <5>1. \A s \in SlotsOf(P) : ~ (s[1] <= 0)
          BY <1>4, <1>1
        <5> QED
          BY <5>1 DEF Queues
      <4>2. << >> \o RunsOf(P, 1) = RunsOf(P, 1) /\ 1 \in DOMAIN P
        BY <1>1, <3>4, <3>5, RunsFit
      <4>3. RunsOf(P, 1) \in Queues(P, 1)
        <5>1. << >> \in Queues(P, 1 - 1)
          BY <4>1
        <5> QED
          BY <4>2, <5>1, <1>1, QueueGrows
      <4>4. flat[1] = RunsOf(P, 1)
        BY <2>5, <1>2, <3>4, <3>5
      <4> QED
        BY <4>3, <4>4, <3>3, <3>5
    <3>6. CASE k # 1
      <4>1. k - 1 \in 1..n /\ flat[k - 1] \in Queues(P, k - 1)
        BY <3>3, <3>4, <3>6, <1>1
      <4>2. flat[k] = flat[k - 1] \o RunsOf(P, k)
        BY <2>5, <1>2, <3>4, <3>6
      <4> QED
        BY <4>1, <4>2, <3>3, <3>4, <1>1, QueueGrows
    <3> QED
      BY <3>5, <3>6
  <2>7. ItemsOf(P) \in Queues(P, n)
    BY <2>2, <2>4, <2>6
  <2> QED
    BY <1>1, <1>4, <2>7 DEF Queues
<1> QED
  BY <1>1, <1>5, <1>6

\* The queue holds every slot once, in the order of the batches.
LEMMA QueueFacts ==
    ASSUME TypeOK
    PROVE  /\ Len(items) \in Nat /\ DOMAIN items = 1..Len(items)
           /\ \A k \in DOMAIN items : items[k] \in Slots
           /\ \A s \in Slots : \E k \in DOMAIN items : items[k] = s
           /\ \A k, l \in DOMAIN items :
                 /\ items[k] = items[l] => k = l
                 /\ k <= l => items[k][1] <= items[l][1]
<1>1. items \in Seq(Slots)
  BY QueueFits DEF TypeOK, items, Slots
<1>2. /\ \A s \in Slots : \E k \in DOMAIN items : items[k] = s
      /\ \A k, l \in DOMAIN items :
                 /\ items[k] = items[l] => k = l
                 /\ k <= l => items[k][1] <= items[l][1]
  BY QueueFits DEF TypeOK, items, Slots
<1> QED
  BY <1>1, <1>2

-----------------------------------------------------------------------------
(* The inductive invariant.                                                *)

Waiting == mpc \in {"lock", "check", "sleep", "wait"}

\* The mutexes: the main thread holds the one it looks at; it poisons none before
\* it has taken all that the mutex guards.
Locks ==
    \A b \in Batches :
        /\ lock[b] = "held" <=> b = cur /\ mpc \in {"check", "sleep"}
        /\ lock[b] = "poisoned" => Taken(b) /\ mpc \in {"panic", "panicked"}

\* Where the main thread is.
MainAt ==
    /\ Waiting \/ mpc \in {"return", "weird"} => cur \in Batches
    /\ mpc \in {"join", "returned"} => cur = Len(plan) + 1
    /\ mpc \in {"return", "weird"} => runs # NoRun
    /\ Waiting \/ mpc = "join" => runs = NoRun
    /\ runs # NoRun => cur \in Batches /\ runs = [i \in 0..plan[cur].width |-> <<cur, i>>]
    /\ mpc = "sleep" => ~AllThere
    /\ abort => mpc \in {"panic", "panicked"}
    /\ mpc \in {"returned", "panicked"} => ScopeOver

\* Where the workers are.
WorkersAt ==
    \A t \in Threads :
        /\ wpc[t] \in {"run", "notify", "dead"} => item[t] \in Slots
        /\ wpc[t] = "done" => abort \/ next >= Len(items)

IInv == TypeOK /\ Locks /\ MainAt /\ WorkersAt /\ RunsOnce /\ NoLostWakeup

\* Where the run of slot s is.
Once(s, claimed) ==
    \/ ~claimed /\ Builders(s) = {} /\ slots[s] = NoRun /\ ~Taken(s[1])
    \/ /\ claimed /\ \E t \in Threads : Builders(s) = {t}
       /\ slots[s] = NoRun /\ ~Taken(s[1])
    \/ claimed /\ Builders(s) = {} /\ slots[s] = s /\ ~Taken(s[1])
    \/ claimed /\ Builders(s) = {} /\ slots[s] = NoRun /\ Taken(s[1])

LEMMA OnceEach ==
    ASSUME TypeOK
    PROVE  RunsOnce <=> \A k \in DOMAIN items : Once(items[k], k <= next)
<1>1. \A k \in DOMAIN items : k \in Nat
  BY QueueFacts
<1>2. \A k \in DOMAIN items : (k > next <=> ~(k <= next))
  BY <1>1 DEF TypeOK
<1> QED
  BY <1>2 DEF RunsOnce, Once

\* The same, of the state after a step.
LEMMA OnceEachNext ==
    ASSUME TypeOK, TypeOK', items' = items,
           \A k \in DOMAIN items : \A s \in Slots : s = items[k] => Once(s, k <= next)'
    PROVE  RunsOnce'
<1>1. \A k \in DOMAIN items : k \in Nat /\ items[k] \in Slots
  BY QueueFacts
<1>2. \A k \in DOMAIN items : (k > next' <=> ~(k <= next'))
  BY <1>1 DEF TypeOK
<1>3. ASSUME NEW k \in DOMAIN items, NEW s \in Slots, s = items[k]
      PROVE  /\ k > next' => Builders(s)' = {} /\ slots'[s] = NoRun /\ ~Taken(s[1])'
             /\ k <= next' =>
                   \/ /\ \E t \in Threads : Builders(s)' = {t}
                      /\ slots'[s] = NoRun /\ ~Taken(s[1])'
                   \/ Builders(s)' = {} /\ slots'[s] = s /\ ~Taken(s[1])'
                   \/ Builders(s)' = {} /\ slots'[s] = NoRun /\ Taken(s[1])'
  BY <1>2, <1>3 DEF Once
<1> QED
  BY <1>1, <1>3 DEF RunsOnce

\* A run at work is in no slot and not taken.
LEMMA AtWork ==
    ASSUME IInv, NEW t \in Threads, wpc[t] \in {"run", "dead"}
    PROVE  /\ item[t] \in Slots /\ Builders(item[t]) = {t}
           /\ slots[item[t]] = NoRun /\ ~Taken(item[t][1])
           /\ \E k \in DOMAIN items : items[k] = item[t] /\ k <= next
<1>1. item[t] \in Slots
  BY DEF IInv, WorkersAt
<1>2. PICK k \in DOMAIN items : items[k] = item[t]
  BY <1>1, QueueFacts DEF IInv
<1>3. t \in Builders(item[t])
  BY DEF Builders
<1>4. Once(item[t], k <= next)
  BY <1>2, OnceEach DEF IInv
<1>5. k <= next /\ slots[item[t]] = NoRun /\ ~Taken(item[t][1])
      /\ \E u \in Threads : Builders(item[t]) = {u}
  BY <1>3, <1>4 DEF Once
<1> QED
  BY <1>1, <1>2, <1>3, <1>5

\* A slot holds its own run or none.
LEMMA SlotsOwn ==
    ASSUME IInv, NEW s \in Slots
    PROVE  slots[s] \in {s, NoRun}
<1>1. PICK k \in DOMAIN items : items[k] = s
  BY QueueFacts DEF IInv
<1>2. Once(s, k <= next)
  BY <1>1, OnceEach DEF IInv
<1> QED
  BY <1>2 DEF Once

\* The places of the runs stay when no worker starts or ends a run, no slot changes
\* and nothing is taken.
LEMMA OnceKept ==
    ASSUME TypeOK, RunsOnce, plan' = plan, next' = next, slots' = slots,
           \A s \in Slots : Builders(s)' = Builders(s) /\ Taken(s[1])' = Taken(s[1])
    PROVE  RunsOnce'
<1>1. items' = items
  BY DEF items
<1>2. \A k \in DOMAIN items : items[k] \in Slots
  BY QueueFacts
<1>3. ASSUME NEW k \in DOMAIN items
      PROVE  /\ Builders(items[k])' = Builders(items[k])
             /\ Taken(items[k][1])' = Taken(items[k][1])
  BY <1>1, <1>2
<1> QED
  BY <1>1, <1>3 DEF RunsOnce

-----------------------------------------------------------------------------
(* The invariant holds at the start.                                       *)

LEMMA InitInv == Init => IInv
<1> SUFFICES ASSUME Init PROVE IInv
  OBVIOUS
<1>1. plan \in Seq(BatchShape)
  BY PlansFit DEF Init
<1>2. Len(plan) \in Nat /\ Batches = 1..Len(plan)
  BY <1>1 DEF Batches
<1>3. \A b \in 1..Len(plan) : plan[b] \in BatchShape
  BY <1>1
<1>4. \A b \in Batches : plan[b].fuzzers \in Nat \ {0} /\ plan[b].width \in Nat \ {0}
  BY <1>2, <1>3 DEF BatchShape
<1>5. plan = <<>> <=> Len(plan) = 0
  BY <1>1
<1>6. fid \in 1..(IF cur \in Batches THEN plan[cur].fuzzers ELSE 1)
  BY <1>2, <1>4 DEF Init
<1>7. cur \in 1..(Len(plan) + 1)
  BY <1>2 DEF Init
<1>8. /\ slots \in [Slots -> Slots \cup {NoRun}]
      /\ item \in [Threads -> Slots \cup {NoRun}]
      /\ lock \in [Batches -> {"free", "held", "poisoned"}]
      /\ mpc \in {"lock", "check", "sleep", "wait", "return", "weird",
                "join", "panic", "returned", "panicked"}
      /\ wpc \in [Threads -> {"check", "claim", "run", "notify", "done", "dead"}]
  BY DEF Init
<1>9. TypeOK
  BY <1>6, <1>7, <1>8 DEF TypeOK, Init
<1>10. Locks
  BY DEF Init, Locks
<1>11. MainAt
  BY <1>2, <1>5 DEF Init, MainAt, Waiting
<1>12. WorkersAt
  BY DEF Init, WorkersAt
<1>13. RunsOnce
  <2>1. \A s \in Slots : Builders(s) = {} /\ slots[s] = NoRun
    BY DEF Init, Builders
  <2>2. \A s \in Slots : ~Taken(s[1])
    BY <1>2, <1>9, SlotPairs DEF Init, Taken
  <2>3. \A k \in DOMAIN items : k > next
    BY <1>9, QueueFacts DEF Init
  <2> QED
    BY <1>9, <2>1, <2>2, <2>3, QueueFacts DEF Init, RunsOnce
<1>14. NoLostWakeup
  BY DEF Init, NoLostWakeup
<1> QED
  BY <1>9, <1>10, <1>11, <1>12, <1>13, <1>14 DEF IInv

-----------------------------------------------------------------------------
(* The types are kept.                                                     *)

LEMMA TypeKept == IInv /\ [Next]_vars => TypeOK'
<1> SUFFICES ASSUME IInv, [Next]_vars PROVE TypeOK'
  OBVIOUS
<1> USE DEF IInv
<1>1. Slots' = Slots /\ Batches' = Batches /\ items' = items /\ plan' = plan
  BY DEF Next, Worker, Main, CheckAbort, Claim, Store, BitgenPanic, Notify, Lock,
     SeeMissing, Wait, SpuriousWakeup, Decode, Abort, Return, Oops, Join, vars,
     Slots, Batches, items
<1>2. ASSUME NEW t \in Threads, CheckAbort(t) PROVE TypeOK'
  BY <1>1, <1>2 DEF TypeOK, CheckAbort, mainVars
<1>3. ASSUME NEW t \in Threads, Claim(t) PROVE TypeOK'
  <2>1. ~Exhausted => items[next + 1] \in Slots
    <3>1. ~Exhausted => next + 1 \in 1..Len(items)
      BY QueueFacts DEF TypeOK, Exhausted
    <3> QED
      BY <3>1, QueueFacts
  <2>2. item' \in [Threads -> Slots \cup {NoRun}]
    BY <1>3, <2>1 DEF Claim, TypeOK
  <2>3. next' \in Nat
    BY <1>3 DEF Claim, TypeOK, Advance
  <2>4. wpc' \in [Threads -> {"check", "claim", "run", "notify", "done", "dead"}]
    BY <1>3 DEF Claim, TypeOK
  <2> QED
    BY <1>1, <1>3, <2>2, <2>3, <2>4 DEF TypeOK, Claim, mainVars
<1>4. ASSUME NEW t \in Threads, Store(t) PROVE TypeOK'
  <2>1. item[t] \in Slots
    BY <1>4 DEF Store, WorkersAt
  <2>2. slots' \in [Slots -> Slots \cup {NoRun}]
    BY <1>4, <2>1 DEF Store, TypeOK
  <2>3. wpc' \in [Threads -> {"check", "claim", "run", "notify", "done", "dead"}]
    BY <1>4 DEF Store, TypeOK
  <2> QED
    BY <1>1, <1>4, <2>2, <2>3 DEF TypeOK, Store, mainVars
<1>5. ASSUME NEW t \in Threads, BitgenPanic(t) PROVE TypeOK'
  BY <1>1, <1>5 DEF TypeOK, BitgenPanic, mainVars
<1>6. ASSUME NEW t \in Threads, Notify(t) PROVE TypeOK'
  BY <1>1, <1>6 DEF TypeOK, Notify, mainVars
<1>7. ASSUME Lock \/ SeeMissing \/ Wait \/ SpuriousWakeup \/ Oops \/ Join PROVE TypeOK'
  BY <1>1, <1>7 DEF TypeOK, Lock, SeeMissing, Wait, SpuriousWakeup, Oops, Join,
     mainVars, workVars
<1>8. ASSUME NEW v, Decode(v) PROVE TypeOK'
  <2>1. slots' \in [Slots -> Slots \cup {NoRun}]
    BY <1>8 DEF Decode, TypeOK
  <2>2. lock' \in [Batches -> {"free", "held", "poisoned"}]
    BY <1>8 DEF Decode, TypeOK
  <2>3. mpc' \in {"panic", "return", "weird"}
    BY <1>8 DEF Decode
  <2> QED
    BY <1>1, <1>8, <2>1, <2>2, <2>3 DEF TypeOK, Decode, workVars
<1>9. CASE Abort
  BY <1>1, <1>9 DEF TypeOK, Abort, workVars
<1>10. CASE Return
  <2>1. cur \in Batches /\ mpc = "return"
    BY <1>10 DEF Return, MainAt
  <2>2. cur' \in 1..(Len(plan) + 1) /\ fid' \in 1..(IF cur' \in Batches THEN plan[cur'].fuzzers ELSE 1)
    BY <1>10, <2>1, PlanFacts DEF Return, TypeOK, LastFuzzer
  <2>3. mpc' \in {"return", "lock", "join"}
    BY <1>10, <2>1 DEF Return
  <2> QED
    BY <1>1, <1>10, <2>2, <2>3 DEF TypeOK, Return, workVars
<1>11. CASE UNCHANGED vars
  BY <1>1, <1>11 DEF TypeOK, vars, workVars, mainVars
<1> QED
  BY <1>2, <1>3, <1>4, <1>5, <1>6, <1>7, <1>8, <1>9, <1>10, <1>11 DEF Next, Worker, Main

\* A step keeps the plan and what is made of it.
LEMMA PlanKept == [Next]_vars => /\ plan' = plan /\ Slots' = Slots
                                 /\ Batches' = Batches /\ items' = items
  BY DEF Next, Worker, Main, CheckAbort, Claim, Store, BitgenPanic, Notify, Lock,
     SeeMissing, Wait, SpuriousWakeup, Decode, Abort, Return, Oops, Join, vars,
     Slots, Batches, items

-----------------------------------------------------------------------------
(* The mutexes.                                                            *)

LEMMA LocksKept == IInv /\ [Next]_vars => Locks'
<1> SUFFICES ASSUME IInv, [Next]_vars PROVE Locks'
  OBVIOUS
<1> USE PlanKept DEF IInv
<1>1. ASSUME UNCHANGED <<lock, mpc, cur, runs>> PROVE Locks'
  BY <1>1 DEF Locks, Taken
<1>2. ASSUME NEW t \in Threads, CheckAbort(t) \/ Claim(t) \/ Store(t) \/ BitgenPanic(t)
      PROVE  Locks'
  BY <1>1, <1>2 DEF CheckAbort, Claim, Store, BitgenPanic, mainVars
<1>3. ASSUME NEW t \in Threads, Notify(t) PROVE Locks'
  BY <1>3 DEF Notify, mainVars, Locks, Taken
<1>4. CASE Lock
  BY <1>4, PlanFacts DEF Lock, mainVars, Locks, Taken, MainAt, Waiting, TypeOK
<1>5. CASE SeeMissing \/ SpuriousWakeup \/ Abort \/ Oops
  BY <1>5 DEF SeeMissing, SpuriousWakeup, Abort, Oops, mainVars, Locks, Taken
<1>6. CASE Wait
  BY <1>6 DEF Wait, mainVars, Locks, Taken, TypeOK
<1>7. ASSUME NEW v, Decode(v) PROVE Locks'
  <2>1. cur \in Batches /\ plan[cur].width \in Nat \ {0}
    BY <1>7, PlanFacts DEF Decode, MainAt, Waiting
  <2>2. 0 \in DOMAIN runs'
    BY <1>7, <2>1 DEF Decode
  <2>3. runs' # NoRun
    BY <2>2 DEF NoRun
  <2>4. \A b \in Batches : b # cur => lock'[b] = lock[b] /\ lock[b] \notin {"held", "poisoned"}
    BY <1>7, <2>1 DEF Decode, Locks, TypeOK
  <2>5. lock'[cur] = "free" \/ (lock'[cur] = "poisoned" /\ mpc' = "panic")
    BY <1>7, <2>1 DEF Decode, TypeOK
  <2>6. cur' = cur /\ mpc' \in {"panic", "return", "weird"}
    BY <1>7 DEF Decode
  <2> QED
    BY <2>3, <2>4, <2>5, <2>6 DEF Locks, Taken
<1>8. CASE Return
  <2>1. lock' = lock /\ mpc' \in {"return", "lock", "join"}
    BY <1>8 DEF Return
  <2>2. \A b \in Batches : lock[b] \notin {"held", "poisoned"}
    BY <1>8 DEF Return, Locks
  <2> QED
    BY <2>1, <2>2 DEF Locks
<1>9. CASE Join
  BY <1>9 DEF Join, mainVars, Locks, Taken
<1>10. CASE UNCHANGED vars
  BY <1>1, <1>10 DEF vars, mainVars
<1> QED
  BY <1>2, <1>3, <1>4, <1>5, <1>6, <1>7, <1>8, <1>9, <1>10 DEF Next, Worker, Main

-----------------------------------------------------------------------------
(* The main thread.                                                        *)

LEMMA MainKept == IInv /\ [Next]_vars => MainAt'
<1> SUFFICES ASSUME IInv, [Next]_vars PROVE MainAt'
  OBVIOUS
<1> USE PlanKept DEF IInv
<1>1. ASSUME NEW t \in Threads, Worker(t) PROVE MainAt'
  <2>1. wpc[t] \notin {"done", "dead"}
    BY <1>1 DEF Worker, CheckAbort, Claim, Store, BitgenPanic, Notify
  <2>2. ~ScopeOver
    BY <2>1 DEF ScopeOver, Gone
  <2>3. mpc \notin {"returned", "panicked"}
    BY <2>2 DEF MainAt
  <2>4. abort' = abort /\ cur' = cur /\ runs' = runs
    BY <1>1 DEF Worker, CheckAbort, Claim, Store, BitgenPanic, Notify, mainVars
  <2>5. mpc' = mpc \/ (mpc = "wait" /\ mpc' = "lock")
    BY <1>1 DEF Worker, CheckAbort, Claim, Store, BitgenPanic, Notify
  <2>6. mpc' = "sleep" => ~AllThere'
    <3> SUFFICES ASSUME mpc = "sleep" PROVE ~AllThere'
      BY <2>5
    <3>1. ~AllThere /\ cur \in Batches /\ Locked(cur)
      BY DEF MainAt, Locks, Locked, Waiting
    <3>2. PICK i \in 0..plan[cur].width : slots[<<cur, i>>] = NoRun
      BY <3>1 DEF AllThere
    <3>3. slots'[<<cur, i>>] = NoRun
      <4>1. CASE Store(t)
        <5>1. item[t] \in Slots /\ item[t][1] # cur
          BY <3>1, <4>1 DEF Store, WorkersAt
        <5>2. item[t] # <<cur, i>> /\ <<cur, i>> \in Slots
          BY <3>1, <5>1, SlotPairs
        <5> QED
          BY <3>2, <4>1, <5>2 DEF Store, TypeOK
      <4>2. CASE ~Store(t)
        BY <1>1, <3>2, <4>2 DEF Worker, CheckAbort, Claim, BitgenPanic, Notify
      <4> QED
        BY <4>1, <4>2
    <3> QED
      BY <2>4, <3>3 DEF AllThere
  <2> QED
    BY <2>3, <2>4, <2>5, <2>6 DEF MainAt, Waiting
<1>2. CASE Lock \/ SeeMissing \/ Wait \/ SpuriousWakeup \/ Oops
  BY <1>2 DEF Lock, SeeMissing, Wait, SpuriousWakeup, Oops, mainVars, workVars,
     MainAt, Waiting, AllThere
<1>3. ASSUME NEW v, Decode(v) PROVE MainAt'
  <2>1. cur \in Batches /\ plan[cur].width \in Nat \ {0} /\ ~abort
    BY <1>3, PlanFacts DEF Decode, MainAt, Waiting
  <2>2. \A i \in 0..plan[cur].width : slots[<<cur, i>>] = <<cur, i>>
    BY <1>3, <2>1, SlotsOwn, SlotPairs DEF Decode, AllThere
  <2>3. runs' = [i \in 0..plan[cur].width |-> <<cur, i>>]
    BY <1>3, <2>2 DEF Decode
  <2>4. 0 \in DOMAIN runs'
    BY <2>1, <2>3
  <2>5. runs' # NoRun
    BY <2>4 DEF NoRun
  <2>6. mpc' \in {"panic", "return", "weird"} /\ cur' = cur /\ abort' = abort
    BY <1>3 DEF Decode
  <2> QED
    BY <2>1, <2>3, <2>5, <2>6 DEF MainAt, Waiting
<1>4. CASE Abort
  BY <1>4 DEF Abort, MainAt, Waiting
<1>5. CASE Return
  <2>1. cur \in Batches /\ mpc = "return" /\ ~abort /\ runs # NoRun
    BY <1>5 DEF Return, MainAt
  <2>2. CASE LastFuzzer
    <3>1. cur' = cur + 1 /\ runs' = NoRun /\ abort' = abort
          /\ mpc' = IF cur < Len(plan) THEN "lock" ELSE "join"
      BY <1>5, <2>2 DEF Return
    <3>2. cur < Len(plan) => cur + 1 \in Batches
      BY <2>1, PlanFacts
    <3>3. ~(cur < Len(plan)) => cur + 1 = Len(plan) + 1
      BY <2>1, PlanFacts
    <3> QED
      BY <2>1, <3>1, <3>2, <3>3 DEF MainAt, Waiting
  <2>3. CASE ~LastFuzzer
    BY <1>5, <2>1, <2>3 DEF Return, MainAt, Waiting
  <2> QED
    BY <2>2, <2>3
<1>6. CASE Join
  BY <1>6 DEF Join, mainVars, workVars, MainAt, Waiting, ScopeOver, Gone
<1>7. CASE UNCHANGED vars
  BY <1>7 DEF vars, mainVars, workVars, MainAt, Waiting, ScopeOver, Gone, AllThere
<1> QED
  BY <1>1, <1>2, <1>3, <1>4, <1>5, <1>6, <1>7 DEF Next, Main

-----------------------------------------------------------------------------
(* The workers.                                                            *)

LEMMA WorkersKept == IInv /\ [Next]_vars => WorkersAt'
<1> SUFFICES ASSUME IInv, [Next]_vars PROVE WorkersAt'
  OBVIOUS
<1> USE PlanKept DEF IInv
<1>1. ASSUME NEW t \in Threads, CheckAbort(t) PROVE WorkersAt'
  BY <1>1 DEF CheckAbort, mainVars, WorkersAt, TypeOK
<1>2. ASSUME NEW t \in Threads, Claim(t) PROVE WorkersAt'
  <2>1. CASE Exhausted
    <3>1. next >= Len(items) /\ next' >= Len(items)
      BY <1>2, <2>1, QueueFacts DEF Claim, Exhausted, Advance, TypeOK
    <3> QED
      BY <1>2, <2>1, <3>1 DEF Claim, mainVars, WorkersAt, TypeOK
  <2>2. CASE ~Exhausted
    <3>1. next + 1 \in 1..Len(items)
      BY <2>2, QueueFacts DEF TypeOK, Exhausted
    <3>2. items[next + 1] \in Slots
      BY <3>1, QueueFacts
    <3>3. next >= Len(items) => next' >= Len(items)
      BY <2>2 DEF Exhausted
    <3> QED
      BY <1>2, <2>2, <3>2, <3>3 DEF Claim, mainVars, WorkersAt, TypeOK
  <2> QED
    BY <2>1, <2>2
<1>3. ASSUME NEW t \in Threads, Store(t) \/ BitgenPanic(t) PROVE WorkersAt'
  BY <1>3 DEF Store, BitgenPanic, mainVars, WorkersAt, TypeOK
<1>4. ASSUME NEW t \in Threads, Notify(t) PROVE WorkersAt'
  BY <1>4 DEF Notify, mainVars, WorkersAt, TypeOK
<1>5. CASE Main \/ SpuriousWakeup \/ UNCHANGED vars
  <2>1. UNCHANGED workVars
    BY <1>5 DEF Main, Lock, SeeMissing, Wait, SpuriousWakeup, Decode, Abort, Return,
       Oops, Join, vars
  <2>2. abort => abort'
    BY <1>5 DEF Main, Lock, SeeMissing, Wait, SpuriousWakeup, Decode, Abort, Return,
       Oops, Join, vars, mainVars
  <2> QED
    BY <2>1, <2>2 DEF WorkersAt, workVars
<1> QED
  BY <1>1, <1>2, <1>3, <1>4, <1>5 DEF Next, Worker

-----------------------------------------------------------------------------
(* Every run is made once.                                                 *)

LEMMA OnceNext == IInv /\ [Next]_vars => RunsOnce'
<1> SUFFICES ASSUME IInv, [Next]_vars PROVE RunsOnce'
  OBVIOUS
<1>0. TypeOK /\ RunsOnce /\ plan' = plan /\ items' = items /\ TypeOK' /\ Slots' = Slots
  BY PlanKept, TypeKept DEF IInv
<1>1. ASSUME NEW t \in Threads, CheckAbort(t) PROVE RunsOnce'
  <2>1. \A s : Builders(s)' = Builders(s)
    BY <1>0, <1>1 DEF CheckAbort, Builders, TypeOK
  <2>2. slots' = slots /\ next' = next /\ \A b : Taken(b)' = Taken(b)
    BY <1>1 DEF CheckAbort, mainVars, Taken
  <2> QED
    BY <1>0, <2>1, <2>2, OnceKept
<1>2. ASSUME NEW t \in Threads, Claim(t) PROVE RunsOnce'
  <2>1. slots' = slots /\ next' = next + 1 /\ next \in Nat /\ \A b : Taken(b)' = Taken(b)
    BY <1>0, <1>2 DEF Claim, Advance, mainVars, Taken, TypeOK
  <2>2. CASE Exhausted
    <3>1. \A s : Builders(s)' = Builders(s)
      BY <1>0, <1>2, <2>2 DEF Claim, Builders, TypeOK
    <3>2. \A k \in DOMAIN items : k <= next /\ k <= next'
      BY <1>0, <2>1, <2>2, QueueFacts DEF Exhausted
    <3>3. ASSUME NEW k \in DOMAIN items, NEW s \in Slots, s = items[k]
          PROVE  Once(s, k <= next)'
      <4>1. Once(s, k <= next)
        BY <1>0, <3>3, OnceEach
      <4> QED
        BY <2>1, <3>1, <3>2, <4>1 DEF Once
    <3> QED
      BY <1>0, <3>3, OnceEachNext
  <2>3. CASE ~Exhausted
    <3>1. next + 1 \in DOMAIN items
      BY <1>0, <2>1, <2>3, QueueFacts DEF Exhausted
    <3>2. PICK s0 \in Slots : s0 = items[next + 1]
      BY <1>0, <3>1, QueueFacts
    <3>3. Once(s0, next + 1 <= next)
      BY <1>0, <3>1, <3>2, OnceEach
    <3>4. Builders(s0) = {} /\ slots[s0] = NoRun /\ ~Taken(s0[1])
      BY <2>1, <3>3 DEF Once
    <3>5. item' = [item EXCEPT ![t] = s0] /\ wpc' = [wpc EXCEPT ![t] = "run"] /\ wpc[t] = "claim"
      BY <1>2, <2>3, <3>2 DEF Claim
    <3>6. Builders(s0)' = {t}
      BY <1>0, <3>4, <3>5 DEF Builders, TypeOK
    <3>7. \A s : s # s0 => Builders(s)' = Builders(s)
      BY <1>0, <3>5 DEF Builders, TypeOK
    <3>8. ASSUME NEW k \in DOMAIN items, NEW s \in Slots, s = items[k]
          PROVE  Once(s, k <= next)'
      <4>0. k \in Nat
        BY <1>0, QueueFacts
      <4>1. CASE k = next + 1
        <5>1. s = s0 /\ k <= next'
          BY <2>1, <3>2, <3>8, <4>0, <4>1
        <5> QED
          BY <2>1, <3>4, <3>6, <5>1 DEF Once
      <4>2. CASE k # next + 1
        <5>1. k <= next' <=> k <= next
          BY <2>1, <4>0, <4>2
        <5>2. Once(s, k <= next)
          BY <1>0, <3>8, OnceEach
        <5>3. s # s0
          BY <1>0, <3>1, <3>2, <3>8, <4>2, QueueFacts
        <5>4. Builders(s)' = Builders(s)
          BY <3>7, <5>3
        <5> QED
          BY <2>1, <5>1, <5>2, <5>4 DEF Once
      <4> QED
        BY <4>1, <4>2
    <3> QED
      BY <1>0, <3>8, OnceEachNext
  <2> QED
    BY <2>2, <2>3
<1>3. ASSUME NEW t \in Threads, Store(t) PROVE RunsOnce'
  <2>1. PICK s0 \in Slots : s0 = item[t]
    BY <1>3, AtWork DEF Store
  <2>2. /\ Builders(s0) = {t} /\ slots[s0] = NoRun /\ ~Taken(s0[1])
        /\ \E k \in DOMAIN items : items[k] = s0 /\ k <= next
    BY <1>3, <2>1, AtWork DEF Store
  <2>3. lock[s0[1]] # "poisoned"
    BY <1>0, <2>2, SlotPairs DEF IInv, Locks
  <2>4. wpc' = [wpc EXCEPT ![t] = "notify"] /\ slots' = [slots EXCEPT ![s0] = s0]
    BY <1>3, <2>1, <2>3 DEF Store
  <2>5. item' = item /\ next' = next /\ \A b : Taken(b)' = Taken(b)
    BY <1>3 DEF Store, mainVars, Taken
  <2>6. Builders(s0)' = {} /\ \A s : s # s0 => Builders(s)' = Builders(s)
    BY <1>0, <2>1, <2>2, <2>4, <2>5 DEF Builders, TypeOK
  <2>7. slots'[s0] = s0 /\ \A s \in Slots : s # s0 => slots'[s] = slots[s]
    BY <1>0, <2>4 DEF TypeOK
  <2>8. ASSUME NEW k \in DOMAIN items, NEW s \in Slots, s = items[k]
        PROVE  Once(s, k <= next)'
    <3>1. Once(s, k <= next)
      BY <1>0, <2>8, OnceEach
    <3>2. CASE s = s0
      <4>1. k <= next
        BY <1>0, <2>2, <2>8, <3>2, QueueFacts
      <4> QED
        BY <2>2, <2>5, <2>6, <2>7, <3>2, <4>1 DEF Once
    <3>3. CASE s # s0
      BY <2>5, <2>6, <2>7, <3>1, <3>3 DEF Once
    <3> QED
      BY <3>2, <3>3
  <2> QED
    BY <1>0, <2>8, OnceEachNext
<1>4. ASSUME NEW t \in Threads, BitgenPanic(t) \/ Notify(t) PROVE RunsOnce'
  <2>1. \A s : Builders(s)' = Builders(s)
    BY <1>0, <1>4 DEF BitgenPanic, Notify, Builders, TypeOK
  <2>2. slots' = slots /\ next' = next /\ \A b : Taken(b)' = Taken(b)
    BY <1>4 DEF BitgenPanic, Notify, mainVars, Taken
  <2> QED
    BY <1>0, <2>1, <2>2, OnceKept
<1>5. CASE Lock \/ SeeMissing \/ Wait \/ SpuriousWakeup \/ Abort \/ Oops \/ Join \/ UNCHANGED vars
  <2>1. UNCHANGED workVars /\ slots' = slots /\ \A b : Taken(b)' = Taken(b)
    BY <1>5 DEF Lock, SeeMissing, Wait, SpuriousWakeup, Abort, Oops, Join, vars,
       mainVars, Taken
  <2>2. \A s : Builders(s)' = Builders(s)
    BY <2>1 DEF Builders, workVars
  <2> QED
    BY <1>0, <2>1, <2>2, OnceKept DEF workVars
<1>6. ASSUME NEW v, Decode(v) PROVE RunsOnce'
  <2>1. MainAt' /\ cur \in Batches /\ runs = NoRun /\ cur' = cur
    BY <1>6, MainKept DEF Decode, IInv, MainAt, Waiting
  <2>2. UNCHANGED workVars /\ \A s : Builders(s)' = Builders(s)
    BY <1>6 DEF Decode, Builders, workVars
  <2>3. 0 \in DOMAIN runs'
    BY <1>0, <1>6, <2>1, PlanFacts DEF Decode
  <2>4. runs' # NoRun
    BY <2>3 DEF NoRun
  <2>5. \A b \in Batches : IF b = cur THEN Taken(b)' ELSE Taken(b)' = Taken(b)
    BY <2>1, <2>4 DEF Taken
  <2>6. \A s \in Slots : slots'[s] = IF s[1] = cur THEN NoRun ELSE slots[s]
    BY <1>6 DEF Decode
  <2>7. ASSUME NEW k \in DOMAIN items, NEW s \in Slots, s = items[k]
        PROVE  Once(s, k <= next)'
    <3>1. Once(s, k <= next)
      BY <1>0, <2>7, OnceEach
    <3>2. /\ s = <<s[1], s[2]>> /\ s # NoRun
          /\ s[1] \in Batches /\ s[2] \in 0..plan[s[1]].width
      BY <1>0, SlotPairs
    <3>3. CASE s[1] = cur
      <4>1. slots[s] # NoRun
        BY <1>6, <3>2, <3>3 DEF Decode, AllThere
      <4>2. k <= next /\ Builders(s) = {}
        BY <3>1, <4>1 DEF Once
      <4> QED
        BY <2>2, <2>5, <2>6, <3>2, <3>3, <4>2 DEF Once, workVars
    <3>4. CASE s[1] # cur
      BY <2>2, <2>5, <2>6, <3>1, <3>2, <3>4 DEF Once, workVars
    <3> QED
      BY <3>3, <3>4
  <2> QED
    BY <1>0, <2>7, OnceEachNext
<1>7. CASE Return
  <2>1. cur \in Batches /\ runs # NoRun
    BY <1>7 DEF Return, IInv, MainAt
  <2>2. \A b \in Batches : Taken(b)' = Taken(b)
    <3>1. CASE LastFuzzer
      <4>1. cur' = cur + 1 /\ runs' = NoRun
        BY <1>7, <3>1 DEF Return
      <4>2. \A b \in Batches : b < cur + 1 <=> b < cur \/ b = cur
        BY <1>0, <2>1, PlanFacts
      <4> QED
        BY <2>1, <4>1, <4>2 DEF Taken
    <3>2. CASE ~LastFuzzer
      BY <1>7, <3>2 DEF Return, Taken
    <3> QED
      BY <3>1, <3>2
  <2>3. UNCHANGED workVars /\ slots' = slots /\ \A s : Builders(s)' = Builders(s)
    BY <1>7 DEF Return, Builders, workVars
  <2>4. \A s \in Slots : Taken(s[1])' = Taken(s[1])
    BY <1>0, <2>2, SlotPairs
  <2> QED
    BY <1>0, <2>3, <2>4, OnceKept DEF workVars
<1> QED
  BY <1>1, <1>2, <1>3, <1>4, <1>5, <1>6, <1>7 DEF Next, Worker, Main

-----------------------------------------------------------------------------
(* No wakeup is lost.                                                      *)

LEMMA WakeupKept == IInv /\ [Next]_vars => NoLostWakeup'
<1> SUFFICES ASSUME IInv, [Next]_vars, mpc' = "wait", AllThere'
             PROVE  \E t \in Threads : wpc'[t] = "notify" /\ item'[t][1] = cur'
  BY DEF NoLostWakeup
<1> USE PlanKept DEF IInv
<1> DEFINE Woken == \E t \in Threads : wpc'[t] = "notify" /\ item'[t][1] = cur'
<1>1. ASSUME NEW t \in Threads, CheckAbort(t) \/ BitgenPanic(t) PROVE Woken
  <2>1. mpc = "wait" /\ AllThere /\ cur' = cur
    BY <1>1 DEF CheckAbort, BitgenPanic, mainVars, AllThere
  <2> QED
    BY <1>1, <2>1 DEF CheckAbort, BitgenPanic, NoLostWakeup, TypeOK
<1>2. ASSUME NEW t \in Threads, Claim(t) PROVE Woken
  <2>1. mpc = "wait" /\ AllThere /\ cur' = cur
    BY <1>2 DEF Claim, mainVars, AllThere
  <2>2. PICK u \in Threads : wpc[u] = "notify" /\ item[u][1] = cur
    BY <2>1 DEF NoLostWakeup
  <2>3. u # t
    BY <1>2, <2>2 DEF Claim
  <2>4. wpc'[u] = wpc[u] /\ item'[u] = item[u]
    BY <1>2, <2>3 DEF Claim, TypeOK
  <2> QED
    BY <2>1, <2>2, <2>4
<1>3. ASSUME NEW t \in Threads, Store(t) PROVE Woken
  <2>1. mpc = "wait" /\ cur' = cur /\ item' = item
    BY <1>3 DEF Store, mainVars
  <2>2. item[t] \in Slots
    BY <1>3 DEF Store, WorkersAt
  <2>3. wpc' = [wpc EXCEPT ![t] = "notify"] /\ slots' = [slots EXCEPT ![item[t]] = item[t]]
    BY <1>3, <2>1, <2>2, SlotPairs DEF Store, Locks
  <2>4. CASE item[t][1] = cur
    BY <2>1, <2>3, <2>4 DEF TypeOK
  <2>5. CASE item[t][1] # cur
    <3>1. \A i \in 0..plan[cur].width : item[t] # <<cur, i>>
      BY <2>5
    <3>2. cur \in Batches
      BY <2>1 DEF MainAt, Waiting
    <3>3. \A i \in 0..plan[cur].width : slots'[<<cur, i>>] = slots[<<cur, i>>]
      BY <2>3, <3>1, <3>2, SlotPairs DEF TypeOK
    <3>4. AllThere
      BY <2>1, <3>3 DEF AllThere
    <3>5. PICK u \in Threads : wpc[u] = "notify" /\ item[u][1] = cur
      BY <2>1, <3>4 DEF NoLostWakeup
    <3> QED
      BY <2>1, <2>3, <3>5 DEF TypeOK
  <2> QED
    BY <2>4, <2>5
<1>4. ASSUME NEW t \in Threads, Notify(t) PROVE Woken
  <2>1. mpc = "wait" /\ AllThere /\ cur' = cur /\ item' = item /\ item[t][1] # cur
    BY <1>4 DEF Notify, mainVars, AllThere
  <2>2. PICK u \in Threads : wpc[u] = "notify" /\ item[u][1] = cur
    BY <2>1 DEF NoLostWakeup
  <2> QED
    BY <1>4, <2>1, <2>2 DEF Notify, TypeOK
<1>5. CASE Main
  <2>1. Wait
    BY <1>5 DEF Main, Lock, SeeMissing, Decode, Abort, Return, Oops, Join
  <2> QED
    BY <2>1 DEF Wait, MainAt, AllThere, mainVars
<1>6. CASE SpuriousWakeup
  BY <1>6 DEF SpuriousWakeup
<1>7. CASE UNCHANGED vars
  BY <1>7 DEF vars, workVars, mainVars, NoLostWakeup, AllThere
<1> QED
  BY <1>1, <1>2, <1>3, <1>4, <1>5, <1>6, <1>7 DEF Next, Worker

-----------------------------------------------------------------------------
(* The theorems.                                                           *)

\* The threads keep the invariant.
THEOREM Invariance == Spec => []IInv
<1>1. IInv /\ [Next]_vars => IInv'
  BY TypeKept, LocksKept, MainKept, WorkersKept, OnceNext, WakeupKept DEF IInv
<1> QED
  BY InitInv, <1>1, PTL DEF Spec

\* The state of queue, slots, mutexes and threads is well formed (TaskQueue,
\* BatchState, Session::run).
THEOREM TypeCorrect == Spec => []TypeOK
<1>1. IInv => TypeOK
  BY DEF IInv
<1> QED
  BY Invariance, <1>1, PTL

\* Whatever the number of workers and however they interleave, no run is made
\* twice or skipped, and none is stored in a slot that was taken (work,
\* run_batch_item).
THEOREM EachRunOnce == Spec => []RunsOnce
<1>1. IInv => RunsOnce
  BY DEF IInv
<1> QED
  BY Invariance, <1>1, PTL

\* The main thread wakes up when its batch is complete (postproc_batch).
THEOREM WakeupsArrive == Spec => []NoLostWakeup
<1>1. IInv => NoLostWakeup
  BY DEF IInv
<1> QED
  BY Invariance, <1>1, PTL

\* take().unwrap() finds all runs of the batch, and no worker finds a poisoned mutex
\* (postproc_batch, run_batch_item).
THEOREM BatchesWhole == Spec => []TakenWhole
<1>1. ASSUME IInv PROVE TakenWhole
  <2>1. runs # NoRun => runs = [i \in 0..plan[cur].width |-> <<cur, i>>]
    BY <1>1 DEF IInv, MainAt
  <2>2. ASSUME NEW t \in Threads, wpc[t] = "run" PROVE lock[item[t][1]] # "poisoned"
    <3>1. item[t] \in Slots /\ ~Taken(item[t][1])
      BY <1>1, <2>2, AtWork
    <3>2. item[t][1] \in Batches
      BY <1>1, <3>1, SlotPairs DEF IInv
    <3> QED
      BY <1>1, <3>1, <3>2 DEF IInv, Locks
  <2> QED
    BY <2>1, <2>2 DEF TakenWhole
<1> QED
  BY Invariance, <1>1, PTL

\* A main thread all workers have left waiting waits for a run whose bitgen
\* panicked (run_batch_item).
THEOREM HangExplained == Spec => []HangsOnlyByPanic
<1>1. ASSUME IInv, Waiting, ~AllThere, ScopeOver
      PROVE  \E t \in Dead : item[t][1] = cur
  <2> USE <1>1 DEF IInv
  <2>1. cur \in Batches /\ runs = NoRun /\ ~abort /\ Len(plan) \in Nat
    BY PlanFacts DEF MainAt, Waiting
  <2>2. PICK i \in 0..plan[cur].width : slots[<<cur, i>>] = NoRun
    BY DEF AllThere
  <2>3. <<cur, i>> \in Slots
    BY <2>1, SlotPairs
  <2>4. PICK k \in DOMAIN items : items[k] = <<cur, i>>
    BY <2>3, QueueFacts
  <2>5. Once(<<cur, i>>, k <= next)
    BY <2>4, OnceEach
  <2>6. ~Taken(cur)
    BY <2>1 DEF Taken, TypeOK
  <2>7. CASE k <= next
    <3>1. PICK t \in Threads : Builders(<<cur, i>>) = {t}
      BY <2>2, <2>3, <2>5, <2>6, <2>7, SlotPairs DEF Once
    <3>2. t \in Dead /\ item[t] = <<cur, i>>
      BY <3>1 DEF Builders, Dead, ScopeOver, Gone
    <3> QED
      BY <3>2
  <2>8. CASE ~(k <= next)
    <3>1. \A t \in Threads : wpc[t] # "done"
      BY <2>1, <2>8, QueueFacts DEF WorkersAt, TypeOK
    <3>2. PICK t \in Threads : wpc[t] = "dead"
      BY <3>1, ThreadsFit DEF ScopeOver, Gone
    <3>3. PICK l \in DOMAIN items : items[l] = item[t] /\ l <= next
      BY <3>2, AtWork
    <3>4. item[t] \in Slots /\ ~Taken(item[t][1])
      BY <3>2, AtWork
    <3>5. items[l][1] <= items[k][1]
      BY <2>8, <3>3, QueueFacts DEF TypeOK
    <3>6. item[t][1] \in 1..Len(plan) /\ item[t][1] <= cur /\ ~(item[t][1] < cur)
      BY <2>4, <3>3, <3>4, <3>5, SlotPairs, PlanFacts DEF Taken
    <3> QED
      BY <2>1, <3>2, <3>6 DEF Dead, TypeOK
  <2> QED
    BY <2>7, <2>8
<1>2. IInv => HangsOnlyByPanic
  BY <1>1 DEF HangsOnlyByPanic, Waiting
<1> QED
  BY Invariance, <1>2, PTL

\* A run that is not aborted makes every run of the queue before it returns or
\* passes a panic on, as long as a worker lives (Session::run).
THEOREM ScopeExplained == Spec => []ScopeDrains
<1>1. ASSUME IInv, mpc \in {"returned", "panicked"}, ~abort, Dead # Threads,
             NEW s \in Slots
      PROVE  slots[s] = s \/ Taken(s[1]) \/ \E t \in Dead : item[t] = s
  <2> USE <1>1 DEF IInv
  <2>1. ScopeOver
    BY DEF MainAt
  <2>2. PICK t \in Threads : wpc[t] = "done"
    BY <2>1 DEF ScopeOver, Gone, Dead
  <2>3. next >= Len(items)
    BY <2>2 DEF WorkersAt
  <2>4. PICK k \in DOMAIN items : items[k] = s
    BY QueueFacts
  <2>5. k <= next
    BY <2>3, QueueFacts DEF TypeOK
  <2>6. Once(s, k <= next)
    BY <2>4, OnceEach
  <2>7. ASSUME NEW u \in Threads, Builders(s) = {u} PROVE u \in Dead /\ item[u] = s
    BY <2>1, <2>7 DEF Builders, ScopeOver, Gone, Dead
  <2> QED
    BY <2>5, <2>6, <2>7 DEF Once
<1>2. IInv => ScopeDrains
  BY <1>1 DEF ScopeDrains
<1> QED
  BY Invariance, <1>2, PTL

\* The backend cannot tell the threads from one thread that makes all runs: it is
\* given the same results in the same order (Session::run).
THEOREM Implementation == Spec => ImplementsDelivery
<1>1. Init => Promise!Init
  BY DEF Init, Promise!Init, Ended
<1>2. ASSUME IInv, [Next]_vars
      PROVE  [Promise!Next]_(Promise!vars)
  <2> USE <1>2 DEF IInv
  <2>0. plan' = plan
    BY PlanKept
  <2>1. ASSUME NEW t \in Threads, Worker(t) PROVE UNCHANGED Promise!vars
    BY <2>1 DEF Worker, CheckAbort, Claim, Store, BitgenPanic, Notify, mainVars, Ended,
       Promise!vars
  <2>2. CASE Lock \/ SeeMissing \/ Wait \/ SpuriousWakeup \/ Abort \/ Oops
    BY <2>2 DEF Lock, SeeMissing, Wait, SpuriousWakeup, Abort, Oops, mainVars, Ended,
       Promise!vars
  <2>3. ASSUME NEW v, Decode(v) PROVE UNCHANGED Promise!vars
    BY <2>3 DEF Decode, Ended, Promise!vars
  <2>4. CASE Return
    <3>1. mpc = "return" /\ cur \in Batches /\ runs = [i \in 0..plan[cur].width |-> <<cur, i>>]
      BY <2>4 DEF Return, MainAt
    <3>2. mpc' \in {"return", "lock", "join"}
      BY <2>4, <3>1 DEF Return
    <3>3. state' = Append(state, Promise!Result(cur, fid))
      BY <2>4, <3>1 DEF Return, Promise!Result
    <3>4. <<cur', fid'>> = Promise!After(cur, fid)
      BY <2>4, <3>1, PlanFacts DEF Return, LastFuzzer, Promise!After, TypeOK
    <3>5. cur <= Len(plan)
      BY <3>1, PlanFacts
    <3> QED
      BY <2>0, <3>1, <3>2, <3>3, <3>4, <3>5 DEF Promise!Next, Promise!Deliver, Ended
  <2>5. CASE Join
    <3>1. UNCHANGED <<plan, state, cur, fid>> /\ mpc \in {"join", "panic"}
      BY <2>5 DEF Join, mainVars
    <3>2. CASE mpc' = "returned"
      <4>1. cur = Len(plan) + 1
        BY <2>5, <3>2 DEF Join, MainAt
      <4>2. cur \notin Batches
        BY <4>1, PlanFacts
      <4>3. fid = 1
        BY <4>2 DEF TypeOK
      <4> QED
        BY <3>1, <3>2, <4>1, <4>3 DEF Promise!Next, Promise!Return, Ended
    <3>3. CASE mpc' = "panicked"
      BY <3>1, <3>3 DEF Promise!Next, Promise!Panic, Ended
    <3> QED
      BY <2>5, <3>2, <3>3 DEF Join
  <2>6. CASE UNCHANGED vars
    BY <2>6 DEF vars, mainVars, Ended, Promise!vars
  <2> QED
    BY <2>1, <2>2, <2>3, <2>4, <2>5, <2>6 DEF Next, Main
<1> QED
  BY Invariance, <1>1, <1>2, PTL DEF Spec, ImplementsDelivery, Promise!Spec
=============================================================================
