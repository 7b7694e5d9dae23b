-------------------------- MODULE IcecubeLoopProofs --------------------------
(***************************************************************************)
(* Proofs that the harvesting loop finds the column buffers as they are,   *)
(* waits for nothing it can no longer learn, and regains after a restart   *)
(* what it had, for any device, generator, number of threads and promise   *)
(* of the harvester.                                                       *)
(***************************************************************************)
EXTENDS IcecubeLoop, TLAPS, FiniteSetTheorems, WellFoundedInduction

-----------------------------------------------------------------------------
(* Minimal counterexamples stand for induction over numbers: finite sets of *)
(* numbers are well founded.                                               *)

LEMMA LeastNat ==
    ASSUME NEW T \in SUBSET Nat, T # {}
    PROVE  \E n \in T : \A m \in T : n <= m
<1> DEFINE U == {1..n : n \in T}
<1>1. U \subseteq FiniteSubsetsOf(Nat) /\ U # {}
  <2>1. ASSUME NEW n \in T PROVE 1..n \in FiniteSubsetsOf(Nat)
    <3>1. n \in Int /\ 1 \in Int /\ 1..n \subseteq Nat
      OBVIOUS
    <3>2. IsFiniteSet(1..n)
      BY <3>1, FS_Interval
    <3> QED
      BY <3>1, <3>2 DEF FiniteSubsetsOf
  <2> QED
    BY <2>1 DEF FiniteSubsetsOf
<1>2. PICK x \in U : \A y \in U : <<y, x>> \notin StrictSubsetOrdering(Nat)
  <2> HIDE DEF U
  <2> QED
    BY <1>1, FS_StrictSubsetOrderingWellFounded, WFMin
<1>3. PICK n \in T : x = 1..n
  BY <1>2
<1>4. ASSUME NEW m \in T, m < n PROVE FALSE
  <2>1. 1..m \subseteq 1..n /\ 1..m # 1..n
    <3>1. n \in 1..n /\ n \notin 1..m
      BY <1>4
    <3> QED
      BY <1>4, <3>1
  <2>2. <<1..m, x>> \in StrictSubsetOrdering(Nat)
    BY <2>1, <1>3 DEF StrictSubsetOrdering
  <2> QED
    BY <2>2, <1>2
<1> QED
  BY <1>4

-----------------------------------------------------------------------------
Rank(prefix) == IF prefix = "noglobal" THEN 0 ELSE IF prefix = "nocolbuf" THEN 1 ELSE 2

\* The names a sample had, or will have, in the stage its prefix belongs to.
ReadAs(y) ==
    y.design.names \cup (IF layout = << >> \/ y.design.global = {} THEN {}
                         ELSE IF y.prefix = "full" THEN {Colbuf} ELSE y.design.global)

\* A run in work.
Held(k) == \E t \in Threads : \E j \in job[t] : j.key = k

\* The run is not one that may be deleted yet.
Safe(y) == pc = "draw" => \A t \in Threads : \A j \in job[t] : j.key = y.key => j.changed

\* The run is not one made in this session that is still in work.
Old(y) == pc = "draw" => ~Held(y.key)

\* This session is through with the run.
Past(y) ==
    \/ Rank(y.prefix) < Rank(mode)
    \/ y.prefix = mode /\ y.key \notin todo /\ ~Held(y.key)

\* What the run had to teach is there.
TaughtPips(d) == ~d.small => d.pips \subseteq pips

TaughtNames(y) ==
    ~y.design.small =>
        \/ \E z \in stored : z.key = y.key
        \/ ReadAs(y) \subseteq known \cup Forced

-----------------------------------------------------------------------------
\* The stages follow each other, and the runs of a stage belong to it.
Stages ==
    /\ pc = "enough" => mode = "noglobal"
    /\ pc \in {"colbufs", "forced"} => mode = "nocolbuf"
    /\ pc \in {"test", "done"} => mode = "full"
    /\ layout = << >> => rows = << >>
    /\ rows = << >> \/ mode = "full" \/ pc = "forced"
    /\ mode = "full" => layout = << >> \/ rows # << >>
    /\ pc = "draw" /\ mode = "nocolbuf" => layout # << >>
    /\ pc = "learn" /\ mode = "nocolbuf" => layout # << >>
    /\ pc = "forced" => rows # << >>

\* The run a thread works at is its own, and is cached.
JobGood(t, j) ==
    /\ job[t] = {j}
    /\ j.at = "speed" => ~j.changed
    /\ j.at = "teach" => ~j.design.small
    /\ \E y \in cache : y.key = j.key /\ y.prefix = mode /\ y.design = j.design
    /\ j.at # "speed" => j.design.speed \subseteq speed
    /\ j.at = "decide" =>
          \A y \in cache : y.key = j.key => TaughtPips(y.design) /\ TaughtNames(y)

Apart == \A t, u \in Threads : \A j \in job[t], i \in job[u] : i.key = j.key => u = t

WorkGood ==
    /\ pc \notin {"replay", "draw"} => Idle
    /\ pc # "replay" => todo = {}
    /\ todo \subseteq Cached(mode)
    /\ \A k \in todo : ~Held(k)
    /\ \A t \in Threads : \A j \in job[t] : JobGood(t, j)
    /\ Apart

CacheGood ==
    /\ \A y, z \in cache : y.key = z.key => y = z
    /\ \A y \in cache :
          /\ y.prefix = "noglobal" => y.design.global = {}
          /\ y.prefix = "nocolbuf" => layout # << >> /\ y.design.global \subseteq Forced

\* Everything the session has, a run that stays can teach again.
Covered ==
    /\ \A s \in speed : \E y \in cache : Safe(y) /\ s \in y.design.speed
    /\ \A p \in pips : \E y \in cache : Safe(y) /\ ~y.design.small /\ p \in y.design.pips
    /\ \A z \in stored : \E y \in cache :
          Safe(y) /\ ~y.design.small /\ y.key = z.key /\ z.waits \subseteq ReadAs(y)

WonCovered ==
    /\ \A s \in won.speed : \E y \in cache : Old(y) /\ s \in y.design.speed
    /\ \A p \in won.pips : \E y \in cache : Old(y) /\ ~y.design.small /\ p \in y.design.pips
    /\ \A z \in won.stored : \E y \in cache :
          Old(y) /\ ~y.design.small /\ y.key = z.key /\ z.waits \subseteq ReadAs(y)

Taught ==
    \A y \in cache : Past(y) =>
        y.design.speed \subseteq speed /\ TaughtPips(y.design) /\ TaughtNames(y)

\* While the buffers are unknown, no cell waits that will not be forced.
CellsGood ==
    /\ known \cap Cells \subseteq Forced
    /\ wanted \cap Cells \subseteq IF rows = << >> THEN Forced ELSE {}
    /\ \A z \in stored : z.waits \cap Cells \subseteq IF rows = << >> THEN Forced ELSE {}

IInv ==
    /\ TypeOK
    /\ Stages
    /\ WorkGood
    /\ CacheGood
    /\ Covered
    /\ WonCovered
    /\ Taught
    /\ CellsGood
    /\ ColbufTrue
-----------------------------------------------------------------------------
(* The scan of compute_rows_colbuf.                                        *)

\* The scan of a map is defined row by row.
LEMMA ScanDefined ==
    ASSUME NEW m
    PROVE  \E f :
              /\ f = [r \in 0..(RowN - 1) |->
                        IF r = 0 THEN Begin(m)
                        ELSE IF r \in DOMAIN m THEN Step(f[r - 1], r, m[r]) ELSE f[r - 1]]
              /\ ScanRows(m) = f[RowN - 1]
<1> DEFINE Row(g, r) == IF r = 0 THEN Begin(m)
                        ELSE IF r \in DOMAIN m THEN Step(g[r - 1], r, m[r]) ELSE g[r - 1]
           Upto(g, n) == g = [r \in 0..n |-> Row(g, r)]
           T == {n \in Nat : ~ \E g : Upto(g, n)}
<1>1. T = {}
  <2>1. SUFFICES ASSUME T # {} PROVE FALSE
    OBVIOUS
  <2>2. T \in SUBSET Nat
    OBVIOUS
  <2>3. PICK n \in T : \A k \in T : n <= k
    <3> HIDE DEF T
    <3> QED
      BY <2>1, <2>2, LeastNat
  <2>4. CASE n = 0
    <3> DEFINE g == [r \in 0..0 |-> Begin(m)]
    <3>1. \A r \in 0..0 : Row(g, r) = Begin(m)
      OBVIOUS
    <3>2. Upto(g, 0)
      BY <3>1
    <3> QED
      BY <3>2, <2>4
  <2>5. CASE n # 0
    <3>1. n - 1 \in Nat /\ n - 1 \notin T
      BY <2>5, <2>3
    <3>2. PICK g : Upto(g, n - 1)
      BY <3>1
    <3> DEFINE h == [r \in 0..n |-> IF r = n THEN Row(g, n) ELSE g[r]]
    <3>3. \A r \in 0..n : Row(h, r) = Row(g, r)
      <4> SUFFICES ASSUME NEW r \in 0..n PROVE r # 0 => h[r - 1] = g[r - 1]
        OBVIOUS
      <4> QED
        BY <2>5
    <3>4. \A r \in 0..n : h[r] = Row(g, r)
      <4> HIDE DEF Row
      <4> QED
        BY <3>1, <3>2
    <3>5. Upto(h, n)
      <4> HIDE DEF Row
      <4>1. h = [r \in 0..n |-> h[r]]
        OBVIOUS
      <4> HIDE DEF h
      <4> QED
        BY <3>3, <3>4, <4>1
    <3> QED
      BY <3>5
  <2> QED
    BY <2>4, <2>5
<1> DEFINE f[r \in 0..(RowN - 1)] ==
             IF r = 0 THEN Begin(m)
             ELSE IF r \in DOMAIN m THEN Step(f[r - 1], r, m[r]) ELSE f[r - 1]
<1>2. RowN - 1 \in Nat
  BY BoundsFit
<1>3. \E g : g = [r \in 0..(RowN - 1) |-> Row(g, r)]
  BY <1>1, <1>2
<1>4. f = [r \in 0..(RowN - 1) |-> Row(f, r)]
  BY <1>3
<1>5. ScanRows(m) = f[RowN - 1]
  BY DEF ScanRows
<1> HIDE DEF f
<1> QED
  BY <1>4, <1>5
LEMMA Borders ==
    ASSUME layout \in Layouts
    PROVE  /\ Len(layout) \in Nat /\ DOMAIN layout = 1..Len(layout)
           /\ \A n \in 1..Len(layout) :
                 /\ layout[n][1] \in Nat /\ layout[n][2] \in Nat /\ layout[n][3] \in Nat
                 /\ layout[n] = <<layout[n][1], layout[n][2], layout[n][3]>>
                 /\ layout[n][2] < layout[n][1] /\ layout[n][1] < layout[n][3]
                 /\ n = 1 => layout[n][2] = 0
                 /\ n # 1 => layout[n][2] = layout[n - 1][3]
           /\ layout # << >> =>
                 /\ Len(layout) # 0 /\ 1 < layout[1][1]
                 /\ layout[Len(layout)][1] < RowN /\ layout[Len(layout)][3] = RowN + 1
<1>1. layout \in Seq(Nat \X Nat \X Nat)
  BY LayoutsFit
<1>2. Len(layout) \in Nat /\ DOMAIN layout = 1..Len(layout)
  BY <1>1
<1>3. \A n \in 1..Len(layout) : layout[n] \in Nat \X Nat \X Nat
  BY <1>1
<1>4. layout # << >> => Len(layout) # 0
  BY <1>1
<1>5. \A n \in 1..Len(layout) :
          layout[n][2] = IF n = 1 THEN 0 ELSE layout[n - 1][3]
  BY <1>2, LayoutsFit
<1>6. \A n \in 1..Len(layout) : layout[n][2] < layout[n][1] /\ layout[n][1] < layout[n][3]
  BY <1>2, LayoutsFit
<1>7. layout # << >> =>
          1 < layout[1][1] /\ layout[Len(layout)][1] < RowN /\ layout[Len(layout)][3] = RowN + 1
  BY LayoutsFit
<1> QED
  BY <1>2, <1>3, <1>4, <1>5, <1>6, <1>7

\* The groups of a device do not overlap ...
LEMMA GroupsApart ==
    ASSUME layout \in Layouts, NEW i \in 1..Len(layout), NEW k \in 1..Len(layout), i < k
    PROVE  layout[i][3] <= layout[k][2]
<1> DEFINE T == {n \in 1..Len(layout) : i < n /\ ~(layout[i][3] <= layout[n][2])}
<1>1. Len(layout) \in Nat
  BY Borders
<1>2. \A n \in 1..Len(layout) :
          /\ layout[n][2] \in Nat /\ layout[n][3] \in Nat /\ layout[n][2] < layout[n][3]
          /\ n # 1 => layout[n][2] = layout[n - 1][3]
  <2>1. ASSUME NEW n \in 1..Len(layout) PROVE layout[n][2] < layout[n][3]
    <3>1. /\ layout[n][1] \in Nat /\ layout[n][2] \in Nat /\ layout[n][3] \in Nat
          /\ layout[n][2] < layout[n][1] /\ layout[n][1] < layout[n][3]
      BY Borders
    <3> QED
      BY <3>1
  <2> QED
    BY <2>1, Borders
<1>3. SUFFICES ASSUME T # {} PROVE FALSE
  OBVIOUS
<1>4. PICK n \in T : \A y \in T : n <= y
  <2>1. T \in SUBSET Nat
    BY <1>1
  <2> HIDE DEF T
  <2> QED
    BY <1>3, <2>1, LeastNat
<1>5. n \in 1..Len(layout) /\ n - 1 \in 1..Len(layout) /\ i <= n - 1 /\ n # 1 /\ ~(n <= n - 1)
  BY <1>1
<1>6. layout[n][2] = layout[n - 1][3] /\ layout[n - 1][2] < layout[n - 1][3]
  BY <1>5, <1>2
<1>7. layout[i][3] <= layout[n][2]
  <2>1. CASE i = n - 1
    BY <2>1, <1>5, <1>6, <1>2
  <2>2. CASE i # n - 1
    <3>1. i < n - 1 /\ n - 1 \notin T
      BY <2>2, <1>4, <1>5
    <3>2. layout[i][3] <= layout[n - 1][2]
      BY <3>1, <1>5
    <3> HIDE DEF T
    <3> QED
      BY <3>2, <1>6, <1>5, <1>2
  <2> QED
    BY <2>1, <2>2
<1> QED
  BY <1>7

\* ... and every row is in one.
LEMMA GroupOfRow ==
    ASSUME layout \in Layouts, layout # << >>, NEW row \in Rows
    PROVE  \E i \in 1..Len(layout) : layout[i][2] <= row /\ row < layout[i][3]
<1> DEFINE T == {n \in 1..Len(layout) : row < layout[n][3]}
<1>1. Len(layout) \in Nat
  BY Borders
<1>2. \A n \in 1..Len(layout) : layout[n][1] \in Nat /\ layout[n][2] \in Nat /\ layout[n][3] \in Nat
  BY Borders
<1>3. row \in Nat /\ row < RowN + 1 /\ RowN \in Nat
  BY BoundsFit DEF Rows
<1>4. Len(layout) \in T
  <2>1. Len(layout) \in 1..Len(layout)
    BY <1>1, Borders
  <2>2. layout[Len(layout)][3] = RowN + 1
    BY Borders
  <2> QED
    BY <2>1, <2>2, <1>3
<1>5. PICK n \in T : \A y \in T : n <= y
  <2>1. T \in SUBSET Nat /\ T # {}
    BY <1>1, <1>4
  <2> HIDE DEF T
  <2> QED
    BY <2>1, LeastNat
<1>6. n \in Nat /\ n >= 1 /\ n <= Len(layout) /\ n \in 1..Len(layout)
  BY <1>1
<1>7. layout[n][2] = IF n = 1 THEN 0 ELSE layout[n - 1][3]
  BY <1>6, Borders
<1>8. layout[n][2] <= row
  <2>1. CASE n = 1
    BY <2>1, <1>3, <1>7
  <2>2. CASE n # 1
    <3>1. n - 1 \in 1..Len(layout) /\ ~(n <= n - 1)
      BY <2>2, <1>6, <1>1
    <3>2. ~(row < layout[n - 1][3])
      BY <3>1, <1>5
    <3> QED
      BY <3>1, <3>2, <1>2, <1>3, <1>7, <2>2
  <2> QED
    BY <2>1, <2>2
<1> QED
  BY <1>6, <1>8

\* The row of the buffer of a logic cell.
Truth(row) == Target(<<"plb", row>>)

LEMMA TruthInGroup ==
    ASSUME layout \in Layouts, NEW i \in 1..Len(layout), NEW row \in Rows,
           layout[i][2] <= row, row < layout[i][3]
    PROVE  Truth(row) = IF row >= layout[i][1] THEN layout[i][1] ELSE layout[i][1] - 1
<1>1. Len(layout) \in Nat
  BY Borders
<1>2. \A n \in 1..Len(layout) : layout[n][1] \in Nat /\ layout[n][2] \in Nat /\ layout[n][3] \in Nat
  BY Borders
<1>3. row \in Nat
  BY DEF Rows
<1>4. \A k \in 1..Len(layout) : layout[k][2] <= row /\ row < layout[k][3] => k = i
  <2>1. \A k \in 1..Len(layout) : k < i => layout[k][3] <= layout[i][2]
    BY GroupsApart
  <2>2. \A k \in 1..Len(layout) : i < k => layout[i][3] <= layout[k][2]
    BY GroupsApart
  <2>3. \A k \in 1..Len(layout) : k \in Nat /\ i \in Nat
    BY <1>1
  <2> QED
    BY <2>1, <2>2, <2>3, <1>2, <1>3
<1>5. Group(layout, row) = layout[i]
  <2>0. DOMAIN layout = 1..Len(layout)
    BY Borders
  <2>1. \A g \in {layout[k] : k \in 1..Len(layout)} : g[2] <= row /\ row < g[3] <=> g = layout[i]
    BY <1>4
  <2>2. layout[i] \in {layout[k] : k \in 1..Len(layout)}
    OBVIOUS
  <2> QED
    BY <2>0, <2>1, <2>2 DEF Group
<1>6. <<"plb", row>>[1] # "bram" /\ <<"plb", row>>[2] = row
  OBVIOUS
<1> QED
  BY <1>5, <1>6 DEF Truth, Target
LEMMA NextPrefix ==
    ASSUME layout \in Layouts, NEW i \in 1..Len(layout)
    PROVE  Append(SubSeq(layout, 1, i - 1), layout[i]) = SubSeq(layout, 1, i)
<1>1. layout \in Seq(Nat \X Nat \X Nat)
  BY LayoutsFit
<1> QED
  BY <1>1

\* The scan stands at row p, in group i.
At(a, i, p) ==
    /\ p \in Rows /\ i \in 1..Len(layout) /\ layout[i][2] <= p /\ p < layout[i][3]
    /\ a = [c |-> Truth(p), b |-> layout[i][2], prev |-> p, top |-> p >= layout[i][1],
            res |-> SubSeq(layout, 1, i - 1), ok |-> "yes"]

GivenUp(a) == "ok" \in DOMAIN a /\ a.ok = "no"

\* A row that is known takes the scan there, or makes it give up; no assert fails.
LEMMA StepTrue ==
    ASSUME layout \in Layouts, layout # << >>, NEW a, NEW i, NEW p, At(a, i, p),
           NEW row \in Rows, p < row
    PROVE  GivenUp(Step(a, row, Truth(row))) \/ \E k : At(Step(a, row, Truth(row)), k, row)
<1> DEFINE s == Step(a, row, Truth(row))
           H(k) == layout[k][1]
           B(k) == layout[k][2]
           T(k) == layout[k][3]
<1>1. i \in 1..Len(layout) /\ Len(layout) \in Nat /\ p \in Nat /\ row \in Nat /\ B(i) <= p /\ p < T(i)
  BY Borders DEF At, Rows
<1>2. \A k \in 1..Len(layout) :
          /\ H(k) \in Nat /\ B(k) \in Nat /\ T(k) \in Nat /\ B(k) < H(k) /\ H(k) < T(k)
          /\ k # 1 => B(k) = T(k - 1)
  BY Borders
<1>3. PICK k \in 1..Len(layout) : B(k) <= row /\ row < T(k)
  BY GroupOfRow
<1>4. a.c = (IF p >= H(i) THEN H(i) ELSE H(i) - 1) /\ a.prev = p /\ a.ok = "yes"
      /\ a.top = (p >= H(i)) /\ a.b = B(i) /\ a.res = SubSeq(layout, 1, i - 1)
  BY TruthInGroup DEF At
<1>5. Truth(row) = IF row >= H(k) THEN H(k) ELSE H(k) - 1
  BY <1>3, TruthInGroup
<1>6. ~(k < i)
  <2>1. k < i => T(k) <= B(i)
    BY <1>1, <1>3, GroupsApart
  <2> QED
    BY <2>1, <1>1, <1>2, <1>3
<1>a. /\ H(i) \in Nat /\ B(i) \in Nat /\ T(i) \in Nat /\ B(i) < H(i) /\ H(i) < T(i)
      /\ H(k) \in Nat /\ B(k) \in Nat /\ T(k) \in Nat /\ B(k) < H(k) /\ H(k) < T(k)
  BY <1>1, <1>2, <1>3
<1>b. PICK c : a = [c |-> c, b |-> B(i), prev |-> p, top |-> p >= H(i),
                    res |-> SubSeq(layout, 1, i - 1), ok |-> "yes"]
  BY DEF At
<1> HIDE DEF H, B, T, s
<1>7. CASE k = i /\ (p >= H(i) <=> row >= H(i))
  <2>1. Truth(row) = a.c
    BY <1>7, <1>4, <1>5
  <2>2. s = [a EXCEPT !.prev = row]
    BY <2>1 DEF Step, s
  <2>3. s = [c |-> Truth(row), b |-> B(i), prev |-> row, top |-> row >= H(i),
             res |-> SubSeq(layout, 1, i - 1), ok |-> "yes"]
    <3>1. (p >= H(i)) = (row >= H(i))
      BY <1>7
    <3>2. s = [c |-> c, b |-> B(i), prev |-> row, top |-> p >= H(i),
               res |-> SubSeq(layout, 1, i - 1), ok |-> "yes"]
      BY <2>2, <1>b
    <3>3. Truth(row) = c
      BY <2>1, <1>b
    <3> QED
      BY <3>1, <3>2, <3>3
  <2>4. At(s, i, row)
    BY <2>3, <1>7, <1>3 DEF At, H, B, T
  <2> QED
    BY <2>4 DEF s
<1>8. CASE row # p + 1 /\ ~(k = i /\ (p >= H(i) <=> row >= H(i)))
  <2>1. Truth(row) # a.c
    <3>1. CASE k = i
      BY <3>1, <1>8, <1>4, <1>5, <1>a, <1>1
    <3>2. CASE k # i
      <4>1. T(i) <= B(k)
        BY <3>2, <1>6, <1>1, <1>3, GroupsApart DEF T, B
      <4> QED
        BY <4>1, <1>4, <1>5, <1>a, <1>1
    <3> QED
      BY <3>1, <3>2
  <2>2. s = [a EXCEPT !.ok = "no"]
    BY <2>1, <1>8, <1>4 DEF Step, s
  <2> QED
    BY <2>2, <1>b DEF GivenUp, s
<1>9. CASE row = p + 1 /\ k = i /\ ~(p >= H(i) <=> row >= H(i))
  <2>1. ~(p >= H(i)) /\ row >= H(i) /\ row = H(i)
    BY <1>9, <1>1, <1>3, <1>a
  <2>2. Truth(row) = a.c + 1 /\ Truth(row) # a.c /\ Truth(row) = row
    <3>1. a.c = H(i) - 1
      BY <2>1, <1>4
    <3>2. Truth(row) = H(i)
      BY <2>1, <1>9, <1>5
    <3> QED
      BY <3>1, <3>2, <2>1, <1>a
  <2>3. s = [a EXCEPT !.top = TRUE, !.c = Truth(row), !.prev = row]
    BY <2>1, <2>2, <1>9, <1>4 DEF Step, s
  <2>4. s = [c |-> Truth(row), b |-> B(i), prev |-> row, top |-> TRUE,
             res |-> SubSeq(layout, 1, i - 1), ok |-> "yes"]
    BY <2>3, <1>b
  <2>5. At(s, i, row)
    BY <2>1, <2>4, <1>9, <1>3, <1>1, <1>a DEF At, H, B, T
  <2> QED
    BY <2>5 DEF s
<1>10. CASE row = p + 1 /\ k # i
  <2>1. T(i) <= B(k) /\ T(i) = row /\ B(k) = row
    <3>1. T(i) <= B(k)
      BY <1>10, <1>6, <1>1, <1>3, GroupsApart DEF T, B
    <3> QED
      BY <3>1, <1>10, <1>1, <1>a, <1>3
  <2>2. k = i + 1
    <3>1. i + 1 \in 1..Len(layout) /\ B(i + 1) = T(i) /\ B(i + 1) < T(i + 1)
      <4>1. k \in Nat /\ i \in Nat /\ i + 1 \in 1..Len(layout) /\ i + 1 # 1 /\ (i + 1) - 1 = i
        BY <1>10, <1>6, <1>1, <1>3
      <4> QED
        BY <4>1, <1>2
    <3>2. i + 1 < k => T(i + 1) <= B(k)
      BY <3>1, <1>3, GroupsApart DEF T, B
    <3>3. B(i + 1) \in Nat /\ T(i + 1) \in Nat
      BY <3>1, <1>2
    <3> QED
      BY <3>1, <3>2, <3>3, <2>1, <1>a, <1>1, <1>3, <1>6, <1>10
  <2>3. p >= H(i) /\ ~(row >= H(k))
    BY <2>1, <1>10, <1>1, <1>a, <1>3
  <2>4. Truth(row) # a.c
    BY <2>1, <2>3, <1>4, <1>5, <1>1, <1>a
  <2>5. s = [a EXCEPT !.res = Append(@, <<a.c, a.b, row>>), !.b = row, !.top = FALSE,
                      !.c = Truth(row), !.prev = row]
    BY <2>3, <2>4, <1>10, <1>4 DEF Step, s
  <2>6. <<a.c, a.b, row>> = layout[i]
    BY <2>1, <2>3, <1>4, <1>1, Borders DEF H, B, T
  <2>7. Append(a.res, <<a.c, a.b, row>>) = SubSeq(layout, 1, k - 1)
    <3>1. Append(SubSeq(layout, 1, i - 1), layout[i]) = SubSeq(layout, 1, i)
      BY <1>1, NextPrefix
    <3>2. i \in Nat /\ k - 1 = i
      BY <2>2, <1>1
    <3> QED
      BY <3>1, <3>2, <2>6, <1>4
  <2>8. s = [c |-> Truth(row), b |-> row, prev |-> row, top |-> FALSE,
             res |-> SubSeq(layout, 1, k - 1), ok |-> "yes"]
    BY <2>5, <2>7, <1>b
  <2>9. At(s, k, row)
    <3>1. (row >= H(k)) = FALSE
      BY <2>3
    <3> QED
      BY <2>8, <2>1, <3>1, <1>3 DEF At, H, B, T
  <2> QED
    BY <2>9 DEF s
<1> QED
  BY <1>7, <1>8, <1>9, <1>10
Reached(a, r) == GivenUp(a) \/ \E i, p : At(a, i, p) /\ p <= r

LEMMA ScanReaches ==
    ASSUME layout \in Layouts, layout # << >>, NEW m, DOMAIN m \subseteq Rows, 1 \in DOMAIN m,
           \A r \in DOMAIN m : m[r] = Truth(r)
    PROVE  Reached(ScanRows(m), RowN - 1)
<1>1. PICK f :
         /\ f = [r \in 0..(RowN - 1) |->
                   IF r = 0 THEN Begin(m)
                   ELSE IF r \in DOMAIN m THEN Step(f[r - 1], r, m[r]) ELSE f[r - 1]]
         /\ ScanRows(m) = f[RowN - 1]
  BY ScanDefined
<1> DEFINE T == {r \in 1..(RowN - 1) : ~Reached(f[r], r)}
<1>2. RowN \in Nat /\ 1 \in Rows /\ RowN - 1 \in 1..(RowN - 1)
  BY BoundsFit DEF Rows
<1>3. \A r \in 1..(RowN - 1) :
          f[r] = IF r \in DOMAIN m THEN Step(f[r - 1], r, m[r]) ELSE f[r - 1]
  <2>1. \A r \in 0..(RowN - 1) :
            f[r] = IF r = 0 THEN Begin(m)
                   ELSE IF r \in DOMAIN m THEN Step(f[r - 1], r, m[r]) ELSE f[r - 1]
    BY <1>1
  <2>2. \A r \in 1..(RowN - 1) : r \in 0..(RowN - 1) /\ r # 0
    BY <1>2
  <2> QED
    BY <2>1, <2>2
<1>4. Reached(f[1], 1)
  <2>1. f[1] = Step(Begin(m), 1, m[1])
    <3>1. f[0] = Begin(m) /\ 1 - 1 = 0
      BY <1>1, <1>2
    <3> QED
      BY <3>1, <1>2, <1>3
  <2>2. f[1] = [c |-> Truth(1), b |-> 0, prev |-> 1, top |-> FALSE, res |-> << >>, ok |-> "yes"]
    BY <2>1 DEF Step, Begin
  <2>3. /\ 1 \in 1..Len(layout) /\ layout[1][2] = 0 /\ layout[1][1] \in Nat
        /\ layout[1][3] \in Nat
        /\ layout[1][1] < layout[1][3] /\ 1 < layout[1][1]
    BY Borders
  <2>4. (1 >= layout[1][1]) = FALSE /\ 1 < layout[1][3]
    BY <2>3
  <2>5. SubSeq(layout, 1, 1 - 1) = << >>
    BY Borders
  <2>6. f[1] = [c |-> Truth(1), b |-> layout[1][2], prev |-> 1, top |-> 1 >= layout[1][1],
                res |-> SubSeq(layout, 1, 1 - 1), ok |-> "yes"]
    BY <2>2, <2>3, <2>4, <2>5
  <2>7. At(f[1], 1, 1)
    BY <2>3, <2>4, <2>6, <1>2 DEF At
  <2> QED
    BY <2>7 DEF Reached
<1>5. T = {}
  <2>1. SUFFICES ASSUME T # {} PROVE FALSE
    OBVIOUS
  <2>2. PICK r \in T : \A y \in T : r <= y
    <3>1. T \in SUBSET Nat
      BY <1>2
    <3> HIDE DEF T
    <3> QED
      BY <2>1, <3>1, LeastNat
  <2>3. r # 1 /\ r \in Nat /\ r - 1 \in 1..(RowN - 1) /\ ~(r <= r - 1)
    <3>1. r \in 1..(RowN - 1) /\ r # 1
      BY <1>4
    <3> QED
      BY <3>1, <1>2
  <2>4. Reached(f[r - 1], r - 1)
    BY <2>2, <2>3
  <2>5. r \in Rows
    BY DEF Rows
  <2>6. Reached(f[r], r)
    <3>1. CASE r \notin DOMAIN m
      <4>1. f[r] = f[r - 1]
        BY <3>1, <1>3
      <4>2. \A i, p : At(f[r], i, p) /\ p <= r - 1 => p <= r
        BY <2>3 DEF At, Rows
      <4> QED
        BY <4>1, <4>2, <2>4 DEF Reached
    <3>2. CASE r \in DOMAIN m
      <4>1. f[r] = Step(f[r - 1], r, Truth(r))
        BY <3>2, <1>3
      <4>2. CASE GivenUp(f[r - 1])
        <5>1. f[r] = [f[r - 1] EXCEPT !.prev = r]
          BY <4>1, <4>2 DEF Step, GivenUp
        <5> QED
          BY <5>1, <4>2 DEF GivenUp, Reached
      <4>3. CASE \E i, p : At(f[r - 1], i, p) /\ p <= r - 1
        <5>1. PICK i, p : At(f[r - 1], i, p) /\ p <= r - 1
          BY <4>3
        <5>2. p < r
          BY <5>1, <2>3 DEF At, Rows
        <5>3. GivenUp(f[r]) \/ \E k : At(f[r], k, r)
          BY <5>1, <5>2, <2>5, <4>1, StepTrue
        <5> QED
          BY <5>3, <2>3 DEF Reached
      <4> QED
        BY <4>2, <4>3, <2>4 DEF Reached
    <3> QED
      BY <3>1, <3>2
  <2> QED
    BY <2>6
<1> HIDE DEF T
<1>6. \A r \in 1..(RowN - 1) : Reached(f[r], r)
  BY <1>5 DEF T
<1> QED
  BY <1>6, <1>1, <1>2

\* Whatever buffers are known, the scan fails no assert, and what it finds is the layout.
LEMMA ScanTrue ==
    ASSUME layout \in Layouts, layout # << >>, NEW m, DOMAIN m \subseteq Rows,
           \A r \in DOMAIN m : m[r] = Truth(r)
    PROVE  /\ compute_rows_colbuf(m).ok # "panic"
           /\ compute_rows_colbuf(m).ok = "yes" => compute_rows_colbuf(m).rows = layout
<1> DEFINE a == ScanRows(m)
           verdict == IF 1 \notin DOMAIN m \/ a.ok = "no" THEN "no"
                      ELSE IF a.ok = "panic" THEN "panic"
                      ELSE IF a.prev # RowN - 1 THEN "no"
                      ELSE IF a.top THEN "yes" ELSE "panic"
<1>1. /\ compute_rows_colbuf(m).ok = verdict
      /\ verdict = "yes" => compute_rows_colbuf(m).rows = Append(a.res, <<a.c, a.b, a.prev + 2>>)
  BY DEF compute_rows_colbuf
<1> HIDE DEF a
<1>2. CASE 1 \notin DOMAIN m
  BY <1>1, <1>2
<1>3. CASE 1 \in DOMAIN m
  <2>1. Reached(a, RowN - 1)
    BY <1>3, ScanReaches DEF a
  <2>2. CASE GivenUp(a)
    BY <2>2, <1>1 DEF GivenUp
  <2>3. CASE ~GivenUp(a)
    <3>1. PICK i, p : At(a, i, p)
      BY <2>1, <2>3 DEF Reached
    <3>2. a.ok = "yes" /\ a.prev = p /\ a.top = (p >= layout[i][1]) /\ a.b = layout[i][2]
          /\ a.res = SubSeq(layout, 1, i - 1) /\ a.c = Truth(p)
      BY <3>1 DEF At
    <3>3. CASE p # RowN - 1
      BY <3>2, <3>3, <1>1, <1>3
    <3>4. CASE p = RowN - 1
      <4>1. i \in 1..Len(layout) /\ p \in Nat /\ RowN \in Nat /\ layout[i][2] <= p /\ p < layout[i][3]
        BY <3>1, BoundsFit DEF At, Rows
      <4>2. /\ Len(layout) \in Nat /\ layout[Len(layout)][1] < RowN
            /\ layout[Len(layout)][3] = RowN + 1 /\ Len(layout) \in 1..Len(layout)
        BY <4>1, Borders
      <4>3. \A k \in {i, Len(layout)} :
                /\ layout[k][1] \in Nat /\ layout[k][2] \in Nat /\ layout[k][3] \in Nat
                /\ layout[k][2] < layout[k][1]
                /\ layout[k] = <<layout[k][1], layout[k][2], layout[k][3]>>
        BY <4>1, <4>2, Borders
      <4>4. i = Len(layout)
        <5>1. i < Len(layout) => layout[i][3] <= layout[Len(layout)][2]
          BY <4>1, <4>2, GroupsApart
        <5> QED
          BY <5>1, <4>1, <4>2, <4>3, <3>4
      <4>5. p >= layout[i][1]
        BY <4>4, <4>1, <4>2, <4>3, <3>4
      <4>6. a.c = layout[i][1]
        BY <4>5, <4>1, <3>1, <3>2, TruthInGroup DEF At
      <4>7. a.prev + 2 = layout[i][3]
        BY <4>2, <4>4, <3>2, <3>4, <4>1
      <4>8. Append(a.res, <<a.c, a.b, a.prev + 2>>) = SubSeq(layout, 1, Len(layout))
        <5>1. Append(a.res, layout[i]) = SubSeq(layout, 1, i)
          BY <4>1, <3>2, NextPrefix
        <5> QED
          BY <5>1, <4>3, <4>4, <4>6, <4>7, <3>2
      <4>9. SubSeq(layout, 1, Len(layout)) = layout
        <5>1. layout \in Seq(Nat \X Nat \X Nat)
          BY LayoutsFit
        <5> QED
          BY <5>1
      <4> QED
        BY <4>5, <4>8, <4>9, <3>2, <3>4, <1>1, <1>3
    <3> QED
      BY <3>3, <3>4
  <2> QED
    BY <2>2, <2>3
<1> QED
  BY <1>2, <1>3
-----------------------------------------------------------------------------
(* The main thread: nobody is at work, and what is learned stays.          *)

Kept ==
    /\ \A z \in stored : \E x \in stored' : x.key = z.key
    /\ \A x \in stored' : \E z \in stored : x.key = z.key /\ x.waits \subseteq z.waits
    /\ known \subseteq known' \cup Forced

LEMMA LearnKeeps ==
    ASSUME TypeOK, Learn
    PROVE  /\ Kept
           /\ known' \subseteq known \cup UNION {z.waits : z \in stored}
           /\ wanted' \subseteq wanted
           /\ stored' \subseteq [key : Keys, waits : SUBSET AllNames]
           /\ known' \subseteq AllNames
<1>1. PICK K \in SUBSET UNION {z.waits : z \in stored} :
         /\ known' = known \cup K
         /\ wanted' = wanted \ K
         /\ stored' = {[z EXCEPT !.waits = @ \ K] : z \in stored}
  BY DEF Learn
<1>2. stored \subseteq [key : Keys, waits : SUBSET AllNames] /\ known \subseteq AllNames
  BY DEF TypeOK
<1>3. \A z \in stored : /\ [z EXCEPT !.waits = @ \ K] \in [key : Keys, waits : SUBSET AllNames]
                        /\ [z EXCEPT !.waits = @ \ K].key = z.key
                        /\ [z EXCEPT !.waits = @ \ K].waits \subseteq z.waits
  BY <1>2
<1>4. K \subseteq AllNames
  BY <1>2
<1> QED
  BY <1>1, <1>2, <1>3, <1>4 DEF Kept

LEMMA LearnCells ==
    ASSUME TypeOK, CellsGood, Learn, rows' = rows
    PROVE  CellsGood'
<1>1. /\ known' \subseteq known \cup UNION {z.waits : z \in stored}
      /\ wanted' \subseteq wanted
      /\ \A x \in stored' : \E z \in stored : x.waits \subseteq z.waits
  BY LearnKeeps DEF Kept
<1>2. \A z \in stored : z.waits \cap Cells \subseteq Forced
  BY DEF CellsGood
<1> QED
  BY <1>1, <1>2 DEF CellsGood

\* Nothing is held, and every run may stay.
LEMMA IdleFrees ==
    ASSUME Idle
    PROVE  /\ \A k : ~Held(k)
           /\ \A y : Safe(y) /\ Old(y)
BY DEF Idle, Held, Safe, Old

LEMMA MainKeeps ==
    ASSUME IInv, Idle, UNCHANGED <<disk, job, speed, pips, won>>, Kept,
           \A y \in cache : Past(y)' => Past(y)
    PROVE  CacheGood' /\ Covered' /\ WonCovered' /\ Taught'
<1>1. Idle'
  BY DEF Idle
<1>2. \A y : Safe(y)' /\ Old(y)'
  BY <1>1 DEF Idle, Held, Safe, Old
<1>3. layout' = layout /\ cache' = cache /\ won' = won /\ speed' = speed /\ pips' = pips
  BY DEF disk
<1>4. \A y : ReadAs(y)' = ReadAs(y)
  BY <1>3 DEF ReadAs
<1>5. CacheGood'
  BY <1>3 DEF IInv, CacheGood
<1>6. Covered'
  <2>1. \A x \in stored' : \E y \in cache :
            ~y.design.small /\ y.key = x.key /\ x.waits \subseteq ReadAs(y)
    BY DEF Kept, IInv, Covered
  <2> QED
    BY <2>1, <1>2, <1>3, <1>4 DEF IInv, Covered
<1>7. WonCovered'
  BY <1>2, <1>3, <1>4 DEF IInv, WonCovered
<1>8. Taught'
  <2>1. ASSUME NEW y \in cache, TaughtNames(y) PROVE TaughtNames(y)'
    BY <2>1, <1>4 DEF TaughtNames, Kept
  <2>2. \A d : TaughtPips(d)' = TaughtPips(d)
    BY <1>3 DEF TaughtPips
  <2> QED
    BY <2>1, <2>2, <1>3 DEF Taught, IInv
<1> QED
  BY <1>5, <1>6, <1>7, <1>8

LEMMA StayPast ==
    ASSUME mode' = mode, todo' = todo, job' = job
    PROVE  \A y : Past(y)' => Past(y)
BY DEF Past, Held

LEMMA NextModePast ==
    ASSUME IInv, Idle, NextMode, mode # "full", todo = {}, UNCHANGED <<disk, job>>
    PROVE  /\ \A y \in cache : Past(y)' => Past(y)
           /\ WorkGood'
           /\ mode' \in Prefixes /\ todo' \subseteq Keys
<1>1. mode \in {"noglobal", "nocolbuf"} /\ cache' = cache
  BY DEF IInv, TypeOK, Prefixes, disk
<1>2. \A y \in cache : y.prefix \in Prefixes /\ y.key \in Keys
  BY DEF IInv, TypeOK
<1>3. Idle'
  BY DEF Idle
<1>4. todo' = {y.key : y \in {z \in cache : z.prefix = mode'}}
  BY <1>1 DEF NextMode, Cached
<1>5. todo' \subseteq Cached(mode)'
  BY <1>4, <1>1 DEF Cached
<1>6. WorkGood'
  BY <1>3, <1>5, IdleFrees DEF NextMode, WorkGood, Apart, Idle, Held
<1>7. ASSUME NEW y \in cache, Past(y)' PROVE Past(y)
  <2>1. ~(y.prefix = mode' /\ y.key \notin todo')
    BY <1>4
  <2>2. Rank(y.prefix) < Rank(mode')
    BY <1>7, <2>1 DEF Past, Rank
  <2>3. Rank(y.prefix) < Rank(mode) \/ y.prefix = mode
    BY <2>2, <1>1, <1>2 DEF NextMode, Rank, Prefixes
  <2> QED
    BY <2>3, IdleFrees DEF Past
<1> QED
  BY <1>1, <1>2, <1>4, <1>6, <1>7 DEF NextMode, Prefixes
LEMMA UnchangedKept ==
    ASSUME UNCHANGED gains
    PROVE  Kept
BY DEF gains, Kept

LEMMA SameCells ==
    ASSUME CellsGood, UNCHANGED <<gains, rows>>
    PROVE  CellsGood'
BY DEF CellsGood, gains

\* Going on within a stage.
LEMMA WorkOnward ==
    ASSUME IInv, Idle, todo = {}, todo' = todo, UNCHANGED <<disk, mode, job>>
    PROVE  WorkGood'
BY DEF WorkGood, Apart, Idle, Held

LEMMA EndReplayGood ==
    ASSUME IInv, EndReplay
    PROVE  IInv'
<1> USE DEF EndReplay, Goto
<1>1. Idle /\ todo = {} /\ UNCHANGED <<mode, todo, left, ctr, disk, job, gains, rows, won>>
  OBVIOUS
<1>2. TypeOK'
  BY DEF IInv, TypeOK, Evaluate, disk, gains
<1>3. Stages'
  BY DEF IInv, Stages, TypeOK, Prefixes, Evaluate, disk
<1>4. WorkGood'
  BY <1>1, WorkOnward
<1>5. CacheGood' /\ Covered' /\ WonCovered' /\ Taught'
  BY <1>1, UnchangedKept, StayPast, MainKeeps DEF gains
<1>6. CellsGood' /\ ColbufTrue'
  BY <1>1, SameCells DEF IInv, ColbufTrue, Evaluate, disk
<1> QED
  BY <1>2, <1>3, <1>4, <1>5, <1>6 DEF IInv

LEMMA SettleGood ==
    ASSUME IInv, Settle
    PROVE  IInv'
<1> USE DEF Settle, Goto
<1>1. /\ Idle /\ todo = {} /\ Learn
      /\ UNCHANGED <<mode, todo, left, ctr, disk, job, speed, pips, rows, won>>
  BY DEF IInv, WorkGood
<1>2. TypeOK'
  BY <1>1, LearnKeeps DEF IInv, TypeOK, Evaluate, disk
<1>3. Stages'
  BY DEF IInv, Stages, TypeOK, Prefixes, Evaluate, disk
<1>4. WorkGood'
  BY <1>1, WorkOnward
<1>5. CacheGood' /\ Covered' /\ WonCovered' /\ Taught'
  BY <1>1, LearnKeeps, StayPast, MainKeeps DEF IInv
<1>6. CellsGood' /\ ColbufTrue'
  BY <1>1, LearnCells DEF IInv, ColbufTrue, Evaluate, disk
<1> QED
  BY <1>2, <1>3, <1>4, <1>5, <1>6 DEF IInv

LEMMA BeginDrawGood ==
    ASSUME IInv, Idle, todo = {}, BeginDraw, mode = "nocolbuf" => layout # << >>,
           UNCHANGED <<disk, job, gains, rows, won>>, pc # "forced"
    PROVE  IInv'
<1> USE DEF BeginDraw
<1>1. TypeOK'
  BY BoundsFit DEF IInv, TypeOK, disk, gains
<1>2. Stages'
  BY DEF IInv, Stages, disk
<1>3. WorkGood'
  BY WorkOnward
<1>4. CacheGood' /\ Covered' /\ WonCovered' /\ Taught'
  BY UnchangedKept, StayPast, MainKeeps DEF gains
<1>5. CellsGood' /\ ColbufTrue'
  BY SameCells DEF IInv, ColbufTrue, disk
<1> QED
  BY <1>1, <1>2, <1>3, <1>4, <1>5 DEF IInv

\* The next stage; the buffers are known when the last one begins.
LEMMA NextModeGood ==
    ASSUME IInv, Idle, todo = {}, NextMode, mode # "full",
           mode = "nocolbuf" => layout = << >> \/ rows # << >>,
           UNCHANGED <<disk, job, speed, pips, rows, won>>,
           UNCHANGED gains \/ Learn, pc # "failed",
           rows # << >> => pc = "forced"
    PROVE  IInv'
<1>1. Kept /\ CellsGood'
  BY UnchangedKept, LearnKeeps, LearnCells, SameCells DEF IInv
<1>2. pc' = "replay" /\ ctr' = 0 /\ left' = 0
      /\ mode' = IF mode = "noglobal" THEN "nocolbuf" ELSE "full"
  BY DEF NextMode
<1>3. TypeOK'
  <2>1. mode' \in Prefixes /\ todo' \subseteq Keys
    BY NextModePast
  <2>2. CASE UNCHANGED gains
    BY <2>1, <2>2, <1>2, BoundsFit DEF IInv, TypeOK, disk, gains
  <2>3. CASE Learn
    BY <2>1, <2>3, <1>2, BoundsFit, LearnKeeps DEF IInv, TypeOK, disk
  <2> QED
    BY <2>2, <2>3
<1>4. Stages'
  BY <1>2 DEF IInv, Stages, TypeOK, Prefixes, disk
<1>5. WorkGood' /\ CacheGood' /\ Covered' /\ WonCovered' /\ Taught'
  BY <1>1, NextModePast, MainKeeps
<1>6. ColbufTrue'
  BY <1>2 DEF IInv, ColbufTrue, disk
<1> QED
  BY <1>1, <1>3, <1>4, <1>5, <1>6 DEF IInv

LEMMA TestEnoughGood ==
    ASSUME IInv, TestEnough
    PROVE  IInv'
<1>1. /\ pc = "enough" /\ mode = "noglobal" /\ rows = << >> /\ Idle /\ todo = {}
      /\ UNCHANGED <<disk, job, gains, rows, won, speed, pips>>
  BY DEF TestEnough, IInv, Stages, WorkGood, gains
<1>2. CASE BeginDraw
  BY <1>1, <1>2, BeginDrawGood
<1>3. CASE NextMode
  BY <1>1, <1>3, NextModeGood
<1> QED
  BY <1>2, <1>3 DEF TestEnough

LEMMA EndDrawGood ==
    ASSUME IInv, EndDraw
    PROVE  IInv'
<1> USE DEF EndDraw, Goto
<1>1. Idle /\ todo = {} /\ UNCHANGED <<mode, todo, left, ctr, disk, job, gains, rows, won>>
  BY DEF IInv, WorkGood
<1>2. TypeOK'
  BY DEF IInv, TypeOK, disk, gains
<1>3. Stages'
  BY DEF IInv, Stages, disk
<1>4. WorkGood'
  BY <1>1, WorkOnward
<1>5. CacheGood' /\ Covered' /\ WonCovered' /\ Taught'
  BY <1>1, UnchangedKept, StayPast, MainKeeps DEF gains
<1>6. CellsGood' /\ ColbufTrue'
  BY <1>1, SameCells DEF IInv, ColbufTrue, disk
<1> QED
  BY <1>2, <1>3, <1>4, <1>5, <1>6 DEF IInv

LEMMA LearnDrawnGood ==
    ASSUME IInv, LearnDrawn
    PROVE  IInv'
<1>1. /\ pc = "learn" /\ Idle /\ todo = {} /\ Learn
      /\ UNCHANGED <<disk, job, speed, pips, rows, won>>
  BY DEF IInv, WorkGood, LearnDrawn
<1>2. CASE mode = "noglobal"
  <2>1. rows = << >>
    BY <1>1, <1>2 DEF IInv, Stages
  <2> QED
    BY <1>1, <1>2, <2>1, NextModeGood DEF LearnDrawn
<1>3. CASE mode # "noglobal"
  <2> USE DEF LearnDrawn, Goto
  <2>1. TypeOK'
    BY <1>1, <1>3, LearnKeeps DEF IInv, TypeOK, Evaluate, disk
  <2>2. Stages'
    BY <1>3 DEF IInv, Stages, TypeOK, Prefixes, Evaluate, disk
  <2>3. WorkGood'
    BY <1>1, <1>3, WorkOnward
  <2>4. CacheGood' /\ Covered' /\ WonCovered' /\ Taught'
    BY <1>1, <1>3, LearnKeeps, StayPast, MainKeeps DEF IInv
  <2>5. CellsGood' /\ ColbufTrue'
    BY <1>1, <1>3, LearnCells DEF IInv, ColbufTrue, Evaluate, disk
  <2> QED
    BY <2>1, <2>2, <2>3, <2>4, <2>5 DEF IInv
<1> QED
  BY <1>2, <1>3

LEMMA TestCompleteGood ==
    ASSUME IInv, TestComplete
    PROVE  IInv'
<1>1. /\ pc = "test" /\ mode = "full" /\ Idle /\ todo = {}
      /\ UNCHANGED <<disk, job, gains, rows, won>>
  BY DEF TestComplete, IInv, Stages, WorkGood
<1>2. CASE BeginDraw
  BY <1>1, <1>2, BeginDrawGood
<1>3. CASE Goto("done")
  <2> USE DEF Goto
  <2>1. TypeOK'
    BY <1>1, <1>3 DEF IInv, TypeOK, disk, gains
  <2>2. Stages'
    BY <1>1, <1>3 DEF IInv, Stages, disk
  <2>3. WorkGood'
    BY <1>1, <1>3, WorkOnward
  <2>4. CacheGood' /\ Covered' /\ WonCovered' /\ Taught'
    BY <1>1, <1>3, UnchangedKept, StayPast, MainKeeps DEF gains
  <2>5. CellsGood' /\ ColbufTrue'
    BY <1>1, <1>3, SameCells DEF IInv, ColbufTrue, disk
  <2> QED
    BY <2>1, <2>2, <2>3, <2>4, <2>5 DEF IInv
<1> QED
  BY <1>2, <1>3 DEF TestComplete

LEMMA ProcessForcedGood ==
    ASSUME IInv, ProcessForced
    PROVE  IInv'
<1>1. /\ pc = "forced" /\ mode = "nocolbuf" /\ rows # << >> /\ Idle /\ todo = {} /\ Learn
      /\ UNCHANGED <<disk, job, speed, pips, rows, won>>
  BY DEF ProcessForced, IInv, Stages, WorkGood
<1> QED
  BY <1>1, NextModeGood DEF ProcessForced
\* Whichever of the buffers are known.
LEMMA FoundTrue ==
    ASSUME IInv, layout # << >>, NEW m \in Maps
    PROVE  /\ compute_rows_colbuf(m).ok # "panic"
           /\ compute_rows_colbuf(m).ok = "yes" => compute_rows_colbuf(m).rows = layout
<1>1. layout \in Layouts /\ known \cap Cells \subseteq Forced
  BY DEF IInv, TypeOK, CellsGood
<1>2. \A c \in Forced : c = <<"plb", c[2]>> /\ c[2] \in Rows
  BY DEF Forced
<1>3. DOMAIN m = {c[2] : c \in known \cap Cells}
  BY DEF Maps
<1>4. DOMAIN m \subseteq Rows
  BY <1>1, <1>2, <1>3
<1>5. ASSUME NEW r \in DOMAIN m PROVE m[r] = Truth(r)
  <2>1. PICK c \in known \cap Cells : c[2] = r /\ m[r] = Target(c)
    BY DEF Maps
  <2>2. c = <<"plb", r>>
    BY <2>1, <1>1, <1>2
  <2> QED
    BY <2>1, <2>2 DEF Truth
<1> QED
  BY <1>1, <1>4, <1>5, ScanTrue

LEMMA handle_colbufsGood ==
    ASSUME IInv, handle_colbufs
    PROVE  IInv'
<1>1. /\ pc = "colbufs" /\ mode = "nocolbuf" /\ rows = << >> /\ Idle /\ todo = {}
      /\ UNCHANGED <<disk, job, won>> /\ layout \in Layouts
  BY DEF handle_colbufs, IInv, Stages, WorkGood, TypeOK
<1>2. CASE (layout = << >> \/ rows # << >>) /\ NextMode /\ UNCHANGED <<gains, rows>>
  <2>1. UNCHANGED <<speed, pips, rows>>
    BY <1>2 DEF gains
  <2> QED
    BY <1>1, <1>2, <2>1, NextModeGood
<1>3. ASSUME layout # << >>, NEW m \in Maps, BeginDraw, UNCHANGED <<gains, rows>>
      PROVE  IInv'
  BY <1>1, <1>3, BeginDrawGood
<1>4. ASSUME layout # << >>, NEW m \in Maps, compute_rows_colbuf(m).ok = "panic"
      PROVE  FALSE
  BY <1>4, FoundTrue
<1>5. ASSUME layout # << >>, NEW m \in Maps, compute_rows_colbuf(m).ok = "yes",
             rows' = compute_rows_colbuf(m).rows, Goto("forced"),
             known' = (known \ Forced) \cup {Colbuf},
             wanted' = wanted \ (Forced \cup {Colbuf}),
             stored' = {[z EXCEPT !.waits = @ \ (Forced \cup {Colbuf})] : z \in stored},
             UNCHANGED <<speed, pips>>
      PROVE  IInv'
  <2>1. rows' = layout
    BY <1>5, FoundTrue
  <2>2. stored \subseteq [key : Keys, waits : SUBSET AllNames] /\ known \subseteq AllNames
        /\ wanted \subseteq AllNames
    BY DEF IInv, TypeOK
  <2>3. \A z \in stored :
            LET x == [z EXCEPT !.waits = @ \ (Forced \cup {Colbuf})] IN
            /\ x \in [key : Keys, waits : SUBSET AllNames]
            /\ x.key = z.key /\ x.waits = z.waits \ (Forced \cup {Colbuf})
    BY <2>2
  <2>4. Kept
    <3>1. known \subseteq known' \cup Forced
      BY <1>5
    <3>2. \A z \in stored : \E x \in stored' : x.key = z.key
      BY <1>5, <2>3
    <3>3. \A x \in stored' : \E z \in stored : x.key = z.key /\ x.waits \subseteq z.waits
      BY <1>5, <2>3
    <3> QED
      BY <3>1, <3>2, <3>3 DEF Kept
  <2>5. TypeOK'
    <3>1. known' \subseteq AllNames /\ wanted' \subseteq AllNames
      BY <1>5, <2>2 DEF AllNames
    <3>2. stored' \subseteq [key : Keys, waits : SUBSET AllNames]
      BY <1>5, <2>3
    <3> QED
      BY <1>1, <1>5, <3>1, <3>2 DEF IInv, TypeOK, Goto, disk
  <2>6. Stages'
    BY <1>1, <1>5, <2>1 DEF IInv, Stages, Goto, disk
  <2>7. WorkGood'
    BY <1>1, <1>5, WorkOnward DEF Goto
  <2>8. CacheGood' /\ Covered' /\ WonCovered' /\ Taught'
    BY <1>1, <1>5, <2>4, StayPast, MainKeeps DEF Goto
  <2>9. CellsGood'
    <3>1. Colbuf \notin Cells
      BY NamesFit
    <3>2. wanted \cap Cells \subseteq Forced /\ \A z \in stored : z.waits \cap Cells \subseteq Forced
      BY <1>1 DEF IInv, CellsGood
    <3>3. known' \cap Cells \subseteq Forced
      BY <1>5, <3>1 DEF IInv, CellsGood
    <3>4. wanted' \cap Cells = {}
      BY <1>5, <3>2
    <3>5. \A x \in stored' : x.waits \cap Cells = {}
      BY <1>5, <2>3, <3>2
    <3> QED
      BY <3>3, <3>4, <3>5 DEF CellsGood
  <2>10. ColbufTrue'
    BY <2>1, <1>5, <1>1 DEF ColbufTrue, Goto, disk
  <2> QED
    BY <2>5, <2>6, <2>7, <2>8, <2>9, <2>10 DEF IInv
<1> QED
  BY <1>2, <1>3, <1>4, <1>5 DEF handle_colbufs

-----------------------------------------------------------------------------
(* The workers.                                                            *)

\* What a job is.
LEMMA JobOf ==
    ASSUME IInv, NEW t \in Threads, NEW j \in job[t]
    PROVE  /\ j \in [key : Keys, design : Designs, at : {"speed", "teach", "decide"},
                     changed : BOOLEAN]
           /\ job[t] = {j}
           /\ pc \in {"replay", "draw"}
           /\ \A u \in Threads : \A i \in job[u] : i.key = j.key => u = t
           /\ \E y \in cache : y.key = j.key /\ y.prefix = mode /\ y.design = j.design
           /\ \A y \in cache : y.key = j.key => y.prefix = mode /\ y.design = j.design
BY DEF IInv, TypeOK, WorkGood, JobGood, Apart, Idle, CacheGood

\* While someone works, the names of a run are read as its prefix says.
LEMMA ReadingOf ==
    ASSUME IInv, pc \in {"replay", "draw"}, NEW y \in cache, y.prefix = mode
    PROVE  Reading(y.design) = ReadAs(y)
<1>1. mode \in {"noglobal", "nocolbuf", "full"}
  BY DEF IInv, TypeOK, Prefixes
<1>2. CASE layout = << >> \/ y.design.global = {}
  BY <1>2 DEF Reading, ReadAs
<1>3. CASE layout # << >> /\ y.design.global # {}
  <2>1. mode # "noglobal"
    BY <1>3 DEF IInv, CacheGood
  <2> QED
    BY <2>1, <1>1, <1>3 DEF IInv, Stages, Reading, ReadAs
<1> QED
  BY <1>2, <1>3

\* A run's names are names, and its cells those the stage knows.
LEMMA ReadAsCells ==
    ASSUME IInv, pc \in {"replay", "draw"}, NEW y \in cache, y.prefix = mode
    PROVE  /\ ReadAs(y) \subseteq AllNames
           /\ ReadAs(y) \cap Cells \subseteq IF rows = << >> THEN Forced ELSE {}
<1>1. y.design.names \subseteq Names /\ y.design.global \subseteq Cells
  BY DesignsFit DEF IInv, TypeOK
<1>2. y.design.names \cap Cells = {} /\ Colbuf \notin Cells
  BY <1>1, NamesFit
<1>3. mode \in {"noglobal", "nocolbuf", "full"}
  BY DEF IInv, TypeOK, Prefixes
<1>4. ReadAs(y) \subseteq AllNames
  BY <1>1 DEF ReadAs, AllNames
<1>5. ReadAs(y) \cap Cells \subseteq IF rows = << >> THEN Forced ELSE {}
  <2>1. CASE mode = "noglobal"
    BY <2>1, <1>2 DEF IInv, CacheGood, ReadAs
  <2>2. CASE mode = "nocolbuf"
    <3>1. rows = << >>
      BY <2>2 DEF IInv, Stages
    <3> QED
      BY <3>1, <2>2, <1>2 DEF IInv, CacheGood, ReadAs
  <2>3. CASE mode = "full"
    BY <2>3, <1>2 DEF ReadAs
  <2> QED
    BY <1>3, <2>1, <2>2, <2>3
<1> QED
  BY <1>4, <1>5
LEMMA TaughtStays ==
    ASSUME NEW y, TaughtNames(y), Kept, UNCHANGED layout
    PROVE  TaughtNames(y)'
BY DEF TaughtNames, Kept, ReadAs

LEMMA TakeCachedGood ==
    ASSUME IInv, NEW t \in Threads, TakeCached(t)
    PROVE  IInv'
<1>1. PICK z \in cache :
         /\ z.key \in todo
         /\ todo' = todo \ {z.key}
         /\ job' = [job EXCEPT ![t] = {[key |-> z.key, design |-> z.design,
                                        at |-> "speed", changed |-> FALSE]}]
  BY DEF TakeCached
<1>2. /\ pc = "replay" /\ job[t] = {} /\ pc' = pc /\ mode' = mode /\ layout' = layout
      /\ cache' = cache /\ UNCHANGED <<left, ctr, speed, pips, known, wanted, stored, rows, won>>
  BY DEF TakeCached, disk, gains
<1>3. z \in [key : Keys, prefix : Prefixes, design : Designs]
  BY DEF IInv, TypeOK
<1>4. z.prefix = mode
  BY <1>1 DEF IInv, WorkGood, Cached, CacheGood
<1> DEFINE n == [key |-> z.key, design |-> z.design, at |-> "speed", changed |-> FALSE]
<1>5. job'[t] = {n} /\ \A u \in Threads : u # t => job'[u] = job[u]
  BY <1>1 DEF IInv, TypeOK
<1>6. TypeOK'
  <2>1. n \in [key : Keys, design : Designs, at : {"speed", "teach", "decide"}, changed : BOOLEAN]
    BY <1>3
  <2>2. job' \in [Threads -> SUBSET [key : Keys, design : Designs,
                                     at : {"speed", "teach", "decide"}, changed : BOOLEAN]]
    BY <2>1, <1>1 DEF IInv, TypeOK
  <2> QED
    BY <2>2, <1>1, <1>2 DEF IInv, TypeOK
<1>7. Stages'
  BY <1>2 DEF IInv, Stages
<1>8. \A y : ReadAs(y)' = ReadAs(y) /\ TaughtNames(y)' = TaughtNames(y)
             /\ TaughtPips(y)' = TaughtPips(y)
  BY <1>2 DEF ReadAs, TaughtNames, TaughtPips
<1>9. \A k : Held(k)' <=> Held(k) \/ k = z.key
  <2>1. n.key = z.key
    OBVIOUS
  <2> HIDE DEF n
  <2>2. ASSUME NEW k, Held(k) PROVE Held(k)'
    <3>1. PICK u \in Threads : \E j \in job[u] : j.key = k
      BY <2>2 DEF Held
    <3>2. u # t
      BY <3>1, <1>2
    <3> QED
      BY <3>1, <3>2, <1>5 DEF Held
  <2>3. Held(z.key)'
    BY <2>1, <1>5 DEF Held
  <2>4. ASSUME NEW k, Held(k)', ~Held(k) PROVE k = z.key
    BY <2>1, <2>4, <1>5 DEF Held
  <2> QED
    BY <2>2, <2>3, <2>4
<1>10. ~Held(z.key)
  BY <1>1 DEF IInv, WorkGood
<1>11. WorkGood'
  <2>1. Apart'
    BY <1>5, <1>10 DEF IInv, WorkGood, Apart, Held
  <2>3. ASSUME NEW u \in Threads, NEW i \in job'[u] PROVE JobGood(u, i)'
    <3>1. CASE u = t
      <4>1. /\ job'[u] = {i} /\ i.key = z.key /\ i.design = z.design /\ i.at = "speed"
            /\ i.changed = FALSE
        <5>1. i = n /\ job'[u] = {n}
          <6> HIDE DEF n
          <6> QED
            BY <3>1, <1>5
        <5> QED
          BY <5>1
      <4> QED
        BY <4>1, <1>2, <1>4 DEF JobGood
    <3>2. CASE u # t
      BY <3>2, <1>2, <1>5, <1>8 DEF IInv, WorkGood, JobGood
    <3> QED
      BY <3>1, <3>2
  <2>2. todo' \subseteq Cached(mode)' /\ \A k \in todo' : ~Held(k)'
    BY <1>1, <1>2, <1>9 DEF IInv, WorkGood, Cached
  <2> QED
    BY <2>1, <2>2, <2>3, <1>2 DEF WorkGood
<1>12. CacheGood' /\ CellsGood' /\ ColbufTrue'
  BY <1>2 DEF IInv, CacheGood, CellsGood, ColbufTrue
<1>13. Covered' /\ WonCovered'
  <2>1. \A y : Safe(y)' /\ Old(y)'
    BY <1>2 DEF Safe, Old
  <2> QED
    BY <2>1, <1>2, <1>8 DEF IInv, Covered, WonCovered
<1>14. Taught'
  <2>1. \A y \in cache : Past(y)' => Past(y)
    BY <1>1, <1>2, <1>9 DEF Past
  <2> QED
    BY <2>1, <1>2, <1>8 DEF IInv, Taught
<1> QED
  BY <1>6, <1>7, <1>11, <1>12, <1>13, <1>14 DEF IInv
JobType == [key : Keys, design : Designs, at : {"speed", "teach", "decide"}, changed : BOOLEAN]

\* A thread goes on with its run.
LEMMA Advance ==
    ASSUME IInv, NEW t \in Threads, NEW j \in job[t], NEW n \in JobType, n.key = j.key,
           j.changed => n.changed, job' = [job EXCEPT ![t] = {n}],
           UNCHANGED <<mode, pc, todo>>
    PROVE  /\ job' \in [Threads -> SUBSET JobType]
           /\ job'[t] = {n} /\ \A u \in Threads : u # t => job'[u] = job[u]
           /\ Apart'
           /\ \A k : Held(k)' <=> Held(k)
           /\ \A y : (Safe(y) => Safe(y)') /\ (Old(y) => Old(y)') /\ (Past(y)' => Past(y))
           /\ n.changed => \A y : y.key = j.key => Safe(y)'
<1>1. job \in [Threads -> SUBSET JobType]
  BY DEF IInv, TypeOK, JobType
<1>2. job' \in [Threads -> SUBSET JobType]
  BY <1>1
<1>3. job'[t] = {n} /\ \A u \in Threads : u # t => job'[u] = job[u]
  BY <1>1
<1>4. job[t] = {j} /\ Apart
  BY DEF IInv, WorkGood, JobGood
<1>5. Apart'
  <2> SUFFICES ASSUME NEW v \in Threads, NEW u \in Threads, NEW h \in job'[v], NEW i \in job'[u],
                      i.key = h.key
               PROVE  u = v
    BY DEF Apart
  <2>1. CASE v = t /\ u # t
    BY <2>1, <1>3, <1>4 DEF Apart
  <2>2. CASE v # t /\ u = t
    BY <2>2, <1>3, <1>4 DEF Apart
  <2>3. CASE v # t /\ u # t
    BY <2>3, <1>3, <1>4 DEF Apart
  <2> QED
    BY <2>1, <2>2, <2>3
<1>6. ASSUME NEW k PROVE Held(k)' <=> Held(k)
  <2>1. ASSUME Held(k) PROVE Held(k)'
    <3>1. PICK u \in Threads : \E i \in job[u] : i.key = k
      BY <2>1 DEF Held
    <3> QED
      BY <3>1, <1>3, <1>4 DEF Held
  <2>2. ASSUME Held(k)' PROVE Held(k)
    <3>1. PICK u \in Threads : \E i \in job'[u] : i.key = k
      BY <2>2 DEF Held
    <3> QED
      BY <3>1, <1>3, <1>4 DEF Held
  <2> QED
    BY <2>1, <2>2
<1>7. ASSUME NEW y PROVE (Old(y) => Old(y)') /\ (Past(y)' => Past(y))
  BY <1>6 DEF Old, Past
<1>8. ASSUME NEW y, Safe(y) PROVE Safe(y)'
  BY <1>8, <1>3, <1>4 DEF Safe
<1>9. ASSUME NEW y, y.key = j.key, n.changed PROVE Safe(y)'
  BY <1>9, <1>3, <1>4 DEF Safe, Apart
<1> QED
  BY <1>2, <1>3, <1>5, <1>6, <1>7, <1>8, <1>9

\* A thread is through with its run.
LEMMA Leave ==
    ASSUME IInv, NEW t \in Threads, NEW j \in job[t], job' = [job EXCEPT ![t] = {}],
           UNCHANGED <<mode, pc, todo>>
    PROVE  /\ job' \in [Threads -> SUBSET JobType]
           /\ job'[t] = {} /\ \A u \in Threads : u # t => job'[u] = job[u]
           /\ Apart'
           /\ \A k : Held(k)' <=> Held(k) /\ k # j.key
           /\ \A y : (Safe(y) => Safe(y)') /\ (Old(y) => Old(y)')
           /\ \A y : Past(y)' => Past(y) \/ y.key = j.key
<1>1. job \in [Threads -> SUBSET JobType]
  BY DEF IInv, TypeOK, JobType
<1>2. job' \in [Threads -> SUBSET JobType]
  BY <1>1
<1>3. job'[t] = {} /\ \A u \in Threads : u # t => job'[u] = job[u]
  BY <1>1
<1>4. job[t] = {j} /\ Apart
  BY DEF IInv, WorkGood, JobGood
<1>5. Apart'
  BY <1>3, <1>4 DEF Apart
<1>6. ASSUME NEW k PROVE Held(k)' <=> Held(k) /\ k # j.key
  <2>1. ASSUME Held(k), k # j.key PROVE Held(k)'
    <3>1. PICK u \in Threads : \E i \in job[u] : i.key = k
      BY <2>1 DEF Held
    <3> QED
      BY <2>1, <3>1, <1>3, <1>4 DEF Held
  <2>2. ASSUME Held(k)' PROVE Held(k) /\ k # j.key
    <3>1. PICK u \in Threads : \E i \in job'[u] : i.key = k
      BY <2>2 DEF Held
    <3>2. u # t
      BY <3>1, <1>3
    <3> QED
      BY <3>1, <3>2, <1>3, <1>4 DEF Held, Apart
  <2> QED
    BY <2>1, <2>2
<1>7. ASSUME NEW y PROVE (Old(y) => Old(y)') /\ (Past(y)' => Past(y) \/ y.key = j.key)
  BY <1>6 DEF Old, Past
<1>8. ASSUME NEW y, Safe(y) PROVE Safe(y)'
  BY <1>8, <1>3, <1>4 DEF Safe
<1> QED
  BY <1>2, <1>3, <1>5, <1>6, <1>7, <1>8

LEMMA MergeSpeedGood ==
    ASSUME IInv, NEW t \in Threads, MergeSpeed(t)
    PROVE  IInv'
<1>1. PICK j \in job[t] :
         /\ j.at = "speed"
         /\ speed' = speed \cup j.design.speed
         /\ job' = [job EXCEPT ![t] =
                      {[j EXCEPT !.at = IF j.design.small THEN "decide" ELSE "teach",
                                 !.changed = ~(j.design.speed \subseteq speed)]}]
  BY DEF MergeSpeed
<1>2. /\ UNCHANGED <<layout, cache, mode, pc, todo, left, ctr>>
      /\ UNCHANGED <<pips, known, wanted, stored, rows, won>>
  BY DEF MergeSpeed, disk, main
<1>3. PICK n : /\ job' = [job EXCEPT ![t] = {n}] /\ n \in JobType
               /\ n.key = j.key /\ n.design = j.design
               /\ n.at = (IF j.design.small THEN "decide" ELSE "teach")
               /\ n.changed <=> ~(j.design.speed \subseteq speed)
  <2> DEFINE x == [j EXCEPT !.at = IF j.design.small THEN "decide" ELSE "teach",
                            !.changed = ~(j.design.speed \subseteq speed)]
  <2>1. j \in JobType
    BY JobOf DEF JobType
  <2>2. x \in JobType /\ x.key = j.key /\ x.design = j.design
        /\ x.at = (IF j.design.small THEN "decide" ELSE "teach")
        /\ x.changed = ~(j.design.speed \subseteq speed)
    BY <2>1 DEF JobType
  <2> QED
    BY <2>2, <1>1
<1>4. ~j.changed /\ j.design \in Designs
  BY <1>1, JobOf DEF IInv, WorkGood, JobGood
<1>5. /\ job' \in [Threads -> SUBSET JobType]
      /\ job'[t] = {n} /\ \A u \in Threads : u # t => job'[u] = job[u]
      /\ Apart'
      /\ \A k : Held(k)' <=> Held(k)
      /\ \A y : (Safe(y) => Safe(y)') /\ (Old(y) => Old(y)') /\ (Past(y)' => Past(y))
      /\ n.changed => \A y : y.key = j.key => Safe(y)'
  BY <1>2, <1>3, <1>4, Advance
<1>6. \A y : ReadAs(y)' = ReadAs(y) /\ TaughtNames(y)' = TaughtNames(y)
             /\ TaughtPips(y)' = TaughtPips(y)
  BY <1>2 DEF ReadAs, TaughtNames, TaughtPips
<1>7. PICK y0 \in cache : y0.key = j.key /\ y0.prefix = mode /\ y0.design = j.design
  BY JobOf
<1>8. TypeOK'
  <2>1. speed' \subseteq SpeedKeys
    BY <1>1, <1>4, DesignsFit DEF IInv, TypeOK
  <2> QED
    BY <2>1, <1>2, <1>5 DEF IInv, TypeOK, JobType
<1>9. Stages'
  BY <1>2 DEF IInv, Stages
<1>10. WorkGood'
  <2>1. ASSUME NEW u \in Threads, NEW i \in job'[u] PROVE JobGood(u, i)'
    <3>1. CASE u = t
      <4>1. i = n /\ job'[u] = {i}
        BY <3>1, <1>5
      <4>2. n.design.speed \subseteq speed' /\ n.at # "speed" /\ (n.at = "teach" => ~n.design.small)
        BY <1>1, <1>3
      <4>3. n.at = "decide" => \A y \in cache : y.key = n.key =>
                                   TaughtPips(y.design)' /\ TaughtNames(y)'
        BY <1>3, JobOf DEF TaughtPips, TaughtNames
      <4> QED
        BY <4>1, <4>2, <4>3, <1>2, <1>3, <1>7 DEF JobGood
    <3>2. CASE u # t
      <4>1. JobGood(u, i) /\ job'[u] = job[u]
        BY <3>2, <1>5 DEF IInv, WorkGood
      <4> QED
        BY <4>1, <1>1, <1>2, <1>6 DEF JobGood
    <3> QED
      BY <3>1, <3>2
  <2>2. pc \in {"replay", "draw"}
    BY JobOf
  <2> QED
    BY <2>1, <2>2, <1>2, <1>5 DEF IInv, WorkGood, Cached
<1>11. CacheGood' /\ CellsGood' /\ ColbufTrue'
  BY <1>2 DEF IInv, CacheGood, CellsGood, ColbufTrue
<1>12. Covered'
  <2>1. \A s \in speed' : \E y \in cache : Safe(y)' /\ s \in y.design.speed
    <3> SUFFICES ASSUME NEW s \in speed'
                 PROVE  \E y \in cache : Safe(y)' /\ s \in y.design.speed
      OBVIOUS
    <3>1. CASE s \in speed
      BY <3>1, <1>5 DEF IInv, Covered
    <3>2. CASE s \notin speed
      <4>1. s \in j.design.speed /\ n.changed
        BY <3>2, <1>1, <1>3
      <4> QED
        BY <4>1, <1>5, <1>7
    <3> QED
      BY <3>1, <3>2
  <2> QED
    BY <2>1, <1>2, <1>5, <1>6 DEF IInv, Covered
<1>13. WonCovered'
  BY <1>2, <1>5, <1>6 DEF IInv, WonCovered
<1>14. Taught'
  BY <1>1, <1>2, <1>5, <1>6 DEF IInv, Taught
<1> QED
  BY <1>8, <1>9, <1>10, <1>11, <1>12, <1>13, <1>14 DEF IInv
LEMMA TeachGood ==
    ASSUME IInv, NEW t \in Threads, Teach(t)
    PROVE  IInv'
<1>1. PICK j \in job[t] :
         LET waits == Reading(j.design) \ known IN
         /\ j.at = "teach"
         /\ pips' = pips \cup j.design.pips
         /\ stored' = IF waits = {} THEN stored
                      ELSE stored \cup {[key |-> j.key, waits |-> waits]}
         /\ wanted' = wanted \cup waits
         /\ job' = [job EXCEPT ![t] = {[j EXCEPT !.at = "decide",
                                           !.changed = @ \/ Learned(j.design, waits)]}]
         /\ UNCHANGED <<disk, main, speed, known, rows, won>>
  BY DEF Teach
<1> DEFINE waits == Reading(j.design) \ known
<1>2. UNCHANGED <<layout, cache, mode, pc, todo, left, ctr, speed, known, rows, won>>
  BY <1>1 DEF disk, main
<1>3. PICK n : /\ job' = [job EXCEPT ![t] = {n}] /\ n \in JobType
               /\ n.key = j.key /\ n.design = j.design /\ n.at = "decide"
               /\ n.changed <=> j.changed \/ Learned(j.design, waits)
  <2> DEFINE x == [j EXCEPT !.at = "decide", !.changed = @ \/ Learned(j.design, waits)]
  <2>1. j \in JobType
    BY JobOf DEF JobType
  <2>2. x \in JobType /\ x.key = j.key /\ x.design = j.design /\ x.at = "decide"
        /\ x.changed = (j.changed \/ Learned(j.design, waits))
    BY <2>1 DEF JobType
  <2> QED
    BY <2>2, <1>1
<1>4. /\ j.design \in Designs /\ j.key \in Keys /\ ~j.design.small
      /\ j.design.speed \subseteq speed /\ pc \in {"replay", "draw"}
  BY <1>1, JobOf DEF IInv, WorkGood, JobGood
<1>5. /\ job' \in [Threads -> SUBSET JobType]
      /\ job'[t] = {n} /\ \A u \in Threads : u # t => job'[u] = job[u]
      /\ Apart'
      /\ \A k : Held(k)' <=> Held(k)
      /\ \A y : (Safe(y) => Safe(y)') /\ (Old(y) => Old(y)') /\ (Past(y)' => Past(y))
      /\ n.changed => \A y : y.key = j.key => Safe(y)'
  BY <1>2, <1>3, Advance
<1>6. \A y : ReadAs(y)' = ReadAs(y)
  BY <1>2 DEF ReadAs
<1>7. PICK y0 \in cache : y0.key = j.key /\ y0.prefix = mode /\ y0.design = j.design
  BY JobOf
<1>8. /\ waits \subseteq ReadAs(y0) /\ ReadAs(y0) \subseteq waits \cup known
      /\ ReadAs(y0) \subseteq AllNames
      /\ ReadAs(y0) \cap Cells \subseteq IF rows = << >> THEN Forced ELSE {}
  BY <1>4, <1>7, ReadingOf, ReadAsCells
<1> DEFINE w == [key |-> j.key, waits |-> waits]
<1>9. /\ wanted' = wanted \cup waits
      /\ waits = {} => stored' = stored
      /\ waits # {} => stored' = stored \cup {w} /\ n.changed
  BY <1>1, <1>3 DEF Learned
<1>10. w.key = j.key /\ w.waits = waits
  OBVIOUS
<1> HIDE DEF waits, w
<1>11. \A d : TaughtPips(d) => TaughtPips(d)'
  BY <1>1 DEF TaughtPips
<1>12. \A y : TaughtNames(y) => TaughtNames(y)'
  BY <1>2, <1>6, <1>9 DEF TaughtNames
<1>13. TypeOK'
  <2>1. pips' \subseteq Pips
    BY <1>1, <1>4, DesignsFit DEF IInv, TypeOK
  <2>2. w \in [key : Keys, waits : SUBSET AllNames]
    BY <1>4, <1>8 DEF w
  <2>3. stored' \subseteq [key : Keys, waits : SUBSET AllNames] /\ wanted' \subseteq AllNames
    BY <2>2, <1>8, <1>9 DEF IInv, TypeOK
  <2> QED
    BY <2>1, <2>3, <1>2, <1>5 DEF IInv, TypeOK, JobType
<1>14. Stages'
  BY <1>2 DEF IInv, Stages
<1>15. WorkGood'
  <2>1. ASSUME NEW u \in Threads, NEW i \in job'[u] PROVE JobGood(u, i)'
    <3>1. CASE u = t
      <4>1. i = n /\ job'[u] = {i}
        BY <3>1, <1>5
      <4>2. n.design.speed \subseteq speed'
        BY <1>2, <1>3, <1>4
      <4>3. \A y \in cache : y.key = n.key => y = y0
        BY <1>3, <1>7 DEF IInv, CacheGood
      <4>4. TaughtPips(y0.design)'
        BY <1>1, <1>7 DEF TaughtPips
      <4>5. TaughtNames(y0)'
        BY <1>6, <1>7, <1>8, <1>9, <1>10, <1>2 DEF TaughtNames
      <4> QED
        BY <4>1, <4>2, <4>3, <4>4, <4>5, <1>2, <1>3, <1>7 DEF JobGood
    <3>2. CASE u # t
      <4>1. JobGood(u, i) /\ job'[u] = job[u]
        BY <3>2, <1>5 DEF IInv, WorkGood
      <4> QED
        BY <4>1, <1>2, <1>11, <1>12 DEF JobGood
    <3> QED
      BY <3>1, <3>2
  <2> QED
    BY <2>1, <1>2, <1>4, <1>5 DEF IInv, WorkGood, Cached
<1>16. CacheGood' /\ ColbufTrue'
  BY <1>2 DEF IInv, CacheGood, ColbufTrue
<1>17. CellsGood'
  <2>1. waits \cap Cells \subseteq IF rows = << >> THEN Forced ELSE {}
    BY <1>8
  <2> QED
    BY <2>1, <1>2, <1>9, <1>10 DEF IInv, CellsGood
<1>18. Covered'
  <2>1. \A p \in pips' : \E y \in cache : Safe(y)' /\ ~y.design.small /\ p \in y.design.pips
    <3> SUFFICES ASSUME NEW p \in pips'
                 PROVE  \E y \in cache : Safe(y)' /\ ~y.design.small /\ p \in y.design.pips
      OBVIOUS
    <3>1. CASE p \in pips
      BY <3>1, <1>5 DEF IInv, Covered
    <3>2. CASE p \notin pips
      <4>1. p \in j.design.pips /\ n.changed
        BY <3>2, <1>1, <1>3 DEF Learned
      <4> QED
        BY <4>1, <1>4, <1>5, <1>7
    <3> QED
      BY <3>1, <3>2
  <2>2. \A z \in stored' : \E y \in cache :
            Safe(y)' /\ ~y.design.small /\ y.key = z.key /\ z.waits \subseteq ReadAs(y)
    <3> SUFFICES ASSUME NEW z \in stored'
                 PROVE  \E y \in cache : Safe(y)' /\ ~y.design.small /\ y.key = z.key
                                         /\ z.waits \subseteq ReadAs(y)
      OBVIOUS
    <3>1. CASE z \in stored
      BY <3>1, <1>5 DEF IInv, Covered
    <3>2. CASE z \notin stored
      <4>1. z = w /\ n.changed
        BY <3>2, <1>9
      <4> QED
        BY <4>1, <1>4, <1>5, <1>7, <1>8, <1>10
    <3> QED
      BY <3>1, <3>2
  <2> QED
    BY <2>1, <2>2, <1>2, <1>5, <1>6 DEF IInv, Covered
<1>19. WonCovered'
  BY <1>2, <1>5, <1>6 DEF IInv, WonCovered
<1>20. Taught'
  BY <1>2, <1>5, <1>11, <1>12 DEF IInv, Taught
<1> QED
  BY <1>13, <1>14, <1>15, <1>16, <1>17, <1>18, <1>19, <1>20 DEF IInv

LEMMA ReplayedGood ==
    ASSUME IInv, NEW t \in Threads, Replayed(t)
    PROVE  IInv'
<1>1. PICK j \in job[t] :
         /\ pc = "replay" /\ j.at = "decide"
         /\ job' = [job EXCEPT ![t] = {}]
         /\ ctr' = ctr + 1
         /\ (Learn /\ UNCHANGED <<speed, pips>>) \/ UNCHANGED gains
         /\ UNCHANGED <<disk, mode, pc, todo, left, rows, won>>
  BY DEF Replayed
<1>2. UNCHANGED <<layout, cache, mode, pc, todo, left, speed, pips, rows, won>>
  BY <1>1 DEF disk, gains
<1>3. Kept /\ CellsGood'
  BY <1>1, <1>2, LearnKeeps, LearnCells, UnchangedKept, SameCells DEF IInv
<1>4. /\ job' \in [Threads -> SUBSET JobType]
      /\ job'[t] = {} /\ \A u \in Threads : u # t => job'[u] = job[u]
      /\ Apart'
      /\ \A k : Held(k)' <=> Held(k) /\ k # j.key
      /\ \A y : (Safe(y) => Safe(y)') /\ (Old(y) => Old(y)')
      /\ \A y : Past(y)' => Past(y) \/ y.key = j.key
  BY <1>1, Leave
<1>5. \A y : ReadAs(y)' = ReadAs(y) /\ TaughtPips(y)' = TaughtPips(y)
  BY <1>2 DEF ReadAs, TaughtPips
<1>6. \A y : TaughtNames(y) => TaughtNames(y)'
  BY <1>2, <1>3, TaughtStays
<1>7. TypeOK'
  <2>1. ctr' \in Nat
    BY <1>1 DEF IInv, TypeOK
  <2>2. known' \subseteq AllNames /\ wanted' \subseteq AllNames
        /\ stored' \subseteq [key : Keys, waits : SUBSET AllNames]
    BY <1>1, LearnKeeps DEF IInv, TypeOK, gains
  <2> QED
    BY <2>1, <2>2, <1>2, <1>4 DEF IInv, TypeOK, JobType
<1>8. Stages'
  BY <1>2 DEF IInv, Stages
<1>9. WorkGood'
  <2>1. ASSUME NEW u \in Threads, NEW i \in job'[u] PROVE JobGood(u, i)'
    <3>1. JobGood(u, i) /\ job'[u] = job[u]
      BY <1>4 DEF IInv, WorkGood
    <3> QED
      BY <3>1, <1>2, <1>5, <1>6 DEF JobGood
  <2> QED
    BY <2>1, <1>1, <1>2, <1>4 DEF IInv, WorkGood, Cached
<1>10. CacheGood' /\ ColbufTrue'
  BY <1>2 DEF IInv, CacheGood, ColbufTrue
<1>11. Covered'
  <2>1. \A x \in stored' : \E y \in cache :
            Safe(y) /\ ~y.design.small /\ y.key = x.key /\ x.waits \subseteq ReadAs(y)
    BY <1>3 DEF IInv, Covered, Kept
  <2> QED
    BY <2>1, <1>2, <1>4, <1>5 DEF IInv, Covered
<1>12. WonCovered'
  BY <1>2, <1>4, <1>5 DEF IInv, WonCovered
<1>13. Taught'
  <2> SUFFICES ASSUME NEW y \in cache, Past(y)'
               PROVE  y.design.speed \subseteq speed /\ TaughtPips(y.design) /\ TaughtNames(y)
    BY <1>2, <1>5, <1>6 DEF Taught
  <2>1. CASE Past(y)
    BY <2>1 DEF IInv, Taught
  <2>2. CASE y.key = j.key
    BY <2>2, <1>1, JobOf DEF IInv, WorkGood, JobGood
  <2> QED
    BY <2>1, <2>2, <1>4
<1> QED
  BY <1>3, <1>7, <1>8, <1>9, <1>10, <1>11, <1>12, <1>13 DEF IInv

LEMMA DrawnGood ==
    ASSUME IInv, NEW t \in Threads, Drawn(t)
    PROVE  IInv'
<1>1. PICK j \in job[t] :
         /\ pc = "draw" /\ j.at = "decide"
         /\ job' = [job EXCEPT ![t] = {}]
         /\ cache' = IF mode = "full" /\ ~j.changed
                     THEN {z \in cache : z.key # j.key} ELSE cache
         /\ UNCHANGED <<layout, main, gains, rows, won>>
  BY DEF Drawn
<1>2. UNCHANGED <<layout, mode, pc, todo, left, ctr, speed, pips, known, wanted, stored, rows, won>>
  BY <1>1 DEF main, gains
<1>3. /\ job' \in [Threads -> SUBSET JobType]
      /\ job'[t] = {} /\ \A u \in Threads : u # t => job'[u] = job[u]
      /\ Apart'
      /\ \A k : Held(k)' <=> Held(k) /\ k # j.key
      /\ \A y : (Safe(y) => Safe(y)') /\ (Old(y) => Old(y)')
      /\ \A y : Past(y)' => Past(y) \/ y.key = j.key
  BY <1>1, <1>2, Leave
<1>4. \A y : ReadAs(y)' = ReadAs(y) /\ TaughtPips(y)' = TaughtPips(y)
             /\ TaughtNames(y)' = TaughtNames(y)
  BY <1>2 DEF ReadAs, TaughtPips, TaughtNames
\* What the collectors may need stays.
<1>5. \A y \in cache : Safe(y) => y \in cache'
  BY <1>1 DEF Safe
<1>6. \A y \in cache : Old(y) => y \in cache'
  BY <1>1 DEF Old, Held
<1>7. cache' \subseteq cache /\ \A y \in cache : y.key # j.key => y \in cache'
  BY <1>1
<1>8. TypeOK'
  BY <1>2, <1>3, <1>7 DEF IInv, TypeOK, JobType
<1>9. Stages'
  BY <1>2 DEF IInv, Stages
<1>10. WorkGood'
  <2>1. ASSUME NEW u \in Threads, NEW i \in job'[u] PROVE JobGood(u, i)'
    <3>1. JobGood(u, i) /\ job'[u] = job[u] /\ u # t
      BY <1>3 DEF IInv, WorkGood
    <3>2. i.key # j.key
      BY <3>1 DEF IInv, WorkGood, Apart
    <3> QED
      BY <3>1, <3>2, <1>2, <1>4, <1>7 DEF JobGood
  <2>2. todo' = {}
    BY <1>1, <1>2 DEF IInv, WorkGood
  <2> QED
    BY <2>1, <2>2, <1>1, <1>2, <1>3 DEF WorkGood
<1>11. CacheGood' /\ ColbufTrue' /\ CellsGood'
  BY <1>2, <1>7 DEF IInv, CacheGood, ColbufTrue, CellsGood
<1>12. Covered'
  BY <1>2, <1>3, <1>4, <1>5 DEF IInv, Covered
<1>13. WonCovered'
  BY <1>2, <1>3, <1>4, <1>6 DEF IInv, WonCovered
<1>14. Taught'
  <2> SUFFICES ASSUME NEW y \in cache, Past(y)'
               PROVE  y.design.speed \subseteq speed /\ TaughtPips(y.design) /\ TaughtNames(y)
    BY <1>2, <1>4, <1>7 DEF Taught
  <2>1. CASE Past(y)
    BY <2>1 DEF IInv, Taught
  <2>2. CASE y.key = j.key
    BY <2>2, <1>1, JobOf DEF IInv, WorkGood, JobGood
  <2> QED
    BY <2>1, <2>2, <1>3
<1> QED
  BY <1>8, <1>9, <1>10, <1>11, <1>12, <1>13, <1>14 DEF IInv
LEMMA DrawGood ==
    ASSUME IInv, NEW t \in Threads, Draw(t)
    PROVE  IInv'
<1>1. /\ pc = "draw" /\ job[t] = {} /\ left > 0 /\ left' = left - 1
      /\ UNCHANGED <<layout, mode, pc, todo, ctr, speed, pips, known, wanted, stored, rows, won>>
  BY DEF Draw, gains
<1>2. left' \in 0..Tasks
  BY <1>1, BoundsFit DEF IInv, TypeOK
<1>3. \A y : ReadAs(y)' = ReadAs(y) /\ TaughtPips(y)' = TaughtPips(y)
             /\ TaughtNames(y)' = TaughtNames(y)
  BY <1>1 DEF ReadAs, TaughtPips, TaughtNames
<1>4. Stages' /\ ColbufTrue' /\ CellsGood'
  BY <1>1 DEF IInv, Stages, ColbufTrue, CellsGood
<1>5. todo = {}
  BY <1>1 DEF IInv, WorkGood
<1>6. CASE UNCHANGED <<cache, job>>
  <2>1. TypeOK'
    BY <1>1, <1>2, <1>6 DEF IInv, TypeOK
  <2>2. WorkGood'
    BY <1>1, <1>3, <1>5, <1>6 DEF IInv, WorkGood, JobGood, Apart, Held, Idle, Cached
  <2>3. \A y : Safe(y)' = Safe(y) /\ Old(y)' = Old(y) /\ Past(y)' = Past(y)
    BY <1>1, <1>6 DEF Safe, Old, Past, Held
  <2>4. CacheGood' /\ Covered' /\ WonCovered' /\ Taught'
    BY <1>1, <1>3, <1>6, <2>3 DEF IInv, CacheGood, Covered, WonCovered, Taught
  <2> QED
    BY <1>4, <2>1, <2>2, <2>4 DEF IInv
<1>7. ASSUME NEW k \in Keys, NEW d \in Designs,
             \A z \in cache : z.key # k,
             CanDraw(d),
             cache' = cache \cup {[key |-> k, prefix |-> NewPrefix, design |-> d]},
             job' = [job EXCEPT ![t] = {[key |-> k, design |-> d, at |-> "speed",
                                         changed |-> FALSE]}]
      PROVE  IInv'
  <2> DEFINE n == [key |-> k, design |-> d, at |-> "speed", changed |-> FALSE]
  <2>0. PICK y0 : y0 = [key |-> k, prefix |-> NewPrefix, design |-> d]
    OBVIOUS
  <2>1. NewPrefix = mode
    BY <1>1 DEF IInv, TypeOK, Stages, Prefixes, NewPrefix
  <2>2. y0 \in [key : Keys, prefix : Prefixes, design : Designs] /\ n \in JobType
    BY <2>0, <2>1 DEF IInv, TypeOK, JobType
  <2>3. /\ y0.key = k /\ y0.prefix = mode /\ y0.design = d
        /\ n.key = k /\ n.design = d /\ n.at = "speed" /\ ~n.changed
    BY <2>0, <2>1
  <2>4. cache' = cache \cup {y0}
    BY <1>7, <2>0
  <2>5. job \in [Threads -> SUBSET JobType]
    BY DEF IInv, TypeOK, JobType
  <2>6. /\ job' \in [Threads -> SUBSET JobType]
        /\ job'[t] = {n} /\ \A u \in Threads : u # t => job'[u] = job[u]
    BY <1>7, <2>2, <2>5
  <2> HIDE DEF n
  <2>7. ~Held(k)
    <3>1. \A u \in Threads : \A j \in job[u] : \E y \in cache : y.key = j.key
      BY DEF IInv, WorkGood, JobGood
    <3> QED
      BY <3>1, <1>7 DEF Held
  <2>8. \A x : Held(x)' <=> Held(x) \/ x = k
    <3>1. ASSUME NEW x, Held(x) PROVE Held(x)'
      <4>1. PICK u \in Threads : \E j \in job[u] : j.key = x
        BY <3>1 DEF Held
      <4>2. u # t
        BY <4>1, <1>1
      <4> QED
        BY <4>1, <4>2, <2>6 DEF Held
    <3>2. Held(k)'
      BY <2>3, <2>6 DEF Held
    <3>3. ASSUME NEW x, Held(x)', ~Held(x) PROVE x = k
      BY <2>3, <3>3, <2>6 DEF Held
    <3> QED
      BY <3>1, <3>2, <3>3
  <2>9. \A y \in cache : (Safe(y) => Safe(y)') /\ (Old(y) => Old(y)')
    <3>1. ASSUME NEW y \in cache, Safe(y) PROVE Safe(y)'
      BY <3>1, <1>1, <1>7, <2>3, <2>6 DEF Safe
    <3> QED
      BY <3>1, <1>1, <1>7, <2>8 DEF Old
  <2>10. \A y \in cache' : Past(y)' => y \in cache /\ Past(y)
    <3>1. ~Past(y0)'
      <4>1. ~(Rank(mode) < Rank(mode))
        BY DEF Rank
      <4>2. Held(y0.key)' /\ y0.prefix = mode /\ mode' = mode
        BY <1>1, <2>3, <2>8
      <4> QED
        BY <4>1, <4>2 DEF Past
    <3>2. ASSUME NEW y \in cache, Past(y)' PROVE Past(y)
      <4>1. mode' = mode /\ todo' = todo
        BY <1>1
      <4>2. Held(y.key) => Held(y.key)'
        BY <2>8
      <4> QED
        BY <3>2, <4>1, <4>2 DEF Past
    <3> QED
      BY <3>1, <3>2, <2>4
  <2>11. TypeOK'
    BY <1>1, <1>2, <2>2, <2>4, <2>6 DEF IInv, TypeOK, JobType
  <2>12. WorkGood'
    <3>1. Apart'
      <4> SUFFICES ASSUME NEW v \in Threads, NEW u \in Threads, NEW h \in job'[v],
                          NEW i \in job'[u], i.key = h.key
                   PROVE  u = v
        BY DEF Apart
      <4>1. CASE v = t /\ u # t
        BY <4>1, <2>3, <2>6, <2>7 DEF Held
      <4>2. CASE v # t /\ u = t
        BY <4>2, <2>3, <2>6, <2>7 DEF Held
      <4>3. CASE v # t /\ u # t
        BY <4>3, <2>6 DEF IInv, WorkGood, Apart
      <4> QED
        BY <4>1, <4>2, <4>3
    <3>2. ASSUME NEW u \in Threads, NEW i \in job'[u] PROVE JobGood(u, i)'
      <4>1. CASE u = t
        <5>1. i = n /\ job'[u] = {i}
          BY <4>1, <2>6
        <5> QED
          BY <5>1, <1>1, <2>3, <2>4 DEF JobGood
      <4>2. CASE u # t
        <5>1. JobGood(u, i) /\ job'[u] = job[u]
          BY <4>2, <2>6 DEF IInv, WorkGood
        <5>2. i.key # k
          BY <5>1, <2>7 DEF Held
        <5> QED
          BY <5>1, <5>2, <1>1, <1>3, <2>3, <2>4 DEF JobGood
      <4> QED
        BY <4>1, <4>2
    <3> QED
      BY <3>1, <3>2, <1>1, <1>5 DEF WorkGood
  <2>13. CacheGood'
    <3>1. y0.prefix = "noglobal" => y0.design.global = {}
      BY <1>7, <2>3 DEF CanDraw
    <3>2. y0.prefix = "nocolbuf" => layout # << >> /\ y0.design.global \subseteq Forced
      <4>1. mode = "nocolbuf" => layout # << >> /\ rows = << >>
        BY <1>1 DEF IInv, Stages
      <4> QED
        BY <4>1, <1>7, <2>3 DEF CanDraw, Forced
    <3> QED
      BY <3>1, <3>2, <1>1, <1>7, <2>3, <2>4 DEF IInv, CacheGood
  <2>14. Covered' /\ WonCovered'
    BY <1>1, <1>3, <2>4, <2>9 DEF IInv, Covered, WonCovered
  <2>15. Taught'
    BY <1>1, <1>3, <2>10 DEF IInv, Taught
  <2> QED
    BY <1>4, <2>11, <2>12, <2>13, <2>14, <2>15 DEF IInv
<1> QED
  BY <1>6, <1>7 DEF Draw

-----------------------------------------------------------------------------
(* Starts.                                                                 *)

LEMMA WantedFit == WantedKeys \subseteq AllNames /\ WantedKeys \cap Cells = {}
BY NamesFit DEF WantedKeys, AllNames

LEMMA StartGood ==
    ASSUME layout \in Layouts, cache \subseteq [key : Keys, prefix : Prefixes, design : Designs],
           CacheGood, WonCovered,
           mode = "noglobal", pc = "replay", todo = Cached("noglobal"), left = 0, ctr = 0,
           job = [t \in Threads |-> {}],
           speed = {}, pips = {}, known = {}, stored = {}, wanted = WantedKeys, rows = << >>
    PROVE  IInv
<1>1. TypeOK
  <2>1. todo \subseteq Keys
    BY DEF Cached
  <2>2. 0 \in 0..Tasks
    BY BoundsFit
  <2> QED
    BY <2>1, <2>2, WantedFit DEF TypeOK, Prefixes
<1>2. Stages
  BY DEF Stages
<1>3. WorkGood
  BY DEF WorkGood, Apart, Held
<1>4. Covered
  BY DEF Covered
<1>5. Taught
  <2> SUFFICES ASSUME NEW y \in cache PROVE ~Past(y)
    BY DEF Taught
  <2>1. y.prefix = "noglobal" => y.key \in todo
    BY DEF Cached
  <2> QED
    BY <2>1 DEF Past, Rank
<1>6. CellsGood
  BY WantedFit DEF CellsGood
<1>7. ColbufTrue
  BY DEF ColbufTrue
<1> QED
  BY <1>1, <1>2, <1>3, <1>4, <1>5, <1>6, <1>7 DEF IInv

LEMMA InitGood == Init => IInv
<1> SUFFICES ASSUME Init PROVE IInv
  OBVIOUS
<1>1. CacheGood /\ WonCovered /\ todo = Cached("noglobal")
  BY DEF Init, CacheGood, WonCovered, Nothing, Cached
<1> QED
  BY <1>1, StartGood DEF Init

LEMMA RestartGood ==
    ASSUME IInv, Restart
    PROVE  IInv'
<1>1. /\ layout' = layout /\ cache' = cache
      /\ won' = [speed |-> speed, pips |-> pips, stored |-> stored]
      /\ mode' = "noglobal" /\ pc' = "replay"
      /\ todo' = Cached("noglobal") /\ left' = 0 /\ ctr' = 0
      /\ job' = [t \in Threads |-> {}]
      /\ speed' = {} /\ pips' = {} /\ known' = {} /\ stored' = {}
      /\ wanted' = WantedKeys /\ rows' = << >>
  BY DEF Restart, disk
<1>2. Cached("noglobal")' = Cached("noglobal") /\ WantedKeys' = WantedKeys
  BY <1>1 DEF Cached, WantedKeys
<1>3. CacheGood'
  BY <1>1 DEF IInv, CacheGood
<1>4. WonCovered'
  <2>1. \A y : Old(y)' /\ ReadAs(y)' = ReadAs(y)
    BY <1>1 DEF Old, ReadAs
  <2>2. won'.speed = speed /\ won'.pips = pips /\ won'.stored = stored
    BY <1>1
  <2> QED
    BY <1>1, <2>1, <2>2 DEF IInv, Covered, WonCovered
<1>5. layout \in Layouts /\ cache \subseteq [key : Keys, prefix : Prefixes, design : Designs]
  BY DEF IInv, TypeOK
<1>6. TypeOK'
  <2>1. todo' \subseteq Keys
    BY <1>1, <1>5 DEF Cached
  <2>2. 0 \in 0..Tasks
    BY BoundsFit
  <2> QED
    BY <2>1, <2>2, <1>1, <1>5, WantedFit DEF TypeOK, Prefixes
<1>7. Stages'
  BY <1>1 DEF Stages
<1>8. WorkGood'
  BY <1>1, <1>2 DEF WorkGood, Apart, Held
<1>9. Covered'
  BY <1>1 DEF Covered
<1>10. Taught'
  <2> SUFFICES ASSUME NEW y \in cache PROVE ~Past(y)'
    BY <1>1 DEF Taught
  <2>1. y.prefix = "noglobal" => y.key \in todo'
    BY <1>1 DEF Cached
  <2> QED
    BY <2>1, <1>1 DEF Past, Rank
<1>11. CellsGood'
  BY <1>1, WantedFit DEF CellsGood
<1>12. ColbufTrue'
  BY <1>1 DEF ColbufTrue
<1> QED
  BY <1>3, <1>4, <1>6, <1>7, <1>8, <1>9, <1>10, <1>11, <1>12 DEF IInv

-----------------------------------------------------------------------------
LEMMA NextGood ==
    ASSUME IInv, [Next]_vars
    PROVE  IInv'
<1>1. ASSUME NEW t \in Threads,
             TakeCached(t) \/ Draw(t) \/ MergeSpeed(t) \/ Teach(t) \/ Replayed(t) \/ Drawn(t)
      PROVE  IInv'
  BY <1>1, TakeCachedGood, DrawGood, MergeSpeedGood, TeachGood, ReplayedGood, DrawnGood
<1>2. CASE EndReplay \/ Settle \/ TestEnough \/ EndDraw \/ LearnDrawn
  BY <1>2, EndReplayGood, SettleGood, TestEnoughGood, EndDrawGood, LearnDrawnGood
<1>3. CASE handle_colbufs \/ ProcessForced \/ TestComplete \/ Restart
  BY <1>3, handle_colbufsGood, ProcessForcedGood, TestCompleteGood, RestartGood
<1>4. CASE UNCHANGED vars
  <2>1. UNCHANGED <<layout, cache, mode, pc, todo, left, ctr, job, speed, pips, known, wanted,
                    stored, rows, won>>
    BY <1>4 DEF vars, disk, main, gains
  <2>2. \A y : /\ ReadAs(y)' = ReadAs(y) /\ TaughtPips(y)' = TaughtPips(y)
               /\ TaughtNames(y)' = TaughtNames(y)
               /\ Safe(y)' = Safe(y) /\ Old(y)' = Old(y) /\ Past(y)' = Past(y)
               /\ Held(y)' = Held(y)
    BY <2>1 DEF ReadAs, TaughtPips, TaughtNames, Safe, Old, Past, Held
  <2>3. TypeOK' /\ Stages' /\ CacheGood' /\ CellsGood' /\ ColbufTrue'
    BY <2>1 DEF IInv, TypeOK, Stages, CacheGood, CellsGood, ColbufTrue
  <2>4. WorkGood'
    BY <2>1, <2>2 DEF IInv, WorkGood, JobGood, Apart, Idle, Cached
  <2>5. Covered' /\ WonCovered' /\ Taught'
    BY <2>1, <2>2 DEF IInv, Covered, WonCovered, Taught
  <2> QED
    BY <2>3, <2>4, <2>5 DEF IInv
<1> QED
  BY <1>1, <1>2, <1>3, <1>4 DEF Next

LEMMA Invariant == Spec => []IInv
<1>1. IInv /\ [Next]_vars => IInv'
  BY NextGood
<1> QED
  BY InitGood, <1>1, PTL DEF Spec

\* Runs, jobs and what the collectors hold are of the right kinds, at any number of
\* threads (HarvestContext).
THEOREM TypeCorrect == Spec => []TypeOK
<1>1. IInv => TypeOK
  BY DEF IInv
<1> QED
  BY <1>1, Invariant, PTL

\* Once every cached run is replayed, the program is back where it ended, whatever it
\* deleted and wherever it was ended (add_sample, remove_cache_key).
THEOREM RestartRegains == Spec => []Regains
<1>1. IInv => Regains
  <2> SUFFICES ASSUME IInv, mode = "full", pc = "test"
               PROVE  /\ won.speed \subseteq speed
                      /\ won.pips \subseteq pips
                      /\ \A z \in won.stored :
                            \/ \E y \in stored : y.key = z.key
                            \/ z.waits \subseteq known \cup Forced
    BY DEF Regains
  <2>1. Idle
    BY DEF IInv, WorkGood
  <2>2. \A y \in cache : Past(y)
    <3> SUFFICES ASSUME NEW y \in cache PROVE Past(y)
      OBVIOUS
    <3>1. y.prefix \in {"noglobal", "nocolbuf", "full"}
      BY DEF IInv, TypeOK, Prefixes
    <3>2. todo = {} /\ ~Held(y.key)
      BY <2>1, IdleFrees DEF IInv, WorkGood
    <3> QED
      BY <3>1, <3>2 DEF Past, Rank
  <2>3. \A y \in cache : y.design.speed \subseteq speed /\ TaughtPips(y.design) /\ TaughtNames(y)
    BY <2>2 DEF IInv, Taught
  <2>4. won.speed \subseteq speed
    BY <2>3 DEF IInv, WonCovered
  <2>5. won.pips \subseteq pips
    BY <2>3 DEF IInv, WonCovered, TaughtPips
  <2>6. ASSUME NEW z \in won.stored
        PROVE  (\E y \in stored : y.key = z.key) \/ z.waits \subseteq known \cup Forced
    <3>1. PICK y \in cache : ~y.design.small /\ y.key = z.key /\ z.waits \subseteq ReadAs(y)
      BY DEF IInv, WonCovered
    <3>2. TaughtNames(y)
      BY <2>3
    <3> QED
      BY <3>1, <3>2 DEF TaughtNames
  <2> QED
    BY <2>4, <2>5, <2>6
<1> QED
  BY <1>1, Invariant, PTL

\* From any part of the column buffers, only the device's layout is ever concluded, and
\* no assertion of the scan fails (compute_rows_colbuf).
THEOREM LayoutFound == Spec => []ColbufTrue
<1>1. IInv => ColbufTrue
  BY DEF IInv
<1> QED
  BY <1>1, Invariant, PTL

\* What waited for the buffers is settled when they are known (handle_colbufs).
THEOREM NothingOrphaned == Spec => []NoOrphans
<1>1. IInv => NoOrphans
  BY DEF IInv, CellsGood, NoOrphans
<1> QED
  BY <1>1, Invariant, PTL
=============================================================================
