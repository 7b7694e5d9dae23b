----------------------------- MODULE WireTreeProofs ----------------------------
(***************************************************************************)
(* Proofs that the two walks over a grid agree: following wires to their   *)
(* roots and collecting the tree of a root, and with them the switches     *)
(* found forward and backward, for any size of die, any database and any   *)
(* expansion that respects the assumptions of WireTree.                    *)
(***************************************************************************)
EXTENDS WireTree, TLAPS, FiniteSetTheorems, SequenceTheorems, WellFoundedInduction

-----------------------------------------------------------------------------
(* Minimal counterexamples stand for induction over numbers: finite sets of *)
(* numbers are well founded.                                               *)

\* A set of numbers that is not empty has a least member.
LEMMA LeastNat ==
    ASSUME NEW T \in SUBSET Nat, T # {}
    PROVE  \E n \in T : \A m \in T : n <= m
<1> DEFINE U == {1..n : n \in T}
<1>1. U \subseteq FiniteSubsetsOf(Nat) /\ U # {}
  <2>1. ASSUME NEW n \in T PROVE 1..n \in FiniteSubsetsOf(Nat)
    <3>1. n \in Int /\ 1 \in Int /\ 1..n \subseteq Nat
      OBVIOUS
    <3>2. IsFiniteSet(1..n)
      BY <3>1, FS_Interval
    <3> QED
      BY <3>1, <3>2 DEF FiniteSubsetsOf
  <2> QED
    BY <2>1 DEF FiniteSubsetsOf
<1>2. PICK x \in U : \A y \in U : <<y, x>> \notin StrictSubsetOrdering(Nat)
  <2> HIDE DEF U
  <2> QED
    BY <1>1, FS_StrictSubsetOrderingWellFounded, WFMin
<1>3. PICK n \in T : x = 1..n
  BY <1>2
<1>4. ASSUME NEW m \in T, m < n PROVE FALSE
  <2>1. 1..m \subseteq 1..n /\ 1..m # 1..n
    <3>1. n \in 1..n /\ n \notin 1..m
      BY <1>4
    <3> QED
      BY <1>4, <3>1
  <2>2. <<1..m, x>> \in StrictSubsetOrdering(Nat)
    BY <2>1, <1>3 DEF StrictSubsetOrdering
  <2> QED
    BY <2>2, <1>2
<1> QED
  BY <1>4

\* What N steps of a loop make of v when step k leads from V[k - 1] to V[k].
Iterates(f, N, V, G, v) ==
    /\ f = [k \in 0..N |-> IF k = 0 THEN v ELSE G[k][f[k - 1]]]
    /\ \A k \in 0..N : f[k] \in V[k]

\* A loop of N steps whose step k leads from V[k - 1] to V[k] has an outcome after each.
LEMMA Iterate ==
    ASSUME NEW N \in Nat, NEW V, NEW G, NEW v, v \in V[0],
           \A k \in 1..N : G[k] \in [V[k - 1] -> V[k]]
    PROVE  \E f : Iterates(f, N, V, G, v)
<1> DEFINE Upto(n) == \E f : /\ f = [k \in 0..n |-> IF k = 0 THEN v ELSE G[k][f[k - 1]]]
                             /\ \A k \in 0..n : f[k] \in V[k]
           T == {n \in 0..N : ~ Upto(n)}
<1>1. T = {}
  <2>1. SUFFICES ASSUME T # {} PROVE FALSE
    OBVIOUS
  <2>2. T \in SUBSET Nat
    OBVIOUS
  <2>3. PICK n \in T : \A k \in T : n <= k
    <3> HIDE DEF T
    <3> QED
      BY <2>1, <2>2, LeastNat
  <2>4. CASE n = 0
    <3> DEFINE g == [k \in 0..0 |-> v]
    <3>1. g = [k \in 0..0 |-> IF k = 0 THEN v ELSE G[k][g[k - 1]]]
      OBVIOUS
    <3>2. \A k \in 0..0 : g[k] \in V[k]
      OBVIOUS
    <3> QED
      BY <3>1, <3>2, <2>4
  <2>5. CASE n # 0
    <3>1. n - 1 \in 0..N /\ n \in 1..N /\ Upto(n - 1)
      BY <2>5, <2>3
    <3>2. PICK g : /\ g = [k \in 0..(n - 1) |-> IF k = 0 THEN v ELSE G[k][g[k - 1]]]
                   /\ \A k \in 0..(n - 1) : g[k] \in V[k]
      BY <3>1
    <3> DEFINE h == [k \in 0..n |-> IF k = n THEN G[n][g[n - 1]] ELSE g[k]]
    <3>3. \A k \in 0..(n - 1) : h[k] = g[k]
      BY <3>1
    <3>4. h[n] = G[n][g[n - 1]]
      BY <3>1
    <3>5. DOMAIN h = 0..n /\ h = [k \in 0..n |-> h[k]]
      OBVIOUS
    <3>6. \A k \in 0..n : h[k] = IF k = 0 THEN v ELSE G[k][h[k - 1]]
      <4> SUFFICES ASSUME NEW k \in 0..n PROVE h[k] = IF k = 0 THEN v ELSE G[k][h[k - 1]]
        OBVIOUS
      <4> HIDE DEF h
      <4>1. CASE k = n
        BY <4>1, <3>3, <3>4, <3>1
      <4>2. CASE k # n
        <5>1. k \in 0..(n - 1)
          BY <4>2, <3>1
        <5>2. g[k] = IF k = 0 THEN v ELSE G[k][g[k - 1]]
          BY <5>1, <3>2
        <5>3. k # 0 => h[k - 1] = g[k - 1]
          BY <5>1, <3>3
        <5> QED
          BY <5>1, <5>2, <5>3, <3>3
      <4> QED
        BY <4>1, <4>2
    <3>7. \A k \in 0..n : h[k] \in V[k]
      <4> HIDE DEF h
      <4>1. h[n] \in V[n]
        <5>1. g[n - 1] \in V[n - 1] /\ G[n] \in [V[n - 1] -> V[n]]
          BY <3>1, <3>2
        <5> QED
          BY <5>1, <3>4
      <4> QED
        BY <4>1, <3>1, <3>2, <3>3
    <3>8. Upto(n)
      <4> HIDE DEF h
      <4>1. h = [k \in 0..n |-> IF k = 0 THEN v ELSE G[k][h[k - 1]]]
        BY <3>5, <3>6
      <4> QED
        BY <4>1, <3>7
    <3> QED
      BY <3>8
  <2> QED
    BY <2>4, <2>5
<1> QED
  BY <1>1 DEF Iterates

\* A loop written with any step that is G's on V keeps to V too.
LEMMA Iterated ==
    ASSUME NEW N \in Nat, NEW V, NEW G, NEW h, h[0] \in V[0],
           \A k \in 1..N : G[k] \in [V[k - 1] -> V[k]],
           \A k \in 1..N : h[k - 1] \in V[k - 1] => h[k] = G[k][h[k - 1]]
    PROVE  \A k \in 0..N : h[k] \in V[k]
<1> DEFINE T == {n \in 0..N : h[n] \notin V[n]}
<1>1. SUFFICES ASSUME T # {} PROVE FALSE
  OBVIOUS
<1>2. T \in SUBSET Nat
  OBVIOUS
<1>3. PICK n \in T : \A k \in T : n <= k
  <2> HIDE DEF T
  <2> QED
    BY <1>1, <1>2, LeastNat
<1>4. n # 0 /\ n \in 1..N /\ n - 1 \in 0..N /\ h[n - 1] \in V[n - 1]
  BY <1>3
<1>5. h[n] = G[n][h[n - 1]] /\ G[n] \in [V[n - 1] -> V[n]]
  BY <1>4
<1>6. h[n] \in V[n]
  BY <1>4, <1>5
<1> QED
  BY <1>3, <1>6
-----------------------------------------------------------------------------
(* Connectors.                                                             *)

Slots == {ConnClasses[n].slot : n \in DOMAIN ConnClasses}
Connectors == [class : DOMAIN ConnClasses, target : Cells \cup {NoCell}]
ConnMaps == UNION {[S -> Connectors] : S \in SUBSET Slots}

\* What is in slot s of cell c is of that slot, leads nearer to the roots, and
\* is met by a connector from its target.
Fits(cs, c, s) ==
    LET conn == cs[c][s] IN
    /\ ConnClasses[conn.class].slot = s
    /\ Ends(conn.class, c, conn.target)
    /\ conn.target # NoCell =>
          /\ Opposite[s] \in DOMAIN cs[conn.target]
          /\ cs[conn.target][Opposite[s]].target = c
          /\ Opposite[Opposite[s]] = s

Grids == {cs \in [Cells -> ConnMaps] : \A c \in Cells : \A s \in DOMAIN cs[c] : Fits(cs, c, s)}

\* Neither value that stands for "none" is a cell or a wire.
LEMMA CellFacts == NoCell \notin Cells /\ NoWire \notin WireCoords
  BY DEF Cells, NoCell, NoWire, WireCoords

\* Putting a connector in changes one slot of one cell.
LEMMA PutIs ==
    ASSUME NEW cs \in [Cells -> ConnMaps], NEW cell \in Cells, NEW class \in DOMAIN ConnClasses,
           NEW target \in Cells \cup {NoCell}
    PROVE  LET new == Put(cs, cell, class, target)
               slot == ConnClasses[class].slot
           IN /\ new \in [Cells -> ConnMaps]
              /\ \A c \in Cells \ {cell} : new[c] = cs[c]
              /\ DOMAIN new[cell] = DOMAIN cs[cell] \cup {slot}
              /\ new[cell][slot] = [class |-> class, target |-> target]
              /\ \A s \in DOMAIN cs[cell] \ {slot} : new[cell][s] = cs[cell][s]
<1> DEFINE slot == ConnClasses[class].slot
           put == [s \in DOMAIN cs[cell] \cup {slot} |->
                     IF s = slot THEN [class |-> class, target |-> target] ELSE cs[cell][s]]
<1>1. Put(cs, cell, class, target) = [cs EXCEPT ![cell] = put]
  BY DEF Put
<1>2. put \in ConnMaps
  <2>1. PICK S \in SUBSET Slots : cs[cell] \in [S -> Connectors]
    BY DEF ConnMaps
  <2>2. slot \in Slots /\ [class |-> class, target |-> target] \in Connectors
    BY DEF Slots, Connectors
  <2>3. put \in [S \cup {slot} -> Connectors]
    BY <2>1, <2>2
  <2>4. S \cup {slot} \in SUBSET Slots
    BY <2>1, <2>2
  <2> HIDE DEF put, slot
  <2> QED
    BY <2>3, <2>4 DEF ConnMaps
<1>3. DOMAIN put = DOMAIN cs[cell] \cup {slot} /\ put[slot] = [class |-> class, target |-> target]
      /\ \A s \in DOMAIN cs[cell] \ {slot} : put[s] = cs[cell][s]
  OBVIOUS
<1> HIDE DEF put
<1>4. [cs EXCEPT ![cell] = put] \in [Cells -> ConnMaps] /\ [cs EXCEPT ![cell] = put][cell] = put
      /\ \A c \in Cells \ {cell} : [cs EXCEPT ![cell] = put][c] = cs[c]
  BY <1>2
<1> QED
  BY <1>1, <1>3, <1>4

\* A free slot may be ended ...
LEMMA PutTerm ==
    ASSUME NEW cs \in Grids, NEW cell \in Cells, NEW class \in DOMAIN ConnClasses,
           ConnClasses[class].slot \notin DOMAIN cs[cell], Ends(class, cell, NoCell)
    PROVE  Put(cs, cell, class, NoCell) \in Grids
<1> DEFINE new == Put(cs, cell, class, NoCell)
           slot == ConnClasses[class].slot
<1>1. cs \in [Cells -> ConnMaps] /\ \A c \in Cells : \A s \in DOMAIN cs[c] : Fits(cs, c, s)
  BY DEF Grids
<1>2. /\ new \in [Cells -> ConnMaps]
      /\ \A c \in Cells \ {cell} : new[c] = cs[c]
      /\ DOMAIN new[cell] = DOMAIN cs[cell] \cup {slot}
      /\ new[cell][slot] = [class |-> class, target |-> NoCell]
      /\ \A s \in DOMAIN cs[cell] \ {slot} : new[cell][s] = cs[cell][s]
  BY <1>1, PutIs
<1> HIDE DEF new
<1>3. ASSUME NEW c \in Cells, NEW s \in DOMAIN cs[c]
      PROVE  s \in DOMAIN new[c] /\ new[c][s] = cs[c][s]
  <2>1. CASE c = cell
    BY <1>2, <2>1
  <2>2. CASE c # cell
    BY <1>2, <2>2
  <2> QED
    BY <2>1, <2>2
<1>4. ASSUME NEW c \in Cells, NEW s \in DOMAIN new[c] PROVE Fits(new, c, s)
  <2>1. CASE c = cell /\ s = slot
    BY <1>2, <2>1 DEF Fits
  <2>2. CASE ~(c = cell /\ s = slot)
    <3>1. s \in DOMAIN cs[c] /\ new[c][s] = cs[c][s]
      <4>1. CASE c = cell
        BY <1>2, <2>2, <4>1
      <4>2. CASE c # cell
        BY <1>2, <4>2
      <4> QED
        BY <4>1, <4>2
    <3>2. Fits(cs, c, s)
      BY <1>1, <3>1
    <3>3. cs[c][s].target # NoCell => cs[c][s].target \in Cells
      <4>1. PICK S \in SUBSET Slots : cs[c] \in [S -> Connectors]
        BY <1>1 DEF ConnMaps
      <4> QED
        BY <4>1, <3>1 DEF Connectors
    <3> QED
      BY <3>1, <3>2, <3>3, <1>3 DEF Fits
  <2> QED
    BY <2>1, <2>2
<1> QED
  BY <1>2, <1>4 DEF Grids, new

\* ... and two cells joined where both slots are free.
LEMMA JoinedFits ==
    ASSUME NEW cs \in Grids, NEW a \in Cells, NEW b \in Cells, a # b, NEW fwd, NEW bwd,
           Opposed(fwd, bwd), Ends(fwd, a, b), Ends(bwd, b, a),
           ConnClasses[fwd].slot \notin DOMAIN cs[a], ConnClasses[bwd].slot \notin DOMAIN cs[b]
    PROVE  /\ Joined(cs, a, b, fwd, bwd) \in Grids
           /\ \A c \in Cells \ {a, b} : Joined(cs, a, b, fwd, bwd)[c] = cs[c]
           /\ DOMAIN Joined(cs, a, b, fwd, bwd)[b] = DOMAIN cs[b] \cup {ConnClasses[bwd].slot}
<1> DEFINE mid == Put(cs, a, fwd, b)
           new == Put(mid, b, bwd, a)
           sf == ConnClasses[fwd].slot
           sb == ConnClasses[bwd].slot
<1>1. cs \in [Cells -> ConnMaps] /\ \A c \in Cells : \A s \in DOMAIN cs[c] : Fits(cs, c, s)
  BY DEF Grids
<1>2. fwd \in DOMAIN ConnClasses /\ bwd \in DOMAIN ConnClasses /\ sb = Opposite[sf] /\ sf = Opposite[sb]
  BY DEF Opposed
<1>3. /\ mid \in [Cells -> ConnMaps]
      /\ \A c \in Cells \ {a} : mid[c] = cs[c]
      /\ DOMAIN mid[a] = DOMAIN cs[a] \cup {sf}
      /\ mid[a][sf] = [class |-> fwd, target |-> b]
      /\ \A s \in DOMAIN cs[a] \ {sf} : mid[a][s] = cs[a][s]
  <2>1. b \in Cells \cup {NoCell} /\ fwd \in DOMAIN ConnClasses
    BY <1>2
  <2> QED
    BY <1>1, <2>1, PutIs
<1> HIDE DEF mid
<1>4. /\ new \in [Cells -> ConnMaps]
      /\ \A c \in Cells \ {b} : new[c] = mid[c]
      /\ DOMAIN new[b] = DOMAIN mid[b] \cup {sb}
      /\ new[b][sb] = [class |-> bwd, target |-> a]
      /\ \A s \in DOMAIN mid[b] \ {sb} : new[b][s] = mid[b][s]
  BY <1>2, <1>3, PutIs
<1> HIDE DEF new
<1>5. /\ new[a] = mid[a]
      /\ DOMAIN new[b] = DOMAIN cs[b] \cup {sb}
      /\ \A s \in DOMAIN cs[b] \ {sb} : new[b][s] = cs[b][s]
      /\ \A c \in Cells \ {a, b} : new[c] = cs[c]
  BY <1>3, <1>4
<1>6. ASSUME NEW c \in Cells, NEW s \in DOMAIN cs[c]
      PROVE  s \in DOMAIN new[c] /\ new[c][s] = cs[c][s]
  <2>1. CASE c = a
    BY <1>3, <1>5, <2>1
  <2>2. CASE c = b
    BY <1>5, <2>2
  <2>3. CASE c # a /\ c # b
    BY <1>5, <2>3
  <2> QED
    BY <2>1, <2>2, <2>3
<1>7. ASSUME NEW c \in Cells, NEW s \in DOMAIN new[c] PROVE Fits(new, c, s)
  <2>1. CASE c = a /\ s = sf
    <3>1. new[c][s] = [class |-> fwd, target |-> b]
      BY <1>3, <1>5, <2>1
    <3>2. sb \in DOMAIN new[b] /\ new[b][sb].target = a
      BY <1>4
    <3> HIDE DEF sf, sb
    <3>3. ConnClasses[fwd].slot = sf
      BY DEF sf
    <3> QED
      BY <3>1, <3>2, <3>3, <2>1, <1>2 DEF Fits
  <2>2. CASE c = b /\ s = sb
    <3>1. sf \in DOMAIN new[a] /\ new[a][sf].target = b
      BY <1>3, <1>5
    <3>2. new[c][s] = [class |-> bwd, target |-> a]
      BY <1>4, <2>2
    <3> HIDE DEF sf, sb
    <3>3. ConnClasses[bwd].slot = sb
      BY DEF sb
    <3> QED
      BY <3>1, <3>2, <3>3, <2>2, <1>2 DEF Fits
  <2>3. CASE ~(c = a /\ s = sf) /\ ~(c = b /\ s = sb)
    <3>1. s \in DOMAIN cs[c] /\ new[c][s] = cs[c][s]
      <4>1. CASE c = a
        BY <1>3, <1>5, <2>3, <4>1
      <4>2. CASE c = b
        BY <1>5, <2>3, <4>2
      <4>3. CASE c # a /\ c # b
        BY <1>5, <4>3
      <4> QED
        BY <4>1, <4>2, <4>3
    <3>2. Fits(cs, c, s)
      BY <1>1, <3>1
    <3>3. cs[c][s].target # NoCell => cs[c][s].target \in Cells
      <4>1. PICK S \in SUBSET Slots : cs[c] \in [S -> Connectors]
        BY <1>1 DEF ConnMaps
      <4> QED
        BY <4>1, <3>1 DEF Connectors
    <3> QED
      BY <3>1, <3>2, <3>3, <1>6 DEF Fits
  <2> QED
    BY <2>1, <2>2, <2>3
<1>8. new = Joined(cs, a, b, fwd, bwd)
  BY DEF new, mid, Joined
<1> QED
  BY <1>4, <1>5, <1>7, <1>8 DEF Grids
-----------------------------------------------------------------------------
(* The main passes.                                                        *)

LineFits(line, low, high) ==
    /\ line \in Seq(Cells)
    /\ ConnClasses[MainPass[low]].slot = low /\ ConnClasses[MainPass[high]].slot = high /\ low # high
    /\ Opposed(MainPass[high], MainPass[low])
    /\ \A i, j \in 1..Len(line) : i < j =>
          /\ line[i] # line[j]
          /\ Ends(MainPass[high], line[i], line[j]) /\ Ends(MainPass[low], line[j], line[i])

\* The cell the next may be joined to has its slot free.
Passing(line, high, k) ==
    {at \in [conns : Grids, prev : Cells \cup {NoCell}] :
        at.prev = NoCell \/ \E j \in 1..k : at.prev = line[j] /\ high \notin DOMAIN at.conns[at.prev]}

\* One cell of a main pass keeps the connectors in pairs.
LEMMA PassedFits ==
    ASSUME NEW line, NEW low, NEW high, LineFits(line, low, high), NEW k \in 1..Len(line),
           NEW at \in Passing(line, high, k - 1)
    PROVE  Passed(at, line[k], low, high) \in Passing(line, high, k)
<1> DEFINE cell == line[k]
           joined == Joined(at.conns, at.prev, cell, MainPass[high], MainPass[low])
           mid == IF at.prev = NoCell \/ low \in DOMAIN at.conns[cell] THEN at.conns ELSE joined
<1>1. /\ Len(line) \in Nat /\ k \in Nat /\ \A i \in 1..Len(line) : line[i] \in Cells
      /\ ConnClasses[MainPass[low]].slot = low /\ ConnClasses[MainPass[high]].slot = high /\ low # high
      /\ Opposed(MainPass[high], MainPass[low])
  BY DEF LineFits
<1>2. /\ at \in [conns : Grids, prev : Cells \cup {NoCell}]
      /\ at.prev = NoCell \/ \E j \in 1..(k - 1) : at.prev = line[j] /\ high \notin DOMAIN at.conns[at.prev]
  BY DEF Passing
<1>3. CASE \A t \in tiles : t.anchor # cell
  <2>1. Passed(at, cell, low, high) = at
    BY <1>3 DEF Passed
  <2>2. \A j \in 1..(k - 1) : j \in 1..k
    BY <1>1
  <2> QED
    BY <1>2, <2>1, <2>2 DEF Passing
<1>4. CASE \E t \in tiles : t.anchor = cell
  <2>1. Passed(at, cell, low, high) =
          [conns |-> mid, prev |-> IF high \in DOMAIN at.conns[cell] THEN NoCell ELSE cell]
    BY <1>4 DEF Passed
  <2>2. /\ mid \in Grids
        /\ DOMAIN mid[cell] \subseteq DOMAIN at.conns[cell] \cup {low}
    <3>1. CASE at.prev = NoCell \/ low \in DOMAIN at.conns[cell]
      BY <1>2, <3>1
    <3>2. CASE at.prev # NoCell /\ low \notin DOMAIN at.conns[cell]
      <4>1. PICK j \in 1..(k - 1) : at.prev = line[j] /\ high \notin DOMAIN at.conns[at.prev]
        BY <1>2, <3>2
      <4>2. j \in 1..Len(line) /\ j < k
        BY <4>1, <1>1
      <4>3. at.prev # cell /\ Ends(MainPass[high], at.prev, cell) /\ Ends(MainPass[low], cell, at.prev)
        BY <4>1, <4>2 DEF LineFits
      <4>4. at.prev \in Cells /\ cell \in Cells /\ at.conns \in Grids
        BY <1>1, <1>2, <4>1, <4>2
      <4>5. joined \in Grids /\ DOMAIN joined[cell] = DOMAIN at.conns[cell] \cup {low}
        BY <4>1, <4>3, <4>4, <3>2, <1>1, JoinedFits
      <4> QED
        BY <4>5, <3>2
    <3> QED
      BY <3>1, <3>2
  <2> HIDE DEF mid
  <2>3. high \notin DOMAIN at.conns[cell] => high \notin DOMAIN mid[cell]
    BY <2>2, <1>1
  <2>4. cell \in Cells /\ k \in 1..k
    BY <1>1
  <2> QED
    BY <2>1, <2>2, <2>3, <2>4 DEF Passing
<1> QED
  BY <1>3, <1>4

\* A main pass along a row or a column keeps them so.
LEMMA PassLineFits ==
    ASSUME NEW line, NEW low, NEW high, LineFits(line, low, high), NEW cs \in Grids
    PROVE  PassLine(cs, line, low, high) \in Grids
<1> DEFINE n == Len(line)
           V == [k \in 0..n |-> Passing(line, high, k)]
           G == [k \in 1..n |-> [at \in V[k - 1] |-> Passed(at, line[k], low, high)]]
           start == [conns |-> cs, prev |-> NoCell]
           pass[k \in 0..Len(line)] ==
               IF k = 0 THEN [conns |-> cs, prev |-> NoCell] ELSE Passed(pass[k - 1], line[k], low, high)
<1>1. n \in Nat
  BY DEF LineFits
<1>2. start \in V[0]
  BY <1>1 DEF Passing
<1>3. \A k \in 1..n : V[k - 1] = Passing(line, high, k - 1) /\ V[k] = Passing(line, high, k)
  BY <1>1
<1>4. \A k \in 1..n : G[k] \in [V[k - 1] -> V[k]]
  <2> SUFFICES ASSUME NEW k \in 1..n PROVE G[k] \in [V[k - 1] -> V[k]]
    OBVIOUS
  <2>1. \A at \in V[k - 1] : Passed(at, line[k], low, high) \in V[k]
    BY <1>3, PassedFits
  <2>2. G[k] = [at \in V[k - 1] |-> Passed(at, line[k], low, high)]
    OBVIOUS
  <2> HIDE DEF V, G
  <2> QED
    BY <2>1, <2>2
<1>5. \A k \in 1..n : \A at \in V[k - 1] : G[k][at] = Passed(at, line[k], low, high)
  BY <1>1
<1> HIDE DEF V, G
<1>6. \E f : f = [k \in 0..n |-> IF k = 0 THEN start ELSE Passed(f[k - 1], line[k], low, high)]
  <2>1. PICK f : Iterates(f, n, V, G, start)
    <3> HIDE DEF n, start
    <3> QED
      BY <1>1, <1>2, <1>4, Iterate
  <2>2. \A k \in 0..n : k # 0 => k \in 1..n /\ k - 1 \in 0..n
    BY <1>1
  <2>3. \A k \in 0..n : k # 0 => G[k][f[k - 1]] = Passed(f[k - 1], line[k], low, high)
    BY <2>1, <2>2, <1>5 DEF Iterates
  <2>4. f = [k \in 0..n |-> IF k = 0 THEN start ELSE Passed(f[k - 1], line[k], low, high)]
    BY <2>1, <2>3 DEF Iterates
  <2> QED
    BY <2>4
<1>7. pass = [k \in 0..n |-> IF k = 0 THEN start ELSE Passed(pass[k - 1], line[k], low, high)]
  BY <1>6
<1>8. PassLine(cs, line, low, high) = pass[n].conns
  BY DEF PassLine
<1> HIDE DEF pass
<1>9. \A k \in 0..n : pass[k] \in V[k]
  <2>1. pass[0] \in V[0]
    BY <1>2, <1>7, <1>1
  <2>2. \A k \in 1..n : pass[k] = Passed(pass[k - 1], line[k], low, high)
    BY <1>7, <1>1
  <2>3. \A k \in 1..n : pass[k - 1] \in V[k - 1] => pass[k] = G[k][pass[k - 1]]
    BY <2>2, <1>5
  <2> HIDE DEF n
  <2> QED
    BY <2>1, <2>3, <1>1, <1>4, Iterated
<1>10. pass[n] \in Passing(line, high, n)
  BY <1>9, <1>1 DEF V
<1> QED
  BY <1>8, <1>10 DEF Passing

\* Each cell of a row has the next one to its east.
LEMMA RowsFit == \A r \in 1..Rows : LineFits(RowLine(r), "W", "E")
<1> SUFFICES ASSUME NEW r \in 1..Rows PROVE LineFits(RowLine(r), "W", "E")
  OBVIOUS
<1>1. Cols \in Nat /\ Rows \in Nat
  BY SizesAssumption
<1>2. \A c \in 1..Cols : RowLine(r)[c] = <<c, r>> /\ <<c, r>> \in Cells
  BY DEF RowLine, Cells
<1>3. RowLine(r) \in Seq(Cells) /\ Len(RowLine(r)) = Cols
  BY <1>1, <1>2 DEF RowLine
<1>4. ASSUME NEW i \in 1..Cols, NEW j \in 1..Cols, i < j
      PROVE  /\ <<i, r>> # <<j, r>>
             /\ Ends(MainPass["E"], <<i, r>>, <<j, r>>) /\ Ends(MainPass["W"], <<j, r>>, <<i, r>>)
  <2>1. <<i, r>>[1] < <<j, r>>[1] /\ <<i, r>>[2] = <<j, r>>[2]
    BY <1>4
  <2> QED
    BY <2>1, <1>2, <1>4, DepthAssumption
<1>5. \A i, j \in 1..Len(RowLine(r)) : i < j =>
          /\ RowLine(r)[i] # RowLine(r)[j]
          /\ Ends(MainPass["E"], RowLine(r)[i], RowLine(r)[j]) /\ Ends(MainPass["W"], RowLine(r)[j], RowLine(r)[i])
  BY <1>2, <1>3, <1>4
<1>6. /\ ConnClasses[MainPass["W"]].slot = "W" /\ ConnClasses[MainPass["E"]].slot = "E"
      /\ Opposed(MainPass["E"], MainPass["W"])
  BY OppositeAssumption
<1> QED
  BY <1>3, <1>5, <1>6 DEF LineFits

\* Each cell of a column has the next one to its north.
LEMMA ColumnsFit == \A c \in 1..Cols : LineFits(ColumnLine(c), "S", "N")
<1> SUFFICES ASSUME NEW c \in 1..Cols PROVE LineFits(ColumnLine(c), "S", "N")
  OBVIOUS
<1>1. Cols \in Nat /\ Rows \in Nat
  BY SizesAssumption
<1>2. \A r \in 1..Rows : ColumnLine(c)[r] = <<c, r>> /\ <<c, r>> \in Cells
  BY DEF ColumnLine, Cells
<1>3. ColumnLine(c) \in Seq(Cells) /\ Len(ColumnLine(c)) = Rows
  BY <1>1, <1>2 DEF ColumnLine
<1>4. ASSUME NEW i \in 1..Rows, NEW j \in 1..Rows, i < j
      PROVE  /\ <<c, i>> # <<c, j>>
             /\ Ends(MainPass["N"], <<c, i>>, <<c, j>>) /\ Ends(MainPass["S"], <<c, j>>, <<c, i>>)
  <2>1. <<c, i>>[1] = <<c, j>>[1] /\ <<c, i>>[2] < <<c, j>>[2]
    BY <1>4
  <2> QED
    BY <2>1, <1>2, <1>4, DepthAssumption
<1>5. \A i, j \in 1..Len(ColumnLine(c)) : i < j =>
          /\ ColumnLine(c)[i] # ColumnLine(c)[j]
          /\ Ends(MainPass["N"], ColumnLine(c)[i], ColumnLine(c)[j]) /\ Ends(MainPass["S"], ColumnLine(c)[j], ColumnLine(c)[i])
  BY <1>2, <1>3, <1>4
<1>6. /\ ConnClasses[MainPass["S"]].slot = "S" /\ ConnClasses[MainPass["N"]].slot = "N"
      /\ Opposed(MainPass["N"], MainPass["S"])
  BY OppositeAssumption
<1> QED
  BY <1>3, <1>5, <1>6 DEF LineFits

\* The pass over all rows keeps the connectors in pairs ...
LEMMA AcrossFits ==
    ASSUME NEW cs \in Grids
    PROVE  Across(cs) \in Grids
<1> DEFINE V == [r \in 0..Rows |-> Grids]
           G == [r \in 1..Rows |-> [g \in Grids |-> PassLine(g, RowLine(r), "W", "E")]]
           rows[r \in 0..Rows] == IF r = 0 THEN cs ELSE PassLine(rows[r - 1], RowLine(r), "W", "E")
<1>1. Rows \in Nat /\ \A r \in 0..Rows : V[r] = Grids
  BY SizesAssumption
<1>2. \A r \in 1..Rows : \A g \in Grids : PassLine(g, RowLine(r), "W", "E") \in Grids
  BY RowsFit, PassLineFits
<1>3. \A r \in 1..Rows : V[r - 1] = Grids /\ V[r] = Grids /\ G[r] \in [V[r - 1] -> V[r]]
  BY <1>1, <1>2
<1>4. \A r \in 1..Rows : \A g \in Grids : G[r][g] = PassLine(g, RowLine(r), "W", "E")
  OBVIOUS
<1> HIDE DEF V, G
<1>5. PICK f : Iterates(f, Rows, V, G, cs)
  <2>1. cs \in V[0]
    BY <1>1
  <2>2. \A k \in 1..Rows : G[k] \in [V[k - 1] -> V[k]]
    BY <1>3
  <2> QED
    BY <2>1, <2>2, <1>1, Iterate
<1>6. f = [r \in 0..Rows |-> IF r = 0 THEN cs ELSE PassLine(f[r - 1], RowLine(r), "W", "E")]
  <2>1. \A r \in 0..Rows : r # 0 => r \in 1..Rows /\ r - 1 \in 0..Rows
    BY <1>1
  <2>2. \A r \in 0..Rows : r # 0 => G[r][f[r - 1]] = PassLine(f[r - 1], RowLine(r), "W", "E")
    BY <2>1, <1>1, <1>4, <1>5 DEF Iterates
  <2> QED
    BY <2>2, <1>5 DEF Iterates
<1>7. rows = [r \in 0..Rows |-> IF r = 0 THEN cs ELSE PassLine(rows[r - 1], RowLine(r), "W", "E")]
  BY <1>6
<1>8. Across(cs) = rows[Rows]
  BY DEF Across
<1> HIDE DEF rows
<1>9. \A r \in 0..Rows : rows[r] \in V[r]
  <2>1. rows[0] \in V[0]
    BY <1>1, <1>7
  <2>2. \A r \in 1..Rows : rows[r] = PassLine(rows[r - 1], RowLine(r), "W", "E")
    BY <1>7, <1>1
  <2>3. \A r \in 1..Rows : rows[r - 1] \in V[r - 1] => rows[r] = G[r][rows[r - 1]]
    BY <2>2, <1>3, <1>4
  <2>4. \A k \in 1..Rows : G[k] \in [V[k - 1] -> V[k]]
    BY <1>3
  <2>5. Rows \in Nat
    BY <1>1
  <2> QED
    BY <2>1, <2>3, <2>4, <2>5, Iterated
<1> QED
  BY <1>1, <1>8, <1>9

\* ... and so does that over all columns.
LEMMA UpAndDownFits ==
    ASSUME NEW cs \in Grids
    PROVE  UpAndDown(cs) \in Grids
<1> DEFINE V == [c \in 0..Cols |-> Grids]
           G == [c \in 1..Cols |-> [g \in Grids |-> PassLine(g, ColumnLine(c), "S", "N")]]
           cols[c \in 0..Cols] == IF c = 0 THEN cs ELSE PassLine(cols[c - 1], ColumnLine(c), "S", "N")
<1>1. Cols \in Nat /\ \A c \in 0..Cols : V[c] = Grids
  BY SizesAssumption
<1>2. \A c \in 1..Cols : \A g \in Grids : PassLine(g, ColumnLine(c), "S", "N") \in Grids
  BY ColumnsFit, PassLineFits
<1>3. \A c \in 1..Cols : V[c - 1] = Grids /\ V[c] = Grids /\ G[c] \in [V[c - 1] -> V[c]]
  BY <1>1, <1>2
<1>4. \A c \in 1..Cols : \A g \in Grids : G[c][g] = PassLine(g, ColumnLine(c), "S", "N")
  OBVIOUS
<1> HIDE DEF V, G
<1>5. PICK f : Iterates(f, Cols, V, G, cs)
  <2>1. cs \in V[0]
    BY <1>1
  <2>2. \A k \in 1..Cols : G[k] \in [V[k - 1] -> V[k]]
    BY <1>3
  <2> QED
    BY <2>1, <2>2, <1>1, Iterate
<1>6. f = [c \in 0..Cols |-> IF c = 0 THEN cs ELSE PassLine(f[c - 1], ColumnLine(c), "S", "N")]
  <2>1. \A c \in 0..Cols : c # 0 => c \in 1..Cols /\ c - 1 \in 0..Cols
    BY <1>1
  <2>2. \A c \in 0..Cols : c # 0 => G[c][f[c - 1]] = PassLine(f[c - 1], ColumnLine(c), "S", "N")
    BY <2>1, <1>1, <1>4, <1>5 DEF Iterates
  <2> QED
    BY <2>2, <1>5 DEF Iterates
<1>7. cols = [c \in 0..Cols |-> IF c = 0 THEN cs ELSE PassLine(cols[c - 1], ColumnLine(c), "S", "N")]
  BY <1>6
<1>8. UpAndDown(cs) = cols[Cols]
  BY DEF UpAndDown
<1> HIDE DEF cols
<1>9. \A c \in 0..Cols : cols[c] \in V[c]
  <2>1. cols[0] \in V[0]
    BY <1>1, <1>7
  <2>2. \A c \in 1..Cols : cols[c] = PassLine(cols[c - 1], ColumnLine(c), "S", "N")
    BY <1>7, <1>1
  <2>3. \A c \in 1..Cols : cols[c - 1] \in V[c - 1] => cols[c] = G[c][cols[c - 1]]
    BY <2>2, <1>3, <1>4
  <2>4. \A k \in 1..Cols : G[k] \in [V[k - 1] -> V[k]]
    BY <1>3
  <2>5. Cols \in Nat
    BY <1>1
  <2> QED
    BY <2>1, <2>3, <2>4, <2>5, Iterated
<1> QED
  BY <1>1, <1>8, <1>9
-----------------------------------------------------------------------------
(* Following a wire to its root.                                           *)

RootsFit ==
    /\ region_root \in [Cells -> [RegionSlots -> Cells]]
    /\ \A c \in Cells, r \in RegionSlots : region_root[region_root[c][r]][r] = region_root[c][r]

GridFits == conns \in Grids /\ RootsFit

\* A grid has finitely many wires, so their depths have a bound.
LEMMA WiresFinite ==
    /\ IsFiniteSet(WireCoords)
    /\ \E n \in Nat : \A v \in WireCoords : Depth[v] \in Nat /\ Depth[v] <= n
<1>1. IsFiniteSet(WireCoords)
  <2>1. IsFiniteSet(1..Cols) /\ IsFiniteSet(1..Rows)
    BY SizesAssumption, FS_Interval
  <2>2. IsFiniteSet(Cells)
    BY <2>1, FS_Product DEF Cells
  <2> QED
    BY <2>2, SizesAssumption, FS_Product DEF WireCoords
<1>2. \A v \in WireCoords : Depth[v] \in Nat
  BY DepthAssumption
<1> DEFINE Above(n) == {v \in WireCoords : Depth[v] > n}
           U == {Above(n) : n \in Nat}
<1>3. U \subseteq FiniteSubsetsOf(WireCoords) /\ U # {}
  <2>1. ASSUME NEW n \in Nat PROVE Above(n) \in FiniteSubsetsOf(WireCoords)
    <3>1. Above(n) \in SUBSET WireCoords
      OBVIOUS
    <3> QED
      BY <3>1, <1>1, FS_Subset DEF FiniteSubsetsOf
  <2> HIDE DEF Above
  <2>2. Above(0) \in U
    OBVIOUS
  <2> QED
    BY <2>1, <2>2
<1>4. PICK x \in U : \A y \in U : <<y, x>> \notin StrictSubsetOrdering(WireCoords)
  <2> HIDE DEF U
  <2> QED
    BY <1>3, FS_StrictSubsetOrderingWellFounded, WFMin
<1>5. PICK n \in Nat : x = Above(n)
  BY <1>4
<1>6. ASSUME NEW v \in WireCoords, Depth[v] > n PROVE FALSE
  <2>1. v \in Above(n) /\ v \notin Above(Depth[v]) /\ Above(Depth[v]) \subseteq Above(n)
    BY <1>2, <1>6
  <2>2. Above(Depth[v]) \in U /\ Above(n) \subseteq WireCoords
    BY <1>2
  <2>3. <<Above(Depth[v]), x>> \in StrictSubsetOrdering(WireCoords)
    <3> HIDE DEF Above
    <3> QED
      BY <2>1, <2>2, <1>5 DEF StrictSubsetOrdering
  <2> QED
    BY <2>2, <2>3, <1>4
<1>7. \A v \in WireCoords : Depth[v] \in Nat /\ Depth[v] <= n
  BY <1>2, <1>6
<1> QED
  BY <1>1, <1>7

\* The loop of resolve_wire goes on from v, and ends at or after its origin.
Onward(v) == Led(v) /\ Way(v).how # "BlackHole"

\* What a connector of a grid is.
LEMMA ConnFacts ==
    ASSUME GridFits, NEW c \in Cells, NEW s \in DOMAIN conns[c]
    PROVE  /\ conns[c][s].class \in DOMAIN ConnClasses
           /\ conns[c][s].target \in Cells \cup {NoCell}
           /\ Fits(conns, c, s)
<1>1. PICK S \in SUBSET Slots : conns[c] \in [S -> Connectors]
  BY DEF GridFits, Grids, ConnMaps
<1>2. conns[c][s] \in Connectors
  BY <1>1
<1> QED
  BY <1>2 DEF GridFits, Grids, Connectors

\* What a wire that is led through a connector has.
LEMMA LedFacts ==
    ASSUME GridFits, NEW v \in WireCoords, Led(v)
    PROVE  /\ v[1] \in Cells /\ v[2] \in Wires /\ v = <<v[1], v[2]>>
           /\ Kind[v[2]].slot \in DOMAIN conns[v[1]] /\ Conn(v).class \in DOMAIN ConnClasses
           /\ v[2] \in DOMAIN ConnClasses[Conn(v).class].wires
           /\ Way(v).how \in {"BlackHole", "Reflect", "Pass"} /\ Way(v).wire \in Wires
           /\ Way(v) = [how |-> Way(v).how, wire |-> Way(v).wire]
           /\ Conn(v).target \in Cells \cup {NoCell}
           /\ Ends(Conn(v).class, v[1], Conn(v).target)
<1>1. v[1] \in Cells /\ v[2] \in Wires /\ v = <<v[1], v[2]>>
  BY DEF WireCoords
<1>2. Kind[v[2]].slot \in DOMAIN conns[v[1]] /\ v[2] \in DOMAIN ConnClasses[Conn(v).class].wires
  BY DEF Led, Has
<1>3. /\ Conn(v).class \in DOMAIN ConnClasses /\ Conn(v).target \in Cells \cup {NoCell}
      /\ Fits(conns, v[1], Kind[v[2]].slot)
  BY <1>1, <1>2, ConnFacts DEF Conn
<1>4. /\ Way(v).how \in {"BlackHole", "Reflect", "Pass"} /\ Way(v).wire \in Wires
      /\ Way(v) = [how |-> Way(v).how, wire |-> Way(v).wire]
  BY <1>2, <1>3, BranchesAssumption DEF Way
<1>5. Ends(Conn(v).class, v[1], Conn(v).target)
  BY <1>3 DEF Fits, Conn
<1> QED
  BY <1>1, <1>2, <1>3, <1>4, <1>5

\* A wire comes from one that is nearer to its root.
LEMMA OriginNearer ==
    ASSUME GridFits, NEW v \in WireCoords, Onward(v)
    PROVE  Origin(v) \in WireCoords /\ Depth[Origin(v)] < Depth[v]
<1>1. Led(v) /\ Way(v).how # "BlackHole"
  BY DEF Onward
<1>2. v[1] \in Cells /\ v = <<v[1], v[2]>> /\ Way(v).wire \in Wires /\ Way(v).how \in {"Reflect", "Pass"}
      /\ Conn(v).target \in Cells \cup {NoCell}
  BY <1>1, LedFacts
<1>3. /\ Way(v).how = "Reflect" => Depth[<<v[1], Way(v).wire>>] < Depth[v]
      /\ Way(v).how = "Pass" => Conn(v).target # NoCell /\ Depth[<<Conn(v).target, Way(v).wire>>] < Depth[v]
  BY <1>1, <1>2, LedFacts DEF Ends, Way
<1>4. CASE Way(v).how = "Reflect"
  BY <1>2, <1>3, <1>4 DEF Origin, WireCoords
<1>5. CASE Way(v).how = "Pass"
  BY <1>2, <1>3, <1>5 DEF Origin, WireCoords
<1> QED
  BY <1>2, <1>4, <1>5

\* One step of Upstream, with g for the rest of the way.
StepUp(g, v) ==
    CASE Kind[v[2]].k = "Regional" -> <<region_root[v[1]][Kind[v[2]].slot], v[2]>>
      [] Led(v) -> IF Way(v).how = "BlackHole" THEN NoWire ELSE g[Origin(v)]
      [] OTHER -> v

\* A regional wire comes from the root of its region, directly.
LEMMA RegionalRoot ==
    ASSUME RootsFit, NEW v \in WireCoords, Kind[v[2]].k = "Regional"
    PROVE  /\ ~ Led(v)
           /\ v[1] \in Cells /\ v[2] \in Wires /\ Kind[v[2]].slot \in RegionSlots
           /\ region_root[v[1]][Kind[v[2]].slot] \in Cells
           /\ <<region_root[v[1]][Kind[v[2]].slot], v[2]>> \in WireCoords
<1>1. v[1] \in Cells /\ v[2] \in Wires
  BY DEF WireCoords
<1>2. Kind[v[2]].slot \in RegionSlots
  BY <1>1, RegionsAssumption
<1>3. ~ Led(v)
  BY DEF Led, IsBranch
<1>4. region_root[v[1]][Kind[v[2]].slot] \in Cells
  BY <1>1, <1>2 DEF RootsFit
<1> QED
  BY <1>1, <1>2, <1>3, <1>4 DEF WireCoords

\* One step of resolve_wire finds a wire or nothing ...
LEMMA StepUpTyped ==
    ASSUME GridFits, NEW g \in [WireCoords -> WireCoords \cup {NoWire}], NEW v \in WireCoords
    PROVE  StepUp(g, v) \in WireCoords \cup {NoWire}
<1>1. CASE Kind[v[2]].k = "Regional"
  BY <1>1, RegionalRoot DEF StepUp, GridFits
<1>2. CASE Kind[v[2]].k # "Regional" /\ Led(v)
  <2>1. Way(v).how # "BlackHole" => g[Origin(v)] \in WireCoords \cup {NoWire}
    BY <1>2, OriginNearer DEF Onward
  <2> QED
    BY <1>2, <2>1 DEF StepUp
<1>3. CASE Kind[v[2]].k # "Regional" /\ ~ Led(v)
  BY <1>3 DEF StepUp
<1> QED
  BY <1>1, <1>2, <1>3

\* ... and depends on the wire it comes from only.
LEMMA StepUpSame ==
    ASSUME GridFits, NEW g, NEW h, NEW v \in WireCoords, Onward(v) => g[Origin(v)] = h[Origin(v)]
    PROVE  StepUp(g, v) = StepUp(h, v)
<1>1. CASE Kind[v[2]].k = "Regional"
  BY <1>1 DEF StepUp
<1>2. CASE Kind[v[2]].k # "Regional" /\ Led(v)
  BY <1>2 DEF StepUp, Onward
<1>3. CASE Kind[v[2]].k # "Regional" /\ ~ Led(v)
  BY <1>3 DEF StepUp
<1> QED
  BY <1>1, <1>2, <1>3

\* The functions that are right up to a depth.
RightBelow(n) ==
    {g \in [WireCoords -> WireCoords \cup {NoWire}] :
        \A v \in WireCoords : Depth[v] < n => g[v] = StepUp(g, v)}

\* resolve_wire ends: the recursive function exists.
LEMMA UpstreamDefined ==
    ASSUME GridFits
    PROVE  \E f : f = [v \in WireCoords |-> StepUp(f, v)]
<1>1. PICK max \in Nat : \A v \in WireCoords : Depth[v] \in Nat /\ Depth[v] <= max
  BY WiresFinite
<1> DEFINE N == max + 1
           V == [n \in 0..N |-> RightBelow(n)]
           G == [n \in 1..N |-> [g \in RightBelow(n - 1) |-> [v \in WireCoords |-> StepUp(g, v)]]]
           id == [v \in WireCoords |-> v]
<1>2. N \in Nat /\ \A n \in 0..N : V[n] = RightBelow(n)
  OBVIOUS
<1>3. id \in V[0]
  <2>1. \A v \in WireCoords : ~(Depth[v] < 0)
    BY <1>1
  <2>2. id \in [WireCoords -> WireCoords \cup {NoWire}]
    OBVIOUS
  <2> HIDE DEF id
  <2> QED
    BY <1>2, <2>1, <2>2 DEF RightBelow
<1>4. ASSUME NEW n \in 1..N, NEW g \in RightBelow(n - 1)
      PROVE  [v \in WireCoords |-> StepUp(g, v)] \in RightBelow(n)
  <2> DEFINE h == [v \in WireCoords |-> StepUp(g, v)]
  <2>1. /\ g \in [WireCoords -> WireCoords \cup {NoWire}]
        /\ \A v \in WireCoords : Depth[v] < n - 1 => g[v] = StepUp(g, v)
    BY DEF RightBelow
  <2>2. \A v \in WireCoords : h[v] = StepUp(g, v)
    OBVIOUS
  <2>3. h \in [WireCoords -> WireCoords \cup {NoWire}]
    BY <2>1, StepUpTyped
  <2> HIDE DEF h
  <2>4. ASSUME NEW v \in WireCoords, Depth[v] < n
        PROVE  h[v] = StepUp(h, v)
    <3>1. Onward(v) => Origin(v) \in WireCoords /\ Depth[Origin(v)] < n - 1
      <4> SUFFICES ASSUME Onward(v) PROVE Origin(v) \in WireCoords /\ Depth[Origin(v)] < n - 1
        OBVIOUS
      <4>1. Origin(v) \in WireCoords /\ Depth[Origin(v)] < Depth[v]
        BY OriginNearer
      <4> QED
        BY <4>1, <2>4, <1>1
    <3>2. Onward(v) => g[Origin(v)] = h[Origin(v)]
      BY <3>1, <2>1, <2>2
    <3> QED
      BY <3>2, <2>2, StepUpSame
  <2>5. h \in RightBelow(n)
    BY <2>3, <2>4 DEF RightBelow
  <2> QED
    BY <2>5 DEF h
<1>5. \A n \in 1..N : G[n] \in [V[n - 1] -> V[n]]
  <2> SUFFICES ASSUME NEW n \in 1..N PROVE G[n] \in [V[n - 1] -> V[n]]
    OBVIOUS
  <2>1. V[n - 1] = RightBelow(n - 1) /\ V[n] = RightBelow(n)
    BY <1>2
  <2>2. G[n] = [g \in RightBelow(n - 1) |-> [v \in WireCoords |-> StepUp(g, v)]]
    OBVIOUS
  <2>3. G[n] \in [RightBelow(n - 1) -> RightBelow(n)]
    BY <1>4, <2>2
  <2> HIDE DEF G, V
  <2> QED
    BY <2>1, <2>3
<1> HIDE DEF V, G
<1>6. PICK f : Iterates(f, N, V, G, id)
  <2> HIDE DEF N, id
  <2> QED
    BY <1>2, <1>3, <1>5, Iterate
<1>7. f[N] \in RightBelow(N)
  BY <1>6, <1>2 DEF Iterates
<1>8. \A v \in WireCoords : Depth[v] < N
  BY <1>1
<1> DEFINE up == f[N]
<1>9. up \in [WireCoords -> WireCoords \cup {NoWire}] /\ \A v \in WireCoords : up[v] = StepUp(up, v)
  BY <1>7, <1>8 DEF RightBelow
<1> HIDE DEF up
<1>10. up = [v \in WireCoords |-> up[v]]
  BY <1>9
<1>11. up = [v \in WireCoords |-> StepUp(up, v)]
  BY <1>9, <1>10
<1> QED
  BY <1>11

\* What the wire of v is led from, Regional wires to that of their region's root.
LEMMA UpstreamIs ==
    ASSUME GridFits, NEW v \in WireCoords
    PROVE  /\ Kind[v[2]].k = "Regional" => Upstream(v) = <<region_root[v[1]][Kind[v[2]].slot], v[2]>>
           /\ Onward(v) => Upstream(v) = Upstream(Origin(v))
           /\ Led(v) /\ Way(v).how = "BlackHole" => Upstream(v) = NoWire
           /\ Kind[v[2]].k # "Regional" /\ ~ Led(v) => Upstream(v) = v
           /\ Onward(v) => Kind[v[2]].k # "Regional"
<1> DEFINE up[u \in WireCoords] ==
             CASE Kind[u[2]].k = "Regional" -> <<region_root[u[1]][Kind[u[2]].slot], u[2]>>
               [] Led(u) -> IF Way(u).how = "BlackHole" THEN NoWire ELSE up[Origin(u)]
               [] OTHER -> u
<1>1. \A w : Upstream(w) = up[w]
  BY DEF Upstream
<1>2. up = [u \in WireCoords |-> StepUp(up, u)]
  BY UpstreamDefined DEF StepUp
<1> HIDE DEF up
<1>3. up[v] = StepUp(up, v)
  BY <1>2
<1>4. Led(v) => Kind[v[2]].k # "Regional"
  BY DEF Led, IsBranch
<1>5. CASE Kind[v[2]].k = "Regional"
  BY <1>1, <1>3, <1>4, <1>5 DEF StepUp, Onward
<1>6. CASE Kind[v[2]].k # "Regional" /\ Led(v)
  BY <1>1, <1>3, <1>4, <1>6 DEF StepUp, Onward
<1>7. CASE Kind[v[2]].k # "Regional" /\ ~ Led(v)
  BY <1>1, <1>3, <1>7 DEF StepUp, Onward
<1> QED
  BY <1>4, <1>5, <1>6, <1>7
-----------------------------------------------------------------------------
(* The trees.                                                              *)

\* The wire one step nearer to the root, if there is one, and how far that may be.
RootCell(v) == region_root[v[1]][Kind[v[2]].slot]
HasParent(v) == IF Kind[v[2]].k = "Regional" THEN RootCell(v) # v[1] ELSE Onward(v)
Parent(v) == IF Kind[v[2]].k = "Regional" THEN <<RootCell(v), v[2]>> ELSE Origin(v)
Height(v) == IF Kind[v[2]].k = "Regional" THEN IF RootCell(v) # v[1] THEN 1 ELSE 0 ELSE Depth[v] + 2

\* A parent is of less height and has the same root; a wire without one is a root or has none.
LEMMA ParentFacts ==
    ASSUME GridFits, NEW v \in WireCoords
    PROVE  /\ Height(v) \in Nat
           /\ HasParent(v) => /\ Parent(v) \in WireCoords
                              /\ Height(Parent(v)) \in Nat /\ Height(Parent(v)) < Height(v)
                              /\ Upstream(v) = Upstream(Parent(v))
           /\ ~ HasParent(v) => Upstream(v) \in {v, NoWire}
<1>1. \A u \in WireCoords : Depth[u] \in Nat
  BY DepthAssumption
<1>2. \A u \in WireCoords : Height(u) \in Nat
  BY <1>1 DEF Height
<1>3. v = <<v[1], v[2]>>
  BY DEF WireCoords
<1>4. CASE Kind[v[2]].k = "Regional"
  <2> DEFINE p == <<RootCell(v), v[2]>>
  <2>1. /\ Parent(v) = p /\ Upstream(v) = p /\ HasParent(v) = (RootCell(v) # v[1])
        /\ p \in WireCoords /\ v[1] \in Cells /\ Kind[v[2]].slot \in RegionSlots
    BY <1>4, UpstreamIs, RegionalRoot DEF Parent, HasParent, RootCell, GridFits
  <2>2. p[1] = RootCell(v) /\ p[2] = v[2]
    OBVIOUS
  <2> HIDE DEF p
  <2>3. RootCell(p) = p[1]
    BY <2>1, <2>2 DEF RootCell, GridFits, RootsFit
  <2>4. Upstream(p) = p
    <3>1. Upstream(p) = <<RootCell(p), p[2]>>
      BY <2>1, <2>2, <1>4, UpstreamIs DEF RootCell
    <3>2. p = <<p[1], p[2]>>
      BY <2>1 DEF WireCoords
    <3> QED
      BY <3>1, <3>2, <2>3
  <2>5. HasParent(v) => Height(p) = 0 /\ Height(v) = 1
    BY <2>1, <2>2, <2>3, <1>4 DEF Height
  <2>6. ~ HasParent(v) => p = v
    BY <2>1, <1>3 DEF p
  <2> QED
    BY <2>1, <2>4, <2>5, <2>6, <1>2
<1>5. CASE Kind[v[2]].k # "Regional"
  <2>1. HasParent(v) = Onward(v) /\ Parent(v) = Origin(v) /\ Height(v) = Depth[v] + 2
    BY <1>5 DEF HasParent, Parent, Height
  <2>2. CASE Onward(v)
    <3>1. Origin(v) \in WireCoords /\ Depth[Origin(v)] < Depth[v] /\ Upstream(v) = Upstream(Origin(v))
      BY <2>2, OriginNearer, UpstreamIs
    <3>2. Height(Origin(v)) \in {0, 1, Depth[Origin(v)] + 2}
      BY DEF Height
    <3>3. Height(Origin(v)) < Depth[v] + 2
      BY <3>1, <3>2, <1>1
    <3> QED
      BY <2>1, <2>2, <3>1, <3>3, <1>2
  <2>3. CASE ~ Onward(v)
    BY <2>1, <2>3, <1>2, <1>5, UpstreamIs DEF Onward
  <2> QED
    BY <2>2, <2>3
<1> QED
  BY <1>4, <1>5

\* A wire of any set that is lowest in it.
LEMMA Lowest ==
    ASSUME GridFits, NEW B \in SUBSET WireCoords, B # {}
    PROVE  \E v \in B : \A u \in B : Height(v) <= Height(u)
<1> DEFINE T == {Height(v) : v \in B}
<1>1. T \in SUBSET Nat /\ T # {}
  BY ParentFacts
<1>2. PICK n \in T : \A m \in T : n <= m
  <2> HIDE DEF T
  <2> QED
    BY <1>1, LeastNat
<1> QED
  BY <1>2

\* Where resolve_wire ends there is no further parent, and the root is its own root.
LEMMA UpstreamEnds ==
    ASSUME GridFits, NEW v \in WireCoords
    PROVE  /\ Upstream(v) \in WireCoords \cup {NoWire}
           /\ Upstream(v) # NoWire => /\ ~ HasParent(Upstream(v))
                                      /\ Upstream(Upstream(v)) = Upstream(v)
<1> DEFINE Good(u) == /\ Upstream(u) \in WireCoords \cup {NoWire}
                      /\ Upstream(u) # NoWire => /\ ~ HasParent(Upstream(u))
                                                 /\ Upstream(Upstream(u)) = Upstream(u)
           B == {u \in WireCoords : ~ Good(u)}
<1>1. SUFFICES ASSUME B # {} PROVE FALSE
  OBVIOUS
<1>2. B \in SUBSET WireCoords
  OBVIOUS
<1>3. PICK u \in B : \A x \in B : Height(u) <= Height(x)
  <2> HIDE DEF B
  <2> QED
    BY <1>1, <1>2, Lowest
<1>4. u \in WireCoords /\ ~ Good(u)
  OBVIOUS
<1>5. CASE HasParent(u)
  <2>1. /\ Parent(u) \in WireCoords /\ Height(Parent(u)) \in Nat /\ Height(Parent(u)) < Height(u)
        /\ Upstream(u) = Upstream(Parent(u)) /\ Height(u) \in Nat
    BY <1>4, <1>5, ParentFacts
  <2>2. Parent(u) \notin B
    <3> HIDE DEF B
    <3> QED
      BY <2>1, <1>3
  <2>3. Good(Parent(u))
    BY <2>1, <2>2
  <2> HIDE DEF B
  <2> QED
    BY <2>1, <2>3, <1>4
<1>6. CASE ~ HasParent(u)
  BY <1>4, <1>6, ParentFacts
<1> QED
  BY <1>5, <1>6

\* The index finish makes.
Indexed ==
    region_root_cells =
        [r \in RegionSlots |->
            [root \in {region_root[c][r] : c \in Cells} |-> {c \in Cells : region_root[c][r] = root}]]

Near(x, slot) == {<<x[1], wt>> : wt \in wire_ins_near(conns[x[1]][slot].class, x[2])}
Far(x, slot) ==
    IF conns[x[1]][slot].target = NoCell THEN {}
    ELSE {<<conns[x[1]][slot].target, wt>> :
            wt \in wire_ins_far(conns[conns[x[1]][slot].target][Opposite[slot]].class, x[2])}

\* What hangs from a wire: by regions, by its own connectors and by those it faces.
LEMMA DownstreamParts ==
    ASSUME NEW x, NEW y
    PROVE  y \in Downstream(x) <=>
              \/ y \in Regions(x)
              \/ \E slot \in DOMAIN conns[x[1]] : y \in Near(x, slot) \/ y \in Far(x, slot)
<1>1. Downstream(x) = Regions(x) \cup UNION {Near(x, slot) \cup Far(x, slot) : slot \in DOMAIN conns[x[1]]}
  BY DEF Downstream, Near, Far
<1> QED
  BY <1>1

\* By regions: the wires whose parent it is by their region.
LEMMA RegionsBelow ==
    ASSUME GridFits, Indexed, NEW x \in WireCoords, NEW y
    PROVE  y \in Regions(x) <=> /\ y \in WireCoords /\ Kind[y[2]].k = "Regional"
                                /\ HasParent(y) /\ Parent(y) = x
<1>1. x[1] \in Cells /\ x[2] \in Wires /\ x = <<x[1], x[2]>>
  BY DEF WireCoords
<1> DEFINE r == Kind[x[2]].slot
<1>2. CASE y \in Regions(x)
  <2>1. Kind[x[2]].k = "Regional" /\ region_root[x[1]][r] = x[1]
    BY <1>2 DEF Regions
  <2>2. r \in RegionSlots
    BY <2>1, RegionalRoot DEF GridFits
  <2>3. region_root_cells[r][x[1]] = {c \in Cells : region_root[c][r] = x[1]}
    BY <2>1, <2>2, <1>1 DEF Indexed
  <2>4. PICK c \in Cells : region_root[c][r] = x[1] /\ c # x[1] /\ y = <<c, x[2]>>
    BY <1>2, <2>1, <2>3 DEF Regions
  <2>5. y \in WireCoords /\ y[1] = c /\ y[2] = x[2]
    BY <2>4, <1>1 DEF WireCoords
  <2>6. RootCell(y) = x[1] /\ Kind[y[2]].k = "Regional"
    BY <2>1, <2>4, <2>5 DEF RootCell
  <2>7. <<x[1], y[2]>> = x
    BY <2>5, <1>1
  <2>8. HasParent(y)
    BY <2>4, <2>5, <2>6 DEF HasParent
  <2>9. Parent(y) = x
    BY <2>6, <2>7 DEF Parent
  <2> QED
    BY <1>2, <2>5, <2>6, <2>8, <2>9
<1>3. ASSUME y \in WireCoords, Kind[y[2]].k = "Regional", HasParent(y), Parent(y) = x
      PROVE  y \in Regions(x)
  <2>1. x = <<RootCell(y), y[2]>> /\ RootCell(y) # y[1]
    BY <1>3 DEF HasParent, Parent
  <2>2. y[1] \in Cells /\ y = <<y[1], y[2]>> /\ Kind[y[2]].slot \in RegionSlots
    <3>1. y[1] \in Cells /\ y = <<y[1], y[2]>>
      BY <1>3 DEF WireCoords
    <3>2. RootsFit
      BY DEF GridFits
    <3> QED
      BY <3>1, <3>2, <1>3, RegionalRoot
  <2>3. x[2] = y[2] /\ x[1] = region_root[y[1]][r]
    BY <2>1 DEF RootCell
  <2>4. r \in RegionSlots /\ region_root[x[1]][r] = x[1]
    BY <2>2, <2>3 DEF GridFits, RootsFit
  <2>5. region_root_cells[r][x[1]] = {c \in Cells : region_root[c][r] = x[1]}
    BY <2>2, <2>3, <2>4 DEF Indexed
  <2>6. y[1] \in region_root_cells[r][x[1]] \ {x[1]}
    BY <2>1, <2>2, <2>3, <2>5
  <2> QED
    BY <2>2, <2>3, <2>4, <2>6, <1>3 DEF Regions
<1> QED
  BY <1>2, <1>3

\* By its own connectors: wires of the same cell that are reflected from it.
LEMMA NearBelow ==
    ASSUME GridFits, NEW x \in WireCoords, NEW y, NEW slot \in DOMAIN conns[x[1]], y \in Near(x, slot)
    PROVE  y \in WireCoords /\ Onward(y) /\ Origin(y) = x
<1>1. x[1] \in Cells /\ x[2] \in Wires /\ x = <<x[1], x[2]>>
  BY DEF WireCoords
<1> DEFINE class == conns[x[1]][slot].class
<1>2. class \in DOMAIN ConnClasses /\ ConnClasses[class].slot = slot
  BY <1>1, ConnFacts DEF Fits
<1>3. PICK wt \in DOMAIN ConnClasses[class].wires :
          ConnClasses[class].wires[wt] = [how |-> "Reflect", wire |-> x[2]] /\ y = <<x[1], wt>>
  BY DEF Near, wire_ins_near, wire_ins
<1>4. wt \in Wires /\ IsBranch(Kind[wt]) /\ Kind[wt].slot = slot
  BY <1>2, <1>3, BranchesAssumption
<1>5. y \in WireCoords /\ y[1] = x[1] /\ y[2] = wt
  BY <1>1, <1>3, <1>4 DEF WireCoords
<1>6. Conn(y) = conns[x[1]][slot]
  BY <1>4, <1>5 DEF Conn
<1>7. Led(y) /\ Way(y) = [how |-> "Reflect", wire |-> x[2]]
  BY <1>3, <1>4, <1>5, <1>6 DEF Led, Has, Way
<1>8. Onward(y) /\ Origin(y) = <<x[1], x[2]>>
  BY <1>5, <1>7 DEF Onward, Origin
<1> QED
  BY <1>1, <1>5, <1>8

\* By those it faces: wires of the other cell that pass it on.
LEMMA FarBelow ==
    ASSUME GridFits, NEW x \in WireCoords, NEW y, NEW slot \in DOMAIN conns[x[1]], y \in Far(x, slot)
    PROVE  y \in WireCoords /\ Onward(y) /\ Origin(y) = x
<1>1. x[1] \in Cells /\ x[2] \in Wires /\ x = <<x[1], x[2]>>
  BY DEF WireCoords
<1> DEFINE there == conns[x[1]][slot].target
           oslot == Opposite[slot]
           class == conns[there][oslot].class
<1>2. /\ there \in Cells /\ oslot \in DOMAIN conns[there] /\ conns[there][oslot].target = x[1]
  <2>1. there # NoCell
    BY DEF Far
  <2> QED
    BY <1>1, <2>1, ConnFacts DEF Fits
<1>3. class \in DOMAIN ConnClasses /\ ConnClasses[class].slot = oslot
  BY <1>2, ConnFacts DEF Fits
<1>4. PICK wt \in DOMAIN ConnClasses[class].wires :
          ConnClasses[class].wires[wt] = [how |-> "Pass", wire |-> x[2]] /\ y = <<there, wt>>
  BY DEF Far, wire_ins_far, wire_ins
<1>5. wt \in Wires /\ IsBranch(Kind[wt]) /\ Kind[wt].slot = oslot
  BY <1>3, <1>4, BranchesAssumption
<1>6. y \in WireCoords /\ y[1] = there /\ y[2] = wt
  BY <1>2, <1>4, <1>5 DEF WireCoords
<1>7. Conn(y) = conns[there][oslot]
  BY <1>5, <1>6 DEF Conn
<1>8. Led(y) /\ Way(y) = [how |-> "Pass", wire |-> x[2]]
  BY <1>2, <1>4, <1>5, <1>6, <1>7 DEF Led, Has, Way
<1>9. Onward(y) /\ Origin(y) = <<x[1], x[2]>>
  <2>1. Way(y).how = "Pass" /\ Way(y).wire = x[2]
    BY <1>8
  <2>2. Conn(y).target = x[1]
    BY <1>2, <1>7
  <2> QED
    BY <2>1, <2>2, <1>8 DEF Onward, Origin
<1> QED
  BY <1>1, <1>6, <1>9

\* A wire that comes from x hangs from x: no other way is forgotten.
LEMMA OriginAbove ==
    ASSUME GridFits, NEW y \in WireCoords, Onward(y), NEW x, x = Origin(y)
    PROVE  \E slot \in DOMAIN conns[x[1]] : y \in Near(x, slot) \/ y \in Far(x, slot)
<1> DEFINE s == Kind[y[2]].slot
<1>1. /\ y[1] \in Cells /\ y = <<y[1], y[2]>> /\ s \in DOMAIN conns[y[1]]
      /\ y[2] \in DOMAIN ConnClasses[Conn(y).class].wires
      /\ Way(y).how \in {"Reflect", "Pass"} /\ Way(y) = [how |-> Way(y).how, wire |-> Way(y).wire]
      /\ Conn(y).target \in Cells \cup {NoCell}
  BY LedFacts DEF Onward
<1>2. Conn(y) = conns[y[1]][s] /\ Way(y) = ConnClasses[Conn(y).class].wires[y[2]]
  BY DEF Conn, Way
<1>3. Fits(conns, y[1], s)
  BY <1>1, ConnFacts
<1>4. CASE Way(y).how = "Reflect"
  <2>1. x[1] = y[1] /\ x[2] = Way(y).wire
    BY <1>4 DEF Origin
  <2>2. y[2] \in wire_ins_near(conns[x[1]][s].class, x[2])
    BY <1>1, <1>2, <1>4, <2>1 DEF wire_ins_near, wire_ins
  <2>3. y \in Near(x, s)
    BY <2>1, <2>2, <1>1 DEF Near
  <2> QED
    BY <2>1, <2>3, <1>1
<1>5. CASE Way(y).how = "Pass"
  <2>1. x[1] = Conn(y).target /\ x[2] = Way(y).wire
    BY <1>5 DEF Origin
  <2>2. Conn(y).target # NoCell
    <3>1. Ends(Conn(y).class, y[1], Conn(y).target)
      BY LedFacts DEF Onward
    <3> QED
      BY <3>1, <1>1, <1>2, <1>5 DEF Ends
  <2>3. /\ Opposite[s] \in DOMAIN conns[x[1]]
        /\ conns[x[1]][Opposite[s]].target = y[1]
        /\ Opposite[Opposite[s]] = s
    BY <1>2, <1>3, <2>1, <2>2 DEF Fits
  <2>4. y[2] \in wire_ins_far(conns[y[1]][s].class, x[2])
    BY <1>1, <1>2, <1>5, <2>1 DEF wire_ins_far, wire_ins
  <2>5. y[1] # NoCell
    BY <1>1, CellFacts
  <2>6. y \in Far(x, Opposite[s])
    <3> HIDE DEF s
    <3>1. Far(x, Opposite[s]) = {<<y[1], wt>> : wt \in wire_ins_far(conns[y[1]][s].class, x[2])}
      BY <2>3, <2>5 DEF Far
    <3> QED
      BY <3>1, <2>4, <1>1
  <2> QED
    BY <2>3, <2>6
<1> QED
  BY <1>1, <1>4, <1>5

\* wire_tree goes back just the steps resolve_wire goes.
LEMMA DownstreamIs ==
    ASSUME GridFits, Indexed, NEW x \in WireCoords
    PROVE  Downstream(x) = {y \in WireCoords : HasParent(y) /\ Parent(y) = x}
<1>1. ASSUME NEW y \in Downstream(x) PROVE y \in WireCoords /\ HasParent(y) /\ Parent(y) = x
  <2>1. CASE y \in Regions(x)
    BY <2>1, RegionsBelow
  <2>2. ASSUME NEW slot \in DOMAIN conns[x[1]], y \in Near(x, slot) \/ y \in Far(x, slot)
        PROVE  y \in WireCoords /\ HasParent(y) /\ Parent(y) = x
    <3>1. y \in WireCoords /\ Onward(y) /\ Origin(y) = x
      BY <2>2, NearBelow, FarBelow
    <3>2. Kind[y[2]].k # "Regional"
      BY <3>1 DEF Onward, Led, IsBranch
    <3> QED
      BY <3>1, <3>2 DEF HasParent, Parent
  <2> QED
    BY <2>1, <2>2, DownstreamParts
<1>2. ASSUME NEW y \in WireCoords, HasParent(y), Parent(y) = x PROVE y \in Downstream(x)
  <2>1. CASE Kind[y[2]].k = "Regional"
    BY <1>2, <2>1, RegionsBelow, DownstreamParts
  <2>2. CASE Kind[y[2]].k # "Regional"
    <3>1. Onward(y) /\ Origin(y) = x
      BY <1>2, <2>2 DEF HasParent, Parent
    <3>2. \E slot \in DOMAIN conns[x[1]] : y \in Near(x, slot) \/ y \in Far(x, slot)
      BY <3>1, OriginAbove
    <3> QED
      BY <3>2, DownstreamParts
  <2> QED
    BY <2>1, <2>2
<1> QED
  BY <1>1, <1>2
-----------------------------------------------------------------------------
(* The loop over the queue.                                                *)

Distinct(q) == \A i, j \in 1..Len(q) : q[i] = q[j] => i = j

\* The members of a sequence are the values at its positions.
LEMMA ToSetIs ==
    ASSUME NEW W, NEW q \in Seq(W)
    PROVE  /\ Len(q) \in Nat /\ ToSet(q) \subseteq W
           /\ ToSet(q) = {q[i] : i \in 1..Len(q)}
           /\ q = << >> <=> Len(q) = 0
  BY DEF ToSet

\* A finite set made a sequence: each member once.
LEMMA SetToSeqIs ==
    ASSUME NEW S, IsFiniteSet(S)
    PROVE  SetToSeq(S) \in Seq(S) /\ Distinct(SetToSeq(S)) /\ ToSet(SetToSeq(S)) = S
<1> DEFINE n == Cardinality(S)
           q == SetToSeq(S)
<1>1. n \in Nat /\ ExistsBijection(1..n, S)
  BY FS_CardinalityType
<1>2. PICK f \in Bijection(1..n, S) : TRUE
  BY <1>1 DEF ExistsBijection
<1>3. f \in [1..n -> S] /\ IsInjective(f)
  BY <1>2 DEF Bijection, Injection
<1>4. q \in [1..n -> S] /\ IsInjective(q)
  BY <1>3 DEF SetToSeq
<1>5. q \in Surjection(1..n, S)
  <2>1. q \in Injection(1..n, S)
    BY <1>4 DEF Injection
  <2>2. IsFiniteSet(1..n) /\ Cardinality(1..n) = n
    BY <1>1, FS_Interval
  <2> HIDE DEF q
  <2> QED
    BY <2>1, <2>2, FS_Injection
<1> HIDE DEF q
<1>6. q \in Seq(S) /\ Len(q) = n /\ DOMAIN q = 1..n
  BY <1>1, <1>4
<1>7. Distinct(q)
  BY <1>4, <1>6 DEF Distinct, IsInjective
<1>8. ToSet(q) = S
  BY <1>4, <1>5, <1>6 DEF ToSet, Surjection
<1> QED
  BY <1>6, <1>7, <1>8 DEF q

\* Two sequences without common or repeated members make another.
LEMMA Concatenated ==
    ASSUME NEW W, NEW p \in Seq(W), NEW q \in Seq(W), Distinct(p), Distinct(q),
           ToSet(p) \cap ToSet(q) = {}
    PROVE  p \o q \in Seq(W) /\ Distinct(p \o q) /\ ToSet(p \o q) = ToSet(p) \cup ToSet(q)
<1> DEFINE m == Len(p)
           n == Len(q)
           r == p \o q
<1>1. /\ m \in Nat /\ n \in Nat /\ r \in Seq(W) /\ Len(r) = m + n
      /\ \A i \in 1..(m + n) : r[i] = IF i <= m THEN p[i] ELSE q[i - m]
  OBVIOUS
<1>2. /\ ToSet(p) = {p[i] : i \in 1..m} /\ ToSet(q) = {q[i] : i \in 1..n}
      /\ ToSet(r) = {r[i] : i \in 1..(m + n)}
  <2>1. ToSet(p) = {p[i] : i \in 1..m} /\ ToSet(q) = {q[i] : i \in 1..n}
    BY ToSetIs
  <2>2. ToSet(r) = {r[i] : i \in 1..Len(r)}
    <3> HIDE DEF r
    <3> QED
      BY <1>1, ToSetIs
  <2> HIDE DEF m, n, r
  <2> QED
    BY <2>1, <2>2, <1>1
<1> HIDE DEF m, n, r
<1>3. Distinct(r)
  <2> SUFFICES ASSUME NEW i \in 1..(m + n), NEW j \in 1..(m + n), r[i] = r[j] PROVE i = j
    BY <1>1 DEF Distinct
  <2>1. i <= m => i \in 1..m /\ r[i] = p[i] /\ r[i] \in ToSet(p)
    BY <1>1, <1>2
  <2>2. ~(i <= m) => i - m \in 1..n /\ r[i] = q[i - m] /\ r[i] \in ToSet(q)
    BY <1>1, <1>2
  <2>3. j <= m => j \in 1..m /\ r[j] = p[j] /\ r[j] \in ToSet(p)
    BY <1>1, <1>2
  <2>4. ~(j <= m) => j - m \in 1..n /\ r[j] = q[j - m] /\ r[j] \in ToSet(q)
    BY <1>1, <1>2
  <2>5. CASE i <= m /\ j <= m
    BY <2>1, <2>3, <2>5 DEF Distinct, m
  <2>6. CASE ~(i <= m) /\ ~(j <= m)
    <3>1. i - m = j - m
      BY <2>2, <2>4, <2>6 DEF Distinct, n
    <3> QED
      BY <3>1, <1>1
  <2> QED
    BY <2>1, <2>2, <2>3, <2>4, <2>5, <2>6
<1>4. ToSet(r) \subseteq ToSet(p) \cup ToSet(q)
  <2> SUFFICES ASSUME NEW i \in 1..(m + n) PROVE r[i] \in ToSet(p) \cup ToSet(q)
    BY <1>2
  <2>1. i <= m => i \in 1..m
    BY <1>1
  <2>2. ~(i <= m) => i - m \in 1..n
    BY <1>1
  <2> QED
    BY <2>1, <2>2, <1>1, <1>2
<1>5. ToSet(p) \subseteq ToSet(r)
  <2> SUFFICES ASSUME NEW i \in 1..m PROVE p[i] \in ToSet(r)
    BY <1>2
  <2>1. i \in 1..(m + n) /\ r[i] = p[i]
    BY <1>1
  <2> QED
    BY <2>1, <1>2
<1>6. ToSet(q) \subseteq ToSet(r)
  <2> SUFFICES ASSUME NEW i \in 1..n PROVE q[i] \in ToSet(r)
    BY <1>2
  <2>1. m + i \in 1..(m + n) /\ r[m + i] = q[i]
    BY <1>1
  <2> QED
    BY <2>1, <1>2
<1> QED
  BY <1>1, <1>3, <1>4, <1>5, <1>6 DEF r

\* Popping the last member takes it out of the members.
LEMMA FrontAndLast ==
    ASSUME NEW W, NEW q \in Seq(W), q # << >>, Distinct(q)
    PROVE  /\ Front(q) \in Seq(W) /\ Distinct(Front(q))
           /\ Last(q) \in ToSet(q) /\ ToSet(Front(q)) = ToSet(q) \ {Last(q)}
<1> DEFINE n == Len(q)
           f == Front(q)
<1>1. n \in Nat \ {0}
  BY ToSetIs
<1>2. f \in Seq(W) /\ Len(f) = n - 1 /\ \A i \in 1..(n - 1) : f[i] = q[i]
  <2>1. f = SubSeq(q, 1, n - 1) /\ 1 \in Int /\ n - 1 \in Nat
    BY <1>1 DEF Front
  <2>2. f \in Seq(W)
    BY <2>1, <1>1
  <2>3. Len(f) = n - 1
    <3>1. \A i \in 1..(n - 1) : q[i] \in W
      BY <1>1
    <3>2. Len(SubSeq(q, 1, n - 1)) = IF 1 <= n - 1 THEN (n - 1) - 1 + 1 ELSE 0
      <4> HIDE DEF n
      <4> QED
        BY <3>1, <2>1, SubSeqProperties
    <3>3. Len(f) = IF 1 <= n - 1 THEN (n - 1) - 1 + 1 ELSE 0
      BY <3>2, <2>1, Zenon
    <3> HIDE DEF n, f
    <3> QED
      BY <3>3, <1>1
  <2>4. ASSUME NEW i \in 1..(n - 1) PROVE f[i] = q[i]
    <3>1. i \in 1..((n - 1) - 1 + 1) /\ 1 + i - 1 = i /\ i \in 1..n
      BY <1>1
    <3> QED
      BY <3>1, <2>1, <1>1
  <2> QED
    BY <2>2, <2>3, <2>4
<1>3. Last(q) = q[n] /\ ToSet(q) = {q[i] : i \in 1..n} /\ ToSet(f) = {f[i] : i \in 1..(n - 1)}
  BY <1>2, ToSetIs DEF Last
<1>4. \A i, j \in 1..n : q[i] = q[j] => i = j
  BY DEF Distinct
<1> HIDE DEF f, n
<1>5. Distinct(f)
  BY <1>1, <1>2, <1>4 DEF Distinct
<1>6. Last(q) \in ToSet(q)
  BY <1>1, <1>3
<1>7. ASSUME NEW x \in ToSet(f) PROVE x \in ToSet(q) \ {Last(q)}
  <2>1. PICK i \in 1..(n - 1) : x = f[i]
    BY <1>3
  <2>2. i \in 1..n /\ n \in 1..n /\ i # n
    BY <1>1
  <2> QED
    BY <2>1, <2>2, <1>2, <1>3, <1>4
<1>8. ASSUME NEW x \in ToSet(q) \ {Last(q)} PROVE x \in ToSet(f)
  <2>1. PICK i \in 1..n : x = q[i] /\ i # n
    BY <1>3
  <2>2. i \in 1..(n - 1)
    BY <2>1, <1>1
  <2> QED
    BY <2>1, <2>2, <1>2, <1>3
<1> QED
  BY <1>2, <1>5, <1>6, <1>7, <1>8 DEF f
Starts(w) == {w} \cup Linked(w)
Seen(at) == ToSet(at.queue) \cup ToSet(at.res)

\* A root and what the corners link to it.
Rooted(w) ==
    /\ w \in WireCoords /\ Linked(w) \subseteq WireCoords /\ w \notin Linked(w)
    /\ \A x \in Starts(w) : ~ HasParent(x) /\ Upstream(x) = x

\* After n turns: no wire was seen twice, each came in as a start or from its parent,
\* and what comes after a wire that was visited was seen.
Walks(w, n) ==
    {at \in [queue : Seq(WireCoords), res : Seq(WireCoords)] :
        /\ Distinct(at.queue) /\ Distinct(at.res) /\ ToSet(at.queue) \cap ToSet(at.res) = {}
        /\ Starts(w) \subseteq Seen(at)
        /\ \A x \in Seen(at) : x \in Starts(w) \/ (HasParent(x) /\ Parent(x) \in ToSet(at.res))
        /\ \A x \in ToSet(at.res) : Downstream(x) \subseteq Seen(at)
        /\ at.queue = << >> \/ Len(at.res) = n}

\* A sequence of one ...
LEMMA Single ==
    ASSUME NEW W, NEW x \in W
    PROVE  <<x>> \in Seq(W) /\ Distinct(<<x>>) /\ ToSet(<<x>>) = {x} /\ Len(<<x>>) = 1
  BY DEF Distinct, ToSet

\* ... and of none.
LEMMA EmptyIs ==
    ASSUME NEW W
    PROVE  << >> \in Seq(W) /\ Distinct(<< >>) /\ ToSet(<< >>) = {} /\ Len(<< >>) = 0
  BY DEF Distinct, ToSet

\* The queue and the result at the start of wire_tree.
LEMMA WalkStarts ==
    ASSUME NEW w, Rooted(w)
    PROVE  [queue |-> <<w>> \o SetToSeq(Linked(w)), res |-> << >>] \in Walks(w, 0)
<1> DEFINE rest == SetToSeq(Linked(w))
           queue == <<w>> \o rest
           at == [queue |-> queue, res |-> << >>]
<1>1. w \in WireCoords /\ Linked(w) \subseteq WireCoords /\ w \notin Linked(w)
  BY DEF Rooted
<1>2. rest \in Seq(WireCoords) /\ Distinct(rest) /\ ToSet(rest) = Linked(w)
  <2>1. IsFiniteSet(Linked(w))
    BY <1>1, WiresFinite, FS_Subset
  <2>2. rest \in Seq(Linked(w)) /\ Distinct(rest) /\ ToSet(rest) = Linked(w)
    BY <2>1, SetToSeqIs
  <2> HIDE DEF rest
  <2> QED
    BY <2>2, <1>1
<1> HIDE DEF rest
<1>3. queue \in Seq(WireCoords) /\ Distinct(queue) /\ ToSet(queue) = {w} \cup Linked(w)
  <2>1. <<w>> \in Seq(WireCoords) /\ Distinct(<<w>>) /\ ToSet(<<w>>) = {w}
    BY <1>1, Single
  <2>2. ToSet(<<w>>) \cap ToSet(rest) = {}
    BY <2>1, <1>1, <1>2
  <2> QED
    BY <2>1, <2>2, <1>2, Concatenated
<1> HIDE DEF queue
<1>4. at.queue = queue /\ at.res = << >> /\ Seen(at) = {w} \cup Linked(w)
  BY <1>3, EmptyIs DEF Seen
<1>5. at \in [queue : Seq(WireCoords), res : Seq(WireCoords)]
  BY <1>3
<1> HIDE DEF at
<1>6. at \in Walks(w, 0)
  BY <1>3, <1>4, <1>5, EmptyIs DEF Walks, Starts
<1> QED
  BY <1>6 DEF at, queue, rest

\* One round of the loop of wire_tree keeps its invariant.
LEMMA VisitWalks ==
    ASSUME GridFits, Indexed, NEW w, Rooted(w), NEW n \in Nat, n # 0, NEW at \in Walks(w, n - 1)
    PROVE  Visit(at) \in Walks(w, n)
<1>1. /\ at \in [queue : Seq(WireCoords), res : Seq(WireCoords)]
      /\ at.queue \in Seq(WireCoords) /\ at.res \in Seq(WireCoords)
      /\ Distinct(at.queue) /\ Distinct(at.res) /\ ToSet(at.queue) \cap ToSet(at.res) = {}
      /\ Starts(w) \subseteq Seen(at)
      /\ \A x \in Seen(at) : x \in Starts(w) \/ (HasParent(x) /\ Parent(x) \in ToSet(at.res))
      /\ \A x \in ToSet(at.res) : Downstream(x) \subseteq Seen(at)
      /\ at.queue = << >> \/ Len(at.res) = n - 1
  BY DEF Walks
<1>2. CASE at.queue = << >>
  BY <1>1, <1>2 DEF Visit, Walks
<1>3. CASE at.queue # << >>
  <2> DEFINE q == at.queue
             x == Last(q)
             D == Downstream(x)
             more == SetToSeq(D)
             next == Visit(at)
  <2>1. /\ Front(q) \in Seq(WireCoords) /\ Distinct(Front(q))
        /\ x \in ToSet(q) /\ ToSet(Front(q)) = ToSet(q) \ {x}
    BY <1>1, <1>3, FrontAndLast
  <2>2. x \in WireCoords /\ ToSet(q) \subseteq WireCoords /\ ToSet(at.res) \subseteq WireCoords
    <3>1. ToSet(q) \subseteq WireCoords /\ ToSet(at.res) \subseteq WireCoords
      BY <1>1, ToSetIs
    <3> QED
      BY <3>1, <2>1
  <2>3. D = {y \in WireCoords : HasParent(y) /\ Parent(y) = x}
    BY <2>2, DownstreamIs
  <2>4. next = [queue |-> Front(q) \o more, res |-> Append(at.res, x)]
    BY <1>3 DEF Visit
  <2>5. more \in Seq(WireCoords) /\ Distinct(more) /\ ToSet(more) = D
    <3>1. IsFiniteSet(D)
      BY <2>3, WiresFinite, FS_Subset
    <3>2. more \in Seq(D) /\ Distinct(more) /\ ToSet(more) = D
      BY <3>1, SetToSeqIs
    <3>3. D \subseteq WireCoords
      BY <2>3
    <3> HIDE DEF more, D
    <3> QED
      BY <3>2, <3>3
  <2>6. D \cap Seen(at) = {}
    <3> SUFFICES ASSUME NEW y \in D, y \in Seen(at) PROVE FALSE
      OBVIOUS
    <3>1. HasParent(y) /\ Parent(y) = x
      BY <2>3
    <3>2. y \notin Starts(w)
      BY <3>1 DEF Rooted
    <3>3. x \in ToSet(at.res)
      BY <3>1, <3>2, <1>1
    <3> QED
      BY <3>3, <2>1, <1>1
  <2> HIDE DEF D, more, x, q
  <2>7. /\ Front(q) \o more \in Seq(WireCoords) /\ Distinct(Front(q) \o more)
        /\ ToSet(Front(q) \o more) = (ToSet(q) \ {x}) \cup D
    <3>1. ToSet(Front(q)) \cap ToSet(more) = {}
      BY <2>1, <2>5, <2>6 DEF Seen, q
    <3> QED
      BY <3>1, <2>1, <2>5, Concatenated
  <2>8. /\ Append(at.res, x) \in Seq(WireCoords) /\ Distinct(Append(at.res, x))
        /\ ToSet(Append(at.res, x)) = ToSet(at.res) \cup {x}
        /\ Len(Append(at.res, x)) = n
    <3> DEFINE last == <<x>>
    <3>1. Append(at.res, x) = at.res \o last
      BY <1>1, <2>2
    <3>2. last \in Seq(WireCoords) /\ Distinct(last) /\ ToSet(last) = {x}
      BY <2>2, Single
    <3> HIDE DEF last
    <3>3. ToSet(at.res) \cap ToSet(last) = {}
      BY <3>2, <2>1, <1>1 DEF q
    <3>4. at.res \o last \in Seq(WireCoords) /\ Distinct(at.res \o last)
          /\ ToSet(at.res \o last) = ToSet(at.res) \cup ToSet(last)
      BY <3>2, <3>3, <1>1, Concatenated
    <3>5. Len(Append(at.res, x)) = n
      BY <1>1, <1>3, <2>2
    <3> QED
      BY <3>1, <3>2, <3>4, <3>5
  <2>9. /\ next \in [queue : Seq(WireCoords), res : Seq(WireCoords)]
        /\ next.queue = Front(q) \o more /\ next.res = Append(at.res, x)
    BY <2>4, <2>7, <2>8
  <2> HIDE DEF next
  <2>10. Seen(next) = Seen(at) \cup D
    BY <2>1, <2>7, <2>8, <2>9 DEF Seen, q
  <2>11. Distinct(next.queue) /\ Distinct(next.res) /\ ToSet(next.queue) \cap ToSet(next.res) = {}
    <3>1. ToSet(next.queue) = (ToSet(q) \ {x}) \cup D /\ ToSet(next.res) = ToSet(at.res) \cup {x}
      BY <2>7, <2>8, <2>9
    <3>2. x \in Seen(at) /\ ToSet(at.res) \subseteq Seen(at)
      BY <2>1 DEF Seen, q
    <3>3. ToSet(q) \cap ToSet(at.res) = {}
      BY <1>1 DEF q
    <3> QED
      BY <3>1, <3>2, <3>3, <2>6, <2>7, <2>8, <2>9
  <2>12. ASSUME NEW y \in Seen(next)
         PROVE  y \in Starts(w) \/ (HasParent(y) /\ Parent(y) \in ToSet(next.res))
    <3>1. CASE y \in Seen(at)
      BY <3>1, <1>1, <2>8, <2>9
    <3>2. CASE y \in D
      <4>1. HasParent(y) /\ Parent(y) = x
        BY <3>2, <2>3
      <4> QED
        BY <4>1, <2>8, <2>9
    <3> QED
      BY <3>1, <3>2, <2>10
  <2>13. ASSUME NEW y \in ToSet(next.res) PROVE Downstream(y) \subseteq Seen(next)
    <3>1. CASE y \in ToSet(at.res)
      BY <3>1, <1>1, <2>10
    <3>2. CASE y = x
      BY <3>2, <2>10 DEF D
    <3> QED
      BY <3>1, <3>2, <2>8, <2>9
  <2>14. Starts(w) \subseteq Seen(next) /\ Len(next.res) = n
    BY <1>1, <2>8, <2>9, <2>10
  <2>15. next \in Walks(w, n)
    BY <2>9, <2>11, <2>12, <2>13, <2>14 DEF Walks
  <2> QED
    BY <2>15 DEF next
<1> QED
  BY <1>2, <1>3

\* The walk ends with all wires seen visited.
LEMMA WalkEnds ==
    ASSUME GridFits, Indexed, NEW w, Rooted(w), w \notin blackhole_wires
    PROVE  \E at \in Walks(w, Cardinality(WireCoords) + 1) : wire_tree(w) = at.res
<1> DEFINE N == Cardinality(WireCoords) + 1
           V == [n \in 0..N |-> Walks(w, n)]
           G == [n \in 1..N |-> [at \in V[n - 1] |-> Visit(at)]]
           start == [queue |-> <<w>> \o SetToSeq(Linked(w)), res |-> << >>]
           walk[n \in 0..(Cardinality(WireCoords) + 1)] ==
               IF n = 0 THEN [queue |-> <<w>> \o SetToSeq(Linked(w)), res |-> << >>]
               ELSE Visit(walk[n - 1])
<1>1. N \in Nat /\ N # 0
  BY WiresFinite, FS_CardinalityType
<1>2. start \in V[0] /\ \A n \in 0..N : V[n] = Walks(w, n)
  BY <1>1, WalkStarts
<1>3. \A n \in 1..N : \A at \in V[n - 1] : Visit(at) \in V[n]
  <2> SUFFICES ASSUME NEW n \in 1..N, NEW at \in V[n - 1] PROVE Visit(at) \in V[n]
    OBVIOUS
  <2>1. n \in Nat /\ n # 0 /\ at \in Walks(w, n - 1) /\ V[n] = Walks(w, n)
    BY <1>1, <1>2
  <2> QED
    BY <2>1, VisitWalks
<1> HIDE DEF N, V
<1>4. \A n \in 1..N : G[n] \in [V[n - 1] -> V[n]]
  BY <1>3
<1>5. \A n \in 1..N : \A at \in V[n - 1] : G[n][at] = Visit(at)
  OBVIOUS
<1> HIDE DEF G
<1>6. \E f : f = [n \in 0..N |-> IF n = 0 THEN start ELSE Visit(f[n - 1])]
  <2>1. PICK f : Iterates(f, N, V, G, start)
    <3> HIDE DEF start
    <3> QED
      BY <1>1, <1>2, <1>4, Iterate
  <2> HIDE DEF start
  <2>2. \A n \in 0..N : n # 0 => n \in 1..N /\ n - 1 \in 0..N
    BY <1>1
  <2>3. \A n \in 0..N : n # 0 => G[n][f[n - 1]] = Visit(f[n - 1])
    BY <2>1, <2>2, <1>5 DEF Iterates
  <2>4. f = [n \in 0..N |-> IF n = 0 THEN start ELSE Visit(f[n - 1])]
    BY <2>1, <2>3 DEF Iterates
  <2> QED
    BY <2>4
<1>7. walk = [n \in 0..N |-> IF n = 0 THEN start ELSE Visit(walk[n - 1])]
  BY <1>6 DEF N
<1>8. wire_tree(w) = walk[N].res
  BY DEF wire_tree, N
<1> HIDE DEF walk, start
<1>9. \A n \in 0..N : walk[n] \in V[n]
  <2>1. walk[0] \in V[0]
    BY <1>2, <1>7, <1>1
  <2>2. \A n \in 1..N : walk[n] = Visit(walk[n - 1])
    BY <1>7, <1>1
  <2>3. \A n \in 1..N : walk[n - 1] \in V[n - 1] => walk[n] = G[n][walk[n - 1]]
    BY <2>2, <1>5
  <2> QED
    BY <2>1, <2>3, <1>1, <1>4, Iterated
<1>10. walk[N] \in Walks(w, N)
  BY <1>9, <1>1, <1>2
<1> QED
  BY <1>8, <1>10 DEF N

\* The tree of a root: each wire that ends at it or at what is linked to it, once.
LEMMA TreeIs ==
    ASSUME GridFits, Indexed, NEW w, Rooted(w), w \notin blackhole_wires
    PROVE  /\ wire_tree(w) \in Seq(WireCoords) /\ Distinct(wire_tree(w))
           /\ ToSet(wire_tree(w)) = {x \in WireCoords : Upstream(x) \in Starts(w)}
<1> DEFINE N == Cardinality(WireCoords) + 1
<1>1. PICK at \in Walks(w, N) : wire_tree(w) = at.res
  BY WalkEnds
<1>2. /\ at.queue \in Seq(WireCoords) /\ at.res \in Seq(WireCoords)
      /\ Distinct(at.res) /\ Starts(w) \subseteq Seen(at)
      /\ \A x \in Seen(at) : x \in Starts(w) \/ (HasParent(x) /\ Parent(x) \in ToSet(at.res))
      /\ \A x \in ToSet(at.res) : Downstream(x) \subseteq Seen(at)
      /\ at.queue = << >> \/ Len(at.res) = N
  BY DEF Walks
<1>3. at.queue = << >>
  <2>1. SUFFICES ASSUME Len(at.res) = N PROVE FALSE
    BY <1>2
  <2>2. Cardinality(WireCoords) \in Nat
    BY WiresFinite, FS_CardinalityType
  <2>3. at.res \in [1..N -> WireCoords] /\ \A i, j \in 1..N : at.res[i] = at.res[j] => i = j
    BY <2>1, <1>2 DEF Distinct
  <2>4. IsFiniteSet(1..N) /\ Cardinality(1..N) = N
    BY <2>2, FS_Interval
  <2>5. \E i, j \in 1..N : i # j /\ at.res[i] = at.res[j]
    <3>1. Cardinality(WireCoords) < Cardinality(1..N)
      BY <2>2, <2>4
    <3>2. at.res \in [1..N -> WireCoords] /\ IsFiniteSet(1..N) /\ IsFiniteSet(WireCoords)
      BY <2>3, <2>4, WiresFinite
    <3> HIDE DEF N
    <3> QED
      BY <3>1, <3>2, FS_PigeonHole
  <2> QED
    BY <2>3, <2>5
<1> DEFINE tree == ToSet(at.res)
<1>4. Seen(at) = tree /\ tree \subseteq WireCoords
  BY <1>2, <1>3, EmptyIs, ToSetIs DEF Seen
<1> HIDE DEF tree
<1>5. /\ Starts(w) \subseteq tree
      /\ \A x \in tree : x \in Starts(w) \/ (HasParent(x) /\ Parent(x) \in tree)
      /\ \A x \in tree : \A y \in WireCoords : HasParent(y) /\ Parent(y) = x => y \in tree
  <2>1. \A x \in tree : Downstream(x) = {y \in WireCoords : HasParent(y) /\ Parent(y) = x}
    BY <1>4, DownstreamIs
  <2> QED
    BY <1>2, <1>4, <2>1 DEF tree
<1>6. Starts(w) \subseteq WireCoords /\ \A x \in Starts(w) : Upstream(x) = x
  BY DEF Rooted, Starts
<1>7. \A x \in tree : Upstream(x) \in Starts(w)
  <2> DEFINE B == {x \in tree : Upstream(x) \notin Starts(w)}
  <2>1. SUFFICES ASSUME B # {} PROVE FALSE
    OBVIOUS
  <2>2. PICK x \in B : \A y \in B : Height(x) <= Height(y)
    <3>1. B \in SUBSET WireCoords
      BY <1>4
    <3> HIDE DEF B
    <3> QED
      BY <3>1, <2>1, Lowest
  <2>3. x \in tree /\ x \in WireCoords /\ Upstream(x) \notin Starts(w)
    BY <1>4
  <2>4. CASE x \in Starts(w)
    BY <2>3, <2>4, <1>6
  <2>5. CASE HasParent(x) /\ Parent(x) \in tree
    <3>1. /\ Height(Parent(x)) \in Nat /\ Height(x) \in Nat /\ Height(Parent(x)) < Height(x)
          /\ Upstream(x) = Upstream(Parent(x))
      BY <2>3, <2>5, ParentFacts
    <3>2. Parent(x) \in B
      BY <3>1, <2>3, <2>5
    <3> HIDE DEF B
    <3> QED
      BY <3>1, <3>2, <2>2
  <2> QED
    BY <2>3, <2>4, <2>5, <1>5
<1>8. \A x \in WireCoords : Upstream(x) \in Starts(w) => x \in tree
  <2> DEFINE B == {x \in WireCoords : Upstream(x) \in Starts(w) /\ x \notin tree}
  <2>1. SUFFICES ASSUME B # {} PROVE FALSE
    OBVIOUS
  <2>2. PICK x \in B : \A y \in B : Height(x) <= Height(y)
    <3>1. B \in SUBSET WireCoords
      OBVIOUS
    <3> HIDE DEF B
    <3> QED
      BY <3>1, <2>1, Lowest
  <2>3. x \in WireCoords /\ Upstream(x) \in Starts(w) /\ x \notin tree
    OBVIOUS
  <2>4. CASE ~ HasParent(x)
    <3>1. Upstream(x) \in {x, NoWire}
      BY <2>3, <2>4, ParentFacts
    <3>2. Upstream(x) # NoWire
      BY <2>3, <1>6, CellFacts
    <3> QED
      BY <3>1, <3>2, <2>3, <1>5
  <2>5. CASE HasParent(x)
    <3>1. /\ Height(Parent(x)) \in Nat /\ Height(x) \in Nat /\ Height(Parent(x)) < Height(x)
          /\ Upstream(x) = Upstream(Parent(x)) /\ Parent(x) \in WireCoords
      BY <2>3, <2>5, ParentFacts
    <3>2. Parent(x) \in B
      BY <3>1, <2>3, <2>5, <1>5
    <3> HIDE DEF B
    <3> QED
      BY <3>1, <3>2, <2>2
  <2> QED
    BY <2>4, <2>5
<1> QED
  BY <1>1, <1>2, <1>4, <1>7, <1>8 DEF tree
-----------------------------------------------------------------------------
(* The whole grid.                                                         *)

\* What corners link are roots, each at one end of one link only.
LinksFit ==
    \A x \in DOMAIN extra_conns :
        /\ x \in WireCoords /\ Upstream(x) = x
        /\ extra_conns[x] \in WireCoords /\ Upstream(extra_conns[x]) = extra_conns[x]
        /\ extra_conns[x] \notin DOMAIN extra_conns

\* A wire that resolve_wire returns is a root, and those that end at it are those of its tree.
LEMMA ResolvedRoot ==
    ASSUME GridFits, LinksFit, NEW v \in WireCoords, NEW r, r = resolve_wire(v), r # NoWire
    PROVE  /\ r \in WireCoords /\ r \notin blackhole_wires /\ Rooted(r) /\ resolve_wire(r) = r
           /\ \A x \in WireCoords : resolve_wire(x) = r <=> Upstream(x) \in Starts(r)
<1> DEFINE over(u) == IF u \in DOMAIN extra_conns THEN extra_conns[u] ELSE u
<1>1. \A x : resolve_wire(x) = IF over(Upstream(x)) \in blackhole_wires THEN NoWire ELSE over(Upstream(x))
  BY DEF resolve_wire
<1>2. NoWire \notin DOMAIN extra_conns /\ NoWire \notin WireCoords
  BY CellFacts DEF LinksFit
<1>3. r = over(Upstream(v)) /\ r \notin blackhole_wires
  BY <1>1
<1>4. Upstream(v) \in WireCoords
  BY <1>2, <1>3, UpstreamEnds
<1>5. r \in WireCoords /\ Upstream(r) = r /\ r \notin DOMAIN extra_conns
  <2>1. CASE Upstream(v) \in DOMAIN extra_conns
    BY <2>1, <1>3 DEF LinksFit
  <2>2. CASE Upstream(v) \notin DOMAIN extra_conns
    BY <2>2, <1>2, <1>3, <1>4, UpstreamEnds
  <2> QED
    BY <2>1, <2>2
<1>6. Linked(r) = {x \in DOMAIN extra_conns : extra_conns[x] = r}
  BY DEF Linked
<1>7. Rooted(r)
  <2>1. \A x \in Starts(r) : x \in WireCoords /\ Upstream(x) = x
    BY <1>5, <1>6 DEF Starts, LinksFit
  <2>2. \A x \in Starts(r) : ~ HasParent(x)
    BY <2>1, <1>2, UpstreamEnds
  <2>3. Linked(r) \subseteq WireCoords /\ r \notin Linked(r)
    BY <1>5, <1>6 DEF LinksFit
  <2> QED
    BY <2>1, <2>2, <2>3, <1>5 DEF Rooted
<1>8. resolve_wire(r) = r
  BY <1>1, <1>3, <1>5
<1>9. ASSUME NEW x \in WireCoords PROVE resolve_wire(x) = r <=> Upstream(x) \in Starts(r)
  <2>1. resolve_wire(x) = r <=> over(Upstream(x)) = r
    BY <1>1, <1>3
  <2>2. CASE Upstream(x) \in DOMAIN extra_conns
    BY <2>1, <2>2, <1>5, <1>6 DEF Starts
  <2>3. CASE Upstream(x) \notin DOMAIN extra_conns
    BY <2>1, <2>3, <1>6 DEF Starts
  <2> QED
    BY <2>2, <2>3
<1> QED
  BY <1>3, <1>5, <1>7, <1>8, <1>9

\* The tree of what resolve_wire returns is all that resolves to it.
LEMMA ResolvedTree ==
    ASSUME GridFits, LinksFit, Indexed, NEW v \in WireCoords, NEW r, r = resolve_wire(v), r # NoWire
    PROVE  /\ ToSet(wire_tree(r)) = {x \in WireCoords : resolve_wire(x) = r}
           /\ Len(wire_tree(r)) = Cardinality(ToSet(wire_tree(r)))
<1>1. /\ Rooted(r) /\ r \notin blackhole_wires
      /\ \A x \in WireCoords : resolve_wire(x) = r <=> Upstream(x) \in Starts(r)
  BY ResolvedRoot
<1> DEFINE tree == wire_tree(r)
           n == Len(tree)
<1>2. /\ tree \in Seq(WireCoords) /\ Distinct(tree)
      /\ ToSet(tree) = {x \in WireCoords : Upstream(x) \in Starts(r)}
  BY <1>1, TreeIs
<1>3. ToSet(tree) = {x \in WireCoords : resolve_wire(x) = r}
  BY <1>1, <1>2
<1> HIDE DEF tree
<1>4. n \in Nat /\ ToSet(tree) = {tree[i] : i \in 1..n}
  BY <1>2, ToSetIs
<1>5. tree \in Bijection(1..n, ToSet(tree))
  <2>1. tree = [i \in 1..n |-> tree[i]] /\ DOMAIN tree = 1..n
    BY <1>2
  <2>2. tree \in [1..n -> ToSet(tree)] /\ \A i, j \in 1..n : tree[i] = tree[j] => i = j
    BY <2>1, <1>2, <1>4 DEF Distinct
  <2>3. \A x \in ToSet(tree) : \E i \in 1..n : tree[i] = x
    BY <1>4
  <2> HIDE DEF n
  <2> QED
    BY <2>1, <2>2, <2>3 DEF Bijection, Injection, Surjection, IsInjective
<1>6. Cardinality(ToSet(tree)) = n
  <2>1. ExistsBijection(1..n, ToSet(tree))
    BY <1>5 DEF ExistsBijection
  <2> HIDE DEF n
  <2> QED
    BY <2>1, <1>4, FS_CountingElements
<1> QED
  BY <1>3, <1>6 DEF tree

\* Tiles are those the expansion may add, over as many cells as their class spans.
TilesFit == tiles \subseteq Sites /\ \A t \in tiles : Len(t.cells) = TileClasses[t.class].cells

Phases ==
    /\ phase \in {"tiles", "links", "done"}
    /\ phase = "tiles" => extra_conns = << >>
    /\ phase = "done" => Indexed

\* Each conjunct is needed for the next: connectors that fit and roots that are their own
\* make the steps towards a root finite, and links are between ends of such ways.
IInv == conns \in Grids /\ RootsFit /\ TilesFit /\ Phases /\ LinksFit

\* The empty grid.
LEMMA InitIInv == Init => IInv
<1> SUFFICES ASSUME Init PROVE IInv
  OBVIOUS
<1>1. conns \in Grids
  <2>1. << >> \in [{} -> Connectors] /\ {} \in SUBSET Slots
    OBVIOUS
  <2>2. << >> \in ConnMaps
    BY <2>1 DEF ConnMaps
  <2>3. conns \in [Cells -> ConnMaps] /\ \A c \in Cells : DOMAIN conns[c] = {}
    BY <2>2 DEF Init
  <2> QED
    BY <2>3 DEF Grids
<1>2. RootsFit
  <2>1. \A c \in Cells : \A r \in RegionSlots : region_root[c][r] = c
    BY DEF Init
  <2>2. region_root \in [Cells -> [RegionSlots -> Cells]]
    BY DEF Init
  <2> QED
    BY <2>1, <2>2 DEF RootsFit
<1>3. TilesFit /\ Phases /\ LinksFit
  BY DEF Init, TilesFit, Phases, LinksFit
<1> QED
  BY <1>1, <1>2, <1>3 DEF IInv

\* Only finish makes the index.
LEMMA PhasesKept ==
    ASSUME Phases, UNCHANGED <<region_root, extra_conns, region_root_cells, phase>>
    PROVE  Phases'
<1>1. Indexed => Indexed'
  BY DEF Indexed
<1> QED
  BY <1>1 DEF Phases

\* As long as connectors and regions stay, so do the ways to the roots.
LEMMA LinksKept ==
    ASSUME LinksFit, UNCHANGED <<conns, region_root, extra_conns>>
    PROVE  LinksFit'
<1>1. \A x : Upstream(x)' = Upstream(x)
  BY DEF Upstream, Led, Has, Conn, Way, Origin, IsBranch
<1> QED
  BY <1>1 DEF LinksFit

\* Every step of the expansion keeps the parts of the invariant.
LEMMA NextIInv == IInv /\ [Next]_vars => IInv'
<1> SUFFICES ASSUME IInv, [Next]_vars PROVE IInv'
  OBVIOUS
<1> USE DEF IInv
<1>1. ASSUME NEW s \in Sites, add_tile(s) PROVE IInv'
  <2>1. UNCHANGED <<conns, region_root, extra_conns, region_root_cells, phase>>
    BY <1>1 DEF add_tile, gridVars
  <2>2. TilesFit'
    BY <1>1 DEF add_tile, TilesFit
  <2>3. LinksFit' /\ Phases'
    BY <2>1, LinksKept, PhasesKept
  <2> QED
    BY <2>1, <2>2, <2>3 DEF RootsFit
<1>2. ASSUME NEW p \in PairSites, fill_conn_pair(p.a, p.b, p.fwd, p.bwd) PROVE IInv'
  <2>1. UNCHANGED <<tiles, region_root, extra_conns, region_root_cells, phase>> /\ phase = "tiles"
    BY <1>2 DEF fill_conn_pair, gridVars
  <2>2. /\ p.a \in Cells /\ p.b \in Cells /\ p.a # p.b /\ Opposed(p.fwd, p.bwd)
        /\ Ends(p.fwd, p.a, p.b) /\ Ends(p.bwd, p.b, p.a)
    BY OppositeAssumption, DepthAssumption
  <2>3. conns' \in Grids
    BY <1>2, <2>2, JoinedFits DEF fill_conn_pair, Has
  <2> QED
    BY <2>1, <2>3 DEF RootsFit, TilesFit, Phases, Indexed, LinksFit
<1>3. ASSUME NEW p \in TermSites, fill_conn_term(p.cell, p.class) PROVE IInv'
  <2>1. UNCHANGED <<tiles, region_root, extra_conns, region_root_cells, phase>> /\ phase = "tiles"
    BY <1>3 DEF fill_conn_term, gridVars
  <2>2. p.cell \in Cells /\ p.class \in DOMAIN ConnClasses /\ Ends(p.class, p.cell, NoCell)
    BY OppositeAssumption, DepthAssumption
  <2>3. conns' \in Grids
    BY <1>3, <2>2, PutTerm DEF fill_conn_term, Has
  <2> QED
    BY <2>1, <2>3 DEF RootsFit, TilesFit, Phases, Indexed, LinksFit
<1>4. ASSUME fill_main_passes PROVE IInv'
  <2>1. UNCHANGED <<tiles, region_root, extra_conns, region_root_cells, phase>> /\ phase = "tiles"
    BY <1>4 DEF fill_main_passes, gridVars
  <2>2. conns' \in Grids
    BY <1>4, AcrossFits, UpAndDownFits DEF fill_main_passes
  <2> QED
    BY <2>1, <2>2 DEF RootsFit, TilesFit, Phases, Indexed, LinksFit
<1>5. ASSUME NEW r \in RegionSlots, NEW m \in RootMaps, SetRegions(r, m) PROVE IInv'
  <2>1. UNCHANGED <<tiles, conns, extra_conns>> /\ phase = "tiles" /\ phase' = "links"
    BY <1>5 DEF SetRegions
  <2>2. region_root' = [c \in Cells |-> [region_root[c] EXCEPT ![r] = m[c]]]
    BY <1>5 DEF SetRegions
  <2>3. m \in [Cells -> Cells] /\ \A c \in Cells : m[m[c]] = m[c]
    BY RegionsAssumption
  <2>4. /\ region_root' \in [Cells -> [RegionSlots -> Cells]]
        /\ \A c \in Cells, s \in RegionSlots :
              region_root'[c][s] = IF s = r THEN m[c] ELSE region_root[c][s]
    BY <2>2, <2>3 DEF RootsFit
  <2>5. RootsFit'
    <3> SUFFICES ASSUME NEW c \in Cells, NEW s \in RegionSlots
                 PROVE  region_root'[region_root'[c][s]][s] = region_root'[c][s]
      BY <2>4 DEF RootsFit
    <3>1. CASE s = r
      BY <3>1, <2>3, <2>4
    <3>2. CASE s # r
      <4>1. region_root[c][s] \in Cells /\ region_root[region_root[c][s]][s] = region_root[c][s]
        BY DEF RootsFit
      <4> QED
        BY <3>2, <4>1, <2>4
    <3> QED
      BY <3>1, <3>2
  <2> QED
    BY <2>1, <2>5 DEF TilesFit, Phases, LinksFit
<1>6. ASSUME NEW p \in Corners, LinkCorner(p[1], p[2]) PROVE IInv'
  <2> DEFINE wh == resolve_wire(p[1])
             wv == resolve_wire(p[2])
  <2>1. UNCHANGED <<tiles, conns, region_root, region_root_cells, phase>> /\ phase = "links"
    BY <1>6 DEF LinkCorner
  <2>2. /\ wh # NoWire /\ wv # NoWire /\ wh # wv
        /\ \A x \in DOMAIN extra_conns : extra_conns[x] # wh
        /\ wv \notin DOMAIN extra_conns
        /\ extra_conns' = insert(wh, wv)
    BY <1>6 DEF LinkCorner
  <2>3. p[1] \in WireCoords /\ p[2] \in WireCoords
    BY CornersAssumption
  <2>4. /\ wh \in WireCoords /\ Upstream(wh) = wh
        /\ wv \in WireCoords /\ Upstream(wv) = wv
    BY <2>2, <2>3, ResolvedRoot DEF GridFits, Rooted, Starts
  <2> HIDE DEF wh, wv
  <2>5. /\ DOMAIN extra_conns' = {x \in DOMAIN extra_conns : x # wh /\ extra_conns[x] # wv} \cup {wh}
        /\ \A x \in DOMAIN extra_conns' : extra_conns'[x] = IF x = wh THEN wv ELSE extra_conns[x]
    BY <2>2 DEF insert
  <2>6. \A x : Upstream(x)' = Upstream(x)
    BY <2>1 DEF Upstream, Led, Has, Conn, Way, Origin, IsBranch
  <2>7. LinksFit'
    <3> SUFFICES ASSUME NEW x \in DOMAIN extra_conns'
                 PROVE  /\ x \in WireCoords /\ Upstream(x) = x
                        /\ extra_conns'[x] \in WireCoords /\ Upstream(extra_conns'[x]) = extra_conns'[x]
                        /\ extra_conns'[x] \notin DOMAIN extra_conns'
      BY <2>6 DEF LinksFit
    <3>1. CASE x = wh
      BY <3>1, <2>2, <2>4, <2>5
    <3>2. CASE x # wh
      BY <3>2, <2>2, <2>5 DEF LinksFit
    <3> QED
      BY <3>1, <3>2
  <2> QED
    BY <2>1, <2>7 DEF RootsFit, TilesFit, Phases, Indexed
<1>7. ASSUME NEW ws \in Dead, MarkDead(ws) PROVE IInv'
  <2>1. UNCHANGED <<tiles, conns, region_root, extra_conns, region_root_cells, phase>>
    BY <1>7 DEF MarkDead
  <2>2. LinksFit' /\ Phases'
    BY <2>1, LinksKept, PhasesKept
  <2> QED
    BY <2>1, <2>2 DEF RootsFit, TilesFit
<1>8. ASSUME finish PROVE IInv'
  <2>1. UNCHANGED <<tiles, conns, region_root, extra_conns>> /\ phase' = "done"
    BY <1>8 DEF finish
  <2>2. Indexed'
    BY <1>8 DEF finish, Indexed
  <2> QED
    BY <2>1, <2>2, LinksKept DEF RootsFit, TilesFit, Phases
<1>9. ASSUME UNCHANGED vars PROVE IInv'
  <2>1. UNCHANGED <<tiles, conns, region_root, extra_conns, region_root_cells, phase>>
    BY <1>9 DEF vars
  <2>2. LinksFit' /\ Phases'
    BY <2>1, LinksKept, PhasesKept
  <2> QED
    BY <2>1, <2>2 DEF RootsFit, TilesFit
<1> QED
  BY <1>1, <1>2, <1>3, <1>4, <1>5, <1>6, <1>7, <1>8, <1>9 DEF Next

\* Connectors, regions, tiles and links fit together at every step of the expansion:
\* connectors are of their slots and lead nearer to the roots, roots are their own.
THEOREM GridCorrect == Spec => []IInv
<1> QED
  BY InitIInv, NextIInv, PTL DEF Spec

-----------------------------------------------------------------------------
(* The properties.                                                         *)

\* The test before a connector is put in, in fill_main_passes and in the callers of
\* fill_conn_pair, keeps both ends of every connector in step, whatever the order.
THEOREM EndsMeet == Spec => []BackAndForth
<1>1. IInv => BackAndForth
  <2> SUFFICES ASSUME IInv, NEW c \in Cells, NEW s \in DOMAIN conns[c], conns[c][s].target # NoCell
               PROVE  LET there == conns[c][s].target
                      IN Has(there, Opposite[s]) /\ conns[there][Opposite[s]].target = c
    BY DEF BackAndForth
  <2>1. Fits(conns, c, s)
    BY ConnFacts DEF IInv, GridFits
  <2> QED
    BY <2>1 DEF Fits, Has
<1> QED
  BY <1>1, GridCorrect, PTL

\* What finish would check if it was told to: resolve_wire and wire_tree agree on every grid.
THEOREM TreesAreRoots == Spec => []TreesAgree
<1>1. IInv => TreesAgree
  <2> SUFFICES ASSUME IInv, phase = "done" PROVE TreesAgree
    BY DEF TreesAgree
  <2> DEFINE root == {<<w, resolve_wire(w)>> : w \in WireCoords}
             Roots == {p[2] : p \in root} \ {NoWire}
  <2>1. GridFits /\ LinksFit /\ Indexed
    BY DEF IInv, GridFits, Phases
  <2>2. \A w \in WireCoords : \A r : <<w, r>> \in root <=> resolve_wire(w) = r
    OBVIOUS
  <2>3. \A r \in Roots : \E v \in WireCoords : r = resolve_wire(v) /\ r # NoWire
    OBVIOUS
  <2> HIDE DEF root, Roots
  <2>4. ASSUME NEW r \in Roots
        PROVE  /\ <<r, r>> \in root
               /\ ToSet(wire_tree(r)) = {w \in WireCoords : <<w, r>> \in root}
               /\ Len(wire_tree(r)) = Cardinality(ToSet(wire_tree(r)))
    <3>1. PICK v \in WireCoords : r = resolve_wire(v) /\ r # NoWire
      BY <2>3
    <3>2. r \in WireCoords /\ resolve_wire(r) = r
      BY <2>1, <3>1, ResolvedRoot
    <3>3. /\ ToSet(wire_tree(r)) = {x \in WireCoords : resolve_wire(x) = r}
          /\ Len(wire_tree(r)) = Cardinality(ToSet(wire_tree(r)))
      BY <2>1, <3>1, ResolvedTree
    <3> QED
      BY <2>2, <3>2, <3>3
  <2> QED
    BY <2>4 DEF TreesAgree, root, Roots
<1> QED
  BY <1>1, GridCorrect, PTL

\* Every switch whose both ends have roots, as both walks describe it.
AllPips ==
    UNION {{Pip(t, p, resolve_wire(tile_wire(t, p.out)), resolve_wire(tile_wire(t, p.in))) :
               p \in {q \in TileClasses[t.class].pips :
                         /\ resolve_wire(tile_wire(t, q.in)) # NoWire
                         /\ resolve_wire(tile_wire(t, q.out)) # NoWire}} : t \in tiles}

\* What the index of tiles by cell holds.
LEMMA TileIndexIs ==
    ASSUME NEW cell, NEW ti
    PROVE  ti \in tile_index(cell) <=>
              \E t \in tiles : \E i \in DOMAIN t.cells : t.cells[i] = cell /\ ti = <<t, i>>
<1> DEFINE Of(t) == {<<t, i>> : i \in {j \in DOMAIN t.cells : t.cells[j] = cell}}
<1>1. tile_index(cell) = UNION {Of(t) : t \in tiles}
  BY DEF tile_index
<1>2. \A t : ti \in Of(t) <=> \E i \in DOMAIN t.cells : t.cells[i] = cell /\ ti = <<t, i>>
  OBVIOUS
<1> HIDE DEF Of
<1> QED
  BY <1>1, <1>2

\* Both ends of a switch are wires of the grid.
LEMMA PipFacts ==
    ASSUME TilesFit, NEW t \in tiles, NEW p \in TileClasses[t.class].pips
    PROVE  \A end \in {p.in, p.out} :
              /\ end[1] \in DOMAIN t.cells /\ end = <<end[1], end[2]>>
              /\ tile_wire(t, end) \in WireCoords
              /\ tile_wire(t, end) = <<t.cells[end[1]], end[2]>>
<1> SUFFICES ASSUME NEW end \in {p.in, p.out}
             PROVE  /\ end[1] \in DOMAIN t.cells /\ end = <<end[1], end[2]>>
                    /\ tile_wire(t, end) \in WireCoords
                    /\ tile_wire(t, end) = <<t.cells[end[1]], end[2]>>
  OBVIOUS
<1>1. t \in Sites /\ Len(t.cells) = TileClasses[t.class].cells
  BY DEF TilesFit
<1>2. t.class \in DOMAIN TileClasses /\ t.cells \in Seq(Cells)
  BY <1>1, TilesAssumption
<1>3. end = <<end[1], end[2]>> /\ end[1] \in 1..TileClasses[t.class].cells /\ end[2] \in Wires
  BY <1>1, TilesAssumption
<1>4. end[1] \in DOMAIN t.cells /\ t.cells[end[1]] \in Cells
  BY <1>1, <1>2, <1>3
<1> QED
  BY <1>3, <1>4 DEF tile_wire, WireCoords

\* Forwards every switch between nets is found ...
LEMMA ForwardPips ==
    ASSUME IInv, phase = "done"
    PROVE  Forward = AllPips
<1> DEFINE Roots == {resolve_wire(w) : w \in WireCoords} \ {NoWire}
           In(t, p) == resolve_wire(tile_wire(t, p.in))
           Out(t, p) == resolve_wire(tile_wire(t, p.out))
<1>1. GridFits /\ LinksFit /\ Indexed /\ TilesFit
  BY DEF IInv, GridFits, Phases
<1>2. \A z : z \in AllPips <=>
          \E t \in tiles : \E p \in TileClasses[t.class].pips :
              In(t, p) # NoWire /\ Out(t, p) # NoWire /\ z = Pip(t, p, Out(t, p), In(t, p))
  BY DEF AllPips
<1>3. ASSUME NEW w, NEW z
      PROVE  z \in wire_pips_fwd(w) <=>
                \E x \in ToSet(wire_tree(w)) : \E t \in tiles : \E i \in DOMAIN t.cells :
                \E p \in TileClasses[t.class].pips :
                   /\ t.cells[i] = x[1] /\ p.in = <<i, x[2]>> /\ Out(t, p) # NoWire
                   /\ z = Pip(t, p, Out(t, p), w)
  <2> DEFINE At(ti, x) == {Pip(ti[1], p, Out(ti[1], p), w) : p \in {q \in TileClasses[ti[1].class].pips :
                              q.in = <<ti[2], x[2]>> /\ Out(ti[1], q) # NoWire}}
             Over(x) == UNION {At(ti, x) : ti \in tile_index(x[1])}
  <2>1. wire_pips_fwd(w) = UNION {Over(x) : x \in ToSet(wire_tree(w))}
    BY DEF wire_pips_fwd
  <2>2. \A ti, x : z \in At(ti, x) <=>
            \E p \in TileClasses[ti[1].class].pips :
               p.in = <<ti[2], x[2]>> /\ Out(ti[1], p) # NoWire /\ z = Pip(ti[1], p, Out(ti[1], p), w)
    OBVIOUS
  <2> HIDE DEF At
  <2>3. \A x : z \in Over(x) <=> \E ti \in tile_index(x[1]) : z \in At(ti, x)
    OBVIOUS
  <2> HIDE DEF Over, In, Out
  <2>4. \A x : z \in Over(x) <=> \E t \in tiles : \E i \in DOMAIN t.cells :
                                     t.cells[i] = x[1] /\ z \in At(<<t, i>>, x)
    <3> SUFFICES ASSUME NEW x
                 PROVE  z \in Over(x) <=> \E t \in tiles : \E i \in DOMAIN t.cells :
                                             t.cells[i] = x[1] /\ z \in At(<<t, i>>, x)
      OBVIOUS
    <3>1. \A ti : ti \in tile_index(x[1]) <=>
              \E t \in tiles : \E i \in DOMAIN t.cells : t.cells[i] = x[1] /\ ti = <<t, i>>
      BY TileIndexIs
    <3>2. ASSUME z \in Over(x)
          PROVE  \E t \in tiles : \E i \in DOMAIN t.cells : t.cells[i] = x[1] /\ z \in At(<<t, i>>, x)
      BY <3>1, <3>2, <2>3
    <3>3. ASSUME NEW t \in tiles, NEW i \in DOMAIN t.cells, t.cells[i] = x[1], z \in At(<<t, i>>, x)
          PROVE  z \in Over(x)
      <4>1. <<t, i>> \in tile_index(x[1])
        BY <3>1, <3>3
      <4> QED
        BY <4>1, <3>3, <2>3
    <3> QED
      BY <3>2, <3>3
  <2>5. ASSUME NEW t, NEW i, NEW x
        PROVE  z \in At(<<t, i>>, x) <=>
            \E p \in TileClasses[t.class].pips :
               p.in = <<i, x[2]>> /\ Out(t, p) # NoWire /\ z = Pip(t, p, Out(t, p), w)
    <3> DEFINE ti == <<t, i>>
    <3>1. ti[1] = t /\ ti[2] = i
      OBVIOUS
    <3> HIDE DEF ti
    <3>2. z \in At(ti, x) <=>
            \E p \in TileClasses[t.class].pips :
               p.in = <<i, x[2]>> /\ Out(t, p) # NoWire /\ z = Pip(t, p, Out(t, p), w)
      BY <2>2, <3>1
    <3> QED
      BY <3>2 DEF ti
  <2>6. z \in wire_pips_fwd(w) <=> \E x \in ToSet(wire_tree(w)) : z \in Over(x)
    BY <2>1
  <2>7. ASSUME NEW x
        PROVE  z \in Over(x) <=>
                  \E t \in tiles : \E i \in DOMAIN t.cells : \E p \in TileClasses[t.class].pips :
                     /\ t.cells[i] = x[1] /\ p.in = <<i, x[2]>> /\ Out(t, p) # NoWire
                     /\ z = Pip(t, p, Out(t, p), w)
    <3>1. ASSUME NEW t, NEW i
          PROVE  t.cells[i] = x[1] /\ z \in At(<<t, i>>, x) <=>
                  \E p \in TileClasses[t.class].pips :
                     /\ t.cells[i] = x[1] /\ p.in = <<i, x[2]>> /\ Out(t, p) # NoWire
                     /\ z = Pip(t, p, Out(t, p), w)
      BY <2>5, Zenon
    <3>2. z \in Over(x) <=> \E t \in tiles : \E i \in DOMAIN t.cells :
                                     t.cells[i] = x[1] /\ z \in At(<<t, i>>, x)
      BY <2>4
    <3> QED
      BY <3>1, <3>2, Zenon
  <2> QED
    BY <2>6, <2>7
<1>4. ASSUME NEW r \in Roots
      PROVE  ToSet(wire_tree(r)) = {x \in WireCoords : resolve_wire(x) = r} /\ r # NoWire
  BY <1>1, ResolvedTree
<1> HIDE DEF In, Out
<1>5. ASSUME NEW r \in Roots, NEW z \in wire_pips_fwd(r) PROVE z \in AllPips
  <2>1. PICK x \in ToSet(wire_tree(r)), t \in tiles : \E i \in DOMAIN t.cells :
             \E p \in TileClasses[t.class].pips :
                /\ t.cells[i] = x[1] /\ p.in = <<i, x[2]>> /\ Out(t, p) # NoWire
                /\ z = Pip(t, p, Out(t, p), r)
    BY <1>3
  <2>2. PICK i \in DOMAIN t.cells, p \in TileClasses[t.class].pips :
                /\ t.cells[i] = x[1] /\ p.in = <<i, x[2]>> /\ Out(t, p) # NoWire
                /\ z = Pip(t, p, Out(t, p), r)
    BY <2>1
  <2>3. x \in WireCoords /\ resolve_wire(x) = r /\ r # NoWire
    BY <1>4
  <2>4. tile_wire(t, p.in) = x
    <3>1. x = <<x[1], x[2]>>
      BY <2>3 DEF WireCoords
    <3> QED
      BY <2>2, <3>1 DEF tile_wire
  <2>5. In(t, p) = r
    BY <2>3, <2>4 DEF In
  <2> QED
    BY <1>2, <2>2, <2>3, <2>5
<1>6. ASSUME NEW z \in AllPips PROVE \E r \in Roots : z \in wire_pips_fwd(r)
  <2>0. PICK t \in tiles : \E p \in TileClasses[t.class].pips :
             In(t, p) # NoWire /\ Out(t, p) # NoWire /\ z = Pip(t, p, Out(t, p), In(t, p))
    BY <1>2
  <2>1. PICK p \in TileClasses[t.class].pips :
             In(t, p) # NoWire /\ Out(t, p) # NoWire /\ z = Pip(t, p, Out(t, p), In(t, p))
    BY <2>0
  <2> DEFINE x == tile_wire(t, p.in)
             r == In(t, p)
  <2>2. /\ p.in[1] \in DOMAIN t.cells /\ p.in = <<p.in[1], p.in[2]>>
        /\ x \in WireCoords /\ x = <<t.cells[p.in[1]], p.in[2]>>
    BY <1>1, PipFacts
  <2>3. r = resolve_wire(x)
    BY DEF In
  <2> HIDE DEF x, r
  <2>4. r \in Roots
    BY <2>1, <2>2, <2>3 DEF r
  <2>5. x \in ToSet(wire_tree(r))
    BY <1>4, <2>2, <2>3, <2>4
  <2>6. x[1] = t.cells[p.in[1]] /\ x[2] = p.in[2]
    BY <2>2
  <2>7. z \in wire_pips_fwd(r)
    BY <1>3, <2>1, <2>2, <2>5, <2>6 DEF r
  <2> QED
    BY <2>4, <2>7
<1> QED
  BY <1>5, <1>6 DEF Forward

\* ... and backwards those that are where it looks.
LEMMA BackwardPips ==
    ASSUME IInv, phase = "done"
    PROVE  Backward = {z \in AllPips : AtItsRoot(z)}
<1> DEFINE Roots == {resolve_wire(w) : w \in WireCoords} \ {NoWire}
           In(t, p) == resolve_wire(tile_wire(t, p.in))
           Out(t, p) == resolve_wire(tile_wire(t, p.out))
<1>1. GridFits /\ LinksFit /\ Indexed /\ TilesFit
  BY DEF IInv, GridFits, Phases
<1>2. \A z : z \in AllPips <=>
          \E t \in tiles : \E p \in TileClasses[t.class].pips :
              In(t, p) # NoWire /\ Out(t, p) # NoWire /\ z = Pip(t, p, Out(t, p), In(t, p))
  BY DEF AllPips
<1>3. ASSUME NEW w, NEW z
      PROVE  z \in wire_pips_bwd(w) <=>
                \E x \in DrivenAt(w) : \E t \in tiles : \E i \in DOMAIN t.cells :
                \E p \in TileClasses[t.class].pips :
                   /\ t.cells[i] = x[1] /\ p.out = <<i, x[2]>> /\ In(t, p) # NoWire
                   /\ z = Pip(t, p, w, In(t, p))
  <2> DEFINE At(ti, x) == {Pip(ti[1], p, w, In(ti[1], p)) : p \in {q \in TileClasses[ti[1].class].pips :
                              q.out = <<ti[2], x[2]>> /\ In(ti[1], q) # NoWire}}
             Over(x) == UNION {At(ti, x) : ti \in tile_index(x[1])}
  <2>1. wire_pips_bwd(w) = UNION {Over(x) : x \in DrivenAt(w)}
    BY DEF wire_pips_bwd
  <2>2. \A ti, x : z \in At(ti, x) <=>
            \E p \in TileClasses[ti[1].class].pips :
               p.out = <<ti[2], x[2]>> /\ In(ti[1], p) # NoWire /\ z = Pip(ti[1], p, w, In(ti[1], p))
    OBVIOUS
  <2> HIDE DEF At
  <2>3. \A x : z \in Over(x) <=> \E ti \in tile_index(x[1]) : z \in At(ti, x)
    OBVIOUS
  <2> HIDE DEF Over, In, Out
  <2>4. \A x : z \in Over(x) <=> \E t \in tiles : \E i \in DOMAIN t.cells :
                                     t.cells[i] = x[1] /\ z \in At(<<t, i>>, x)
    <3> SUFFICES ASSUME NEW x
                 PROVE  z \in Over(x) <=> \E t \in tiles : \E i \in DOMAIN t.cells :
                                             t.cells[i] = x[1] /\ z \in At(<<t, i>>, x)
      OBVIOUS
    <3>1. \A ti : ti \in tile_index(x[1]) <=>
              \E t \in tiles : \E i \in DOMAIN t.cells : t.cells[i] = x[1] /\ ti = <<t, i>>
      BY TileIndexIs
    <3>2. ASSUME z \in Over(x)
          PROVE  \E t \in tiles : \E i \in DOMAIN t.cells : t.cells[i] = x[1] /\ z \in At(<<t, i>>, x)
      BY <3>1, <3>2, <2>3
    <3>3. ASSUME NEW t \in tiles, NEW i \in DOMAIN t.cells, t.cells[i] = x[1], z \in At(<<t, i>>, x)
          PROVE  z \in Over(x)
      <4>1. <<t, i>> \in tile_index(x[1])
        BY <3>1, <3>3
      <4> QED
        BY <4>1, <3>3, <2>3
    <3> QED
      BY <3>2, <3>3
  <2>5. ASSUME NEW t, NEW i, NEW x
        PROVE  z \in At(<<t, i>>, x) <=>
            \E p \in TileClasses[t.class].pips :
               p.out = <<i, x[2]>> /\ In(t, p) # NoWire /\ z = Pip(t, p, w, In(t, p))
    <3> DEFINE ti == <<t, i>>
    <3>1. ti[1] = t /\ ti[2] = i
      OBVIOUS
    <3> HIDE DEF ti
    <3>2. z \in At(ti, x) <=>
            \E p \in TileClasses[t.class].pips :
               p.out = <<i, x[2]>> /\ In(t, p) # NoWire /\ z = Pip(t, p, w, In(t, p))
      BY <2>2, <3>1
    <3> QED
      BY <3>2 DEF ti
  <2>6. z \in wire_pips_bwd(w) <=> \E x \in DrivenAt(w) : z \in Over(x)
    BY <2>1
  <2>7. ASSUME NEW x
        PROVE  z \in Over(x) <=>
                  \E t \in tiles : \E i \in DOMAIN t.cells : \E p \in TileClasses[t.class].pips :
                     /\ t.cells[i] = x[1] /\ p.out = <<i, x[2]>> /\ In(t, p) # NoWire
                     /\ z = Pip(t, p, w, In(t, p))
    <3>1. ASSUME NEW t, NEW i
          PROVE  t.cells[i] = x[1] /\ z \in At(<<t, i>>, x) <=>
                  \E p \in TileClasses[t.class].pips :
                     /\ t.cells[i] = x[1] /\ p.out = <<i, x[2]>> /\ In(t, p) # NoWire
                     /\ z = Pip(t, p, w, In(t, p))
      BY <2>5, Zenon
    <3>2. z \in Over(x) <=> \E t \in tiles : \E i \in DOMAIN t.cells :
                                     t.cells[i] = x[1] /\ z \in At(<<t, i>>, x)
      BY <2>4
    <3> QED
      BY <3>1, <3>2, Zenon
  <2> QED
    BY <2>6, <2>7
<1>4. ASSUME NEW r \in Roots
      PROVE  /\ r # NoWire /\ r \in WireCoords /\ resolve_wire(r) = r
             /\ IsMulti(Kind[r[2]]) => DrivenAt(r) = {x \in WireCoords : resolve_wire(x) = r}
             /\ ~ IsMulti(Kind[r[2]]) => DrivenAt(r) = {r}
  <2>1. PICK v \in WireCoords : r = resolve_wire(v) /\ r # NoWire
    OBVIOUS
  <2>2. ToSet(wire_tree(r)) = {x \in WireCoords : resolve_wire(x) = r}
    BY <1>1, <2>1, ResolvedTree
  <2>3. r \in WireCoords /\ resolve_wire(r) = r
    BY <1>1, <2>1, ResolvedRoot
  <2> QED
    BY <2>1, <2>2, <2>3 DEF DrivenAt
<1> HIDE DEF In, Out
<1>5. ASSUME NEW r \in Roots, NEW z \in wire_pips_bwd(r) PROVE z \in AllPips /\ AtItsRoot(z)
  <2>1. PICK x \in DrivenAt(r), t \in tiles : \E i \in DOMAIN t.cells :
             \E p \in TileClasses[t.class].pips :
                /\ t.cells[i] = x[1] /\ p.out = <<i, x[2]>> /\ In(t, p) # NoWire
                /\ z = Pip(t, p, r, In(t, p))
    BY <1>3
  <2>2. PICK i \in DOMAIN t.cells, p \in TileClasses[t.class].pips :
                /\ t.cells[i] = x[1] /\ p.out = <<i, x[2]>> /\ In(t, p) # NoWire
                /\ z = Pip(t, p, r, In(t, p))
    BY <2>1
  <2>3. x \in WireCoords /\ resolve_wire(x) = r /\ r # NoWire
    <3>1. CASE IsMulti(Kind[r[2]])
      BY <3>1, <1>4
    <3>2. CASE ~ IsMulti(Kind[r[2]])
      BY <3>2, <1>4
    <3> QED
      BY <3>1, <3>2
  <2>4. tile_wire(t, p.out) = x
    <3>1. x = <<x[1], x[2]>>
      BY <2>3 DEF WireCoords
    <3> QED
      BY <2>2, <3>1 DEF tile_wire
  <2>5. Out(t, p) = r
    BY <2>3, <2>4 DEF Out
  <2>6. z.out = r /\ z.out_raw = x
    BY <2>2, <2>4 DEF Pip
  <2>7. IsMulti(Kind[r[2]]) \/ x = r
    BY <1>4
  <2> QED
    BY <1>2, <2>2, <2>3, <2>5, <2>6, <2>7 DEF AtItsRoot
<1>6. ASSUME NEW z \in AllPips, AtItsRoot(z) PROVE \E r \in Roots : z \in wire_pips_bwd(r)
  <2>0. PICK t \in tiles : \E p \in TileClasses[t.class].pips :
             In(t, p) # NoWire /\ Out(t, p) # NoWire /\ z = Pip(t, p, Out(t, p), In(t, p))
    BY <1>2
  <2>1. PICK p \in TileClasses[t.class].pips :
             In(t, p) # NoWire /\ Out(t, p) # NoWire /\ z = Pip(t, p, Out(t, p), In(t, p))
    BY <2>0
  <2> DEFINE x == tile_wire(t, p.out)
             r == Out(t, p)
  <2>2. /\ p.out[1] \in DOMAIN t.cells /\ p.out = <<p.out[1], p.out[2]>>
        /\ x \in WireCoords /\ x = <<t.cells[p.out[1]], p.out[2]>>
    BY <1>1, PipFacts
  <2>3. r = resolve_wire(x) /\ r # NoWire
    BY <2>1 DEF Out
  <2>4. x[1] = t.cells[p.out[1]] /\ x[2] = p.out[2]
    BY <2>2
  <2>5. z.out = r /\ z.out_raw = x
    BY <2>1 DEF Pip
  <2> HIDE DEF x, r
  <2>6. r \in Roots
    BY <2>2, <2>3
  <2>7. x \in DrivenAt(r)
    <3>1. CASE IsMulti(Kind[r[2]])
      BY <3>1, <1>4, <2>2, <2>3, <2>6
    <3>2. CASE ~ IsMulti(Kind[r[2]])
      <4>1. r = x
        BY <3>2, <1>6, <2>5 DEF AtItsRoot
      <4> QED
        BY <4>1, <3>2, <1>4, <2>6
    <3> QED
      BY <3>1, <3>2
  <2>8. z \in wire_pips_bwd(r)
    BY <1>3, <2>1, <2>2, <2>4, <2>7 DEF r
  <2> QED
    BY <2>6, <2>8
<1> QED
  BY <1>5, <1>6 DEF Backward

\* Looking for the drivers of a net at its root, or everywhere if it is made for many,
\* finds the switches that are found from the wires they are driven by, adds none, and
\* overlooks just those onto a net for one driver that are not at its root.
THEOREM SwitchesFound == Spec => []SwitchesAgree
<1>1. IInv => SwitchesAgree
  BY ForwardPips, BackwardPips DEF SwitchesAgree
<1> QED
  BY <1>1, GridCorrect, PTL

\* On a grid whose switches all drive their nets at the root or drive nets made for many,
\* terminators and branches of such nets among them, none is overlooked.
THEOREM NoneOverlooked == Spec => [](phase = "done" /\ DrivenAtRoot => Backward = Forward)
<1>1. IInv => (phase = "done" /\ DrivenAtRoot => Backward = Forward)
  <2> SUFFICES ASSUME IInv, phase = "done", DrivenAtRoot PROVE Backward = Forward
    OBVIOUS
  <2>1. ASSUME NEW z \in AllPips PROVE AtItsRoot(z)
    <3>0. PICK t \in tiles : \E p \in TileClasses[t.class].pips :
              /\ resolve_wire(tile_wire(t, p.out)) # NoWire
              /\ z = Pip(t, p, resolve_wire(tile_wire(t, p.out)), resolve_wire(tile_wire(t, p.in)))
      BY DEF AllPips
    <3>1. PICK p \in TileClasses[t.class].pips :
              /\ resolve_wire(tile_wire(t, p.out)) # NoWire
              /\ z = Pip(t, p, resolve_wire(tile_wire(t, p.out)), resolve_wire(tile_wire(t, p.in)))
      BY <3>0
    <3>2. z.out = resolve_wire(tile_wire(t, p.out)) /\ z.out_raw = tile_wire(t, p.out)
      BY <3>1 DEF Pip
    <3> QED
      BY <3>1, <3>2 DEF DrivenAtRoot, AtItsRoot
  <2> QED
    BY <2>1, ForwardPips, BackwardPips
<1> QED
  BY <1>1, GridCorrect, PTL
=============================================================================
