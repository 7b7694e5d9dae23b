--------------------------- MODULE PartDumpProofs --------------------------
(* Whatever order the tiles, wires and nodes of a dump come in, the part     *)
(* gives back the nodes and the classes the dump gave (PartDump).            *)
(*                                                                           *)
(* The builder is looked at on its own first: Builds(d, b, G) says what a     *)
(* builder b holds of a dump d once it was given the tiles DOMAIN b.kind and  *)
(* the nodes G. Every function of the builder keeps it. Both dumps then only  *)
(* have to show that they give every node once, whole, and after its tiles.   *)
EXTENDS PartDump, FiniteSetTheorems, WellFoundedInduction, TLAPS

(***************************************************************************)
(* Dumps                                                                   *)
(***************************************************************************)
Speed(d, p) == IF p \in Listed(d) THEN d.wires[p[1]][p[2]] ELSE NoSpeed
Cls(d, p) == w2nc(d.pips[p[1]], p[2])
Nets(d) == {d.net[p] : p \in DOMAIN d.net} \ {{}}

(* A node as it is given to the builder, and as it is read back.             *)
GivenAs(d, n) == {[tile |-> q[1], wire |-> q[2], speed |-> Speed(d, q)] : q \in n}
StoredAs(d, n) ==
    {[tile |-> q[1], wire |-> q[2], speed |-> Speed(d, q), cls |-> Cls(d, q)] : q \in n}

(***************************************************************************)
(* The builder                                                             *)
(***************************************************************************)
Shape(d, b) ==
    /\ b = [kinds |-> b.kinds, kind |-> b.kind, pending |-> b.pending, conn |-> b.conn,
            overrides |-> b.overrides, nodes |-> b.nodes, fixups |-> b.fixups]
    /\ DOMAIN b.kind \subseteq DOMAIN d.kind
    /\ DOMAIN b.pending = DOMAIN b.kind
    /\ DOMAIN b.conn = DOMAIN b.kind
    /\ DOMAIN b.overrides = DOMAIN b.kind
    /\ \A t \in DOMAIN b.kind :
        /\ b.kind[t] = d.kind[t]
        /\ b.kind[t] \in DOMAIN b.kinds
        /\ b.overrides[t] = Overrides(d.pips[t])
        /\ DOMAIN d.wires[t] \subseteq DOMAIN Wires(b, t)
    /\ \A k \in DOMAIN b.kinds :
        /\ b.kinds[k] = [wires |-> b.kinds[k].wires, tiles |-> b.kinds[k].tiles]
        /\ b.kinds[k].tiles \in Seq(DOMAIN b.kind)
        /\ Range(b.kinds[k].tiles) = {t \in DOMAIN b.kind : b.kind[t] = k}
        /\ \A w \in DOMAIN b.kinds[k].wires :
            \/ b.kinds[k].wires[w] = Connected
            \/ b.kinds[k].wires[w] = Internal(b.kinds[k].wires[w].speed, b.kinds[k].wires[w].cls)

(* Only nodes of the dump were given, their tiles and wires before.          *)
GivenFits(d, b, G) ==
    /\ G \subseteq Nets(d)
    /\ \A n \in G : \A q \in n : q[1] \in DOMAIN b.kind /\ q[2] \in DOMAIN Wires(b, q[1])

(* A wire is Internal only as long as that is what every tile of the kind     *)
(* says of it; a Connected wire that has a node is waiting for it or has it.  *)
InternalFits(d, b, G) ==
    \A t \in DOMAIN b.kind : \A w \in DOMAIN Wires(b, t) :
        Wires(b, t)[w].is = "internal" =>
            /\ w \in DOMAIN d.wires[t]
            /\ Wires(b, t)[w].speed = d.wires[t][w]
            /\ Wires(b, t)[w].cls = Cls(d, <<t, w>>)
            /\ w \notin DOMAIN b.conn[t]
            /\ w \notin DOMAIN b.pending[t]
            /\ d.net[<<t, w>>] \in G => d.net[<<t, w>>] = {<<t, w>>}

ConnectedFits(d, b, G) ==
    \A t \in DOMAIN b.kind : \A w \in DOMAIN Wires(b, t) :
        (/\ Wires(b, t)[w].is # "internal"
         /\ <<t, w>> \in DOMAIN d.net /\ d.net[<<t, w>>] # {}
         /\ <<t, w>> \in Listed(d) \/ d.net[<<t, w>>] \in G)
        => w \in DOMAIN b.conn[t] \cup DOMAIN b.pending[t]

ConnFits(d, b, G) ==
    \A t \in DOMAIN b.kind : \A w \in DOMAIN b.conn[t] :
        /\ w \in DOMAIN Wires(b, t)
        /\ <<t, w>> \in DOMAIN d.net /\ d.net[<<t, w>>] \in G
        /\ b.conn[t][w] \in b.nodes
        /\ WiresOf(b.conn[t][w]) = StoredAs(d, d.net[<<t, w>>])

NodesFit(d, b, G) ==
    \A n \in b.nodes : \E m \in G :
        /\ WiresOf(n) = StoredAs(d, m)
        /\ \A q \in m :
            q[1] \in DOMAIN b.kind /\ q[2] \in DOMAIN b.conn[q[1]] /\ b.conn[q[1]][q[2]] = n

(* Wires waiting for a node that was given, and taken as implied then: it is  *)
(* to be made up for, unless a tile that came later is to blame.             *)
LostTo(d, b, p) ==
    LET ts == b.kinds[b.kind[p[1]]].tiles IN
    /\ d.flow = "ise" /\ d.net[p] = {p}
    /\ \E i, j \in DOMAIN ts :
        /\ i < j /\ ts[i] = p[1]
        /\ <<ts[j], p[2]>> \in Listed(d) => d.wires[ts[j]][p[2]] # d.wires[p[1]][p[2]]

FixupOf(d, b, p) ==
    [kind |-> b.kind[p[1]], wire |-> p[2], speed |-> d.wires[p[1]][p[2]], cls |-> Cls(d, p)]

PendingFits(d, b, G) ==
    \A t \in DOMAIN b.kind : \A w \in DOMAIN b.pending[t] :
        /\ w \in DOMAIN d.wires[t]
        /\ w \notin DOMAIN b.conn[t]
        /\ b.pending[t][w] = Cls(d, <<t, w>>)
        /\ d.net[<<t, w>>] \in G =>
            /\ d.net[<<t, w>>] = {<<t, w>>}
            /\ \/ FixupOf(d, b, <<t, w>>) \in b.fixups
               \/ /\ LostTo(d, b, <<t, w>>)
                  /\ \A f \in b.fixups : f.kind = b.kind[t] => f.wire # w

FixupsFit(b) ==
    /\ \A f \in b.fixups :
        /\ f.kind \in DOMAIN b.kinds /\ f.wire \in DOMAIN b.kinds[f.kind].wires
        /\ b.kinds[f.kind].wires[f.wire].is # "internal"
    /\ \A f, g \in b.fixups : f.kind = g.kind /\ f.wire = g.wire => f = g

Builds(d, b, G) ==
    /\ Shape(d, b)
    /\ GivenFits(d, b, G)
    /\ InternalFits(d, b, G)
    /\ ConnectedFits(d, b, G)
    /\ ConnFits(d, b, G)
    /\ NodesFit(d, b, G)
    /\ PendingFits(d, b, G)
    /\ FixupsFit(b)

(* The wires without node of the tiles T are not Internal, and wait for none. *)
Kills(d, b, T) ==
    \A t \in T : \A w \in DOMAIN d.wires[t] :
        d.net[<<t, w>>] = {} =>
            /\ Wires(b, t)[w].is # "internal"
            /\ w \notin DOMAIN b.pending[t] /\ w \notin DOMAIN b.conn[t]

(***************************************************************************)
(* The flows                                                               *)
(***************************************************************************)
Read == DOMAIN dump.kind \ tiles

GatheredFits(G) ==
    /\ G = {} \/ tiles = {}
    /\ DOMAIN gathered = {dump.net[q] : q \in {r \in Listed(dump) : r[1] \in Read}} \ (G \cup {{}})
    /\ \A n \in DOMAIN gathered : gathered[n] = GivenAs(dump, {q \in n : q[1] \in Read})

(* A listed wire whose tile was read and that was looked at.                 *)
Processed(p) == p \in Listed(dump) /\ p[1] \notin tiles /\ p \notin at

Members(i) == DOMAIN groups[i].seen \cup groups[i].unseen

GroupsFit(G) ==
    /\ Len(groups) \in Nat /\ DOMAIN groups = 1..Len(groups)
    /\ \A i \in DOMAIN groups :
        /\ groups[i] = [seen |-> groups[i].seen, unseen |-> groups[i].unseen]
        /\ groups[i] = Empty \/ (groups[i].unseen # {} /\ DOMAIN groups[i].seen # {})
        /\ \A q \in DOMAIN groups[i].seen :
            /\ Processed(q) /\ groups[i].seen[q] = Speed(dump, q)
            /\ dump.conns[q] \subseteq Members(i)
        /\ \A q \in groups[i].unseen : q \in DOMAIN dump.net /\ ~ Processed(q)
        /\ \A q \in Members(i) : q \in DOMAIN wire2node /\ wire2node[q] = i
        /\ \A q, r \in Members(i) : dump.net[q] = dump.net[r]
    /\ \A q \in DOMAIN wire2node : wire2node[q] \in DOMAIN groups /\ q \in Members(wire2node[q])

ProgressFits(G) ==
    /\ at \subseteq Listed(dump) /\ \A p \in at : p[1] \notin tiles
    /\ \A p \in Listed(dump) : Processed(p) => dump.net[p] \in G \/ p \in DOMAIN wire2node
    /\ \A n \in G : \A q \in n :
        /\ q \notin DOMAIN wire2node
        /\ q \in Listed(dump) => Processed(q)

Feeds(G) ==
    /\ Builds(dump, rd, G)
    /\ DOMAIN rd.kind = Read
    /\ Kills(dump, rd, Read)
    /\ IF dump.flow = "vivado"
       THEN at = {} /\ groups = << >> /\ GatheredFits(G)
       ELSE gathered = << >> /\ GroupsFit(G) /\ ProgressFits(G)

(* The inductive invariant.                                                  *)
DumpInv ==
    /\ dump \in Dumps
    /\ tiles \subseteq DOMAIN dump.kind
    /\ pc = "dump" => \E G \in SUBSET Nets(dump) : Feeds(G)
    /\ pc = "done" => Faithful /\ ClassesKept

(***************************************************************************)
(* Lemmas about numbers, dumps and maps                                    *)
(***************************************************************************)
\* A set of numbers that is not empty has a least member.
LEMMA LeastNat ==
    ASSUME NEW T \in SUBSET Nat, T # {}
    PROVE  \E n \in T : \A m \in T : n <= m
<1> DEFINE U == {1..n : n \in T}
<1>1. U \subseteq FiniteSubsetsOf(Nat) /\ U # {}
  <2>1. ASSUME NEW n \in T PROVE 1..n \in FiniteSubsetsOf(Nat)
    <3>1. n \in Int /\ 1 \in Int /\ 1..n \subseteq Nat
      OBVIOUS
    <3>2. IsFiniteSet(1..n)
      BY <3>1, FS_Interval
    <3> QED
      BY <3>1, <3>2 DEF FiniteSubsetsOf
  <2> QED
    BY <2>1 DEF FiniteSubsetsOf
<1>2. PICK x \in U : \A y \in U : <<y, x>> \notin StrictSubsetOrdering(Nat)
  <2> HIDE DEF U
  <2> QED
    BY <1>1, FS_StrictSubsetOrderingWellFounded, WFMin
<1>3. PICK n \in T : x = 1..n
  BY <1>2
<1>4. ASSUME NEW m \in T, m < n PROVE FALSE
  <2>1. 1..m \subseteq 1..n /\ 1..m # 1..n
    <3>1. n \in 1..n /\ n \notin 1..m
      BY <1>4
    <3> QED
      BY <1>4, <3>1
  <2>2. <<1..m, x>> \in StrictSubsetOrdering(Nat)
    BY <2>1, <1>3 DEF StrictSubsetOrdering
  <2> QED
    BY <2>2, <1>2
<1> QED
  BY <1>4

\* What is listed: the wires of the tiles.
LEMMA ListedIs ==
    ASSUME NEW d, NEW t, NEW w
    PROVE  <<t, w>> \in Listed(d) <=> t \in DOMAIN d.kind /\ w \in DOMAIN d.wires[t]
BY DEF Listed

\* A listed wire is a tile and a wire of it.
LEMMA ListedPair ==
    ASSUME NEW d, NEW p \in Listed(d)
    PROVE  p = <<p[1], p[2]>> /\ p[1] \in DOMAIN d.kind /\ p[2] \in DOMAIN d.wires[p[1]]
BY DEF Listed

\* What the assumption on dumps says of their wires.
LEMMA DumpFacts ==
    ASSUME NEW d \in Dumps
    PROVE  /\ d.flow \in {"ise", "vivado"}
           /\ DOMAIN d.kind \subseteq Nat \X Nat
           /\ Listed(d) \subseteq DOMAIN d.net
           /\ DOMAIN d.conns = Listed(d)
           /\ \A p \in DOMAIN d.net : p = <<p[1], p[2]>> /\ p[1] \in DOMAIN d.kind
           /\ \A p \in DOMAIN d.net :
                /\ d.net[p] = {} \/ p \in d.net[p]
                /\ \A q \in d.net[p] : q \in DOMAIN d.net /\ d.net[q] = d.net[p]
           /\ d.flow = "vivado" => DOMAIN d.net = Listed(d)
           /\ d.flow = "ise" => \A p \in DOMAIN d.net : d.net[p] # {}
           /\ d.flow = "ise" => \A t \in DOMAIN d.kind : d.pips[t] = {}
<1>1. \A p \in DOMAIN d.net \ Listed(d) : \E t \in DOMAIN d.kind : p = <<t, p[2]>>
  <2> TAKE p \in DOMAIN d.net \ Listed(d)
  <2>1. \E t, u \in DOMAIN d.kind :
            p = <<t, p[2]>> /\ d.kind[u] = d.kind[t] /\ <<u, p[2]>> \in Listed(d)
    BY DumpsFit, Zenon
  <2> QED
    BY <2>1, Zenon
<1>2. \A p \in DOMAIN d.net : p = <<p[1], p[2]>> /\ p[1] \in DOMAIN d.kind
  <2> TAKE p \in DOMAIN d.net
  <2>1. CASE p \in Listed(d)
    BY <2>1, ListedPair
  <2>2. CASE p \notin Listed(d)
    <3>1. PICK t \in DOMAIN d.kind : p = <<t, p[2]>>
      BY <1>1, <2>2
    <3>2. p[1] = t
      BY <3>1
    <3> QED
      BY <3>1, <3>2
  <2> QED
    BY <2>1, <2>2
<1> QED
  BY <1>2, DumpsFit

\* A node is the node of each of its wires.
LEMMA NetOfMember ==
    ASSUME NEW d \in Dumps, NEW n \in Nets(d), NEW q \in n
    PROVE  q \in DOMAIN d.net /\ d.net[q] = n
BY DumpFacts DEF Nets

\* A wire with a node is one of the node's wires.
LEMMA MemberOfNet ==
    ASSUME NEW d \in Dumps, NEW q \in DOMAIN d.net, d.net[q] # {}
    PROVE  q \in d.net[q] /\ d.net[q] \in Nets(d)
BY DumpFacts DEF Nets

\* The ISE's wires have no classes.
LEMMA NoPipNoClass ==
    ASSUME NEW w
    PROVE  w2nc({}, w) = NoClass
<1>1. ClassesAt({}, w) = {}
  BY DEF ClassesAt
<1>2. Cardinality({}) = 0
  BY FS_EmptySet
<1> QED
  BY <1>1, <1>2 DEF w2nc

\* No wire of an ISE dump has a class.
LEMMA IseNoClass ==
    ASSUME NEW d \in Dumps, d.flow = "ise", NEW p, p[1] \in DOMAIN d.kind
    PROVE  Cls(d, p) = NoClass
BY DumpFacts, NoPipNoClass DEF Cls

\* One map over another.
LEMMA OverIs ==
    ASSUME NEW f, NEW g
    PROVE  /\ DOMAIN Over(f, g) = DOMAIN f \cup DOMAIN g
           /\ \A x \in DOMAIN f : Over(f, g)[x] = f[x]
           /\ \A x \in DOMAIN g \ DOMAIN f : Over(f, g)[x] = g[x]
BY DEF Over

\* A map without some of its entries.
LEMMA WithoutIs ==
    ASSUME NEW f, NEW S
    PROVE  /\ DOMAIN Without(f, S) = DOMAIN f \ S
           /\ \A x \in DOMAIN f \ S : Without(f, S)[x] = f[x]
BY DEF Without, Restrict

(***************************************************************************)
(* A builder without tiles                                                 *)
(***************************************************************************)
LEMMA NewBuilds ==
    ASSUME NEW d \in Dumps
    PROVE  Builds(d, NewBuilder, {}) /\ Kills(d, NewBuilder, {}) /\ DOMAIN NewBuilder.kind = {}
<1> DEFINE b == NewBuilder
<1>1. b = [kinds |-> << >>, kind |-> << >>, pending |-> << >>, conn |-> << >>,
           overrides |-> << >>, nodes |-> {}, fixups |-> {}]
  BY DEF NewBuilder
<1>2. DOMAIN << >> = {}
  OBVIOUS
<1> HIDE DEF b
<1>3. /\ DOMAIN b.kinds = {} /\ DOMAIN b.kind = {} /\ DOMAIN b.pending = {} /\ DOMAIN b.conn = {}
      /\ DOMAIN b.overrides = {} /\ b.nodes = {} /\ b.fixups = {}
  BY <1>1, <1>2
<1>4. Shape(d, b)
  BY <1>1, <1>3 DEF Shape
<1>5. Builds(d, b, {})
  BY <1>3, <1>4 DEF Builds, GivenFits, InternalFits, ConnectedFits, ConnFits, NodesFit, PendingFits, FixupsFit
<1> QED
  BY <1>3, <1>5 DEF Kills, b

(***************************************************************************)
(* ensure_conn_wire, kill_wire                                             *)
(***************************************************************************)
\* The wires of a tile whose being Internal ends.
Ended(b, ks, t) == {w \in DOMAIN Wires(b, t) : <<b.kind[t], w>> \in InternalIn(b, ks)}

Pairs(b) == UNION {{k} \X DOMAIN b.kinds[k].wires : k \in DOMAIN b.kinds}

\* What ensure_conn_wire() changes, and what it leaves alone.
LEMMA EnsureIs ==
    ASSUME NEW d, NEW b, Shape(d, b), NEW ks \in SUBSET Pairs(b),
           NEW e, e = ensure_conn_wire(b, ks)
    PROVE  /\ e = [kinds |-> e.kinds, kind |-> e.kind, pending |-> e.pending, conn |-> e.conn,
                   overrides |-> e.overrides, nodes |-> e.nodes, fixups |-> e.fixups]
           /\ e.kind = b.kind /\ e.conn = b.conn /\ e.overrides = b.overrides /\ e.nodes = b.nodes
           /\ DOMAIN e.kinds = DOMAIN b.kinds
           /\ \A k \in DOMAIN b.kinds :
                /\ e.kinds[k] = [wires |-> e.kinds[k].wires, tiles |-> e.kinds[k].tiles]
                /\ e.kinds[k].tiles = b.kinds[k].tiles
                /\ DOMAIN e.kinds[k].wires = DOMAIN b.kinds[k].wires
                /\ \A w \in DOMAIN b.kinds[k].wires :
                    e.kinds[k].wires[w] = IF <<k, w>> \in ks THEN Connected ELSE b.kinds[k].wires[w]
           /\ DOMAIN e.pending = DOMAIN b.pending
           /\ \A t \in DOMAIN b.kind :
                /\ DOMAIN e.pending[t] = Ended(b, ks, t) \cup DOMAIN b.pending[t]
                /\ \A w \in Ended(b, ks, t) : e.pending[t][w] = Wires(b, t)[w].cls
                /\ \A w \in DOMAIN b.pending[t] \ Ended(b, ks, t) : e.pending[t][w] = b.pending[t][w]
           /\ e.fixups = b.fixups \cup
                {[kind |-> x[1], wire |-> x[2], speed |-> b.kinds[x[1]].wires[x[2]].speed,
                  cls |-> b.kinds[x[1]].wires[x[2]].cls] : x \in InternalIn(b, ks)}
<1> DEFINE js == InternalIn(b, ks)
           c == Connect(b, js)
           nkinds == [k \in DOMAIN b.kinds |->
                        [wires |-> [w \in DOMAIN b.kinds[k].wires |->
                                        IF <<k, w>> \in js THEN Connected ELSE b.kinds[k].wires[w]],
                         tiles |-> b.kinds[k].tiles]]
           npending == [t \in DOMAIN b.pending |->
                        Over([w \in Ended(b, ks, t) |-> Wires(b, t)[w].cls], b.pending[t])]
           nfix == {[kind |-> x[1], wire |-> x[2], speed |-> b.kinds[x[1]].wires[x[2]].speed,
                     cls |-> b.kinds[x[1]].wires[x[2]].cls] : x \in js}
<1>1. b = [kinds |-> b.kinds, kind |-> b.kind, pending |-> b.pending, conn |-> b.conn,
           overrides |-> b.overrides, nodes |-> b.nodes, fixups |-> b.fixups]
  BY DEF Shape
<1>2. c = [b EXCEPT !.kinds = nkinds, !.pending = npending]
  BY DEF Connect, Ended
<1>3. e = [c EXCEPT !.fixups = c.fixups \cup nfix]
  BY DEF ensure_conn_wire
<1>4. c = [kinds |-> nkinds, kind |-> b.kind, pending |-> npending, conn |-> b.conn,
           overrides |-> b.overrides, nodes |-> b.nodes, fixups |-> b.fixups]
  <2> HIDE DEF c, nkinds, npending, nfix
  <2> QED
    BY <1>1, <1>2
<1>5. e = [kinds |-> nkinds, kind |-> b.kind, pending |-> npending, conn |-> b.conn,
           overrides |-> b.overrides, nodes |-> b.nodes, fixups |-> b.fixups \cup nfix]
  <2> HIDE DEF c, nkinds, npending, nfix
  <2> QED
    BY <1>3, <1>4
<1>6. /\ e.kinds = nkinds /\ e.kind = b.kind /\ e.pending = npending /\ e.conn = b.conn
      /\ e.overrides = b.overrides /\ e.nodes = b.nodes /\ e.fixups = b.fixups \cup nfix
  <2> HIDE DEF c, nkinds, npending, nfix
  <2> QED
    BY <1>5
<1>7. ASSUME NEW k \in DOMAIN b.kinds
      PROVE  /\ e.kinds[k] = [wires |-> e.kinds[k].wires, tiles |-> e.kinds[k].tiles]
             /\ e.kinds[k].tiles = b.kinds[k].tiles
             /\ DOMAIN e.kinds[k].wires = DOMAIN b.kinds[k].wires
             /\ \A w \in DOMAIN b.kinds[k].wires :
                  e.kinds[k].wires[w] = IF <<k, w>> \in ks THEN Connected ELSE b.kinds[k].wires[w]
  <2>1. /\ e.kinds[k] = [wires |-> e.kinds[k].wires, tiles |-> e.kinds[k].tiles]
        /\ e.kinds[k].tiles = b.kinds[k].tiles
        /\ e.kinds[k].wires = [w \in DOMAIN b.kinds[k].wires |->
                                  IF <<k, w>> \in js THEN Connected ELSE b.kinds[k].wires[w]]
    <3> DEFINE ws == [w \in DOMAIN b.kinds[k].wires |->
                         IF <<k, w>> \in js THEN Connected ELSE b.kinds[k].wires[w]]
    <3>1. nkinds[k] = [wires |-> ws, tiles |-> b.kinds[k].tiles]
      OBVIOUS
    <3>2. e.kinds[k] = nkinds[k]
      BY <1>6
    <3> HIDE DEF ws, nkinds
    <3>3. e.kinds[k] = [wires |-> ws, tiles |-> b.kinds[k].tiles]
      BY <3>1, <3>2
    <3> QED
      BY <3>3 DEF ws
  <2>2. ASSUME NEW w \in DOMAIN b.kinds[k].wires
        PROVE  e.kinds[k].wires[w] = IF <<k, w>> \in ks THEN Connected ELSE b.kinds[k].wires[w]
    <3>1. e.kinds[k].wires[w] = IF <<k, w>> \in js THEN Connected ELSE b.kinds[k].wires[w]
      BY <2>1
    <3>2. <<k, w>> \in js <=> <<k, w>> \in ks /\ b.kinds[k].wires[w].is = "internal"
      BY DEF InternalIn
    <3>3. b.kinds[k].wires[w].is # "internal" => b.kinds[k].wires[w] = Connected
      <4>1. \/ b.kinds[k].wires[w] = Connected
            \/ b.kinds[k].wires[w] = Internal(b.kinds[k].wires[w].speed, b.kinds[k].wires[w].cls)
        BY DEF Shape
      <4>2. \A s, x : Internal(s, x).is = "internal"
        BY DEF Internal
      <4> QED
        BY <4>1, <4>2
    <3> QED
      BY <3>1, <3>2, <3>3
  <2> QED
    BY <2>1, <2>2
<1>8. ASSUME NEW t \in DOMAIN b.kind
      PROVE  /\ DOMAIN e.pending[t] = Ended(b, ks, t) \cup DOMAIN b.pending[t]
             /\ \A w \in Ended(b, ks, t) : e.pending[t][w] = Wires(b, t)[w].cls
             /\ \A w \in DOMAIN b.pending[t] \ Ended(b, ks, t) : e.pending[t][w] = b.pending[t][w]
  <2> DEFINE f == [w \in Ended(b, ks, t) |-> Wires(b, t)[w].cls]
  <2>1. t \in DOMAIN b.pending
    BY DEF Shape
  <2>2. e.pending[t] = Over(f, b.pending[t])
    BY <1>6, <2>1
  <2>3. DOMAIN f = Ended(b, ks, t) /\ \A w \in Ended(b, ks, t) : f[w] = Wires(b, t)[w].cls
    OBVIOUS
  <2> HIDE DEF f
  <2>4. /\ DOMAIN Over(f, b.pending[t]) = DOMAIN f \cup DOMAIN b.pending[t]
        /\ \A w \in DOMAIN f : Over(f, b.pending[t])[w] = f[w]
        /\ \A w \in DOMAIN b.pending[t] \ DOMAIN f : Over(f, b.pending[t])[w] = b.pending[t][w]
    BY OverIs, Zenon
  <2> QED
    BY <2>2, <2>3, <2>4
<1>9. DOMAIN e.kinds = DOMAIN b.kinds /\ DOMAIN e.pending = DOMAIN b.pending
  BY <1>6
<1> QED
  BY <1>5, <1>6, <1>7, <1>8, <1>9

\* A wire of a kind is Internal or Connected, not both.
LEMMA TwoKinds ==
    Connected.is # "internal" /\ \A s, c : Internal(s, c).is = "internal"
BY DEF Connected, Internal

\* The builder's invariant is kept when wires of kinds become Connected.
LEMMA EnsureBuilds ==
    ASSUME NEW d \in Dumps, NEW b, NEW G, Builds(d, b, G), NEW T \in SUBSET DOMAIN b.kind,
           Kills(d, b, T), NEW ks \in SUBSET Pairs(b), NEW e, e = ensure_conn_wire(b, ks)
    PROVE  /\ Builds(d, e, G) /\ Kills(d, e, T)
           /\ e.kind = b.kind /\ e.conn = b.conn /\ e.nodes = b.nodes
           /\ \A t \in DOMAIN b.kind :
                /\ DOMAIN Wires(e, t) = DOMAIN Wires(b, t)
                /\ \A w \in DOMAIN Wires(b, t) :
                    <<b.kind[t], w>> \in ks => Wires(e, t)[w].is # "internal"
<1>1. /\ Shape(d, b) /\ GivenFits(d, b, G) /\ InternalFits(d, b, G) /\ ConnectedFits(d, b, G)
      /\ ConnFits(d, b, G) /\ NodesFit(d, b, G) /\ PendingFits(d, b, G) /\ FixupsFit(b)
  BY DEF Builds
<1>2. /\ e = [kinds |-> e.kinds, kind |-> e.kind, pending |-> e.pending, conn |-> e.conn,
                   overrides |-> e.overrides, nodes |-> e.nodes, fixups |-> e.fixups]
      /\ e.kind = b.kind /\ e.conn = b.conn /\ e.overrides = b.overrides /\ e.nodes = b.nodes
      /\ DOMAIN e.kinds = DOMAIN b.kinds
      /\ DOMAIN e.pending = DOMAIN b.pending
  BY <1>1, EnsureIs
<1>3. \A k \in DOMAIN b.kinds :
                /\ e.kinds[k] = [wires |-> e.kinds[k].wires, tiles |-> e.kinds[k].tiles]
                /\ e.kinds[k].tiles = b.kinds[k].tiles
                /\ DOMAIN e.kinds[k].wires = DOMAIN b.kinds[k].wires
                /\ \A w \in DOMAIN b.kinds[k].wires :
                    e.kinds[k].wires[w] = IF <<k, w>> \in ks THEN Connected ELSE b.kinds[k].wires[w]
  BY <1>1, EnsureIs, SMTT(60)
<1>4. \A t \in DOMAIN b.kind :
                /\ DOMAIN e.pending[t] = Ended(b, ks, t) \cup DOMAIN b.pending[t]
                /\ \A w \in Ended(b, ks, t) : e.pending[t][w] = Wires(b, t)[w].cls
                /\ \A w \in DOMAIN b.pending[t] \ Ended(b, ks, t) : e.pending[t][w] = b.pending[t][w]
  BY <1>1, EnsureIs
<1>5. e.fixups = b.fixups \cup
                {[kind |-> x[1], wire |-> x[2], speed |-> b.kinds[x[1]].wires[x[2]].speed,
                  cls |-> b.kinds[x[1]].wires[x[2]].cls] : x \in InternalIn(b, ks)}
  BY <1>1, EnsureIs
<1>6. \A t \in DOMAIN b.kind : b.kind[t] = d.kind[t] /\ b.kind[t] \in DOMAIN b.kinds
  BY <1>1 DEF Shape
<1>7. ASSUME NEW t \in DOMAIN b.kind
      PROVE  /\ DOMAIN Wires(e, t) = DOMAIN Wires(b, t)
             /\ \A w \in DOMAIN Wires(b, t) :
                    Wires(e, t)[w] = IF <<b.kind[t], w>> \in ks THEN Connected ELSE Wires(b, t)[w]
             /\ \A w : w \in Ended(b, ks, t) <=> /\ w \in DOMAIN Wires(b, t) /\ <<b.kind[t], w>> \in ks
                                                 /\ Wires(b, t)[w].is = "internal"
  <2>1. b.kind[t] \in DOMAIN b.kinds
    BY <1>6
  <2>2. Wires(b, t) = b.kinds[b.kind[t]].wires /\ Wires(e, t) = e.kinds[b.kind[t]].wires
    BY <1>2 DEF Wires
  <2>3. /\ DOMAIN Wires(e, t) = DOMAIN Wires(b, t)
        /\ \A w \in DOMAIN Wires(b, t) :
                Wires(e, t)[w] = IF <<b.kind[t], w>> \in ks THEN Connected ELSE Wires(b, t)[w]
    <3> DEFINE k == b.kind[t]
    <3>1. k \in DOMAIN b.kinds
      BY <2>1
    <3> HIDE DEF k
    <3>2. /\ DOMAIN e.kinds[k].wires = DOMAIN b.kinds[k].wires
          /\ \A w \in DOMAIN b.kinds[k].wires :
              e.kinds[k].wires[w] = IF <<k, w>> \in ks THEN Connected ELSE b.kinds[k].wires[w]
      BY <1>3, <3>1
    <3> QED
      BY <2>2, <3>2 DEF k
  <2>4. \A w : w \in Ended(b, ks, t) <=> /\ w \in DOMAIN Wires(b, t) /\ <<b.kind[t], w>> \in ks
                                         /\ Wires(b, t)[w].is = "internal"
    BY <2>2 DEF Ended, InternalIn
  <2> QED
    BY <2>3, <2>4
<1>8. Shape(d, e)
  <2>1. \A k \in DOMAIN e.kinds : \A w \in DOMAIN e.kinds[k].wires :
            \/ e.kinds[k].wires[w] = Connected
            \/ e.kinds[k].wires[w] = Internal(e.kinds[k].wires[w].speed, e.kinds[k].wires[w].cls)
    <3> TAKE k \in DOMAIN e.kinds
    <3> TAKE w \in DOMAIN e.kinds[k].wires
    <3>1. k \in DOMAIN b.kinds /\ w \in DOMAIN b.kinds[k].wires
      BY <1>2, <1>3
    <3>2. e.kinds[k].wires[w] = Connected \/ e.kinds[k].wires[w] = b.kinds[k].wires[w]
      BY <1>3, <3>1
    <3>3. \/ b.kinds[k].wires[w] = Connected
          \/ b.kinds[k].wires[w] = Internal(b.kinds[k].wires[w].speed, b.kinds[k].wires[w].cls)
      BY <1>1, <3>1 DEF Shape
    <3> QED
      BY <3>2, <3>3
  <2>2. \A k \in DOMAIN e.kinds :
            /\ e.kinds[k] = [wires |-> e.kinds[k].wires, tiles |-> e.kinds[k].tiles]
            /\ e.kinds[k].tiles \in Seq(DOMAIN e.kind)
            /\ Range(e.kinds[k].tiles) = {t \in DOMAIN e.kind : e.kind[t] = k}
    BY <1>1, <1>2, <1>3 DEF Shape
  <2>3. \A t \in DOMAIN e.kind :
            /\ e.kind[t] = d.kind[t]
            /\ e.kind[t] \in DOMAIN e.kinds
            /\ e.overrides[t] = Overrides(d.pips[t])
            /\ DOMAIN d.wires[t] \subseteq DOMAIN Wires(e, t)
    BY <1>1, <1>2, <1>7 DEF Shape
  <2>4. /\ DOMAIN e.kind \subseteq DOMAIN d.kind
        /\ DOMAIN e.pending = DOMAIN e.kind
        /\ DOMAIN e.conn = DOMAIN e.kind
        /\ DOMAIN e.overrides = DOMAIN e.kind
    BY <1>1, <1>2 DEF Shape
  <2> QED
    BY <1>2, <2>1, <2>2, <2>3, <2>4 DEF Shape
<1>9. GivenFits(d, e, G)
  BY <1>1, <1>2, <1>7 DEF GivenFits
<1>10. InternalFits(d, e, G)
  <2> SUFFICES ASSUME NEW t \in DOMAIN e.kind, NEW w \in DOMAIN Wires(e, t),
                      Wires(e, t)[w].is = "internal"
               PROVE  /\ w \in DOMAIN d.wires[t]
                      /\ Wires(e, t)[w].speed = d.wires[t][w]
                      /\ Wires(e, t)[w].cls = Cls(d, <<t, w>>)
                      /\ w \notin DOMAIN e.conn[t]
                      /\ w \notin DOMAIN e.pending[t]
                      /\ d.net[<<t, w>>] \in G => d.net[<<t, w>>] = {<<t, w>>}
    BY DEF InternalFits
  <2>0. t \in DOMAIN b.kind /\ w \in DOMAIN Wires(b, t)
    BY <1>2, <1>7
  <2>1. <<b.kind[t], w>> \notin ks /\ Wires(e, t)[w] = Wires(b, t)[w]
    BY <1>7, <2>0, TwoKinds
  <2>2. w \notin Ended(b, ks, t)
    BY <1>7, <2>0, <2>1
  <2> QED
    BY <1>1, <1>2, <1>4, <2>0, <2>1, <2>2 DEF InternalFits
<1>11. ConnectedFits(d, e, G)
  <2> SUFFICES ASSUME NEW t \in DOMAIN b.kind, NEW w \in DOMAIN Wires(b, t),
                      Wires(e, t)[w].is # "internal",
                      <<t, w>> \in DOMAIN d.net, d.net[<<t, w>>] # {},
                      <<t, w>> \in Listed(d) \/ d.net[<<t, w>>] \in G
               PROVE  w \in DOMAIN e.conn[t] \cup DOMAIN e.pending[t]
    BY <1>2, <1>7 DEF ConnectedFits
  <2>1. CASE Wires(b, t)[w].is = "internal"
    <3>1. w \in Ended(b, ks, t)
      BY <1>7, <2>1
    <3> QED
      BY <3>1, <1>4
  <2>2. CASE Wires(b, t)[w].is # "internal"
    <3>1. w \in DOMAIN b.conn[t] \cup DOMAIN b.pending[t]
      BY <1>1, <2>2 DEF ConnectedFits
    <3> QED
      BY <3>1, <1>2, <1>4
  <2> QED
    BY <2>1, <2>2
<1>12. ConnFits(d, e, G)
  BY <1>1, <1>2, <1>7 DEF ConnFits
<1>13. NodesFit(d, e, G)
  BY <1>1, <1>2 DEF NodesFit
<1>14. PendingFits(d, e, G)
  <2> SUFFICES ASSUME NEW t \in DOMAIN b.kind, NEW w \in DOMAIN e.pending[t]
               PROVE  /\ w \in DOMAIN d.wires[t]
                      /\ w \notin DOMAIN e.conn[t]
                      /\ e.pending[t][w] = Cls(d, <<t, w>>)
                      /\ d.net[<<t, w>>] \in G =>
                          /\ d.net[<<t, w>>] = {<<t, w>>}
                          /\ \/ FixupOf(d, e, <<t, w>>) \in e.fixups
                             \/ /\ LostTo(d, e, <<t, w>>)
                                /\ \A f \in e.fixups : f.kind = e.kind[t] => f.wire # w
    BY <1>2 DEF PendingFits
  <2>1. CASE w \in Ended(b, ks, t)
    <3>1. w \in DOMAIN Wires(b, t) /\ Wires(b, t)[w].is = "internal" /\ <<b.kind[t], w>> \in ks
      BY <1>7, <2>1
    <3>2. /\ w \in DOMAIN d.wires[t]
          /\ Wires(b, t)[w].speed = d.wires[t][w]
          /\ Wires(b, t)[w].cls = Cls(d, <<t, w>>)
          /\ w \notin DOMAIN b.conn[t]
          /\ d.net[<<t, w>>] \in G => d.net[<<t, w>>] = {<<t, w>>}
      BY <1>1, <3>1 DEF InternalFits
    <3>3. FixupOf(d, e, <<t, w>>) \in e.fixups
      <4> DEFINE x == <<b.kind[t], w>>
      <4>1. x \in InternalIn(b, ks)
        BY <2>1 DEF Ended
      <4>2. [kind |-> x[1], wire |-> x[2], speed |-> b.kinds[x[1]].wires[x[2]].speed,
             cls |-> b.kinds[x[1]].wires[x[2]].cls] \in e.fixups
        <5> HIDE DEF x
        <5> QED
          BY <4>1, <1>5
      <4>3. b.kinds[x[1]].wires[x[2]] = Wires(b, t)[w] /\ x[1] = b.kind[t] /\ x[2] = w
        BY DEF Wires
      <4> QED
        BY <4>2, <4>3, <3>2, <1>2 DEF FixupOf
    <3> QED
      BY <3>2, <3>3, <1>2, <1>4, <2>1
  <2>2. CASE w \notin Ended(b, ks, t)
    <3>1. w \in DOMAIN b.pending[t] /\ e.pending[t][w] = b.pending[t][w]
      BY <1>4, <2>2
    <3>2. /\ w \in DOMAIN d.wires[t]
          /\ w \notin DOMAIN b.conn[t]
          /\ b.pending[t][w] = Cls(d, <<t, w>>)
          /\ d.net[<<t, w>>] \in G =>
              /\ d.net[<<t, w>>] = {<<t, w>>}
              /\ \/ FixupOf(d, b, <<t, w>>) \in b.fixups
                 \/ /\ LostTo(d, b, <<t, w>>)
                    /\ \A f \in b.fixups : f.kind = b.kind[t] => f.wire # w
      BY <1>1, <3>1 DEF PendingFits
    <3>3. w \in DOMAIN Wires(b, t)
      BY <3>2, <1>1 DEF Shape
    <3>4. Wires(b, t)[w].is # "internal"
      BY <3>1, <3>3, <1>1 DEF InternalFits
    <3>5. \A f \in e.fixups \ b.fixups : ~ (f.kind = b.kind[t] /\ f.wire = w)
      <4>1. SUFFICES ASSUME NEW x \in InternalIn(b, ks), x[1] = b.kind[t], x[2] = w
                     PROVE  FALSE
        BY <1>5
      <4> QED
        BY <4>1, <3>4 DEF InternalIn, Wires
    <3>6. FixupOf(d, e, <<t, w>>) = FixupOf(d, b, <<t, w>>)
      BY <1>2 DEF FixupOf
    <3>7. LostTo(d, e, <<t, w>>) <=> LostTo(d, b, <<t, w>>)
      <4>1. e.kinds[e.kind[t]].tiles = b.kinds[b.kind[t]].tiles
        BY <1>2, <1>3, <1>6
      <4> DEFINE p == <<t, w>>
      <4>2. e.kinds[e.kind[p[1]]].tiles = b.kinds[b.kind[p[1]]].tiles
        BY <4>1
      <4> HIDE DEF p
      <4>3. LostTo(d, e, p) <=> LostTo(d, b, p)
        BY <4>2 DEF LostTo
      <4> QED
        BY <4>3 DEF p
    <3>8. FixupOf(d, b, <<t, w>>) \in b.fixups => FixupOf(d, e, <<t, w>>) \in e.fixups
      BY <3>6, <1>5
    <3> QED
      BY <3>1, <3>2, <3>5, <3>7, <3>8, <1>2
  <2> QED
    BY <2>1, <2>2
<1>15. FixupsFit(e)
  <2> DEFINE fix(x) == [kind |-> x[1], wire |-> x[2], speed |-> b.kinds[x[1]].wires[x[2]].speed,
                        cls |-> b.kinds[x[1]].wires[x[2]].cls]
  <2>1. \A x \in InternalIn(b, ks) :
            /\ x = <<x[1], x[2]>> /\ x \in ks /\ x[1] \in DOMAIN b.kinds
            /\ x[2] \in DOMAIN b.kinds[x[1]].wires /\ b.kinds[x[1]].wires[x[2]].is = "internal"
            /\ fix(x).kind = x[1] /\ fix(x).wire = x[2]
    BY DEF InternalIn, Pairs
  <2>2. \A f \in e.fixups : f \in b.fixups \/ \E x \in InternalIn(b, ks) : f = fix(x)
    BY <1>5
  <2>3. ASSUME NEW f \in b.fixups
        PROVE  /\ f.kind \in DOMAIN b.kinds /\ f.wire \in DOMAIN b.kinds[f.kind].wires
               /\ b.kinds[f.kind].wires[f.wire].is # "internal"
    BY <1>1 DEF FixupsFit
  <2> HIDE DEF fix
  <2>4. ASSUME NEW f \in e.fixups
        PROVE  /\ f.kind \in DOMAIN e.kinds /\ f.wire \in DOMAIN e.kinds[f.kind].wires
               /\ e.kinds[f.kind].wires[f.wire].is # "internal"
    <3>1. CASE f \in b.fixups
      BY <3>1, <2>3, <1>2, <1>3, TwoKinds
    <3>2. CASE \E x \in InternalIn(b, ks) : f = fix(x)
      <4>1. PICK x \in InternalIn(b, ks) : f = fix(x)
        BY <3>2
      <4>2. e.kinds[x[1]].wires[x[2]] = Connected
        <5>1. x[1] \in DOMAIN b.kinds /\ x[2] \in DOMAIN b.kinds[x[1]].wires /\ <<x[1], x[2]>> \in ks
          BY <2>1
        <5> QED
          BY <5>1, <1>3
      <4> QED
        BY <4>1, <4>2, <2>1, <1>2, <1>3, TwoKinds
    <3> QED
      BY <3>1, <3>2, <2>2
  <2>5. ASSUME NEW f \in e.fixups, NEW g \in e.fixups, f.kind = g.kind, f.wire = g.wire
        PROVE  f = g
    <3>1. CASE f \in b.fixups /\ g \in b.fixups
      BY <3>1, <2>5, <1>1 DEF FixupsFit
    <3>2. CASE (\E x \in InternalIn(b, ks) : f = fix(x)) /\ (\E x \in InternalIn(b, ks) : g = fix(x))
      <4>1. PICK x \in InternalIn(b, ks) : f = fix(x)
        BY <3>2
      <4>2. PICK y \in InternalIn(b, ks) : g = fix(y)
        BY <3>2
      <4>3. x = y
        BY <4>1, <4>2, <2>1, <2>5
      <4> QED
        BY <4>1, <4>2, <4>3
    <3>3. CASE f \in b.fixups /\ \E x \in InternalIn(b, ks) : g = fix(x)
      BY <3>3, <2>1, <2>3, <2>5
    <3>4. CASE g \in b.fixups /\ \E x \in InternalIn(b, ks) : f = fix(x)
      BY <3>4, <2>1, <2>3, <2>5
    <3> QED
      BY <3>1, <3>2, <3>3, <3>4, <2>2
  <2> QED
    BY <2>4, <2>5 DEF FixupsFit
<1>16. Kills(d, e, T)
  <2> SUFFICES ASSUME NEW t \in T, NEW w \in DOMAIN d.wires[t], d.net[<<t, w>>] = {}
               PROVE  /\ Wires(e, t)[w].is # "internal"
                      /\ w \notin DOMAIN e.pending[t] /\ w \notin DOMAIN e.conn[t]
    BY DEF Kills
  <2>1. /\ Wires(b, t)[w].is # "internal"
        /\ w \notin DOMAIN b.pending[t] /\ w \notin DOMAIN b.conn[t]
    BY DEF Kills
  <2>2. t \in DOMAIN b.kind /\ w \in DOMAIN Wires(b, t)
    BY <1>1 DEF Shape
  <2> QED
    BY <2>1, <2>2, <1>2, <1>4, <1>7, TwoKinds
<1>17. \A t \in DOMAIN b.kind :
            /\ DOMAIN Wires(e, t) = DOMAIN Wires(b, t)
            /\ \A w \in DOMAIN Wires(b, t) : <<b.kind[t], w>> \in ks => Wires(e, t)[w].is # "internal"
  BY <1>7, TwoKinds
<1> QED
  BY <1>2, <1>8, <1>9, <1>10, <1>11, <1>12, <1>13, <1>14, <1>15, <1>16, <1>17 DEF Builds
DeadIn(d, t) == {w \in DOMAIN d.wires[t] : d.net[<<t, w>>] = {}}

\* Killing the wires without node of a tile keeps the invariant.
LEMMA KillBuilds ==
    ASSUME NEW d \in Dumps, NEW b, NEW G, Builds(d, b, G), NEW T \in SUBSET DOMAIN b.kind,
           Kills(d, b, T), NEW t \in DOMAIN b.kind, NEW r, r = kill_wire(b, t, DeadIn(d, t))
    PROVE  Builds(d, r, G) /\ Kills(d, r, T \cup {t}) /\ r.kind = b.kind
<1> DEFINE ws == DeadIn(d, t)
           ks == {b.kind[t]} \X ws
           e == ensure_conn_wire(b, ks)
           nconn == [u \in DOMAIN e.conn |-> IF u = t THEN Without(e.conn[u], ws) ELSE e.conn[u]]
           npend == [u \in DOMAIN e.pending |->
                        IF u = t THEN Without(e.pending[u], ws) ELSE e.pending[u]]
<1>1. t \in DOMAIN d.kind /\ b.kind[t] \in DOMAIN b.kinds /\ DOMAIN d.wires[t] \subseteq DOMAIN Wires(b, t)
  BY DEF Builds, Shape
<1>2. ks \in SUBSET Pairs(b)
  BY <1>1 DEF Pairs, Wires, DeadIn
<1>3. /\ Builds(d, e, G) /\ Kills(d, e, T)
      /\ e.kind = b.kind
      /\ DOMAIN Wires(e, t) = DOMAIN Wires(b, t)
      /\ \A w \in DOMAIN Wires(b, t) : <<b.kind[t], w>> \in ks => Wires(e, t)[w].is # "internal"
  <2> HIDE DEF ks, e
  <2> QED
    BY <1>2, EnsureBuilds DEF e
<1>4. \A w \in ws : w \in DOMAIN d.wires[t] /\ d.net[<<t, w>>] = {} /\ Wires(e, t)[w].is # "internal"
  BY <1>1, <1>3 DEF DeadIn
<1>5. r = [e EXCEPT !.conn = nconn, !.pending = npend]
  BY DEF kill_wire
<1> HIDE DEF ks, e, ws
<1>6. /\ Shape(d, e) /\ GivenFits(d, e, G) /\ InternalFits(d, e, G) /\ ConnectedFits(d, e, G)
      /\ ConnFits(d, e, G) /\ NodesFit(d, e, G) /\ PendingFits(d, e, G) /\ FixupsFit(e)
  BY <1>3 DEF Builds
<1>7. r = [kinds |-> e.kinds, kind |-> e.kind, pending |-> npend, conn |-> nconn,
           overrides |-> e.overrides, nodes |-> e.nodes, fixups |-> e.fixups]
  <2>1. e = [kinds |-> e.kinds, kind |-> e.kind, pending |-> e.pending, conn |-> e.conn,
             overrides |-> e.overrides, nodes |-> e.nodes, fixups |-> e.fixups]
    BY <1>6 DEF Shape
  <2> HIDE DEF nconn, npend
  <2> QED
    BY <2>1, <1>5
<1>8. /\ r.kinds = e.kinds /\ r.kind = e.kind /\ r.overrides = e.overrides /\ r.nodes = e.nodes
      /\ r.fixups = e.fixups /\ r.pending = npend /\ r.conn = nconn
  <2> HIDE DEF nconn, npend
  <2> QED
    BY <1>7
<1>9. DOMAIN e.conn = DOMAIN e.kind /\ DOMAIN e.pending = DOMAIN e.kind
  BY <1>6 DEF Shape
<1>10. \A u \in DOMAIN e.kind : \A w : w \in DOMAIN e.conn[u] => <<u, w>> \in DOMAIN d.net /\ d.net[<<u, w>>] \in G
  BY <1>6 DEF ConnFits
\* A wire without node has no node: nothing is taken from conn.
<1>11. ASSUME NEW u \in DOMAIN e.kind
       PROVE  /\ DOMAIN r.conn[u] = DOMAIN e.conn[u]
              /\ \A w \in DOMAIN e.conn[u] : r.conn[u][w] = e.conn[u][w]
  <2>1. CASE u = t
    <3>1. r.conn[u] = Without(e.conn[u], ws)
      BY <1>8, <1>9, <2>1
    <3>2. DOMAIN e.conn[u] \cap ws = {}
      <4>1. G \subseteq Nets(d)
        BY <1>6 DEF GivenFits
      <4>2. {} \notin G
        BY <4>1 DEF Nets
      <4> QED
        BY <4>2, <1>4, <1>10, <2>1
    <3>3. /\ DOMAIN Without(e.conn[u], ws) = DOMAIN e.conn[u] \ ws
          /\ \A w \in DOMAIN e.conn[u] \ ws : Without(e.conn[u], ws)[w] = e.conn[u][w]
      BY WithoutIs, Zenon
    <3> QED
      BY <3>1, <3>2, <3>3
  <2>2. CASE u # t
    BY <1>8, <1>9, <2>2
  <2> QED
    BY <2>1, <2>2
<1>12. ASSUME NEW u \in DOMAIN e.kind
       PROVE  /\ DOMAIN r.pending[u] = DOMAIN e.pending[u] \ (IF u = t THEN ws ELSE {})
              /\ \A w \in DOMAIN r.pending[u] : r.pending[u][w] = e.pending[u][w]
  <2>1. CASE u = t
    <3>1. r.pending[u] = Without(e.pending[u], ws)
      BY <1>8, <1>9, <2>1
    <3>2. /\ DOMAIN Without(e.pending[u], ws) = DOMAIN e.pending[u] \ ws
          /\ \A w \in DOMAIN e.pending[u] \ ws : Without(e.pending[u], ws)[w] = e.pending[u][w]
      BY WithoutIs, Zenon
    <3> QED
      BY <3>1, <3>2, <2>1
  <2>2. CASE u # t
    BY <1>8, <1>9, <2>2
  <2> QED
    BY <2>1, <2>2
<1>13. \A u : Wires(r, u) = Wires(e, u)
  BY <1>8 DEF Wires
<1>14. DOMAIN r.conn = DOMAIN e.kind /\ DOMAIN r.pending = DOMAIN e.kind
  BY <1>8, <1>9
<1> HIDE DEF nconn, npend
<1>15. Shape(d, r)
  <2>1. r = [kinds |-> r.kinds, kind |-> r.kind, pending |-> r.pending, conn |-> r.conn,
             overrides |-> r.overrides, nodes |-> r.nodes, fixups |-> r.fixups]
    BY <1>7, <1>8
  <2> QED
    BY <2>1, <1>6, <1>8, <1>13, <1>14 DEF Shape
<1>16. GivenFits(d, r, G)
  BY <1>6, <1>8, <1>13 DEF GivenFits
<1>17. InternalFits(d, r, G)
  <2> SUFFICES ASSUME NEW u \in DOMAIN r.kind, NEW w \in DOMAIN Wires(r, u),
                      Wires(r, u)[w].is = "internal"
               PROVE  /\ w \in DOMAIN d.wires[u]
                      /\ Wires(r, u)[w].speed = d.wires[u][w]
                      /\ Wires(r, u)[w].cls = Cls(d, <<u, w>>)
                      /\ w \notin DOMAIN r.conn[u]
                      /\ w \notin DOMAIN r.pending[u]
                      /\ d.net[<<u, w>>] \in G => d.net[<<u, w>>] = {<<u, w>>}
    BY DEF InternalFits
  <2> QED
    BY <1>6, <1>8, <1>11, <1>12, <1>13 DEF InternalFits
<1>18. ConnectedFits(d, r, G)
  <2> SUFFICES ASSUME NEW u \in DOMAIN e.kind, NEW w \in DOMAIN Wires(e, u),
                      Wires(e, u)[w].is # "internal",
                      <<u, w>> \in DOMAIN d.net, d.net[<<u, w>>] # {},
                      <<u, w>> \in Listed(d) \/ d.net[<<u, w>>] \in G
               PROVE  w \in DOMAIN r.conn[u] \cup DOMAIN r.pending[u]
    BY <1>8, <1>13 DEF ConnectedFits
  <2>1. w \in DOMAIN e.conn[u] \cup DOMAIN e.pending[u]
    BY <1>6 DEF ConnectedFits
  <2>2. u = t => w \notin ws
    BY <1>4
  <2> QED
    BY <2>1, <2>2, <1>11, <1>12
<1>19. ConnFits(d, r, G)
  <2> SUFFICES ASSUME NEW u \in DOMAIN e.kind, NEW w \in DOMAIN r.conn[u]
               PROVE  /\ w \in DOMAIN Wires(e, u)
                      /\ <<u, w>> \in DOMAIN d.net /\ d.net[<<u, w>>] \in G
                      /\ r.conn[u][w] \in e.nodes
                      /\ WiresOf(r.conn[u][w]) = StoredAs(d, d.net[<<u, w>>])
    BY <1>8, <1>13 DEF ConnFits
  <2> QED
    BY <1>6, <1>11 DEF ConnFits
<1>20. NodesFit(d, r, G)
  <2> SUFFICES ASSUME NEW n \in e.nodes
               PROVE  \E m \in G :
                        /\ WiresOf(n) = StoredAs(d, m)
                        /\ \A q \in m : /\ q[1] \in DOMAIN e.kind /\ q[2] \in DOMAIN r.conn[q[1]]
                                        /\ r.conn[q[1]][q[2]] = n
    BY <1>8 DEF NodesFit
  <2>1. PICK m \in G :
            /\ WiresOf(n) = StoredAs(d, m)
            /\ \A q \in m : /\ q[1] \in DOMAIN e.kind /\ q[2] \in DOMAIN e.conn[q[1]]
                            /\ e.conn[q[1]][q[2]] = n
    BY <1>6 DEF NodesFit
  <2> QED
    BY <2>1, <1>11
<1>21. PendingFits(d, r, G)
  <2> SUFFICES ASSUME NEW u \in DOMAIN e.kind, NEW w \in DOMAIN r.pending[u]
               PROVE  /\ w \in DOMAIN d.wires[u]
                      /\ w \notin DOMAIN r.conn[u]
                      /\ r.pending[u][w] = Cls(d, <<u, w>>)
                      /\ d.net[<<u, w>>] \in G =>
                          /\ d.net[<<u, w>>] = {<<u, w>>}
                          /\ \/ FixupOf(d, r, <<u, w>>) \in r.fixups
                             \/ /\ LostTo(d, r, <<u, w>>)
                                /\ \A f \in r.fixups : f.kind = r.kind[u] => f.wire # w
    BY <1>8 DEF PendingFits
  <2>1. w \in DOMAIN e.pending[u] /\ r.pending[u][w] = e.pending[u][w]
    BY <1>12
  <2>2. FixupOf(d, r, <<u, w>>) = FixupOf(d, e, <<u, w>>) /\ (LostTo(d, r, <<u, w>>) <=> LostTo(d, e, <<u, w>>))
    BY <1>8 DEF FixupOf, LostTo
  <2> QED
    BY <2>1, <2>2, <1>6, <1>8, <1>11 DEF PendingFits
<1>22. FixupsFit(r)
  BY <1>6, <1>8 DEF FixupsFit
<1>23. Kills(d, r, T \cup {t})
  <2> SUFFICES ASSUME NEW u \in T \cup {t}, NEW w \in DOMAIN d.wires[u], d.net[<<u, w>>] = {}
               PROVE  /\ Wires(e, u)[w].is # "internal"
                      /\ w \notin DOMAIN r.pending[u] /\ w \notin DOMAIN r.conn[u]
    BY <1>13 DEF Kills
  <2>1. CASE u = t
    <3>1. w \in ws
      BY <2>1 DEF ws, DeadIn
    <3>2. w \notin DOMAIN e.conn[u]
      <4>1. G \subseteq Nets(d)
        BY <1>6 DEF GivenFits
      <4>2. {} \notin G
        BY <4>1 DEF Nets
      <4> QED
        BY <4>2, <1>3, <1>10, <2>1
    <3> QED
      BY <3>1, <3>2, <2>1, <1>3, <1>4, <1>11, <1>12
  <2>2. CASE u # t
    <3>1. u \in T /\ u \in DOMAIN e.kind
      BY <2>2, <1>3
    <3> QED
      BY <3>1, <1>3, <1>11, <1>12 DEF Kills
  <2> QED
    BY <2>1, <2>2
<1> QED
  BY <1>3, <1>8, <1>15, <1>16, <1>17, <1>18, <1>19, <1>20, <1>21, <1>22, <1>23 DEF Builds

(***************************************************************************)
(* add_node                                                                *)
(***************************************************************************)
LEMMA MinIsNat ==
    ASSUME NEW S \in SUBSET Nat, S # {}
    PROVE  Min(S) \in Nat
<1>1. \E x \in S : \A y \in S : x <= y
  BY LeastNat
<1> QED
  BY <1>1 DEF Min

\* The tiles of a node were given to the builder, with the node's wires.
CanTake(b, n) == \A q \in n : q[1] \in DOMAIN b.kind /\ q[2] \in DOMAIN Wires(b, q[1])

\* The class of a wire is still known when its node comes.
LEMMA ClassNowIs ==
    ASSUME NEW d \in Dumps, NEW b, NEW G, Builds(d, b, G),
           NEW n \in Nets(d), n \notin G, CanTake(b, n), NEW q \in n
    PROVE  ClassNow(b, q[1], q[2]) = Cls(d, q)
<1> DEFINE t == q[1]
           w == q[2]
<1>1. /\ InternalFits(d, b, G) /\ ConnectedFits(d, b, G) /\ ConnFits(d, b, G) /\ PendingFits(d, b, G)
      /\ DOMAIN b.kind \subseteq DOMAIN d.kind
  BY DEF Builds, Shape
<1>2. q \in DOMAIN d.net /\ d.net[q] = n /\ n # {}
  BY NetOfMember DEF Nets
<1>3. q = <<t, w>> /\ t \in DOMAIN d.kind
  BY <1>2, DumpFacts
<1>4. t \in DOMAIN b.kind /\ w \in DOMAIN Wires(b, t)
  BY DEF CanTake
<1> HIDE DEF t, w
<1>5. CASE Wires(b, t)[w].is = "internal"
  BY <1>1, <1>3, <1>4, <1>5 DEF InternalFits, ClassNow, t, w
<1>6. CASE Wires(b, t)[w].is # "internal" /\ w \in DOMAIN b.pending[t]
  <2>1. b.pending[t][w] = Cls(d, q)
    BY <1>1, <1>3, <1>4, <1>6 DEF PendingFits
  <2> QED
    BY <1>6, <2>1 DEF ClassNow, t, w
<1>7. CASE Wires(b, t)[w].is # "internal" /\ w \notin DOMAIN b.pending[t]
  <2>1. w \notin DOMAIN b.conn[t]
    BY <1>1, <1>2, <1>3, <1>4 DEF ConnFits
  <2>2. q \notin Listed(d)
    BY <1>1, <1>2, <1>3, <1>4, <1>7, <2>1 DEF ConnectedFits
  <2>3. d.flow = "ise"
    BY <2>2, <1>2, DumpFacts
  <2>4. Cls(d, q) = NoClass
    BY <2>3, <1>3, IseNoClass DEF t
  <2> QED
    BY <1>7, <2>4 DEF ClassNow, t, w
<1> QED
  BY <1>5, <1>6, <1>7

\* The node that is stored has the wires that were given, with their classes.
LEMMA NodeIs ==
    ASSUME NEW d \in Dumps, NEW b, NEW G, Builds(d, b, G),
           NEW n \in Nets(d), n \notin G, CanTake(b, n)
    PROVE  WiresOf(NodeOf(b, GivenAs(d, n))) = StoredAs(d, n)
<1> DEFINE ws == GivenAs(d, n)
           xs == {x.tile[1] : x \in ws}
           ys == {x.tile[2] : x \in ws}
           bx == Min(xs)
           by == Min(ys)
           tem(x) == [delta |-> <<x.tile[1] - bx, x.tile[2] - by>>, wire |-> x.wire,
                      speed |-> x.speed, cls |-> ClassNow(b, x.tile, x.wire)]
           abs(z) == [tile |-> <<bx + z.delta[1], by + z.delta[2]>>, wire |-> z.wire,
                      speed |-> z.speed, cls |-> z.cls]
           giv(q) == [tile |-> q[1], wire |-> q[2], speed |-> Speed(d, q)]
           sto(q) == [tile |-> q[1], wire |-> q[2], speed |-> Speed(d, q), cls |-> Cls(d, q)]
<1>1. n # {}
  BY DEF Nets
<1>2. \A q \in n : q[1] \in Nat \X Nat
  BY NetOfMember, DumpFacts
<1>3. ws = {giv(q) : q \in n}
  BY DEF GivenAs
<1>4. \A x \in ws : x.tile \in Nat \X Nat
  <2>1. \A q \in n : giv(q).tile = q[1]
    OBVIOUS
  <2> HIDE DEF ws, giv
  <2> QED
    BY <2>1, <1>2, <1>3
<1>5. ws # {}
  BY <1>1, <1>3
<1> HIDE DEF ws
<1>6. bx \in Nat /\ by \in Nat
  <2>1. xs \in SUBSET Nat /\ ys \in SUBSET Nat
    BY <1>4
  <2>2. xs # {} /\ ys # {}
    BY <1>5
  <2> HIDE DEF xs, ys
  <2> QED
    BY <2>1, <2>2, MinIsNat
<1>7. NodeOf(b, ws) = [base |-> <<bx, by>>, template |-> {tem(x) : x \in ws}]
  BY DEF NodeOf
<1> HIDE DEF bx, by
<1>8. WiresOf(NodeOf(b, ws)) = {abs(z) : z \in {tem(x) : x \in ws}}
  <2>1. NodeOf(b, ws).base = <<bx, by>> /\ NodeOf(b, ws).template = {tem(x) : x \in ws}
    BY <1>7
  <2>2. NodeOf(b, ws).base[1] = bx /\ NodeOf(b, ws).base[2] = by
    BY <2>1
  <2> HIDE DEF tem
  <2> QED
    BY <2>1, <2>2 DEF WiresOf
<1>9. ASSUME NEW q \in n
      PROVE  abs(tem(giv(q))) = sto(q)
  <2> DEFINE t == q[1]
  <2>1. t \in Nat \X Nat
    BY <1>2
  <2>2. ClassNow(b, q[1], q[2]) = Cls(d, q)
    BY ClassNowIs
  <2>3. PICK i \in Nat, j \in Nat : t = <<i, j>>
    BY <2>1
  <2>4. <<bx + (t[1] - bx), by + (t[2] - by)>> = t
    BY <2>3, <1>6
  <2>5. tem(giv(q)) = [delta |-> <<t[1] - bx, t[2] - by>>, wire |-> q[2],
                       speed |-> Speed(d, q), cls |-> Cls(d, q)]
    BY <2>2
  <2>6. abs(tem(giv(q))) = [tile |-> <<bx + (t[1] - bx), by + (t[2] - by)>>, wire |-> q[2],
                            speed |-> Speed(d, q), cls |-> Cls(d, q)]
    <3> HIDE DEF tem, giv, t
    <3> QED
      BY <2>5
  <2> HIDE DEF tem, giv
  <2> QED
    BY <2>6, <2>4
<1>10. {abs(z) : z \in {tem(x) : x \in ws}} = {sto(q) : q \in n}
  <2> HIDE DEF abs, tem, giv, sto
  <2> QED
    BY <1>3, <1>9
<1> QED
  BY <1>8, <1>10 DEF StoredAs, ws
\* The wires of a node that are of one tile, as Attach finds them.
LEMMA OfTile ==
    ASSUME NEW d \in Dumps, NEW n \in Nets(d), NEW t, NEW w
    PROVE  w \in {x.wire : x \in {y \in GivenAs(d, n) : y.tile = t}} <=> <<t, w>> \in n
<1> DEFINE giv(q) == [tile |-> q[1], wire |-> q[2], speed |-> Speed(d, q)]
<1>1. \A q \in n : q = <<q[1], q[2]>>
  BY NetOfMember, DumpFacts
<1>2. GivenAs(d, n) = {giv(q) : q \in n}
  BY DEF GivenAs
<1>3. \A q : giv(q).tile = q[1] /\ giv(q).wire = q[2]
  OBVIOUS
<1> HIDE DEF giv
<1>4. ASSUME <<t, w>> \in n PROVE w \in {x.wire : x \in {y \in GivenAs(d, n) : y.tile = t}}
  <2> DEFINE q == <<t, w>>
  <2>1. giv(q) \in GivenAs(d, n)
    BY <1>2, <1>4
  <2>2. giv(q).tile = t /\ giv(q).wire = w
    BY <1>3
  <2> HIDE DEF q
  <2> QED
    BY <2>1, <2>2
<1>5. ASSUME w \in {x.wire : x \in {y \in GivenAs(d, n) : y.tile = t}} PROVE <<t, w>> \in n
  <2>1. PICK x \in GivenAs(d, n) : x.tile = t /\ x.wire = w
    BY <1>5
  <2>2. PICK q \in n : x = giv(q)
    BY <2>1, <1>2
  <2>3. q = <<t, w>>
    BY <2>1, <2>2, <1>1, <1>3
  <2> QED
    BY <2>3
<1> QED
  BY <1>4, <1>5

\* A node that is given to Connected wires.
LEMMA AttachBuilds ==
    ASSUME NEW d \in Dumps, NEW e, NEW G, Builds(d, e, G), NEW T \in SUBSET DOMAIN e.kind,
           Kills(d, e, T), NEW n \in Nets(d), n \notin G, CanTake(e, n),
           \A q \in n : Wires(e, q[1])[q[2]].is # "internal",
           NEW m, WiresOf(m) = StoredAs(d, n), NEW r, r = Attach(e, GivenAs(d, n), m)
    PROVE  Builds(d, r, G \cup {n}) /\ Kills(d, r, T) /\ r.kind = e.kind
<1> DEFINE of(t) == {x.wire : x \in {y \in GivenAs(d, n) : y.tile = t}}
           nconn == [t \in DOMAIN e.conn |-> Over([w \in of(t) |-> m], e.conn[t])]
           npend == [t \in DOMAIN e.pending |-> Without(e.pending[t], of(t))]
           H == G \cup {n}
<1>1. /\ Shape(d, e) /\ GivenFits(d, e, G) /\ InternalFits(d, e, G) /\ ConnectedFits(d, e, G)
      /\ ConnFits(d, e, G) /\ NodesFit(d, e, G) /\ PendingFits(d, e, G) /\ FixupsFit(e)
  BY DEF Builds
<1>2. \A t, w : w \in of(t) <=> <<t, w>> \in n
  BY OfTile
<1>3. r = [e EXCEPT !.nodes = e.nodes \cup {m}, !.conn = nconn, !.pending = npend]
  BY DEF Attach
<1> HIDE DEF of
<1>4. r = [kinds |-> e.kinds, kind |-> e.kind, pending |-> npend, conn |-> nconn,
           overrides |-> e.overrides, nodes |-> e.nodes \cup {m}, fixups |-> e.fixups]
  <2>1. e = [kinds |-> e.kinds, kind |-> e.kind, pending |-> e.pending, conn |-> e.conn,
             overrides |-> e.overrides, nodes |-> e.nodes, fixups |-> e.fixups]
    BY <1>1 DEF Shape
  <2> HIDE DEF nconn, npend
  <2> QED
    BY <2>1, <1>3
<1>5. /\ r.kinds = e.kinds /\ r.kind = e.kind /\ r.overrides = e.overrides
      /\ r.nodes = e.nodes \cup {m} /\ r.fixups = e.fixups /\ r.pending = npend /\ r.conn = nconn
  <2> HIDE DEF nconn, npend
  <2> QED
    BY <1>4
<1>6. DOMAIN e.conn = DOMAIN e.kind /\ DOMAIN e.pending = DOMAIN e.kind
  BY <1>1 DEF Shape
<1>7. DOMAIN r.conn = DOMAIN e.kind /\ DOMAIN r.pending = DOMAIN e.kind
  BY <1>5, <1>6
<1>8. ASSUME NEW t \in DOMAIN e.kind
      PROVE  /\ DOMAIN r.conn[t] = of(t) \cup DOMAIN e.conn[t]
             /\ \A w \in of(t) : r.conn[t][w] = m
             /\ \A w \in DOMAIN e.conn[t] \ of(t) : r.conn[t][w] = e.conn[t][w]
  <2> DEFINE f == [w \in of(t) |-> m]
  <2>1. r.conn[t] = Over(f, e.conn[t])
    BY <1>5, <1>6
  <2>2. DOMAIN f = of(t) /\ \A w \in of(t) : f[w] = m
    OBVIOUS
  <2> HIDE DEF f
  <2>3. /\ DOMAIN Over(f, e.conn[t]) = DOMAIN f \cup DOMAIN e.conn[t]
        /\ \A w \in DOMAIN f : Over(f, e.conn[t])[w] = f[w]
        /\ \A w \in DOMAIN e.conn[t] \ DOMAIN f : Over(f, e.conn[t])[w] = e.conn[t][w]
    BY OverIs, Zenon
  <2> QED
    BY <2>1, <2>2, <2>3
<1>9. ASSUME NEW t \in DOMAIN e.kind
      PROVE  /\ DOMAIN r.pending[t] = DOMAIN e.pending[t] \ of(t)
             /\ \A w \in DOMAIN r.pending[t] : r.pending[t][w] = e.pending[t][w]
  <2>1. r.pending[t] = Without(e.pending[t], of(t))
    BY <1>5, <1>6
  <2>2. /\ DOMAIN Without(e.pending[t], of(t)) = DOMAIN e.pending[t] \ of(t)
        /\ \A w \in DOMAIN e.pending[t] \ of(t) : Without(e.pending[t], of(t))[w] = e.pending[t][w]
    BY WithoutIs, Zenon
  <2> QED
    BY <2>1, <2>2
<1>10. \A t : Wires(r, t) = Wires(e, t)
  BY <1>5 DEF Wires
<1> HIDE DEF nconn, npend
<1>11. n # {} /\ \A q \in n : q \in DOMAIN d.net /\ d.net[q] = n /\ q = <<q[1], q[2]>>
  BY NetOfMember, DumpFacts DEF Nets
<1>12. \A q \in DOMAIN d.net : d.net[q] = n => q \in n
  BY <1>11, MemberOfNet
<1>13. Shape(d, r)
  <2>1. r = [kinds |-> r.kinds, kind |-> r.kind, pending |-> r.pending, conn |-> r.conn,
             overrides |-> r.overrides, nodes |-> r.nodes, fixups |-> r.fixups]
    BY <1>4, <1>5
  <2> QED
    BY <2>1, <1>1, <1>5, <1>7, <1>10 DEF Shape
<1>14. GivenFits(d, r, H)
  BY <1>1, <1>5, <1>10 DEF GivenFits, CanTake
<1>15. \A t \in DOMAIN e.kind : \A w \in DOMAIN Wires(e, t) :
            Wires(e, t)[w].is = "internal" => <<t, w>> \notin n /\ <<t, w>> \in DOMAIN d.net
  <2> TAKE t \in DOMAIN e.kind
  <2> TAKE w \in DOMAIN Wires(e, t)
  <2> HAVE Wires(e, t)[w].is = "internal"
  <2> DEFINE q == <<t, w>>
  <2>1. q[1] = t /\ q[2] = w
    OBVIOUS
  <2>2. q \notin n
    BY <2>1
  <2>3. w \in DOMAIN d.wires[t] /\ t \in DOMAIN d.kind
    BY <1>1 DEF InternalFits, Shape
  <2>4. q \in DOMAIN d.net
    BY <2>3, ListedIs, DumpFacts
  <2> QED
    BY <2>2, <2>4
<1>16. InternalFits(d, r, H)
  <2> SUFFICES ASSUME NEW t \in DOMAIN r.kind, NEW w \in DOMAIN Wires(r, t),
                      Wires(r, t)[w].is = "internal"
               PROVE  /\ w \in DOMAIN d.wires[t]
                      /\ Wires(r, t)[w].speed = d.wires[t][w]
                      /\ Wires(r, t)[w].cls = Cls(d, <<t, w>>)
                      /\ w \notin DOMAIN r.conn[t]
                      /\ w \notin DOMAIN r.pending[t]
                      /\ d.net[<<t, w>>] \in H => d.net[<<t, w>>] = {<<t, w>>}
    BY DEF InternalFits
  <2>1. <<t, w>> \notin n /\ <<t, w>> \in DOMAIN d.net
    BY <1>5, <1>10, <1>15
  <2>2. d.net[<<t, w>>] # n /\ w \notin of(t)
    BY <2>1, <1>2, <1>12
  <2> QED
    BY <2>2, <1>1, <1>5, <1>8, <1>9, <1>10 DEF InternalFits
<1>17. ConnectedFits(d, r, H)
  <2> SUFFICES ASSUME NEW t \in DOMAIN e.kind, NEW w \in DOMAIN Wires(e, t),
                      Wires(e, t)[w].is # "internal",
                      <<t, w>> \in DOMAIN d.net, d.net[<<t, w>>] # {},
                      <<t, w>> \in Listed(d) \/ d.net[<<t, w>>] \in H
               PROVE  w \in DOMAIN r.conn[t] \cup DOMAIN r.pending[t]
    BY <1>5, <1>10 DEF ConnectedFits
  <2>1. CASE d.net[<<t, w>>] = n
    BY <2>1, <1>2, <1>8, <1>12
  <2>2. CASE d.net[<<t, w>>] # n
    <3>1. w \in DOMAIN e.conn[t] \cup DOMAIN e.pending[t]
      BY <1>1, <2>2 DEF ConnectedFits
    <3> QED
      BY <3>1, <1>8, <1>9
  <2> QED
    BY <2>1, <2>2
<1>18. ConnFits(d, r, H)
  <2> SUFFICES ASSUME NEW t \in DOMAIN e.kind, NEW w \in DOMAIN r.conn[t]
               PROVE  /\ w \in DOMAIN Wires(e, t)
                      /\ <<t, w>> \in DOMAIN d.net /\ d.net[<<t, w>>] \in H
                      /\ r.conn[t][w] \in r.nodes
                      /\ WiresOf(r.conn[t][w]) = StoredAs(d, d.net[<<t, w>>])
    BY <1>5, <1>10 DEF ConnFits
  <2>1. CASE w \in of(t)
    <3> DEFINE q == <<t, w>>
    <3>1. q \in n /\ q[1] = t /\ q[2] = w
      BY <2>1, <1>2
    <3>2. w \in DOMAIN Wires(e, t)
      BY <3>1 DEF CanTake
    <3>3. q \in DOMAIN d.net /\ d.net[q] = n
      BY <3>1, <1>11
    <3>4. r.conn[t][w] = m /\ m \in r.nodes
      BY <2>1, <1>8, <1>5
    <3> QED
      BY <3>2, <3>3, <3>4
  <2>2. CASE w \notin of(t)
    <3>1. w \in DOMAIN e.conn[t] /\ r.conn[t][w] = e.conn[t][w]
      BY <2>2, <1>8
    <3> QED
      BY <3>1, <1>1, <1>5 DEF ConnFits
  <2> QED
    BY <2>1, <2>2
<1>19. NodesFit(d, r, H)
  <2> SUFFICES ASSUME NEW x \in r.nodes
               PROVE  \E k \in H :
                        /\ WiresOf(x) = StoredAs(d, k)
                        /\ \A q \in k : /\ q[1] \in DOMAIN e.kind /\ q[2] \in DOMAIN r.conn[q[1]]
                                        /\ r.conn[q[1]][q[2]] = x
    BY <1>5 DEF NodesFit
  <2>1. CASE x \in e.nodes
    <3>1. PICK k \in G :
              /\ WiresOf(x) = StoredAs(d, k)
              /\ \A q \in k : /\ q[1] \in DOMAIN e.kind /\ q[2] \in DOMAIN e.conn[q[1]]
                              /\ e.conn[q[1]][q[2]] = x
      BY <1>1, <2>1 DEF NodesFit
    <3>2. k \in Nets(d) /\ k # n
      BY <3>1, <1>1 DEF GivenFits
    <3>3. \A q \in k : q[2] \notin of(q[1])
      <4> TAKE q \in k
      <4>1. d.net[q] = k /\ q = <<q[1], q[2]>>
        BY <3>2, NetOfMember, DumpFacts
      <4>2. q \notin n
        BY <4>1, <3>2, <1>11
      <4> QED
        BY <4>1, <4>2, <1>2
    <3>4. \A q \in k : /\ q[1] \in DOMAIN e.kind /\ q[2] \in DOMAIN r.conn[q[1]]
                       /\ r.conn[q[1]][q[2]] = x
      BY <3>1, <3>3, <1>8
    <3> QED
      BY <3>1, <3>4
  <2>2. CASE x = m
    <3>1. \A q \in n : /\ q[1] \in DOMAIN e.kind /\ q[2] \in of(q[1])
      BY <1>2, <1>11 DEF CanTake
    <3>2. \A q \in n : /\ q[1] \in DOMAIN e.kind /\ q[2] \in DOMAIN r.conn[q[1]]
                       /\ r.conn[q[1]][q[2]] = x
      BY <3>1, <1>8, <2>2
    <3> QED
      BY <3>2, <2>2
  <2> QED
    BY <2>1, <2>2, <1>5
<1>20. PendingFits(d, r, H)
  <2> SUFFICES ASSUME NEW t \in DOMAIN e.kind, NEW w \in DOMAIN r.pending[t]
               PROVE  /\ w \in DOMAIN d.wires[t]
                      /\ w \notin DOMAIN r.conn[t]
                      /\ r.pending[t][w] = Cls(d, <<t, w>>)
                      /\ d.net[<<t, w>>] \in H =>
                          /\ d.net[<<t, w>>] = {<<t, w>>}
                          /\ \/ FixupOf(d, r, <<t, w>>) \in r.fixups
                             \/ /\ LostTo(d, r, <<t, w>>)
                                /\ \A f \in r.fixups : f.kind = r.kind[t] => f.wire # w
    BY <1>5 DEF PendingFits
  <2>1. w \in DOMAIN e.pending[t] /\ w \notin of(t) /\ r.pending[t][w] = e.pending[t][w]
    BY <1>9
  <2>2. FixupOf(d, r, <<t, w>>) = FixupOf(d, e, <<t, w>>) /\ (LostTo(d, r, <<t, w>>) <=> LostTo(d, e, <<t, w>>))
    BY <1>5 DEF FixupOf, LostTo
  <2>3. w \in DOMAIN d.wires[t] /\ t \in DOMAIN d.kind
    BY <2>1, <1>1 DEF PendingFits, Shape
  <2>4. <<t, w>> \in DOMAIN d.net
    BY <2>3, ListedIs, DumpFacts
  <2>5. d.net[<<t, w>>] # n
    BY <2>1, <2>4, <1>2, <1>12
  <2> QED
    BY <2>1, <2>2, <2>5, <1>1, <1>5, <1>8 DEF PendingFits
<1>21. FixupsFit(r)
  BY <1>1, <1>5 DEF FixupsFit
<1>22. Kills(d, r, T)
  <2> SUFFICES ASSUME NEW t \in T, NEW w \in DOMAIN d.wires[t], d.net[<<t, w>>] = {}
               PROVE  /\ Wires(e, t)[w].is # "internal"
                      /\ w \notin DOMAIN r.pending[t] /\ w \notin DOMAIN r.conn[t]
    BY <1>10 DEF Kills
  <2>1. w \notin of(t)
    BY <1>2, <1>11
  <2> QED
    BY <2>1, <1>8, <1>9 DEF Kills
<1> QED
  BY <1>5, <1>13, <1>14, <1>16, <1>17, <1>18, <1>19, <1>20, <1>21, <1>22 DEF Builds
\* A node that its kind implies: nothing changes.
LEMMA ImpliedBuilds ==
    ASSUME NEW d \in Dumps, NEW b, NEW G, Builds(d, b, G),
           NEW n \in Nets(d), n \notin G, CanTake(b, n), Implied(b, GivenAs(d, n))
    PROVE  Builds(d, b, G \cup {n})
<1> DEFINE giv(q) == [tile |-> q[1], wire |-> q[2], speed |-> Speed(d, q)]
           H == G \cup {n}
<1>1. /\ Shape(d, b) /\ GivenFits(d, b, G) /\ InternalFits(d, b, G) /\ ConnectedFits(d, b, G)
      /\ ConnFits(d, b, G) /\ NodesFit(d, b, G) /\ PendingFits(d, b, G) /\ FixupsFit(b)
  BY DEF Builds
<1>2. n # {} /\ \A q \in n : q \in DOMAIN d.net /\ d.net[q] = n /\ q = <<q[1], q[2]>>
  BY NetOfMember, DumpFacts DEF Nets
<1>3. \A q \in DOMAIN d.net : d.net[q] = n => q \in n
  BY <1>2, MemberOfNet
<1>4. PICK x \in GivenAs(d, n) : GivenAs(d, n) = {x} /\ Wires(b, x.tile)[x.wire].is = "internal"
  BY DEF Implied
<1>5. \A q \in n : giv(q) = x
  BY <1>4 DEF GivenAs
<1>6. \A q \in n : q = <<x.tile, x.wire>>
  <2>1. \A q : giv(q).tile = q[1] /\ giv(q).wire = q[2]
    OBVIOUS
  <2> HIDE DEF giv
  <2> QED
    BY <2>1, <1>2, <1>5
<1>7. n = {<<x.tile, x.wire>>}
  BY <1>2, <1>6
<1>8. GivenFits(d, b, H)
  BY <1>1 DEF GivenFits, CanTake
\* The only wire of the node.
<1>9. ASSUME NEW t \in DOMAIN b.kind, NEW w \in DOMAIN d.wires[t], d.net[<<t, w>>] = n
      PROVE  n = {<<t, w>>} /\ Wires(b, t)[w].is = "internal" /\ w \in DOMAIN Wires(b, t)
  <2>1. t \in DOMAIN d.kind /\ w \in DOMAIN Wires(b, t)
    BY <1>1 DEF Shape
  <2>2. <<t, w>> \in DOMAIN d.net
    BY <2>1, ListedIs, DumpFacts
  <2>3. <<t, w>> = <<x.tile, x.wire>>
    BY <2>2, <1>3, <1>7, <1>9
  <2> QED
    BY <2>1, <2>3, <1>4, <1>7
<1>10. InternalFits(d, b, H)
  <2> SUFFICES ASSUME NEW t \in DOMAIN b.kind, NEW w \in DOMAIN Wires(b, t),
                      Wires(b, t)[w].is = "internal"
               PROVE  /\ w \in DOMAIN d.wires[t]
                      /\ Wires(b, t)[w].speed = d.wires[t][w]
                      /\ Wires(b, t)[w].cls = Cls(d, <<t, w>>)
                      /\ w \notin DOMAIN b.conn[t]
                      /\ w \notin DOMAIN b.pending[t]
                      /\ d.net[<<t, w>>] \in H => d.net[<<t, w>>] = {<<t, w>>}
    BY DEF InternalFits
  <2>1. w \in DOMAIN d.wires[t]
    BY <1>1 DEF InternalFits
  <2> QED
    BY <2>1, <1>1, <1>9 DEF InternalFits
<1>11. ConnectedFits(d, b, H)
  <2> SUFFICES ASSUME NEW t \in DOMAIN b.kind, NEW w \in DOMAIN Wires(b, t),
                      Wires(b, t)[w].is # "internal",
                      <<t, w>> \in DOMAIN d.net, d.net[<<t, w>>] # {},
                      <<t, w>> \in Listed(d) \/ d.net[<<t, w>>] \in H
               PROVE  w \in DOMAIN b.conn[t] \cup DOMAIN b.pending[t]
    BY DEF ConnectedFits
  <2>1. d.net[<<t, w>>] # n
    <3>1. SUFFICES ASSUME d.net[<<t, w>>] = n PROVE FALSE
      OBVIOUS
    <3>2. <<t, w>> = <<x.tile, x.wire>>
      BY <3>1, <1>3, <1>7
    <3> QED
      BY <3>2, <1>4
  <2> QED
    BY <2>1, <1>1 DEF ConnectedFits
<1>12. ConnFits(d, b, H)
  BY <1>1 DEF ConnFits
<1>13. NodesFit(d, b, H)
  BY <1>1 DEF NodesFit
<1>14. PendingFits(d, b, H)
  <2> SUFFICES ASSUME NEW t \in DOMAIN b.kind, NEW w \in DOMAIN b.pending[t]
               PROVE  /\ w \in DOMAIN d.wires[t]
                      /\ d.net[<<t, w>>] # n
    BY <1>1 DEF PendingFits
  <2>1. w \in DOMAIN d.wires[t]
    BY <1>1 DEF PendingFits
  <2> QED
    BY <2>1, <1>1, <1>9 DEF InternalFits
<1> QED
  BY <1>1, <1>8, <1>10, <1>11, <1>12, <1>13, <1>14 DEF Builds

\* A node is given once, after its tiles.
LEMMA AddNodeBuilds ==
    ASSUME NEW d \in Dumps, NEW b, NEW G, Builds(d, b, G), NEW T \in SUBSET DOMAIN b.kind,
           Kills(d, b, T), NEW n \in Nets(d), n \notin G, CanTake(b, n),
           NEW r, r = add_node(b, GivenAs(d, n))
    PROVE  Builds(d, r, G \cup {n}) /\ Kills(d, r, T) /\ r.kind = b.kind
<1>1. CASE Implied(b, GivenAs(d, n))
  BY <1>1, ImpliedBuilds DEF add_node
<1>2. CASE ~ Implied(b, GivenAs(d, n))
  <2> DEFINE giv(q) == [tile |-> q[1], wire |-> q[2], speed |-> Speed(d, q)]
             ks == {<<b.kind[x.tile], x.wire>> : x \in GivenAs(d, n)}
             e == ensure_conn_wire(b, ks)
             m == NodeOf(b, GivenAs(d, n))
  <2>1. r = Attach(e, GivenAs(d, n), m)
    BY <1>2 DEF add_node
  <2>2. \A q \in n : q[1] \in DOMAIN b.kind /\ q[2] \in DOMAIN Wires(b, q[1]) /\ b.kind[q[1]] \in DOMAIN b.kinds
    BY DEF CanTake, Builds, Shape
  <2>3. ks = {<<b.kind[q[1]], q[2]>> : q \in n}
    <3>1. GivenAs(d, n) = {giv(q) : q \in n}
      BY DEF GivenAs
    <3>2. \A q : giv(q).tile = q[1] /\ giv(q).wire = q[2]
      OBVIOUS
    <3> HIDE DEF giv
    <3> QED
      BY <3>1, <3>2
  <2> HIDE DEF ks
  <2>4. ks \in SUBSET Pairs(b)
    BY <2>2, <2>3 DEF Pairs, Wires
  <2>5. /\ Builds(d, e, G) /\ Kills(d, e, T)
        /\ e.kind = b.kind
        /\ \A t \in DOMAIN b.kind :
            /\ DOMAIN Wires(e, t) = DOMAIN Wires(b, t)
            /\ \A w \in DOMAIN Wires(b, t) :
                <<b.kind[t], w>> \in ks => Wires(e, t)[w].is # "internal"
    <3> HIDE DEF e
    <3> QED
      BY <2>4, EnsureBuilds DEF e
  <2> HIDE DEF e
  <2>6. CanTake(e, n)
    BY <2>2, <2>5 DEF CanTake
  <2>7. \A q \in n : Wires(e, q[1])[q[2]].is # "internal"
    BY <2>2, <2>3, <2>5
  <2>8. WiresOf(m) = StoredAs(d, n)
    BY NodeIs
  <2> HIDE DEF m
  <2> QED
    BY <2>1, <2>5, <2>6, <2>7, <2>8, AttachBuilds
<1> QED
  BY <1>1, <1>2

(***************************************************************************)
(* add_tile                                                                *)
(***************************************************************************)
\* The kind as it is before tile t is added: its wires and tiles; the wires that
\* end to be Internal; the wires of the kind after.
KindBefore(d, b, t) ==
    IF d.kind[t] \notin DOMAIN b.kinds
    THEN [w \in DOMAIN d.wires[t] |-> Internal(d.wires[t][w], Cls(d, <<t, w>>))]
    ELSE b.kinds[d.kind[t]].wires

TilesBefore(d, b, t) == IF d.kind[t] \notin DOMAIN b.kinds THEN << >> ELSE b.kinds[d.kind[t]].tiles

Changed(d, b, t) ==
    {w \in DOMAIN KindBefore(d, b, t) :
        /\ KindBefore(d, b, t)[w].is = "internal"
        /\ \/ w \notin DOMAIN d.wires[t]
           \/ KindBefore(d, b, t)[w] # Internal(d.wires[t][w], Cls(d, <<t, w>>))}

IsTkWire(x) == x = Connected \/ x = Internal(x.speed, x.cls)

KindAfter(d, b, t) ==
    [w \in DOMAIN KindBefore(d, b, t) \cup DOMAIN d.wires[t] |->
        IF w \in DOMAIN KindBefore(d, b, t) \ Changed(d, b, t) THEN KindBefore(d, b, t)[w]
        ELSE Connected]

\* What the tiles of before wait for after it.
PendingAfter(d, b, t, r, u) ==
    IF u \in Range(TilesBefore(d, b, t))
    THEN /\ DOMAIN r.pending[u] = Changed(d, b, t) \cup DOMAIN b.pending[u]
         /\ \A w \in Changed(d, b, t) : r.pending[u][w] = KindBefore(d, b, t)[w].cls
         /\ \A w \in DOMAIN b.pending[u] \ Changed(d, b, t) :
                r.pending[u][w] = b.pending[u][w]
    ELSE r.pending[u] = b.pending[u]

\* A wire of the kind after it.
WireAfter(d, b, t, w) ==
    IF KindAfter(d, b, t)[w].is = "internal"
    THEN /\ w \in DOMAIN KindBefore(d, b, t) \ Changed(d, b, t)
         /\ w \in DOMAIN d.wires[t]
         /\ KindAfter(d, b, t)[w] = KindBefore(d, b, t)[w]
         /\ KindAfter(d, b, t)[w] = Internal(d.wires[t][w], Cls(d, <<t, w>>))
    ELSE /\ KindAfter(d, b, t)[w] = Connected
         /\ w \in DOMAIN KindBefore(d, b, t) =>
                \/ w \in Changed(d, b, t)
                \/ KindBefore(d, b, t)[w].is # "internal"

\* What add_tile() changes, and what it leaves alone.
LEMMA AddTileIs ==
    ASSUME NEW d, NEW b, Shape(d, b), NEW t \in DOMAIN d.kind, t \notin DOMAIN b.kind,
           NEW r, r = add_tile(b, t, d.kind[t], d.wires[t], d.pips[t])
    PROVE  /\ r = [kinds |-> r.kinds, kind |-> r.kind, pending |-> r.pending, conn |-> r.conn,
                   overrides |-> r.overrides, nodes |-> r.nodes, fixups |-> r.fixups]
           /\ r.nodes = b.nodes /\ r.fixups = b.fixups
           /\ r.kinds = Put(b.kinds, d.kind[t], [wires |-> KindAfter(d, b, t),
                                                 tiles |-> Append(TilesBefore(d, b, t), t)])
           /\ r.kind = Put(b.kind, t, d.kind[t])
           /\ r.conn = Put(b.conn, t, << >>)
           /\ r.overrides = Put(b.overrides, t, Overrides(d.pips[t]))
           /\ DOMAIN r.pending = DOMAIN b.pending \cup {t}
           /\ DOMAIN r.pending[t] = {w \in DOMAIN d.wires[t] : KindAfter(d, b, t)[w].is = "connected"}
           /\ \A w \in DOMAIN r.pending[t] : r.pending[t][w] = Cls(d, <<t, w>>)
           /\ \A u \in DOMAIN b.pending : PendingAfter(d, b, t, r, u)
<1> DEFINE k == d.kind[t]
           wires == d.wires[t]
           cls == [w \in DOMAIN wires |-> w2nc(d.pips[t], w)]
           tk == IF k \notin DOMAIN b.kinds
                 THEN [wires |-> [w \in DOMAIN wires |-> Internal(wires[w], cls[w])], tiles |-> << >>]
                 ELSE b.kinds[k]
           changed == {w \in DOMAIN tk.wires : Differs(tk, wires, cls, w)}
           kwires == [w \in DOMAIN tk.wires \cup DOMAIN wires |->
                        IF w \in DOMAIN tk.wires \ changed THEN tk.wires[w] ELSE Connected]
           owed == [w \in changed |-> tk.wires[w].cls]
           fits == Restrict(cls, {w \in DOMAIN wires : kwires[w].is = "connected"})
           npend == [u \in DOMAIN b.pending |->
                        IF u \in Range(tk.tiles) THEN Over(owed, b.pending[u]) ELSE b.pending[u]]
<1>1. r = [b EXCEPT
            !.kinds = Put(b.kinds, k, [wires |-> kwires, tiles |-> Append(tk.tiles, t)]),
            !.kind = Put(b.kind, t, k),
            !.pending = Put(npend, t, fits),
            !.conn = Put(b.conn, t, << >>),
            !.overrides = Put(b.overrides, t, Overrides(d.pips[t]))]
  BY DEF add_tile
<1>2. \A w \in DOMAIN wires : cls[w] = Cls(d, <<t, w>>)
  BY DEF Cls
<1>3. tk.wires = KindBefore(d, b, t) /\ tk.tiles = TilesBefore(d, b, t)
  <2>1. CASE k \notin DOMAIN b.kinds
    <3>1. tk.wires = [w \in DOMAIN wires |-> Internal(wires[w], cls[w])] /\ tk.tiles = << >>
      BY <2>1
    <3>2. [w \in DOMAIN wires |-> Internal(wires[w], cls[w])]
            = [w \in DOMAIN d.wires[t] |-> Internal(d.wires[t][w], Cls(d, <<t, w>>))]
      <4> HIDE DEF cls
      <4> QED
        BY <1>2
    <3> HIDE DEF tk, cls
    <3> QED
      BY <2>1, <3>1, <3>2 DEF KindBefore, TilesBefore
  <2>2. CASE k \in DOMAIN b.kinds
    BY <2>2 DEF KindBefore, TilesBefore
  <2> QED
    BY <2>1, <2>2
<1> HIDE DEF tk
<1>4. changed = Changed(d, b, t)
  <2> HIDE DEF cls
  <2>1. \A w : Differs(tk, wires, cls, w) <=>
            /\ tk.wires[w].is = "internal"
            /\ w \notin DOMAIN wires \/ tk.wires[w] # Internal(wires[w], Cls(d, <<t, w>>))
    BY <1>2 DEF Differs
  <2> QED
    BY <2>1, <1>3 DEF Changed
<1> HIDE DEF changed
<1>5. kwires = KindAfter(d, b, t)
  BY <1>3, <1>4 DEF KindAfter
<1> HIDE DEF kwires
<1>6. r = [kinds |-> Put(b.kinds, k, [wires |-> kwires, tiles |-> Append(tk.tiles, t)]),
           kind |-> Put(b.kind, t, k), pending |-> Put(npend, t, fits),
           conn |-> Put(b.conn, t, << >>), overrides |-> Put(b.overrides, t, Overrides(d.pips[t])),
           nodes |-> b.nodes, fixups |-> b.fixups]
  <2>1. b = [kinds |-> b.kinds, kind |-> b.kind, pending |-> b.pending, conn |-> b.conn,
             overrides |-> b.overrides, nodes |-> b.nodes, fixups |-> b.fixups]
    BY DEF Shape
  <2> HIDE DEF npend, fits
  <2> QED
    BY <2>1, <1>1
<1>7. /\ r.kinds = Put(b.kinds, k, [wires |-> kwires, tiles |-> Append(tk.tiles, t)])
      /\ r.kind = Put(b.kind, t, k) /\ r.pending = Put(npend, t, fits)
      /\ r.conn = Put(b.conn, t, << >>) /\ r.overrides = Put(b.overrides, t, Overrides(d.pips[t]))
      /\ r.nodes = b.nodes /\ r.fixups = b.fixups
  <2> HIDE DEF npend, fits
  <2> QED
    BY <1>6
<1>8. t \notin DOMAIN b.pending
  BY DEF Shape
<1>9. DOMAIN r.pending = DOMAIN b.pending \cup {t} /\ r.pending[t] = fits
  <2>1. /\ DOMAIN Put(npend, t, fits) = DOMAIN npend \cup {t}
        /\ Put(npend, t, fits)[t] = fits
    <3> HIDE DEF npend, fits
    <3> QED
      BY DEF Put
  <2>2. DOMAIN npend = DOMAIN b.pending
    OBVIOUS
  <2> HIDE DEF npend, fits
  <2> QED
    BY <2>1, <2>2, <1>7
<1>10. /\ DOMAIN r.pending[t] = {w \in DOMAIN d.wires[t] : KindAfter(d, b, t)[w].is = "connected"}
       /\ \A w \in DOMAIN r.pending[t] : r.pending[t][w] = Cls(d, <<t, w>>)
  <2>1. /\ DOMAIN fits = {w \in DOMAIN wires : kwires[w].is = "connected"}
        /\ \A w \in DOMAIN fits : fits[w] = cls[w]
    BY DEF Restrict
  <2> HIDE DEF fits, cls
  <2> QED
    BY <2>1, <1>2, <1>5, <1>9
<1>11. ASSUME NEW u \in DOMAIN b.pending
       PROVE  PendingAfter(d, b, t, r, u)
  <2>1. u \in DOMAIN npend /\ u # t
    BY <1>8
  <2>2. r.pending[u] = npend[u]
    <3> HIDE DEF npend, fits
    <3>1. \A y \in DOMAIN npend \ {t} : Put(npend, t, fits)[y] = npend[y]
      BY DEF Put
    <3> QED
      BY <3>1, <2>1, <1>7
  <2>3. r.pending[u] = IF u \in Range(tk.tiles) THEN Over(owed, b.pending[u]) ELSE b.pending[u]
    BY <2>2
  <2>4. DOMAIN owed = changed /\ \A w \in changed : owed[w] = tk.wires[w].cls
    OBVIOUS
  <2> HIDE DEF owed
  <2>5. /\ DOMAIN Over(owed, b.pending[u]) = DOMAIN owed \cup DOMAIN b.pending[u]
        /\ \A w \in DOMAIN owed : Over(owed, b.pending[u])[w] = owed[w]
        /\ \A w \in DOMAIN b.pending[u] \ DOMAIN owed :
                Over(owed, b.pending[u])[w] = b.pending[u][w]
    BY OverIs, Zenon
  <2> QED
    BY <2>3, <2>4, <2>5, <1>3, <1>4 DEF PendingAfter
<1>12. r = [kinds |-> r.kinds, kind |-> r.kind, pending |-> r.pending, conn |-> r.conn,
            overrides |-> r.overrides, nodes |-> r.nodes, fixups |-> r.fixups]
  BY <1>6, <1>7
<1> HIDE DEF npend, fits, owed
<1> QED
  BY <1>3, <1>5, <1>7, <1>9, <1>10, <1>11, <1>12

\* A tile added at the end of the tiles of its kind.
LEMMA AppendIs ==
    ASSUME NEW S, NEW ts \in Seq(S), NEW x \in S
    PROVE  /\ Append(ts, x) \in Seq(S)
           /\ \A i \in DOMAIN ts : i \in DOMAIN Append(ts, x) /\ Append(ts, x)[i] = ts[i] /\ i < Len(ts) + 1
           /\ Len(ts) + 1 \in DOMAIN Append(ts, x) /\ Append(ts, x)[Len(ts) + 1] = x
           /\ Range(Append(ts, x)) = Range(ts) \cup {x}
<1>1. /\ Append(ts, x) \in Seq(S) /\ DOMAIN ts = 1..Len(ts) /\ Len(ts) \in Nat
      /\ DOMAIN Append(ts, x) = 1..(Len(ts) + 1)
      /\ Append(ts, x)[Len(ts) + 1] = x
      /\ \A i \in 1..Len(ts) : Append(ts, x)[i] = ts[i]
  OBVIOUS
<1>2. DOMAIN Append(ts, x) = DOMAIN ts \cup {Len(ts) + 1}
  BY <1>1
<1>3. Range(Append(ts, x)) = Range(ts) \cup {x}
  <2>1. Range(Append(ts, x)) \subseteq Range(ts) \cup {x}
    BY <1>1, <1>2 DEF Range
  <2>2. Range(ts) \subseteq Range(Append(ts, x))
    BY <1>1, <1>2 DEF Range
  <2>3. x \in Range(Append(ts, x))
    BY <1>1, <1>2 DEF Range
  <2> QED
    BY <2>1, <2>2, <2>3
<1> QED
  BY <1>1, <1>2, <1>3

\* What a kind says of a wire before and after a tile.
LEMMA KindAfterIs ==
    ASSUME NEW d, NEW b, Shape(d, b), NEW t \in DOMAIN d.kind
    PROVE  /\ DOMAIN KindAfter(d, b, t) = DOMAIN KindBefore(d, b, t) \cup DOMAIN d.wires[t]
           /\ \A w \in DOMAIN KindBefore(d, b, t) : IsTkWire(KindBefore(d, b, t)[w])
           /\ \A w \in DOMAIN KindAfter(d, b, t) : WireAfter(d, b, t, w)
<1>1. DOMAIN KindAfter(d, b, t) = DOMAIN KindBefore(d, b, t) \cup DOMAIN d.wires[t]
  BY DEF KindAfter
<1>2. ASSUME NEW w \in DOMAIN KindBefore(d, b, t)
      PROVE  IsTkWire(KindBefore(d, b, t)[w])
  <2>1. CASE d.kind[t] \notin DOMAIN b.kinds
    <3>1. w \in DOMAIN d.wires[t] /\ KindBefore(d, b, t)[w] = Internal(d.wires[t][w], Cls(d, <<t, w>>))
      BY <2>1 DEF KindBefore
    <3>2. \A s, c : Internal(s, c).speed = s /\ Internal(s, c).cls = c
      BY DEF Internal
    <3> QED
      BY <3>1, <3>2 DEF IsTkWire
  <2>2. CASE d.kind[t] \in DOMAIN b.kinds
    BY <2>2 DEF KindBefore, Shape, IsTkWire
  <2> QED
    BY <2>1, <2>2
<1>3. ASSUME NEW w \in DOMAIN KindAfter(d, b, t), w \in DOMAIN KindBefore(d, b, t) \ Changed(d, b, t)
      PROVE  KindAfter(d, b, t)[w] = KindBefore(d, b, t)[w]
  BY <1>1, <1>3 DEF KindAfter
<1>4. ASSUME NEW w \in DOMAIN KindAfter(d, b, t), w \notin DOMAIN KindBefore(d, b, t) \ Changed(d, b, t)
      PROVE  KindAfter(d, b, t)[w] = Connected
  BY <1>1, <1>4 DEF KindAfter
<1>5. ASSUME NEW w \in DOMAIN KindBefore(d, b, t), w \notin Changed(d, b, t),
             KindBefore(d, b, t)[w].is = "internal"
      PROVE  w \in DOMAIN d.wires[t] /\ KindBefore(d, b, t)[w] = Internal(d.wires[t][w], Cls(d, <<t, w>>))
  BY <1>5 DEF Changed
<1>6. ASSUME NEW w \in DOMAIN KindAfter(d, b, t)
      PROVE  WireAfter(d, b, t, w)
  BY <1>2, <1>3, <1>4, <1>5, TwoKinds DEF WireAfter, IsTkWire
<1> QED
  BY <1>1, <1>2, <1>6

\* When a later tile of the kind is in the way of a node that was implied.
LEMMA LostIs ==
    ASSUME NEW d, NEW b, NEW p, NEW s, b.kinds[b.kind[p[1]]].tiles = s,
           d.flow = "ise", d.net[p] = {p}, NEW i \in DOMAIN s, NEW j \in DOMAIN s,
           i < j, s[i] = p[1], <<s[j], p[2]>> \in Listed(d) => d.wires[s[j]][p[2]] # d.wires[p[1]][p[2]]
    PROVE  LostTo(d, b, p)
BY DEF LostTo

\* A tile is added before its nodes are given.
LEMMA AddTileBuilds ==
    ASSUME NEW d \in Dumps, NEW b, NEW G, Builds(d, b, G), NEW T \in SUBSET DOMAIN b.kind,
           Kills(d, b, T), NEW t \in DOMAIN d.kind, t \notin DOMAIN b.kind,
           d.flow = "vivado" => G = {},
           NEW r, r = add_tile(b, t, d.kind[t], d.wires[t], d.pips[t])
    PROVE  Builds(d, r, G) /\ Kills(d, r, T) /\ DOMAIN r.kind = DOMAIN b.kind \cup {t}
<1> DEFINE k == d.kind[t]
           kb == KindBefore(d, b, t)
           ka == KindAfter(d, b, t)
           ch == Changed(d, b, t)
           ts == TilesBefore(d, b, t)
<1>1. /\ Shape(d, b) /\ GivenFits(d, b, G) /\ InternalFits(d, b, G) /\ ConnectedFits(d, b, G)
      /\ ConnFits(d, b, G) /\ NodesFit(d, b, G) /\ PendingFits(d, b, G) /\ FixupsFit(b)
  BY DEF Builds
<1>2. /\ r = [kinds |-> r.kinds, kind |-> r.kind, pending |-> r.pending, conn |-> r.conn,
              overrides |-> r.overrides, nodes |-> r.nodes, fixups |-> r.fixups]
      /\ r.nodes = b.nodes /\ r.fixups = b.fixups
      /\ r.kinds = Put(b.kinds, k, [wires |-> ka, tiles |-> Append(ts, t)])
      /\ r.kind = Put(b.kind, t, k)
      /\ r.conn = Put(b.conn, t, << >>)
      /\ r.overrides = Put(b.overrides, t, Overrides(d.pips[t]))
      /\ DOMAIN r.pending = DOMAIN b.pending \cup {t}
      /\ DOMAIN r.pending[t] = {w \in DOMAIN d.wires[t] : ka[w].is = "connected"}
      /\ \A w \in DOMAIN r.pending[t] : r.pending[t][w] = Cls(d, <<t, w>>)
  BY <1>1, AddTileIs
<1>2a. \A u \in DOMAIN b.pending : PendingAfter(d, b, t, r, u)
  BY <1>1, AddTileIs, Zenon
<1>3. \A u \in DOMAIN b.pending :
                IF u \in Range(ts)
                THEN /\ DOMAIN r.pending[u] = ch \cup DOMAIN b.pending[u]
                     /\ \A w \in ch : r.pending[u][w] = kb[w].cls
                     /\ \A w \in DOMAIN b.pending[u] \ ch : r.pending[u][w] = b.pending[u][w]
                ELSE r.pending[u] = b.pending[u]
  BY <1>2a DEF PendingAfter
<1>4. /\ DOMAIN r.kind = DOMAIN b.kind \cup {t} /\ r.kind[t] = k
      /\ \A u \in DOMAIN b.kind : r.kind[u] = b.kind[u]
  BY <1>2 DEF Put
<1>5. /\ DOMAIN r.kinds = DOMAIN b.kinds \cup {k}
      /\ r.kinds[k] = [wires |-> ka, tiles |-> Append(ts, t)]
      /\ \A j \in DOMAIN b.kinds \ {k} : r.kinds[j] = b.kinds[j]
  <2> HIDE DEF k, ka, ts
  <2> QED
    BY <1>2 DEF Put
<1>6. /\ DOMAIN r.conn = DOMAIN b.conn \cup {t} /\ DOMAIN r.conn[t] = {}
      /\ \A u \in DOMAIN b.kind : r.conn[u] = b.conn[u]
  <2>1. DOMAIN b.conn = DOMAIN b.kind
    BY <1>1 DEF Shape
  <2>2. DOMAIN << >> = {}
    OBVIOUS
  <2> QED
    BY <1>2, <2>1, <2>2 DEF Put
<1>7. /\ DOMAIN r.overrides = DOMAIN b.overrides \cup {t} /\ r.overrides[t] = Overrides(d.pips[t])
      /\ \A u \in DOMAIN b.kind : r.overrides[u] = b.overrides[u]
  <2>1. DOMAIN b.overrides = DOMAIN b.kind
    BY <1>1 DEF Shape
  <2> QED
    BY <1>2, <2>1 DEF Put
<1>7a. /\ DOMAIN KindAfter(d, b, t) = DOMAIN KindBefore(d, b, t) \cup DOMAIN d.wires[t]
       /\ \A w \in DOMAIN KindBefore(d, b, t) : IsTkWire(KindBefore(d, b, t)[w])
       /\ \A w \in DOMAIN KindAfter(d, b, t) : WireAfter(d, b, t, w)
  BY <1>1, KindAfterIs, Zenon
<1>8. /\ DOMAIN ka = DOMAIN kb \cup DOMAIN d.wires[t]
      /\ \A w \in DOMAIN ka :
                IF ka[w].is = "internal"
                THEN /\ w \in DOMAIN kb \ ch
                     /\ w \in DOMAIN d.wires[t]
                     /\ ka[w] = kb[w]
                     /\ ka[w] = Internal(d.wires[t][w], Cls(d, <<t, w>>))
                ELSE /\ ka[w] = Connected
                     /\ w \in DOMAIN kb => w \in ch \/ kb[w].is # "internal"
  BY <1>7a DEF WireAfter
<1>8a. \A w \in DOMAIN kb : kb[w] = Connected \/ kb[w] = Internal(kb[w].speed, kb[w].cls)
  BY <1>7a DEF IsTkWire
<1>9. \A w \in ch : /\ w \in DOMAIN kb /\ kb[w].is = "internal"
                    /\ w \notin DOMAIN d.wires[t] \/ kb[w] # Internal(d.wires[t][w], Cls(d, <<t, w>>))
  BY DEF Changed
<1>10. \A u \in DOMAIN b.kind : b.kind[u] = d.kind[u] /\ b.kind[u] \in DOMAIN b.kinds
  BY <1>1 DEF Shape
<1>11. ts \in Seq(DOMAIN b.kind) /\ Range(ts) = {u \in DOMAIN b.kind : b.kind[u] = k}
  <2>1. CASE k \notin DOMAIN b.kinds
    <3>1. ts = << >>
      BY <2>1 DEF TilesBefore
    <3>2. Range(ts) = {}
      BY <3>1 DEF Range
    <3> QED
      BY <3>1, <3>2, <2>1, <1>10
  <2>2. CASE k \in DOMAIN b.kinds
    BY <2>2, <1>1 DEF TilesBefore, Shape
  <2> QED
    BY <2>1, <2>2
<1>12. \A u \in DOMAIN b.kind : b.kind[u] = k => Wires(b, u) = kb
  BY <1>10 DEF KindBefore, Wires
<1> HIDE DEF k, kb, ka, ch, ts
<1>13. Wires(r, t) = ka
  BY <1>4, <1>5 DEF Wires
<1>14. \A u \in DOMAIN b.kind :
            IF b.kind[u] = k THEN Wires(r, u) = ka ELSE Wires(r, u) = Wires(b, u)
  BY <1>4, <1>5, <1>10 DEF Wires
<1>15. DOMAIN b.pending = DOMAIN b.kind /\ DOMAIN b.conn = DOMAIN b.kind /\ DOMAIN b.overrides = DOMAIN b.kind
  BY <1>1 DEF Shape
\* What a tile of before sees of it.
<1>16. ASSUME NEW u \in DOMAIN b.kind
       PROVE  /\ DOMAIN Wires(b, u) \subseteq DOMAIN Wires(r, u)
              /\ \A w \in DOMAIN Wires(r, u) :
                    Wires(r, u)[w].is = "internal" =>
                        /\ w \in DOMAIN Wires(b, u) /\ Wires(r, u)[w] = Wires(b, u)[w]
                        /\ w \in DOMAIN r.pending[u] => w \in DOMAIN b.pending[u]
              /\ DOMAIN b.pending[u] \subseteq DOMAIN r.pending[u]
              /\ \A w \in DOMAIN Wires(b, u) :
                    (Wires(b, u)[w].is = "internal" /\ Wires(r, u)[w].is # "internal")
                    => w \in DOMAIN r.pending[u]
              /\ \A w \in DOMAIN r.pending[u] :
                    \/ w \in DOMAIN b.pending[u] /\ w \notin ch /\ r.pending[u][w] = b.pending[u][w]
                    \/ w \in DOMAIN b.pending[u] /\ b.kind[u] # k /\ r.pending[u][w] = b.pending[u][w]
                    \/ /\ b.kind[u] = k /\ w \in ch /\ r.pending[u][w] = kb[w].cls
  <2>1. CASE b.kind[u] = k
    <3>1. Wires(b, u) = kb /\ Wires(r, u) = ka
      BY <2>1, <1>12, <1>14
    <3>2. /\ DOMAIN r.pending[u] = ch \cup DOMAIN b.pending[u]
          /\ \A w \in ch : r.pending[u][w] = kb[w].cls
          /\ \A w \in DOMAIN b.pending[u] \ ch : r.pending[u][w] = b.pending[u][w]
      BY <2>1, <1>3, <1>11, <1>15
    <3> QED
      BY <2>1, <3>1, <3>2, <1>8
  <2>2. CASE b.kind[u] # k
    <3>1. Wires(r, u) = Wires(b, u)
      BY <2>2, <1>14
    <3>2. r.pending[u] = b.pending[u]
      BY <2>2, <1>3, <1>11, <1>15
    <3> QED
      BY <2>2, <3>1, <3>2
  <2> QED
    BY <2>1, <2>2
<1>17. \A u \in DOMAIN b.kind : r.kinds[b.kind[u]].tiles = IF b.kind[u] = k THEN Append(ts, t)
                                                      ELSE b.kinds[b.kind[u]].tiles
  <2> TAKE u \in DOMAIN b.kind
  <2>1. CASE b.kind[u] = k
    BY <2>1, <1>5
  <2>2. CASE b.kind[u] # k
    BY <2>2, <1>5, <1>10
  <2> QED
    BY <2>1, <2>2
\* No node that was given has a wire in the new tile.
<1>18. \A w : <<t, w>> \in DOMAIN d.net => d.net[<<t, w>>] \notin G
  <2> SUFFICES ASSUME NEW w, <<t, w>> \in DOMAIN d.net, d.net[<<t, w>>] \in G PROVE FALSE
    OBVIOUS
  <2> DEFINE q == <<t, w>>
  <2>1. d.net[q] \in Nets(d)
    BY <1>1 DEF GivenFits
  <2>2. q \in d.net[q]
    <3> HIDE DEF q
    <3> QED
      BY <2>1, MemberOfNet DEF Nets, q
  <2>3. q[1] = t
    OBVIOUS
  <2> QED
    BY <2>2, <2>3, <1>1 DEF GivenFits
<1>19. \A u \in DOMAIN r.kind : u = t \/ u \in DOMAIN b.kind
  BY <1>4
<1>20. Shape(d, r)
  <2>1. \A j \in DOMAIN r.kinds :
            /\ r.kinds[j] = [wires |-> r.kinds[j].wires, tiles |-> r.kinds[j].tiles]
            /\ r.kinds[j].tiles \in Seq(DOMAIN r.kind)
            /\ Range(r.kinds[j].tiles) = {u \in DOMAIN r.kind : r.kind[u] = j}
            /\ \A w \in DOMAIN r.kinds[j].wires :
                \/ r.kinds[j].wires[w] = Connected
                \/ r.kinds[j].wires[w] = Internal(r.kinds[j].wires[w].speed, r.kinds[j].wires[w].cls)
    <3> TAKE j \in DOMAIN r.kinds
    <3>1. CASE j = k
      <4>1. /\ r.kinds[j] = [wires |-> r.kinds[j].wires, tiles |-> r.kinds[j].tiles]
            /\ r.kinds[j].wires = ka /\ r.kinds[j].tiles = Append(ts, t)
        BY <3>1, <1>5
      <4>2. ts \in Seq(DOMAIN r.kind) /\ t \in DOMAIN r.kind
        BY <1>4, <1>11
      <4>3. Append(ts, t) \in Seq(DOMAIN r.kind)
        BY <4>2, AppendIs
      <4>4. Range(Append(ts, t)) = Range(ts) \cup {t}
        BY <4>2, AppendIs
      <4>5. {u \in DOMAIN r.kind : r.kind[u] = j} = Range(ts) \cup {t}
        BY <3>1, <1>4, <1>11
      <4>6. \A s, c : Internal(s, c).speed = s /\ Internal(s, c).cls = c
        BY DEF Internal
      <4>7. \A w \in DOMAIN ka : ka[w] = Connected \/ ka[w] = Internal(ka[w].speed, ka[w].cls)
        <5> TAKE w \in DOMAIN ka
        <5>1. ka[w] = Connected \/ ka[w] = Internal(d.wires[t][w], Cls(d, <<t, w>>))
          BY <1>8
        <5> QED
          BY <5>1, <4>6
      <4> QED
        BY <4>1, <4>3, <4>4, <4>5, <4>7
    <3>2. CASE j # k
      <4>1. j \in DOMAIN b.kinds /\ r.kinds[j] = b.kinds[j]
        BY <3>2, <1>5
      <4>2. {u \in DOMAIN r.kind : r.kind[u] = j} = {u \in DOMAIN b.kind : b.kind[u] = j}
        BY <3>2, <1>4
      <4>3. b.kinds[j].tiles \in Seq(DOMAIN r.kind)
        <5>1. b.kinds[j].tiles \in Seq(DOMAIN b.kind) /\ DOMAIN b.kind \subseteq DOMAIN r.kind
          BY <4>1, <1>1, <1>4 DEF Shape
        <5> QED
          BY <5>1
      <4> QED
        BY <4>1, <4>2, <4>3, <1>1 DEF Shape
    <3> QED
      BY <3>1, <3>2
  <2>2. \A u \in DOMAIN r.kind :
            /\ r.kind[u] = d.kind[u]
            /\ r.kind[u] \in DOMAIN r.kinds
            /\ r.overrides[u] = Overrides(d.pips[u])
            /\ DOMAIN d.wires[u] \subseteq DOMAIN Wires(r, u)
    <3> TAKE u \in DOMAIN r.kind
    <3>1. CASE u = t
      BY <3>1, <1>4, <1>5, <1>7, <1>8, <1>13 DEF k
    <3>2. CASE u # t
      <4>1. u \in DOMAIN b.kind
        BY <3>2, <1>19
      <4>2. b.overrides[u] = Overrides(d.pips[u]) /\ DOMAIN d.wires[u] \subseteq DOMAIN Wires(b, u)
        BY <4>1, <1>1 DEF Shape
      <4>3. r.kind[u] = d.kind[u] /\ r.kind[u] \in DOMAIN r.kinds
        BY <4>1, <1>4, <1>5, <1>10
      <4>4. DOMAIN Wires(b, u) \subseteq DOMAIN Wires(r, u)
        BY <4>1, <1>16
      <4> QED
        BY <4>1, <4>2, <4>3, <4>4, <1>7
    <3> QED
      BY <3>1, <3>2
  <2>3. /\ DOMAIN r.kind \subseteq DOMAIN d.kind
        /\ DOMAIN r.pending = DOMAIN r.kind
        /\ DOMAIN r.conn = DOMAIN r.kind
        /\ DOMAIN r.overrides = DOMAIN r.kind
    BY <1>1, <1>2, <1>4, <1>6, <1>7, <1>15 DEF Shape
  <2> QED
    BY <1>2, <2>1, <2>2, <2>3 DEF Shape
<1>21. GivenFits(d, r, G)
  BY <1>1, <1>4, <1>16 DEF GivenFits
<1>22. InternalFits(d, r, G)
  <2> SUFFICES ASSUME NEW u \in DOMAIN r.kind, NEW w \in DOMAIN Wires(r, u),
                      Wires(r, u)[w].is = "internal"
               PROVE  /\ w \in DOMAIN d.wires[u]
                      /\ Wires(r, u)[w].speed = d.wires[u][w]
                      /\ Wires(r, u)[w].cls = Cls(d, <<u, w>>)
                      /\ w \notin DOMAIN r.conn[u]
                      /\ w \notin DOMAIN r.pending[u]
                      /\ d.net[<<u, w>>] \in G => d.net[<<u, w>>] = {<<u, w>>}
    BY DEF InternalFits
  <2>1. CASE u = t
    <3>1. w \in DOMAIN d.wires[t] /\ ka[w] = Internal(d.wires[t][w], Cls(d, <<t, w>>)) /\ ka[w].is = "internal"
      BY <2>1, <1>8, <1>13
    <3>2. \A s, c : Internal(s, c).speed = s /\ Internal(s, c).cls = c
      BY DEF Internal
    <3>3. <<t, w>> \in DOMAIN d.net
      BY <3>1, ListedIs, DumpFacts
    <3> QED
      BY <2>1, <3>1, <3>2, <3>3, <1>2, <1>6, <1>13, <1>18
  <2>2. CASE u # t
    <3>1. u \in DOMAIN b.kind
      BY <2>2, <1>19
    <3>2. w \in DOMAIN Wires(b, u) /\ Wires(r, u)[w] = Wires(b, u)[w]
          /\ (w \in DOMAIN r.pending[u] => w \in DOMAIN b.pending[u])
      BY <3>1, <1>16
    <3> QED
      BY <3>1, <3>2, <1>1, <1>6 DEF InternalFits
  <2> QED
    BY <2>1, <2>2
<1>23. ConnectedFits(d, r, G)
  <2> SUFFICES ASSUME NEW u \in DOMAIN r.kind, NEW w \in DOMAIN Wires(r, u),
                      Wires(r, u)[w].is # "internal",
                      <<u, w>> \in DOMAIN d.net, d.net[<<u, w>>] # {},
                      <<u, w>> \in Listed(d) \/ d.net[<<u, w>>] \in G
               PROVE  w \in DOMAIN r.conn[u] \cup DOMAIN r.pending[u]
    BY DEF ConnectedFits
  <2>1. CASE u = t
    <3>1. w \in DOMAIN d.wires[t]
      BY <2>1, <1>18, ListedIs
    <3>2. ka[w].is = "connected"
      BY <2>1, <1>8, <1>13 DEF Connected
    <3> QED
      BY <2>1, <3>1, <3>2, <1>2
  <2>2. CASE u # t
    <3>1. u \in DOMAIN b.kind
      BY <2>2, <1>19
    <3>2. w \in DOMAIN Wires(b, u)
      <4>1. CASE <<u, w>> \in Listed(d)
        BY <4>1, <3>1, <1>1, ListedIs DEF Shape
      <4>2. CASE d.net[<<u, w>>] \in G
        <5> DEFINE q == <<u, w>>
        <5>1. q \in d.net[q]
          <6> HIDE DEF q
          <6> QED
            BY MemberOfNet DEF q
        <5>2. q[1] = u /\ q[2] = w
          OBVIOUS
        <5>3. q[2] \in DOMAIN Wires(b, q[1])
          BY <4>2, <5>1, <1>1 DEF GivenFits
        <5> QED
          BY <5>2, <5>3
      <4> QED
        BY <4>1, <4>2
    <3>3. CASE Wires(b, u)[w].is = "internal"
      BY <3>1, <3>2, <3>3, <1>16
    <3>4. CASE Wires(b, u)[w].is # "internal"
      <4>1. w \in DOMAIN b.conn[u] \cup DOMAIN b.pending[u]
        BY <3>1, <3>2, <3>4, <1>1 DEF ConnectedFits
      <4> QED
        BY <4>1, <3>1, <1>6, <1>16
    <3> QED
      BY <3>3, <3>4
  <2> QED
    BY <2>1, <2>2
<1>24. ConnFits(d, r, G)
  <2> SUFFICES ASSUME NEW u \in DOMAIN r.kind, NEW w \in DOMAIN r.conn[u]
               PROVE  /\ w \in DOMAIN Wires(r, u)
                      /\ <<u, w>> \in DOMAIN d.net /\ d.net[<<u, w>>] \in G
                      /\ r.conn[u][w] \in r.nodes
                      /\ WiresOf(r.conn[u][w]) = StoredAs(d, d.net[<<u, w>>])
    BY DEF ConnFits
  <2>1. u \in DOMAIN b.kind /\ w \in DOMAIN b.conn[u] /\ r.conn[u] = b.conn[u]
    BY <1>6, <1>19
  <2>2. DOMAIN Wires(b, u) \subseteq DOMAIN Wires(r, u)
    BY <2>1, <1>16
  <2> QED
    BY <2>1, <2>2, <1>1, <1>2 DEF ConnFits
<1>25. NodesFit(d, r, G)
  <2> SUFFICES ASSUME NEW n \in b.nodes
               PROVE  \E m \in G :
                        /\ WiresOf(n) = StoredAs(d, m)
                        /\ \A q \in m : /\ q[1] \in DOMAIN r.kind /\ q[2] \in DOMAIN r.conn[q[1]]
                                        /\ r.conn[q[1]][q[2]] = n
    BY <1>2 DEF NodesFit
  <2>1. PICK m \in G :
            /\ WiresOf(n) = StoredAs(d, m)
            /\ \A q \in m : /\ q[1] \in DOMAIN b.kind /\ q[2] \in DOMAIN b.conn[q[1]]
                            /\ b.conn[q[1]][q[2]] = n
    BY <1>1 DEF NodesFit
  <2> QED
    BY <2>1, <1>4, <1>6
<1>26. FixupsFit(r)
  <2>1. ASSUME NEW f \in b.fixups
        PROVE  /\ f.kind \in DOMAIN r.kinds /\ f.wire \in DOMAIN r.kinds[f.kind].wires
               /\ r.kinds[f.kind].wires[f.wire].is # "internal"
    <3>1. /\ f.kind \in DOMAIN b.kinds /\ f.wire \in DOMAIN b.kinds[f.kind].wires
          /\ b.kinds[f.kind].wires[f.wire].is # "internal"
      BY <1>1 DEF FixupsFit
    <3>2. CASE f.kind = k
      <4>1. kb = b.kinds[k].wires
        BY <3>1, <3>2 DEF kb, k, KindBefore
      <4>2. r.kinds[k].wires = ka
        BY <1>5
      <4> QED
        BY <3>1, <3>2, <4>1, <4>2, <1>5, <1>8
    <3>3. CASE f.kind # k
      BY <3>1, <3>3, <1>5
    <3> QED
      BY <3>2, <3>3
  <2> QED
    BY <2>1, <1>1, <1>2 DEF FixupsFit
\* A tile that has not a wire, or has it with another speed, as those before.
<1>27. ASSUME NEW u \in DOMAIN b.kind, b.kind[u] = k, NEW w \in ch, d.net[<<u, w>>] \in G
       PROVE  LostTo(d, r, <<u, w>>)
  <2> DEFINE p == <<u, w>>
  <2>1. w \in DOMAIN Wires(b, u) /\ Wires(b, u)[w] = kb[w] /\ kb[w].is = "internal"
    BY <1>9, <1>12, <1>27
  <2>2. /\ w \in DOMAIN d.wires[u] /\ kb[w].speed = d.wires[u][w] /\ kb[w].cls = Cls(d, <<u, w>>)
        /\ d.net[<<u, w>>] = {<<u, w>>}
    BY <2>1, <1>1, <1>27 DEF InternalFits
  <2>3. d.flow = "ise"
    BY <1>27, DumpFacts
  <2>4. Cls(d, <<u, w>>) = NoClass /\ Cls(d, <<t, w>>) = NoClass
    <3>1. u \in DOMAIN d.kind
      BY <1>1 DEF Shape
    <3>2. \A v : <<v, w>>[1] = v
      OBVIOUS
    <3> QED
      BY <2>3, <3>1, <3>2, IseNoClass
  <2>5. ASSUME <<t, w>> \in Listed(d) PROVE d.wires[t][w] # d.wires[u][w]
    <3>1. w \in DOMAIN d.wires[t]
      BY <2>5, ListedIs
    <3>2. kb[w] # Internal(d.wires[t][w], Cls(d, <<t, w>>))
      BY <3>1, <1>9
    <3>3. kb[w] = Internal(kb[w].speed, kb[w].cls)
      <4>1. kb[w] = Connected \/ kb[w] = Internal(kb[w].speed, kb[w].cls)
        <5>1. w \in DOMAIN kb
          BY <1>9
        <5> QED
          BY <5>1, <1>8a
      <4> QED
        BY <4>1, <2>1, TwoKinds
    <3> QED
      BY <3>2, <3>3, <2>2, <2>4
  <2>6. r.kinds[r.kind[u]].tiles = Append(ts, t)
    BY <1>4, <1>17, <1>27
  <2>7. PICK i \in DOMAIN ts : ts[i] = u
    BY <1>11, <1>27 DEF Range
  <2>8. ts \in Seq(DOMAIN b.kind \cup {t})
    BY <1>11
  <2>9. /\ i \in DOMAIN Append(ts, t) /\ Len(ts) + 1 \in DOMAIN Append(ts, t) /\ i < Len(ts) + 1
        /\ Append(ts, t)[i] = u /\ Append(ts, t)[Len(ts) + 1] = t
    BY <2>7, <2>8, AppendIs
  <2>10. p[1] = u /\ p[2] = w
    OBVIOUS
  <2>11. d.net[p] = {p}
    BY <2>2
  <2> HIDE DEF p
  <2>12. /\ Append(ts, t)[i] = p[1]
         /\ <<Append(ts, t)[Len(ts) + 1], p[2]>> \in Listed(d) =>
                d.wires[Append(ts, t)[Len(ts) + 1]][p[2]] # d.wires[p[1]][p[2]]
    BY <2>5, <2>9, <2>10
  <2>13. r.kinds[r.kind[p[1]]].tiles = Append(ts, t)
    BY <2>6, <2>10
  <2>14. LostTo(d, r, p)
    BY <2>3, <2>9, <2>11, <2>12, <2>13, LostIs
  <2> QED
    BY <2>14 DEF p
<1>28. ASSUME NEW u \in DOMAIN b.kind, NEW w, LostTo(d, b, <<u, w>>)
       PROVE  LostTo(d, r, <<u, w>>)
  <2> DEFINE p == <<u, w>>
             bs == b.kinds[b.kind[u]].tiles
             rs == r.kinds[r.kind[u]].tiles
  <2>1. p[1] = u /\ p[2] = w
    OBVIOUS
  <2>2. \A i \in DOMAIN bs : i \in DOMAIN rs /\ rs[i] = bs[i]
    <3>1. CASE b.kind[u] = k
      <4>1. rs = Append(ts, t)
        BY <3>1, <1>4, <1>17
      <4>2. bs = ts
        BY <3>1, <1>10 DEF ts, TilesBefore, k
      <4>3. ts \in Seq(DOMAIN b.kind \cup {t})
        BY <1>11
      <4>4. \A i \in DOMAIN ts : i \in DOMAIN Append(ts, t) /\ Append(ts, t)[i] = ts[i]
        BY <4>3, AppendIs
      <4> HIDE DEF rs, bs
      <4> QED
        BY <4>1, <4>2, <4>4
    <3>2. CASE b.kind[u] # k
      BY <3>2, <1>4, <1>17
    <3> QED
      BY <3>1, <3>2
  <2> HIDE DEF p, bs, rs
  <2>3. LostTo(d, b, p)
    BY <1>28 DEF p
  <2>4. /\ d.flow = "ise" /\ d.net[p] = {p}
        /\ \E i, j \in DOMAIN bs :
            /\ i < j /\ bs[i] = u
            /\ <<bs[j], p[2]>> \in Listed(d) => d.wires[bs[j]][p[2]] # d.wires[u][p[2]]
    BY <2>1, <2>3 DEF LostTo, bs
  <2>5. \E i, j \in DOMAIN rs :
            /\ i < j /\ rs[i] = u
            /\ <<rs[j], p[2]>> \in Listed(d) => d.wires[rs[j]][p[2]] # d.wires[u][p[2]]
    BY <2>2, <2>4
  <2>7. r.kinds[r.kind[p[1]]].tiles = rs
    BY <2>1 DEF rs
  <2>6. LostTo(d, r, p)
    BY <2>1, <2>4, <2>5, <2>7, LostIs
  <2> QED
    BY <2>6 DEF p
<1>29. PendingFits(d, r, G)
  <2> SUFFICES ASSUME NEW u \in DOMAIN r.kind, NEW w \in DOMAIN r.pending[u]
               PROVE  /\ w \in DOMAIN d.wires[u]
                      /\ w \notin DOMAIN r.conn[u]
                      /\ r.pending[u][w] = Cls(d, <<u, w>>)
                      /\ d.net[<<u, w>>] \in G =>
                          /\ d.net[<<u, w>>] = {<<u, w>>}
                          /\ \/ FixupOf(d, r, <<u, w>>) \in r.fixups
                             \/ /\ LostTo(d, r, <<u, w>>)
                                /\ \A f \in r.fixups : f.kind = r.kind[u] => f.wire # w
    BY DEF PendingFits
  <2>1. CASE u = t
    <3>1. w \in DOMAIN d.wires[t] /\ r.pending[t][w] = Cls(d, <<t, w>>)
      BY <2>1, <1>2
    <3>2. d.net[<<t, w>>] \notin G
      BY <3>1, <1>18, ListedIs, DumpFacts
    <3> QED
      BY <2>1, <3>1, <3>2, <1>6
  <2>2. CASE u # t /\ b.kind[u] = k /\ w \in ch /\ r.pending[u][w] = kb[w].cls
    <3>1. u \in DOMAIN b.kind
      BY <2>2, <1>19
    <3>2. w \in DOMAIN Wires(b, u) /\ Wires(b, u)[w] = kb[w] /\ kb[w].is = "internal"
      BY <2>2, <3>1, <1>9, <1>12
    <3>3. /\ w \in DOMAIN d.wires[u] /\ kb[w].cls = Cls(d, <<u, w>>) /\ w \notin DOMAIN b.conn[u]
          /\ d.net[<<u, w>>] \in G => d.net[<<u, w>>] = {<<u, w>>}
      BY <3>1, <3>2, <1>1 DEF InternalFits
    <3>4. \A f \in b.fixups : f.kind = b.kind[u] => f.wire # w
      BY <3>1, <3>2, <1>1 DEF FixupsFit, Wires
    <3>5. d.net[<<u, w>>] \in G => LostTo(d, r, <<u, w>>)
      BY <2>2, <3>1, <1>27
    <3> QED
      BY <2>2, <3>1, <3>3, <3>4, <3>5, <1>2, <1>4, <1>6
  <2>3. CASE u # t /\ w \in DOMAIN b.pending[u] /\ r.pending[u][w] = b.pending[u][w]
    <3>1. u \in DOMAIN b.kind
      BY <2>3, <1>19
    <3>2. /\ w \in DOMAIN d.wires[u]
          /\ w \notin DOMAIN b.conn[u]
          /\ b.pending[u][w] = Cls(d, <<u, w>>)
          /\ d.net[<<u, w>>] \in G =>
              /\ d.net[<<u, w>>] = {<<u, w>>}
              /\ \/ FixupOf(d, b, <<u, w>>) \in b.fixups
                 \/ /\ LostTo(d, b, <<u, w>>)
                    /\ \A f \in b.fixups : f.kind = b.kind[u] => f.wire # w
      BY <2>3, <3>1, <1>1 DEF PendingFits
    <3>3. FixupOf(d, r, <<u, w>>) = FixupOf(d, b, <<u, w>>)
      BY <3>1, <1>4 DEF FixupOf
    <3>4. LostTo(d, b, <<u, w>>) => LostTo(d, r, <<u, w>>)
      BY <3>1, <1>28
    <3> QED
      BY <2>3, <3>1, <3>2, <3>3, <3>4, <1>2, <1>4, <1>6
  <2> QED
    BY <2>1, <2>2, <2>3, <1>16, <1>19
<1>30. Kills(d, r, T)
  <2> SUFFICES ASSUME NEW u \in T, NEW w \in DOMAIN d.wires[u], d.net[<<u, w>>] = {}
               PROVE  /\ Wires(r, u)[w].is # "internal"
                      /\ w \notin DOMAIN r.pending[u] /\ w \notin DOMAIN r.conn[u]
    BY DEF Kills
  <2>1. /\ Wires(b, u)[w].is # "internal"
        /\ w \notin DOMAIN b.pending[u] /\ w \notin DOMAIN b.conn[u]
    BY DEF Kills
  <2>2. u \in DOMAIN b.kind /\ w \in DOMAIN Wires(b, u) /\ w \in DOMAIN Wires(r, u)
    BY <1>1, <1>16 DEF Shape
  <2>3. Wires(r, u)[w].is # "internal"
    BY <2>1, <2>2, <1>16
  <2>4. ~ (b.kind[u] = k /\ w \in ch)
    BY <2>1, <2>2, <1>9, <1>12
  <2> QED
    BY <2>1, <2>2, <2>3, <2>4, <1>6, <1>16
<1> QED
  BY <1>4, <1>20, <1>21, <1>22, <1>23, <1>24, <1>25, <1>26, <1>29, <1>30 DEF Builds

(***************************************************************************)
(* finish, and reading the part back                                       *)
(***************************************************************************)
Owed(b, t) == {f \in b.fixups : f.kind = b.kind[t] /\ f.wire \in DOMAIN b.pending[t]}

\* The nodes of the wires of a tile in r: those of b, and those made up for.
MadeUpFor(b, r, t) ==
    /\ DOMAIN r.conn[t] = DOMAIN b.conn[t] \cup {f.wire : f \in Owed(b, t)}
    /\ \A w \in {f.wire : f \in Owed(b, t)} :
            r.conn[t][w] = SingleNode(t, CHOOSE f \in Owed(b, t) : f.wire = w)
    /\ \A w \in DOMAIN b.conn[t] \ {f.wire : f \in Owed(b, t)} : r.conn[t][w] = b.conn[t][w]

\* What finish() changes, and what it leaves alone.
LEMMA FinishIs ==
    ASSUME NEW d, NEW b, Shape(d, b), NEW r, r = finish(b)
    PROVE  /\ r.kinds = b.kinds /\ r.kind = b.kind /\ r.overrides = b.overrides
           /\ r.nodes = b.nodes \cup UNION {{SingleNode(t, f) : f \in Owed(b, t)} : t \in DOMAIN b.kind}
           /\ DOMAIN r.conn = DOMAIN b.kind
           /\ \A t \in DOMAIN b.kind : MadeUpFor(b, r, t)
<1> DEFINE new(t) == [w \in {f.wire : f \in Owed(b, t)} |->
                          SingleNode(t, CHOOSE f \in Owed(b, t) : f.wire = w)]
           conn == [t \in DOMAIN b.conn |-> Over(new(t), b.conn[t])]
           nodes == b.nodes \cup UNION {{SingleNode(t, f) : f \in Owed(b, t)} : t \in DOMAIN b.kind}
<1>1. r = [b EXCEPT !.nodes = nodes, !.conn = conn]
  BY DEF finish, Owed
<1>2. /\ b = [kinds |-> b.kinds, kind |-> b.kind, pending |-> b.pending, conn |-> b.conn,
              overrides |-> b.overrides, nodes |-> b.nodes, fixups |-> b.fixups]
      /\ DOMAIN b.conn = DOMAIN b.kind
  BY DEF Shape
<1>3. DOMAIN conn = DOMAIN b.kind /\ \A t \in DOMAIN b.kind : conn[t] = Over(new(t), b.conn[t])
  BY <1>2
<1>4. \A t : /\ DOMAIN new(t) = {f.wire : f \in Owed(b, t)}
             /\ \A w \in {f.wire : f \in Owed(b, t)} :
                    new(t)[w] = SingleNode(t, CHOOSE f \in Owed(b, t) : f.wire = w)
  OBVIOUS
<1> DEFINE made(w, t) == SingleNode(t, CHOOSE f \in Owed(b, t) : f.wire = w)
<1> HIDE DEF conn, nodes, new, made
<1>5. r = [kinds |-> b.kinds, kind |-> b.kind, pending |-> b.pending, conn |-> conn,
           overrides |-> b.overrides, nodes |-> nodes, fixups |-> b.fixups]
  BY <1>1, <1>2
<1>6. /\ r.kinds = b.kinds /\ r.kind = b.kind /\ r.overrides = b.overrides
      /\ r.nodes = nodes /\ r.conn = conn
  BY <1>5
<1>7. ASSUME NEW t \in DOMAIN b.kind
      PROVE  /\ DOMAIN conn[t] = DOMAIN b.conn[t] \cup DOMAIN new(t)
             /\ \A w \in DOMAIN new(t) : conn[t][w] = new(t)[w]
             /\ \A w \in DOMAIN b.conn[t] \ DOMAIN new(t) : conn[t][w] = b.conn[t][w]
  <2>1. /\ DOMAIN Over(new(t), b.conn[t]) = DOMAIN new(t) \cup DOMAIN b.conn[t]
        /\ \A w \in DOMAIN new(t) : Over(new(t), b.conn[t])[w] = new(t)[w]
        /\ \A w \in DOMAIN b.conn[t] \ DOMAIN new(t) : Over(new(t), b.conn[t])[w] = b.conn[t][w]
    BY OverIs, Zenon
  <2> QED
    BY <2>1, <1>3
<1>8. ASSUME NEW t \in DOMAIN b.kind
      PROVE  MadeUpFor(b, r, t)
  <2>1. /\ DOMAIN new(t) = {f.wire : f \in Owed(b, t)}
        /\ \A w \in {f.wire : f \in Owed(b, t)} : new(t)[w] = made(w, t)
    BY <1>4 DEF made
  <2>2. /\ DOMAIN r.conn[t] = DOMAIN b.conn[t] \cup DOMAIN new(t)
        /\ \A w \in DOMAIN new(t) : r.conn[t][w] = new(t)[w]
        /\ \A w \in DOMAIN b.conn[t] \ DOMAIN new(t) : r.conn[t][w] = b.conn[t][w]
    BY <1>6, <1>7
  <2>3. \A w \in {f.wire : f \in Owed(b, t)} : r.conn[t][w] = made(w, t)
    BY <2>1, <2>2
  <2> QED
    BY <2>1, <2>2, <2>3 DEF made, MadeUpFor
<1> QED
  BY <1>3, <1>6, <1>8 DEF nodes

\* A builder that was given the whole dump.
Whole(d, b) ==
    /\ Builds(d, b, Nets(d))
    /\ DOMAIN b.kind = DOMAIN d.kind
    /\ Kills(d, b, DOMAIN d.kind)

\* The fixups that apply to a tile are those of its wires that are nodes of their own.
LEMMA OwedIs ==
    ASSUME NEW d \in Dumps, NEW b, Whole(d, b), NEW t \in DOMAIN b.kind, NEW f \in Owed(b, t)
    PROVE  /\ f = FixupOf(d, b, <<t, f.wire>>)
           /\ f.wire \in DOMAIN d.wires[t] /\ f.wire \notin DOMAIN b.conn[t]
           /\ <<t, f.wire>> \in DOMAIN d.net /\ d.net[<<t, f.wire>>] = {<<t, f.wire>>}
<1> DEFINE w == f.wire
           p == <<t, w>>
<1>1. f \in b.fixups /\ f.kind = b.kind[t] /\ w \in DOMAIN b.pending[t]
  BY DEF Owed
<1>2. w \in DOMAIN d.wires[t] /\ w \notin DOMAIN b.conn[t]
  BY <1>1 DEF Whole, Builds, PendingFits
<1>3. t \in DOMAIN d.kind
  BY DEF Whole
<1>4. p \in Listed(d) /\ p \in DOMAIN d.net
  BY <1>2, <1>3, ListedIs, DumpFacts
<1>5. d.net[p] # {}
  BY <1>1, <1>2, <1>3 DEF Whole, Kills
<1>6. d.net[p] \in Nets(d)
  BY <1>4, <1>5 DEF Nets
<1>7. /\ d.net[p] = {p}
      /\ FixupOf(d, b, p) \in b.fixups \/ \A g \in b.fixups : g.kind = b.kind[t] => g.wire # w
  BY <1>1, <1>6 DEF Whole, Builds, PendingFits
<1>8. FixupOf(d, b, p).kind = b.kind[t] /\ FixupOf(d, b, p).wire = w
  BY DEF FixupOf
<1>9. f = FixupOf(d, b, p)
  BY <1>1, <1>7, <1>8 DEF Whole, Builds, FixupsFit
<1> QED
  BY <1>2, <1>4, <1>7, <1>9

\* The node that is made up for is the one of the dump.
LEMMA SingleIs ==
    ASSUME NEW d \in Dumps, NEW b, Whole(d, b), NEW t \in DOMAIN b.kind, NEW f \in Owed(b, t)
    PROVE  WiresOf(SingleNode(t, f)) = StoredAs(d, {<<t, f.wire>>})
<1> DEFINE p == <<t, f.wire>>
           x == [tile |-> t, wire |-> f.wire, speed |-> f.speed, cls |-> f.cls]
           y == [delta |-> <<0, 0>>, wire |-> f.wire, speed |-> f.speed, cls |-> f.cls]
<1>1. f = FixupOf(d, b, p) /\ f.wire \in DOMAIN d.wires[t] /\ t \in DOMAIN d.kind
  BY OwedIs DEF Whole
<1>2. p \in Listed(d)
  BY <1>1, ListedIs
<1>3. p[1] = t /\ p[2] = f.wire
  OBVIOUS
<1>4. f.speed = Speed(d, p) /\ f.cls = Cls(d, p)
  <2> HIDE DEF p
  <2>1. FixupOf(d, b, p).speed = d.wires[p[1]][p[2]] /\ FixupOf(d, b, p).cls = Cls(d, p)
    BY DEF FixupOf
  <2> QED
    BY <2>1, <1>1, <1>2 DEF Speed
<1>5. StoredAs(d, {p}) = {x}
  <2>1. \A q : q \in {p} <=> q = p
    OBVIOUS
  <2>2. StoredAs(d, {p}) = {[tile |-> p[1], wire |-> p[2], speed |-> Speed(d, p), cls |-> Cls(d, p)]}
    <3> HIDE DEF p
    <3> QED
      BY DEF StoredAs
  <2> QED
    BY <2>2, <1>3, <1>4
<1>6. t = <<t[1], t[2]>> /\ t[1] \in Nat /\ t[2] \in Nat
  BY <1>1, DumpFacts
<1>7. SingleNode(t, f).base = t /\ SingleNode(t, f).template = {y}
  BY DEF SingleNode
<1>8. <<t[1] + y.delta[1], t[2] + y.delta[2]>> = t
  BY <1>6
<1>9. WiresOf(SingleNode(t, f)) =
        {[tile |-> <<t[1] + y.delta[1], t[2] + y.delta[2]>>, wire |-> y.wire,
          speed |-> y.speed, cls |-> y.cls]}
  <2>1. WiresOf(SingleNode(t, f)) =
            {[tile |-> <<t[1] + z.delta[1], t[2] + z.delta[2]>>, wire |-> z.wire,
              speed |-> z.speed, cls |-> z.cls] : z \in {y}}
    <3> HIDE DEF y
    <3> QED
      BY <1>7 DEF WiresOf
  <2> HIDE DEF y
  <2> QED
    BY <2>1
<1>10. y.wire = f.wire /\ y.speed = f.speed /\ y.cls = f.cls
  OBVIOUS
<1> HIDE DEF y
<1> QED
  BY <1>5, <1>8, <1>9, <1>10
\* The nodes of a finished part are those of the dump, each at all its wires.
LEMMA FinishFits ==
    ASSUME NEW d \in Dumps, NEW b, Whole(d, b), NEW r, r = finish(b)
    PROVE  ConnFits(d, r, Nets(d)) /\ NodesFit(d, r, Nets(d))
<1>1. /\ Shape(d, b) /\ ConnFits(d, b, Nets(d)) /\ NodesFit(d, b, Nets(d))
      /\ DOMAIN b.kind = DOMAIN d.kind
  BY DEF Whole, Builds
<1>2. /\ r.kinds = b.kinds /\ r.kind = b.kind /\ DOMAIN r.conn = DOMAIN b.kind
      /\ r.nodes = b.nodes \cup UNION {{SingleNode(t, f) : f \in Owed(b, t)} : t \in DOMAIN b.kind}
  BY <1>1, FinishIs, Zenon
<1>3. ASSUME NEW t \in DOMAIN b.kind
      PROVE  /\ MadeUpFor(b, r, t)
             /\ DOMAIN r.conn[t] = DOMAIN b.conn[t] \cup {f.wire : f \in Owed(b, t)}
             /\ \A w \in DOMAIN b.conn[t] \ {f.wire : f \in Owed(b, t)} : r.conn[t][w] = b.conn[t][w]
  <2>1. MadeUpFor(b, r, t)
    BY <1>1, FinishIs, Zenon
  <2> QED
    BY <2>1, Zenon DEF MadeUpFor
<1>4. ASSUME NEW t \in DOMAIN b.kind, NEW f \in Owed(b, t)
      PROVE  /\ f.wire \in DOMAIN r.conn[t] /\ f.wire \notin DOMAIN b.conn[t]
             /\ f.wire \in DOMAIN Wires(b, t)
             /\ r.conn[t][f.wire] = SingleNode(t, f)
             /\ SingleNode(t, f) \in r.nodes
             /\ <<t, f.wire>> \in DOMAIN d.net /\ d.net[<<t, f.wire>>] = {<<t, f.wire>>}
             /\ d.net[<<t, f.wire>>] \in Nets(d)
             /\ WiresOf(SingleNode(t, f)) = StoredAs(d, {<<t, f.wire>>})
  <2>1. \A g \in Owed(b, t) : g = FixupOf(d, b, <<t, g.wire>>)
    BY OwedIs
  <2>2. (CHOOSE g \in Owed(b, t) : g.wire = f.wire) = f
    <3> DEFINE h == CHOOSE g \in Owed(b, t) : g.wire = f.wire
    <3>1. h \in Owed(b, t) /\ h.wire = f.wire
      OBVIOUS
    <3> HIDE DEF h
    <3>2. h = FixupOf(d, b, <<t, h.wire>>) /\ f = FixupOf(d, b, <<t, f.wire>>)
      BY <2>1, <3>1
    <3> QED
      BY <3>1, <3>2 DEF h
  <2>3. r.conn[t][f.wire] = SingleNode(t, CHOOSE g \in Owed(b, t) : g.wire = f.wire)
    <3>1. f.wire \in {g.wire : g \in Owed(b, t)}
      OBVIOUS
    <3>2. MadeUpFor(b, r, t)
      BY <1>3
    <3> QED
      BY <3>1, <3>2, Zenon DEF MadeUpFor
  <2>4. f.wire \in DOMAIN r.conn[t]
    BY <1>3
  <2>5. SingleNode(t, f) \in r.nodes
    BY <1>2
  <2>6. /\ f.wire \in DOMAIN d.wires[t] /\ f.wire \notin DOMAIN b.conn[t]
        /\ <<t, f.wire>> \in DOMAIN d.net /\ d.net[<<t, f.wire>>] = {<<t, f.wire>>}
    BY OwedIs
  <2>7. d.net[<<t, f.wire>>] \in Nets(d)
    BY <2>6 DEF Nets
  <2>8. f.wire \in DOMAIN Wires(b, t)
    BY <2>6, <1>1 DEF Shape
  <2>9. WiresOf(SingleNode(t, f)) = StoredAs(d, {<<t, f.wire>>})
    BY SingleIs, Zenon
  <2>10. r.conn[t][f.wire] = SingleNode(t, f)
    BY <2>2, <2>3, Zenon
  <2> QED
    BY <2>4, <2>5, <2>6, <2>7, <2>8, <2>9, <2>10, Zenon
<1>5. ASSUME NEW t \in DOMAIN b.kind, NEW w \in DOMAIN b.conn[t]
      PROVE  w \in DOMAIN r.conn[t] /\ r.conn[t][w] = b.conn[t][w]
  <2>1. w \notin {f.wire : f \in Owed(b, t)}
    <3> SUFFICES ASSUME NEW f \in Owed(b, t), w = f.wire PROVE FALSE
      OBVIOUS
    <3> QED
      BY <1>4, Zenon
  <2> QED
    BY <2>1, <1>3
<1>6. ConnFits(d, r, Nets(d))
  <2> SUFFICES ASSUME NEW t \in DOMAIN b.kind, NEW w \in DOMAIN r.conn[t]
               PROVE  /\ w \in DOMAIN Wires(b, t)
                      /\ <<t, w>> \in DOMAIN d.net /\ d.net[<<t, w>>] \in Nets(d)
                      /\ r.conn[t][w] \in r.nodes
                      /\ WiresOf(r.conn[t][w]) = StoredAs(d, d.net[<<t, w>>])
    <3>1. \A u : Wires(r, u) = Wires(b, u)
      BY <1>2 DEF Wires
    <3> QED
      BY <1>2, <3>1 DEF ConnFits
  <2>1. CASE w \in DOMAIN b.conn[t]
    BY <2>1, <1>1, <1>2, <1>5 DEF ConnFits
  <2>2. CASE w \notin DOMAIN b.conn[t]
    <3>1. PICK f \in Owed(b, t) : w = f.wire
      BY <2>2, <1>3
    <3> DEFINE v == f.wire
    <3>2. /\ v \in DOMAIN Wires(b, t) /\ r.conn[t][v] = SingleNode(t, f)
          /\ SingleNode(t, f) \in r.nodes
          /\ <<t, v>> \in DOMAIN d.net /\ d.net[<<t, v>>] = {<<t, v>>}
          /\ d.net[<<t, v>>] \in Nets(d)
          /\ WiresOf(SingleNode(t, f)) = StoredAs(d, {<<t, v>>})
      BY <1>4, Zenon
    <3> QED
      BY <3>1, <3>2
  <2> QED
    BY <2>1, <2>2
<1>7. NodesFit(d, r, Nets(d))
  <2> SUFFICES ASSUME NEW n \in r.nodes
               PROVE  \E m \in Nets(d) :
                        /\ WiresOf(n) = StoredAs(d, m)
                        /\ \A q \in m : /\ q[1] \in DOMAIN b.kind /\ q[2] \in DOMAIN r.conn[q[1]]
                                        /\ r.conn[q[1]][q[2]] = n
    BY <1>2 DEF NodesFit
  <2>1. CASE n \in b.nodes
    <3>1. PICK m \in Nets(d) :
            /\ WiresOf(n) = StoredAs(d, m)
            /\ \A q \in m : /\ q[1] \in DOMAIN b.kind /\ q[2] \in DOMAIN b.conn[q[1]]
                            /\ b.conn[q[1]][q[2]] = n
      BY <2>1, <1>1 DEF NodesFit
    <3> QED
      BY <3>1, <1>5
  <2>2. CASE n \notin b.nodes
    <3>1. PICK t \in DOMAIN b.kind : n \in {SingleNode(t, f) : f \in Owed(b, t)}
      BY <2>2, <1>2
    <3>4. PICK f \in Owed(b, t) : n = SingleNode(t, f)
      BY <3>1
    <3>2. \A q \in {<<t, f.wire>>} : q[1] = t /\ q[2] = f.wire
      OBVIOUS
    <3>3. /\ f.wire \in DOMAIN r.conn[t] /\ r.conn[t][f.wire] = SingleNode(t, f)
          /\ d.net[<<t, f.wire>>] = {<<t, f.wire>>} /\ d.net[<<t, f.wire>>] \in Nets(d)
          /\ WiresOf(SingleNode(t, f)) = StoredAs(d, {<<t, f.wire>>})
      BY <1>4, Zenon
    <3> DEFINE m == {<<t, f.wire>>}
    <3>5. m \in Nets(d) /\ WiresOf(n) = StoredAs(d, m)
      BY <3>3, <3>4
    <3>6. \A q \in m : /\ q[1] \in DOMAIN b.kind /\ q[2] \in DOMAIN r.conn[q[1]]
                       /\ r.conn[q[1]][q[2]] = n
      BY <3>2, <3>3, <3>4
    <3> HIDE DEF m
    <3> QED
      BY <3>5, <3>6
  <2> QED
    BY <2>1, <2>2
<1> QED
  BY <1>6, <1>7

\* What a finished part says of a wire.
LEMMA FinishedWire ==
    ASSUME NEW d \in Dumps, NEW b, Whole(d, b), NEW r, r = finish(b),
           NEW t \in DOMAIN d.kind, NEW w \in DOMAIN Wires(r, t)
    PROVE  /\ post_deserialize(r, t, w) = IF w \in DOMAIN r.conn[t] THEN {r.conn[t][w]} ELSE {}
           /\ Wires(r, t)[w].is = "internal" => w \notin DOMAIN r.conn[t]
           /\ IF <<t, w>> \in DOMAIN d.net /\ d.net[<<t, w>>] # {}
              THEN \/ lookup_wire(r, t, w) = {StoredAs(d, d.net[<<t, w>>])}
                   \/ lookup_wire(r, t, w) = {} /\ LostTo(d, r, <<t, w>>)
              ELSE lookup_wire(r, t, w) = {}
<1> DEFINE p == <<t, w>>
           G == Nets(d)
<1>1. /\ Shape(d, b) /\ InternalFits(d, b, G) /\ ConnectedFits(d, b, G) /\ PendingFits(d, b, G)
      /\ DOMAIN b.kind = DOMAIN d.kind /\ Kills(d, b, DOMAIN d.kind)
  BY DEF Whole, Builds
<1>2. /\ r.kinds = b.kinds /\ r.kind = b.kind /\ DOMAIN r.conn = DOMAIN b.kind
      /\ DOMAIN r.conn[t] = DOMAIN b.conn[t] \cup {f.wire : f \in Owed(b, t)}
  <2>1. /\ r.kinds = b.kinds /\ r.kind = b.kind /\ DOMAIN r.conn = DOMAIN b.kind
        /\ MadeUpFor(b, r, t)
    BY <1>1, FinishIs, Zenon
  <2> QED
    BY <2>1 DEF MadeUpFor
<1>3. ConnFits(d, r, G) /\ NodesFit(d, r, G)
  BY FinishFits
<1>4. Wires(r, t) = Wires(b, t)
  BY <1>2 DEF Wires
<1>5. ASSUME w \in DOMAIN r.conn[t]
      PROVE  /\ p \in DOMAIN d.net /\ d.net[p] # {} /\ r.conn[t][w] \in r.nodes
             /\ WiresOf(r.conn[t][w]) = StoredAs(d, d.net[p])
  <2>1. /\ <<t, w>> \in DOMAIN d.net /\ d.net[<<t, w>>] \in Nets(d) /\ r.conn[t][w] \in r.nodes
        /\ WiresOf(r.conn[t][w]) = StoredAs(d, d.net[<<t, w>>])
    BY <1>1, <1>2, <1>3, <1>5 DEF ConnFits
  <2> QED
    BY <2>1 DEF Nets
<1>6. ASSUME NEW m \in G, NEW x \in StoredAs(d, m), x.tile = t, x.wire = w
      PROVE  \E q \in m : q[1] = t /\ q[2] = w
  BY <1>6 DEF StoredAs
<1>7. post_deserialize(r, t, w) \subseteq (IF w \in DOMAIN r.conn[t] THEN {r.conn[t][w]} ELSE {})
  <2> SUFFICES ASSUME NEW n \in r.nodes, NEW x \in WiresOf(n), x.tile = t, x.wire = w
               PROVE  w \in DOMAIN r.conn[t] /\ n = r.conn[t][w]
    BY DEF post_deserialize
  <2>1. PICK m \in G : /\ WiresOf(n) = StoredAs(d, m)
                       /\ \A q \in m : /\ q[1] \in DOMAIN r.kind /\ q[2] \in DOMAIN r.conn[q[1]]
                                       /\ r.conn[q[1]][q[2]] = n
    BY <1>3 DEF NodesFit
  <2>2. PICK q \in m : q[1] = t /\ q[2] = w
    BY <2>1, <1>6
  <2> QED
    BY <2>1, <2>2
<1>8. ASSUME w \in DOMAIN r.conn[t] PROVE r.conn[t][w] \in post_deserialize(r, t, w)
  <2>1. p \in d.net[p]
    BY <1>5, <1>8, MemberOfNet
  <2>2. p[1] = t /\ p[2] = w
    OBVIOUS
  <2> DEFINE x == [tile |-> p[1], wire |-> p[2], speed |-> Speed(d, p), cls |-> Cls(d, p)]
  <2> HIDE DEF p
  <2>3. x \in StoredAs(d, d.net[p])
    BY <2>1 DEF StoredAs
  <2>4. x.tile = t /\ x.wire = w
    BY <2>2
  <2> HIDE DEF x
  <2> QED
    BY <2>3, <2>4, <1>5, <1>8 DEF post_deserialize
<1>9. post_deserialize(r, t, w) = IF w \in DOMAIN r.conn[t] THEN {r.conn[t][w]} ELSE {}
  BY <1>7, <1>8
<1>10. ASSUME Wires(r, t)[w].is = "internal"
       PROVE  /\ w \notin DOMAIN r.conn[t]
              /\ p \in DOMAIN d.net /\ d.net[p] = {p}
              /\ lookup_wire(r, t, w) = {StoredAs(d, d.net[p])}
  <2>1. /\ w \in DOMAIN d.wires[t]
        /\ Wires(b, t)[w].speed = d.wires[t][w]
        /\ Wires(b, t)[w].cls = Cls(d, p)
        /\ w \notin DOMAIN b.conn[t]
        /\ w \notin DOMAIN b.pending[t]
        /\ d.net[p] \in G => d.net[p] = {p}
    BY <1>1, <1>4, <1>10 DEF InternalFits
  <2>2. p \in Listed(d) /\ p \in DOMAIN d.net
    BY <2>1, ListedIs, DumpFacts
  <2>3. d.net[p] # {}
    BY <2>1, <1>1, <1>4, <1>10 DEF Kills
  <2>4. d.net[p] = {p}
    BY <2>1, <2>2, <2>3 DEF Nets
  <2>5. w \notin DOMAIN r.conn[t]
    BY <2>1, <1>2 DEF Owed
  <2>6. lookup_wire(r, t, w) =
            {{[tile |-> t, wire |-> w, speed |-> d.wires[t][w], cls |-> Cls(d, p)]}}
    BY <2>1, <1>4, <1>10 DEF lookup_wire
  <2>7. StoredAs(d, {p}) = {[tile |-> t, wire |-> w, speed |-> d.wires[t][w], cls |-> Cls(d, p)]}
    <3>1. p[1] = t /\ p[2] = w
      OBVIOUS
    <3> HIDE DEF p
    <3>2. StoredAs(d, {p}) = {[tile |-> p[1], wire |-> p[2], speed |-> Speed(d, p), cls |-> Cls(d, p)]}
      BY DEF StoredAs
    <3> QED
      BY <2>2, <3>1, <3>2 DEF Speed
  <2> QED
    BY <2>2, <2>4, <2>5, <2>6, <2>7
<1>11. ASSUME Wires(r, t)[w].is # "internal", w \in DOMAIN r.conn[t]
       PROVE  lookup_wire(r, t, w) = {StoredAs(d, d.net[p])}
  <2>1. lookup_wire(r, t, w) = {WiresOf(n) : n \in {r.conn[t][w]}}
    BY <1>9, <1>11 DEF lookup_wire
  <2> QED
    BY <2>1, <1>5, <1>11
<1>12. ASSUME Wires(r, t)[w].is # "internal", w \notin DOMAIN r.conn[t]
       PROVE  lookup_wire(r, t, w) = {}
  BY <1>9, <1>12 DEF lookup_wire
<1>13. ASSUME Wires(r, t)[w].is # "internal", w \notin DOMAIN r.conn[t],
              p \in DOMAIN d.net, d.net[p] # {}
       PROVE  LostTo(d, r, p)
  <2>1. d.net[p] \in G
    BY <1>13 DEF Nets
  <2>2. w \in DOMAIN b.pending[t]
    BY <2>1, <1>1, <1>2, <1>4, <1>13 DEF ConnectedFits
  <2>3. FixupOf(d, b, p) \in b.fixups \/ LostTo(d, b, p)
    BY <2>1, <2>2, <1>1 DEF PendingFits
  <2>4. FixupOf(d, b, p).kind = b.kind[t] /\ FixupOf(d, b, p).wire = w
    BY DEF FixupOf
  <2>5. FixupOf(d, b, p) \notin b.fixups
    <3> HIDE DEF p
    <3> QED
      BY <2>2, <2>4, <1>2, <1>13 DEF Owed
  <2>6. LostTo(d, r, p) <=> LostTo(d, b, p)
    BY <1>2 DEF LostTo
  <2> QED
    BY <2>3, <2>5, <2>6
<1> HIDE DEF p
<1>14. IF p \in DOMAIN d.net /\ d.net[p] # {}
       THEN \/ lookup_wire(r, t, w) = {StoredAs(d, d.net[p])}
            \/ lookup_wire(r, t, w) = {} /\ LostTo(d, r, p)
       ELSE lookup_wire(r, t, w) = {}
  BY <1>5, <1>10, <1>11, <1>12, <1>13
<1> QED
  BY <1>9, <1>10, <1>14 DEF p
\* Without the classes, a stored node is the one that was given.
LEMMA PlainStored ==
    ASSUME NEW d, NEW m
    PROVE  Plain(StoredAs(d, m)) = GivenAs(d, m)
<1> DEFINE st(q) == [tile |-> q[1], wire |-> q[2], speed |-> Speed(d, q), cls |-> Cls(d, q)]
           pl(x) == [tile |-> x.tile, wire |-> x.wire, speed |-> x.speed]
           gv(q) == [tile |-> q[1], wire |-> q[2], speed |-> Speed(d, q)]
<1>1. \A q : pl(st(q)) = gv(q)
  OBVIOUS
<1>2. Plain(StoredAs(d, m)) = {pl(x) : x \in {st(q) : q \in m}}
  BY DEF Plain, StoredAs
<1>3. GivenAs(d, m) = {gv(q) : q \in m}
  BY DEF GivenAs
<1> HIDE DEF st, pl, gv
<1> QED
  BY <1>1, <1>2, <1>3

ClassesIn(n, t, w) == {x.cls : x \in {y \in n : y.tile = t /\ y.wire = w}}

\* The class of a wire in its node.
LEMMA ClassStored ==
    ASSUME NEW d, NEW m, NEW t, NEW w, <<t, w>> \in m, \A q \in m : q = <<q[1], q[2]>>
    PROVE  ClassesIn(StoredAs(d, m), t, w) = {Cls(d, <<t, w>>)}
<1> DEFINE st(q) == [tile |-> q[1], wire |-> q[2], speed |-> Speed(d, q), cls |-> Cls(d, q)]
           p == <<t, w>>
           Y == {y \in StoredAs(d, m) : y.tile = t /\ y.wire = w}
<1>1. \A q : st(q).tile = q[1] /\ st(q).wire = q[2] /\ st(q).cls = Cls(d, q)
  OBVIOUS
<1>2. StoredAs(d, m) = {st(q) : q \in m}
  BY DEF StoredAs
<1>3. \A q \in m : q[1] = t /\ q[2] = w <=> q = p
  OBVIOUS
<1> HIDE DEF st
<1>4. Y = {st(p)}
  <2> HIDE DEF p
  <2>1. p \in m
    BY DEF p
  <2> QED
    BY <2>1, <1>1, <1>2, <1>3
<1> HIDE DEF Y
<1>5. {x.cls : x \in Y} = {st(p).cls}
  BY <1>4
<1> QED
  BY <1>1, <1>5 DEF Y, ClassesIn

\* A node read back shows each of its wires with the class of its tile's pips.
LEMMA NetClass ==
    ASSUME NEW d \in Dumps, NEW t, NEW w, <<t, w>> \in DOMAIN d.net, d.net[<<t, w>>] # {}
    PROVE  ClassesIn(StoredAs(d, d.net[<<t, w>>]), t, w) = {Cls(d, <<t, w>>)}
<1>1. ASSUME NEW m, <<t, w>> \in m, \A q \in m : q = <<q[1], q[2]>>
      PROVE  ClassesIn(StoredAs(d, m), t, w) = {Cls(d, <<t, w>>)}
  BY <1>1, ClassStored
<1>2. <<t, w>> \in d.net[<<t, w>>] /\ \A q \in d.net[<<t, w>>] : q = <<q[1], q[2]>>
  BY DumpFacts
<1> QED
  BY <1>1, <1>2

\* The classes of a pip are in its own entry, or those of its wires.
LEMMA OverridesIs ==
    ASSUME NEW d \in Dumps, NEW t \in DOMAIN d.kind, NEW p \in d.pips[t]
    PROVE  IF <<p.from, p.to>> \in DOMAIN Overrides(d.pips[t])
           THEN Overrides(d.pips[t])[<<p.from, p.to>>] = PipClasses(p)
           ELSE PipClasses(p) = <<Cls(d, <<t, p.from>>), Cls(d, <<t, p.to>>)>>
<1> DEFINE pips == d.pips[t]
           odd == {q \in pips : PipClasses(q) # <<w2nc(pips, q.from), w2nc(pips, q.to)>>}
           k == <<p.from, p.to>>
           first == CHOOSE q \in odd : <<q.from, q.to>> = k
<1>1. /\ DOMAIN Overrides(pips) = {<<q.from, q.to>> : q \in odd}
      /\ k \in DOMAIN Overrides(pips) => Overrides(pips)[k] = PipClasses(first)
  BY DEF Overrides
<1>2. CASE k \in DOMAIN Overrides(pips)
  <2>1. first \in odd /\ <<first.from, first.to>> = k
    BY <1>1, <1>2
  <2> HIDE DEF first
  <2>2. first \in pips /\ first.from = p.from /\ first.to = p.to
    BY <2>1
  <2>3. first = p
    BY <2>2, DumpsFit
  <2> QED
    BY <2>3, <1>1, <1>2
<1>3. CASE k \notin DOMAIN Overrides(pips)
  <2>1. p \notin odd
    BY <1>1, <1>3
  <2>2. PipClasses(p) = <<w2nc(pips, p.from), w2nc(pips, p.to)>>
    BY <2>1
  <2> QED
    BY <2>2, <1>3 DEF Cls
<1> QED
  BY <1>2, <1>3

\* What is read back of a dump that was given as a whole.
LEMMA DoneKeeps ==
    ASSUME dump \in Dumps, Whole(dump, rd), rd' = finish(rd), dump' = dump
    PROVE  Faithful' /\ ClassesKept'
<1> DEFINE d == dump
           r == rd'
<1>1. Shape(d, rd) /\ DOMAIN rd.kind = DOMAIN d.kind
  BY DEF Whole, Builds
<1>2. r.overrides = rd.overrides /\ r.kinds = rd.kinds /\ r.kind = rd.kind
  BY <1>1, FinishIs
<1>3. ASSUME NEW t \in DOMAIN d.kind, NEW w \in DOMAIN Wires(r, t)
      PROVE  /\ post_deserialize(r, t, w) = IF w \in DOMAIN r.conn[t] THEN {r.conn[t][w]} ELSE {}
             /\ Wires(r, t)[w].is = "internal" => w \notin DOMAIN r.conn[t]
             /\ IF <<t, w>> \in DOMAIN d.net /\ d.net[<<t, w>>] # {}
                THEN \/ lookup_wire(r, t, w) = {StoredAs(d, d.net[<<t, w>>])}
                     \/ lookup_wire(r, t, w) = {} /\ LostTo(d, r, <<t, w>>)
                ELSE lookup_wire(r, t, w) = {}
  BY FinishedWire
<1>4. ASSUME NEW t \in DOMAIN d.kind, NEW w \in DOMAIN Wires(r, t)
      PROVE  /\ Cardinality(post_deserialize(r, t, w)) <= 1
             /\ Wires(r, t)[w].is = "internal" => post_deserialize(r, t, w) = {}
  <2>1. \A x : Cardinality({x}) = 1
    BY FS_Singleton
  <2>2. Cardinality({}) = 0
    BY FS_EmptySet
  <2>3. CASE w \in DOMAIN r.conn[t]
    <3>1. post_deserialize(r, t, w) = {r.conn[t][w]} /\ Wires(r, t)[w].is # "internal"
      BY <2>3, <1>3
    <3>2. Cardinality(post_deserialize(r, t, w)) = 1
      BY <3>1, <2>1, Zenon
    <3> QED
      BY <3>1, <3>2
  <2>4. CASE w \notin DOMAIN r.conn[t]
    <3>1. post_deserialize(r, t, w) = {}
      BY <2>4, <1>3
    <3> QED
      BY <3>1, <2>2
  <2> QED
    BY <2>3, <2>4
<1>5. ASSUME NEW p, p \in DOMAIN d.net
      PROVE  Given(p)' = GivenAs(d, d.net[p])
  BY DEF Given, GivenAs, Speed
<1>6. ASSUME NEW t \in DOMAIN d.kind, NEW w \in DOMAIN Wires(r, t)
      PROVE  Stored(<<t, w>>)' = {Plain(n) : n \in lookup_wire(r, t, w)}
  BY DEF Stored
<1>7. ASSUME NEW p, LostTo(d, r, p)
      PROVE  Overtaken(p)'
  <2> DEFINE ts == r.kinds[r.kind[p[1]]].tiles
  <2>1. d.flow = "ise" /\ d.net[p] = {p}
    BY <1>7 DEF LostTo
  <2>2. \E i, j \in DOMAIN ts :
            /\ i < j /\ ts[i] = p[1]
            /\ <<ts[j], p[2]>> \in Listed(d) => d.wires[ts[j]][p[2]] # d.wires[p[1]][p[2]]
    BY <1>7, Zenon DEF LostTo
  <2>3. Overtaken(p)' <=>
            /\ dump'.flow = "ise" /\ dump'.net[p] = {p}
            /\ \E i, j \in DOMAIN ts :
                /\ i < j /\ ts[i] = p[1]
                /\ <<ts[j], p[2]>> \in Listed(dump') =>
                        dump'.wires[ts[j]][p[2]] # dump'.wires[p[1]][p[2]]
    BY Zenon DEF Overtaken
  <2> HIDE DEF ts
  <2> QED
    BY <2>1, <2>2, <2>3
<1>8. ASSUME NEW t \in DOMAIN d.kind, NEW w \in DOMAIN Wires(r, t)
      PROVE  IF <<t, w>> \in DOMAIN d.net /\ d.net[<<t, w>>] # {}
             THEN \/ Stored(<<t, w>>)' = {Given(<<t, w>>)'}
                  \/ Stored(<<t, w>>)' = {} /\ Overtaken(<<t, w>>)'
             ELSE Stored(<<t, w>>)' = {}
  <2>1. lookup_wire(r, t, w) = {} => Stored(<<t, w>>)' = {}
    BY <1>6
  <2>2. ASSUME NEW m, lookup_wire(r, t, w) = {StoredAs(d, m)}
        PROVE  Stored(<<t, w>>)' = {GivenAs(d, m)}
    <3>1. Stored(<<t, w>>)' = {Plain(StoredAs(d, m))}
      BY <2>2, <1>6
    <3> QED
      BY <3>1, PlainStored
  <2> QED
    BY <2>1, <2>2, <1>3, <1>5, <1>7
<1>9. Faithful'
  <2> SUFFICES ASSUME NEW t \in DOMAIN d.kind, NEW w \in DOMAIN Wires(r, t)
               PROVE  /\ Cardinality(post_deserialize(r, t, w)) <= 1
                      /\ Wires(r, t)[w].is = "internal" => post_deserialize(r, t, w) = {}
                      /\ post_deserialize(r, t, w)
                            = (IF w \in DOMAIN r.conn[t] THEN {r.conn[t][w]} ELSE {})
                      /\ IF <<t, w>> \in DOMAIN d.net /\ d.net[<<t, w>>] # {}
                         THEN \/ Stored(<<t, w>>)' = {Given(<<t, w>>)'}
                              \/ Stored(<<t, w>>)' = {} /\ Overtaken(<<t, w>>)'
                         ELSE Stored(<<t, w>>)' = {}
    <3>1. \A t \in DOMAIN d.kind :
            /\ KindWires(t)' = DOMAIN Wires(r, t)
            /\ \A w \in DOMAIN Wires(r, t) : IsInternal(t, w)' <=> Wires(r, t)[w].is = "internal"
      BY DEF KindWires, IsInternal, Wires
    <3> QED
      BY <3>1, Zenon DEF Faithful
  <2> QED
    BY <1>3, <1>4, <1>8
<1>10. ASSUME NEW t \in DOMAIN d.kind, d.pips[t] # {}, NEW w, w \in Live(t)
       PROVE  ClassOf(t, w)' = {Cls(d, <<t, w>>)}
  <2>1. w \in DOMAIN d.wires[t] /\ d.net[<<t, w>>] # {}
    BY <1>10 DEF Live
  <2>2. <<t, w>> \in DOMAIN d.net
    BY <2>1, ListedIs, DumpFacts
  <2>3. w \in DOMAIN Wires(r, t)
    BY <2>1, <1>1, <1>2 DEF Shape, Wires
  <2>4. d.flow # "ise"
    BY <1>10, DumpFacts
  <2>5. ~ LostTo(d, r, <<t, w>>)
    BY <2>4 DEF LostTo
  <2>6. lookup_wire(r, t, w) = {StoredAs(d, d.net[<<t, w>>])}
    BY <2>1, <2>2, <2>3, <2>5, <1>3
  <2> DEFINE m == d.net[<<t, w>>]
  <2>8. ClassesIn(StoredAs(d, m), t, w) = {Cls(d, <<t, w>>)}
    BY <2>1, <2>2, NetClass
  <2>9. UNION lookup_wire(r, t, w) = StoredAs(d, m)
    BY <2>6
  <2>10. ClassOf(t, w)' = ClassesIn(UNION lookup_wire(r, t, w), t, w)
    BY DEF ClassOf, ClassesIn
  <2> QED
    BY <2>8, <2>9, <2>10
<1>11. ClassesKept'
  <2> SUFFICES ASSUME NEW t \in DOMAIN d.kind, NEW p \in d.pips[t]
               PROVE  IF <<p.from, p.to>> \in DOMAIN r.overrides[t]
                      THEN r.overrides[t][<<p.from, p.to>>] = PipClasses(p)
                      ELSE /\ p.from \in Live(t) => ClassOf(t, p.from)' = {PipClasses(p)[1]}
                           /\ p.to \in Live(t) => ClassOf(t, p.to)' = {PipClasses(p)[2]}
    <3>1. \A t : Live(t)' = Live(t)
      BY DEF Live
    <3> QED
      BY <3>1 DEF ClassesKept
  <2>1. r.overrides[t] = Overrides(d.pips[t])
    BY <1>1, <1>2 DEF Shape
  <2>2. IF <<p.from, p.to>> \in DOMAIN Overrides(d.pips[t])
        THEN Overrides(d.pips[t])[<<p.from, p.to>>] = PipClasses(p)
        ELSE PipClasses(p) = <<Cls(d, <<t, p.from>>), Cls(d, <<t, p.to>>)>>
    BY OverridesIs
  <2>3. \A w \in Live(t) : ClassOf(t, w)' = {Cls(d, <<t, w>>)}
    BY <1>10
  <2> QED
    BY <2>1, <2>2, <2>3
<1> QED
  BY <1>9, <1>11

(***************************************************************************)
(* The flows                                                               *)
(***************************************************************************)
\* A function on 1..n is a sequence.
LEMMA LenIs ==
    ASSUME NEW n \in Nat, NEW f, f = [k \in 1..n |-> f[k]]
    PROVE  Len(f) = n
<1> DEFINE S == {f[k] : k \in 1..n}
<1>1. f \in [1..n -> S]
  OBVIOUS
<1>2. f \in Seq(S)
  BY <1>1
<1> QED
  BY <1>1, <1>2
\* What holds between the steps of a flow that was given dump, with the nodes G given.
Feeding(G) == dump \in Dumps /\ tiles \subseteq DOMAIN dump.kind /\ G \subseteq Nets(dump) /\ Feeds(G)

\* Nothing was given to a new builder.
LEMMA InitFeeds == Init => Feeding({})
<1> SUFFICES ASSUME Init PROVE Feeding({})
  OBVIOUS
<1>1. dump \in Dumps /\ tiles = DOMAIN dump.kind /\ Read = {}
  BY DEF Init, Read
<1>2. Builds(dump, rd, {}) /\ Kills(dump, rd, Read) /\ DOMAIN rd.kind = Read
  BY <1>1, NewBuilds DEF Init
<1>3. DOMAIN << >> = {} /\ Len(<< >>) = 0 /\ DOMAIN << >> = 1..0
  OBVIOUS
<1>4. at = {} /\ groups = << >> /\ gathered = << >> /\ wire2node = << >>
  BY DEF Init
<1>5. GatheredFits({})
  BY <1>1, <1>3, <1>4 DEF GatheredFits
<1>6. GroupsFit({})
  BY <1>3, <1>4 DEF GroupsFit
<1>7. ProgressFits({})
  <2>1. ASSUME NEW p \in Listed(dump) PROVE ~ Processed(p)
    BY <1>1, ListedPair DEF Processed
  <2> QED
    BY <2>1, <1>3, <1>4 DEF ProgressFits
<1>8. Feeds({})
  BY <1>2, <1>4, <1>5, <1>6, <1>7 DEF Feeds
<1> QED
  BY <1>1, <1>8 DEF Feeding

\* A tile of a Vivado dump: its wires without a node are killed, the others name theirs.
LEMMA DumpTileFeeds ==
    ASSUME NEW G, Feeding(G), NEW t \in tiles, dump_tile(t)
    PROVE  Feeding(G)'
<1> DEFINE d == dump
<1>1. /\ d \in Dumps /\ t \in DOMAIN d.kind /\ t \notin Read /\ d.flow = "vivado"
      /\ Builds(d, rd, G) /\ DOMAIN rd.kind = Read /\ Kills(d, rd, Read)
      /\ at = {} /\ groups = << >> /\ GatheredFits(G)
  BY DEF Feeding, Feeds, Read, dump_tile
<1>2. /\ d' = d /\ tiles' = tiles \ {t} /\ at' = at /\ groups' = groups
      /\ rd' = kill_wire(AddTile(t), t, Dead(t))
  BY DEF dump_tile
<1>3. G = {}
  BY <1>1 DEF GatheredFits
<1>4. Read' = Read \cup {t}
  BY <1>1, <1>2 DEF Read, Feeding
<1>5. Builds(d, AddTile(t), G) /\ Kills(d, AddTile(t), Read) /\ DOMAIN AddTile(t).kind = Read \cup {t}
  BY <1>1, <1>3, AddTileBuilds DEF AddTile
<1>6. Dead(t) = DeadIn(d, t)
  BY DEF Dead, Live, DeadIn
<1>7. Builds(d, rd', G) /\ Kills(d, rd', Read \cup {t}) /\ rd'.kind = AddTile(t).kind
  BY <1>1, <1>2, <1>5, <1>6, KillBuilds
<1>8. \A q \in DOMAIN d.net : q \in Listed(d) /\ q = <<q[1], q[2]>> /\ q[1] \in DOMAIN d.kind
                             /\ q[2] \in DOMAIN d.wires[q[1]]
  BY <1>1, DumpFacts, ListedPair
<1>9. \A w : w \in Live(t) <=> <<t, w>> \in DOMAIN d.net /\ d.net[<<t, w>>] # {}
  BY <1>1, DumpFacts, ListedIs DEF Live
<1> DEFINE got == {r \in Listed(d) : r[1] \in Read}
           now == {r \in Listed(d) : r[1] \in Read \cup {t}}
<1>10. {d.net[<<t, w>>] : w \in Live(t)} = {d.net[q] : q \in {r \in Listed(d) : r[1] = t}} \ {{}}
  <2>1. ASSUME NEW w \in Live(t) PROVE <<t, w>> \in Listed(d) /\ <<t, w>>[1] = t /\ d.net[<<t, w>>] # {}
    BY <1>8, <1>9
  <2>2. ASSUME NEW q \in Listed(d), q[1] = t, d.net[q] # {}
        PROVE  q[2] \in Live(t) /\ q = <<t, q[2]>>
    BY <2>2, <1>1, <1>9, DumpFacts, ListedPair
  <2> QED
    BY <2>1, <2>2
<1>11. DOMAIN gathered = {d.net[q] : q \in got} \ (G \cup {{}})
  BY <1>1 DEF GatheredFits
<1>12. DOMAIN gathered' = {d.net[q] : q \in now} \ (G \cup {{}})
  <2>1. DOMAIN gathered' = DOMAIN gathered \cup {d.net[<<t, w>>] : w \in Live(t)}
    BY DEF dump_tile
  <2>2. now = got \cup {r \in Listed(d) : r[1] = t}
    OBVIOUS
  <2> QED
    BY <2>1, <2>2, <1>3, <1>10, <1>11
<1>13. ASSUME NEW n, n # {}
       PROVE  Named(t, n) = GivenAs(d, {q \in n : q[1] = t /\ q \in DOMAIN d.net /\ d.net[q] = n})
  <2> DEFINE gv(q) == [tile |-> q[1], wire |-> q[2], speed |-> Speed(d, q)]
             W == {v \in Live(t) : d.net[<<t, v>>] = n}
             Q == {q \in n : q[1] = t /\ q \in DOMAIN d.net /\ d.net[q] = n}
  <2>1. ASSUME NEW w \in W PROVE NodeWire(t, w) = gv(<<t, w>>) /\ <<t, w>> \in Q
    <3>1. <<t, w>> \in DOMAIN d.net /\ d.net[<<t, w>>] = n
      BY <1>9
    <3>2. <<t, w>> \in n
      BY <3>1, <1>1, <1>13, DumpFacts
    <3> DEFINE p == <<t, w>>
    <3>3. p[1] = t /\ p[2] = w
      OBVIOUS
    <3>4. p \in Listed(d)
      BY <3>1, <1>8
    <3> HIDE DEF p
    <3>5. NodeWire(t, w) = gv(p)
      BY <3>3, <3>4 DEF NodeWire, Speed
    <3> QED
      BY <3>1, <3>2, <3>5 DEF p
  <2>2. ASSUME NEW q \in Q PROVE q[2] \in W /\ q = <<t, q[2]>>
    BY <1>8, <1>9, <1>13
  <2>3. Named(t, n) = {NodeWire(t, w) : w \in W}
    BY DEF Named
  <2>4. GivenAs(d, Q) = {gv(q) : q \in Q}
    BY DEF GivenAs
  <2> HIDE DEF gv, W, Q
  <2>5. Named(t, n) \subseteq GivenAs(d, Q)
    BY <2>1, <2>3, <2>4
  <2>6. GivenAs(d, Q) \subseteq Named(t, n)
    <3> SUFFICES ASSUME NEW q \in Q PROVE gv(q) \in Named(t, n)
      BY <2>4
    <3>1. q[2] \in W /\ q = <<t, q[2]>>
      BY <2>2
    <3>2. NodeWire(t, q[2]) = gv(q)
      BY <3>1, <2>1
    <3> QED
      BY <3>1, <3>2, <2>3
  <2> QED
    BY <2>5, <2>6 DEF Q
<1>14. ASSUME NEW n \in DOMAIN gathered'
       PROVE  gathered'[n] = GivenAs(d, {q \in n : q[1] \in Read \cup {t}})
  <2>1. n \in Nets(d)
    BY <1>1, <1>12, DumpFacts DEF Nets
  <2>2. \A q \in n : q \in DOMAIN d.net /\ d.net[q] = n
    BY <1>1, <2>1, NetOfMember
  <2>3. gathered'[n] = (IF n \in DOMAIN gathered THEN gathered[n] ELSE {}) \cup Named(t, n)
    BY <1>14 DEF dump_tile
  <2>4. Named(t, n) = GivenAs(d, {q \in n : q[1] = t})
    <3>1. {q \in n : q[1] = t /\ q \in DOMAIN d.net /\ d.net[q] = n} = {q \in n : q[1] = t}
      BY <2>2
    <3>2. n # {}
      BY <2>1 DEF Nets
    <3> QED
      BY <3>1, <3>2, <1>13
  <2>5. (IF n \in DOMAIN gathered THEN gathered[n] ELSE {}) = GivenAs(d, {q \in n : q[1] \in Read})
    <3>1. CASE n \in DOMAIN gathered
      BY <3>1, <1>1 DEF GatheredFits
    <3>2. CASE n \notin DOMAIN gathered
      <4>1. {q \in n : q[1] \in Read} = {}
        <5> SUFFICES ASSUME NEW q \in n, q[1] \in Read PROVE n \in DOMAIN gathered
          BY <3>2
        <5>1. q \in got /\ d.net[q] = n
          BY <2>2, <1>8
        <5>2. n # {}
          BY <2>1 DEF Nets
        <5> QED
          BY <5>1, <5>2, <1>3, <1>11
      <4>2. GivenAs(d, {}) = {}
        BY DEF GivenAs
      <4> QED
        BY <3>2, <4>1, <4>2
    <3> QED
      BY <3>1, <3>2
  <2>6. GivenAs(d, {q \in n : q[1] \in Read \cup {t}})
            = GivenAs(d, {q \in n : q[1] \in Read}) \cup GivenAs(d, {q \in n : q[1] = t})
    BY DEF GivenAs
  <2> QED
    BY <2>3, <2>4, <2>5, <2>6
<1>15. GatheredFits(G)'
  <2>1. DOMAIN gathered' = {d'.net[q] : q \in {r \in Listed(d') : r[1] \in Read'}} \ (G \cup {{}})
    BY <1>2, <1>4, <1>12
  <2>2. \A n \in DOMAIN gathered' : gathered'[n] = GivenAs(d', {q \in n : q[1] \in Read'})
    BY <1>2, <1>4, <1>14
  <2> QED
    BY <2>1, <2>2, <1>3 DEF GatheredFits
<1>16. Feeds(G)'
  BY <1>1, <1>2, <1>4, <1>5, <1>7, <1>15 DEF Feeds
<1> QED
  BY <1>2, <1>16 DEF Feeding
\* A node of a Vivado dump is whole when all tiles are in.
LEMMA StreamNodeFeeds ==
    ASSUME NEW G, Feeding(G), NEW n \in DOMAIN gathered, StreamNode(n)
    PROVE  Feeding(G \cup {n})'
<1> DEFINE d == dump
<1>1. /\ d \in Dumps /\ d.flow = "vivado" /\ tiles = {} /\ Read = DOMAIN d.kind
      /\ Builds(d, rd, G) /\ DOMAIN rd.kind = Read /\ Kills(d, rd, Read)
      /\ at = {} /\ groups = << >> /\ GatheredFits(G) /\ G \subseteq Nets(d)
  BY DEF Feeding, Feeds, Read, StreamNode
<1>2. /\ d' = d /\ tiles' = tiles /\ at' = at /\ groups' = groups /\ Read' = Read
      /\ rd' = add_node(rd, gathered[n]) /\ gathered' = Without(gathered, {n})
  BY DEF StreamNode, Read
<1>3. n \notin G /\ n # {} /\ \E q \in Listed(d) : n = d.net[q]
  BY <1>1 DEF GatheredFits
<1>4. n \in Nets(d)
  BY <1>1, <1>3, DumpFacts DEF Nets
<1>5. \A q \in n : q \in Listed(d) /\ q[1] \in DOMAIN d.kind /\ q[2] \in DOMAIN d.wires[q[1]]
  BY <1>1, <1>4, NetOfMember, DumpFacts, ListedPair
<1>6. gathered[n] = GivenAs(d, n)
  <2>1. gathered[n] = GivenAs(d, {q \in n : q[1] \in Read})
    BY <1>1 DEF GatheredFits
  <2>2. {q \in n : q[1] \in Read} = n
    BY <1>1, <1>5
  <2> QED
    BY <2>1, <2>2
<1>7. CanTake(rd, n)
  BY <1>1, <1>5 DEF CanTake, Builds, Shape
<1>8. Builds(d, rd', G \cup {n}) /\ Kills(d, rd', Read) /\ rd'.kind = rd.kind
  <2>1. rd' = add_node(rd, GivenAs(d, n))
    BY <1>2, <1>6
  <2>2. Read \in SUBSET DOMAIN rd.kind
    BY <1>1
  <2>3. d \in Dumps /\ Builds(d, rd, G) /\ Kills(d, rd, Read) /\ n \notin G
    BY <1>1, <1>3
  <2> QED
    BY <2>1, <2>2, <2>3, <1>4, <1>7, AddNodeBuilds
<1>9. /\ DOMAIN gathered' = DOMAIN gathered \ {n}
      /\ \A m \in DOMAIN gathered' : gathered'[m] = gathered[m]
  <2>1. /\ DOMAIN Without(gathered, {n}) = DOMAIN gathered \ {n}
        /\ \A m \in DOMAIN gathered \ {n} : Without(gathered, {n})[m] = gathered[m]
    BY WithoutIs, Zenon
  <2> QED
    BY <2>1, <1>2
<1>10. GatheredFits(G \cup {n})'
  <2>1. DOMAIN gathered' = {d'.net[q] : q \in {r \in Listed(d') : r[1] \in Read'}} \ (G \cup {n} \cup {{}})
    BY <1>1, <1>2, <1>9 DEF GatheredFits
  <2>2. \A m \in DOMAIN gathered' : gathered'[m] = GivenAs(d', {q \in m : q[1] \in Read'})
    BY <1>1, <1>2, <1>9 DEF GatheredFits
  <2> QED
    BY <2>1, <2>2, <1>1, <1>2 DEF GatheredFits
<1>11. Feeds(G \cup {n})'
  BY <1>1, <1>2, <1>8, <1>10 DEF Feeds
<1> QED
  BY <1>1, <1>2, <1>4, <1>11 DEF Feeding

\* A tile of an ISE dump is read; none of its wires was looked at.
LEMMA ReadTileFeeds ==
    ASSUME NEW G, Feeding(G), NEW t \in tiles, ReadTile(t)
    PROVE  Feeding(G)'
<1> DEFINE d == dump
<1>1. /\ d \in Dumps /\ t \in DOMAIN d.kind /\ t \notin Read /\ d.flow = "ise" /\ at = {}
      /\ Builds(d, rd, G) /\ DOMAIN rd.kind = Read /\ Kills(d, rd, Read)
      /\ gathered = << >> /\ GroupsFit(G) /\ ProgressFits(G)
  BY DEF Feeding, Feeds, Read, ReadTile
<1>2. /\ d' = d /\ tiles' = tiles \ {t} /\ groups' = groups /\ wire2node' = wire2node
      /\ gathered' = gathered /\ rd' = AddTile(t) /\ at' = {<<t, w>> : w \in DOMAIN d.wires[t]}
  BY DEF ReadTile
<1>3. Read' = Read \cup {t}
  BY <1>1, <1>2 DEF Read, Feeding
<1>4. Builds(d, rd', G) /\ Kills(d, rd', Read) /\ DOMAIN rd'.kind = Read \cup {t}
  BY <1>1, <1>2, AddTileBuilds DEF AddTile
<1>5. Kills(d, rd', Read \cup {t})
  <2>1. ASSUME NEW w \in DOMAIN d.wires[t] PROVE d.net[<<t, w>>] # {}
    BY <1>1, DumpFacts, ListedIs
  <2> QED
    BY <2>1, <1>4 DEF Kills
<1>6. \A q : Processed(q)' <=> Processed(q)
  <2> TAKE q
  <2>1. CASE q \in Listed(d)
    <3>1. q = <<q[1], q[2]>> /\ q[2] \in DOMAIN d.wires[q[1]]
      BY <2>1, ListedPair
    <3>2. q[1] = t => q \in at'
      BY <3>1, <1>2
    <3>3. q \in at' => q[1] = t
      BY <1>2
    <3> QED
      BY <2>1, <3>2, <3>3, <1>1, <1>2 DEF Processed
  <2>2. CASE q \notin Listed(d)
    BY <2>2, <1>2 DEF Processed
  <2> QED
    BY <2>1, <2>2
<1>7. GroupsFit(G)'
  <2>1. \A i : Members(i)' = Members(i)
    BY <1>2 DEF Members
  <2> QED
    BY <2>1, <1>1, <1>2, <1>6 DEF GroupsFit
<1>8. at' \subseteq Listed(d) /\ \A p \in at' : p[1] = t
  BY <1>1, <1>2, ListedIs
<1>9. ProgressFits(G)'
  BY <1>1, <1>2, <1>6, <1>8 DEF ProgressFits
<1>10. Feeds(G)'
  BY <1>1, <1>2, <1>3, <1>4, <1>5, <1>7, <1>9 DEF Feeds
<1> QED
  BY <1>2, <1>10 DEF Feeding

\* A wire that lists no other is a node of its own.
LEMMA AloneIs ==
    ASSUME NEW d \in Dumps, NEW p \in Listed(d), d.conns[p] = {}, d.flow = "ise"
    PROVE  d.net[p] = {p}
<1>1. p \in DOMAIN d.net /\ d.net[p] # {} /\ p \in d.net[p]
  BY DumpFacts
<1>2. Linked(d, p) = {}
  <2> SUFFICES ASSUME NEW q \in Listed(d), p \in d.conns[q] PROVE FALSE
    BY DumpFacts DEF Linked
  <2> QED
    BY DumpsFit
<1>3. \A q \in {p} : Linked(d, q) \subseteq {p} /\ (q \in Listed(d) => d.conns[q] \subseteq {p})
  BY <1>2
<1>4. {p} \in SUBSET d.net[p]
  BY <1>1
<1>5. \A S \in SUBSET d.net[p] :
        (p \in S /\ \A q \in S : Linked(d, q) \subseteq S
                             /\ (q \in Listed(d) => d.conns[q] \subseteq S))
        => S = d.net[p]
  BY <1>1, DumpsFit
<1> QED
  BY <1>3, <1>4, <1>5

\* A wire without connections is given at once as the node it is.
LEMMA SingleWireFeeds ==
    ASSUME NEW G, Feeding(G), NEW p \in at, SingleWire(p)
    PROVE  Feeding(G \cup {{p}})'
<1> DEFINE d == dump
           n == {p}
<1>1. /\ d \in Dumps /\ Builds(d, rd, G) /\ DOMAIN rd.kind = Read /\ Kills(d, rd, Read)
      /\ G \subseteq Nets(d) /\ tiles \subseteq DOMAIN d.kind
  BY DEF Feeding, Feeds
<1>2. d.flow = "ise" /\ gathered = << >> /\ GroupsFit(G) /\ ProgressFits(G)
  BY DumpFacts DEF Feeding, Feeds
<1>3. /\ d' = d /\ tiles' = tiles /\ groups' = groups /\ wire2node' = wire2node /\ Read' = Read
      /\ gathered' = gathered /\ at' = at \ {p} /\ d.conns[p] = {}
      /\ rd' = add_node(rd, {NodeWire(p[1], p[2])})
  BY DEF SingleWire, Read
<1>4. p \in Listed(d) /\ p[1] \notin tiles /\ ~ Processed(p)
  BY <1>2 DEF ProgressFits, Processed
<1>5. p = <<p[1], p[2]>> /\ p[1] \in DOMAIN d.kind /\ p[2] \in DOMAIN d.wires[p[1]] /\ p \in DOMAIN d.net
  BY <1>1, <1>4, ListedPair, DumpFacts
<1>6. d.net[p] = {p}
  BY <1>1, <1>2, <1>3, <1>4, AloneIs
<1>7. n \in Nets(d)
  BY <1>5, <1>6 DEF Nets
<1>8. n \notin G
  BY <1>2, <1>4 DEF ProgressFits
<1>9. GivenAs(d, n) = {NodeWire(p[1], p[2])}
  BY <1>4 DEF GivenAs, NodeWire, Speed
<1>10. CanTake(rd, n)
  <2>1. p[1] \in DOMAIN rd.kind
    BY <1>1, <1>4, <1>5 DEF Read
  <2>2. p[2] \in DOMAIN Wires(rd, p[1])
    BY <2>1, <1>1, <1>5 DEF Builds, Shape
  <2> QED
    BY <2>1, <2>2 DEF CanTake
<1>11. Builds(d, rd', G \cup {n}) /\ Kills(d, rd', Read) /\ rd'.kind = rd.kind
  <2> HIDE DEF n
  <2>1. rd' = add_node(rd, GivenAs(d, n))
    BY <1>3, <1>9
  <2>2. Read \in SUBSET DOMAIN rd.kind
    BY <1>1
  <2> QED
    BY <2>1, <2>2, <1>1, <1>7, <1>8, <1>10, AddNodeBuilds
<1>12. \A q : Processed(q)' <=> Processed(q) \/ q = p
  BY <1>3, <1>4 DEF Processed
<1>13. p \notin DOMAIN wire2node
  <2> SUFFICES ASSUME p \in DOMAIN wire2node PROVE FALSE
    OBVIOUS
  <2> DEFINE i == wire2node[p]
  <2>1. i \in DOMAIN groups /\ p \in Members(i)
    BY <1>2 DEF GroupsFit
  <2> HIDE DEF i
  <2>2. p \notin DOMAIN groups[i].seen
    BY <2>1, <1>2, <1>4 DEF GroupsFit
  <2>3. p \in groups[i].unseen
    BY <2>1, <2>2 DEF Members
  <2>4. PICK q \in DOMAIN groups[i].seen : TRUE
    BY <2>1, <2>3, <1>2 DEF GroupsFit, Empty
  <2>5. q \in Members(i) /\ Processed(q)
    BY <2>1, <2>4, <1>2 DEF GroupsFit, Members
  <2>6. d.net[q] = d.net[p]
    BY <2>1, <2>5, <1>2 DEF GroupsFit
  <2>7. q \in d.net[q]
    BY <2>5, <2>6, <1>1, <1>6, DumpFacts DEF Processed
  <2> QED
    BY <2>5, <2>6, <2>7, <1>4, <1>6
<1>14. GroupsFit(G \cup {n})'
  <2>1. \A i : Members(i)' = Members(i)
    BY <1>3 DEF Members
  <2>2. ASSUME NEW i \in DOMAIN groups, NEW q \in groups[i].unseen
        PROVE  q # p
    <3>1. q \in DOMAIN wire2node
      BY <2>2, <1>2 DEF GroupsFit, Members
    <3> QED
      BY <3>1, <1>13
  <2> QED
    BY <2>1, <2>2, <1>2, <1>3, <1>12 DEF GroupsFit
<1>15. ProgressFits(G \cup {n})'
  BY <1>2, <1>3, <1>6, <1>12, <1>13 DEF ProgressFits
<1>16. Feeds(G \cup {n})'
  BY <1>1, <1>2, <1>3, <1>11, <1>14, <1>15 DEF Feeds
<1> QED
  BY <1>1, <1>3, <1>7, <1>16 DEF Feeding
\* What process_wire(p) does: the groups H of p and of the wires p lists become group i, with
\* the wires D that were looked at and the wires U that were not; it is a node if U is empty.
Merges(p, i, H, D, U) ==
    /\ i \in H /\ DOMAIN groups' = DOMAIN groups \cup H
    /\ Len(groups') \in Nat /\ DOMAIN groups' = 1..Len(groups')
    /\ p \in D /\ D \cap U = {}
    /\ \A q \in D \cup U : q \in DOMAIN dump.net /\ dump.net[q] = dump.net[p]
    /\ \A q \in D : (Processed(q) \/ q = p) /\ dump.conns[q] \subseteq D \cup U
    /\ \A q \in U : ~ Processed(q)
    /\ \A q \in DOMAIN wire2node : q \in D \cup U <=> wire2node[q] \in H
    /\ \A k \in DOMAIN groups \ H : groups'[k] = groups[k]
    /\ \A k \in H \ {i} : groups'[k] = Empty
    /\ \A q \in DOMAIN wire2node \ (D \cup U) :
            q \in DOMAIN wire2node' /\ wire2node'[q] = wire2node[q]
    /\ IF U = {}
       THEN /\ groups'[i] = Empty /\ DOMAIN wire2node' = DOMAIN wire2node \ D
            /\ rd' = add_node(rd, GivenAs(dump, D))
       ELSE /\ groups'[i] = [seen |-> [q \in D |-> Speed(dump, q)], unseen |-> U]
            /\ DOMAIN wire2node' = DOMAIN wire2node \cup D \cup U
            /\ \A q \in D \cup U : wire2node'[q] = i
            /\ rd' = rd

\* A wire that is still to be looked at, of a node that was not given.
LEMMA ToLookAt ==
    ASSUME NEW G, Feeding(G), NEW p \in at
    PROVE  /\ dump \in Dumps /\ dump.flow = "ise" /\ GroupsFit(G) /\ ProgressFits(G)
           /\ p \in Listed(dump) /\ p \in DOMAIN dump.net /\ p \in dump.net[p]
           /\ p[1] \notin tiles /\ ~ Processed(p)
           /\ dump.net[p] \notin G /\ dump.net[p] \in Nets(dump)
           /\ dump.conns[p] \subseteq dump.net[p]
<1>1. /\ dump \in Dumps /\ dump.flow = "ise" /\ GroupsFit(G) /\ ProgressFits(G)
  BY DumpFacts DEF Feeding, Feeds
<1>2. p \in Listed(dump) /\ p[1] \notin tiles /\ ~ Processed(p)
  BY <1>1 DEF ProgressFits, Processed
<1>3. p \in DOMAIN dump.net /\ dump.net[p] # {}
  BY <1>1, <1>2, DumpFacts
<1>4. p \in dump.net[p] /\ dump.net[p] \in Nets(dump)
  BY <1>1, <1>3, MemberOfNet
<1>5. dump.net[p] \notin G
  BY <1>1, <1>2, <1>4 DEF ProgressFits
<1>6. dump.conns[p] \subseteq dump.net[p]
  BY <1>1, <1>2, <1>3, DumpsFit
<1> QED
  BY <1>1, <1>2, <1>3, <1>4, <1>5, <1>6

\* Looking at a wire merges the nodes of the wires it mentions.
LEMMA MergeIs ==
    ASSUME NEW G, Feeding(G), NEW p \in at, process_wire(p)
    PROVE  \E i, H, D, U : Merges(p, i, H, D, U)
<1> DEFINE d == dump
           mentioned == {p} \cup d.conns[p]
           wnodes == {wire2node[q] : q \in mentioned \cap DOMAIN wire2node}
<1>1. /\ d \in Dumps /\ GroupsFit(G) /\ ProgressFits(G)
      /\ p \in Listed(d) /\ p \in DOMAIN d.net /\ p \in d.net[p] /\ ~ Processed(p)
      /\ d.net[p] \notin G /\ d.conns[p] \subseteq d.net[p]
  BY ToLookAt
<1>2. PICK i \in (IF wnodes = {} THEN NewIndex ELSE wnodes) :
        LET others == wnodes \ {i}
            old == IF i \in DOMAIN groups THEN groups[i] ELSE Empty
            holds(q) == {o \in others : q \in DOMAIN groups[o].seen}
            nseen == [q \in {p} \cup UNION {DOMAIN groups[o].seen : o \in others} |->
                        IF holds(q) = {} THEN d.wires[p[1]][p[2]]
                        ELSE groups[CHOOSE o \in holds(q) : TRUE].seen[q]]
            wwires == mentioned \cup UNION {groups[o].unseen : o \in others}
            seen == Over(nseen, old.seen)
            unseen == (old.unseen \cup wwires) \ DOMAIN seen
            g == [seen |-> seen, unseen |-> unseen]
            left == [k \in DOMAIN groups \cup {i} |->
                        IF k \in others \/ (k = i /\ unseen = {}) THEN Empty
                        ELSE IF k = i THEN g ELSE groups[k]]
            owned == Over([q \in unseen \cup DOMAIN nseen |-> i], wire2node)
        IN  /\ groups' = left
            /\ IF unseen = {}
               THEN /\ wire2node' = Restrict(owned, DOMAIN owned \ DOMAIN seen)
                    /\ rd' = add_node(rd, GroupWires(g))
               ELSE wire2node' = owned /\ rd' = rd
  BY Zenon DEF process_wire
<1> DEFINE others == wnodes \ {i}
           old == IF i \in DOMAIN groups THEN groups[i] ELSE Empty
           holds(q) == {o \in others : q \in DOMAIN groups[o].seen}
           nseen == [q \in {p} \cup UNION {DOMAIN groups[o].seen : o \in others} |->
                        IF holds(q) = {} THEN d.wires[p[1]][p[2]]
                        ELSE groups[CHOOSE o \in holds(q) : TRUE].seen[q]]
           wwires == mentioned \cup UNION {groups[o].unseen : o \in others}
           seen == Over(nseen, old.seen)
           unseen == (old.unseen \cup wwires) \ DOMAIN seen
           g == [seen |-> seen, unseen |-> unseen]
           left == [k \in DOMAIN groups \cup {i} |->
                        IF k \in others \/ (k = i /\ unseen = {}) THEN Empty
                        ELSE IF k = i THEN g ELSE groups[k]]
           owned == Over([q \in unseen \cup DOMAIN nseen |-> i], wire2node)
           H == others \cup {i}
           D == DOMAIN seen
<1>3. /\ groups' = left
      /\ unseen = {} => /\ wire2node' = Restrict(owned, DOMAIN owned \ DOMAIN seen)
                        /\ rd' = add_node(rd, GroupWires(g))
      /\ unseen # {} => wire2node' = owned /\ rd' = rd
  BY <1>2, Zenon
<1> HIDE DEF g, left, owned
\* The groups that are merged.
<1>4. \A k \in wnodes : k \in DOMAIN groups /\ \E q \in mentioned : q \in Members(k)
  BY <1>1 DEF GroupsFit
<1>5. \A k \in DOMAIN groups : \A q \in Members(k) : q \in DOMAIN wire2node /\ wire2node[q] = k
  BY <1>1 DEF GroupsFit
<1>6. Len(groups) \in Nat /\ DOMAIN groups = 1..Len(groups)
  BY <1>1 DEF GroupsFit
<1>7. \/ i \in wnodes
      \/ wnodes = {} /\ i \in DOMAIN groups /\ groups[i] = Empty
      \/ wnodes = {} /\ i = Len(groups) + 1 /\ i \notin DOMAIN groups
  BY <1>6 DEF NewIndex, Free
<1> HIDE DEF wnodes
<1>8. others \subseteq DOMAIN groups /\ i \notin others /\ wnodes \subseteq H
  BY <1>4
<1>9. DOMAIN Empty.seen = {} /\ Empty.unseen = {}
  BY DEF Empty
<1> HIDE DEF others
<1>10. \A k \in DOMAIN groups \cap H : k \in wnodes \/ Members(k) = {}
  BY <1>7, <1>8, <1>9 DEF Members, others
<1>11. DOMAIN old.seen \cup old.unseen = IF i \in DOMAIN groups THEN Members(i) ELSE {}
  BY <1>9 DEF Members
\* What is seen of the merged group.
<1>12. DOMAIN nseen = {p} \cup UNION {DOMAIN groups[o].seen : o \in others}
  OBVIOUS
<1>13. ASSUME NEW q \in DOMAIN nseen PROVE nseen[q] = Speed(d, q)
  <2>1. nseen[q] = IF holds(q) = {} THEN d.wires[p[1]][p[2]]
                   ELSE groups[CHOOSE o \in holds(q) : TRUE].seen[q]
    BY <1>13
  <2>2. CASE holds(q) = {}
    <3>1. q = p
      BY <2>2, <1>12, <1>13
    <3> HIDE DEF nseen, holds
    <3> QED
      BY <2>1, <2>2, <3>1, <1>1 DEF Speed
  <2>3. CASE holds(q) # {}
    <3> DEFINE o == CHOOSE o \in holds(q) : TRUE
    <3>1. o \in holds(q)
      BY <2>3
    <3>2. nseen[q] = groups[o].seen[q]
      <4> HIDE DEF nseen, holds
      <4> QED
        BY <2>1, <2>3
    <3> HIDE DEF o, nseen
    <3>3. o \in others /\ q \in DOMAIN groups[o].seen
      BY <3>1
    <3> QED
      BY <3>2, <3>3, <1>1, <1>8 DEF GroupsFit
  <2> QED
    BY <2>2, <2>3
<1> HIDE DEF nseen
<1>14. /\ D = DOMAIN nseen \cup DOMAIN old.seen
       /\ \A q \in DOMAIN nseen : seen[q] = nseen[q]
       /\ \A q \in DOMAIN old.seen \ DOMAIN nseen : seen[q] = old.seen[q]
  <2> HIDE DEF old
  <2>1. /\ DOMAIN Over(nseen, old.seen) = DOMAIN nseen \cup DOMAIN old.seen
        /\ \A q \in DOMAIN nseen : Over(nseen, old.seen)[q] = nseen[q]
        /\ \A q \in DOMAIN old.seen \ DOMAIN nseen : Over(nseen, old.seen)[q] = old.seen[q]
    BY OverIs, Zenon
  <2> QED
    BY <2>1
<1>15. i \in DOMAIN groups => old = groups[i]
  OBVIOUS
<1>16. i \notin DOMAIN groups => DOMAIN old.seen = {} /\ old.unseen = {}
  BY <1>9
<1> HIDE DEF old, seen
<1>17. \A q \in D : seen[q] = Speed(d, q)
  <2>1. \A q \in DOMAIN old.seen : old.seen[q] = Speed(d, q)
    BY <1>1, <1>15, <1>16 DEF GroupsFit
  <2> QED
    BY <2>1, <1>13, <1>14
<1> DEFINE S == UNION {DOMAIN groups[o].seen : o \in others}
           W == UNION {groups[o].unseen : o \in others}
           M == mentioned \cup (S \cup W) \cup (DOMAIN old.seen \cup old.unseen)
<1>18. \A q : q \in S \cup W <=> \E o \in others : q \in Members(o)
  BY DEF Members
<1>19. unseen = (old.unseen \cup (mentioned \cup W)) \ D
  OBVIOUS
<1> HIDE DEF D, unseen, S, W
<1>20. D = {p} \cup S \cup DOMAIN old.seen
  <2>1. D = DOMAIN nseen \cup DOMAIN old.seen
    BY <1>14, Zenon
  <2>2. DOMAIN nseen = {p} \cup S
    BY <1>12, Zenon DEF S
  <2> QED
    BY <2>1, <2>2
<1>20a. D \cup unseen = M /\ D \cap unseen = {} /\ p \in D
  BY <1>19, <1>20
<1>20b. \A q : q \in M <=>
                \/ q \in mentioned
                \/ \E o \in others : q \in Members(o)
                \/ i \in DOMAIN groups /\ q \in Members(i)
  <2>1. \A q : q \in DOMAIN old.seen \cup old.unseen <=> i \in DOMAIN groups /\ q \in Members(i)
    BY <1>11
  <2> DEFINE O == DOMAIN old.seen \cup old.unseen
             SW == S \cup W
  <2>2. M = mentioned \cup SW \cup O
    OBVIOUS
  <2> HIDE DEF mentioned, O, SW, M
  <2>3. \A q : q \in M <=> q \in mentioned \/ q \in SW \/ q \in O
    BY <2>2
  <2> QED
    BY <2>1, <2>3, <1>18 DEF O, SW
<1> HIDE DEF M
<1>21. ASSUME NEW q \in M
       PROVE  \/ q \in mentioned
              \/ \E k \in DOMAIN groups \cap H : q \in Members(k)
  <2> HIDE DEF mentioned
  <2> QED
    BY <1>8, <1>20b, <1>21
<1>22. ASSUME NEW k \in DOMAIN groups \cap H, NEW q \in Members(k)
       PROVE  q \in M
  <2> HIDE DEF mentioned
  <2>1. CASE k = i
    BY <2>1, <1>20b
  <2>2. CASE k \in others
    BY <2>2, <1>20b
  <2> QED
    BY <2>1, <2>2
<1>23. ASSUME NEW k \in DOMAIN groups \cap H, NEW q \in Members(k)
       PROVE  q \in DOMAIN d.net /\ d.net[q] = d.net[p]
  <2>1. k \in wnodes
    BY <1>10, <1>23
  <2>2. PICK r \in mentioned : r \in Members(k)
    BY <2>1, <1>4
  <2>3. r \in d.net[p]
    BY <1>1
  <2>4. r \in DOMAIN d.net /\ d.net[r] = d.net[p]
    BY <2>3, <1>1, DumpFacts
  <2>5. d.net[q] = d.net[r]
    BY <2>2, <1>1, <1>23 DEF GroupsFit
  <2>6. q \in DOMAIN d.net
    BY <1>1, <1>23, DumpFacts DEF GroupsFit, Members, Processed
  <2> QED
    BY <2>4, <2>5, <2>6
<1>24. \A q \in M : q \in DOMAIN d.net /\ d.net[q] = d.net[p]
  <2>1. \A q \in mentioned : q \in DOMAIN d.net /\ d.net[q] = d.net[p]
    <3>1. \A q \in mentioned : q \in d.net[p]
      BY <1>1
    <3> QED
      BY <3>1, <1>1, DumpFacts
  <2> HIDE DEF M, mentioned, H
  <2> QED
    BY <2>1, <1>21, <1>23
<1>25. ASSUME NEW q \in DOMAIN wire2node
       PROVE  q \in M <=> wire2node[q] \in H
  <2> DEFINE k == wire2node[q]
  <2>1. k \in DOMAIN groups /\ q \in Members(k)
    BY <1>1 DEF GroupsFit
  <2>2. ASSUME k \in H PROVE q \in M
    <3> HIDE DEF M, k, H
    <3> QED
      BY <2>1, <2>2, <1>22
  <2>3. ASSUME q \in M PROVE k \in H
    <3>1. CASE q \in mentioned
      BY <3>1, <1>8 DEF wnodes
    <3>2. CASE \E j \in DOMAIN groups \cap H : q \in Members(j)
      BY <3>2, <1>5
    <3> QED
      BY <2>3, <3>1, <3>2, <1>21
  <2> QED
    BY <2>2, <2>3
<1>26. ASSUME NEW q \in D
       PROVE  (Processed(q) \/ q = p) /\ d.conns[q] \subseteq M
  <2>1. CASE q = p
    <3>1. \A r \in d.conns[p] : r \in mentioned
      OBVIOUS
    <3> HIDE DEF mentioned
    <3> QED
      BY <2>1, <3>1, <1>20b
  <2>2. CASE \E k \in DOMAIN groups \cap H : q \in DOMAIN groups[k].seen
    <3>1. PICK k \in DOMAIN groups \cap H : q \in DOMAIN groups[k].seen
      BY <2>2
    <3>2. Processed(q) /\ d.conns[q] \subseteq Members(k)
      BY <3>1, <1>1 DEF GroupsFit
    <3> HIDE DEF M, H
    <3> QED
      BY <3>2, <1>22
  <2> QED
    BY <2>1, <2>2, <1>8, <1>15, <1>16, <1>20, <1>26 DEF S
<1>27. ASSUME NEW q \in unseen
       PROVE  ~ Processed(q)
  <2> SUFFICES ASSUME Processed(q) PROVE FALSE
    OBVIOUS
  <2>1. \A k \in DOMAIN groups \cap H : q \notin Members(k)
    <3> SUFFICES ASSUME NEW k \in DOMAIN groups \cap H, q \in Members(k) PROVE FALSE
      OBVIOUS
    <3>1. q \notin groups[k].unseen
      BY <1>1 DEF GroupsFit
    <3>2. q \in DOMAIN groups[k].seen
      BY <3>1 DEF Members
    <3>3. q \in D
      BY <3>2, <1>8, <1>15, <1>20 DEF S
    <3> QED
      BY <3>3, <1>20a
  <2>2. q \in M /\ q \in mentioned
    BY <2>1, <1>20a, <1>21
  <2>3. d.net[q] \notin G
    BY <2>2, <1>1, <1>24
  <2>4. q \in DOMAIN wire2node
    BY <2>3, <1>1 DEF ProgressFits, Processed
  <2>5. wire2node[q] \in H /\ wire2node[q] \in DOMAIN groups /\ q \in Members(wire2node[q])
    <3> HIDE DEF M, H
    <3> QED
      BY <2>2, <2>4, <1>1, <1>25 DEF GroupsFit
  <2> QED
    BY <2>1, <2>5
\* The groups after.
<1>28. /\ DOMAIN groups' = DOMAIN groups \cup H
       /\ \A k \in DOMAIN groups \ H : groups'[k] = groups[k]
       /\ \A k \in H \ {i} : groups'[k] = Empty
       /\ groups'[i] = IF unseen = {} THEN Empty ELSE g
       /\ groups' = [k \in DOMAIN groups' |-> groups'[k]]
  <2>1. /\ DOMAIN left = DOMAIN groups \cup {i}
        /\ \A k \in DOMAIN left :
                left[k] = IF k \in others \/ (k = i /\ unseen = {}) THEN Empty
                          ELSE IF k = i THEN g ELSE groups[k]
        /\ left = [k \in DOMAIN left |-> left[k]]
    BY DEF left
  <2> QED
    BY <2>1, <1>3, <1>8
<1>29. Len(groups') \in Nat /\ DOMAIN groups' = 1..Len(groups')
  <2>1. DOMAIN groups' = 1..Len(groups) \/ DOMAIN groups' = 1..(Len(groups) + 1)
    <3>1. i \in DOMAIN groups \/ i = Len(groups) + 1
      BY <1>4, <1>7
    <3>2. DOMAIN groups' = DOMAIN groups \cup {i}
      BY <1>8, <1>28
    <3> QED
      BY <3>1, <3>2, <1>6
  <2>2. PICK n \in Nat : DOMAIN groups' = 1..n
    BY <2>1, <1>6
  <2>3. groups' = [k \in 1..n |-> groups'[k]]
    BY <2>2, <1>28
  <2>4. Len(groups') = n
    BY <2>3, LenIs
  <2> QED
    BY <2>2, <2>4
<1>30. g = [seen |-> [q \in D |-> Speed(d, q)], unseen |-> unseen]
  <2>1. seen = [q \in D |-> seen[q]]
    BY DEF seen, D, Over
  <2>2. seen = [q \in D |-> Speed(d, q)]
    BY <2>1, <1>17
  <2> QED
    BY <2>2 DEF g
\* The groups of wires after.
<1>31. /\ DOMAIN owned = DOMAIN wire2node \cup M
       /\ \A q \in M : owned[q] = i
       /\ \A q \in DOMAIN wire2node \ M : owned[q] = wire2node[q]
  <2> DEFINE new == [q \in unseen \cup DOMAIN nseen |-> i]
  <2>1. DOMAIN new = unseen \cup DOMAIN nseen /\ \A q \in unseen \cup DOMAIN nseen : new[q] = i
    OBVIOUS
  <2>2. owned = Over(new, wire2node)
    BY DEF owned
  <2> HIDE DEF new
  <2>3. /\ DOMAIN owned = DOMAIN new \cup DOMAIN wire2node
        /\ \A q \in DOMAIN new : owned[q] = new[q]
        /\ \A q \in DOMAIN wire2node \ DOMAIN new : owned[q] = wire2node[q]
    <3>1. /\ DOMAIN Over(new, wire2node) = DOMAIN new \cup DOMAIN wire2node
          /\ \A q \in DOMAIN new : Over(new, wire2node)[q] = new[q]
          /\ \A q \in DOMAIN wire2node \ DOMAIN new : Over(new, wire2node)[q] = wire2node[q]
      BY OverIs, Zenon
    <3> QED
      BY <3>1, <2>2
  <2>4. M = DOMAIN new \cup DOMAIN old.seen
    <3>1. D = DOMAIN nseen \cup DOMAIN old.seen
      BY <1>14, Zenon DEF D
    <3> QED
      BY <2>1, <3>1, <1>20a
  <2>5. \A q \in DOMAIN old.seen : q \in DOMAIN wire2node /\ wire2node[q] = i
    BY <1>5, <1>15, <1>16 DEF Members
  <2> QED
    BY <2>1, <2>3, <2>4, <2>5
<1>32. ASSUME unseen = {}
       PROVE  /\ DOMAIN wire2node' = DOMAIN wire2node \ D
              /\ \A q \in DOMAIN wire2node \ M : q \in DOMAIN wire2node' /\ wire2node'[q] = wire2node[q]
              /\ rd' = add_node(rd, GivenAs(d, D))
  <2>1. M = D
    BY <1>20a, <1>32
  <2>2. wire2node' = Restrict(owned, DOMAIN owned \ D) /\ rd' = add_node(rd, GroupWires(g))
    BY <1>3, <1>32 DEF D
  <2>3. /\ DOMAIN wire2node' = DOMAIN owned \ D
        /\ \A q \in DOMAIN owned \ D : wire2node'[q] = owned[q]
    BY <2>2 DEF Restrict
  <2>4. GroupWires(g) = GivenAs(d, D)
    <3> DEFINE f == [q \in D |-> Speed(d, q)]
    <3>1. DOMAIN f = D /\ \A q \in D : f[q] = Speed(d, q)
      OBVIOUS
    <3>2. g.seen = f /\ g.unseen = {}
      BY <1>30, <1>32
    <3> HIDE DEF f
    <3>3. GroupWires(g) = {[tile |-> q[1], wire |-> q[2], speed |-> f[q]] : q \in D}
      BY <3>1, <3>2 DEF GroupWires
    <3> QED
      BY <3>1, <3>3 DEF GivenAs
  <2>5. DOMAIN wire2node' = DOMAIN wire2node \ D
    BY <2>1, <2>3, <1>31
  <2>6. ASSUME NEW q \in DOMAIN wire2node \ M
        PROVE  q \in DOMAIN wire2node' /\ wire2node'[q] = wire2node[q]
    BY <2>1, <2>3, <2>6, <1>31
  <2> QED
    BY <2>2, <2>4, <2>5, <2>6
<1>33. ASSUME unseen # {}
       PROVE  /\ DOMAIN wire2node' = DOMAIN wire2node \cup M
              /\ \A q \in M : wire2node'[q] = i
              /\ \A q \in DOMAIN wire2node \ M : q \in DOMAIN wire2node' /\ wire2node'[q] = wire2node[q]
              /\ rd' = rd
  BY <1>3, <1>31, <1>33
<1>34. d.conns[p] \subseteq M
  BY <1>20b
<1>35. /\ i \in H /\ DOMAIN groups' = DOMAIN groups \cup H
       /\ Len(groups') \in Nat /\ DOMAIN groups' = 1..Len(groups')
       /\ p \in D /\ D \cap unseen = {}
       /\ \A k \in DOMAIN groups \ H : groups'[k] = groups[k]
       /\ \A k \in H \ {i} : groups'[k] = Empty
  BY <1>20a, <1>28, <1>29
<1> HIDE DEF H
<1>36. /\ \A q \in D \cup unseen : q \in DOMAIN d.net /\ d.net[q] = d.net[p]
       /\ \A q \in D : (Processed(q) \/ q = p) /\ d.conns[q] \subseteq D \cup unseen
       /\ \A q \in unseen : ~ Processed(q)
       /\ \A q \in DOMAIN wire2node : q \in D \cup unseen <=> wire2node[q] \in H
       /\ \A q \in DOMAIN wire2node \ (D \cup unseen) :
            q \in DOMAIN wire2node' /\ wire2node'[q] = wire2node[q]
  <2>1. D \cup unseen = M
    BY <1>20a
  <2>2. \A q \in DOMAIN wire2node \ M : q \in DOMAIN wire2node' /\ wire2node'[q] = wire2node[q]
    BY <1>32, <1>33
  <2>3. \A q \in DOMAIN wire2node : q \in M <=> wire2node[q] \in H
    BY <1>25
  <2> QED
    BY <2>1, <2>2, <2>3, <1>24, <1>26, <1>27, Zenon
<1>37. IF unseen = {}
       THEN /\ groups'[i] = Empty /\ DOMAIN wire2node' = DOMAIN wire2node \ D
            /\ rd' = add_node(rd, GivenAs(d, D))
       ELSE /\ groups'[i] = [seen |-> [q \in D |-> Speed(d, q)], unseen |-> unseen]
            /\ DOMAIN wire2node' = DOMAIN wire2node \cup D \cup unseen
            /\ \A q \in D \cup unseen : wire2node'[q] = i
            /\ rd' = rd
  <2>1. CASE unseen = {}
    BY <2>1, <1>28, <1>32
  <2>2. CASE unseen # {}
    <3>1. groups'[i] = [seen |-> [q \in D |-> Speed(d, q)], unseen |-> unseen]
      BY <2>2, <1>28, <1>30
    <3>2. DOMAIN wire2node' = DOMAIN wire2node \cup (D \cup unseen)
      BY <2>2, <1>20a, <1>33
    <3>3. \A q \in D \cup unseen : wire2node'[q] = i
      BY <2>2, <1>20a, <1>33
    <3> QED
      BY <2>2, <3>1, <3>2, <3>3, <1>33
  <2> QED
    BY <2>1, <2>2
<1>38. Merges(p, i, H, D, unseen)
  BY <1>35, <1>36, <1>37, Zenon DEF Merges
<1> QED
  BY <1>38
\* The wires that are connected are the wires of a node, when all of them were looked at.
LEMMA WholeNet ==
    ASSUME NEW d \in Dumps, NEW p \in DOMAIN d.net, NEW S \in SUBSET d.net[p], p \in S,
           \A q \in S : Linked(d, q) \subseteq S /\ (q \in Listed(d) => d.conns[q] \subseteq S)
    PROVE  S = d.net[p]
<1>1. \A T \in SUBSET d.net[p] :
        (p \in T /\ \A q \in T : Linked(d, q) \subseteq T
                             /\ (q \in Listed(d) => d.conns[q] \subseteq T))
        => T = d.net[p]
  BY DumpsFit
<1> QED
  BY <1>1

\* A wire is looked at: what was seen and mentioned of its node is merged, and the node given
\* when that is all of it.
LEMMA ProcessWireFeeds ==
    ASSUME NEW G, Feeding(G), NEW p \in at, process_wire(p)
    PROVE  \E K \in SUBSET Nets(dump) : Feeding(K)'
<1> DEFINE d == dump
<1>0. PICK n : n = d.net[p]
  OBVIOUS
<1>1. /\ d \in Dumps /\ d.flow = "ise" /\ GroupsFit(G) /\ ProgressFits(G)
      /\ p \in Listed(d) /\ p \in DOMAIN d.net /\ p \in n
      /\ p[1] \notin tiles /\ ~ Processed(p) /\ n \notin G /\ n \in Nets(d)
  BY <1>0, ToLookAt
<1>2. /\ Builds(d, rd, G) /\ DOMAIN rd.kind = Read /\ Kills(d, rd, Read)
      /\ G \subseteq Nets(d) /\ tiles \subseteq DOMAIN d.kind /\ gathered = << >>
  BY <1>1 DEF Feeding, Feeds
<1>3. /\ d' = d /\ tiles' = tiles /\ Read' = Read /\ gathered' = gathered /\ at' = at \ {p}
  BY DEF process_wire, Read
<1>4. PICK i, H, D, U : Merges(p, i, H, D, U)
  BY MergeIs
<1> DEFINE M == D \cup U
<1>5. /\ i \in H /\ DOMAIN groups' = DOMAIN groups \cup H
      /\ Len(groups') \in Nat /\ DOMAIN groups' = 1..Len(groups')
      /\ p \in D /\ D \cap U = {}
      /\ \A q \in M : q \in DOMAIN d.net /\ d.net[q] = n
      /\ \A q \in D : (Processed(q) \/ q = p) /\ d.conns[q] \subseteq M
      /\ \A q \in U : ~ Processed(q)
      /\ \A q \in DOMAIN wire2node : q \in M <=> wire2node[q] \in H
      /\ \A k \in DOMAIN groups \ H : groups'[k] = groups[k]
      /\ \A k \in H \ {i} : groups'[k] = Empty
      /\ \A q \in DOMAIN wire2node \ M : q \in DOMAIN wire2node' /\ wire2node'[q] = wire2node[q]
  BY <1>0, <1>4 DEF Merges
<1>6. U = {} => /\ groups'[i] = Empty /\ DOMAIN wire2node' = DOMAIN wire2node \ D
                /\ rd' = add_node(rd, GivenAs(d, D))
  BY <1>4 DEF Merges
<1>7. U # {} => /\ groups'[i] = [seen |-> [q \in D |-> Speed(d, q)], unseen |-> U]
                /\ DOMAIN wire2node' = DOMAIN wire2node \cup D \cup U
                /\ \A q \in M : wire2node'[q] = i
                /\ rd' = rd
  BY <1>4 DEF Merges
<1>8. \A q : Processed(q)' <=> Processed(q) \/ q = p
  BY <1>1, <1>3 DEF Processed
<1>9. DOMAIN Empty.seen = {} /\ Empty.unseen = {} /\ Empty = [seen |-> Empty.seen, unseen |-> Empty.unseen]
  BY DEF Empty
<1> HIDE DEF M
\* The groups that are not merged.
<1>10. ASSUME NEW k \in DOMAIN groups \ H
       PROVE  /\ Members(k)' = Members(k)
              /\ \A q \in Members(k) : q \notin M /\ q # p /\ q \in DOMAIN wire2node'
                                       /\ wire2node'[q] = k
  <2>1. Members(k)' = Members(k)
    BY <1>5 DEF Members
  <2>2. ASSUME NEW q \in Members(k) PROVE q \in DOMAIN wire2node /\ wire2node[q] = k
    BY <1>1 DEF GroupsFit
  <2>3. ASSUME NEW q \in Members(k) PROVE q \notin M
    BY <2>2, <1>5
  <2>4. p \in M
    BY <1>5 DEF M
  <2> QED
    BY <2>1, <2>2, <2>3, <2>4, <1>5
\* No wire of a node that was given is merged.
<1>11. ASSUME NEW m \in G, NEW q \in m PROVE q \notin M
  <2>1. d.net[q] = m
    BY <1>1, <1>2, NetOfMember
  <2> QED
    BY <2>1, <1>1, <1>5
\* Every group is as it should be.
<1>12. ASSUME NEW k \in DOMAIN groups'
       PROVE  /\ groups'[k] = [seen |-> groups'[k].seen, unseen |-> groups'[k].unseen]
              /\ groups'[k] = Empty \/ (groups'[k].unseen # {} /\ DOMAIN groups'[k].seen # {})
              /\ \A q \in DOMAIN groups'[k].seen :
                    /\ Processed(q)' /\ groups'[k].seen[q] = Speed(d, q)
                    /\ d.conns[q] \subseteq Members(k)'
              /\ \A q \in groups'[k].unseen : q \in DOMAIN d.net /\ ~ Processed(q)'
              /\ \A q \in Members(k)' : q \in DOMAIN wire2node' /\ wire2node'[q] = k
              /\ \A q, r \in Members(k)' : d.net[q] = d.net[r]
  <2>1. CASE groups'[k] = Empty
    <3>1. Members(k)' = {}
      BY <2>1, <1>9 DEF Members
    <3> QED
      BY <2>1, <3>1, <1>9
  <2>2. CASE k = i /\ U # {}
    <3> DEFINE f == [q \in D |-> Speed(d, q)]
    <3>1. DOMAIN f = D /\ \A q \in D : f[q] = Speed(d, q)
      OBVIOUS
    <3>2. groups'[k] = [seen |-> f, unseen |-> U]
      BY <2>2, <1>7
    <3> HIDE DEF f
    <3>3. groups'[k].seen = f /\ groups'[k].unseen = U
      BY <3>2
    <3>4. Members(k)' = M
      BY <3>1, <3>3 DEF Members, M
    <3>5. \A q \in M : q \in DOMAIN wire2node' /\ wire2node'[q] = k
      BY <2>2, <1>7 DEF M
    <3>6. \A q \in U : q \in DOMAIN d.net /\ ~ Processed(q)'
      BY <1>5, <1>8 DEF M
    <3> QED
      BY <2>2, <3>1, <3>2, <3>3, <3>4, <3>5, <3>6, <1>5, <1>8
  <2>3. CASE k \in DOMAIN groups \ H
    <3>1. groups'[k] = groups[k] /\ Members(k)' = Members(k)
      BY <2>3, <1>5, <1>10
    <3>2. \A q \in groups[k].unseen : q # p
      BY <2>3, <1>10 DEF Members
    <3> QED
      BY <2>3, <3>1, <3>2, <1>1, <1>8, <1>10 DEF GroupsFit
  <2> QED
    BY <2>1, <2>2, <2>3, <1>5, <1>6
<1>13. ASSUME NEW q \in DOMAIN wire2node'
       PROVE  \E k \in DOMAIN groups' : wire2node'[q] = k /\ q \in Members(k)'
  <2>1. CASE q \in M
    <3>1. U # {}
      BY <2>1, <1>6 DEF M
    <3>2. wire2node'[q] = i /\ groups'[i] = [seen |-> [r \in D |-> Speed(d, r)], unseen |-> U]
      BY <2>1, <3>1, <1>7
    <3>3. Members(i)' = M
      BY <3>2 DEF Members, M
    <3> QED
      BY <2>1, <3>2, <3>3, <1>5
  <2>2. CASE q \notin M
    <3>1. q \in DOMAIN wire2node
      BY <2>2, <1>6, <1>7 DEF M
    <3>2. wire2node[q] \notin H /\ wire2node'[q] = wire2node[q]
      BY <2>2, <3>1, <1>5
    <3>3. wire2node[q] \in DOMAIN groups /\ q \in Members(wire2node[q])
      BY <3>1, <1>1 DEF GroupsFit
    <3> QED
      BY <3>1, <3>2, <3>3, <1>5, <1>10
  <2> QED
    BY <2>1, <2>2
<1>13a. \A q \in DOMAIN wire2node' :
            /\ wire2node'[q] \in DOMAIN groups'
            /\ q \in DOMAIN groups'[wire2node'[q]].seen \cup groups'[wire2node'[q]].unseen
  BY <1>13 DEF Members
<1>14. ASSUME NEW K PROVE GroupsFit(K)'
  <2>1. \A q \in DOMAIN wire2node' : (wire2node[q] \in DOMAIN groups /\ q \in Members(wire2node[q]))'
    BY <1>13a DEF Members
  <2>2. ASSUME NEW k \in DOMAIN groups'
        PROVE  /\ groups'[k] = [seen |-> groups'[k].seen, unseen |-> groups'[k].unseen]
               /\ groups'[k] = Empty \/ (groups'[k].unseen # {} /\ DOMAIN groups'[k].seen # {})
               /\ \A q \in DOMAIN groups'[k].seen :
                    /\ Processed(q)' /\ groups'[k].seen[q] = Speed(dump', q)
                    /\ dump'.conns[q] \subseteq Members(k)'
               /\ \A q \in groups'[k].unseen : q \in DOMAIN dump'.net /\ ~ Processed(q)'
               /\ \A q \in Members(k)' : q \in DOMAIN wire2node' /\ wire2node'[q] = k
               /\ \A q, r \in Members(k)' : dump'.net[q] = dump'.net[r]
    BY <1>3, <1>12
  <2>3. Len(groups') \in Nat /\ DOMAIN groups' = 1..Len(groups')
    BY <1>5
  <2> QED
    BY <2>1, <2>2, <2>3, Zenon DEF GroupsFit
<1>15. at' \subseteq Listed(d) /\ \A q \in at' : q[1] \notin tiles
  BY <1>1, <1>3 DEF ProgressFits
<1>16. CASE U # {}
  <2>1. ProgressFits(G)'
    <3>1. ASSUME NEW q \in Listed(d), Processed(q)' PROVE d.net[q] \in G \/ q \in DOMAIN wire2node'
      BY <3>1, <1>1, <1>5, <1>7, <1>8, <1>16 DEF ProgressFits
    <3>2. ASSUME NEW m \in G, NEW q \in m
          PROVE  q \notin DOMAIN wire2node' /\ (q \in Listed(d) => Processed(q)')
      <4>1. q \notin M
        BY <1>11
      <4> QED
        BY <4>1, <1>1, <1>7, <1>8, <1>16 DEF ProgressFits, M
    <3> QED
      BY <3>1, <3>2, <1>3, <1>15 DEF ProgressFits
  <2>2. Feeds(G)'
    BY <2>1, <1>1, <1>2, <1>3, <1>7, <1>14, <1>16 DEF Feeds
  <2> QED
    BY <2>2, <1>1, <1>2, <1>3 DEF Feeding
<1>17. CASE U = {}
  <2>1. M = D
    BY <1>17 DEF M
  <2>2. \A q \in D : q \in Listed(d) /\ q[1] \notin tiles
    BY <1>1, <1>5 DEF Processed
  <2>3. D \in SUBSET n
    <3> SUFFICES ASSUME NEW q \in D PROVE q \in n
      OBVIOUS
    <3>1. q \in DOMAIN d.net /\ d.net[q] = n
      BY <2>1, <1>5
    <3> QED
      BY <3>1, <1>1, DumpFacts
  <2>4. ASSUME NEW q \in D PROVE Linked(d, q) \subseteq D /\ d.conns[q] \subseteq D
    <3>1. d.conns[q] \subseteq D
      BY <2>1, <1>5
    <3>2. ASSUME NEW r \in Listed(d), q \in d.conns[r] PROVE r \in d.conns[q]
      <4>1. q \in d.conns[r] \cap Listed(d)
        BY <3>2, <2>2
      <4> QED
        BY <4>1, <1>1, DumpsFit
    <3>3. Linked(d, q) \subseteq D
      BY <3>1, <3>2, <1>1, DumpFacts DEF Linked
    <3> QED
      BY <3>1, <3>3
  <2>5. D = n
    BY <2>3, <2>4, <1>0, <1>1, <1>5, WholeNet
  <2>6. CanTake(rd, n)
    <3> SUFFICES ASSUME NEW q \in n
                 PROVE  q[1] \in DOMAIN rd.kind /\ q[2] \in DOMAIN Wires(rd, q[1])
      BY DEF CanTake
    <3>1. q[1] \in DOMAIN d.kind /\ q[2] \in DOMAIN d.wires[q[1]]
      BY <2>2, <2>5, ListedPair
    <3>2. q[1] \in DOMAIN rd.kind
      BY <2>2, <2>5, <3>1, <1>2 DEF Read
    <3> QED
      BY <3>1, <3>2, <1>2 DEF Builds, Shape
  <2>7. Builds(d, rd', G \cup {n}) /\ Kills(d, rd', Read) /\ rd'.kind = rd.kind
    <3>1. rd' = add_node(rd, GivenAs(d, n))
      BY <2>5, <1>6, <1>17
    <3>2. Read \in SUBSET DOMAIN rd.kind
      BY <1>2
    <3> QED
      BY <3>1, <3>2, <2>6, <1>1, <1>2, AddNodeBuilds
  <2>8. ProgressFits(G \cup {n})'
    <3>1. ASSUME NEW q \in Listed(d), Processed(q)'
          PROVE  d.net[q] \in G \cup {n} \/ q \in DOMAIN wire2node'
      <4>1. q = p \/ d.net[q] \in G \/ q \in DOMAIN wire2node
        BY <3>1, <1>1, <1>8 DEF ProgressFits
      <4>2. q \in D => d.net[q] = n
        BY <2>1, <1>5
      <4> QED
        BY <4>1, <4>2, <1>0, <1>6, <1>17
    <3>2. ASSUME NEW m \in G, NEW q \in m
          PROVE  q \notin DOMAIN wire2node' /\ (q \in Listed(d) => Processed(q)')
      BY <1>1, <1>6, <1>8, <1>17 DEF ProgressFits
    <3>3. ASSUME NEW q \in n
          PROVE  q \notin DOMAIN wire2node' /\ (q \in Listed(d) => Processed(q)')
      BY <2>5, <1>5, <1>6, <1>8, <1>17
    <3> QED
      BY <3>1, <3>2, <3>3, <1>3, <1>15 DEF ProgressFits
  <2>9. Feeds(G \cup {n})'
    <3> QED
      BY <2>7, <2>8, <1>1, <1>2, <1>3, <1>14 DEF Feeds
  <2> QED
    BY <2>9, <1>1, <1>2, <1>3 DEF Feeding
<1> QED
  BY <1>16, <1>17
\* When every tile was read and looked at, a group that is left is a whole node.
LEMMA FinishNodeFeeds ==
    ASSUME NEW G, Feeding(G), NEW i \in DOMAIN groups, finish_node(i)
    PROVE  \E K \in SUBSET Nets(dump) : Feeding(K)'
<1> DEFINE d == dump
           M == Members(i)
<1>1. /\ d \in Dumps /\ d.flow = "ise" /\ tiles = {} /\ at = {} /\ Read = DOMAIN d.kind
      /\ groups[i] # Empty
  BY DEF Feeding, finish_node, Free, Read
<1>2. /\ Builds(d, rd, G) /\ DOMAIN rd.kind = Read /\ Kills(d, rd, Read) /\ G \subseteq Nets(d)
      /\ gathered = << >> /\ GroupsFit(G) /\ ProgressFits(G)
  BY <1>1 DEF Feeding, Feeds
<1>3. /\ d' = d /\ tiles' = tiles /\ at' = at /\ gathered' = gathered /\ Read' = Read
      /\ rd' = add_node(rd, GroupWires(groups[i]))
      /\ wire2node' = Restrict(wire2node, {q \in DOMAIN wire2node : wire2node[q] # i})
      /\ groups' = [groups EXCEPT ![i] = Empty]
  BY DEF finish_node, Read
<1>4. \A q : Processed(q) <=> q \in Listed(d)
  BY <1>1, ListedPair DEF Processed
<1>5. \A q : Processed(q)' <=> Processed(q)
  BY <1>3 DEF Processed
<1>6. PICK p \in DOMAIN groups[i].seen : TRUE
  BY <1>1, <1>2 DEF GroupsFit
<1>7. PICK n : n = d.net[p]
  OBVIOUS
<1>8. p \in M /\ p \in Listed(d) /\ p \in DOMAIN d.net /\ p \in n /\ n \in Nets(d)
  <2>1. p \in M /\ p \in Listed(d)
    BY <1>2, <1>4, <1>6 DEF GroupsFit, Members
  <2>2. p \in DOMAIN d.net /\ d.net[p] # {}
    BY <2>1, <1>1, DumpFacts
  <2> QED
    BY <2>1, <2>2, <1>1, <1>7, MemberOfNet
<1>9. \A q \in M : q \in DOMAIN wire2node /\ wire2node[q] = i
  BY <1>2 DEF GroupsFit
<1>10. \A q \in M : q \in DOMAIN d.net /\ d.net[q] = n
  <2>1. \A q \in M : q \in DOMAIN d.net
    BY <1>1, <1>2, <1>4, DumpFacts DEF GroupsFit, Members
  <2>2. \A q \in M : d.net[q] = d.net[p]
    BY <1>2, <1>8 DEF GroupsFit
  <2> QED
    BY <2>1, <2>2, <1>7
<1>11. n \notin G
  BY <1>2, <1>8, <1>9 DEF ProgressFits
<1>12. M \in SUBSET n
  BY <1>1, <1>8, <1>10, DumpFacts DEF Nets
<1>13. \A q \in M : (q \in DOMAIN groups[i].seen <=> q \in Listed(d)) /\ (q \in groups[i].unseen <=> q \notin Listed(d))
  BY <1>2, <1>4 DEF GroupsFit, Members
<1>14. ASSUME NEW q \in M, q \in Listed(d) PROVE d.conns[q] \subseteq M
  BY <1>2, <1>13, <1>14 DEF GroupsFit
<1>15. ASSUME NEW q \in M, NEW r \in Listed(d), q \in d.conns[r] PROVE r \in M
  <2>1. r \in DOMAIN d.net /\ d.net[r] # {}
    BY <1>1, DumpFacts
  <2>2. q \in d.net[r]
    BY <2>1, <1>1, <1>15, DumpsFit
  <2>3. d.net[r] = n
    BY <2>1, <2>2, <1>1, <1>10, DumpFacts
  <2>4. r \in DOMAIN wire2node
    BY <2>3, <1>2, <1>4, <1>11 DEF ProgressFits
  <2> DEFINE k == wire2node[r]
  <2>5. k \in DOMAIN groups /\ r \in Members(k)
    BY <2>4, <1>2 DEF GroupsFit
  <2> HIDE DEF k
  <2>6. r \in DOMAIN groups[k].seen
    BY <2>5, <1>2, <1>4 DEF GroupsFit, Members
  <2>7. q \in Members(k)
    BY <2>5, <2>6, <1>2, <1>15 DEF GroupsFit
  <2>8. k = i
    BY <2>5, <2>7, <1>2, <1>9 DEF GroupsFit
  <2> QED
    BY <2>5, <2>8
<1>16. M = n
  <2>1. \A q \in M : Linked(d, q) \subseteq M /\ (q \in Listed(d) => d.conns[q] \subseteq M)
    BY <1>14, <1>15, <1>1, DumpFacts DEF Linked
  <2> HIDE DEF M
  <2> QED
    BY <2>1, <1>1, <1>7, <1>8, <1>12, WholeNet
<1>17. GroupWires(groups[i]) = GivenAs(d, n)
  <2> DEFINE gv(q) == [tile |-> q[1], wire |-> q[2], speed |-> Speed(d, q)]
             g == groups[i]
  <2>1. \A q \in g.unseen : Speed(d, q) = NoSpeed
    BY <1>13 DEF Members, Speed
  <2>2. \A q \in DOMAIN g.seen : g.seen[q] = Speed(d, q)
    BY <1>2 DEF GroupsFit
  <2>3. n = g.unseen \cup DOMAIN g.seen
    BY <1>16 DEF Members
  <2> HIDE DEF g
  <2>4. GroupWires(g) = {gv(q) : q \in g.unseen} \cup {gv(q) : q \in DOMAIN g.seen}
    BY <2>1, <2>2 DEF GroupWires
  <2>5. GivenAs(d, n) = {gv(q) : q \in n}
    BY DEF GivenAs
  <2> HIDE DEF gv
  <2> QED
    BY <2>3, <2>4, <2>5 DEF g
<1>18. CanTake(rd, n)
  <2> SUFFICES ASSUME NEW q \in n
               PROVE  q[1] \in DOMAIN rd.kind /\ q[2] \in DOMAIN Wires(rd, q[1])
    BY DEF CanTake
  <2>1. \A u \in DOMAIN d.kind : rd.kind[u] = d.kind[u] /\ DOMAIN d.wires[u] \subseteq DOMAIN Wires(rd, u)
    BY <1>1, <1>2 DEF Builds, Shape
  <2>2. CASE q \in Listed(d)
    BY <2>1, <2>2, <1>1, <1>2, ListedPair
  <2>3. CASE q \notin Listed(d)
    <3>1. q \in DOMAIN d.net \ Listed(d)
      BY <2>3, <1>10, <1>16
    <3>2. PICK t, u \in DOMAIN d.kind :
            q = <<t, q[2]>> /\ d.kind[u] = d.kind[t] /\ <<u, q[2]>> \in Listed(d)
      BY <3>1, <1>1, DumpsFit, Zenon
    <3>3. q[1] = t
      BY <3>2
    <3>4. q[2] \in DOMAIN d.wires[u]
      BY <3>2, ListedIs
    <3>5. Wires(rd, t) = Wires(rd, u)
      BY <2>1, <3>2 DEF Wires
    <3>6. q[2] \in DOMAIN Wires(rd, t) /\ t \in DOMAIN rd.kind
      BY <2>1, <3>2, <3>4, <3>5, <1>1, <1>2
    <3> QED
      BY <3>3, <3>6
  <2> QED
    BY <2>2, <2>3
<1>19. Builds(d, rd', G \cup {n}) /\ Kills(d, rd', Read) /\ rd'.kind = rd.kind
  <2>1. rd' = add_node(rd, GivenAs(d, n))
    BY <1>3, <1>17
  <2>2. Read \in SUBSET DOMAIN rd.kind
    BY <1>2
  <2>3. d \in Dumps /\ Builds(d, rd, G) /\ Kills(d, rd, Read) /\ n \in Nets(d) /\ n \notin G
    BY <1>1, <1>2, <1>8, <1>11
  <2> QED
    BY <2>1, <2>2, <2>3, <1>18, AddNodeBuilds
<1>20. /\ DOMAIN wire2node' = DOMAIN wire2node \ M
       /\ \A q \in DOMAIN wire2node \ M : wire2node'[q] = wire2node[q]
  <2>1. \A q \in DOMAIN wire2node : wire2node[q] = i <=> q \in M
    BY <1>2, <1>9 DEF GroupsFit
  <2>2. {q \in DOMAIN wire2node : wire2node[q] # i} = DOMAIN wire2node \ M
    BY <2>1
  <2> HIDE DEF M
  <2> QED
    BY <2>2, <1>3 DEF Restrict
<1>21. /\ DOMAIN groups' = DOMAIN groups /\ groups'[i] = Empty
       /\ \A k \in DOMAIN groups \ {i} : groups'[k] = groups[k] /\ Members(k)' = Members(k)
       /\ Members(i)' = {}
  BY <1>3 DEF Members, Empty
<1>22. Len(groups') \in Nat /\ DOMAIN groups' = 1..Len(groups')
  <2>1. Len(groups) \in Nat /\ DOMAIN groups = 1..Len(groups)
    BY <1>2 DEF GroupsFit
  <2>2. groups' = [k \in 1..Len(groups) |-> groups'[k]]
    BY <2>1, <1>3
  <2> QED
    BY <2>1, <2>2, <1>21, LenIs
<1>23. \A k \in DOMAIN groups \ {i} : \A q \in Members(k) : q \in DOMAIN wire2node \ M /\ wire2node[q] = k
  <2>1. \A k \in DOMAIN groups : \A q \in Members(k) : q \in DOMAIN wire2node /\ wire2node[q] = k
    BY <1>2 DEF GroupsFit
  <2> QED
    BY <2>1
<1> HIDE DEF M
<1>24. ASSUME NEW K PROVE GroupsFit(K)'
  <2>1. \A q \in DOMAIN wire2node' : (wire2node[q] \in DOMAIN groups /\ q \in Members(wire2node[q]))'
    <3> SUFFICES ASSUME NEW q \in DOMAIN wire2node'
                 PROVE  /\ wire2node'[q] \in DOMAIN groups'
                        /\ q \in DOMAIN groups'[wire2node'[q]].seen \cup groups'[wire2node'[q]].unseen
      BY DEF Members
    <3>1. q \in DOMAIN wire2node \ M /\ wire2node'[q] = wire2node[q]
      BY <1>20
    <3>2. wire2node[q] \in DOMAIN groups /\ q \in Members(wire2node[q])
      BY <3>1, <1>2 DEF GroupsFit
    <3>3. wire2node[q] # i
      BY <3>1, <3>2 DEF M
    <3> QED
      BY <3>1, <3>2, <3>3, <1>21 DEF Members
  <2>2. ASSUME NEW k \in DOMAIN groups'
        PROVE  /\ groups'[k] = [seen |-> groups'[k].seen, unseen |-> groups'[k].unseen]
               /\ groups'[k] = Empty \/ (groups'[k].unseen # {} /\ DOMAIN groups'[k].seen # {})
               /\ \A q \in DOMAIN groups'[k].seen :
                    /\ Processed(q)' /\ groups'[k].seen[q] = Speed(dump', q)
                    /\ dump'.conns[q] \subseteq Members(k)'
               /\ \A q \in groups'[k].unseen : q \in DOMAIN dump'.net /\ ~ Processed(q)'
               /\ \A q \in Members(k)' : q \in DOMAIN wire2node' /\ wire2node'[q] = k
               /\ \A q, r \in Members(k)' : dump'.net[q] = dump'.net[r]
    <3>1. CASE k = i
      <4>1. /\ DOMAIN Empty.seen = {} /\ Empty.unseen = {}
            /\ Empty = [seen |-> Empty.seen, unseen |-> Empty.unseen]
        BY DEF Empty
      <4> QED
        BY <3>1, <4>1, <1>21
    <3>2. CASE k # i
      <4>1. k \in DOMAIN groups \ {i} /\ groups'[k] = groups[k] /\ Members(k)' = Members(k)
        BY <3>2, <1>21
      <4>2. /\ groups[k] = [seen |-> groups[k].seen, unseen |-> groups[k].unseen]
            /\ groups[k] = Empty \/ (groups[k].unseen # {} /\ DOMAIN groups[k].seen # {})
            /\ \A q \in DOMAIN groups[k].seen :
                 /\ Processed(q) /\ groups[k].seen[q] = Speed(dump, q)
                 /\ dump.conns[q] \subseteq Members(k)
            /\ \A q \in groups[k].unseen : q \in DOMAIN dump.net /\ ~ Processed(q)
            /\ \A q, r \in Members(k) : dump.net[q] = dump.net[r]
        BY <4>1, <1>2 DEF GroupsFit
      <4>3. \A q \in Members(k) : q \in DOMAIN wire2node' /\ wire2node'[q] = k
        BY <4>1, <1>20, <1>23
      <4> QED
        BY <4>1, <4>2, <4>3, <1>3, <1>5
    <3> QED
      BY <3>1, <3>2
  <2> QED
    BY <2>1, <2>2, <1>22, Zenon DEF GroupsFit
<1>25. ProgressFits(G \cup {n})'
  <2>1. ASSUME NEW q \in Listed(d), Processed(q)'
        PROVE  d.net[q] \in G \cup {n} \/ q \in DOMAIN wire2node'
    BY <2>1, <1>2, <1>5, <1>10, <1>20 DEF ProgressFits
  <2>2. ASSUME NEW m \in G \cup {n}, NEW q \in m
        PROVE  q \notin DOMAIN wire2node' /\ (q \in Listed(d) => Processed(q)')
    BY <1>2, <1>4, <1>5, <1>16, <1>20 DEF ProgressFits
  <2> QED
    BY <2>1, <2>2, <1>1, <1>3 DEF ProgressFits
<1>26. Feeds(G \cup {n})'
  BY <1>1, <1>2, <1>3, <1>19, <1>24, <1>25 DEF Feeds
<1> QED
  BY <1>1, <1>2, <1>3, <1>8, <1>26 DEF Feeding

\* At the end, every node of the dump was given.
LEMMA AllGiven ==
    ASSUME NEW G, Feeding(G), Done
    PROVE  Whole(dump, rd)
<1> DEFINE d == dump
<1>1. /\ d \in Dumps /\ tiles = {} /\ at = {} /\ Read = DOMAIN d.kind /\ gathered = << >>
      /\ Free = DOMAIN groups /\ G \subseteq Nets(d)
  BY DEF Feeding, Done, Read
<1>2. /\ Builds(d, rd, G) /\ DOMAIN rd.kind = Read /\ Kills(d, rd, Read)
  BY DEF Feeding, Feeds
<1>3. Nets(d) \subseteq G
  <2>1. CASE d.flow = "vivado"
    <3>1. GatheredFits(G) /\ DOMAIN d.net = Listed(d)
      BY <2>1, <1>1, DumpFacts DEF Feeding, Feeds
    <3>2. {d.net[q] : q \in {r \in Listed(d) : r[1] \in Read}} \ (G \cup {{}}) = {}
      BY <3>1, <1>1 DEF GatheredFits
    <3>3. \A q \in Listed(d) : q[1] \in Read
      BY <1>1, ListedPair
    <3> QED
      BY <3>1, <3>2, <3>3 DEF Nets
  <2>2. CASE d.flow # "vivado"
    <3>1. GroupsFit(G) /\ ProgressFits(G) /\ d.flow = "ise"
      BY <2>2, <1>1, DumpFacts DEF Feeding, Feeds
    <3>2. ASSUME NEW q \in DOMAIN wire2node PROVE FALSE
      <4> DEFINE k == wire2node[q]
      <4>1. k \in DOMAIN groups /\ q \in Members(k)
        BY <3>1 DEF GroupsFit
      <4> HIDE DEF k
      <4>2. groups[k] = Empty
        BY <4>1, <1>1 DEF Free
      <4> QED
        BY <4>1, <4>2 DEF Members, Empty
    <3>3. \A q \in Listed(d) : d.net[q] \in G
      <4>1. \A q \in Listed(d) : Processed(q)
        BY <1>1 DEF Processed
      <4> QED
        BY <4>1, <3>1, <3>2 DEF ProgressFits
    <3>4. ASSUME NEW p \in DOMAIN d.net \ Listed(d) PROVE d.net[p] \in G
      <4>1. PICK q \in Listed(d) : p \in d.conns[q]
        BY <3>4, <1>1, DumpsFit DEF Linked
      <4>2. p \in d.net[q] /\ q \in DOMAIN d.net
        BY <4>1, <1>1, DumpsFit
      <4>3. d.net[p] = d.net[q]
        BY <4>2, <1>1, DumpFacts
      <4> QED
        BY <4>3, <3>3
    <3> QED
      BY <3>3, <3>4 DEF Nets
  <2> QED
    BY <2>1, <2>2
<1>4. G = Nets(d)
  BY <1>1, <1>3
<1> QED
  BY <1>1, <1>2, <1>4 DEF Whole

(***************************************************************************)
(* The invariant, and the theorems                                         *)
(***************************************************************************)
\* The invariant holds at first, and every step keeps it.
LEMMA DumpInitial == Init => DumpInv
<1> SUFFICES ASSUME Init PROVE DumpInv
  OBVIOUS
<1>1. Feeding({})
  BY InitFeeds
<1>2. {} \in SUBSET Nets(dump) /\ pc = "dump" /\ dump \in Dumps /\ tiles = DOMAIN dump.kind
  BY DEF Init
<1> QED
  BY <1>1, <1>2 DEF DumpInv, Feeding

\* Every step keeps the invariant.
LEMMA DumpStep == DumpInv /\ [Next]_vars => DumpInv'
<1> SUFFICES ASSUME DumpInv, [Next]_vars PROVE DumpInv'
  OBVIOUS
<1>1. ASSUME NEW K \in SUBSET Nets(dump), Feeding(K)', pc' = "dump" PROVE DumpInv'
  <2>1. dump' \in Dumps /\ tiles' \subseteq DOMAIN dump'.kind /\ K \subseteq Nets(dump') /\ Feeds(K)'
    BY <1>1 DEF Feeding
  <2>2. pc' # "done"
    BY <1>1
  <2> QED
    BY <2>1, <2>2, <1>1, Zenon DEF DumpInv
<1>2. ASSUME pc = "dump" PROVE \E G : Feeding(G)
  BY <1>2 DEF DumpInv, Feeding
<1>3. ASSUME NEW t \in tiles, dump_tile(t) PROVE DumpInv'
  <2>1. pc = "dump" /\ pc' = "dump" /\ dump' = dump
    BY <1>3 DEF dump_tile
  <2>2. PICK G : Feeding(G)
    BY <2>1, <1>2
  <2>3. Feeding(G)'
    BY <2>2, <1>3, DumpTileFeeds
  <2>4. G \in SUBSET Nets(dump)
    BY <2>2 DEF Feeding
  <2> QED
    BY <2>1, <2>3, <2>4, <1>1
<1>4. ASSUME NEW t \in tiles, ReadTile(t) PROVE DumpInv'
  <2>1. pc = "dump" /\ pc' = "dump" /\ dump' = dump
    BY <1>4 DEF ReadTile
  <2>2. PICK G : Feeding(G)
    BY <2>1, <1>2
  <2>3. Feeding(G)'
    BY <2>2, <1>4, ReadTileFeeds
  <2>4. G \in SUBSET Nets(dump)
    BY <2>2 DEF Feeding
  <2> QED
    BY <2>1, <2>3, <2>4, <1>1
<1>5. ASSUME NEW n \in DOMAIN gathered, StreamNode(n) PROVE DumpInv'
  <2>1. pc = "dump" /\ pc' = "dump" /\ dump' = dump
    BY <1>5 DEF StreamNode
  <2>2. PICK G : Feeding(G)
    BY <2>1, <1>2
  <2>3. Feeding(G \cup {n})'
    BY <2>2, <1>5, StreamNodeFeeds
  <2>4. G \cup {n} \in SUBSET Nets(dump)
    BY <2>1, <2>3 DEF Feeding
  <2> QED
    BY <2>1, <2>3, <2>4, <1>1
<1>6. ASSUME NEW p \in at, SingleWire(p) PROVE DumpInv'
  <2>1. pc = "dump" /\ pc' = "dump" /\ dump' = dump
    BY <1>6 DEF SingleWire
  <2>2. PICK G : Feeding(G)
    BY <2>1, <1>2
  <2>3. Feeding(G \cup {{p}})'
    BY <2>2, <1>6, SingleWireFeeds
  <2>4. G \cup {{p}} \in SUBSET Nets(dump)
    BY <2>1, <2>3 DEF Feeding
  <2> QED
    BY <2>1, <2>3, <2>4, <1>1
<1>7. ASSUME NEW p \in at, process_wire(p) PROVE DumpInv'
  <2>1. pc = "dump" /\ pc' = "dump"
    BY <1>7 DEF process_wire
  <2>2. PICK G : Feeding(G)
    BY <2>1, <1>2
  <2>3. \E K \in SUBSET Nets(dump) : Feeding(K)'
    BY <2>2, <1>7, ProcessWireFeeds
  <2> QED
    BY <2>1, <2>3, <1>1
<1>8. ASSUME NEW i \in DOMAIN groups, finish_node(i) PROVE DumpInv'
  <2>1. pc = "dump" /\ pc' = "dump"
    BY <1>8 DEF finish_node
  <2>2. PICK G : Feeding(G)
    BY <2>1, <1>2
  <2>3. \E K \in SUBSET Nets(dump) : Feeding(K)'
    BY <2>2, <1>8, FinishNodeFeeds
  <2> QED
    BY <2>1, <2>3, <1>1
<1>9. ASSUME Done PROVE DumpInv'
  <2>1. pc = "dump" /\ pc' = "done" /\ dump' = dump /\ tiles' = tiles /\ rd' = finish(rd)
    BY <1>9 DEF Done
  <2>2. PICK G : Feeding(G)
    BY <2>1, <1>2
  <2>3. dump \in Dumps /\ tiles \subseteq DOMAIN dump.kind
    BY DEF DumpInv
  <2>4. Faithful' /\ ClassesKept'
    BY <2>1, <2>2, <2>3, <1>9, AllGiven, DoneKeeps
  <2> QED
    BY <2>1, <2>3, <2>4 DEF DumpInv
<1>10. CASE UNCHANGED vars
  <2>1. /\ dump' = dump /\ rd' = rd /\ tiles' = tiles /\ at' = at /\ groups' = groups
        /\ wire2node' = wire2node /\ gathered' = gathered /\ pc' = pc
    BY <1>10 DEF vars
  <2>2. \A G : Feeds(G)' <=> Feeds(G)
    BY <2>1 DEF Feeds, Read, GatheredFits, GroupsFit, ProgressFits, Members, Processed
  <2>3. Faithful' <=> Faithful
    BY <2>1 DEF Faithful, KindWires, IsInternal, Stored, Given, Overtaken
  <2>4. ClassesKept' <=> ClassesKept
    BY <2>1 DEF ClassesKept, Live, ClassOf
  <2> QED
    BY <2>1, <2>2, <2>3, <2>4 DEF DumpInv
<1> QED
  BY <1>3, <1>4, <1>5, <1>6, <1>7, <1>8, <1>9, <1>10 DEF Next

\* Whatever order the tiles, wires and nodes come in: the builder holds, of the nodes given so
\* far, what the dump says of them.
THEOREM DumpInvariant == Spec => []DumpInv
BY DumpInitial, DumpStep, PTL DEF Spec

\* The part that is stored gives every wire the node the dump gave it, with the speeds of
\* its wires, except a wire of an ISE dump that a later tile of its kind overtook.
THEOREM PartFaithful == Spec => []Faithful
<1>1. DumpInv => Faithful
  BY DEF DumpInv, Faithful
<1> QED
  BY <1>1, DumpInvariant, PTL

\* The classes of the ends of a pip can be read back from the wires or from the pip.
THEOREM ClassesPreserved == Spec => []ClassesKept
<1>1. DumpInv => ClassesKept
  BY DEF DumpInv, ClassesKept
<1> QED
  BY <1>1, DumpInvariant, PTL
=============================================================================
