-------------------------------- MODULE WireTree -------------------------------
(***************************************************************************)
(* Wires over a grid of cells: ExpandedGrid of public/interconnect.        *)
(*                                                                         *)
(* The expansion of a chip adds tiles to an empty grid, joins cells by     *)
(* connectors, sets the roots of regions, links wires at the corners and   *)
(* calls finish.  From then on resolve_wire follows a wire to its root and *)
(* wire_tree collects the segments of a root; both walk the connectors,    *)
(* in opposite directions and by different tables.  The switches of the    *)
(* tiles are listed with the one and the other.                            *)
(*                                                                         *)
(* Which tiles and connectors there are is the choice of the expansion of  *)
(* a family.  What it must respect is in the guards of its actions and     *)
(* named below: nothing in the grid checks it.                             *)
(***************************************************************************)
EXTENDS Naturals, Sequences, SequencesExt, FiniteSets

CONSTANTS Cols, Rows,      \* the size of the die
          Wires,           \* the wire slots of the database ...
          Kind,            \* ... and their kinds, [k |-> "Branch", slot |-> ..]
          ConnClasses,     \* connector classes: [slot, wires], wires a function to [how, wire]
          Opposite,        \* the opposite of a connector slot
          RegionSlots,
          TileClasses,     \* tile classes: [slot, cells, pips], cells how many it spans
          MainPass,        \* the class MAIN.W .. MAIN.N of each of the slots W, E, S, N
          Sites,           \* the tiles an expansion may add: [anchor, class, cells]
          Required,        \* those it has added before it fills the main passes
          PairSites,       \* the cells it joins by hand and by which classes: [a, b, fwd, bwd]
          TermSites,       \* the cells it ends by hand and by which class: [cell, class]
          RootMaps,        \* the regions it may set: functions from cells to cells
          Corners,         \* the pairs of wires it links at the corners
          Dead,            \* the sets of wires it marks as going nowhere
          Depth,           \* for every wire, how many steps it may be from its root
          MaxConns,        \* how often it joins or ends cells by hand
          MaxLinks         \* how often it links corners

Cells == (1..Cols) \X (1..Rows)
NoCell == <<0, 0>>                 \* the target of a connector that ends here
NoWire == <<NoCell, "none">>       \* None of resolve_wire
WireCoords == Cells \X Wires

IsBranch(kind) == kind.k \in {"Branch", "MultiBranch"}
IsMulti(kind) == kind.k \in {"MultiOut", "MultiBranch"}

ASSUME SizesAssumption == Cols \in Nat /\ Rows \in Nat /\ IsFiniteSet(Wires)

\* A wire that a class maps is a branch of the slot of that class.
ASSUME BranchesAssumption ==
    \A n \in DOMAIN ConnClasses : \A w \in DOMAIN ConnClasses[n].wires :
        LET way == ConnClasses[n].wires[w] IN
        /\ w \in Wires /\ IsBranch(Kind[w]) /\ Kind[w].slot = ConnClasses[n].slot
        /\ way.how \in {"BlackHole", "Reflect", "Pass"} /\ way.wire \in Wires
        /\ way = [how |-> way.how, wire |-> way.wire]

\* The wires a regional wire of a cell may get are those of the cells of its region.
ASSUME RegionsAssumption ==
    /\ \A w \in Wires : Kind[w].k = "Regional" => Kind[w].slot \in RegionSlots
    /\ \A m \in RootMaps : m \in [Cells -> Cells] /\ \A c \in Cells : m[m[c]] = m[c]

\* Cells that are joined differ, and each is in the direction of a slot of the other;
\* the main passes join those of a line.
Opposed(fwd, bwd) ==
    /\ fwd \in DOMAIN ConnClasses /\ bwd \in DOMAIN ConnClasses
    /\ ConnClasses[bwd].slot = Opposite[ConnClasses[fwd].slot]
    /\ ConnClasses[fwd].slot = Opposite[ConnClasses[bwd].slot]
    /\ ConnClasses[fwd].slot # ConnClasses[bwd].slot

ASSUME OppositeAssumption ==
    /\ \A p \in PairSites : p.a \in Cells /\ p.b \in Cells /\ p.a # p.b /\ Opposed(p.fwd, p.bwd)
    /\ \A p \in TermSites : p.cell \in Cells /\ p.class \in DOMAIN ConnClasses
    /\ Opposed(MainPass["E"], MainPass["W"]) /\ Opposed(MainPass["N"], MainPass["S"])
    /\ \A s \in {"W", "E", "S", "N"} : ConnClasses[MainPass[s]].slot = s

\* A class put in cell a with target b leads every wire it maps nearer to its root:
\* otherwise resolve_wire would not return.
Ends(class, a, b) ==
    \A w \in DOMAIN ConnClasses[class].wires :
        LET way == ConnClasses[class].wires[w] IN
        /\ way.how = "Reflect" => Depth[<<a, way.wire>>] < Depth[<<a, w>>]
        /\ way.how = "Pass" => b # NoCell /\ Depth[<<b, way.wire>>] < Depth[<<a, w>>]

ASSUME DepthAssumption ==
    /\ Depth \in [WireCoords -> Nat]
    /\ \A p \in PairSites : Ends(p.fwd, p.a, p.b) /\ Ends(p.bwd, p.b, p.a)
    /\ \A p \in TermSites : Ends(p.class, p.cell, NoCell)
    /\ \A a, b \in Cells :
          /\ a[1] < b[1] /\ a[2] = b[2] => Ends(MainPass["E"], a, b) /\ Ends(MainPass["W"], b, a)
          /\ a[1] = b[1] /\ a[2] < b[2] => Ends(MainPass["N"], a, b) /\ Ends(MainPass["S"], b, a)

\* A tile spans as many cells as its class says, and its switches are of their wires.
ASSUME TilesAssumption ==
    \A t \in Sites :
        /\ t.class \in DOMAIN TileClasses
        /\ t.cells \in Seq(Cells)
        /\ \A p \in TileClasses[t.class].pips : \A end \in {p.in, p.out} :
              end = <<end[1], end[2]>> /\ end[1] \in 1..TileClasses[t.class].cells /\ end[2] \in Wires

\* What corners link are wires of the grid.
ASSUME CornersAssumption == \A p \in Corners : p[1] \in WireCoords /\ p[2] \in WireCoords

VARIABLES tiles,          \* the tiles: [anchor, class, cells]
          conns,          \* the connectors of each cell by slot: [class, target]
          region_root,    \* the root of each cell in each region slot
          extra_conns,    \* a one to one function from wires to wires
          blackhole_wires,
          region_root_cells, \* the index finish makes: by slot and root, the cells
          passed,         \* whether the main passes are filled
          calls,          \* how many connectors were made by hand
          links,          \* how often corners were linked
          phase           \* "tiles", "links" or "done"

vars == <<tiles, conns, region_root, extra_conns, blackhole_wires, region_root_cells,
          passed, calls, links, phase>>
gridVars == <<region_root, extra_conns, blackhole_wires, region_root_cells, links>>

-----------------------------------------------------------------------------
(* Looking things up.                                                      *)

Has(cell, slot) == slot \in DOMAIN conns[cell]

\* The tiles over a cell, with the number the cell has in each.
tile_index(cell) == UNION {{<<t, i>> : i \in {j \in DOMAIN t.cells : t.cells[j] = cell}} : t \in tiles}

tile_wire(t, tw) == <<t.cells[tw[1]], tw[2]>>

\* The wires a class takes from wire w of its own cell, and of the target's.
wire_ins(class, how, w) ==
    {wo \in DOMAIN ConnClasses[class].wires : ConnClasses[class].wires[wo] = [how |-> how, wire |-> w]}
wire_ins_near(class, w) == wire_ins(class, "Reflect", w)
wire_ins_far(class, w) == wire_ins(class, "Pass", w)

-----------------------------------------------------------------------------
(* From a wire to its root, and back.                                      *)

Conn(w) == conns[w[1]][Kind[w[2]].slot]
Way(w) == ConnClasses[Conn(w).class].wires[w[2]]

\* Whether the loop goes on from w, and where.
Led(w) ==
    /\ IsBranch(Kind[w[2]]) /\ Has(w[1], Kind[w[2]].slot)
    /\ w[2] \in DOMAIN ConnClasses[Conn(w).class].wires
Origin(w) == <<IF Way(w).how = "Reflect" THEN w[1] ELSE Conn(w).target, Way(w).wire>>

Upstream(w) ==
    LET up[v \in WireCoords] ==
            CASE Kind[v[2]].k = "Regional" -> <<region_root[v[1]][Kind[v[2]].slot], v[2]>>
              [] Led(v) -> IF Way(v).how = "BlackHole" THEN NoWire ELSE up[Origin(v)]
              [] OTHER -> v
    IN up[w]

resolve_wire(w) ==
    LET up == Upstream(w)
        over == IF up \in DOMAIN extra_conns THEN extra_conns[up] ELSE up
    IN IF over \in blackhole_wires THEN NoWire ELSE over

\* The wires one step further from the root than w.
Regions(w) ==
    IF Kind[w[2]].k = "Regional" /\ region_root[w[1]][Kind[w[2]].slot] = w[1]
    THEN {<<c, w[2]>> : c \in region_root_cells[Kind[w[2]].slot][w[1]] \ {w[1]}}
    ELSE {}
\* A mistake: the class looked up is that of the near end.
DownstreamNear(w) ==
    Regions(w) \cup UNION {
        LET conn == conns[w[1]][slot]
        IN {<<w[1], wt>> : wt \in wire_ins_near(conn.class, w[2])}
           \cup (IF conn.target = NoCell THEN {}
                 ELSE {<<conn.target, wt>> : wt \in wire_ins_far(conn.class, w[2])})
        : slot \in DOMAIN conns[w[1]]}
Downstream(w) ==
    Regions(w) \cup UNION {
        LET conn == conns[w[1]][slot]
        IN {<<w[1], wt>> : wt \in wire_ins_near(conn.class, w[2])}
           \cup (IF conn.target = NoCell THEN {}
                 ELSE {<<conn.target, wt>> :
                         wt \in wire_ins_far(conns[conn.target][Opposite[slot]].class, w[2])})
        : slot \in DOMAIN conns[w[1]]}

\* The loop over the queue; a list longer than the wires there are is given up.
Linked(w) == {x \in DOMAIN extra_conns : extra_conns[x] = w}

Visit(at) ==
    IF at.queue = <<>> THEN at
    ELSE [queue |-> Front(at.queue) \o SetToSeq(Downstream(Last(at.queue))),
          res |-> Append(at.res, Last(at.queue))]

wire_tree(w) ==
    LET walk[n \in 0..(Cardinality(WireCoords) + 1)] ==
            IF n = 0 THEN [queue |-> <<w>> \o SetToSeq(Linked(w)), res |-> <<>>] ELSE Visit(walk[n - 1])
    IN IF w \in blackhole_wires THEN <<>> ELSE walk[Cardinality(WireCoords) + 1].res

-----------------------------------------------------------------------------
(* Switches, from the wire they drive and from the wire that drives them.  *)

Pip(t, p, out, in) == [out |-> out, in |-> in, out_raw |-> tile_wire(t, p.out),
                       in_raw |-> tile_wire(t, p.in), tile |-> t]

\* A mistake: wires with many branches are looked at in one place only.
AtRoot(w) == IF Kind[w[2]].k = "MultiOut" THEN ToSet(wire_tree(w)) ELSE {w}
\* Where the drivers of a wire are looked for.
DrivenAt(w) == IF IsMulti(Kind[w[2]]) THEN ToSet(wire_tree(w)) ELSE {w}

wire_pips_bwd(w) ==
    UNION {UNION {{Pip(ti[1], p, w, resolve_wire(tile_wire(ti[1], p.in))) :
                     p \in {q \in TileClasses[ti[1].class].pips :
                              /\ q.out = <<ti[2], x[2]>>
                              /\ resolve_wire(tile_wire(ti[1], q.in)) # NoWire}}
                  : ti \in tile_index(x[1])} : x \in DrivenAt(w)}

wire_pips_fwd(w) ==
    UNION {UNION {{Pip(ti[1], p, resolve_wire(tile_wire(ti[1], p.out)), w) :
                     p \in {q \in TileClasses[ti[1].class].pips :
                              /\ q.in = <<ti[2], x[2]>>
                              /\ resolve_wire(tile_wire(ti[1], q.out)) # NoWire}}
                  : ti \in tile_index(x[1])} : x \in ToSet(wire_tree(w))}

-----------------------------------------------------------------------------
(* Building the grid.                                                      *)

Init ==
    /\ tiles = {} /\ conns = [c \in Cells |-> <<>>]
    /\ region_root = [c \in Cells |-> [r \in RegionSlots |-> c]]
    /\ extra_conns = <<>> /\ blackhole_wires = {}
    /\ region_root_cells = <<>>
    /\ passed = FALSE /\ calls = 0 /\ links = 0 /\ phase = "tiles"

\* Two tiles of one slot in one cell are refused.
add_tile(site) ==
    /\ phase = "tiles" /\ site \in Sites
    /\ Len(site.cells) = TileClasses[site.class].cells
    /\ \A t \in tiles : t.anchor = site.anchor
                          => TileClasses[t.class].slot # TileClasses[site.class].slot
    /\ tiles' = tiles \cup {site}
    /\ UNCHANGED <<conns, passed, calls, phase, gridVars>>

\* A connector is put in, whatever was there.
Put(cs, cell, class, target) ==
    LET slot == ConnClasses[class].slot IN
    [cs EXCEPT ![cell] = [s \in DOMAIN @ \cup {slot} |->
        IF s = slot THEN [class |-> class, target |-> target] ELSE @[s]]]

Joined(cs, a, b, fwd, bwd) == Put(Put(cs, a, fwd, b), b, bwd, a)

\* A caller joins cells only where there is no connector yet.
fill_conn_pair(a, b, fwd, bwd) ==
    /\ phase = "tiles" /\ calls < MaxConns
    /\ [a |-> a, b |-> b, fwd |-> fwd, bwd |-> bwd] \in PairSites
    /\ ~ Has(a, ConnClasses[fwd].slot) /\ ~ Has(b, ConnClasses[bwd].slot)
    /\ conns' = Joined(conns, a, b, fwd, bwd)
    /\ calls' = calls + 1
    /\ UNCHANGED <<tiles, passed, phase, gridVars>>

fill_conn_term(cell, class) ==
    /\ phase = "tiles" /\ calls < MaxConns
    /\ [cell |-> cell, class |-> class] \in TermSites /\ ~ Has(cell, ConnClasses[class].slot)
    /\ conns' = Put(conns, cell, class, NoCell)
    /\ calls' = calls + 1
    /\ UNCHANGED <<tiles, passed, phase, gridVars>>

\* One line of cells, from low to high: neighbours are joined over cells without tiles.
\* A mistake: a cell that has a connector already gets another.
PassLineOver(cs, line, low, high) ==
    LET pass[k \in 0..Len(line)] ==
            IF k = 0 THEN [conns |-> cs, prev |-> NoCell]
            ELSE LET at == pass[k - 1] cell == line[k] IN
                 IF \A t \in tiles : t.anchor # cell THEN at
                 ELSE [conns |-> IF at.prev = NoCell THEN at.conns
                                 ELSE Joined(at.conns, at.prev, cell, MainPass[high], MainPass[low]),
                       prev |-> IF high \in DOMAIN at.conns[cell] THEN NoCell ELSE cell]
    IN pass[Len(line)].conns

\* The loop's body.
Passed(at, cell, low, high) ==
    IF \A t \in tiles : t.anchor # cell THEN at
    ELSE [conns |-> IF at.prev = NoCell \/ low \in DOMAIN at.conns[cell] THEN at.conns
                    ELSE Joined(at.conns, at.prev, cell, MainPass[high], MainPass[low]),
          prev |-> IF high \in DOMAIN at.conns[cell] THEN NoCell ELSE cell]
PassLine(cs, line, low, high) ==
    LET pass[k \in 0..Len(line)] ==
            IF k = 0 THEN [conns |-> cs, prev |-> NoCell] ELSE Passed(pass[k - 1], line[k], low, high)
    IN pass[Len(line)].conns

RowLine(r) == [c \in 1..Cols |-> <<c, r>>]
ColumnLine(c) == [r \in 1..Rows |-> <<c, r>>]

Across(cs) ==
    LET rows[r \in 0..Rows] == IF r = 0 THEN cs ELSE PassLine(rows[r - 1], RowLine(r), "W", "E")
    IN rows[Rows]
UpAndDown(cs) ==
    LET cols[c \in 0..Cols] == IF c = 0 THEN cs ELSE PassLine(cols[c - 1], ColumnLine(c), "S", "N")
    IN cols[Cols]

fill_main_passes ==
    /\ phase = "tiles" /\ ~ passed /\ Required \subseteq tiles
    /\ conns' = UpAndDown(Across(conns))
    /\ passed' = TRUE
    /\ UNCHANGED <<tiles, calls, phase, gridVars>>

\* With the connectors in place, regions are set and corners linked.
SetRegions(r, m) ==
    /\ phase = "tiles" /\ passed /\ phase' = "links"
    /\ region_root' = [c \in Cells |-> [region_root[c] EXCEPT ![r] = m[c]]]
    /\ UNCHANGED <<tiles, conns, passed, calls, extra_conns, blackhole_wires, region_root_cells, links>>

\* Inserting into a one to one map drops the pairs either end was in.
insert(l, r) == [x \in {x \in DOMAIN extra_conns : x # l /\ extra_conns[x] # r} \cup {l} |->
                   IF x = l THEN r ELSE extra_conns[x]]

\* Both wires of a corner are followed and linked.  Lines that are linked
\* to others are nobody's target, and dead wires come last.
LinkCorner(h, v) ==
    LET wh == resolve_wire(h)
        wv == resolve_wire(v)
        Targets == {extra_conns[x] : x \in DOMAIN extra_conns}
    IN /\ phase = "links" /\ links < MaxLinks /\ blackhole_wires = {}
       /\ wh # NoWire /\ wv # NoWire /\ wh # wv
       /\ wh \notin Targets /\ wv \notin DOMAIN extra_conns
       /\ extra_conns' = insert(wh, wv)
       /\ links' = links + 1
       /\ UNCHANGED <<tiles, conns, passed, calls, phase, region_root, blackhole_wires, region_root_cells>>

MarkDead(ws) ==
    /\ phase = "links" /\ blackhole_wires = {} /\ blackhole_wires' = ws
    /\ UNCHANGED <<tiles, conns, passed, calls, phase, region_root, extra_conns, region_root_cells, links>>

finish ==
    /\ phase = "links" /\ phase' = "done"
    /\ region_root_cells' =
         [r \in RegionSlots |->
            [root \in {region_root[c][r] : c \in Cells} |-> {c \in Cells : region_root[c][r] = root}]]
    /\ UNCHANGED <<tiles, conns, passed, calls, region_root, extra_conns, blackhole_wires, links>>

Next ==
    \/ \E s \in Sites : add_tile(s)
    \/ \E p \in PairSites : fill_conn_pair(p.a, p.b, p.fwd, p.bwd)
    \/ \E t \in TermSites : fill_conn_term(t.cell, t.class)
    \/ fill_main_passes
    \/ \E r \in RegionSlots, m \in RootMaps : SetRegions(r, m)
    \/ \E p \in Corners : LinkCorner(p[1], p[2])
    \/ \E ws \in Dead : MarkDead(ws)
    \/ finish

Spec == Init /\ [][Next]_vars

-----------------------------------------------------------------------------
(* Properties.                                                             *)

\* A connector with a target has one at the other end, of the opposite slot,
\* whose target it is: what wire_tree indexes without looking, and what the
\* order of the expansion and the tests of fill_main_passes must keep.
BackAndForth ==
    \A c \in Cells : \A s \in DOMAIN conns[c] :
        LET there == conns[c][s].target
        IN there # NoCell => Has(there, Opposite[s]) /\ conns[there][Opposite[s]].target = c

\* After finish the trees of the roots are the wires sorted by root: each
\* wire that has a root is once in the tree of that root and in no other
\* tree.  finish checks it itself when it is built with self_check_egrid.
TreesAgree ==
    phase = "done" =>
        LET root == {<<w, resolve_wire(w)>> : w \in WireCoords}
            Roots == {p[2] : p \in root} \ {NoWire}
        IN \A r \in Roots :
              LET tree == wire_tree(r)
              IN /\ <<r, r>> \in root
                 /\ ToSet(tree) = {w \in WireCoords : <<w, r>> \in root}
                 /\ Len(tree) = Cardinality(ToSet(tree))

\* The switches over all roots, found from the wires that drive them and from those
\* they drive.
Forward == UNION {wire_pips_fwd(w) : w \in {resolve_wire(w) : w \in WireCoords} \ {NoWire}}
Backward == UNION {wire_pips_bwd(w) : w \in {resolve_wire(w) : w \in WireCoords} \ {NoWire}}

\* A switch drives its net at the root, or the net is one made for many drivers.
AtItsRoot(pip) == pip.out_raw = pip.out \/ IsMulti(Kind[pip.out[2]])

\* wire_pips_bwd finds the switches that wire_pips_fwd finds, as the same, except
\* those that drive a net made for one driver at another place than its root:
\* these it overlooks, all of them.
SwitchesAgree == phase = "done" => Backward = {pip \in Forward : AtItsRoot(pip)}

\* The output of every switch resolves to itself, to nothing, or to a wire made for
\* many drivers.  Nothing in the code looks at it, neither finish nor validate of
\* the database, and it is not so for all: the clocks HSDCLK of ecp2 are branches
\* that switches in the middle of a row drive.
DrivenAtRoot ==
    \A t \in tiles : \A p \in TileClasses[t.class].pips :
        LET out == tile_wire(t, p.out)
        IN resolve_wire(out) \in {out, NoWire} \/ IsMulti(Kind[resolve_wire(out)[2]])
=============================================================================
