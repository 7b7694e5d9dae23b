------------------------------ MODULE PartDump -----------------------------
(* How the two dumps feed the builder of a part (RdBuild).                   *)
(*                                                                           *)
(* re/xilinx/vivado-dump: parallel readers, each of some rows of the device, *)
(* give the builder their tiles under one mutex, in any order; every wire    *)
(* names its node, or none. When all tiles are in, the nodes follow, in the  *)
(* order of a hash map.                                                      *)
(*                                                                           *)
(* re/xilinx/ise-dump: one stream of tiles. A wire lists wires it is         *)
(* connected to, not necessarily all. A wire without any is a node at once;  *)
(* the others are gathered into nodes, and a node is given to the builder    *)
(* as soon as every wire that was mentioned has been read.                   *)
EXTENDS RdBuild

(* A dump: flow, kind, wires (tile -> wire -> speed), pips (tile -> set),    *)
(* conns (listed wire -> wires it is listed as connected to), net (wire ->   *)
(* the wires of its node; no wires for one Vivado lists without a node).     *)
CONSTANT Dumps

Listed(d) == UNION {{<<t, w>> : w \in DOMAIN d.wires[t]} : t \in DOMAIN d.kind}
Linked(d, p) == {q \in DOMAIN d.net : q \in DOMAIN d.conns /\ p \in d.conns[q]}

(* What a dump is: listed wires list each other; a wire that is mentioned    *)
(* but not listed in its tile is listed in another tile of the kind; a node  *)
(* is what is connected. Tiles are at coordinates (u16), and a tile has one  *)
(* pip from a wire to another (TileKind.pips). Only Vivado knows classes.    *)
ASSUME DumpsFit ==
    \A d \in Dumps :
        /\ d.flow \in {"ise", "vivado"}
        /\ DOMAIN d.kind \subseteq Nat \X Nat
        /\ DOMAIN d.conns = Listed(d) /\ Listed(d) \subseteq DOMAIN d.net
        /\ \A p \in Listed(d) : \A q \in d.conns[p] \cap Listed(d) : p \in d.conns[q]
        /\ \A p \in DOMAIN d.net \ Listed(d) :
            /\ d.flow = "ise" /\ Linked(d, p) # {}
            /\ \E t, u \in DOMAIN d.kind :
                p = <<t, p[2]>> /\ d.kind[u] = d.kind[t] /\ <<u, p[2]>> \in Listed(d)
        /\ \A p \in DOMAIN d.net :
            /\ d.flow = "ise" => d.net[p] # {}
            /\ d.net[p] = {} \/ p \in d.net[p]
            /\ \A q \in d.net[p] : q \in DOMAIN d.net /\ d.net[q] = d.net[p]
            /\ p \in Listed(d) => d.conns[p] \subseteq d.net[p] \ {p}
            /\ \A S \in SUBSET d.net[p] :
                (p \in S /\ \A q \in S : Linked(d, q) \subseteq S
                                     /\ (q \in Listed(d) => d.conns[q] \subseteq S))
                => S = d.net[p]
        /\ \A t \in DOMAIN d.kind :
            /\ \A p, q \in d.pips[t] : p.from = q.from /\ p.to = q.to => p = q
            /\ d.flow = "ise" => d.pips[t] = {}

VARIABLES
    dump,      \* the dump: never changes
    rd,        \* the builder
    tiles,     \* tiles not yet given to the builder
    at,        \* ISE: the wires of the last tile that are still to be looked at
    groups,    \* ISE: Nodes.nodes, by index: what was seen and mentioned of a node
    wire2node, \* ISE: the index of the node a wire belongs to
    gathered,  \* Vivado: the nodes by name, with the wires that named them so far
    pc         \* "dump", "done"

vars == <<dump, rd, tiles, at, groups, wire2node, gathered, pc>>

Empty == [seen |-> << >>, unseen |-> {}]

Init ==
    /\ dump \in Dumps
    /\ rd = NewBuilder
    /\ tiles = DOMAIN dump.kind
    /\ at = {}
    /\ groups = << >>
    /\ wire2node = << >>
    /\ gathered = << >>
    /\ pc = "dump"

AddTile(t) == add_tile(rd, t, dump.kind[t], dump.wires[t], dump.pips[t])

(***************************************************************************)
(* Vivado                                                                  *)
(***************************************************************************)
(* dump_tile() up to its end, under the mutex: the tile, the nodes its wires *)
(* name, and the wires without a node.                                       *)
Live(t) == {w \in DOMAIN dump.wires[t] : dump.net[<<t, w>>] # {}}
Dead(t) == DOMAIN dump.wires[t] \ Live(t)
NodeWire(t, w) == [tile |-> t, wire |-> w, speed |-> dump.wires[t][w]]
Named(t, n) == {NodeWire(t, w) : w \in {v \in Live(t) : dump.net[<<t, v>>] = n}}

dump_tile(t) ==
    /\ pc = "dump" /\ dump.flow = "vivado" /\ t \in tiles
    /\ tiles' = tiles \ {t}
    /\ rd' = kill_wire(AddTile(t), t, Dead(t))
    /\ gathered' = [n \in DOMAIN gathered \cup {dump.net[<<t, w>>] : w \in Live(t)} |->
                        (IF n \in DOMAIN gathered THEN gathered[n] ELSE {}) \cup Named(t, n)]
    /\ UNCHANGED <<dump, at, groups, wire2node, pc>>

StreamNode(n) ==
    /\ pc = "dump" /\ dump.flow = "vivado" /\ tiles = {} /\ n \in DOMAIN gathered
    /\ rd' = add_node(rd, gathered[n])
    /\ gathered' = Without(gathered, {n})
    /\ UNCHANGED <<dump, tiles, at, groups, wire2node, pc>>

(***************************************************************************)
(* ISE                                                                     *)
(***************************************************************************)
ReadTile(t) ==
    /\ pc = "dump" /\ dump.flow = "ise" /\ t \in tiles /\ at = {}
    /\ tiles' = tiles \ {t}
    /\ rd' = AddTile(t)
    /\ at' = {<<t, w>> : w \in DOMAIN dump.wires[t]}
    /\ UNCHANGED <<dump, groups, wire2node, gathered, pc>>

SingleWire(p) ==
    /\ pc = "dump" /\ p \in at /\ dump.conns[p] = {}
    /\ at' = at \ {p}
    /\ rd' = add_node(rd, {NodeWire(p[1], p[2])})
    /\ UNCHANGED <<dump, tiles, groups, wire2node, gathered, pc>>

(* What finish_node gives the builder: wires only mentioned have no speed.   *)
GroupWires(g) ==
    {[tile |-> p[1], wire |-> p[2], speed |-> NoSpeed] : p \in g.unseen} \cup
    {[tile |-> p[1], wire |-> p[2], speed |-> g.seen[p]] : p \in DOMAIN g.seen}

Free == {i \in DOMAIN groups : groups[i] = Empty}
NewIndex == IF Free = {} THEN {Len(groups) + 1} ELSE Free

(* process_wire(): the nodes the wire and its connections belong to are       *)
(* merged into one of them.                                                   *)
process_wire(p) ==
    /\ pc = "dump" /\ p \in at /\ dump.conns[p] # {}
    /\ at' = at \ {p}
    /\ LET mentioned == {p} \cup dump.conns[p]
           wnodes == {wire2node[q] : q \in mentioned \cap DOMAIN wire2node}
       IN \E i \in (IF wnodes = {} THEN NewIndex ELSE wnodes) :
            LET others == wnodes \ {i}
                old == IF i \in DOMAIN groups THEN groups[i] ELSE Empty
                holds(q) == {o \in others : q \in DOMAIN groups[o].seen}
                nseen == [q \in {p} \cup UNION {DOMAIN groups[o].seen : o \in others} |->
                            IF holds(q) = {} THEN dump.wires[p[1]][p[2]]
                            ELSE groups[CHOOSE o \in holds(q) : TRUE].seen[q]]
                wwires == mentioned \cup UNION {groups[o].unseen : o \in others}
                seen == Over(nseen, old.seen)
                unseen == (old.unseen \cup wwires) \ DOMAIN seen
                g == [seen |-> seen, unseen |-> unseen]
                left == [k \in DOMAIN groups \cup {i} |->
                            IF k \in others \/ (k = i /\ unseen = {}) THEN Empty
                            ELSE IF k = i THEN g ELSE groups[k]]
                owned == Over([q \in unseen \cup DOMAIN nseen |-> i], wire2node)
            IN  /\ groups' = left
                /\ IF unseen = {}
                   THEN /\ wire2node' = Restrict(owned, DOMAIN owned \ DOMAIN seen)
                        /\ rd' = add_node(rd, GroupWires(g))
                   ELSE /\ wire2node' = owned
                        /\ rd' = rd
    /\ UNCHANGED <<dump, tiles, gathered, pc>>

(* finish_all()                                                              *)
finish_node(i) ==
    /\ pc = "dump" /\ dump.flow = "ise" /\ tiles = {} /\ at = {}
    /\ i \in DOMAIN groups \ Free
    /\ rd' = add_node(rd, GroupWires(groups[i]))
    /\ wire2node' = Restrict(wire2node, {p \in DOMAIN wire2node : wire2node[p] # i})
    /\ groups' = [groups EXCEPT ![i] = Empty]
    /\ UNCHANGED <<dump, tiles, at, gathered, pc>>

(***************************************************************************)
Done ==
    /\ pc = "dump" /\ tiles = {} /\ at = {} /\ Free = DOMAIN groups /\ gathered = << >>
    /\ rd' = finish(rd)
    /\ pc' = "done"
    /\ UNCHANGED <<dump, tiles, at, groups, wire2node, gathered>>

Next ==
    \/ \E t \in tiles : dump_tile(t) \/ ReadTile(t)
    \/ \E n \in DOMAIN gathered : StreamNode(n)
    \/ \E p \in at : SingleWire(p) \/ process_wire(p)
    \/ \E i \in DOMAIN groups : finish_node(i)
    \/ Done

Spec == Init /\ [][Next]_vars

(***************************************************************************)
(* Properties                                                              *)
(***************************************************************************)
Given(p) ==
    {[tile |-> q[1], wire |-> q[2],
      speed |-> IF q \in Listed(dump) THEN dump.wires[q[1]][q[2]] ELSE NoSpeed] : q \in dump.net[p]}

Plain(n) == {[tile |-> x.tile, wire |-> x.wire, speed |-> x.speed] : x \in n}
Stored(p) == {Plain(n) : n \in lookup_wire(rd, p[1], p[2])}

(* A wire an ISE dump gives as a node of its own, while a later tile of the   *)
(* kind has not this wire or has it with another speed.                       *)
Overtaken(p) ==
    LET ts == rd.kinds[rd.kind[p[1]]].tiles IN
    /\ dump.flow = "ise" /\ dump.net[p] = {p}
    /\ \E i, j \in DOMAIN ts :
        /\ i < j /\ ts[i] = p[1]
        /\ <<ts[j], p[2]>> \in Listed(dump) =>
            dump.wires[ts[j]][p[2]] # dump.wires[p[1]][p[2]]

KindWires(t) == DOMAIN rd.kinds[rd.kind[t]].wires
IsInternal(t, w) == rd.kinds[rd.kind[t]].wires[w].is = "internal"

(* The part that is stored gives every wire of every tile the node the dump   *)
(* gave it, with the speeds of its wires, and no node to a wire without one,  *)
(* whatever order the tiles, wires and nodes came in; no wire is in two nodes *)
(* and none that is kept Internal in any (reading the part would panic); what *)
(* is in memory is what is read back. One kind of wire gets lost: add_node    *)
(* does not store a node its kind implies, and when a later tile of an ISE    *)
(* dump ends that, add_tile does not make up for it as ensure_conn_wire does. *)
Faithful ==
    pc = "done" =>
        \A t \in DOMAIN dump.kind : \A w \in KindWires(t) :
            LET p == <<t, w>>
                nodes == post_deserialize(rd, t, w)
            IN  /\ Cardinality(nodes) <= 1
                /\ IsInternal(t, w) => nodes = {}
                /\ nodes = (IF w \in DOMAIN rd.conn[t] THEN {rd.conn[t][w]} ELSE {})
                /\ IF p \in DOMAIN dump.net /\ dump.net[p] # {}
                   THEN Stored(p) = {Given(p)} \/ (Stored(p) = {} /\ Overtaken(p))
                   ELSE Stored(p) = {}

(* The classes a Vivado dump gives the ends of a pip can be read back, from   *)
(* the wires or from the pip's own: a class is moved to a wire only if all    *)
(* pips of the tile agree on it, and stays with the wire when tiles of the    *)
(* kind differ, or the wire becomes part of a node.                           *)
ClassOf(t, w) == {x.cls : x \in {y \in UNION lookup_wire(rd, t, w) : y.tile = t /\ y.wire = w}}

ClassesKept ==
    pc = "done" =>
        \A t \in DOMAIN dump.kind : \A p \in dump.pips[t] :
            IF <<p.from, p.to>> \in DOMAIN rd.overrides[t]
            THEN rd.overrides[t][<<p.from, p.to>>] = PipClasses(p)
            ELSE /\ p.from \in Live(t) => ClassOf(t, p.from) = {PipClasses(p)[1]}
                 /\ p.to \in Live(t) => ClassOf(t, p.to) = {PipClasses(p)[2]}
=============================================================================
