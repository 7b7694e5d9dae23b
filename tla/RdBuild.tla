------------------------------ MODULE RdBuild ------------------------------
(* PartBuilder of re/xilinx/rdbuild: the wires and nodes of a part, as the   *)
(* vendor's tool lists them tile by tile, are stored in a compressed form.   *)
(* What the tiles of a kind have in common is kept once: a wire of the kind  *)
(* is Internal while it is, in every tile seen so far, a node of its own with *)
(* the same speed and class, and Connected from then on; a Connected wire    *)
(* belongs to the nodes that name it. A node is a base and a template of     *)
(* wires relative to it.                                                     *)
(*                                                                           *)
(* Sites, the attributes of pips other than their classes, packages and      *)
(* the numbering of names are left out. The index of a Connected wire        *)
(* (TkConnWireId) stands for the wire: it is given out once per wire.        *)
EXTENDS Integers, Sequences, FiniteSetsExt, Functions

CONSTANTS NoSpeed, NoClass

(* TkWire *)
Internal(s, c) == [is |-> "internal", speed |-> s, cls |-> c]
Connected == [is |-> "connected"]

(* A builder: kinds maps a tile kind to its wires and its tiles in order of  *)
(* arrival, kind a tile to its kind; pending holds, per tile, the Connected  *)
(* wires without a node and their class; conn the nodes of its wires;        *)
(* overrides the classes of pips that are not those of their wires; fixups   *)
(* the wires to be given nodes at the end.                                   *)
NewBuilder ==
    [kinds |-> << >>, kind |-> << >>, pending |-> << >>, conn |-> << >>,
     overrides |-> << >>, nodes |-> {}, fixups |-> {}]

(* Maps: f where it has an entry, else g; g with another entry; f without.   *)
Over(f, g) == [x \in DOMAIN f \cup DOMAIN g |-> IF x \in DOMAIN f THEN f[x] ELSE g[x]]
Put(g, x, v) == [y \in DOMAIN g \cup {x} |-> IF y = x THEN v ELSE g[y]]
Without(f, S) == Restrict(f, DOMAIN f \ S)

(* The classes of a pip's ends: those of the backward direction of a pip are *)
(* listed as for the forward direction.                                      *)
PipClasses(p) == IF p.dir = "BiBwd" THEN <<p.did, p.sid>> ELSE <<p.sid, p.did>>

(* The class of a wire is the one all pips of the tile agree on.             *)
ClassesAt(pips, w) ==
    {PipClasses(p)[1] : p \in {q \in pips : q.from = w}} \cup
    {PipClasses(p)[2] : p \in {q \in pips : q.to = w}}

w2nc(pips, w) ==
    LET cs == ClassesAt(pips, w) IN
    IF Cardinality(cs) = 1 THEN CHOOSE c \in cs : TRUE ELSE NoClass

Overrides(pips) ==
    LET odd == {p \in pips : PipClasses(p) # <<w2nc(pips, p.from), w2nc(pips, p.to)>>} IN
    [k \in {<<p.from, p.to>> : p \in odd} |->
        PipClasses(CHOOSE p \in odd : <<p.from, p.to>> = k)]

(* Wires of a kind that the next tile has not, or not with the same speed and *)
(* class, can no longer be Internal.                                          *)
DiffersInSpeed(tk, wires, cls, w) ==
    /\ tk.wires[w].is = "internal"
    /\ w \notin DOMAIN wires \/ tk.wires[w].speed # wires[w]

Differs(tk, wires, cls, w) ==
    /\ tk.wires[w].is = "internal"
    /\ \/ w \notin DOMAIN wires
       \/ tk.wires[w] # Internal(wires[w], cls[w])

add_tile(b, t, k, wires, pips) ==
    LET cls == [w \in DOMAIN wires |-> w2nc(pips, w)]
        fresh == k \notin DOMAIN b.kinds
        tk == IF fresh
              THEN [wires |-> [w \in DOMAIN wires |-> Internal(wires[w], cls[w])], tiles |-> << >>]
              ELSE b.kinds[k]
        changed == {w \in DOMAIN tk.wires : Differs(tk, wires, cls, w)}
        kwires == [w \in DOMAIN tk.wires \cup DOMAIN wires |->
                      IF w \in DOMAIN tk.wires \ changed THEN tk.wires[w] ELSE Connected]
        owed == [w \in changed |-> tk.wires[w].cls]
    IN  [b EXCEPT
            !.kinds = Put(@, k, [wires |-> kwires, tiles |-> Append(tk.tiles, t)]),
            !.kind = Put(@, t, k),
            !.pending = Put([u \in DOMAIN @ |->
                                IF u \in Range(tk.tiles) THEN Over(owed, b.pending[u]) ELSE b.pending[u]],
                            t, Restrict(cls, {w \in DOMAIN wires : kwires[w].is = "connected"})),
            !.conn = Put(@, t, << >>),
            !.overrides = Put(@, t, Overrides(pips))]

(* The wires of the kind of a tile.                                          *)
Wires(b, t) == b.kinds[b.kind[t]].wires

(* Wires of kinds, as <<kind, wire>>, that are Internal become Connected.    *)
Connect(b, ks) ==
    [b EXCEPT
        !.kinds = [k \in DOMAIN @ |->
            [wires |-> [w \in DOMAIN b.kinds[k].wires |->
                            IF <<k, w>> \in ks THEN Connected ELSE b.kinds[k].wires[w]],
             tiles |-> b.kinds[k].tiles]],
        !.pending = [t \in DOMAIN @ |->
            Over([w \in {v \in DOMAIN Wires(b, t) : <<b.kind[t], v>> \in ks} |-> Wires(b, t)[w].cls],
                 b.pending[t])]]

InternalIn(b, ks) == {x \in ks : b.kinds[x[1]].wires[x[2]].is = "internal"}

EnsureNoFixup(b, ks) == Connect(b, InternalIn(b, ks))

(* ensure_conn_wire() of each of ks: the calls do not depend on each other.  *)
ensure_conn_wire(b, ks) ==
    [Connect(b, InternalIn(b, ks)) EXCEPT
        !.fixups = @ \cup {[kind |-> x[1], wire |-> x[2],
                            speed |-> b.kinds[x[1]].wires[x[2]].speed,
                            cls |-> b.kinds[x[1]].wires[x[2]].cls] : x \in InternalIn(b, ks)}]

(* kill_wire() of each of the wires ws of a tile.                            *)
kill_wire(b, t, ws) ==
    LET e == ensure_conn_wire(b, {b.kind[t]} \X ws) IN
    [e EXCEPT
        !.conn = [u \in DOMAIN @ |-> IF u = t THEN Without(e.conn[u], ws) ELSE e.conn[u]],
        !.pending = [u \in DOMAIN @ |-> IF u = t THEN Without(e.pending[u], ws) ELSE e.pending[u]]]

(* A node of one wire need not be stored while its kind's wire is Internal    *)
(* with its speed.                                                            *)
Implied(b, ws) ==
    \E x \in ws :
        /\ ws = {x}
        /\ Wires(b, x.tile)[x.wire].is = "internal"
        /\ Wires(b, x.tile)[x.wire].speed = x.speed

(* The class a wire has so far.                                               *)
ClassNow(b, t, w) ==
    IF Wires(b, t)[w].is = "internal" THEN Wires(b, t)[w].cls
    ELSE IF w \in DOMAIN b.pending[t] THEN b.pending[t][w] ELSE NoClass

NodeOf(b, ws) ==
    LET bx == Min({x.tile[1] : x \in ws})
        by == Min({x.tile[2] : x \in ws})
    IN  [base |-> <<bx, by>>,
         template |-> {[delta |-> <<x.tile[1] - bx, x.tile[2] - by>>, wire |-> x.wire,
                        speed |-> x.speed, cls |-> ClassNow(b, x.tile, x.wire)] : x \in ws}]

(* Each wire of ws belongs to node n.                                         *)
Attach(b, ws, n) ==
    LET of(t) == {x.wire : x \in {y \in ws : y.tile = t}} IN
    [b EXCEPT
        !.nodes = @ \cup {n},
        !.conn = [t \in DOMAIN @ |-> Over([w \in of(t) |-> n], b.conn[t])],
        !.pending = [t \in DOMAIN @ |-> Without(b.pending[t], of(t))]]

add_node(b, ws) ==
    IF Implied(b, ws) THEN b
    ELSE LET e == ensure_conn_wire(b, {<<b.kind[x.tile], x.wire>> : x \in ws})
         IN  Attach(e, ws, NodeOf(b, ws))

(* finish(): a wire that became Connected because of a node elsewhere gets a  *)
(* node of its own in every tile where it still waits for one.                *)
SingleNode(t, f) ==
    [base |-> t,
     template |-> {[delta |-> <<0, 0>>, wire |-> f.wire, speed |-> f.speed, cls |-> f.cls]}]

finish(b) ==
    LET owed(t) == {f \in b.fixups : f.kind = b.kind[t] /\ f.wire \in DOMAIN b.pending[t]} IN
    [b EXCEPT
        !.nodes = @ \cup UNION {{SingleNode(t, f) : f \in owed(t)} : t \in DOMAIN b.kind},
        !.conn = [t \in DOMAIN @ |->
                    Over([w \in {f.wire : f \in owed(t)} |->
                            SingleNode(t, CHOOSE f \in owed(t) : f.wire = w)], b.conn[t])]]

(***************************************************************************)
(* Reading the part back. The nodes of wires are not stored: post_deserialize *)
(* restores them from the nodes.                                           *)
(***************************************************************************)
WiresOf(n) ==
    {[tile |-> <<n.base[1] + x.delta[1], n.base[2] + x.delta[2]>>, wire |-> x.wire,
      speed |-> x.speed, cls |-> x.cls] : x \in n.template}

(* The nodes that name a wire: more than one would overwrite each other.     *)
post_deserialize(b, t, w) == {n \in b.nodes : \E x \in WiresOf(n) : x.tile = t /\ x.wire = w}

lookup_wire(b, t, w) ==
    IF w \notin DOMAIN Wires(b, t) THEN {}
    ELSE IF Wires(b, t)[w].is = "internal"
    THEN {{[tile |-> t, wire |-> w, speed |-> Wires(b, t)[w].speed, cls |-> Wires(b, t)[w].cls]}}
    ELSE {WiresOf(n) : n \in post_deserialize(b, t, w)}
=============================================================================
