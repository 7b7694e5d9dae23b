----------------------------- MODULE MCPartDump ----------------------------
(* Three tiles, at corners of a square; all of one kind, or the third of     *)
(* another. Wires a and b.                                                   *)
EXTENDS PartDump, TLC

T1 == <<0, 1>>
T2 == <<1, 0>>
T3 == <<1, 1>>
MCTiles == {T1, T2, T3}

Kinds == {[t \in MCTiles |-> "K"], [t \in MCTiles |-> IF t = T3 THEN "L" ELSE "K"]}

(* What a tile may list. *)
Lists == {"a" :> 1 @@ "b" :> 1, "a" :> 2 @@ "b" :> 1, "b" :> 1}
TileLists == {l \in [MCTiles -> Lists] : l[T1] = "a" :> 1 @@ "b" :> 1}

All(l) == UNION {{<<t, w>> : w \in DOMAIN l[t]} : t \in MCTiles}

(* Nodes: none of several wires; a of two tiles; a of two and b of one; all  *)
(* b; a and b of different tiles.                                            *)
Shapes == {
    {},
    {{<<T1, "a">>, <<T2, "a">>}},
    {{<<T1, "b">>, <<T2, "b">>, <<T3, "b">>}},
    {{<<T1, "a">>, <<T2, "b">>, <<T3, "b">>}},
    {{<<T1, "b">>, <<T3, "b">>}, {<<T2, "b">>, <<T2, "a">>}}}

NetOf(nets, p) == UNION {n \in nets : p \in n} \cup {p}

(* A wire lists all others of its node, or those before and after it.        *)
Chain == <<<<T3, "b">>, <<T1, "a">>, <<T1, "b">>, <<T2, "b">>, <<T2, "a">>, <<T3, "a">>>>
Place(p) == CHOOSE i \in DOMAIN Chain : Chain[i] = p
Follows(n, p) ==
    {q \in n : Place(q) > Place(p) /\ \A r \in n : Place(r) <= Place(p) \/ Place(r) >= Place(q)}
Near(n, p) == {q \in n : q \in Follows(n, p) \/ p \in Follows(n, q)}

IseDump(k, l, nets, dense) ==
    [flow |-> "ise", kind |-> k, wires |-> l, pips |-> [t \in MCTiles |-> {}],
     net |-> [p \in All(l) \cup UNION nets |-> NetOf(nets, p)],
     conns |-> [p \in All(l) |->
        IF dense \/ ~(NetOf(nets, p) \subseteq All(l)) THEN NetOf(nets, p) \ {p}
        ELSE Near(NetOf(nets, p), p)]]

(* A wire that is mentioned may be missing in its tile if the kind has it.   *)
Fits(k, l, nets) ==
    \A p \in UNION nets : p \in All(l) \/ \E t \in MCTiles : k[t] = k[p[1]] /\ <<t, p[2]>> \in All(l)

IseDumps ==
    {IseDump(x[1], x[2], x[3], x[4]) : x \in
        {y \in Kinds \X TileLists \X Shapes \X BOOLEAN : Fits(y[1], y[2], y[3])}}

(* Vivado: pips from a to b with classes, in some tiles; wires without node. *)
Pip(f, t, s, e, dir) == [from |-> f, to |-> t, sid |-> s, did |-> e, dir |-> dir]
PipLists == {
    {},
    {Pip("a", "b", "c1", "c2", "Uni")},
    {Pip("a", "b", "c1", "c2", "BiFwd"), Pip("b", "a", "c1", "c2", "BiBwd")},
    {Pip("a", "b", "c1", "c2", "Uni"), Pip("b", "a", "c1", "c2", "Uni")}}

VivadoDump(k, l, nets, dead, pp) ==
    [flow |-> "vivado", kind |-> k, wires |-> l,
     pips |-> [t \in MCTiles |-> IF "a" \in DOMAIN l[t] THEN pp[t] ELSE {}],
     net |-> [p \in All(l) |-> IF p \in dead THEN {} ELSE NetOf(nets, p)],
     conns |-> [p \in All(l) |-> IF p \in dead THEN {} ELSE NetOf(nets, p) \ {p}]]

VivadoDumps ==
    {VivadoDump(x[1], x[2], x[3], x[4], x[5]) : x \in
        {y \in Kinds \X TileLists \X Shapes \X {{}, {<<T2, "b">>}, {<<T1, "a">>, <<T3, "b">>}}
               \X [MCTiles -> PipLists] :
            /\ UNION y[3] \subseteq All(y[2])
            /\ y[4] \cap UNION y[3] = {}
            /\ y[5][T3] \in {{}, {Pip("a", "b", "c1", "c2", "Uni")}}}}

MCDumps == IseDumps \cup VivadoDumps
=============================================================================
