----------------------------- MODULE MCHarvester -----------------------------
(* Small devices for TLC to show the deduction engine.                     *)
EXTENDS Harvester

CONSTANTS a, b, c, g, h, o1, o2, t1, t2

Tiled1(n, t) == [name |-> n, tiles |-> <<t>>]
Absolute(n) == [name |-> n, tiles |-> NoTiles]

\* Every tiled name has one slot and can be placed at either tile.
MCPlaces == [n \in Tiled |-> {<<t1>>, <<t2>>}]

\* Run 1.  `a` may own no bit, one or two, `b` one that `a` may share the
\* offset of, and the global names g and h are two names of one bit or of none.
MCTruths ==
    {tr \in [{a, b, g, h} -> SUBSET ({1, t1} \X {o1, o2})] :
        /\ tr[a] \in {{}, {<<1, o2>>}, {<<1, o1>>, <<1, o2>>}}
        /\ tr[b] = {<<1, o1>>}
        /\ tr[g] \in {{<<t1, o2>>}, {}}
        /\ tr[h] = tr[g]}

MCDesigns ==
    { {Tiled1(a, t1), Tiled1(b, t2)},
      {Tiled1(a, t2), Tiled1(b, t1), Absolute(g)},
      {Tiled1(b, t1), Tiled1(b, t2), Absolute(h)},
      {Tiled1(a, t1)} }

\* Run 2, for the triple rule: three names that may own the same offset, seen
\* two by two and all together.
TripleTruths ==
    {tr \in [{a, b, c} -> SUBSET ({1} \X {o1, o2})] :
        /\ tr[a] = {<<1, o1>>}
        /\ tr[b] \in {{}, {<<1, o2>>}}
        /\ tr[c] = {} }

TripleDesigns ==
    { {Tiled1(a, t1), Tiled1(b, t1)},
      {Tiled1(a, t1), Tiled1(c, t1)},
      {Tiled1(a, t1), Tiled1(b, t1), Tiled1(c, t1)} }
=============================================================================
