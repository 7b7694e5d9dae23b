------------------------------- MODULE MCWireTree ------------------------------
(***************************************************************************)
(* WireTree on a die of three columns and two rows: wires out of a cell,   *)
(* branches to the west and to the east, a wire that turns round at the    *)
(* edge, a long line along a row and one along a column that may be driven *)
(* from any cell, and a clock of a region with a branch.  Some switches    *)
(* drive branches: one of the row's line, led from a wire made for many,   *)
(* and the terminator at the west, which chooses what goes on to the east: *)
(* at the root of that branch, unless the connector beside it leads the    *)
(* branch from elsewhere.  So does the clock's driver, which is in the     *)
(* cell of the region's root or in another.                                *)
(***************************************************************************)
EXTENDS WireTree, TLC

kind(k, slot) == [k |-> k, slot |-> slot]
MCKind == [out |-> kind("MuxOut", ""), we |-> kind("Branch", "W"), ew |-> kind("Branch", "E"),
           hb |-> kind("Branch", "E"), hl |-> kind("MultiBranch", "W"), vl |-> kind("MultiBranch", "S"),
           gl |-> kind("Regional", "R"), gw |-> kind("Branch", "W")]
MCWires == DOMAIN MCKind
MCOpposite == [W |-> "E", E |-> "W", S |-> "N", N |-> "S"]

way(how, wire) == [how |-> how, wire |-> wire]
cls(slot, wires) == [slot |-> slot, wires |-> wires]
MCConnClasses ==
    "MAIN.W" :> cls("W", [we |-> way("Pass", "out"), hl |-> way("Pass", "hl"), gw |-> way("Pass", "gl")])
 @@ "MAIN.E" :> cls("E", [ew |-> way("Pass", "out"), hb |-> way("Pass", "hl")])
 @@ "MAIN.S" :> cls("S", [vl |-> way("Pass", "vl")])
 @@ "MAIN.N" :> cls("N", <<>>)
 @@ "BRK.W" :> cls("W", [we |-> way("Pass", "we"), gw |-> way("BlackHole", "gw")])
 @@ "BRK.E" :> cls("E", [ew |-> way("Pass", "ew")])
 @@ "TERM.W" :> cls("W", [we |-> way("Reflect", "ew")])
 @@ "TERM.W.MUX" :> cls("W", <<>>)
 @@ "TERM.E" :> cls("E", [ew |-> way("BlackHole", "ew")])
MCMainPass == [W |-> "MAIN.W", E |-> "MAIN.E", S |-> "MAIN.S", N |-> "MAIN.N"]
MCPairSites == {[a |-> <<c[1], 1>>, b |-> <<c[2], 1>>, fwd |-> "BRK.E", bwd |-> "BRK.W"] :
                  c \in {x \in (1..3) \X (1..3) : x[1] < x[2]}}
term(class, cells) == {[cell |-> c, class |-> class] : c \in cells}
MCTermSites == term("TERM.W", {<<1, 1>>, <<2, 1>>}) \cup term("TERM.W.MUX", {<<1, 1>>})
                 \cup term("TERM.E", {<<3, 1>>, <<2, 1>>, <<3, 2>>})

pip(i, in, o, out) == [in |-> <<i, in>>, out |-> <<o, out>>]
MCTileClasses ==
    [INT |-> [slot |-> "INT", cells |-> 1,
              pips |-> {pip(1, "we", 1, "out"), pip(1, "gw", 1, "out"), pip(1, "ew", 1, "hl"), pip(1, "hl", 1, "vl"),
                       pip(1, "ew", 1, "hb")}],
     TERM |-> [slot |-> "TERM", cells |-> 1, pips |-> {pip(1, "ew", 1, "we"), pip(1, "hl", 1, "we")}],
     BRAM |-> [slot |-> "BEL", cells |-> 2, pips |-> {pip(1, "hl", 2, "out"), pip(2, "gl", 1, "vl"), pip(2, "hl", 2, "gl")}]]
site(anchor, class, cells) == [anchor |-> anchor, class |-> class, cells |-> cells]
MCRequired == {site(c, "INT", <<c>>) : c \in {<<1, 1>>, <<3, 1>>, <<1, 2>>, <<2, 2>>, <<3, 2>>}}
                \cup {site(<<1, 1>>, "TERM", <<<<1, 1>>>>)}
MCSites == MCRequired \cup {site(<<2, 1>>, "INT", <<<<2, 1>>>>), site(<<3, 2>>, "BRAM", <<<<3, 1>>, <<3, 2>>>>)}

\* One region, or one for each column with its root in the second row.
MCRootMaps == {[c \in Cells |-> <<1, 1>>], [c \in Cells |-> <<c[1], 2>>]}
MCCorners == {<<<<<<1, 1>>, "hl">>, <<<<1, 1>>, "vl">>>>,
              <<<<<<3, 2>>, "hl">>, <<<<3, 2>>, "vl">>>>,
              <<<<<<1, 2>>, "hl">>, <<<<1, 2>>, "vl">>>>}
MCDead == {{<<<<1, 1>>, "out">>, <<<<3, 1>>, "vl">>}}

\* Branches to the west end at the west, where they may turn round; those to the
\* east get no further than the last column.
MCDepth == [w \in WireCoords |->
    CASE w[2] = "we" -> Cols + 1 + w[1][1]
      [] w[2] = "ew" -> 1 + (Cols - w[1][1])
      [] w[2] = "hb" -> Cols + 1
      [] w[2] = "hl" -> w[1][1]
      [] w[2] = "vl" -> w[1][2]
      [] w[2] = "gw" -> 1
      [] OTHER -> 0]
=============================================================================
