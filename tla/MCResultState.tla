----------------------------- MODULE MCResultState -----------------------------
(* Two tile classes of two bits.  In the second place of the device the tile   *)
(* is mirrored; a class of two tiles has its second tile there first.          *)
EXTENDS ResultState

Bits == {1} \X {0, 1}
Pair == {1, 2} \X {0}
Configs(B) == [B -> BOOLEAN]

Tile(from, size, flip) == [from |-> from, size |-> size, flip |-> flip]
Single == {<< <<Tile(1, 2, FALSE)>> >>, << <<Tile(3, 2, TRUE)>> >>}
Double == {<< <<Tile(1, 1, FALSE), Tile(2, 1, TRUE)>>, <<Tile(3, 2, TRUE)>> >>,
           << <<Tile(7, 1, TRUE), Tile(6, 1, FALSE)>>, <<Tile(4, 2, FALSE)>> >>}

Slot(base, words, mode) == [base |-> base, words |-> words, mode |-> mode]
Family(slots, places, parts, wrong) ==
    [slots |-> slots, places |-> places, parts |-> parts, noise |-> wrong]

\* Enumerations, of which each part has two of three values.
Enumerations ==
    {Family(<<Slot(base, <<<<a>>, <<b>>, <<c>>>>, mode)>>, Single, <<<<1, 2>>, <<3, 2>>>>, 0) :
        base \in Configs(Bits), a \in Configs(Bits), b \in Configs(Bits), c \in Configs(Bits),
        mode \in {"bit", "mux", "default"}}

\* Booleans and bit vectors, fuzzed once more on a second part.
Booleans ==
    {Family(<<Slot(base, <<<<a>>, <<b>>>>, mode)>>, Single, <<<<1, 2>>, <<1, 2>>>>, 0) :
        base \in Configs(Bits), a \in Configs(Bits), b \in Configs(Bits),
        mode \in {"bool", "wide", "mixed"}}

Vectors ==
    {Family(<<Slot(base, <<<<a, b>>>>, "bitvec")>>, Single, <<<<1>>, <<1>>>>, 1) :
        base \in Configs(Bits), a \in Configs(Bits), b \in Configs(Bits)}

\* Numbers of two digits.
Numbers ==
    {Family(<<Slot(base, [v \in 0..3 |-> <<w[v]>>], "int")>>, {<< <<Tile(3, 2, TRUE)>> >>},
            <<<<0, 1, 2, 3>>>>, 0) :
        base \in Configs(Bits), w \in [0..3 -> Configs(Bits)]}

\* Two features at once, in tiles of their own, of a tool that may be wrong twice.
Doubles ==
    {Family(<<Slot(base, <<<<a>>, <<b>>>>, "value"), Slot(base2, <<<<c>>, <<b2>>>>, "mux")>>, Double,
            <<<<1, 2>>>>, 2) :
        base \in {[x \in Pair |-> x[1] = 1]}, a \in {[x \in Pair |-> TRUE]}, b \in Configs(Pair),
        base2 \in {[x \in Bits |-> FALSE]}, b2 \in {[x \in Bits |-> TRUE]}, c \in Configs(Bits)}

MCCases == Enumerations \cup Booleans \cup Vectors \cup Numbers \cup Doubles
=============================================================================
