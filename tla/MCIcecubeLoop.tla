---------------------------- MODULE MCIcecubeLoop ----------------------------
(* IcecubeLoop on two threads, three cached runs and devices of four rows.  *)
EXTENDS IcecubeLoop, TLC

CONSTANTS t1, t2, k1, k2, k3, n

D(s, p, m, g, small) == [speed |-> s, pips |-> p, names |-> m, global |-> g, small |-> small]

Plb(R) == {"plb"} \X R

MCDesigns == {
    D({"s"}, {}, {n}, {}, FALSE),
    D({}, {"p"}, {}, Plb({1, 2, 4}), FALSE),
    D({}, {}, {}, Plb({2, 3, 4}), FALSE),
    D({"s"}, {}, {}, {}, TRUE),
    D({"s"}, {"p"}, {n}, {<<"bram", 1>>, <<"plb", 4>>}, FALSE)}

MCLayouts == {<< >>, << <<2, 0, 6>> >>, << <<2, 0, 3>>, <<4, 3, 6>> >>}

Symmetry == Permutations({t1, t2}) \cup Permutations({k1, k2, k3})
=============================================================================
