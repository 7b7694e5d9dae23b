---------------------------- MODULE MCHammerBatch ----------------------------
(***************************************************************************)
(* Generators over two keys and three values, chosen so that every pair of *)
(* entry and demand meets, agreeing and clashing.                          *)
(***************************************************************************)
EXTENDS HammerBatch

CONSTANTS k1, k2, p1, p2

MCValues == 0..2

Base(v) == [kind |-> "base", val |-> v]
AnyOf(S) == [kind |-> "any", vals |-> S]
Fuzz(a, b) == [kind |-> "fuzz", from |-> a, to |-> b]
Multi == [kind |-> "multi", val |-> "m"]

Two(v, w) == [k \in {k1, k2} |-> IF k = k1 THEN v ELSE w]
One(v) == Two(v, Unset)
Site(kv, sad) == [kv |-> kv, sad |-> sad]

Times(d, S) == [sites |-> S, dup |-> d]

MCGenerators ==
    { Times(1, {Site(One(Base(0)), {})}),
      Times(1, {Site(One(AnyOf({0, 1})), {}), Site(One(AnyOf({1, 2})), {})}),
      Times(1, {Site(Two(AnyOf({1}), AnyOf({0, 1})), {})}),
      Times(1, {Site(Two(Fuzz(0, 1), AnyOf({1, 2})), {})}),
      Times(2, {Site(Two(AnyOf({0, 1}), Fuzz(1, 2)), {p1}), Site(Two(Base(1), Fuzz(1, 0)), {p2})}),
      Times(1, {Site(One(Multi), {p1, p2}), Site(Two(AnyOf({0, 2}), Base(1)), {p2}),
                Site(Two(Base(2), Fuzz(0, 1)), {p1})}),
      Times(1, {Site(One(Fuzz(0, 2)), {p1})}) }
=============================================================================
