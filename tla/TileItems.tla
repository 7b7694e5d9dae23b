------------------------------- MODULE TileItems -------------------------------
(***************************************************************************)
(* Differences between bitstreams and the database items made of them:     *)
(* Diff and the xlat_* functions of fpga-hammer, TileItem::merge of types. *)
(*                                                                         *)
(* A diff is a function from the bits that differ to what they became.  An *)
(* item has a sequence of bits and, for an enumeration, the word each      *)
(* value has in them; what a function returns is {item}, or {} if one of   *)
(* its assertions fails.                                                   *)
(***************************************************************************)
EXTENDS Naturals, Sequences, FiniteSetsExt

NoBits == [b \in {} |-> FALSE]

\* Bits are <<tile, offset>> pairs.
BitBefore(a, b) == a[1] < b[1] \/ (a[1] = b[1] /\ a[2] < b[2])

\* The members of S in an order: before[x] are those before x.
InOrder(S, before) ==
    [i \in 1..Cardinality(S) |-> CHOOSE x \in S : Cardinality(before[x]) = i - 1]

Sorted(S) == InOrder(S, [x \in S |-> {y \in S : BitBefore(y, x)}])

-----------------------------------------------------------------------------
(* Enumerations.  D is a sequence of [val, diff].                          *)

\* The bits that occur, and what a diff makes of them.
Occurring(D) == UNION {DOMAIN D[i].diff : i \in DOMAIN D}

Polarity(D, b) == LET i == CHOOSE j \in DOMAIN D : b \in DOMAIN D[j].diff IN D[i].diff[b]

OnePolarity(D) ==
    \A i, j \in DOMAIN D : \A b \in DOMAIN D[i].diff \cap DOMAIN D[j].diff :
        D[i].diff[b] = D[j].diff[b]

\* A mistake: a bit that does not differ is taken to be off.
ValueOff(D, i, b) == b \in DOMAIN D[i].diff /\ D[i].diff[b]

\* bits[b] ^ !diff.bits.contains_key(b)
Value(D, i, b) == IF b \in DOMAIN D[i].diff THEN Polarity(D, b) ELSE ~Polarity(D, b)

\* OcdMode::ValueOrder: the first diff in which two bits differ puts the one that
\* is on first; otherwise they are in order.
ValueBefore(D, a, b) ==
    LET differ == {i \in DOMAIN D : Value(D, i, a) # Value(D, i, b)} IN
    IF differ = {} THEN BitBefore(a, b) ELSE Value(D, Min(differ), a)

ValueOrder(D) ==
    LET S == Occurring(D) IN InOrder(S, [b \in S |-> {a \in S : ValueBefore(D, a, b)}])

\* OcdMode::Mux: positions of `s` no two of which are on in one diff, picked greedily
\* from the first that is left ...
OneHot(D, s, taken, first) ==
    LET Clash(x, y) == \E i \in DOMAIN D : Value(D, i, s[x]) /\ Value(D, i, s[y])
        g[n \in 0..Len(s)] ==
            IF n = 0 THEN {first}
            ELSE IF n \in taken \cup 1..first \/ \E x \in g[n - 1] : Clash(x, n) THEN g[n - 1]
            ELSE g[n - 1] \cup {n}
    IN g[Len(s)]

\* ... make a group if each diff that has any bit on has one of them on.
Full(D, s, group) ==
    \A i \in DOMAIN D :
        (\E x \in DOMAIN s : Value(D, i, s[x])) => \E x \in group : Value(D, i, s[x])

MuxGroups(D, s) ==
    LET f[n \in 0..Len(s)] ==
            IF n = 0 THEN {}
            ELSE LET taken == UNION f[n - 1]
                     group == OneHot(D, s, taken, n)
                 IN IF n \notin taken /\ Full(D, s, group) THEN f[n - 1] \cup {group}
                    ELSE f[n - 1]
    IN f[Len(s)]

\* Enables first, then groups, the larger before, then the rest.
MuxKey(s, groups, n) ==
    IF \A g \in groups : n \notin g THEN <<3, 0, 0, n>>
    ELSE LET g == CHOOSE x \in groups : n \in x IN
         IF Cardinality(g) = 1 THEN <<1, 0, 0, n>> ELSE <<2, Len(s) - Cardinality(g), Min(g), n>>

KeyBefore(a, b) == \E k \in 1..4 : a[k] < b[k] /\ \A j \in 1..(k - 1) : a[j] = b[j]

MuxSorted(s, groups) ==
    LET key == [n \in DOMAIN s |-> MuxKey(s, groups, n)]
        order == InOrder(DOMAIN s, [n \in DOMAIN s |-> {m \in DOMAIN s : KeyBefore(key[m], key[n])}])
    IN [n \in DOMAIN s |-> s[order[n]]]

MuxOrder(D) == LET s == ValueOrder(D) IN MuxSorted(s, MuxGroups(D, s))

\* The item with the bits in a given order.
ItemIn(D, order) ==
    LET Word(i) == [n \in DOMAIN order |-> Value(D, i, order[n])]
        Of(v) == CHOOSE i \in DOMAIN D : D[i].val = v
    IN IF /\ OnePolarity(D)
          /\ \A i, j \in DOMAIN D : D[i].val = D[j].val => Word(i) = Word(j)
       THEN {[bits |-> order, values |-> [v \in {D[i].val : i \in DOMAIN D} |-> Word(Of(v))]]}
       ELSE {}

xlat_enum_ocd(D, mode) ==
    ItemIn(D, CASE mode = "mux" -> MuxOrder(D)
                [] mode = "value" -> ValueOrder(D)
                [] OTHER -> Sorted(Occurring(D)))

-----------------------------------------------------------------------------
(* Integers.  D is a sequence of [num, diff]; a number is the set of its   *)
(* binary digits that are one.                                             *)

Digits(v) == {n \in 0..v : (v \div 2^n) % 2 = 1}

\* The number whose diff is empty is the one the others are told apart from.
Xor(D) ==
    LET same == {i \in DOMAIN D : D[i].diff = NoBits} IN
    IF same = {} THEN {} ELSE D[Max(same)].num

Unlike(m, n) == (m \ n) \cup (n \ m)

Without(diff, B) == [b \in DOMAIN diff \ B |-> diff[b]]

\* One diff with the digits `at` found so far; the state is [at, ok, progress, done].
DigitStep(a, x, d) ==
    LET num == Unlike(d.num, x)
        old == num \cap DOMAIN a.at
        open == num \ old
        rest == Without(d.diff, {a.at[n] : n \in old})
        fits == /\ \A n \in old : a.at[n] \in DOMAIN d.diff /\ d.diff[a.at[n]] = (n \notin x)
                /\ \A m, n \in old : a.at[m] = a.at[n] => m = n
    IN
    IF ~a.ok \/ ~fits THEN [a EXCEPT !.ok = FALSE]
    ELSE IF open = {} THEN [a EXCEPT !.ok = (rest = NoBits)]
    ELSE IF Cardinality(open) # 1 THEN [a EXCEPT !.done = FALSE]
    ELSE IF Cardinality(DOMAIN rest) # 1 THEN [a EXCEPT !.ok = FALSE]
    ELSE LET k == CHOOSE n \in open : TRUE
             b == CHOOSE c \in DOMAIN rest : TRUE IN
         [a EXCEPT !.ok = (rest[b] = (k \notin x)), !.progress = TRUE,
                   !.at = [n \in DOMAIN @ \cup {k} |-> IF n = k THEN b ELSE @[n]]]

\* A pass over the diffs.
DigitPass(D, at) ==
    LET pass[n \in 0..Len(D)] ==
            IF n = 0 THEN [at |-> at, ok |-> TRUE, progress |-> FALSE, done |-> TRUE]
            ELSE DigitStep(pass[n - 1], Xor(D), D[n])
    IN pass[Len(D)]

xlat_enum_int(D) ==
    LET passes[n \in 0..(Len(D) + 1)] ==
            IF n = 0 THEN DigitPass(D, << >>)
            ELSE IF passes[n - 1].ok /\ passes[n - 1].progress /\ ~passes[n - 1].done
                 THEN DigitPass(D, passes[n - 1].at) ELSE passes[n - 1]
        end == passes[Len(D) + 1]
        width == Cardinality(DOMAIN end.at)
    IN IF end.ok /\ end.done /\ DOMAIN end.at = 0..(width - 1)
       THEN {[bits |-> [n \in 1..width |-> end.at[n - 1]],
             invert |-> [n \in 1..width |-> FALSE]]}
       ELSE {}

-----------------------------------------------------------------------------
(* Bit vectors: what a bit is when the vector has a zero there is `invert`. *)

Flipped(diff) == [b \in DOMAIN diff |-> ~diff[b]]

xlat_bitvec(diffs) ==
    LET bit(n) == CHOOSE b \in DOMAIN diffs[n] : TRUE IN
    IF \A n \in DOMAIN diffs : Cardinality(DOMAIN diffs[n]) = 1
    THEN {[bits |-> [n \in DOMAIN diffs |-> bit(n)],
           invert |-> [n \in DOMAIN diffs |-> ~diffs[n][bit(n)]]]}
    ELSE {}

\* One of the two diffs must be empty: its value is the default.
xlat_bool(diff0, diff1) ==
    IF diff0 = NoBits THEN xlat_bitvec(<<diff1>>)
    ELSE IF diff1 = NoBits THEN xlat_bitvec(<<Flipped(diff0)>>) ELSE {}

\* extract_enum_bool_wide_mixed: all bits of the two words are opposite ...
xlat_bool_wide_mixed(diff0, diff1) ==
    LET items == xlat_enum_ocd(<<[val |-> 0, diff |-> diff0], [val |-> 1, diff |-> diff1]>>, "value") IN
    {[bits |-> i.bits, invert |-> i.values[0]] :
        i \in {j \in items : \A n \in DOMAIN j.bits : j.values[0][n] = ~j.values[1][n]}}

\* ... and extract_enum_bool_wide: all in the same direction.
xlat_bool_wide(diff0, diff1) ==
    {i \in xlat_bool_wide_mixed(diff0, diff1) :
        \A m, n \in DOMAIN i.invert : i.invert[m] = i.invert[n]}

-----------------------------------------------------------------------------
(* TileItem::merge; `neutral` is what a bit that only the other item has    *)
(* is in the values of an enumeration.  Bit vectors must be the same.       *)

BitSet(item) == {item.bits[n] : n \in DOMAIN item.bits}

WordAt(item, v, b, neutral) ==
    IF b \in BitSet(item) THEN item.values[v][CHOOSE n \in DOMAIN item.bits : item.bits[n] = b]
    ELSE neutral

merge(a, b, neutral) ==
    LET order == Sorted(BitSet(a) \cup BitSet(b))
        Spread(item, v) == [n \in DOMAIN order |-> WordAt(item, v, order[n], neutral)]
        both == DOMAIN a.values \cap DOMAIN b.values
    IN IF a = b THEN {a}
       ELSE IF "values" \in DOMAIN a /\ \A v \in both : Spread(a, v) = Spread(b, v)
       THEN {[bits |-> order,
              values |-> [v \in DOMAIN a.values \cup DOMAIN b.values |->
                             IF v \in DOMAIN a.values THEN Spread(a, v) ELSE Spread(b, v)]]}
       ELSE {}
=============================================================================
