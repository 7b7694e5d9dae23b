------------------------------ MODULE ResultState ------------------------------
(***************************************************************************)
(* From the bits of fuzzers to the items of the tile database: a session   *)
(* of fpga-hammer for a sequence of parts (devices).                       *)
(*                                                                         *)
(* For each part the hammer hands over, in an order that depends on how    *)
(* the fuzzers were packed into batches, the bits each fuzzer changed;     *)
(* State::return_fuzzer translates them to the fuzzer's tiles, stores the  *)
(* first diffs a feature is given and compares the later ones.  Then the   *)
(* collectors take the features away, turn their diffs into items and      *)
(* merge those into the database, which lives on from part to part.        *)
(*                                                                         *)
(* A case is a device family as far as one fuzzer program sees it:         *)
(*   slots   what the program fuzzes together.  A slot has the bits `base` *)
(*           of one tile class when nothing is configured, the `words` its *)
(*           values put there, and the collector, `mode`, that is used;    *)
(*   places  where the tile class is in the device: for each slot, the     *)
(*           tiles of a place;                                             *)
(*   parts   for each part, the values that it has, in the order in which  *)
(*           the collector asks for them;                                  *)
(*   noise   how many of the vendor tool's results may be wrong.           *)
(* A value is a number (a name in the code, but for integers).  It has as  *)
(* many words as its fuzzer has bits: more than one for a bit vector only. *)
(***************************************************************************)
EXTENDS TileItems

CONSTANTS Cases,      \* the device families
          DefaultVal  \* what xlat_enum_default calls the value that changes nothing

ASSUME CasesAssumption ==
    \A c \in Cases :
        /\ c.parts \in Seq(Seq(Nat)) /\ Len(c.parts) > 0 /\ c.noise \in Nat
        /\ \A p \in DOMAIN c.parts : \A i \in DOMAIN c.parts[p] : c.parts[p][i] # DefaultVal
        /\ 1 \in DOMAIN c.slots /\ DOMAIN c.slots \subseteq Nat

\* A value has as many words in each slot, more than one if the slots are vectors.
ASSUME SlotsAssumption ==
    \A c \in Cases : \A s \in DOMAIN c.slots :
        LET slot == c.slots[s]
            Words == [DOMAIN slot.base -> BOOLEAN]
        IN /\ slot.base \in Words
           /\ DOMAIN slot.base \subseteq Nat \X Nat /\ IsFiniteSet(DOMAIN slot.base)
           /\ \A p \in DOMAIN c.parts : \A i \in DOMAIN c.parts[p] :
                LET v == c.parts[p][i] IN
                /\ slot.words[v] \in Seq(Words)
                /\ Len(slot.words[v]) = Len(c.slots[1].words[v])
                /\ slot.mode = "bitvec" \/ Len(slot.words[v]) = 1

\* Only an enumeration may have other values on another part; a vector has one, a
\* boolean two.  Of the numbers, any two digits are together in one and both missing
\* from one.
ASSUME ModesAssumption ==
    \A c \in Cases : \A s \in DOMAIN c.slots :
        LET mode == c.slots[s].mode
            vals == c.parts[1]
            numbers == {Digits(vals[i]) : i \in DOMAIN vals}
        IN \/ mode \in {"bit", "value", "mux", "default"}
           \/ /\ \A p \in DOMAIN c.parts : c.parts[p] = vals
              /\ \/ mode = "bitvec" /\ Len(vals) = 1
                 \/ mode \in {"bool", "wide", "mixed"} /\ Len(vals) = 2
                 \/ /\ mode = "int"
                    /\ \A m, n \in UNION numbers : m # n =>
                          /\ \E x \in numbers : {m, n} \subseteq x
                          /\ \E x \in numbers : {m, n} \cap x = {}

\* The tiles of a place hold the bits of their slots, and do not overlap.
ASSUME PlacesAssumption ==
    \A c \in Cases : \A place \in c.places :
        /\ DOMAIN place = DOMAIN c.slots
        /\ \A s \in DOMAIN place :
            /\ place[s] \in Seq([from : Nat, size : Nat, flip : BOOLEAN])
            /\ \A b \in DOMAIN c.slots[s].base :
                b[1] \in DOMAIN place[s] /\ b[2] < place[s][b[1]].size
        /\ \A s, t \in DOMAIN place : \A i \in DOMAIN place[s], j \in DOMAIN place[t] :
            <<s, i>> # <<t, j>> =>
                \/ place[s][i].from + place[s][i].size <= place[t][j].from
                \/ place[t][j].from + place[t][j].size <= place[s][i].from

VARIABLES case,      \* the family
          part,      \* the part that is being fuzzed
          waiting,   \* the fuzzers whose bits are still to come
          features,  \* State::features
          tiledb,    \* BsData::tiles: per slot, {} or the set of its one item
          status,    \* "run", "oops" (return_fuzzer), "failed" (an assertion of a collector)
          noise,     \* how many results were wrong
          gave,      \* the diffs each fuzzer of this part gave (not in the code)
          trusted    \* per slot, whether each feature collected had a true result (not in the code)

vars == <<case, part, waiting, features, tiledb, status, noise, gave, trusted>>

Slots == DOMAIN case.slots
Vals(p) == {case.parts[p][i] : i \in DOMAIN case.parts[p]}

-----------------------------------------------------------------------------
(* Tiles.  A device is a line of positions; a tile covers `size` of them   *)
(* from `from`, mirrored if `flip`.                                        *)

xlat_pos_fwd(t, o) == IF t.flip THEN t.from + t.size - 1 - o ELSE t.from + o

\* A mistake: the tile's orientation is not looked at.
PosRevPlain(t, k) == IF k \in t.from..(t.from + t.size - 1) THEN {k - t.from} ELSE {}

xlat_pos_rev(t, k) ==
    IF k \in t.from..(t.from + t.size - 1)
    THEN {IF t.flip THEN t.size - 1 - (k - t.from) ELSE k - t.from}
    ELSE {}

Positions(place) ==
    UNION {UNION {place[s][i].from..(place[s][i].from + place[s][i].size - 1) :
                     i \in DOMAIN place[s]} : s \in Slots}

-----------------------------------------------------------------------------
(* The device and the vendor's tool: what changes when a fuzzer's value is *)
(* put in a place.                                                         *)

Changed(s, word) == {b \in DOMAIN word : word[b] # case.slots[s].base[b]}

Width(v) == Len(case.slots[1].words[v])

TrueBits(fz) ==
    LET Spots(n) == UNION {{s} \X Changed(s, case.slots[s].words[fz.val][n]) : s \in Slots}
        Pos(x) == xlat_pos_fwd(fz.place[x[1]][x[2][1]], x[2][2])
    IN [n \in 1..Width(fz.val) |->
           [k \in {Pos(x) : x \in Spots(n)} |->
               LET x == CHOOSE y \in Spots(n) : Pos(y) = k
               IN case.slots[x[1]].words[fz.val][n][x[2]]]]

\* A wrong result: a bit too few or too many.
Spoilt(diff, k, v) ==
    IF k \in DOMAIN diff THEN Without(diff, {k})
    ELSE [j \in DOMAIN diff \cup {k} |-> IF j = k THEN v ELSE diff[j]]

Fuzzers(p) == [val : Vals(p), place : case.places]

-----------------------------------------------------------------------------
(* State::return_fuzzer                                                    *)

\* The tiles that have a position; the first one of the first feature gets the bit.
Homes(fz, k) ==
    {h \in UNION {{s} \X DOMAIN fz.place[s] : s \in DOMAIN fz.place} :
        xlat_pos_rev(fz.place[h[1]][h[2]], k) # {}}

Home(fz, k) == Sorted(Homes(fz, k))[1]

Translates(fz, bits) == \A n \in DOMAIN bits : \A k \in DOMAIN bits[n] : Homes(fz, k) # {}

FDiff(fz, diff, s) ==
    LET mine == {k \in DOMAIN diff : Home(fz, k)[1] = s}
        At(k) == <<Home(fz, k)[2], CHOOSE o \in xlat_pos_rev(fz.place[s][Home(fz, k)[2]], k) : TRUE>>
    IN [b \in {At(k) : k \in mine} |-> diff[CHOOSE k \in mine : At(k) = b]]

FDiffs(fz, bits) == [s \in DOMAIN fz.place |-> [n \in DOMAIN bits |-> FDiff(fz, bits[n], s)]]

\* A mistake: a later result is taken for a repetition of the first.
AgreesUnseen(id, xdiffs) == TRUE

Agrees(id, xdiffs) == id \in DOMAIN features => features[id].diffs = xdiffs

Stored(fz, fdiffs) ==
    LET ids == {<<s, fz.val>> : s \in Slots} IN
    [id \in DOMAIN features \cup ids |->
        IF id \notin DOMAIN features THEN [diffs |-> fdiffs[id[1]], fuzzers |-> {fz}]
        ELSE [diffs |-> features[id].diffs,
              fuzzers |-> IF id \in ids THEN features[id].fuzzers \cup {fz} ELSE features[id].fuzzers]]

\* None, or Some(the fuzzers that disagree), on which the session panics.
return_fuzzer(fz, bits) ==
    LET fdiffs == FDiffs(fz, bits) IN
    IF Translates(fz, bits) /\ \A s \in Slots : Agrees(<<s, fz.val>>, fdiffs[s])
    THEN features' = Stored(fz, fdiffs) /\ status' = "run"
    ELSE status' = "oops" /\ UNCHANGED features

-----------------------------------------------------------------------------
(* The collectors: State::get_diffs, the xlat functions, BsData::insert    *)

Extract(s, vals) ==
    LET mode == case.slots[s].mode
        Diffs(v) == features[<<s, v>>].diffs
        named == [i \in DOMAIN vals |-> [val |-> vals[i], diff |-> Diffs(vals[i])[1]]]
        numbers == [i \in DOMAIN vals |-> [num |-> Digits(vals[i]), diff |-> Diffs(vals[i])[1]]]
        default == <<[val |-> DefaultVal, diff |-> NoBits]>>
    IN CASE mode \in {"bit", "value", "mux"} -> xlat_enum_ocd(named, mode)
         [] mode = "default" -> xlat_enum_ocd(default \o named, "value")
         [] mode = "int" -> xlat_enum_int(numbers)
         [] mode = "bitvec" -> xlat_bitvec(Diffs(vals[1]))
         [] mode = "bool" -> xlat_bool(named[1].diff, named[2].diff)
         [] mode = "wide" -> xlat_bool_wide(named[1].diff, named[2].diff)
         [] mode = "mixed" -> xlat_bool_wide_mixed(named[1].diff, named[2].diff)

\* A bit the other item does not have is taken to be off.
Insert(s, item) == IF tiledb[s] = {} THEN {item} ELSE UNION {merge(i, item, FALSE) : i \in tiledb[s]}

-----------------------------------------------------------------------------
Init ==
    /\ case \in Cases
    /\ part = 1
    /\ waiting = Fuzzers(1)
    /\ features = << >>
    /\ tiledb = [s \in Slots |-> {}]
    /\ status = "run"
    /\ noise = 0
    /\ gave = << >>
    /\ trusted = [s \in Slots |-> TRUE]

\* The session hands over the bits of a fuzzer.
Return(fz, bits) ==
    /\ return_fuzzer(fz, bits)
    /\ waiting' = waiting \ {fz}
    /\ gave' = [g \in DOMAIN gave \cup {fz} |-> IF g = fz THEN bits ELSE gave[g]]
    /\ UNCHANGED <<case, part, tiledb, trusted>>

ReturnTrue(fz) == Return(fz, TrueBits(fz)) /\ UNCHANGED noise

ReturnWrong(fz) ==
    /\ noise < case.noise
    /\ noise' = noise + 1
    /\ \E n \in 1..Width(fz.val), k \in Positions(fz.place) \cup {0}, v \in BOOLEAN :
          Return(fz, [TrueBits(fz) EXCEPT ![n] = Spoilt(@, k, v)])

ToCollect(s) == {v \in Vals(part) : <<s, v>> \in DOMAIN features}

Store(s, new) ==
    IF new = {} THEN status' = "failed" /\ UNCHANGED tiledb
    ELSE tiledb' = [tiledb EXCEPT ![s] = new] /\ UNCHANGED status

\* A collector takes the features of a slot.
Collect(s) ==
    /\ waiting = {} /\ ToCollect(s) # {}
    /\ features' = [id \in {i \in DOMAIN features : i[1] # s} |-> features[id]]
    /\ Store(s, UNION {Insert(s, i) : i \in Extract(s, case.parts[part])})
    /\ trusted' = [trusted EXCEPT ![s] = @ /\ \A v \in Vals(part) :
                      \E fz \in DOMAIN gave : fz.val = v /\ gave[fz] = TrueBits(fz)]
    /\ UNCHANGED <<case, part, waiting, noise, gave>>

\* The next part starts with a state of its own and the same database.
NextPart ==
    /\ waiting = {} /\ features = << >> /\ part < Len(case.parts)
    /\ part' = part + 1
    /\ waiting' = Fuzzers(part + 1)
    /\ gave' = << >>
    /\ UNCHANGED <<case, features, tiledb, status, noise, trusted>>

Next ==
    /\ status = "run"
    /\ \/ \E fz \in waiting : ReturnTrue(fz) \/ ReturnWrong(fz)
       \/ \E s \in Slots : Collect(s)
       \/ NextPart

Spec == Init /\ [][Next]_vars

-----------------------------------------------------------------------------
(* Properties.                                                             *)

TypeOK ==
    /\ case \in Cases /\ part \in DOMAIN case.parts
    /\ waiting \subseteq Fuzzers(part)
    /\ DOMAIN features \subseteq Slots \X Vals(part)
    /\ status \in {"run", "oops", "failed"}
    /\ noise \in 0..case.noise
    /\ DOMAIN gave = Fuzzers(part) \ waiting
    /\ trusted \in [Slots -> BOOLEAN]

\* As long as the session runs, all fuzzers of a feature gave the same diffs, in
\* whatever place of the device and in whatever order they came, and those are the
\* diffs a collector will be given.
Unanimous ==
    status = "run" =>
        \A fz \in DOMAIN gave : \A s \in Slots :
            <<s, fz.val>> \in DOMAIN features =>
                /\ features[<<s, fz.val>>].diffs = FDiffs(fz, gave[fz])[s]
                /\ fz \in features[<<s, fz.val>>].fuzzers

\* What makes a slot's items independent of the part: a bit that is on in the base
\* is seen to change in all parts, or in none.
Seen(s, p) == UNION {UNION {Changed(s, case.slots[s].words[v][n]) : n \in 1..Width(v)} : v \in Vals(p)}

Neutral(s) ==
    \A p, q \in DOMAIN case.parts : \A b \in Seen(s, p) : case.slots[s].base[b] => b \in Seen(s, q)

\* What xlat_bitvec takes for granted: no two elements change the same bits.
Separate(s) ==
    case.slots[s].mode = "bitvec" =>
        \A v \in Vals(1) : \A m, n \in 1..Width(v) : m # n =>
            Changed(s, case.slots[s].words[v][m]) # Changed(s, case.slots[s].words[v][n])

Enumeration(s) == case.slots[s].mode \in {"bit", "value", "mux", "default"}

Others(s, item, word) ==
    \A b \in DOMAIN word : b \notin BitSet(item) => word[b] = case.slots[s].base[b]

VectorIs(s, item, x, word) ==
    /\ \A n \in DOMAIN item.bits : word[item.bits[n]] = (x[n] # item.invert[n])
    /\ Others(s, item, word)

Decodes(s, item) ==
    LET slot == case.slots[s]
        vals == case.parts[1]
        Word(v) == IF v = DefaultVal THEN slot.base ELSE slot.words[v][1]
        All(x) == [n \in DOMAIN item.bits |-> x]
        Is(x, word) == VectorIs(s, item, x, word)
    IN CASE Enumeration(s) ->
              \A v \in DOMAIN item.values :
                  /\ \A b \in BitSet(item) : WordAt(item, v, b, FALSE) = Word(v)[b]
                  /\ Others(s, item, Word(v))
         [] slot.mode = "int" ->
              \A i \in DOMAIN vals :
                  Is([n \in DOMAIN item.bits |-> (n - 1) \in Digits(vals[i])], Word(vals[i]))
         [] slot.mode = "bitvec" ->
              /\ Is(All(FALSE), slot.base)
              /\ \A n \in 1..Width(vals[1]) :
                    Is([All(FALSE) EXCEPT ![n] = TRUE], slot.words[vals[1]][n])
         [] OTHER -> Is(All(FALSE), Word(vals[1])) /\ Is(All(TRUE), Word(vals[2]))

\* An item of the database means what the device does: put into the item's bits, a
\* value gives the configuration that the vendor's tool makes of it, although the bits
\* came from several places and parts, and some of the tool's results were wrong - as
\* long as of each feature one result was right.
DbTrue ==
    status = "run" =>
        \A s \in Slots : trusted[s] /\ Neutral(s) /\ Separate(s) => \A item \in tiledb[s] : Decodes(s, item)

\* The devices a collector is written for.  A number has its digits in bits of their
\* own, and all that they can make are numbers ...
NumbersFit(slot, vals) ==
    LET digits == UNION {Digits(v) : v \in vals} IN
    /\ digits = 0..(Cardinality(digits) - 1)
    /\ {Digits(v) : v \in vals} = SUBSET digits
    /\ \E at \in [digits -> DOMAIN slot.base] :
          /\ \A m, n \in digits : at[m] = at[n] => m = n
          /\ \A v \in vals : slot.words[v][1] = [b \in DOMAIN slot.base |->
                IF \E n \in digits : at[n] = b THEN \E n \in Digits(v) : at[n] = b
                ELSE slot.base[b]]

\* ... an element of a vector is a bit ...
VectorFits(s) ==
    LET v == case.parts[1][1] IN
    \A n \in 1..Width(v) : Cardinality(Changed(s, case.slots[s].words[v][n])) = 1

\* ... and a boolean is on where it was off.
BoolFits(s) ==
    LET Change(v) == Changed(s, case.slots[s].words[v][1]) IN
    /\ {} \in {Change(v) : v \in Vals(1)}
    /\ Cardinality(UNION {Change(v) : v \in Vals(1)}) = 1

MixedFits(s) ==
    LET Change(i) == Changed(s, case.slots[s].words[case.parts[1][i]][1]) IN
    Change(1) \cap Change(2) = {}

Level(word, bits) == \A b, c \in bits : word[b] = word[c]

WideFits(s) ==
    LET Word(i) == case.slots[s].words[case.parts[1][i]][1] IN
    Level(Word(1), Changed(s, Word(1)) \cup Changed(s, Word(2)))

Fits(s) ==
    LET mode == case.slots[s].mode IN
    IF Enumeration(s) THEN Neutral(s)
    ELSE /\ mode = "int" => NumbersFit(case.slots[s], Vals(1))
         /\ mode = "bitvec" => VectorFits(s)
         /\ mode = "bool" => BoolFits(s)
         /\ mode = "wide" => WideFits(s)
         /\ mode \in {"wide", "mixed"} => MixedFits(s)

\* As long as the tool is right the session does not panic: the places of a tile class
\* show a feature in the same bits, mirrored or not, and a device that fits its
\* collectors and looks the same in all parts gets through them.
NoFalseAlarm ==
    noise = 0 => status # "oops" /\ (status = "failed" => \E s \in Slots : ~Fits(s))
=============================================================================
