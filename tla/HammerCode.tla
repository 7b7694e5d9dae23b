------------------------------ MODULE HammerCode ------------------------------
(***************************************************************************)
(* How one batch of fuzzers is told apart (re/hammer/src/run.rs).  Every   *)
(* bit of every fuzzer (a switch) gets a codeword; run i of the batch turns*)
(* on the switches with bit i in their word.  A position of the bitstream  *)
(* that differs from the base run exactly in the runs of one word belongs  *)
(* to that switch.  All words have as many bits, so that a position        *)
(* several switches set shows none of them: the batch then fails, and the  *)
(* fuzzers are narrowed down to the ones that interfere.                   *)
(***************************************************************************)
EXTENDS Naturals, Sequences, FiniteSets

CONSTANTS
    BitCounts,   \* the batches considered: the `bits` of their fuzzers
    Positions,   \* bit positions of the bitstream
    MaxWidth     \* the bits of a word (64 in the code)

ASSUME BitCountsFit == \A B \in BitCounts : B \in Seq(Nat)
ASSUME MaxWidthNat == MaxWidth \in Nat \ {0, 1}

\* The runs a codeword turns its switch on in.
OneBits(n) == {i \in 0..(MaxWidth - 1) : (n \div 2^i) % 2 = 1}

\* What a power of two is.
ASSUME Powers == \A w \in 0..MaxWidth : 2^w \in Nat /\ 2^(w + 1) = 2 * 2^w

VARIABLES
    stage,    \* "code", "run", "ok", "diagnose", "report" (panic after diagnosis)
              \* or "failed" (assert)
    bitsOf,   \* Fuzzer.bits
    width,    \* number of runs besides the base run
    cw,       \* the word considered next
    todo,     \* switches without a word
    code,     \* BatchData.code
    react,    \* the device: the switches each position reacts to
    found,    \* the positions credited to each switch
    skip      \* diagnose_cw_fail: fuzzers left out
codeVars == <<stage, bitsOf, width, cw, todo, code, react, found, skip>>

Fuzzers == DOMAIN bitsOf
Switches == UNION {{<<f, i>> : i \in 0..(bitsOf[f] - 1)} : f \in Fuzzers}

NoCode == [x \in {} |-> 0]
NoReact == [p \in Positions |-> {}]

\* width.div_ceil(2)
HalfFloor(w) == w \div 2     \* a mistake
Half(w) == (w + 1) \div 2

-----------------------------------------------------------------------------
(* prep_batch: words are tried in order; when they run out the width grows *)
(* and all starts again.  The switches are shuffled first: which is next   *)
(* is left open.                                                           *)

Exhausted == cw >= 2^width

Fits == Cardinality(OneBits(cw)) = Half(width)

CodeInit ==
    /\ stage = "code"
    /\ bitsOf \in BitCounts
    /\ width = 1
    /\ cw = 0
    /\ todo = Switches
    /\ code = NoCode
    /\ react = NoReact
    /\ found = [x \in Switches |-> {}]
    /\ skip = {}

Widen ==
    /\ stage = "code"
    /\ todo # {}
    /\ Exhausted
    /\ width' = width + 1
    /\ IF width' < MaxWidth
       THEN /\ cw' = 0
            /\ code' = NoCode
            /\ todo' = Switches
            /\ UNCHANGED stage
       ELSE /\ stage' = "failed"
            /\ UNCHANGED <<cw, code, todo>>
    /\ UNCHANGED <<bitsOf, react, found, skip>>

Skip ==
    /\ stage = "code"
    /\ todo # {}
    /\ ~Exhausted
    /\ ~Fits
    /\ cw' = cw + 1
    /\ UNCHANGED <<stage, bitsOf, width, todo, code, react, found, skip>>

\* A mistake: two switches get the same word.
NextWordSame == cw

NextWord == cw + 1

Assign(x) ==
    /\ stage = "code"
    /\ x \in todo
    /\ ~Exhausted
    /\ Fits
    /\ code' = [y \in DOMAIN code \cup {x} |-> IF y = x THEN cw ELSE code[y]]
    /\ cw' = NextWord
    /\ todo' = todo \ {x}
    /\ UNCHANGED <<stage, bitsOf, width, react, found, skip>>

-----------------------------------------------------------------------------
(* The runs and what they show.                                            *)

\* The bitstreams are built: the device shows how positions react.
Build ==
    /\ stage = "code"
    /\ todo = {}
    /\ stage' = "run"
    /\ react' \in [Positions -> SUBSET Switches]
    /\ UNCHANGED <<bitsOf, width, cw, todo, code, found, skip>>

\* The runs in which position p differs from the base run: those that turn on
\* one of its switches, fuzzers of S being left out.
Seen(p, S) ==
    {i \in 0..(width - 1) : \E x \in react[p] : x[1] \notin S /\ i \in OneBits(code[x])}

\* A position shows no switch's word (postproc_batch returns Err).
Fails(S) ==
    \E p \in Positions :
        /\ Seen(p, S) # {}
        /\ \A x \in Switches : OneBits(code[x]) # Seen(p, S)

Postproc ==
    /\ stage = "run"
    /\ IF Fails({})
       THEN /\ stage' = "diagnose"
            /\ UNCHANGED found
       ELSE /\ stage' = "ok"
            /\ found' = [x \in Switches |->
                  {p \in Positions : Seen(p, {}) # {} /\ Seen(p, {}) = OneBits(code[x])}]
    /\ UNCHANGED <<bitsOf, width, cw, todo, code, react, skip>>

-----------------------------------------------------------------------------
(* diagnose_cw_fail: leave out fuzzers while the batch still fails.        *)

Left == Fuzzers \ skip

\* The sizes of the three cuts of n fuzzers.
CutSizes(n) ==
    {(n + 1) \div 3, (2 * n + 1) \div 3 - (n + 1) \div 3, n - (2 * n + 1) \div 3}

\* With more than three left, cuts of a third (at random, three times) are tried.
ReduceFast(C) ==
    /\ stage = "diagnose"
    /\ Cardinality(Left) > 3
    /\ C \subseteq Left
    /\ Cardinality(C) \in CutSizes(Cardinality(Left))
    /\ Fails(skip \cup C)
    /\ skip' = skip \cup C
    /\ UNCHANGED <<stage, bitsOf, width, cw, todo, code, react, found>>

\* Then single fuzzers.
ReduceSlow(f) ==
    /\ stage = "diagnose"
    /\ f \in Left
    /\ Fails(skip \cup {f})
    /\ skip' = skip \cup {f}
    /\ UNCHANGED <<stage, bitsOf, width, cw, todo, code, react, found>>

\* A mistake: the cuts are all that is tried while there are more than three.
IrreducibleFast ==
    \A C \in SUBSET Left :
        /\ Cardinality(Left) > 3 /\ Cardinality(C) \in CutSizes(Cardinality(Left))
        => ~Fails(skip \cup C)

\* No fuzzer left can be spared.
Irreducible == \A f \in Left : ~Fails(skip \cup {f})

Report ==
    /\ stage = "diagnose"
    /\ Irreducible
    /\ stage' = "report"
    /\ UNCHANGED <<bitsOf, width, cw, todo, code, react, found, skip>>

CodeNext ==
    \/ Widen
    \/ Skip
    \/ \E x \in Switches : Assign(x)
    \/ Build
    \/ Postproc
    \/ \E C \in SUBSET Fuzzers : ReduceFast(C)
    \/ \E f \in Fuzzers : ReduceSlow(f)
    \/ Report

CodeSpec == CodeInit /\ [][CodeNext]_codeVars

-----------------------------------------------------------------------------
CodeTypeOK ==
    /\ stage \in {"code", "run", "ok", "diagnose", "report", "failed"}
    /\ bitsOf \in BitCounts
    /\ width \in 1..MaxWidth
    /\ cw \in 0..2^width
    /\ todo \subseteq Switches
    /\ code \in [Switches \ todo -> 0..(2^width - 1)]
    /\ react \in [Positions -> SUBSET Switches]
    /\ found \in [Switches -> SUBSET Positions]
    /\ skip \subseteq Fuzzers

\* No two switches share a word, and all words of a batch have as many bits
\* (prep_batch), whichever order the shuffle chose.
CodesFit ==
    stage # "failed" =>
        /\ \A x, y \in DOMAIN code : code[x] = code[y] => x = y
        /\ \A x \in DOMAIN code : Cardinality(OneBits(code[x])) = Half(width)

\* If switches only ever set a position together, postproc_batch is exact: it
\* succeeds just when no position reacts to two switches, and then credits every
\* position to the switch it reacts to.
Attributed ==
    /\ stage = "ok" => \A p \in Positions :
          /\ \A x, y \in react[p] : x = y
          /\ \A x \in Switches : p \in found[x] <=> x \in react[p]
    /\ stage = "diagnose" => \E p \in Positions : \E x, y \in react[p] : x # y

\* The diagnosis ends with the interference itself: one fuzzer or two, two of
\* whose switches meet in a position, none to spare (diagnose_cw_fail).
DiagnosisSharp ==
    stage = "report" =>
        /\ Left # {}
        /\ \E f, g \in Left :
              /\ Left = {f, g}
              /\ \E p \in Positions : \E x, y \in react[p] :
                    x # y /\ x[1] = f /\ y[1] = g
=============================================================================
