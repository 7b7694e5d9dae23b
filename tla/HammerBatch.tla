----------------------------- MODULE HammerBatch -----------------------------
(***************************************************************************)
(* How the hammer packs fuzzers into batches (re/hammer, with the          *)
(* generators of re/fpga-hammer).  A fuzzer demands values of configuration*)
(* keys: some must be held at a base value, some may be at any of a set,   *)
(* and some it switches between two values.  Fuzzers whose demands agree   *)
(* share a batch, which is then built as one series of bitstreams.         *)
(*                                                                         *)
(* A generator is the set of places (sites) it can be tried at.  At a site *)
(* some of its properties may be `sad`: the site cannot show them.  Then   *)
(* a chain of further fuzzers follows until every property has been happy. *)
(***************************************************************************)
EXTENDS Naturals, Sequences, FiniteSets

CONSTANTS
    Keys,        \* configuration keys
    Values,      \* their values
    Multis,      \* multi-bit values (MultiValue)
    Props,       \* properties of generators
    Generators,  \* the generators considered, with their repeat counts
    MaxGens      \* bound: how many generators the caller adds

\* A key that a map has no entry for.
Unset == [kind |-> "unset"]

\* What a fuzzer may ask of a key (FuzzerValue).
Demands ==
    {Unset} \cup [kind : {"base"}, val : Values]
        \cup [kind : {"any"}, vals : (SUBSET Values) \ {{}}]
        \cup [kind : {"fuzz"}, from : Values, to : Values]
        \cup [kind : {"multi"}, val : Multis]

\* A site is what the fuzzer demands there and the properties that are sad.
Sites == [kv : [Keys -> Demands], sad : SUBSET Props]

ASSUME GeneratorsFit == Generators \subseteq [sites : SUBSET Sites, dup : Nat \ {0}]

ASSUME MaxGensNat == MaxGens \in Nat

VARIABLES
    pc,       \* "open", "prep" (in prep_batches), "ready" or "failed" (panic)
    fgens,    \* the generators with their repeat counts
    left,     \* installations of each generator still to start
    chain,    \* the chain being followed: [gen, sad], sad = {} if none
    batches   \* the batches: [kv, fuzzers]
vars == <<pc, fgens, left, chain, batches>>

NoChain == [gen |-> 0, sad |-> {}]
EmptyBatch == [kv |-> [k \in Keys |-> Unset], fuzzers |-> <<>>]

-----------------------------------------------------------------------------
(* Does a fuzzer fit a batch?                                              *)

\* A mistake: only one of the two values of a switched key is looked up.
HalfIn(v, S) == v.from \in S

BothIn(v, S) == {v.from, v.to} \subseteq S

\* The batch's entry cv admits the demand v.
Agrees(cv, v) ==
    \/ cv.kind = "unset" \/ v.kind = "unset"
    \/ cv.kind = "base" /\ v.kind = "base" /\ cv.val = v.val
    \/ cv.kind = "base" /\ v.kind = "any" /\ cv.val \in v.vals
    \/ cv.kind = "any" /\ v.kind = "base" /\ v.val \in cv.vals
    \/ cv.kind = "any" /\ v.kind = "any" /\ cv.vals \cap v.vals # {}
    \/ cv.kind = "any" /\ v.kind = "fuzz" /\ BothIn(v, cv.vals)
    \/ cv.kind = "fuzz" /\ v.kind = "any" /\ BothIn(cv, v.vals)

\* Fuzzer::is_ok
IsOk(kv, dem) == \A k \in Keys : Agrees(kv[k], dem[k])

-----------------------------------------------------------------------------
(* Batch::install_fuzzer                                                   *)

Clash == [kind |-> "clash"]

\* The demand v of fuzzer i, as an entry of a batch (BatchValue).
Entry(v, i) ==
    CASE v.kind = "fuzz" -> [kind |-> "fuzz", owner |-> i, from |-> v.from, to |-> v.to]
      [] v.kind = "multi" -> [kind |-> "multi", owner |-> i, val |-> v.val]
      [] OTHER -> v

\* A mistake: of two sets of allowed values the batch keeps its own.
NarrowedKeep(S, T) == IF S \cap T = {} THEN Clash ELSE [kind |-> "any", vals |-> S]

Narrowed(S, T) == IF S \cap T = {} THEN Clash ELSE [kind |-> "any", vals |-> S \cap T]

\* The entry cv narrowed to what fuzzer i demands of it too.
Merged(cv, v, i) ==
    CASE v.kind = "unset" -> cv
      [] cv.kind = "unset" /\ v.kind # "unset" -> Entry(v, i)
      [] cv.kind = "base" /\ v.kind = "base" -> IF cv.val = v.val THEN cv ELSE Clash
      [] cv.kind = "base" /\ v.kind = "any" -> IF cv.val \in v.vals THEN cv ELSE Clash
      [] cv.kind = "any" /\ v.kind = "base" -> IF v.val \in cv.vals THEN v ELSE Clash
      [] cv.kind = "any" /\ v.kind = "any" -> Narrowed(cv.vals, v.vals)
      [] cv.kind = "any" /\ v.kind = "fuzz" ->
            IF v.from \in cv.vals /\ v.to \in cv.vals THEN Entry(v, i) ELSE Clash
      [] cv.kind = "fuzz" /\ v.kind = "any" ->
            IF cv.from \in v.vals /\ cv.to \in v.vals THEN cv ELSE Clash
      [] OTHER -> Clash

\* The entries of batch b once a fuzzer with the demands dem has joined.
NewKv(b, dem) == [k \in Keys |-> Merged(b.kv[k], dem[k], Len(b.fuzzers) + 1)]

\* One clash and the batch is left as it was.
Installs(b, dem) == \A k \in Keys : NewKv(b, dem)[k].kind # "clash"

With(b, f) == [kv |-> NewKv(b, f.kv), fuzzers |-> Append(b.fuzzers, f)]

-----------------------------------------------------------------------------
(* Generators.                                                             *)

\* Something of S, sad throughout the chain so far, is happy at site t.
ShowsMore(S, t) == ~(S \subseteq t.sad)

\* The fuzzers generator g can offer the entries kv.  In a chain it
\* offers only sites that show more.
Generated(g, S, kv) ==
    {[gen |-> g, kv |-> s.kv, sad |-> s.sad] :
        s \in {t \in fgens[g].sites :
                 IsOk(kv, t.kv) /\ (S # {} => ShowsMore(S, t))}}

\* A mistake: the chain ends at once.
StillSadStops(S, f) == {}

\* What the chain still has to show after fuzzer f.
StillSad(S, f) == IF S = {} THEN f.sad ELSE f.sad \cap S

\* Session::install_fuzzer goes through the batches in order; one is passed
\* over if the generator has nothing for it or the batch refuses what it got.
MayPass(g, S, b) ==
    \/ Generated(g, S, b.kv) = {}
    \/ \E f \in Generated(g, S, b.kv) : ~Installs(b, f.kv)

Install(g, S) ==
    LET all == Append(batches, EmptyBatch) IN
    \/ \E i \in 1..Len(all) :
         /\ \A j \in 1..(i - 1) : MayPass(g, S, all[j])
         /\ \E f \in Generated(g, S, all[i].kv) :
              /\ Installs(all[i], f.kv)
              /\ batches' = IF i > Len(batches)
                            THEN Append(batches, With(EmptyBatch, f))
                            ELSE [batches EXCEPT ![i] = With(@, f)]
              /\ chain' = IF StillSad(S, f) = {} THEN NoChain
                          ELSE [gen |-> g, sad |-> StillSad(S, f)]
         /\ UNCHANGED pc
    \/ /\ \A j \in 1..Len(all) : MayPass(g, S, all[j])   \* even an empty batch
       /\ pc' = "failed"
       /\ UNCHANGED <<batches, chain>>

-----------------------------------------------------------------------------
Init ==
    /\ pc = "open"
    /\ fgens = <<>>
    /\ left = <<>>
    /\ chain = NoChain
    /\ batches = <<>>

\* Session::add_fuzzer with FuzzerGenHandle::dup
AddFuzzer(G) ==
    /\ pc = "open"
    /\ Len(fgens) < MaxGens
    /\ fgens' = Append(fgens, G)
    /\ UNCHANGED <<pc, left, chain, batches>>

\* Session::run calls prep_batches, which shuffles the repeated generators.
Run ==
    /\ pc = "open"
    /\ pc' = "prep"
    /\ left' = [g \in 1..Len(fgens) |-> fgens[g].dup]
    /\ UNCHANGED <<fgens, chain, batches>>

Start(g) ==
    /\ pc = "prep"
    /\ chain = NoChain
    /\ left[g] > 0
    /\ left' = [left EXCEPT ![g] = @ - 1]
    /\ Install(g, {})
    /\ UNCHANGED fgens

Follow ==
    /\ pc = "prep"
    /\ chain # NoChain
    /\ Install(chain.gen, chain.sad)
    /\ UNCHANGED <<fgens, left>>

Finish ==
    /\ pc = "prep"
    /\ chain = NoChain
    /\ \A g \in 1..Len(fgens) : left[g] = 0
    /\ pc' = "ready"
    /\ UNCHANGED <<fgens, left, chain, batches>>

Next ==
    \/ \E G \in Generators : AddFuzzer(G)
    \/ Run
    \/ \E g \in 1..Len(fgens) : Start(g)
    \/ Follow
    \/ Finish

Spec == Init /\ [][Next]_vars

-----------------------------------------------------------------------------
\* The fuzzers the generators can make.
Made ==
    UNION {{[gen |-> g, kv |-> s.kv, sad |-> s.sad] : s \in fgens[g].sites} :
              g \in DOMAIN fgens}

Entries ==
    {Unset} \cup [kind : {"base"}, val : Values]
        \cup [kind : {"any"}, vals : (SUBSET Values) \ {{}}]
        \cup [kind : {"fuzz"}, owner : Nat, from : Values, to : Values]
        \cup [kind : {"multi"}, owner : Nat, val : Multis]

TypeOK ==
    /\ pc \in {"open", "prep", "ready", "failed"}
    /\ fgens \in Seq(Generators)
    /\ left \in Seq(Nat)
    /\ IF pc = "open" THEN chain = NoChain /\ batches = <<>> ELSE Len(left) = Len(fgens)
    /\ chain \in [gen : DOMAIN fgens, sad : (SUBSET Props) \ {{}}] \cup {NoChain}
    /\ batches \in Seq([kv : [Keys -> Entries], fuzzers : Seq(Made)])

\* What the fuzzers of b ask of key k.
Asked(b, k) ==
    [i \in {j \in DOMAIN b.fuzzers : b.fuzzers[j].kv[k].kind # "unset"} |-> b.fuzzers[i].kv[k]]

\* The entry v is exactly what the demands D come to.
Met(D, v) ==
    /\ v.kind = "unset" <=> DOMAIN D = {}
    /\ v.kind = "any" =>
         /\ \A i \in DOMAIN D : D[i].kind = "any"
         /\ v.vals = {x \in Values : \A i \in DOMAIN D : x \in D[i].vals}
    /\ v.kind = "base" =>
         /\ \E i \in DOMAIN D : D[i] = v
         /\ \A i \in DOMAIN D : D[i] = v \/ (D[i].kind = "any" /\ v.val \in D[i].vals)
    /\ v.kind = "fuzz" =>
         /\ v.owner \in DOMAIN D
         /\ D[v.owner] = [kind |-> "fuzz", from |-> v.from, to |-> v.to]
         /\ \A i \in DOMAIN D \ {v.owner} : D[i].kind = "any" /\ {v.from, v.to} \subseteq D[i].vals
    /\ v.kind = "multi" =>
         /\ DOMAIN D = {v.owner}
         /\ D[v.owner] = [kind |-> "multi", val |-> v.val]

\* However fuzzers were packed, a batch's entries are the joint demand of its
\* fuzzers: narrowing for a later one breaks no earlier one, no switched key has
\* two owners, and a refused fuzzer leaves no trace (Batch::install_fuzzer).
DemandsMet ==
    \A i \in DOMAIN batches, k \in Keys : Met(Asked(batches[i], k), batches[i].kv[k])

\* Fuzzer::is_ok and Batch::install_fuzzer decide alike: a generated fuzzer is
\* never refused, neither silently nor by "failed to add fuzzer on empty batch".
MatricesAgree ==
    \A g \in DOMAIN fgens : \A s \in fgens[g].sites : \A i \in DOMAIN batches :
        IsOk(batches[i].kv, s.kv) <=> Installs(batches[i], s.kv)

\* The fuzzers of generator g at which property p was not sad.
HappyAt(g, p) ==
    UNION {{<<i, j>> : j \in {m \in DOMAIN batches[i].fuzzers :
                /\ batches[i].fuzzers[m].gen = g
                /\ p \notin batches[i].fuzzers[m].sad}} : i \in DOMAIN batches}

\* When the batches are ready, every property of every generator is exercised as
\* often as the generator was to be repeated, whichever sites chance picked
\* (FpgaFuzzerChainGen: `sad_props`).
EveryPropExercised ==
    pc = "ready" =>
        \A g \in DOMAIN fgens, p \in Props : Cardinality(HappyAt(g, p)) >= fgens[g].dup

\* prep_batches panics only for a generator without sites, or with properties
\* that no site can show.
FailsOnlyIfHopeless ==
    pc = "failed" =>
        \E g \in DOMAIN fgens :
            fgens[g].sites = {} \/ \E p \in Props : \A s \in fgens[g].sites : p \in s.sad

\* The `while let` loop of prep_batches ends: a chain goes on only with strictly
\* less left to show, so the generators alone bound the number of fuzzers.
ChainShrinks ==
    [][chain # NoChain =>
          \/ pc' = "failed"
          \/ chain' = NoChain
          \/ /\ chain'.gen = chain.gen
             /\ chain'.sad \subseteq chain.sad /\ chain'.sad # chain.sad]_vars
=============================================================================
