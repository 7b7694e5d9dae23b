------------------------------ MODULE Harvester ------------------------------
(***************************************************************************)
(* The deduction engine of re/harvester: it is shown samples (the bits     *)
(* that changed in a bitstream together with the named patterns of the     *)
(* design that explain them) and works out which bits belong to which      *)
(* pattern.                                                                *)
(*                                                                         *)
(* The hidden device is the variable `truth`: the bits every pattern       *)
(* really stands for.  No action reads it except the ones that build the   *)
(* inputs of the engine (a sample, a forced pattern): the engine itself    *)
(* sees only diffs and names.                                              *)
(*                                                                         *)
(* A position (tile, frame, bit) with its new value is a <<tile, offset>>  *)
(* pair: an offset stands for (frame, bit, value).                         *)
(***************************************************************************)
EXTENDS Naturals

CONSTANTS
    Tiled,       \* names of the patterns placed at a list of bit tiles
    Global,      \* names of the patterns whose bits are at a fixed place
    Tiles,       \* bit tiles of the device
    Offsets,     \* (frame, bit, value) triples inside a bit tile
    Places,      \* the tile lists each tiled pattern can be sampled at
    NoTiles,     \* the `tiles: None` of a global pattern
    Truths,      \* the devices considered: functions from names to bits
    Flagged,     \* names the callers add with the `_single` methods
    Designs,     \* the sets of patterns a design may be made of
    MaxSamples   \* bound: how many samples the engine stores

Names == Tiled \cup Global

\* The slots (indices into the tile list) of a tiled pattern.
Slots(n) == UNION {DOMAIN t : t \in Places[n]}

\* Bits as a pattern knows them: relative to its tile list, or absolute.
LocalBits(n) == (IF n \in Global THEN Tiles ELSE Slots(n)) \X Offsets

AllLocalBits == UNION {LocalBits(n) : n \in Names}

ASSUME NamesDisjoint == Tiled \cap Global = {}

ASSUME PlacesFit ==
    \A n \in Tiled : \A t \in Places[n] :
        /\ DOMAIN t = Slots(n)
        /\ Slots(n) # {}
        /\ \A i \in Slots(n) : t[i] \in Tiles

\* `len() == 1` of a map of bits.
IsSingle(S) == \E x \in S : S = {x}

ASSUME TruthsFit ==
    \A tr \in Truths :
        /\ tr \in [Names -> SUBSET AllLocalBits]
        /\ \A n \in Names : tr[n] \subseteq LocalBits(n)
        /\ \A n \in Flagged : IsSingle(tr[n])

ASSUME MaxSamplesNat == MaxSamples \in Nat

SampleIds == 1..MaxSamples
DeviceBits == Tiles \X Offsets
Patterns ==
    (UNION {{[name |-> n, tiles |-> t] : t \in Places[n]} : n \in Tiled})
        \cup {[name |-> n, tiles |-> NoTiles] : n \in Global}

ASSUME DesignsFit == Flagged \subseteq Names /\ Designs \subseteq SUBSET Patterns

\* Where bit l of pattern p is in the device.
At(p, l) == IF p.name \in Global THEN l ELSE <<p.tiles[l[1]], l[2]>>

VARIABLES
    truth,    \* the device (never changes)
    status,   \* "absent", "work" (in work_*) or "known" (in known_*)
    known,    \* bits found so far, or all bits of a known pattern
    single,   \* WorkPattern*.single
    locs,     \* WorkPattern*.locs: the samples and patterns waiting for a name
    stored,   \* samples.len()
    diff,     \* WorkSample.diff: the bits of a sample nobody owns yet
    act,      \* WorkSample.global_patterns and tiled_patterns
    pending,  \* pending_samples
    pc,       \* where process() is, "idle" outside it, "failed" after a panic
    todo,     \* samples this round still has to scan
    cur,      \* the sample being scanned
    bits,     \* its bits still to judge (a snapshot of its diff)
    changed,  \* process(): did this round change anything
    pairs,    \* process(): bits with exactly two tiled candidates
    triples,  \* process(): bits with exactly three tiled candidates
    ded       \* deductions from triples still to apply

world == <<truth>>
store == <<status, known, single, locs, stored, diff, act, pending>>
scan == <<pc, todo, cur, bits, changed, pairs, triples, ded>>
vars == <<world, store, scan>>

-----------------------------------------------------------------------------
(* Helpers: the methods the operations are built from.                     *)

\* The removals that learning the (name, bit) pairs K entails: one for every
\* place a sample waits for the name.
Hits(K) ==
    UNION {{<<e[1], e[2], k[2]>> : e \in locs[k[1]]} : k \in K}

\* Every removal finds its bit, and no two of them want the same one.
Removable(K) ==
    \A h \in Hits(K) :
        /\ At(h[2], h[3]) \in diff[h[1]]
        /\ \A g \in Hits(K) :
              g[1] = h[1] /\ At(g[2], g[3]) = At(h[2], h[3]) => g = h

\* A mistake: only the sample being scanned loses the bit.
DiffWithoutHereOnly(K) ==
    [diff EXCEPT ![cur] = @ \ {At(h[2], h[3]) : h \in {g \in Hits(K) : g[1] = cur}}]

DiffWithout(K) ==
    [s \in SampleIds |->
        diff[s] \ {At(h[2], h[3]) : h \in {g \in Hits(K) : g[1] = s}}]

KnownWith(K) == [n \in Names |-> known[n] \cup {l \in AllLocalBits : <<n, l>> \in K}]

\* A mistake: the samples keep listing the finished names.
ActStale(Q) == act

\* finish_tiled / finish_global for the names Q: the asserts they make ...
CanFinish(Q, knw) ==
    \A n \in Q :
        /\ single[n] => IsSingle(knw[n])
        /\ \A e \in locs[n] : e[2] \in act[e[1]]

\* ... and what is left of the indices afterwards.
ActWithout(Q) ==
    [s \in SampleIds |->
        {p \in act[s] : \A n \in Q : <<s, p>> \notin locs[n]}]

Finished(Q) ==
    /\ status' = [n \in Names |-> IF n \in Q THEN "known" ELSE status[n]]
    /\ single' = [n \in Names |-> IF n \in Q THEN FALSE ELSE single[n]]
    /\ locs' = [n \in Names |-> IF n \in Q THEN {} ELSE locs[n]]
    /\ act' = ActWithout(Q)

Panic ==
    /\ pc' = "failed"
    /\ UNCHANGED <<world, store, todo, cur, bits, changed, pairs, triples, ded>>

\* tiled_bit_possible / global_bit_possible
Possible(n, l) == \A e \in locs[n] : At(e[2], l) \in diff[e[1]]

\* A mistake: global patterns are not considered.
CandsTiledOnly(s, b) ==
    UNION {{<<p, l>> : l \in {m \in LocalBits(p.name) : At(p, m) = b}} :
              p \in {q \in act[s] : q.name \in Tiled}}

\* The candidate owners of bit b of sample s.
Cands(s, b) ==
    UNION {{<<p, l>> : l \in {m \in LocalBits(p.name) :
                                At(p, m) = b /\ Possible(p.name, m)}} : p \in act[s]}

\* add_known_bit_tiled / add_known_bit_global.
AddKnownBit(n, l) ==
    IF status[n] = "known" \/ l \in known[n]
    THEN /\ l \in known[n]
         /\ UNCHANGED store
    ELSE /\ Removable({<<n, l>>})
         /\ status' = [status EXCEPT ![n] = "work"]
         /\ known' = [known EXCEPT ![n] = @ \cup {l}]
         /\ diff' = DiffWithout({<<n, l>>})
         /\ UNCHANGED <<single, locs, stored, act, pending>>

KnownBitOk(n, l) ==
    IF status[n] = "known" \/ l \in known[n] THEN l \in known[n]
                                             ELSE Removable({<<n, l>>})

-----------------------------------------------------------------------------
(* What the callers hand in: samples of the device.                        *)

Image(p, S) == {At(p, l) : l \in S}

\* A design's patterns own disjoint bits of the device.
Disjoint(P) ==
    \A p, q \in P : \A l \in truth[p.name], m \in truth[q.name] :
        At(p, l) = At(q, m) => p = q /\ l = m

\* The diff of a design made of the patterns P.
DiffOf(P) == UNION {Image(p, truth[p.name]) : p \in P}

\* What the patterns P still owe a sample, when k is known of their names.
Owed(tr, k, P) == UNION {Image(p, tr[p.name] \ k[p.name]) : p \in P}

-----------------------------------------------------------------------------
Init ==
    /\ truth \in Truths
    /\ status = [n \in Names |-> "absent"]
    /\ known = [n \in Names |-> {}]
    /\ single = [n \in Names |-> FALSE]
    /\ locs = [n \in Names |-> {}]
    /\ stored = 0
    /\ diff = [s \in SampleIds |-> {}]
    /\ act = [s \in SampleIds |-> {}]
    /\ pending = {}
    /\ pc = "idle"
    /\ todo = {}
    /\ cur = 0
    /\ bits = {}
    /\ changed = FALSE
    /\ pairs = {}
    /\ triples = {}
    /\ ded = {}

\* want_tiled / want_global
Want(n) ==
    /\ pc = "idle"
    /\ status[n] = "absent"
    /\ status' = [status EXCEPT ![n] = "work"]
    /\ UNCHANGED <<world, known, single, locs, stored, diff, act, pending, scan>>

\* force_tiled / force_global with the true bits of n.
Missing(n) == {<<n, l>> : l \in truth[n] \ known[n]}

ForceBits(n) ==
    /\ pc = "idle"
    /\ IF status[n] = "known"
       THEN IF known[n] = truth[n] THEN UNCHANGED vars ELSE Panic
       ELSE IF /\ Removable(Missing(n))
               /\ KnownWith(Missing(n))[n] = truth[n]
               /\ CanFinish({n}, KnownWith(Missing(n)))
            THEN /\ known' = KnownWith(Missing(n))
                 /\ diff' = DiffWithout(Missing(n))
                 /\ Finished({n})
                 /\ UNCHANGED <<world, stored, pending, scan>>
            ELSE Panic

\* add_sample for the design made of the patterns P.
AddSample(P) ==
    LET waiting == {p \in P : status[p.name] # "known"}
        claimed == UNION {Image(p, known[p.name]) : p \in P}
        fits == /\ claimed \subseteq DiffOf(P)
                /\ \A p, q \in P : \A l \in known[p.name], m \in known[q.name] :
                      At(p, l) = At(q, m) => p = q /\ l = m
        rest == DiffOf(P) \ claimed
        new == stored + 1
        waitingNames == {p.name : p \in waiting}
    IN
    /\ pc = "idle"
    /\ Disjoint(P)
    /\ \/ /\ ~fits \/ (waiting = {} /\ rest # {})
          /\ Panic
       \/ /\ fits /\ waiting = {} /\ rest = {}      \* returns None
          /\ UNCHANGED vars
       \/ /\ fits /\ waiting # {} /\ stored < MaxSamples
          /\ stored' = new
          /\ diff' = [diff EXCEPT ![new] = rest]
          /\ act' = [act EXCEPT ![new] = waiting]
          /\ pending' = pending \cup {new}
          /\ status' = [n \in Names |-> IF n \in waitingNames THEN "work" ELSE status[n]]
          /\ single' = [n \in Names |-> single[n] \/ n \in waitingNames \cap Flagged]
          /\ locs' = [n \in Names |->
                        locs[n] \cup {<<new, p>> : p \in {q \in waiting : q.name = n}}]
          /\ UNCHANGED <<world, known, scan>>

\* rename_global: the caller has found out that two names are one pattern.
Renamed(from, to, p) == IF p.name = from THEN [p EXCEPT !.name = to] ELSE p

\* One name is known to have no bits and the other was never seen: the code
\* takes an entry away that it never made and panics.  Callers must not ask.
EmptyRename(from, to) ==
    /\ {status[from], status[to]} = {"absent", "known"}
    /\ known[from] \cup known[to] = {}

RenameGlobal(from, to) ==
    LET both == {from, to}
        merged == known[from] \cup known[to]
        anyKnown == \E n \in both : status[n] = "known"
        \* what each of the two names has yet to be told
        K == {k \in both \X merged : k[2] \notin known[k[1]]}
        \* add_known_bit_global creates the entry finish_global takes away
        entries == {n \in both : status[n] = "work" \/ \E k \in K : k[1] = n}
        ok == /\ \A n \in both : status[n] = "known" => known[n] = merged
              /\ Removable(K)
              /\ anyKnown => /\ \A n \in both : status[n] = "known" \/ n \in entries
                             /\ CanFinish({n \in both : status[n] # "known"}, KnownWith(K))
    IN
    /\ pc = "idle"
    /\ from # to
    /\ truth[from] = truth[to]
    /\ ~EmptyRename(from, to)
    /\ IF ~ok THEN Panic ELSE
       /\ diff' = DiffWithout(K)
       /\ IF anyKnown
          THEN /\ status' = [status EXCEPT ![from] = "absent", ![to] = "known"]
               /\ known' = [known EXCEPT ![from] = {}, ![to] = merged]
               /\ single' = [single EXCEPT ![from] = FALSE, ![to] = FALSE]
               /\ locs' = [locs EXCEPT ![from] = {}, ![to] = {}]
               /\ act' = ActWithout(both)
          ELSE /\ status' = [status EXCEPT ![from] = "absent",
                                ![to] = IF from \in entries THEN "work" ELSE @]
               /\ known' = [known EXCEPT ![from] = {}, ![to] = merged]
               /\ single' = [single EXCEPT ![from] = FALSE, ![to] = @ \/ single[from]]
               /\ locs' = [locs EXCEPT ![from] = {},
                             ![to] = @ \cup {<<e[1], Renamed(from, to, e[2])>> : e \in locs[from]}]
               /\ act' = [s \in SampleIds |-> {Renamed(from, to, p) : p \in act[s]}]
       /\ UNCHANGED <<world, stored, pending, scan>>

-----------------------------------------------------------------------------
(* process(): rounds over the pending samples until nothing changes.       *)

\* Mistakes: a round that skips the sample looked at last, and one that scans
\* every sample ever stored.
BeginRoundSkips ==
    /\ pc' = "scan"
    /\ todo' = pending \ {cur}
    /\ changed' = FALSE
    /\ pairs' = {}
    /\ triples' = {}
    /\ UNCHANGED <<cur, bits, ded>>

BeginRoundAll ==
    /\ pc' = "scan"
    /\ todo' = 1..stored
    /\ changed' = FALSE
    /\ pairs' = {}
    /\ triples' = {}
    /\ UNCHANGED <<cur, bits, ded>>

BeginRound ==
    /\ pc' = "scan"
    /\ todo' = pending
    /\ changed' = FALSE
    /\ pairs' = {}
    /\ triples' = {}
    /\ UNCHANGED <<cur, bits, ded>>

Process ==
    /\ pc = "idle"
    /\ BeginRound
    /\ UNCHANGED <<world, store>>

\* The next sample, with a snapshot of its diff.
PickSample(s) ==
    /\ pc = "scan"
    /\ s \in todo
    /\ pc' = "judge"
    /\ cur' = s
    /\ bits' = diff[s]
    /\ UNCHANGED <<world, store, todo, changed, pairs, triples, ded>>

\* Two or three candidates, all tiled and at one slot, are remembered as
\* <<name, name, (name,) local bit>> for the triple rule.  Names are in the order
\* of the sample's pattern ids, which follows tile lists the model leaves open.
OneSlot(C) == \A c, d \in C : c[1].name \in Tiled /\ c[2] = d[2]

PairsOf(C) ==
    {<<x[1][1].name, x[2][1].name, x[1][2]>> :
        x \in {y \in C \X C : y[1] # y[2] /\ C = {y[1], y[2]} /\ OneSlot(C)}}

TriplesOf(C) ==
    {<<x[1][1].name, x[2][1].name, x[3][1].name, x[1][2]>> :
        x \in {y \in C \X C \X C :
                 /\ y[1] # y[2] /\ y[1] # y[3] /\ y[2] # y[3]
                 /\ C = {y[1], y[2], y[3]} /\ OneSlot(C)}}

\* Judge bit b of the snapshot.
Judge(b) ==
    LET C == Cands(cur, b) IN
    /\ pc = "judge"
    /\ b \in bits
    /\ IF b \notin diff[cur]                 \* removed in the meantime
       THEN /\ bits' = bits \ {b}
            /\ UNCHANGED <<world, store, pc, todo, cur, changed, pairs, triples, ded>>
       ELSE IF C = {} THEN Panic
       ELSE IF ~IsSingle(C)
       THEN /\ bits' = bits \ {b}
            /\ \/ /\ PairsOf(C) = {} /\ pairs' = pairs
               \/ \E x \in PairsOf(C) : pairs' = pairs \cup {x}
            /\ \/ /\ TriplesOf(C) = {} /\ triples' = triples
               \/ \E x \in TriplesOf(C) : triples' = triples \cup {x}
            /\ UNCHANGED <<world, store, pc, todo, cur, changed, ded>>
       ELSE \E c \in C :
            IF KnownBitOk(c[1].name, c[2])
            THEN /\ AddKnownBit(c[1].name, c[2])
                 /\ bits' = bits \ {b}
                 /\ changed' = TRUE
                 /\ UNCHANGED <<world, pc, todo, cur, pairs, triples, ded>>
            ELSE Panic

\* All bits judged: finish the patterns this sample shows to be complete.
TilesOf(p) == {p.tiles[i] : i \in DOMAIN p.tiles}

Complete(s) ==
    IF diff[s] = {}
    THEN {p.name : p \in act[s]}
    ELSE {p.name : p \in {q \in act[s] :
             q.name \in Tiled /\ \A b \in diff[s] : b[1] \notin TilesOf(q)}}

FinishSample ==
    LET Q == Complete(cur) IN
    /\ pc = "judge"
    /\ bits = {}
    /\ IF CanFinish(Q, known) /\ (diff[cur] # {} => ActWithout(Q)[cur] # {})
       THEN /\ Finished(Q)
            /\ pending' = IF diff[cur] = {} THEN pending \ {cur} ELSE pending
            /\ changed' = (changed \/ diff[cur] = {} \/ Q # {})
            /\ pc' = "scan"
            /\ todo' = todo \ {cur}
            /\ UNCHANGED <<world, known, stored, diff, cur, bits, pairs, triples, ded>>
       ELSE Panic

\* A triple with two of its pairs settles whose the bit is: the name the two
\* pairs share.
Paired(t, i, j) == <<t[i], t[j], t[4]>> \in pairs

\* A mistake: one pair is taken for proof.
DeductionsOnePair ==
    {d \in Names \X AllLocalBits : \E t \in triples :
        /\ d[2] = t[4]
        /\ \/ d[1] = t[1] /\ Paired(t, 1, 2)
           \/ d[1] = t[2] /\ Paired(t, 2, 3)
           \/ d[1] = t[3] /\ Paired(t, 1, 3)}

Deductions ==
    {d \in Names \X AllLocalBits : \E t \in triples :
        /\ d[2] = t[4]
        /\ \/ d[1] = t[1] /\ Paired(t, 1, 2) /\ Paired(t, 1, 3)
           \/ d[1] = t[2] /\ Paired(t, 1, 2) /\ Paired(t, 2, 3)
           \/ d[1] = t[3] /\ Paired(t, 1, 3) /\ Paired(t, 2, 3)}

EndScan ==
    /\ pc = "scan"
    /\ todo = {}
    /\ pc' = "triples"
    /\ ded' = Deductions
    /\ UNCHANGED <<world, store, todo, cur, bits, changed, pairs, triples>>

\* One deduction of the triple rule.  It does not set `changed`.
ApplyTriple(n, l) ==
    /\ pc = "triples"
    /\ <<n, l>> \in ded
    /\ IF KnownBitOk(n, l)
       THEN /\ AddKnownBit(n, l)
            /\ ded' = ded \ {<<n, l>>}
            /\ UNCHANGED <<world, pc, todo, cur, bits, changed, pairs, triples>>
       ELSE Panic

\* A mistake: every name with one bit is taken for a single.
AnyOneFound == {n \in Names : status[n] = "work" /\ IsSingle(known[n])}

\* The names marked single whose one bit has been found.
SinglesFound == {n \in Names : status[n] = "work" /\ single[n] /\ IsSingle(known[n])}

EndRound ==
    /\ pc = "triples"
    /\ ded = {}
    /\ IF CanFinish(SinglesFound, known)
       THEN /\ Finished(SinglesFound)
            /\ UNCHANGED <<world, known, stored, diff, pending>>
            /\ IF changed \/ SinglesFound # {}
               THEN BeginRound
               ELSE /\ pc' = "idle"
                    /\ UNCHANGED <<todo, cur, bits, changed, pairs, triples, ded>>
       ELSE Panic

-----------------------------------------------------------------------------
ProcessStep ==
    \/ \E s \in SampleIds : PickSample(s)
    \/ \E b \in DeviceBits : Judge(b)
    \/ FinishSample
    \/ EndScan
    \/ \E n \in Names, l \in AllLocalBits : ApplyTriple(n, l)
    \/ EndRound

Next ==
    \/ \E n \in Names : Want(n)
    \/ \E n \in Names : ForceBits(n)
    \/ \E P \in Designs : AddSample(P)
    \/ \E from, to \in Global : RenameGlobal(from, to)
    \/ Process
    \/ ProcessStep

Spec == Init /\ [][Next]_vars

\* process() is an ordinary function: once called it runs on.
FairSpec == Spec /\ WF_vars(ProcessStep)

-----------------------------------------------------------------------------
TypeOK ==
    /\ truth \in Truths
    /\ status \in [Names -> {"absent", "work", "known"}]
    /\ known \in [Names -> SUBSET AllLocalBits]
    /\ single \in [Names -> BOOLEAN]
    /\ locs \in [Names -> SUBSET (SampleIds \X Patterns)]
    /\ stored \in 0..MaxSamples
    /\ diff \in [SampleIds -> SUBSET DeviceBits]
    /\ act \in [SampleIds -> SUBSET Patterns]
    /\ pending \subseteq 1..stored
    /\ pc \in {"idle", "scan", "judge", "triples", "failed"}
    /\ todo \subseteq pending
    /\ cur \in 0..stored
    /\ bits \subseteq DeviceBits
    /\ changed \in BOOLEAN
    /\ pairs \subseteq Names \X Names \X AllLocalBits
    /\ triples \subseteq Names \X Names \X Names \X AllLocalBits
    /\ ded \subseteq Names \X AllLocalBits

\* Whatever samples arrive and in whatever order their bits are judged, every
\* bit credited to a name is one the device really gives it, and a name declared
\* known has all of its bits (add_known_bit_*, finish_*, the triple rule).
Sound == \A n \in Names : known[n] \subseteq truth[n]

Exact == \A n \in Names : status[n] = "known" => known[n] = truth[n]

\* The bits left in a stored sample are those its waiting patterns still owe:
\* nothing is lost, and nothing found is left behind (remove_bit, finish_*).
Explained ==
    \A s \in 1..stored : diff[s] = Owed(truth, known, act[s])

\* The two indices agree: a name waits in a sample exactly when the sample lists
\* it as unfinished, and only names in work wait (the asserts of finish_*).
IndexAgree ==
    /\ \A n \in Names : \A e \in SampleIds \X Patterns :
          e \in locs[n] <=> e[2] \in act[e[1]] /\ e[2].name = n
    /\ \A n \in Names : locs[n] # {} => status[n] = "work"

\* On samples of a real device no operation ever panics.
NeverFails == pc # "failed"

\* When process() returns, one more round would find nothing, unless the triple
\* rule fired in the last round (it does not set `changed`).
Settled ==
    /\ \A s \in pending :
          /\ \A b \in diff[s] : Cands(s, b) # {} /\ ~IsSingle(Cands(s, b))
          /\ diff[s] # {}
          /\ Complete(s) = {}
    /\ SinglesFound = {}

ReturnsSettled ==
    [][pc = "triples" /\ pc' = "idle" /\ Deductions = {} => Settled']_vars

\* The engine implements the oracle its callers rely on: knowledge is true, only
\* grows, is complete when declared complete, and passes whole to the new name
\* when rename_global merges two.
Oracle == INSTANCE DeductionOracle WITH
    Bits <- AllLocalBits, learned <- known, done <- {n \in Names : status[n] = "known"}

ImplementsOracle == Oracle!Spec

\* process() terminates: a round that reports a change has made progress.
ProcessTerminates == pc = "scan" ~> pc \in {"idle", "failed"}
=============================================================================
