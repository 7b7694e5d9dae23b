------------------------------ MODULE IcecubeLoop ------------------------------
(***************************************************************************)
(* The harvesting loop of icecube-harvester (HarvestContext::run): random  *)
(* designs go through the vendor tools, and what comes out is given to     *)
(* three collectors (delays, switches, bit patterns) by worker threads.    *)
(* Runs are kept on disk under a prefix that says what the generator was   *)
(* allowed to use, and replayed by the next start of the program; in the   *)
(* last stage a run nobody learned from is deleted.  Half way through, the *)
(* column buffers of the device are worked out, and from then on samples   *)
(* name them in another way.                                               *)
(*                                                                         *)
(* One index of the eight global nets stands for all.  The harvester is    *)
(* its promise only: process() learns at least the names that wait alone   *)
(* in a sample, and only names that wait; module Harvester has the rest.   *)
(* A run of the vendor tools is one step; module RunCache has its inside.  *)
(***************************************************************************)
EXTENDS Naturals, FiniteSets, Sequences

CONSTANTS
    Threads,     \* of the rayon pool
    Keys,        \* bound: names of cached runs at a time
    SpeedKeys, Pips, Names,
    Colbuf,      \* the tiled pattern of a column buffer
    Tasks,       \* designs drawn in a round (40)
    Enough,      \* stored samples that make the first draw unnecessary (40)
    Every,       \* replayed runs between two calls of process() (20, 100)
    RowN,        \* chip.row_n()
    Layouts,     \* devices: their (row_colbuf, row_b, row_t), << >> without buffers
    Designs      \* [speed, pips, names, global, small] the generator can draw

ASSUME BoundsFit == {Tasks, Enough, Every, RowN} \subseteq Nat \ {0}

\* The groups of rows cover the device from the bottom up, each a buffer row with logic
\* rows on both sides (row_colbuf, row_b, row_t of the harvested devices).
ASSUME LayoutsFit == \A lay \in Layouts :
    /\ lay \in Seq(Nat \X Nat \X Nat)
    /\ \A i \in DOMAIN lay :
          /\ lay[i][2] < lay[i][1] /\ lay[i][1] < lay[i][3]
          /\ lay[i][2] = IF i = 1 THEN 0 ELSE lay[i - 1][3]
    /\ lay # << >> =>
          /\ 1 < lay[1][1]
          /\ lay[Len(lay)][1] < RowN /\ lay[Len(lay)][3] = RowN + 1

Rows == 1..(RowN - 1)

\* "COLBUF:{col}.{row}": the buffer of a cell, before the layout is known.
Cells == {"plb", "bram"} \X Rows

AllNames == Names \cup {Colbuf} \cup Cells

ASSUME NamesFit == Colbuf \notin Names /\ Cells \cap (Names \cup {Colbuf}) = {}

ASSUME DesignsFit == Designs \subseteq
    [speed : SUBSET SpeedKeys, pips : SUBSET Pips, names : SUBSET Names,
     global : SUBSET Cells,    \* cells that take a global net
     small : BOOLEAN]          \* LP640, LP4K...: of use for delays only

Prefixes == {"noglobal", "nocolbuf", "full"}

VARIABLES
    layout,    \* the device (never changes)
    cache,     \* ok/gen-*.zip
    mode,      \* the part of run() that is on: a prefix
    pc,        \* "replay", "settle", "enough", "draw", "learn", "colbufs", "test",
               \* "forced", "done" or "failed"
    todo,      \* replay: the cached keys nobody has taken yet
    left,      \* draw: tasks nobody has taken yet
    ctr,       \* replayed runs
    job,       \* what each thread does: {} or {[key, design, at, changed]}
    speed, pips,
    known,     \* known_tiled and known_global
    wanted,    \* work_tiled and work_global
    stored,    \* samples of the harvester: [key, waits]
    rows,      \* gencfg.rows_colbuf
    won        \* ghost: the collectors when the program last ended
disk == <<layout, cache>>
main == <<mode, pc, todo, left, ctr>>
gains == <<speed, pips, known, wanted, stored>>
vars == <<disk, main, job, gains, rows, won>>

Nothing == [speed |-> {}, pips |-> {}, stored |-> {}]

\* want_tiled and want_global, before run(): the buffers only where there are any.
WantedKeys == IF layout = << >> THEN Names ELSE Names \cup {Colbuf}

Cached(prefix) == {z.key : z \in {y \in cache : y.prefix = prefix}}

Init ==
    /\ layout \in Layouts
    /\ cache = {}
    /\ mode = "noglobal" /\ pc = "replay"
    /\ todo = {} /\ left = 0 /\ ctr = 0
    /\ job = [t \in Threads |-> {}]
    /\ speed = {} /\ pips = {} /\ known = {} /\ stored = {}
    /\ wanted = WantedKeys
    /\ rows = << >>
    /\ won = Nothing

-----------------------------------------------------------------------------
(* The column buffers.                                                     *)

\* The row whose tile holds the buffer of a cell.
Group(lay, row) == CHOOSE g \in {lay[i] : i \in DOMAIN lay} : g[2] <= row /\ row < g[3]

Target(cell) ==
    LET g == Group(layout, cell[2]) IN
    IF cell[2] >= g[1] THEN g[1]
    ELSE IF cell[1] = "bram" THEN g[1] - 2 ELSE g[1] - 1

\* compute_rows_colbuf.  A scan up the rows of the map m: the state after a row is
\* [c, b, prev, top, res, ok], where ok is "yes", "no" (None) or "panic".
Begin(m) == [c |-> m[1], b |-> 0, prev |-> 0, top |-> FALSE, res |-> << >>, ok |-> "yes"]

\* A mistake: a gap in the map is not noticed.
StepOverGaps(a, row, trow) ==
    IF trow = a.c \/ a.ok # "yes" THEN [a EXCEPT !.prev = row]
    ELSE IF a.top
    THEN [a EXCEPT !.res = Append(@, <<a.c, a.b, row>>), !.b = row, !.top = FALSE,
                   !.c = trow, !.prev = row]
    ELSE IF trow = a.c + 1 /\ trow = row
    THEN [a EXCEPT !.top = TRUE, !.c = trow, !.prev = row]
    ELSE [a EXCEPT !.ok = "panic"]

Step(a, row, trow) ==
    IF trow = a.c \/ a.ok # "yes" THEN [a EXCEPT !.prev = row]
    ELSE IF row # a.prev + 1 THEN [a EXCEPT !.ok = "no"]
    ELSE IF a.top
    THEN [a EXCEPT !.res = Append(@, <<a.c, a.b, row>>), !.b = row, !.top = FALSE,
                   !.c = trow, !.prev = row]
    ELSE IF trow = a.c + 1 /\ trow = row
    THEN [a EXCEPT !.top = TRUE, !.c = trow, !.prev = row]
    ELSE [a EXCEPT !.ok = "panic"]

ScanRows(m) ==
    LET f[r \in 0..(RowN - 1)] ==
            IF r = 0 THEN Begin(m)
            ELSE IF r \in DOMAIN m THEN Step(f[r - 1], r, m[r]) ELSE f[r - 1]
    IN f[RowN - 1]

\* Some(rows), None, or a failed assertion: [ok, rows].
compute_rows_colbuf(m) ==
    LET a == ScanRows(m)
        verdict == IF 1 \notin DOMAIN m \/ a.ok = "no" THEN "no"
                   ELSE IF a.ok = "panic" THEN "panic"
                   ELSE IF a.prev # RowN - 1 THEN "no"
                   ELSE IF a.top THEN "yes" ELSE "panic"
    IN [ok |-> verdict,
        rows |-> IF verdict = "yes" THEN Append(a.res, <<a.c, a.b, a.prev + 2>>) ELSE << >>]

-----------------------------------------------------------------------------
(* Samples.                                                                *)

\* The generator: no global nets at first, and only logic cells take one while the
\* buffers are unknown.  A mistake: any cell does.
CanDrawAnyCell(d) == mode = "noglobal" => d.global = {}

CanDraw(d) ==
    /\ mode = "noglobal" => d.global = {}
    /\ layout # << >> /\ rows = << >> => d.global \subseteq {"plb"} \X Rows

\* The prefix of a new sample.
NewPrefix ==
    IF mode = "noglobal" THEN "noglobal"
    ELSE IF layout # << >> /\ rows = << >> THEN "nocolbuf" ELSE "full"

\* make_sample: the names of the patterns in a design.
Reading(d) ==
    d.names \cup (IF layout = << >> \/ d.global = {} THEN {}
                  ELSE IF rows # << >> THEN {Colbuf} ELSE d.global)

Idle == \A t \in Threads : job[t] = {}

\* A worker takes a cached run ...
TakeCached(t) ==
    /\ pc = "replay"
    /\ job[t] = {}
    /\ \E z \in cache :
          /\ z.key \in todo
          /\ todo' = todo \ {z.key}
          /\ job' = [job EXCEPT ![t] = {[key |-> z.key, design |-> z.design,
                                         at |-> "speed", changed |-> FALSE]}]
    /\ UNCHANGED <<disk, mode, pc, left, ctr, gains, rows, won>>

\* ... or makes a new one: new_sample.
Draw(t) ==
    /\ pc = "draw"
    /\ job[t] = {}
    /\ left > 0
    /\ left' = left - 1
    /\ \/ \E k \in Keys, d \in Designs :
            /\ \A z \in cache : z.key # k
            /\ CanDraw(d)
            /\ cache' = cache \cup {[key |-> k, prefix |-> NewPrefix, design |-> d]}
            /\ job' = [job EXCEPT ![t] = {[key |-> k, design |-> d, at |-> "speed",
                                           changed |-> FALSE]}]
       \/ UNCHANGED <<cache, job>>       \* the tools failed
    /\ UNCHANGED <<layout, mode, pc, todo, ctr, gains, rows, won>>

\* add_sample, under the lock of the delays ...
MergeSpeed(t) ==
    \E j \in job[t] :
        /\ j.at = "speed"
        /\ speed' = speed \cup j.design.speed
        /\ job' = [job EXCEPT ![t] =
                     {[j EXCEPT !.at = IF j.design.small THEN "decide" ELSE "teach",
                                !.changed = ~(j.design.speed \subseteq speed)]}]
        /\ UNCHANGED <<disk, main, pips, known, wanted, stored, rows, won>>

\* A mistake: new switches do not count.
LearnedSample(d, waits) == waits # {}

\* Does the second half of add_sample learn anything?
Learned(d, waits) == ~(d.pips \subseteq pips) \/ waits # {}

\* ... and under those of the harvester and the switches.
Teach(t) ==
    \E j \in job[t] :
        LET waits == Reading(j.design) \ known IN
        /\ j.at = "teach"
        /\ pips' = pips \cup j.design.pips
        /\ stored' = IF waits = {} THEN stored
                     ELSE stored \cup {[key |-> j.key, waits |-> waits]}
        /\ wanted' = wanted \cup waits
        /\ job' = [job EXCEPT ![t] = {[j EXCEPT !.at = "decide",
                                          !.changed = @ \/ Learned(j.design, waits)]}]
        /\ UNCHANGED <<disk, main, speed, known, rows, won>>

\* process(): learns some names that wait, and leaves none that waits alone.
Learn ==
    \E K \in SUBSET UNION {z.waits : z \in stored} :
        /\ known' = known \cup K
        /\ wanted' = wanted \ K
        /\ stored' = {[z EXCEPT !.waits = @ \ K] : z \in stored}
        /\ \A z \in stored' : Cardinality(z.waits) # 1

\* The end of a replayed run; every so often the thread calls process().
Replayed(t) ==
    \E j \in job[t] :
        /\ pc = "replay"
        /\ j.at = "decide"
        /\ job' = [job EXCEPT ![t] = {}]
        /\ ctr' = ctr + 1
        /\ IF (ctr + 1) % Every = 0
           THEN Learn /\ UNCHANGED <<speed, pips>>
           ELSE UNCHANGED gains
        /\ UNCHANGED <<disk, mode, pc, todo, left, rows, won>>

\* The end of a new one: remove_cache_key in the last stage.
Drawn(t) ==
    \E j \in job[t] :
        /\ pc = "draw"
        /\ j.at = "decide"
        /\ job' = [job EXCEPT ![t] = {}]
        /\ cache' = IF mode = "full" /\ ~j.changed
                    THEN {z \in cache : z.key # j.key} ELSE cache
        /\ UNCHANGED <<layout, main, gains, rows, won>>

-----------------------------------------------------------------------------
(* The main thread.                                                        *)

Goto(l) == pc' = l /\ UNCHANGED <<mode, todo, left, ctr>>

NextMode ==
    /\ mode' = IF mode = "noglobal" THEN "nocolbuf" ELSE "full"
    /\ pc' = "replay"
    /\ todo' = Cached(mode')
    /\ ctr' = 0
    /\ left' = 0

\* Where the main thread goes when the collectors have settled.
Evaluate == IF mode = "noglobal" THEN "enough" ELSE IF mode = "nocolbuf" THEN "colbufs" ELSE "test"

\* All cached runs are replayed.
EndReplay ==
    /\ pc = "replay"
    /\ todo = {}
    /\ Idle
    /\ Goto(IF ctr # 0 THEN "settle" ELSE Evaluate)
    /\ UNCHANGED <<disk, job, gains, rows, won>>

Settle ==
    /\ pc = "settle"
    /\ Learn
    /\ Goto(Evaluate)
    /\ UNCHANGED <<disk, job, speed, pips, rows, won>>

\* par_iter over the tasks of a round
BeginDraw ==
    /\ pc' = "draw"
    /\ left' = Tasks
    /\ UNCHANGED <<mode, todo, ctr>>

TestEnough ==
    /\ pc = "enough"
    /\ IF Cardinality(stored) < Enough THEN BeginDraw ELSE NextMode
    /\ UNCHANGED <<disk, job, gains, rows, won>>

EndDraw ==
    /\ pc = "draw"
    /\ left = 0
    /\ Idle
    /\ Goto("learn")
    /\ UNCHANGED <<disk, job, gains, rows, won>>

LearnDrawn ==
    /\ pc = "learn"
    /\ Learn
    /\ IF mode = "noglobal" THEN NextMode ELSE Goto(Evaluate)
    /\ UNCHANGED <<disk, job, speed, pips, rows, won>>

\* colbuf_map: where the known cells of each row have their buffer.  Of two cells
\* in a row, one is kept.
Maps ==
    LET seen == {c[2] : c \in known \cap Cells} IN
    {m \in [seen -> 0..RowN] :
        \A r \in seen : \E c \in known \cap Cells : c[2] = r /\ m[r] = Target(c)}

\* The names handle_colbufs forces, and takes out of known_global again: those of the
\* columns without block RAM.
Forced == {"plb"} \X Rows

handle_colbufs ==
    /\ pc = "colbufs"
    /\ \/ /\ layout = << >> \/ rows # << >>
          /\ NextMode
          /\ UNCHANGED <<gains, rows>>
       \/ /\ layout # << >> /\ rows = << >>
          /\ \E m \in Maps :
                LET found == compute_rows_colbuf(m) IN
                \/ /\ found.ok = "no"
                   /\ BeginDraw
                   /\ UNCHANGED <<gains, rows>>
                \/ /\ found.ok = "panic"
                   /\ Goto("failed")
                   /\ UNCHANGED <<gains, rows>>
                \/ /\ found.ok = "yes"
                   /\ rows' = found.rows
                   /\ Goto("forced")
                   /\ known' = (known \ Forced) \cup {Colbuf}
                   /\ wanted' = wanted \ (Forced \cup {Colbuf})
                   /\ stored' = {[z EXCEPT !.waits = @ \ (Forced \cup {Colbuf})] : z \in stored}
                   /\ UNCHANGED <<speed, pips>>
    /\ UNCHANGED <<disk, job, won>>

\* handle_colbufs calls process() in the end.
ProcessForced ==
    /\ pc = "forced"
    /\ Learn
    /\ NextMode
    /\ UNCHANGED <<disk, job, speed, pips, rows, won>>

Complete ==
    /\ speed = SpeedKeys
    /\ pips = Pips
    /\ wanted = {} /\ \A z \in stored : z.waits = {}

TestComplete ==
    /\ pc = "test"
    /\ IF Complete THEN Goto("done") ELSE BeginDraw
    /\ UNCHANGED <<disk, job, gains, rows, won>>

\* The program ends, wherever it is, and is started again.
Restart ==
    /\ pc # "done"
    /\ won' = [speed |-> speed, pips |-> pips, stored |-> stored]
    /\ mode' = "noglobal" /\ pc' = "replay"
    /\ todo' = Cached("noglobal") /\ left' = 0 /\ ctr' = 0
    /\ job' = [t \in Threads |-> {}]
    /\ speed' = {} /\ pips' = {} /\ known' = {} /\ stored' = {}
    /\ wanted' = WantedKeys
    /\ rows' = << >>
    /\ UNCHANGED disk

Next ==
    \/ \E t \in Threads : \/ TakeCached(t)
                          \/ Draw(t)
                          \/ MergeSpeed(t)
                          \/ Teach(t)
                          \/ Replayed(t)
                          \/ Drawn(t)
    \/ EndReplay \/ Settle \/ TestEnough \/ EndDraw \/ LearnDrawn
    \/ handle_colbufs \/ ProcessForced \/ TestComplete
    \/ Restart

Spec == Init /\ [][Next]_vars

-----------------------------------------------------------------------------
TypeOK ==
    /\ layout \in Layouts
    /\ cache \subseteq [key : Keys, prefix : Prefixes, design : Designs]
    /\ mode \in Prefixes
    /\ pc \in {"replay", "settle", "enough", "draw", "learn", "colbufs", "forced", "test",
               "done", "failed"}
    /\ todo \subseteq Keys
    /\ left \in 0..Tasks
    /\ ctr \in Nat
    /\ job \in [Threads -> SUBSET [key : Keys, design : Designs,
                                   at : {"speed", "teach", "decide"}, changed : BOOLEAN]]
    /\ speed \subseteq SpeedKeys
    /\ pips \subseteq Pips
    /\ known \subseteq AllNames
    /\ wanted \subseteq AllNames
    /\ stored \subseteq [key : Keys, waits : SUBSET AllNames]

\* A restart loses nothing: whenever the program ended, and whatever was deleted for
\* having taught nothing, once the last cached run is replayed every delay and every
\* switch is back, and every sample the harvester had, or all its names are settled
\* (add_sample, remove_cache_key).
Regains ==
    mode = "full" /\ pc = "test" =>
        /\ won.speed \subseteq speed
        /\ won.pips \subseteq pips
        /\ \A z \in won.stored :
              \/ \E y \in stored : y.key = z.key
              \/ z.waits \subseteq known \cup Forced

\* What the buffers are found to be, from whichever of them are known, is what they
\* are, and the asserts on the way hold (compute_rows_colbuf).
ColbufTrue == pc # "failed" /\ (rows # << >> => rows = layout)

\* Once samples name buffers by tile, nothing waits for one by cell: no later sample
\* would ever settle it and the loop would not end (handle_colbufs, generate.rs).
NoOrphans == rows # << >> => wanted \cap Cells = {} /\ \A z \in stored : z.waits \cap Cells = {}
=============================================================================
