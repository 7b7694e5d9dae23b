# Project Combine in TLA+

Project Combine is a set of Rust programs that reverse-engineer FPGA bitstreams and
document them. Its core logic answers one question: *which bits of a bitstream belong to
which feature of the chip?* Two engines answer it, and both are concurrent or driven by
random designs, so that tests reach little of what can happen in them:

- **hammer** (`src/re/hammer`, with the generators of `src/re/fpga-hammer`) controls the
  vendor tool. It packs *fuzzers* (single changes of the configuration) into batches, codes
  each batch as a short series of bitstreams, builds them on all cores and decodes which
  bits each fuzzer changed.
- **harvester** (`src/re/harvester`, driven by `src/re/icecube-harvester`) cannot control the
  tool. It is shown samples, each a set of changed bits with the set of features that explain
  them, and deduces the owner of every bit.

Around them the modules follow a feature from the vendor's tool to the database: the tool and
the pipe its output comes through, the dump of a device into a part file, the grid of wires a
device expands to, the packing and running of fuzzers or the loop that harvests random designs,
and the collectors that turn differences into items of the database. The rest of the repository
is inventoried below, with the reason why it is not modelled.

## Running

    tlasany M.tla                      # parse
    tlc -config MCHarvester.cfg MCHarvester.tla
    tlapm HarvesterProofs.tla          # check the proofs

`PROJECT.json` lists the runs, a mutation of the model for every property that makes TLC
find it violated, the source lines of every definition, the hazards and the theorems.

## 1. Inventory

| component | state | operations | how it interacts | what is hard |
|---|---|---|---|---|
| deduction engine, `re/harvester` | names and what is known of them, samples and their unexplained bits, two indices between them, pending samples | `want_*`, `force_*`, `add_sample`, `rename_global`, `process` | called by one program under a mutex; samples come in any order between calls of `process` | deductions change the samples others are made from; two indices must agree; panics in place of wrong results |
| batch packing, `re/hammer/lib.rs`, `fpga-hammer` generators | batches, per-batch conflict matrices, chains of follow-up fuzzers | `add_fuzzer*`, `prep_batches`, `Batch::install_fuzzer`, `Fuzzer::is_ok`, `generate` | fills the batches a run works off | what a batch admits is read off its current values, which later fuzzers narrow |
| codewords, `re/hammer/run.rs` | width, words, decoded bits, diagnosis | `prep_batch`, `postproc_batch`, `diagnose_cw_fail` | one batch at a time, on the backend's device | words of a weight that depends on a width that grows; several switches at one bit |
| threads of a run, `re/hammer/run.rs` | claim counter, abort flag, slots under a mutex and condition variable per batch | `Session::run`, worker, `try_cw_fail` | scoped threads, relaxed atomics, condition variables; calls the backend in order | lost wake-ups, claims, panics of a worker, ends of the scope |
| backend and results, `fpga-hammer`, `types/bsdata.rs` | the diffs of each feature, the database of items | `return_fuzzer`, `get_diffs`, the `collect_*` and `xlat_*` functions, `BsData::insert` | called by the run, in any order; its features are taken by collectors; the database lives on from part to part | a feature fuzzed in several places and batches must give the same diff; items of several parts are merged |
| tool runs, `icecube-harvester/run.rs` | a directory with `ok`, `fail` and `work` archives | `run`, `get_cached_designs`, `remove_cache_key` | many threads, one vendor tool per call, the file system | crashes between removal and renaming; stale archives; a timeout cached as a failure |
| site search, `icecube-harvester/sites.rs` | bounds of a search | `find_sites` | asks `run` for larger and smaller designs | boundaries of doubling and halving; restarted after a crash |
| harvesting loop, `icecube-harvester/main.rs` | harvester, pips and speed data, each under its own mutex; the layout of the column buffers | `run`, `new_sample`, `add_sample`, `handle_colbufs` | rayon threads add samples, the main thread processes; replays the cache of tool runs | which order samples come in; runs that taught nothing are deleted; names change half way |
| vendor tool pipe, `re/toolchain`, read by `vivado-dump` | child process, named pipe, temporary directory | `ToolchainReader::new`, `read`, `drop`; `get_parts` | operating system | opening a pipe nobody else opens; waiting for a child that waits for us; a death that looks like an end |
| part builder, `re/xilinx/rdbuild`, and the dumps that feed it | tile kinds with what their tiles share, nodes, templates | `add_tile`, `kill_wire`, `add_node`, `finish`; `dump_tile`, `process_wire`, `finish_all` | parallel readers of Vivado's output under a mutex, or one stream of ISE's | what is kept once for all tiles of a kind must be given back when a tile differs, in any order |
| grid, `public/interconnect` | cells, connectors, tiles and their indices | `add_tile`, `fill_*`, `finish`, `resolve_wire`, `wire_tree`, the walks of switches | built by the expansion of every family, then read | two traversals by different tables that must be inverse |
| bitstream parsers, `public/xilinx-bitstream`, `siliconblue` | position, registers, CRC | `next`, `parse` | read the tool's output | lengths and ends of streams |

The other components (readers of the vendors' file formats, geometry, device families,
documentation generators) are straight-line conversions without state
between calls; `PROJECT.json` lists each with its reason.

What makes the modelled ones correct:

- *engine*: a bit is credited to a feature only if it is the feature's; a feature declared
  known has all its bits; the samples are explained by what is left of them; the indices
  agree; no assertion fails on samples of a real device; `process` returns, with nothing
  left to do.
- *packing*: every fuzzer ends in a batch that meets its demands; a batch never refuses a
  fuzzer it was chosen for; every property is exercised; giving up is justified.
- *codewords*: words differ and have equal weight; a position is credited to exactly the
  switch that sets it, or the batch fails; the diagnosis blames the fuzzers that interfere.
- *run*: every bitstream is built once; a batch is decoded when all its bitstreams are
  there; results arrive in order, as if made sequentially; the run ends, and if it does not
  then because a tool run panicked.
- *tool runs*: what is cached is whole and the design's own; the outcome of a design does not
  change while it is remembered, whatever ends the program; nothing else is lost; a search over
  them finds the largest design that fits, the same on every start.
- *harvesting loop*: a restart regains what was known from the runs that were kept; the column
  buffers are found right or not at all; no name is left that later samples cannot settle.
- *results*: what a collector is given is what every fuzzer of the feature showed; an item of the
  database, given a value, makes the configuration the vendor's tool makes; a correct tool never
  makes the session panic.
- *pipe*: only a whole list is accepted; the reader gets done whatever the tool does once both
  have the pipe open; the directory outlives the tool.
- *parts*: reading a stored part gives back every node and class of the dump.
- *grid*: connectors point back; the tree of a root holds just the wires that resolve to it;
  switches found from a wire and to a wire are the same.

## 2. Modules

| module | of | role |
|---|---|---|
| `Harvester` | `re/harvester/src/lib.rs` | the deduction engine |
| `DeductionOracle` | – | abstract specification: an oracle that may reveal true bits and announce that a name is complete |
| `MCHarvester` | – | small devices for TLC |
| `HarvesterProofs` | – | theorems |
| `HammerBatch`, `MCHammerBatch`, `HammerBatchProofs` | `re/hammer/src/lib.rs`, `run.rs`, `re/fpga-hammer/src/lib.rs` | packing |
| `HammerCode`, `MCHammerCode` (proofs in `HammerBatchProofs`) | `re/hammer/src/run.rs` | codewords, decoding, diagnosis |
| `HammerRun`, `MCHammerRun`, `HammerRunProofs` | `re/hammer/src/run.rs` | the threads |
| `OrderedDelivery` | – | abstract specification: a sequential run |
| `RunCache`, `MCRunCache` (proofs in `SiteSearchProofs`) | `re/icecube-harvester/src/run.rs` | tool runs and their cache on disk |
| `RunMemo` | – | abstract specification: a memo of outcomes |
| `SiteSearch`, `MCSiteSearch`, `SiteSearchProofs` | `re/icecube-harvester/src/sites.rs` | the search over the cache; extends `RunCache` |
| `IcecubeLoop`, `MCIcecubeLoop`, `IcecubeLoopProofs` | `re/icecube-harvester/src/main.rs` | the harvesting loop, over the promise of `Harvester` and of `RunCache` |
| `TileItems` | `re/fpga-hammer/src/lib.rs`, `public/types/src/bsdata.rs` | diffs, the translation of diffs to items, the merging of items: operators only |
| `ResultState`, `MCResultState`, `ResultStateProofs` | `re/fpga-hammer/src/lib.rs` | results, collectors and the database; extends `TileItems` |
| `ToolPipe`, `MCToolPipe` (proofs in `SiteSearchProofs`) | `re/toolchain/src/toolreader.rs`, `re/xilinx/vivado-dump/src/parts.rs` | reader, tool and pipe |
| `RdBuild` | `re/xilinx/rdbuild/src/lib.rs`, `re/xilinx/rawdump` | the part builder: operators only |
| `PartDump`, `MCPartDump`, `PartDumpProofs` | `re/xilinx/vivado-dump`, `re/xilinx/ise-dump/src/rawdump.rs` | how the dumps feed it; extends `RdBuild` |
| `WireTree`, `MCWireTree`, `WireTreeProofs` | `public/interconnect/src/grid.rs` | the grid and the walks over it |

### Harvester

A name (`TiledPattern` or `GlobalPattern` key) is `absent`, `work` or `known` (`status`); the
maps `work_*` and `known_*` are `status` with `known`, `single` and `locs`. A sample is its
`diff` (bits nobody owns yet) and `act` (patterns still active in it). A bit with its value
is a pair of a tile and an *offset*, which stands for frame, bit and value; a tiled pattern
knows its bits by the index of the tile in its list. The operations `Want`, `ForceBits`,
`AddSample` and `RenameGlobal` are one action each. `process()` is a series of actions
(`Process`, `BeginRound`, `PickSample`, `Judge`, `Complete`, `FinishSample`, `EndScan`,
`ApplyTriple`, `EndRound`) because its deductions change the very data it loops over: it judges
a snapshot of a sample's diff (`bits`) bit by bit. The order of its loops (hash maps) is left
open. Every `assert` and `fail()` leads to `pc = "failed"`.

The hidden device `truth` is a variable that never changes, so that one run covers a set of
devices. Only the actions that build inputs read it.

Left out: the edge where a name without any entry is renamed (`EmptyRename` states what
the code does with it); the printing of `fail`.

### HammerBatch

`FuzzerValue` and `BatchValue` are records with a `kind`. `IsOk` is `Fuzzer::is_ok`, `Merged`
is the entry `install_fuzzer` makes of an old one and a demand; one action starts a generator, one follows its chain, and the
guards of `prep_batches` choose the batch. A site may be *sad* for a property, and then a chain
of fuzzers follows until every property was exercised. Generators without a tile class that
have sad properties are not modelled: no generator of the repository is one.

### HammerCode

`prep_batch` tries words in order (`Assign`, `Skip`) and widens (`Widen`) when they run out; the
shuffle of the switches is the open choice of the next one. The device is external: a position
reacts to a set of switches, and is set when any of them is on (`react`). Devices whose switches
cancel out are not modelled; against them the code repeats fuzzers with fresh words.
`diagnose_cw_fail` is `ReduceFast` and `ReduceSlow`, with every random cut the code can draw;
its own threads (a `work` queue like that of the run) are abstracted to the result of their
test. `Backend::postproc` is not modelled.

### HammerRun

A worker checks the abort flag, claims an item (`fetch_add`), runs the tool, locks its batch,
stores, unlocks and notifies; `wpc` is where it is. The main thread locks a batch, checks its
slots, sleeps or takes them, decodes, returns the fuzzers' results one by one and joins the scope.
A condition variable has no memory: `Notify` wakes the main thread only if it sleeps.
A tool run may panic, which kills the worker without a notification and, in `thread::scope`,
makes the scope panic once joined. What the decoding finds is open here (`HammerCode` settles
it). The relaxed load of `abort` is taken to be current: it guards nothing but further work.
`max_threads = Some(0)` would leave nobody to work and is excluded by `ThreadsFit`.

### RunCache and SiteSearch

`ok`, `fail` and `packed` are the archives of the directories `ok`, `fail` and `work`, `dir` the
contents of `work/<key>`: which designs' reports lie there. These survive `Restart`; `pc`, `ask`,
`exit` and `reply` (a call of `run()` under each key, and what it returned) do not. Every step
that changes the disk is an action: looking the design up, emptying the directory, running the
tool, packing, finishing the archive, removing the directory, reading the result (which may
panic), removing the old archive, renaming. Keys are unique to a caller (random for generated
samples, built from part, package, kind and number for the others), so there is one call per key at a
time; a crash can fall between any two steps. After a restart a key may be used for another
design, as happens when the program has changed. `remove_cache_key` is two actions. Archives are
whole or not; what a design's reports say is abstracted to whether `get_result` can read them.
`get_cached_designs` changes nothing: `CacheServes` states all that it unwraps. Errors of the file
system other than those the code ignores would panic, which is a restart.

`SiteSearch` is `find_sites` over these calls: `Double`, `Halve` and `Stop` are its loops, key and design `n`
those with `n` instances. A crash starts it again with the cache as it is. What the callers read out of the
reports of the designs that fit (coordinates of sites, wires, pins) is parsing and not modelled.

### IcecubeLoop

`run()` is a main thread with three stages (`mode`: without global nets, with the column buffers
unknown, with everything). In each it replays the cached runs of that stage, lets the harvester
process, and draws new designs in rounds until the stage is over. `TakeCached` and `Draw` are where a
worker thread takes a task, `MergeSpeed` and `Teach` the two critical sections of `add_sample`, `Replayed`
and `Drawn` what follows it; `EndReplay`, `Settle`, `TestEnough`, `EndDraw`, `LearnDrawn`, `handle_colbufs`,
`ProcessForced` and `TestComplete` are the steps of the main thread. `Restart` ends the program anywhere
and starts it with the cache as it is.

The harvester is its promise only (`Learn`): it learns at least the names that wait alone in a
sample and only names that wait. A run of the tools is one step. One index of the eight global nets stands
for all. `handle_colbufs` is the scan of `compute_rows_colbuf` over the buffers known so far, with its
assertions, and the forcing and taking out of the names by cell. The building of the tables of a
part before the loop (`PartContext::fill_*`) is sequential and left out.

### TileItems and ResultState

A diff is a function from bits to what they became; an item has a sequence of bits and a word per value.
`TileItems` translates `xlat_enum_ocd` (orders by bit, value and mux), `xlat_enum_int`, `xlat_bitvec`, the
three boolean collectors and `TileItem::merge`; `{}` stands for a failed assertion.

`ResultState` is one session per part and a database for all: fuzzers return in any order, `Return` is
`State::return_fuzzer` with the translation of each bit to the first tile that has it, `Collect` takes the
features of a slot and inserts the items made of them, `NextPart` starts a new state. The vendor's tool is
external: `TrueBits` says what a device shows, and up to `noise` results are wrong by a bit. A wrong
result is also what a device shows whose switches cancel out, which the decoding of a batch cannot see.

What the code takes for granted is named: `Neutral` (`BsData::insert` merges with `neutral = false`, so a
bit that is on in the base must be seen to change in every part or in none) and `Separate` (`xlat_bitvec`
does not check that the elements of a vector are different bits). Three assumptions say what a case is.
`SlotsAssumption`: a value has as many words in each slot, one unless it is a vector. `PlacesAssumption`: the
tiles of a place do not overlap and hold the bits of their slots. `ModesAssumption`: a boolean has two values and a
vector one, the same on all parts, and of the numbers of `collect_enum_int` any two digits are one together
in some number and zero together in another. `xlat_enum_int` would take two digits that always go together,
or one of which is always on, for whatever bits they show; all ranges the fuzzers ask for (`0..4`, `1..8`,
`1..16`, `1..32`, `1..62` and the list 0, 2, 3) are of this kind. Left out: the algebra of `Diff` and
`peek_diffs` that hand-written collectors use in between, the fixed and DRP orders, miscellaneous and device
data, features without tiles, and the branch for a fuzzer without features that has bits.

### ToolPipe

Reader, tool and caller step by step. Opening a named pipe waits for the other end (`Open` needs the tool
to be `opening`), a write waits while the pipe is full, a read returns any part of what is there, and the
end of the pipe looks the same whether the tool has finished or died (`AtEof`). Output is counted in halves of
lines, so that it can end within one. `Dislike` is any panic or early return of the caller, `OpenFails`
an error of `File::open`, after which the tool is not waited for, as `Child` has no `Drop` of its own.

### RdBuild and PartDump

`RdBuild` has the functions of `PartBuilder` as operators on a record. What tiles of a kind share is kept
once: a wire is `Internal` while every tile of the kind has it as a node of its own with the same speed
and class, and `Connected` from then on. `PartDump` are the callers: `dump_tile` of the Vivado dump in any
order under its mutex, then the nodes in hash order; the ISE dump's tiles, the gathering of its nodes
(`process_wire`) and `finish_all`. Which of the merged nodes' indices is kept, an order of a hash map and of
a free list in the code, is left open. `DumpsFit` says what a dump is: among others that listed wires list
each other, that a wire which is mentioned but not listed in its tile is listed in another tile of the kind
(the code looks it up there and would panic), and that a node is what is connected.

The functions of the builder that the code writes as loops over wires and tiles are written in one step
(`Connect`, `ensure_conn_wire` of a set of wires, `kill_wire` of those of a tile, `Attach`): their turns touch
different wires, or do the same.

`Overtaken` names a weakness of the code: `add_node` does not store the node of a single wire whose kind
implies it, and when a later tile of the kind does not have this wire, or with another speed, `add_tile`
makes the wire `Connected` without putting it into the queue of fixups, as `ensure_conn_wire` does. The node of
the earlier tile is then lost. It takes an ISE dump (in a Vivado dump all tiles come before the nodes).
`Faithful` holds but for such wires.

Left out: sites, attributes of pips other than classes, packages, empty tiles, stolen sites, and the
parsing of the tools' lines.

### WireTree

The expansion of a chip is a series of actions: tiles, connectors made by hand in pairs or at the edge,
`fill_main_passes`, the roots of regions, links at corners, dead wires, and `finish` with its indices. Which
of them a family uses is open; what a family must respect, and nothing in the grid checks, is in the
guards and assumptions: a class maps only branches of its own slot; connectors pair opposite slots, towards the
east or north, so that no ring arises; a pair is put into free slots; the root of a region is its own root;
a corner links wires that no other link ends in; dead wires are marked last. `resolve_wire` is a recursive function of the wires and `wire_tree` one of the turns of
its loop, over the grid as it is. `Depth` gives every wire a number that gets smaller with every step
towards its root: it is what must hold for `resolve_wire` to return. A rank of the kinds of wires alone would do for
most of the databases in `src/databases`; for `ultrascale`, `xc5200` and the larger `xc4000` families the way of a
wire leads through equal slots of other cells, so the number belongs to the wire of a cell. Opposite slots are
each other's opposites and the wires of a class are branches of its slot in all of these databases. Bels, the
polarity of switches, and chips of several dies are left out.

Nothing is assumed of the wires that switches drive, and in the code nothing is checked of them (`IntDb::validate`
looks at bels only). `wire_pips_bwd` looks for the drivers of a wire at its root, or at all its segments if the root is
of a kind made for many drivers. Switches onto branches are common: the builders of the databases make them for
`allow_mux_to_branch`, for terminators with several sources and for pass tiles
(`re/xilinx/rd2db/interconnect/src/lib.rs:2106`, `:2539`, `:3094`). They are found where they drive the root:
the terminators of virtex2 drive branches that the connector in the same cell does not lead on, and the
hexes of virtex are branches of lines made for many. They are not found where a branch is driven on its way, as the
clocks `HSDCLK` of ecp2 are, which `PASS_SW` leads along the whole row and switches drive in its middle
(`re/lattice/rd2geom/src/intdb.rs:287`, `public/ecp/src/expand.rs:2048`). So `SwitchesAgree` says exactly what is overlooked,
and `DrivenAtRoot` names the condition under which nothing is. No doc or test says which of the two a
caller may count on, and no caller of `wire_pips_bwd` is in the repository.

## 3. Runs

| run | instance | distinct states | properties |
|---|---|---|---|
| `harvester` | 2 tiled and 2 global names, 2 tiles, 2 offsets, 6 devices, 4 designs, 3 samples | 453,517 | `Exact`, `Explained`, `IndexAgree`, `NeverFails`, `ReturnsSettled`, `ImplementsOracle` |
| `harvester_triple` | 3 tiled names, 2 devices, designs of two and of all three | 336,065 | `Sound`, `ProcessTerminates` |
| `hammer_batch` | 2 keys, 3 values, 7 generators of every kind of demand, up to 3 of them | 106,644 | `DemandsMet`, `MatricesAgree`, `EveryPropExercised` |
| `hammer_code` | 7 batches of one to four and of seven switches, 2 positions, at most 5 runs | 134,347 | `CodesFit`, `Attributed`, `DiagnosisSharp` |
| `hammer_run` | 3 workers, 4 plans of up to two batches | 266,272 | `TakenWhole`, `NoLostWakeup`, `HangsOnlyByPanic`, `ScopeDrains`, `ImplementsDelivery`, `Ends` |
| `run_cache` | 3 designs under one key, 2 tools, restarts without bound | 12,313 | `CacheServes`, `ImplementsMemo` |
| `site_search` | devices of 0 to 5 sites asked for 3 and up, one tool with timeouts, up to 2 crashes | 18,514 | `LargestFound`, `CrashCostsOne`, `SearchEnds` |
| `icecube_loop` | 2 threads, 3 keys, 5 kinds of design, 3 layouts of column buffers in 4 rows, 2 tasks a round, restarts without bound | 496,397 | `Regains`, `ColbufTrue`, `NoOrphans` |
| `result_state` | every device with a tile class of two bits, ten collectors, two places of which one is mirrored, two parts, up to two wrong results | 81,248 | `Unanimous`, `DbTrue`, `NoFalseAlarm` |
| `tool_pipe` | 6 lines and `END`, a pipe that holds one line or two and a half | 1,808 | `OkMeansAll`, `DirOutlivesTool`, `Finishes`, `HangsOnlyIfNeverOpened` |
| `part_dump` | 2,886 dumps of three tiles and two wires, both tools | 298,012 | `Faithful`, `ClassesKept` |
| `wire_tree` | a die of 3 by 2 cells, 8 wires, 2 connectors made by hand, 2 links at corners, switches onto branches at their root and off it | 24,518 | `BackAndForth`, `TreesAgree`, `SwitchesAgree` |

A property that is proved and says little more than its module's invariant is not repeated in a run: the type
invariants, `FailsOnlyIfHopeless` and `ChainShrinks` of `HammerBatch`, `RunsOnce` of `HammerRun` and
`OnlyReplaced` of `RunCache` are shown by their theorems.

What they show:

- `harvester`, `harvester_triple`: whatever is sampled, wanted, forced or renamed between calls of
  `process`, the engine only ever learns what is true and never panics on a real device.
- `hammer_batch`: the packing gives every fuzzer the configuration it asked for.
- `hammer_code`: decoding credits a position to the one switch that sets it or fails, and the
  diagnosis ends with the fuzzers that interfere.
- `hammer_run`: the threads deliver what a sequential run would; they hang in one case, when a tool run
  of the batch awaited has panicked: nobody notifies the condition variable then.
- `run_cache`: removing the old archive before renaming the new one costs at most the run in hand.
- `site_search`: results do not depend on crashes, even if some runs are killed by the timeout.
- `icecube_loop`: a run is deleted only if nothing would be lost by doing without it, although other
  threads teach and the program may end between a run and its deletion; the change of names half way
  leaves nothing behind.
- `result_state`: from the order of results to the merged database nothing depends on chance, and what
  is wrong in one result is found if another of the same feature is right.
- `tool_pipe`: `END` is what makes an incomplete list an error; the only way to hang is a tool that ends
  before it opens the pipe.
- `part_dump`: the compression is faithful in every order but for the wires `Overtaken` names.
- `wire_tree`: following a wire and collecting a tree agree on every grid that respects the guards. The drivers of a
  wire that are overlooked are just those of a branch or a clock off its root.

Why the bounds are enough to be telling:

- *harvester*: with two tiles a pattern can be seen in two places and learn from both; a name
  may own no bit, one or two; two names share an offset, and two global names are one feature
  (`rename_global`). Three samples let a deduction from the third finish a name of the first.
  The pair/triple rule needs three names and three samples: it has a run of its own.
- *hammer_batch*: two keys and three values make every pair of batch entry and demand meet,
  agreeing and clashing; three generators can narrow an entry twice.
- *hammer_code*: three and four switches make the width grow more than once and let words run
  out; the batch of seven finds no code within `MaxWidth` and fails (the code's limit is the 64 bits of a
  word). Two positions may react to any sets of switches, hence interfere once or twice.
- *hammer_run*: three workers, so that one can be ahead of the main thread's batch, one in it
  and one finished; a plan of two batches gives the main thread something to be behind of, and the
  empty plan the shortcut.
- *run_cache*: archives of different keys are different files, so one key shows everything; three
  designs let the success of one, the failure of another and the run of a third meet.
- *site_search*: with 3 asked for first, devices of 0 to 5 sites take no, one and two doublings and
  every path of the halving; two crashes let a replayed search be crashed again.
- *icecube_loop*: two threads let a run be judged while the other teaches; three keys let one be deleted
  while two are kept; the designs give each collector something, alone and together; layouts are none,
  one group and two, so that a gap can fall within a group, at its border and at the last row.
- *result_state*: two bits let words differ, contain each other or be the same, and the cases are all
  functions of that size; two places, one mirrored, show the translation; two parts the merging.
- *tool_pipe*: six lines are more than twice what either pipe holds, so that the tool waits at a full pipe
  of either size and the reader's buffer holds more than a line. `AcceptedWhole` and `DirectoryKept` are proved for all sizes.
- *part_dump*: with three tiles a difference can come before, between and after tiles that agree; two wires
  can be one node or two; tiles at the corners of a square make templates with offsets both ways.
- *wire_tree*: three columns let a connector jump over a cell, two rows let links turn a corner; there is a
  wire of each kind, a hole in the grid and a tile over two cells. Switches drive a branch beside a terminator that
  leads it on (off its root) or does not (at its root, with a segment further east), a branch of a line made for
  many, and a clock in the cell of its region's root or in another.

Bounds in guards: `MaxSamples` (samples stored), `MaxGens` (generators added), `MaxWidth` (runs
of a batch), `MaxNum` (instances asked for), `MaxCrashes` (crashes of a search), `Keys` (names of cached runs at
a time), `noise` (wrong results), `MaxConns` and `MaxLinks` (connectors and links made by hand). Only `MaxWidth` is a
limit of the code too. `Tasks`, `Enough` and `Every` of `IcecubeLoop` are constants of the code (40, 40, 20 and 100) made small.

`CHECK_DEADLOCK FALSE` is set where the system stops: after a panic, when the batches are
prepared or decoded, when a run, a search, a session or the reading of a part has ended, or when it hangs on a
panicked worker or a tool that never opened its pipe, which is what `HangsOnlyByPanic` and `HangsOnlyIfNeverOpened` are about.

### Fairness

- `Harvester!FairSpec`: weak fairness of the steps of `process()`. It is a sequential loop
  in one thread; nothing is assumed of its callers.
- `HammerRun!FairSpec`: weak fairness of the main thread and strong fairness of each worker. A
  worker's steps are enabled and disabled by the mutex of its batch, and a lock that is free
  again and again is eventually granted (the main thread releases it to sleep, and takes each
  batch once). Vendor tools end, with a result or a panic.
- `SiteSearch!FairSearch`: weak fairness of the steps of the search and of `run()`, one thread which nothing
  blocks: the tool ends by itself or is killed after five minutes. Crashes are finitely many.
- `ToolPipe!PipeSpec`: weak fairness of the reader's thread and of the tool, each of which goes on when it can. No
  failure (`OpenFails`, `Dislike`, `ChildDies`) is owed, and none is excluded.
- `IcecubeLoop` states none: that the loop ends rests on what random designs show, which no fairness of
  scheduling gives.

## 4. Proofs

Every theorem holds for all values of the constants under the assumptions named in the
modules; TLC evaluates the assumptions on every run.

| module | assumptions | inductive invariant and why it is needed |
|---|---|---|
| `HarvesterProofs` | `NamesDisjoint`, `PlacesFit`, `TruthsFit`, `DesignsFit`, `MaxSamplesNat` | soundness of a deduction rests on the explanation of the samples (what is left of a sample is exactly what its waiting patterns owe), which rests on the agreement of the indices; the snapshot `bits` and the collected pairs and triples of a round must stay true while others' deductions change the samples. None of these is inductive alone. `ReturnsSettled` adds `QuietInv`: as long as a round has changed nothing, what it has looked at would be judged the same again. |
| `HammerBatchProofs` | `GeneratorsFit`, `MaxGensNat` | the values of a batch are an intersection of its fuzzers' demands: each entry admits every fuzzer installed, and each switched key is owned by the fuzzers that switch it. |
| `HammerBatchProofs`, of `HammerCode` | `BitCountsFit`, `MaxWidthNat`, `Powers` | the words given are below the next one and of the current weight, hence a width that grows starts with none. `Powers` says what `2^w` is, which the library leaves undefined; that words are told apart by their bits (`Binary`) is proved from it. |
| `HammerRunProofs` | `ThreadsFit`, `PlansFit` | every item of the queue is unclaimed, with exactly one worker, stored, or lost in a panic; a slot that is filled while the main thread sleeps has a worker that is about to notify it. That the flattened batches hold every run once and in order is a lemma (`QueueFits`). |
| `SiteSearchProofs`, of `RunCache` | `NoDesignFits`, `ToolsFit` | a call that has got past the lookups has its design in neither directory, and keeps it so; its work directory holds no reports but its own from the moment it was emptied; from the end of packing the work archive is that of the call; an answer a caller holds is in the cache. |
| `SiteSearchProofs`, of `SiteSearch` | `NumsFit`, `DeviceFinite` | the invariant of `RunCache`, with one call at a time, and *the way of the search*: the answers in the cache determine the numbers a search goes through; they are never taken back, and only a search that stands at the end of the way adds to them. So a search after a crash goes the same way, and what was spent is what the way has, plus a run per crash. |
| `ResultStateProofs` | `CasesAssumption`, `SlotsAssumption`, `ModesAssumption`, `PlacesAssumption` | `IInv`: a feature that was not collected has the diffs of each of its fuzzers, and knows them all. `DbGood` is more than `DbTrue`: an enumeration's item decodes the values it has, and its bits are among those its parts show (`Good`); without that the merge with the next part's item could not be said to be true of the old values. `TakenTogether` says that the features of a slot are collected at once, so that what is taken is what the fuzzers of this part gave. `Quiet` is for the panics: what there are features of has had a result, no result so far was wrong, and the database has nothing of a slot that is no enumeration but its only item (`Single`), so that the item of another part is the same. The passes over numbers then find all digits because each has a number that differs in it alone from what the base has (`IntSucceeds`). |
| `SiteSearchProofs`, of `ToolPipe` | `SizesAssumption` | lines used are lines read, but for a half line at the end, which is remembered; the pipe is open until the tool is waited for. |
| `IcecubeLoopProofs` | `BoundsFit`, `LayoutsFit`, `NamesFit`, `DesignsFit` | a session has nothing but what runs that stay can teach again (`Covered`), and what a run past its decision could teach is known or waits under its key (`Taught`); runs are of the stage they say (`Stages`, `CacheGood`), and a thread's run is its own until it has decided (`WorkGood`). A restart has `won` to regain: what was won is covered by the runs of the old session that are kept (`WonCovered`), and when they have been replayed nothing of it is missing. `LayoutsFit` says what the groups of rows of a device are (`src/docs/src/siliconblue/global.md:57`; all devices of `src/databases/siliconblue.json` are so). |
| `PartDumpProofs` | `DumpsFit` | `DumpInv`: the builder holds, of a set `G` of nodes given so far, what the dump says of them (`Builds`), and the flow has given each node of `G` whole, once, and after its tiles (`Feeds`). `Builds` says of every wire of every tile read where it stands: `Internal` only if that is what the dump says of it in this tile too and no node but its own was given; `Connected`, and then waiting or with the node that names it. A node that was given and not stored must be implied by its kind or in the queue of fixups, and if it is not, a later tile is to blame (`LostTo`, which becomes `Overtaken`). For the ISE dump `GroupsFit` says that what is gathered are parts of nodes closed under what their wires mention, so that one with nothing left to see is the whole node (`WholeNet`); that is where it matters that nodes are what is connected. |
| `WireTreeProofs` | `SizesAssumption`, `BranchesAssumption`, `RegionsAssumption`, `OppositeAssumption`, `DepthAssumption`, `TilesAssumption`, `CornersAssumption` | `conns \in Grids`: every connector is in its slot, leads nearer to the roots and is met by one from its target. The main passes keep it in their midst too: the cell remembered has its slot free. With it and `RootsFit` the function of `resolve_wire` exists (`Upstream`), each wire but an end has one parent, and what `wire_tree` finds below a wire are just its children (`DownstreamIs`). The loop of `wire_tree` sees no wire twice and forgets no child (`Walks`), so it is done after as many turns as there are wires. `LinksFit` says that corners link ends of such ways, and none to a wire that is itself linked on. |

The proof of `NothingLeftSad` in `HammerBatchProofs` goes beyond the invariant of the batches: what a site is
owed for a property is the installations left and a chain to go on with; shown and owed together are never
less than `dup`, and nothing is owed in the end.

Main theorems:

- *Harvester*: `DeductionSound`, `DeductionExact`, `SamplesExplained`, `IndicesAgree`, `NoPanic`,
  `SettledOnReturn`, and `Implementation` (it implements `DeductionOracle`): for every device and any sequence of samples
  and calls.
- *HammerBatch*: `BatchesMeetDemands`, `NeverRefused`, `ChainsEnd`, `PanicJustified`, `NothingLeftSad`: for any
  generators, sites and order of installation.
- *HammerCode*: `WordsTellApart`, `DecodingExact`, `DiagnosisMinimal`: for batches of any size
  and any device whose positions react as described.
- *HammerRun*: `EachRunOnce`, `WakeupsArrive`, `BatchesWhole`, `HangExplained`, `ScopeExplained` and
  `Implementation` (it implements `OrderedDelivery`): for any number of workers and any batches.
- *RunCache*: `CacheAlwaysServes`, `NothingElseLost` and `Implementation` (it implements `RunMemo`): for any
  keys, designs and tools, and any number of restarts.
- *SiteSearch*: `SearchFindsLargest` and `CrashesAreCheap`: for any tool that reports what can be read, any number asked for first and any
  number of crashes.
- *ResultState*: `UnanimousAlways`, `DatabaseTrue` and `NoFalseAlarmAlways`: for any device family, number of places
  and parts, bits, values and numbers, any order of the results, and for the first two any wrong ones.
- *ToolPipe*: `AcceptedWhole` and `DirectoryKept`: for lists and pipes of any size.
- *IcecubeLoop*: `RestartRegains`, `LayoutFound` and `NothingOrphaned`: for any number of threads, designs and devices, and
  whatever the harvester makes of a sample within its promise.
- *PartDump*: `PartFaithful` and `ClassesPreserved`: for any dump of either tool and every order of its tiles,
  wires and nodes; `DumpInvariant` says what the builder holds in between.
- *WireTree*: `EndsMeet`, `TreesAreRoots` and `SwitchesFound`: for dies of any size, any database and expansion that
  respect the assumptions, and any order of the expansion within its phases. The switches may drive any wires;
  `NoneOverlooked` says that none is overlooked on a grid with `DrivenAtRoot`.

Model-checked only:

- `ProcessTerminates`, `Ends`, `SearchEnds`, `Finishes`, `HangsOnlyIfNeverOpened`: liveness under fairness, out
  of the prover's reach.

Every invariant and action property the runs check is proved.

Induction over numbers need not be taken on trust: finite sets of numbers are well founded under inclusion
(`FS_StrictSubsetOrderingWellFounded`), which gives `LeastNat`, a least member of each set of numbers, and with it
`Iterate`, that a loop of a given number of steps has an outcome after each. `HammerBatchProofs`,
`HammerRunProofs`, `IcecubeLoopProofs`, `WireTreeProofs` and `PartDumpProofs` use them for `Binary`, for the queue of runs,
for the scan of the rows, for the main passes, `resolve_wire` and `wire_tree`, and for the base of a node's template.

## 5. What is not modelled

Whole components:

- *Bitstream parsers* (`xilinx-bitstream`, `siliconblue`): a sequential decoder and the parsers over it. What they
  do follows the recorded stream word by word; a model over bounded words would restate the tables of
  registers and lengths.
- *Fuzzers and backends of the families* (`ise-hammer`, `cpld`): tables of fuzzers on top of the two crates
  modelled here. Their `bitgen` is external to `HammerRun`.
- *Geometry and databases* (`rd2db`, `rd2geom`, `rdverify`, `naming`, the device families, Lattice, `finish`): large,
  sequential conversions decided by the vendors' data. What they start from is in `PartDump`, what they
  build in `WireTree`.
- *Formats and documentation* (`jed`, `sdf`, `xdl`, the generators of documentation): conversions without state.

Inside the modelled components:

- *engine*: the edge of `rename_global` for a name without an entry (`EmptyRename` states it).
- *hammer*: generators without a tile class that have sad properties (no generator of the repository is one),
  `Backend::postproc`, the threads of the diagnosis, `max_threads = Some(0)`, and devices whose switches cancel
  out, which reach `ResultState` as wrong results.
- *results*: the algebra of `Diff`, `peek_diffs`, the fixed and DRP orders, miscellaneous and device data.
- *harvesting*: the tables of a part, the generation of designs, the parsing of reports.
- *parts*: sites, packages and the other attributes of pips, empty tiles, stolen sites.
- *grid*: bels, polarity, several dies.
