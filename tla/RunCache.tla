-------------------------------- MODULE RunCache --------------------------------
(***************************************************************************)
(* The tool runs of icecube-harvester and their cache on disk (run.rs).    *)
(* run() looks a design up under a key in the archives ok/<key>.zip and    *)
(* fail/<key>.zip; if neither holds it, the vendor tool is run in          *)
(* work/<key>, the directory is packed into work/<key>.zip, and that is    *)
(* moved to ok or fail.  The program may end at any step (a crash, or a    *)
(* panic on a report that get_result cannot read) and is then restarted on *)
(* what the disk holds, perhaps with another design under the same key.    *)
(*                                                                         *)
(* Keys are unique to a caller: there is at most one call per key at a time.*)
(* The vendor tool is external.                                            *)
(***************************************************************************)
EXTENDS Naturals

CONSTANTS
    Keys,      \* the names of the runs
    Designs,
    NoDesign,
    Tools      \* the tools considered: the exits each design may have

\* "ok": success, and get_result can read the reports; "bad": success, but it
\* cannot; "fail": no success, or killed by `timeout`.
Exits == {"ok", "bad", "fail"}

ASSUME NoDesignFits == NoDesign \notin Designs
ASSUME ToolsFit == Tools \subseteq [Designs -> (SUBSET Exits) \ {{}}]

\* An archive: the design in it, how the tool ended on it, and the designs whose
\* reports it holds.
Archives == [key : Keys, design : Designs, exit : Exits, reports : SUBSET Designs,
             whole : BOOLEAN]

VARIABLES
    tool,     \* the tool (never changes)
    ok,       \* the archives ok/*.zip
    fail,     \* fail/*.zip
    packed,   \* work/*.zip
    dir,      \* work/<key>: the designs whose reports lie there
    pc,       \* of each key, where the call of run() is: "idle", "ok", "fail", "prepare",
              \* "tool", "pack", "finish", "clean", "read", "replace", "move",
              \* "forget" (remove_cache_key) or "panicked"
    ask,      \* the design asked for
    exit,     \* status
    reply     \* what the last call returned: {} or {[design, exit, reports]}
disk == <<ok, fail, packed, dir>>
call == <<pc, ask, exit, reply>>
vars == <<tool, disk, call>>

Init ==
    /\ tool \in Tools
    /\ ok = {} /\ fail = {} /\ packed = {}
    /\ dir = [k \in Keys |-> {}]
    /\ pc = [k \in Keys |-> "idle"]
    /\ ask = [k \in Keys |-> NoDesign]
    /\ exit = [k \in Keys |-> "fail"]
    /\ reply = [k \in Keys |-> {}]

-----------------------------------------------------------------------------
\* The archives of a directory but key k's.
Without(zips, k) == {z \in zips : z.key # k}

\* The file of an archive is written anew.
Written(zips, z) == Without(zips, z.key) \cup {z}

\* The archive opens and its design is the one asked for.  Mistakes: the archive of
\* the key is taken for that of the design; failures are tried again.
HitsAnyDesign(zips, k) == {z \in zips : z.key = k /\ z.whole}

HitsSuccess(zips, k) ==
    {z \in zips : z.key = k /\ z.whole /\ z.design = ask[k] /\ z.exit = "ok"}

Hits(zips, k) == {z \in zips : z.key = k /\ z.whole /\ z.design = ask[k]}

Goto(k, l) == pc' = [pc EXCEPT ![k] = l]

\* run() returns the design's outcome and reports.
Return(k, d, e, r) ==
    /\ pc' = [pc EXCEPT ![k] = "idle"]
    /\ ask' = [ask EXCEPT ![k] = NoDesign]
    /\ exit' = [exit EXCEPT ![k] = "fail"]
    /\ reply' = [reply EXCEPT ![k] = {[design |-> d, exit |-> e, reports |-> r]}]

Call(k, d) ==
    /\ pc[k] = "idle"
    /\ Goto(k, "ok")
    /\ ask' = [ask EXCEPT ![k] = d]
    /\ reply' = [reply EXCEPT ![k] = {}]
    /\ UNCHANGED <<tool, disk, exit>>

\* An unreadable report in the cache would make get_result panic.
LookOk(k) ==
    /\ pc[k] = "ok"
    /\ \/ \E z \in Hits(ok, k) :
            IF z.exit = "ok"
            THEN Return(k, ask[k], "ok", z.reports)
            ELSE Goto(k, "panicked") /\ UNCHANGED <<ask, exit, reply>>
       \/ /\ Hits(ok, k) = {}
          /\ Goto(k, "fail")
          /\ UNCHANGED <<ask, exit, reply>>
    /\ UNCHANGED <<tool, disk>>

LookFail(k) ==
    /\ pc[k] = "fail"
    /\ \/ \E z \in Hits(fail, k) : Return(k, ask[k], "fail", {})
       \/ /\ Hits(fail, k) = {}
          /\ Goto(k, "prepare")
          /\ UNCHANGED <<ask, exit, reply>>
    /\ UNCHANGED <<tool, disk>>

\* A mistake: what a run that crashed has left in the directory stays there.
EmptiedNot(k) == dir

Emptied(k) == [dir EXCEPT ![k] = {}]

\* remove_dir_all, create_dir_all and the input files
Prepare(k) ==
    /\ pc[k] = "prepare"
    /\ dir' = Emptied(k)
    /\ Goto(k, "tool")
    /\ UNCHANGED <<tool, ok, fail, packed, ask, exit, reply>>

\* A tool that fails may have written reports before.
RunTool(k) ==
    /\ pc[k] = "tool"
    /\ \E e \in tool[ask[k]], wrote \in BOOLEAN :
          /\ exit' = [exit EXCEPT ![k] = e]
          /\ dir' = IF e # "fail" \/ wrote
                    THEN [dir EXCEPT ![k] = @ \cup {ask[k]}] ELSE dir
    /\ Goto(k, "pack")
    /\ UNCHANGED <<tool, ok, fail, packed, ask, reply>>

Archive(k, w) ==
    [key |-> k, design |-> ask[k], exit |-> exit[k], reports |-> dir[k], whole |-> w]

\* Everything in the directory goes into the archive; its index comes last.
Pack(k) ==
    /\ pc[k] = "pack"
    /\ packed' = Written(packed, Archive(k, FALSE))
    /\ Goto(k, "finish")
    /\ UNCHANGED <<tool, ok, fail, dir, ask, exit, reply>>

\* zip.finish_into_readable()
Finish(k) ==
    /\ pc[k] = "finish"
    /\ packed' = Written(packed, Archive(k, TRUE))
    /\ Goto(k, "clean")
    /\ UNCHANGED <<tool, ok, fail, dir, ask, exit, reply>>

Clean(k) ==
    /\ pc[k] = "clean"
    /\ dir' = [dir EXCEPT ![k] = {}]
    /\ Goto(k, IF exit[k] = "fail" THEN "replace" ELSE "read")
    /\ UNCHANGED <<tool, ok, fail, packed, ask, exit, reply>>

\* get_result of the new archive, which may panic
ReadResult(k) ==
    /\ pc[k] = "read"
    /\ Goto(k, IF exit[k] = "ok" THEN "replace" ELSE "panicked")
    /\ UNCHANGED <<tool, disk, ask, exit, reply>>

\* remove_file of the archive that is replaced
ReplaceOne(k) ==
    IF exit[k] = "fail"
    THEN fail' = Without(fail, k) /\ UNCHANGED ok
    ELSE ok' = Without(ok, k) /\ UNCHANGED fail

Replace(k) ==
    /\ pc[k] = "replace"
    /\ ReplaceOne(k)
    /\ Goto(k, "move")
    /\ UNCHANGED <<tool, packed, dir, ask, exit, reply>>

\* rename, and the return from run()
Move(k) ==
    /\ pc[k] = "move"
    /\ \E z \in packed :
          /\ z.key = k
          /\ packed' = packed \ {z}
          /\ IF exit[k] = "fail"
             THEN fail' = Written(fail, z) /\ UNCHANGED ok
             ELSE ok' = Written(ok, z) /\ UNCHANGED fail
          /\ Return(k, ask[k], exit[k], IF exit[k] = "fail" THEN {} ELSE z.reports)
    /\ UNCHANGED <<tool, dir>>

\* remove_cache_key: first ok, then fail
ForgetOk(k) ==
    /\ pc[k] = "idle"
    /\ ok' = Without(ok, k)
    /\ Goto(k, "forget")
    /\ reply' = [reply EXCEPT ![k] = {}]
    /\ UNCHANGED <<tool, fail, packed, dir, ask, exit>>

ForgetFail(k) ==
    /\ pc[k] = "forget"
    /\ fail' = Without(fail, k)
    /\ Goto(k, "idle")
    /\ UNCHANGED <<tool, ok, packed, dir, ask, exit, reply>>

\* The program ends, wherever it is, and is started again.
Restart ==
    /\ pc' = [k \in Keys |-> "idle"]
    /\ ask' = [k \in Keys |-> NoDesign]
    /\ exit' = [k \in Keys |-> "fail"]
    /\ reply' = [k \in Keys |-> {}]
    /\ UNCHANGED <<tool, disk>>

-----------------------------------------------------------------------------
Run(k) ==
    \/ LookOk(k)
    \/ LookFail(k)
    \/ Prepare(k)
    \/ RunTool(k)
    \/ Pack(k)
    \/ Finish(k)
    \/ Clean(k)
    \/ ReadResult(k)
    \/ Replace(k)
    \/ Move(k)

Next ==
    \/ \E k \in Keys : \/ \E d \in Designs : Call(k, d)
                       \/ Run(k)
                       \/ ForgetOk(k)
                       \/ ForgetFail(k)
    \/ Restart

Spec == Init /\ [][Next]_vars

-----------------------------------------------------------------------------
\* A directory holds one file under a name.
Directory(zips) ==
    /\ zips \subseteq Archives
    /\ \A y, z \in zips : y.key = z.key => y = z

TypeOK ==
    /\ tool \in Tools
    /\ Directory(ok) /\ Directory(fail) /\ Directory(packed)
    /\ dir \in [Keys -> SUBSET Designs]
    /\ pc \in [Keys -> {"idle", "ok", "fail", "prepare", "tool", "pack", "finish", "clean",
                        "read", "replace", "move", "forget", "panicked"}]
    /\ ask \in [Keys -> Designs \cup {NoDesign}]
    /\ exit \in [Keys -> Exits]
    /\ reply \in [Keys -> SUBSET [design : Designs, exit : Exits, reports : SUBSET Designs]]

\* Every archive in ok can be served: it opens, its reports are those of the design
\* beside them and of no other, and get_result reads them.  get_cached_designs
\* unwraps each of these on every start of the program: one archive half written,
\* or with the leavings of a run that crashed, would stop it for good.
CacheServes ==
    \A z \in ok : z.whole /\ z.exit = "ok" /\ z.reports = {z.design}

\* A cached outcome is lost only for that of another design which was run under the
\* same key, or when its owner removes it: no crash, and no failure of the tool,
\* takes what was won before (run, remove_cache_key).
OnlyReplaced ==
    [][\A z \in (ok \cup fail) \ (ok' \cup fail') :
          \/ /\ pc[z.key] = "replace" /\ ask[z.key] # z.design
             /\ (z \in ok <=> exit[z.key] # "fail")
          \/ pc[z.key] \in {"idle", "forget"} /\ pc[z.key] # pc'[z.key]]_vars

\* The cache is a memo: no outcome is changed, by whatever restarts, while it is
\* remembered, and one a caller was told is remembered.
Memo == INSTANCE RunMemo WITH
    memo <- {<<z.key, z.design, z.exit>> : z \in ok \cup fail},
    reply <- [k \in Keys |-> {<<r.design, r.exit>> : r \in reply[k]}]

ImplementsMemo == Memo!Spec
=============================================================================
