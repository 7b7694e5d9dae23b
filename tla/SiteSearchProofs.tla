--------------------------- MODULE SiteSearchProofs ---------------------------
(***************************************************************************)
(* Proofs about running tools, for any keys, designs and tools,            *)
(*   - that the cache of tool runs survives whatever ends the program      *)
(*     (the system of RunCache: Spec);                                     *)
(*   - that the search for sites finds the same however often it is        *)
(*     started again, and wastes at most the tool run a crash interrupts   *)
(*     (the system of SiteSearch: SearchSpec);                             *)
(*   - that a list read from a tool is accepted only whole, and the tool   *)
(*     is not left without its directory (the system of ToolPipe:          *)
(*     PipeSpec, which shares nothing with the two others).                *)
(***************************************************************************)
EXTENDS SiteSearch, ToolPipe, TLAPS, FiniteSetTheorems

(***************************************************************************)
(* The cache of tool runs.                                                 *)
(***************************************************************************)

\* A call that has not found its design in the cache.
Working == {"prepare", "tool", "pack", "finish", "clean", "read", "replace", "move"}

Absent(zips, k) == \A z \in zips : z.key = k => z.design # ask[k]

\* The work archive of key k is that of the call.
PackedWell(k) ==
    \E z \in packed :
        /\ z.key = k /\ z.design = ask[k] /\ z.exit = exit[k] /\ z.whole
        /\ exit[k] # "fail" => z.reports = {ask[k]}

\* A design is cached at most once, with the exit its place says.
CacheGood ==
    /\ CacheServes
    /\ \A z \in fail : z.whole /\ z.exit = "fail"
    /\ \A y \in ok, z \in fail : y.key = z.key => y.design # z.design

CallGood(k) ==
    /\ pc[k] \in {"ok", "fail"} \cup Working => ask[k] \in Designs
    /\ pc[k] \in {"fail"} \cup Working => Absent(ok, k)
    /\ pc[k] \in Working => Absent(fail, k)
    /\ pc[k] = "tool" => dir[k] = {}
    /\ pc[k] \in {"pack", "finish"} =>
          /\ dir[k] \subseteq {ask[k]}
          /\ exit[k] # "fail" => ask[k] \in dir[k]
    /\ pc[k] \in {"clean", "read", "replace", "move"} => PackedWell(k)
    /\ pc[k] \in {"replace", "move"} => exit[k] # "bad"
    /\ pc[k] = "read" => exit[k] # "fail"
    /\ pc[k] = "move" => \A z \in (IF exit[k] = "fail" THEN fail ELSE ok) : z.key # k

\* An answer a caller holds is in the cache.
Held(k) ==
    /\ pc[k] # "idle" => reply[k] = {}
    /\ \A r \in reply[k] :
          \E z \in ok \cup fail : z.key = k /\ z.design = r.design /\ z.exit = r.exit

IInv ==
    /\ TypeOK
    /\ CacheGood
    /\ \A k \in Keys : CallGood(k) /\ Held(k)

-----------------------------------------------------------------------------
LEMMA InitOK == Init => IInv
<1> SUFFICES ASSUME Init PROVE IInv
  OBVIOUS
<1>1. TypeOK
  BY ToolsFit DEF Init, TypeOK, Directory, Exits
<1>2. CacheGood
  BY DEF Init, CacheGood, CacheServes
<1>3. ASSUME NEW k \in Keys PROVE CallGood(k) /\ Held(k)
  BY DEF Init, CallGood, Held, Working
<1> QED
  BY <1>1, <1>2, <1>3 DEF IInv

LEMMA ArchiveType ==
    ASSUME TypeOK, NEW k \in Keys, ask[k] \in Designs, NEW w \in BOOLEAN
    PROVE  Archive(k, w) \in Archives
  BY DEF TypeOK, Archive, Archives

LEMMA WrittenType ==
    ASSUME NEW zips, Directory(zips), NEW z \in Archives
    PROVE  Directory(Written(zips, z))
  BY DEF Directory, Written, Without

LEMMA WithoutType ==
    ASSUME NEW zips, Directory(zips), NEW k
    PROVE  Directory(Without(zips, k))
  BY DEF Directory, Without

-----------------------------------------------------------------------------
(* Calls touch nothing of another key.                                     *)

\* Key j's part of the state.
Same(j) ==
    /\ pc'[j] = pc[j] /\ ask'[j] = ask[j] /\ exit'[j] = exit[j] /\ reply'[j] = reply[j]
    /\ dir'[j] = dir[j]
    /\ \A z \in Archives : z.key = j =>
          /\ z \in ok' <=> z \in ok
          /\ z \in fail' <=> z \in fail
          /\ z \in packed' <=> z \in packed

LEMMA SameGood ==
    ASSUME TypeOK, TypeOK', NEW j \in Keys, CallGood(j), Held(j), Same(j)
    PROVE  CallGood(j)' /\ Held(j)'
<1>1. /\ \A z \in ok : z \in Archives
      /\ \A z \in fail : z \in Archives
      /\ \A z \in packed : z \in Archives
      /\ \A z \in ok' : z \in Archives
      /\ \A z \in fail' : z \in Archives
      /\ \A z \in packed' : z \in Archives
  BY DEF TypeOK, Directory
<1>2. Absent(ok, j) => Absent(ok, j)'
  BY <1>1 DEF Same, Absent
<1>3. Absent(fail, j) => Absent(fail, j)'
  BY <1>1 DEF Same, Absent
<1>4. PackedWell(j) => PackedWell(j)'
  BY <1>1 DEF Same, PackedWell
<1>5. CallGood(j)'
  BY <1>1, <1>2, <1>3, <1>4 DEF Same, CallGood
<1>6. Held(j)'
  BY <1>1 DEF Same, Held
<1> QED
  BY <1>5, <1>6

\* What a step of key k has to show.
LEMMA OneKey ==
    ASSUME IInv, NEW k \in Keys, TypeOK', CacheGood', CallGood(k)', Held(k)',
           \A j \in Keys : j # k => Same(j)
    PROVE  IInv'
<1>1. ASSUME NEW j \in Keys PROVE CallGood(j)' /\ Held(j)'
  <2>1. CASE j = k
    BY <2>1
  <2>2. CASE j # k
    BY <2>2, SameGood DEF IInv
  <2> QED
    BY <2>1, <2>2
<1> QED
  BY <1>1 DEF IInv

-----------------------------------------------------------------------------
(* One lemma per step of run().                                            *)

LEMMA CallKeeps ==
    ASSUME IInv, NEW k \in Keys, NEW d \in Designs, Call(k, d)
    PROVE  IInv'
<1> USE DEF Call, Goto, disk
<1>1. TypeOK'
  BY DEF IInv, TypeOK
<1>2. CacheGood'
  BY DEF IInv, CacheGood, CacheServes
<1>3. CallGood(k)' /\ Held(k)'
  BY DEF IInv, TypeOK, CallGood, Held, Working
<1>4. \A j \in Keys : j # k => Same(j)
  BY DEF IInv, TypeOK, Same
<1> QED
  BY <1>1, <1>2, <1>3, <1>4, OneKey

LEMMA LookOkKeeps ==
    ASSUME IInv, NEW k \in Keys, LookOk(k)
    PROVE  IInv'
<1> USE DEF LookOk, Goto, Return, disk
<1>1. TypeOK'
  BY DEF IInv, TypeOK, Hits, Exits, CallGood, Directory, Archives
<1>2. CacheGood'
  BY DEF IInv, CacheGood, CacheServes
<1>3. CallGood(k)'
  BY DEF IInv, TypeOK, CallGood, Working, Absent, Hits, CacheGood, CacheServes
<1>4. Held(k)'
  BY DEF IInv, TypeOK, Held, Hits
<1>5. \A j \in Keys : j # k => Same(j)
  BY DEF IInv, TypeOK, Same
<1> QED
  BY <1>1, <1>2, <1>3, <1>4, <1>5, OneKey

LEMMA LookFailKeeps ==
    ASSUME IInv, NEW k \in Keys, LookFail(k)
    PROVE  IInv'
<1> USE DEF LookFail, Goto, Return, disk
<1>1. TypeOK'
  BY DEF IInv, TypeOK, Hits, Exits, CallGood, Directory, Archives
<1>2. CacheGood'
  BY DEF IInv, CacheGood, CacheServes
<1>3. CallGood(k)'
  BY DEF IInv, TypeOK, CallGood, Working, Absent, Hits, CacheGood, CacheServes
<1>4. Held(k)'
  BY DEF IInv, TypeOK, Held, Hits, CacheGood
<1>5. \A j \in Keys : j # k => Same(j)
  BY DEF IInv, TypeOK, Same
<1> QED
  BY <1>1, <1>2, <1>3, <1>4, <1>5, OneKey

LEMMA PrepareKeeps ==
    ASSUME IInv, NEW k \in Keys, Prepare(k)
    PROVE  IInv'
<1> USE DEF Prepare, Goto, Emptied
<1>1. TypeOK'
  BY DEF IInv, TypeOK
<1>2. CacheGood'
  BY DEF IInv, CacheGood, CacheServes
<1>3. CallGood(k)' /\ Held(k)'
  BY DEF IInv, TypeOK, CallGood, Working, Absent, Held
<1>4. \A j \in Keys : j # k => Same(j)
  BY DEF IInv, TypeOK, Same
<1> QED
  BY <1>1, <1>2, <1>3, <1>4, OneKey

LEMMA RunToolKeeps ==
    ASSUME IInv, NEW k \in Keys, RunTool(k)
    PROVE  IInv'
<1> USE DEF RunTool, Goto
<1>1. ask[k] \in Designs /\ tool[ask[k]] \in SUBSET Exits
  BY ToolsFit DEF IInv, TypeOK, CallGood, Working
<1>2. TypeOK'
  BY <1>1 DEF IInv, TypeOK
<1>3. CacheGood'
  BY DEF IInv, CacheGood, CacheServes
<1>4. CallGood(k)' /\ Held(k)'
  BY <1>1 DEF IInv, TypeOK, CallGood, Working, Absent, Held
<1>5. \A j \in Keys : j # k => Same(j)
  BY DEF IInv, TypeOK, Same
<1> QED
  BY <1>2, <1>3, <1>4, <1>5, OneKey

LEMMA PackKeeps ==
    ASSUME IInv, NEW k \in Keys, Pack(k)
    PROVE  IInv'
<1> USE DEF Pack, Goto
<1>1. Archive(k, FALSE) \in Archives
  BY ArchiveType DEF IInv, CallGood, Working
<1>2. TypeOK'
  <2>1. Directory(packed')
    BY <1>1, WrittenType DEF IInv, TypeOK
  <2>2. Directory(packed)'
    BY <2>1 DEF Directory
  <2> QED
    BY <2>2 DEF IInv, TypeOK, Directory
<1>3. CacheGood'
  BY DEF IInv, CacheGood, CacheServes
<1>4. CallGood(k)' /\ Held(k)'
  BY DEF IInv, TypeOK, CallGood, Working, Absent, Held
<1>5. \A j \in Keys : j # k => Same(j)
  BY DEF IInv, TypeOK, Same, Written, Without, Archive
<1> QED
  BY <1>2, <1>3, <1>4, <1>5, OneKey

LEMMA FinishKeeps ==
    ASSUME IInv, NEW k \in Keys, Finish(k)
    PROVE  IInv'
<1> USE DEF Finish, Goto
<1>1. Archive(k, TRUE) \in Archives
  BY ArchiveType DEF IInv, CallGood, Working
<1>2. TypeOK'
  <2>1. Directory(packed')
    BY <1>1, WrittenType DEF IInv, TypeOK
  <2>2. Directory(packed)'
    BY <2>1 DEF Directory
  <2> QED
    BY <2>2 DEF IInv, TypeOK, Directory
<1>3. CacheGood'
  BY DEF IInv, CacheGood, CacheServes
<1>4. PackedWell(k)'
  <2>1. /\ Archive(k, TRUE).key = k /\ Archive(k, TRUE).design = ask[k]
        /\ Archive(k, TRUE).exit = exit[k] /\ Archive(k, TRUE).whole
        /\ Archive(k, TRUE).reports = dir[k]
    BY DEF Archive
  <2>2. exit[k] # "fail" => dir[k] = {ask[k]}
    BY DEF IInv, CallGood
  <2>3. Archive(k, TRUE) \in packed'
    BY DEF Written
  <2> QED
    BY <2>1, <2>2, <2>3 DEF PackedWell
<1>5. CallGood(k)' /\ Held(k)'
  BY <1>4 DEF IInv, TypeOK, CallGood, Working, Absent, Held
<1>6. \A j \in Keys : j # k => Same(j)
  BY DEF IInv, TypeOK, Same, Written, Without, Archive
<1> QED
  BY <1>2, <1>3, <1>5, <1>6, OneKey

LEMMA CleanKeeps ==
    ASSUME IInv, NEW k \in Keys, Clean(k)
    PROVE  IInv'
<1> USE DEF Clean, Goto
<1>1. TypeOK'
  BY DEF IInv, TypeOK
<1>2. CacheGood'
  BY DEF IInv, CacheGood, CacheServes
<1>3. CallGood(k)' /\ Held(k)'
  <2>1. PackedWell(k)'
    BY DEF IInv, CallGood, PackedWell
  <2>2. /\ Absent(ok, k)' /\ Absent(fail, k)'
        /\ ask[k] \in Designs /\ ask'[k] = ask[k]
    BY DEF IInv, CallGood, Working, Absent
  <2>3. pc'[k] \in {"read", "replace", "panicked"}
    BY DEF IInv, TypeOK
  <2>4. (pc'[k] = "replace" => exit'[k] # "bad") /\ (pc'[k] = "read" => exit'[k] # "fail")
    BY DEF IInv, TypeOK
  <2>5. CallGood(k)'
    BY <2>1, <2>2, <2>3, <2>4 DEF CallGood, Working
  <2>6. Held(k)'
    BY <2>3 DEF IInv, Held
  <2> QED
    BY <2>5, <2>6
<1>4. \A j \in Keys : j # k => Same(j)
  BY DEF IInv, TypeOK, Same
<1> QED
  BY <1>1, <1>2, <1>3, <1>4, OneKey

LEMMA ReadResultKeeps ==
    ASSUME IInv, NEW k \in Keys, ReadResult(k)
    PROVE  IInv'
<1> USE DEF ReadResult, Goto, disk
<1>1. TypeOK'
  BY DEF IInv, TypeOK
<1>2. CacheGood'
  BY DEF IInv, CacheGood, CacheServes
<1>3. CallGood(k)' /\ Held(k)'
  <2>1. PackedWell(k)'
    BY DEF IInv, CallGood, PackedWell
  <2>2. /\ Absent(ok, k)' /\ Absent(fail, k)'
        /\ ask[k] \in Designs /\ ask'[k] = ask[k]
    BY DEF IInv, CallGood, Working, Absent
  <2>3. pc'[k] \in {"read", "replace", "panicked"}
    BY DEF IInv, TypeOK
  <2>4. (pc'[k] = "replace" => exit'[k] # "bad") /\ (pc'[k] = "read" => exit'[k] # "fail")
    BY DEF IInv, TypeOK
  <2>5. CallGood(k)'
    BY <2>1, <2>2, <2>3, <2>4 DEF CallGood, Working
  <2>6. Held(k)'
    BY <2>3 DEF IInv, Held
  <2> QED
    BY <2>5, <2>6
<1>4. \A j \in Keys : j # k => Same(j)
  BY DEF IInv, TypeOK, Same
<1> QED
  BY <1>1, <1>2, <1>3, <1>4, OneKey

LEMMA ReplaceKeeps ==
    ASSUME IInv, NEW k \in Keys, Replace(k)
    PROVE  IInv'
<1> USE DEF Replace, ReplaceOne, Goto, Without
<1>1. TypeOK'
  BY DEF IInv, TypeOK, Directory
<1>2. CacheGood'
  BY DEF IInv, CacheGood, CacheServes
<1>3. CallGood(k)' /\ Held(k)'
  BY DEF IInv, TypeOK, CallGood, PackedWell, Working, Absent, Held
<1>4. \A j \in Keys : j # k => Same(j)
  BY DEF IInv, TypeOK, Same
<1> QED
  BY <1>1, <1>2, <1>3, <1>4, OneKey

\* The archive that is moved is the call's.
LEMMA Moved ==
    ASSUME IInv, NEW k \in Keys, pc[k] = "move", NEW z \in packed, z.key = k
    PROVE  /\ z \in Archives /\ z.design = ask[k] /\ z.exit = exit[k] /\ z.whole
           /\ exit[k] # "fail" => z.reports = {ask[k]}
<1>1. PackedWell(k)
  BY DEF IInv, CallGood
<1> QED
  BY <1>1 DEF IInv, TypeOK, Directory, PackedWell

LEMMA MoveKeeps ==
    ASSUME IInv, NEW k \in Keys, Move(k)
    PROVE  IInv'
<1>1. PICK z \in packed :
         /\ z.key = k
         /\ packed' = packed \ {z}
         /\ IF exit[k] = "fail"
            THEN fail' = Written(fail, z) /\ UNCHANGED ok
            ELSE ok' = Written(ok, z) /\ UNCHANGED fail
         /\ Return(k, ask[k], exit[k], IF exit[k] = "fail" THEN {} ELSE z.reports)
  BY DEF Move
<1>2. pc[k] = "move" /\ UNCHANGED <<tool, dir>>
  BY DEF Move
<1>3. /\ z \in Archives /\ z.design = ask[k] /\ z.exit = exit[k] /\ z.whole
      /\ exit[k] # "fail" => z.reports = {ask[k]}
  BY <1>1, <1>2, Moved
<1>4. ask[k] \in Designs /\ Absent(ok, k) /\ Absent(fail, k) /\ exit[k] # "bad"
  BY <1>2 DEF IInv, CallGood, Working
<1>5. exit[k] \in Exits
  BY DEF IInv, TypeOK
<1>6. TypeOK'
  <2>1. Directory(ok)'
    BY <1>1, <1>3, WrittenType DEF IInv, TypeOK, Directory
  <2>2. Directory(fail)'
    BY <1>1, <1>3, WrittenType DEF IInv, TypeOK, Directory
  <2>3. Directory(packed)'
    BY <1>1 DEF IInv, TypeOK, Directory
  <2>4. reply' \in [Keys -> SUBSET [design : Designs, exit : Exits, reports : SUBSET Designs]]
    BY <1>1, <1>3, <1>4, <1>5 DEF IInv, TypeOK, Return, Archives
  <2> QED
    BY <1>1, <1>2, <2>1, <2>2, <2>3, <2>4 DEF IInv, TypeOK, Return, Exits
<1>7. CacheGood'
  BY <1>1, <1>3, <1>4, <1>5 DEF IInv, CacheGood, CacheServes, Written, Without, Absent, Exits
<1>8. CallGood(k)'
  BY <1>1, <1>2 DEF IInv, TypeOK, CallGood, Working, Return
<1>9. Held(k)'
  BY <1>1, <1>2, <1>3 DEF IInv, TypeOK, Held, Return, Written
<1>10. \A j \in Keys : j # k => Same(j)
  BY <1>1, <1>2 DEF IInv, TypeOK, Same, Return, Written, Without
<1> QED
  BY <1>6, <1>7, <1>8, <1>9, <1>10, OneKey

LEMMA ForgetOkKeeps ==
    ASSUME IInv, NEW k \in Keys, ForgetOk(k)
    PROVE  IInv'
<1> USE DEF ForgetOk, Goto, Without
<1>1. TypeOK'
  BY DEF IInv, TypeOK, Directory
<1>2. CacheGood'
  BY DEF IInv, CacheGood, CacheServes
<1>3. CallGood(k)' /\ Held(k)'
  BY DEF IInv, TypeOK, CallGood, Working, Absent, Held
<1>4. \A j \in Keys : j # k => Same(j)
  BY DEF IInv, TypeOK, Same
<1> QED
  BY <1>1, <1>2, <1>3, <1>4, OneKey

LEMMA ForgetFailKeeps ==
    ASSUME IInv, NEW k \in Keys, ForgetFail(k)
    PROVE  IInv'
<1> USE DEF ForgetFail, Goto, Without
<1>1. TypeOK'
  BY DEF IInv, TypeOK, Directory
<1>2. CacheGood'
  BY DEF IInv, CacheGood, CacheServes
<1>3. CallGood(k)' /\ Held(k)'
  BY DEF IInv, TypeOK, CallGood, Working, Absent, Held
<1>4. \A j \in Keys : j # k => Same(j)
  BY DEF IInv, TypeOK, Same
<1> QED
  BY <1>1, <1>2, <1>3, <1>4, OneKey

LEMMA RestartKeeps == IInv /\ Restart => IInv'
<1> SUFFICES ASSUME IInv, Restart PROVE IInv'
  OBVIOUS
<1> USE DEF Restart, disk
<1>1. TypeOK'
  BY DEF IInv, TypeOK, Directory, Exits
<1>2. CacheGood'
  BY DEF IInv, CacheGood, CacheServes
<1>3. ASSUME NEW k \in Keys PROVE CallGood(k)' /\ Held(k)'
  BY DEF CallGood, Working, Held
<1> QED
  BY <1>1, <1>2, <1>3 DEF IInv

LEMMA NextKeeps == IInv /\ [Next]_vars => IInv'
<1> SUFFICES ASSUME IInv, [Next]_vars PROVE IInv'
  OBVIOUS
<1>1. ASSUME NEW k \in Keys, Run(k) PROVE IInv'
  BY <1>1, LookOkKeeps, LookFailKeeps, PrepareKeeps, RunToolKeeps, PackKeeps, FinishKeeps,
     CleanKeeps, ReadResultKeeps, ReplaceKeeps, MoveKeeps DEF Run
<1>2. CASE UNCHANGED vars
  <2>1. TypeOK' /\ CacheGood'
    BY <1>2 DEF vars, disk, call, IInv, TypeOK, Directory, CacheGood, CacheServes
  <2>2. ASSUME NEW k \in Keys PROVE CallGood(k)' /\ Held(k)'
    BY <1>2 DEF vars, disk, call, IInv, CallGood, Held, Absent, PackedWell
  <2> QED
    BY <2>1, <2>2 DEF IInv
<1> QED
  BY <1>1, <1>2, CallKeeps, ForgetOkKeeps, ForgetFailKeeps, RestartKeeps DEF Next

THEOREM Invariance == Spec => []IInv
  BY InitOK, NextKeeps, PTL DEF Spec

-----------------------------------------------------------------------------
\* The directories hold one archive per key, and calls are at steps of run().
THEOREM TypeCorrect == Spec => []TypeOK
<1>1. IInv => TypeOK
  BY DEF IInv
<1> QED
  BY <1>1, Invariance, PTL

\* What get_cached_designs unwraps on every start is there, whatever ended the
\* program before and whatever was run under the key.
THEOREM CacheAlwaysServes == Spec => []CacheServes
<1>1. IInv => CacheServes
  BY DEF IInv, CacheGood
<1> QED
  BY <1>1, Invariance, PTL

\* A cached outcome is lost only to another design run under its key, or when its
\* owner removes it.
THEOREM NothingElseLost == Spec => OnlyReplaced
<1> DEFINE Fine(z) ==
      \/ /\ pc[z.key] = "replace" /\ ask[z.key] # z.design
         /\ (z \in ok <=> exit[z.key] # "fail")
      \/ pc[z.key] \in {"idle", "forget"} /\ pc[z.key] # pc'[z.key]
<1>1. ASSUME IInv, [Next]_vars, NEW z \in (ok \cup fail) \ (ok' \cup fail') PROVE Fine(z)
  <2> USE <1>1
  <2>1. ASSUME NEW k \in Keys, Replace(k) PROVE Fine(z)
    <3>1. z.key = k /\ pc[k] = "replace" /\ (exit[k] = "fail" => z \in fail)
          /\ (exit[k] # "fail" => z \in ok)
      BY <2>1 DEF Replace, ReplaceOne, Without
    <3>2. ask[k] # z.design
      BY <3>1 DEF IInv, CallGood, Working, Absent
    <3>3. z \in fail => z \notin ok
      BY DEF IInv, CacheGood, CacheServes
    <3> QED
      BY <3>1, <3>2, <3>3
  <2>2. ASSUME NEW k \in Keys, Move(k) PROVE FALSE
    <3>1. PICK y \in packed :
             /\ y.key = k
             /\ IF exit[k] = "fail"
                THEN fail' = Written(fail, y) /\ UNCHANGED ok
                ELSE ok' = Written(ok, y) /\ UNCHANGED fail
      BY <2>2 DEF Move
    <3>2. \A x \in (IF exit[k] = "fail" THEN fail ELSE ok) : x.key # k
      BY <2>2 DEF Move, IInv, CallGood
    <3> QED
      BY <3>1, <3>2 DEF Written, Without
  <2>3. ASSUME NEW k \in Keys, ForgetOk(k) \/ ForgetFail(k) PROVE Fine(z)
    <3>1. z.key = k
      BY <2>3 DEF ForgetOk, ForgetFail, Without
    <3> QED
      BY <2>3, <3>1 DEF ForgetOk, ForgetFail, Goto, IInv, TypeOK
  <2>4. ASSUME NEW k \in Keys,
               \/ LookOk(k) \/ LookFail(k) \/ Prepare(k) \/ RunTool(k) \/ Pack(k)
               \/ Finish(k) \/ Clean(k) \/ ReadResult(k)
        PROVE  FALSE
    BY <2>4 DEF LookOk, LookFail, Prepare, RunTool, Pack, Finish, Clean, ReadResult, disk
  <2>5. ASSUME NEW k \in Keys, NEW d \in Designs, Call(k, d) PROVE FALSE
    BY <2>5 DEF Call, disk
  <2>6. CASE Restart \/ UNCHANGED vars
    BY <2>6 DEF Restart, vars, disk
  <2> QED
    BY <2>1, <2>2, <2>3, <2>4, <2>5, <2>6 DEF Next, Run
<1>2. IInv /\ [Next]_vars => [\A z \in (ok \cup fail) \ (ok' \cup fail') :
          \/ /\ pc[z.key] = "replace" /\ ask[z.key] # z.design
             /\ (z \in ok <=> exit[z.key] # "fail")
          \/ pc[z.key] \in {"idle", "forget"} /\ pc[z.key] # pc'[z.key]]_vars
  BY <1>1
<1> QED
  BY <1>2, Invariance, PTL DEF Spec, OnlyReplaced

-----------------------------------------------------------------------------
(* The memo.                                                               *)

Remembered == {<<z.key, z.design, z.exit>> : z \in ok \cup fail}
Told == [k \in Keys |-> {<<r.design, r.exit>> : r \in reply[k]}]

\* A cached design has the exit of its archive and no other.
LEMMA OneOutcome ==
    ASSUME IInv, NEW z \in ok \cup fail, NEW e, <<z.key, z.design, e>> \in Remembered
    PROVE  e = z.exit
<1>1. PICK y \in ok \cup fail : <<z.key, z.design, e>> = <<y.key, y.design, y.exit>>
  BY DEF Remembered
<1>2. y.key = z.key /\ y.design = z.design /\ y.exit = e
  BY <1>1
<1>3. CASE (y \in ok /\ z \in ok) \/ (y \in fail /\ z \in fail)
  BY <1>2, <1>3 DEF IInv, CacheGood, CacheServes
<1>4. CASE (y \in ok /\ z \in fail) \/ (y \in fail /\ z \in ok)
  BY <1>2, <1>4 DEF IInv, CacheGood
<1> QED
  BY <1>3, <1>4

\* run() returns: the memo answers.
LEMMA ReturnAnswers ==
    ASSUME IInv, NEW k \in Keys, NEW d \in Designs, NEW e \in Exits, NEW r,
           Return(k, d, e, r), reply[k] = {},
           \A f \in Exits : <<k, d, f>> \in Remembered => f = e,
           Remembered' = Remembered \cup {<<k, d, e>>}
    PROVE  Memo!Answer(k, d, e)
<1>1. Told' = [Told EXCEPT ![k] = {<<d, e>>}]
  <2>1. reply'[k] = {[design |-> d, exit |-> e, reports |-> r]}
    BY DEF IInv, TypeOK, Return
  <2>2. \A j \in Keys : j # k => reply'[j] = reply[j]
    BY DEF IInv, TypeOK, Return
  <2>3. {<<x.design, x.exit>> : x \in reply'[k]} = {<<d, e>>}
    BY <2>1
  <2> QED
    BY <2>2, <2>3 DEF Told
<1>2. Told[k] = {}
  BY DEF Told
<1> QED
  BY <1>1, <1>2 DEF Memo!Answer, Remembered, Told

\* Answers are dropped and outcomes forgotten that nobody holds.
LEMMA DropForgets ==
    ASSUME IInv, IInv', ok' \cup fail' \subseteq ok \cup fail,
           NEW K \in SUBSET Keys,
           \A j \in Keys : reply'[j] = IF j \in K THEN {} ELSE reply[j]
    PROVE  Memo!Forget
<1>1. Told' = [j \in Keys |-> IF j \in K THEN {} ELSE Told[j]]
  <2>1. ASSUME NEW j \in Keys PROVE Told'[j] = IF j \in K THEN {} ELSE Told[j]
    BY DEF Told
  <2> QED
    BY <2>1 DEF Told
<1>2. Remembered' \subseteq Remembered
  BY DEF Remembered
<1>3. ASSUME NEW m \in Remembered, m \notin Remembered'
      PROVE  <<m[2], m[3]>> \notin Told'[m[1]]
  <2>1. PICK z \in ok \cup fail : m = <<z.key, z.design, z.exit>>
    BY DEF Remembered
  <2>2. z.key \in Keys
    BY DEF IInv, TypeOK, Directory, Archives
  <2>3. SUFFICES ASSUME <<z.design, z.exit>> \in Told'[z.key] PROVE FALSE
    BY <2>1
  <2>4. PICK r \in reply'[z.key] : z.design = r.design /\ z.exit = r.exit
    BY <2>2, <2>3 DEF Told
  <2>5. \E y \in ok' \cup fail' : y.key = z.key /\ y.design = r.design /\ y.exit = r.exit
    BY <2>2, <2>4 DEF IInv, Held
  <2>6. m \in Remembered'
    BY <2>1, <2>4, <2>5 DEF Remembered
  <2> QED
    BY <1>3, <2>6
<1> QED
  BY <1>1, <1>2, <1>3 DEF Memo!Forget, Remembered, Told

\* Whatever is run, removed or restarted, the cache behaves as the memo.
THEOREM Implementation == Spec => ImplementsMemo
<1>1. Init => Memo!Init
  BY DEF Init, Memo!Init
<1>2. ASSUME IInv, IInv', [Next]_vars
      PROVE  [Memo!Next]_(Memo!vars)
  <2> USE <1>2
  <2>1. ASSUME NEW k \in Keys, LookOk(k) PROVE [Memo!Next]_(Memo!vars)
    <3>1. CASE Hits(ok, k) = {} \/ UNCHANGED reply
      BY <2>1, <3>1 DEF LookOk, disk, Memo!vars
    <3>2. ASSUME NEW z \in Hits(ok, k), z.exit = "ok", Return(k, ask[k], "ok", z.reports)
          PROVE  Memo!Next
      <4>1. z \in ok /\ z.key = k /\ z.design = ask[k] /\ ask[k] \in Designs /\ reply[k] = {}
        BY <2>1, <3>2 DEF LookOk, Hits, IInv, CallGood, Held
      <4>2. \A f \in Exits : <<k, ask[k], f>> \in Remembered => f = "ok"
        BY <3>2, <4>1, OneOutcome
      <4>3. Remembered' = Remembered \cup {<<k, ask[k], "ok">>}
        BY <2>1, <3>2, <4>1 DEF LookOk, disk, Remembered
      <4> QED
        BY <3>2, <4>1, <4>2, <4>3, ReturnAnswers DEF Memo!Next, Exits
    <3> QED
      BY <2>1, <3>1, <3>2 DEF LookOk
  <2>2. ASSUME NEW k \in Keys, LookFail(k) PROVE [Memo!Next]_(Memo!vars)
    <3>1. CASE UNCHANGED reply
      BY <2>2, <3>1 DEF LookFail, disk, Memo!vars
    <3>2. ASSUME NEW z \in Hits(fail, k), Return(k, ask[k], "fail", {})
          PROVE  Memo!Next
      <4>1. z \in fail /\ z.key = k /\ z.design = ask[k] /\ ask[k] \in Designs /\ reply[k] = {}
            /\ z.exit = "fail"
        BY <2>2, <3>2 DEF LookFail, Hits, IInv, CallGood, Held, CacheGood
      <4>2. \A f \in Exits : <<k, ask[k], f>> \in Remembered => f = "fail"
        BY <4>1, OneOutcome
      <4>3. Remembered' = Remembered \cup {<<k, ask[k], "fail">>}
        BY <2>2, <4>1 DEF LookFail, disk, Remembered
      <4> QED
        BY <3>2, <4>1, <4>2, <4>3, ReturnAnswers DEF Memo!Next, Exits
    <3> QED
      BY <2>2, <3>1, <3>2 DEF LookFail
  <2>3. ASSUME NEW k \in Keys, Move(k) PROVE Memo!Next
    <3>1. PICK z \in packed :
             /\ z.key = k
             /\ IF exit[k] = "fail"
                THEN fail' = Written(fail, z) /\ UNCHANGED ok
                ELSE ok' = Written(ok, z) /\ UNCHANGED fail
             /\ Return(k, ask[k], exit[k], IF exit[k] = "fail" THEN {} ELSE z.reports)
      BY <2>3 DEF Move
    <3>2. /\ pc[k] = "move" /\ ask[k] \in Designs /\ Absent(ok, k) /\ Absent(fail, k)
          /\ reply[k] = {} /\ exit[k] \in Exits
          /\ \A y \in (IF exit[k] = "fail" THEN fail ELSE ok) : y.key # k
      BY <2>3 DEF Move, IInv, TypeOK, CallGood, Working, Held
    <3>3. z.design = ask[k] /\ z.exit = exit[k]
      BY <3>1, <3>2, Moved
    <3>4. ok' \cup fail' = ok \cup fail \cup {z}
      BY <3>1, <3>2 DEF Written, Without
    <3>5. Remembered' = Remembered \cup {<<k, ask[k], exit[k]>>}
      BY <3>1, <3>3, <3>4 DEF Remembered
    <3>6. ASSUME NEW f, <<k, ask[k], f>> \in Remembered PROVE FALSE
      <4>1. PICK y \in ok \cup fail : <<k, ask[k], f>> = <<y.key, y.design, y.exit>>
        BY <3>6 DEF Remembered
      <4> QED
        BY <3>2, <4>1 DEF Absent
    <3> QED
      BY <3>1, <3>2, <3>5, <3>6, ReturnAnswers DEF Memo!Next
  <2>4. ASSUME NEW k \in Keys,
               Replace(k) \/ ForgetOk(k) \/ ForgetFail(k) \/ \E d \in Designs : Call(k, d)
        PROVE  Memo!Next
    <3>1. ok' \cup fail' \subseteq ok \cup fail
      BY <2>4 DEF Replace, ReplaceOne, ForgetOk, ForgetFail, Call, Without, disk
    <3>2. PICK K \in SUBSET Keys :
             \A j \in Keys : reply'[j] = IF j \in K THEN {} ELSE reply[j]
      <4>1. CASE UNCHANGED reply
        BY <4>1
      <4>2. CASE reply' = [reply EXCEPT ![k] = {}]
        <5>1. \A j \in Keys : reply'[j] = IF j \in {k} THEN {} ELSE reply[j]
          BY <4>2 DEF IInv, TypeOK
        <5> QED
          BY <5>1
      <4> QED
        BY <2>4, <4>1, <4>2 DEF Replace, ForgetOk, ForgetFail, Call
    <3> QED
      BY <3>1, <3>2, DropForgets DEF Memo!Next
  <2>5. CASE Restart
    <3>1. \A j \in Keys : reply'[j] = IF j \in Keys THEN {} ELSE reply[j]
      BY <2>5 DEF Restart
    <3>2. ok' \cup fail' \subseteq ok \cup fail
      BY <2>5 DEF Restart, disk
    <3> QED
      BY <3>1, <3>2, DropForgets DEF Memo!Next
  <2>6. ASSUME NEW k \in Keys,
               Prepare(k) \/ RunTool(k) \/ Pack(k) \/ Finish(k) \/ Clean(k) \/ ReadResult(k)
        PROVE  UNCHANGED Memo!vars
    BY <2>6 DEF Prepare, RunTool, Pack, Finish, Clean, ReadResult, disk, Memo!vars
  <2>7. CASE UNCHANGED vars
    BY <2>7 DEF vars, disk, call, Memo!vars
  <2> QED
    BY <2>1, <2>2, <2>3, <2>4, <2>5, <2>6, <2>7 DEF Next, Run
<1> QED
  BY Invariance, <1>1, <1>2, PTL DEF Spec, ImplementsMemo, Memo!Spec

(***************************************************************************)
(* The search for sites.                                                   *)
(***************************************************************************)

\* The cache holds exit e of the design with n instances.
Known(n, e) == \E z \in ok \cup fail : z.key = n /\ z.exit = e

\* The sites found if l instances fitted.
Sites(l) == IF l = 0 THEN {} ELSE {l}

Busy == {k \in Keys : pc[k] \in {"pack", "finish", "clean", "read", "replace", "move"}}

SearchType ==
    /\ phase \in {"double", "halve", "done"}
    /\ low \in Nat /\ high \in Nat /\ low < high
    /\ low # 0 => low \in Keys
    /\ phase # "double" => high \in Keys
    /\ phase = "done" => ~Gap
    /\ best = Sites(low)
    /\ asked \in Nat
    /\ asked # 0 => asked \in Keys /\ asked \in Wanted /\ phase # "done"
    /\ crashes \in Nat /\ toolRuns \in Nat

\* The answer that waits for the search is in the cache.
Waiting ==
    asked # 0 /\ pc[asked] = "idle" =>
        \E e \in {"ok", "fail"} :
            /\ Known(asked, e)
            /\ reply[asked] = {[design |-> asked, exit |-> e,
                                reports |-> IF e = "ok" THEN {asked} ELSE {}]}

\* Only the number asked for is run, under its own key.
OneCall ==
    /\ \A k \in Keys : pc[k] # "idle" =>
          k = asked /\ ask[k] = k /\ pc[k] # "forget"
    /\ \A z \in ok \cup fail \cup packed : z.design = z.key /\ z.exit \in tool[z.key]
    /\ \A k \in Busy : exit[k] \in tool[k]
    /\ Waiting

Sound == IInv /\ SearchType /\ OneCall

-----------------------------------------------------------------------------
LEMMA SoundInit == SearchInit => Sound
<1> SUFFICES ASSUME SearchInit PROVE Sound
  OBVIOUS
<1>1. IInv
  BY InitOK DEF SearchInit
<1>2. SearchType
  BY NumsFit DEF SearchInit, Start, SearchType, Sites
<1>3. OneCall
  BY DEF SearchInit, Start, Init, OneCall, Waiting, Busy
<1> QED
  BY <1>1, <1>2, <1>3 DEF Sound

LEMMA SearchRefinesCache == SearchNext => [Next]_vars
  BY NumsFit DEF SearchNext, Step, Ask, RunStep, Double, Halve, Stop, Crash, Next

\* No archive of the key that is replaced or moved to is there.
LEMMA NoneOfKey ==
    ASSUME Sound, NEW k \in Keys, pc[k] \in Working, NEW e
    PROVE  ~Known(k, e)
<1>1. ask[k] = k
  BY DEF Sound, OneCall, Working
<1>2. Absent(ok, k) /\ Absent(fail, k)
  BY DEF Sound, IInv, CallGood, Working
<1> QED
  BY <1>1, <1>2 DEF Absent, Known, Sound, OneCall

LEMMA ReplacesNone ==
    ASSUME Sound, NEW k \in Keys, Replace(k)
    PROVE  ok' = ok /\ fail' = fail
<1>1. \A z \in ok \cup fail : z.key # k
  BY NoneOfKey DEF Replace, Working, Known
<1> QED
  BY <1>1 DEF Replace, ReplaceOne, Without

\* What a move adds.
LEMMA MoveAdds ==
    ASSUME Sound, NEW k \in Keys, Move(k)
    PROVE  \E z \in packed :
              /\ z.key = k /\ z.design = k /\ z.exit = exit[k] /\ z.exit \in {"ok", "fail"}
              /\ z.exit \in tool[k]
              /\ z \notin ok \cup fail
              /\ ok' \cup fail' = (ok \cup fail) \cup {z}
              /\ packed' = packed \ {z}
              /\ Return(k, k, z.exit, IF z.exit = "ok" THEN {k} ELSE {})
<1>1. PICK z \in packed :
         /\ z.key = k
         /\ packed' = packed \ {z}
         /\ IF exit[k] = "fail"
            THEN fail' = Written(fail, z) /\ UNCHANGED ok
            ELSE ok' = Written(ok, z) /\ UNCHANGED fail
         /\ Return(k, ask[k], exit[k], IF exit[k] = "fail" THEN {} ELSE z.reports)
  BY DEF Move
<1>2. ask[k] = k
  BY DEF Move, Sound, OneCall
<1>3. z.design = k /\ z.exit = exit[k] /\ (exit[k] # "fail" => z.reports = {k})
  BY <1>1, <1>2, Moved DEF Move, Sound
<1>4. exit[k] \in Exits /\ exit[k] # "bad"
  BY DEF Sound, IInv, TypeOK, CallGood, Move
<1>5. \A y \in ok \cup fail : y.key # k
  BY NoneOfKey DEF Move, Working, Known
<1>6. ok' \cup fail' = (ok \cup fail) \cup {z}
  BY <1>1, <1>5 DEF Written, Without
<1>7. z.exit \in tool[k]
  BY <1>1 DEF Sound, OneCall
<1> QED
  BY <1>1, <1>2, <1>3, <1>4, <1>5, <1>6, <1>7 DEF Exits

\* The other steps of run() leave what is cached.
Quiet(k) ==
    \/ LookOk(k) \/ LookFail(k) \/ Prepare(k) \/ RunTool(k) \/ Pack(k)
    \/ Finish(k) \/ Clean(k) \/ ReadResult(k) \/ Replace(k)

LEMMA QuietKeeps ==
    ASSUME Sound, NEW k \in Keys, Quiet(k)
    PROVE  ok' = ok /\ fail' = fail
<1>1. Replace(k) => ok' = ok /\ fail' = fail
  BY ReplacesNone
<1> QED
  BY <1>1 DEF Quiet, LookOk, LookFail, Prepare, RunTool, Pack, Finish, Clean, ReadResult, disk

-----------------------------------------------------------------------------
(* One call at a time.                                                     *)

LEMMA SearchTypeRun ==
    ASSUME Sound, NEW k \in Keys, RunStep(k)
    PROVE  SearchType'
  BY DEF Sound, SearchType, RunStep, search, Gap, Wanted

LEMMA SearchTypeStep ==
    ASSUME Sound, (\E n \in Keys : Ask(n)) \/ Double \/ Halve \/ Stop \/ Crash
    PROVE  SearchType'
<1> USE DEF Sound, SearchType, Gap, Wanted, Sites
<1>1. ASSUME NEW n \in Keys, Ask(n) PROVE SearchType'
  <2>1. n \in Nat /\ n # 0
    BY NumsFit
  <2> QED
    BY <1>1, <2>1 DEF Ask, ghosts
<1>2. ASSUME Answered
      PROVE  \A r \in reply[asked] : r.exit = "ok" => r.reports = {asked}
  BY <1>2 DEF OneCall, Waiting, Answered
<1>3. CASE Double
  <2>1. asked = high /\ asked \in Keys /\ Answered
    BY <1>3 DEF Double, Answered
  <2>2. CASE Fitted = {}
    BY <1>3, <2>1, <2>2 DEF Double, ghosts
  <2>3. ASSUME NEW r \in Fitted, best' = r.reports, low' = high, high' = 2 * high,
               UNCHANGED phase
        PROVE  SearchType'
    <3>1. best' = {asked}
      BY <1>2, <2>1, <2>3 DEF Fitted
    <3> QED
      BY <1>3, <2>1, <2>3, <3>1 DEF Double, ghosts
  <2> QED
    BY <1>3, <2>2, <2>3 DEF Double
<1>4. CASE Halve
  <2>1. asked \in Keys /\ Answered /\ low < asked /\ asked < high
    BY <1>4 DEF Halve, Answered
  <2>2. CASE Fitted = {}
    BY <1>4, <2>1, <2>2 DEF Halve, ghosts
  <2>3. ASSUME NEW r \in Fitted, best' = r.reports, low' = asked, UNCHANGED high
        PROVE  SearchType'
    <3>1. best' = {asked}
      BY <1>2, <2>1, <2>3 DEF Fitted
    <3> QED
      BY <1>4, <2>1, <2>3, <3>1 DEF Halve, ghosts
  <2> QED
    BY <1>4, <2>2, <2>3 DEF Halve
<1>5. CASE Stop
  BY <1>5 DEF Stop
<1>6. CASE Crash
  BY <1>6, NumsFit DEF Crash
<1> QED
  BY <1>1, <1>3, <1>4, <1>5, <1>6

\* A step of run() is one of the number asked for.
LEMMA RunIsAsked ==
    ASSUME Sound, NEW k \in Keys, Run(k)
    PROVE  /\ k = asked /\ ask[k] = k /\ pc[k] # "idle"
           /\ \A j \in Keys : j # k => pc[j] = "idle"
           /\ k # 0
<1>1. pc[k] # "idle"
  BY DEF Run, LookOk, LookFail, Prepare, RunTool, Pack, Finish, Clean, ReadResult, Replace, Move
<1> QED
  BY <1>1, NumsFit DEF Sound, OneCall

\* What a call returns from the cache.
LEMMA LookAnswers ==
    ASSUME Sound, NEW k \in Keys, LookOk(k) \/ LookFail(k), pc'[k] = "idle"
    PROVE  \E e \in {"ok", "fail"} :
              /\ Known(k, e)
              /\ reply'[k] = {[design |-> k, exit |-> e,
                               reports |-> IF e = "ok" THEN {k} ELSE {}]}
<1>1. ask[k] = k
  BY RunIsAsked DEF Run
<1>2. CASE LookOk(k)
  <2>1. PICK z \in Hits(ok, k) : z.exit = "ok" /\ Return(k, ask[k], "ok", z.reports)
    BY <1>2 DEF LookOk, Goto, Sound, IInv, TypeOK
  <2>2. z \in ok /\ z.key = k /\ z.reports = {k}
    BY <1>1, <2>1 DEF Hits, Sound, IInv, CacheGood, CacheServes
  <2>3. reply'[k] = {[design |-> k, exit |-> "ok", reports |-> {k}]}
    BY <1>1, <2>1, <2>2 DEF Return, Sound, IInv, TypeOK
  <2> QED
    BY <2>1, <2>2, <2>3 DEF Known
<1>3. CASE LookFail(k)
  <2>1. PICK z \in Hits(fail, k) : Return(k, ask[k], "fail", {})
    BY <1>3 DEF LookFail, Goto, Sound, IInv, TypeOK
  <2>2. z \in fail /\ z.key = k /\ z.exit = "fail"
    BY <1>1, <2>1 DEF Hits, Sound, IInv, CacheGood
  <2>3. reply'[k] = {[design |-> k, exit |-> "fail", reports |-> {}]}
    BY <1>1, <2>1, <2>2 DEF Return, Sound, IInv, TypeOK
  <2> QED
    BY <2>1, <2>2, <2>3 DEF Known
<1> QED
  BY <1>2, <1>3

LEMMA QuietOneCall ==
    ASSUME Sound, NEW k \in Keys, Quiet(k), RunStep(k)
    PROVE  OneCall'
<1>1. /\ k = asked /\ ask[k] = k /\ pc[k] # "idle" /\ asked' = asked /\ tool' = tool
      /\ \A j \in Keys : j # k => pc[j] = "idle" /\ pc'[j] = "idle"
  <2>1. Run(k) /\ asked' = asked /\ tool' = tool
    BY DEF RunStep, search, Quiet, LookOk, LookFail, Prepare, RunTool, Pack, Finish, Clean,
           ReadResult, Replace
  <2>2. \A j \in Keys : j # k => pc'[j] = pc[j]
    BY DEF Quiet, LookOk, LookFail, Prepare, RunTool, Pack, Finish, Clean, ReadResult, Replace,
           Goto, Return, Sound, IInv, TypeOK
  <2> QED
    BY <2>1, <2>2, RunIsAsked
<1>2. ok' = ok /\ fail' = fail
  BY QuietKeeps
<1>3. /\ pc'[k] # "forget"
      /\ pc'[k] # "idle" => ask'[k] = k
  BY <1>1 DEF Quiet, LookOk, LookFail, Prepare, RunTool, Pack, Finish, Clean, ReadResult,
              Replace, Goto, Return, Sound, IInv, TypeOK
<1>4. \A z \in packed' : z.design = z.key /\ z.exit \in tool[z.key]
  <2>1. Archive(k, TRUE).design = k /\ Archive(k, TRUE).key = k
        /\ Archive(k, FALSE).design = k /\ Archive(k, FALSE).key = k
        /\ Archive(k, TRUE).exit = exit[k] /\ Archive(k, FALSE).exit = exit[k]
    BY <1>1 DEF Archive
  <2>2. Pack(k) \/ Finish(k) => exit[k] \in tool[k]
    BY DEF Pack, Finish, Sound, OneCall, Busy
  <2> QED
    BY <2>1, <2>2 DEF Quiet, LookOk, LookFail, Prepare, RunTool, Pack, Finish, Clean,
                      ReadResult, Replace, Written, Without, Sound, OneCall, disk
<1>5. k \in Busy' => exit'[k] \in tool[k]
  <2>1. RunTool(k) => exit'[k] \in tool[k]
    BY <1>1 DEF RunTool, Sound, IInv, TypeOK
  <2>2. Quiet(k) /\ ~RunTool(k) /\ k \in Busy' => k \in Busy /\ exit'[k] = exit[k]
    BY DEF Quiet, LookOk, LookFail, Prepare, Pack, Finish, Clean, ReadResult, Replace, Busy,
           Goto, Return, Sound, IInv, TypeOK
  <2> QED
    BY <2>1, <2>2 DEF Sound, OneCall
<1>6. Waiting'
  <2> SUFFICES ASSUME pc'[k] = "idle"
               PROVE  \E e \in {"ok", "fail"} :
                         /\ Known(k, e)'
                         /\ reply'[k] = {[design |-> k, exit |-> e,
                                          reports |-> IF e = "ok" THEN {k} ELSE {}]}
    BY <1>1 DEF Waiting
  <2>1. LookOk(k) \/ LookFail(k)
    BY DEF Quiet, Prepare, RunTool, Pack, Finish, Clean, ReadResult, Replace, Goto, Sound,
           IInv, TypeOK
  <2> QED
    BY <1>2, <2>1, LookAnswers DEF Known
<1> QED
  BY <1>1, <1>2, <1>3, <1>4, <1>5, <1>6 DEF OneCall, Busy, Sound

LEMMA MoveOneCall ==
    ASSUME Sound, NEW k \in Keys, Move(k), RunStep(k)
    PROVE  OneCall'
<1>1. PICK z \in packed :
         /\ z.key = k /\ z.design = k /\ z.exit = exit[k] /\ z.exit \in {"ok", "fail"}
         /\ z.exit \in tool[k]
         /\ z \notin ok \cup fail
         /\ ok' \cup fail' = (ok \cup fail) \cup {z}
         /\ packed' = packed \ {z}
         /\ Return(k, k, z.exit, IF z.exit = "ok" THEN {k} ELSE {})
  BY MoveAdds
<1>2. /\ k = asked /\ asked' = asked /\ tool' = tool
      /\ \A j \in Keys : pc'[j] = "idle"
  BY <1>1, RunIsAsked DEF Run, RunStep, search, Move, Return, Sound, IInv, TypeOK
<1>3. reply'[k] = {[design |-> k, exit |-> z.exit,
                    reports |-> IF z.exit = "ok" THEN {k} ELSE {}]}
  BY <1>1 DEF Return, Sound, IInv, TypeOK
<1>4. Known(k, z.exit)'
  BY <1>1 DEF Known
<1>5. Waiting'
  BY <1>1, <1>2, <1>3, <1>4 DEF Waiting
<1>6. \A y \in ok' \cup fail' \cup packed' : y.design = y.key /\ y.exit \in tool[y.key]
  BY <1>1 DEF Sound, OneCall
<1> QED
  BY <1>2, <1>5, <1>6 DEF OneCall, Busy

LEMMA OneCallStep ==
    ASSUME Sound, (\E n \in Keys : Ask(n)) \/ Double \/ Halve \/ Stop \/ Crash
    PROVE  OneCall'
<1> USE DEF Sound, OneCall, Busy
<1>1. ASSUME NEW n \in Keys, Ask(n) PROVE OneCall'
  <2>1. \A j \in Keys : j # n => pc'[j] = "idle"
    BY <1>1, NumsFit DEF Ask, Call, Goto, IInv, TypeOK
  <2>2. pc'[n] = "ok" /\ ask'[n] = n /\ asked' = n
    BY <1>1 DEF Ask, Call, Goto, IInv, TypeOK
  <2>3. ok' = ok /\ fail' = fail /\ packed' = packed /\ tool' = tool
    BY <1>1 DEF Ask, Call, disk
  <2>4. Waiting'
    BY <2>2 DEF Waiting
  <2> QED
    BY <2>1, <2>2, <2>3, <2>4
<1>2. CASE Double \/ Halve
  <2>1. asked' = 0 /\ UNCHANGED vars /\ pc[asked] = "idle"
    BY <1>2 DEF Double, Halve, Answered
  <2>2. Waiting'
    BY <2>1 DEF Waiting
  <2> QED
    BY <2>1, <2>2 DEF vars, disk, call
<1>3. CASE Stop
  BY <1>3 DEF Stop, vars, disk, call, Waiting, Known
<1>4. CASE Crash
  BY <1>4 DEF Crash, Restart, disk, Waiting
<1> QED
  BY <1>1, <1>2, <1>3, <1>4

LEMMA SoundNext == Sound /\ [SearchNext]_allVars => Sound'
<1> SUFFICES ASSUME Sound, [SearchNext]_allVars PROVE Sound'
  OBVIOUS
<1>1. IInv'
  BY SearchRefinesCache, NextKeeps DEF Sound, allVars
<1>2. ASSUME NEW k \in Keys, RunStep(k) PROVE SearchType' /\ OneCall'
  <2>1. Quiet(k) \/ Move(k)
    BY <1>2 DEF RunStep, Run, Quiet
  <2> QED
    BY <1>2, <2>1, SearchTypeRun, QuietOneCall, MoveOneCall
<1>3. CASE UNCHANGED allVars
  <2>1. SearchType'
    BY <1>3 DEF Sound, allVars, search, ghosts, SearchType, Wanted, Gap
  <2>2. Waiting'
    BY <1>3 DEF Sound, allVars, vars, disk, call, search, OneCall, Waiting, Known
  <2>3. OneCall'
    BY <1>3, <2>2 DEF Sound, allVars, vars, disk, call, search, OneCall, Busy
  <2> QED
    BY <1>1, <2>1, <2>3 DEF Sound
<1> QED
  BY <1>1, <1>2, <1>3, SearchTypeStep, OneCallStep DEF SearchNext, Step, Sound

-----------------------------------------------------------------------------
(* Tool runs.                                                              *)

Spent ==
    /\ IsFiniteSet(ok \cup fail)
    /\ CrashCostsOne

LEMMA BusyOne ==
    ASSUME Sound
    PROVE  Busy \subseteq {asked} /\ IsFiniteSet(Busy) /\ Cardinality(Busy) \in 0..1
<1>1. Busy \subseteq {asked}
  BY DEF Sound, OneCall, Busy
<1>2. Busy = {} \/ Busy = {asked}
  BY <1>1
<1>3. IsFiniteSet({}) /\ Cardinality({}) = 0
  BY FS_EmptySet
<1>4. IsFiniteSet({asked}) /\ Cardinality({asked}) = 1
  BY FS_Singleton
<1> QED
  BY <1>1, <1>2, <1>3, <1>4

LEMMA SpentRun ==
    ASSUME Sound, Sound', Spent, NEW k \in Keys, RunStep(k)
    PROVE  Spent'
<1>1. /\ k = asked /\ asked' = asked /\ crashes' = crashes
      /\ toolRuns' = IF pc[k] = "tool" THEN toolRuns + 1 ELSE toolRuns
      /\ toolRuns \in Nat /\ crashes \in Nat
      /\ Cardinality(ok \cup fail) \in Nat
  BY RunIsAsked, FS_CardinalityType DEF RunStep, search, Sound, SearchType, Spent
<1>2. /\ Busy = (IF k \in Busy THEN {k} ELSE {}) /\ Busy' = (IF k \in Busy' THEN {k} ELSE {})
      /\ Cardinality({k}) = 1 /\ Cardinality({}) = 0
  <2>1. Busy \subseteq {k} /\ Busy' \subseteq {k}
    BY <1>1, BusyOne DEF Sound, OneCall, Busy
  <2> QED
    BY <2>1, FS_Singleton, FS_EmptySet
<1>3. toolRuns <= Cardinality(ok \cup fail) + crashes + Cardinality(Busy)
  BY DEF Spent, CrashCostsOne, Busy
<1>4. ASSUME IsFiniteSet(ok' \cup fail'),
             toolRuns' <= Cardinality(ok' \cup fail') + crashes' + Cardinality(Busy')
      PROVE  Spent'
  BY <1>4 DEF Spent, CrashCostsOne, Busy
<1>5. CASE Move(k)
  <2>1. PICK z \in packed : z \notin ok \cup fail /\ ok' \cup fail' = (ok \cup fail) \cup {z}
    BY <1>5, MoveAdds
  <2>2. /\ IsFiniteSet(ok' \cup fail')
        /\ Cardinality(ok' \cup fail') = Cardinality(ok \cup fail) + 1
    BY <2>1, FS_AddElement DEF Spent
  <2>3. k \in Busy /\ k \notin Busy' /\ pc[k] # "tool"
    BY <1>5 DEF Move, Return, Busy, Sound, IInv, TypeOK
  <2>4. Cardinality(Busy) = 1 /\ Cardinality(Busy') = 0
    BY <1>2, <2>3
  <2>5. toolRuns' <= Cardinality(ok' \cup fail') + crashes' + Cardinality(Busy')
    BY <1>1, <1>3, <2>2, <2>3, <2>4
  <2> QED
    BY <1>4, <2>2, <2>5
<1>6. CASE Quiet(k)
  <2>1. ok' = ok /\ fail' = fail
    BY <1>6, QuietKeeps
  <2>2. CASE RunTool(k)
    <3>1. k \notin Busy /\ k \in Busy'
      BY <2>2 DEF RunTool, Goto, Busy, Sound, IInv, TypeOK
    <3>2. Cardinality(Busy) = 0 /\ Cardinality(Busy') = 1
      BY <1>2, <3>1
    <3>3. toolRuns' <= Cardinality(ok' \cup fail') + crashes' + Cardinality(Busy')
      BY <1>1, <1>3, <2>1, <3>2
    <3> QED
      BY <1>4, <2>1, <3>3 DEF Spent
  <2>3. CASE ~RunTool(k)
    <3>1. pc[k] # "tool"
      BY <1>6, <2>3 DEF Quiet, LookOk, LookFail, Prepare, Pack, Finish, Clean, ReadResult, Replace
    <3>2. ReadResult(k) => exit[k] = "ok"
      <4>1. ReadResult(k) => exit[k] \in tool[k] /\ exit[k] \in Exits /\ exit[k] # "fail"
        BY DEF ReadResult, Sound, OneCall, Busy, IInv, TypeOK, CallGood
      <4>2. k \in Designs => "bad" \notin tool[k]
        BY DeviceFinite DEF Sound, IInv, TypeOK
      <4> QED
        BY <4>1, <4>2, NumsFit DEF Exits
    <3>3. k \in Busy => k \in Busy'
      BY <1>6, <2>3, <3>2 DEF Quiet, LookOk, LookFail, Prepare, Pack, Finish, Clean, ReadResult,
                              Replace, Goto, Busy, Sound, IInv, TypeOK
    <3>4. /\ Cardinality(Busy) \in 0..1 /\ Cardinality(Busy') \in 0..1
          /\ Cardinality(Busy) <= Cardinality(Busy')
      BY <1>2, <3>3
    <3>5. toolRuns' <= Cardinality(ok' \cup fail') + crashes' + Cardinality(Busy')
      BY <1>1, <1>3, <2>1, <3>1, <3>4
    <3> QED
      BY <1>4, <2>1, <3>5 DEF Spent
  <2> QED
    BY <2>2, <2>3
<1> QED
  BY <1>5, <1>6 DEF RunStep, Run, Quiet

LEMMA SpentStep ==
    ASSUME Sound, Spent, (\E n \in Keys : Ask(n)) \/ Double \/ Halve \/ Stop \/ Crash
    PROVE  Spent'
<1> USE DEF Spent, CrashCostsOne
<1>1. ASSUME NEW n \in Keys, Ask(n) PROVE Spent'
  <2>1. Busy' = Busy
    BY <1>1 DEF Ask, Call, Goto, Busy, Sound, IInv, TypeOK
  <2> QED
    BY <1>1, <2>1 DEF Ask, Call, disk, ghosts, Busy
<1>2. CASE Double \/ Halve
  BY <1>2 DEF Double, Halve, vars, disk, call, ghosts
<1>3. CASE Stop
  BY <1>3 DEF Stop, vars, disk, call
<1>4. CASE Crash
  <2>1. Busy' = {}
    BY <1>4 DEF Crash, Restart, Busy
  <2>2. ok' = ok /\ fail' = fail /\ toolRuns' = toolRuns /\ crashes' = crashes + 1
    BY <1>4 DEF Crash, Restart, disk
  <2>3. toolRuns <= Cardinality(ok \cup fail) + crashes + Cardinality(Busy)
    BY DEF Busy
  <2>4. Cardinality(Busy) \in 0..1 /\ Cardinality(ok \cup fail) \in Nat
    BY BusyOne, FS_CardinalityType
  <2>5. Cardinality(Busy') = 0
    BY <2>1, FS_EmptySet
  <2>6. toolRuns' <= Cardinality(ok' \cup fail') + crashes' + Cardinality(Busy')
    BY <2>2, <2>3, <2>4, <2>5 DEF Sound, SearchType
  <2> QED
    BY <2>2, <2>6 DEF Busy
<1> QED
  BY <1>1, <1>2, <1>3, <1>4

LEMMA SpentNext == Sound /\ Sound' /\ Spent /\ [SearchNext]_allVars => Spent'
<1> SUFFICES ASSUME Sound, Sound', Spent, [SearchNext]_allVars PROVE Spent'
  OBVIOUS
<1>1. CASE UNCHANGED allVars
  BY <1>1 DEF Spent, CrashCostsOne, allVars, vars, disk, call, ghosts
<1> QED
  BY <1>1, SpentRun, SpentStep DEF SearchNext, Step

-----------------------------------------------------------------------------
(* The way of the search.  What is cached says where a search goes from    *)
(* the start, position by position, up to the first whose number nobody    *)
(* has tried, or to the end.  It is never taken back, so that every search *)
(* goes this way, and only the one at its end adds to it.                  *)

Positions == {"double", "halve"} \X Nat \X Nat

Origin == <<"double", 0, StartNum>>

\* What is tried at a position, where none is left to try, and what comes next.
Aim(p) == IF p[1] = "double" THEN p[3] ELSE (p[3] + p[2]) \div 2
Final(p) == p[1] = "halve" /\ ~(p[3] - p[2] > 1)
After(p, e) ==
    IF p[1] = "double"
    THEN IF e = "ok" THEN <<"double", p[3], 2 * p[3]>> ELSE <<"halve", p[2], p[3]>>
    ELSE IF e = "ok" THEN <<"halve", Aim(p), p[3]>> ELSE <<"halve", p[2], Aim(p)>>

Here == <<IF phase = "double" THEN "double" ELSE "halve", low, high>>

\* P is the way and f its end: all that fitted is below f, all that did not above.
Way(P, f) ==
    /\ P \subseteq Positions /\ Origin \in P /\ f \in P
    /\ \A p \in P : p[2] < p[3]
    /\ \A p \in P \ {f} :
          /\ ~Final(p)
          /\ \E e \in {"ok", "fail"} : Known(Aim(p), e) /\ After(p, e) \in P
    /\ \A n \in Keys : /\ Known(n, "ok") => n <= f[2]
                       /\ Known(n, "fail") => f[1] = "halve" /\ n >= f[3]

OnWay(P, f) ==
    /\ Way(P, f)
    /\ Here \in P
    /\ first # {} => Final(f) /\ first = {Sites(f[2])}
    /\ phase = "done" => first # {}

SameWay == \E P \in SUBSET Positions : \E f \in P : OnWay(P, f)

LEMMA OneExit ==
    ASSUME Sound, NEW n, Known(n, "ok"), Known(n, "fail")
    PROVE  FALSE
<1>1. PICK y \in ok \cup fail : y.key = n /\ y.exit = "ok"
  BY DEF Known
<1>2. PICK z \in ok \cup fail : z.key = n /\ z.exit = "fail"
  BY DEF Known
<1>3. y \in ok /\ z \in fail
  BY <1>1, <1>2 DEF Sound, IInv, CacheGood, CacheServes
<1>4. y.design = n /\ z.design = n
  BY <1>1, <1>2 DEF Sound, OneCall
<1> QED
  BY <1>1, <1>2, <1>3, <1>4 DEF Sound, IInv, CacheGood

\* Where the way ends, the next number is new.
LEMMA EndIsNew ==
    ASSUME NEW P, NEW f \in Positions, Way(P, f), ~Final(f), Aim(f) \in Keys
    PROVE  ~Known(Aim(f), "ok") /\ ~Known(Aim(f), "fail")
<1>1. f[1] \in {"double", "halve"} /\ f[2] \in Nat /\ f[3] \in Nat /\ f[2] < f[3]
  BY DEF Positions, Way
<1>2. CASE f[1] = "double"
  BY <1>1, <1>2 DEF Way, Aim
<1>3. CASE f[1] = "halve"
  <2>1. Aim(f) \in Nat /\ f[2] < Aim(f) /\ Aim(f) < f[3]
    BY <1>1, <1>3 DEF Aim, Final
  <2>2. Known(Aim(f), "ok") => Aim(f) <= f[2]
    BY DEF Way
  <2>3. Known(Aim(f), "fail") => Aim(f) >= f[3]
    BY DEF Way
  <2> QED
    BY <1>1, <2>1, <2>2, <2>3
<1> QED
  BY <1>1, <1>2, <1>3

\* The number asked for is that of the position.
LEMMA AskedIsAim ==
    ASSUME Sound, asked # 0
    PROVE  asked = Aim(Here) /\ asked \in Keys /\ ~Final(Here) /\ phase # "done"
<1>1. Here[1] = (IF phase = "double" THEN "double" ELSE "halve")
      /\ Here[2] = low /\ Here[3] = high
  BY DEF Here
<1> QED
  BY <1>1 DEF Sound, SearchType, Wanted, Gap, Aim, Final

\* A step along the way.
LEMMA AfterIsPosition ==
    ASSUME NEW p \in Positions, p[2] < p[3], ~Final(p), NEW e
    PROVE  After(p, e) \in Positions /\ After(p, e)[2] < After(p, e)[3] /\ After(p, e) # p
<1>1. p[1] \in {"double", "halve"} /\ p[2] \in Nat /\ p[3] \in Nat
  BY DEF Positions
<1>2. CASE p[1] = "double"
  BY <1>1, <1>2 DEF After, Positions
<1>3. CASE p[1] = "halve"
  <2>1. Aim(p) \in Nat /\ p[2] < Aim(p) /\ Aim(p) < p[3]
    BY <1>1, <1>3 DEF Aim, Final
  <2>2. After(p, e) = <<"halve", Aim(p), p[3]>> \/ After(p, e) = <<"halve", p[2], Aim(p)>>
    BY <1>3 DEF After
  <2> QED
    BY <1>1, <1>3, <2>1, <2>2 DEF Positions
<1> QED
  BY <1>1, <1>2, <1>3

LEMMA WayInit == SearchInit => SameWay
<1> SUFFICES ASSUME SearchInit PROVE SameWay
  OBVIOUS
<1>1. Origin \in Positions /\ Origin[1] = "double" /\ Origin[2] = 0 /\ Origin[3] = StartNum
  BY NumsFit DEF Origin, Positions
<1>2. \A n, e : ~Known(n, e)
  BY DEF SearchInit, Init, Known
<1>3. Way({Origin}, Origin)
  BY <1>1, <1>2, NumsFit DEF Way
<1>4. Here = Origin
  BY DEF SearchInit, Start, Here, Origin
<1>5. OnWay({Origin}, Origin)
  BY <1>3, <1>4 DEF OnWay, SearchInit, Start
<1> QED
  BY <1>1, <1>5 DEF SameWay

\* A new answer takes the way one step on.
LEMMA WayGrows ==
    ASSUME Sound, NEW k \in Keys, Move(k), RunStep(k),
           NEW P \in SUBSET Positions, NEW f \in P, OnWay(P, f)
    PROVE  SameWay'
<1>1. PICK z \in packed :
         /\ z.key = k /\ z.design = k /\ z.exit = exit[k] /\ z.exit \in {"ok", "fail"}
         /\ z.exit \in tool[k]
         /\ z \notin ok \cup fail
         /\ ok' \cup fail' = (ok \cup fail) \cup {z}
         /\ packed' = packed \ {z}
         /\ Return(k, k, z.exit, IF z.exit = "ok" THEN {k} ELSE {})
  BY MoveAdds
<1> DEFINE e == z.exit
           g == After(f, e)
           Q == P \cup {g}
<1>2. /\ k = asked /\ k # 0 /\ asked = Aim(Here) /\ ~Final(Here) /\ phase # "done"
      /\ phase' = phase /\ low' = low /\ high' = high /\ first' = first
  BY RunIsAsked, AskedIsAim DEF RunStep, search
<1>3. ~Known(k, "ok") /\ ~Known(k, "fail")
  BY NoneOfKey DEF Move, Working
<1>4. Here \in P /\ Way(P, f)
  BY DEF OnWay
<1>5. Here = f
  BY <1>2, <1>3, <1>4 DEF Way
<1>6. f \in Positions /\ f[2] < f[3]
  BY <1>4 DEF Way
<1>7. g \in Positions /\ g[2] < g[3] /\ g # f
  BY <1>2, <1>5, <1>6, AfterIsPosition
<1>8. \A n, x : Known(n, x)' <=> Known(n, x) \/ (n = k /\ x = e)
  BY <1>1 DEF Known
<1>9. first = {}
  BY <1>2, <1>5 DEF OnWay
<1>10. Here' = Here
  BY <1>2 DEF Here
<1>11. \A n \in Keys : /\ Known(n, "ok")' => n <= g[2]
                       /\ Known(n, "fail")' => g[1] = "halve" /\ n >= g[3]
  <2>1. /\ f[1] \in {"double", "halve"} /\ f[2] \in Nat /\ f[3] \in Nat
        /\ k = Aim(f) /\ k \in Nat
    BY <1>2, <1>5, <1>6, NumsFit DEF Positions
  <2>2. \A n \in Keys : /\ Known(n, "ok") => n <= f[2]
                        /\ Known(n, "fail") => f[1] = "halve" /\ n >= f[3]
    BY <1>4, <1>5 DEF Way
  <2>3. \A n \in Keys : n \in Nat
    BY NumsFit
  <2>4. CASE f[1] = "double"
    <3>1. /\ e = "ok" => g[2] = k
          /\ e # "ok" => g[1] = "halve" /\ g[2] = f[2] /\ g[3] = k
      BY <2>1, <2>4 DEF After, Aim
    <3>2. k = f[3]
      BY <2>1, <2>4 DEF Aim
    <3>3. \A n \in Keys : ~Known(n, "fail")
      BY <2>2, <2>4
    <3>4. \A n \in Keys : Known(n, "ok") => n < k
      BY <1>6, <2>1, <2>2, <2>3, <3>2
    <3> QED
      BY <1>1, <1>8, <2>1, <2>2, <2>3, <3>1, <3>3, <3>4
  <2>5. CASE f[1] = "halve"
    <3>1. f[2] < k /\ k < f[3]
      BY <1>2, <1>5, <2>1, <2>5 DEF Aim, Final
    <3>2. /\ g[1] = "halve"
          /\ e = "ok" => g[2] = k /\ g[3] = f[3]
          /\ e # "ok" => g[2] = f[2] /\ g[3] = k
      BY <2>1, <2>5 DEF After
    <3> QED
      BY <1>1, <1>8, <2>1, <2>2, <2>3, <3>1, <3>2
  <2> QED
    BY <2>1, <2>4, <2>5
<1>12. ASSUME NEW p \in Q \ {g}
       PROVE  ~Final(p) /\ \E x \in {"ok", "fail"} : Known(Aim(p), x)' /\ After(p, x) \in Q
  <2>1. CASE p = f
    <3>1. Known(Aim(p), e)'
      BY <1>2, <1>5, <1>8, <2>1
    <3> QED
      BY <1>1, <1>2, <1>5, <2>1, <3>1
  <2>2. CASE p # f
    <3>1. PICK x \in {"ok", "fail"} : Known(Aim(p), x) /\ After(p, x) \in P
      BY <1>4, <1>5, <1>12, <2>2 DEF Way
    <3>2. Known(Aim(p), x)'
      BY <1>8, <3>1
    <3>3. ~Final(p)
      BY <1>4, <1>5, <1>12, <2>2 DEF Way
    <3> QED
      BY <3>1, <3>2, <3>3
  <2> QED
    BY <2>1, <2>2
<1>13. Way(Q, g)'
  BY <1>4, <1>7, <1>11, <1>12 DEF Way
<1>14. OnWay(Q, g)'
  BY <1>2, <1>4, <1>9, <1>10, <1>13 DEF OnWay
<1>15. Q \in SUBSET Positions /\ g \in Q
  BY <1>7
<1> QED
  BY <1>14, <1>15 DEF SameWay

\* Another step of run() or a call leaves it.
LEMMA WayStays ==
    ASSUME NEW P \in SUBSET Positions, NEW f \in P, OnWay(P, f),
           ok' = ok, fail' = fail, Here' = Here, first' = first, phase' = phase
    PROVE  SameWay'
<1>1. \A n, e : Known(n, e)' <=> Known(n, e)
  BY DEF Known
<1>2. Way(P, f)'
  BY <1>1 DEF Way, OnWay
<1>3. OnWay(P, f)'
  BY <1>2 DEF OnWay
<1> QED
  BY <1>3 DEF SameWay

\* The answer is what the cache says.
LEMMA FittedIsKnown ==
    ASSUME Sound, Answered
    PROVE  \E e \in {"ok", "fail"} : Known(asked, e) /\ (Fitted = {} <=> e = "fail")
<1>1. PICK e \in {"ok", "fail"} :
         /\ Known(asked, e)
         /\ reply[asked] = {[design |-> asked, exit |-> e,
                             reports |-> IF e = "ok" THEN {asked} ELSE {}]}
  BY DEF Sound, OneCall, Waiting, Answered
<1> DEFINE r == [design |-> asked, exit |-> e, reports |-> IF e = "ok" THEN {asked} ELSE {}]
<1>2. r.exit = e
  OBVIOUS
<1>3. reply[asked] = {r}
  BY <1>1
<1> HIDE DEF r
<1>4. Fitted = {} <=> e # "ok"
  BY <1>2, <1>3 DEF Fitted
<1> QED
  BY <1>1, <1>4

\* An answer leads the search to the next position of the way.
LEMMA WayFollowed ==
    ASSUME Sound, Double \/ Halve,
           NEW P \in SUBSET Positions, NEW f \in P, OnWay(P, f)
    PROVE  SameWay'
<1>1. asked # 0 /\ pc[asked] = "idle" /\ UNCHANGED vars /\ first' = first
  BY DEF Double, Halve, Answered, ghosts
<1>2. asked = Aim(Here) /\ asked \in Keys /\ ~Final(Here) /\ phase # "done"
  BY <1>1, AskedIsAim
<1>3. PICK e \in {"ok", "fail"} : Known(asked, e) /\ (Fitted = {} <=> e = "fail")
  BY FittedIsKnown DEF Double, Halve
<1>4. Here \in P /\ Way(P, f)
  BY DEF OnWay
<1>5. Here # f
  BY <1>2, <1>3, <1>4, EndIsNew
<1>6. After(Here, e) \in P
  <2>1. PICK x \in {"ok", "fail"} : Known(Aim(Here), x) /\ After(Here, x) \in P
    BY <1>4, <1>5 DEF Way
  <2>2. x = e
    BY <1>2, <1>3, <2>1, OneExit
  <2> QED
    BY <2>1, <2>2
<1>7. Here' = After(Here, e)
  <2>1. Here[1] = (IF phase = "double" THEN "double" ELSE "halve")
        /\ Here[2] = low /\ Here[3] = high
    BY DEF Here
  <2>2. CASE Double
    BY <1>3, <2>1, <2>2 DEF Double, Here, After
  <2>3. CASE Halve
    BY <1>2, <1>3, <2>1, <2>3 DEF Halve, Here, After
  <2> QED
    BY <2>2, <2>3
<1>8. phase' # "done"
  BY <1>2 DEF Double, Halve
<1>9. Way(P, f)'
  <2>1. \A n, x : Known(n, x)' <=> Known(n, x)
    BY <1>1 DEF Known, vars, disk
  <2> QED
    BY <1>4, <2>1 DEF Way
<1>10. OnWay(P, f)'
  BY <1>1, <1>6, <1>7, <1>8, <1>9 DEF OnWay
<1> QED
  BY <1>10 DEF SameWay

\* The search stops where the way ends.
LEMMA WayEnds ==
    ASSUME Sound, Stop, NEW P \in SUBSET Positions, NEW f \in P, OnWay(P, f)
    PROVE  SameWay'
<1>1. Here = <<"halve", low, high>> /\ Here' = Here
  BY DEF Stop, Here
<1>2. Final(Here)
  BY <1>1 DEF Stop, Gap, Final
<1>3. Here = f
  BY <1>2 DEF OnWay, Way
<1>4. best = Sites(f[2])
  BY <1>1, <1>3 DEF Sound, SearchType
<1>5. Way(P, f)'
  <2>1. \A n, x : Known(n, x)' <=> Known(n, x)
    BY DEF Known, Stop, vars, disk
  <2> QED
    BY <2>1 DEF OnWay, Way
<1>6. first' = {Sites(f[2])}
  BY <1>4 DEF OnWay, Stop
<1>7. OnWay(P, f)'
  BY <1>1, <1>2, <1>3, <1>5, <1>6 DEF OnWay
<1> QED
  BY <1>7 DEF SameWay

\* Whoever starts again is at its beginning.
LEMMA WayAgain ==
    ASSUME Crash, NEW P \in SUBSET Positions, NEW f \in P, OnWay(P, f)
    PROVE  SameWay'
<1>1. Here' = Origin /\ phase' # "done" /\ first' = first
  BY DEF Crash, Here, Origin
<1>2. \A n, x : Known(n, x)' <=> Known(n, x)
  BY DEF Known, Crash, Restart, disk
<1>3. Way(P, f)'
  BY <1>2 DEF OnWay, Way
<1>4. OnWay(P, f)'
  BY <1>1, <1>3 DEF OnWay, Way
<1> QED
  BY <1>4 DEF SameWay

LEMMA WayNext == Sound /\ SameWay /\ [SearchNext]_allVars => SameWay'
<1> SUFFICES ASSUME Sound, [SearchNext]_allVars,
                    NEW P \in SUBSET Positions, NEW f \in P, OnWay(P, f)
             PROVE  SameWay'
  BY DEF SameWay
<1>1. ASSUME NEW n \in Keys, Ask(n) PROVE SameWay'
  <2>1. ok' = ok /\ fail' = fail /\ Here' = Here /\ first' = first /\ phase' = phase
    BY <1>1 DEF Ask, Call, disk, ghosts, Here
  <2> QED
    BY <2>1, WayStays
<1>2. ASSUME NEW k \in Keys, RunStep(k) PROVE SameWay'
  <2>1. CASE Move(k)
    BY <1>2, <2>1, WayGrows
  <2>2. CASE Quiet(k)
    <3>1. ok' = ok /\ fail' = fail
      BY <2>2, QuietKeeps
    <3>2. Here' = Here /\ first' = first /\ phase' = phase
      BY <1>2 DEF RunStep, search, Here
    <3> QED
      BY <3>1, <3>2, WayStays
  <2> QED
    BY <1>2, <2>1, <2>2 DEF RunStep, Run, Quiet
<1>3. CASE UNCHANGED allVars
  <2>1. ok' = ok /\ fail' = fail /\ Here' = Here /\ first' = first /\ phase' = phase
    BY <1>3 DEF allVars, vars, disk, search, ghosts, Here
  <2> QED
    BY <2>1, WayStays
<1> QED
  BY <1>1, <1>2, <1>3, WayFollowed, WayEnds, WayAgain DEF SearchNext, Step

-----------------------------------------------------------------------------
(* What a monotone tool makes of it.                                       *)

Bounds == Monotone =>
    /\ low # 0 => tool[low] = {"ok"}
    /\ phase # "double" => tool[high] = {"fail"}

LEMMA BoundsNext == Sound /\ Bounds /\ [SearchNext]_allVars => Bounds'
<1> SUFFICES ASSUME Sound, Bounds, [SearchNext]_allVars, Monotone'
             PROVE  /\ low' # 0 => tool'[low'] = {"ok"}
                    /\ phase' # "double" => tool'[high'] = {"fail"}
  BY DEF Bounds
<1>1. tool' = tool
  <2>1. [Next]_vars
    BY SearchRefinesCache DEF allVars
  <2> QED
    BY <2>1 DEF Next, Call, Run, ForgetOk, ForgetFail, Restart, LookOk, LookFail, Prepare,
                RunTool, Pack, Finish, Clean, ReadResult, Replace, Move, vars
<1>2. Monotone
  BY <1>1 DEF Monotone
<1>3. ASSUME Answered
      PROVE  tool[asked] = IF Fitted = {} THEN {"fail"} ELSE {"ok"}
  <2>1. PICK e \in {"ok", "fail"} : Known(asked, e) /\ (Fitted = {} <=> e = "fail")
    BY <1>3, FittedIsKnown
  <2>2. e \in tool[asked]
    BY <2>1 DEF Known, Sound, OneCall
  <2>3. asked \in Designs
    BY <1>3, NumsFit DEF Answered, Sound, SearchType
  <2>4. tool[asked] = {e}
    BY <1>2, <2>2, <2>3 DEF Monotone
  <2> QED
    BY <2>1, <2>4
<1>4. CASE Double
  <2>1. asked = high /\ Answered
    BY <1>4 DEF Double, Answered, Sound, SearchType, Wanted
  <2>2. Fitted = {} \/ Fitted # {}
    OBVIOUS
  <2> QED
    BY <1>1, <1>2, <1>3, <1>4, <2>1, <2>2 DEF Double, Bounds
<1>5. CASE Halve
  BY <1>1, <1>2, <1>3, <1>5 DEF Halve, Bounds
<1>6. CASE Stop
  BY <1>1, <1>2, <1>6 DEF Stop, Bounds
<1>7. CASE Crash
  BY <1>7 DEF Crash
<1>8. CASE UNCHANGED <<phase, low, high>>
  BY <1>1, <1>2, <1>8 DEF Bounds
<1>9. (\E n \in Keys : Ask(n) \/ RunStep(n)) => UNCHANGED <<phase, low, high>>
  BY DEF Ask, RunStep, search
<1>10. UNCHANGED allVars => UNCHANGED <<phase, low, high>>
  BY DEF allVars, search
<1> QED
  BY <1>4, <1>5, <1>6, <1>7, <1>8, <1>9, <1>10 DEF SearchNext, Step

-----------------------------------------------------------------------------
SearchInv == Sound /\ Spent /\ SameWay /\ Bounds

THEOREM SearchInvariance == SearchSpec => []SearchInv
<1>1. SearchInit => SearchInv
  <2> SUFFICES ASSUME SearchInit PROVE SearchInv
    OBVIOUS
  <2>1. Sound /\ SameWay
    BY SoundInit, WayInit
  <2>2. Bounds
    BY DEF SearchInit, Start, Bounds
  <2>3. Spent
    <3>1. ok \cup fail = {} /\ toolRuns = 0 /\ crashes = 0 /\ Busy = {}
      BY DEF SearchInit, Init, Busy
    <3>2. IsFiniteSet({}) /\ Cardinality({}) = 0
      BY FS_EmptySet
    <3>3. toolRuns <= Cardinality(ok \cup fail) + crashes + Cardinality(Busy)
      BY <3>1, <3>2
    <3> QED
      BY <3>1, <3>2, <3>3 DEF Spent, CrashCostsOne, Busy
  <2> QED
    BY <2>1, <2>2, <2>3 DEF SearchInv
<1>2. SearchInv /\ [SearchNext]_allVars => SearchInv'
  BY SoundNext, SpentNext, WayNext, BoundsNext DEF SearchInv
<1> QED
  BY <1>1, <1>2, PTL DEF SearchSpec

\* Every search that ends has found what the first one had, however often the
\* program ended in between, and that is all there is if the tool is monotone.
THEOREM SearchFindsLargest == SearchSpec => []LargestFound
<1>1. SearchInv => LargestFound
  <2> SUFFICES ASSUME SearchInv, phase = "done"
               PROVE  /\ first = {best}
                      /\ Monotone => best = {n \in Designs : tool[n] = {"ok"} /\
                            \A m \in Designs : tool[m] = {"ok"} => m <= n}
    BY DEF LargestFound
  <2>1. low \in Nat /\ high \in Nat /\ high = low + 1 /\ best = Sites(low)
        /\ high \in Designs /\ (low # 0 => low \in Designs)
    BY NumsFit DEF SearchInv, Sound, SearchType, Gap
  <2>2. first = {best}
    <3>1. PICK P \in SUBSET Positions : \E f \in P : OnWay(P, f)
      BY DEF SearchInv, SameWay
    <3>2. PICK f \in P : OnWay(P, f)
      BY <3>1
    <3>3. Here = <<"halve", low, high>>
      BY DEF Here
    <3>4. Final(Here)
      BY <2>1, <3>3 DEF Final
    <3>5. Here = f
      BY <3>2, <3>4 DEF OnWay, Way
    <3> QED
      BY <2>1, <3>2, <3>3, <3>5 DEF OnWay
  <2>3. ASSUME Monotone
        PROVE  best = {n \in Designs : tool[n] = {"ok"} /\
                          \A m \in Designs : tool[m] = {"ok"} => m <= n}
    <3>1. (low # 0 => tool[low] = {"ok"}) /\ tool[high] = {"fail"}
      BY <2>3 DEF SearchInv, Bounds
    <3>2. ASSUME NEW m \in Designs, tool[m] = {"ok"} PROVE m <= low
      <4>1. ~(high <= m)
        BY <2>1, <2>3, <3>1, <3>2 DEF Monotone
      <4> QED
        BY <2>1, <4>1, NumsFit
    <3>3. \A n \in Designs : n \in Nat /\ n # 0
      BY NumsFit
    <3>4. CASE low = 0
      <4>1. ~\E n \in Designs : tool[n] = {"ok"}
        BY <3>2, <3>3, <3>4
      <4> QED
        BY <2>1, <3>4, <4>1 DEF Sites
    <3>5. CASE low # 0
      <4>1. \A n \in Designs :
               (tool[n] = {"ok"} /\ \A m \in Designs : tool[m] = {"ok"} => m <= n) <=> n = low
        BY <2>1, <3>1, <3>2, <3>3, <3>5
      <4> QED
        BY <2>1, <3>5, <4>1 DEF Sites
    <3> QED
      BY <3>4, <3>5
  <2> QED
    BY <2>2, <2>3
<1> QED
  BY <1>1, SearchInvariance, PTL

\* The tool runs are those whose answers are cached, one for each crash at most, and
\* the one that is under way.
THEOREM CrashesAreCheap == SearchSpec => []CrashCostsOne
<1>1. SearchInv => CrashCostsOne
  BY DEF SearchInv, Spent
<1> QED
  BY <1>1, SearchInvariance, PTL

(***************************************************************************)
(* The pipe a tool prints into, for lists and pipes of any size.           *)
(***************************************************************************)

\* What has not happened yet.
Before ==
    /\ reader = "spawn" => child = "off"
    /\ reader \in {"spawn", "open"} => ~opened
    /\ reader \in {"spawn", "open", "resize"} => ~torn

\* What is used has been read, and a caller that still reads has no result yet.
Reading ==
    /\ 2 * lines <= fetched
    /\ reader \in {"spawn", "open", "resize", "read"} => verdict = "none" /\ lines <= Lines

\* Half a line is taken for one at the end of the pipe only: no line follows it.
HalfIsLast == torn /\ reader = "read" => Eof /\ fetched = 2 * lines + 1

\* The tool is let go of when it has ended, was not started or could not be waited for.
LetGo ==
    /\ ~tempdir => reader = "done"
    /\ reader \in {"unlink", "done"} => child \in {"off", "ended"} \/ (verdict = "err" /\ ~opened)

PipeInv == PipeTypeOK /\ Before /\ Reading /\ HalfIsLast /\ LetGo /\ OkMeansAll

USE SizesAssumption

LEMMA PipeInitInv == PipeInit => PipeInv
<1> SUFFICES ASSUME PipeInit PROVE PipeInv
  OBVIOUS
<1>1. PipeTypeOK
  <2>1. opened \in BOOLEAN /\ closed \in BOOLEAN /\ torn \in BOOLEAN /\ tempdir \in BOOLEAN
    BY DEF PipeInit
  <2>2. sent \in 0..All /\ fetched \in 0..sent /\ lines \in 0..(Lines + 1) /\ capacity \in {Small, Large}
    BY DEF PipeInit, All
  <2> QED
    BY <2>1, <2>2 DEF PipeInit, PipeTypeOK
<1>2. Before /\ Reading /\ HalfIsLast /\ LetGo /\ OkMeansAll
  BY DEF PipeInit, Before, Reading, HalfIsLast, LetGo, OkMeansAll
<1> QED
  BY <1>1, <1>2 DEF PipeInv

LEMMA ReaderKeeps ==
    ASSUME PipeInv, Reader PROVE PipeInv'
<1> USE DEF PipeInv, PipeTypeOK, Before, Reading, HalfIsLast, LetGo, OkMeansAll, All, Eof,
            childVars, pipeVars, callerVars, Leave
<1>1. CASE Spawn
  <2>1. CASE reader' = "open" /\ child' = "starting" /\ UNCHANGED verdict
    BY <1>1, <2>1 DEF Spawn
  <2>2. CASE reader' = "unlink" /\ verdict' = "err" /\ UNCHANGED child
    BY <1>1, <2>2 DEF Spawn
  <2> QED
    BY <1>1, <2>1, <2>2 DEF Spawn
<1>2. CASE Open
  BY <1>2 DEF Open
<1>3. CASE Resize
  <2>1. PipeTypeOK'
    BY <1>3 DEF Resize
  <2>2. Before' /\ Reading' /\ HalfIsLast' /\ LetGo' /\ OkMeansAll'
    BY <1>3 DEF Resize
  <2> QED
    BY <2>1, <2>2
<1>4. CASE Fill
  BY <1>4 DEF Fill
<1>5. CASE Line
  BY <1>5 DEF Line
<1>6. CASE AtEof
  BY <1>6 DEF AtEof, EndOfPipe
<1>7. CASE Close
  BY <1>7 DEF Close
<1>8. CASE Wait
  BY <1>8 DEF Wait
<1>9. CASE Unlink
  BY <1>9 DEF Unlink
<1> QED
  BY <1>1, <1>2, <1>3, <1>4, <1>5, <1>6, <1>7, <1>8, <1>9 DEF Reader

LEMMA PipeStepInv == PipeInv /\ [PipeNext]_readerVars => PipeInv'
<1> SUFFICES ASSUME PipeInv, [PipeNext]_readerVars PROVE PipeInv'
  OBVIOUS
<1>1. CASE Reader
  BY <1>1, ReaderKeeps
<1> USE DEF PipeInv, PipeTypeOK, Before, Reading, HalfIsLast, LetGo, OkMeansAll, All, Eof,
            childVars, pipeVars, callerVars, Leave
<1>2. CASE ChildOpens
  BY <1>2 DEF ChildOpens
<1>3. CASE ChildWrites
  BY <1>3 DEF ChildWrites
<1>4. CASE ChildEnds \/ ChildDies
  BY <1>4 DEF ChildEnds, ChildDies
<1>5. CASE OpenFails
  BY <1>5 DEF OpenFails
<1>6. CASE Dislike
  BY <1>6 DEF Dislike
<1>7. CASE UNCHANGED readerVars
  BY <1>7 DEF readerVars
<1> QED
  BY <1>1, <1>2, <1>3, <1>4, <1>5, <1>6, <1>7 DEF PipeNext, Child

\* The reader, the tool and their counters keep their types.
THEOREM PipeTypeCorrect == PipeSpec => []PipeTypeOK
  BY PipeInitInv, PipeStepInv, PTL DEF PipeSpec, PipeInv

\* For any number of lines and any pipe: a list is accepted only if every line and END
\* have come, whole, however the tool ends (get_parts: got_end).
THEOREM AcceptedWhole == PipeSpec => []OkMeansAll
  BY PipeInitInv, PipeStepInv, PTL DEF PipeSpec, PipeInv

\* The directory is removed under a running tool only if the reader could not open the
\* pipe (ToolchainReader::drop and the order of its fields).
THEOREM DirectoryKept == PipeSpec => []DirOutlivesTool
<1>1. PipeInv => DirOutlivesTool
  BY DEF PipeInv, LetGo, DirOutlivesTool
<1> QED
  BY <1>1, PipeInitInv, PipeStepInv, PTL DEF PipeSpec
=============================================================================
