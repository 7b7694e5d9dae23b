------------------------------- MODULE HammerRun -------------------------------
(***************************************************************************)
(* The threads of a hammer run (Session::run, re/hammer/src/run.rs).  The  *)
(* runs of all batches form a queue; workers claim its items by a shared   *)
(* counter, build the bitstream, store it in the batch's slots under the   *)
(* batch's mutex and notify its condition variable.  The main thread takes *)
(* the batches in order: it waits until all slots of one are filled, takes *)
(* them, decodes, and hands the results to the backend.  It then leaves the*)
(* thread scope, which waits for the workers.                              *)
(*                                                                         *)
(* The vendor tools (Backend::bitgen) are external: they end, with a       *)
(* bitstream or a panic.  What a batch decodes to is left open here (see   *)
(* HammerCode).                                                            *)
(***************************************************************************)
EXTENDS Naturals, Sequences, SequencesExt, FiniteSets

CONSTANTS
    Threads,   \* the worker threads: max_threads, or the available parallelism
    Plans      \* the lists of batches considered

\* What matters of a batch: the number of runs besides the base run, and of fuzzers.
BatchShape == [width : Nat \ {0}, fuzzers : Nat \ {0}]

ASSUME ThreadsFit == Threads # {}
ASSUME PlansFit == \A P \in Plans : P \in Seq(BatchShape)

\* The slots of a plan: run 0 is the base run.
SlotsOf(P) == UNION {{<<b, i>> : i \in 0..P[b].width} : b \in DOMAIN P}

ItemsOf(P) ==
    FlattenSeq([b \in DOMAIN P |-> [i \in 1..(P[b].width + 1) |-> <<b, i - 1>>]])

NoRun == <<>>   \* an empty slot, and the item of a worker that has claimed none

VARIABLES
    plan,     \* the batches: their widths and numbers of fuzzers
    next,     \* items claimed, or found missing at the end of the queue
    abort,
    wpc,      \* of each worker: "check", "claim", "run", "notify", "done" or
              \* "dead" (bitgen panicked)
    item,     \* the item each worker has claimed
    slots,    \* base_bs and other_bs: the run each slot's bitstream came from
    lock,     \* of each batch's mutex: "free", "held" (by the main thread) or
              \* "poisoned"
    mpc,      \* of the main thread: "lock", "check", "sleep", "wait", "return",
              \* "weird", "join", "panic", "returned", "panicked"
    cur,      \* the batch the main thread is at
    fid,      \* the fuzzer of it that is returned next
    runs,     \* the bitstreams taken for it, NoRun before
    state     \* Backend::State: the results it was given
workVars == <<next, wpc, item>>
mainVars == <<abort, cur, fid, runs, state>>
vars == <<plan, workVars, slots, lock, mpc, mainVars>>

Batches == DOMAIN plan
Slots == SlotsOf(plan)
items == ItemsOf(plan)

Init ==
    /\ plan \in Plans
    /\ next = 0
    /\ abort = FALSE
    /\ wpc = [t \in Threads |-> "check"]
    /\ item = [t \in Threads |-> NoRun]
    /\ slots = [s \in Slots |-> NoRun]
    /\ lock = [b \in Batches |-> "free"]
    /\ mpc = IF plan = <<>> THEN "join" ELSE "lock"
    /\ cur = 1
    /\ fid = 1
    /\ runs = NoRun
    /\ state = <<>>

-----------------------------------------------------------------------------
(* work and run_batch_item.                                                *)

CheckAbort(t) ==
    /\ wpc[t] = "check"
    /\ wpc' = [wpc EXCEPT ![t] = IF abort THEN "done" ELSE "claim"]
    /\ UNCHANGED <<plan, next, item, slots, lock, mpc, mainVars>>

Exhausted == next >= Len(items)

\* A mistake: load and store instead of fetch_add; of two workers that have
\* loaded the counter, the first to store is overwritten.
AdvanceRacy ==
    IF Cardinality({t \in Threads : wpc[t] = "claim"}) > 1 THEN next ELSE next + 1

Advance == next + 1

\* next.fetch_add(1)
Claim(t) ==
    /\ wpc[t] = "claim"
    /\ next' = Advance
    /\ IF Exhausted
       THEN /\ wpc' = [wpc EXCEPT ![t] = "done"]
            /\ UNCHANGED item
       ELSE /\ wpc' = [wpc EXCEPT ![t] = "run"]
            /\ item' = [item EXCEPT ![t] = items[next + 1]]
    /\ UNCHANGED <<plan, slots, lock, mpc, mainVars>>

\* A mistake: the slot is filled without taking the lock.
LockedNever(b) == FALSE

Locked(b) == lock[b] = "held"

\* bitgen has returned: lock, store, unlock.
Store(t) ==
    /\ wpc[t] = "run"
    /\ ~Locked(item[t][1])
    /\ IF lock[item[t][1]] = "poisoned"
       THEN /\ wpc' = [wpc EXCEPT ![t] = "dead"]
            /\ UNCHANGED slots
       ELSE /\ wpc' = [wpc EXCEPT ![t] = "notify"]
            /\ slots' = [slots EXCEPT ![item[t]] = item[t]]
    /\ UNCHANGED <<plan, next, item, lock, mpc, mainVars>>

BitgenPanic(t) ==
    /\ wpc[t] = "run"
    /\ wpc' = [wpc EXCEPT ![t] = "dead"]
    /\ UNCHANGED <<plan, next, item, slots, lock, mpc, mainVars>>

\* cv.notify_one(): only the main thread ever waits.
Notify(t) ==
    /\ wpc[t] = "notify"
    /\ wpc' = [wpc EXCEPT ![t] = "check"]
    /\ mpc' = IF mpc = "wait" /\ cur = item[t][1] THEN "lock" ELSE mpc
    /\ UNCHANGED <<plan, next, item, slots, lock, mainVars>>

-----------------------------------------------------------------------------
(* The main thread: postproc_batch and the loop around it.                 *)

Lock ==
    /\ mpc = "lock"
    /\ lock[cur] = "free"
    /\ lock' = [lock EXCEPT ![cur] = "held"]
    /\ mpc' = "check"
    /\ UNCHANGED <<plan, workVars, slots, mainVars>>

\* A mistake: the base run is not waited for.
AllThereButBase == \A i \in 1..plan[cur].width : slots[<<cur, i>>] # NoRun

AllThere == \A i \in 0..plan[cur].width : slots[<<cur, i>>] # NoRun

SeeMissing ==
    /\ mpc = "check"
    /\ ~AllThere
    /\ mpc' = "sleep"
    /\ UNCHANGED <<plan, workVars, slots, lock, mainVars>>

\* cv.wait: unlocks and sleeps in one step.
Wait ==
    /\ mpc = "sleep"
    /\ lock' = [lock EXCEPT ![cur] = "free"]
    /\ mpc' = "wait"
    /\ UNCHANGED <<plan, workVars, slots, mainVars>>

SpuriousWakeup ==
    /\ mpc = "wait"
    /\ mpc' = "lock"
    /\ UNCHANGED <<plan, workVars, slots, lock, mainVars>>

\* The bitstreams are taken and decoded.  A run that is missing panics (unwrap),
\* as does a bit that changes both ways (assert_eq): the mutex is then poisoned.
Decode(verdict) ==
    /\ mpc = "check"
    /\ AllThere
    /\ runs' = [i \in 0..plan[cur].width |-> slots[<<cur, i>>]]
    /\ slots' = [s \in Slots |-> IF s[1] = cur THEN NoRun ELSE slots[s]]
    /\ IF verdict = "clash" \/ \E i \in 0..plan[cur].width : slots[<<cur, i>>] = NoRun
       THEN /\ lock' = [lock EXCEPT ![cur] = "poisoned"]
            /\ mpc' = "panic"
       ELSE /\ lock' = [lock EXCEPT ![cur] = "free"]
            /\ mpc' = IF verdict = "ok" THEN "return" ELSE "weird"
    /\ UNCHANGED <<plan, workVars, abort, cur, fid, state>>

\* A position shows no fuzzer's word: the workers are told to stop, the failure
\* is diagnosed by runs of its own, and the thread panics.
Abort ==
    /\ mpc = "weird"
    /\ abort' = TRUE
    /\ mpc' = "panic"
    /\ UNCHANGED <<plan, workVars, slots, lock, cur, fid, runs, state>>

\* A mistake: the last fuzzer is forgotten.
LastFuzzerEarly == fid + 1 >= plan[cur].fuzzers

LastFuzzer == fid >= plan[cur].fuzzers

\* return_fuzzer accepts the result.
Return ==
    /\ mpc = "return"
    /\ state' = Append(state, [batch |-> cur, fuzzer |-> fid, runs |-> runs])
    /\ IF LastFuzzer
       THEN /\ fid' = 1
            /\ cur' = cur + 1
            /\ runs' = NoRun
            /\ mpc' = IF cur < Len(plan) THEN "lock" ELSE "join"
       ELSE /\ fid' = fid + 1
            /\ UNCHANGED <<cur, mpc, runs>>
    /\ UNCHANGED <<plan, workVars, slots, lock, abort>>

\* return_fuzzer objects: a panic, with abort unset.
Oops ==
    /\ mpc = "return"
    /\ mpc' = "panic"
    /\ UNCHANGED <<plan, workVars, slots, lock, mainVars>>

Dead == {t \in Threads : wpc[t] = "dead"}
Gone == {t \in Threads : wpc[t] \in {"done", "dead"}}

\* A mistake: the scope is left while a worker is still at its last run.
ScopeOverEarly == \A t \in Threads : wpc[t] \in {"done", "dead", "run"}

ScopeOver == Gone = Threads

\* The scope ends with the last worker, and panics if any thread did.
Join ==
    /\ mpc \in {"join", "panic"}
    /\ ScopeOver
    /\ mpc' = IF mpc = "join" /\ Dead = {} THEN "returned" ELSE "panicked"
    /\ UNCHANGED <<plan, workVars, slots, lock, mainVars>>

-----------------------------------------------------------------------------
Worker(t) == CheckAbort(t) \/ Claim(t) \/ Store(t) \/ BitgenPanic(t) \/ Notify(t)

Main ==
    \/ Lock
    \/ SeeMissing
    \/ Wait
    \/ \E verdict \in {"ok", "weird", "clash"} : Decode(verdict)
    \/ Abort
    \/ Return
    \/ Oops
    \/ Join

Next ==
    \/ \E t \in Threads : Worker(t)
    \/ Main
    \/ SpuriousWakeup

Spec == Init /\ [][Next]_vars

\* The scheduler runs every thread that can run, the vendor tools end, and a
\* mutex that is free again and again is got at last.
FairSpec == Spec /\ WF_vars(Main) /\ \A t \in Threads : SF_vars(Worker(t))

-----------------------------------------------------------------------------
TypeOK ==
    /\ plan \in Plans
    /\ next \in Nat
    /\ abort \in BOOLEAN
    /\ wpc \in [Threads -> {"check", "claim", "run", "notify", "done", "dead"}]
    /\ item \in [Threads -> Slots \cup {NoRun}]
    /\ slots \in [Slots -> Slots \cup {NoRun}]
    /\ lock \in [Batches -> {"free", "held", "poisoned"}]
    /\ mpc \in {"lock", "check", "sleep", "wait", "return", "weird",
                "join", "panic", "returned", "panicked"}
    /\ cur \in 1..(Len(plan) + 1)
    /\ fid \in 1..(IF cur \in Batches THEN plan[cur].fuzzers ELSE 1)

\* The main thread has taken the bitstreams of batch b.
Taken(b) == b < cur \/ (b = cur /\ runs # NoRun)

\* The workers at the run of slot s, and those that died of it.
Builders(s) == {t \in Threads : item[t] = s /\ wpc[t] \in {"run", "dead"}}

\* Every item of the queue is in one place: before the counter nothing is known of
\* it, behind it one worker is at it (or died of it), or its bitstream lies in its
\* slot, or the main thread has taken it.  So no run, hours of vendor tools, is
\* made twice, none is skipped, and a taken slot stays empty (work,
\* run_batch_item, postproc_batch).
RunsOnce ==
    \A k \in DOMAIN items :
        LET s == items[k] IN
        /\ k > next => Builders(s) = {} /\ slots[s] = NoRun /\ ~Taken(s[1])
        /\ k <= next =>
              \/ /\ \E t \in Threads : Builders(s) = {t}
                 /\ slots[s] = NoRun /\ ~Taken(s[1])
              \/ Builders(s) = {} /\ slots[s] = s /\ ~Taken(s[1])
              \/ Builders(s) = {} /\ slots[s] = NoRun /\ Taken(s[1])

\* What is decoded are all the runs of the batch, each in its place: take().unwrap()
\* of postproc_batch meets no empty slot.  And a worker's lock().unwrap() meets no
\* mutex a panic of the main thread has poisoned (run_batch_item).
TakenWhole ==
    /\ runs # NoRun => runs = [i \in 0..plan[cur].width |-> <<cur, i>>]
    /\ \A t \in Threads : wpc[t] = "run" => lock[item[t][1]] # "poisoned"

\* When the main thread sleeps though the slots are full, somebody is about to wake
\* it: the check and the sleep are under the mutex of the store (postproc_batch).
NoLostWakeup ==
    mpc = "wait" /\ AllThere =>
        \E t \in Threads : wpc[t] = "notify" /\ item[t][1] = cur

\* The main thread is left waiting by all workers only if one of them died of a run
\* of the batch it waits for: bitgen's panic is not passed on (run_batch_item).
HangsOnlyByPanic ==
    mpc \in {"lock", "check", "sleep", "wait"} /\ ~AllThere /\ ScopeOver =>
        \E t \in Dead : item[t][1] = cur

\* Unless the run was aborted or all workers died, the scope is left only when the
\* whole queue was run, also if return_fuzzer objected early (Session::run).
ScopeDrains ==
    mpc \in {"returned", "panicked"} /\ ~abort /\ Dead # Threads =>
        \A s \in Slots : slots[s] = s \/ Taken(s[1]) \/ \E t \in Dead : item[t] = s

Ended == mpc \in {"returned", "panicked"}

\* The main thread waits for a run that died.
AwaitsDead ==
    mpc \in {"lock", "check", "sleep", "wait"} /\ \E t \in Dead : item[t][1] = cur

\* The run ends, with a result or a panic, unless the main thread comes to wait for
\* a batch one of whose runs panicked.
Ends == <>[](Ended \/ AwaitsDead)

\* What the backend sees is the sequential delivery: however the workers are
\* scheduled, the same results in the same order.
Promise == INSTANCE OrderedDelivery WITH
    due <- <<cur, fid>>,
    status <- IF Ended THEN mpc ELSE "running"

ImplementsDelivery == Promise!Spec
=============================================================================
