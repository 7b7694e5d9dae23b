---------------------------- MODULE OrderedDelivery ----------------------------
(***************************************************************************)
(* What a hammer run promises its backend (Session::run, re/hammer/src/    *)
(* run.rs), as if one thread did everything: the fuzzers' results are      *)
(* handed to return_fuzzer one by one, in the order of the batches and of  *)
(* the fuzzers in a batch, each computed from all the runs of its own      *)
(* batch; the state is returned when the last was accepted.                *)
(***************************************************************************)
EXTENDS Naturals, Sequences

CONSTANTS Plans   \* see HammerRun

VARIABLES
    plan,     \* the batches: how many runs and fuzzers each has
    state,    \* Backend::State: the results it was given
    due,      \* <<batch, fuzzer>>: whose result is next
    status    \* "running", "returned" or "panicked"
vars == <<plan, state, due, status>>

Result(b, f) ==
    [batch |-> b, fuzzer |-> f, runs |-> [i \in 0..plan[b].width |-> <<b, i>>]]

After(b, f) == IF f < plan[b].fuzzers THEN <<b, f + 1>> ELSE <<b + 1, 1>>

Init == plan \in Plans /\ state = <<>> /\ due = <<1, 1>> /\ status = "running"

Deliver ==
    /\ status = "running"
    /\ due[1] <= Len(plan)
    /\ state' = Append(state, Result(due[1], due[2]))
    /\ due' = After(due[1], due[2])
    /\ UNCHANGED <<plan, status>>

Return ==
    /\ status = "running"
    /\ due = <<Len(plan) + 1, 1>>
    /\ status' = "returned"
    /\ UNCHANGED <<plan, state, due>>

Panic ==
    /\ status = "running"
    /\ status' = "panicked"
    /\ UNCHANGED <<plan, state, due>>

Next == Deliver \/ Return \/ Panic

Spec == Init /\ [][Next]_vars
=============================================================================
