------------------------------ MODULE MCHammerRun ------------------------------
(***************************************************************************)
(* Three workers, so that two can be ahead of or done with what the third  *)
(* is at.  One batch of three runs; two batches, of two and one fuzzers, so *)
(* that workers can be a batch ahead of the main thread; no batch at all.   *)
(***************************************************************************)
EXTENDS HammerRun

Of(w, f) == [width |-> w, fuzzers |-> f]

MCPlans == { <<>>, <<Of(2, 1)>>, <<Of(1, 2), Of(1, 1)>>, <<Of(2, 1), Of(1, 2)>> }
=============================================================================
