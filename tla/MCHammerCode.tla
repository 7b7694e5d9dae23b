----------------------------- MODULE MCHammerCode -----------------------------
(***************************************************************************)
(* Batches of one to four switches, so that the width grows to four, single *)
(* and multi-bit fuzzers, and every reaction of two positions.  A batch of *)
(* seven switches, too many for the four runs allowed.                     *)
(***************************************************************************)
EXTENDS HammerCode

MCBitCounts ==
    { <<1>>, <<1, 1>>, <<2, 1>>, <<3>>, <<2, 1, 1>>, <<1, 1, 1, 1>>, <<7>> }
=============================================================================
