--------------------------- MODULE DeductionOracle ---------------------------
(***************************************************************************)
(* What the harvester promises its callers: it knows some bits of every    *)
(* name, all of them true of the device, only ever learns more, and calls  *)
(* a name done only when it has all of its bits.                           *)
(***************************************************************************)
CONSTANTS Names, Bits

VARIABLES truth, learned, done
vars == <<truth, learned, done>>

Init ==
    /\ truth \in [Names -> SUBSET Bits]
    /\ learned = [n \in Names |-> {}]
    /\ done = {}

\* Some names gain bits; some are done.
Learn ==
    /\ learned' \in [Names -> SUBSET Bits]
    /\ \A n \in Names : learned[n] \subseteq learned'[n] /\ learned'[n] \subseteq truth[n]
    /\ done \subseteq done' /\ done' \subseteq Names
    /\ \A n \in done' : learned'[n] = truth[n]
    /\ UNCHANGED truth

\* Two names turn out to be one: the second inherits all the first had.
Merge(from, to) ==
    /\ from # to /\ truth[from] = truth[to]
    /\ learned' = [learned EXCEPT ![from] = {}, ![to] = learned[from] \cup learned[to]]
    /\ done' = (done \ {from}) \cup (IF {from, to} \cap done = {} THEN {} ELSE {to})
    /\ UNCHANGED truth

Next == Learn \/ \E from, to \in Names : Merge(from, to)

Spec == Init /\ [][Next]_vars
=============================================================================
