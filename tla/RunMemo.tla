-------------------------------- MODULE RunMemo --------------------------------
(***************************************************************************)
(* What callers of icecube-harvester's run() may rely on: a memo.  A design*)
(* whose outcome is remembered under a key gets that outcome, however often*)
(* the program is restarted.  Outcomes may be forgotten, but not one whose *)
(* answer its caller still holds.                                          *)
(***************************************************************************)
CONSTANTS Keys, Designs, Exits

VARIABLES
    memo,    \* <<key, design, exit>>: outcomes remembered
    reply    \* of each key, the answer its caller holds: {} or {<<design, exit>>}
vars == <<memo, reply>>

Init ==
    /\ memo = {}
    /\ reply = [k \in Keys |-> {}]

\* The outcome of a design is open only while none is remembered.
Answer(k, d, e) ==
    /\ reply[k] = {}
    /\ \A f \in Exits : <<k, d, f>> \in memo => f = e
    /\ memo' = memo \cup {<<k, d, e>>}
    /\ reply' = [reply EXCEPT ![k] = {<<d, e>>}]

\* Callers are done with their answers, or the program ends; and outcomes may be
\* forgotten.
Forget ==
    /\ \E K \in SUBSET Keys : reply' = [k \in Keys |-> IF k \in K THEN {} ELSE reply[k]]
    /\ memo' \in SUBSET memo
    /\ \A m \in memo \ memo' : <<m[2], m[3]>> \notin reply'[m[1]]

Next ==
    \/ \E k \in Keys, d \in Designs, e \in Exits : Answer(k, d, e)
    \/ Forget

Spec == Init /\ [][Next]_vars
=============================================================================
