------------------------------- MODULE SiteSearch -------------------------------
(***************************************************************************)
(* How icecube-harvester counts the sites of a kind (find_sites, sites.rs):*)
(* it asks run() for designs with more and more instances until one does   *)
(* not fit, then halves the distance between the largest that fitted and   *)
(* the smallest that did not.  A crash starts the search again from the    *)
(* beginning; what was run before is answered by the cache (RunCache).     *)
(*                                                                         *)
(* Key and design number n are those with n instances.                     *)
(***************************************************************************)
EXTENDS RunCache, FiniteSets

CONSTANTS
    MaxNum,      \* bound: the most instances asked for
    StartNum,    \* start_num
    MaxCrashes   \* bound: how often the program ends before its time

ASSUME NumsFit ==
    /\ MaxNum \in Nat /\ StartNum \in 1..MaxNum /\ MaxCrashes \in Nat
    /\ Keys = 1..MaxNum /\ Designs = 1..MaxNum

\* The device is finite, and no design ends in a report that cannot be read.
ASSUME DeviceFinite ==
    \A t \in Tools : \A n \in Designs :
        /\ "bad" \notin t[n]
        /\ n >= StartNum /\ 2 * n > MaxNum => t[n] = {"fail"}

VARIABLES
    phase,     \* "double", "halve" or "done"
    low,       \* the most instances that fitted, or 0
    high,      \* what is tried next; in "halve", the fewest that did not fit
    best,      \* the sites found: the designs whose reports they are from
    asked,     \* the number run() was called with, or 0
    crashes,   \* restarts so far
    toolRuns,  \* how often the tool was run
    first      \* what the first search that ended had found, or {} before
search == <<phase, low, high, best, asked>>
ghosts == <<crashes, toolRuns, first>>
allVars == <<vars, search, ghosts>>

Start ==
    /\ phase = "double"
    /\ low = 0
    /\ high = StartNum
    /\ best = {}
    /\ asked = 0

SearchInit ==
    /\ Init
    /\ Start
    /\ crashes = 0 /\ toolRuns = 0 /\ first = {}

-----------------------------------------------------------------------------
\* Mistakes: the search stops one step early, or never.
GapLate == high - low > 2
GapAlways == high > low

Gap == high - low > 1

\* What is asked for next.
Wanted == IF phase = "double" THEN {high} ELSE IF Gap THEN {(high + low) \div 2} ELSE {}

Ask(n) ==
    /\ phase # "done" /\ asked = 0
    /\ n \in Wanted
    /\ Call(n, n)
    /\ asked' = n
    /\ UNCHANGED <<phase, low, high, best, ghosts>>

Answered == asked # 0 /\ pc[asked] = "idle"

Fitted == {r \in reply[asked] : r.exit = "ok"}

Double ==
    /\ phase = "double" /\ Answered
    /\ asked' = 0
    /\ \/ /\ \E r \in Fitted : best' = r.reports
          /\ low' = high
          /\ high' = 2 * high
          /\ UNCHANGED phase
       \/ /\ Fitted = {}
          /\ phase' = "halve"
          /\ UNCHANGED <<low, high, best>>
    /\ UNCHANGED <<vars, ghosts>>

Halve ==
    /\ phase = "halve" /\ Answered
    /\ asked' = 0
    /\ \/ /\ \E r \in Fitted : best' = r.reports
          /\ low' = asked
          /\ UNCHANGED high
       \/ /\ Fitted = {}
          /\ high' = asked
          /\ UNCHANGED <<low, best>>
    /\ UNCHANGED <<vars, phase, ghosts>>

Stop ==
    /\ phase = "halve" /\ asked = 0 /\ ~Gap
    /\ phase' = "done"
    /\ first' = IF first = {} THEN {best} ELSE first
    /\ UNCHANGED <<vars, low, high, best, asked, crashes, toolRuns>>

\* A step of run(), and the count of tool runs.
RunStep(k) ==
    /\ Run(k)
    /\ toolRuns' = IF pc[k] = "tool" THEN toolRuns + 1 ELSE toolRuns
    /\ UNCHANGED <<search, crashes, first>>

Crash ==
    /\ crashes < MaxCrashes
    /\ Restart
    /\ crashes' = crashes + 1
    /\ phase' = "double" /\ low' = 0 /\ high' = StartNum /\ best' = {} /\ asked' = 0
    /\ UNCHANGED <<toolRuns, first>>

-----------------------------------------------------------------------------
Step ==
    \/ \E n \in Keys : Ask(n) \/ RunStep(n)
    \/ Double
    \/ Halve
    \/ Stop

SearchNext == Step \/ Crash

SearchSpec == SearchInit /\ [][SearchNext]_allVars

\* One thread, which nothing blocks: the tool ends, by itself or by `timeout`.
FairSearch == SearchSpec /\ WF_allVars(Step)

-----------------------------------------------------------------------------
\* The designs that fit are those up to some size, whenever they are tried.
Monotone ==
    /\ \A n \in Designs : tool[n] \in {{"ok"}, {"fail"}}
    /\ \A m, n \in Designs : m <= n /\ tool[n] = {"ok"} => tool[m] = {"ok"}

\* The search finds all sites if the tool is monotone.  If it is not (a run was
\* killed by the timeout), the result is at least the same on every start, however
\* often the program is ended before or after: the generated sites, and all that is
\* made from them, do not depend on crashes (find_sites over run).
LargestFound ==
    phase = "done" =>
        /\ first = {best}
        /\ Monotone => best = {n \in Designs : tool[n] = {"ok"} /\ \A m \in Designs :
                                  tool[m] = {"ok"} => m <= n}

\* A crash costs at most the tool run it interrupts: every other run left its answer
\* in the cache, and no number is asked for twice.
CrashCostsOne ==
    toolRuns <= Cardinality(ok \cup fail) + crashes
                  + Cardinality({k \in Keys : pc[k] \in {"pack", "finish", "clean", "read",
                                                         "replace", "move"}})

\* The search ends once the crashes do.
SearchEnds == <>[](phase = "done")
=============================================================================
