------------------------------ MODULE MCRunCache ------------------------------
(***************************************************************************)
(* One key, since keys share nothing, under which three designs are run: by*)
(* a tool that may end in every way on each, or by one that always succeeds*)
(* on one, and never readably on another.                                  *)
(***************************************************************************)
EXTENDS RunCache

CONSTANTS d1, d2, d3, k1

MCTools ==
    { [d \in Designs |-> Exits],
      [d \in Designs |-> IF d = d1 THEN {"ok"} ELSE IF d = d2 THEN {"bad"} ELSE {"ok", "fail"}] }
=============================================================================
