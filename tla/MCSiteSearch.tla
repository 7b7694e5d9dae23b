------------------------------ MODULE MCSiteSearch ------------------------------
(***************************************************************************)
(* Devices of up to five sites, asked for three and up: none, fewer than   *)
(* asked for, and enough for one and two doublings.  One tool may be too   *)
(* slow for three, four or six instances.                                  *)
(***************************************************************************)
EXTENDS SiteSearch

MCNums == 1..12

Device(n) == [d \in Designs |-> IF d <= n THEN {"ok"} ELSE {"fail"}]
Slow == [d \in Designs |-> IF d \in {3, 4, 6} THEN {"ok", "fail"} ELSE Device(5)[d]]

MCTools == { Device(n) : n \in {0, 1, 2, 3, 4, 5} } \cup {Slow}
=============================================================================
