---------------------------- MODULE MCTkoTracker ----------------------------
(* Two proxies whose destinations share server s1.                         *)
EXTENDS TkoTracker

MCDst == {10, 12}
MCTrackerOf == [d \in MCDst |-> "s1"]
=============================================================================
