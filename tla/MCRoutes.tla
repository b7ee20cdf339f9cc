------------------------------ MODULE MCRoutes -----------------------------
(* The two groups of route handles, side by side: either fibers are inside *)
(* the failover route, or a request is inside one that gathers replies.    *)
(* They share nothing, so one is left alone while the other is explored.   *)
EXTENDS LeaseRoute, GatherRoutes

CONSTANTS f1, f2, f3, f4, f5

MCFiber == {f1, f2, f3, f4, f5}
MCSenderOf == [f \in MCFiber |-> CASE f = f3 -> 2 [] f = f5 -> 0 [] OTHER -> 1]
MCWidth == <<3, 2>>
MCServerToken == {[magic |-> FALSE, id |-> 7], [magic |-> TRUE, id |-> 0]}

NoWork == [leasing |-> {}, plain |-> {}, least |-> FALSE]

MCWorkload ==
  { [leasing |-> {f1, f2}, plain |-> {}, least |-> TRUE],
    [leasing |-> {f1}, plain |-> {f3}, least |-> FALSE],
    [leasing |-> {}, plain |-> {f1, f2, f3, f4}, least |-> TRUE],
    [leasing |-> {}, plain |-> {f1, f3, f5}, least |-> FALSE],
    NoWork }

Idle == \A f \in Fiber : fiber[f].pc = "done"

RoutesInit ==
  /\ Init /\ GatherInit
  /\ ~Idle => kind = "async"

RoutesNext ==
  \/ ~Idle /\ Next /\ UNCHANGED gatherVars
  \/ Idle /\ GatherNext /\ UNCHANGED vars

RoutesSpec == RoutesInit /\ [][RoutesNext]_<<vars, gatherVars>>
=============================================================================
