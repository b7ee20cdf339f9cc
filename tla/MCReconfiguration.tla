------------------------- MODULE MCReconfiguration -------------------------
(* A reconfiguration in its three parts, side by side: how a change of a   *)
(* file is noticed and loaded; what building and replacing configurations  *)
(* does to the tables of two proxies that share one server; and the lock   *)
(* under which a proxy's configuration is replaced and the subscribers are *)
(* called.  Each part takes from the others what they show, so they are    *)
(* explored one at a time.                                                 *)
EXTENDS DestinationTables, SfrLock, ConfigApi

CONSTANTS p1, p2

VARIABLE part    \* what is explored

MCProxySeq == <<p1, p2>>

\* Unless the files are explored, they stay as they are.
ReconfigurationInit ==
  /\ Init /\ sfrlock_init /\ api_init
  /\ \/ part = "files"
     \/ part \in {"tables", "lock"} /\ \A f \in File : disk[f] = Missing

ReconfigurationNext ==
  \/ part = "tables" /\ Next /\ UNCHANGED <<lockVars, apiVars, part>>
  \/ part = "lock" /\ LockNext /\ UNCHANGED <<vars, apiVars, part>>
  \/ part = "files" /\ ApiNext /\ UNCHANGED <<vars, lockVars, part>>

ReconfigurationSpec ==
  ReconfigurationInit /\ [][ReconfigurationNext]_<<vars, lockVars, apiVars, part>>
=============================================================================
