-------------------------- MODULE MCProxyDestination --------------------------
(* Two proxies whose destinations share one server.                        *)
EXTENDS ProxyDestination

MCTrackerOf == [d \in Dst |-> "s1"]
===============================================================================
