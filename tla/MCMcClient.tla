------------------------------ MODULE MCMcClient ------------------------------
(* Three requests.  Timeouts differ if replies come in any order; with a   *)
(* protocol that replies in order, they are all alike.                     *)
EXTENDS McClient

MCTimeoutOf == [o \in BOOLEAN |-> [r \in Req |-> IF o THEN MaxMsgId - r ELSE 1]]

(* The last request is a probe, which has a timeout of its own.            *)
MCProbeTimeoutOf ==
    [o \in BOOLEAN |-> [r \in Req |-> IF r = MaxMsgId THEN 1 ELSE 2]]
===============================================================================
