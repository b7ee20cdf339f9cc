------------------------------ MODULE MCServer ------------------------------
(* The standalone server: one session of a worker, and, side by side, the  *)
(* threads that run the workers as they start and stop.  A worker ends its *)
(* loop when its sessions are gone, and a shutdown closes every session:   *)
(* each of the two takes from the other what the other shows, so they are  *)
(* explored one at a time.                                                 *)
EXTENDS ServerSession, AsyncMcServer

VARIABLE threads    \* the threads are explored, not the session

\* The one that is not explored is left where it has nothing to do.
ServerInit ==
  /\ Init
  /\ \/ threads = FALSE /\ SrvStart("joined")
     \/ threads = TRUE /\ srv_init /\ ordered /\ singleWrite

ServerNext ==
  \/ ~threads /\ Next /\ UNCHANGED <<srvVars, threads>>
  \/ threads /\ SrvNext /\ UNCHANGED <<vars, threads>>

ServerSpec ==
  ServerInit /\ [][ServerNext]_<<vars, srvVars, threads>> /\ Fairness /\ SrvFairness
=============================================================================
