---------------------------- MODULE MCEventBase ----------------------------
(* The two ends of a proxy's event base: the queue through which requests  *)
(* reach it, and a connection through which they leave.  They meet only in *)
(* the loop that runs both, so they are explored one at a time.            *)
EXTENDS MCMcClient, MessageQueue

VARIABLE queueing    \* the message queue is explored, not the connection

\* The one that is not explored is left where it has nothing to do: no request
\* has been sent, or the reader sleeps on an empty queue.
EventBaseInit ==
    /\ Init
    /\ \/ queueing = FALSE /\ QueueStart("poll") /\ ~relaxed
       \/ queueing = TRUE /\ QueueInit /\ outOfOrder

EventBaseNext ==
    \/ ~queueing /\ Next /\ UNCHANGED <<queueVars, queueing>>
    \/ queueing /\ QueueNext /\ UNCHANGED <<vars, queueing>>

EventBaseSpec ==
    /\ EventBaseInit /\ [][EventBaseNext]_<<vars, queueVars, queueing>>
    /\ Fairness /\ QueueFairness
=============================================================================
