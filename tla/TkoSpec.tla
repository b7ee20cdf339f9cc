------------------------------- MODULE TkoSpec -------------------------------
(***************************************************************************)
(* What TkoTracker promises its callers: the TKO ("total knockout") state  *)
(* of every server changes by whole operations, each of them atomic.  A    *)
(* server is healthy with a number of consecutive soft failures, or TKO,   *)
(* softly or hardly, with the one ProxyDestination that is responsible for *)
(* probing it.  The lock-free code of TkoTracker.cpp is shown to implement *)
(* this specification in TkoTracker and TkoTrackerProofs.                  *)
(***************************************************************************)
EXTENDS Integers

CONSTANTS
    Dst,        \* the ProxyDestinations, one per proxy thread and server
    Tracker,    \* the servers, each with its TkoTracker
    TrackerOf,  \* TrackerOf[d]: the tracker that destination d shares
    Threshold   \* failures_until_tko

VARIABLE
    status      \* status[t]: the TKO state of server t

-----------------------------------------------------------------------------

(* The three kinds of status; the owner is the responsible destination.    *)
Healthy(n) == <<"healthy", n>>
SoftTko(d) == <<"soft", d>>
HardTko(d) == <<"hard", d>>

Statuses ==
    {Healthy(n) : n \in 0 .. (Threshold - 1)}
        \cup {SoftTko(d) : d \in Dst} \cup {HardTko(d) : d \in Dst}

Init == status \in [Tracker -> {Healthy(0)}]

(* A soft failure counts; the Threshold-th one marks the server TKO and    *)
(* makes the caller responsible for it.                                    *)
SoftFailure(d) ==
    LET t == TrackerOf[d] IN
    \E n \in 0 .. (Threshold - 1) :
        /\ status[t] = Healthy(n)
        /\ status' = [status EXCEPT ![t] =
                        IF n = Threshold - 1 THEN SoftTko(d) ELSE Healthy(n + 1)]

(* A hard failure marks a healthy server TKO at once, and turns the        *)
(* caller's own soft TKO into a hard one: responsibility never moves.      *)
HardFailure(d) ==
    LET t == TrackerOf[d] IN
    /\ \/ \E n \in 0 .. (Threshold - 1) : status[t] = Healthy(n)
       \/ status[t] = SoftTko(d)
    /\ status' = [status EXCEPT ![t] = HardTko(d)]

(* A success forgets the failures of a healthy server; only the            *)
(* responsible destination's success brings a TKO server back.  Replacing  *)
(* the tracker of a server that has no destination left by a new one also  *)
(* looks like this.                                                        *)
Success(d) ==
    LET t == TrackerOf[d] IN
    /\ \/ \E n \in 0 .. (Threshold - 1) : status[t] = Healthy(n)
       \/ status[t] \in {SoftTko(d), HardTko(d)}
    /\ status' = [status EXCEPT ![t] = Healthy(0)]

Next ==
    \E d \in Dst : SoftFailure(d) \/ HardFailure(d) \/ Success(d)

Spec == Init /\ [][Next]_status

=============================================================================
