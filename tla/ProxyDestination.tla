--------------------------- MODULE ProxyDestination ---------------------------
(***************************************************************************)
(* ProxyDestination and the inactivity lists of ProxyDestinationMap: the   *)
(* destinations of several proxies for one server, each with its client    *)
(* connection, its probe fiber, one request fiber and its place in the     *)
(* lists, over the TkoTracker they share.                                  *)
(*                                                                         *)
(* The handlers of a destination run on its proxy's thread and are atomic  *)
(* here.  Their calls of the shared tracker are the operations of TkoSpec, *)
(* which TkoTracker implements.  Of the client connection the module keeps *)
(* what its callbacks tell the destination; McClient models its inside.    *)
(* The address of the server, SSL, the statistics of latency and the       *)
(* durations of timers are left out: a timer may fire at any time.         *)
(***************************************************************************)
EXTENDS Integers, FiniteSets

CONSTANTS
    Dst,        \* the destinations of the server, each of another proxy
    Tracker,    \* the servers
    TrackerOf,  \* TrackerOf[d]: the server of destination d
    Threshold,  \* failures_until_tko
    Reset,      \* whether reset_inactive_connection_interval is set
    PoolBound   \* bound of the model on the statistic poolConnections

VARIABLES
    status,          \* status[t]: the TKO state of server t (TkoSpec)
    exists,          \* the destinations that are constructed
    inConfig,        \* those that route handles of a config in use hold
    client,          \* client[d]: client_, "none" or its connection state
    state,           \* state[d]: stats_.state
    servers,         \* servers[s]: num_servers_{new,up,closed,down}
    poolConnections, \* PoolStats: the statistic <pool>.connections
    probeTimer,      \* the destinations with a probeTimer_
    probe,           \* probe[d]: the probe fiber; "none" is !probeInflight_
    req,             \* req[d]: the fiber of a request routed to d
    list             \* list[d]: stateList_, "none", "active" or "inactive"

conn == <<client, state, servers, poolConnections>>
fibers == <<probe, req>>
vars == <<status, exists, inConfig, conn, probeTimer, fibers, list>>

Tko == INSTANCE TkoSpec

(* What a fiber waiting in sendSync can get back: success, the soft TKO    *)
(* error, a hard TKO error, or an error that says nothing of the server.   *)
HardErrors == {"connect_error"}
SoftErrors == {"timeout"}
Results == {"ok", "aborted"} \cup HardErrors \cup SoftErrors

States == {"new", "up", "closed", "down"}

(* A fiber is waiting on the client of its destination, with its request   *)
(* in the client's queue ("pending") or written to the connection          *)
(* ("sent"), or on a client that closeGracefully let go ("detached"), or   *)
(* was given its result.                                                   *)
Waiting == {"pending", "sent"}
ReqStates == {"none", "detached"} \cup Waiting \cup Results
ProbeStates == {"none", "task"} \cup Waiting \cup Results

(* A route handle or a running fiber holds a shared_ptr to d.  A probe     *)
(* task that has not started holds only a weak_ptr.                        *)
Held(d) ==
    /\ d \in exists
    /\ \/ d \in inConfig
       \/ req[d] # "none"
       \/ probe[d] \notin {"none", "task"}

IsHealthy(t) == \E n \in 0 .. (Threshold - 1) : status[t] = Tko!Healthy(n)

Responsible(d) == status[TrackerOf[d]] \in {Tko!SoftTko(d), Tko!HardTko(d)}

Init ==
    /\ Tko!Init
    /\ exists = Dst
    /\ inConfig = Dst
    /\ client = [d \in Dst |-> "none"]
    /\ state = [d \in Dst |-> "new"]
    /\ servers = [s \in States |-> IF s = "new" THEN Cardinality(Dst) ELSE 0]
    /\ poolConnections = 0
    /\ probeTimer = {}
    /\ probe = [d \in Dst |-> "none"]
    /\ req = [d \in Dst |-> "none"]
    /\ list = [d \in Dst |-> "none"]

-----------------------------------------------------------------------------
(* Pieces of the handlers.                                                 *)

(* The statistic, kept within the bound of the model.                      *)
UpdatePoolConnections(n) ==
    poolConnections' =
        LET p == poolConnections + n IN
        IF p > PoolBound THEN PoolBound
        ELSE IF p < -PoolBound THEN -PoolBound ELSE p

SetState(d, s) ==
    /\ state' = [state EXCEPT ![d] = s]
    /\ servers' = [servers EXCEPT ![state[d]] = @ - 1, ![s] = @ + 1]

(* Mutant: a hard failure takes a TKO over from whoever has it.            *)
RecordHardFailureTakesOver(d) ==
    /\ status' = [status EXCEPT ![TrackerOf[d]] = Tko!HardTko(d)]
    /\ probeTimer' = probeTimer \cup {d}

(* handleTko, with the probes it starts or stops.                          *)
RecordHardFailure(d) ==
    \/ /\ Tko!HardFailure(d)
       /\ probeTimer' = probeTimer \cup {d}
    \/ /\ ~IsHealthy(TrackerOf[d])
       /\ status[TrackerOf[d]] # Tko!SoftTko(d)
       /\ UNCHANGED <<status, probeTimer>>

RecordSoftFailure(d) ==
    \/ /\ Tko!SoftFailure(d)
       /\ probeTimer' =
            IF status'[TrackerOf[d]] = Tko!SoftTko(d)
            THEN probeTimer \cup {d} ELSE probeTimer
    \/ /\ ~IsHealthy(TrackerOf[d])
       /\ UNCHANGED <<status, probeTimer>>

(* Mutant: the reply to a plain request also ends the TKO.                 *)
RecordSuccessOfAny(d, isProbe) ==
    \/ /\ IsHealthy(TrackerOf[d]) \/ Responsible(d)
       /\ Tko!Success(d)
       /\ probeTimer' = probeTimer \ {d}
    \/ /\ ~IsHealthy(TrackerOf[d])
       /\ ~Responsible(d)
       /\ UNCHANGED <<status, probeTimer>>

RecordSuccess(d, isProbe) ==
    \/ /\ IsHealthy(TrackerOf[d]) \/ (isProbe /\ Responsible(d))
       /\ Tko!Success(d)
       /\ probeTimer' =
            IF IsHealthy(TrackerOf[d]) THEN probeTimer ELSE probeTimer \ {d}
    \/ /\ ~IsHealthy(TrackerOf[d])
       /\ ~(isProbe /\ Responsible(d))
       /\ UNCHANGED <<status, probeTimer>>

HandleTko(d, result, isProbe) ==
    CASE result \in HardErrors -> RecordHardFailure(d)
      [] result \in SoftErrors -> RecordSoftFailure(d)
      [] result = "ok" -> RecordSuccess(d, isProbe)
      [] result = "aborted" -> UNCHANGED <<status, probeTimer>>

(* The fibers of d that are in one of the states S go to state w.          *)
Answer(d, S, w) ==
    /\ probe' = [probe EXCEPT ![d] = IF @ \in S THEN w ELSE @]
    /\ req' = [req EXCEPT ![d] = IF @ \in S THEN w ELSE @]

(* Mutant: the callbacks are taken from the client before it is closed.    *)
CloseNowSilently(d, c) ==
    /\ client' = [client EXCEPT ![d] = c]
    /\ Answer(d, Waiting, "aborted")
    /\ UNCHANGED <<state, servers, poolConnections>>

(* AsyncMcClient::closeNow on the client of d, which then is left in the   *)
(* connection state c: everything outstanding is aborted, and the status   *)
(* callback reports a connection that was open, or being opened, as down.  *)
CloseNow(d, c) ==
    /\ client' = [client EXCEPT ![d] = c]
    /\ IF client[d] \in {"connecting", "up"}
       THEN /\ Answer(d, Waiting, "aborted")
            /\ UpdatePoolConnections(-1)
            /\ SetState(d, "closed")
       ELSE UNCHANGED <<fibers, state, servers, poolConnections>>

(* The callback onDown for a reason other than ABORTED and                 *)
(* SERVER_GONE_AWAY.                                                       *)
OnDown(d) ==
    /\ UpdatePoolConnections(-1)
    /\ SetState(d, "down")
    /\ HandleTko(d, "connect_error", FALSE)

(* markAsActive and getAsyncMcClient().sendSync: a client without a        *)
(* connection starts to connect.                                           *)
StartSending(d) ==
    /\ list' = [list EXCEPT ![d] = "active"]
    /\ client' = [client EXCEPT ![d] =
                    IF @ \in {"none", "down"} THEN "connecting" ELSE @]

-----------------------------------------------------------------------------
(* Requests.                                                               *)

(* DestinationRoute::checkAndRoute: send, unless the server is TKO.        *)
Send(d) ==
    /\ d \in exists \cap inConfig
    /\ req[d] = "none"
    /\ IsHealthy(TrackerOf[d])
    /\ StartSending(d)
    /\ req' = [req EXCEPT ![d] = "pending"]
    /\ UNCHANGED <<status, exists, inConfig, state, servers, poolConnections,
                   probeTimer, probe>>

(* The fiber of the request resumes: onReply.  A connection with too many  *)
(* retransmissions may be closed.                                          *)
OnReply(d) ==
    /\ req[d] \in Results
    /\ HandleTko(d, req[d], FALSE)
    /\ \/ /\ req' = [req EXCEPT ![d] = "none"]
          /\ UNCHANGED <<conn, probe>>
       \/ /\ client[d] = "up"
          /\ client' = [client EXCEPT ![d] = "down"]
          /\ UpdatePoolConnections(-1)
          /\ SetState(d, "closed")
          /\ probe' = [probe EXCEPT ![d] = IF @ \in Waiting THEN "aborted" ELSE @]
          /\ req' = [req EXCEPT ![d] = "none"]
    /\ UNCHANGED <<exists, inConfig, list>>

-----------------------------------------------------------------------------
(* Probes.                                                                 *)

(* The timer of startSendingProbes fires; it stays scheduled.              *)
ProbeTimer(d) ==
    /\ d \in probeTimer
    /\ Held(d)
    /\ probe[d] = "none"
    /\ probe' = [probe EXCEPT ![d] = "task"]
    /\ UNCHANGED <<status, exists, inConfig, conn, probeTimer, req, list>>

ProbeTask(d) ==
    /\ probe[d] = "task"
    /\ Held(d)
    /\ StartSending(d)
    /\ probe' = [probe EXCEPT ![d] = "pending"]
    /\ UNCHANGED <<status, exists, inConfig, state, servers, poolConnections,
                   probeTimer, req>>

ProbeReply(d) ==
    /\ probe[d] \in Results
    /\ HandleTko(d, probe[d], TRUE)
    /\ probe' = [probe EXCEPT ![d] = "none"]
    /\ UNCHANGED <<exists, inConfig, conn, req, list>>

-----------------------------------------------------------------------------
(* The connection.                                                         *)

(* The callback onUp.  The writer loop runs before the connection is read, *)
(* so what was pending is written.                                         *)
ConnectSuccess(d) ==
    /\ Held(d)
    /\ client[d] = "connecting"
    /\ client' = [client EXCEPT ![d] = "up"]
    /\ SetState(d, "up")
    /\ UpdatePoolConnections(1)
    /\ Answer(d, {"pending"}, "sent")
    /\ UNCHANGED <<status, exists, inConfig, probeTimer, list>>

PushMessages(d) ==
    /\ client[d] = "up"
    /\ "pending" \in {probe[d], req[d]}
    /\ Answer(d, {"pending"}, "sent")
    /\ UNCHANGED <<status, exists, inConfig, conn, probeTimer, list>>

ConnectErr(d) ==
    /\ Held(d)
    /\ client[d] = "connecting"
    /\ client' = [client EXCEPT ![d] = "down"]
    /\ Answer(d, Waiting, "connect_error")
    /\ OnDown(d)
    /\ UNCHANGED <<exists, inConfig, list>>

(* Mutant: requests still pending do not make the client reconnect.        *)
DisconnectStaysDown(d) ==
    /\ Held(d)
    /\ client[d] = "up"
    /\ Answer(d, {"sent"}, "aborted")
    /\ client' = [client EXCEPT ![d] = "down"]
    /\ OnDown(d)
    /\ UNCHANGED <<exists, inConfig, list>>

(* The connection is lost: the requests written to it fail, those still    *)
(* pending make the client connect again.                                  *)
Disconnect(d) ==
    /\ Held(d)
    /\ client[d] = "up"
    /\ Answer(d, {"sent"}, "aborted")
    /\ client' = [client EXCEPT ![d] =
                    IF "pending" \in {probe[d], req[d]} THEN "connecting" ELSE "down"]
    /\ OnDown(d)
    /\ UNCHANGED <<exists, inConfig, list>>

(* The server says it is going away: closeGracefully.  Without a probe the *)
(* outstanding request is left to drain on the client that is let go; with *)
(* one the connection is first closed at once, which reports it down a     *)
(* second time, from within.                                               *)
GoAway(d) ==
    /\ Held(d)
    /\ client[d] = "up"
    /\ client' = [client EXCEPT ![d] = "none"]
    /\ IF probe[d] # "none"
       THEN /\ Answer(d, Waiting, "aborted")
            /\ UpdatePoolConnections(-2)
       ELSE /\ req' = [req EXCEPT ![d] = IF @ \in Waiting THEN "detached" ELSE @]
            /\ UpdatePoolConnections(-1)
            /\ UNCHANGED probe
    /\ SetState(d, "down")
    /\ HandleTko(d, "connect_error", FALSE)
    /\ UNCHANGED <<exists, inConfig, list>>

(* The client answers a fiber that waits on an open connection.            *)
ProbeAnswered(d, result) ==
    /\ client[d] = "up"
    /\ probe[d] = "sent"
    /\ probe' = [probe EXCEPT ![d] = result]
    /\ UNCHANGED <<status, exists, inConfig, conn, probeTimer, req, list>>

RequestAnswered(d, result) ==
    /\ \/ client[d] = "up" /\ req[d] = "sent" /\ result \in {"ok", "timeout"}
       \/ req[d] = "detached"
    /\ req' = [req EXCEPT ![d] = result]
    /\ UNCHANGED <<status, exists, inConfig, conn, probeTimer, probe, list>>

-----------------------------------------------------------------------------
(* Inactive connections and configurations.                                *)

(* resetAllInactive, for the destination d of the map.                     *)
ResetInactive(d) ==
    /\ Reset
    /\ Held(d)
    /\ \/ /\ list[d] = "inactive"
          /\ CloseNow(d, "none")
          /\ list' = [list EXCEPT ![d] = "none"]
       \/ /\ list[d] = "active"
          /\ list' = [list EXCEPT ![d] = "inactive"]
          /\ UNCHANGED <<conn, fibers>>
    /\ UNCHANGED <<status, exists, inConfig, probeTimer>>

RemoveFromConfig(d) ==
    /\ d \in inConfig
    /\ inConfig' = inConfig \ {d}
    /\ UNCHANGED <<status, exists, conn, probeTimer, fibers, list>>

(* A configuration uses the server: the destination is found, or made.     *)
Emplace(d) ==
    /\ d \notin inConfig
    /\ \/ Held(d) /\ UNCHANGED <<exists, state, servers>>
       \/ /\ d \notin exists
          /\ exists' = exists \cup {d}
          /\ state' = [state EXCEPT ![d] = "new"]
          /\ servers' = [servers EXCEPT !["new"] = @ + 1]
    /\ inConfig' = inConfig \cup {d}
    /\ UNCHANGED <<status, client, poolConnections, probeTimer, fibers, list>>

(* The function that the constructor of DestinationRoute leaves to the     *)
(* proxy's thread, for each configuration that uses d.                     *)
SetPoolStatsIndex(d) ==
    /\ d \in exists \cap inConfig
    /\ state[d] = "up"
    /\ UpdatePoolConnections(1)
    /\ UNCHANGED <<status, exists, inConfig, client, state, servers,
                   probeTimer, fibers, list>>

(* Mutant: the destructor does not give up the TKO it is responsible for.  *)
DestroyKeepsTko(d) ==
    /\ d \in exists
    /\ ~Held(d)
    /\ exists' = exists \ {d}
    /\ UNCHANGED status
    /\ probeTimer' = probeTimer \ {d}
    /\ probe' = [probe EXCEPT ![d] = "none"]
    /\ client' = [client EXCEPT ![d] = "none"]
    /\ servers' = [servers EXCEPT ![state[d]] = @ - 1]
    /\ list' = [list EXCEPT ![d] = "none"]
    /\ UNCHANGED <<inConfig, state, poolConnections, req>>

(* Mutant: the destructor leaves the state counted.                        *)
DestroyStaysCounted(d) ==
    /\ d \in exists
    /\ ~Held(d)
    /\ exists' = exists \ {d}
    /\ IF Responsible(d)
          \/ \A e \in exists \ {d} : TrackerOf[e] # TrackerOf[d]
       THEN status' = [status EXCEPT ![TrackerOf[d]] = Tko!Healthy(0)]
       ELSE UNCHANGED status
    /\ probeTimer' = probeTimer \ {d}
    /\ probe' = [probe EXCEPT ![d] = "none"]
    /\ client' = [client EXCEPT ![d] = "none"]
    /\ list' = [list EXCEPT ![d] = "none"]
    /\ UNCHANGED <<inConfig, state, servers, poolConnections, req>>

(* The destructor.  The callbacks are taken from the client before it is   *)
(* closed.  With its last destination the server loses its tracker.        *)
Destroy(d) ==
    /\ d \in exists
    /\ ~Held(d)
    /\ exists' = exists \ {d}
    /\ IF Responsible(d)
          \/ \A e \in exists \ {d} : TrackerOf[e] # TrackerOf[d]
       THEN status' = [status EXCEPT ![TrackerOf[d]] = Tko!Healthy(0)]
       ELSE UNCHANGED status
    /\ probeTimer' = probeTimer \ {d}
    /\ probe' = [probe EXCEPT ![d] = "none"]
    /\ client' = [client EXCEPT ![d] = "none"]
    /\ servers' = [servers EXCEPT ![state[d]] = @ - 1]
    /\ list' = [list EXCEPT ![d] = "none"]
    /\ UNCHANGED <<inConfig, state, poolConnections, req>>

-----------------------------------------------------------------------------

Next ==
    \E d \in Dst :
        \/ Send(d)
        \/ OnReply(d)
        \/ ProbeTimer(d)
        \/ ProbeTask(d)
        \/ ProbeReply(d)
        \/ ConnectSuccess(d)
        \/ PushMessages(d)
        \/ ConnectErr(d)
        \/ Disconnect(d)
        \/ GoAway(d)
        \/ \E result \in {"ok", "timeout"} : ProbeAnswered(d, result)
        \/ \E result \in Results : RequestAnswered(d, result)
        \/ ResetInactive(d)
        \/ RemoveFromConfig(d)
        \/ Emplace(d)
        \/ SetPoolStatsIndex(d)
        \/ Destroy(d)

Spec == Init /\ [][Next]_vars

(* The event loop of a proxy runs what is ready and fires its timers, and  *)
(* a connection or a request ends somehow, within its timeout.             *)
LoopFairness ==
    \A d \in Dst :
        /\ WF_vars(OnReply(d))
        /\ WF_vars(ProbeTimer(d))
        /\ WF_vars(ProbeTask(d))
        /\ WF_vars(ProbeReply(d))
        /\ WF_vars(Destroy(d))
        /\ WF_vars(PushMessages(d))
        /\ WF_vars(ConnectSuccess(d) \/ ConnectErr(d))
        /\ WF_vars(\E result \in Results : RequestAnswered(d, result))

(* The server is not gone for good: of the connections it is asked for     *)
(* again and again, and of the probes, some succeed.                       *)
ServerFairness ==
    \A d \in Dst :
        /\ SF_vars(ConnectSuccess(d))
        /\ SF_vars(ProbeAnswered(d, "ok"))

FairSpec == Spec /\ LoopFairness /\ ServerFairness
-----------------------------------------------------------------------------
(* Properties.                                                             *)

(* Every variable has the type its comment gives it.                       *)
TypeOK ==
    /\ status \in [Tracker -> Tko!Statuses]
    /\ exists \subseteq Dst
    /\ inConfig \subseteq exists
    /\ client \in [Dst -> {"none", "down", "connecting", "up"}]
    /\ state \in [Dst -> States]
    /\ servers \in [States -> 0 .. Cardinality(Dst)]
    /\ poolConnections \in -PoolBound .. PoolBound
    /\ probeTimer \subseteq exists
    /\ probe \in [Dst -> ProbeStates]
    /\ req \in [Dst -> ReqStates]
    /\ list \in [Dst -> {"none", "active", "inactive"}]

(* Probes are sent, and the timer for them runs, only at the destination   *)
(* that is responsible for the server's TKO, through every close,          *)
(* reconnect, reconfiguration and destruction: a server that is down gets  *)
(* at most one probe at a time, from one proxy.                            *)
OnlyOwnerProbes ==
    \A d \in Dst :
        /\ d \in probeTimer <=> (d \in exists /\ Responsible(d))
        /\ probe[d] # "none" => Responsible(d)

(* A destination counts as up exactly while its client has an open         *)
(* connection, although the callbacks nest when a closing connection is    *)
(* closed again, and clients are dropped, detached and made anew.          *)
UpMeansConnected ==
    \A d \in exists : state[d] = "up" <=> client[d] = "up"

(* The counters num_servers_new, up, closed and down agree with the        *)
(* destinations that exist, and the rest of the state has its type.        *)
ServerCountsExact ==
    /\ TypeOK
    /\ \A s \in States :
          servers[s] = Cardinality({d \in exists : state[d] = s})

(* A destination that has a client is on one of the two lists, so that the *)
(* inactivity timer will find it: no idle connection is forgotten.         *)
ClientsAreListed ==
    \A d \in Dst : client[d] # "none" => list[d] # "none"

(* Connections are accounted for: they are seen as up while they are, and  *)
(* the inactivity timer finds them.                                        *)
ConnectionsTracked == UpMeansConnected /\ ClientsAreListed

(* The destinations use the tracker only in the ways of TkoSpec.           *)
ImplementsTkoSpec == Tko!Spec

(* A server marked TKO is used again, if it answers: the probes of the     *)
(* responsible destination succeed, or it is destroyed and gives way.      *)
TkoEnds ==
    \A t \in Tracker : (~IsHealthy(t)) ~> IsHealthy(t)

(* Every request that was sent is answered, with whatever result.          *)
RequestsEnd ==
    \A d \in Dst : (req[d] # "none") ~> (req[d] = "none")

(* The statistic of the pool's connections is the number of connections    *)
(* that are open, as test_poolstats expects of it.                         *)
PoolConnectionsExact ==
    poolConnections = Cardinality({d \in exists : client[d] = "up"})
=============================================================================
