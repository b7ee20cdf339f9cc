------------------------------- MODULE McClient -------------------------------
(***************************************************************************)
(* AsyncMcClientImpl and its McClientRequestContextQueue: one connection   *)
(* of a proxy to a server, the fibers that wait in sendSync, and the       *)
(* server at the other end of the two byte streams.                        *)
(*                                                                         *)
(* Everything runs on the event base of the proxy; an action is one        *)
(* callback of the event base, the socket or a timer, or one fiber running *)
(* until it waits.  The queue is a record, and the methods of              *)
(* McClientRequestContextQueue are operators from records to records.      *)
(* Message ids are the numbers 1, 2, ... in the order of sending.  Parsing *)
(* and serialisation are left out: a reply is the id of its request.       *)
(***************************************************************************)
EXTENDS Integers, SequencesExt

CONSTANTS
    MaxMsgId,     \* bound of the model on the number of requests
    TimeoutOf,    \* TimeoutOf[o][r]: the timeout of request r, o as outOfOrder
    MaxInflight,  \* maxInflight_, 0 for no limit
    MaxPending,   \* maxPending_, 0 for no limit
    MaxRetries,   \* numConnectTimeoutRetries
    MaxFaults     \* bound of the model on lost connections

Req == 1 .. MaxMsgId

VARIABLES
    outOfOrder,   \* outOfOrder_: the protocol is not ASCII
    conn,         \* connectionState_
    retriesLeft,  \* numConnectTimeoutRetriesLeft_
    nextMsgId,    \* nextMsgId_
    q,            \* queue_
    isBatchTail,  \* the requests whose isBatchTail is set
    writer,       \* writer_ is scheduled
    timers,       \* the requests with an armed timeout, in the order of arming
    unwritten,    \* requests given to the socket, not yet on the wire
    toServer,     \* requests on the wire
    fromServer,   \* replies on the wire
    faults        \* how often a connection was lost or closed

wire == <<unwritten, toServer, fromServer>>
vars == <<outOfOrder, conn, retriesLeft, nextMsgId, q, isBatchTail, writer,
          timers, wire, faults>>

ReqStates == {"NONE", "PENDING_QUEUE", "WRITE_QUEUE", "PENDING_REPLY_QUEUE",
              "REPLIED_QUEUE", "COMPLETE", "RETURNED"}
(* What replyStorage_ holds: nothing, the reply to a request, an error.    *)
NoReply == <<"none">>
ReplyTo(r) == <<"reply", r>>
Error(e) == <<"error", e>>
Errors == {"timeout", "connect_timeout", "connect_error", "remote_error",
           "aborted", "local_error"}

Init ==
    /\ outOfOrder \in BOOLEAN
    /\ conn = "DOWN"
    /\ retriesLeft = MaxRetries
    /\ nextMsgId = 1
    /\ q = [pending |-> <<>>, write |-> <<>>, pendingReply |-> <<>>,
            replied |-> <<>>,
            timedOut |-> 0,                        \* timedOutInitializers_
            state |-> [r \in Req |-> "NONE"],
            reply |-> [r \in Req |-> NoReply],      \* replyStorage_
            ready |-> <<>>]                        \* posted batons, oldest first
    /\ isBatchTail = {}
    /\ writer = FALSE
    /\ timers = <<>>
    /\ unwritten = <<>>
    /\ toServer = <<>>
    /\ fromServer = <<>>
    /\ faults = 0

-----------------------------------------------------------------------------
(* McClientRequestContextQueue.                                            *)

Inflight(c) == Len(c.replied) + Len(c.write) + Len(c.pendingReply)

SetStates(c, S, s) ==
    [c EXCEPT !.state = [r \in Req |-> IF r \in S THEN s ELSE @[r]]]

(* baton_.post: a fiber that is ready already stays where it is.           *)
Post(c, rs) ==
    [c EXCEPT !.ready = @ \o SelectSeq(rs, LAMBDA r : r \notin ToSet(c.ready))]

(* replyError for every request of the sequence rs.                        *)
FailRequests(c, rs, error) ==
    LET failed == SetStates(Post(c, rs), ToSet(rs), "COMPLETE")
    IN  [failed EXCEPT
            !.reply = [r \in Req |-> IF r \in ToSet(rs) THEN Error(error) ELSE @[r]]]

FailAllSent(c, error) ==
    [FailRequests(c, c.pendingReply, error) EXCEPT
        !.pendingReply = <<>>, !.timedOut = 0]

FailAllPending(c, error) ==
    [FailRequests(c, c.pending, error) EXCEPT !.pending = <<>>]

MarkAsPending(c, r) ==
    [SetStates(c, {r}, "PENDING_QUEUE") EXCEPT !.pending = Append(@, r)]

(* markNextAsSending for the next n requests.                              *)
MarkAsSending(c, n) ==
    LET rs == SubSeq(c.pending, 1, n)
    IN  [SetStates(c, ToSet(rs), "WRITE_QUEUE") EXCEPT
            !.pending = SubSeq(@, n + 1, Len(@)), !.write = @ \o rs]

(* The requests of the oldest batch whose write has not ended.             *)
Batch(c, tails) ==
    LET rs == c.replied \o c.write
        last == CHOOSE i \in 1 .. Len(rs) :
                    rs[i] \in tails /\ \A j \in 1 .. (i - 1) : rs[j] \notin tails
    IN  SubSeq(rs, 1, last)

(* markNextAsSent up to the tail of the oldest batch: a request that was   *)
(* replied to before its write ended is done, another waits for its reply. *)
MarkBatchAsSent(c, tails) ==
    LET rs == Batch(c, tails)
        done == SelectSeq(rs, LAMBDA r : c.state[r] \in {"REPLIED_QUEUE", "COMPLETE"})
        waiting == SelectSeq(rs, LAMBDA r : c.state[r] = "WRITE_QUEUE")
        fromReplied == IF Len(rs) < Len(c.replied) THEN Len(rs) ELSE Len(c.replied)
        moved == SetStates(SetStates(Post(c, done), ToSet(done), "COMPLETE"),
                           ToSet(waiting), "PENDING_REPLY_QUEUE")
    IN  [moved EXCEPT
            !.replied = SubSeq(@, fromReplied + 1, Len(@)),
            !.write = SubSeq(@, Len(rs) - fromReplied + 1, Len(@)),
            !.pendingReply = @ \o waiting]

(* Mutant: the request is not taken out of the queue.                      *)
ReplyByIdLeavesQueue(c, id) ==
    IF c.state[id] = "PENDING_REPLY_QUEUE"
    THEN [SetStates(Post(c, <<id>>), {id}, "COMPLETE") EXCEPT
             !.reply[id] = ReplyTo(id)]
    ELSE c

(* McClientRequestContextQueue::reply with the reply to request id, for a  *)
(* protocol that replies in any order: the request is found by its id.     *)
ReplyById(c, id) ==
    CASE c.state[id] = "PENDING_REPLY_QUEUE" ->
            [SetStates(Post(c, <<id>>), {id}, "COMPLETE") EXCEPT
                !.reply[id] = ReplyTo(id),
                !.pendingReply = SelectSeq(@, LAMBDA r : r # id)]
      [] c.state[id] = "WRITE_QUEUE" ->
            [SetStates(c, {id}, "COMPLETE") EXCEPT !.reply[id] = ReplyTo(id)]
      [] OTHER -> c

(* The same for a protocol that replies in order: the replies to requests  *)
(* that timed out come first, then those to the oldest request.            *)
ReplyInOrder(c, id) ==
    IF c.timedOut > 0 THEN [c EXCEPT !.timedOut = @ - 1]
    ELSE IF c.pendingReply # <<>>
    THEN LET r == Head(c.pendingReply)
         IN  [SetStates(Post(c, <<r>>), {r}, "COMPLETE") EXCEPT
                 !.reply[r] = ReplyTo(id), !.pendingReply = Tail(@)]
    ELSE IF c.write # <<>>
    THEN LET r == Head(c.write)
         IN  [SetStates(c, {r}, "REPLIED_QUEUE") EXCEPT
                 !.reply[r] = ReplyTo(id), !.write = Tail(@), !.replied = Append(@, r)]
    ELSE c

(* Mutant: nothing is remembered of the reply still to come.               *)
RemovePendingReplyForgets(c, r) ==
    [c EXCEPT !.pendingReply = SelectSeq(@, LAMBDA p : p # r),
              !.reply[r] = Error("timeout")]

(* removePendingReply, for the fiber of a request that timed out.          *)
RemovePendingReply(c, r) ==
    [c EXCEPT !.pendingReply = SelectSeq(@, LAMBDA p : p # r),
              !.timedOut = IF outOfOrder THEN @ ELSE @ + 1,
              !.reply[r] = Error("timeout")]

-----------------------------------------------------------------------------
(* AsyncMcClientImpl.                                                      *)

NumToSend(c) ==
    IF MaxInflight = 0 THEN Len(c.pending)
    ELSE IF MaxInflight <= Inflight(c) THEN 0
    ELSE IF Len(c.pending) < MaxInflight - Inflight(c)
    THEN Len(c.pending) ELSE MaxInflight - Inflight(c)

(* scheduleNextWriterLoop, at the end of an action.                        *)
ScheduleNextWriterLoop == writer' = (writer \/ (conn' = "UP" /\ NumToSend(q') > 0))

NewConnection ==
    /\ unwritten' = <<>>
    /\ toServer' = <<>>
    /\ fromServer' = <<>>

(* sendSync up to its wait, with sendCommon.                               *)
SendSync ==
    /\ nextMsgId \in Req
    /\ nextMsgId' = nextMsgId + 1
    /\ \/ /\ MaxPending # 0
          /\ Len(q.pending) >= MaxPending
          /\ q' = [SetStates(q, {nextMsgId}, "RETURNED") EXCEPT
                     !.reply[nextMsgId] = Error("local_error")]
          /\ UNCHANGED <<conn, writer>>
       \/ /\ MaxPending = 0 \/ Len(q.pending) < MaxPending
          /\ q' = MarkAsPending(q, nextMsgId)
          /\ conn' = IF conn = "DOWN" THEN "CONNECTING" ELSE conn
          /\ ScheduleNextWriterLoop
    /\ UNCHANGED <<outOfOrder, retriesLeft, isBatchTail, timers, wire, faults>>

(* Mutant: sendSync returns without scheduling the writer loop.            *)
ResumeUnscheduled ==
    /\ q.ready # <<>>
    /\ LET r == Head(q.ready)
           c == [SetStates(q, {r}, "RETURNED") EXCEPT !.ready = Tail(@)]
       IN  /\ q' = IF q.state[r] = "PENDING_REPLY_QUEUE"
                   THEN RemovePendingReply(c, r) ELSE c
           /\ timers' = SelectSeq(timers, LAMBDA p : p # r)
    /\ UNCHANGED <<outOfOrder, conn, retriesLeft, nextMsgId, isBatchTail, writer,
                   wire, faults>>

(* The fiber of the oldest posted baton resumes in waitForReply and        *)
(* sendSync returns.                                                       *)
Resume ==
    /\ q.ready # <<>>
    /\ LET r == Head(q.ready)
           c == [SetStates(q, {r}, "RETURNED") EXCEPT !.ready = Tail(@)]
       IN  /\ q' = IF q.state[r] = "PENDING_REPLY_QUEUE"
                   THEN RemovePendingReply(c, r) ELSE c
           /\ timers' = SelectSeq(timers, LAMBDA p : p # r)
    /\ UNCHANGED <<outOfOrder, conn, retriesLeft, nextMsgId, isBatchTail, wire,
                   faults>>
    /\ ScheduleNextWriterLoop

(* A timeout expires.  Timeouts of equal length expire in the order in     *)
(* which they were armed.                                                  *)
Expire(r) ==
    /\ r \in ToSet(timers)
    /\ r \notin ToSet(q.ready)
    /\ LET T == TimeoutOf[outOfOrder]
       IN  \A i, j \in 1 .. Len(timers) :
               i < j /\ timers[j] = r /\ timers[i] \notin ToSet(q.ready)
                   => T[timers[i]] > T[r]
    /\ q' = Post(q, <<r>>)
    /\ UNCHANGED <<outOfOrder, conn, retriesLeft, nextMsgId, isBatchTail, writer,
                   timers, wire, faults>>

ConnectSuccess ==
    /\ conn = "CONNECTING"
    /\ conn' = "UP"
    /\ retriesLeft' = MaxRetries
    /\ NewConnection
    /\ UNCHANGED <<outOfOrder, nextMsgId, q, isBatchTail, timers, faults>>
    /\ ScheduleNextWriterLoop

ConnectErr(error) ==
    /\ conn = "CONNECTING"
    /\ faults < MaxFaults
    /\ faults' = faults + 1
    /\ IF error = "connect_timeout" /\ retriesLeft > 0
       THEN /\ retriesLeft' = retriesLeft - 1
            /\ UNCHANGED <<conn, q>>
       ELSE /\ retriesLeft' = MaxRetries
            /\ conn' = "DOWN"
            /\ q' = FailAllPending(q, error)
    /\ UNCHANGED <<outOfOrder, nextMsgId, isBatchTail, writer, timers, wire>>

(* pushMessages, one batch of it: several batches of one call are several  *)
(* steps, as if the later requests had come a little later.                *)
PushMessages ==
    /\ writer
    /\ \E n \in 1 .. NumToSend(q) :
         /\ q' = MarkAsSending(q, n)
         /\ isBatchTail' = isBatchTail \cup {q.pending[n]}
         /\ unwritten' = unwritten \o SubSeq(q.pending, 1, n)
    /\ writer' = (NumToSend(q') > 0)
    /\ UNCHANGED <<outOfOrder, conn, retriesLeft, nextMsgId, timers, toServer,
                   fromServer, faults>>

(* Mutant: pending requests do not make the client connect again.          *)
ProcessShutdownStaysDown(c, error) ==
    LET failed == FailAllSent(c, error) IN
    /\ q' = failed
    /\ conn' = IF Inflight(failed) > 0 THEN "ERROR" ELSE "DOWN"
    /\ writer' = FALSE
    /\ NewConnection

(* processShutdown with the queue c: fail what waits for a reply; when no  *)
(* write is left, the client is down, and connects again for what is       *)
(* pending.                                                                *)
ProcessShutdown(c, error) ==
    LET failed == FailAllSent(c, error) IN
    /\ q' = failed
    /\ conn' = IF Inflight(failed) > 0 THEN "ERROR"
               ELSE IF failed.pending # <<>> THEN "CONNECTING" ELSE "DOWN"
    /\ writer' = FALSE
    /\ NewConnection

(* readEOF, readErr and parseError.                                        *)
ReadErr ==
    /\ conn = "UP"
    /\ faults < MaxFaults
    /\ faults' = faults + 1
    /\ ProcessShutdown(q, "remote_error")
    /\ UNCHANGED <<outOfOrder, retriesLeft, nextMsgId, isBatchTail, timers>>

Writing == q.replied \o q.write # <<>>

(* writeSuccess: the whole batch is on the wire; those of its requests     *)
(* that still wait for a reply get their timeout.                          *)
WriteSuccess ==
    /\ conn \in {"UP", "ERROR"}
    /\ Writing
    /\ LET rs == Batch(q, isBatchTail)
           c == MarkBatchAsSent(q, isBatchTail)
       IN  /\ timers' = timers \o
                SelectSeq(rs, LAMBDA r : c.state[r] = "PENDING_REPLY_QUEUE")
           /\ IF conn = "UP"
              THEN /\ q' = c
                   /\ unwritten' = SelectSeq(unwritten, LAMBDA r : r \notin ToSet(rs))
                   /\ toServer' = toServer \o
                        SelectSeq(unwritten, LAMBDA r : r \in ToSet(rs))
                   /\ UNCHANGED <<conn, writer, fromServer>>
              ELSE ProcessShutdown(c, "remote_error")
    /\ UNCHANGED <<outOfOrder, retriesLeft, nextMsgId, isBatchTail, faults>>

WriteErr ==
    /\ conn \in {"UP", "ERROR"}
    /\ Writing
    /\ conn = "UP" => faults < MaxFaults
    /\ faults' = IF conn = "UP" THEN faults + 1 ELSE faults
    /\ ProcessShutdown(MarkBatchAsSent(q, isBatchTail), "remote_error")
    /\ UNCHANGED <<outOfOrder, retriesLeft, nextMsgId, isBatchTail, timers>>

(* nextReplyAvailable and replyReady, for the next reply on the wire.      *)
ReplyReady ==
    /\ conn = "UP"
    /\ fromServer # <<>>
    /\ fromServer' = Tail(fromServer)
    /\ q' = IF outOfOrder THEN ReplyById(q, Head(fromServer))
            ELSE ReplyInOrder(q, Head(fromServer))
    /\ UNCHANGED <<outOfOrder, conn, retriesLeft, nextMsgId, isBatchTail, writer,
                   timers, unwritten, toServer, faults>>

(* closeNow: every write of the socket fails, then its read, or the        *)
(* connection attempt, each with processShutdown or connectErr under       *)
(* isAborting_.  Nothing is left outstanding; what was replied to keeps    *)
(* its reply.                                                              *)
CloseNow ==
    /\ conn # "DOWN"
    /\ faults < MaxFaults
    /\ faults' = faults + 1
    /\ LET rs == q.replied \o q.write
           done == SelectSeq(rs, LAMBDA r : q.reply[r] # NoReply)
           undone == q.pendingReply \o SelectSeq(rs, LAMBDA r : q.reply[r] = NoReply)
           c == SetStates(Post(q, done), ToSet(done), "COMPLETE")
       IN  q' = [FailRequests(c, undone \o q.pending, "aborted") EXCEPT
                   !.replied = <<>>, !.write = <<>>, !.pendingReply = <<>>,
                   !.pending = <<>>, !.timedOut = 0]
    /\ conn' = "DOWN"
    /\ retriesLeft' = IF conn = "CONNECTING" THEN MaxRetries ELSE retriesLeft
    /\ writer' = FALSE
    /\ NewConnection
    /\ UNCHANGED <<outOfOrder, nextMsgId, isBatchTail, timers>>

-----------------------------------------------------------------------------
(* The socket and the server.                                              *)

(* A part of a batch reaches the wire before its write ends.               *)
PartialWrite ==
    /\ conn = "UP"
    /\ unwritten # <<>>
    /\ Head(unwritten) \notin isBatchTail
    /\ unwritten' = Tail(unwritten)
    /\ toServer' = Append(toServer, Head(unwritten))
    /\ UNCHANGED <<outOfOrder, conn, retriesLeft, nextMsgId, q, isBatchTail,
                   writer, timers, fromServer, faults>>

(* The server replies, in the order of the requests if the protocol does.  *)
Serve ==
    /\ conn = "UP"
    /\ \E i \in 1 .. Len(toServer) :
         /\ outOfOrder \/ i = 1
         /\ toServer' = RemoveAt(toServer, i)
         /\ fromServer' = Append(fromServer, toServer[i])
    /\ UNCHANGED <<outOfOrder, conn, retriesLeft, nextMsgId, q, isBatchTail,
                   writer, timers, unwritten, faults>>

Next ==
    \/ SendSync
    \/ Resume
    \/ \E r \in Req : Expire(r)
    \/ ConnectSuccess
    \/ \E error \in {"connect_timeout", "connect_error"} : ConnectErr(error)
    \/ PushMessages
    \/ ReadErr
    \/ WriteSuccess
    \/ WriteErr
    \/ ReplyReady
    \/ CloseNow
    \/ PartialWrite
    \/ Serve

Spec == Init /\ [][Next]_vars

(* The event base runs what is scheduled and fires its timers; a socket    *)
(* ends its writes and its connection attempts.  The writer loop that      *)
(* connectSuccess schedules runs before the socket is read again, so a     *)
(* connection lost again and again does not keep it from running.  Nothing *)
(* is asked of the server.                                                 *)
Fairness ==
    /\ WF_vars(Resume)
    /\ WF_vars(\E r \in Req : Expire(r))
    /\ WF_vars(ConnectSuccess \/ ConnectErr("connect_error"))
    /\ SF_vars(PushMessages)
    /\ WF_vars(WriteSuccess \/ WriteErr)

FairSpec == Spec /\ Fairness

-----------------------------------------------------------------------------
(* Properties.                                                             *)

(* Every variable has the type its comment gives it.                       *)
TypeOK ==
    /\ outOfOrder \in BOOLEAN
    /\ conn \in {"DOWN", "CONNECTING", "UP", "ERROR"}
    /\ retriesLeft \in 0 .. MaxRetries
    /\ nextMsgId \in 1 .. (MaxMsgId + 1)
    /\ \A f \in {q.pending, q.write, q.pendingReply, q.replied, q.ready,
                  timers, unwritten, toServer, fromServer} :
            f \in Seq(Req) /\ IsInjective(f)
    /\ q.timedOut \in 0 .. MaxMsgId
    /\ q.state \in [Req -> ReqStates]
    /\ \A r \in Req :
            q.reply[r] \in {NoReply} \cup {ReplyTo(p) : p \in Req}
                                   \cup {Error(e) : e \in Errors}
    /\ isBatchTail \subseteq Req
    /\ writer \in BOOLEAN
    /\ faults \in 0 .. MaxFaults

(* The reply a fiber is given is the one to its own request, whatever      *)
(* timed out, was written in parts, failed or was sent again in between.   *)
OwnReply ==
    \A r, p \in Req : q.reply[r] = ReplyTo(p) => p = r

(* A request is in the queue its state says and in no other, which is what *)
(* the asserts of the queue rely on.  A request replied to while it is     *)
(* being written stays in the write queue if replies come in any order.    *)
StatesMatchQueues ==
    \A r \in Req :
        /\ r \in ToSet(q.pending) <=> q.state[r] = "PENDING_QUEUE"
        /\ r \in ToSet(q.pendingReply) <=> q.state[r] = "PENDING_REPLY_QUEUE"
        /\ r \in ToSet(q.replied) <=> q.state[r] = "REPLIED_QUEUE"
        /\ q.state[r] = "WRITE_QUEUE" => r \in ToSet(q.write)
        /\ r \in ToSet(q.write) =>
              \/ q.state[r] = "WRITE_QUEUE"
              \/ outOfOrder /\ q.state[r] = "COMPLETE"

(* A client without a connection has nothing in flight and expects no      *)
(* reply: what connectSuccess, connectErr and failAllPending assert.       *)
DisconnectedIsClean ==
    conn \in {"DOWN", "CONNECTING"} => Inflight(q) = 0 /\ q.timedOut = 0

(* A fiber resumes in waitForReply only with its reply, or timed out while *)
(* it waits for one; the other cases of the switch are never taken.        *)
ResumesLegally ==
    \A i \in 1 .. Len(q.ready) :
        q.state[q.ready[i]] \in {"COMPLETE", "PENDING_REPLY_QUEUE"}

(* The limits of setThrottle hold through reconnects, timeouts and replies *)
(* that overtake the end of their write.                                   *)
Throttled ==
    /\ MaxInflight # 0 => Inflight(q) <= MaxInflight
    /\ MaxPending # 0 => Len(q.pending) <= MaxPending

(* The queues are consistent through every interleaving of writes,         *)
(* replies, timeouts, failures and closes: everything that the asserts of  *)
(* the queue and of the client's callbacks take for granted, and within    *)
(* the limits of setThrottle.                                              *)
QueuesConsistent ==
    TypeOK /\ StatesMatchQueues /\ DisconnectedIsClean /\ ResumesLegally /\ Throttled

(* No wakeup of the writer is lost: when there is something to send on an  *)
(* open connection, the writer loop is scheduled, or a fiber is about to   *)
(* resume and will schedule it; and it never runs without a connection, as *)
(* pushMessages asserts, or for nothing.                                   *)
WriterScheduled ==
    /\ writer => conn = "UP" /\ NumToSend(q) > 0
    /\ conn = "UP" /\ NumToSend(q) > 0 => writer \/ q.ready # <<>>

(* Every call of sendSync returns.                                         *)
AllReturn ==
    \A r \in Req : (nextMsgId > r) ~> (q.state[r] = "RETURNED")

(* With a protocol that replies in order, the request that times out is    *)
(* the oldest of those waiting for a reply (removePendingReply).           *)
OldestTimesOut ==
    [][\A r \in Req :
          ~outOfOrder /\ q.state[r] = "PENDING_REPLY_QUEUE"
              /\ q'.reply[r] = Error("timeout")
            => Head(q.pendingReply) = r]_vars
=============================================================================
