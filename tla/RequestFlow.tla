---------------------------- MODULE RequestFlow ----------------------------
(***************************************************************************)
(* The way of a request through mcrouter, from CarbonRouterClient::send on *)
(* the user's threads over the proxy's message queue to Proxy's throttling *)
(* and back to the user's callback.                                        *)
(*                                                                         *)
(* User threads share one client.  Depending on how it was created its     *)
(* semaphore (module CountingSem, whose steps are taken here one by one)   *)
(* makes them wait, makes send fail the rest of a batch, or is not used.   *)
(* The proxy thread dispatches, throttles (waitingRequests_), times        *)
(* waiting requests out, replies, destroys contexts and posts the          *)
(* semaphore.  The message queue itself is verified in MessageQueue; here  *)
(* it is a sequence.  What the routes do with a request (ProxyRoute and    *)
(* below) is one nondeterministic answer.                                  *)
(***************************************************************************)
EXTENDS CountingSem, Sequences, FiniteSets

CONSTANTS User,             \* the threads that call send, one batch each
          ProxyThread,      \* the proxy's thread
          BatchSize,        \* BatchSize[u]: requests in the batch of u
          Kind,             \* Kind[r]: "plain", "stats" (not rate limited),
                            \* "info" (answered at once) or "bad" (precheck)
          Priority,         \* Priority[r]: 0 critical (what this client passes)
                            \* or 1 asynchronous (other callers' choice)
          MaxInflight,      \* proxy_max_inflight_requests, 0 for no limit
          MaxThrottled,     \* proxy_max_throttled_requests, 0 for no limit
          WaitingTimeout    \* waiting_request_timeout_ms > 0

Req == DOMAIN Kind
Prio == 0 .. 1
None == "none"

ASSUME FlowAssumption ==
  /\ Thread = User \cup {ProxyThread}
  /\ ProxyThread \notin User
  /\ BatchSize \in [User -> 1 .. 8]
  /\ DOMAIN Kind = {<<u, k>> \in User \X (1 .. 8) : k <= BatchSize[u]}
  /\ Priority \in [DOMAIN Kind -> Prio]
  /\ MaxInflight \in Nat /\ MaxThrottled \in Nat
  /\ WaitingTimeout \in BOOLEAN

VARIABLES mode,         \* how the client was created: "wait", "error" or "free"
                        \* (maxOutstanding 0) on other threads than the
                        \* proxy's, or "same" (error mode on the proxy thread)
          disconnected, \* the user dropped the client (disconnected_)
          upc,          \* upc[u]: "idle", "sending", "done" or "refused"
          next,         \* next[u]: requests of u's batch sent so far
          granted,      \* granted[u]: requests of the batch let through
          inbox,        \* REQUEST messages in the proxy's message queue
          stage,        \* stage[r]: how far the context of r has come
          answer,       \* answer[r]: the result given to the callback
          calls,        \* calls[r]: how often the callback of r has run
          waiting,      \* waiting[p]: waitingRequests_ of priority p
          numWaiting,   \* numRequestsWaiting_
          numProcessing,\* numRequestsProcessing_
          phase,        \* what the proxy thread does: "loop" or "pump"
          dtors,        \* destructors of contexts that wait for pump to return
          posts,        \* posts that the proxy thread must do before going on
          down          \* the proxy is destroyed (beingDestroyed_, drained)

clientVars == <<mode, disconnected, upc, next, granted>>
proxyVars == <<inbox, stage, answer, calls, waiting, numWaiting,
               numProcessing, phase, dtors, posts, down>>
vars == <<semVars, clientVars, proxyVars>>

Stages == {"none", "queued", "waiting", "routing", "replied", "gone"}
Answers == {None, "routed", "busy", "local_error", "unknown"}

TypeOK ==
  /\ SemTypeOK
  /\ mode \in {"wait", "error", "free", "same"}
  /\ disconnected \in BOOLEAN
  /\ upc \in [User -> {"idle", "sending", "done", "refused"}]
  /\ \A u \in User : next[u] <= granted[u] /\ granted[u] <= BatchSize[u]
  /\ inbox \in Seq(Req)
  /\ stage \in [Req -> Stages]
  /\ answer \in [Req -> Answers]
  /\ calls \in [Req -> 0 .. 1]
  /\ waiting \in [Prio -> Seq(Req)]
  /\ numWaiting = Len(waiting[0]) + Len(waiting[1])
  /\ numProcessing = Cardinality({r \in Req : stage[r] = "routing"})
                   + Cardinality({r \in Req : stage[r] = "replied"})
  /\ phase \in {"loop", "pump"}
  /\ dtors \in Nat /\ posts \in Nat
  /\ down \in BOOLEAN

Init ==
  /\ counting_sem_init
  /\ mode \in {"wait", "error", "free", "same"}
  /\ disconnected = FALSE
  /\ upc = [u \in User |-> "idle"]
  /\ next = [u \in User |-> 0]
  /\ granted = [u \in User |-> 0]
  /\ inbox = <<>>
  /\ stage = [r \in Req |-> "none"]
  /\ answer = [r \in Req |-> None]
  /\ calls = [r \in Req |-> 0]
  /\ waiting = [p \in Prio |-> <<>>]
  /\ numWaiting = 0
  /\ numProcessing = 0
  /\ phase = "loop"
  /\ dtors = 0
  /\ posts = 0
  /\ down = FALSE

-----------------------------------------------------------------------------
\* The proxy thread is at its event loop: not in pump, owing no post, and not
\* running a same-thread client's send.
ProxyIdle ==
  /\ phase = "loop" /\ posts = 0 /\ At(ProxyThread, "out")
  /\ ~ \E u \in User : mode = "same" /\ upc[u] = "sending"

\* Thread u may go on with its send; a same-thread client runs on the proxy's
\* thread.
MayRun(u) ==
  mode = "same" =>
    /\ phase = "loop" /\ posts = 0 /\ At(ProxyThread, "out")
    /\ \A v \in User \ {u} : upc[v] /= "sending"

\* The posts of n destroyed contexts: none if maxOutstanding is 0.
Owed(n) == IF mode = "free" THEN 0 ELSE n

\* The callback made by send hides the result once the user has disconnected.
Delivered(res) == IF disconnected THEN "unknown" ELSE res

\* sendReply: the callback runs and replied_ is set.
SendReply(r, res) ==
  /\ answer' = [answer EXCEPT ![r] = Delivered(res)]
  /\ calls' = [calls EXCEPT ![r] = @ + 1]

\* Mutant: the context of a request that was never processed is not counted
\* back.
ReplyAndForget(r, res) ==
  /\ SendReply(r, res)
  /\ stage' = [stage EXCEPT ![r] = "gone"]
  /\ UNCHANGED <<numProcessing, phase, dtors, posts>>

\* A context that is not processing is replied and destroyed.
ReplyAndDrop(r, res) ==
  /\ SendReply(r, res)
  /\ stage' = [stage EXCEPT ![r] = "gone"]
  /\ posts' = Owed(1)
  /\ UNCHANGED <<numProcessing, phase, dtors>>

\* Proxy::processRequest and routeHandlesProcessRequest.  A plain request
\* becomes a fiber; the others are replied at once and their contexts
\* destroyed, which counts them out again and calls pump.
ProcessRequest(r) ==
  \/ /\ Kind[r] = "plain"
     /\ stage' = [stage EXCEPT ![r] = "routing"]
     /\ numProcessing' = numProcessing + 1
     /\ UNCHANGED <<answer, calls, phase, dtors, posts>>
  \/ /\ Kind[r] \in {"stats", "info"}
     /\ SendReply(r, "routed")
     /\ stage' = [stage EXCEPT ![r] = "gone"]
     /\ phase' = "pump"
     /\ dtors' = dtors + 1
     /\ UNCHANGED <<numProcessing, posts>>

\* Proxy::rateLimited.
RateLimited(r) ==
  /\ Kind[r] /= "stats"
  /\ MaxInflight /= 0
  /\ waiting[Priority[r]] /= <<>> \/ numProcessing >= MaxInflight

\* Mutant: the newest waiting request comes first.
PushFront(queue, r) == <<r>> \o queue

\* A request joins waitingRequests_ of its priority (pushBack).
PushBack(queue, r) == Append(queue, r)

\* Proxy::dispatchRequest.
DispatchRequest(r) ==
  \/ /\ RateLimited(r)
     /\ MaxThrottled > 0 /\ numWaiting >= MaxThrottled
     /\ ReplyAndDrop(r, "busy")
     /\ UNCHANGED <<waiting, numWaiting>>
  \/ /\ RateLimited(r)
     /\ ~(MaxThrottled > 0 /\ numWaiting >= MaxThrottled)
     /\ waiting' = [waiting EXCEPT ![Priority[r]] = PushBack(@, r)]
     /\ numWaiting' = numWaiting + 1
     /\ stage' = [stage EXCEPT ![r] = "waiting"]
     /\ UNCHANGED <<answer, calls, numProcessing, phase, dtors, posts>>
  \/ /\ ~RateLimited(r)
     /\ ProcessRequest(r)
     /\ UNCHANGED <<waiting, numWaiting>>

\* ProxyRequestContextTyped::startProcessing.
StartProcessing(r) ==
  \/ /\ Kind[r] = "bad"
     /\ ReplyAndDrop(r, "local_error")
     /\ UNCHANGED <<waiting, numWaiting>>
  \/ /\ Kind[r] /= "bad" /\ down
     /\ ReplyAndDrop(r, "unknown")
     /\ UNCHANGED <<waiting, numWaiting>>
  \/ /\ Kind[r] /= "bad" /\ ~down
     /\ DispatchRequest(r)

-----------------------------------------------------------------------------
\* send is called: it returns false when the router is gone; a client without
\* a limit lets the whole batch through.
SendBegin(u) ==
  /\ upc[u] = "idle" /\ ~disconnected /\ MayRun(u)
  /\ upc' = [upc EXCEPT ![u] = IF down THEN "refused" ELSE "sending"]
  /\ granted' = [granted EXCEPT ![u] =
                   IF ~down /\ mode = "free" THEN BatchSize[u] ELSE 0]
  /\ UNCHANGED <<mode, disconnected, next, semVars, proxyVars>>

\* sendMultiImpl asks the semaphore for the rest of the batch.
Acquire(u) ==
  /\ upc[u] = "sending" /\ mode /= "free" /\ MayRun(u)
  /\ next[u] = granted[u] /\ granted[u] < BatchSize[u]
  /\ LazyCall(u, BatchSize[u] - granted[u], mode /= "wait")
  /\ UNCHANGED <<clientVars, proxyVars>>

\* Mutant: the last request sent counts as remaining too.
RestAndLast(u) == {r \in Req : r[1] = u /\ r[2] >= next[u]}

\* The rest of u's batch, the requests that failRemaining answers.
Rest(u) == {r \in Req : r[1] = u /\ r[2] > next[u]}

\* Mutant: a send that got nothing tries again instead of failing the rest.
AcquiredOrRetry(u) ==
  /\ upc[u] = "sending" /\ MayRun(u)
  /\ SemReturn(u)
  /\ granted' = [granted EXCEPT ![u] = @ + got[u]]
  /\ UNCHANGED <<mode, disconnected, upc, next, proxyVars>>

\* The semaphore call returns; nothing granted fails the remaining requests.
Acquired(u) ==
  /\ upc[u] = "sending" /\ MayRun(u)
  /\ SemReturn(u)
  /\ granted' = [granted EXCEPT ![u] = @ + got[u]]
  /\ \/ /\ got[u] > 0
        /\ UNCHANGED <<upc, answer, calls>>
     \/ /\ got[u] = 0
        /\ upc' = [upc EXCEPT ![u] = "done"]
        /\ answer' = [r \in Req |-> IF r \in Rest(u) THEN "local_error" ELSE answer[r]]
        /\ calls' = [r \in Req |-> IF r \in Rest(u) THEN calls[r] + 1 ELSE calls[r]]
  /\ UNCHANGED <<mode, disconnected, next, inbox, stage, waiting, numWaiting,
                 numProcessing, phase, dtors, posts, down>>

\* sendRemoteThread or sendSameThread of the next request.
SendOne(u) ==
  /\ upc[u] = "sending" /\ next[u] < granted[u] /\ MayRun(u)
  /\ next' = [next EXCEPT ![u] = @ + 1]
  /\ upc' = [upc EXCEPT ![u] = IF next[u] + 1 = BatchSize[u] THEN "done" ELSE @]
  /\ LET r == <<u, next[u] + 1>> IN
       \/ /\ mode = "same"
          /\ StartProcessing(r)
          /\ UNCHANGED <<inbox, down>>
       \/ /\ mode /= "same"
          /\ inbox' = Append(inbox, r)
          /\ stage' = [stage EXCEPT ![r] = "queued"]
          /\ UNCHANGED <<answer, calls, waiting, numWaiting, numProcessing,
                         phase, dtors, posts, down>>
  /\ UNCHANGED <<mode, disconnected, granted, semVars>>

\* The user lets go of the client (Disconnecter), which nobody sends on.
Disconnect ==
  /\ ~disconnected
  /\ \A u \in User : upc[u] /= "sending"
  /\ disconnected' = TRUE
  /\ UNCHANGED <<mode, upc, next, granted, semVars, proxyVars>>

-----------------------------------------------------------------------------
\* messageReady for a REQUEST message.
MessageReady ==
  /\ ProxyIdle /\ inbox /= <<>>
  /\ inbox' = Tail(inbox)
  /\ StartProcessing(Head(inbox))
  /\ UNCHANGED <<down, semVars, clientVars>>

\* The fiber of r finishes: the reply goes to the callback, but other fibers
\* may still hold the context.
RouteReply(r) ==
  /\ ProxyIdle /\ stage[r] = "routing"
  /\ stage' = [stage EXCEPT ![r] = "replied"]
  /\ SendReply(r, "routed")
  /\ UNCHANGED <<inbox, waiting, numWaiting, numProcessing, phase, dtors,
                 posts, down, semVars, clientVars>>

\* Mutant: a context that is destroyed does not call pump.
ContextDestroyedQuietly(r) ==
  /\ ProxyIdle /\ stage[r] = "replied"
  /\ stage' = [stage EXCEPT ![r] = "gone"]
  /\ numProcessing' = numProcessing - 1
  /\ posts' = Owed(1)
  /\ UNCHANGED <<inbox, answer, calls, waiting, numWaiting, phase, dtors, down,
                 semVars, clientVars>>

\* The last holder of the context lets go: ~ProxyRequestContext up to pump.
ContextDestroyed(r) ==
  /\ ProxyIdle /\ stage[r] = "replied"
  /\ stage' = [stage EXCEPT ![r] = "gone"]
  /\ numProcessing' = numProcessing - 1
  /\ phase' = "pump"
  /\ dtors' = dtors + 1
  /\ UNCHANGED <<inbox, answer, calls, waiting, numWaiting, posts, down,
                 semVars, clientVars>>

\* The priorities pump can take a request from.
Pumpable == {p \in Prio : waiting[p] /= <<>> /\ numProcessing < MaxInflight}

\* One turn of pump's loops: the most urgent waiting request is popped and
\* processed, or answered busy when it waited too long.
PumpOne ==
  /\ phase = "pump" /\ posts = 0 /\ At(ProxyThread, "out")
  /\ \E p \in Pumpable :
       /\ \A q \in Pumpable : p <= q
       /\ numWaiting' = numWaiting - 1
       /\ waiting' = [waiting EXCEPT ![p] = Tail(@)]
       /\ \/ ProcessRequest(Head(waiting[p]))
          \/ /\ WaitingTimeout /\ MaxThrottled > 0
             /\ ReplyAndDrop(Head(waiting[p]), "busy")
  /\ UNCHANGED <<inbox, down, semVars, clientVars>>

\* pump returns; the destructors that called it post the semaphore.
PumpDone ==
  /\ phase = "pump" /\ posts = 0 /\ At(ProxyThread, "out")
  /\ Pumpable = {}
  /\ phase' = "loop"
  /\ posts' = Owed(dtors)
  /\ dtors' = 0
  /\ UNCHANGED <<inbox, stage, answer, calls, waiting, numWaiting,
                 numProcessing, down, semVars, clientVars>>

\* counting_sem_post(outstandingReqsSem, 1), begun and finished.
PostBegin ==
  /\ posts > 0
  /\ PostCall(ProxyThread, 1)
  /\ UNCHANGED <<clientVars, proxyVars>>

PostEnd ==
  /\ SemReturn(ProxyThread)
  /\ posts' = posts - 1
  /\ UNCHANGED <<inbox, stage, answer, calls, waiting, numWaiting,
                 numProcessing, phase, dtors, down, clientVars>>

\* ~Proxy: no send holds the router and no fiber keeps the event base alive.
\* The messages still queued are drained by MessageReady with down set.
Shutdown ==
  /\ ProxyIdle /\ ~down /\ numProcessing = 0
  /\ \A u \in User : upc[u] /= "sending"
  /\ down' = TRUE
  /\ UNCHANGED <<inbox, stage, answer, calls, waiting, numWaiting,
                 numProcessing, phase, dtors, posts, semVars, clientVars>>

ThreadStep(t) ==
  /\ t \in User => MayRun(t)
  /\ SemStep(t) \/ SpuriousWake(t)
  /\ UNCHANGED <<clientVars, proxyVars>>

UserStep(u) == SendBegin(u) \/ Acquire(u) \/ Acquired(u) \/ SendOne(u)

ProxyStep ==
  \/ MessageReady \/ PumpOne \/ PumpDone \/ PostBegin \/ PostEnd
  \/ \E r \in Req : RouteReply(r) \/ ContextDestroyed(r)

Next ==
  \/ \E u \in User : UserStep(u)
  \/ \E t \in Thread : ThreadStep(t)
  \/ ProxyStep
  \/ Disconnect
  \/ Shutdown

\* Every thread keeps running, the proxy handles every event it has, and the
\* routes answer every request (replies and timeouts see to that).
Fairness ==
  /\ \A u \in User : WF_vars(Acquire(u) \/ Acquired(u) \/ SendOne(u))
  /\ \A t \in Thread : WF_vars((t \in User => MayRun(t)) /\ SemStep(t) /\ UNCHANGED <<clientVars, proxyVars>>)
  /\ WF_vars(MessageReady) /\ WF_vars(PumpOne) /\ WF_vars(PumpDone)
  /\ WF_vars(PostBegin) /\ WF_vars(PostEnd)
  /\ \A r \in Req : WF_vars(RouteReply(r)) /\ WF_vars(ContextDestroyed(r))

Spec == Init /\ [][Next]_vars /\ Fairness

-----------------------------------------------------------------------------
\* Whether the context of r exists and has not been counted back yet.
Live(r) == stage[r] \in {"queued", "waiting", "routing", "replied"}

\* Permits a thread has taken and not turned into contexts yet.
InHand(u) == granted[u] - next[u] + IF spc[u] \in {"handoff", "ret"} THEN got[u] ELSE 0

\* The proxy has posted the permit that it still is in the call for.
Posted == IF spc[ProxyThread] \in {"wake", "ret"} THEN 1 ELSE 0

SumOver(f) == LET S[X \in SUBSET User] ==
                IF X = {} THEN 0
                ELSE LET u == CHOOSE u \in X : TRUE IN f[u] + S[X \ {u}]
              IN S[User]

\* The semaphore counts exactly: what it holds, what threads have taken, the
\* live contexts and the posts under way always add up to maxOutstanding.
\* No path through the proxy (busy, bad key, timeout, shutdown) leaks or
\* returns a permit twice, so the client's limit neither shrinks nor grows.
\* The proxy's own counts, of waiting and of processing requests, are exact too
\* (TypeOK).
PermitsConserved ==
  /\ TypeOK
  /\ mode /= "free" =>
       Larger(cnt, 0) + SumOver([u \in User |-> InHand(u)])
         + Cardinality({r \in Req : Live(r)}) + dtors + posts - Posted
       = InitialValue

\* While the proxy is at its loop, requests wait only if the limit is
\* reached: every slot that becomes free is given to a waiting request by
\* pump, so ~Proxy, which runs when nothing is processed, never destroys a
\* waiting context unanswered.
NoIdleSlot ==
  phase = "loop" /\ numWaiting > 0 => numProcessing >= MaxInflight

\* The requests of one batch that have the same priority start processing in
\* the order in which they were sent, whichever of them had to wait.
RoutedInOrder ==
  [][\A r \in Req :
       stage[r] # "routing" /\ stage'[r] = "routing" =>
         \A s \in Req :
           s[1] = r[1] /\ s[2] < r[2] /\ Priority[s] = Priority[r] =>
             stage[s] \in {"routing", "replied", "gone"}]_vars

\* The callback of a request runs exactly once: when its context is replied
\* or when send fails it; never for a request that is still under way.
AnsweredOnce ==
  \A r \in Req :
    calls[r] = IF \/ stage[r] \in {"replied", "gone"}
                  \/ /\ stage[r] = "none"
                     /\ upc[r[1]] = "done"
               THEN 1 ELSE 0

\* Every send returns, and the callbacks of its whole batch have run or run
\* later: no thread stays asleep on the semaphore and no request is forgotten
\* in a queue.
EverySendAnswered ==
  \A u \in User :
    upc[u] = "sending" ~> /\ upc[u] = "done"
                          /\ \A r \in Req : r[1] = u => calls[r] = 1
=============================================================================
