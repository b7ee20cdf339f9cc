---------------------------- MODULE LeaseRoute -----------------------------
(***************************************************************************)
(* A FailoverRoute with lease pairing over destinations that are each      *)
(* behind an OutstandingLimitRoute, and the LeaseTokenMap the proxies       *)
(* share.  A lease-get that failed over comes back with a token of mcrouter's*)
(* own; the lease-set that brings this token has to find its way to the    *)
(* destination that gave the lease.                                        *)
(*                                                                         *)
(* A fiber sends one get, or a lease-get and then lease-sets with the token*)
(* it was given.  Fibers switch where they wait: for a slot of the limit and for  *)
(* the reply of a destination.  A reconfiguration may replace the route by *)
(* one with fewer targets; fibers inside the old one finish there.         *)
(*                                                                         *)
(* Of a lease token the model keeps the magic of the special tokens and    *)
(* the low half of the bits.                                               *)
(***************************************************************************)
EXTENDS Integers, Sequences, FiniteSets, SequencesExt

CONSTANTS Fiber,
          SenderOf,        \* SenderOf[f]: the sender id; 0 means none
          Workload,        \* who sends what: fibers with a lease-get, fibers
                           \* with a plain get, and the policy (least or not)
          MaxTries,        \* max_tries of the least failures policy
          Width,           \* Width[g]: targets of the g-th configured route
          MaxOutstanding,  \* maxOutstanding_ of every target's limit
          ServerToken,     \* the tokens a server gives out
          MaxSets          \* bound: lease-sets a client sends with one token

Gen == 1 .. Len(Width)
Target == 0 .. Width[1] - 1
Sender == {SenderOf[f] : f \in Fiber}
NoToken == [magic |-> FALSE, id |-> 0]

ASSUME LeaseAssumption ==
  /\ \A g \in Gen : Width[g] \in 2 .. Width[1]
  /\ MaxOutstanding > 0
  /\ MaxTries \in 2 .. Width[Len(Width)]
  /\ NoToken \notin ServerToken
  /\ \A w \in Workload : w.leasing \cup w.plain \subseteq Fiber

VARIABLES least,    \* the policy is least failures, not in order
          live,     \* the configured route, an index into Width
          errs,     \* errs[g][i]: recentErrorCount_ of target i
          limit,    \* limit[g][i]: outstanding_ and blockedRequests_
          fiber,    \* fiber[f]: where f is
          data,     \* data_ of the map: special token id -> lease
          expiry,   \* invalidationQueue_: ids, oldest first
          nextId,   \* nextId_
          granted,  \* history: the lease f was given, <<target, token>>
          reached,  \* history: where f's lease-sets were sent, in order
          lost,     \* history: ids that were cleaned up
          passed    \* history: turns others got since f heads its entry

vars == <<least, live, errs, limit, fiber, data, expiry, nextId, granted, reached,
          lost, passed>>

NoLease == <<>>

Init ==
  /\ live = 1
  /\ errs = [g \in Gen |-> [i \in Target |-> 0]]
  /\ limit = [g \in Gen |-> [i \in Target |-> [outstanding |-> 0, blocked |-> <<>>]]]
  /\ \E w \in Workload :
       /\ least = w.least
       /\ fiber = [f \in Fiber |->
                    [pc |-> IF f \in w.leasing \cup w.plain THEN "idle" ELSE "done",
                     op |-> IF f \in w.leasing THEN "leaseGet" ELSE "get",
                     gen |-> 1, path |-> <<0>>, pos |-> 1, token |-> NoToken]]
  /\ data = <<>> /\ expiry = <<>> /\ nextId = 0
  /\ granted = [f \in Fiber |-> NoLease]
  /\ reached = [f \in Fiber |-> <<>>]
  /\ lost = {}
  /\ passed = [f \in Fiber |-> [s \in Sender |-> 0]]

-----------------------------------------------------------------------------
(* OutstandingLimitRoute.                                                  *)

\* The queue entry f joins: its sender's, or a new one at the end.
Joins(q, f) == {n \in DOMAIN q : SenderOf[f] /= 0 /\ q[n].sender = SenderOf[f]}

\* Fiber f arrives: a slot is free, or f waits in the entry of its sender.
Entered(l, f) ==
  IF l.outstanding < MaxOutstanding
  THEN [l EXCEPT !.outstanding = @ + 1]
  ELSE IF Joins(l.blocked, f) = {}
       THEN [l EXCEPT !.blocked = Append(@, [sender |-> SenderOf[f], batons |-> <<f>>])]
       ELSE [l EXCEPT !.blocked =
               [n \in DOMAIN @ |->
                  IF n \in Joins(@, f) THEN [@[n] EXCEPT !.batons = Append(@, f)]
                                       ELSE @[n]]]

PcAfter(l) == IF l.outstanding < MaxOutstanding THEN "sent" ELSE "blocked"

\* The fiber that inherits the slot of one that leaves.
Woken(l) == IF l.blocked = <<>> THEN {} ELSE {Head(Head(l.blocked).batons)}

\* Mutant: the sender just served stays at the front.
RotatedFront(q) ==
  LET e == [Head(q) EXCEPT !.batons = Tail(@)]
  IN IF e.batons = <<>> THEN Tail(q) ELSE <<e>> \o Tail(q)

\* One baton of the first entry is posted; the rest of it goes to the back.
Rotated(q) ==
  LET e == [Head(q) EXCEPT !.batons = Tail(@)]
  IN IF e.batons = <<>> THEN Tail(q) ELSE Append(Tail(q), e)

\* Mutant: the slot is given back and handed over.
LeftTwice(l) ==
  IF l.blocked = <<>>
  THEN [l EXCEPT !.outstanding = @ - 1]
  ELSE [outstanding |-> l.outstanding - 1, blocked |-> Rotated(l.blocked)]

\* A fiber leaves: its slot goes to a blocked request, or becomes free.
Left(l) ==
  IF l.blocked = <<>>
  THEN [l EXCEPT !.outstanding = @ - 1]
  ELSE [l EXCEPT !.blocked = Rotated(@)]

Heads(l) == {Head(l.blocked[n].batons) : n \in DOMAIN l.blocked}

\* The turns seen by those who head an entry, before and after a slot of l
\* was handed over.
PassedAfter(l) ==
  [f \in Fiber |->
     IF f \in Heads(l) /\ f \notin Woken(l)
     THEN [s \in Sender |-> IF \E w \in Woken(l) : SenderOf[w] = s
                            THEN passed[f][s] + 1 ELSE passed[f][s]]
     ELSE IF f \in Heads(Left(l)) \/ f \in Woken(l)
          THEN [s \in Sender |-> 0]
          ELSE passed[f]]

-----------------------------------------------------------------------------
(* FailoverRoute.                                                          *)

\* getLeastFailureRouteIndices, or all targets in order.
Path(g, e) ==
  IF least
  THEN <<0>> \o SubSeq(SetToSortSeq(1 .. Width[g] - 1,
                         LAMBDA a, b : e[a] < e[b] \/ (e[a] = e[b] /\ a < b)),
                       1, MaxTries - 1)
  ELSE [n \in 1 .. Width[g] |-> n - 1]

At(f) == fiber[f].path[fiber[f].pos]

\* f is given the slot of, or a place in the queue of, target i of its route.
Route(f, op, g, path, pos, token) ==
  /\ fiber' = [fiber EXCEPT ![f] = [pc |-> PcAfter(limit[g][path[pos]]), op |-> op,
                                    gen |-> g, path |-> path, pos |-> pos,
                                    token |-> token]]
  /\ limit' = [limit EXCEPT ![g][path[pos]] = Entered(@, f)]

\* A get or a lease-get arrives at the configured route.
Get(f) ==
  /\ fiber[f].pc = "idle"
  /\ Route(f, fiber[f].op, live, <<0>>, 1, NoToken)
  /\ UNCHANGED <<least, live, errs, data, expiry, nextId, granted, reached, lost, passed>>

\* What f's departure from its target does to the others.
Leaves(f, state) ==
  LET g == fiber[f].gen
      l == limit[g][At(f)]
  IN /\ limit' = [limit EXCEPT ![g][At(f)] = Left(@)]
     /\ passed' = PassedAfter(l)
     /\ fiber' = [x \in Fiber |-> IF x = f THEN state
                                  ELSE IF x \in Woken(l) THEN [fiber[x] EXCEPT !.pc = "sent"]
                                  ELSE fiber[x]]

\* ChildProxy::route counts the errors of the least failures policy.
Counted(f, isError) ==
  errs' = [errs EXCEPT ![fiber[f].gen][At(f)] =
             IF ~least THEN @ ELSE IF isError THEN @ + 1 ELSE 0]


\* The index of the child that generated the reply: getTrueIndex.
ChildIndex(f) == At(f)

\* Whether the token has to be replaced by a special one.
Pairs(f, token) == ChildIndex(f) > 0 \/ token.magic

\* The server at f's target gives a lease; insert hands out a special token.
LeaseGranted(f, token) ==
  /\ fiber[f].pc = "sent" /\ fiber[f].op = "leaseGet"
  /\ Counted(f, FALSE)
  /\ granted' = [granted EXCEPT ![f] = <<At(f), token>>]
  /\ \/ /\ ~Pairs(f, token)
        /\ Leaves(f, [fiber[f] EXCEPT !.pc = "held", !.token = token])
        /\ UNCHANGED <<data, expiry, nextId>>
     \/ /\ Pairs(f, token)
        /\ Leaves(f, [fiber[f] EXCEPT !.pc = "held",
                        !.token = [magic |-> TRUE, id |-> nextId]])
        /\ data' = [n \in DOMAIN data \cup {nextId} |->
                      IF n = nextId
                      THEN [token |-> token, child |-> ChildIndex(f)] ELSE data[n]]
        /\ expiry' = Append(expiry, nextId)
        /\ nextId' = nextId + 1
  /\ UNCHANGED <<least, live, reached, lost>>

\* A reply without a lease that does not fail over goes back to the client: a
\* hit, or an error that is not one of the failover errors.
Answered(f, isError) ==
  /\ fiber[f].pc = "sent" /\ fiber[f].op /= "set"
  /\ Counted(f, isError)
  /\ Leaves(f, [fiber[f] EXCEPT !.pc = "done"])
  /\ UNCHANGED <<least, live, data, expiry, nextId, granted, reached, lost>>

\* A failover error, and nobody to fail over to: the targets are used up, the
\* request may not fail over, or the rate limiter refuses.
Exhausted(f, refused) ==
  /\ fiber[f].pc = "sent" /\ fiber[f].op /= "set"
  /\ IF fiber[f].pos = 1 THEN refused ELSE ~refused /\ fiber[f].pos = Len(fiber[f].path)
  /\ Counted(f, TRUE)
  /\ Leaves(f, [fiber[f] EXCEPT !.pc = "done"])
  /\ UNCHANGED <<least, live, data, expiry, nextId, granted, reached, lost>>

\* A failover error: the next target of the policy is tried.  The policy
\* orders the targets once, after the first reply.
Failover(f) ==
  LET g == fiber[f].gen
      path == IF fiber[f].pos = 1 THEN Path(g, errs'[g]) ELSE fiber[f].path
      here == At(f)
      l == limit[g][here]
      to == path[fiber[f].pos + 1]
  IN /\ fiber[f].pc = "sent" /\ fiber[f].op /= "set"
     /\ fiber[f].pos > 1 => fiber[f].pos < Len(fiber[f].path)
     /\ Counted(f, TRUE)
     /\ limit' = [limit EXCEPT ![g][here] = Left(@), ![g][to] = Entered(@, f)]
     /\ passed' = PassedAfter(l)
     /\ fiber' = [x \in Fiber |->
                    IF x = f THEN [fiber[f] EXCEPT !.pc = PcAfter(limit[g][to]),
                                     !.path = path, !.pos = @ + 1]
                    ELSE IF x \in Woken(l) THEN [fiber[x] EXCEPT !.pc = "sent"]
                    ELSE fiber[x]]
     /\ UNCHANGED <<least, live, data, expiry, nextId, granted, reached, lost>>

\* query takes the token out of the map.
TakesToken(id) ==
  /\ data' = [n \in DOMAIN data \ {id} |-> data[n]]
  /\ expiry' = SelectSeq(expiry, LAMBDA n : n /= id)

\* The client sends a lease-set with its token.
LeaseSet(f) ==
  /\ fiber[f].pc = "held" /\ Len(reached[f]) < MaxSets
  /\ LET token == fiber[f].token
         found == token.magic /\ token.id \in DOMAIN data
     IN \/ /\ ~found
           /\ Route(f, "set", live, <<0>>, 1, token)
           /\ reached' = [reached EXCEPT ![f] = Append(@, <<0, token>>)]
           /\ UNCHANGED <<data, expiry>>
        \/ /\ found /\ data[token.id].child < Width[live]
           /\ TakesToken(token.id)
           /\ Route(f, "set", live, <<data[token.id].child>>, 1, token)
           /\ reached' = [reached EXCEPT ![f] =
                            Append(@, <<data[token.id].child, data[token.id].token>>)]
        \/ /\ found /\ data[token.id].child >= Width[live]
           /\ TakesToken(token.id)
           /\ reached' = [reached EXCEPT ![f] = Append(@, NoLease)]
           /\ UNCHANGED <<limit, fiber>>
  /\ UNCHANGED <<least, live, errs, nextId, granted, lost, passed>>

\* The reply to a lease-set, whatever it is, goes back to the client.
SetAnswered(f) ==
  /\ fiber[f].pc = "sent" /\ fiber[f].op = "set"
  /\ Leaves(f, [fiber[f] EXCEPT !.pc = "held"])
  /\ UNCHANGED <<least, live, errs, data, expiry, nextId, granted, reached, lost>>

\* tokenCleanupTimeout: the oldest token has outlived leaseTokenTtl_.
TokenCleanup ==
  /\ expiry /= <<>>
  /\ lost' = lost \cup {Head(expiry)}
  /\ data' = [n \in DOMAIN data \ {Head(expiry)} |-> data[n]]
  /\ expiry' = Tail(expiry)
  /\ UNCHANGED <<least, live, errs, limit, fiber, nextId, granted, reached, passed>>

\* A new configuration replaces the route (external to this module).
Reconfigure ==
  /\ live < Len(Width)
  /\ live' = live + 1
  /\ UNCHANGED <<least, errs, limit, fiber, data, expiry, nextId, granted, reached,
                 lost, passed>>

Next ==
  \/ \E f \in Fiber :
       \/ Get(f) \/ Failover(f) \/ LeaseSet(f) \/ SetAnswered(f)
       \/ \E token \in ServerToken : LeaseGranted(f, token)
       \/ \E b \in BOOLEAN : Answered(f, b) \/ Exhausted(f, b)
  \/ TokenCleanup \/ Reconfigure

Spec == Init /\ [][Next]_vars

-----------------------------------------------------------------------------
(* Properties.                                                             *)


Inside(g, i) ==
  {f \in Fiber : fiber[f].pc = "sent" /\ fiber[f].gen = g /\ At(f) = i}
Blocked(g, i) ==
  {f \in Fiber : fiber[f].pc = "blocked" /\ fiber[f].gen = g /\ At(f) = i}

\* The limit is kept and not wasted: outstanding_ counts the requests inside a
\* target, never more than maxOutstanding_, and a request is blocked only while
\* every slot is in use; a slot that is handed over is neither lost nor doubled.
SlotsExact ==
  \A g \in Gen : \A i \in Target :
    LET l == limit[g][i] IN
    /\ l.outstanding = Cardinality(Inside(g, i)) /\ l.outstanding <= MaxOutstanding
    /\ Blocked(g, i) = UNION {ToSet(l.blocked[n].batons) : n \in DOMAIN l.blocked}
    /\ l.blocked /= <<>> => l.outstanding = MaxOutstanding

\* Fairness of OutstandingLimitRoute ("one request per sender id in
\* round-robin fashion"): while a request is the next one of its sender, no
\* other sender gets a second turn.
RoundRobin ==
  \A f \in Fiber : fiber[f].pc = "blocked" =>
    \A s \in Sender \ {0} : passed[f][s] <= 1
=============================================================================
