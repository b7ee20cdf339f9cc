--------------------------- MODULE GatherRoutes ----------------------------
(***************************************************************************)
(* The route handles that send one request to several children and make    *)
(* one reply of theirs: AllFastestRoute, AllMajorityRoute, AllSyncRoute,   *)
(* AllInitialRoute, AllAsyncRoute, MissFailoverRoute (with and without     *)
(* return_best_on_error) and a delete through MigrateRoute while it        *)
(* migrates.                                                               *)
(*                                                                         *)
(* The children are fibers of their own: they reply in any order, and may  *)
(* reply after the route has answered.                                     *)
(***************************************************************************)
EXTENDS Integers, Sequences, FiniteSets, FiniteSetsExt

CONSTANTS NumChildren   \* children_.size()

Child == 1 .. NumChildren
Kind == {"fastest", "majority", "sync", "initial", "async", "miss", "missBest",
         "migrate"}

ASSUME GatherAssumption == NumChildren \in Nat /\ NumChildren > 1

\* mc_res_t, up to what the routes tell apart: two results of one severity, a
\* failover error and an error that is none.
Result == {"found", "notfound", "ooo", "timeout", "remote_error"}

resultSeverity(r) ==
  CASE r = "found" -> 1
    [] r = "notfound" -> 4
    [] r \in {"ooo", "timeout"} -> 5
    [] r = "remote_error" -> 7

worseThan(a, b) == resultSeverity(a) > resultSeverity(b)
isFailoverErrorResult(r) == r \in {"timeout", "remote_error"}

\* What createReply(DefaultReply, req) says to a get.
DefaultReply == "notfound"

NoReply == "none"

VARIABLES kind,     \* the route handle
          waiting,  \* children that were sent the request and have not replied
          log,      \* the replies the route took, in order of arrival
          counts,   \* counts of AllMajorityRoute
          best,     \* the reply held so far
          answer    \* the reply of the route, once it has answered

gatherVars == <<kind, waiting, log, counts, best, answer>>

\* The children that are sent the request at once.
Asked(rt) ==
  CASE rt \in {"miss", "missBest"} -> {1}
    [] rt = "migrate" -> {1, 2}
    [] OTHER -> Child

GatherInit ==
  /\ kind \in Kind
  /\ waiting = Asked(kind)
  /\ log = <<>>
  /\ counts = [r \in Result |-> 0]
  /\ best = IF kind = "majority" THEN DefaultReply ELSE NoReply
  /\ answer = IF kind = "async" THEN DefaultReply ELSE NoReply

-----------------------------------------------------------------------------
\* A child replies: the route, if it still awaits replies, takes it.
Took(c, r) ==
  /\ answer = NoReply /\ c \in waiting
  /\ waiting' = waiting \ {c}
  /\ log' = Append(log, r)
  /\ UNCHANGED kind

\* AllFastestRoute: the first reply that is no failover error, or the last.
FastestTakes(c, r) ==
  /\ kind = "fastest" /\ Took(c, r)
  /\ answer' = IF ~isFailoverErrorResult(r) \/ waiting' = {} THEN r ELSE NoReply
  /\ UNCHANGED <<counts, best>>


\* Whether a reply whose result was seen n times replaces the one held, whose
\* result was seen top times.
Replaces(n, top, r) == n > top \/ (n = top /\ worseThan(r, best))

\* AllMajorityRoute: collect until some result has appeared half + 1 times.
MajorityTakes(c, r) ==
  /\ kind = "majority" /\ Took(c, r)
  /\ LET top == IF log = <<>> THEN 0 ELSE counts[best]
         n == counts[r] + 1
         held == IF Replaces(n, top, r) THEN r ELSE best
     IN /\ counts' = [counts EXCEPT ![r] = n]
        /\ best' = held
        /\ answer' = IF waiting' = {} \/ counts'[held] >= NumChildren \div 2 + 1
                     THEN held ELSE NoReply

\* AllSyncRoute, and a delete through MigrateRoute: the most awful reply.
SyncTakes(c, r) ==
  /\ kind \in {"sync", "migrate"} /\ Took(c, r)
  /\ best' = IF best = NoReply \/ worseThan(r, best) THEN r ELSE best
  /\ answer' = IF waiting' = {} THEN best' ELSE NoReply
  /\ UNCHANGED counts

\* AllInitialRoute: the reply of the first child.
InitialTakes(c, r) ==
  /\ kind = "initial" /\ c = 1 /\ Took(c, r)
  /\ answer' = r
  /\ UNCHANGED <<counts, best>>

\* MissFailoverRoute: the children one after the other, until one hits.
MissTakes(c, r) ==
  /\ kind \in {"miss", "missBest"}
  /\ answer = NoReply /\ c \in waiting
  /\ log' = Append(log, r)
  /\ LET held == IF best = NoReply \/ kind = "miss" \/ ~worseThan(r, best)
                 THEN r ELSE best
         last == r = "found" \/ c = NumChildren
     IN /\ best' = held
        /\ waiting' = IF last THEN {} ELSE {c + 1}
        /\ answer' = IF r = "found" THEN r ELSE IF last THEN held ELSE NoReply
  /\ UNCHANGED <<kind, counts>>

\* A reply nobody awaits: the route has answered, or never looks at it.
Late(c) ==
  /\ c \in waiting
  /\ answer /= NoReply \/ (kind = "initial" /\ c /= 1)
  /\ waiting' = waiting \ {c}
  /\ UNCHANGED <<kind, log, counts, best, answer>>

GatherNext ==
  \E c \in Child :
    \/ Late(c)
    \/ \E r \in Result :
         FastestTakes(c, r) \/ MajorityTakes(c, r) \/ SyncTakes(c, r)
           \/ InitialTakes(c, r) \/ MissTakes(c, r)

-----------------------------------------------------------------------------
(* Properties.                                                             *)

Seen(r) == Cardinality({n \in DOMAIN log : log[n] = r})
Taken == {log[n] : n \in DOMAIN log}
Worst(S) == Max({resultSeverity(r) : r \in S})
MostCommon == {r \in Taken : \A q \in Taken : Seen(q) <= Seen(r)}

=============================================================================
