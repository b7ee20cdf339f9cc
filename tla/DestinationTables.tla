------------------------- MODULE DestinationTables -------------------------
(***************************************************************************)
(* The two tables through which the proxies share what they know of a      *)
(* server while configurations come and go: every proxy's                  *)
(* ProxyDestinationMap and the router's TkoTrackerMap.                     *)
(*                                                                         *)
(* The configuration thread builds a configuration per proxy (find,        *)
(* emplace, updateTracker), swaps them in, or gives the build up.  Proxy   *)
(* threads drop old configurations, the statistics thread walks both       *)
(* tables.  Both tables hold weak pointers and hand out strong ones, so    *)
(* any thread may find itself dropping the last reference; destructors     *)
(* then take the locks of the tables and erase entries by key.             *)
(*                                                                         *)
(* There is one server, in or not in a configuration.  A critical section  *)
(* that calls nothing is one step, guarded by its mutex; the sections that *)
(* hold references while they are locked are split.                        *)
(***************************************************************************)
EXTENDS Integers, Sequences, FiniteSets

CONSTANTS ProxySeq,     \* the proxies, in the order they are configured
          ConfigThread,
          StatsThread,
          MaxGen,       \* bound: destinations created per proxy
          MaxTracker,   \* bound: trackers created
          MaxAttempts,  \* bound: configurations tried
          MaxTasks      \* bound: releases of a destination queued at once

Proxy == {ProxySeq[n] : n \in 1 .. Len(ProxySeq)}
Thread == Proxy \cup {ConfigThread, StatsThread}
Dest == Proxy \X (1 .. MaxGen)
Tracker == 1 .. MaxTracker
None == <<>>
NoTracker == 0

ASSUME TablesAssumption ==
  /\ ProxySeq \in Seq(Proxy) /\ ProxySeq /= <<>>
  /\ Proxy \cap {ConfigThread, StatsThread} = {}
  /\ ConfigThread /= StatsThread
  /\ "free" \notin Thread

VARIABLES config,     \* config[p]: the destination in p's configuration
          fresh,      \* fresh[p]: the destination in newConfigs, still held
          cpc, k,     \* where configure is, and the proxy it is at
          wanted,     \* the configuration being built contains the server
          attempts,   \* configurations tried so far
          request,    \* request[p]: held by a request's copy of the config
          tasks,      \* tasks[d]: references p's thread has been sent to drop
          table,      \* table[p]: the destination whose entry p's map has
          keyOf,      \* keyOf[d]: the entry that d's pdstnKey_ points into
          life,       \* life[d]: none, alive, dying or dead
          tracker,    \* tracker[d]: the TkoTracker of d
          trackers,   \* the TkoTrackerMap entry: who made it, whom it names
          tkeyOf,     \* tkeyOf[x]: the entry that tracker x's key_ points into
          tlife,      \* tlife[x]: as life
          dlock, mx,  \* dlock[p], mx: who holds destinationsLock_, mx_
          job,        \* job[t]: the destructor that thread t is inside of
          spc, sref,  \* where the statistics thread is, and what it holds
          overwrote,  \* updateTracker met the entry of a dying tracker
          collided    \* emplace met the entry of a dying destination

cfgVars == <<config, fresh, cpc, k, wanted, attempts>>
mapVars == <<table, keyOf, dlock, collided>>
trackerVars == <<tracker, trackers, tkeyOf, tlife, mx, overwrote>>
statVars == <<spc, sref>>
vars == <<cfgVars, request, tasks, life, job, mapVars, trackerVars, statVars>>

NoEntry == [node |-> NoTracker, names |-> NoTracker]

Init ==
  /\ config = [p \in Proxy |-> None] /\ fresh = [p \in Proxy |-> None]
  /\ cpc = "idle" /\ k = 1 /\ wanted = FALSE /\ attempts = 0
  /\ request = [p \in Proxy |-> None]
  /\ tasks = [d \in Dest |-> 0]
  /\ table = [p \in Proxy |-> None]
  /\ keyOf = [d \in Dest |-> None]
  /\ life = [d \in Dest |-> "none"]
  /\ tracker = [d \in Dest |-> NoTracker]
  /\ trackers = NoEntry
  /\ tkeyOf = [x \in Tracker |-> NoTracker]
  /\ tlife = [x \in Tracker |-> "none"]
  /\ dlock = [p \in Proxy |-> "free"] /\ mx = "free"
  /\ job = [t \in Thread |-> None]
  /\ spc = "idle" /\ sref = None
  /\ overwrote = FALSE /\ collided = FALSE

-----------------------------------------------------------------------------
\* Whether somebody refers to destination d after this step.
HeldNext(d) ==
  \/ config'[d[1]] = d \/ fresh'[d[1]] = d \/ request'[d[1]] = d
  \/ tasks'[d] > 0
  \/ sref' = d

\* Thread t has dropped a reference to d: the last one runs ~ProxyDestination.
Drop(t, d) ==
  IF d = None \/ HeldNext(d)
  THEN UNCHANGED <<life, job>>
  ELSE /\ life' = [life EXCEPT ![d] = "dying"]
       /\ job' = [job EXCEPT ![t] = <<"erase", d>>]

\* Erasing by a key whose memory is gone finds the entry or does not.
Erased(valid, old, none) == IF valid THEN {none} ELSE {none, old}

\* ProxyDestinationMap::removeDestination, inside ~ProxyDestination.
RemoveDestination(t) ==
  /\ job[t] /= None /\ job[t][1] = "erase"
  /\ LET d == job[t][2]
         p == d[1]
     IN /\ dlock[p] = "free"
        /\ \E e \in Erased(keyOf[d] = table[p], table[p], None) :
             table' = [table EXCEPT ![p] = e]
        /\ job' = [job EXCEPT ![t] = <<"untrack", d>>]
  /\ UNCHANGED <<cfgVars, request, tasks, life, keyOf, dlock, collided,
                 trackerVars, statVars>>

\* Whether somebody refers to tracker x after this step.
TrackerHeldNext(x) == sref' = <<x>> \/ \E d \in Dest : tracker'[d] = x

\* Mutant: a destination takes its tracker out of the map when it goes,
\* whoever else shares it.
DropTrackerShared(t, x) ==
  /\ job' = [job EXCEPT ![t] = <<"forget", x>>]
  /\ UNCHANGED tlife

\* Thread t has dropped a reference to x: the last one runs ~TkoTracker.
DropTracker(t, x) ==
  IF TrackerHeldNext(x)
  THEN /\ job' = [job EXCEPT ![t] = None]
       /\ UNCHANGED tlife
  ELSE /\ job' = [job EXCEPT ![t] = <<"forget", x>>]
       /\ tlife' = [tlife EXCEPT ![x] = "dying"]

\* The members of ProxyDestination go, its reference to the tracker with them.
ReleaseTracker(t) ==
  /\ job[t] /= None /\ job[t][1] = "untrack"
  /\ LET d == job[t][2] IN
       /\ tracker' = [tracker EXCEPT ![d] = NoTracker]
       /\ life' = [life EXCEPT ![d] = "dead"]
       /\ UNCHANGED sref
       /\ DropTracker(t, tracker[d])
  /\ UNCHANGED <<cfgVars, request, tasks, mapVars, trackers, tkeyOf, mx,
                 overwrote, spc>>

\* TkoTrackerMap::removeTracker, inside ~TkoTracker.
RemoveTracker(t) ==
  /\ job[t] /= None /\ job[t][1] = "forget"
  /\ mx = "free"
  /\ LET x == job[t][2] IN
       /\ \E e \in Erased(tkeyOf[x] = trackers.node, trackers, NoEntry) :
            trackers' = e
       /\ tlife' = [tlife EXCEPT ![x] = "dead"]
  /\ job' = [job EXCEPT ![t] = None]
  /\ UNCHANGED <<cfgVars, request, tasks, life, mapVars, tracker, tkeyOf, mx,
                 overwrote, statVars>>

-----------------------------------------------------------------------------
At == ProxySeq[k]

\* configure begins: the new configuration has the server or not.
Configure(has) ==
  /\ cpc = "idle" /\ job[ConfigThread] = None
  /\ attempts < MaxAttempts
  /\ attempts' = attempts + 1
  /\ cpc' = "build" /\ k' = 1 /\ wanted' = has
  /\ UNCHANGED <<config, fresh, request, tasks, life, job, mapVars,
                 trackerVars, statVars>>

\* buildConfig of the next proxy: ProxyDestinationMap::find.
Find ==
  /\ cpc = "build" /\ k <= Len(ProxySeq)
  /\ dlock[At] = "free"
  /\ LET d == table[At]
         found == wanted /\ d /= None /\ life[d] = "alive"
     IN /\ fresh' = [fresh EXCEPT ![At] = IF found THEN d ELSE None]
        /\ cpc' = IF wanted /\ ~found THEN "emplace" ELSE "build"
        /\ k' = IF wanted /\ ~found THEN k ELSE k + 1
  /\ UNCHANGED <<config, wanted, attempts, request, tasks, life, job, mapVars,
                 trackerVars, statVars>>

\* destinations_.emplace leaves an entry that is there already alone.
TableWith(d) == [table EXCEPT ![d[1]] = IF @ = None THEN d ELSE @]

\* ProxyDestinationMap::emplace, up to updateTracker.
Emplace ==
  /\ cpc = "emplace" /\ dlock[At] = "free"
  /\ \E n \in 1 .. MaxGen :
       LET d == <<At, n>> IN
       /\ life[d] = "none" /\ \A m \in 1 .. n - 1 : life[<<At, m>>] /= "none"
       /\ life' = [life EXCEPT ![d] = "alive"]
       /\ table' = TableWith(d)
       /\ keyOf' = [keyOf EXCEPT ![d] = table'[At]]
       /\ collided' = (collided \/ table[At] /= None)
       /\ fresh' = [fresh EXCEPT ![At] = d]
  /\ cpc' = "track"
  /\ UNCHANGED <<config, k, wanted, attempts, request, tasks, job, dlock,
                 trackerVars, statVars>>

\* TkoTrackerMap::updateTracker: the tracker the entry names, if it is alive,
\* or a new one, whose key is the entry's.
UpdateTracker ==
  /\ cpc = "track" /\ mx = "free"
  /\ \/ /\ trackers /= NoEntry /\ tlife[trackers.names] = "alive"
        /\ tracker' = [tracker EXCEPT ![fresh[At]] = trackers.names]
        /\ UNCHANGED <<trackers, tkeyOf, tlife, overwrote>>
     \/ /\ trackers /= NoEntry => tlife[trackers.names] /= "alive"
        /\ \E x \in Tracker :
             /\ tlife[x] = "none" /\ \A y \in 1 .. x - 1 : tlife[y] /= "none"
             /\ tlife' = [tlife EXCEPT ![x] = "alive"]
             /\ trackers' = [node |-> IF trackers = NoEntry THEN x ELSE trackers.node,
                             names |-> x]
             /\ tkeyOf' = [tkeyOf EXCEPT ![x] = trackers'.node]
             /\ tracker' = [tracker EXCEPT ![fresh[At]] = x]
             /\ overwrote' = (overwrote \/ trackers /= NoEntry)
  /\ cpc' = "build" /\ k' = k + 1
  /\ UNCHANGED <<config, fresh, wanted, attempts, request, tasks, life, job,
                 mapVars, mx, statVars>>

\* A buildConfig throws: what was built so far is dropped on this thread.
Fail ==
  /\ cpc = "build"
  /\ cpc' = "abandon"
  /\ UNCHANGED <<config, fresh, k, wanted, attempts, request, tasks, life, job,
                 mapVars, trackerVars, statVars>>

\* Every proxy's configuration is built.
Built ==
  /\ cpc = "build" /\ k > Len(ProxySeq)
  /\ cpc' = "swap" /\ k' = 1
  /\ UNCHANGED <<config, fresh, wanted, attempts, request, tasks, life, job,
                 mapVars, trackerVars, statVars>>

\* proxy_config_swap: the old configuration is sent to the proxy to drop.
Swap ==
  /\ cpc = "swap"
  /\ LET old == config[At] IN
       /\ old /= None => tasks[old] < MaxTasks
       /\ config' = [config EXCEPT ![At] = fresh[At]]
       /\ tasks' = IF old = None THEN tasks ELSE [tasks EXCEPT ![old] = @ + 1]
  /\ cpc' = IF k = Len(ProxySeq) THEN "free" ELSE "swap"
  /\ k' = IF k = Len(ProxySeq) THEN 1 ELSE k + 1
  /\ UNCHANGED <<fresh, wanted, attempts, request, life, job, mapVars,
                 trackerVars, statVars>>

\* The vector newConfigs of configure is destroyed, one element at a time.
Free(p) ==
  /\ cpc \in {"free", "abandon"} /\ job[ConfigThread] = None
  /\ fresh[p] /= None
  /\ fresh' = [fresh EXCEPT ![p] = None]
  /\ UNCHANGED <<config, request, tasks, sref>>
  /\ Drop(ConfigThread, fresh[p])
  /\ UNCHANGED <<cpc, k, wanted, attempts, mapVars, trackerVars, spc>>

Configured ==
  /\ cpc \in {"free", "abandon"} /\ job[ConfigThread] = None
  /\ \A p \in Proxy : fresh[p] = None
  /\ cpc' = "idle"
  /\ UNCHANGED <<config, fresh, k, wanted, attempts, request, tasks, life, job,
                 mapVars, trackerVars, statVars>>

-----------------------------------------------------------------------------
\* A request of p copies the configuration, and lets it go.
RequestStarts(p) ==
  /\ job[p] = None /\ request[p] = None /\ config[p] /= None
  /\ request' = [request EXCEPT ![p] = config[p]]
  /\ UNCHANGED <<cfgVars, tasks, life, job, mapVars, trackerVars, statVars>>

RequestEnds(p) ==
  /\ job[p] = None /\ request[p] /= None
  /\ request' = [request EXCEPT ![p] = None]
  /\ UNCHANGED <<config, fresh, tasks, sref>>
  /\ Drop(p, request[p])
  /\ UNCHANGED <<cpc, k, wanted, attempts, mapVars, trackerVars, spc>>

\* The proxy handles an OLD_CONFIG message or a release it was sent.
ReleaseTask(d) ==
  /\ job[d[1]] = None /\ tasks[d] > 0
  /\ tasks' = [tasks EXCEPT ![d] = @ - 1]
  /\ UNCHANGED <<config, fresh, request, sref>>
  /\ Drop(d[1], d)
  /\ UNCHANGED <<cpc, k, wanted, attempts, mapVars, trackerVars, spc>>

\* foreachDestinationSynced takes a reference under the lock ...
VisitDestination(p) ==
  /\ spc = "idle" /\ job[StatsThread] = None
  /\ dlock[p] = "free" /\ table[p] /= None /\ life[table[p]] = "alive"
  /\ tasks[table[p]] < MaxTasks
  /\ dlock' = [dlock EXCEPT ![p] = StatsThread]
  /\ sref' = table[p]
  /\ spc' = "visiting"
  /\ UNCHANGED <<cfgVars, request, tasks, life, job, table, keyOf, collided,
                 trackerVars>>

\* Mutant: the statistics thread drops its reference itself.
LeaveDestinationHere ==
  /\ spc = "visiting"
  /\ sref' = None
  /\ UNCHANGED <<config, fresh, request, tasks>>
  /\ Drop(StatsThread, sref)
  /\ spc' = IF job'[StatsThread] = None THEN "idle" ELSE "visiting"
  /\ dlock' = IF job'[StatsThread] = None
              THEN [dlock EXCEPT ![sref[1]] = "free"] ELSE dlock
  /\ UNCHANGED <<cpc, k, wanted, attempts, table, keyOf, collided, trackerVars>>

\* Mutant: the same, after the lock is released.
LeaveDestinationUnlocked ==
  /\ spc = "visiting"
  /\ sref' = None
  /\ UNCHANGED <<config, fresh, request, tasks>>
  /\ Drop(StatsThread, sref)
  /\ spc' = "idle"
  /\ dlock' = [dlock EXCEPT ![sref[1]] = "free"]
  /\ UNCHANGED <<cpc, k, wanted, attempts, table, keyOf, collided, trackerVars>>

\* ... and has the proxy drop it, still under the lock.
LeaveDestination ==
  /\ spc = "visiting"
  /\ tasks' = [tasks EXCEPT ![sref] = @ + 1]
  /\ sref' = None
  /\ spc' = "idle"
  /\ dlock' = [dlock EXCEPT ![sref[1]] = "free"]
  /\ UNCHANGED <<cfgVars, request, life, job, table, keyOf, collided, trackerVars>>

\* foreachTkoTracker keeps its references until the lock is released.
VisitTracker ==
  /\ spc = "idle" /\ job[StatsThread] = None
  /\ mx = "free" /\ trackers /= NoEntry /\ tlife[trackers.names] = "alive"
  /\ mx' = StatsThread
  /\ sref' = <<trackers.names>>
  /\ spc' = "counting"
  /\ UNCHANGED <<cfgVars, request, tasks, life, job, mapVars, tracker, trackers,
                 tkeyOf, tlife, overwrote>>

LeaveTrackers ==
  /\ spc = "counting"
  /\ mx' = "free"
  /\ spc' = "dropping"
  /\ UNCHANGED <<cfgVars, request, tasks, life, job, mapVars, tracker, trackers,
                 tkeyOf, tlife, overwrote, sref>>

DropVisited ==
  /\ spc = "dropping"
  /\ sref' = None
  /\ spc' = "idle"
  /\ UNCHANGED tracker
  /\ DropTracker(StatsThread, sref[1])
  /\ UNCHANGED <<cfgVars, request, tasks, life, mapVars, trackers, tkeyOf, mx,
                 overwrote>>

Destructors(t) == RemoveDestination(t) \/ ReleaseTracker(t) \/ RemoveTracker(t)

ConfigSteps ==
  \/ Find \/ Emplace \/ UpdateTracker \/ Fail \/ Built \/ Swap \/ Configured
  \/ \E p \in Proxy : Free(p)

Next ==
  \/ \E t \in Thread : Destructors(t)
  \/ \E has \in BOOLEAN : Configure(has)
  \/ ConfigSteps
  \/ \E p \in Proxy : RequestStarts(p) \/ RequestEnds(p) \/ VisitDestination(p)
  \/ \E d \in Dest : ReleaseTask(d)
  \/ LeaveDestination \/ VisitTracker \/ LeaveTrackers \/ DropVisited

Spec == Init /\ [][Next]_vars

-----------------------------------------------------------------------------
(* Properties.                                                             *)

\* No destructor runs on a thread that already holds the mutex it is about to
\* lock: neither a walk over destinations_ nor one over trackers_ drops a last
\* reference inside its critical section (TkoTracker.cpp: "We would try to
\* lock mx_ again from the same thread (which is UB)").
NoRelock ==
  \A t \in Thread : job[t] /= None =>
    /\ job[t][1] = "erase" => dlock[job[t][2][1]] /= t
    /\ job[t][1] = "forget" => mx /= t

\* A destination is disposed of on the thread of its proxy, as
\* foreachDestinationSynced asks ("Disposal of the ProxyDestination object
\* should execute on the proxy thread"), with one exception: configurations
\* that were built for nothing are destroyed on the configuration thread.
DisposedOnProxy ==
  \A t \in Thread : job[t] /= None /\ job[t][1] \in {"erase", "untrack"} =>
    t = job[t][2][1] \/ (t = ConfigThread /\ cpc = "abandon")

Alive(p) == {n \in 1 .. MaxGen : life[<<p, n>>] = "alive"}

\* Unless a destination or a tracker was created while its predecessor was
\* being destroyed, the tables are exact: a proxy has one live destination of
\* the server and the map finds it, all proxies share one live tracker of the
\* server, and the map finds that.
EntriesExact ==
  /\ ~collided => \A p \in Proxy : \A n \in Alive(p) :
       table[p] = <<p, n>> /\ Cardinality(Alive(p)) = 1
  /\ ~collided /\ ~overwrote =>
       \A d \in Dest : tracker[d] /= NoTracker =>
         tlife[tracker[d]] = "alive" /\ trackers.names = tracker[d]

Quiet ==
  /\ cpc = "idle" /\ spc = "idle"
  /\ \A t \in Thread : job[t] = None
  /\ \A p \in Proxy : request[p] = None
  /\ \A d \in Dest : tasks[d] = 0

\* Once everybody has finished, only what the configuration uses is left:
\* references handed to the statistics thread, to requests, to queued releases
\* and to abandoned builds keep no destination and no tracker alive, and
\* (again unless a creation met a destruction) no stale entry stays behind.
NothingLeftOver ==
  Quiet =>
    /\ \A d \in Dest : life[d] = "alive" <=> config[d[1]] = d
    /\ \A x \in Tracker : tlife[x] = "alive" => \E d \in Dest : tracker[d] = x
    /\ ~collided => table = config
    /\ ~collided /\ ~overwrote =>
         (trackers = NoEntry <=> \A p \in Proxy : config[p] = None)

\* The tables of destinations and trackers are exact at every moment, and
\* whenever everybody has finished nothing is left over in them.
TablesExact == EntriesExact /\ NothingLeftOver
=============================================================================
