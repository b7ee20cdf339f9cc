---------------------- MODULE DestinationTablesProofs ----------------------
(***************************************************************************)
(* Proofs about DestinationTables, for any number of proxies, destinations,*)
(* trackers and configurations.                                            *)
(***************************************************************************)
EXTENDS DestinationTables, TLAPS

Own(p) == {<<p, n>> : n \in 1 .. MaxGen} \cup {None}

\* Who may hold a mutex, and what the statistics thread does meanwhile.
Locks ==
  /\ dlock \in [Proxy -> {"free", StatsThread}]
  /\ mx \in {"free", StatsThread}
  /\ mx = StatsThread => spc = "counting"
  /\ spc = "counting" => job[StatsThread] = None

\* The tables of references are functions on the proxies, each to its own.
Owned ==
  /\ config \in [Proxy -> Dest \cup {None}] /\ \A p \in Proxy : config[p] \in Own(p)
  /\ fresh \in [Proxy -> Dest \cup {None}] /\ \A p \in Proxy : fresh[p] \in Own(p)
  /\ request \in [Proxy -> Dest \cup {None}] /\ \A p \in Proxy : request[p] \in Own(p)
  /\ table \in [Proxy -> Dest \cup {None}] /\ \A p \in Proxy : table[p] \in Own(p)
  /\ job = [t \in Thread |-> job[t]]
  /\ \A t \in Thread : job[t] /= None /\ job[t][1] \in {"erase", "untrack"} =>
       job[t][2] \in Dest

\* What was built and swapped in is held by the proxy as well.
Swapped ==
  /\ k \in Nat \ {0}
  /\ cpc \in {"emplace", "track", "swap"} => k <= Len(ProxySeq)
  /\ cpc = "swap" => \A n \in 1 .. k - 1 : config[ProxySeq[n]] = fresh[ProxySeq[n]]
  /\ cpc = "free" => \A p \in Proxy : fresh[p] = None \/ config[p] = fresh[p]

TablesInv == Locks /\ Owned /\ Swapped /\ DisposedOnProxy /\ NoRelock

\* A destination names its proxy.
LEMMA DestProxy ==
  /\ \A d \in Dest : d[1] \in Proxy /\ d /= None
  /\ \A p \in Proxy : \A d \in Own(p) : d /= None => d \in Dest /\ d[1] = p
  /\ \A p \in Proxy : p \in Thread /\ p /= ConfigThread /\ p /= StatsThread
  /\ ConfigThread \in Thread /\ StatsThread \in Thread
  /\ ConfigThread /= StatsThread /\ "free" \notin Thread
  /\ \A n \in 1 .. Len(ProxySeq) : ProxySeq[n] \in Proxy
  /\ \A p \in Proxy : \E n \in 1 .. Len(ProxySeq) : ProxySeq[n] = p
  /\ Len(ProxySeq) \in Nat \ {0}
<1>1. \A d \in Dest : d[1] \in Proxy /\ d /= None
  BY DEF Dest, None
<1>2. \A p \in Proxy : \A d \in Own(p) : d /= None => d \in Dest /\ d[1] = p
  BY DEF Own, Dest, None
<1>3. /\ \A p \in Proxy : p \in Thread /\ p /= ConfigThread /\ p /= StatsThread
      /\ ConfigThread \in Thread /\ StatsThread \in Thread
      /\ ConfigThread /= StatsThread /\ "free" \notin Thread
  BY TablesAssumption DEF TablesAssumption, Thread
<1>4. /\ \A n \in 1 .. Len(ProxySeq) : ProxySeq[n] \in Proxy
      /\ \A p \in Proxy : \E n \in 1 .. Len(ProxySeq) : ProxySeq[n] = p
  BY DEF Proxy
<1>5. Len(ProxySeq) \in Nat \ {0}
  BY TablesAssumption DEF TablesAssumption
<1> QED BY <1>1, <1>2, <1>3, <1>4, <1>5

\* The invariant holds in the beginning.
LEMMA TablesInit == Init => TablesInv
BY DestProxy, TablesAssumption
   DEF TablesAssumption, Init, TablesInv, Locks, Owned, Own, Swapped, DisposedOnProxy, NoRelock, Thread, None

\* What the invariant is about.
invVars == <<config, fresh, request, table, cpc, k, dlock, mx, spc, job>>

\* Steps that touch none of these variables keep the invariant.
LEMMA Frame == TablesInv /\ UNCHANGED invVars => TablesInv'
BY DEF TablesInv, invVars, Locks, Owned, Own, Swapped, DisposedOnProxy, NoRelock

\* Destructors go on where the invariant lets them run.
LEMMA DestructorStep ==
  ASSUME TablesInv, NEW t \in Thread, Destructors(t)
  PROVE  TablesInv'
<1> USE DestProxy DEF TablesInv, Locks, Owned, Own, Swapped, DisposedOnProxy,
      NoRelock, cfgVars, mapVars, trackerVars, statVars
<1>1. CASE RemoveDestination(t)
  <2> DEFINE d == job[t][2]
  <2>1. job[t] /= None /\ job[t][1] = "erase" /\ d \in Dest /\ d[1] \in Proxy
    BY <1>1 DEF RemoveDestination
  <2>2. /\ job' = [job EXCEPT ![t] = <<"untrack", d>>]
        /\ UNCHANGED <<config, fresh, request, cpc, k, dlock, mx, spc>>
        /\ \E e \in {None, table[d[1]]} : table' = [table EXCEPT ![d[1]] = e]
    BY <1>1 DEF RemoveDestination, Erased
  <2>3. table' \in [Proxy -> Dest \cup {None}] /\ \A p \in Proxy : table'[p] \in Own(p)
    <3> PICK e \in {None, table[d[1]]} : table' = [table EXCEPT ![d[1]] = e]
      BY <2>2
    <3>1. e \in Dest \cup {None} /\ e \in Own(d[1])
      BY <2>1
    <3> QED BY <3>1, <2>1
  <2>4. t /= StatsThread
    BY <2>1
  <2>5. Locks' /\ Swapped'
    BY <2>2, <2>4
  <2>6. Owned'
    BY <2>1, <2>2, <2>3, ZenonT(60)
  <2>7. DisposedOnProxy' /\ NoRelock'
    BY <2>1, <2>2
  <2> QED BY <2>5, <2>6, <2>7
<1>2. CASE ReleaseTracker(t)
  <2> DEFINE d == job[t][2]
  <2>1. job[t] /= None /\ job[t][1] = "untrack" /\ d \in Dest
    BY <1>2 DEF ReleaseTracker
  <2>2. t /= StatsThread /\ t /= "free"
    BY <2>1
  <2>3. job' = [job EXCEPT ![t] = None]
        \/ job' = [job EXCEPT ![t] = <<"forget", tracker[d]>>]
    BY <1>2 DEF ReleaseTracker, DropTracker
  <2>4. UNCHANGED <<config, fresh, request, table, cpc, k, dlock, mx, spc>>
    BY <1>2 DEF ReleaseTracker
  <2>5. Locks' /\ Swapped'
    BY <2>2, <2>3, <2>4
  <2>8. Owned'
    <3>1. job' = [x \in Thread |-> job'[x]]
      BY <2>3
    <3>2. \A x \in Thread : job'[x] /= None /\ job'[x][1] \in {"erase", "untrack"} =>
            job'[x] = job[x]
      BY <2>3
    <3> QED BY <2>4, <3>1, <3>2
  <2>6. DisposedOnProxy'
    BY <2>3, <2>4
  <2>7. NoRelock'
    <3>1. \A x \in Thread : job'[x] = job[x] \/ (x = t /\ (job'[x] = None \/ job'[x][1] = "forget"))
      BY <2>3
    <3>2. mx' /= t
      BY <2>2, <2>4
    <3> QED BY <2>4, <3>1, <3>2
  <2> QED BY <2>5, <2>6, <2>7, <2>8
<1>3. CASE RemoveTracker(t)
  BY <1>3, ZenonT(60) DEF RemoveTracker
<1> QED BY <1>1, <1>2, <1>3 DEF Destructors

\* Dropping a reference to a destination of p on p's thread.
LEMMA DropStep ==
  ASSUME TablesInv, NEW t \in Thread, NEW d \in Dest \cup {None}, Drop(t, d),
         d /= None => t = d[1] \/ (t = ConfigThread /\ (cpc = "abandon" \/ HeldNext(d))),
         job[t] = None,
         UNCHANGED <<cpc, k, dlock, mx, spc, config, table>>, Swapped',
         fresh' \in [Proxy -> Dest \cup {None}], \A p \in Proxy : fresh'[p] \in Own(p),
         request' \in [Proxy -> Dest \cup {None}], \A p \in Proxy : request'[p] \in Own(p),
         spc = "counting" => t /= StatsThread
  PROVE  TablesInv'
<1>1. CASE UNCHANGED job
  BY <1>1 DEF TablesInv, Locks, Owned, DisposedOnProxy, NoRelock
<1>2. CASE d /= None /\ ~HeldNext(d) /\ job' = [job EXCEPT ![t] = <<"erase", d>>]
  <2>1. d \in Dest /\ t /= StatsThread /\ t /= "free"
    BY <1>2, DestProxy, TablesAssumption DEF TablesAssumption
  <2>2. Locks' /\ Owned'
    BY <1>2, <2>1, DestProxy DEF TablesInv, Locks, Owned, None
  <2>3. DisposedOnProxy'
    BY <1>2, <2>1, DestProxy DEF TablesInv, DisposedOnProxy, Owned, None
  <2>4. NoRelock'
    BY <1>2, <2>1, DestProxy DEF TablesInv, NoRelock, Locks, Owned, None
  <2> QED BY <2>2, <2>3, <2>4 DEF TablesInv
<1> QED BY <1>1, <1>2 DEF Drop

\* Every step keeps the invariant.
LEMMA TablesStep == TablesInv /\ [Next]_vars => TablesInv'
<1> SUFFICES ASSUME TablesInv, [Next]_vars PROVE TablesInv'
  OBVIOUS
<1> USE DEF cfgVars, mapVars, trackerVars, statVars
<1>1. ASSUME NEW t \in Thread, Destructors(t) PROVE TablesInv'
  BY <1>1, DestructorStep
<1>2. ASSUME NEW has \in BOOLEAN, Configure(has) PROVE TablesInv'
  BY <1>2 DEF Configure, TablesInv, Locks, Owned, Own, Swapped, DisposedOnProxy, NoRelock
<1>3. CASE Find
  <2>1. At \in Proxy
    BY <1>3, DestProxy DEF Find, At, TablesInv, Swapped
  <2> QED BY <2>1, <1>3, DestProxy DEF Find, TablesInv, Locks, Owned, Own, Swapped, DisposedOnProxy, NoRelock
<1>4. CASE Emplace
  <2>1. At \in Proxy
    BY <1>4, DestProxy DEF Emplace, At, TablesInv, Swapped
  <2> QED BY <2>1, <1>4, DestProxy DEF Emplace, TableWith, Dest, TablesInv, Locks, Owned, Own, Swapped, DisposedOnProxy, NoRelock
<1>5. CASE UpdateTracker
  BY <1>5 DEF UpdateTracker, TablesInv, Locks, Owned, Own, Swapped, DisposedOnProxy, NoRelock
<1>6. CASE Fail
  BY <1>6 DEF Fail, TablesInv, Locks, Owned, Own, Swapped, DisposedOnProxy, NoRelock
<1>7. CASE Built
  BY <1>7, DestProxy DEF Built, TablesInv, Locks, Owned, Own, Swapped, DisposedOnProxy, NoRelock
<1>8. CASE Swap
  <2>1. At \in Proxy /\ k <= Len(ProxySeq) /\ k \in Nat
    BY <1>8, DestProxy DEF Swap, At, TablesInv, Swapped
  <2>2. /\ config' = [config EXCEPT ![At] = fresh[At]]
        /\ cpc' = IF k = Len(ProxySeq) THEN "free" ELSE "swap"
        /\ k' = IF k = Len(ProxySeq) THEN 1 ELSE k + 1
        /\ UNCHANGED <<fresh, request, table, dlock, mx, spc, job>>
        /\ cpc = "swap"
    BY <1>8 DEF Swap
  <2>3. \A n \in 1 .. k : config'[ProxySeq[n]] = fresh[ProxySeq[n]]
    BY <2>1, <2>2, DestProxy DEF At, TablesInv, Swapped, Owned
  <2>4. Swapped'
    BY <2>1, <2>2, <2>3, DestProxy DEF Swapped
  <2>5. Locks' /\ Owned' /\ DisposedOnProxy' /\ NoRelock'
    BY <2>1, <2>2 DEF TablesInv, Locks, Owned, DisposedOnProxy, NoRelock
  <2> QED BY <2>4, <2>5 DEF TablesInv
<1>9. CASE Configured
  BY <1>9 DEF Configured, TablesInv, Locks, Owned, Own, Swapped, DisposedOnProxy, NoRelock
<1>10. ASSUME NEW p \in Proxy, Free(p) PROVE TablesInv'
  <2>1. fresh[p] \in Dest /\ fresh[p][1] = p /\ ConfigThread \in Thread
    BY <1>10, DestProxy DEF Free, TablesInv, Owned
  <2>2. fresh' = [fresh EXCEPT ![p] = None] /\ Drop(ConfigThread, fresh[p])
        /\ UNCHANGED <<config, request, table, cpc, k, dlock, mx, spc>>
        /\ job[ConfigThread] = None /\ cpc \in {"free", "abandon"}
    BY <1>10 DEF Free
  <2>3. cpc = "abandon" \/ HeldNext(fresh[p])
    BY <2>1, <2>2, <1>10 DEF HeldNext, TablesInv, Swapped, Free
  <2>4. Swapped'
    BY <2>2 DEF TablesInv, Swapped, Owned
  <2>5. fresh' \in [Proxy -> Dest \cup {None}] /\ \A q \in Proxy : fresh'[q] \in Own(q)
    BY <2>2 DEF TablesInv, Owned, Own
  <2>6. request' \in [Proxy -> Dest \cup {None}] /\ \A q \in Proxy : request'[q] \in Own(q)
    BY <2>2 DEF TablesInv, Owned
  <2> QED BY <2>1, <2>2, <2>3, <2>4, <2>5, <2>6, DropStep, DestProxy
<1>11. ASSUME NEW p \in Proxy, RequestStarts(p) PROVE TablesInv'
  BY <1>11 DEF RequestStarts, TablesInv, Locks, Owned, Own, Swapped, DisposedOnProxy, NoRelock
<1>12. ASSUME NEW p \in Proxy, RequestEnds(p) PROVE TablesInv'
  <2>1. request[p] \in Dest /\ request[p][1] = p /\ p \in Thread /\ p /= StatsThread
    BY <1>12, DestProxy DEF RequestEnds, TablesInv, Owned
  <2>2. request' = [request EXCEPT ![p] = None] /\ Drop(p, request[p])
        /\ UNCHANGED <<config, fresh, table, cpc, k, dlock, mx, spc>> /\ job[p] = None
    BY <1>12 DEF RequestEnds
  <2>4. Swapped'
    BY <2>2 DEF TablesInv, Swapped
  <2>5. fresh' \in [Proxy -> Dest \cup {None}] /\ \A q \in Proxy : fresh'[q] \in Own(q)
    BY <2>2 DEF TablesInv, Owned
  <2>6. request' \in [Proxy -> Dest \cup {None}] /\ \A q \in Proxy : request'[q] \in Own(q)
    BY <2>2 DEF TablesInv, Owned, Own
  <2> QED BY <2>1, <2>2, <2>4, <2>5, <2>6, DropStep
<1>13. ASSUME NEW p \in Proxy, VisitDestination(p) PROVE TablesInv'
  BY <1>13, DestProxy DEF VisitDestination, TablesInv, Locks, Owned, Own, Swapped, DisposedOnProxy, NoRelock
<1>14. ASSUME NEW d \in Dest, ReleaseTask(d) PROVE TablesInv'
  <2>1. d[1] \in Thread /\ d[1] /= StatsThread
    BY DestProxy
  <2>2. Drop(d[1], d) /\ job[d[1]] = None
        /\ UNCHANGED <<config, fresh, request, table, cpc, k, dlock, mx, spc>>
    BY <1>14 DEF ReleaseTask
  <2>3. Swapped'
    BY <2>2 DEF TablesInv, Swapped
  <2>4. /\ fresh' \in [Proxy -> Dest \cup {None}] /\ \A q \in Proxy : fresh'[q] \in Own(q)
        /\ request' \in [Proxy -> Dest \cup {None}] /\ \A q \in Proxy : request'[q] \in Own(q)
    BY <2>2 DEF TablesInv, Owned
  <2> QED BY <2>1, <2>2, <2>3, <2>4, DropStep
<1>15. CASE LeaveDestination
  <2>1. dlock' = [dlock EXCEPT ![sref[1]] = "free"] /\ spc' = "idle" /\ spc = "visiting"
        /\ UNCHANGED <<config, fresh, request, table, cpc, k, mx, job>>
    BY <1>15 DEF LeaveDestination
  <2>2. dlock' \in [Proxy -> {"free", StatsThread}]
        /\ \A p \in Proxy : dlock'[p] \in {dlock[p], "free"}
    BY <2>1 DEF TablesInv, Locks
  <2>3. Locks' /\ Owned' /\ Swapped' /\ DisposedOnProxy'
    BY <2>1, <2>2 DEF TablesInv, Locks, Owned, Swapped, DisposedOnProxy
  <2>4. NoRelock'
    BY <2>1, <2>2, DestProxy DEF TablesInv, NoRelock, Owned
  <2> QED BY <2>3, <2>4 DEF TablesInv
<1>16. CASE VisitTracker
  BY <1>16, DestProxy DEF VisitTracker, TablesInv, Locks, Owned, Own, Swapped, DisposedOnProxy, NoRelock
<1>17. CASE LeaveTrackers
  BY <1>17, DestProxy DEF LeaveTrackers, TablesInv, Locks, Owned, Own, Swapped, DisposedOnProxy, NoRelock
<1>18. CASE DropVisited
  <2> DEFINE x == sref[1]
  <2>1. spc' = "idle" /\ spc = "dropping"
        /\ UNCHANGED <<config, fresh, request, table, cpc, k, mx, dlock>>
        /\ \/ job' = [job EXCEPT ![StatsThread] = None]
           \/ job' = [job EXCEPT ![StatsThread] = <<"forget", x>>]
    BY <1>18 DEF DropVisited, DropTracker
  <2>2. mx /= StatsThread
    BY <2>1 DEF TablesInv, Locks
  <2>3. \A t \in Thread : job'[t] /= None /\ job'[t] /= job[t] =>
          t = StatsThread /\ job'[t][1] = "forget"
    BY <2>1 DEF TablesInv, Owned
  <2>4. Locks' /\ Swapped'
    BY <2>1, <2>2 DEF TablesInv, Locks, Swapped
  <2>5. job' = [t \in Thread |-> job'[t]]
    BY <2>1 DEF TablesInv, Owned
  <2>6. Owned'
    BY <2>1, <2>3, <2>5 DEF TablesInv, Owned
  <2>7. DisposedOnProxy' /\ NoRelock'
    BY <2>1, <2>2, <2>3 DEF TablesInv, DisposedOnProxy, NoRelock
  <2> QED BY <2>4, <2>6, <2>7 DEF TablesInv
<1>19. CASE UNCHANGED vars
  BY <1>19, Frame DEF vars, invVars
<1> QED
  BY <1>1, <1>2, <1>3, <1>4, <1>5, <1>6, <1>7, <1>8, <1>9, <1>10, <1>11, <1>12,
     <1>13, <1>14, <1>15, <1>16, <1>17, <1>18, <1>19 DEF Next, ConfigSteps

\* The invariant holds in every reachable state.
THEOREM TablesInvariance == Spec => []TablesInv
<1> QED BY TablesInit, TablesStep, PTL DEF Spec

\* For any number of proxies and configurations, no destructor runs under the
\* mutex that it locks (foreachDestinationSynced, foreachTkoTracker).
THEOREM NeverRelocks == Spec => []NoRelock
<1>1. TablesInv => NoRelock
  BY DEF TablesInv
<1> QED BY <1>1, TablesInvariance, PTL

\* For any number of proxies and configurations, a destination is disposed of
\* on its proxy's thread, or on the configuration thread by a failed build.
THEOREM DisposesOnProxy == Spec => []DisposedOnProxy
<1>1. TablesInv => DisposedOnProxy
  BY DEF TablesInv
<1> QED BY <1>1, TablesInvariance, PTL
=============================================================================
