# A TLA+ model of mcrouter

mcrouter is a router for the memcached protocols: clients send requests, route
handles choose destinations, and the requests go out over a few shared
connections. This directory models the parts of it in which several actors meet
(threads, event loop callbacks, fibers, servers and files that fail), checks them
with TLC on small instances, and proves the lock-free and locking parts with
TLAPS for any number of threads.

## The system

| Part | State | Operations | Module |
|---|---|---|---|
| TKO tracking (`TkoTracker`) | one atomic word per server, failure count, reason; two global counters | record soft failure, hard failure, success; remove a destination | `TkoSpec`, `TkoTracker` |
| Destination (`ProxyDestination`, `ProxyDestinationMap`) | client connection, connection state, probe timer and fiber, inactivity lists | send, reply, probe, up, down, go away, reset, create, destroy | `ProxyDestination` |
| Tables of destinations and trackers | weak references under two mutexes, shared by proxies, the configuration thread and the statistics thread | find, emplace, remove, walk | `DestinationTables` |
| Client connection (`AsyncMcClientImpl`, `McClientRequestContextQueue`) | connection state, four queues, writer loop, timeouts | sendSync, connect, write, reply, time out, shut down, closeNow | `McClient` |
| Message queue (`MessageQueue`, `Notifier`) | bounded queue, notifier state, eventfd | write, notify, drain, poll | `MessageQueue` |
| Proxy and router client (`Proxy`, `ProxyRequestContext`, `CarbonRouterClient`, `counting_sem`) | permits, requests in processing, waiting queues | send, dispatch, queue, pump, reply, disconnect, shut down | `RequestFlow`, `CountingSem` |
| Configuration (`ConfigApi`, `FileDataProvider`, `CarbonRouterInstance`, `sfrlock`) | files, watches, backups, configurations per proxy | read, build, swap, watch, dump, notify | `ConfigApi`, `DestinationTables`, `SfrLock` |
| Server session (`McServerSession`, `MultiOpParent`) | in-flight requests, ordered replies, writes, pause reasons | request, reply, write, pause, close | `ServerSession` |
| Server threads (`AsyncMcServer`, `runServer`) | promises, keep-alive tokens, signal state | spawn, listen, signal, shut down, join | `AsyncMcServer` |
| Routes | lease tokens, outstanding requests, gathered replies | route | `LeaseRoute`, `GatherRoutes` |

What makes it hard: proxies share the trackers without locks; destructors run on
whichever thread drops the last reference; on one event loop callbacks nest and
fibers resume later than what they waited for; a connection fails between the
parts of a batch; replies overtake the end of their write and arrive for requests
that timed out; configurations replace destinations in use; files change between
being read and being watched; the event loop sleeps while other threads write to
it. `PROJECT.json` lists the hazards one by one, with the line where each bites
and the properties on it.

## The modules

    TkoSpec            what TKO tracking promises: atomic operations
      ^ refined by
    TkoTracker         the lock-free code <- TkoTrackerSteps, TkoTrackerOwnership,
                                             TkoTrackerProofs
    ProxyDestination   destinations, which use (and refine) TkoSpec's operations
    MCEventBase        McClient, the inside of one client connection
                       MessageQueue, from client threads to the event loop
                                          <- MessageQueueProofs
    RequestFlow        from send to the callback, step by step with
                       CountingSem, the semaphore of a client <- CountingSemProofs
    MCReconfiguration  ConfigApi, from a changed file to the callback
                       DestinationTables, what a configuration does to the tables
                                          <- DestinationTablesProofs
                       SfrLock, the lock it is replaced under <- SfrLockProofs
    MCServer           AsyncMcServer, start and stop of the threads
                       ServerSession, one connection of a client
    MCRoutes           LeaseRoute, failover with lease tokens and limits
                       GatherRoutes, routes that gather several replies

`MC*.tla` give constants their values. `MCEventBase`, `MCReconfiguration`,
`MCServer` and `MCRoutes` hold parts that meet only through what each shows of
itself; a variable chosen at the start says which part is explored, and the others
rest in a state in which nothing is left to do. Definitions called "Mutant" are broken
forms of the definition that follows them; they are not part of the model. They
are there to show that a property notices such a bug.

### TkoSpec, TkoTracker

`status[t]` of `TkoSpec` is what a server's tracker stands for: healthy with a
number of failures, or TKO, softly or hardly, with one responsible destination.

`TkoTracker` keeps `sumFailures_` as the code represents it, a number or an
address with a mark in its lowest bit, so destinations are even numbers above
the threshold. Each access to a shared atomic is a step: `SoftCount` to
`SoftReason` are recordSoftFailure, `HardCount` to `HardReason`
recordHardFailure, `OkIsResponsible` to `OkResetCount` recordSuccess;
`HandleSoftError`, `HandleHardError`, `HandleSuccess` and `HandleIsTko` are the
branches of `ProxyDestination::handleTko` that call them; `Destroy` and
`RemoveDestination` the destructor. A compare-and-exchange may fail without
reason, as the weak form may. Memory is sequentially consistent in the model:
every decision rests on one atomic word, and the only relaxed accesses are
to the reason and the load of that word in isTko.

Abstracted: probes are whether the timer exists. `MaxFailures` bounds the
failure count, which nothing decides on.

### ProxyDestination

Handlers of a destination are atomic, since they run on one thread; their tracker
calls are `TkoSpec`'s operations, which `TkoTracker` implements. `client[d]` is
the connection state of `client_`, or "none"; `state[d]` and `servers` are what
setState keeps; `probeTimer`, `probe` and `req` the timer, the probe fiber and
one request fiber; `list[d]` the inactivity list. The actions are the callbacks:
`ConnectSuccess` (onUp), `ConnectErr`, `Disconnect` and `GoAway` (onDown for its
reasons, with closeGracefully and the nested onDown), `Send` and `OnReply`,
`ProbeTimer`, `ProbeTask`, `ProbeReply`, `ResetInactive`, `Emplace`,
`RemoveFromConfig`, `SetPoolStatsIndex`, `Destroy`. A destination lives while a
route handle or a running fiber holds it (`Held`).

Results are reduced to the four classes handleTko tells apart; timers may fire
at any time; one request fiber per destination stands for all.

### McClient

The queue is a record, and each method of `McClientRequestContextQueue` an
operator from records to records, under its own name. The actions are the
callbacks of the socket and the event base, `SendSync` up to its wait, and
`Resume` from it. A reply is the number of its request, so that a reply given to
the wrong fiber shows. Between the client and the server are two streams, and
`unwritten`, what the socket has taken but not sent. `outOfOrder` is chosen at
the start: FALSE is ASCII, TRUE the protocols with message ids. `PartialWrite`
and `Serve` are the socket and the server, modelled by what the client relies
on; `Post` is `Baton::post`. A call of pushMessages that writes several batches is
several steps. `closeNow` is one step, because all its callbacks run inside.

### MessageQueue

One step per access to the queue, to `state_` or to the eventfd. The reader is
the event loop: drain, then poll. `tasks` says that fibers or flushes are waiting,
so that the loop does not block and drainWhileNonEmpty leaves READING. With
`relaxed`, a write may skip the notification, as blockingWriteRelaxed does at a rate
that the model leaves open, and the timer wakes the loop.

### CountingSem, RequestFlow

`CountingSem` has one step per access of counting_sem.c to `sem->cnt`, and the
futex. `RequestFlow` runs user threads through it while they send batches of
several requests to one proxy, in the four ways a client can be made (`mode`):
waiting for permits, failing what gets none, without a limit, and on the proxy's
own thread. The message queue between is the FIFO that `MessageQueue` justifies.
On the proxy `Dispatch`, `ProcessRequest`, the waiting queues of both
priorities, `Pump` and the destruction of contexts follow Proxy-inl.h; a request
is plain, has a bad key, or is a command that the proxy answers itself. A route is
one answer at some later time. `Disconnect` and `Shutdown` may come anywhere.

### DestinationTables

Destinations and trackers have generations, since an address under a key may
belong to one that is being destroyed while its successor is created. The
configuration thread builds a configuration per proxy, may fail at any of them,
swaps, and frees; proxies run requests and queued releases; the statistics
thread walks both tables. Dropping the last reference starts the destructors
(`job`) on the thread that does so, and each lock they take is a step. `Erased`
is a free choice over what erasing by a dangling key can do.

### SfrLock

One step per access to the word and to `waiters`, with the fast paths of
sfrlock.h and the contended ones of sfrlock.c; a futex may wake without reason.

### ConfigApi

Two files, the configuration and one that it may import, whose contents are small
sets (well formed or not, routable or not); the md5 of a content is the content.
Anybody may edit, delete or restore a file between two steps. `ReadFile` to
`SubscribeEnds` are createConfigBuilder, configure and subscribeToTrackedSources,
which run in spinUp, with its attempts from backups, or in the callback; dumps and
watches may fail. `LoopOrFinish` to `Notify` are the configuration thread.
`Restart` is a crash and a new start: only files and backups survive. `good`,
`attempt` and `unseen` are history variables that the properties need.

### ServerSession

A session is a record; the functions of McServerSession, MultiOpParent and the
write buffers are operators on it, composed by `Then` in the order of the calls;
what the event loop or a handler does is an action. Ordered or not, and single or
batched writes, are chosen at the start. What can be read are keys of a multi-get
and its end, keys that are too long, requests with and without a reply, version,
quit, an acknowledged GoAway and garbage.

### AsyncMcServer

The main thread is runServer with spawn and join; each thread waits for its
promises, listens or not, loops, and destroys its event base, which waits for the
tokens (`held`, `dropping`) of listening threads. `EnterShutdown`, `OnShutdown` and
`ShutdownThread` are the steps of shutdown, on whichever thread calls it. The
signal handler runs beside everything, in the steps of its compare-and-exchange.

### LeaseRoute, GatherRoutes

`LeaseRoute` is a FailoverRoute (in order or by least failures) whose targets have
an OutstandingLimitRoute in front, with LeaseTokenMap and its cleanup, and a
reconfiguration that changes the number of children. `GatherRoutes` answers one
request through the five All* routes, MissFailoverRoute and the phase of
MigrateRoute that asks both pools; replies arrive in any order, and severities
are those of resultSeverity.

## The runs

| Run | Instance | Shows |
|---|---|---|
| `tko_tracker` | 2 destinations, 1 server, threshold 3, 4 failures | counters exact at every step; exactly the responsible destination probes; only it ends a TKO; the code implements `TkoSpec` |
| `tko_mutex` (violation) | the same, threshold 2 | another destination can clear the failure count of a TKO server |
| `destination` | 2 destinations of 1 server, threshold 2 | only the owner probes; state, client and lists agree (`ConnectionsTracked`); counters of states exact; TKO operations used as `TkoSpec` has them |
| `destination_live` | the same, without the inactivity timer | TKO ends if the server answers; requests end |
| `pool_connections` (violation) | the same, statistic within -2 .. 2 | the pool's connection count drifts |
| `event_base` | 3 requests, 2 in flight, 2 pending, 1 retry, 2 faults, both kinds of protocol; 2 writers, 4 messages each, capacity 2 | each fiber gets its own reply; the queues are consistent and within the throttle; no lost writer wakeup; every sendSync returns; no lost wakeup of the loop; every message is handled |
| `mc_client_probe` (violation) | the connection alone, the last request a probe with a shorter timeout | a request that is not the oldest times out on an in-order connection |
| `request_flow` | 2 users with batches of 3, all kinds and both priorities, 2 permits, 1 in processing, 2 waiting | no post and no permit lost; no request waits while a slot is free; order kept; every callback runs once, and for every request |
| `server` | up to 3 items read, 8 contexts, 2 in flight; 3 threads, 2 of them listening, 1 signal | counts exact; ASCII replies in order; all hits or one error; reading is paused exactly while it should be; closed sessions end; shutdown runs once; the server stops |
| `reconfiguration` | 2 proxies, 1 server, 3 generations, 3 attempts; 3 lockers; 2 files, 2 edits, 1 restart | no mutex taken twice; disposal on the proxy's thread; tables exact and nothing left over; a writer is alone and sleepers are woken; no change of a watched file missed; backups were in use |
| `config_hash` (violation) | 2 files, 2 edits | a file without a watch is not checked for a change of its hash |
| `routes` | 5 fibers, routes of 3 and then 2 children, 2 tries, 1 outstanding, 2 lease-sets; 4 children to gather | lease-sets reach the server that gave the token; slots exact; blocked senders take turns; the reply is the one that the route's rule calls for |

Bounds. Two destinations are needed for every race on a tracker, since each
decision compares the word with one's own address or with "another's"; with
threshold 3 the count passes through a value that is neither zero nor the last.
Three requests with two in flight give a batch of two with one more pending, and a
reply for each place in the queue; the run was also made with four. Two faults
allow a connection to fail while the effects of another failure are handled. With
capacity 2 and two writers the queue fills, and each writer is delayed in each of
its places. Batches of three against two permits and one slot make every way of
being refused, waiting or timing out happen. Three generations let a destination
be created, replaced and created again while the first is still being destroyed.
Two edits change a file that is being read and another, or one file twice; the
files were also checked with three edits. One restart lets the process die between
any two dumps. A token, its expiry, and a narrower route need two lease-sets.
The proofs remove the bounds where they apply. Deadlock is not checked where the
bounded work ends; liveness says that it ends in the right place.

Properties with exceptions. `TablesExact` does not speak of a destination or
tracker created while its predecessor was being destroyed (`collided`,
`overwrote`): the code then may erase the new entry or leave it out, as the
section on observations says. `NoChangeMissed` excepts the changes in `unseen`,
and `ServerStops` starts that only some listening threads have managed. Each
exception is a way of the code to fail that was found by the run without it.

Fairness. Weak fairness on what an event loop has ready: fibers, timers, loop
callbacks, the end of connection attempts and writes (both have timeouts). Nothing
is assumed of the server in `McClient`. Strong fairness on `PushMessages` there:
connectSuccess schedules the writer loop before it sets the read callback, so a
connection that is lost again and again does not keep it from writing.
`ProxyDestination` assumes for `TkoEnds` that of the connections and probes tried
again and again some succeed; without that a server is rightly TKO for ever. In
`MessageQueue` threads are scheduled, and the timer fires; a writer need not write.
In `RequestFlow` threads are scheduled and routes answer; in `ServerSession`
handlers reply and the transport accepts or refuses each write; in
`AsyncMcServer` threads are scheduled and sessions end, as `ServerSession` shows,
but nobody has to ask for a shutdown; in `ConfigApi` the threads run.

## The findings

* **The responsible destination has no mutex** (`tko_mutex`). recordSuccess sets
  `sumFailures_` to zero and afterwards clears the failure count; between the two,
  another destination can mark the server TKO. The count is then zero on a TKO
  server, which getSuspectServers leaves out. TkoTracker.h says such races are
  not possible; what it calls critical, that only the responsible one changes
  the TKO state, does hold and is proved.
* **Pool connections drift** (`pool_connections`). onDown subtracts one also for an
  attempt that never connected; a reconfiguration adds one again for a
  destination that is up; GoAway with a probe in flight subtracts two; the
  destructor subtracts nothing.
* **Probes on ASCII connections** (`mc_client_probe`). A probe has its own timeout on
  a connection that only works with equal ones. It needs a request that is still
  waiting when the first probe is sent: a server timeout above
  probe_delay_initial_ms, and a connect timeout that is shorter than it.
* **Files without a watch** (`config_hash`). When a watch cannot be created or is
  given up, a comment promises a check of the hash. checkFileUpdate makes that
  check only in the catch of a provider that throws, once; a file without provider
  is never looked at again.

### Observations

Behaviour met while modelling that contradicts no statement of the repository
strongly enough to be a finding, or that a property has to except:

* A tracker's destructor erases its key after a successor may have taken it, so the
  successor's entry is lost and the next destination of the server gets a second
  tracker. `emplace` in the map of destinations has the same race.
  foreachTkoTracker reads the size of the table outside `mx_` when it reserves.
* `close()` in the middle of a multi-get enables reading again, although the comment
  at McServerSession.cpp:245 expects it to stay off. The callbacks for version and
  quit do not look at `state_`, so the rest of a buffer after quit still makes
  contexts. With single writes a hit may precede the error of its multi-get.
  `maxConns` is not a hard bound.
* With several listening sockets, a thread that fails to listen leaves the tokens of
  one that succeeded where nobody sends them back: join does not return. In another
  order, startAccepting takes the event base of a thread that has ended.
* A change of a file is missed when it falls between the first reading and the
  creation of the watch, when it is found before subscribeToConfigUpdate, or
  when another file makes checkFileUpdate throw after its event was consumed. The
  comment at ConfigApi.cpp:155 expects the thread to finish then; it goes on. A file
  that a failed attempt was the first to import is not watched.
* AllFastestRoute says "fastest non-error reply" and tests isFailoverErrorResult,
  which does not hold for every error.

## The proofs

| Module | Theorem | For every |
|---|---|---|
| `TkoTrackerProofs` | `Invariance`, `TypeCorrect`, `CountersAreExact`, `TkoIsProbed`, `CountersNeverUnderflow`, `CountersSettled`, `OnlyOwnerChanges`, `Refinement` | finite set of destinations, set of servers, positive threshold |
| `CountingSemProofs` | `NoPostIsLost` | set of threads, initial value and largest count |
| `MessageQueueProofs` | `NoWakeupIsLost` | set of writers, capacity |
| `SfrLockProofs` | `WriterIsAlone`, `NoSleeperForgotten` | finite set of threads |
| `DestinationTablesProofs` | `TablesInvariance`, `NeverRelocks`, `DisposesOnProxy` | number of proxies, generations, trackers |

The assumptions are those the modules name. `TkoTracker`: destinations are finitely
many even numbers above the threshold (they are addresses of aligned objects, and a
threshold is small), each belongs to a server, the threshold is positive.
`CountingSem` (`SemAssumption`): the initial value is a natural
number within the largest count, which is positive. `SfrLock` (`LockAssumption`): the threads are
finitely many. `DestinationTables` (`TablesAssumption`): the configuration and
statistics threads are two threads and no proxies, and there is a proxy.

**TKO tracking.** That the counters are exact says nothing of where a destination
is in its call, so it is not inductive: whether a decrement is justified depends on
a check made steps before. `OwnershipAt` records what each place in the code knows,
for example that at "hard.decSoft" the destination owns a hard TKO; it stays true
since others cannot give or take responsibility. `LoopLocals` ties the locals of
the loop of recordSoftFailure to the increment made before the exchange.
`CallsOfTheDead` says what a destructor may still be doing, and
`OwnerOfItsTracker` that a word names a destination of its own server.
`HoldsSoft` and `HoldsHard` give every unit of a counter one destination to
belong to; each step adds or removes at most one of these, and the theorems on
finite sets do the counting. `TkoTrackerSteps` has the lemmas on types and
`TkoTrackerOwnership` those on responsibility and counters, one case per step;
`TkoTrackerProofs` adds that others are left alone, and the refinement, in which the
linearisation point of each operation is its write to `sumFailures_`.

**Semaphore.** `SemInv` says that while anyone sleeps, the count carries the mark -1
or some thread is a carrier: it has taken the mark away and is bound to wake a
sleeper or to put the mark back. The registers of the loops that take permits are
part of it, since a carrier's duty depends on the value it has read.

**Message queue.** `WakeupInv` relates the notifier's state, the eventfd and the
place of each writer: while the reader is about to sleep or asleep, NOTIFIED
means that a notification is there or a writer is about to make one, and a
non-empty queue with EMPTY means that a writer is about to exchange the state.

**sfrlock.** `LockInv` counts: the word is the number of readers inside plus the
write bit, `waiters` the number of threads in the contended paths, so that whoever
leaves and finds waiters zero can leave no sleeper behind.

**Tables.** `TablesInv` says who may hold which mutex and reference at each place of
the configuration and statistics threads; a last reference can then be dropped
under no mutex that its destructor takes, and only where its proxy, or a failed
build, drops it.

Only model-checked: all liveness and fairness, which is outside what the prover
does; ProxyDestination, McClient, ServerSession, AsyncMcServer, ConfigApi and the
routes; of RequestFlow everything but the semaphore; `TablesExact`, whose
exceptions depend on histories. Conversely the type invariant, `NoUnderflow` and
`CountersSettle` of `TkoTracker` are proved and no longer run by TLC.

## Not modelled

The models cover the code in which actors interleave. Most of the repository's
lines are of other kinds, and a state space says little about them:

* byte formats: the ASCII, Caret and umbrella parsers and serialisers, partly
  generated by Ragel, and the Carbon compiler with the messages it generates;
* sequential code without lasting state: the configuration preprocessor, the
  factories of route handles, options, key splitting and hash functions, whose
  32- and 64-bit mixing a small instance does not exercise;
* library code behind thin wrappers: TLS, compression;
* statistics, logging and tools, apart from the counters above;
* routes that only forward to a child or two, or depend on a clock: BigValueRoute,
  lookaside, shadowing, rate limits, warm-up, the times of MigrateRoute;
* the asynchronous log of deletes: files behind a bounded queue and one thread;
* runtime variables: a file observer that creates its watch before it reads.

Within the modelled parts: offloaded TLS handshakes, GoAway replies to a client,
changing timeouts of an open connection and retransmission statistics (their effect,
a closed connection, is a free choice in `OnReply`) of `McClient`; sends made by
callbacks inside pump in `RequestFlow`; the umbrella protocol, lease-get without reply,
pauses by the user, zero copy and several sessions of one worker in
`ServerSession`; keep-alives of the router's VirtualEventBases in
`AsyncMcServer`; constantly_reload_configs and symbolic links in `ConfigApi`; the
rate limiter of failover (a free refusal), several route names and the wrap of
`nextId_` in `LeaseRoute`.
