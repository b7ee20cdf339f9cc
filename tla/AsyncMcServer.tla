--------------------------- MODULE AsyncMcServer ---------------------------
(***************************************************************************)
(* How the standalone server starts and stops: AsyncMcServer with its      *)
(* worker threads (McServerThread), the promises that hold them back       *)
(* (McServerThreadSpawnController), the pipe of the signal handler         *)
(* (ShutdownPipe), and runServer, which drives them from the main thread.  *)
(*                                                                         *)
(* The threads are 0 .. NumThreads - 1; the first NumListening listen.     *)
(* A listening thread holds a keep-alive token on the event base of every  *)
(* thread, and a thread's event base can be destroyed only when nobody     *)
(* does.  What a worker does with connections is in ServerSession; here    *)
(* its loop goes on until the worker was shut down, and then ends.         *)
(***************************************************************************)
EXTENDS Integers, FiniteSets

CONSTANTS NumThreads,    \* opts_.numThreads
          NumListening,  \* opts_.numListeningSockets
          Signal         \* the signals the handler is installed for

ServerThread == 0 .. NumThreads - 1
Accepting(t) == t < NumListening
Caller == ServerThread \cup {-1}      \* -1 is the main thread

ASSUME ServerAssumption ==
  NumThreads \in Nat /\ NumListening \in 1 .. NumThreads

VARIABLES mpc,        \* where the main thread is in runServer and spawn
          seen,       \* what spawn read in signalShutdownState_
          tpc,        \* tpc[t]: where thread t is
          running,    \* runningPromise_: unset, value or exception
          acceptor,   \* acceptorPromise_
          listening,  \* listeningThreadCount
          held,       \* <<a, t>>: acceptorsKeepAlive_ of a has a token on t
          dropping,   \* <<a, t>>: that token was sent to t to be released
          sigState,   \* signalShutdownState_
          hpc,        \* hpc[g]: where the handler of signal g is
          hseen,      \* hseen[g]: what it read in signalShutdownState_
          pipe,       \* the eventfd of threads_[0] was written
          watching,   \* its handler is registered
          called,     \* handlerReady has queued a call of shutdown
          alive,      \* alive_
          told,       \* how often onShutdown_ has run
          at,         \* at[c]: where caller c is in shutdown
          stopping,   \* stopping[t]: McServerThread::shutdown is queued at t
          working,    \* working[t]: worker_.isAlive()
          dangling    \* an event base was used that is being destroyed

threadVars == <<tpc, running, acceptor, listening, held, dropping, dangling>>
signalVars == <<sigState, hpc, hseen, pipe, watching, called>>
shutdownVars == <<alive, told, at, stopping, working>>
srvVars == <<mpc, seen, threadVars, signalVars, shutdownVars>>

Out == -1        \* not in shutdown
Telling == -2    \* in shutdown, before onShutdown_

\* The main thread starts at pc, which is "construct".
SrvStart(pc) ==
  /\ mpc = pc /\ seen = "none"
  /\ tpc = [t \in ServerThread |-> "waitToStart"]
  /\ running = "unset" /\ acceptor = "unset" /\ listening = 0
  /\ held = {} /\ dropping = {} /\ dangling = FALSE
  /\ sigState = "STARTUP"
  /\ hpc = [g \in Signal |-> "idle"] /\ hseen = [g \in Signal |-> "none"]
  /\ pipe = FALSE /\ watching = TRUE /\ called = FALSE
  /\ alive = TRUE /\ told = 0
  /\ at = [c \in Caller |-> Out]
  /\ stopping = [t \in ServerThread |-> FALSE]
  /\ working = [t \in ServerThread |-> TRUE]

srv_init == SrvStart("construct")

ThreadGo(t, pc) == tpc' = [tpc EXCEPT ![t] = pc]

-----------------------------------------------------------------------------
(* shutdown, called by the main thread or on a worker's thread.            *)

\* Mutant: alive_ is read and then written.
EnterTwice(c) ==
  /\ alive' = FALSE
  /\ at' = [at EXCEPT ![c] = Telling]

\* alive_.exchange(false): whoever comes second returns.
EnterShutdown(c) ==
  /\ alive' = FALSE
  /\ at' = IF alive THEN [at EXCEPT ![c] = Telling] ELSE at

OnShutdown(c) ==
  /\ at[c] = Telling
  /\ told' = told + 1
  /\ at' = [at EXCEPT ![c] = 0]
  /\ UNCHANGED <<mpc, seen, threadVars, signalVars, alive, stopping, working>>

\* McServerThread::shutdown, on the thread itself: it stops listening, sends
\* its tokens back, and shuts the worker down.
StopHere(t) ==
  /\ held' = {x \in held : x[1] /= t}
  /\ dropping' = dropping \cup {x \in held : x[1] = t}
  /\ watching' = (watching /\ t /= 0)
  /\ working' = [working EXCEPT ![t] = FALSE]

\* One turn of the loop over threads_.  runInEventBaseThread calls at once on
\* the event base's own thread.
ShutdownThread(c) ==
  /\ at[c] \in ServerThread
  /\ at' = [at EXCEPT ![c] = IF @ + 1 < NumThreads THEN @ + 1 ELSE Out]
  /\ dangling' = (dangling \/ tpc[at[c]] \in {"reset", "done"})
  /\ IF at[c] = c
     THEN StopHere(c) /\ UNCHANGED stopping
     ELSE /\ stopping' = [stopping EXCEPT ![at[c]] = TRUE]
          /\ UNCHANGED <<held, dropping, watching, working>>
  /\ UNCHANGED <<mpc, seen, tpc, running, acceptor, listening, sigState, hpc,
                 hseen, pipe, called, alive, told>>

-----------------------------------------------------------------------------
(* The threads.                                                            *)

WaitToStart(t) ==
  /\ tpc[t] = "waitToStart" /\ running /= "unset"
  /\ ThreadGo(t, IF running = "exception" THEN "reset"
                 ELSE IF Accepting(t) THEN "listen" ELSE "await")
  /\ UNCHANGED <<mpc, seen, running, acceptor, listening, held, dropping,
                 dangling, signalVars, shutdownVars>>

\* startAccepting: sockets are bound and listen, then every thread's event
\* base gets a token.  A thread that has failed to start destroys its own.
Listen(t) ==
  /\ tpc[t] = "listen"
  /\ held' = held \cup ({t} \X ServerThread)
  /\ dangling' = (dangling \/ \E u \in ServerThread : tpc[u] \in {"reset", "done"})
  /\ ThreadGo(t, "listened")
  /\ UNCHANGED <<mpc, seen, running, acceptor, listening, dropping, signalVars,
                 shutdownVars>>

\* Binding fails.  If the promise was set already, set_exception throws in its
\* turn; either way the thread ends.
ListenFails(t) ==
  /\ tpc[t] = "listen"
  /\ acceptor' = IF acceptor = "unset" THEN "exception" ELSE acceptor
  /\ ThreadGo(t, "reset")
  /\ UNCHANGED <<mpc, seen, running, listening, held, dropping, dangling,
                 signalVars, shutdownVars>>

Listened(t) ==
  /\ tpc[t] = "listened"
  /\ listening' = listening + 1
  /\ IF listening' = NumListening
     THEN acceptor' = "value" /\ ThreadGo(t, "loop")
     ELSE UNCHANGED acceptor /\ ThreadGo(t, "await")
  /\ UNCHANGED <<mpc, seen, running, held, dropping, dangling, signalVars,
                 shutdownVars>>

WaitForAcceptor(t) ==
  /\ tpc[t] = "await" /\ acceptor /= "unset"
  /\ ThreadGo(t, IF acceptor = "value" THEN "loop" ELSE "reset")
  /\ UNCHANGED <<mpc, seen, running, acceptor, listening, held, dropping,
                 dangling, signalVars, shutdownVars>>

\* A loop of an event base, in fn_ or in its own destructor.
Looping(t) == tpc[t] \in {"loop", "reset"}

RunStop(t) ==
  /\ Looping(t) /\ stopping[t] /\ at[t] = Out
  /\ stopping' = [stopping EXCEPT ![t] = FALSE]
  /\ StopHere(t)
  /\ UNCHANGED <<mpc, seen, tpc, running, acceptor, listening, dangling,
                 sigState, hpc, hseen, pipe, called, alive, told, at>>

DropTokens(t) ==
  /\ Looping(t) /\ \E x \in dropping : x[2] = t
  /\ dropping' = {x \in dropping : x[2] /= t}
  /\ UNCHANGED <<mpc, seen, tpc, running, acceptor, listening, held, dangling,
                 signalVars, shutdownVars>>

\* A client asks the server to shut down.
ShutdownOperation(t) ==
  /\ tpc[t] = "loop" /\ working[t] /\ at[t] = Out
  /\ EnterShutdown(t)
  /\ UNCHANGED <<mpc, seen, threadVars, signalVars, told, stopping, working>>

\* handlerReady of the pipe, and the call that it queues.
HandlerReady ==
  /\ Looping(0) /\ pipe /\ watching
  /\ watching' = FALSE /\ called' = TRUE
  /\ UNCHANGED <<mpc, seen, threadVars, sigState, hpc, hseen, pipe, shutdownVars>>

RunCall ==
  /\ Looping(0) /\ called /\ at[0] = Out
  /\ called' = FALSE
  /\ EnterShutdown(0)
  /\ UNCHANGED <<mpc, seen, threadVars, sigState, hpc, hseen, pipe, watching,
                 told, stopping, working>>

\* fn_ returns: the worker is shut down and nothing is left to write.
LoopEnds(t) ==
  /\ tpc[t] = "loop" /\ ~working[t] /\ at[t] = Out
  /\ ThreadGo(t, "reset")
  /\ held' = {x \in held : x[1] /= t}
  /\ dropping' = dropping \cup {x \in held : x[1] = t}
  /\ UNCHANGED <<mpc, seen, running, acceptor, listening, dangling, signalVars,
                 shutdownVars>>

\* evb_.reset() returns when no token is left.
ResetEventBase(t) ==
  /\ tpc[t] = "reset"
  /\ \A x \in held \cup dropping : x[2] /= t
  /\ ThreadGo(t, "done")
  /\ UNCHANGED <<mpc, seen, running, acceptor, listening, held, dropping,
                 dangling, signalVars, shutdownVars>>

-----------------------------------------------------------------------------
(* The signal handler, on any thread.                                      *)

SignalArrives(g) ==
  /\ mpc \notin {"construct", "joined"} /\ hpc[g] = "idle"
  /\ hpc' = [hpc EXCEPT ![g] = "act"]
  /\ hseen' = [hseen EXCEPT ![g] = sigState]
  /\ UNCHANGED <<mpc, seen, threadVars, sigState, pipe, watching, called,
                 shutdownVars>>

SignalActs(g) ==
  /\ hpc[g] = "act"
  /\ IF hseen[g] = "SPAWNED"
     THEN /\ pipe' = TRUE
          /\ hpc' = [hpc EXCEPT ![g] = "done"]
          /\ UNCHANGED <<sigState, hseen>>
     ELSE IF hseen[g] = sigState
     THEN /\ sigState' = "SHUTDOWN"
          /\ hpc' = [hpc EXCEPT ![g] = "done"]
          /\ UNCHANGED <<pipe, hseen>>
     ELSE /\ hseen' = [hseen EXCEPT ![g] = sigState]
          /\ UNCHANGED <<sigState, pipe, hpc>>
  /\ UNCHANGED <<mpc, seen, threadVars, watching, called, shutdownVars>>

-----------------------------------------------------------------------------
(* The main thread: runServer.                                             *)

InstallShutdownHandler ==
  /\ mpc = "construct"
  /\ mpc' = "init"
  /\ UNCHANGED <<seen, threadVars, signalVars, shutdownVars>>

\* CarbonRouterInstance::init fails; join aborts the threads.
RouterFails ==
  /\ mpc = "init"
  /\ running' = "exception"
  /\ mpc' = "join"
  /\ UNCHANGED <<seen, tpc, acceptor, listening, held, dropping, dangling,
                 signalVars, shutdownVars>>

StartRunning ==
  /\ mpc = "init"
  /\ running' = "value"
  /\ mpc' = "acceptor"
  /\ UNCHANGED <<seen, tpc, acceptor, listening, held, dropping, dangling,
                 signalVars, shutdownVars>>

SpawnWaits ==
  /\ mpc = "acceptor" /\ acceptor /= "unset"
  /\ mpc' = IF acceptor = "value" THEN "state" ELSE "join"
  /\ seen' = sigState
  /\ UNCHANGED <<threadVars, signalVars, shutdownVars>>

\* Mutant: SPAWNED is stored without looking again.
SpawnStores ==
  /\ mpc = "state"
  /\ IF seen = "SHUTDOWN"
     THEN EnterShutdown(-1) /\ mpc' = "baton" /\ UNCHANGED <<seen, sigState>>
     ELSE sigState' = "SPAWNED" /\ mpc' = "baton" /\ UNCHANGED <<seen, alive, at>>
  /\ UNCHANGED <<threadVars, hpc, hseen, pipe, watching, called, told, stopping,
                 working>>

\* The loop around the compare-and-exchange from STARTUP to SPAWNED.
SpawnSettles ==
  /\ mpc = "state"
  /\ IF seen = "SHUTDOWN"
     THEN EnterShutdown(-1) /\ mpc' = "baton" /\ UNCHANGED <<seen, sigState>>
     ELSE IF seen = sigState
     THEN sigState' = "SPAWNED" /\ mpc' = "baton" /\ UNCHANGED <<seen, alive, at>>
     ELSE seen' = sigState /\ UNCHANGED <<mpc, sigState, alive, at>>
  /\ UNCHANGED <<threadVars, hpc, hseen, pipe, watching, called, told, stopping,
                 working>>

\* shutdownBaton.wait(), posted by onShutdown_.
BatonPosted ==
  /\ mpc = "baton" /\ at[-1] = Out /\ told > 0
  /\ mpc' = "join"
  /\ UNCHANGED <<seen, threadVars, signalVars, shutdownVars>>

Join ==
  /\ mpc = "join" /\ \A t \in ServerThread : tpc[t] = "done"
  /\ mpc' = "joined"
  /\ UNCHANGED <<seen, threadVars, signalVars, shutdownVars>>

-----------------------------------------------------------------------------
SrvThread(t) ==
  \/ WaitToStart(t) \/ Listened(t) \/ WaitForAcceptor(t) \/ RunStop(t)
  \/ DropTokens(t) \/ LoopEnds(t) \/ ResetEventBase(t)

SrvShutdown(c) == OnShutdown(c) \/ ShutdownThread(c)

SrvMain ==
  InstallShutdownHandler \/ SpawnWaits \/ SpawnSettles \/ BatonPosted \/ Join

SrvLoop0 == HandlerReady \/ RunCall

\* What follows the use of a dead event base is not followed up.
SrvNext ==
  /\ ~dangling
  /\ \/ \E t \in ServerThread :
           SrvThread(t) \/ Listen(t) \/ ListenFails(t) \/ ShutdownOperation(t)
     \/ \E c \in Caller : SrvShutdown(c)
     \/ \E g \in Signal : SignalArrives(g) \/ SignalActs(g)
     \/ SrvLoop0 \/ SrvMain \/ RouterFails \/ StartRunning

\* Threads are scheduled, event bases loop, and sessions end (which is what
\* ServerSession shows); nobody has to send a signal or a request.
SrvFairness ==
  /\ \A t \in ServerThread :
       WF_srvVars(~dangling /\ SrvThread(t)) /\ WF_srvVars(~dangling /\ (Listen(t) \/ ListenFails(t)))
  /\ \A c \in Caller : WF_srvVars(~dangling /\ SrvShutdown(c))
  /\ \A g \in Signal : WF_srvVars(~dangling /\ SignalActs(g))
  /\ WF_srvVars(~dangling /\ SrvLoop0) /\ WF_srvVars(~dangling /\ SrvMain)
  /\ WF_srvVars(~dangling /\ (RouterFails \/ StartRunning))

SrvSpec == srv_init /\ [][SrvNext]_srvVars /\ SrvFairness

-----------------------------------------------------------------------------
\* onShutdown_ runs once at most, however many signals and clients ask for a
\* shutdown and whether or not they overtake spawn, and no worker is stopped
\* before it has completed (AsyncMcServer.h: "Worker threads will be stopped
\* only after the callback completes", "executed exactly one time").
ShutdownOnce ==
  /\ told <= 1
  /\ \A t \in ServerThread : stopping[t] \/ ~working[t] => told = 1

\* Some thread listens although another one could not: its tokens are never
\* sent back, because both places that do so come after a successful start.
Stranded == acceptor = "exception" /\ held /= {}

\* Once a signal has arrived, a client has asked for a shutdown or the start
\* has failed, all event bases are destroyed, all threads end and join
\* returns.  The exceptions are starts that only some listening threads have
\* managed: their tokens are stranded, or name an event base already gone.
ServerStops ==
  (~alive \/ acceptor = "exception" \/ running = "exception"
     \/ \E g \in Signal : hpc[g] /= "idle")
  ~> (mpc = "joined" \/ Stranded \/ dangling)
=============================================================================
