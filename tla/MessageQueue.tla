----------------------------- MODULE MessageQueue -----------------------------
(***************************************************************************)
(* MessageQueue and its Notifier: client threads hand requests to the      *)
(* event base thread of a proxy, and wake it only if it may be asleep.     *)
(*                                                                         *)
(* A step is one access to shared state: the queue (folly::MPMCQueue, a    *)
(* bounded FIFO), the atomic state_ or the eventfd efd_.  The reader is    *)
(* the event base: before every loop it drains the queue, then it polls,   *)
(* and blocks in the poll unless fibers or flushes are waiting to be run.  *)
(* The rate that decides how many relaxed writes notify is left out: such  *)
(* a write may or may not.                                                 *)
(***************************************************************************)
EXTENDS Integers, FiniteSets, Sequences

CONSTANTS
    Writer,      \* the threads that write
    Capacity,    \* capacity of the queue
    MaxMessages  \* bound of the model on the messages of a writer

VARIABLES
    relaxed,   \* noNotifyRate_ > 0, which also makes the timer waitTimeout_
    queue,     \* queue_: the messages, each known by its writer
    state,     \* Notifier::state_
    efd,       \* the count of the eventfd efd_
    wpc,       \* wpc[w]: the next step of writer w
    sent,      \* sent[w]: the messages w has put into the queue
    rpc,       \* the next step of the reader
    tasks,     \* fibers to run or writes to flush, so the loop will not block
    handled    \* handled[w]: the messages of w given to onMessage_

queueVars == <<relaxed, queue, state, efd, wpc, sent, rpc, tasks, handled>>

\* The reader starts at pc, which is "store".
QueueStart(pc) ==
    /\ relaxed \in BOOLEAN
    /\ queue = <<>>
    /\ state = "EMPTY"
    /\ efd = 0
    /\ wpc = [w \in Writer |-> "write"]
    /\ sent = [w \in Writer |-> 0]
    /\ rpc = pc
    /\ tasks = FALSE
    /\ handled = [w \in Writer |-> 0]

QueueInit == QueueStart("store")

-----------------------------------------------------------------------------
(* Writers: blockingWrite and blockingWriteRelaxed.                        *)

Write(w) ==
    /\ wpc[w] = "write"
    /\ sent[w] < MaxMessages
    /\ Len(queue) < Capacity
    /\ queue' = Append(queue, w)
    /\ sent' = [sent EXCEPT ![w] = @ + 1]
    /\ wpc' = [wpc EXCEPT ![w] = "shouldNotify"]
    /\ UNCHANGED <<relaxed, state, efd, rpc, tasks, handled>>

(* shouldNotify: the exchange of state_.                                   *)
ShouldNotify(w) ==
    /\ wpc[w] = "shouldNotify"
    /\ state' = "NOTIFIED"
    /\ wpc' = [wpc EXCEPT ![w] = IF state = "EMPTY" THEN "doNotify" ELSE "write"]
    /\ UNCHANGED <<relaxed, queue, efd, sent, rpc, tasks, handled>>

(* shouldNotifyRelaxed lets this message wait for the timer.               *)
ShouldNotNotify(w) ==
    /\ relaxed
    /\ wpc[w] = "shouldNotify"
    /\ wpc' = [wpc EXCEPT ![w] = "write"]
    /\ UNCHANGED <<relaxed, queue, state, efd, sent, rpc, tasks, handled>>

DoNotify(w) ==
    /\ wpc[w] = "doNotify"
    /\ efd' = efd + 1
    /\ wpc' = [wpc EXCEPT ![w] = "write"]
    /\ UNCHANGED <<relaxed, queue, state, sent, rpc, tasks, handled>>

-----------------------------------------------------------------------------
(* The reader: drainWhileNonEmpty, then the poll of the event base.        *)

Store ==
    /\ rpc = "store"
    /\ state' = "READING"
    /\ rpc' = "read"
    /\ UNCHANGED <<relaxed, queue, efd, wpc, sent, tasks, handled>>

(* drainImpl: a message is taken; handling it may add a fiber.             *)
Read ==
    /\ rpc = "read"
    /\ queue # <<>>
    /\ queue' = Tail(queue)
    /\ handled' = [handled EXCEPT ![Head(queue)] = @ + 1]
    /\ tasks' \in {tasks, TRUE}
    /\ UNCHANGED <<relaxed, state, efd, wpc, sent, rpc>>

ReadNothing ==
    /\ rpc = "read"
    /\ queue = <<>>
    /\ rpc' = "load"
    /\ UNCHANGED <<relaxed, queue, state, efd, wpc, sent, tasks, handled>>

(* postDrainCallback_(false), which is TRUE if the loop will not block, and *)
(* the load of state_.  A loop that will not block leaves READING behind.  *)
Load ==
    /\ rpc = "load"
    /\ rpc' = IF state # "READING" THEN "store"
              ELSE IF tasks THEN "poll" ELSE "cas"
    /\ UNCHANGED <<relaxed, queue, state, efd, wpc, sent, tasks, handled>>

(* Mutant: a plain store of EMPTY in place of the compare-and-exchange.    *)
CasStore ==
    /\ rpc = "cas"
    /\ state' = "EMPTY"
    /\ rpc' = "poll"
    /\ UNCHANGED <<relaxed, queue, efd, wpc, sent, tasks, handled>>

(* Mutant: state_ is left as it is when the compare-and-exchange fails.    *)
CasGivesUp ==
    /\ rpc = "cas"
    /\ state' = IF state = "READING" THEN "EMPTY" ELSE state
    /\ rpc' = "poll"
    /\ UNCHANGED <<relaxed, queue, efd, wpc, sent, tasks, handled>>

Cas ==
    /\ rpc = "cas"
    /\ IF state = "READING"
       THEN state' = "EMPTY" /\ rpc' = "poll"
       ELSE UNCHANGED state /\ rpc' = "store"
    /\ UNCHANGED <<relaxed, queue, efd, wpc, sent, tasks, handled>>

(* The poll finds the eventfd readable (onEvent), or does not block; then  *)
(* the fibers run.  The next loop starts with draining.                    *)
Poll ==
    /\ rpc = "poll"
    /\ efd > 0 \/ tasks
    /\ efd' = IF efd > 0 THEN efd - 1 ELSE 0
    /\ tasks' = FALSE
    /\ rpc' = "store"
    /\ UNCHANGED <<relaxed, queue, state, wpc, sent, handled>>

(* waitTimeout_ alone wakes the loop, drains the queue and is scheduled    *)
(* again.                                                                  *)
WaitTimeout ==
    /\ relaxed
    /\ rpc = "poll"
    /\ efd = 0 /\ ~tasks
    /\ rpc' = "store"
    /\ UNCHANGED <<relaxed, queue, state, efd, wpc, sent, tasks, handled>>

QueueNext ==
    \/ \E w \in Writer :
          Write(w) \/ ShouldNotify(w) \/ ShouldNotNotify(w) \/ DoNotify(w)
    \/ Store \/ Read \/ ReadNothing \/ Load \/ Cas \/ Poll \/ WaitTimeout

QueueSpec == QueueInit /\ [][QueueNext]_queueVars

(* Threads are scheduled; a timer that is scheduled fires.                 *)
QueueFairness ==
    /\ \A w \in Writer : WF_queueVars(ShouldNotify(w)) /\ WF_queueVars(DoNotify(w))
    /\ WF_queueVars(Store) /\ WF_queueVars(Read) /\ WF_queueVars(ReadNothing) /\ WF_queueVars(Load)
    /\ WF_queueVars(Cas) /\ WF_queueVars(Poll) /\ WF_queueVars(WaitTimeout)

QueueFairSpec == QueueSpec /\ QueueFairness

-----------------------------------------------------------------------------
(* Properties.                                                             *)

(* The reader never sleeps on a message: while it is blocked in the poll   *)
(* with a message in the queue, the eventfd is readable, or the writer     *)
(* that makes it so is on its way.  Without relaxed writes, that is.       *)
NoLostWakeup ==
    ~relaxed /\ rpc = "poll" /\ ~tasks /\ queue # <<>> =>
        \/ efd > 0
        \/ \E w \in Writer :
              \/ wpc[w] = "doNotify"
              \/ wpc[w] = "shouldNotify" /\ state = "EMPTY"

(* Every message that was put into the queue is handled.                   *)
AllHandled ==
    \A w \in Writer, n \in 1 .. MaxMessages :
        (sent[w] >= n) ~> (handled[w] >= n)
=============================================================================
