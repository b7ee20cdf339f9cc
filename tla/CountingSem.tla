---------------------------- MODULE CountingSem ----------------------------
(***************************************************************************)
(* The futex-based counting semaphore of mcrouter/lib/fbi/counting_sem.c,  *)
(* which bounds the requests a CarbonRouterClient has outstanding.         *)
(*                                                                         *)
(* Every atomic access to sem->cnt (load, compare-and-swap) and every      *)
(* futex call is one step, so that the steps of several threads interleave *)
(* as they do in the program.  A thread's registers are latest (the value  *)
(* it saw last), want (the argument n) and got (the value returned).       *)
(*                                                                         *)
(* The kernel's futex is external: FUTEX_WAIT compares and goes to sleep   *)
(* in one step and may return for no reason (a signal); FUTEX_WAKE of one  *)
(* wakes any one of the sleepers.                                          *)
(***************************************************************************)
EXTENDS Integers

CONSTANTS Thread,       \* the threads that use the semaphore
          InitialValue, \* the val given to counting_sem_init
          MaxCount      \* INT32_MAX, where counting_sem_post saturates

ASSUME SemAssumption ==
  /\ InitialValue \in Nat
  /\ MaxCount \in Nat \ {0}
  /\ InitialValue <= MaxCount

VARIABLES cnt,          \* sem->cnt; -1 also means that someone may be asleep
          spc,          \* spc[t]: where thread t is in a semaphore call
          latest,       \* latest[t]: the value of cnt that t saw last
          want,         \* want[t]: how much t asks for or posts
          nonblocking,  \* nonblocking[t]: t called counting_sem_lazy_nonblocking
          got           \* got[t]: the result of t's last lazy call

semVars == <<cnt, spc, latest, want, nonblocking, got>>

\* out: not in a call; fast: the first CAS loop; mark: the CAS of 0 to -1;
\* futex: about to sleep; asleep; reload: the load after the sleep; take: the
\* CAS after a wait; handoff: the wake that passes a surplus on; post and
\* wake: the CAS and the wake of counting_sem_post; ret: about to return.
SemPc == {"out", "fast", "mark", "futex", "asleep", "reload", "take",
          "handoff", "post", "wake", "ret"}

Smaller(a, b) == IF a <= b THEN a ELSE b
Larger(a, b) == IF a >= b THEN a ELSE b

SemTypeOK ==
  /\ cnt \in -1 .. MaxCount
  /\ spc \in [Thread -> SemPc]
  /\ latest \in [Thread -> -1 .. MaxCount]
  /\ want \in [Thread -> Nat]
  /\ nonblocking \in [Thread -> BOOLEAN]
  /\ got \in [Thread -> Nat]

counting_sem_init ==
  /\ cnt = Larger(InitialValue, 0)
  /\ spc = [t \in Thread |-> "out"]
  /\ latest = [t \in Thread |-> 0]
  /\ want = [t \in Thread |-> 0]
  /\ nonblocking = [t \in Thread |-> FALSE]
  /\ got = [t \in Thread |-> 0]

At(t, pc) == spc[t] = pc
Go(t, pc) == spc' = [spc EXCEPT ![t] = pc]
Asleep == {t \in Thread : At(t, "asleep")}

\* Where a wait goes on after seeing v: to the CAS when there is something to
\* take, to the futex when the value is marked, and to the marking otherwise.
WaitAt(v) == IF v > 0 THEN "take" ELSE IF v = 0 THEN "mark" ELSE "futex"

\* Where the first loop goes on after seeing v.
FastAt(v, nb) == IF v > 0 THEN "fast" ELSE IF nb THEN "ret" ELSE WaitAt(v)

\* FUTEX_WAKE of one thread, by thread t, which goes on at pc.
WakeOne(t, pc) ==
  \/ /\ Asleep = {}
     /\ Go(t, pc)
  \/ \E s \in Asleep : spc' = [spc EXCEPT ![t] = pc, ![s] = "reload"]

-----------------------------------------------------------------------------
\* counting_sem_lazy_helper(sem, n, nb): the call, up to the first load.
LazyCall(t, n, nb) ==
  /\ At(t, "out")
  /\ want' = [want EXCEPT ![t] = n]
  /\ nonblocking' = [nonblocking EXCEPT ![t] = nb]
  /\ got' = [got EXCEPT ![t] = 0]
  /\ latest' = [latest EXCEPT ![t] = cnt]
  /\ Go(t, IF n <= 0 THEN "ret" ELSE FastAt(cnt, nb))
  /\ UNCHANGED cnt

\* The CAS of the first loop: take what is there, or look again.
LazyFast(t) ==
  /\ At(t, "fast")
  /\ LET attempt == Smaller(want[t], latest[t]) IN
       \/ /\ cnt = latest[t]
          /\ cnt' = cnt - attempt
          /\ got' = [got EXCEPT ![t] = attempt]
          /\ Go(t, "ret")
          /\ UNCHANGED latest
       \/ /\ cnt /= latest[t]
          /\ latest' = [latest EXCEPT ![t] = cnt]
          /\ Go(t, FastAt(cnt, nonblocking[t]))
          /\ UNCHANGED <<cnt, got>>
  /\ UNCHANGED <<want, nonblocking>>

\* The CAS of 0 to -1, which returns the old value.
LazyMark(t) ==
  /\ At(t, "mark")
  /\ cnt' = IF cnt = 0 THEN -1 ELSE cnt
  /\ latest' = [latest EXCEPT ![t] = cnt]
  /\ Go(t, IF cnt <= 0 THEN "futex" ELSE "take")
  /\ UNCHANGED <<want, nonblocking, got>>

\* FUTEX_WAIT for -1: sleeps if cnt still is -1, returns at once otherwise.
FutexWait(t) ==
  /\ At(t, "futex")
  /\ Go(t, IF cnt = -1 THEN "asleep" ELSE "reload")
  /\ UNCHANGED <<cnt, latest, want, nonblocking, got>>

\* A FUTEX_WAIT that returns without a wake.
SpuriousWake(t) ==
  /\ At(t, "asleep")
  /\ Go(t, "reload")
  /\ UNCHANGED <<cnt, latest, want, nonblocking, got>>

\* The load after FUTEX_WAIT.
LazyReload(t) ==
  /\ At(t, "reload")
  /\ latest' = [latest EXCEPT ![t] = cnt]
  /\ Go(t, WaitAt(cnt))
  /\ UNCHANGED <<cnt, want, nonblocking, got>>

\* Mutant: the wait leaves 0 behind, so that no post wakes the others.
LeftAfterPlain(value, attempt) == value - attempt

\* What the CAS after a wait leaves: never 0, because others may be asleep.
LeftAfter(value, attempt) ==
  IF value - attempt = 0 THEN -1 ELSE value - attempt

LazyTake(t) ==
  /\ At(t, "take")
  /\ LET attempt == Smaller(want[t], latest[t])
         next == LeftAfter(latest[t], attempt)
     IN \/ /\ cnt = latest[t]
           /\ cnt' = next
           /\ got' = [got EXCEPT ![t] = attempt]
           /\ Go(t, IF next > 0 THEN "handoff" ELSE "ret")
           /\ UNCHANGED latest
        \/ /\ cnt /= latest[t]
           /\ latest' = [latest EXCEPT ![t] = cnt]
           /\ Go(t, WaitAt(cnt))
           /\ UNCHANGED <<cnt, got>>
  /\ UNCHANGED <<want, nonblocking>>

\* The semaphore is still positive: wake another waiter before returning.
LazyHandoff(t) ==
  /\ At(t, "handoff")
  /\ WakeOne(t, "ret")
  /\ UNCHANGED <<cnt, latest, want, nonblocking, got>>

\* counting_sem_post(sem, n), up to the first load.
PostCall(t, n) ==
  /\ At(t, "out")
  /\ want' = [want EXCEPT ![t] = n]
  /\ latest' = [latest EXCEPT ![t] = cnt]
  /\ Go(t, IF n <= 0 THEN "ret" ELSE "post")
  /\ UNCHANGED <<cnt, nonblocking, got>>

\* The CAS of counting_sem_post.
PostCas(t) ==
  /\ At(t, "post")
  /\ LET base == Larger(latest[t], 0)
         next == base + Smaller(want[t], MaxCount - base)
     IN \/ /\ cnt = latest[t]
           /\ cnt' = next
           /\ Go(t, IF latest[t] < 0 THEN "wake" ELSE "ret")
           /\ UNCHANGED latest
        \/ /\ cnt /= latest[t]
           /\ latest' = [latest EXCEPT ![t] = cnt]
           /\ UNCHANGED <<cnt, spc>>
  /\ UNCHANGED <<want, nonblocking, got>>

PostWake(t) ==
  /\ At(t, "wake")
  /\ WakeOne(t, "ret")
  /\ UNCHANGED <<cnt, latest, want, nonblocking, got>>

\* The steps a thread takes inside a call, a spurious wake-up apart.
SemStep(t) ==
  \/ LazyFast(t) \/ LazyMark(t) \/ FutexWait(t) \/ LazyReload(t)
  \/ LazyTake(t) \/ LazyHandoff(t) \/ PostCas(t) \/ PostWake(t)

\* The return of the call.
SemReturn(t) ==
  /\ At(t, "ret")
  /\ Go(t, "out")
  /\ UNCHANGED <<cnt, latest, want, nonblocking, got>>

-----------------------------------------------------------------------------
\* The semaphore on its own: threads that wait for and post any amounts.
SemNext ==
  \E t \in Thread :
    \/ \E n \in Nat, nb \in BOOLEAN : LazyCall(t, n, nb)
    \/ \E n \in Nat : PostCall(t, n)
    \/ SemStep(t)
    \/ SpuriousWake(t)
    \/ SemReturn(t)

SemSpec == counting_sem_init /\ [][SemNext]_semVars

-----------------------------------------------------------------------------
\* A thread that is bound to look at the semaphore again, to put the mark -1
\* back or to wake a sleeper.
Carrier == {t \in Thread :
              spc[t] \in {"mark", "futex", "reload", "take", "handoff", "wake"}}

\* While a thread sleeps in counting_sem_lazy_wait, either the semaphore is
\* marked, so that the next counting_sem_post wakes a sleeper, or a thread is
\* under way that wakes one or marks it again: no post is lost on a sleeper,
\* in whatever order the loads, compare-and-swaps and futex calls interleave.
NoLostPost == Asleep /= {} => cnt = -1 \/ Carrier /= {}
=============================================================================
