------------------------------- MODULE SfrLock ------------------------------
(***************************************************************************)
(* The futex-based reader-writer lock of mcrouter/lib/fbi/sfrlock.h and    *)
(* sfrlock.c, under which proxies read and replace their configuration     *)
(* (configLock_), callbacks are registered and AsyncWriter is stopped.     *)
(*                                                                         *)
(* The word lock->value is the pair of its fields: the write bit and the   *)
(* reader count, which are read and changed together.  Every atomic access *)
(* to value or waiters and every futex call is one step.  The contended    *)
(* paths of readers and writers are the same up to the value they store,   *)
(* and share their steps here.  The reader count does not overflow: it is  *)
(* at most the number of threads, far below 2^31.                          *)
(*                                                                         *)
(* The kernel's futex is external: FUTEX_WAIT compares and goes to sleep   *)
(* in one step and may return for no reason; FUTEX_WAKE of INT_MAX wakes   *)
(* every sleeper.                                                          *)
(***************************************************************************)
EXTENDS Integers, FiniteSets

CONSTANT Locker     \* the threads that use the lock

ASSUME LockAssumption == IsFiniteSet(Locker)

VARIABLES value,    \* lock->value: <<write bit, reader count>>
          waiters,  \* lock->waiters
          lpc,      \* lpc[t]: where thread t is
          side,     \* side[t]: "read" or "write", the lock that t asked for
          oldv      \* oldv[t]: the register oldv of t's call

lockVars == <<value, waiters, lpc, side, oldv>>

\* out: not in the lock; fast: the CAS of sfrlock_rdlock; enter, load, futex,
\* asleep, cas, leave: the contended paths; dfutex, dasleep, dload: the wait of
\* a writer for the readers; in: holds the lock; check: between the release of
\* the write lock and the test of waiters; wake: about to call FUTEX_WAKE.
LockPc == {"out", "fast", "enter", "load", "futex", "asleep", "cas", "leave",
           "dfutex", "dasleep", "dload", "in", "check", "wake"}

Word == {0, 1} \X Nat

WriteLocked(v) == v[1] = 1
Readers(v) == v[2]

sfrlock_init ==
  /\ value = <<0, 0>>
  /\ waiters = 0
  /\ lpc = [t \in Locker |-> "out"]
  /\ side = [t \in Locker |-> "read"]
  /\ oldv = [t \in Locker |-> <<0, 0>>]

LockAt(t, pc) == lpc[t] = pc
LockGo(t, pc) == lpc' = [lpc EXCEPT ![t] = pc]

\* Thread t reads lock->value into oldv.
See(t) == oldv' = [oldv EXCEPT ![t] = value]

\* Where the contended loops go on after seeing v.
LoopAt(v) == IF WriteLocked(v) THEN "futex" ELSE "cas"

\* Where a writer that waits for the readers goes on after seeing v.
DrainAt(v) == IF Readers(v) = 0 THEN "leave" ELSE "dfutex"

-----------------------------------------------------------------------------
\* sfrlock_rdlock: the first read of value.
RdLock(t) ==
  /\ LockAt(t, "out")
  /\ See(t)
  /\ side' = [side EXCEPT ![t] = "read"]
  /\ LockGo(t, IF WriteLocked(value) THEN "enter" ELSE "fast")
  /\ UNCHANGED <<value, waiters>>

\* The CAS loop of sfrlock_rdlock.
RdFast(t) ==
  /\ LockAt(t, "fast")
  /\ \/ /\ value = oldv[t]
        /\ value' = <<value[1], Readers(value) + 1>>
        /\ LockGo(t, "in")
        /\ UNCHANGED oldv
     \/ /\ value /= oldv[t]
        /\ See(t)
        /\ LockGo(t, IF WriteLocked(value) THEN "enter" ELSE "fast")
        /\ UNCHANGED value
  /\ UNCHANGED <<waiters, side>>

\* sfrlock_wrlock: the CAS from the free lock.
WrLock(t) ==
  /\ LockAt(t, "out")
  /\ side' = [side EXCEPT ![t] = "write"]
  /\ \/ /\ value = <<0, 0>>
        /\ value' = <<1, 0>>
        /\ LockGo(t, "in")
     \/ /\ value /= <<0, 0>>
        /\ LockGo(t, "enter")
        /\ UNCHANGED value
  /\ UNCHANGED <<waiters, oldv>>

\* The contended paths: waiters is incremented, value is read.
Enter(t) ==
  /\ LockAt(t, "enter")
  /\ waiters' = waiters + 1
  /\ LockGo(t, "load")
  /\ UNCHANGED <<value, side, oldv>>

LockLoad(t) ==
  /\ LockAt(t, "load")
  /\ See(t)
  /\ LockGo(t, LoopAt(value))
  /\ UNCHANGED <<value, waiters, side>>

\* FUTEX_WAIT sleeps only while value is still what was seen.
Wait(t) ==
  /\ LockAt(t, "futex")
  /\ LockGo(t, IF value = oldv[t] THEN "asleep" ELSE "load")
  /\ UNCHANGED <<value, waiters, side, oldv>>

\* Mutant: a writer takes the lock together with the readers that hold it.
LockCasAndLeave(t) ==
  /\ LockAt(t, "cas")
  /\ \/ /\ value = oldv[t]
        /\ value' = IF side[t] = "read"
                      THEN <<value[1], Readers(value) + 1>>
                      ELSE <<1, Readers(value)>>
        /\ oldv' = [oldv EXCEPT ![t] = value']
        /\ LockGo(t, "leave")
     \/ /\ value /= oldv[t]
        /\ See(t)
        /\ LockGo(t, LoopAt(value))
        /\ UNCHANGED value
  /\ UNCHANGED <<waiters, side>>

\* The CAS of the contended paths: a reader is counted, a writer sets the bit
\* and then waits for the readers.
LockCas(t) ==
  /\ LockAt(t, "cas")
  /\ \/ /\ value = oldv[t]
        /\ value' = IF side[t] = "read"
                      THEN <<value[1], Readers(value) + 1>>
                      ELSE <<1, Readers(value)>>
        /\ oldv' = [oldv EXCEPT ![t] = value']
        /\ LockGo(t, IF side[t] = "read" THEN "leave" ELSE DrainAt(value'))
     \/ /\ value /= oldv[t]
        /\ See(t)
        /\ LockGo(t, LoopAt(value))
        /\ UNCHANGED value
  /\ UNCHANGED <<waiters, side>>

DrainWait(t) ==
  /\ LockAt(t, "dfutex")
  /\ LockGo(t, IF value = oldv[t] THEN "dasleep" ELSE "dload")
  /\ UNCHANGED <<value, waiters, side, oldv>>

DrainLoad(t) ==
  /\ LockAt(t, "dload")
  /\ See(t)
  /\ LockGo(t, DrainAt(value))
  /\ UNCHANGED <<value, waiters, side>>

\* waiters is decremented; the lock is held.
Leave(t) ==
  /\ LockAt(t, "leave")
  /\ waiters' = waiters - 1
  /\ LockGo(t, "in")
  /\ UNCHANGED <<value, side, oldv>>

\* sfrlock_rdunlock: the last reader wakes the writer that waits for it.
RdUnlock(t) ==
  /\ LockAt(t, "in") /\ side[t] = "read"
  /\ value' = <<value[1], Readers(value) - 1>>
  /\ LockGo(t, IF value' = <<1, 0>> THEN "wake" ELSE "out")
  /\ UNCHANGED <<waiters, side, oldv>>

\* sfrlock_wrunlock: value becomes 0, then waiters is read.
WrUnlock(t) ==
  /\ LockAt(t, "in") /\ side[t] = "write"
  /\ value' = <<0, 0>>
  /\ LockGo(t, "check")
  /\ UNCHANGED <<waiters, side, oldv>>

\* Mutant: one waiter is taken for the caller itself.
WrCheckOne(t) ==
  /\ LockAt(t, "check")
  /\ LockGo(t, IF waiters > 1 THEN "wake" ELSE "out")
  /\ UNCHANGED <<value, waiters, side, oldv>>

WrCheck(t) ==
  /\ LockAt(t, "check")
  /\ LockGo(t, IF waiters > 0 THEN "wake" ELSE "out")
  /\ UNCHANGED <<value, waiters, side, oldv>>

\* Where a sleeper goes on once its FUTEX_WAIT returns.
Awake(s) == IF LockAt(s, "asleep") THEN "load"
            ELSE IF LockAt(s, "dasleep") THEN "dload" ELSE lpc[s]

\* sfrlock_wake_waiters.
WakeWaiters(t) ==
  /\ LockAt(t, "wake")
  /\ lpc' = [s \in Locker |-> IF s = t THEN "out" ELSE Awake(s)]
  /\ UNCHANGED <<value, waiters, side, oldv>>

\* FUTEX_WAIT returns for no reason (a signal).
Interrupted(t) ==
  /\ lpc[t] \in {"asleep", "dasleep"}
  /\ LockGo(t, Awake(t))
  /\ UNCHANGED <<value, waiters, side, oldv>>

LockStep(t) ==
  \/ RdLock(t) \/ RdFast(t) \/ WrLock(t)
  \/ Enter(t) \/ LockLoad(t) \/ Wait(t) \/ LockCas(t)
  \/ DrainWait(t) \/ DrainLoad(t) \/ Leave(t)
  \/ RdUnlock(t) \/ WrUnlock(t) \/ WrCheck(t)
  \/ WakeWaiters(t) \/ Interrupted(t)

LockNext == \E t \in Locker : LockStep(t)

LockSpec == sfrlock_init /\ [][LockNext]_lockVars

-----------------------------------------------------------------------------
\* The lock excludes: while a writer holds it, no other thread does, whichever
\* of the fast and the contended paths they came by (the valid states 1 to 4
\* of the comment in sfrlock.h).
WriterExcludes ==
  \A t, s \in Locker :
    LockAt(t, "in") /\ side[t] = "write" /\ LockAt(s, "in") => s = t

\* No sleeper is forgotten: while a thread sleeps for the write lock to go,
\* it is held, or a thread that will wake the sleeper is on its way; while a
\* writer sleeps for the readers, there is one, or the last is about to wake
\* it.  In particular the test of waiters after the release misses nobody.
SleepersWoken ==
  \A t \in Locker :
    /\ LockAt(t, "asleep") =>
         \/ WriteLocked(value)
         \/ \E s \in Locker : LockAt(s, "wake") \/ (LockAt(s, "check") /\ waiters > 0)
    /\ LockAt(t, "dasleep") =>
         \/ Readers(value) > 0
         \/ \E s \in Locker : LockAt(s, "wake")
=============================================================================
