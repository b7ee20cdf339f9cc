-------------------------- MODULE CountingSemProofs --------------------------
(***************************************************************************)
(* The semaphore loses no post, for any set of threads, any initial value  *)
(* and any amounts waited for and posted.  NoLostPost is inductive once    *)
(* the registers of a thread are known to be what its last test left.      *)
(***************************************************************************)
EXTENDS CountingSem, TLAPS

\* In the two loops that take, the value seen is positive, and so is the
\* amount that a wait or a post asks for.
Registers ==
  \A t \in Thread :
    /\ spc[t] \in {"fast", "take"} => latest[t] > 0
    /\ spc[t] \in {"fast", "mark", "futex", "asleep", "reload", "take", "post"}
         => want[t] > 0

SemInv == SemTypeOK /\ Registers /\ NoLostPost

SemCall(t) ==
  \/ \E n \in Nat, nb \in BOOLEAN : LazyCall(t, n, nb)
  \/ \E n \in Nat : PostCall(t, n)

USE DEF At, Go

\* counting_sem_init leaves nobody asleep.
LEMMA SemInit == counting_sem_init => SemInv
  BY SemAssumption DEF counting_sem_init, SemInv, SemTypeOK, Registers,
     NoLostPost, Asleep, Carrier, SemPc, Larger

\* counting_sem_lazy_helper, counting_sem_post and the futex keep sem->cnt
\* between -1 and the largest count.
LEMMA SemTypes ==
  ASSUME SemInv, [SemNext]_semVars
  PROVE  SemTypeOK'
<1> USE SemAssumption DEF SemInv, SemTypeOK, SemPc
<1>1. CASE UNCHANGED semVars
  BY <1>1 DEF semVars
<1>2. ASSUME NEW t \in Thread, SemCall(t)
      PROVE  SemTypeOK'
  BY <1>2 DEF SemCall, LazyCall, PostCall, FastAt, WaitAt
<1>3. ASSUME NEW t \in Thread, LazyFast(t)
      PROVE  SemTypeOK'
  BY <1>3 DEF LazyFast, FastAt, WaitAt, Smaller, Registers
<1>4. ASSUME NEW t \in Thread, LazyMark(t)
      PROVE  SemTypeOK'
  BY <1>4 DEF LazyMark
<1>5. ASSUME NEW t \in Thread, FutexWait(t) \/ SpuriousWake(t) \/ SemReturn(t)
      PROVE  SemTypeOK'
  BY <1>5 DEF FutexWait, SpuriousWake, SemReturn
<1>6. ASSUME NEW t \in Thread, LazyReload(t)
      PROVE  SemTypeOK'
  BY <1>6 DEF LazyReload, WaitAt
<1>7. ASSUME NEW t \in Thread, LazyTake(t)
      PROVE  SemTypeOK'
  BY <1>7 DEF LazyTake, WaitAt, LeftAfter, Smaller, Registers
<1>8. ASSUME NEW t \in Thread, LazyHandoff(t) \/ PostWake(t)
      PROVE  SemTypeOK'
  BY <1>8 DEF LazyHandoff, PostWake, WakeOne, Asleep
<1>9. ASSUME NEW t \in Thread, PostCas(t)
      PROVE  SemTypeOK'
  BY <1>9 DEF PostCas, Larger, Smaller
<1>10. QED
  BY <1>1, <1>2, <1>3, <1>4, <1>5, <1>6, <1>7, <1>8, <1>9
     DEF SemNext, SemStep, SemCall

\* A thread reaches the loops that take only with a positive value in hand.
LEMMA SemRegisters ==
  ASSUME SemInv, [SemNext]_semVars
  PROVE  Registers'
<1> USE DEF SemInv, SemTypeOK, SemPc, Registers
<1>1. CASE UNCHANGED semVars
  BY <1>1 DEF semVars
<1>2. ASSUME NEW t \in Thread, SemCall(t)
      PROVE  Registers'
  BY <1>2 DEF SemCall, LazyCall, PostCall, FastAt, WaitAt
<1>3. ASSUME NEW t \in Thread, LazyFast(t)
      PROVE  Registers'
  BY <1>3 DEF LazyFast, FastAt, WaitAt
<1>4. ASSUME NEW t \in Thread, LazyMark(t)
      PROVE  Registers'
  BY <1>4 DEF LazyMark
<1>5. ASSUME NEW t \in Thread, FutexWait(t) \/ SpuriousWake(t) \/ SemReturn(t)
      PROVE  Registers'
  BY <1>5 DEF FutexWait, SpuriousWake, SemReturn
<1>6. ASSUME NEW t \in Thread, LazyReload(t)
      PROVE  Registers'
  BY <1>6 DEF LazyReload, WaitAt
<1>7. ASSUME NEW t \in Thread, LazyTake(t)
      PROVE  Registers'
  BY <1>7 DEF LazyTake, WaitAt
<1>8. ASSUME NEW t \in Thread, LazyHandoff(t) \/ PostWake(t)
      PROVE  Registers'
  BY <1>8 DEF LazyHandoff, PostWake, WakeOne, Asleep
<1>9. ASSUME NEW t \in Thread, PostCas(t)
      PROVE  Registers'
  BY <1>9 DEF PostCas
<1>10. QED
  BY <1>1, <1>2, <1>3, <1>4, <1>5, <1>6, <1>7, <1>8, <1>9
     DEF SemNext, SemStep, SemCall

\* Every step leaves the mark, a carrier or no sleeper behind.
LEMMA SemCarried ==
  ASSUME SemInv, [SemNext]_semVars
  PROVE  NoLostPost'
<1> USE DEF SemInv, SemTypeOK, SemPc, NoLostPost, Asleep, Carrier
<1>1. CASE UNCHANGED semVars
  BY <1>1 DEF semVars
<1>2. ASSUME NEW t \in Thread, SemCall(t)
      PROVE  NoLostPost'
  BY <1>2 DEF SemCall, LazyCall, PostCall, FastAt, WaitAt
<1>3. ASSUME NEW t \in Thread, LazyFast(t)
      PROVE  NoLostPost'
  BY <1>3 DEF LazyFast, FastAt, WaitAt, Registers
<1>4. ASSUME NEW t \in Thread, LazyMark(t)
      PROVE  NoLostPost'
  BY <1>4 DEF LazyMark
<1>5. ASSUME NEW t \in Thread, FutexWait(t) \/ SpuriousWake(t) \/ SemReturn(t)
      PROVE  NoLostPost'
  BY <1>5 DEF FutexWait, SpuriousWake, SemReturn
<1>6. ASSUME NEW t \in Thread, LazyReload(t)
      PROVE  NoLostPost'
  BY <1>6 DEF LazyReload, WaitAt
<1>7. ASSUME NEW t \in Thread, LazyTake(t)
      PROVE  NoLostPost'
  BY <1>7 DEF LazyTake, WaitAt, LeftAfter, Smaller, Registers
<1>8. ASSUME NEW t \in Thread, LazyHandoff(t) \/ PostWake(t)
      PROVE  NoLostPost'
  BY <1>8 DEF LazyHandoff, PostWake, WakeOne
<1>9. ASSUME NEW t \in Thread, PostCas(t)
      PROVE  NoLostPost'
  BY <1>9 DEF PostCas, Larger, Smaller
<1>10. QED
  BY <1>1, <1>2, <1>3, <1>4, <1>5, <1>6, <1>7, <1>8, <1>9
     DEF SemNext, SemStep, SemCall

\* counting_sem.c loses no post, for any number of threads, any amounts and
\* any interleaving of its atomic steps: a thread stays asleep only while
\* sem->cnt is marked or another thread is bound to wake it or mark it.
THEOREM NoPostIsLost == SemSpec => []NoLostPost
<1>1. SemInv /\ [SemNext]_semVars => SemInv'
  BY SemTypes, SemRegisters, SemCarried DEF SemInv
<1>2. SemInv => NoLostPost
  BY DEF SemInv
<1>3. QED
  BY SemInit, <1>1, <1>2, PTL DEF SemSpec
=============================================================================
