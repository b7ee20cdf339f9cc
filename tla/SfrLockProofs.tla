---------------------------- MODULE SfrLockProofs ---------------------------
(***************************************************************************)
(* The reader-writer lock excludes and wakes its sleepers, for any finite  *)
(* set of threads.                                                         *)
(***************************************************************************)
EXTENDS SfrLock, FiniteSetTheorems, TLAPS

LockTypes ==
  /\ value \in Word
  /\ waiters \in Int
  /\ lpc \in [Locker -> LockPc]
  /\ side \in [Locker -> {"read", "write"}]
  /\ oldv \in [Locker -> Word]

\* The threads that the reader count counts, those that waiters counts, and
\* the thread that the write bit belongs to.
Counted == {t \in Locker : side[t] = "read" /\ lpc[t] \in {"in", "leave"}}
Inside == {t \in Locker : lpc[t] \in {"load", "futex", "asleep", "cas", "leave",
                                      "dfutex", "dasleep", "dload"}}
Owners == {t \in Locker : side[t] = "write" /\
                          lpc[t] \in {"in", "leave", "dfutex", "dasleep", "dload"}}

\* What the registers of a thread say at the step it is at.
Registers ==
  \A t \in Locker :
    /\ lpc[t] \in {"fast", "cas"} => ~WriteLocked(oldv[t])
    /\ lpc[t] = "fast" => side[t] = "read"
    /\ lpc[t] = "futex" => WriteLocked(oldv[t])
    /\ lpc[t] \in {"dfutex", "dasleep", "dload"} => side[t] = "write"
    /\ lpc[t] = "dfutex" => Readers(oldv[t]) > 0

\* Only an owner has set the write bit, there is one owner, and it goes in
\* when there is no reader.  Since a reader is counted by a CAS of a value
\* without the bit, none can come once the bit is set.
Ownership ==
  /\ \A t \in Owners : WriteLocked(value)
  /\ \A t, s \in Owners : t = s
  /\ \A t \in Owners : lpc[t] \in {"in", "leave"} => Readers(value) = 0

Counts ==
  /\ Readers(value) = Cardinality(Counted)
  /\ waiters = Cardinality(Inside)

LockInv ==
  /\ LockTypes /\ Registers /\ Ownership /\ Counts /\ SleepersWoken

\* The sets that are counted are finite.
LEMMA CountedFinite ==
  /\ IsFiniteSet(Counted) /\ IsFiniteSet(Inside)
  /\ Cardinality(Counted) \in Nat /\ Cardinality(Inside) \in Nat
BY LockAssumption, FS_Subset, FS_CardinalityType DEF LockAssumption, Counted, Inside

\* A thread that joins a counted set adds one to its size.
LEMMA Joins ==
  ASSUME NEW S, IsFiniteSet(S), NEW t, t \notin S
  PROVE  Cardinality(S \cup {t}) = Cardinality(S) + 1
BY FS_AddElement

\* A thread that leaves a counted set takes one away from its size.
LEMMA Goes ==
  ASSUME NEW S, IsFiniteSet(S), NEW t, t \in S
  PROVE  Cardinality(S \ {t}) = Cardinality(S) - 1
BY FS_RemoveElement

\* Who is inside the contended paths keeps waiters positive.
LEMMA SomeoneInside ==
  ASSUME LockInv, NEW t \in Inside
  PROVE  waiters > 0
<1>1. Cardinality(Inside) /= 0
  BY CountedFinite, FS_EmptySet
<1> QED
  BY <1>1, CountedFinite DEF LockInv, Counts

\* Who is counted as a reader keeps the reader count positive.
LEMMA SomeoneCounted ==
  ASSUME LockInv, NEW t \in Counted
  PROVE  Readers(value) > 0
<1>1. Cardinality(Counted) /= 0
  BY CountedFinite, FS_EmptySet
<1> QED
  BY <1>1, CountedFinite DEF LockInv, Counts

\* sfrlock_init establishes the invariant.
LEMMA LockInit == sfrlock_init => LockInv
<1> SUFFICES ASSUME sfrlock_init PROVE LockInv
  OBVIOUS
<1> USE DEF sfrlock_init
<1>1. Counted = {} /\ Inside = {} /\ Owners = {}
  BY DEF Counted, Inside, Owners
<1>2. Counts
  BY <1>1, FS_EmptySet DEF Counts, Readers
<1>3. LockTypes /\ Registers
  BY DEF LockTypes, Registers, Word, LockPc
<1>4. Ownership /\ SleepersWoken
  BY <1>1 DEF Ownership, SleepersWoken, LockAt
<1> QED
  BY <1>2, <1>3, <1>4 DEF LockInv

\* Types and registers, whatever the step.
LEMMA RegistersStep ==
  ASSUME LockInv, NEW t \in Locker, LockStep(t)
  PROVE  LockTypes' /\ Registers'
<1> USE DEF LockInv, LockTypes, LockStep, LockPc, Word, WriteLocked, Readers,
            LockAt, LockGo, See, LoopAt, DrainAt, Awake
<1>0. CASE RdLock(t)
  BY <1>0 DEF RdLock, Registers
<1>a. value[1] \in {0, 1} /\ value[2] \in Nat
  OBVIOUS
<1>1. CASE RdFast(t)
  <2>1. CASE value = oldv[t]
    <3>1. value' \in Word
      BY <1>a, <1>1, <2>1 DEF RdFast
    <3> QED
      BY <1>1, <2>1, <3>1 DEF RdFast, Registers
  <2>2. CASE value /= oldv[t]
    BY <1>1, <2>2 DEF RdFast, Registers
  <2> QED
    BY <2>1, <2>2
<1>2. CASE WrLock(t)
  <2>1. value' \in Word
    BY <1>2 DEF WrLock
  <2>2. lpc'[t] \in {"in", "enter"}
    BY <1>2 DEF WrLock
  <2>3. LockTypes'
    BY <1>2, <2>1 DEF WrLock
  <2> QED
    BY <1>2, <2>2, <2>3 DEF WrLock, Registers
<1>3. CASE Enter(t)
  BY <1>3 DEF Enter, Registers
<1>4. CASE LockLoad(t)
  BY <1>4 DEF LockLoad, Registers
<1>5. CASE Wait(t)
  BY <1>5 DEF Wait, Registers
<1>6. CASE LockCas(t)
  <2>1. CASE value = oldv[t]
    <3>1. value' \in Word
      BY <1>a, <1>6, <2>1 DEF LockCas
    <3>2. LockTypes'
      BY <1>6, <2>1, <3>1, SMTT(30) DEF LockCas
    <3>3. CASE side[t] = "read"
      BY <1>6, <2>1, <3>2, <3>3 DEF LockCas, Registers
    <3>4. CASE side[t] = "write"
      BY <1>6, <2>1, <3>2, <3>4 DEF LockCas, Registers
    <3> QED
      BY <3>3, <3>4
  <2>2. CASE value /= oldv[t]
    <3>1. /\ lpc' = [lpc EXCEPT ![t] = LoopAt(value)]
          /\ oldv' = [oldv EXCEPT ![t] = value]
          /\ UNCHANGED <<value, waiters, side>>
      BY <1>6, <2>2 DEF LockCas
    <3>2. LockTypes'
      BY <3>1
    <3> QED
      BY <3>1, <3>2 DEF Registers
  <2> QED
    BY <2>1, <2>2
<1>7. CASE DrainWait(t)
  BY <1>7 DEF DrainWait, Registers
<1>8. CASE DrainLoad(t)
  BY <1>8 DEF DrainLoad, Registers
<1>9. CASE Leave(t)
  BY <1>9 DEF Leave, Registers
<1>10. CASE RdUnlock(t)
  <2>1. t \in Counted
    BY <1>10 DEF RdUnlock, Counted
  <2>2. Readers(value) > 0
    BY <2>1, SomeoneCounted
  <2> QED
    BY <1>10, <2>2 DEF RdUnlock, Registers
<1>11. CASE WrUnlock(t)
  BY <1>11 DEF WrUnlock, Registers
<1>12. CASE WrCheck(t)
  BY <1>12 DEF WrCheck, Registers
<1>13. CASE WakeWaiters(t)
  BY <1>13 DEF WakeWaiters, Registers
<1>14. CASE Interrupted(t)
  BY <1>14 DEF Interrupted, Registers
<1> QED
  BY <1>0, <1>1, <1>2, <1>3, <1>4, <1>5, <1>6, <1>7, <1>8, <1>9, <1>10, <1>11,
     <1>12, <1>13, <1>14

\* How the counted sets change: a thread joins or leaves them exactly where
\* the code increments and decrements.
LEMMA CountsStep ==
  ASSUME LockInv, NEW t \in Locker, LockStep(t)
  PROVE  Counts'
<1> USE DEF LockInv, LockTypes, LockPc, Word, WriteLocked, Readers, LockAt,
            LockGo, See, LoopAt, DrainAt, Awake
<1>a. /\ IsFiniteSet(Counted) /\ IsFiniteSet(Inside)
      /\ value[2] = Cardinality(Counted) /\ waiters = Cardinality(Inside)
      /\ value[2] \in Nat
  BY CountedFinite DEF Counts
<1>b. ASSUME Counted' = Counted, Inside' = Inside, value'[2] = value[2],
             waiters' = waiters
      PROVE  Counts'
  BY <1>a, <1>b DEF Counts
<1>c. ASSUME t \notin Counted, Counted' = Counted \cup {t}, Inside' = Inside,
             value'[2] = value[2] + 1, waiters' = waiters
      PROVE  Counts'
  BY <1>a, <1>c, Joins DEF Counts
<1>d. ASSUME t \notin Inside, Inside' = Inside \cup {t}, Counted' = Counted,
             value'[2] = value[2], waiters' = waiters + 1
      PROVE  Counts'
  BY <1>a, <1>d, Joins DEF Counts
<1>e. ASSUME t \in Inside, Inside' = Inside \ {t}, Counted' = Counted,
             value'[2] = value[2], waiters' = waiters - 1
      PROVE  Counts'
  BY <1>a, <1>e, Goes DEF Counts
<1>f. ASSUME t \in Counted, Counted' = Counted \ {t}, Inside' = Inside,
             value'[2] = value[2] - 1, waiters' = waiters
      PROVE  Counts'
  BY <1>a, <1>f, Goes DEF Counts
<1>0. CASE RdLock(t)
  BY <1>0, <1>b DEF RdLock, Counted, Inside
<1>1. CASE RdFast(t)
  <2>1. CASE value = oldv[t]
    BY <1>1, <2>1, <1>c DEF RdFast, Counted, Inside, Registers
  <2>2. CASE value /= oldv[t]
    BY <1>1, <2>2, <1>b DEF RdFast, Counted, Inside
  <2> QED
    BY <2>1, <2>2
<1>2. CASE WrLock(t)
  BY <1>2, <1>b DEF WrLock, Counted, Inside
<1>3. CASE Enter(t)
  BY <1>3, <1>d DEF Enter, Counted, Inside
<1>4. CASE LockLoad(t)
  BY <1>4, <1>b DEF LockLoad, Counted, Inside
<1>5. CASE Wait(t)
  BY <1>5, <1>b DEF Wait, Counted, Inside
<1>6. CASE LockCas(t)
  <2>1. CASE value = oldv[t] /\ side[t] = "read"
    BY <1>6, <2>1, <1>c DEF LockCas, Counted, Inside
  <2>2. CASE value = oldv[t] /\ side[t] = "write"
    BY <1>6, <2>2, <1>b DEF LockCas, Counted, Inside
  <2>3. CASE value /= oldv[t]
    BY <1>6, <2>3, <1>b DEF LockCas, Counted, Inside
  <2> QED
    BY <2>1, <2>2, <2>3
<1>7. CASE DrainWait(t)
  BY <1>7, <1>b DEF DrainWait, Counted, Inside
<1>8. CASE DrainLoad(t)
  BY <1>8, <1>b DEF DrainLoad, Counted, Inside, Registers
<1>9. CASE Leave(t)
  BY <1>9, <1>e DEF Leave, Counted, Inside
<1>10. CASE RdUnlock(t)
  BY <1>10, <1>f DEF RdUnlock, Counted, Inside
<1>11. CASE WrUnlock(t)
  <2>1. t \in Owners
    BY <1>11 DEF WrUnlock, Owners
  <2>2. value[2] = 0
    BY <1>11, <2>1 DEF WrUnlock, Ownership
  <2> QED
    BY <1>11, <2>2, <1>b DEF WrUnlock, Counted, Inside
<1>12. CASE WrCheck(t)
  BY <1>12, <1>b DEF WrCheck, Counted, Inside
<1>13. CASE WakeWaiters(t)
  BY <1>13, <1>b DEF WakeWaiters, Counted, Inside
<1>14. CASE Interrupted(t)
  BY <1>14, <1>b, SMTT(30) DEF Interrupted, Counted, Inside
<1> QED
  BY <1>0, <1>1, <1>2, <1>3, <1>4, <1>5, <1>6, <1>7, <1>8, <1>9, <1>10, <1>11,
     <1>12, <1>13, <1>14 DEF LockStep

\* The write bit keeps its one owner.
LEMMA OwnershipStep ==
  ASSUME LockInv, NEW t \in Locker, LockStep(t)
  PROVE  Ownership'
<1> USE DEF LockInv, LockTypes, LockPc, Word, WriteLocked, Readers, LockAt,
            LockGo, See, LoopAt, DrainAt, Awake, Ownership, Owners
<1>0. CASE RdLock(t)
  BY <1>0 DEF RdLock, Registers
<1>1. CASE RdFast(t)
  BY <1>1 DEF RdFast, Registers
<1>2. CASE WrLock(t)
  BY <1>2 DEF WrLock, Registers
<1>3. CASE Enter(t)
  BY <1>3 DEF Enter, Registers
<1>4. CASE LockLoad(t)
  BY <1>4 DEF LockLoad, Registers
<1>5. CASE Wait(t)
  BY <1>5 DEF Wait, Registers
<1>6. CASE LockCas(t)
  <2>1. CASE value = oldv[t] /\ side[t] = "read"
    BY <1>6, <2>1 DEF LockCas, Registers
  <2>2. CASE value = oldv[t] /\ side[t] = "write"
    BY <1>6, <2>2 DEF LockCas, Registers
  <2>3. CASE value /= oldv[t]
    BY <1>6, <2>3 DEF LockCas, Registers
  <2> QED
    BY <2>1, <2>2, <2>3
<1>7. CASE DrainWait(t)
  BY <1>7 DEF DrainWait, Registers
<1>8. CASE DrainLoad(t)
  BY <1>8 DEF DrainLoad, Registers
<1>9. CASE Leave(t)
  BY <1>9 DEF Leave, Registers
<1>10. CASE RdUnlock(t)
  <2>1. t \in Counted
    BY <1>10 DEF RdUnlock, Counted
  <2>2. value[2] > 0
    BY <2>1, SomeoneCounted
  <2> QED
    BY <1>10, <2>2 DEF RdUnlock, Registers
<1>11. CASE WrUnlock(t)
  BY <1>11 DEF WrUnlock, Registers
<1>12. CASE WrCheck(t)
  BY <1>12 DEF WrCheck, Registers
<1>13. CASE WakeWaiters(t)
  BY <1>13 DEF WakeWaiters, Registers
<1>14. CASE Interrupted(t)
  BY <1>14 DEF Interrupted, Registers
<1> QED
  BY <1>0, <1>1, <1>2, <1>3, <1>4, <1>5, <1>6, <1>7, <1>8, <1>9, <1>10, <1>11,
     <1>12, <1>13, <1>14 DEF LockStep

\* Whoever could leave a sleeper behind wakes it.
LEMMA SleepersStep ==
  ASSUME LockInv, NEW t \in Locker, LockStep(t)
  PROVE  SleepersWoken'
<1> USE DEF LockInv, LockTypes, LockPc, Word, WriteLocked, Readers, LockAt,
            LockGo, See, LoopAt, DrainAt, Awake, SleepersWoken
<1>a. \A s \in Locker : lpc[s] = "asleep" => waiters > 0
  BY SomeoneInside DEF Inside
<1>0. CASE RdLock(t)
  BY <1>0, <1>a DEF RdLock, Registers, Ownership, Owners
<1>1. CASE RdFast(t)
  BY <1>1, <1>a DEF RdFast, Registers, Ownership, Owners
<1>2. CASE WrLock(t)
  BY <1>2, <1>a DEF WrLock, Registers, Ownership, Owners
<1>3. CASE Enter(t)
  BY <1>3, <1>a DEF Enter, Registers, Ownership, Owners
<1>4. CASE LockLoad(t)
  BY <1>4, <1>a DEF LockLoad, Registers, Ownership, Owners
<1>5. CASE Wait(t)
  BY <1>5, <1>a DEF Wait, Registers, Ownership, Owners
<1>6. CASE LockCas(t)
  BY <1>6, <1>a DEF LockCas, Registers, Ownership, Owners
<1>7. CASE DrainWait(t)
  BY <1>7, <1>a DEF DrainWait, Registers, Ownership, Owners
<1>8. CASE DrainLoad(t)
  BY <1>8, <1>a DEF DrainLoad, Registers, Ownership, Owners
<1>9. CASE Leave(t)
  <2>1. ASSUME NEW s \in Locker, lpc'[s] = "asleep" PROVE waiters' > 0
    <3>1. waiters' = Cardinality(Inside \ {t}) /\ s \in Inside \ {t}
      BY <1>9, <2>1, Goes, CountedFinite DEF Leave, Inside, Counts
    <3>2. IsFiniteSet(Inside \ {t})
      BY CountedFinite, FS_RemoveElement
    <3>3. Cardinality(Inside \ {t}) \in Nat
      BY <3>2, FS_CardinalityType
    <3>4. Cardinality(Inside \ {t}) /= 0
      BY <3>1, <3>2, FS_EmptySet
    <3> QED
      BY <3>1, <3>3, <3>4
  <2> QED
    BY <1>9, <2>1 DEF Leave
<1>10. CASE RdUnlock(t)
  BY <1>10, <1>a DEF RdUnlock, Registers, Ownership, Owners
<1>11. CASE WrUnlock(t)
  BY <1>11, <1>a DEF WrUnlock, Registers, Ownership, Owners
<1>12. CASE WrCheck(t)
  BY <1>12, <1>a DEF WrCheck, Registers, Ownership, Owners
<1>13. CASE WakeWaiters(t)
  BY <1>13, <1>a DEF WakeWaiters, Registers, Ownership, Owners
<1>14. CASE Interrupted(t)
  BY <1>14, <1>a DEF Interrupted, Registers, Ownership, Owners
<1> QED
  BY <1>0, <1>1, <1>2, <1>3, <1>4, <1>5, <1>6, <1>7, <1>8, <1>9, <1>10, <1>11,
     <1>12, <1>13, <1>14 DEF LockStep

\* Every step of a locker keeps the invariant.
LEMMA LockInvStep == LockInv /\ [LockNext]_lockVars => LockInv'
<1> SUFFICES ASSUME LockInv, [LockNext]_lockVars PROVE LockInv'
  OBVIOUS
<1>1. CASE LockNext
  <2>1. PICK t \in Locker : LockStep(t)
    BY <1>1 DEF LockNext
  <2> QED
    BY <2>1, RegistersStep, CountsStep, OwnershipStep, SleepersStep DEF LockInv
<1>2. CASE UNCHANGED lockVars
  BY <1>2 DEF lockVars, LockInv, LockTypes, Registers, Ownership, Owners, Counts,
              Counted, Inside, SleepersWoken, LockAt
<1> QED
  BY <1>1, <1>2

\* The invariant of the word, the waiters and the futex always holds.
LEMMA LockInvariance == LockSpec => []LockInv
BY LockInit, LockInvStep, PTL DEF LockSpec

\* A writer that holds the lock holds it alone, for any finite set of threads
\* and every interleaving of the fast and the contended paths.
THEOREM WriterIsAlone == LockSpec => []WriterExcludes
<1>1. LockInv => WriterExcludes
  <2> SUFFICES ASSUME LockInv, NEW t \in Locker, NEW s \in Locker,
                      LockAt(t, "in"), side[t] = "write", LockAt(s, "in")
               PROVE  s = t
    BY DEF WriterExcludes
  <2>1. t \in Owners /\ Readers(value) = 0
    BY DEF LockInv, Ownership, Owners, LockAt
  <2>2. s \notin Counted
    BY <2>1, SomeoneCounted
  <2>3. s \in Owners
    BY <2>2 DEF Counted, Owners, LockAt, LockInv, LockTypes
  <2> QED
    BY <2>1, <2>3 DEF LockInv, Ownership
<1> QED
  BY <1>1, LockInvariance, PTL

\* No thread is left asleep in the lock: the futex protocol of the write bit,
\* the reader count and waiters misses no sleeper.
THEOREM NoSleeperForgotten == LockSpec => []SleepersWoken
<1>1. LockInv => SleepersWoken
  BY DEF LockInv
<1> QED
  BY <1>1, LockInvariance, PTL
=============================================================================
