-------------------------- MODULE TkoTrackerProofs --------------------------
(***************************************************************************)
(* Proofs about TkoTracker for any number of destinations, servers and any *)
(* positive threshold: the inductive invariant IInv, the properties that   *)
(* follow from it, and the refinement of TkoSpec.                          *)
(*                                                                         *)
(* The argument rests on one fact (StepWrites): a step of destination e    *)
(* changes the word of its tracker only if the server is not TKO or e is   *)
(* responsible, and leaves there a count or e's own address.  Hence no     *)
(* step of e gives responsibility to, or takes it from, another            *)
(* destination, and what a call has checked stays true until it acts.      *)
(***************************************************************************)
EXTENDS TkoTrackerOwnership, FiniteSetTheorems

-----------------------------------------------------------------------------
(* The frame: what a step of e cannot do to other destinations.            *)

(* A tracker is replaced only when it is not TKO: a TKO has a responsible  *)
(* destination, which exists or is being destroyed.                        *)
LEMMA CreateHealthy ==
    ASSUME TypeOK, OwnerOfItsTracker, \A d \in Dst : Own(d),
           NEW e \in Dst, Create(e), NoOther(e)
    PROVE  ~IsTko(sumFailures[TrackerOf[e]])
  <1>1. TrackerOf[e] \in Tracker /\ sumFailures[TrackerOf[e]] \in Words
    BY TrackerAssumption DEF TypeOK
  <1>2. SUFFICES ASSUME IsTko(sumFailures[TrackerOf[e]])
                 PROVE  FALSE
    OBVIOUS
  <1>3. PICK d \in Dst : IsResponsible(sumFailures[TrackerOf[e]], d)
    BY <1>1, <1>2, WordFacts DEF Words
  <1>4. TrackerOf[d] = TrackerOf[e]
    BY <1>1, <1>3 DEF OwnerOfItsTracker
  <1>5. d \notin alive /\ pc[d] = "idle"
    BY <1>4 DEF NoOther, Create
  <1> QED BY <1>3, <1>4, <1>5 DEF Own, Probed, Owns

(* What a step of e may write to its tracker's word s: one more failure,   *)
(* its own address, its marked address, or zero.  Only the responsible     *)
(* destination may write to a TKO word.                                    *)
Overwrites(e, s, w) ==
    \/ ~IsTko(s) /\ s # Threshold - 1 /\ w = s + 1
    \/ s = Threshold - 1 /\ w = e
    \/ (~IsTko(s) \/ (s = e /\ pc'[e] # pc[e])) /\ w = HardMark(e)
    \/ (~IsTko(s) \/ (IsResponsible(s, e) /\ pc'[e] # pc[e])) /\ w = 0

Writes(e, w) ==
    /\ sumFailures' = [sumFailures EXCEPT ![TrackerOf[e]] = w]
    /\ Overwrites(e, sumFailures[TrackerOf[e]], w)

(* A written word is a count or carries the writer's address, and a TKO    *)
(* word is overwritten by its responsible destination only.                *)
LEMMA WrittenWord ==
    ASSUME NEW e \in Dst, NEW s \in Words, NEW w, Overwrites(e, s, w)
    PROVE  /\ w \in (0 .. (Threshold - 1)) \cup {e, HardMark(e)}
           /\ w \in Words
           /\ ~IsTko(s) \/ IsResponsible(s, e)
  <1>1. s = Threshold - 1 => ~IsTko(s)
    BY ThresholdAssumption DEF IsTko
  <1> QED BY <1>1, CountUp, WordFacts DEF Overwrites

(* A step of e leaves the locals, the existence and the probes of every    *)
(* other destination alone.                                                *)
LEMMA StepFrame ==
    ASSUME TypeOK, NEW e \in Dst, Step(e)
    PROVE  \A d \in Dst \ {e} :
             /\ pc'[d] = pc[d] /\ cur'[d] = cur[d] /\ value'[d] = value[d]
             /\ d \in alive' <=> d \in alive
             /\ d \in probing' <=> d \in probing
  <1> USE DEF TypeOK, Goto, Return
  <1>1. CASE HandleSoftError(e)
    BY <1>1 DEF HandleSoftError, shared
  <1>2. CASE HandleHardError(e)
    BY <1>2 DEF HandleHardError, shared
  <1>3. CASE \E probe \in BOOLEAN : HandleSuccess(e, probe)
    BY <1>3 DEF HandleSuccess, shared
  <1>4. CASE HandleIsTko(e)
    BY <1>4 DEF HandleIsTko, shared
  <1>5. CASE SoftCount(e)
    BY <1>5 DEF SoftCount
  <1>6. CASE SoftIsTko(e)
    BY <1>6 DEF SoftIsTko, shared
  <1>7. CASE SoftLoad(e)
    BY <1>7 DEF SoftLoad, shared
  <1>8. CASE SoftDecide(e)
    BY <1>8 DEF SoftDecide
  <1>9. CASE SoftCas(e)
    BY <1>9 DEF SoftCas, CasFails
  <1>10. CASE SoftReason(e)
    BY <1>10 DEF SoftReason
  <1>11. CASE HardCount(e)
    BY <1>11 DEF HardCount
  <1>12. CASE HardIsHard(e)
    BY <1>12 DEF HardIsHard, shared
  <1>13. CASE HardIsResponsible(e)
    BY <1>13 DEF HardIsResponsible, shared
  <1>14. CASE HardConvert(e)
    BY <1>14 DEF HardConvert
  <1>15. CASE HardDecSoft(e)
    BY <1>15 DEF HardDecSoft
  <1>16. CASE HardIncHard(e)
    BY <1>16 DEF HardIncHard
  <1>17. CASE HardLoad(e)
    BY <1>17 DEF HardLoad, shared
  <1>18. CASE HardCas(e)
    BY <1>18 DEF HardCas, SetSumFailures, CasFails
  <1>19. CASE HardMarked(e)
    BY <1>19 DEF HardMarked
  <1>20. CASE HardReason(e)
    BY <1>20 DEF HardReason
  <1>21. CASE OkIsResponsible(e)
    BY <1>21 DEF OkIsResponsible, shared
  <1>22. CASE OkIsSoft(e)
    BY <1>22 DEF OkIsSoft, shared
  <1>23. CASE OkDecSoft(e)
    BY <1>23 DEF OkDecSoft
  <1>24. CASE OkIsHard(e)
    BY <1>24 DEF OkIsHard, shared
  <1>25. CASE OkDecHard(e)
    BY <1>25 DEF OkDecHard
  <1>26. CASE OkClear(e)
    BY <1>26 DEF OkClear
  <1>27. CASE OkClearCount(e)
    BY <1>27 DEF OkClearCount
  <1>28. CASE OkClearReason(e)
    BY <1>28 DEF OkClearReason
  <1>29. CASE OkIsZero(e)
    BY <1>29 DEF OkIsZero, shared
  <1>30. CASE OkLoad(e)
    BY <1>30 DEF OkLoad, shared
  <1>31. CASE OkCas(e)
    BY <1>31 DEF OkCas, SetSumFailures, CasFails
  <1>32. CASE OkResetCount(e)
    BY <1>32 DEF OkResetCount
  <1>33. CASE Destroy(e)
    BY <1>33 DEF Destroy, shared
  <1>34. CASE RemoveDestination(e)
    BY <1>34 DEF RemoveDestination, shared
  <1>35. CASE Create(e)
    BY <1>35 DEF Create, locals
  <1> QED
    BY <1>1, <1>2, <1>3, <1>4, <1>5, <1>6, <1>7, <1>8, <1>9, <1>10,
       <1>11, <1>12, <1>13, <1>14, <1>15, <1>16, <1>17, <1>18, <1>19,
       <1>20, <1>21, <1>22, <1>23, <1>24, <1>25, <1>26, <1>27, <1>28,
       <1>29, <1>30, <1>31, <1>32, <1>33, <1>34, <1>35 DEF Step

(* The steps of the code that change sumFailures_ (the two CAS loops, |=   *)
(* 1, = 0 and a new tracker) are Writes.                                   *)
LEMMA StepWrites ==
    ASSUME TypeOK, OwnerOfItsTracker, \A d \in Dst : Own(d),
           NEW e \in Dst, Step(e)
    PROVE  sumFailures' = sumFailures \/ \E w : Writes(e, w)
  <1>a. TrackerOf[e] \in Tracker /\ Own(e) /\ pc[e] \in PCs
    BY TrackerAssumption DEF TypeOK
  <1>b. \A s : s = Threshold - 1 => ~IsTko(s)
    BY ThresholdAssumption DEF IsTko
  <1>1. CASE HandleSoftError(e)
    BY <1>1 DEF HandleSoftError, shared
  <1>2. CASE HandleHardError(e)
    BY <1>2 DEF HandleHardError, shared
  <1>3. CASE \E probe \in BOOLEAN : HandleSuccess(e, probe)
    BY <1>3 DEF HandleSuccess, shared
  <1>4. CASE HandleIsTko(e)
    BY <1>4 DEF HandleIsTko, shared
  <1>5. CASE SoftCount(e)
    BY <1>5 DEF SoftCount
  <1>6. CASE SoftIsTko(e)
    BY <1>6 DEF SoftIsTko, shared
  <1>7. CASE SoftLoad(e)
    BY <1>7 DEF SoftLoad, shared
  <1>8. CASE SoftDecide(e)
    BY <1>8 DEF SoftDecide
  <1>9. CASE SoftCas(e)
    <2>1. CASE /\ sumFailures[TrackerOf[e]] = cur[e]
               /\ sumFailures' = [sumFailures EXCEPT ![TrackerOf[e]] = value[e]]
      <3>1. /\ ~IsTko(cur[e])
            /\ \/ value[e] = e /\ cur[e] = Threshold - 1
               \/ value[e] = cur[e] + 1 /\ value[e] \in 0 .. (Threshold - 1)
        BY <1>a, <1>9 DEF SoftCas, Own, LoopLocals
      <3>2. cur[e] = Threshold - 1 => cur[e] + 1 \notin 0 .. (Threshold - 1)
        BY ThresholdAssumption
      <3>3. Writes(e, value[e])
        BY <2>1, <3>1, <3>2 DEF Writes, Overwrites
      <3> QED BY <3>3
    <2> QED BY <1>9, <2>1 DEF SoftCas, CasFails
  <1>10. CASE SoftReason(e)
    BY <1>10 DEF SoftReason
  <1>11. CASE HardCount(e)
    BY <1>11 DEF HardCount
  <1>12. CASE HardIsHard(e)
    BY <1>12 DEF HardIsHard, shared
  <1>13. CASE HardIsResponsible(e)
    BY <1>13 DEF HardIsResponsible, shared
  <1>14. CASE HardConvert(e)
    <2>1. sumFailures[TrackerOf[e]] = e /\ pc'[e] # pc[e]
      BY <1>a, <1>14 DEF HardConvert, Goto, TypeOK, Own, OwnershipAt, OwnsSoft
    <2>2. Writes(e, HardMark(e))
      BY <1>14, <2>1, WordFacts DEF HardConvert, Writes, Overwrites
    <2> QED BY <2>2
  <1>15. CASE HardDecSoft(e)
    BY <1>15 DEF HardDecSoft
  <1>16. CASE HardIncHard(e)
    BY <1>16 DEF HardIncHard
  <1>17. CASE HardLoad(e)
    BY <1>17 DEF HardLoad, shared
  <1>18. CASE HardCas(e)
    <2>1. CASE /\ sumFailures[TrackerOf[e]] = cur[e]
               /\ ~IsTko(cur[e])
               /\ sumFailures' = [sumFailures EXCEPT ![TrackerOf[e]] = HardMark(e)]
      <3>1. Writes(e, HardMark(e))
        BY <2>1 DEF Writes, Overwrites
      <3> QED BY <3>1
    <2> QED BY <1>18, <2>1 DEF HardCas, SetSumFailures, CasFails
  <1>19. CASE HardMarked(e)
    BY <1>19 DEF HardMarked
  <1>20. CASE HardReason(e)
    BY <1>20 DEF HardReason
  <1>21. CASE OkIsResponsible(e)
    BY <1>21 DEF OkIsResponsible, shared
  <1>22. CASE OkIsSoft(e)
    BY <1>22 DEF OkIsSoft, shared
  <1>23. CASE OkDecSoft(e)
    BY <1>23 DEF OkDecSoft
  <1>24. CASE OkIsHard(e)
    BY <1>24 DEF OkIsHard, shared
  <1>25. CASE OkDecHard(e)
    BY <1>25 DEF OkDecHard
  <1>26. CASE OkClear(e)
    <2>1. IsResponsible(sumFailures[TrackerOf[e]], e) /\ pc'[e] # pc[e]
      BY <1>a, <1>26 DEF OkClear, Goto, TypeOK, Own, OwnershipAt, Owns
    <2>2. Writes(e, 0)
      BY <1>26, <2>1 DEF OkClear, Writes, Overwrites
    <2> QED BY <2>2
  <1>27. CASE OkClearCount(e)
    BY <1>27 DEF OkClearCount
  <1>28. CASE OkClearReason(e)
    BY <1>28 DEF OkClearReason
  <1>29. CASE OkIsZero(e)
    BY <1>29 DEF OkIsZero, shared
  <1>30. CASE OkLoad(e)
    BY <1>30 DEF OkLoad, shared
  <1>31. CASE OkCas(e)
    <2>1. CASE /\ sumFailures[TrackerOf[e]] = cur[e]
               /\ ~IsTko(cur[e])
               /\ sumFailures' = [sumFailures EXCEPT ![TrackerOf[e]] = 0]
      <3>1. Writes(e, 0)
        BY <2>1 DEF Writes, Overwrites
      <3> QED BY <3>1
    <2> QED BY <1>31, <2>1 DEF OkCas, SetSumFailures, CasFails
  <1>32. CASE OkResetCount(e)
    BY <1>32 DEF OkResetCount
  <1>33. CASE Destroy(e)
    BY <1>33 DEF Destroy, shared
  <1>34. CASE RemoveDestination(e)
    BY <1>34 DEF RemoveDestination, shared
  <1>35. CASE Create(e)
    <2>1. CASE NoOther(e)
      <3>1. ~IsTko(sumFailures[TrackerOf[e]])
        BY <1>35, <2>1, CreateHealthy
      <3>2. Writes(e, 0)
        BY <1>35, <2>1, <3>1 DEF Create, Writes, Overwrites
      <3> QED BY <3>2
    <2> QED BY <1>35, <2>1 DEF Create
  <1> QED
    BY <1>1, <1>2, <1>3, <1>4, <1>5, <1>6, <1>7, <1>8, <1>9, <1>10,
       <1>11, <1>12, <1>13, <1>14, <1>15, <1>16, <1>17, <1>18, <1>19,
       <1>20, <1>21, <1>22, <1>23, <1>24, <1>25, <1>26, <1>27, <1>28,
       <1>29, <1>30, <1>31, <1>32, <1>33, <1>34, <1>35 DEF Step


(* Hence e neither gives responsibility to another destination nor takes   *)
(* it away.                                                                *)
LEMMA OthersKeepOwnership ==
    ASSUME TypeOK, OwnerOfItsTracker, \A d \in Dst : Own(d),
           NEW e \in Dst, Step(e), NEW d \in Dst \ {e}
    PROVE  /\ OwnsSoft(d)' <=> OwnsSoft(d)
           /\ OwnsHard(d)' <=> OwnsHard(d)
           /\ Owns(d)' <=> Owns(d)
  <1>1. TrackerOf[e] \in Tracker /\ TrackerOf[d] \in Tracker
    BY TrackerAssumption
  <1>2. CASE sumFailures' = sumFailures
    BY <1>2 DEF OwnsSoft, OwnsHard, Owns
  <1>3. ASSUME NEW w, Writes(e, w)
        PROVE  /\ OwnsSoft(d)' <=> OwnsSoft(d)
               /\ OwnsHard(d)' <=> OwnsHard(d)
               /\ Owns(d)' <=> Owns(d)
    <2>1. CASE TrackerOf[d] # TrackerOf[e]
      BY <1>1, <1>3, <2>1 DEF TypeOK, Writes, OwnsSoft, OwnsHard, Owns
    <2>2. CASE TrackerOf[d] = TrackerOf[e]
      <3>0. /\ sumFailures[TrackerOf[e]] \in Words
            /\ Overwrites(e, sumFailures[TrackerOf[e]], w)
        BY <1>1, <1>3 DEF TypeOK, Writes
      <3>1. sumFailures'[TrackerOf[d]] = w /\ w \in Words
        BY <1>1, <1>3, <2>2, <3>0, WrittenWord DEF TypeOK, Writes
      <3>2. w # d /\ w # HardMark(d)
        BY <3>0, WrittenWord, WordFacts
      <3>3. ~OwnsSoft(d)' /\ ~OwnsHard(d)' /\ ~Owns(d)'
        BY <3>1, <3>2, WordFacts DEF OwnsSoft, OwnsHard, Owns
      <3>4. sumFailures[TrackerOf[d]] \in Words
        BY <1>1 DEF TypeOK
      <3>5. sumFailures[TrackerOf[d]] # d /\ sumFailures[TrackerOf[d]] # HardMark(d)
        BY <2>2, <3>0, <3>4, WrittenWord, WordFacts
      <3> QED BY <3>3, <3>4, <3>5, WordFacts DEF OwnsSoft, OwnsHard, Owns
    <2> QED BY <2>1, <2>2
  <1> QED BY <1>2, <1>3, StepWrites

(* What another destination's call knows, and the units it holds, survive  *)
(* a step of e.                                                            *)
LEMMA OthersKeepOwn ==
    ASSUME TypeOK, OwnerOfItsTracker, \A d \in Dst : Own(d),
           NEW e \in Dst, Step(e), NEW d \in Dst \ {e}
    PROVE  /\ Own(d)'
           /\ HoldsSoft(d)' <=> HoldsSoft(d)
           /\ HoldsHard(d)' <=> HoldsHard(d)
  <1>1. /\ OwnsSoft(d)' <=> OwnsSoft(d)
        /\ OwnsHard(d)' <=> OwnsHard(d)
        /\ Owns(d)' <=> Owns(d)
    BY OthersKeepOwnership
  <1>2. /\ pc'[d] = pc[d] /\ cur'[d] = cur[d] /\ value'[d] = value[d]
        /\ d \in alive' <=> d \in alive
        /\ d \in probing' <=> d \in probing
    BY StepFrame
  <1>3. Own(d) OBVIOUS
  <1>4. OwnershipAt(d)'
    BY <1>1, <1>2, <1>3 DEF Own, OwnershipAt
  <1>5. LoopLocals(d)'
    BY <1>2, <1>3 DEF Own, LoopLocals
  <1>6. CallsOfTheDead(d)'
    BY <1>1, <1>2, <1>3 DEF Own, CallsOfTheDead
  <1>7. Probed(d)'
    BY <1>1, <1>2, <1>3 DEF Own, Probed
  <1>8. (HoldsSoft(d)' <=> HoldsSoft(d)) /\ (HoldsHard(d)' <=> HoldsHard(d))
    BY <1>1, <1>2 DEF HoldsSoft, HoldsHard
  <1> QED BY <1>4, <1>5, <1>6, <1>7, <1>8 DEF Own

(* A tracker's word never carries the address of a destination of another  *)
(* server.                                                                 *)
LEMMA StepOwnerOfItsTracker ==
    ASSUME TypeOK, OwnerOfItsTracker, \A d \in Dst : Own(d),
           NEW e \in Dst, Step(e)
    PROVE  OwnerOfItsTracker'
  <1>1. CASE sumFailures' = sumFailures
    BY <1>1 DEF OwnerOfItsTracker
  <1>2. ASSUME NEW w, Writes(e, w)
        PROVE  OwnerOfItsTracker'
    <2>1. TrackerOf[e] \in Tracker
      BY TrackerAssumption
    <2>2. w \in Words /\ w \in (0 .. (Threshold - 1)) \cup {e, HardMark(e)}
      BY <1>2, <2>1, WrittenWord DEF TypeOK, Writes
    <2>3. \A d \in Dst : IsResponsible(w, d) => d = e
      BY <2>2, WordFacts
    <2> QED BY <1>2, <2>1, <2>3 DEF TypeOK, Writes, OwnerOfItsTracker
  <1> QED BY <1>1, <1>2, StepWrites

(* Two sets of destinations that differ at most in e differ in size by     *)
(* the unit of e.                                                          *)
LEMMA OneUnit ==
    ASSUME NEW S \in SUBSET Dst, NEW T \in SUBSET Dst, NEW e \in Dst,
           \A d \in Dst \ {e} : d \in S <=> d \in T
    PROVE  /\ Cardinality(T) + Unit(e \in S) = Cardinality(S) + Unit(e \in T)
           /\ Cardinality(S) \in Nat
  <1>1. IsFiniteSet(S) /\ IsFiniteSet(T)
    BY DstAssumption, FS_Subset
  <1>2. Cardinality(S) \in Nat /\ Cardinality(T) \in Nat
    BY <1>1, FS_CardinalityType
  <1>3. CASE (e \in S) <=> (e \in T)
    <2>1. S = T BY <1>3
    <2> QED BY <1>2, <2>1 DEF Unit
  <1>4. CASE e \in S /\ e \notin T
    <2>1. T = S \ {e} BY <1>4
    <2>2. Cardinality(T) = Cardinality(S) - 1
      BY <1>1, <1>4, <2>1, FS_RemoveElement
    <2> QED BY <1>2, <1>4, <2>2 DEF Unit
  <1>5. CASE e \notin S /\ e \in T
    <2>1. T = S \cup {e} BY <1>5
    <2>2. Cardinality(T) = Cardinality(S) + 1
      BY <1>1, <1>5, <2>1, FS_AddElement
    <2> QED BY <1>2, <1>5, <2>2 DEF Unit
  <1> QED BY <1>3, <1>4, <1>5

(* The counters stay exact in every step.                                  *)
LEMMA StepCounters ==
    ASSUME TypeOK, OwnerOfItsTracker, \A d \in Dst : Own(d), CountersExact,
           NEW e \in Dst, Step(e), TypeOK'
    PROVE  CountersExact'
  <1> DEFINE Soft == {d \in Dst : HoldsSoft(d)}
             Hard == {d \in Dst : HoldsHard(d)}
  <1>1. \A d \in Dst \ {e} :
          (d \in Soft <=> d \in Soft') /\ (d \in Hard <=> d \in Hard')
    BY OthersKeepOwn
  <1>2. Accounts(e) BY StepAccounts
  <1>3. /\ Cardinality(Soft') + Unit(e \in Soft) = Cardinality(Soft) + Unit(e \in Soft')
        /\ Cardinality(Hard') + Unit(e \in Hard) = Cardinality(Hard) + Unit(e \in Hard')
        /\ Cardinality(Soft) \in Nat /\ Cardinality(Soft') \in Nat
        /\ Cardinality(Hard) \in Nat /\ Cardinality(Hard') \in Nat
    <2>1. Soft \in SUBSET Dst /\ Soft' \in SUBSET Dst
      OBVIOUS
    <2>2. Hard \in SUBSET Dst /\ Hard' \in SUBSET Dst
      OBVIOUS
    <2> HIDE DEF Soft, Hard
    <2> QED BY <1>1, <2>1, <2>2, OneUnit
  <1>4. /\ softTkos = Cardinality(Soft) /\ hardTkos = Cardinality(Hard)
        /\ (e \in Soft <=> HoldsSoft(e)) /\ (e \in Soft' <=> HoldsSoft(e)')
        /\ (e \in Hard <=> HoldsHard(e)) /\ (e \in Hard' <=> HoldsHard(e)')
    BY DEF CountersExact
  <1>5. softTkos' = Cardinality(Soft') /\ hardTkos' = Cardinality(Hard')
    <2> HIDE DEF Soft, Hard
    <2> QED BY <1>2, <1>3, <1>4 DEF Accounts, Unit, TypeOK
  <1> QED BY <1>5 DEF CountersExact

-----------------------------------------------------------------------------
(* The invariant.                                                          *)

(* A new process, with all servers healthy, satisfies the invariant.       *)
LEMMA InitIInv == Init => IInv
  <1> SUFFICES ASSUME Init PROVE IInv
    OBVIOUS
  <1>1. TypeOK
    BY WordFacts DEF Init, TypeOK, PCs, Reasons
  <1>2. \A t \in Tracker, d \in Dst : ~IsResponsible(sumFailures[t], d)
    BY WordFacts DEF Init
  <1>3. \A d \in Dst : ~Owns(d) /\ ~OwnsSoft(d) /\ ~OwnsHard(d)
    BY WordFacts, TrackerAssumption DEF Init, Owns, OwnsSoft, OwnsHard
  <1>4. \A d \in Dst : Own(d)
    BY <1>3 DEF Init, Own, OwnershipAt, LoopLocals, CallsOfTheDead, Probed
  <1>5. {d \in Dst : HoldsSoft(d)} = {} /\ {d \in Dst : HoldsHard(d)} = {}
    BY <1>3 DEF Init, HoldsSoft, HoldsHard
  <1>6. CountersExact
    BY <1>5, FS_EmptySet DEF Init, CountersExact
  <1> QED BY <1>1, <1>2, <1>4, <1>6 DEF IInv, OwnerOfItsTracker, Own, ProbedByOwner

(* Every step of the tracker code preserves the invariant.                 *)
LEMMA NextIInv == IInv /\ [Next]_vars => IInv'
  <1> SUFFICES ASSUME IInv, [Next]_vars PROVE IInv'
    OBVIOUS
  <1>1. ASSUME NEW e \in Dst, Step(e)
        PROVE  IInv'
    <2>1. TypeOK /\ OwnerOfItsTracker /\ CountersExact /\ \A d \in Dst : Own(d)
      BY DEF IInv, Own, ProbedByOwner
    <2>2. TypeOK'
      BY <1>1, <2>1, StepSharedType
    <2>3. OwnerOfItsTracker'
      BY <1>1, <2>1, StepOwnerOfItsTracker
    <2>4. \A d \in Dst : Own(d)'
      BY <1>1, <2>1, StepOwn, OthersKeepOwn
    <2>5. CountersExact'
      BY <1>1, <2>1, <2>2, StepCounters
    <2> QED BY <2>2, <2>3, <2>4, <2>5 DEF IInv, Own, ProbedByOwner
  <1>2. CASE UNCHANGED vars
    BY <1>2 DEF vars, shared, locals, IInv, TypeOK, OwnerOfItsTracker, OwnershipAt,
       LoopLocals, CallsOfTheDead, ProbedByOwner, Probed, CountersExact,
       HoldsSoft, HoldsHard, Owns, OwnsSoft, OwnsHard
  <1> QED BY <1>1, <1>2 DEF Next

(* IInv is an inductive invariant of the lock-free protocol.               *)
THEOREM Invariance == Spec => []IInv
  BY InitIInv, NextIInv, PTL DEF Spec

(* sumFailures_ only ever holds one of the three kinds of words that its   *)
(* declaration in TkoTracker.h lists.                                      *)
THEOREM TypeCorrect == Spec => []TypeOK
  <1>1. IInv => TypeOK BY DEF IInv
  <1> QED BY <1>1, Invariance, PTL

(* softTkos and hardTkos are exact at every moment, for any number of      *)
(* destinations and servers.                                               *)
THEOREM CountersAreExact == Spec => []CountersExact
  <1>1. IInv => CountersExact BY DEF IInv
  <1> QED BY <1>1, Invariance, PTL

(* A TKO server is probed, and by its responsible destination only.        *)
THEOREM TkoIsProbed == Spec => []ProbedByOwner
  <1>1. IInv => ProbedByOwner BY DEF IInv
  <1> QED BY <1>1, Invariance, PTL

(* assert(oldSoftTkos != 0) of decrementSoftTkoCount never fails, and the  *)
(* hard counter is never decremented at zero.                              *)
THEOREM CountersNeverUnderflow == Spec => []NoUnderflow
  <1>1. IInv => NoUnderflow
    <2> SUFFICES ASSUME IInv, NEW d \in Dst
                 PROVE  /\ \/ pc[d] \in {"hard.decSoft", "ok.decSoft"}
                           \/ pc[d] = "soft.decide" /\ value[d] = d /\ cur[d] # Threshold - 1
                           => softTkos > 0
                        /\ pc[d] = "ok.decHard" => hardTkos > 0
      BY DEF NoUnderflow
    <2>1. \A S \in SUBSET Dst : d \in S => Cardinality(S) > 0
      <3> SUFFICES ASSUME NEW S \in SUBSET Dst, d \in S
                   PROVE  Cardinality(S) > 0
        OBVIOUS
      <3>1. IsFiniteSet(S) BY DstAssumption, FS_Subset
      <3>2. Cardinality(S) \in Nat /\ Cardinality(S) # 0
        BY <3>1, FS_CardinalityType, FS_EmptySet
      <3> QED BY <3>2
    <2>2. OwnershipAt(d) BY DEF IInv
    <2>3. \/ pc[d] \in {"hard.decSoft", "ok.decSoft"}
          \/ pc[d] = "soft.decide" /\ value[d] = d
          => HoldsSoft(d)
      BY <2>2 DEF OwnershipAt, HoldsSoft
    <2>4. pc[d] = "ok.decHard" => HoldsHard(d)
      BY <2>2 DEF OwnershipAt, HoldsHard
    <2>5. HoldsSoft(d) => softTkos > 0
      BY <2>1 DEF IInv, CountersExact
    <2>6. HoldsHard(d) => hardTkos > 0
      BY <2>1 DEF IInv, CountersExact
    <2> QED BY <2>3, <2>4, <2>5, <2>6
  <1> QED BY <1>1, Invariance, PTL

(* Once a server is TKO, only the responsible destination changes that.    *)
THEOREM OnlyOwnerChanges == Spec => OnlyOwnerChangesTko
  <1>1. IInv /\ [Next]_vars => [\A t \in Tracker : OwnerChanges(t)]_vars
    <2> SUFFICES ASSUME IInv, Next, NEW t \in Tracker,
                        IsTko(sumFailures[t]), sumFailures'[t] # sumFailures[t]
                 PROVE  \E d \in Dst :
                          /\ TrackerOf[d] = t
                          /\ IsResponsible(sumFailures[t], d)
                          /\ pc'[d] # pc[d]
                          /\ sumFailures'[t] \in {HardMark(d), 0}
      BY DEF OwnerChanges
    <2>1. PICK e \in Dst : Step(e)
      BY DEF Next
    <2>2. TypeOK /\ OwnerOfItsTracker /\ \A d \in Dst : Own(d)
      BY DEF IInv, Own, ProbedByOwner
    <2>3. PICK w : Writes(e, w)
      BY <2>1, <2>2, StepWrites
    <2>4. t = TrackerOf[e] /\ sumFailures'[t] = w
      BY <2>2, <2>3 DEF Writes, TypeOK
    <2>5. Overwrites(e, sumFailures[t], w) /\ sumFailures[t] \in Words
      BY <2>2, <2>3, <2>4 DEF Writes, TypeOK
    <2>6. sumFailures[t] # Threshold - 1
      BY ThresholdAssumption DEF IsTko
    <2>7. /\ IsResponsible(sumFailures[t], e)
          /\ pc'[e] # pc[e]
          /\ w \in {HardMark(e), 0}
      BY <2>5, <2>6, WordFacts DEF Overwrites
    <2> QED BY <2>4, <2>7
  <1> QED BY <1>1, Invariance, PTL DEF Spec, OnlyOwnerChangesTko

(* "Eventually this will get corrected": between calls the two counters    *)
(* are the numbers of soft and hard TKO servers.                           *)
THEOREM CountersSettled == Spec => []CountersSettle
  <1>1. IInv => CountersSettle
    <2> SUFFICES ASSUME IInv, \A d \in Dst : pc[d] = "idle"
                 PROVE  /\ softTkos = Cardinality({t \in Tracker : IsSoftTko(sumFailures[t])})
                        /\ hardTkos = Cardinality({t \in Tracker : IsHardTko(sumFailures[t])})
      BY DEF CountersSettle
    <2> DEFINE SoftT == {t \in Tracker : IsSoftTko(sumFailures[t])}
               HardT == {t \in Tracker : IsHardTko(sumFailures[t])}
               SoftD == {d \in Dst : OwnsSoft(d)}
               HardD == {d \in Dst : OwnsHard(d)}
    <2>1. softTkos = Cardinality(SoftD) /\ hardTkos = Cardinality(HardD)
      BY DEF IInv, CountersExact, HoldsSoft, HoldsHard
    <2>2. IsFiniteSet(SoftD) /\ IsFiniteSet(HardD)
      BY DstAssumption, FS_Subset
    <2>3. /\ \A d \in SoftD : TrackerOf[d] \in SoftT
          /\ \A d \in HardD : TrackerOf[d] \in HardT
      BY TrackerAssumption, WordFacts DEF OwnsSoft, OwnsHard
    <2>4. /\ \A d, e \in SoftD : TrackerOf[d] = TrackerOf[e] => d = e
          /\ \A d, e \in HardD : TrackerOf[d] = TrackerOf[e] => d = e
      BY WordFacts DEF OwnsSoft, OwnsHard
    <2>5. /\ \A t \in SoftT : \E d \in SoftD : TrackerOf[d] = t
          /\ \A t \in HardT : \E d \in HardD : TrackerOf[d] = t
      <3> SUFFICES ASSUME NEW t \in Tracker, IsTko(sumFailures[t])
                   PROVE  /\ IsSoftTko(sumFailures[t]) =>
                                \E d \in SoftD : TrackerOf[d] = t
                          /\ IsHardTko(sumFailures[t]) =>
                                \E d \in HardD : TrackerOf[d] = t
        BY DEF IsSoftTko, IsHardTko
      <3>1. sumFailures[t] \in Words BY DEF IInv, TypeOK
      <3>2. PICK d \in Dst : sumFailures[t] = d \/ sumFailures[t] = HardMark(d)
        BY <3>1, WordFacts DEF Words
      <3>3. TrackerOf[d] = t
        BY <3>1, <3>2, WordFacts DEF IInv, OwnerOfItsTracker
      <3> QED BY <3>2, <3>3, WordFacts DEF OwnsSoft, OwnsHard
    <2>6. \A S \in SUBSET Dst, T \in SUBSET Tracker :
            /\ IsFiniteSet(S)
            /\ \A d \in S : TrackerOf[d] \in T
            /\ \A d, e \in S : TrackerOf[d] = TrackerOf[e] => d = e
            /\ \A t \in T : \E d \in S : TrackerOf[d] = t
            => Cardinality(T) = Cardinality(S)
      <3> SUFFICES ASSUME NEW S \in SUBSET Dst, NEW T \in SUBSET Tracker,
                          IsFiniteSet(S),
                          \A d \in S : TrackerOf[d] \in T,
                          \A d, e \in S : TrackerOf[d] = TrackerOf[e] => d = e,
                          \A t \in T : \E d \in S : TrackerOf[d] = t
                   PROVE  Cardinality(T) = Cardinality(S)
        OBVIOUS
      <3> DEFINE f == [d \in S |-> TrackerOf[d]]
      <3>1. f \in Bijection(S, T)
        BY DEF Bijection, Injection, Surjection, IsInjective
      <3> QED BY <3>1, FS_Bijection DEF ExistsBijection
    <2> HIDE DEF SoftT, HardT, SoftD, HardD
    <2>7. Cardinality(SoftT) = Cardinality(SoftD) /\ Cardinality(HardT) = Cardinality(HardD)
      <3>1. SoftD \in SUBSET Dst /\ HardD \in SUBSET Dst
        BY DEF SoftD, HardD
      <3>2. SoftT \in SUBSET Tracker /\ HardT \in SUBSET Tracker
        BY DEF SoftT, HardT
      <3> QED BY <2>2, <2>3, <2>4, <2>5, <2>6, <3>1, <3>2
    <2> QED BY <2>1, <2>7 DEF SoftT, HardT
  <1> QED BY <1>1, Invariance, PTL

-----------------------------------------------------------------------------
(* The refinement.  Every write to the word is an atomic operation of      *)
(* TkoSpec on the server, and nothing else is visible there.               *)

statuses == [t \in Tracker |-> Status(sumFailures[t])]

(* The refinement mapping on the three kinds of words.                     *)
LEMMA StatusFacts ==
    /\ \A n \in 0 .. (Threshold - 1) : Status(n) = Abs!Healthy(n)
    /\ \A d \in Dst : Status(d) = Abs!SoftTko(d) /\ Status(HardMark(d)) = Abs!HardTko(d)
  BY DstAssumption, ThresholdAssumption
     DEF Status, IsTko, HardMark, Abs!Healthy, Abs!SoftTko, Abs!HardTko

(* A write to the word is SoftFailure, HardFailure or Success of TkoSpec.  *)
LEMMA WriteIsOperation ==
    ASSUME TypeOK, TypeOK', NEW e \in Dst, NEW w, Writes(e, w)
    PROVE  Abs!Next
  <1> DEFINE t == TrackerOf[e]
             s == sumFailures[t]
  <1>1. t \in Tracker /\ s \in Words
    BY TrackerAssumption DEF TypeOK
  <1>2. statuses' = [statuses EXCEPT ![t] = Status(w)]
    BY <1>1 DEF Writes, TypeOK, statuses
  <1>3. statuses[t] = Status(s)
    BY <1>1 DEF statuses
  <1>4. ~IsTko(s) => s \in 0 .. (Threshold - 1)
    BY <1>1, WordFacts
  <1>5. Threshold - 1 \in 0 .. (Threshold - 1) /\ 0 \in 0 .. (Threshold - 1)
    BY ThresholdAssumption
  <1>6. Overwrites(e, s, w) BY DEF Writes
  <1> HIDE DEF s
  <1>7. CASE ~IsTko(s) /\ s # Threshold - 1 /\ w = s + 1
    <2>1. s + 1 \in 0 .. (Threshold - 1)
      BY <1>1, <1>7, CountUp
    <2>2. Abs!SoftFailure(e)
      BY <1>2, <1>3, <1>4, <1>7, <2>1, StatusFacts DEF Abs!SoftFailure, statuses
    <2> QED BY <2>2 DEF Abs!Next
  <1>8. CASE s = Threshold - 1 /\ w = e
    <2>1. Abs!SoftFailure(e)
      BY <1>2, <1>3, <1>5, <1>8, StatusFacts DEF Abs!SoftFailure, statuses
    <2> QED BY <2>1 DEF Abs!Next
  <1>9. CASE (~IsTko(s) \/ s = e) /\ w = HardMark(e)
    <2>1. Abs!HardFailure(e)
      BY <1>2, <1>3, <1>4, <1>9, StatusFacts DEF Abs!HardFailure, statuses
    <2> QED BY <2>1 DEF Abs!Next
  <1>10. CASE (~IsTko(s) \/ IsResponsible(s, e)) /\ w = 0
    <2>1. IsResponsible(s, e) => s = e \/ s = HardMark(e)
      BY <1>1, WordFacts
    <2>2. Abs!Success(e)
      BY <1>2, <1>3, <1>4, <1>5, <1>10, <2>1, StatusFacts DEF Abs!Success, statuses
    <2> QED BY <2>2 DEF Abs!Next
  <1> QED BY <1>6, <1>7, <1>8, <1>9, <1>10 DEF Overwrites

(* The lock-free TkoTracker implements the atomic specification TkoSpec.   *)
THEOREM Refinement == Spec => ImplementsTkoSpec
  <1>1. Init => Abs!Init
    BY StatusFacts, WordFacts DEF Init, Abs!Init
  <1>2. IInv /\ IInv' /\ [Next]_vars => [Abs!Next]_statuses
    <2> SUFFICES ASSUME IInv, IInv', [Next]_vars
                 PROVE  Abs!Next \/ UNCHANGED statuses
      OBVIOUS
    <2>1. CASE UNCHANGED vars
      BY <2>1 DEF vars, shared, statuses
    <2>2. ASSUME NEW e \in Dst, Step(e)
          PROVE  Abs!Next \/ UNCHANGED statuses
      <3>1. sumFailures' = sumFailures \/ \E w : Writes(e, w)
        BY <2>2, StepWrites DEF IInv, Own, ProbedByOwner
      <3>2. CASE sumFailures' = sumFailures
        BY <3>2 DEF statuses
      <3>3. ASSUME NEW w, Writes(e, w) PROVE Abs!Next
        BY <3>3, WriteIsOperation DEF IInv
      <3> QED BY <3>1, <3>2, <3>3
    <2> QED BY <2>1, <2>2 DEF Next
  <1> QED BY <1>1, <1>2, Invariance, PTL DEF Spec, ImplementsTkoSpec, Abs!Spec, statuses

=============================================================================
