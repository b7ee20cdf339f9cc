--------------------------- MODULE TkoTrackerSteps ---------------------------
(***************************************************************************)
(* Lemmas about TkoTracker, one case per step of the code: the words that  *)
(* sumFailures_ can hold, and that every step keeps the types.             *)
(***************************************************************************)
EXTENDS TkoTracker, TLAPS

-----------------------------------------------------------------------------
(* The representation of sumFailures_.                                     *)

(* Each word is a count, an address or an address with its low bit set,    *)
(* and the tests of the code tell the three apart.                         *)
LEMMA WordFacts ==
    /\ \A w \in Words : w \in Int
    /\ \A n \in 0 .. (Threshold - 1) :
          n \in Words /\ ~IsTko(n) /\ \A d \in Dst : ~IsResponsible(n, d)
    /\ \A d \in Dst :
          /\ d \in Words /\ HardMark(d) \in Words
          /\ IsSoftTko(d) /\ ~IsHardTko(d)
          /\ IsHardTko(HardMark(d)) /\ ~IsSoftTko(HardMark(d))
          /\ d # HardMark(d)
    /\ \A w \in Words, d \in Dst :
          IsResponsible(w, d) <=> (w = d \/ w = HardMark(d))
    /\ \A w \in Words : IsTko(w) <=> w \notin 0 .. (Threshold - 1)
    /\ \A w \in Words : IsTko(w) <=> IsSoftTko(w) \/ IsHardTko(w)
    /\ \A d, e \in Dst : d # HardMark(e) /\ (HardMark(d) = HardMark(e) => d = e)
    /\ \A d \in Dst, n \in 0 .. (Threshold - 1) : n # d /\ n # HardMark(d)
    /\ 0 \in 0 .. (Threshold - 1)
    /\ \A d \in Dst : (d - (d % 2)) + 1 = HardMark(d)
  BY DstAssumption, ThresholdAssumption
     DEF Words, IsTko, IsResponsible, HardMark, IsSoftTko, IsHardTko

(* One more failure below the limit is still below it.                     *)
LEMMA CountUp ==
    \A n \in Words, d \in Dst :
        ~IsTko(n) /\ n # Threshold - 1 =>
            n + 1 \in 0 .. (Threshold - 1) /\ n + 1 \in Words /\ n + 1 # d
  BY DstAssumption, ThresholdAssumption DEF Words, IsTko, HardMark

-----------------------------------------------------------------------------
(* Types.                                                                  *)

LocalsOK ==
    /\ pc \in [Dst -> PCs]
    /\ cur \in [Dst -> Words]
    /\ value \in [Dst -> Words]
    /\ isProbe \in [Dst -> BOOLEAN]

(* What a call knows about its own destination.                            *)
Own(d) ==
    OwnershipAt(d) /\ LoopLocals(d) /\ CallsOfTheDead(d) /\ Probed(d)

(* A step to the next place of a call keeps the types of the locals.       *)
LEMMA GotoType ==
    ASSUME LocalsOK, NEW d \in Dst, NEW l \in PCs, Goto(d, l)
    PROVE  LocalsOK'
  BY DEF Goto, LocalsOK

(* Leaving a call keeps the types of the locals.                           *)
LEMMA ReturnType ==
    ASSUME LocalsOK, NEW d \in Dst, Return(d)
    PROVE  LocalsOK'
  BY WordFacts DEF Return, LocalsOK, PCs

(* Every step of every call keeps the types of the call's locals.          *)
LEMMA StepLocalsType ==
    ASSUME TypeOK, NEW e \in Dst, Own(e), Step(e)
    PROVE  LocalsOK'
  <1>a. TrackerOf[e] \in Tracker /\ LocalsOK
    BY TrackerAssumption DEF TypeOK, LocalsOK
  <1>b. sumFailures[TrackerOf[e]] \in Words /\ 0 \in Words /\ e \in Words
    BY <1>a, WordFacts DEF TypeOK
  <1>1. CASE HandleSoftError(e)
    BY <1>a, <1>b, <1>1, GotoType, ReturnType DEF HandleSoftError, shared, LocalsOK, PCs
  <1>2. CASE HandleHardError(e)
    BY <1>a, <1>b, <1>2, GotoType, ReturnType DEF HandleHardError, shared, LocalsOK, PCs
  <1>3. CASE \E probe \in BOOLEAN : HandleSuccess(e, probe)
    BY <1>a, <1>b, <1>3, GotoType, ReturnType DEF HandleSuccess, shared, LocalsOK, PCs
  <1>4. CASE HandleIsTko(e)
    BY <1>a, <1>b, <1>4, GotoType, ReturnType DEF HandleIsTko, shared, LocalsOK, PCs
  <1>5. CASE SoftCount(e)
    BY <1>a, <1>b, <1>5, GotoType, ReturnType DEF SoftCount, LocalsOK, PCs
  <1>6. CASE SoftIsTko(e)
    BY <1>a, <1>b, <1>6, GotoType, ReturnType DEF SoftIsTko, shared, LocalsOK, PCs
  <1>7. CASE SoftLoad(e)
    BY <1>a, <1>b, <1>7, GotoType, ReturnType DEF SoftLoad, shared, LocalsOK, PCs
  <1>8. CASE SoftDecide(e)
    <2>1. CASE cur[e] = Threshold - 1
      BY <1>a, <1>b, <1>8, <2>1 DEF SoftDecide, LocalsOK, PCs
    <2>2. CASE cur[e] # Threshold - 1 /\ IsTko(cur[e])
      BY <1>a, <1>8, <2>2, ReturnType DEF SoftDecide
    <2>3. CASE cur[e] # Threshold - 1 /\ ~IsTko(cur[e])
      <3>1. cur[e] + 1 \in Words
        BY <1>a, <2>3, CountUp DEF LocalsOK
      <3> QED BY <1>a, <1>8, <2>3, <3>1 DEF SoftDecide, LocalsOK, PCs
    <2> QED BY <2>1, <2>2, <2>3
  <1>9. CASE SoftCas(e)
    BY <1>a, <1>b, <1>9, GotoType, ReturnType DEF SoftCas, CasFails, LocalsOK, PCs
  <1>10. CASE SoftReason(e)
    BY <1>a, <1>b, <1>10, GotoType, ReturnType DEF SoftReason, LocalsOK, PCs
  <1>11. CASE HardCount(e)
    BY <1>a, <1>b, <1>11, GotoType, ReturnType DEF HardCount, LocalsOK, PCs
  <1>12. CASE HardIsHard(e)
    BY <1>a, <1>b, <1>12, GotoType, ReturnType DEF HardIsHard, shared, LocalsOK, PCs
  <1>13. CASE HardIsResponsible(e)
    BY <1>a, <1>b, <1>13, GotoType, ReturnType DEF HardIsResponsible, shared, LocalsOK, PCs
  <1>14. CASE HardConvert(e)
    BY <1>a, <1>b, <1>14, GotoType, ReturnType DEF HardConvert, LocalsOK, PCs
  <1>15. CASE HardDecSoft(e)
    BY <1>a, <1>b, <1>15, GotoType, ReturnType DEF HardDecSoft, LocalsOK, PCs
  <1>16. CASE HardIncHard(e)
    BY <1>a, <1>b, <1>16, GotoType, ReturnType DEF HardIncHard, LocalsOK, PCs
  <1>17. CASE HardLoad(e)
    BY <1>a, <1>b, <1>17, GotoType, ReturnType DEF HardLoad, shared, LocalsOK, PCs
  <1>18. CASE HardCas(e)
    BY <1>a, <1>b, <1>18, GotoType, ReturnType DEF HardCas, SetSumFailures, CasFails, LocalsOK, PCs
  <1>19. CASE HardMarked(e)
    BY <1>a, <1>b, <1>19, GotoType, ReturnType DEF HardMarked, LocalsOK, PCs
  <1>20. CASE HardReason(e)
    BY <1>a, <1>b, <1>20, GotoType, ReturnType DEF HardReason, LocalsOK, PCs
  <1>21. CASE OkIsResponsible(e)
    BY <1>a, <1>b, <1>21, GotoType, ReturnType DEF OkIsResponsible, shared, LocalsOK, PCs
  <1>22. CASE OkIsSoft(e)
    BY <1>a, <1>b, <1>22, GotoType, ReturnType DEF OkIsSoft, shared, LocalsOK, PCs
  <1>23. CASE OkDecSoft(e)
    BY <1>a, <1>b, <1>23, GotoType, ReturnType DEF OkDecSoft, LocalsOK, PCs
  <1>24. CASE OkIsHard(e)
    BY <1>a, <1>b, <1>24, GotoType, ReturnType DEF OkIsHard, shared, LocalsOK, PCs
  <1>25. CASE OkDecHard(e)
    BY <1>a, <1>b, <1>25, GotoType, ReturnType DEF OkDecHard, LocalsOK, PCs
  <1>26. CASE OkClear(e)
    BY <1>a, <1>b, <1>26, GotoType, ReturnType DEF OkClear, LocalsOK, PCs
  <1>27. CASE OkClearCount(e)
    BY <1>a, <1>b, <1>27, GotoType, ReturnType DEF OkClearCount, LocalsOK, PCs
  <1>28. CASE OkClearReason(e)
    BY <1>a, <1>b, <1>28, GotoType, ReturnType DEF OkClearReason, LocalsOK, PCs
  <1>29. CASE OkIsZero(e)
    BY <1>a, <1>b, <1>29, GotoType, ReturnType DEF OkIsZero, shared, LocalsOK, PCs
  <1>30. CASE OkLoad(e)
    BY <1>a, <1>b, <1>30, GotoType, ReturnType DEF OkLoad, shared, LocalsOK, PCs
  <1>31. CASE OkCas(e)
    BY <1>a, <1>b, <1>31, GotoType, ReturnType DEF OkCas, SetSumFailures, CasFails, LocalsOK, PCs
  <1>32. CASE OkResetCount(e)
    BY <1>a, <1>b, <1>32, GotoType, ReturnType DEF OkResetCount, LocalsOK, PCs
  <1>33. CASE Destroy(e)
    BY <1>a, <1>b, <1>33, GotoType, ReturnType DEF Destroy, shared, LocalsOK, PCs
  <1>34. CASE RemoveDestination(e)
    BY <1>a, <1>b, <1>34, GotoType, ReturnType DEF RemoveDestination, shared, LocalsOK, PCs
  <1>35. CASE Create(e)
    BY <1>a, <1>b, <1>35, GotoType, ReturnType DEF Create, locals, LocalsOK, PCs
  <1> QED
    BY <1>1, <1>2, <1>3, <1>4, <1>5, <1>6, <1>7, <1>8, <1>9, <1>10,
       <1>11, <1>12, <1>13, <1>14, <1>15, <1>16, <1>17, <1>18, <1>19,
       <1>20, <1>21, <1>22, <1>23, <1>24, <1>25, <1>26, <1>27, <1>28,
       <1>29, <1>30, <1>31, <1>32, <1>33, <1>34, <1>35 DEF Step

(* Every step keeps the types; sumFailures_ never leaves its three kinds   *)
(* of words, because |= 1 is applied to the caller's own address only.     *)
LEMMA StepSharedType ==
    ASSUME TypeOK, NEW e \in Dst, Own(e), Step(e)
    PROVE  TypeOK'
  <1> USE StepLocalsType
  <1>a. TrackerOf[e] \in Tracker BY TrackerAssumption
  <1>b. value[e] \in Words /\ 0 \in Words /\ HardMark(e) \in Words BY WordFacts DEF TypeOK
  <1>1. CASE HandleSoftError(e)
    BY <1>a, <1>b, <1>1 DEF TypeOK, HandleSoftError, shared, LocalsOK
  <1>2. CASE HandleHardError(e)
    BY <1>a, <1>b, <1>2 DEF TypeOK, HandleHardError, shared, LocalsOK
  <1>3. CASE \E probe \in BOOLEAN : HandleSuccess(e, probe)
    BY <1>a, <1>b, <1>3 DEF TypeOK, HandleSuccess, shared, LocalsOK
  <1>4. CASE HandleIsTko(e)
    BY <1>a, <1>b, <1>4 DEF TypeOK, HandleIsTko, shared, LocalsOK
  <1>5. CASE SoftCount(e)
    BY <1>a, <1>b, <1>5 DEF TypeOK, SoftCount, LocalsOK
  <1>6. CASE SoftIsTko(e)
    BY <1>a, <1>b, <1>6 DEF TypeOK, SoftIsTko, shared, LocalsOK
  <1>7. CASE SoftLoad(e)
    BY <1>a, <1>b, <1>7 DEF TypeOK, SoftLoad, shared, LocalsOK
  <1>8. CASE SoftDecide(e)
    BY <1>a, <1>8 DEF TypeOK, SoftDecide, LocalsOK
  <1>9. CASE SoftCas(e)
    BY <1>a, <1>b, <1>9 DEF TypeOK, SoftCas, CasFails, LocalsOK
  <1>10. CASE SoftReason(e)
    BY <1>a, <1>b, <1>10 DEF TypeOK, SoftReason, LocalsOK, Reasons
  <1>11. CASE HardCount(e)
    BY <1>a, <1>b, <1>11 DEF TypeOK, HardCount, LocalsOK
  <1>12. CASE HardIsHard(e)
    BY <1>a, <1>b, <1>12 DEF TypeOK, HardIsHard, shared, LocalsOK
  <1>13. CASE HardIsResponsible(e)
    BY <1>a, <1>b, <1>13 DEF TypeOK, HardIsResponsible, shared, LocalsOK
  <1>14. CASE HardConvert(e)
    BY <1>a, <1>b, <1>14, WordFacts DEF TypeOK, HardConvert, LocalsOK, Own, OwnershipAt, OwnsSoft
  <1>15. CASE HardDecSoft(e)
    BY <1>a, <1>b, <1>15 DEF TypeOK, HardDecSoft, LocalsOK
  <1>16. CASE HardIncHard(e)
    BY <1>a, <1>b, <1>16 DEF TypeOK, HardIncHard, LocalsOK
  <1>17. CASE HardLoad(e)
    BY <1>a, <1>b, <1>17 DEF TypeOK, HardLoad, shared, LocalsOK
  <1>18. CASE HardCas(e)
    BY <1>a, <1>b, <1>18 DEF TypeOK, HardCas, SetSumFailures, CasFails, LocalsOK
  <1>19. CASE HardMarked(e)
    BY <1>a, <1>b, <1>19 DEF TypeOK, HardMarked, LocalsOK
  <1>20. CASE HardReason(e)
    BY <1>a, <1>b, <1>20 DEF TypeOK, HardReason, LocalsOK, Reasons
  <1>21. CASE OkIsResponsible(e)
    BY <1>a, <1>b, <1>21 DEF TypeOK, OkIsResponsible, shared, LocalsOK
  <1>22. CASE OkIsSoft(e)
    BY <1>a, <1>b, <1>22 DEF TypeOK, OkIsSoft, shared, LocalsOK
  <1>23. CASE OkDecSoft(e)
    BY <1>a, <1>b, <1>23 DEF TypeOK, OkDecSoft, LocalsOK
  <1>24. CASE OkIsHard(e)
    BY <1>a, <1>b, <1>24 DEF TypeOK, OkIsHard, shared, LocalsOK
  <1>25. CASE OkDecHard(e)
    BY <1>a, <1>b, <1>25 DEF TypeOK, OkDecHard, LocalsOK
  <1>26. CASE OkClear(e)
    BY <1>a, <1>b, <1>26 DEF TypeOK, OkClear, LocalsOK
  <1>27. CASE OkClearCount(e)
    BY <1>a, <1>b, <1>27 DEF TypeOK, OkClearCount, LocalsOK
  <1>28. CASE OkClearReason(e)
    BY <1>a, <1>b, <1>28 DEF TypeOK, OkClearReason, LocalsOK, Reasons
  <1>29. CASE OkIsZero(e)
    BY <1>a, <1>b, <1>29 DEF TypeOK, OkIsZero, shared, LocalsOK
  <1>30. CASE OkLoad(e)
    BY <1>a, <1>b, <1>30 DEF TypeOK, OkLoad, shared, LocalsOK
  <1>31. CASE OkCas(e)
    BY <1>a, <1>b, <1>31 DEF TypeOK, OkCas, SetSumFailures, CasFails, LocalsOK
  <1>32. CASE OkResetCount(e)
    BY <1>a, <1>b, <1>32 DEF TypeOK, OkResetCount, LocalsOK
  <1>33. CASE Destroy(e)
    BY <1>a, <1>b, <1>33 DEF TypeOK, Destroy, shared, LocalsOK
  <1>34. CASE RemoveDestination(e)
    BY <1>a, <1>b, <1>34 DEF TypeOK, RemoveDestination, shared, LocalsOK
  <1>35. CASE Create(e)
    BY <1>a, <1>b, <1>35 DEF TypeOK, Create, locals, LocalsOK, Reasons
  <1> QED
    BY <1>1, <1>2, <1>3, <1>4, <1>5, <1>6, <1>7, <1>8, <1>9, <1>10,
       <1>11, <1>12, <1>13, <1>14, <1>15, <1>16, <1>17, <1>18, <1>19,
       <1>20, <1>21, <1>22, <1>23, <1>24, <1>25, <1>26, <1>27, <1>28,
       <1>29, <1>30, <1>31, <1>32, <1>33, <1>34, <1>35 DEF Step

=============================================================================
