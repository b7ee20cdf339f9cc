------------------------ MODULE TkoTrackerOwnership ------------------------
(***************************************************************************)
(* Lemmas about TkoTracker, one case per step of the code: every step      *)
(* keeps what its own call knows about its tracker, and changes the        *)
(* counters by exactly the unit that its destination takes or gives up.    *)
(* TkoTrackerProofs builds the theorems on them.                           *)
(***************************************************************************)
EXTENDS TkoTrackerSteps

-----------------------------------------------------------------------------
(* Responsibility.                                                         *)

(* Every step of recordSoftFailure, recordHardFailure, recordSuccess and   *)
(* removeDestination keeps what its own call knows.                        *)
LEMMA StepOwn ==
    ASSUME TypeOK, NEW e \in Dst, Own(e), Step(e)
    PROVE  Own(e)'
  <1>a. TrackerOf[e] \in Tracker BY TrackerAssumption
  <1> USE <1>a, WordFacts
      DEF TypeOK, Own, OwnershipAt, LoopLocals, CallsOfTheDead, Probed, Owns,
          OwnsSoft, OwnsHard, Goto, Return
  <1>1. CASE HandleSoftError(e)
    BY <1>1 DEF HandleSoftError, shared
  <1>2. CASE HandleHardError(e)
    BY <1>2 DEF HandleHardError, shared
  <1>3. CASE \E probe \in BOOLEAN : HandleSuccess(e, probe)
    BY <1>3 DEF HandleSuccess, shared
  <1>4. CASE HandleIsTko(e)
    BY <1>4 DEF HandleIsTko, shared
  <1>5. CASE SoftCount(e)
    BY <1>5 DEF SoftCount
  <1>6. CASE SoftIsTko(e)
    BY <1>6 DEF SoftIsTko, shared
  <1>7. CASE SoftLoad(e)
    BY <1>7 DEF SoftLoad, shared
  <1>8. CASE SoftDecide(e)
    <2>1. CASE cur[e] = Threshold - 1
      BY <1>8, <2>1 DEF SoftDecide
    <2>2. CASE cur[e] # Threshold - 1 /\ IsTko(cur[e])
      BY <1>8, <2>2 DEF SoftDecide
    <2>3. CASE cur[e] # Threshold - 1 /\ ~IsTko(cur[e])
      BY <1>8, <2>3, CountUp DEF SoftDecide
    <2> QED BY <2>1, <2>2, <2>3
  <1>9. CASE SoftCas(e)
    BY <1>9 DEF SoftCas, CasFails
  <1>10. CASE SoftReason(e)
    BY <1>10 DEF SoftReason
  <1>11. CASE HardCount(e)
    BY <1>11 DEF HardCount
  <1>12. CASE HardIsHard(e)
    BY <1>12 DEF HardIsHard, shared
  <1>13. CASE HardIsResponsible(e)
    BY <1>13 DEF HardIsResponsible, shared
  <1>14. CASE HardConvert(e)
    BY <1>14 DEF HardConvert
  <1>15. CASE HardDecSoft(e)
    BY <1>15 DEF HardDecSoft
  <1>16. CASE HardIncHard(e)
    BY <1>16 DEF HardIncHard
  <1>17. CASE HardLoad(e)
    BY <1>17 DEF HardLoad, shared
  <1>18. CASE HardCas(e)
    BY <1>18 DEF HardCas, SetSumFailures, CasFails
  <1>19. CASE HardMarked(e)
    BY <1>19 DEF HardMarked
  <1>20. CASE HardReason(e)
    BY <1>20 DEF HardReason
  <1>21. CASE OkIsResponsible(e)
    BY <1>21 DEF OkIsResponsible, shared
  <1>22. CASE OkIsSoft(e)
    BY <1>22 DEF OkIsSoft, shared
  <1>23. CASE OkDecSoft(e)
    BY <1>23 DEF OkDecSoft
  <1>24. CASE OkIsHard(e)
    BY <1>24 DEF OkIsHard, shared
  <1>25. CASE OkDecHard(e)
    BY <1>25 DEF OkDecHard
  <1>26. CASE OkClear(e)
    BY <1>26 DEF OkClear
  <1>27. CASE OkClearCount(e)
    BY <1>27 DEF OkClearCount
  <1>28. CASE OkClearReason(e)
    BY <1>28 DEF OkClearReason
  <1>29. CASE OkIsZero(e)
    BY <1>29 DEF OkIsZero, shared
  <1>30. CASE OkLoad(e)
    BY <1>30 DEF OkLoad, shared
  <1>31. CASE OkCas(e)
    BY <1>31 DEF OkCas, SetSumFailures, CasFails
  <1>32. CASE OkResetCount(e)
    BY <1>32 DEF OkResetCount
  <1>33. CASE Destroy(e)
    BY <1>33 DEF Destroy, shared
  <1>34. CASE RemoveDestination(e)
    BY <1>34 DEF RemoveDestination, shared
  <1>35. CASE Create(e)
    BY <1>35, SMTT(30) DEF Create, locals
  <1> QED
    BY <1>1, <1>2, <1>3, <1>4, <1>5, <1>6, <1>7, <1>8, <1>9, <1>10,
       <1>11, <1>12, <1>13, <1>14, <1>15, <1>16, <1>17, <1>18, <1>19,
       <1>20, <1>21, <1>22, <1>23, <1>24, <1>25, <1>26, <1>27, <1>28,
       <1>29, <1>30, <1>31, <1>32, <1>33, <1>34, <1>35, Zenon DEF Step

-----------------------------------------------------------------------------
(* The counters.                                                           *)

Unit(b) == IF b THEN 1 ELSE 0

(* A step of d changes a counter by exactly the unit it takes or gives up. *)
Accounts(d) ==
    /\ softTkos' + Unit(HoldsSoft(d)) = softTkos + Unit(HoldsSoft(d)')
    /\ hardTkos' + Unit(HoldsHard(d)) = hardTkos + Unit(HoldsHard(d)')

(* Each place of the code that changes a counter does so exactly when the  *)
(* destination starts or stops holding a unit of it.                       *)
LEMMA StepAccounts ==
    ASSUME TypeOK, NEW e \in Dst, Own(e), Step(e)
    PROVE  Accounts(e)
  <1>a. TrackerOf[e] \in Tracker BY TrackerAssumption
  <1> USE <1>a, WordFacts
      DEF TypeOK, Own, OwnershipAt, LoopLocals, CallsOfTheDead, Probed, Owns,
          OwnsSoft, OwnsHard, Goto, Return, HoldsSoft, HoldsHard, Accounts, Unit
  <1>1. CASE HandleSoftError(e)
    BY <1>1 DEF HandleSoftError, shared
  <1>2. CASE HandleHardError(e)
    BY <1>2 DEF HandleHardError, shared
  <1>3. CASE \E probe \in BOOLEAN : HandleSuccess(e, probe)
    BY <1>3 DEF HandleSuccess, shared
  <1>4. CASE HandleIsTko(e)
    BY <1>4 DEF HandleIsTko, shared
  <1>5. CASE SoftCount(e)
    BY <1>5 DEF SoftCount
  <1>6. CASE SoftIsTko(e)
    BY <1>6 DEF SoftIsTko, shared
  <1>7. CASE SoftLoad(e)
    BY <1>7 DEF SoftLoad, shared
  <1>8. CASE SoftDecide(e)
    <2>1. CASE cur[e] = Threshold - 1
      BY <1>8, <2>1 DEF SoftDecide
    <2>2. CASE cur[e] # Threshold - 1 /\ IsTko(cur[e])
      BY <1>8, <2>2 DEF SoftDecide
    <2>3. CASE cur[e] # Threshold - 1 /\ ~IsTko(cur[e])
      BY <1>8, <2>3, CountUp DEF SoftDecide
    <2> QED BY <2>1, <2>2, <2>3
  <1>9. CASE SoftCas(e)
    BY <1>9 DEF SoftCas, CasFails
  <1>10. CASE SoftReason(e)
    BY <1>10 DEF SoftReason
  <1>11. CASE HardCount(e)
    BY <1>11 DEF HardCount
  <1>12. CASE HardIsHard(e)
    BY <1>12 DEF HardIsHard, shared
  <1>13. CASE HardIsResponsible(e)
    BY <1>13 DEF HardIsResponsible, shared
  <1>14. CASE HardConvert(e)
    BY <1>14 DEF HardConvert
  <1>15. CASE HardDecSoft(e)
    BY <1>15 DEF HardDecSoft
  <1>16. CASE HardIncHard(e)
    BY <1>16 DEF HardIncHard
  <1>17. CASE HardLoad(e)
    BY <1>17 DEF HardLoad, shared
  <1>18. CASE HardCas(e)
    BY <1>18 DEF HardCas, SetSumFailures, CasFails
  <1>19. CASE HardMarked(e)
    BY <1>19 DEF HardMarked
  <1>20. CASE HardReason(e)
    BY <1>20 DEF HardReason
  <1>21. CASE OkIsResponsible(e)
    BY <1>21 DEF OkIsResponsible, shared
  <1>22. CASE OkIsSoft(e)
    BY <1>22 DEF OkIsSoft, shared
  <1>23. CASE OkDecSoft(e)
    BY <1>23 DEF OkDecSoft
  <1>24. CASE OkIsHard(e)
    BY <1>24 DEF OkIsHard, shared
  <1>25. CASE OkDecHard(e)
    BY <1>25 DEF OkDecHard
  <1>26. CASE OkClear(e)
    BY <1>26 DEF OkClear
  <1>27. CASE OkClearCount(e)
    BY <1>27 DEF OkClearCount
  <1>28. CASE OkClearReason(e)
    BY <1>28 DEF OkClearReason
  <1>29. CASE OkIsZero(e)
    BY <1>29 DEF OkIsZero, shared
  <1>30. CASE OkLoad(e)
    BY <1>30 DEF OkLoad, shared
  <1>31. CASE OkCas(e)
    BY <1>31 DEF OkCas, SetSumFailures, CasFails
  <1>32. CASE OkResetCount(e)
    BY <1>32 DEF OkResetCount
  <1>33. CASE Destroy(e)
    BY <1>33 DEF Destroy, shared
  <1>34. CASE RemoveDestination(e)
    BY <1>34 DEF RemoveDestination, shared
  <1>35. CASE Create(e)
    BY <1>35, SMTT(30) DEF Create, locals
  <1> QED
    BY <1>1, <1>2, <1>3, <1>4, <1>5, <1>6, <1>7, <1>8, <1>9, <1>10,
       <1>11, <1>12, <1>13, <1>14, <1>15, <1>16, <1>17, <1>18, <1>19,
       <1>20, <1>21, <1>22, <1>23, <1>24, <1>25, <1>26, <1>27, <1>28,
       <1>29, <1>30, <1>31, <1>32, <1>33, <1>34, <1>35, Zenon DEF Step

=============================================================================
