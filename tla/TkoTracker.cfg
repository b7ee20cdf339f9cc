CONSTANTS
    Dst <- MCDst
    Tracker = {"s1"}
    TrackerOf <- MCTrackerOf
    Threshold = 3
    MaxFailures = 4
SPECIFICATION Spec
INVARIANTS CountersExact ProbedByOwner
PROPERTIES OnlyOwnerChangesTko ImplementsTkoSpec
