CONSTANTS
    Dst = {"d1", "d2"}
    Tracker = {"s1"}
    TrackerOf <- MCTrackerOf
    Threshold = 2
    Reset = TRUE
    PoolBound = 0
SPECIFICATION Spec
INVARIANTS OnlyOwnerProbes ConnectionsTracked ServerCountsExact
PROPERTIES ImplementsTkoSpec
