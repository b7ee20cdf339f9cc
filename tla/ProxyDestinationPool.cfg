CONSTANTS
    Dst = {"d1", "d2"}
    Tracker = {"s1"}
    TrackerOf <- MCTrackerOf
    Threshold = 2
    Reset = TRUE
    PoolBound = 2
SPECIFICATION Spec
INVARIANT PoolConnectionsExact
