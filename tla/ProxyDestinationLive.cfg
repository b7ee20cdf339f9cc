CONSTANTS
    Dst = {"d1", "d2"}
    Tracker = {"s1"}
    TrackerOf <- MCTrackerOf
    Threshold = 2
    Reset = FALSE
    PoolBound = 0
SPECIFICATION FairSpec
PROPERTIES TkoEnds RequestsEnd
