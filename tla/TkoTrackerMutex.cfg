CONSTANTS
    Dst <- MCDst
    Tracker = {"s1"}
    TrackerOf <- MCTrackerOf
    Threshold = 2
    MaxFailures = 2
SPECIFICATION Spec
PROPERTIES OwnerHasMutex
