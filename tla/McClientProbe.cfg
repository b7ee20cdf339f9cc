CONSTANTS
    MaxMsgId = 3
    TimeoutOf <- MCProbeTimeoutOf
    MaxInflight = 2
    MaxPending = 2
    MaxRetries = 1
    MaxFaults = 2
SPECIFICATION Spec
PROPERTY OldestTimesOut
CHECK_DEADLOCK FALSE
