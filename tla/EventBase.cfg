SPECIFICATION EventBaseSpec
CONSTANTS
  MaxMsgId = 3
  TimeoutOf <- MCTimeoutOf
  MaxInflight = 2
  MaxPending = 2
  MaxRetries = 1
  MaxFaults = 2
  Writer = {"w1", "w2"}
  Capacity = 2
  MaxMessages = 4
INVARIANTS OwnReply QueuesConsistent WriterScheduled NoLostWakeup
PROPERTIES AllReturn AllHandled
CHECK_DEADLOCK FALSE
