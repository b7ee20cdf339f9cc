SPECIFICATION ServerSpec
CONSTANTS
  MaxItems = 3
  MaxId = 8
  MaxInFlight = 2
  GoAway = TRUE
  NumThreads = 3
  NumListening = 2
  Signal = {"TERM"}
INVARIANTS  RepliesInOrder AllOrError ReadsEnabled ShutdownOnce
PROPERTIES ClosesEventually ServerStops
CHECK_DEADLOCK FALSE
