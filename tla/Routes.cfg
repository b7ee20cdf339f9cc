SPECIFICATION RoutesSpec
CONSTANTS
  f1 = f1
  f2 = f2
  f3 = f3
  f4 = f4
  f5 = f5
  Fiber <- MCFiber
  SenderOf <- MCSenderOf
  Workload <- MCWorkload
  Width <- MCWidth
  MaxTries = 2
  MaxOutstanding = 1
  ServerToken <- MCServerToken
  MaxSets = 2
  NumChildren = 4
INVARIANTS  SlotsExact RoundRobin 
CHECK_DEADLOCK FALSE
