SPECIFICATION ReconfigurationSpec
CONSTANTS
  p1 = p1
  p2 = p2
  ProxySeq <- MCProxySeq
  ConfigThread = config
  StatsThread = stats
  MaxGen = 3
  MaxTracker = 5
  MaxAttempts = 3
  MaxTasks = 1
  MaxEdits = 2
  MaxRestarts = 1
  Locker = {"l1", "l2", "l3"}
INVARIANTS NoRelock DisposedOnProxy TablesExact WriterExcludes SleepersWoken NoChangeMissed BackupsGood
CHECK_DEADLOCK FALSE
