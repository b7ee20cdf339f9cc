SPECIFICATION Spec
CONSTANTS
  u1 = u1
  u2 = u2
  px = px
  User <- MCUser
  Thread <- MCThread
  ProxyThread = px
  BatchSize <- MCBatchSize
  Kind <- MCKind
  Priority <- MCPriority
  InitialValue = 2
  MaxCount = 3
  MaxInflight = 1
  MaxThrottled = 2
  WaitingTimeout = TRUE
INVARIANTS NoLostPost PermitsConserved NoIdleSlot AnsweredOnce
PROPERTIES RoutedInOrder EverySendAnswered
CHECK_DEADLOCK FALSE
