\* Two callers, handlers and functors that queue functors, and the destructor at any time.
SPECIFICATION EFairSpec
CONSTANTS
  c1 = c1
  c2 = c2
  LoopThread = LoopThread
  Caller <- MCCaller
  MaxCalls = 3
INVARIANTS
  CalledInOrder
  NoLostWakeup
PROPERTIES
  QueuedFunctorIsCalled
  DestructorReturns
CHECK_DEADLOCK FALSE
