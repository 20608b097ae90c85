\* A full submission queue, connections that end early, and stop: does everything end?
SPECIFICATION HFairSpec
CONSTANTS
  acc = acc
  w1 = w1
  w2 = w2
  loop1 = loop1
  c1 = c1
  c2 = c2
  NoTask = NoTask
  Acceptor = acc
  AcceptLoop = loop1
  Sched <- OneWorkerScheds
  Worker <- OneWorker
  Client <- OneClient
  Task <- OneClientTasks
  Kinds <- OneClientKinds
  Entries = 1
  MaxAwait <- FailTwice
  ReqLen = 1
  RespLen = 1
  MaxRequests = 0
  MaxClosed = 1
  MaxWaiting = 8
INVARIANT NoDanglingRequest
PROPERTIES
  StopReturns
  ClientIsServed
CHECK_DEADLOCK FALSE
