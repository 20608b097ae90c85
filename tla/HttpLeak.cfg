\* The socket of a connection that is over stays open.
SPECIFICATION HSpec
CONSTANTS
  acc = acc
  w1 = w1
  w2 = w2
  loop1 = loop1
  c1 = c1
  c2 = c2
  NoTask = NoTask
  Acceptor = acc
  AcceptLoop = loop1
  Sched <- OneWorkerScheds
  Worker <- OneWorker
  Client <- OneClient
  Task <- OneClientTasks
  Kinds <- OneClientKinds
  Entries = 2
  MaxAwait <- FailOnce
  ReqLen = 1
  RespLen = 1
  MaxRequests = 1
  MaxClosed = 1
  MaxWaiting = 8
INVARIANT EndedConnectionIsClosed
CHECK_DEADLOCK FALSE
