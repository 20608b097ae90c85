\* One client, one worker: requests and responses in parts, pipelining, late timeouts, stop.
SPECIFICATION HSpec
CONSTANTS
  acc = acc
  w1 = w1
  w2 = w2
  loop1 = loop1
  c1 = c1
  c2 = c2
  NoTask = NoTask
  Acceptor = acc
  AcceptLoop = loop1
  Sched <- OneWorkerScheds
  Worker <- OneWorker
  Client <- OneClient
  Task <- OneClientTasks
  Kinds <- OneClientKinds
  Entries = 2
  MaxAwait <- FailOnce
  ReqLen = 2
  RespLen = 2
  MaxRequests = 2
  MaxClosed = 0
  MaxWaiting = 1
INVARIANTS
  ResponsesInOrder
  AnswersFollowRequests
CHECK_DEADLOCK FALSE
