\* Two clients dealt to two workers, accept errors, stop at any time.
SPECIFICATION HSpec
CONSTANTS
  acc = acc
  w1 = w1
  w2 = w2
  loop1 = loop1
  c1 = c1
  c2 = c2
  NoTask = NoTask
  Acceptor = acc
  AcceptLoop = loop1
  Sched <- TwoWorkerScheds
  Worker <- TwoWorkers
  Client <- TwoClients
  Task <- TwoClientTasks
  Kinds <- TwoClientKinds
  Entries = 2
  MaxAwait <- AcceptFailsOnce
  ReqLen = 1
  RespLen = 1
  MaxRequests = 0
  MaxClosed = 0
  MaxWaiting = 8
SYMMETRY ClientSymmetry
INVARIANTS
  Confined
  DealtInTurn
CHECK_DEADLOCK FALSE
