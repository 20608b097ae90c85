\* Two connections.
SPECIFICATION PSpec
CONSTANTS
  c1 = c1
  c2 = c2
  Conn <- MCConn
  NoConn = NoConn
  NLoops = 2
  MaxFds = 3
  Cap = 1
  RespLen = 2
  MaxValue = 2
  Expired = 1
  KeepAliveTime = 2
  Period = 2
  Pieces <- MCPieces
  Talkers <- MCTalkers
  MaxSends = 2
  MaxNow = 2
  MaxFaults = 1
INVARIANTS
  NoDanglingHandler
  Guarded
  NoLostEvent
  PiecesInOrder
PROPERTIES
  ClosedOnlyWhenDue
CHECK_DEADLOCK FALSE
