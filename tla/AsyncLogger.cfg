SPECIFICATION LFairSpec
CONSTANTS
  p1 = p1
  p2 = p2
  w = w
  NoEntry = NoEntry
  Producer <- MCProducer
  Consumer <- MCConsumer
  Capacity = 2
  MaxLines = 2
  MaxAttempts = 2
  MaxStarts = 2
  MaxCalls = 3
INVARIANTS
  NoLineTwice
  StopLosesNothing
  QueuedLinesInOrder
  FlushedBeforeSleep
PROPERTIES
  QueuedLineIsWritten
  StopReturns
  LogReturns
CHECK_DEADLOCK FALSE
