\* A receive whose peer stays silent waits for ever.
SPECIFICATION FairSpec
CONSTANTS
  t1 = t1
  t2 = t2
  NoTask = NoTask
  Sched = {"s1"}
  Task <- MCTask
  Entries = 4
  Kinds <- Timed
  MaxAwait <- OneAwait
PROPERTY TimedReceiveEnds
CHECK_DEADLOCK FALSE
