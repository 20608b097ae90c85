\* Buffers of two lines, of which three at once are too many, and a file that may fail.
SPECIFICATION AFairSpec
CONSTANTS
  Size = 3
  MaxToWrite = 2
  FlushEveryN = 2
  Null = Null
  MaxLines = 7
INVARIANTS
  NoLineLost
  RecyclingNeverFails
PROPERTIES
  LineReachesDisk
  StopReturns
CHECK_DEADLOCK FALSE
