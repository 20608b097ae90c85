SPECIFICATION Spec
CONSTANTS
  p1 = p1
  p2 = p2
  c1 = c1
  c2 = c2
  NoEntry = NoEntry
  Producer <- MCProducer
  Consumer <- MCConsumer
  Capacity = 2
  MaxLines = 3
SYMMETRY Symmetry
INVARIANTS
  TypeOK
  EntryNeverOverwritten
  PopGetsItsTicket
  SlotsHaveOneOwner
  IInv
PROPERTY ImplementsFifo
