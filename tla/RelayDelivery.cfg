SPECIFICATION FairSpec
CONSTANTS
  Conn = {c1, c2, c3}
  NoConn = NoConn
  Id = {i1}
  Key = {k1}
  NoKey = NoKey
  Ticket = {t1}
  NoTicket = NoTicket
  MaxConns = 3
  PendingCap = 1
  Backpressure = 1
  ReadBatch = 1
  MaxMsgs = 4
  MaxRepeats = 1
INVARIANTS
  NothingLost
  ForwardedInOrder
  MemoryBounded
PROPERTIES
  WaitingIsAnswered
  BothEndsGo
CHECK_DEADLOCK FALSE
