SPECIFICATION Spec
CONSTANTS
  Conn = {c1, c2, c3, c4}
  NoConn = NoConn
  Id = {i1}
  Key = {k1, k2}
  NoKey = NoKey
  Ticket = {t1, t2}
  NoTicket = NoTicket
  MaxConns = 3
  PendingCap = 1
  Backpressure = 1
  ReadBatch = 1
  MaxMsgs = 1
  MaxRepeats = 1
SYMMETRY Symmetry
INVARIANTS
  TypeOK
  PointersAgree
  PairedWithAskedHost
PROPERTIES
  OwnershipKept
CHECK_DEADLOCK FALSE
