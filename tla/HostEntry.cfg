SPECIFICATION Spec
CONSTANTS
  Conn = {c1, c2, c3}
  Nobody = Nobody
  Addr = {a1, a2}
  Input = {}
  Password = {good}
  None = None
  ViewOnlyDefault = {FALSE}
  MaxViewers = 2
  AcceptCap = 3
  RelayedCap = 1
  LockAt = 2
  RecentLimit = 2
  MaxFailures = 3
  MaxCommands = 0
SYMMETRY Symmetry
INVARIANTS
  TypeOK
  Capacity
  GuessLimits
CHECK_DEADLOCK FALSE
