SPECIFICATION Spec
CONSTANTS
  Conn = {c1, c2}
  Nobody = Nobody
  Addr = {a1}
  Input = {k1}
  Password = {good}
  None = None
  ViewOnlyDefault = {FALSE}
  MaxViewers = 2
  AcceptCap = 2
  RelayedCap = 0
  LockAt = 1
  RecentLimit = 1
  MaxFailures = 1
  MaxCommands = 0
PROPERTIES
  OnlyOwnersRelease
CHECK_DEADLOCK FALSE
