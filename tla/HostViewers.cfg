SPECIFICATION FairSpec
CONSTANTS
  Conn = {c1, c2}
  Nobody = Nobody
  Addr = {a1}
  Input = {k1}
  Password = {good}
  None = None
  ViewOnlyDefault = {TRUE, FALSE}
  MaxViewers = 2
  AcceptCap = 2
  RelayedCap = 1
  LockAt = 1
  RecentLimit = 1
  MaxFailures = 1
  MaxCommands = 2
INVARIANTS
  HeldByAViewer
  RosterCurrent
PROPERTIES
  SlotsFreed
  InputsReleased
CHECK_DEADLOCK FALSE
