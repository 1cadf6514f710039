SPECIFICATION FairSpec
CONSTANTS
  Identity = {k1, k2}
  Password = {p1, p2}
  None = None
  MaxAttempts = 2
  TrustNew = FALSE
  Altered = TRUE
  MaxEvents = 5
  Key = {a, esc}
  Esc = esc
  Button = {left}
  MaxInput = 5
  MaxAddresses = 2
  Addresses = 3
  TcpLimit = 1
  TlsLimit = 2
  MaxMessages = 2
  FirstBackoff = 1
  MaxBackoff = 4
  PingAfter = 1
  QuietLimit = 4
  UpgradeLimit = 6
  Secure = TRUE
  MaxFaults = 3
  First = p1
  Dog = {w1, w2}
  Prompt = TRUE
  MaxActs = 6
  Record = {r1, r2, r3}
  DiskFull = TRUE
  MaxChanges = 5
  Host = {h1, h2}
  Part = Part
  KeyDiskFull = TRUE
  MaxStarts = 3
INVARIANTS
  PasswordSafe
  TellsTheTruth
  KeysAreKnown
PROPERTIES
  AttemptsEnd
  SharingSettles
  KeptOnDisk
CHECK_DEADLOCK FALSE
