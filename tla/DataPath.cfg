SPECIFICATION FairSpec
CONSTANTS
  Threads = 3
  MaxCalls = 3
  N = 2
  Total = 3
  Chunk = 2
  Color = {black, white}
  Qualities = {0, 2}
  Budgets = {1}
  MaxEncodes = 2
  Width = 3
  Height = 2
  Bits = 4
  MaxPalette = 3
  Steps = {1, 4}
  Pixel <- MCPixel
  Alphabet = {0, 1}
  MaxLen = 10
  Blocks <- MCBlocks
  MinMatch = 4
  LastLiterals = 1
  MfLimit = 5
  Nibble = 2
  TopByte = 2
  SkipLength = 2
  Slots = 3
  SlotOf <- MCSlotOf
  Slack = 2
  Msg = {m1, m2}
  MaxConnects = 2
  MaxSent = 2
  MaxFaults = 2
  MaxMessage = 200
  Lengths = {1, 126}
  MaxFrames = 3
INVARIANTS
  JobAlive
  NoSharedTile
  TilesAreSent
  Lossless
  FramesExact
PROPERTIES
  PoolPromise
  ChannelsKept
CHECK_DEADLOCK FALSE
