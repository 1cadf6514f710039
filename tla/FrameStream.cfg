SPECIFICATION FairSpec
CONSTANTS
  Sizes = {1, 2}
  Color = {black, white}
  Black = black
  Settings = {2, 255}
  Automatic = 255
  WorstAuto = 2
  MaxInFlight = 2
  IdModulus = 6
  BudgetSettled = 2
  BudgetBusy = 1
  ResizeLive = {TRUE, FALSE}
  MaxCaptures = 1
  MaxRequests = 1
INVARIANTS
  ShadowIsView
  QuietIsExact
  FramesFit
  FlowControl
PROPERTIES
  BecomesQuiet
CHECK_DEADLOCK FALSE
