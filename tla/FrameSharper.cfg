SPECIFICATION Spec
CONSTANTS
  Sizes = {1}
  Color = {black, white}
  Black = black
  Settings = {0, 2}
  Automatic = 255
  WorstAuto = 2
  MaxInFlight = 2
  IdModulus = 6
  BudgetSettled = 2
  BudgetBusy = 1
  ResizeLive = {FALSE}
  MaxCaptures = 0
  MaxRequests = 2
INVARIANTS
  SharperTakesEffect
CHECK_DEADLOCK FALSE
