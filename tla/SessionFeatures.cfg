SPECIFICATION FairSpec
CONSTANTS
  Viewer = {v1, v2, v3}
  Watching = {v3}
  Text = {t1, t2, t3}
  Nothing = Nothing
  MaxCopies = 3
  MaxFps = 60
  FpsChoices = {0, 5, 15, 30, 60, 255}
  Automatic = 255
  Display = {0, 1}
  Started = 0
  Unreliable = {1}
  MaxEvents = 4
  Conn = {c1, c2}
  Name = {n1}
  Sizes = {0, 2}
  MaxDrops = 2
  MaxNumber = 1
  Earlier = {0, 1}
  MaxUploads = 4
  Window = 2
INVARIANTS
  InSync
  Agreement
  SavedIsThere
  WholeOrReceiving
PROPERTIES
  RateBeforeColour
  ComesToRest
CHECK_DEADLOCK FALSE
