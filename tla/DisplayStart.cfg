SPECIFICATION Spec
CONSTANTS
  Viewer = {v1, v2}
  Display = {0, 1}
  Started = 1
  Unreliable = {}
  MaxEvents = 2
INVARIANTS
  StartedDisplayShared
CHECK_DEADLOCK FALSE
