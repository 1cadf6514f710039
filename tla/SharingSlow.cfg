SPECIFICATION FairSpec
CONSTANTS
  Password = {p1, p2}
  First = p1
  Dog = {w1, w2}
  Prompt = FALSE
  MaxActs = 3
PROPERTIES
  Settles
CHECK_DEADLOCK FALSE
