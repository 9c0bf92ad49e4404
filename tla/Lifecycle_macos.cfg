SPECIFICATION FairSpec
CONSTANTS
  c1 = c1
  c2 = c2
  c3 = c3
  None = None
  Calls = {c1, c2}
  Kinds = {"restart", "quit"}
  Budget = 4
  Heavy = {}
  IsMac = TRUE
  Settings = {TRUE}
CHECK_DEADLOCK FALSE
PROPERTIES EveryCallEnds DeadChildNoticed LossNoticed
