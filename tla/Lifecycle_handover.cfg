SPECIFICATION Spec
CONSTANTS
  c1 = c1
  c2 = c2
  c3 = c3
  None = None
  Calls = {c1}
  Kinds = {"start", "restart"}
  Budget = 4
  Heavy = {}
  IsMac = TRUE
  Settings = {TRUE, FALSE}
CHECK_DEADLOCK FALSE
PROPERTY RestartFailsDirect
