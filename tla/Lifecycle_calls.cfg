SPECIFICATION Spec
CONSTANTS
  c1 = c1
  c2 = c2
  c3 = c3
  None = None
  Calls = {c1, c2, c3}
  Kinds = {"start", "stop", "restart", "continue", "uninstall", "reinstall", "update", "sysproxy", "quit"}
  Budget = 6
  Heavy = {"stop", "restart", "continue", "uninstall", "reinstall", "update", "sysproxy"}
  IsMac = FALSE
  Settings = {TRUE, FALSE}
SYMMETRY CallSymmetry
CHECK_DEADLOCK FALSE
INVARIANTS TypeOK OneCore SettledCore GuardServed ServiceWatched
PROPERTIES RecoveryHitsItsSession QuitLeavesNoCore
