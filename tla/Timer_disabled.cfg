CONSTANTS
  Uids = {u1}
  Intervals = {1}
  Calls = {c1}
  Boot = Boot
  NoCaller = NoCaller
SPECIFICATION Spec
INVARIANT DisabledIsNeverScheduledAgain
CHECK_DEADLOCK FALSE
