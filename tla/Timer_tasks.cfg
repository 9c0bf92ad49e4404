CONSTANTS
  Uids = {u1}
  Intervals = {1}
  Calls = {c1, c2}
  Boot = Boot
  NoCaller = NoCaller
SPECIFICATION FairSpec
INVARIANTS TypeOK OneUpdatePerProfile TimerFollowsProfiles
PROPERTIES EveryTaskRuns
CHECK_DEADLOCK FALSE
