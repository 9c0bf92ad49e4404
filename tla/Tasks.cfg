SPECIFICATION Spec
CONSTANTS tray = tray second = second
CHECK_DEADLOCK FALSE
PROPERTIES LeavingEnds EveryRequestServed
