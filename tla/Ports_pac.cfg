SPECIFICATION Spec
CONSTANTS Last = 4 Reserved = {2} MaxRetries = 3 MaxSaves = 1 MaxForeign = 2 MaxCrashes = 1
CHECK_DEADLOCK FALSE
INVARIANT PacFollowsMode
