SPECIFICATION Spec
CONSTANTS
    MaxOps = 1
    MaxEvents = 3
    MaxTime = 4
    Timeout = 3
    Delay = 1
    Settle = 1
    Budget = 2
INVARIANT CancelReleases
CHECK_DEADLOCK FALSE
