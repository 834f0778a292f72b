CONSTANTS
    Waiters = {w1, w2}
    Producers = {p1, p2}
    MaxItems = 2
    MaxCount = 3
    MaxTime = 2
    Timeouts = {0, 1}
SPECIFICATION SuiteSpec
INVARIANTS GrantsAreItems OkWriteWakes NoSleepThrough RequestsReachOwner
           OwnedTimerWorks OneFirePerArm ServiceIsSound HandlesAreOwn ValuesAreExact
