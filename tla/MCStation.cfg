CONSTANTS
    Users = {u1, u2}
    Tasks = {x1, x2}
    SLOTS = 2
    MaxTicket = 3
SPECIFICATION SuiteSpec
INVARIANTS SleeperIsWoken ScanIsConsistent  EapolIsLevelReady
           CleanupIsTrue CallIsSettled NoScanIsLockedOut InputIsKept RadioHostsAreSound
PROPERTY RetriesAreCurrent
