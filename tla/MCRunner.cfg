CONSTANTS
    Tasks = {t1, t2}
    Names = {n1, n2}
    Absent = absent
    MaxCalls = 3
SPECIFICATION FairSuite
INVARIANT PortIsTrue
PROPERTIES MailboxServes ScanReturns QueueDelivers PostedIsDispatched
