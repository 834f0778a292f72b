\* One buffer that is reused while its older slot is open, two tasks, a drainer.
CONSTANTS
    Netbufs = {b1}
    Tasks = {t1, t2}
    Drainers = {d1}
    Capacity = 2
    MaxTicket = 2
    DrainPolls = 2
SPECIFICATION FairSpec
INVARIANT LedgerIsSound
PROPERTY LedgerProgresses
