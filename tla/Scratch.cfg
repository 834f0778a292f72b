CONSTANTS
    Tasks = {t1, t2}
    Pbufs = {p}
    Depth = 2
    Mtu = 2
    Header = 1
    Reserve = 2
    Tailroom = 1
    Pad = 1
    U16Max = 8
    Lengths = {2}
    MaxRx = 2
    MaxTx = 2
SPECIFICATION Spec
INVARIANT ScratchIsExclusive
CHECK_DEADLOCK FALSE
