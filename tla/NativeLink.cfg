SPECIFICATION FairSpec
CONSTANTS
    Callbacks = {c1}
    Deliverers = {d1}
    Closers = {k1}
    Operations = {1}
    InitialSession = FALSE
    MaxRevision = 2
    MaxEntered = 1
    MaxFrames = 1
    MaxGeneration = 2
PROPERTIES SessionsAreSeparate CloseReachesPort
