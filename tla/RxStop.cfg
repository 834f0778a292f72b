\* Time for a second call after a timeout.
CONSTANTS
    DEADLINE_MS = 2
    MaxNow = 4
SPECIFICATION FairSpec
PROPERTY StopIsHonest
