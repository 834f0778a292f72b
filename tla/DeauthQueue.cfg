\* The history is shorter than the ticket space, so it is overwritten, and the
\* ring shorter than the history, as in the code (4, 8).
CONSTANTS
    CAPACITY = 2
    HISTORY = 3
    MaxTicket = 5
    MaxRejected = 1
SPECIFICATION FairSpec
PROPERTIES QueueIsSafe QueueProgresses
