\* One buffer, one transmitting context, one user and two disconnect requests.
CONSTANTS
    Netbufs = {b1}
    TxTasks = {t1}
    Capacity = 1
    Users = {u1}
    UserTasks = {x1}
    SLOTS = 1
    CAPACITY = 1
    HISTORY = 1
    MaxRejected = 0
    MaxPost = 1
    MaxDelete = 1
    MaxRequest = 2
    Ways = {"disconnect"}
    DrainPolls = 0
SPECIFICATION Spec
VIEW WithoutHistory
INVARIANT StopAfterCleanup
