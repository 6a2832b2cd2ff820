CONSTANTS
    c1 = c1
    c2 = c2
    Client = {c1, c2}
    Stable = {c2}
    Free = free
    MaxConn = 2
    MaxMount = 2
    MaxQueue = 1
    MayRestart = TRUE
SPECIFICATION FairSpec
INVARIANTS TypeOK SteadyWritersHold NoForgottenLock
PROPERTY LostLockFreed
CHECK_DEADLOCK FALSE
