CONSTANTS
    c1 = c1
    c2 = c2
    Client = {c1, c2}
    Stable = {c2}
    Update = {u1, u2}
    MaxConn = 2
    CompactThreshold = 0
    OpenDuringRejoin = FALSE
    RetriesRunOut = TRUE
SPECIFICATION Spec
SYMMETRY Symmetry
INVARIANT TypeOK
PROPERTIES JournalKeeps ImplementsStore
CHECK_DEADLOCK FALSE
