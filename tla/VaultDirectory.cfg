CONSTANTS
    c1 = c1
    c2 = c2
    Client = {c1, c2}
    Stable = {c2}
    Seed = {u1, u2}
    Update = {u1, u2, u3, u4}
    MaxConn = 2
    CompactThreshold = 1
    RetriesRunOut = TRUE
SPECIFICATION Spec
SYMMETRY Symmetry
INVARIANTS TypeOK RestMeansSavedOrCounted RestMissesOnlySlipped
PROPERTY CompactionKeepsKnown
CHECK_DEADLOCK FALSE
