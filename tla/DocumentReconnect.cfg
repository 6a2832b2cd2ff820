CONSTANTS
    c1 = c1
    c2 = c2
    Client = {c1, c2}
    Stable = {c2}
    Seed = {}
    Update = {u1}
    MaxConn = 2
    CompactThreshold = 9
SPECIFICATION Spec
SYMMETRY Symmetry
INVARIANT RestMeansSaved
CHECK_DEADLOCK FALSE
