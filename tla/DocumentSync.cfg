CONSTANTS
    c1 = c1
    c2 = c2
    Client = {c1, c2}
    Stable = {c2}
    Seed = {}
    Update = {u1, u2}
    MaxConn = 2
    CompactThreshold = 1
SPECIFICATION Spec
SYMMETRY Symmetry
INVARIANTS TypeOK SteadySaved SteadyMissesOnlySlipped
PROPERTIES CompactionKeepsKnown ImplementsStore
CHECK_DEADLOCK FALSE
