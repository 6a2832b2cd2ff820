CONSTANTS
    v1 = v1
    s1 = s1
    Vault = {v1}
    Res = {r1, r2}
    Shard = {s1}
    ShardOf <- OneShard
    MaxSeq = 2
    MaxEpoch = 2
    Limit = 2
    MaxCrash = 1
    MaxMove = 1
    Overlap = {}
SPECIFICATION Spec
SYMMETRY Symmetry
INVARIANTS TypeOK SafeButCarried SequenceHonest RestMeansIndexed
CHECK_DEADLOCK FALSE
