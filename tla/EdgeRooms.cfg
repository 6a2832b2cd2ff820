CONSTANTS
    p1 = p1
    p2 = p2
    Peer = {p1, p2}
    Account = {p1, p2}
    AccountOf <- MCAccountOf
    None = None
    MaxConn = 3
    MaxDrop = 1
    MaxTick = 1
SPECIFICATION Spec
SYMMETRY Symmetry
INVARIANTS TypeOK PresenceAgrees OneGenesis KeyComes EscrowFollows
CHECK_DEADLOCK FALSE
