CONSTANTS
    Channels <- MCChannels
    Update = {u1, u2}
    Back = back
    Transfer = {t1, t2}
    Nobody = nobody
    MayRefuse = TRUE
SPECIFICATION Spec
SYMMETRY Symmetry
INVARIANTS TypeOK SavedOrCounted FlushKeepsPromiseAlone
CHECK_DEADLOCK FALSE
