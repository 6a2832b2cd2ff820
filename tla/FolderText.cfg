CONSTANTS
    w1 = w1
    w2 = w2
    t1 = t1
    t2 = t2
    x1 = x1
    a = a
    b = b
    None = None
    Session = {w1, w2}
    Typed = {t1, t2}
    Foreign = {x1}
    Old = {a}
    Erased = {b}
    MaxOpens = 1
    MaxCrash = 1
    MaxFails = 1
    MaxEvents = 2
    MaxSaves = 1
    Kept = 2
    CompactAfter = 5
    Overlap = {}
SPECIFICATION Spec
SYMMETRY Symmetry
INVARIANTS
    TypeOK
    NothingUnasked
    NothingDoubled
    RestAgrees
PROPERTIES
    JournalKeeps
CHECK_DEADLOCK FALSE
