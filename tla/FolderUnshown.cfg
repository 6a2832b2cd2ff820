CONSTANTS
    w1 = w1
    w2 = w2
    t1 = t1
    t2 = t2
    x1 = x1
    a = a
    b = b
    None = None
    Session = {w1, w2}
    Typed = {t1, t2}
    Foreign = {x1}
    Old = {a}
    Erased = {}
    MaxOpens = 1
    MaxCrash = 1
    MaxFails = 0
    MaxEvents = 2
    MaxSaves = 0
    Kept = 8
    CompactAfter = 32
    Overlap = {"unshown"}
SPECIFICATION Spec
SYMMETRY Symmetry
INVARIANT
    NothingUnasked
CHECK_DEADLOCK FALSE
