CONSTANTS
    c1 = c1
    c2 = c2
    Client = {c1, c2}
    None = None
    Pending = Pending
    MaxOpen = 2
    MaxWrite = 2
    MaxDrop = 1
    Overlap = {}
SPECIFICATION Spec
SYMMETRY Symmetry
INVARIANTS TypeOK SeenWritesAgree NothingHangs MembersMatch
CHECK_DEADLOCK FALSE
