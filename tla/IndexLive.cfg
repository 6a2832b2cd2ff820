CONSTANTS
    c1 = c1
    c2 = c2
    Client = {c1, c2}
    Stable = {c2}
    Update = {u1}
    MaxConn = 2
    CompactThreshold = 0
    OpenDuringRejoin = FALSE
    RetriesRunOut = FALSE
SPECIFICATION FairSpec
INVARIANT QuietMeansSettled
PROPERTIES EditsGetSaved UpdatesGetShown
CHECK_DEADLOCK FALSE
