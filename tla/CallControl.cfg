CONSTANTS
    u1 = u1
    u2 = u2
    n1 = n1
    l1 = l1
    a = a
    Users = {u1, u2}
    Nets = {n1}
    Loops = {l1}
    Channels = {a}
    MaxSessions = 2
    MaxLosses = 2
    Delays = 2
SPECIFICATION FairSpec
INVARIANTS
    LeftMeansLeft
    NothingOrphaned
PROPERTIES
    DeadSessionIsLeft
CHECK_DEADLOCK FALSE
