CONSTANTS
    u1 = u1
    k1 = k1
    k2 = k2
    Users = {u1}
    Channels = {ch1}
    Sids = {s1, s2}
    Conns = {k1}
    UserOf <- OneConn
    Reconcile = TRUE
    MaxCommands = 2
    None = None
SPECIFICATION SweepSpec
INVARIANTS
    SessionsMatchPeers
PROPERTY
    SweepRepairsDeadMedia
CHECK_DEADLOCK FALSE
