CONSTANTS
    u1 = u1
    k1 = k1
    k2 = k2
    Users = {u1}
    Channels = {ch1}
    Sids = {s1}
    Conns = {k1, k2}
    UserOf <- OneUser
    Reconcile = FALSE
    MaxCommands = 2
    None = None
SPECIFICATION GraceSpec
PROPERTY
    GraceEnds
CHECK_DEADLOCK FALSE
