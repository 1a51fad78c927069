CONSTANTS
    History = 3
    MaxMessages = 4
    PageSize = 1
    MaxDeletes = 1
    MaxPending = 2
    MaxDrops = 1
    TextChannels = {1}
    MaxIds = 3
    MaxCuts = 1
    MaxSaves = 2
    MaxPages = 2
    MaxCutOffs = 1
    MaxItems = 2
    MaxMounts = 2
    MaxBusy = 2
    MaxPatches = 1
    Pages = {1, 2}
    MaxElections = 3
    MaxClaims = 2
    u1 = u1
    k1 = k1
    k2 = k2
    Users = {u1}
    Conns = {k1, k2}
    UserOf <- OneUser
    Run = Run
    Others = {g1}
    NoConn = NoConn
    Capacity = 1
    MaxEvents = 2
SPECIFICATION Spec
INVARIANT
    DeleteIsAcked
CHECK_DEADLOCK FALSE
