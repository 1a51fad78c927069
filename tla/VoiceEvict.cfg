CONSTANTS
    u1 = u1
    k1 = k1
    k2 = k2
    Users = {u1}
    Channels = {ch1}
    Sids = {s1, s2}
    Conns = {k1, k2}
    UserOf <- OneUser
    Reconcile = FALSE
    MaxCommands = 2
    None = None
SPECIFICATION Spec
SYMMETRY Symmetry
INVARIANTS
    EveryLossHandled
PROPERTIES
    ImplementsCalls
    UsesRouterProperly
CHECK_DEADLOCK FALSE
