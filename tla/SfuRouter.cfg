CONSTANTS
    Users = {u1, u2}
    Channels = {c1, c2}
    Sids = {s1, s2, s3}
    Rids = {r1, r2}
    None = None
SPECIFICATION RouterSpec
INVARIANTS
    NoLeakedRoom
PROPERTIES
    ImplementsSessions
    CondemnedLeaves
CHECK_DEADLOCK FALSE
