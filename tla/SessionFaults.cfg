SPECIFICATION Spec
CONSTANTS
    t1 = t1
    t2 = t2
    u1 = u1
    u2 = u2
    NoUser = NoUser
    Tabs = {t1, t2}
    Users = {u1, u2}
    Newcomers = {}
    MaxToken = 3
    Queries = {"me"}
    Inputs = {"oauth", "change", "logout", "revoke", "reload", "outage"}
SYMMETRY TabUserSymmetry
INVARIANTS
    TypeOK
    NoHalfSession
    Informed
PROPERTIES
    PartedByLateToken
