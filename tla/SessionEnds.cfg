SPECIFICATION FairSpec
CONSTANTS
    t1 = t1
    t2 = t2
    u1 = u1
    NoUser = NoUser
    Tabs = {t1, t2}
    Users = {u1}
    Newcomers = {u1}
    MaxToken = 1
    Queries = {"teams", "status"}
    Inputs = {"oauth", "delete", "event", "remove"}
PROPERTIES
    SessionEnds
    Arrives
CHECK_DEADLOCK FALSE
