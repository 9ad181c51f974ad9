SPECIFICATION FairSpec
CONSTANTS
    Pairs = {p1, p2}
    Tokens = {t1}
    Slots = {s1, s2}
    NoPair = NoPair
    NoToken = NoToken
    Clients = {"agent", "browser", "ide"}
    Faults = {"network", "keyring", "postgres", "account"}
INVARIANTS
    TypeOK
    TokenAccounted
    LaterPollsGetNothing
PROPERTIES
    WizardEnds
    ClaimedMeansPaired
CHECK_DEADLOCK FALSE
