SPECIFICATION Spec
CONSTANTS
    MaxEvents = 2
    BatchSize = 2
    LeaseSecs = 0
    GcAge = 0
    BackoffCap = 1
    MaxLate = 1
    NoToken = NoToken
    Tokens = {t1, t2}
    Invalid = {2}
    Faults = {"network", "store", "restart"}
SYMMETRY TokenSymmetry
INVARIANTS
    TypeOK
    NothingLost
    DuplicatesExplained
PROPERTIES
    ImplementsDelivery
