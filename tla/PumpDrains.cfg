SPECIFICATION RecoveringSpec
CONSTANTS
    MaxEvents = 2
    BatchSize = 1
    LeaseSecs = 0
    GcAge = 0
    BackoffCap = 1
    MaxLate = 0
    NoToken = NoToken
    Tokens = {t1}
    Invalid = {}
    Faults = {"network", "store", "verify", "keyring"}
PROPERTIES
    OutboxDrains
