SPECIFICATION Spec
CONSTANTS
    f1 = f1
    f2 = f2
    a1 = a1
    a2 = a2
    Flushes = {f1, f2}
    Activities = {a1, a2}
    PasteThreshold = 2
    MaxQueueSize = 1
    MaxRetryAttempts = 0
    MaxToken = 1
    EventFields = {}
    Inputs = {"close", "delete"}
    Faults = {"network", "timeout", "store"}
SYMMETRY SlotActivitySymmetry
INVARIANTS
    TypeOK
    NothingVanishes
    DuplicatesExplained
