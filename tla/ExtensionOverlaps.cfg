SPECIFICATION Spec
CONSTANTS
    h1 = h1
    h2 = h2
    i1 = i1
    NoItem = NoItem
    Handlers = {h1, h2}
    Items = {i1}
    MaxBuffer = 1
    MaxAttempts = 1
    Inputs = {"focus", "pause", "flush"}
    Faults = {"network", "terminate"}
SYMMETRY SlotSymmetry
INVARIANTS
    TypeOK
    LossExplained
    DuplicatesTraced
    PausedTracksOnlySlipped
