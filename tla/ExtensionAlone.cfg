SPECIFICATION FairSpec
CONSTANTS
    h1 = h1
    i1 = i1
    i2 = i2
    i3 = i3
    NoItem = NoItem
    Handlers = {h1}
    Items = {i1, i2, i3}
    MaxBuffer = 2
    MaxAttempts = 2
    Inputs = {"focus", "close", "copy", "pause", "unpair", "flush"}
    Faults = {"network", "timeout"}
INVARIANTS
    NothingVanishes
    DuplicatesExplained
PROPERTIES
    EventsLeave
