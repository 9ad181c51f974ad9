SPECIFICATION FairSpec
CONSTANTS
    f1 = f1
    a1 = a1
    Flushes = {f1}
    Activities = {a1}
    PasteThreshold = 2
    MaxQueueSize = 1
    MaxRetryAttempts = 2
    MaxToken = 2
    EventFields <- AgentEventFields
    Inputs = {"focus", "large", "delete", "pause", "blur", "logout", "verbose"}
    Faults = {"network", "timeout", "revoke", "rotate"}
INVARIANTS
    StatusWarns
PROPERTIES
    EventsLeave
