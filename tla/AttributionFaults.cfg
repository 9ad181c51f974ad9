SPECIFICATION FairSpec
CONSTANTS
    e1 = e1
    e2 = e2
    e3 = e3
    Events = {e1, e2, e3}
    MaxTime = 2
    Lag = 1
    Lookback = 2
    Batch = 2
    Faults = {"crash", "postgres", "clickhouse"}
INVARIANTS
    TypeOK
    DuplicatesExplained
    NoGap
    JumpsOnlyAfterOutage
PROPERTIES
    EventuallyAttributed
