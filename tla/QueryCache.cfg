SPECIFICATION Spec
CONSTANTS
    Queries <- MCQueries
    Followed <- MCQueries
    Writes <- MCWrites
    Screens <- MCScreens
    Jobs <- MCJobs
    Kinds <- MCKinds
    Changes <- MCChanges
    Invalidates <- MCInvalidates
    Shows <- MCShows
    Offers <- MCOffers
    Refreshes <- MCRefreshes
    Blocking <- OnEveryAdminTab
    Alone <- MCAlone
    Unaged <- AlwaysStale
    Detached <- NotAwaited
    Gaps <- MCGaps
INVARIANTS
    TypeOK
    FreshMeansCurrent
