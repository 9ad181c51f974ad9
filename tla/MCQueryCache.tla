---------------------------- MODULE MCQueryCache ----------------------------
(***************************************************************************)
(* QueryCache with the dashboard's tables, for TLC.  One job is any        *)
(* mutation; the second, a bound, is one of those that overlap most.       *)
(***************************************************************************)
EXTENDS QueryCache, DashboardQueries

MCQueries == DOMAIN Reads
MCWrites == DOMAIN Table
MCScreens == DOMAIN Pages
MCJobs == {"first", "second"}
MCKinds == [first |-> MCWrites, second |-> {"revoke_token", "create_project"}]
MCChanges == [w \in MCWrites |-> {q \in MCQueries : Reads[q] \cap Table[w].changes # {}}]
MCInvalidates == [w \in MCWrites |-> Table[w].invalidates]
MCShows == [s \in MCScreens |-> Pages[s].shows]
MCOffers == [s \in MCScreens |-> Pages[s].offers]
MCRefreshes == [s \in MCScreens |-> IF s \in AdminPages THEN AdminKeys ELSE {}]
MCAlone == MCWrites \ PerRow
MCGaps == UNION {{w} \X NotInvalidated[w] : w \in DOMAIN NotInvalidated}
=============================================================================
