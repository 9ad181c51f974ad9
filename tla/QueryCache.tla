----------------------------- MODULE QueryCache -----------------------------
(***************************************************************************)
(* What a page of the dashboard shows after a change the user made on it.  *)
(* Pages read through queries of one shared cache; a change is a mutation  *)
(* that, once answered, invalidates the queries its author listed          *)
(* (onSuccess of every hook under entities).  Which query depends on what, *)
(* and which mutation invalidates what, are tables: DashboardQueries has   *)
(* the dashboard's.  The module follows one query, `watched`, through the  *)
(* pages the user opens and the mutations Jobs run at the same time.       *)
(***************************************************************************)

CONSTANTS
    Queries,        \* the queries of the dashboard
    Followed,       \* those a behaviour may follow (a bound)
    Writes,         \* its mutations
    Screens,        \* its pages and tabs
    Jobs,           \* mutations that may run at a time (a bound)
    Kinds,          \* which mutations each job may be (a bound)
    Changes,        \* whose answer a mutation changes on the server
    Invalidates,    \* which queries it invalidates when it is answered
    Shows,          \* the queries a screen mounts
    Offers,         \* the mutations a screen has a control for
    Refreshes,      \* the queries a screen's refresh button invalidates
    Blocking,       \* those whose fetch disables the refresh button
    Alone,          \* mutations whose one control is disabled while they run
    Unaged,         \* queries with staleTime 0
    Detached,       \* mutations that do not await what they invalidate
    Gaps            \* changes that are known not to be invalidated

None == "none"

ASSUME Tables ==
    /\ None \notin Writes
    /\ Followed \subseteq Queries
    /\ Kinds \in [Jobs -> SUBSET Writes]
    /\ Changes \in [Writes -> SUBSET Queries]
    /\ Invalidates \in [Writes -> SUBSET Queries]
    /\ Shows \in [Screens -> SUBSET Queries]
    /\ Offers \in [Screens -> SUBSET Writes]
    /\ Refreshes \in [Screens -> SUBSET Queries]

VARIABLES
    watched,    \* the query followed
    screen,     \* what the user has open
    cache,      \* the query's data: there, invalidated, without whose changes
    fetch,      \* its fetch: not running, sent, read by the server; without
                \* whose changes; and the jobs whose onSuccess awaits it
    job,        \* the mutations
    raced       \* jobs answered while a fetch that misses their change went on

vars == <<watched, screen, cache, fetch, job, raced>>

Cache == [loaded : BOOLEAN, invalid : BOOLEAN, lacks : SUBSET Jobs]
Fetch == [phase : {"none", "sent", "read"}, lacks : SUBSET Jobs, waits : SUBSET Jobs]
JobPhases == {"idle", "sent", "committed", "settling", "done", "failed"}
Job == [kind : Writes \cup {None}, phase : JobPhases, left : BOOLEAN]

Empty == [loaded |-> FALSE, invalid |-> FALSE, lacks |-> {}]
NoFetch == [phase |-> "none", lacks |-> {}, waits |-> {}]
NewFetch(waits) == [phase |-> "sent", lacks |-> {}, waits |-> waits]

Shown == watched \in Shows[screen]
Pending(j) == job[j].phase \in {"sent", "committed", "settling"}
Changing(j) == watched \in Changes[job[j].kind]

Init ==
    /\ watched \in Followed
    /\ screen \in Screens
    /\ cache = Empty
    /\ fetch = IF Shown THEN NewFetch({}) ELSE NoFetch
    /\ job = [j \in Jobs |-> [kind |-> None, phase |-> "idle", left |-> FALSE]]
    /\ raced = {}

-----------------------------------------------------------------------------
(* A fetch already running serves whoever asks next.                       *)
Joined == IF fetch.phase = "none" THEN NewFetch({}) ELSE fetch

(* Data a mounting component does not accept whatever its age; it may also *)
(* be older than the staleTime of 30 seconds.                              *)
Stale == ~cache.loaded \/ cache.invalid \/ watched \in Unaged

(* The user opens a page or a tab.  A component that mounts the query asks *)
(* for it when it is stale; the controls of the old page go away, their    *)
(* mutations go on.                                                        *)
Goto(s) ==
    /\ s # screen
    /\ screen' = s
    /\ fetch' \in (IF watched \in Shows[s] THEN {Joined} ELSE {})
                  \cup (IF watched \in Shows[s] /\ ~Shown /\ Stale THEN {} ELSE {fetch})
    /\ job' = [j \in Jobs |->
                 IF Pending(j) /\ job[j].kind \in Offers[screen] \ Offers[s]
                 THEN [job[j] EXCEPT !.left = TRUE] ELSE job[j]]
    /\ UNCHANGED <<watched, cache, raced>>

(* The network comes back, or a poll is due.                               *)
Refetch ==
    /\ Shown
    /\ fetch.phase = "none"
    /\ fetch' = NewFetch({})
    /\ UNCHANGED <<watched, screen, cache, job, raced>>

(* Data nobody shows is dropped after five minutes.                        *)
Forget ==
    /\ ~Shown
    /\ fetch.phase = "none"
    /\ cache.loaded
    /\ cache' = Empty
    /\ UNCHANGED <<watched, screen, fetch, job, raced>>

-----------------------------------------------------------------------------
(* The mutation's request leaves.  A control that serves one mutation at a *)
(* time is disabled while it runs; a page opened anew has a new control.   *)
Start(j, w) ==
    /\ job[j].phase = "idle"
    /\ w \in Kinds[j] \cap Offers[screen]
    /\ watched \in Changes[w] \cup Invalidates[w]
    /\ w \in Alone => \A i \in Jobs : job[i].kind = w /\ Pending(i) => job[i].left
    /\ job' = [job EXCEPT ![j] = [kind |-> w, phase |-> "sent", left |-> FALSE]]
    /\ UNCHANGED <<watched, screen, cache, fetch, raced>>

(* The server makes the change: what was read before is without it.        *)
Commit(j) ==
    /\ job[j].phase = "sent"
    /\ job' = [job EXCEPT ![j].phase = "committed"]
    /\ cache' = IF Changing(j) /\ cache.loaded
                THEN [cache EXCEPT !.lacks = @ \cup {j}] ELSE cache
    /\ fetch' = IF Changing(j) /\ fetch.phase = "read"
                THEN [fetch EXCEPT !.lacks = @ \cup {j}] ELSE fetch
    /\ UNCHANGED <<watched, screen, raced>>

(* invalidateQueries.  Data is marked; a query on the screen is fetched    *)
(* anew, and a fetch that runs is cancelled, which frees who awaited it.   *)
(* A first load is not cancelled but joined, and a query nobody shows is   *)
(* left to its fetch.                                                      *)
Restarts == Shown /\ (cache.loaded \/ fetch.phase = "none")
Invalidate(waits) ==
    /\ cache' = IF cache.loaded THEN [cache EXCEPT !.invalid = TRUE] ELSE cache
    /\ fetch' = IF Restarts THEN NewFetch(waits)
                ELSE IF Shown THEN [fetch EXCEPT !.waits = @ \cup waits]
                ELSE fetch

(* The answer arrives: onSuccess invalidates, and the mutation is pending  *)
(* until what it awaits is there.                                          *)
Awaits(j) == job[j].kind \notin Detached
Answered(j) ==
    /\ job[j].phase = "committed"
    /\ job' = [job EXCEPT ![j].phase = IF Awaits(j) THEN "settling" ELSE "done"]
    /\ IF watched \in Invalidates[job[j].kind]
       THEN /\ Invalidate(IF Awaits(j) THEN {j} ELSE {})
            /\ raced' = IF ~Restarts /\ j \in fetch.lacks THEN raced \cup {j} ELSE raced
       ELSE UNCHANGED <<cache, fetch, raced>>
    /\ UNCHANGED <<watched, screen>>

(* The request or its answer is lost; mutations are not retried, and       *)
(* nothing is invalidated although the server may have made the change.    *)
Lost(j) ==
    /\ job[j].phase \in {"sent", "committed"}
    /\ job' = [job EXCEPT ![j].phase = "failed"]
    /\ UNCHANGED <<watched, screen, cache, fetch, raced>>

(* What onSuccess awaited is there, was cancelled or failed: the user is   *)
(* told, the dialog closes, the secret is shown.                           *)
Settle(j) ==
    /\ job[j].phase = "settling"
    /\ j \notin fetch.waits
    /\ job' = [job EXCEPT ![j].phase = "done"]
    /\ UNCHANGED <<watched, screen, cache, fetch, raced>>

(* The administrator's refresh button.                                     *)
Refresh ==
    /\ watched \in Refreshes[screen]
    /\ watched \in Blocking => fetch.phase = "none"
    /\ Invalidate({})
    /\ UNCHANGED <<watched, screen, job, raced>>

-----------------------------------------------------------------------------
FetchRead ==
    /\ fetch.phase = "sent"
    /\ fetch' = [fetch EXCEPT !.phase = "read"]
    /\ UNCHANGED <<watched, screen, cache, job, raced>>

FetchOk ==
    /\ fetch.phase = "read"
    /\ cache' = [loaded |-> TRUE, invalid |-> FALSE, lacks |-> fetch.lacks]
    /\ fetch' = NoFetch
    /\ UNCHANGED <<watched, screen, job, raced>>

(* A failed refetch that never answers those who await it (mutant).        *)
FetchFailUnheard ==
    /\ fetch.phase \in {"sent", "read"}
    /\ fetch' = [fetch EXCEPT !.phase = "none", !.lacks = {}]
    /\ UNCHANGED <<watched, screen, cache, job, raced>>

(* The fetch failed, its retry too: the data stays, and whether it stays   *)
(* valid is left to the library.                                           *)
FetchFail ==
    /\ fetch.phase \in {"sent", "read"}
    /\ fetch' = NoFetch
    /\ \E invalid \in BOOLEAN :
         /\ cache.invalid => invalid
         /\ cache' = IF cache.loaded THEN [cache EXCEPT !.invalid = invalid] ELSE cache
    /\ UNCHANGED <<watched, screen, job, raced>>

-----------------------------------------------------------------------------
JobStep(j) ==
    \/ \E w \in Writes : Start(j, w)
    \/ Commit(j) \/ Answered(j) \/ Lost(j) \/ Settle(j)

Next ==
    \/ \E s \in Screens : Goto(s)
    \/ Refetch \/ Forget \/ Refresh
    \/ \E j \in Jobs : JobStep(j)
    \/ FetchRead \/ FetchOk \/ FetchFail

Spec == Init /\ [][Next]_vars

-----------------------------------------------------------------------------
(* Types: a fetch is awaited and incomplete only while it runs, and a job  *)
(* has a kind once it has started.                                         *)
TypeOK ==
    /\ watched \in Followed
    /\ screen \in Screens
    /\ cache \in Cache
    /\ fetch \in Fetch
    /\ fetch.phase = "none" => fetch.waits = {}
    /\ fetch.phase # "read" => fetch.lacks = {}
    /\ job \in [Jobs -> Job]
    /\ \A j \in Jobs : job[j].phase # "idle" => job[j].kind \in Writes
    /\ raced \in SUBSET Jobs

(* The tables are complete: a change not invalidated is a listed gap.      *)
GapsListed ==
    \A w \in Writes : \A q \in Changes[w] \ Invalidates[w] : <<w, q>> \in Gaps

(* Data that counts as fresh has every change whose answer has arrived:    *)
(* what is invalidated covers what is changed, and no fetch begun before a *)
(* change passes for one made after it.  Excepted are the changes known    *)
(* not to be invalidated, and the fetches the library lets go on.          *)
FreshMeansCurrent ==
    cache.loaded /\ ~cache.invalid =>
      \A j \in cache.lacks :
        job[j].phase \in {"settling", "done"} =>
          \/ <<job[j].kind, watched>> \in Gaps
          \/ j \in raced
=============================================================================
