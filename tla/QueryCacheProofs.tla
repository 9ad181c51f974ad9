-------------------------- MODULE QueryCacheProofs --------------------------
(***************************************************************************)
(* QueryCache keeps its types and, for any tables whose gaps are listed,   *)
(* data that counts as fresh has every change that was answered.           *)
(***************************************************************************)
EXTENDS QueryCache, TLAPS

(* A job whose change is missing somewhere has made it.                    *)
Made(j) == Changing(j) /\ job[j].phase \notin {"idle", "sent"}

(* An answered job that may go unseen.                                     *)
Excused(j) ==
    job[j].phase \in {"settling", "done"} =>
        <<job[j].kind, watched>> \in Gaps \/ j \in raced

LacksMade == \A j \in cache.lacks \cup fetch.lacks : Made(j)
FetchExcused == \A j \in fetch.lacks : Excused(j)
Inv == TypeOK /\ LacksMade /\ FetchExcused /\ FreshMeansCurrent

-----------------------------------------------------------------------------
LEMMA InitInv == Init => Inv
  BY Tables DEF Init, Inv, TypeOK, LacksMade, FetchExcused, FreshMeansCurrent,
     Empty, NoFetch, NewFetch, Cache, Fetch, Job, JobPhases, None

(* Steps that move nothing but a fetch.                                    *)
LEMMA GotoInv == ASSUME Inv, NEW s \in Screens, Goto(s) PROVE Inv'
<1> USE DEF Inv
<1>1. fetch' \in Fetch /\ (fetch' = fetch \/ fetch' = NewFetch({}))
  BY DEF Goto, Joined, TypeOK, Fetch, NewFetch
<1>2. fetch'.lacks \subseteq fetch.lacks
  BY <1>1 DEF NewFetch
<1>3. /\ job' \in [Jobs -> Job]
      /\ \A j \in Jobs : job'[j].kind = job[j].kind /\ job'[j].phase = job[j].phase
  <2>1. \A j \in Jobs : job[j] \in Job
    BY DEF TypeOK
  <2>2. \A j \in Jobs : [job[j] EXCEPT !.left = TRUE] \in Job
    BY <2>1 DEF Job
  <2> QED BY <2>1, <2>2 DEF Goto, Job
<1>4. watched' = watched /\ cache' = cache /\ raced' = raced /\ screen' \in Screens
  BY DEF Goto
<1>5. TypeOK'
  BY <1>1, <1>3, <1>4 DEF TypeOK, NewFetch
<1>6. cache.lacks \subseteq Jobs /\ fetch.lacks \subseteq Jobs
  BY DEF TypeOK, Cache, Fetch
<1>7. LacksMade'
  BY <1>2, <1>3, <1>4, <1>6 DEF LacksMade, Made, Changing
<1>8. FetchExcused'
  BY <1>2, <1>3, <1>4, <1>6 DEF FetchExcused, Excused
<1>9. FreshMeansCurrent'
  BY <1>3, <1>4, <1>6 DEF FreshMeansCurrent
<1> QED BY <1>5, <1>7, <1>8, <1>9

LEMMA RefetchInv == ASSUME Inv, Refetch PROVE Inv'
  BY DEF Inv, Refetch, TypeOK, LacksMade, Made, Changing, FetchExcused, Excused,
     FreshMeansCurrent, NewFetch, Fetch

LEMMA ForgetInv == ASSUME Inv, Forget PROVE Inv'
  BY DEF Inv, Forget, TypeOK, LacksMade, Made, Changing, FetchExcused, Excused,
     FreshMeansCurrent, Empty, Cache

LEMMA FetchReadInv == ASSUME Inv, FetchRead PROVE Inv'
  BY DEF Inv, FetchRead, TypeOK, LacksMade, Made, Changing, FetchExcused, Excused,
     FreshMeansCurrent, Fetch

(* The answer's gaps become the data's.                                    *)
LEMMA FetchOkInv == ASSUME Inv, FetchOk PROVE Inv'
  BY DEF Inv, FetchOk, TypeOK, LacksMade, Made, Changing, FetchExcused, Excused,
     FreshMeansCurrent, NoFetch, Fetch, Cache

LEMMA FetchFailInv == ASSUME Inv, FetchFail PROVE Inv'
<1>1. PICK invalid \in BOOLEAN :
        /\ cache.invalid => invalid
        /\ cache' = IF cache.loaded THEN [cache EXCEPT !.invalid = invalid] ELSE cache
  BY DEF FetchFail
<1>2. /\ cache' \in Cache /\ cache'.lacks = cache.lacks
      /\ cache'.loaded = cache.loaded
      /\ cache'.loaded /\ ~cache'.invalid => ~cache.invalid
  BY <1>1 DEF Inv, TypeOK, Cache
<1> QED BY <1>2 DEF Inv, FetchFail, TypeOK, LacksMade, Made, Changing, FetchExcused,
          Excused, FreshMeansCurrent, NoFetch, Fetch

-----------------------------------------------------------------------------
(* Marked data is not fresh, and a restarted fetch lacks nothing.          *)
LEMMA InvalidateKeeps ==
  ASSUME Inv, NEW waits \in SUBSET Jobs, Invalidate(waits)
  PROVE /\ cache' \in Cache /\ cache'.lacks = cache.lacks
        /\ ~(cache'.loaded /\ ~cache'.invalid)
        /\ fetch' \in Fetch
        /\ fetch'.phase = "none" => fetch'.waits = {}
        /\ fetch'.phase # "read" => fetch'.lacks = {}
        /\ fetch'.lacks = (IF Restarts THEN {} ELSE fetch.lacks)
<1>1. cache' \in Cache /\ cache'.lacks = cache.lacks /\ ~(cache'.loaded /\ ~cache'.invalid)
  BY DEF Inv, TypeOK, Cache, Invalidate
<1>2. CASE Restarts
  BY <1>1, <1>2 DEF Invalidate, NewFetch, Fetch
<1>3. CASE ~Restarts /\ Shown
  <2>1. fetch' = [fetch EXCEPT !.waits = @ \cup waits]
    BY <1>3 DEF Invalidate
  <2>2. fetch.phase # "none"
    BY <1>3 DEF Restarts
  <2> QED BY <1>1, <1>3, <2>1, <2>2 DEF Inv, TypeOK, Fetch
<1>4. CASE ~Restarts /\ ~Shown
  BY <1>1, <1>4 DEF Invalidate, Inv, TypeOK
<1> QED BY <1>2, <1>3, <1>4

LEMMA RefreshInv == ASSUME Inv, Refresh PROVE Inv'
<1>1. Invalidate({})
  BY DEF Refresh
<1>2. fetch'.lacks \subseteq fetch.lacks
  BY <1>1, InvalidateKeeps
<1> QED BY <1>1, <1>2, InvalidateKeeps DEF Inv, Refresh, TypeOK, LacksMade, Made, Changing,
          FetchExcused, Excused, FreshMeansCurrent

-----------------------------------------------------------------------------
LEMMA StartInv == ASSUME Inv, NEW j \in Jobs, NEW w \in Writes, Start(j, w) PROVE Inv'
<1>1. [kind |-> w, phase |-> "sent", left |-> FALSE] \in Job
  BY DEF Job, JobPhases
<1>2. \A i \in cache.lacks \cup fetch.lacks : i \in Jobs /\ i # j
  BY DEF Inv, TypeOK, Cache, Fetch, LacksMade, Made, Start
<1>3. \A i \in Jobs : i # j => job'[i] = job[i]
  BY DEF Start, Inv, TypeOK
<1>4. UNCHANGED <<watched, screen, cache, fetch, raced>>
  BY DEF Start
<1>5. TypeOK'
  BY <1>1, <1>4 DEF Inv, TypeOK, Start
<1> QED BY <1>2, <1>3, <1>4, <1>5 DEF Inv, LacksMade, Made, Changing, FetchExcused, Excused,
          FreshMeansCurrent

LEMMA CommitInv == ASSUME Inv, NEW j \in Jobs, Commit(j) PROVE Inv'
<1>1. [job[j] EXCEPT !.phase = "committed"] \in Job
  BY DEF Inv, TypeOK, Job, JobPhases
<1>2. /\ job'[j].phase = "committed" /\ job'[j].kind = job[j].kind
      /\ \A i \in Jobs : i # j => job'[i] = job[i]
  BY DEF Commit, Inv, TypeOK, Job
<1>3. /\ cache' \in Cache /\ fetch' \in Fetch
      /\ cache'.loaded = cache.loaded /\ cache'.invalid = cache.invalid
      /\ fetch'.phase = fetch.phase /\ fetch'.waits = fetch.waits
      /\ cache'.lacks = cache.lacks \/ (Changing(j) /\ cache'.lacks = cache.lacks \cup {j})
      /\ \/ fetch'.lacks = fetch.lacks
         \/ Changing(j) /\ fetch.phase = "read" /\ fetch'.lacks = fetch.lacks \cup {j}
  BY DEF Commit, Inv, TypeOK, Cache, Fetch
<1>4. TypeOK'
  BY <1>1, <1>3 DEF Inv, TypeOK, Commit
<1>5. cache.lacks \subseteq Jobs /\ fetch.lacks \subseteq Jobs
  BY DEF Inv, TypeOK, Cache, Fetch
<1>6. watched' = watched /\ raced' = raced
  BY DEF Commit
<1>7. LacksMade'
  BY <1>2, <1>3, <1>5, <1>6 DEF Inv, LacksMade, Made, Changing
<1>8. FetchExcused'
  BY <1>2, <1>3, <1>5, <1>6 DEF Inv, FetchExcused, Excused
<1>9. FreshMeansCurrent'
  BY <1>2, <1>3, <1>5, <1>6 DEF Inv, FreshMeansCurrent
<1> QED BY <1>4, <1>7, <1>8, <1>9 DEF Inv

(* The answer of a job: its change is invalidated, a gap, or raced.        *)
LEMMA AnsweredInv ==
  ASSUME GapsListed, Inv, NEW j \in Jobs, Answered(j)
  PROVE Inv'
<1> DEFINE phase == IF Awaits(j) THEN "settling" ELSE "done"
<1> DEFINE waits == IF Awaits(j) THEN {j} ELSE {}
<1>1. [job[j] EXCEPT !.phase = phase] \in Job /\ job[j].kind \in Writes
  BY DEF Inv, TypeOK, Job, JobPhases, Answered
<1>2. /\ job' \in [Jobs -> Job]
      /\ \A i \in Jobs : job'[i].kind = job[i].kind
      /\ \A i \in Jobs : i # j => job'[i] = job[i]
      /\ \A i \in Jobs : job'[i].phase # "idle" => job'[i].kind \in Writes
      /\ job'[j].phase \notin {"idle", "sent"}
  BY <1>1 DEF Answered, Inv, TypeOK, Job
<1>3. cache.lacks \subseteq Jobs /\ fetch.lacks \subseteq Jobs
  BY DEF Inv, TypeOK, Cache, Fetch
<1>4. watched' = watched /\ screen' = screen
  BY DEF Answered
<1>5. CASE watched \in Invalidates[job[j].kind]
  <2>1. /\ Invalidate(waits) /\ waits \in SUBSET Jobs
        /\ raced' = IF ~Restarts /\ j \in fetch.lacks THEN raced \cup {j} ELSE raced
    BY <1>5 DEF Answered
  <2> HIDE DEF waits
  <2>2. /\ cache' \in Cache /\ cache'.lacks = cache.lacks
        /\ ~(cache'.loaded /\ ~cache'.invalid)
        /\ fetch' \in Fetch
        /\ fetch'.phase = "none" => fetch'.waits = {}
        /\ fetch'.phase # "read" => fetch'.lacks = {}
        /\ fetch'.lacks = (IF Restarts THEN {} ELSE fetch.lacks)
    BY <2>1, InvalidateKeeps
  <2>3. raced \subseteq raced' /\ raced' \subseteq Jobs
    BY <2>1 DEF Inv, TypeOK
  <2>4. TypeOK'
    BY <1>2, <1>4, <2>2, <2>3 DEF Inv, TypeOK
  <2>5. LacksMade'
    BY <1>2, <1>3, <1>4, <2>2 DEF Inv, LacksMade, Made, Changing
  <2>6. j \in fetch'.lacks => j \in raced'
    BY <2>1, <2>2
  <2>7. FetchExcused'
    BY <1>2, <1>3, <1>4, <2>2, <2>3, <2>6 DEF Inv, FetchExcused, Excused
  <2>8. FreshMeansCurrent'
    BY <2>2 DEF FreshMeansCurrent
  <2> QED BY <2>4, <2>5, <2>7, <2>8 DEF Inv
<1>6. CASE watched \notin Invalidates[job[j].kind]
  <2>1. UNCHANGED <<cache, fetch, raced>>
    BY <1>6 DEF Answered
  <2>2. Changing(j) => <<job[j].kind, watched>> \in Gaps
    BY <1>1, <1>6 DEF GapsListed, Changing
  <2>3. TypeOK'
    BY <1>2, <1>4, <2>1 DEF Inv, TypeOK
  <2>4. LacksMade'
    BY <1>2, <1>3, <1>4, <2>1 DEF Inv, LacksMade, Made, Changing
  <2>5. j \in cache.lacks \cup fetch.lacks => <<job'[j].kind, watched'>> \in Gaps
    BY <1>2, <1>4, <2>2 DEF Inv, LacksMade, Made
  <2>6. FetchExcused'
    BY <1>2, <1>3, <1>4, <2>1, <2>5 DEF Inv, FetchExcused, Excused
  <2>7. FreshMeansCurrent'
    BY <1>2, <1>3, <1>4, <2>1, <2>5 DEF Inv, FreshMeansCurrent
  <2> QED BY <2>3, <2>4, <2>6, <2>7 DEF Inv
<1> QED BY <1>5, <1>6

(* A job that only ends: what is excused stays so.                         *)
LEMMA EndInv ==
  ASSUME Inv, NEW j \in Jobs, Lost(j) \/ Settle(j)
  PROVE Inv'
<1>1. PICK p \in {"done", "failed"} :
        /\ job' = [job EXCEPT ![j].phase = p]
        /\ p = "done" => job[j].phase = "settling"
        /\ job[j].phase # "idle"
  BY DEF Lost, Settle
<1>2. UNCHANGED <<watched, screen, cache, fetch, raced>>
  BY DEF Lost, Settle
<1>3. [job[j] EXCEPT !.phase = p] \in Job
  BY DEF Inv, TypeOK, Job, JobPhases
<1>4. /\ job'[j].phase = p /\ job'[j].kind = job[j].kind
      /\ \A i \in Jobs : i # j => job'[i] = job[i]
  BY <1>1 DEF Inv, TypeOK, Job
<1>5. cache.lacks \subseteq Jobs /\ fetch.lacks \subseteq Jobs
  BY DEF Inv, TypeOK, Cache, Fetch
<1>6. TypeOK'
  BY <1>1, <1>2, <1>3 DEF Inv, TypeOK
<1>7. LacksMade'
  BY <1>1, <1>2, <1>4, <1>5 DEF Inv, LacksMade, Made, Changing
<1>8. FetchExcused'
  BY <1>1, <1>2, <1>4, <1>5 DEF Inv, FetchExcused, Excused
<1>9. FreshMeansCurrent'
  BY <1>1, <1>2, <1>4, <1>5 DEF Inv, FreshMeansCurrent
<1> QED BY <1>6, <1>7, <1>8, <1>9 DEF Inv

-----------------------------------------------------------------------------
LEMMA StepInv == ASSUME GapsListed, Inv, [Next]_vars PROVE Inv'
<1>1. CASE UNCHANGED vars
  BY <1>1 DEF vars, Inv, TypeOK, LacksMade, Made, Changing, FetchExcused, Excused,
     FreshMeansCurrent
<1>2. ASSUME NEW s \in Screens, Goto(s) PROVE Inv'
  BY <1>2, GotoInv
<1>3. ASSUME NEW j \in Jobs, JobStep(j) PROVE Inv'
  BY <1>3, StartInv, CommitInv, AnsweredInv, EndInv DEF JobStep
<1> QED BY <1>1, <1>2, <1>3, RefetchInv, ForgetInv, RefreshInv, FetchReadInv, FetchOkInv,
          FetchFailInv DEF Next

(* The fetches, the data and the mutations keep their types.               *)
THEOREM TypeCorrect == ASSUME GapsListed PROVE Spec => []TypeOK
<1>1. Init => Inv
  BY InitInv
<1>2. Inv /\ [Next]_vars => Inv'
  BY StepInv
<1>3. Inv => TypeOK
  BY DEF Inv
<1> QED BY <1>1, <1>2, <1>3, PTL DEF Spec

(* For any tables whose gaps are listed: once a mutation is answered, the  *)
(* data that counts as fresh has its change (onSuccess invalidates it), or *)
(* the change is a gap, or a fetch the library let go on hides it.         *)
THEOREM FreshDataIsCurrent == ASSUME GapsListed PROVE Spec => []FreshMeansCurrent
<1>1. Init => Inv
  BY InitInv
<1>2. Inv /\ [Next]_vars => Inv'
  BY StepInv
<1>3. Inv => FreshMeansCurrent
  BY DEF Inv
<1> QED BY <1>1, <1>2, <1>3, PTL DEF Spec
=============================================================================
