-------------------------- MODULE AttributionWorker --------------------------
(***************************************************************************)
(* The attribution worker (backend/internal/attribution/worker.go): a loop *)
(* that reads its position from Postgres, fetches the next window of       *)
(* events from ClickHouse, inserts one attribution row per event and moves *)
(* the position.  The three stores share no transaction: events keep       *)
(* arriving, any call can fail with or without its effect, and the         *)
(* process can die between any two of the four steps of a tick.            *)
(*                                                                         *)
(* Timestamps are set by the clients, so an event may arrive long after    *)
(* its timestamp (a laptop that was offline) or ahead of it (a wrong       *)
(* clock).  There is one worker, as the package comment demands.           *)
(***************************************************************************)
EXTENDS Integers, FiniteSets

CONSTANTS
    Events,    \* events clients may ever send
    MaxTime,   \* bound: the last instant
    Lag,       \* the window ends this long before now (15 s)
    Lookback,  \* where the first window starts (24 h)
    Batch,     \* most events fetched per tick (5000)
    Faults     \* subset of {"crash", "postgres", "clickhouse"}

Times == 0 .. MaxTime
None == -(Lookback + 1)   \* worker_state holds no row yet
Positions == -Lookback .. MaxTime

ASSUME WorkerAssumption ==
    /\ IsFiniteSet(Events)
    /\ MaxTime \in Nat /\ Lag \in Nat /\ Lookback \in Nat /\ Lag <= Lookback
    /\ Batch \in Nat \ {0}
    /\ Faults \subseteq {"crash", "postgres", "clickhouse"}

VARIABLES
    now,        \* the wall clock
    ts,         \* the events table: client timestamp of each stored event
    rows,       \* the attribution_events table: rows per event, 2 = many
    position,   \* worker_state.last_processed_at
    pc,         \* the step of the current tick
    lastSeen,   \* tick: start of its window, exclusive
    until,      \* tick: end of its window, inclusive
    batch,      \* tick: the events it fetched
    over,       \* tick: events of its window beyond the limit
    late,       \* events stored when the worker had already read their window
    before,     \* events stored already when the worker first started, older than 24 h
    jumped,     \* events a tick that started over at now - 24 h left behind it
    cut,        \* events of a finished window that the limit left out
    doubtful    \* events a tick inserted, or may have, and will read again

tickVars == <<lastSeen, until, batch, over>>
ghosts == <<late, before, jumped, cut, doubtful>>
vars == <<now, ts, rows, position, pc, tickVars, ghosts>>

Stored == DOMAIN ts

TypeOK ==
    /\ now \in Times
    /\ Stored \subseteq Events
    /\ ts \in [Stored -> Times]
    /\ rows \in [Events -> 0 .. 2]
    /\ position \in Positions \cup {None}
    /\ pc \in {"idle", "read", "fetched", "inserted"}
    /\ lastSeen \in Positions
    /\ until \in -Lag .. MaxTime
    /\ batch \subseteq Stored
    /\ over \subseteq Stored \ batch
    /\ late \cup before \cup jumped \cup cut \cup doubtful \subseteq Stored

Init ==
    /\ now = 0
    /\ ts = [e \in {} |-> 0]
    /\ rows = [e \in Events |-> 0]
    /\ position = None
    /\ pc = "idle"
    /\ lastSeen = 0
    /\ until = 0
    /\ batch = {}
    /\ over = {}
    /\ late = {} /\ before = {} /\ jumped = {}
    /\ cut = {}
    /\ doubtful = {}

-----------------------------------------------------------------------------
ClockTick ==
    /\ now < MaxTime
    /\ now' = now + 1
    /\ UNCHANGED <<ts, rows, position, pc, tickVars, ghosts>>

\* POST /v1/ingest stores an event under the timestamp its client gave it.
\* It is late when the worker has already read the window it belongs to.
Ingest(e, t) ==
    /\ e \notin Stored
    /\ ts' = [x \in Stored \cup {e} |-> IF x = e THEN t ELSE ts[x]]
    /\ late' = IF t <= position \/ (pc \in {"fetched", "inserted"} /\ t <= until)
               THEN late \cup {e} ELSE late
    /\ UNCHANGED <<now, rows, position, pc, tickVars, before, jumped, cut, doubtful>>

-----------------------------------------------------------------------------
(* One tick.                                                                *)

EndTick ==
    /\ pc' = "idle"
    /\ batch' = {}
    /\ over' = {}

\* (mutant) the lag is added instead of subtracted
OpenWindowAhead(from) ==
    /\ lastSeen' = from
    /\ until' = now + Lag
    /\ pc' = IF now + Lag > from THEN "read" ELSE "idle"
    /\ UNCHANGED <<batch, over>>

\* (mutant) a window of one instant is not opened
OpenWindowLater(from) ==
    /\ lastSeen' = from
    /\ until' = now - Lag
    /\ pc' = IF now - Lag > from + 1 THEN "read" ELSE "idle"
    /\ UNCHANGED <<batch, over>>

\* (mutant) the first instant of the window is left out
OpenWindowAfterFirst(from) ==
    /\ lastSeen' = from + 1
    /\ until' = now - Lag
    /\ pc' = IF now - Lag > from THEN "read" ELSE "idle"
    /\ UNCHANGED <<batch, over>>

\* tick computes its window; an empty one ends the tick.
OpenWindow(from) ==
    /\ lastSeen' = from
    /\ until' = now - Lag
    /\ pc' = IF now - Lag > from THEN "read" ELSE "idle"
    /\ UNCHANGED <<batch, over>>

ReadPosition ==
    /\ pc = "idle"
    /\ position # None
    /\ OpenWindow(position)
    /\ UNCHANGED <<now, ts, rows, position, ghosts>>

\* readPosition takes every error for a missing row: it starts over from
\* now - 24h, and inserts that position unless there is one.
StartOver ==
    /\ pc = "idle"
    /\ position = None \/ "postgres" \in Faults
    /\ OpenWindow(now - Lookback)
    /\ \/ /\ position = None
          /\ position' = now - Lookback
          /\ before' = before \cup {e \in Stored : ts[e] <= now - Lookback}
       \/ /\ position # None
          /\ UNCHANGED <<position, before>>
    /\ UNCHANGED <<now, ts, rows, late, jumped, cut, doubtful>>

\* (mutant) ts >= after
WindowFromInclusive == {e \in Stored : lastSeen <= ts[e] /\ ts[e] <= until}

Window == {e \in Stored : lastSeen < ts[e] /\ ts[e] <= until}

\* ORDER BY ts ASC LIMIT Batch: any choice among equal timestamps.
Earliest(window) ==
    {chosen \in SUBSET window :
        /\ Cardinality(chosen) = IF Cardinality(window) < Batch THEN Cardinality(window)
                                                                ELSE Batch
        /\ \A e \in chosen, x \in window \ chosen : ts[e] <= ts[x]}

\* fetchEventsWindow; a tick with nothing to insert goes on to the position.
\* A window that starts behind the position reads attributed events again.
Fetch ==
    /\ pc = "read"
    /\ batch' \in Earliest(Window)
    /\ over' = Window \ batch'
    /\ pc' = IF batch' = {} THEN "inserted" ELSE "fetched"
    /\ doubtful' = doubtful \cup {e \in batch' : lastSeen < position /\ ts[e] <= position}
    /\ UNCHANGED <<now, ts, rows, position, lastSeen, until, late, before, jumped, cut>>

FetchFails ==
    /\ pc = "read"
    /\ "clickhouse" \in Faults
    /\ EndTick
    /\ UNCHANGED <<now, ts, rows, position, lastSeen, until, ghosts>>

AddRows ==
    rows' = [e \in Events |-> IF e \notin batch THEN rows[e]
                              ELSE IF rows[e] = 0 THEN 1 ELSE 2]

insertAttribution ==
    /\ pc = "fetched"
    /\ AddRows
    /\ pc' = "inserted"
    /\ UNCHANGED <<now, ts, position, tickVars, ghosts>>

\* The insert reports an error, having written the batch or not.
InsertFails ==
    /\ pc = "fetched"
    /\ "clickhouse" \in Faults
    /\ \/ AddRows /\ doubtful' = doubtful \cup batch
       \/ UNCHANGED <<rows, doubtful>>
    /\ EndTick
    /\ UNCHANGED <<now, ts, position, lastSeen, until, late, before, jumped, cut>>

\* (mutant) the position moves to now instead of the end of the window
AdvanceToNow ==
    /\ position' = now
    /\ cut' = cut \cup over
    /\ jumped' = jumped \cup {e \in Stored : position < ts[e] /\ ts[e] <= lastSeen}

\* The position moves to the end of the window, whatever was fetched: newPos
\* is the last event's timestamp, raised to until.  A tick that could not read
\* the position and started over may have its window begin ahead of it: what lies
\* between the two is never read.
Advance ==
    /\ position' = until
    /\ cut' = cut \cup over
    /\ jumped' = jumped \cup {e \in Stored : position < ts[e] /\ ts[e] <= lastSeen}

writePosition ==
    /\ pc = "inserted"
    /\ Advance
    /\ EndTick
    /\ UNCHANGED <<now, ts, rows, lastSeen, until, late, before, doubtful>>

\* The update reports an error, having been made or not.
WriteFails ==
    /\ pc = "inserted"
    /\ "postgres" \in Faults
    /\ \/ Advance /\ UNCHANGED doubtful
       \/ UNCHANGED <<position, cut, jumped>> /\ doubtful' = doubtful \cup batch
    /\ EndTick
    /\ UNCHANGED <<now, ts, rows, lastSeen, until, late, before>>

\* The container is stopped or the process dies; the entrypoint restarts it.
Crash ==
    /\ "crash" \in Faults
    /\ pc # "idle"
    /\ doubtful' = IF pc = "inserted" THEN doubtful \cup batch ELSE doubtful
    /\ EndTick
    /\ UNCHANGED <<now, ts, rows, position, lastSeen, until, late, before, jumped, cut>>

TickSteps ==
    \/ ReadPosition \/ StartOver
    \/ Fetch \/ FetchFails
    \/ insertAttribution \/ InsertFails
    \/ writePosition \/ WriteFails

Next ==
    \/ ClockTick
    \/ \E e \in Events, t \in Times : Ingest(e, t)
    \/ TickSteps
    \/ Crash

Spec == Init /\ [][Next]_vars

(* Fairness: Run arms its timer after every tick, whatever the tick did, so *)
(* a next step is always taken; time passes; and a store that is tried      *)
(* again and again answers in the end.                                      *)
FairSpec ==
    /\ Spec
    /\ WF_vars(ClockTick)
    /\ WF_vars(ReadPosition \/ StartOver)
    /\ SF_vars(Fetch)
    /\ SF_vars(insertAttribution)
    /\ SF_vars(writePosition)

-----------------------------------------------------------------------------
(* Properties.                                                              *)

\* Windows never overlap: an event gets two attribution rows only if a tick
\* inserted it without moving the position, or a failed read of the position
\* sent the worker back (tick, worker.go:140-185).
DuplicatesExplained == \A e \in Events : rows[e] > 1 => e \in doubtful

\* The reasons for which an event is never attributed: it reached ClickHouse
\* after its window was read (worker.go:52), it was more than 24 h old when the
\* worker first started, a failed read of the position made the worker start over
\* ahead of it (worker.go:343), or its window held more than the limit (worker.go:178).
PassedBy == late \cup before \cup jumped \cup cut

\* Windows leave no gap: what the position has passed is attributed, or passed
\* by for one of those four reasons.
NoGap ==
    \A e \in Stored :
        (position # None /\ ts[e] <= position) => rows[e] > 0 \/ e \in PassedBy

\* Only a database that fails makes the worker jump ahead: a worker that starts
\* over finds its position to lie further back than 24 h, because for so long it could
\* not be moved (readPosition, worker.go:338-357).
JumpsOnlyAfterOutage ==
    \A e \in jumped : "postgres" \in Faults /\ ts[e] <= now - Lookback

\* Every stored event is attributed in the end, or passed by for one of those
\* four reasons, however often the stores fail and the process dies.
EventuallyAttributed ==
    \A e \in Events :
        (e \in Stored /\ ts[e] <= MaxTime - Lag)
            ~> (e \in Stored /\ (rows[e] > 0 \/ e \in PassedBy))

\* "if a window holds more, the worker makes several iterations"
\* (worker.go:64-66, in Russian): the limit delays events, it loses none.
\* Spec refutes it, even without faults.
LimitOnlyDelays ==
    \A e \in Stored :
        (position # None /\ ts[e] <= position)
            => rows[e] > 0 \/ e \in late \cup before \cup jumped

\* "writes the batch idempotently" (docs/data-model.md, section 2.2, in
\* Russian): an event has at most one attribution row.  Spec refutes it with
\* "crash" in Faults.
AttributedOnce == \A e \in Events : rows[e] <= 1
=============================================================================
