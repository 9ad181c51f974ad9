---------------------- MODULE AttributionWorkerProofs ----------------------
(***************************************************************************)
(* Proofs about AttributionWorker, for any set of events, any batch limit, *)
(* lag and lookback, and any set of faults: windows leave no gap that is   *)
(* not explained, and no duplicate.                                        *)
(***************************************************************************)
EXTENDS AttributionWorker, TLAPS

\* The position stays behind the lag, and a window ends ahead of the position.
\* It begins ahead of it only when a failed read made the tick start over.
PositionOK ==
    /\ position # None => position <= now - Lag
    /\ pc # "idle" => /\ position # None /\ position <= until
                      /\ lastSeen < until /\ until <= now - Lag
                      /\ position < lastSeen =>
                            "postgres" \in Faults /\ lastSeen <= now - Lookback
    /\ pc \in {"idle", "read"} => batch = {} /\ over = {}

\* A window that has been read is in the batch, beyond the limit, or late.
WindowOK ==
    pc \in {"fetched", "inserted"} =>
        /\ \A e \in batch : lastSeen < ts[e] /\ ts[e] <= until
        /\ \A e \in Stored :
              lastSeen < ts[e] /\ ts[e] <= until => e \in batch \cup over \cup late

\* An event has rows only behind the position or in the tick under way, unless
\* it is in doubt; so a window ahead of the position holds no such event.
RowsOK ==
    /\ \A e \in Events :
          rows[e] > 0 /\ e \notin doubtful =>
              e \in Stored /\ (ts[e] <= position \/ (pc = "inserted" /\ e \in batch))
    /\ pc = "fetched" => \A e \in batch : rows[e] > 0 => e \in doubtful
    /\ pc = "inserted" => \A e \in batch : rows[e] > 0

IInv ==
    /\ TypeOK
    /\ PositionOK
    /\ WindowOK
    /\ RowsOK
    /\ DuplicatesExplained
    /\ NoGap
    /\ JumpsOnlyAfterOutage

USE DEF Stored, Times, Positions, None, PassedBy
-----------------------------------------------------------------------------
LEMMA InitIInv == Init => IInv
  <1> SUFFICES ASSUME Init PROVE IInv
    OBVIOUS
  <1> USE WorkerAssumption DEF Init
  <1>1. TypeOK
    BY DEF TypeOK
  <1>2. PositionOK /\ WindowOK /\ RowsOK
    BY DEF PositionOK, WindowOK, RowsOK
  <1>3. DuplicatesExplained /\ NoGap /\ JumpsOnlyAfterOutage
    BY DEF DuplicatesExplained, NoGap, JumpsOnlyAfterOutage
  <1> QED
    BY <1>1, <1>2, <1>3 DEF IInv

LEMMA ClockTickIInv == ASSUME IInv, ClockTick PROVE IInv'
  <1> USE WorkerAssumption DEF IInv, ClockTick, tickVars, ghosts
  <1>1. TypeOK'
    BY DEF TypeOK
  <1>2. PositionOK'
    BY DEF TypeOK, PositionOK
  <1>3. WindowOK' /\ RowsOK' /\ DuplicatesExplained' /\ NoGap'
    BY DEF WindowOK, RowsOK, DuplicatesExplained, NoGap
  <1>4. JumpsOnlyAfterOutage'
    BY DEF TypeOK, JumpsOnlyAfterOutage
  <1> QED
    BY <1>1, <1>2, <1>3, <1>4

\* An event that comes after its window was read is late.
LEMMA IngestIInv == ASSUME IInv, NEW e \in Events, NEW t \in Times, Ingest(e, t) PROVE IInv'
  <1> USE WorkerAssumption DEF IInv, Ingest, tickVars, ghosts
  <1>1. /\ DOMAIN ts' = DOMAIN ts \cup {e}
        /\ ts'[e] = t
        /\ \A x \in DOMAIN ts : ts'[x] = ts[x]
    OBVIOUS
  <1>2. TypeOK'
    BY DEF TypeOK
  <1>3. PositionOK'
    BY DEF PositionOK
  <1>4. WindowOK'
    BY <1>1 DEF TypeOK, WindowOK
  <1>5. RowsOK'
    BY <1>1 DEF TypeOK, RowsOK
  <1>6. DuplicatesExplained'
    BY DEF DuplicatesExplained
  <1>7. NoGap'
    BY <1>1 DEF TypeOK, NoGap
  <1>8. JumpsOnlyAfterOutage'
    BY <1>1 DEF TypeOK, JumpsOnlyAfterOutage
  <1> QED
    BY <1>2, <1>3, <1>4, <1>5, <1>6, <1>7, <1>8

\* What ReadPosition and StartOver share: a window that begins at or before
\* the lag, with a position that is not ahead of it.
LEMMA OpenWindowIInv ==
    ASSUME IInv, pc = "idle",
           NEW from \in Positions, OpenWindow(from),
           position' \in Positions, position' <= now - Lag,
           \/ position' = position
           \/ position = None /\ before' = before \cup {e \in Stored : ts[e] <= position'},
           position' = position => before' = before,
           position' < from => "postgres" \in Faults /\ from <= now - Lookback,
           UNCHANGED <<now, ts, rows, late, jumped, cut, doubtful>>
    PROVE  IInv'
  <1> USE WorkerAssumption DEF IInv, OpenWindow
  <1>1. TypeOK'
    BY DEF TypeOK
  <1>2. PositionOK'
    BY DEF TypeOK, PositionOK
  <1>3. WindowOK'
    BY DEF WindowOK
  <1>4. RowsOK'
    BY DEF TypeOK, RowsOK
  <1>5. DuplicatesExplained'
    BY DEF DuplicatesExplained
  <1>6. NoGap'
    BY DEF TypeOK, NoGap
  <1>7. JumpsOnlyAfterOutage'
    BY DEF JumpsOnlyAfterOutage
  <1> QED
    BY <1>1, <1>2, <1>3, <1>4, <1>5, <1>6, <1>7

LEMMA ReadPositionIInv == ASSUME IInv, ReadPosition PROVE IInv'
  <1>1. position \in Positions /\ position <= now - Lag
    BY DEF IInv, TypeOK, PositionOK, ReadPosition
  <1>2. ~(position < position)
    BY <1>1
  <1> QED
    BY <1>1, <1>2, OpenWindowIInv DEF ReadPosition, ghosts

LEMMA StartOverIInv == ASSUME IInv, StartOver PROVE IInv'
  <1>1. now - Lookback \in Positions /\ now - Lookback <= now - Lag
    BY WorkerAssumption DEF IInv, TypeOK
  <1>2. \/ position = None /\ position' = now - Lookback
        \/ position # None /\ position' = position
    BY DEF StartOver
  <1>3. CASE position = None /\ position' = now - Lookback
    <2>1. position' # position
      BY <1>1, <1>3, WorkerAssumption DEF Positions, None
    <2>2. before' = before \cup {e \in Stored : ts[e] <= position'}
      BY <1>3 DEF StartOver
    <2>3. ~(position' < now - Lookback)
      BY <1>1, <1>3
    <2> QED
      BY <1>1, <1>3, <2>1, <2>2, <2>3, OpenWindowIInv DEF StartOver
  <1>4. CASE position # None /\ position' = position
    <2>1. position \in Positions /\ position <= now - Lag
      BY <1>4 DEF IInv, TypeOK, PositionOK
    <2>2. "postgres" \in Faults /\ before' = before /\ now - Lookback <= now - Lookback
      BY <1>1, <1>4 DEF StartOver
    <2> QED
      BY <1>1, <1>4, <2>1, <2>2, OpenWindowIInv DEF StartOver
  <1> QED
    BY <1>2, <1>3, <1>4

\* A window holds no event with rows, unless it is in doubt.
LEMMA FetchIInv == ASSUME IInv, Fetch PROVE IInv'
  <1> USE WorkerAssumption DEF IInv, Fetch
  <1>1. batch' \subseteq Window
    BY DEF Earliest
  <1>2. Window \subseteq Stored /\ \A e \in Window : lastSeen < ts[e] /\ ts[e] <= until
    BY DEF Window
  <1>3. TypeOK'
    BY <1>1, <1>2 DEF TypeOK
  <1>4. PositionOK'
    BY DEF PositionOK
  <1>5. WindowOK'
    BY <1>1, <1>2 DEF WindowOK, Window
  <1>6. RowsOK'
    <2>1. ASSUME NEW e \in batch', rows[e] > 0, e \notin doubtful PROVE e \in doubtful'
      <3>1. e \in Events /\ ts[e] \in Int /\ lastSeen < ts[e]
        BY <1>1, <1>2 DEF TypeOK
      <3>2. ts[e] <= position
        BY <2>1, <3>1 DEF RowsOK
      <3>3. lastSeen < position
        BY <3>1, <3>2 DEF TypeOK
      <3> QED
        BY <2>1, <3>2, <3>3
    <2>2. doubtful \subseteq doubtful'
      OBVIOUS
    <2> QED
      BY <2>1, <2>2 DEF RowsOK
  <1>7. DuplicatesExplained'
    BY DEF DuplicatesExplained
  <1>8. NoGap' /\ JumpsOnlyAfterOutage'
    BY DEF NoGap, JumpsOnlyAfterOutage
  <1> QED
    BY <1>3, <1>4, <1>5, <1>6, <1>7, <1>8

LEMMA FetchFailsIInv == ASSUME IInv, FetchFails PROVE IInv'
  <1> USE DEF IInv, FetchFails, EndTick, ghosts
  <1>1. TypeOK' /\ PositionOK' /\ WindowOK'
    BY DEF TypeOK, PositionOK, WindowOK
  <1>2. RowsOK' /\ DuplicatesExplained' /\ NoGap' /\ JumpsOnlyAfterOutage'
    BY DEF RowsOK, DuplicatesExplained, NoGap, JumpsOnlyAfterOutage
  <1> QED
    BY <1>1, <1>2

\* Inserting a batch adds a row to each of its events and to no other.
LEMMA AddRowsFacts ==
    ASSUME rows \in [Events -> 0 .. 2], AddRows
    PROVE  /\ rows' \in [Events -> 0 .. 2]
           /\ \A e \in Events \ batch : rows'[e] = rows[e]
           /\ \A e \in Events : rows'[e] >= rows[e]
           /\ \A e \in Events \cap batch : rows'[e] > 0 /\ (rows[e] = 0 => rows'[e] = 1)
  BY DEF AddRows

LEMMA InsertIInv == ASSUME IInv, insertAttribution PROVE IInv'
  <1> USE DEF IInv, insertAttribution, tickVars, ghosts
  <1>1. /\ rows' \in [Events -> 0 .. 2]
        /\ \A e \in Events \ batch : rows'[e] = rows[e]
        /\ \A e \in Events : rows'[e] >= rows[e]
        /\ \A e \in Events \cap batch : rows'[e] > 0 /\ (rows[e] = 0 => rows'[e] = 1)
    BY AddRowsFacts DEF TypeOK
  <1>2. batch \subseteq Stored /\ Stored \subseteq Events /\ rows \in [Events -> 0 .. 2]
    BY DEF TypeOK
  <1>3. TypeOK'
    BY <1>1 DEF TypeOK
  <1>4. PositionOK' /\ WindowOK'
    BY DEF PositionOK, WindowOK
  <1>5. RowsOK'
    BY <1>1, <1>2 DEF RowsOK
  <1>6. DuplicatesExplained'
    BY <1>1, <1>2 DEF DuplicatesExplained, RowsOK
  <1>7. NoGap' /\ JumpsOnlyAfterOutage'
    BY <1>1, <1>2 DEF NoGap, JumpsOnlyAfterOutage
  <1> QED
    BY <1>3, <1>4, <1>5, <1>6, <1>7

LEMMA InsertFailsIInv == ASSUME IInv, InsertFails PROVE IInv'
  <1> USE DEF IInv, InsertFails, EndTick
  <1>1. batch \subseteq Stored /\ Stored \subseteq Events /\ rows \in [Events -> 0 .. 2]
    BY DEF TypeOK
  <1>2. PositionOK' /\ WindowOK'
    BY DEF PositionOK, WindowOK
  <1>3. CASE AddRows /\ doubtful' = doubtful \cup batch
    <2>1. /\ rows' \in [Events -> 0 .. 2]
          /\ \A e \in Events \ batch : rows'[e] = rows[e]
          /\ \A e \in Events : rows'[e] >= rows[e]
      BY <1>1, <1>3, AddRowsFacts
    <2>2. TypeOK'
      BY <1>3, <2>1 DEF TypeOK
    <2>3. RowsOK'
      BY <1>1, <1>3, <2>1 DEF RowsOK
    <2>4. DuplicatesExplained'
      BY <1>1, <1>3, <2>1 DEF DuplicatesExplained
    <2>5. NoGap' /\ JumpsOnlyAfterOutage'
      BY <1>1, <2>1 DEF NoGap, JumpsOnlyAfterOutage
    <2> QED
      BY <1>2, <2>2, <2>3, <2>4, <2>5
  <1>4. CASE UNCHANGED <<rows, doubtful>>
    <2>1. TypeOK'
      BY <1>4 DEF TypeOK
    <2>2. RowsOK' /\ DuplicatesExplained' /\ NoGap' /\ JumpsOnlyAfterOutage'
      BY <1>4 DEF RowsOK, DuplicatesExplained, NoGap, JumpsOnlyAfterOutage
    <2> QED
      BY <1>2, <2>1, <2>2
  <1> QED
    BY <1>3, <1>4 DEF InsertFails

\* Moving the position to the end of a window whose batch has its rows.
LEMMA AdvanceIInv ==
    ASSUME IInv, pc = "inserted", Advance, EndTick,
           UNCHANGED <<now, ts, rows, lastSeen, until, late, before, doubtful>>
    PROVE  IInv'
  <1> USE WorkerAssumption DEF IInv, Advance, EndTick
  <1>1. /\ position \in Int /\ until \in Int /\ lastSeen \in Int
        /\ position <= until /\ Stored \subseteq Events
        /\ \A e \in Stored : ts[e] \in Int
    BY DEF TypeOK, PositionOK
  <1>2. TypeOK'
    BY DEF TypeOK
  <1>3. PositionOK'
    BY DEF PositionOK
  <1>4. WindowOK'
    BY DEF WindowOK
  <1>5. RowsOK'
    BY <1>1 DEF RowsOK, WindowOK, TypeOK
  <1>6. DuplicatesExplained'
    BY DEF DuplicatesExplained
  <1>7. NoGap'
    <2> SUFFICES ASSUME NEW e \in Stored, ts[e] <= until
                 PROVE  rows[e] > 0 \/ e \in (late \cup before \cup jumped \cup cut)'
      BY DEF NoGap
    <2>1. CASE ts[e] <= position
      BY <2>1 DEF NoGap, PositionOK
    <2>2. CASE position < ts[e] /\ ts[e] <= lastSeen
      BY <2>2
    <2>3. CASE lastSeen < ts[e]
      BY <2>3 DEF WindowOK, RowsOK
    <2> QED
      BY <1>1, <2>1, <2>2, <2>3
  <1>8. JumpsOnlyAfterOutage'
    <2> SUFFICES ASSUME NEW e \in Stored, position < ts[e] /\ ts[e] <= lastSeen
                 PROVE  "postgres" \in Faults /\ ts[e] <= now - Lookback
      BY DEF JumpsOnlyAfterOutage
    <2>1. position < lastSeen /\ now \in Int
      BY <1>1 DEF TypeOK
    <2> QED
      BY <1>1, <2>1 DEF PositionOK
  <1> QED
    BY <1>2, <1>3, <1>4, <1>5, <1>6, <1>7, <1>8

\* Ending a tick early leaves what it inserted in doubt.
LEMMA AbortIInv ==
    ASSUME IInv, EndTick,
           doubtful' = doubtful \cup (IF pc = "inserted" THEN batch ELSE {}),
           UNCHANGED <<now, ts, rows, position, lastSeen, until, late, before, jumped, cut>>
    PROVE  IInv'
  <1> USE DEF IInv, EndTick
  <1>1. TypeOK'
    BY DEF TypeOK
  <1>2. PositionOK' /\ WindowOK'
    BY DEF PositionOK, WindowOK
  <1>3. RowsOK'
    BY DEF RowsOK
  <1>4. DuplicatesExplained' /\ NoGap' /\ JumpsOnlyAfterOutage'
    BY DEF DuplicatesExplained, NoGap, JumpsOnlyAfterOutage
  <1> QED
    BY <1>1, <1>2, <1>3, <1>4

LEMMA WritePositionIInv == ASSUME IInv, writePosition PROVE IInv'
  BY AdvanceIInv DEF writePosition

LEMMA WriteFailsIInv == ASSUME IInv, WriteFails PROVE IInv'
  BY AdvanceIInv, AbortIInv DEF WriteFails

LEMMA CrashIInv == ASSUME IInv, Crash PROVE IInv'
  BY AbortIInv DEF Crash

LEMMA NextIInv == IInv /\ [Next]_vars => IInv'
  <1> SUFFICES ASSUME IInv, [Next]_vars PROVE IInv'
    OBVIOUS
  <1>1. CASE ClockTick
    BY <1>1, ClockTickIInv
  <1>2. ASSUME NEW e \in Events, NEW t \in Times, Ingest(e, t) PROVE IInv'
    BY <1>2, IngestIInv
  <1>3. CASE TickSteps
    BY <1>3, ReadPositionIInv, StartOverIInv, FetchIInv, FetchFailsIInv, InsertIInv,
       InsertFailsIInv, WritePositionIInv, WriteFailsIInv DEF TickSteps
  <1>4. CASE Crash
    BY <1>4, CrashIInv
  <1>5. CASE UNCHANGED vars
    BY <1>5 DEF vars, tickVars, ghosts, IInv, TypeOK, PositionOK, WindowOK, RowsOK,
                DuplicatesExplained, NoGap, JumpsOnlyAfterOutage
  <1> QED
    BY <1>1, <1>2, <1>3, <1>4, <1>5 DEF Next
-----------------------------------------------------------------------------
\* The inductive invariant holds in every reachable state.
THEOREM Invariance == Spec => []IInv
  BY InitIInv, NextIInv, PTL DEF Spec

\* Every variable of the worker keeps its type (tick, worker.go:140-185).
THEOREM TypeCorrect == Spec => []TypeOK
<1>1. IInv => TypeOK
  BY DEF IInv
<1> QED
  BY <1>1, Invariance, PTL

\* An event gets a second attribution row only when a tick could not record
\* that it had inserted the first, or the position could not be read.
THEOREM DuplicatesOnlyInDoubt == Spec => []DuplicatesExplained
<1>1. IInv => DuplicatesExplained
  BY DEF IInv
<1> QED
  BY <1>1, Invariance, PTL

\* What the position has passed is attributed, came after its window was read,
\* was older than 24 h at the first start, was left behind by a tick that started
\* over, or was cut off by the batch limit, whatever fails and in whatever order
\* events arrive.
THEOREM WindowsLeaveNoGap == Spec => []NoGap
<1>1. IInv => NoGap
  BY DEF IInv
<1> QED
  BY <1>1, Invariance, PTL

\* Nothing is left behind by starting over unless Postgres has failed and the
\* event is more than 24 h old: the reason is not a cover for a gap between windows.
THEOREM JumpsNeedAnOutage == Spec => []JumpsOnlyAfterOutage
<1>1. IInv => JumpsOnlyAfterOutage
  BY DEF IInv
<1> QED
  BY <1>1, Invariance, PTL
=============================================================================
