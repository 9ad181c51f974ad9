------------------------- MODULE AdminEditingProofs -------------------------
(***************************************************************************)
(* What an administrator is shown and what a save may overwrite, for any   *)
(* rows and any number of changes.                                         *)
(***************************************************************************)
EXTENDS AdminEditing, TLAPS

\* A row that exists has a version.
Versioned == \A r \in Rows : row[r].live => row[r].stamp > 0

\* What was stored, confirmed or read since is not newer than the row; a fetch that
\* had read the row before a confirmed change was written has been passed by it.
InOrder ==
    /\ \A kind \in JobKinds : job[kind].phase = "written" =>
           job[kind].at <= row[job[kind].row].stamp
    /\ \A r \in Rows : own[r] <= row[r].stamp
    /\ \A r \in Rows : fetch[r].phase = "read" /\ ~fetch[r].passed =>
           own[r] <= fetch[r].row.stamp

\* A request is about a row, and a save has a text.
Addressed ==
    /\ \A kind \in JobKinds :
           job[kind].phase \in {"sent", "checked", "written"} => job[kind].row \in Rows
    /\ job["save"].phase \in {"sent", "checked"} => job["save"].of \in Rows

\* The version a save names is the one its text was seeded from, and a save that
\* passed the comparison found that version or no row.
Seeded ==
    /\ form = "content" /\ data[sel].loaded => text.base = Version(data[sel].row)
    /\ job["save"].etag # 0 => job["save"].base = job["save"].etag
    /\ job["save"].phase = "checked" => job["save"].at \in {0, job["save"].etag}

IInv == TypeOK /\ Versioned /\ InOrder /\ Addressed /\ Seeded /\ OwnChangeShown

\* The two requests, each by its name.
LEMMA TwoKinds == "save" \in JobKinds /\ "revert" \in JobKinds
  BY DEF JobKinds

LEMMA InitIInv == Init => IInv
  <1> SUFFICES ASSUME Init PROVE IInv
    OBVIOUS
  <1> USE AdminEditingAssumption, TwoKinds DEF Init
  <1>1. 0 \in Stamp /\ 1 \in Stamp
    BY DEF Stamp
  <1>2. TypeOK
    BY <1>1 DEF TypeOK, Row, Query, Text, Fetch, Job, NoData, Blank, NoJob, NoFetch, NewFetch
  <1>3. \A kind \in JobKinds : job[kind].phase = "none" /\ job[kind].etag = 0
    BY DEF NoJob
  <1>4. \A r \in Rows : fetch[r].phase # "read"
    BY DEF NoFetch, NewFetch
  <1>5. \A r \in Rows : row[r].stamp \in {0, 1} /\ (row[r].live => row[r].stamp = 1)
    OBVIOUS
  <1>6. Versioned /\ InOrder
    <2>1. \A r \in Rows : own[r] = 0
      OBVIOUS
    <2> HIDE DEF Init
    <2> QED
      BY <1>3, <1>4, <1>5, <2>1 DEF Versioned, InOrder
  <1>7. Addressed /\ Seeded
    BY <1>3 DEF Addressed, Seeded
  <1>8. OwnChangeShown
    BY DEF OwnChangeShown, NoData
  <1> QED
    BY <1>2, <1>6, <1>7, <1>8 DEF IInv

-----------------------------------------------------------------------------
(* What the helpers of the actions do to the types.                         *)

LEMMA StoreTyped ==
    ASSUME TypeOK, NEW r \in Rows, NEW live \in BOOLEAN, NEW of \in Rows,
           Store(r, live, of)
    PROVE  /\ row' \in [Rows -> Row] /\ changes' \in 0 .. MaxChanges
           /\ \A q \in Rows : row'[q].of # NoRow
           /\ row'[r].stamp = row[r].stamp + 1 /\ row'[r].stamp > 0
           /\ \A q \in Rows : q # r => row'[q] = row[q]
           /\ \A q \in Rows : row'[q].stamp \in Nat /\ row'[q].stamp >= row[q].stamp
  <1>1. row[r].stamp + 1 \in Stamp /\ changes + 1 \in 0 .. MaxChanges
    BY AdminEditingAssumption DEF TypeOK, Store, Row, Stamp
  <1>2. [stamp |-> row[r].stamp + 1, live |-> live, of |-> of] \in Row
    BY <1>1 DEF Row
  <1>3. \A q \in Rows : row[q].stamp \in Nat
    BY DEF TypeOK, Row, Stamp
  <1>4. row' \in [Rows -> Row] /\ \A q \in Rows : q # r => row'[q] = row[q]
    BY <1>2 DEF TypeOK, Store
  <1>5. row'[r].stamp = row[r].stamp + 1 /\ row'[r].of # NoRow
    BY AdminEditingAssumption DEF TypeOK, Store
  <1> QED
    BY <1>1, <1>3, <1>4, <1>5 DEF TypeOK, Store

LEMMA MarkedTyped ==
    ASSUME TypeOK, NEW R
    PROVE  /\ Marked(R) \in [Rows -> Query]
           /\ \A r \in Rows : /\ Marked(R)[r].loaded = data[r].loaded
                              /\ Marked(R)[r].row = data[r].row
                              /\ data[r].invalid \/ r \in R => Marked(R)[r].invalid
  <1>1. \A r \in Rows : [data[r] EXCEPT !.invalid = TRUE] \in Query
    BY DEF TypeOK, Query
  <1> QED
    BY <1>1 DEF TypeOK, Marked, Query

\* A fetch is left as it was or begun anew.
LEMMA RefetchedTyped ==
    ASSUME TypeOK, NEW R
    PROVE  /\ Refetched(R) \in [Rows -> Fetch]
           /\ \A r \in Rows : Refetched(R)[r] \in {fetch[r], NewFetch}
           /\ \A r \in R : ~GoesOn(r) => Refetched(R)[r] = NewFetch
  <1>1. NewFetch \in Fetch
    BY AdminEditingAssumption DEF NewFetch, Fetch, NoData, Row, Stamp
  <1> QED
    BY <1>1 DEF TypeOK, Refetched, GoesOn

-----------------------------------------------------------------------------
(* One lemma per action.                                                    *)

LEMMA SelectIInv ==
    ASSUME IInv, NEW r \in Rows, Select(r)
    PROVE  IInv'
  <1> USE AdminEditingAssumption, TwoKinds DEF IInv, Select, backend, ghosts
  <1>0. \A q \in Row : Version(q) \in Stamp /\ SeededFrom(q) \in Text
    BY DEF Version, SeededFrom, Row, Text, Stamp
  <1>1. TypeOK'
    BY <1>0 DEF TypeOK, Row, Query, Text, Fetch, Job, Stamp, NoData, Blank, NoJob, NoFetch, NewFetch
  <1>2. Versioned'
    BY DEF TypeOK, Versioned, Row, Stamp
  <1>3. InOrder'
    BY DEF TypeOK, InOrder, Addressed, Row, Job, Fetch, Stamp, NoJob, NoFetch, NewFetch
  <1>4. Addressed'
    BY DEF TypeOK, Addressed, Job, Text, NoJob
  <1>5. Seeded'
    BY DEF TypeOK, Seeded, Row, Query, Text, Job, Stamp, NoJob, Version, SeededFrom
  <1>6. OwnChangeShown'
    BY DEF TypeOK, InOrder, OwnChangeShown, Row, Query, Fetch, Stamp
  <1> QED
    BY <1>1, <1>2, <1>3, <1>4, <1>5, <1>6

LEMMA OthersWriteIInv ==
    ASSUME IInv, NEW r \in Rows, OthersWrite(r)
    PROVE  IInv'
  <1> USE AdminEditingAssumption, TwoKinds DEF IInv, OthersWrite, backend, ghosts
  <1>s. PICK live \in BOOLEAN : Store(r, live, r)
    OBVIOUS
  <1>1. TypeOK'
    BY <1>s, StoreTyped DEF TypeOK
  <1>2. Versioned'
    BY <1>s, StoreTyped DEF Versioned
  <1>3. InOrder'
    <2>2. \A q \in Rows : row'[q].stamp >= row[q].stamp
      BY <1>s, StoreTyped
    <2> QED
      BY <1>1, <2>2 DEF TypeOK, InOrder, Addressed, Row, Job, Fetch, Stamp
  <1>4. Addressed'
    BY DEF TypeOK, Addressed, Job, Text, NoJob
  <1>5. Seeded'
    BY DEF TypeOK, Seeded, Row, Query, Text, Job, Stamp, NoJob, Version, SeededFrom
  <1>6. OwnChangeShown'
    BY DEF TypeOK, InOrder, OwnChangeShown, Row, Query, Fetch, Stamp
  <1> QED
    BY <1>1, <1>2, <1>3, <1>4, <1>5, <1>6

LEMMA TypeIInv ==
    ASSUME IInv, Type
    PROVE  IInv'
  <1> USE AdminEditingAssumption, TwoKinds DEF IInv, Type, backend, ghosts
  <1>0. \A q \in Row : Version(q) \in Stamp /\ SeededFrom(q) \in Text
    BY DEF Version, SeededFrom, Row, Text, Stamp
  <1>1. TypeOK'
    BY <1>0 DEF TypeOK, Row, Query, Text, Fetch, Job, Stamp, NoData, Blank, NoJob, NoFetch, NewFetch
  <1>2. Versioned'
    BY DEF TypeOK, Versioned, Row, Stamp
  <1>3. InOrder'
    BY DEF TypeOK, InOrder, Addressed, Row, Job, Fetch, Stamp, NoJob, NoFetch, NewFetch
  <1>4. Addressed'
    BY DEF TypeOK, Addressed, Job, Text, NoJob
  <1>5. Seeded'
    BY DEF TypeOK, Seeded, Row, Query, Text, Job, Stamp, NoJob, Version, SeededFrom
  <1>6. OwnChangeShown'
    BY DEF TypeOK, InOrder, OwnChangeShown, Row, Query, Fetch, Stamp
  <1> QED
    BY <1>1, <1>2, <1>3, <1>4, <1>5, <1>6

LEMMA RefetchIInv ==
    ASSUME IInv, Refetch
    PROVE  IInv'
  <1> USE AdminEditingAssumption, TwoKinds DEF IInv, Refetch, backend, ghosts
  <1>1. TypeOK'
    BY MarkedTyped, RefetchedTyped DEF TypeOK
  <1>2. Versioned'
    BY DEF TypeOK, Versioned, Row, Stamp
  <1>3. InOrder'
    BY RefetchedTyped DEF TypeOK, InOrder, Fetch, NewFetch
  <1>4. Addressed'
    BY DEF TypeOK, Addressed, Job, Text, NoJob
  <1>5. Seeded'
    BY MarkedTyped DEF TypeOK, Seeded
  <1>6. OwnChangeShown'
    BY MarkedTyped DEF TypeOK, OwnChangeShown
  <1> QED
    BY <1>1, <1>2, <1>3, <1>4, <1>5, <1>6

LEMMA FetchReadIInv ==
    ASSUME IInv, NEW r \in Rows, FetchRead(r)
    PROVE  IInv'
  <1> USE AdminEditingAssumption, TwoKinds DEF IInv, FetchRead, backend, ghosts
  <1>1. TypeOK'
    <2>1. [fetch[r] EXCEPT !.phase = "read", !.row = row[r]] \in Fetch
      BY DEF TypeOK, Fetch
    <2> QED
      BY <2>1 DEF TypeOK
  <1>2. Versioned'
    BY DEF TypeOK, Versioned, Row, Stamp
  <1>3. InOrder'
    BY DEF TypeOK, InOrder, Addressed, Row, Job, Fetch, Stamp, NoJob, NoFetch, NewFetch
  <1>4. Addressed'
    BY DEF TypeOK, Addressed, Job, Text, NoJob
  <1>5. Seeded'
    BY DEF TypeOK, Seeded, Row, Query, Text, Job, Stamp, NoJob, Version, SeededFrom
  <1>6. OwnChangeShown'
    BY DEF TypeOK, InOrder, OwnChangeShown, Row, Query, Fetch, Stamp
  <1> QED
    BY <1>1, <1>2, <1>3, <1>4, <1>5, <1>6

LEMMA FetchOkIInv ==
    ASSUME IInv, NEW r \in Rows, FetchOk(r)
    PROVE  IInv'
  <1> USE AdminEditingAssumption, TwoKinds DEF IInv, FetchOk, SeededFrom, backend, ghosts
  <1>0. \A q \in Row : Version(q) \in Stamp /\ SeededFrom(q) \in Text
    BY DEF Version, SeededFrom, Row, Text, Stamp
  <1>1. TypeOK'
    BY <1>0 DEF TypeOK, Row, Query, Text, Fetch, Job, Stamp, NoData, Blank, NoJob, NoFetch, NewFetch
  <1>2. Versioned'
    BY DEF TypeOK, Versioned, Row, Stamp
  <1>3. InOrder'
    BY DEF TypeOK, InOrder, Addressed, Row, Job, Fetch, Stamp, NoJob, NoFetch, NewFetch
  <1>4. Addressed'
    BY DEF TypeOK, Addressed, Job, Text, NoJob
  <1>5. Seeded'
    BY DEF TypeOK, Seeded, Row, Query, Text, Job, Stamp, NoJob, Version, SeededFrom
  <1>6. OwnChangeShown'
    BY DEF TypeOK, InOrder, OwnChangeShown, Row, Query, Fetch, Stamp
  <1> QED
    BY <1>1, <1>2, <1>3, <1>4, <1>5, <1>6

LEMMA FetchFailIInv ==
    ASSUME IInv, NEW r \in Rows, FetchFail(r)
    PROVE  IInv'
  <1> USE AdminEditingAssumption, TwoKinds DEF IInv, FetchFail, backend, ghosts
  <1>1. TypeOK'
    <2>1. NoFetch \in Fetch
      BY DEF NoFetch, Fetch, NoData, Row, Stamp
    <2>2. [data[r] EXCEPT !.failed = TRUE] \in Query
      BY DEF TypeOK, Query
    <2> QED
      BY <2>1, <2>2 DEF TypeOK
  <1>2. Versioned'
    BY DEF TypeOK, Versioned, Row, Stamp
  <1>3. InOrder'
    BY DEF TypeOK, InOrder, Addressed, Row, Job, Fetch, Stamp, NoJob, NoFetch, NewFetch
  <1>4. Addressed'
    BY DEF TypeOK, Addressed, Job, Text, NoJob
  <1>5. Seeded'
    BY DEF TypeOK, Seeded, Row, Query, Text, Job, Stamp, NoJob, Version, SeededFrom
  <1>6. OwnChangeShown'
    BY DEF TypeOK, InOrder, OwnChangeShown, Row, Query, Fetch, Stamp
  <1> QED
    BY <1>1, <1>2, <1>3, <1>4, <1>5, <1>6

LEMMA SaveIInv ==
    ASSUME IInv, Save
    PROVE  IInv'
  <1> USE AdminEditingAssumption, TwoKinds DEF IInv, Save, SaveRequest, Starts, IfMatch, backend, ghosts
  <1>0. \A q \in Row : Version(q) \in Stamp
    BY DEF Version, Row, Stamp
  <1>1. TypeOK'
    BY <1>0 DEF TypeOK, Row, Query, Text, Fetch, Job, Stamp, NoData, Blank, NoJob, NoFetch, NewFetch
  <1>2. Versioned'
    BY DEF TypeOK, Versioned, Row, Stamp
  <1>3. InOrder'
    BY DEF TypeOK, InOrder, Addressed, Row, Job, Fetch, Stamp, NoJob, NoFetch, NewFetch
  <1>4. Addressed'
    BY DEF TypeOK, Addressed, Job, Text, NoJob
  <1>5. Seeded'
    BY DEF TypeOK, Seeded, Row, Query, Text, Job, Stamp, NoJob, Version, SeededFrom
  <1>6. OwnChangeShown'
    BY DEF TypeOK, InOrder, OwnChangeShown, Row, Query, Fetch, Stamp
  <1> QED
    BY <1>1, <1>2, <1>3, <1>4, <1>5, <1>6

LEMMA RevertIInv ==
    ASSUME IInv, Revert
    PROVE  IInv'
  <1> USE AdminEditingAssumption, TwoKinds DEF IInv, Revert, Starts, backend, ghosts
  <1>0. \A q \in Row : Version(q) \in Stamp
    BY DEF Version, Row, Stamp
  <1>1. TypeOK'
    BY <1>0 DEF TypeOK, Row, Query, Text, Fetch, Job, Stamp, NoData, Blank, NoJob, NoFetch, NewFetch
  <1>2. Versioned'
    BY DEF TypeOK, Versioned, Row, Stamp
  <1>3. InOrder'
    BY DEF TypeOK, InOrder, Addressed, Row, Job, Fetch, Stamp, NoJob, NoFetch, NewFetch
  <1>4. Addressed'
    BY DEF TypeOK, Addressed, Job, Text, NoJob
  <1>5. Seeded'
    BY DEF TypeOK, Seeded, Row, Query, Text, Job, Stamp, NoJob, Version, SeededFrom
  <1>6. OwnChangeShown'
    BY DEF TypeOK, InOrder, OwnChangeShown, Row, Query, Fetch, Stamp
  <1> QED
    BY <1>1, <1>2, <1>3, <1>4, <1>5, <1>6

LEMMA CheckIInv ==
    ASSUME IInv, Check
    PROVE  IInv'
  <1> USE AdminEditingAssumption, TwoKinds DEF IInv, Check, backend, ghosts
  <1>1. TypeOK'
    <2>1. Version(row[job["save"].row]) \in Stamp
      BY DEF TypeOK, Addressed, Version, Row, Stamp
    <2>2. /\ [NoJob EXCEPT !.phase = "refused"] \in Job
          /\ [job["save"] EXCEPT !.phase = "checked", !.at = Version(row[job["save"].row])] \in Job
      BY <2>1 DEF TypeOK, Job, NoJob, Stamp
    <2> QED
      BY <2>2 DEF TypeOK
  <1>2. Versioned'
    BY DEF TypeOK, Versioned, Row, Stamp
  <1>3. InOrder'
    BY DEF TypeOK, InOrder, Addressed, Row, Job, Fetch, Stamp, NoJob, NoFetch, NewFetch
  <1>4. Addressed'
    BY DEF TypeOK, Addressed, Job, Text, NoJob
  <1>5. Seeded'
    BY DEF TypeOK, Seeded, Row, Query, Text, Job, Stamp, NoJob, Version, SeededFrom
  <1>6. OwnChangeShown'
    BY DEF TypeOK, InOrder, OwnChangeShown, Row, Query, Fetch, Stamp
  <1> QED
    BY <1>1, <1>2, <1>3, <1>4, <1>5, <1>6

LEMMA WriteIInv ==
    ASSUME IInv, NEW kind \in JobKinds, Write(kind)
    PROVE  IInv'
  <1> USE AdminEditingAssumption, TwoKinds DEF IInv, Write, backend, ghosts
  <1>0. job[kind].row \in Rows
    BY DEF Addressed
  <1>s. PICK live \in BOOLEAN, of \in Rows : Store(job[kind].row, live, of)
    <2>1. CASE kind = "save"
      BY <2>1 DEF Addressed
    <2>2. CASE kind # "save"
      BY <1>0, <2>2
    <2> QED
      BY <2>1, <2>2
  <1>1. TypeOK'
    <2>1. job'[kind] \in Job /\ job' \in [JobKinds -> Job]
      BY <1>0, <1>s, StoreTyped DEF TypeOK, Job, NoJob, Stamp
    <2> QED
      BY <1>0, <1>s, <2>1, StoreTyped DEF TypeOK
  <1>2. Versioned'
    BY <1>0, <1>s, StoreTyped DEF Versioned
  <1>3. InOrder'
    <2>1. \A q \in Rows : row'[q].stamp >= row[q].stamp /\ row'[q].stamp \in Nat
      BY <1>0, <1>s, StoreTyped
    <2>2. /\ job'[kind].at = row'[job[kind].row].stamp /\ job'[kind].row = job[kind].row
          /\ \A k \in JobKinds : k # kind => job'[k] = job[k]
      BY DEF TypeOK, NoJob
    <2>3. \A k \in JobKinds : job'[k].phase = "written" =>
             job'[k].row \in Rows /\ job'[k].at <= row'[job'[k].row].stamp
      <3>1. ASSUME NEW k \in JobKinds, k # kind, job[k].phase = "written"
            PROVE  job[k].row \in Rows /\ job[k].at <= row'[job[k].row].stamp
        <4>1. job[k].row \in Rows /\ job[k].at <= row[job[k].row].stamp
          BY <3>1 DEF InOrder, Addressed
        <4>2. job[k].at \in Nat /\ row[job[k].row].stamp \in Nat
          BY <4>1 DEF TypeOK, Job, Row, Stamp
        <4> QED
          BY <2>1, <4>1, <4>2
      <3> QED
        BY <1>0, <2>1, <2>2, <3>1
    <2>4. \A q \in Rows : own[q] <= row'[q].stamp
      <3>1. \A q \in Rows : own[q] \in Nat /\ row[q].stamp \in Nat
        BY DEF TypeOK, Row, Stamp
      <3> QED
        BY <2>1, <3>1 DEF InOrder
    <2> QED
      BY <2>3, <2>4 DEF InOrder
  <1>4. Addressed'
    BY DEF TypeOK, Addressed, Job, Text, NoJob
  <1>5. Seeded'
    BY DEF TypeOK, Seeded, Row, Query, Text, Job, Stamp, NoJob, Version, SeededFrom
  <1>6. OwnChangeShown'
    BY DEF TypeOK, InOrder, OwnChangeShown, Row, Query, Fetch, Stamp
  <1> QED
    BY <1>1, <1>2, <1>3, <1>4, <1>5, <1>6

LEMMA AnsweredIInv ==
    ASSUME IInv, NEW kind \in JobKinds, Answered(kind)
    PROVE  IInv'
  <1> USE AdminEditingAssumption, TwoKinds DEF IInv, Answered, backend, ghosts
  <1>0. job[kind].row \in Rows
    BY DEF Addressed
  <1>1. TypeOK'
    <2>1. job'[kind] \in Job /\ job[kind].at \in Stamp
      BY DEF TypeOK, Job, NoJob, Stamp
    <2>2. data' \in [Rows -> Query]
      BY MarkedTyped
    <2>3. fetch' \in [Rows -> Fetch]
      <3>1. Refetched(Invalidates(job[kind].row)) \in [Rows -> Fetch]
        BY RefetchedTyped
      <3>2. \A f \in Fetch, b \in BOOLEAN : [f EXCEPT !.passed = @ \/ b] \in Fetch
        BY DEF Fetch
      <3>3. (/\ fetch[job[kind].row].phase = "read" /\ GoesOn(job[kind].row)
             /\ fetch[job[kind].row].row.stamp < job[kind].at) \in BOOLEAN
        OBVIOUS
      <3> QED
        BY <1>0, <3>1, <3>2, <3>3
    <2> QED
      BY <1>0, <2>1, <2>2, <2>3 DEF TypeOK
  <1>2. Versioned'
    BY DEF TypeOK, Versioned, Row, Stamp
  <1>3. InOrder'
    <2>1. \A k \in JobKinds : job'[k].phase = "written" => job'[k] = job[k]
      BY DEF TypeOK, NoJob
    <2>2. \A q \in Rows : own'[q] <= row'[q].stamp
      BY <1>0 DEF TypeOK, InOrder, Job, Row, Stamp
    <2>3. \A q \in Rows : q # job[kind].row => fetch'[q] \in {fetch[q], NewFetch}
      BY RefetchedTyped DEF TypeOK
    <2>4. LET q == job[kind].row IN
          fetch'[q].phase = "read" /\ ~fetch'[q].passed => own'[q] <= fetch'[q].row.stamp
      <3> DEFINE q == job[kind].row
                 f == Refetched(Invalidates(q))
                 late == /\ fetch[q].phase = "read" /\ GoesOn(q)
                         /\ fetch[q].row.stamp < job[kind].at
      <3>1. f \in [Rows -> Fetch] /\ f[q] \in {fetch[q], NewFetch}
        BY <1>0, RefetchedTyped
      <3>2. ~GoesOn(q) => f[q] = NewFetch
        BY <1>0, RefetchedTyped DEF Invalidates
      <3>3. fetch'[q] = [f[q] EXCEPT !.passed = @ \/ late]
        BY <1>0, <3>1
      <3>4. fetch'[q].phase = f[q].phase /\ fetch'[q].row = f[q].row
        BY <3>1, <3>3 DEF Fetch
      <3>5. fetch'[q].phase = "read" => f[q] = fetch[q] /\ fetch[q].phase = "read" /\ GoesOn(q)
        BY <3>1, <3>2, <3>4 DEF NewFetch
      <3>6. fetch'[q].passed = (f[q].passed \/ late)
        <4>1. "passed" \in DOMAIN f[q]
          BY <1>0, <3>1 DEF Fetch
        <4> QED
          BY <3>3, <4>1, Zenon
      <3>7. fetch'[q].phase = "read" /\ ~fetch'[q].passed =>
                ~fetch[q].passed /\ ~(fetch[q].row.stamp < job[kind].at)
        BY <3>5, <3>6
      <3>8. /\ own[q] \in Nat /\ job[kind].at \in Nat /\ fetch[q].row.stamp \in Nat
            /\ own'[q] \in {own[q], job[kind].at}
        BY <1>0 DEF TypeOK, Job, Fetch, Row, Stamp
      <3>9. fetch[q].phase = "read" /\ ~fetch[q].passed => own[q] <= fetch[q].row.stamp
        BY <1>0 DEF InOrder
      <3> QED
        BY <3>4, <3>5, <3>7, <3>8, <3>9
    <2>5. \A q \in Rows : q # job[kind].row => own'[q] = own[q]
      BY DEF TypeOK
    <2> QED
      BY <1>0, <2>1, <2>2, <2>3, <2>4, <2>5 DEF InOrder, NewFetch
  <1>4. Addressed'
    BY DEF TypeOK, Addressed, Job, Text, NoJob
  <1>5. Seeded'
    <2>1. \A k \in JobKinds : k # kind => job'[k] = job[k]
      BY DEF TypeOK
    <2>2. job'[kind].etag = 0 /\ job'[kind].phase = "settling"
      BY DEF TypeOK, NoJob
    <2> QED
      BY <2>1, <2>2, MarkedTyped DEF TypeOK, Seeded
  <1>6. OwnChangeShown'
    <2>1. data'[job[kind].row].invalid
      BY <1>0, MarkedTyped DEF Invalidates
    <2>2. \A q \in Rows : q # job[kind].row => own'[q] = own[q]
      BY DEF TypeOK
    <2> QED
      BY <2>1, <2>2, MarkedTyped DEF TypeOK, OwnChangeShown
  <1> QED
    BY <1>1, <1>2, <1>3, <1>4, <1>5, <1>6

LEMMA SettledIInv ==
    ASSUME IInv, NEW kind \in JobKinds, Settled(kind)
    PROVE  IInv'
  <1> USE AdminEditingAssumption, TwoKinds DEF IInv, Settled, backend, ghosts
  <1>1. TypeOK'
    <2>1. NoJob \in Job
      BY DEF NoJob, Job, Stamp
    <2>2. [text EXCEPT !.edited = FALSE] \in Text
      BY DEF TypeOK, Text
    <2> QED
      BY <2>1, <2>2 DEF TypeOK
  <1>2. Versioned'
    BY DEF TypeOK, Versioned, Row, Stamp
  <1>3. InOrder'
    BY DEF TypeOK, InOrder, Addressed, Row, Job, Fetch, Stamp, NoJob, NoFetch, NewFetch
  <1>4. Addressed'
    BY DEF TypeOK, Addressed, Job, Text, NoJob
  <1>5. Seeded'
    BY DEF TypeOK, Seeded, Row, Query, Text, Job, Stamp, NoJob, Version, SeededFrom
  <1>6. OwnChangeShown'
    BY DEF TypeOK, InOrder, OwnChangeShown, Row, Query, Fetch, Stamp
  <1> QED
    BY <1>1, <1>2, <1>3, <1>4, <1>5, <1>6

LEMMA RefusedIInv ==
    ASSUME IInv, NEW kind \in JobKinds, Refused(kind)
    PROVE  IInv'
  <1> USE AdminEditingAssumption, TwoKinds DEF IInv, Refused, backend, ghosts
  <1>1. TypeOK'
    BY DEF TypeOK, Row, Query, Text, Fetch, Job, Stamp, NoData, Blank, NoJob, NoFetch, NewFetch
  <1>2. Versioned'
    BY DEF TypeOK, Versioned, Row, Stamp
  <1>3. InOrder'
    BY DEF TypeOK, InOrder, Addressed, Row, Job, Fetch, Stamp, NoJob, NoFetch, NewFetch
  <1>4. Addressed'
    BY DEF TypeOK, Addressed, Job, Text, NoJob
  <1>5. Seeded'
    BY DEF TypeOK, Seeded, Row, Query, Text, Job, Stamp, NoJob, Version, SeededFrom
  <1>6. OwnChangeShown'
    BY DEF TypeOK, InOrder, OwnChangeShown, Row, Query, Fetch, Stamp
  <1> QED
    BY <1>1, <1>2, <1>3, <1>4, <1>5, <1>6

LEMMA LostIInv ==
    ASSUME IInv, NEW kind \in JobKinds, Lost(kind)
    PROVE  IInv'
  <1> USE AdminEditingAssumption, TwoKinds DEF IInv, Lost, backend, ghosts
  <1>1. TypeOK'
    BY DEF TypeOK, Row, Query, Text, Fetch, Job, Stamp, NoData, Blank, NoJob, NoFetch, NewFetch
  <1>2. Versioned'
    BY DEF TypeOK, Versioned, Row, Stamp
  <1>3. InOrder'
    BY DEF TypeOK, InOrder, Addressed, Row, Job, Fetch, Stamp, NoJob, NoFetch, NewFetch
  <1>4. Addressed'
    BY DEF TypeOK, Addressed, Job, Text, NoJob
  <1>5. Seeded'
    BY DEF TypeOK, Seeded, Row, Query, Text, Job, Stamp, NoJob, Version, SeededFrom
  <1>6. OwnChangeShown'
    BY DEF TypeOK, InOrder, OwnChangeShown, Row, Query, Fetch, Stamp
  <1> QED
    BY <1>1, <1>2, <1>3, <1>4, <1>5, <1>6

-----------------------------------------------------------------------------
LEMMA Inductive == IInv /\ [Next]_vars => IInv'
  <1> SUFFICES ASSUME IInv, [Next]_vars PROVE IInv'
    OBVIOUS
  <1>1. ASSUME NEW r \in Rows,
               Select(r) \/ OthersWrite(r) \/ FetchRead(r) \/ FetchOk(r) \/ FetchFail(r)
        PROVE  IInv'
    BY <1>1, SelectIInv, OthersWriteIInv, FetchReadIInv, FetchOkIInv, FetchFailIInv
  <1>2. CASE Type \/ Refetch \/ Save \/ Revert \/ Check
    BY <1>2, TypeIInv, RefetchIInv, SaveIInv, RevertIInv, CheckIInv
  <1>3. ASSUME NEW kind \in JobKinds,
               Write(kind) \/ Answered(kind) \/ Settled(kind) \/ Refused(kind) \/ Lost(kind)
        PROVE  IInv'
    BY <1>3, WriteIInv, AnsweredIInv, SettledIInv, RefusedIInv, LostIInv
  <1>4. CASE UNCHANGED vars
    BY <1>4 DEF vars, backend, ghosts, IInv, TypeOK, Versioned, InOrder, Addressed, Seeded,
                OwnChangeShown
  <1> QED
    BY <1>1, <1>2, <1>3, <1>4 DEF Next

LEMMA Invariance == Spec => []IInv
  BY InitIInv, Inductive, PTL DEF Spec

\* Every state of every execution is well typed (TypeOK).
THEOREM TypeCorrect == Spec => []TypeOK
  <1>1. IInv => TypeOK
    BY DEF IInv
  <1> QED
    BY <1>1, Invariance, PTL

\* Whatever row was open when a change was confirmed, its row is not shown as it was
\* before, unless by a fetch that had read it already and went on.
THEOREM OwnChangesAreShown == Spec => []OwnChangeShown
  <1>1. IInv => OwnChangeShown
    BY DEF IInv
  <1> QED
    BY <1>1, Invariance, PTL

\* Only the write stores, and its comparison found the version its text is from.
LEMMA StepExplained ==
    ASSUME IInv, [Next]_vars,
           form = "content",
           job["save"].phase \in {"sent", "checked"}, job'["save"].phase = "written",
           row[job["save"].row].live
    PROVE  \/ row[job["save"].row].stamp = job["save"].base
           \/ job["save"].etag = 0
           \/ row[job["save"].row].stamp # job["save"].at
  <1> USE TwoKinds DEF IInv
  <1>1. job["save"].row \in Rows /\ row[job["save"].row].stamp > 0
    BY DEF Addressed, Versioned
  <1>2. CASE Write("save")
    BY <1>1, <1>2 DEF Write, Seeded, TypeOK, Job, Row, Stamp
  <1>3. CASE ~Write("save")
    <2>1. job'["save"] = job["save"] \/ job'["save"].phase # "written"
      <3>1. ASSUME NEW r \in Rows,
                   Select(r) \/ OthersWrite(r) \/ FetchRead(r) \/ FetchOk(r) \/ FetchFail(r)
            PROVE  job' = job
        BY <3>1 DEF Select, OthersWrite, FetchRead, FetchOk, FetchFail
      <3>2. CASE Type \/ Refetch \/ UNCHANGED vars
        BY <3>2 DEF Type, Refetch, vars
      <3>3. CASE Save \/ Revert
        BY <3>3 DEF Save, SaveRequest, Revert, Starts, NoJob, TypeOK
      <3>4. CASE Check
        <4>1. job'["save"].phase \in {"refused", "checked"}
          BY <3>4 DEF Check, TypeOK, Job, NoJob
        <4> QED
          BY <4>1
      <3>5. ASSUME NEW kind \in JobKinds,
                   Write(kind) \/ Answered(kind) \/ Settled(kind) \/ Refused(kind) \/ Lost(kind)
            PROVE  job'["save"] = job["save"] \/ job'["save"].phase # "written"
        <4>1. CASE kind = "save"
          BY <1>3, <3>5, <4>1 DEF Answered, Settled, Refused, Lost, NoJob, TypeOK
        <4>2. CASE kind # "save"
          BY <3>5, <4>2 DEF Write, Answered, Settled, Refused, Lost, TypeOK
        <4> QED
          BY <4>1, <4>2
      <3> QED
        BY <3>1, <3>2, <3>3, <3>4, <3>5 DEF Next
    <2> QED
      BY <2>1
  <1> QED
    BY <1>2, <1>3

\* A save that names a version replaces no text its author has not seen, except in
\* the window between the comparison and the write.
THEOREM OverwritesAreExplained == Spec => OverwritesExplained
  <1>1. IInv /\ [Next]_vars =>
          LET save == job["save"] IN
          ((/\ form = "content"
            /\ save.phase \in {"sent", "checked"} /\ job'["save"].phase = "written"
            /\ row[save.row].live)
           => \/ row[save.row].stamp = save.base
              \/ save.etag = 0
              \/ row[save.row].stamp # save.at)
    BY StepExplained
  <1> QED
    BY <1>1, Invariance, PTL DEF Spec, OverwritesExplained
=============================================================================
