----------------------------- MODULE AdminEditing -----------------------------
(***************************************************************************)
(* The four forms with which an administrator changes one row of the       *)
(* backend each: a content block (widgets/admin-content-editor), an email  *)
(* template (widgets/admin-email-templates), the flags and the plan limits *)
(* of a team (widgets/admin-teams-table).                                  *)
(*                                                                         *)
(* A form is seeded from the data of its query whenever that data changes, *)
(* what is typed lives beside it, and a save sends the whole form. Only    *)
(* the content editor says which version it was seeded from (If-Match),    *)
(* and the backend compares it with the row before it writes, in two       *)
(* statements. The answer to a save makes the query fetch the row again,   *)
(* and the save is pending until that is done; a revert is a request of    *)
(* its own. The module follows one administrator, with at most one save    *)
(* and one revert under way; the others change the rows at any moment.     *)
(***************************************************************************)
EXTENDS Naturals

CONSTANTS
    Rows,       \* the locales of a block, the templates, the teams
    NoRow,      \* the text of an editor that was never seeded
    Forms,      \* the forms to look at
    Stored,     \* the rows that exist at first
    MaxChanges  \* bound: the changes of all rows, by anyone

FormKinds == {"content", "template", "flags", "limits"}
JobKinds == {"save", "revert"}

ASSUME AdminEditingAssumption ==
    /\ NoRow \notin Rows
    /\ Forms \subseteq FormKinds
    /\ Stored \subseteq Rows
    /\ MaxChanges \in Nat

VARIABLES
    form,       \* which of the forms this behaviour is about
    row,        \* the rows of the database
    changes,    \* the changes made so far
    sel,        \* the row that is open
    text,       \* what the editor holds
    data,       \* the cached query of each row
    fetch,      \* the fetch of each row
    job,        \* the save and the revert under way
    own,        \* the administrator's newest confirmed change of each row
    raced       \* rows shown from a fetch that a confirmed change has passed

backend == <<row, changes>>
ghosts == <<own, raced>>
vars == <<form, backend, sel, text, data, fetch, job, ghosts>>

Stamp == Nat

\* A row of the database: its updated_at, which tells its changes apart, and the row
\* its text was written for; a reverted row is not live.
Row == [stamp : Stamp, live : BOOLEAN, of : Rows \cup {NoRow}]

\* A query: has data, isInvalidated, isError, and the data of its last success.
Query == [loaded : BOOLEAN, invalid : BOOLEAN, failed : BOOLEAN, row : Row]

\* The text of an editor: the row it was seeded from or typed for, at which
\* version, and whether it was edited since.
Text == [of : Rows \cup {NoRow}, base : Stamp, edited : BOOLEAN]

\* A fetch under way, and whether it goes on with what it read before a change the
\* administrator was told is stored (history).
Fetch == [phase : {"none", "sent", "read"}, row : Row, passed : BOOLEAN]

\* A change on its way: sent, checked against the row (found at version at),
\* written, refused, or answered and waiting for a row to be fetched.
Job == [phase : {"none", "sent", "checked", "written", "refused", "settling"},
        row : Rows \cup {NoRow}, of : Rows \cup {NoRow}, base : Stamp, etag : Stamp,
        at : Stamp, awaits : Rows \cup {NoRow}]

NoData == [stamp |-> 0, live |-> FALSE, of |-> NoRow]
Blank == [of |-> NoRow, base |-> 0, edited |-> FALSE]
NoJob == [phase |-> "none", row |-> NoRow, of |-> NoRow, base |-> 0, etag |-> 0,
          at |-> 0, awaits |-> NoRow]
NoFetch == [phase |-> "none", row |-> NoData, passed |-> FALSE]
NewFetch == [phase |-> "sent", row |-> NoData, passed |-> FALSE]

\* The ETag of a row, none (0) when there is no row.
Version(r) == IF r.live THEN r.stamp ELSE 0

(***************************************************************************)
(* The forms                                                               *)
(***************************************************************************)
\* The content editor stays mounted when another locale is chosen; the others
\* are mounted anew for another template or team.
Keyed == form # "content"

\* The backend has no route for what the limits are asked with.
Routed == form # "limits"

\* Only the content editor sends If-Match, and only when its query has data.
IfMatch(q) == IF form = "content" /\ q.loaded THEN Version(q.row) ELSE 0

\* The other forms show "loading" or an error instead of their fields.
Shown == Keyed => data[sel].loaded /\ ~data[sel].failed

\* What the effect on a change of the data fills the form with, whatever was
\* typed before.
SeededFrom(r) == [of |-> r.of, base |-> Version(r), edited |-> FALSE]

(***************************************************************************)
(* Choosing a row, typing                                                  *)
(***************************************************************************)
Init ==
    /\ form \in Forms
    /\ row = [r \in Rows |->
                 [stamp |-> IF r \in Stored THEN 1 ELSE 0, live |-> r \in Stored, of |-> r]]
    /\ changes = 0
    /\ sel \in Rows
    /\ text = Blank
    /\ data = [r \in Rows |->
                  [loaded |-> FALSE, invalid |-> FALSE, failed |-> FALSE, row |-> NoData]]
    /\ fetch = [r \in Rows |-> IF r = sel THEN NewFetch ELSE NoFetch]
    /\ job = [kind \in JobKinds |-> NoJob]
    /\ own = [r \in Rows |-> 0]
    /\ raced = {}

\* Another row is opened: a query without data, or marked, is fetched, one older
\* than 30 s too. The content editor keeps its text until there is data. A fetch under
\* way goes on, that of the row that was open too.
Select(r) ==
    /\ r # sel
    /\ sel' = r
    /\ text' = IF data[r].loaded THEN SeededFrom(data[r].row)
               ELSE IF Keyed THEN Blank ELSE text
    /\ \E new \in IF data[r].loaded /\ ~data[r].invalid THEN BOOLEAN ELSE {TRUE} :
           fetch' = IF new /\ fetch[r] = NoFetch THEN [fetch EXCEPT ![r] = NewFetch] ELSE fetch
    /\ UNCHANGED <<form, backend, data, job, ghosts>>

Type ==
    /\ Shown /\ ~text.edited
    /\ text' = [text EXCEPT !.of = IF @ = NoRow THEN sel ELSE @, !.edited = TRUE]
    /\ UNCHANGED <<form, backend, sel, data, fetch, job, ghosts>>

(***************************************************************************)
(* The query of the open row                                               *)
(***************************************************************************)
\* (mutant) A fetch under way is taken for the new one, as a query asked for twice
\* is: it may have read the row before the change.
RefetchedJoins(R) ==
    IF sel \in R /\ fetch[sel] = NoFetch THEN [fetch EXCEPT ![sel] = NewFetch] ELSE fetch

\* A fetch of a row that is not open, and the first one, without data to keep, is
\* not started anew when its query is invalidated.
GoesOn(r) == r # sel \/ ~data[r].loaded

\* invalidateQueries fetches the open row, if it is in R; a fetch of it that is under
\* way is started anew.
Refetched(R) ==
    IF sel \notin R \/ (fetch[sel] # NoFetch /\ GoesOn(sel))
    THEN fetch ELSE [fetch EXCEPT ![sel] = NewFetch]

\* invalidateQueries marks every row in R.
Marked(R) == [r \in Rows |-> IF r \in R THEN [data[r] EXCEPT !.invalid = TRUE] ELSE data[r]]

\* The refresh button of the admin page.
Refetch ==
    /\ data' = Marked(Rows)
    /\ fetch' = Refetched(Rows)
    /\ UNCHANGED <<form, backend, sel, text, job, ghosts>>

FetchRead(r) ==
    /\ fetch[r].phase = "sent" /\ Routed
    /\ fetch' = [fetch EXCEPT ![r] = [@ EXCEPT !.phase = "read", !.row = row[r]]]
    /\ UNCHANGED <<form, backend, sel, text, data, job, ghosts>>

\* The data is replaced, and the form filled with it when it differs.
FetchOk(r) ==
    /\ fetch[r].phase = "read"
    /\ data' = [data EXCEPT ![r] =
           [loaded |-> TRUE, invalid |-> FALSE, failed |-> FALSE, row |-> fetch[r].row]]
    /\ text' = IF r # sel \/ (data[r].loaded /\ data[r].row = fetch[r].row)
               THEN text ELSE SeededFrom(fetch[r].row)
    /\ fetch' = [fetch EXCEPT ![r] = NoFetch]
    /\ raced' = IF fetch[r].passed THEN raced \cup {r} ELSE raced \ {r}
    /\ UNCHANGED <<form, backend, sel, job, own>>

\* The fetch and its retry fail; the data stays. The content editor does not look
\* at isError.
FetchFail(r) ==
    /\ fetch[r].phase = "sent"
    /\ fetch' = [fetch EXCEPT ![r] = NoFetch]
    /\ data' = IF Keyed THEN [data EXCEPT ![r] = [@ EXCEPT !.failed = TRUE]] ELSE data
    /\ UNCHANGED <<form, backend, sel, text, job, ghosts>>

(***************************************************************************)
(* Saving and reverting                                                    *)
(***************************************************************************)
\* A save sends the whole form and, from the content editor, the version of the data.
SaveRequest == [NoJob EXCEPT !.phase = "sent", !.row = sel, !.of = text.of,
                             !.base = text.base, !.etag = IfMatch(data[sel])]

Starts(kind, request) ==
    /\ job[kind] = NoJob
    /\ job' = [job EXCEPT ![kind] = request]
    /\ UNCHANGED <<form, backend, sel, text, data, fetch, ghosts>>

\* (mutant) The text is sent without being parsed: an empty editor is stored.
SaveUnparsed ==
    /\ Shown
    /\ form = "template" => text.edited
    /\ Starts("save", SaveRequest)

\* Publish is always enabled, and so is "reset all" of the flags and limits; a
\* template must have been edited. An empty editor is no JSON.
Save ==
    /\ Shown
    /\ text.of # NoRow
    /\ form = "template" => text.edited
    /\ Starts("save", SaveRequest)

\* A content block or template that has a row is reverted to the default.
Revert ==
    /\ Shown
    /\ form \in {"content", "template"}
    /\ data[sel].loaded /\ data[sel].row.live
    /\ Starts("revert", [NoJob EXCEPT !.phase = "sent", !.row = sel])

\* A row is written, or deleted.
Store(r, live, of) ==
    /\ changes < MaxChanges
    /\ changes' = changes + 1
    /\ row' = [row EXCEPT ![r] = [stamp |-> @.stamp + 1, live |-> live, of |-> of]]

\* (mutant) The version is compared with the one the client named only when the row
\* is older than it.
CheckOlder ==
    /\ job["save"].phase = "sent" /\ job["save"].etag # 0
    /\ LET r == row[job["save"].row] IN
       job' = [job EXCEPT !["save"] =
           IF r.live /\ r.stamp < @.etag THEN [NoJob EXCEPT !.phase = "refused"]
           ELSE [@ EXCEPT !.phase = "checked", !.at = Version(r)]]
    /\ UNCHANGED <<form, backend, sel, text, data, fetch, ghosts>>

\* Upsert compares the row's version with the one the client names; a row that
\* was reverted meanwhile passes.
Check ==
    /\ job["save"].phase = "sent" /\ job["save"].etag # 0
    /\ LET r == row[job["save"].row] IN
       job' = [job EXCEPT !["save"] =
           IF r.live /\ r.stamp # @.etag THEN [NoJob EXCEPT !.phase = "refused"]
           ELSE [@ EXCEPT !.phase = "checked", !.at = Version(r)]]
    /\ UNCHANGED <<form, backend, sel, text, data, fetch, ghosts>>

\* The second statement: insert or update, or delete.
Write(kind) ==
    /\ job[kind].phase = "checked" \/ (job[kind].phase = "sent" /\ job[kind].etag = 0)
    /\ Routed
    /\ \/ kind = "save" /\ Store(job[kind].row, TRUE, job[kind].of)
       \/ kind = "revert" /\ row[job[kind].row].live /\ Store(job[kind].row, FALSE, job[kind].row)
    /\ job' = [job EXCEPT ![kind] =
           [NoJob EXCEPT !.phase = "written", !.row = job[kind].row, !.at = row'[job[kind].row].stamp]]
    /\ UNCHANGED <<form, sel, text, data, fetch, ghosts>>

\* The queries an answer invalidates: the templates' list has a key that begins
\* those of all templates.
Invalidates(r) == IF form = "template" THEN Rows ELSE {r}

\* onSuccess: the queries are invalidated; the change is pending until the open row
\* is fetched, when it is one of them.
Answered(kind) ==
    LET r == job[kind].row IN
    /\ job[kind].phase = "written"
    /\ data' = Marked(Invalidates(r))
    /\ fetch' = [Refetched(Invalidates(r)) EXCEPT ![r].passed =
                    @ \/ (/\ fetch[r].phase = "read" /\ GoesOn(r)
                          /\ fetch[r].row.stamp < job[kind].at)]
    /\ job' = [job EXCEPT ![kind] = [NoJob EXCEPT !.phase = "settling",
                  !.awaits = IF sel \in Invalidates(r) THEN sel ELSE NoRow]]
    /\ own' = [own EXCEPT ![r] = IF job[kind].at > @ THEN job[kind].at ELSE @]
    /\ UNCHANGED <<form, backend, sel, text, raced>>

\* The content editor takes what it holds for saved, whatever row is open now.
Settled(kind) ==
    /\ job[kind].phase = "settling"
    /\ job[kind].awaits # NoRow => fetch[job[kind].awaits] = NoFetch
    /\ job' = [job EXCEPT ![kind] = NoJob]
    /\ text' = IF form = "content" /\ kind = "save" THEN [text EXCEPT !.edited = FALSE] ELSE text
    /\ UNCHANGED <<form, backend, sel, data, fetch, ghosts>>

\* A conflict (412) or another error is shown, the text stays.
Refused(kind) ==
    /\ \/ job[kind].phase = "refused"
       \/ job[kind].phase = "sent" /\ kind = "revert" /\ ~row[job[kind].row].live
    /\ job' = [job EXCEPT ![kind] = NoJob]
    /\ UNCHANGED <<form, backend, sel, text, data, fetch, ghosts>>

\* The request or its answer is lost: an error as well, and nothing is fetched.
Lost(kind) ==
    /\ job[kind].phase \in {"sent", "written"}
    /\ job' = [job EXCEPT ![kind] = NoJob]
    /\ UNCHANGED <<form, backend, sel, text, data, fetch, ghosts>>

\* Another administrator changes a row.
OthersWrite(r) ==
    /\ Store(r, TRUE, r) \/ (row[r].live /\ Store(r, FALSE, r))
    /\ UNCHANGED <<form, sel, text, data, fetch, job, ghosts>>

Next ==
    \/ \E r \in Rows : 
        \/ Select(r) \/ OthersWrite(r)
        \/ FetchRead(r) \/ FetchOk(r) \/ FetchFail(r)
    \/ Type
    \/ Refetch
    \/ Save \/ Revert
    \/ Check
    \/ \E kind \in JobKinds :
        \/ Write(kind)
        \/ Answered(kind) \/ Settled(kind) \/ Refused(kind) \/ Lost(kind)

Spec == Init /\ [][Next]_vars

(***************************************************************************)
(* Properties                                                              *)
(***************************************************************************)
\* A row is always stored with a text written for some row: an empty editor is
\* not sent (doSave, content-block-editor.tsx:103-108).
TypeOK ==
    /\ form \in Forms
    /\ row \in [Rows -> Row]
    /\ \A r \in Rows : row[r].of # NoRow
    /\ changes \in 0 .. MaxChanges
    /\ sel \in Rows
    /\ text \in Text
    /\ data \in [Rows -> Query]
    /\ fetch \in [Rows -> Fetch]
    /\ job \in [JobKinds -> Job]
    /\ own \in [Rows -> Stamp]
    /\ raced \subseteq Rows

\* A content block's text is never replaced by a save whose author has not seen
\* it, unless the save named no version (there was no row, or no data yet) or
\* another change came between the comparison and the write. This is what
\* If-Match and the comparison in Upsert are for.
OverwritesExplained == [][
    LET save == job["save"] IN
    (/\ form = "content"
     /\ save.phase \in {"sent", "checked"} /\ job'["save"].phase = "written"
     /\ row[save.row].live)
    => \/ row[save.row].stamp = save.base
       \/ save.etag = 0
       \/ row[save.row].stamp # save.at]_vars

\* An administrator who was told that a change is stored, whatever row was open by
\* then, does not go on looking at what was there before: the row's query has the
\* change, or is marked and fetched when it is opened next, or comes from a fetch
\* that had read the row already and went on, because the row was not open or had
\* no data yet (the library starts only the others anew, and takes the old
\* answer for fresh).
OwnChangeShown == \A r \in Rows :
    own[r] > data[r].row.stamp => data[r].invalid \/ r \in raced

\* "Reset editor when slug/locale or backing detail changes": what is saved for a
\* row was written for it.  Spec refutes it: the content editor keeps the text of
\* the locale it showed until the next one's data is there.
RowsDoNotMix == \A r \in Rows : row[r].of = r

\* "keep the unsaved JSON in memory so the admin can hit Save again after
\* refreshing": text typed into a loaded editor is still there after a refresh.
\* Spec refutes it: the effect fills the editor with the data that came.
UnsavedSurvivesRefresh == [][
    (/\ form = "content" /\ text.edited /\ data[sel].loaded
     /\ job["save"] = NoJob /\ job["revert"] = NoJob /\ sel' = sel)
    => text'.edited]_vars

=============================================================================
