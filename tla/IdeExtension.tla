---------------------------- MODULE IdeExtension ----------------------------
(***************************************************************************)
(* The VS Code extension (ide-vscode/src/extension.ts): it counts edits    *)
(* and focus time in buckets, and every flush makes one event of each      *)
(* bucket and sends them, with the queue of earlier failures, to the       *)
(* desktop agent on this machine or else to the backend.                   *)
(*                                                                         *)
(* The extension runs on one thread, but a flush awaits the network, and   *)
(* the interval, the retry timer and the user start further flushes        *)
(* meanwhile.  Each took its own copy of the queue, and each writes the    *)
(* whole queue back.  The buckets are memory; the queue is kept by VS Code *)
(* (globalState), which is taken to keep what it is given at once.         *)
(***************************************************************************)
EXTENDS Integers, Sequences, FiniteSets

CONSTANTS
    Flushes,          \* bound: flushes under way at a time
    Activities,       \* text changes and stretches of focus
    PasteThreshold,   \* eop.pasteThresholdChars, in insertions of one size
    MaxQueueSize,     \* MAX_QUEUE_SIZE
    MaxRetryAttempts, \* MAX_RETRY_ATTEMPTS
    MaxToken,         \* bound: how often the editor is paired
    EventFields,      \* what the agent's local API requires of an event
    Inputs,           \* bound: what the user does, a subset of
                      \* {"focus", "large", "delete", "pause", "blur", "logout",
                      \*  "verbose", "close"}
    Faults            \* subset of {"network", "timeout", "revoke", "rotate", "store"}

ASSUME IdeExtensionAssumption ==
    /\ PasteThreshold \in Nat \ {0} /\ MaxQueueSize \in Nat \ {0}
    /\ MaxRetryAttempts \in Nat /\ MaxToken \in Nat
    /\ Inputs \subseteq
         {"focus", "large", "delete", "pause", "blur", "logout", "verbose", "close"}
    /\ Faults \subseteq {"network", "timeout", "revoke", "rotate", "store"}

VARIABLES
    window,       \* "open", "closing" (deactivate has returned) or "closed"
    focused, paused,
    buckets,      \* the units counted since the last flush
    burst,        \* the insertions of the burst under way
    queue,        \* eop.queue in globalState
    flush,        \* the flush in each slot
    token,        \* eop.api_token in the secret storage, 0 = none
    revoked,      \* tokens the backend no longer takes
    authRequired, retryAttempt,
    retryTimer,   \* is it set
    localToken,   \* cachedLocalToken
    status,       \* what the status bar shows
    seen,         \* activities that have happened
    recorded,     \* units ever counted
    delivered,    \* how often each unit was stored: 0, 1 or 2 (= many)
    discarded,    \* units given up: queue full, 401, 4xx, retries exhausted
    doubted,      \* units stored by a request that failed
    shared,       \* units under way while a second flush was
    killed,       \* units in the memory of an extension host that stopped
    unpushed      \* units the agent accepted and could not store

stored   == <<queue, retryAttempt>>
edits    == <<buckets, burst, seen, recorded>>
session  == <<token, revoked, authRequired, status>>
ghosts   == <<delivered, discarded, doubted, shared, killed, unpushed>>
vars     == <<window, focused, paused, flush, retryTimer, localToken,
              stored, edits, session, ghosts>>

Categories == {"manual", "ai", "refactor", "other"}

\* What one activity adds to the bucket of a category.  A bucket is its units,
\* an event is a bucket; languages are left out.
Units == Categories \X Activities
Events == SUBSET Units

\* What an event of this extension has.
EventPayload == {"app_bundle", "category", "source", "ai_provider", "ai_channel",
                 "file_lang", "duration_ms", "chars_in", "lines_added", "lines_removed"}

\* A flush, taken: the backend took its token when the request went out.
Flush == [at : {"free", "local", "cloud", "settle"}, events : Seq(Events),
          token : 0 .. MaxToken, taken : BOOLEAN, retries : BOOLEAN, resets : BOOLEAN]

Free == [at |-> "free", events |-> <<>>, token |-> 0, taken |-> FALSE,
         retries |-> FALSE, resets |-> FALSE]

UnitsOf(events) == UNION {events[n] : n \in DOMAIN events}

Underway == {f \in Flushes : flush[f].at # "free"}

Held == buckets \cup UnitsOf(queue) \cup UNION {UnitsOf(flush[f].events) : f \in Flushes}

\* The receiver stores the events.
Store(events) ==
    LET copies(u) == Cardinality({n \in DOMAIN events : u \in events[n]})
    IN  delivered' = [u \in Units |-> IF delivered[u] + copies(u) > 2 THEN 2
                                      ELSE delivered[u] + copies(u)]

\* The agent's parser (core/event.rs) rejects an event without its fields.
AgentParses == EventFields \subseteq EventPayload

\* readLocalAgentToken: what was read once is kept, a missing file as well.
LocalTokenRead == IF localToken = "unread" THEN {"missing", "current"} ELSE {localToken}

\* handle of the local API: each event is pushed on its own, and a push that
\* fails is only logged.
AgentStores(events) ==
    \E kept \in IF "store" \in Faults THEN SUBSET DOMAIN events ELSE {DOMAIN events} :
        /\ Store([n \in kept |-> events[n]])
        /\ unpushed' = unpushed \cup UnitsOf([n \in DOMAIN events \ kept |-> events[n]])

TypeOK ==
    /\ window \in {"open", "closing", "closed"}
    /\ {focused, paused, authRequired, retryTimer} \subseteq BOOLEAN
    /\ buckets \in Events /\ burst \subseteq Activities
    /\ queue \in Seq(Events) /\ Len(queue) <= MaxQueueSize
    /\ flush \in [Flushes -> Flush]
    /\ token \in 0 .. MaxToken /\ revoked \subseteq 1 .. MaxToken
    /\ retryAttempt \in 0 .. MaxRetryAttempts
    /\ localToken \in {"unread", "missing", "stale", "current"}
    /\ status \in {"idle", "sending", "auth-required", "paused"}
    /\ seen \subseteq Activities
    /\ delivered \in [Units -> 0 .. 2]
    /\ discarded \cup doubted \cup shared \cup killed \cup unpushed \subseteq recorded
    /\ recorded \in Events

-----------------------------------------------------------------------------
(* Starting, the status bar and the account.                                *)

\* renderStatus.
Rendered(tok, required, pause) ==
    IF tok = 0 \/ required THEN "auth-required"
    ELSE IF pause THEN "paused" ELSE "idle"

Init ==
    /\ window = "open" /\ focused = TRUE /\ paused = FALSE
    /\ buckets = {} /\ burst = {} /\ queue = <<>>
    /\ flush = [f \in Flushes |-> Free]
    /\ token = 0 /\ revoked = {} /\ authRequired = FALSE
    /\ retryAttempt = 0 /\ retryTimer = FALSE
    /\ localToken = "unread"
    /\ status = "auth-required"
    /\ seen = {} /\ recorded = {}
    /\ delivered = [u \in Units |-> 0]
    /\ discarded = {} /\ doubted = {} /\ shared = {} /\ killed = {} /\ unpushed = {}

\* activate of a window opened again: the variables of the module start anew.
Activate ==
    /\ window = "closed"
    /\ window' = "open" /\ focused' = TRUE
    /\ authRequired' = FALSE /\ retryAttempt' = 0 /\ localToken' = "unread"
    /\ status' = Rendered(token, FALSE, paused)
    /\ UNCHANGED <<paused, flush, retryTimer, queue, edits, token, revoked, ghosts>>

\* The extension host stops: the end of a window, whose flush nobody awaits.
\* The receiver may yet store what was on its way.
HostStops ==
    /\ window = "closing"
    /\ window' = "closed"
    /\ killed' = killed \cup (Held \ UnitsOf(queue))
    /\ \/ UNCHANGED <<delivered, doubted, unpushed>>
       \/ \E f \in Flushes :
            /\ "timeout" \in Faults
            /\ \/ flush[f].at = "cloud" /\ flush[f].taken
                  /\ Store(flush[f].events) /\ UNCHANGED unpushed
               \/ /\ flush[f].at = "local" /\ "current" \in LocalTokenRead /\ AgentParses
                  /\ AgentStores(flush[f].events)
            /\ doubted' = doubted \cup UnitsOf(flush[f].events)
    /\ buckets' = {} /\ burst' = {}
    /\ flush' = [f \in Flushes |-> Free]
    /\ retryTimer' = FALSE
    /\ UNCHANGED <<focused, paused, localToken, stored, seen, recorded, session,
                   discarded, shared>>

SetPaused ==
    /\ "pause" \in Inputs /\ window = "open"
    /\ paused' = ~paused
    /\ status' = Rendered(token, authRequired, paused')
    /\ UNCHANGED <<window, focused, flush, retryTimer, localToken, stored, edits,
                   token, revoked, authRequired, ghosts>>

WindowFocus ==
    /\ "blur" \in Inputs /\ window = "open"
    /\ focused' = ~focused
    /\ UNCHANGED <<window, paused, flush, retryTimer, localToken, stored, edits, session, ghosts>>

\* The end of pairCmd, when a poll brings the token.
Pair ==
    /\ window = "open"
    /\ \E t \in 1 .. MaxToken \ revoked : t > token /\ token' = t
    /\ authRequired' = FALSE
    /\ status' = Rendered(token', authRequired', paused)
    /\ UNCHANGED <<window, focused, paused, flush, retryTimer, localToken, stored, edits,
                   revoked, ghosts>>

LogoutCmd ==
    /\ "logout" \in Inputs /\ window = "open" /\ token # 0
    /\ token' = 0 /\ authRequired' = FALSE
    /\ status' = Rendered(0, FALSE, paused)
    /\ UNCHANGED <<window, focused, paused, flush, retryTimer, localToken, stored, edits,
                   revoked, ghosts>>

\* The device is revoked in the dashboard.
Revoke ==
    /\ "revoke" \in Faults
    /\ \E t \in 1 .. MaxToken \ revoked : t <= token /\ revoked' = revoked \cup {t}
    /\ UNCHANGED <<window, focused, paused, flush, retryTimer, localToken, stored, edits,
                   token, authRequired, status, ghosts>>

\* The agent is installed anew and writes another token file.
RotateLocalToken ==
    /\ "rotate" \in Faults /\ localToken = "current"
    /\ localToken' = "stale"
    /\ UNCHANGED <<window, focused, paused, flush, retryTimer, stored, edits, session, ghosts>>

-----------------------------------------------------------------------------
(* Counting.                                                                *)

AddToBucket(units) ==
    /\ buckets' = buckets \cup units
    /\ recorded' = recorded \cup units

Counting(a) ==
    /\ window = "open" /\ ~paused /\ focused
    /\ a \in Activities \ seen /\ seen' = seen \cup {a}
    /\ UNCHANGED <<window, focused, paused, flush, retryTimer, localToken, stored, session, ghosts>>

\* onChange, an insertion or a replacement over the threshold.
LargeChange(a) ==
    /\ "large" \in Inputs
    /\ Counting(a)
    /\ \E c \in {"ai", "refactor"} : AddToBucket({<<c, a>>})
    /\ burst' = {}

\* onChange, a small insertion: the first of a burst is typing, the following
\* are counted when the whole burst has reached the threshold.
SmallChange(a) ==
    /\ Counting(a)
    /\ \/ \* more than BURST_WINDOW_MS since the burst began, or there is none
          /\ burst' = {a}
          /\ AddToBucket({<<"manual", a>>})
       \/ /\ burst # {}
          /\ LET b == burst \cup {a}
             IN  \/ /\ Cardinality(b) >= PasteThreshold
                    /\ AddToBucket({"ai"} \X b)
                    /\ burst' = {}
                 \/ /\ Cardinality(b) < PasteThreshold
                    /\ burst' = b
                    /\ UNCHANGED <<buckets, recorded>>

\* onChange, a pure deletion: typing, whatever burst is under way.
Deletion(a) ==
    /\ "delete" \in Inputs
    /\ Counting(a)
    /\ AddToBucket({<<"manual", a>>})
    /\ UNCHANGED burst

\* flushFocus: the stretch of focus since the last call, if it took a second.
FocusTime ==
    {{}} \cup IF "focus" \in Inputs THEN {{<<"other", a>>} : a \in Activities \ seen} ELSE {}

\* Another editor becomes active, or a document is saved.
FlushFocus ==
    /\ window = "open"
    /\ \E units \in FocusTime \ {{}} :
          AddToBucket(units) /\ seen' = seen \cup {u[2] : u \in units}
    /\ UNCHANGED <<window, focused, paused, flush, retryTimer, localToken, burst, stored,
                   session, ghosts>>

-----------------------------------------------------------------------------
(* flushAll.                                                                *)

\* One event of each bucket.
BucketsToEvents(units) ==
    LET of(c) == {u \in units : u[1] = c}
        one(c) == IF of(c) = {} THEN <<>> ELSE <<of(c)>>
    IN  one("manual") \o one("ai") \o one("refactor") \o one("other")

\* (mutant) the queue is not capped
Uncapped(q) == q

\* slice(-MAX_QUEUE_SIZE): the newest stay.
Newest(q) == SubSeq(q, 1 + IF Len(q) > MaxQueueSize THEN Len(q) - MaxQueueSize ELSE 0, Len(q))

SaveQueue(q) == queue' = Newest(q)

Overflow(q) == UnitsOf(q) \ UnitsOf(Newest(q))

\* flushAll up to its first await, with the buckets as flushFocus leaves them:
\* they are emptied, and the queue is read but not.
FlushAll(verbose) ==
    /\ \E units \in FocusTime :
         LET all    == buckets \cup units
             events == queue \o BucketsToEvents(all)
         IN  /\ recorded' = recorded \cup units
             /\ seen' = seen \cup {u[2] : u \in units}
             /\ \/ /\ paused \/ (~verbose /\ ~focused)
                   /\ buckets' = all
                   /\ UNCHANGED <<flush, shared>>
                \/ /\ ~paused /\ (verbose \/ focused)
                   /\ buckets' = {}
                   /\ IF events = <<>> THEN UNCHANGED <<flush, shared>> ELSE
                      \E f \in Flushes \ Underway :
                         /\ flush' = [flush EXCEPT ![f] =
                                        [Free EXCEPT !.at = "local", !.events = events]]
                         /\ shared' = IF Underway = {} THEN shared
                                      ELSE shared \cup UnitsOf(events)
                                             \cup UNION {UnitsOf(flush[g].events) : g \in Underway}
    /\ UNCHANGED <<focused, paused, localToken, burst, stored, session,
                   delivered, discarded, doubted, killed, unpushed>>

\* The interval of flushIntervalSec.
Interval == window = "open" /\ FlushAll(FALSE) /\ UNCHANGED <<window, retryTimer>>

RetryTimer ==
    /\ window = "open" /\ retryTimer
    /\ retryTimer' = FALSE
    /\ FlushAll(FALSE)
    /\ UNCHANGED window

\* The command eop.flush.
FlushCmd ==
    /\ "verbose" \in Inputs /\ window = "open"
    /\ FlushAll(TRUE)
    /\ UNCHANGED <<window, retryTimer>>

\* The window closes.
Deactivate ==
    /\ "close" \in Inputs /\ window = "open"
    /\ FlushAll(FALSE)
    /\ window' = "closing"
    /\ UNCHANGED retryTimer

GiveUp(units) == discarded' = discarded \cup units

Going(f, task) == flush' = [flush EXCEPT ![f] = task]

\* Another request has been answered: the queue is overwritten, and what is
\* left to do comes after the await.
Settle(task, retries, resets) ==
    [task EXCEPT !.at = "settle", !.events = <<>>, !.token = 0, !.taken = FALSE,
                 !.retries = retries, !.resets = resets]

\* (mutant) what was sent stays in the queue
KeepSent(events) == events

\* The queue after the events have been taken.
Remaining(events) == <<>>

\* trySendToLocalAgent is answered 200 within 1.5 s.
LocalAgentOk(f) ==
    /\ flush[f].at = "local"
    /\ AgentParses
    /\ "current" \in LocalTokenRead /\ localToken' = "current"
    /\ AgentStores(flush[f].events)
    /\ SaveQueue(Remaining(flush[f].events))
    /\ Going(f, Settle(flush[f], FALSE, TRUE))
    /\ status' = "sending"
    /\ UNCHANGED <<window, focused, paused, retryTimer, retryAttempt, edits,
                   token, revoked, authRequired, discarded, doubted, shared, killed>>

\* (mutant) a flush without a token leaves its events
Forgotten(events) == queue

\* What a flush that cannot send puts back.
Unsent(events) == events

\* The request to the backend.
Request(f) ==
    [flush[f] EXCEPT !.at = "cloud", !.token = token, !.taken = token \notin revoked]

\* The token read after the agent has failed: none, or the request goes out.
ToCloud(f) ==
    \/ /\ token = 0
       /\ SaveQueue(Unsent(flush[f].events)) /\ GiveUp(Overflow(Unsent(flush[f].events)))
       /\ Going(f, Free)
       /\ status' = IF localToken' = "missing" THEN status ELSE "sending"
    \/ /\ token # 0
       /\ Going(f, Request(f))
       /\ status' = "sending"
       /\ UNCHANGED <<queue, discarded>>

\* trySendToLocalAgent returns false: no token file, a token the agent does
\* not know, no connection, events it cannot parse, or no answer in time.
LocalAgentFails(f) ==
    /\ flush[f].at = "local"
    /\ \E t \in LocalTokenRead :
         /\ localToken' = IF t = "stale" THEN "unread" ELSE t
         /\ t = "current" => "network" \in Faults \/ ~AgentParses
         /\ \/ UNCHANGED <<delivered, doubted, unpushed>>
            \/ /\ t = "current" /\ AgentParses /\ "timeout" \in Faults
               /\ AgentStores(flush[f].events)
               /\ doubted' = doubted \cup UnitsOf(flush[f].events)
    /\ ToCloud(f)
    /\ UNCHANGED <<window, focused, paused, retryTimer, retryAttempt, edits,
                   token, revoked, authRequired, shared, killed>>

\* The answer 200: the backend has stored the events.  It did so some time
\* before, perhaps before the token was revoked, and nothing here could tell; a
\* store whose answer is lost is in CloudRetryable and HostStops.
CloudOk(f) ==
    /\ flush[f].at = "cloud" /\ flush[f].taken
    /\ Store(flush[f].events)
    /\ authRequired' = FALSE /\ retryAttempt' = 0
    /\ SaveQueue(Remaining(flush[f].events))
    /\ Going(f, Settle(flush[f], FALSE, FALSE))
    /\ UNCHANGED <<window, focused, paused, retryTimer, localToken, edits,
                   token, revoked, status, discarded, doubted, shared, killed, unpushed>>

\* 401: a token revoked before the backend read it, or a token it could not look
\* up (auth/middleware.go:35-41).  The request whose token was taken and revoked
\* since may be answered either way.
CloudUnauthorized(f) ==
    /\ flush[f].at = "cloud"
    /\ flush[f].token \in revoked \/ "network" \in Faults
    /\ authRequired' = TRUE
    /\ SaveQueue(<<>>) /\ GiveUp(UnitsOf(flush[f].events))
    /\ Going(f, Settle(flush[f], FALSE, FALSE))
    /\ UNCHANGED <<window, focused, paused, retryTimer, localToken, retryAttempt, edits,
                   token, revoked, status, delivered, doubted, shared, killed, unpushed>>

\* 429, 5xx, or an error after which the backend may have stored the events.
CloudRetryable(f) ==
    /\ flush[f].at = "cloud" /\ "network" \in Faults
    /\ \/ UNCHANGED <<delivered, doubted>>
       \/ /\ "timeout" \in Faults /\ flush[f].taken
          /\ Store(flush[f].events)
          /\ doubted' = doubted \cup UnitsOf(flush[f].events)
    /\ SaveQueue(Unsent(flush[f].events)) /\ GiveUp(Overflow(Unsent(flush[f].events)))
    /\ Going(f, Settle(flush[f], TRUE, FALSE))
    /\ UNCHANGED <<window, focused, paused, retryTimer, localToken, retryAttempt, edits,
                   session, shared, killed, unpushed>>

\* Another 4xx: the events are dropped.  flushAll returns in the try, so that
\* the finally renders the status here too.
CloudRefused(f) ==
    /\ flush[f].at = "cloud" /\ "network" \in Faults
    /\ SaveQueue(<<>>) /\ GiveUp(UnitsOf(flush[f].events))
    /\ Going(f, Settle(flush[f], FALSE, FALSE))
    /\ UNCHANGED <<window, focused, paused, retryTimer, localToken, retryAttempt, edits,
                   session, delivered, doubted, shared, killed, unpushed>>

\* (mutant) a failed attempt is not counted
SameAttempt(attempt) == attempt

NextAttempt(attempt) == attempt + 1

ScheduleRetry ==
    LET attempt == NextAttempt(retryAttempt)
    IN  \/ /\ attempt > MaxRetryAttempts
           /\ SaveQueue(<<>>) /\ GiveUp(UnitsOf(queue))
           /\ retryAttempt' = 0
           /\ UNCHANGED retryTimer
        \/ /\ attempt <= MaxRetryAttempts
           /\ retryAttempt' = attempt /\ retryTimer' = TRUE
           /\ UNCHANGED <<queue, discarded>>

\* (mutant) the status bar stays as it was
StatusKept(required) == status

\* renderStatus at the end of a flush.
StatusAfter(required) == Rendered(token, required, paused)

\* What flushAll does after the queue is saved, to its end.
AfterSave(f) ==
    LET task == flush[f]
    IN  /\ task.at = "settle"
        /\ IF task.retries THEN ScheduleRetry
           ELSE /\ retryAttempt' = IF task.resets THEN 0 ELSE retryAttempt
                /\ UNCHANGED <<queue, retryTimer, discarded>>
        /\ authRequired' = (authRequired /\ ~task.resets)
        /\ status' = StatusAfter(authRequired')
        /\ Going(f, Free)
        /\ UNCHANGED <<window, focused, paused, localToken, edits, token, revoked,
                       delivered, doubted, shared, killed, unpushed>>

Step(f) ==
    /\ window # "closed"
    /\ \/ LocalAgentOk(f) \/ LocalAgentFails(f)
       \/ CloudOk(f) \/ CloudUnauthorized(f) \/ CloudRetryable(f) \/ CloudRefused(f)
       \/ AfterSave(f)

Next ==
    \/ \E a \in Activities : LargeChange(a) \/ SmallChange(a) \/ Deletion(a)
    \/ FlushFocus
    \/ Interval \/ RetryTimer \/ FlushCmd
    \/ \E f \in Flushes : Step(f)
    \/ SetPaused \/ WindowFocus \/ Pair \/ LogoutCmd
    \/ Deactivate \/ HostStops \/ Activate
    \/ Revoke \/ RotateLocalToken

Spec == Init /\ [][Next]_vars

\* A request ends, and the interval always comes again (strongly fair: it never
\* finds every slot taken for good).
FairSpec ==
    /\ Spec
    /\ \A f \in Flushes : WF_vars(Step(f))
    /\ SF_vars(Interval)

-----------------------------------------------------------------------------
(* Properties.                                                              *)

\* Whatever was counted is held, was stored or was given up on purpose; what
\* is lost was in the memory of a host that stopped, under way while a second
\* flush was, which then overwrote the queue (extension.ts:253-337), or reported
\* as accepted by an agent that could not store it (local_api.rs:106-117).
NothingVanishes ==
    recorded \subseteq Held \cup {u \in Units : delivered[u] > 0} \cup discarded
                         \cup killed \cup shared \cup unpushed

\* Stored twice: only after a request whose outcome the extension could not
\* know, or by two flushes that took the same queue (extension.ts:263-270).
DuplicatesExplained ==
    \A u \in Units : delivered[u] > 1 => u \in doubted \cup shared

\* The status bar never looks well while the editor has to be paired again:
\* whatever pairings and commands overlap, "idle" and "paused" mean that there is a
\* token and that no refusal is outstanding, and that only while no flush is
\* between its answer and its last line.  A refusal is no longer outstanding once
\* another request, of the agent too, is answered well, or the editor is paired,
\* logged out or opened again (extension.ts:270-276, 324-329, 462-477); and a
\* status bar may warn for no reason.
StatusWarns ==
    (/\ window = "open" /\ status \in {"idle", "paused"}
     /\ \A f \in Flushes : flush[f].at # "settle")
        => token # 0 /\ ~authRequired

\* "... the local HTTP API ... through which the browser extension and the
\* VS Code plugin can deliver events to the agent's buffer" (local_api.rs:1-3, in
\* Russian): with a token of the agent and no failure, no flush turns to the
\* backend.  Spec refutes it when EventFields is what the agent requires.
AgentFirst == \A f \in Flushes : flush[f].at = "cloud" => localToken # "current"

\* What is held is stored in the end, or given up after MAX_RETRY_ATTEMPTS,
\* however often the backend fails, unless the user pauses, turns to another
\* window, closes this one or is not paired (extension.ts:253-353).
EventsLeave ==
    \A u \in Units :
        u \in Held ~> \/ u \notin Held \/ delivered[u] > 0
                     \/ paused \/ ~focused \/ token = 0 \/ window # "open"
=============================================================================
