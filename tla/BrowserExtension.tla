-------------------------- MODULE BrowserExtension --------------------------
(***************************************************************************)
(* The service worker of the browser extension                             *)
(* (browser-extension/src/entrypoints/background.ts): it measures how long *)
(* a site has the focus, queues an event when the focus moves on, and      *)
(* sends the queue to the backend.                                         *)
(*                                                                         *)
(* All of its state is one value in chrome.storage.local.  A handler       *)
(* changes it with mutate: it reads the value, awaits, and writes a        *)
(* changed copy.  Handlers run at the same time, so a write may be based   *)
(* on a value that another handler has replaced since.  The browser may    *)
(* stop the worker at any time: what is under way is then gone.            *)
(***************************************************************************)
EXTENDS Integers, Sequences, FiniteSets, SequencesExt

CONSTANTS
    Handlers,        \* bound: event handlers under way at a time
    Items,           \* focus episodes and AI copies, each one event at most
    NoItem,
    MaxBuffer,       \* MAX_BUFFER_SIZE
    MaxAttempts,     \* MAX_RETRY_ATTEMPTS
    Inputs,          \* bound: what happens, a subset of
                     \* {"focus", "close", "copy", "pause", "unpair", "flush"}
    Faults           \* subset of {"network", "timeout", "terminate"}

ASSUME BrowserExtensionAssumption ==
    /\ NoItem \notin Items
    /\ MaxBuffer \in Nat \ {0}
    /\ MaxAttempts \in Nat
    /\ Inputs \subseteq {"focus", "close", "copy", "pause", "unpair", "flush"}
    /\ Faults \subseteq {"network", "timeout", "terminate"}

VARIABLES
    store,      \* eop_state in chrome.storage.local
    paired,     \* is eop_token set
    retryAlarm, \* is the alarm retry-flush set
    handler,    \* the handler in each slot
    seen,       \* items that were ever the focus or a copy
    recorded,   \* items ever queued
    delivered,  \* how often the backend stored each item: 0, 1 or 2 (= many)
    discarded,  \* items given up: cap, retries exhausted, no token, 4xx
    doubted,    \* items the backend stored in a request that failed
    overtaken,  \* items erased by a write based on an older value
    killed,     \* items in the memory of a worker that was stopped
    shared,     \* items that two flushes had in their batches at a time
    revived,    \* items brought back by a write based on an older value
    outrun,     \* focus handlers past their check when a pause was written
    slipped     \* items one of those made the focus

\* How the present state came about.
history == <<overtaken, killed, shared, revived, outrun, slipped>>

ghosts == <<delivered, discarded, doubted, history>>

vars == <<store, paired, retryAlarm, handler, seen, recorded, ghosts>>

StoredState == [current : Items \cup {NoItem}, buffer : Seq(Items),
                retryQueue : Seq(Items), retryAttempts : 0 .. MaxAttempts,
                paused : BOOLEAN]

Empty == [current |-> NoItem, buffer |-> <<>>, retryQueue |-> <<>>,
          retryAttempts |-> 0, paused |-> FALSE]

Changes == {"focus", "close", "copy", "pause", "resume", "clear", "sent",
            "exhausted", "putback"}

\* at: the next await of the handler; change: the mutate under way; read: the
\* value it has read; batch and attempts: the locals of flush.
Handler == [at : {"free", "check", "get", "set", "flush", "ingest", "request"},
            change : Changes, read : StoredState, batch : Seq(Items),
            attempts : 0 .. MaxAttempts, flushes : BOOLEAN]

Free == [at |-> "free", change |-> "close", read |-> Empty, batch |-> <<>>,
         attempts |-> 0, flushes |-> FALSE]

Queued(s) == ToSet(s.buffer) \cup ToSet(s.retryQueue)

Places(s) == Queued(s) \cup ({s.current} \ {NoItem})

InMemory == UNION {ToSet(handler[h].batch) : h \in Handlers}

TypeOK ==
    /\ store \in StoredState
    /\ Len(store.buffer) <= MaxBuffer /\ Len(store.retryQueue) <= MaxBuffer
    /\ paired \in BOOLEAN /\ retryAlarm \in BOOLEAN
    /\ handler \in [Handlers -> Handler]
    /\ recorded \subseteq seen /\ seen \subseteq Items
    /\ delivered \in [Items -> 0 .. 2]
    /\ discarded \cup doubted \cup overtaken \cup killed \cup shared \subseteq recorded
    /\ revived \cup slipped \subseteq seen
    /\ outrun \subseteq Handlers

Init ==
    /\ store = Empty
    /\ paired = FALSE /\ retryAlarm = FALSE
    /\ handler = [h \in Handlers |-> Free]
    /\ seen = {} /\ recorded = {}
    /\ delivered = [i \in Items |-> 0]
    /\ discarded = {} /\ doubted = {} /\ overtaken = {} /\ killed = {}
    /\ shared = {} /\ revived = {} /\ outrun = {} /\ slipped = {}

-----------------------------------------------------------------------------
(* What the handlers start with.                                            *)

Start(h, task) ==
    /\ handler[h].at = "free"
    /\ handler' = [handler EXCEPT ![h] = task]
    /\ UNCHANGED <<store, paired, retryAlarm, seen, recorded, ghosts>>

Mutate(change) == [Free EXCEPT !.at = "get", !.change = change]

\* Bound: a focus or a copy begins only while there is an item left for it.
ItemLeft ==
    Cardinality({h \in Handlers : handler[h].change \in {"focus", "copy"}})
        < Cardinality(Items \ seen)

\* handleFocus with the URL of a site: a tab is activated, navigates, or its
\* window gets the focus.
HandleFocus(h) ==
    /\ "focus" \in Inputs /\ ItemLeft
    /\ Start(h, [Free EXCEPT !.at = "check", !.change = "focus"])

\* closeCurrent: another kind of page, no window has the focus, or the user
\* is idle.
CloseCurrent(h) == "close" \in Inputs /\ Start(h, Mutate("close"))

\* The content script reports a copy from an AI site.
HandleAiCopy(h) ==
    /\ "copy" \in Inputs /\ ItemLeft
    /\ Start(h, [Free EXCEPT !.at = "check", !.change = "copy"])

\* The popup's pause button.
SetPaused(h, change) == "pause" \in Inputs /\ Start(h, Mutate(change))

\* The alarm of every 30 s, and the popup's flush-now message.
FlushAlarm(h) ==
    "flush" \in Inputs /\ Start(h, [Mutate("close") EXCEPT !.flushes = TRUE])

\* The alarm a failed flush sets.
RetryAlarm(h) ==
    /\ retryAlarm /\ handler[h].at = "free"
    /\ retryAlarm' = FALSE
    /\ handler' = [handler EXCEPT ![h] = [Free EXCEPT !.at = "flush"]]
    /\ UNCHANGED <<store, paired, seen, recorded, ghosts>>

\* setConfig at the end of a pairing, clearConfig on the options page.
SetConfig ==
    /\ ~paired \/ "unpair" \in Inputs
    /\ paired' = ~paired
    /\ UNCHANGED <<store, retryAlarm, handler, seen, recorded, ghosts>>

-----------------------------------------------------------------------------
(* mutate, and the checks before it.                                        *)

\* handleFocus returns when paused, and when the host has not changed;
\* handleAiCopy returns when paused.
Check(h) ==
    LET change == handler[h].change
    IN  /\ handler[h].at = "check"
        /\ \/ /\ store.paused \/ (change = "focus" /\ store.current # NoItem)
              /\ handler' = [handler EXCEPT ![h] = Free]
           \/ /\ ~store.paused
              /\ handler' = [handler EXCEPT ![h] = Mutate(change)]
        /\ UNCHANGED <<store, paired, retryAlarm, seen, recorded, ghosts>>

Get(h) ==
    /\ handler[h].at = "get"
    /\ handler' = [handler EXCEPT ![h].at = "set", ![h].read = store]
    /\ UNCHANGED <<store, paired, retryAlarm, seen, recorded, ghosts>>

\* finalizeCurrent: a focus of less than a second leaves no event.
Finalized(s) ==
    {s} \cup IF s.current = NoItem THEN {}
             ELSE {[s EXCEPT !.buffer = Append(@, s.current)]}

\* (mutant) the pause leaves the current focus
PausingOnly(s) == [s EXCEPT !.paused = TRUE]

\* set-paused with paused = true.
Pausing(s) == [s EXCEPT !.paused = TRUE, !.current = NoItem]

\* (mutant) only the attempt is noted
PutBackCount(s, task) == [s EXCEPT !.retryAttempts = task.attempts]

\* A failed batch goes before what other flushes have put back.
PutBack(s, task) ==
    [s EXCEPT !.retryQueue = task.batch \o @, !.retryAttempts = task.attempts]

\* (mutant) the retry queue is not cleared
ClearedBuffer(s) == [s EXCEPT !.buffer = <<>>]

\* Both queues are cleared before the batch is sent.
Cleared(s) == [s EXCEPT !.buffer = <<>>, !.retryQueue = <<>>]

\* The functions given to mutate.
Changed(s, task, item) ==
    CASE task.change = "focus"   -> {[f EXCEPT !.current = item] : f \in Finalized(s)}
      [] task.change = "close"   -> {[f EXCEPT !.current = NoItem] : f \in Finalized(s)}
      [] task.change = "copy"    -> {[s EXCEPT !.buffer = Append(@, item)]}
      [] task.change = "pause"   -> {Pausing(s)}
      [] task.change = "resume"  -> {[s EXCEPT !.paused = FALSE]}
      [] task.change = "clear"   -> {Cleared(s)}
      [] task.change = "putback" -> {PutBack(s, task)}
      [] OTHER                   -> {[s EXCEPT !.retryAttempts = 0]}

\* (mutant) the queues are not capped
Uncapped(q) == q

\* slice(-MAX_BUFFER_SIZE): the newest stay.
Newest(q) == SubSeq(q, 1 + IF Len(q) > MaxBuffer THEN Len(q) - MaxBuffer ELSE 0, Len(q))

Capped(s) == [s EXCEPT !.buffer = Newest(@), !.retryQueue = Newest(@)]

\* Where a handler goes on after its mutate.
After(task) ==
    IF task.change = "clear" THEN [task EXCEPT !.at = "ingest", !.read = Empty]
    ELSE IF task.flushes THEN [Free EXCEPT !.at = "flush"] ELSE Free

\* A write erases what other handlers queued since its read, and the write of
\* flush that clears the queues also erases what was queued since its batch.
Erased(task) ==
    IF task.change = "clear" THEN Queued(store) \ ToSet(task.batch)
    ELSE Queued(store) \ Queued(task.read)

\* It also brings back what has left the store since its read.
BroughtBack(task) ==
    ((Places(task.read) \ Places(store)) \cap Places(store'))
        \cup (({task.read.current} \cap {store'.current}) \ {store.current, NoItem})

\* The focus handlers that will not see a pause written now.
PastCheck(h) ==
    {g \in Handlers \ {h} : handler[g].change = "focus" /\ handler[g].at \in {"get", "set"}}

Set(h) ==
    LET task == handler[h]
    IN  /\ task.at = "set"
        /\ \E item \in IF task.change \in {"focus", "copy"} THEN Items \ seen ELSE {NoItem} :
           \E next \in Changed(task.read, task, item) :
              /\ store' = Capped(next)
              /\ seen' = seen \cup ({item} \ {NoItem})
              /\ recorded' = recorded \cup Queued(next)
              /\ discarded' = discarded \cup (Queued(next) \ Queued(Capped(next)))
              /\ slipped' = slipped \cup (IF task.change = "focus" /\ h \in outrun
                                         THEN {item} ELSE {})
              /\ outrun' = (outrun \ {h}) \cup (IF next.paused THEN PastCheck(h) ELSE {})
        /\ overtaken' = overtaken \cup Erased(task)
        /\ revived' = revived \cup BroughtBack(task)
        /\ retryAlarm' = (retryAlarm \/ task.change = "putback")
        /\ handler' = [handler EXCEPT ![h] = After(task)]
        /\ UNCHANGED <<paired, delivered, doubted, killed, shared>>

-----------------------------------------------------------------------------
(* flush.                                                                   *)

\* (mutant) the batch leaves out the retry queue
NewOnly(s) == s.buffer

\* The retry queue first.
Batch(s) == s.retryQueue \o s.buffer

\* What the other flushes have in their batches.
OthersBatches(h) == UNION {ToSet(handler[g].batch) : g \in Handlers \ {h}}

\* flush up to the mutate that clears the queues.
Flush(h) ==
    /\ handler[h].at = "flush"
    /\ \/ /\ store.paused \/ Queued(store) = {}
          /\ handler' = [handler EXCEPT ![h] = Free]
          /\ UNCHANGED shared
       \/ /\ ~store.paused /\ Queued(store) # {}
          /\ handler' = [handler EXCEPT ![h] =
                [Mutate("clear") EXCEPT !.batch = Batch(store),
                                        !.attempts = store.retryAttempts]]
          /\ shared' = shared \cup (ToSet(Batch(store)) \cap OthersBatches(h))
    /\ UNCHANGED <<store, paired, retryAlarm, seen, recorded, delivered, discarded, doubted,
                   overtaken, killed, revived, outrun, slipped>>

GiveUp(batch) == discarded' = discarded \cup ToSet(batch)

\* ingest answers no-token: the batch is dropped.
NoToken(h) ==
    /\ handler[h].at = "ingest" /\ ~paired
    /\ GiveUp(handler[h].batch)
    /\ handler' = [handler EXCEPT ![h] = Free]
    /\ UNCHANGED <<store, paired, retryAlarm, seen, recorded, delivered, doubted, history>>

\* The request goes out with the token of now, whatever becomes of that.
Request(h) ==
    /\ handler[h].at = "ingest" /\ paired
    /\ handler' = [handler EXCEPT ![h].at = "request"]
    /\ UNCHANGED <<store, paired, retryAlarm, seen, recorded, ghosts>>

\* The backend stores the batch.
Stored(batch) ==
    LET copies(i) == Cardinality({n \in DOMAIN batch : batch[n] = i})
    IN  delivered' = [i \in Items |-> IF delivered[i] + copies(i) > 2 THEN 2
                                      ELSE delivered[i] + copies(i)]

\* ingest answers ok.
IngestOk(h) ==
    /\ handler[h].at = "request"
    /\ Stored(handler[h].batch)
    /\ handler' = [handler EXCEPT ![h] = Mutate("sent")]
    /\ UNCHANGED <<store, paired, retryAlarm, seen, recorded, discarded, doubted, history>>

\* ingest answers client-error: the batch is dropped.
IngestRefused(h) ==
    /\ handler[h].at = "request"
    /\ "network" \in Faults
    /\ GiveUp(handler[h].batch)
    /\ handler' = [handler EXCEPT ![h] = Free]
    /\ UNCHANGED <<store, paired, retryAlarm, seen, recorded, delivered, doubted, history>>

\* (mutant) a failed attempt is not counted
SameAttempts(task) == task.attempts

\* From the state flush has read, not the present one.
NextAttempts(task) == task.attempts + 1

\* ingest answers retry-later: a 401, 429 or 5xx, or no answer within 15 s,
\* when the backend may have stored the batch.
IngestRetryLater(h) ==
    LET task     == handler[h]
        attempts == NextAttempts(task)
    IN  /\ task.at = "request"
        /\ "network" \in Faults
        /\ \/ UNCHANGED <<delivered, doubted>>
           \/ "timeout" \in Faults /\ Stored(task.batch) /\ doubted' = doubted \cup ToSet(task.batch)
        /\ \/ /\ attempts > MaxAttempts
              /\ GiveUp(task.batch)
              /\ handler' = [handler EXCEPT ![h] = Mutate("exhausted")]
           \/ /\ attempts <= MaxAttempts
              /\ handler' = [handler EXCEPT ![h] =
                    [Mutate("putback") EXCEPT !.batch = task.batch, !.attempts = attempts]]
              /\ UNCHANGED discarded
        /\ UNCHANGED <<store, paired, retryAlarm, seen, recorded, history>>

\* The browser stops the worker: every handler is gone with its locals.
Terminate ==
    /\ "terminate" \in Faults
    /\ \E h \in Handlers : handler[h].at # "free"
    /\ killed' = killed \cup (InMemory \ Queued(store))
    /\ handler' = [h \in Handlers |-> Free]
    /\ outrun' = {}
    /\ UNCHANGED <<store, paired, retryAlarm, seen, recorded, delivered, discarded, doubted,
                   overtaken, shared, revived, slipped>>

Step(h) ==
    \/ Check(h) \/ Get(h) \/ Set(h) \/ Flush(h) \/ NoToken(h) \/ Request(h)
    \/ IngestOk(h) \/ IngestRefused(h) \/ IngestRetryLater(h)

Next ==
    \/ \E h \in Handlers :
          \/ HandleFocus(h) \/ CloseCurrent(h) \/ HandleAiCopy(h)
          \/ SetPaused(h, "pause") \/ SetPaused(h, "resume")
          \/ FlushAlarm(h) \/ RetryAlarm(h)
          \/ Step(h)
    \/ SetConfig
    \/ Terminate

Spec == Init /\ [][Next]_vars

\* A handler that has begun goes on, and the periodic alarm always comes
\* again (strongly fair: it never finds every slot taken for good).
FairSpec ==
    /\ Spec
    /\ \A h \in Handlers : WF_vars(Step(h))
    /\ SF_vars(\E h \in Handlers : FlushAlarm(h))

-----------------------------------------------------------------------------
(* Properties.                                                              *)

Held == Queued(store) \cup InMemory

\* An event leaves the extension for a reason: delivered or given up, or, the
\* price of the unlocked read-modify-write, overtaken by another handler's
\* write or in memory when the worker was stopped.
LossExplained ==
    recorded \subseteq Held \cup {i \in Items : delivered[i] > 0} \cup discarded
                         \cup overtaken \cup killed

\* "events are not lost when offline beyond the session" (background.ts:6-8,
\* in Russian): an event is held, delivered or given up on purpose.
NothingVanishes ==
    recorded \subseteq Held \cup {i \in Items : delivered[i] > 0} \cup discarded

\* An event reaches the backend twice only after a request whose outcome the
\* extension could not know.
DuplicatesExplained == \A i \in Items : delivered[i] > 1 => i \in doubted

\* With overlapping handlers there are two more ways: two flushes took the event
\* into their batches before either had cleared the queues, or a write based on
\* an older value brought back what had left the store (background.ts:62-73,
\* 265-278).
DuplicatesTraced ==
    \A i \in Items : delivered[i] > 1 => i \in doubted \cup shared \cup revived

\* "Tracking paused." (popup.json:20): while paused no site has the focus, so
\* that no time is measured.  Spec refutes it with two handlers, without faults.
PausedStopsTracking == store.paused => store.current = NoItem

\* What the code keeps of it: a site has the focus during a pause only when its
\* handler had looked at the state before the pause was written; handleFocus
\* does not look again in the mutate that sets the focus (background.ts:203-211).
PausedTracksOnlySlipped ==
    store.paused /\ store.current # NoItem => store.current \in slipped

\* Retries end: a queued event leaves the extension (sent, or given up after
\* MAX_RETRY_ATTEMPTS) unless the user pauses (background.ts:40, 292-316).
EventsLeave == \A i \in Items : i \in Held ~> (i \notin Held \/ store.paused)
=============================================================================
