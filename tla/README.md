# A TLA+ model of Eye of Providence

Eye of Providence measures how developers spend their time.  Clients (a desktop
agent, a browser extension, a VS Code extension, a git hook) record activity
events and send them to a backend (Go, Postgres, ClickHouse, Redis), which
attributes, aggregates and shows them.  Clients are often offline, are stopped
at any moment, and are paired with an account through a short handshake.  The
hard part of the program is that events and tokens survive all of this, and this
project is about that part first.

All paths below are relative to `src/`; `ingest.rs` etc. without a directory are
in `agent/src-tauri/src/core/`.

## 1. Inventory

### Clients

| Component | State | Operations | Correct when |
|---|---|---|---|
| **Outbox** (`store.rs`) | SQLite table `event_buffer`: id, created_at, lease_until, encrypted payload | push, lease_batch, commit, release, gc | rows leave only when delivered, refused or purged |
| **Ingest pump** (`ingest.rs`, started in `lib.rs`) | one task: phase, leased batch, backoff; waits for a timer or a wake-up | tick: read credentials, lease, POST, commit or release; wait | at-least-once delivery; duplicates only after an attempt in doubt; resumes when a good token arrives |
| **Credentials** (`auth.rs`, commands in `lib.rs`) | token, user id in the OS keyring | pair_begin, pair_poll, persist_pairing, logout, wake | a token handed out is stored or accounted for |
| **Watcher** (`watcher.rs`) | application in focus, accumulated time, keys and clicks | a tick per poll interval, idle, clipboard | focus time is neither lost nor counted twice |
| **Local API** (`local_api.rs`) | none | accept events of IDE plugins into the outbox | the answer tells what was stored |
| **Encryption** (`crypto.rs`) | AES key in the keyring or a file | open_or_init, seal, open | rows stay readable |
| **Agent UI** (`agent/src/`) | pairing wizard, status | begin, poll, cancel, refresh | the wizard ends and tells the truth |
| **Browser extension** (`browser-extension/src/entrypoints/background.ts`) | one value in `chrome.storage.local`: current focus, buffer, retry queue, attempts, paused | focus, close, copy, pause, flush, retry | events are delivered or given up on purpose; nothing is measured while paused |
| **VS Code extension** (`ide-vscode/src/extension.ts`) | change buckets, queue in globalState, retry timer, cached local token | onChange, flushAll, scheduleRetry, pairing | as for the browser; local agent or cloud, not both |
| **Dashboard: session** (`dashboard/src/shared`, `entities/session`, `entities/user`, `pages/auth-complete`, `widgets/app-shell`) | user and token in `localStorage`, shared by all tabs; route and query data of each tab | sign in, handoff, change password, delete, log out, redirects, storage events | no tab shows a user who is not signed in; user and token belong together |
| **Dashboard: admin forms** (`widgets/admin-*`) | what is typed, the query it was seeded from | seed, type, save, revert | nobody's change is overwritten unseen; a saved change is shown |
| **Dashboard: queries** (`entities/*/api/req.ts`, `shared/config/query-client.ts`) | one cache of query data per tab | fetch, mutate, invalidate | what counts as fresh has the user's own changes |
| **Dashboard: service worker** (`dashboard/public/sw.js`) | caches of the shell and of hashed assets | install, activate, fetch | the shell that is served finds its assets |
| **eop-hook** (`backend/cmd/eop-hook`) | none | one commit report per git hook | - |

### Backend (`backend/internal/`)

| Component | State | Operations | Correct when |
|---|---|---|---|
| **ingest** | - | validate, stamp the user id, insert into ClickHouse | 2xx means stored or refused for good |
| **devices** | `pairing_codes`, `api_tokens` | PairBegin, Poll, Claim, List, Revoke | a plaintext token is handed to its device, once, and does not linger |
| **attribution** | `worker_state`, `attribution_events` | one tick: window, classify, insert, advance | each event is attributed; gaps and duplicates have a cause |
| **auth** | users, identities, passkeys, tokens, reset codes, token_version | login, refresh, reset, link and unlink, delete account | an account keeps a way to log in; a reset ends old sessions |
| **sso** | login state, provider configuration | begin, callback, provision | a state is used once |
| **teams** | teams, members, invites, projects, limits | create, invite, accept, change role, remove, administer | a team keeps an owner; capacity and invite uses are respected |
| **plans** | plan limits, overrides, flags | limits, patch | no override is lost |
| **webhooks** | hooks, a semaphore, goroutines under way | CRUD, dispatch with four attempts, shutdown | delivery is attempted as documented; shutdown waits |
| **store**, **cache** | ClickHouse `events`, Redis | insert, query, delete user data, invalidate | no stale answer after a deletion |
| **anomaly**, **anomalyapp** | notified anomalies (memory) | periodic scan | each anomaly is notified once |
| **reports** | reports table | weekly cron, generate | one report per period |
| **content** | texts, cache | read, edit | readers see the edit |
| **analytics**, **insights**, **publicapi** | - | read-only queries | - |
| **mailer**, **push**, **prcomment** | templates, subscriptions | one outgoing call each | - |
| **audit**, **metrics**, **log**, **httperr** | append-only | record, format | - |
| **config**, **migrate**, **app**, `cmd/*` | - | start-up | - |

The pages of the dashboard, its marketing pages and documents, and the pages of
the extension are views of the backend's API.

### Who talks to whom

    watcher, local API --push--> outbox --lease--> pump --POST /v1/ingest--> backend
    IDE plugin --> local API (or, failing that, the backend)
    browser extension --POST /v1/ingest--> backend
    wizard --begin, poll--> devices <--claim-- dashboard;  wizard --> keyring --wake--> pump
    backend ingest --> ClickHouse events <-- attribution worker --> attribution_events
    attribution worker <--> Postgres worker_state
    dashboard tab <--localStorage, storage events--> dashboard tab
    page --query--> cache --fetch--> backend;  page --mutation--> backend --invalidate--> cache
    admin form --save with or without If-Match--> content, templates, flags, limits

The outbox is behind a mutex; the pump reads the token anew for each tick, so
pairing and logout change it under a running request.  The extension's handlers
share one stored value without a lock.  The worker spans two databases without a
transaction.  The flushes of the VS Code extension each take a copy of one queue
and write the whole queue back.  The tabs of the dashboard share one session, and
every mutation of it changes what other queries show.

### What is hard

* a request whose outcome the client does not know: timeouts, late arrivals, an
  insert that fails after writing;
* stops and restarts between any two steps of the pump, the worker and the
  extension's handlers;
* wake-ups sent while nobody waits; credentials that change under a request;
* values read, then awaited upon, then written back;
* polls that overlap, answers that carry the only copy of a secret;
* answers, 401s among them, to requests of a session that is over;
* forms and caches that hold what the database had a moment ago.

PROJECT.json lists each hazard at its line, with the properties that would catch
it going wrong, or with the reason why none does yet.

## 2. Modules

| Module | Models |
|---|---|
| `EventDelivery` | abstract: at-least-once delivery with refusals and purges |
| `IngestPump` | outbox, pump, credentials and the backend's ingest endpoint; implements `EventDelivery` |
| `AttributionWorker` | the attribution worker with its two stores |
| `DevicePairing` | the wizards of the agent and the browser, the editor's loop, keyring, `devices` |
| `BrowserExtension` | the extension's service worker |
| `IdeExtension` | the VS Code extension and the agent's local API |
| `DashboardSession` | the session, the tabs that share it, redirects and the onboarding wizard |
| `AdminEditing` | the four forms that edit a row others edit too, and the backend's comparison |
| `QueryCache` | the query cache with mutations and fetches under way; its tables are constants |
| `DashboardQueries` | those tables: what each query reads, each mutation changes and invalidates, each page shows and offers |
| `...Proofs` | theorems about the module each is named after |
| `MC...` | instances for TLC, with their symmetry sets |

Definitions marked `(mutant)` are faulty variants of the definition that follows
them.  They are used nowhere; substituting one for its original shows that the
property it belongs to can fail.

### IngestPump

`rows` is the table, a function from row ids to `[age, lease, readable]`.  Times
are relative to now, so that the clock needs no bound.  `pc` is the phase of the
pump task: `tick` (read credentials), `lease`, `inflight` (request under way),
`settle` (tick over), `waiting` (backoff, poll interval or wake-up only,
according to `outcome`).  One action per step between two awaits:

* `Push`, `Gc`, `LeaseBatch`, `Commit`, `Release` are the operations of
  `store.rs`; each holds the connection mutex, hence one action.
* `Answered2xx`, `Answered401`, `AnsweredRetryable`, `AnsweredClientError`,
  `NetworkError`, `SettleFails` are the arms of `tick`, with what they do to the
  rows; `StartWait`, `Timer`, `Notify` are the loop in `spawn` and `WakeUp`.
* `PersistPairing`, `Logout` change the token and owe a `Notify`.
* `ServerAccepts`, `ServerUnauthorized`, `ServerUnavailable` (with or without
  the insert), `ServerRefuses` are the backend; `LateArrival` is a request the
  agent gave up on that arrives after all.
* `Restart` kills the process: leases, rows and token survive, the encryption
  key may not.

`stored`, `refused`, `purged` and `ambiguous` are history: what the backend has,
what it refused, what the agent deleted unsent, and which events went through an
attempt that ended without being settled.

### DevicePairing

`codes` are rows of `pairing_codes`; `polls` holds up to `Slots` polls under way,
each with the step it is at.  `Poll` is two actions (`PollReads`, `PollAnswers`)
since the code reads and clears the plaintext in two statements; `Claim` is one,
because the row is locked.  `client` says who pairs:

* `agent`: `PollReturns` is the Rust command `pair_poll`, which writes the keyring
  before the wizard hears of the answer; `Refresh` is the page that re-renders
  every 3 s and makes the wizard deaf to polls already sent;
* `browser`: the wizard stores the token itself, so an answer that finds it closed
  takes the token with it, and only a token ends it;
* `ide`: `pairCmd` polls in a loop of one request at a time.

`handed` counts the answers that took a token out of its row, `dropped` has the
tokens whose last copy was lost.  One wizard per client: a popup and an options
page that pair together, or two `pairCmd` loops, are left out.  Requests end, and
`chrome.storage.local.set` succeeds.

### AttributionWorker

`ReadPosition`/`StartOver`, `Fetch`, `insertAttribution`, `writePosition` are the
four calls of `tick`, each with its failures (`StartOver` is what any error of
`readPosition` leads to), and `Crash` between any two.  `Ingest` stores an event
under any timestamp at any time.  The rest is history.  An event is passed by for one
of four reasons, each with a variable: it came after its window was read (`late`), it
was older than the lookback when the worker first started (`before`), a failed read of
the position made the worker start over ahead of it (`jumped`, which takes a position
that could not be moved for longer than the lookback), or its window held more than
the batch limit (`cut`).  `doubtful` are the events that a tick may have inserted and
will read again.  Which category `classify`
gives an event is left out: one row is inserted per event whatever it says.

### BrowserExtension

`store` is the stored value.  A handler is a record in one of `Handlers` slots;
`mutate` is two actions, `Get` and `Set`, and the check that precedes it in
`handleFocus` and `handleAiCopy` is a third.  `flush` is `Flush` (read the
queues), a mutate that clears them, `NoToken` or `Request` (the token is read when
the request goes out, whatever pairing says by the time of the answer),
`IngestOk`/`IngestRefused`/`IngestRetryLater`, and a mutate for the outcome.
`Terminate` ends every handler with its locals.  The history tells what goes wrong
when nothing is locked: `overtaken` are events erased by a write based on an older
value, `revived` events such a write brought back, `shared` events that two flushes
had in their batches at a time, `killed` events in memory when the worker was stopped,
and `slipped` sites that got the focus from a handler whose check was older than the
pause (`outrun`).  All of them happen.

### IdeExtension

`buckets` are the units counted since the last flush (a unit is what one activity
adds to one category), `burst` the insertions not yet counted, `queue` what
`globalState` keeps.  `flush` holds up to `Flushes` flushes under way, each with
its own copy of the events: `FlushAll` takes buckets and queue, `LocalAgentOk` and
`LocalAgentFails` are the 1.5 s the agent is given, `CloudOk`, `CloudUnauthorized`,
`CloudRetryable` and `CloudRefused` the backend, `AfterSave` what follows the
write of the queue.  A flush starts from the interval, the retry timer, the
command, or a window that closes; nothing keeps two from overlapping.  `Request`
decides with which token a request goes out and whether the backend takes it
(`taken`), so that an answer may come after the device was revoked; storing and
answering are one step, since nothing the extension does comes between them.
`Deletion` counts as typing, whatever burst is under way.  `StatusAfter`
is the status bar with its own rules of what hides what.  `AgentStores` is the
agent's local API: each event is pushed on its own, failures are only logged, the
answer is 200 all the same.  `EventFields`, what the agent's parser requires, is a
constant: with the fields of `event.rs` the parser refuses every batch of this
extension (section 5), so the runs about the agent's half use an empty set.
`delivered`, `discarded`, `doubted`, `shared`, `killed` and `unpushed` are
history.

### DashboardSession

`user` and `token` are `localStorage`; `notice` says that a storage event is on
its way to a tab, and only to the tabs that did not write.  `view` is the user a
tab last rendered with: a tab that changes the session itself learns of it only
where the code calls `notifySessionChange` or renders anyway.  `job` is the
sign-in or account request of a tab and remembers the token it was sent under,
`request` a query.  The effects are actions: `NotAuthed`, `NoTeams`, `WizardDone`,
`AlreadyIn`.  `emitAuthFailed` is the interceptor, which clears the session on any
401.  Password and email changes, OAuth handoff (`ReturnFromProvider`,
`HandoffToken`, `HandoffMe`, `HandoffFails`, the last also when `/v1/me` cannot be
reached with a good token), reloads, revocation, deletion and
the loss of a team are actions of their own; passkeys, registration and password
reset end in the same `setSession` as `LoginOk`.

### AdminEditing

`form` picks one of the four forms for a behaviour; they differ in what they send
(`IfMatch`), in whether another row remounts them (`Keyed`), in whether they
can revert, and in which queries they invalidate (`Invalidates`: the key of the
templates' list begins those of all templates).  The form for limits never has data,
because the backend has no route of the name it asks for (`Routed`).  `row` is the
table with the number of each row's last change, `text` what the editor holds and
which row and version it was seeded from.  A save is `Save`, `Check`, `Write`,
`Answered`, `Settled`: the backend compares in one statement and writes in the next,
and `OthersWrite` may come between any two.  A revert is the same without a
comparison, and may be under way beside a save (`job` has one of each; a keyed form
that is mounted anew could start another, a named bound).  `own` is history: the
newest change of each row its author was told is stored, whatever row was open by
then.  The library starts the fetch of an invalidated query anew only when its row is
open and has data; any other goes on (`GoesOn`), and what it read before the change
(`passed`) counts as fresh when it arrives (`raced`).
The dashboard and the API are taken to share an origin: the backend's CORS rules
(`backend/cmd/api/main.go:124-125`) allow neither PUT nor If-Match.

### QueryCache and DashboardQueries

`QueryCache` follows one query, whichever it is, through the pages the user opens
and the mutations started on them.  `cache.lacks` and `fetch.lacks` are the
mutations whose change the data does not have; `fetch.waits` the mutations whose
`onSuccess` awaits the fetch.  The rules of the library that matter are in it: a
fetch under way serves whoever asks next, `invalidateQueries` restarts the fetch
of a query that is shown, and marks one that is not.  `DashboardQueries` has one
table entry for each query, mutation and page of the dashboard; the parts of the
database a query reads come from the backend's statements, what is invalidated
from each hook's `onSuccess`.  `NotInvalidated` lists the changes no hook
invalidates; the run shows that the list is complete.  What the backend has no route
for (section 5) changes nothing: two mutations are always refused, and the query and
the mutation of plan overrides are not in the tables.

## 3. Runs

| Run | Question | Bounds |
|---|---|---|
| `pump_faults` | Do network, SQLite and restart faults with two tokens lose or duplicate events without cause? Does the pump implement `EventDelivery`? | 2 events, one of them invalid, batches of 2, one late request |
| `pump_drains` | Do rows leave the outbox when faults recover? | 2 events, batches of 1 |
| `attribution_faults` | Gaps or duplicates without one of the known causes? Does the worker jump ahead only after an outage? Is every event attributed, or passed by for a known reason? | 3 events, 3 instants, limit 2 |
| `pairing_faults` | Can a minted token vanish without cause, or come back once taken? Does the wizard end, and truthfully? | each client; 2 codes, 1 token, 2 polls at a time, all faults |
| `extension_alone` | One handler at a time: does anything vanish, are duplicates explained, do retries end? | 3 events, queues of 2, 2 attempts |
| `extension_overlaps` | Two handlers at a time and a worker that is stopped: is every loss and every duplicate explained, who can have the focus during a pause, do the caps hold? | 1 site, queues of 1, 1 attempt |
| `ide_flush` | One flush at a time: does the status bar warn, do events leave? | 1 activity, queue of 1, 2 retries, 2 tokens, the agent's real parser |
| `ide_overlaps` | Two flushes at a time, a window that closes, an agent that fails to store: are losses and duplicates explained? | 2 activities, queue of 1, 1 retry, an agent that parses |
| `session_faults` | Do crossing requests leave half a session, an uninformed tab, or part user and token without cause? | 2 tabs, 2 accounts, 3 tokens |
| `session_ends` | Does every tab leave when the session ends and go on when one begins? | 2 tabs, 1 newcomer, 1 token |
| `editing_faults` | Are overwrites explained, is an own change shown, whatever row is open? | each form; 2 rows that exist at first, 2 changes |
| `query_cache` | Does fresh data have the user's own changes? | every query and page; any mutation, with a second of two kinds |

Every property has a mutant in PROJECT.json: a plausible mistake in the code that
the run would find.

The bounds let every interesting case happen.  Two events make a batch that is
refused in part, split by a restart or overlapping a late request (`pump_drains`
has batches of one, so that the limit cuts); the third event of
`attribution_faults` is the one its limit cuts off.  Two polls, two handlers, two
flushes, two tabs or two mutations at a time are what it takes for a check and an
act to be separated.  `LeaseSecs = 0` and `GcAge = 0` mean that a lease ends and a
row is old after one `ClockTick`; the code only compares times, so longer ones
add states and no behaviour.  Two tokens allow the token to change under a
request; in `pairing_faults` one is enough, since a code mints one token and the
two codes compete for it.  `extension_overlaps` makes do with one site, which is
measured, queued, sent, put back, overwritten and brought back, because each of these
concerns one event and two handlers; what holds for more events is proved.  Copies and
closing windows reach the queue through the same mutate as a focus and a pause, and
`timeout`, a batch stored although its request failed, is a cause of duplicates of its
own: `extension_alone` has all of them.
`ide_flush` has every input but closing the window, which ends every promise
of delivery, and `ide_overlaps` has that one.  Three tokens in `session_faults`
are the two of one user before and after a change of password, and one of another
user.  In `editing_faults` the rows exist at first, so that two changes are one by
somebody else and the form's own, or a save and a revert; a row that does not exist
comes from a revert.  In `query_cache` the second mutation is one
with a control per row (revoke a token), so that it may run beside itself, or one
with a single control (create a project); the first is any of the dashboard's.

### Fairness

* Pump: its task, its timers, a request (which ends after 10 s at the latest),
  the notify of a UI command and time are weakly fair.  Users owe nothing: they
  need not pair, and nobody restarts anything.  `RecoveringSpec` adds that what
  is retried for ever succeeds in the end.
* Wizard: time, the page's timers and requests; a step of a poll still listened
  to is strongly fair, since a re-render sends a new poll at once and answers do
  arrive between two re-renders.  The editor looks at its clock in every turn of
  its loop, hence strong fairness of `TimesOut`.
* Worker: `Run` arms its timer after every tick whatever happened, and the two
  stores recover in the end (strong fairness of the three calls).
* Extension: a started handler goes on, and the 30 s alarm keeps coming
  (strongly fair, because slots are a bound of the model).
* VS Code extension: a request ends (both have timeouts), and the flush interval
  keeps coming (strongly fair for the same reason).
* Dashboard: the browser delivers storage events, React runs effects, and the
  requests of the handoff are answered or fail.  Queries need not be: no promise
  of `session_ends` depends on one.

Where CHECK_DEADLOCK is off, the system really may stop: every code of
`pairing_faults` is used up, or no token is left to sign in with.

## 4. Proofs

Theorems hold for every value of the constants.  The named assumptions of each
module (`PumpAssumption` and so on) are all that is assumed; TLC evaluates them in
the runs.  Each module of proofs has one lemma per action, or per group of actions
that change the same things, `NextIInv` that puts them together, and theorems
that follow from it.

### IngestPumpProofs

For any number of events and tokens, any batch size, lease, age limit, backoff
and any set of faults:

* `TypeCorrect`, `NoEventLost`, `DuplicatesOnlyInDoubt`: the invariants of
  `pump_faults`;
* `PumpImplementsDelivery`: `Spec => ImplementsDelivery`;
* `DeliveryTypeCorrect`, `DeliveryLosesNothing`: the abstract specification loses
  nothing (its invariants are inductive as they stand), and
  `PumpKeepsThePromise`: hence, through the refinement, neither does the pump.

`NothingLost` and `DuplicatesExplained` are not inductive.  `IInv` adds:

* `PhaseOK`: outside `inflight` no batch and no answer is held; a tick that goes
  on has credentials;
* `AnswerOK`: an answer tells the truth: after `ok` every event of the batch is
  stored or refused, after `clientError` all are refused.  This is why commit
  loses nothing;
* `CopiesOK`: an event that can still be sent (in the table, in the batch or in a
  late request) and that the backend has already is in doubt, or about to be
  settled.  This is why a second copy is always explained.

The refinement maps `Push` to `Accept`, `Gc` and `LeaseBatch` to `Purge` or a
stutter, `Commit` to `Settle`, the backend's answers and late arrivals to
`Judge`, everything else to a stutter.

### AttributionWorkerProofs

`TypeCorrect`, `DuplicatesOnlyInDoubt`, `WindowsLeaveNoGap`, `JumpsNeedAnOutage`: the
invariants of `attribution_faults`, for any events, batch limit, lag and lookback.  The one
thing assumed of the two durations is `Lag <= Lookback` (the code has 15 s and
24 h): with a longer lag a worker that starts over would put its position ahead
of the window's end.  `IInv` adds:

* `PositionOK`: the position is never ahead of the lag, and a window that is open
  lies between the two.  Hence an event cannot be passed by unseen;
* `WindowOK`: an event of a window that has been read is in the batch, beyond the
  limit, or passed by for one of the other reasons.  Hence moving the position leaves no gap;
* `RowsOK`: an event with rows that is not in doubt lies behind the position, or
  is in the batch just inserted.  Hence the next window, which begins at the
  position, holds no event with rows.

### DevicePairingProofs

`TypeCorrect`, `TokensAccounted`, `TakenTokensStayTaken`: for any number of codes, tokens
and polls under way, and for each client.  `IInv` adds:

* `WizardOK`: a wizard waits for a code that was begun;
* `CodesOK`: the plaintext of a row belongs to the row's own token, if that is
  still valid;
* `PollsOK`: a poll between its two statements holds all the plaintext its row
  still has.  This is what makes the unconditional clearing in the second
  statement safe: it can only erase what the poll carries.  And a row without a
  token answers an error only when the token it had is no longer valid.

`FreeIInv` is the one argument for the ways in which an answer ends at a client.

`TakenTokensStayTaken` (`LaterPollsGetNothing`) is about polls sent after the handover;
polls already under way may carry the token too, (`HandedOutOnce`, section 5).  It rests
on a second inductive invariant, `LateInv`, relative to `IInv`:

* `HandedOver`: a token handed over is in no row any more.  It stays so because
  rows only get plaintexts of tokens newly minted;
* `PlaintextsApart`: no two rows have the same plaintext, so that clearing one row
  is enough;
* `PollLate`: what a poll knew when it was sent stays true until its row is read,
  and what it has read is in no other row.

### BrowserExtensionProofs

For any number of handlers under way: `TypeCorrect` and `EveryLossHasAReason`
(`LossExplained`).  The handlers read the store, wait and write all of it back, so
nothing says what a queue holds; what `IInv` keeps is that everything read, queued
or in a batch was once recorded (`HeldRecorded`, `FocusSeen`), and where a handler
may have a batch (`TasksOK`), so that what a step overwrites is always in
`overtaken`, `killed` or `discarded`.

`PauseSlips` (`PausedTracksOnlySlipped`) rests on `PauseInv`: a focus handler between
its check and its write, with the pause written by then, is in `outrun`, and a
state that some handler has read obeys the property too, since it may be written
back.

`EveryDuplicateHasACause` (`DuplicatesTraced`) rests on `TraceInv`, about the events
without one of the three causes (`Unique`): such an event is in at most one place of the
store and of every handler's copy of it (`Single`), in the batch of at most one
handler and, once that handler has cleared the queues (`Clearing`), not in the store;
once delivered it is nowhere.  `SentRecorded` says that only recorded events are
delivered.

`AloneLosesNothing` (`NothingVanishes`) and `AloneDuplicatesOnlyInDoubt` are the
counterparts for handlers that do not overlap and a worker that is not stopped, which
is what a lock would give and the code does not guarantee; the theorems say so in their
hypothesis, `Handlers = {h}`.  `AloneInv` adds `Ordered`: between its read and its
write a handler finds the store as it was; hence nothing is overwritten
(`NothingErased`).

### IdeExtensionProofs

For any number of flushes under way, any threshold, cap and number of retries:
`TypeCorrect`, `NothingCountedVanishes`, `TwiceOnlyForAReason`, `StatusIsTrue`.  None
is inductive; the invariant adds:

* `IdleFlushes`, `QueueTaken`, `OverlapShared`: only a flush that waits for an answer
  has events, it has all that is queued but for what is `shared`, and two such
  flushes have in common only what is `shared`.  Hence writing the queue away
  loses only what the flush took or what is shared;
* `CountedOnce`, `BucketsApart`: a unit counted now was never counted before, and it
  is in one bucket, one event.  This needs the burst: its insertions have no
  `ai` unit yet.  Hence a receiver stores each unit of a request once;
* `SentRecorded`, `AgainExplained`: what is stored already and still held is in
  doubt or shared, so that a second copy always has its reason;
* `StatusTrue`: a status bar that looks well means a token and no outstanding refusal,
  except between a flush's answer and its last line, which renders the status.  A
  refusal is outstanding until something later succeeds (the agent included), the
  editor is paired or logged out, or the window opened anew; when flushes overlap, the
  success may be that of a request sent before the refusal.  The converse does not hold.

`StoredEvents`, `AgentStored`, `BucketEvents` and `NewestKeeps` say what the helpers on
sequences do.  `GoingData` is the one argument for every answer to a flush.  The
last two theorems tie the reasons to their causes: `OneFlushLosesNothing` (one
flush at a time, a window that is not closed, an agent that can store) and
`OneFlushDuplicatesOnlyInDoubt`.

### DashboardSessionProofs

`TypeCorrect`, `SessionsAreWhole`, `TabsAreInformed`, `TokensPart`: the safety
properties of `session_faults`, for any tabs, users and tokens.  `TypeOK`,
`NoHalfSession` and `Informed` are inductive together: `TypeOK` says that whatever
token is kept or on its way was issued, so that setting a session sets a whole
one, and `Informed` holds because every change of the stored user owes a notice to
all tabs but the one that renders it.  `TokensPart` is an action property: the
steps that change user or token either take both from one answer, or are the
answers the property names.

### AdminEditingProofs

`TypeCorrect`, `OwnChangesAreShown`, `OverwritesAreExplained`: for any rows and any
number of changes.  `OwnChangeShown` needs a strengthening, `IInv`:

* `Versioned`: a row that exists has a version;
* `InOrder`: a confirmed change is not newer than its row, and a fetch that has read
  the row before it is marked as passed by it, or started anew;
* `Addressed`: a request is about a row, and a save has a text;
* `Seeded`: what a save names as its version is what its text was seeded from.
  Hence a comparison that succeeds has compared with what the author saw.

### QueryCacheProofs

`TypeCorrect`, `FreshDataIsCurrent`: for any tables of queries, mutations and
pages, and any number of mutations at a time, as long as `GapsListed` holds: every
change that is not invalidated is listed.  The dashboard's tables satisfy it, or
`query_cache` would fail.  `Inv` adds `LacksMade` (data lacks only changes that
were made) and `FetchExcused` (a fetch that misses a confirmed change was let go on
by the library, or its query is in a listed gap).

### Only model-checked

The liveness properties: `OutboxDrains`, `EventuallyAttributed`, `WizardEnds`,
`ClaimedMeansPaired`, `EventsLeave` (of both extensions), `SessionEnds`, `Arrives`.
Liveness under fairness and `ENABLED` are beyond the prover used here.  Every
invariant, every action property and the refinement that the runs check is
proved.  No module uses a `RECURSIVE` operator.

## 5. Refuted statements

Where a comment, a document or a text of the program promises more than the code
keeps, the module states the promise as a property, says which specification
refutes it, and no run lists it.  They stay in the modules for the day the code
changes.

| Property | Promise | What happens |
|---|---|---|
| `IngestPump!RePairResumesPump` | `ingest.rs:12-13`: a new token is picked up without a restart | `notify_waiters` (`ingest.rs:35`) leaves no permit: a wake-up during a tick is lost, and a pump parked by a 401 stays parked with a good token |
| `AttributionWorker!LimitOnlyDelays` | `worker.go:64-65`: what a window has beyond the limit is taken by further iterations | the position moves to the window's end (`worker.go:178`); the rest is passed by |
| `AttributionWorker!AttributedOnce` | `docs/data-model.md:107`: rows are written idempotently | insert and position are two stores (`worker.go:171,181`); a stop between them repeats the window |
| `DevicePairing`: the exceptions of `ClaimedMeansPaired` | `pairing-wizard.tsx:92` of the agent: once claimed, the token is in the keyring | the answer that carries the token may be lost (`pairing.go:164-165`); the next poll says claimed without one, and the wizard shows success |
| `DevicePairing`: `Stranded`, `Orphaned` in `WizardEnds` | the wizard ends by claim or expiry | the browser's wizard polls for ever after a lost answer; any does when the claiming account is deleted |
| `DevicePairing!HandedOutOnce` | `browser-extension/src/shared/api/backend.ts:96-97`: the plaintext is given out exactly once | two polls of the wizard's timer overlap, and both read the row before either clears it (`pairing.go:128,164`) |
| `BrowserExtension!PausedStopsTracking` | `popup.json:20`: "Tracking paused." | `handleFocus` checks the pause in one read and sets the focus in a later mutate that does not look again (`background.ts:203-211`) |
| `BrowserExtension`: `killed` in `LossExplained` | `background.ts:6-8`: state survives the worker | the batch being sent is in memory only (`:275-278`) |
| `IdeExtension!AgentFirst` | `local_api.rs:1-3`: the IDE plugin delivers through the agent | `bucketsToEvents` sends no `ts`, `user_id`, `device_id`, `session_id` (`extension.ts:230`), which `event.rs:31-34` require: the agent answers 400 to every batch |
| `DashboardSession!OwnSessionSurvives` | `common.json:89`: all *other* sessions are signed out | any 401 clears the session (`http.ts:29`): that of a request sent before the change of password, and the one a wrong current password gets (`me_credentials_handlers.go:133`) |
| `DashboardSession!WizardStaysAway` | `pages/onboarding/index.tsx:24`: a user who dismissed the wizard is not brought back | `use-auth-redirect.ts:45-50` sends whoever has no team there, the wizard sends them away: for ever |
| `AdminEditing!RowsDoNotMix` | `content-block-editor.tsx:49`: the editor is reset when the locale changes | without data of the new locale it keeps the old text (`:51`), and a save stores it there |
| `AdminEditing!UnsavedSurvivesRefresh` | `content-block-editor.tsx:8-10,43`: unsaved text is kept over a refresh | the effect fills the editor with whatever data comes (`:50`) |

Also seen while modelling, and not stated as properties:

* The plaintext of a code that is claimed and never polled stays in its row
  (`015_device_pairing.up.sql:6-7,31` calls it short-lived); `GCExpired` has no
  caller.
* VS Code: after a refused batch the status "sending" stays
  (`extension.ts:280-290,569`; `ide-vscode/README.md:31` lists what it may show);
  focus time is counted while paused or unfocused (116-123); a local token found
  missing once is never read again (544-555); a 401 drops the queue (302); the
  interval ignores the backoff (339-354).  Events are stamped on arrival
  (`ingestapp/service.go:41-42`).
* Content: there is no If-Match when the row is absent, DELETE has none at all, and
  after a lost answer the next save conflicts with the author's own.  The public
  read may be cached for 5 minutes although `admin-content-editor/api/index.ts:125-126`
  expects the landing page to pick up a change at once.
* Contracts: the dashboard asks for `/v1/admin/teams/:id/plan-overrides` where the
  backend has `/plan-limits` and wants `limits` (`admin_phase3.go:251-254`), so the form for
  limits shows an error only; the admin's revocation of webhooks and tokens has no
  route (`teams/handler.go:137-162`) and is always refused.  The model has it so.  The
  role "observer" is offered and refused; `useContentList` reads `items` where
  `entries` are sent.  Here the model takes the dashboard's side.
* Browser extension: a write based on an older value undoes whatever came between, a
  pause or a resume included.
* `docs/internal/tech-debt.md:191` says that invalidation has no strategy;
  `NotInvalidated` is what that comes to.  Besides, a fetch of a query that is not
  shown is not restarted by an invalidation and its old answer counts as fresh
  (`raced`), and `useDeleteMyData` clears the cache without refetching.
* `LocaleSelect` sends its change without waiting: two quick ones may arrive in the
  other order.  `create-token-dialog` loses the secret when the page is left
  before the refetch ends.
* `sw.js:57-61` keeps the answer to any navigation as the offline shell, an error
  page or a directly opened document included, and before its assets are cached.

## 6. Not modelled

PROJECT.json lists the components without a module and why.  In the modelled
ones: whose account an event was recorded under (logout does not clear the
outbox), a second attribution worker, field validation, encryption.  The largest
parts without a module are presentation: tables, charts, dialogs, marketing
pages, documents, the UI kit (`src/ui`), translations, and the end-to-end tests
and build configuration, which together are well over half of the TypeScript.
They render what queries bring and keep no state another part reads; a module
about them would have nothing to say.  Of the dashboard's widgets only which
queries they show and which mutations they start is in `DashboardQueries`.

Of the backend, the services that are one statement per request (lists, analytics,
audit) have no protocol.  Those with one are the next steps of the plan.

## 7. Plan

Done: `EventDelivery`, `IngestPump`, `AttributionWorker`, `DevicePairing`,
`BrowserExtension`, `IdeExtension`, `DashboardSession`, `AdminEditing`, `QueryCache`
with `DashboardQueries`, and the proofs of section 4.  Left, in this order:

1. `TeamMembership`: members, roles, invites, capacity.  Owners are counted and a
   role changed in two statements, and demoting another owner counts nothing
   (`membersapp/service.go:93-170`); capacity, use of the invite and membership are
   three (`invitesapp/service.go:116-140`), and a member who accepts again burns a
   use; the administrator's upsert can demote the last owner.  To be stated
   against an abstract team in which requests are atomic.
2. `AuthFactors`: the last factor (`auth/factors.go`, counted in three queries),
   reset codes and token_version.
3. `Webhooks`: dispatch, attempts, semaphore, shutdown.
4. `CachedStore`: read-through, deletion and invalidation.
5. The watcher's accumulation, the anomaly scanner, the report cron, SSO state,
   the dashboard's service worker.
6. An owner for the events of `IngestPump`, a second worker in
   `AttributionWorker`, two wizards of one client in `DevicePairing`.

To prove next: the order between tabs and requests that the liveness properties
of `DashboardSession` and `DevicePairing` rest on (for each obligation to answer
or to render, that it stays owed until it is met), and the safety of the modules
above as they are written.
