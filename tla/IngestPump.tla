----------------------------- MODULE IngestPump -----------------------------
(***************************************************************************)
(* The desktop agent's event path: the SQLite outbox `event_buffer`        *)
(* (core/store.rs), the ingest pump that drains it (core/ingest.rs), the   *)
(* keyring token that pairing and logout change under it (core/auth.rs,    *)
(* lib.rs) and the backend's POST /v1/ingest as the pump sees it           *)
(* (backend/internal/ingest, backend/internal/auth).                       *)
(*                                                                         *)
(* Actors: producers (watcher and local API) that push rows; the hourly    *)
(* GC; the pump task; the UI commands pair_poll and logout; the backend;   *)
(* the process itself, which may be killed and restarted.                  *)
(*                                                                         *)
(* An event is named by its row id (AUTOINCREMENT, so ids follow push      *)
(* order).  Timestamps are kept relative to now, so that the clock needs   *)
(* no bound: `age` is now - created_at, stopping one past the GC limit,    *)
(* and `lease` is lease_until - now, where NoLease stands for NULL and for *)
(* every lease already over: the code never tells these apart.             *)
(***************************************************************************)
EXTENDS Integers, FiniteSets

CONSTANTS
    MaxEvents,   \* bound: rows ever pushed
    BatchSize,   \* rows leased per tick (100 in lib.rs)
    LeaseSecs,   \* length of a lease (60 s)
    GcAge,       \* age past which gc deletes a row (7 days)
    BackoffCap,  \* longest retry delay (300 s)
    MaxLate,     \* bound: abandoned requests still on the wire
    Tokens,      \* API tokens the backend can issue
    NoToken,     \* the keyring holds no token
    Invalid,     \* rows the backend's ValidEvent refuses
    Faults       \* which of AllFaults may happen

AllFaults == {"network", "store", "keyring", "restart", "verify"}

Ids == 1 .. MaxEvents
NoLease == -1

ASSUME PumpAssumption ==
    /\ MaxEvents \in Nat /\ BatchSize \in Nat \ {0}
    /\ LeaseSecs \in Nat /\ GcAge \in Nat
    /\ BackoffCap \in Nat \ {0} /\ MaxLate \in Nat
    /\ NoToken \notin Tokens
    /\ Invalid \subseteq Ids
    /\ Faults \subseteq AllFaults

VARIABLES
    rows,       \* the event_buffer table: id -> [age, lease, readable]
    nextId,     \* next AUTOINCREMENT id
    token,      \* the ingest token in the keyring
    notifyDue,  \* a UI command has changed the token and not yet called wake
    pc,         \* where the pump task is
    outcome,    \* TickOutcome of the last tick
    creds,      \* token read by the current tick
    batch,      \* ids leased by the current tick
    backoff,    \* current retry delay
    answer,     \* what the network holds for the current request
    late,       \* requests the client abandoned, not yet handled
    issued,     \* tokens the backend has issued
    valid,      \* tokens the backend accepts
    stored,     \* copies of each event in ClickHouse: 0, 1 or 2 (= many)
    refused,    \* events the backend answered for without storing them
    purged,     \* events the agent deleted unsent (old or unreadable)
    ambiguous   \* events whose attempt ended without the agent settling it

agentVars  == <<rows, nextId>>
authVars   == <<token, notifyDue>>
pumpVars   == <<pc, outcome, creds, batch, backoff>>
serverVars == <<issued, valid, stored, refused>>
vars == <<rows, nextId, token, notifyDue, pc, outcome, creds, batch, backoff,
          answer, late, issued, valid, stored, refused, purged, ambiguous>>

Row == [age : 0 .. GcAge + 1, lease : NoLease .. LeaseSecs, readable : BOOLEAN]
Request == [ids : SUBSET Ids, token : Tokens]
Outcomes == {"Ok", "Empty", "NoCreds", "Retryable", "AuthRequired", "Err"}
Answers == {"none", "sent", "ok", "unauthorized", "unavailable", "clientError"}

TypeOK ==
    /\ nextId \in 1 .. MaxEvents + 1
    /\ DOMAIN rows \subseteq 1 .. nextId - 1
    /\ rows \in [DOMAIN rows -> Row]
    /\ token \in Tokens \cup {NoToken}
    /\ notifyDue \in BOOLEAN
    /\ pc \in {"tick", "lease", "inflight", "settle", "waiting"}
    /\ outcome \in Outcomes
    /\ creds \in Tokens \cup {NoToken}
    /\ batch \subseteq 1 .. nextId - 1
    /\ backoff \in 1 .. BackoffCap
    /\ answer \in Answers
    /\ late \subseteq [ids : SUBSET (1 .. nextId - 1), token : Tokens]
    /\ issued \subseteq Tokens
    /\ valid \subseteq issued
    /\ stored \in [Ids -> 0 .. 2]
    /\ refused \subseteq 1 .. nextId - 1
    /\ purged \subseteq 1 .. nextId - 1
    /\ ambiguous \subseteq 1 .. nextId - 1

Init ==
    /\ rows = [id \in {} |-> [age |-> 0, lease |-> NoLease, readable |-> TRUE]]
    /\ nextId = 1
    /\ token = NoToken
    /\ notifyDue = FALSE
    /\ pc = "tick"
    /\ outcome = "Empty"
    /\ creds = NoToken
    /\ batch = {}
    /\ backoff = 1
    /\ answer = "none"
    /\ late = {}
    /\ issued = {}
    /\ valid = {}
    /\ stored = [id \in Ids |-> 0]
    /\ refused = {}
    /\ purged = {}
    /\ ambiguous = {}

-----------------------------------------------------------------------------
(* The outbox: LocalStore.  Every operation holds the connection mutex.     *)

Without(ids) == [id \in DOMAIN rows \ ids |-> rows[id]]

\* (mutant) an upsert: brings back rows that gc deleted meanwhile
WithLeaseUpsert(ids, left) ==
    [id \in DOMAIN rows \cup ids |-> IF id \in ids
                                     THEN [age |-> 0, lease |-> left, readable |-> TRUE]
                                     ELSE rows[id]]

WithLease(ids, left) ==
    [id \in DOMAIN rows |-> IF id \in ids THEN [rows[id] EXCEPT !.lease = left]
                                          ELSE rows[id]]

\* LocalStore::push, called by the watcher and by the local API.
Push ==
    /\ nextId <= MaxEvents
    /\ rows' = [id \in DOMAIN rows \cup {nextId} |->
                   IF id = nextId
                   THEN [age |-> 0, lease |-> NoLease, readable |-> TRUE]
                   ELSE rows[id]]
    /\ nextId' = nextId + 1
    /\ UNCHANGED <<authVars, pumpVars, answer, late, serverVars, purged, ambiguous>>

Expired == {id \in DOMAIN rows : rows[id].age > GcAge}

\* The hourly GC loop: LocalStore::gc deletes old rows, leased or not.
Gc ==
    /\ Expired # {}
    /\ rows' = Without(Expired)
    /\ purged' = purged \cup Expired
    /\ UNCHANGED <<nextId, authVars, pumpVars, answer, late, serverVars, ambiguous>>

\* (mutant) lease_batch would look at NULL only: a lease never runs out
OlderKeepsLease(row) == [row EXCEPT !.age = IF @ > GcAge THEN @ ELSE @ + 1]

Older(row) ==
    [age      |-> IF row.age > GcAge THEN row.age ELSE row.age + 1,
     lease    |-> IF row.lease = NoLease THEN NoLease ELSE row.lease - 1,
     readable |-> row.readable]

\* One unit of wall-clock time.
ClockTick ==
    /\ rows' = [id \in DOMAIN rows |-> Older(rows[id])]
    /\ UNCHANGED <<nextId, authVars, pumpVars, answer, late, serverVars, purged, ambiguous>>

Eligible == {id \in DOMAIN rows : rows[id].lease = NoLease}

\* ORDER BY id ASC LIMIT n
Oldest(ids, n) == {id \in ids : Cardinality({j \in ids : j < id}) < n}

-----------------------------------------------------------------------------
(* The pump: one tick reads the credentials, leases a batch, posts it and   *)
(* acts on the answer; the loop in spawn then waits as the outcome says.    *)

Finish(result) ==
    /\ pc' = "settle"
    /\ outcome' = result

\* tick, first step.  A keyring read that fails counts as "no token".
ReadCreds ==
    /\ pc = "tick"
    /\ \/ /\ token # NoToken
          /\ creds' = token
          /\ pc' = "lease"
          /\ UNCHANGED outcome
       \/ /\ token = NoToken \/ "keyring" \in Faults
          /\ creds' = NoToken
          /\ Finish("NoCreds")
    /\ UNCHANGED <<agentVars, authVars, batch, backoff, answer, late, serverVars,
                   purged, ambiguous>>

\* lease_batch: rows that do not decrypt are never returned, and are deleted,
\* unless the DELETE fails, which nobody sees.
LeaseBatch ==
    LET picked  == Oldest(Eligible, BatchSize)
        usable  == {id \in picked : rows[id].readable}
        corrupt == picked \ usable
    IN  /\ pc = "lease"
        /\ \E gone \in IF "store" \in Faults THEN {corrupt, {}} ELSE {corrupt} :
             /\ rows' = [id \in DOMAIN rows \ gone |-> WithLease(picked, LeaseSecs)[id]]
             /\ purged' = purged \cup gone
        /\ \/ /\ usable = {}
              /\ Finish("Empty")
              /\ UNCHANGED <<batch, answer>>
           \/ /\ usable # {}
              /\ batch' = usable
              /\ answer' = "sent"
              /\ pc' = "inflight"
              /\ UNCHANGED outcome
        /\ UNCHANGED <<nextId, authVars, creds, backoff, late, serverVars, ambiguous>>

\* lease_batch fails before its UPDATE: tick returns Err, nothing is leased.
LeaseFails ==
    /\ pc = "lease"
    /\ "store" \in Faults
    /\ Finish("Err")
    /\ UNCHANGED <<agentVars, authVars, creds, batch, backoff, answer, late,
                   serverVars, purged, ambiguous>>

\* What tick does with a finished request, and the outcome it returns.
Commit(result) ==
    /\ rows' = Without(batch)
    /\ Finish(result)

Release(result) ==
    /\ rows' = WithLease(batch, NoLease)
    /\ Finish(result)

EndRequest == answer' = "none" /\ batch' = {}

\* (mutant) a 2xx releases the batch
Answered2xxReleases ==
    /\ pc = "inflight" /\ answer = "ok"
    /\ Release("Ok")
    /\ EndRequest
    /\ UNCHANGED <<nextId, authVars, creds, backoff, late, serverVars, purged, ambiguous>>

Answered2xx ==
    /\ pc = "inflight" /\ answer = "ok"
    /\ Commit("Ok")
    /\ EndRequest
    /\ UNCHANGED <<nextId, authVars, creds, backoff, late, serverVars, purged, ambiguous>>

Answered401 ==
    /\ pc = "inflight" /\ answer = "unauthorized"
    /\ Release("AuthRequired")
    /\ EndRequest
    /\ UNCHANGED <<nextId, authVars, creds, backoff, late, serverVars, purged, ambiguous>>

\* (mutant) a 429 or 5xx drops the batch as other errors do
AnsweredRetryableDrops ==
    /\ pc = "inflight" /\ answer = "unavailable"
    /\ Commit("Ok")
    /\ EndRequest
    /\ UNCHANGED <<nextId, authVars, creds, backoff, late, serverVars, purged, ambiguous>>

\* 429 and 5xx
AnsweredRetryable ==
    /\ pc = "inflight" /\ answer = "unavailable"
    /\ Release("Retryable")
    /\ EndRequest
    /\ UNCHANGED <<nextId, authVars, creds, backoff, late, serverVars, purged, ambiguous>>

\* any other 4xx: the batch is dropped
AnsweredClientError ==
    /\ pc = "inflight" /\ answer = "clientError"
    /\ Commit("Ok")
    /\ EndRequest
    /\ UNCHANGED <<nextId, authVars, creds, backoff, late, serverVars, purged, ambiguous>>

\* The request left the client: unless it was handled, it may still arrive.
Abandon ==
    late' \in IF answer = "sent" /\ Cardinality(late) < MaxLate
              THEN {late, late \cup {[ids |-> batch, token |-> creds]}}
              ELSE {late}

\* A connection error, a lost answer or the client's 10 s timeout.
NetworkError ==
    /\ pc = "inflight"
    /\ "network" \in Faults
    /\ Release("Retryable")
    /\ Abandon
    /\ EndRequest
    /\ ambiguous' = ambiguous \cup batch
    /\ UNCHANGED <<nextId, authVars, creds, backoff, serverVars, purged>>

\* commit or release fails in SQLite: tick returns Err, the leases stay.
SettleFails ==
    /\ pc = "inflight" /\ answer \notin {"none", "sent"}
    /\ "store" \in Faults
    /\ Finish("Err")
    /\ EndRequest
    /\ ambiguous' = ambiguous \cup batch
    /\ UNCHANGED <<agentVars, authVars, creds, backoff, late, serverVars, purged>>

\* (mutant) the delay has no ceiling
DoubleUncapped(delay) == 2 * delay

Double(delay) == IF 2 * delay > BackoffCap THEN BackoffCap ELSE 2 * delay

\* spawn: the match on the outcome, up to the point where it waits.
StartWait ==
    /\ pc = "settle"
    /\ pc' = "waiting"
    /\ backoff' = IF outcome \in {"Ok", "Empty"} THEN 1 ELSE backoff
    /\ UNCHANGED <<agentVars, authVars, outcome, creds, batch, answer, late,
                   serverVars, purged, ambiguous>>

\* The sleep ends.  NoCreds and AuthRequired have no sleep to end.
Timer ==
    /\ pc = "waiting"
    /\ outcome \notin {"NoCreds", "AuthRequired"}
    /\ pc' = "tick"
    /\ backoff' = IF outcome \in {"Retryable", "Err"} THEN Double(backoff) ELSE backoff
    /\ UNCHANGED <<agentVars, authVars, outcome, creds, batch, answer, late,
                   serverVars, purged, ambiguous>>

-----------------------------------------------------------------------------
(* The UI commands pair_poll and logout.                                    *)

\* pair_poll got a token: persist_pairing writes it, then the user id; when
\* the second write fails the command returns an error and never notifies.
PersistPairing(t) ==
    /\ ~notifyDue
    /\ t \in Tokens \ issued
    /\ issued' = issued \cup {t}
    /\ valid' = valid \cup {t}
    /\ token' = t
    /\ notifyDue' \in IF "keyring" \in Faults THEN BOOLEAN ELSE {TRUE}
    /\ UNCHANGED <<agentVars, pumpVars, answer, late, stored, refused, purged, ambiguous>>

\* logout deletes the token, then the user id, with the same partial failure.
Logout ==
    /\ ~notifyDue
    /\ token # NoToken
    /\ token' = NoToken
    /\ notifyDue' \in IF "keyring" \in Faults THEN BOOLEAN ELSE {TRUE}
    /\ UNCHANGED <<agentVars, pumpVars, answer, late, serverVars, purged, ambiguous>>

\* wake.notify() is notify_waiters(): it leaves no permit, so it wakes the
\* pump only if the pump is already waiting; an Err sleep does not listen.
Listening == pc = "waiting" /\ outcome # "Err"

WakeBackoff ==
    CASE outcome = "Retryable"    -> Double(1)
      [] outcome = "AuthRequired" -> 1
      [] OTHER                    -> backoff

Notify ==
    /\ notifyDue
    /\ notifyDue' = FALSE
    /\ \/ /\ Listening
          /\ pc' = "tick"
          /\ backoff' = WakeBackoff
       \/ /\ ~Listening
          /\ UNCHANGED <<pc, backoff>>
    /\ UNCHANGED <<agentVars, token, outcome, creds, batch, answer, late, serverVars,
                   purged, ambiguous>>

-----------------------------------------------------------------------------
(* The backend's /v1/ingest.                                                *)

AddCopies(ids) ==
    stored' = [id \in Ids |-> IF id \notin ids THEN stored[id]
                              ELSE IF stored[id] = 0 THEN 1 ELSE 2]

\* 200: PrepareBatch keeps the valid events, PersistBatch inserts them.
ServerAccepts ==
    /\ answer = "sent" /\ creds \in valid
    /\ AddCopies(batch \ Invalid)
    /\ refused' = refused \cup (batch \cap Invalid)
    /\ answer' = "ok"
    /\ UNCHANGED <<agentVars, authVars, pumpVars, late, issued, valid, purged, ambiguous>>

\* 401: the token is unknown or revoked; a failed lookup answers 401 too.
ServerUnauthorized ==
    /\ answer = "sent"
    /\ creds \notin valid \/ "verify" \in Faults
    /\ answer' = "unauthorized"
    /\ UNCHANGED <<agentVars, authVars, pumpVars, late, serverVars, purged, ambiguous>>

\* 429 from the limiter, or 500 because the insert failed; ClickHouse may
\* have written the batch before the insert reported its error.
ServerUnavailable ==
    /\ answer = "sent"
    /\ answer' = "unavailable"
    /\ \/ UNCHANGED <<stored, refused, ambiguous>>
       \/ /\ creds \in valid
          /\ AddCopies(batch \ Invalid)
          /\ refused' = refused \cup (batch \cap Invalid)
          /\ ambiguous' = ambiguous \cup batch
    /\ UNCHANGED <<agentVars, authVars, pumpVars, late, issued, valid, purged>>

\* 400, 403 or 413: nothing of the batch is stored.
ServerRefuses ==
    /\ answer = "sent" /\ creds \in valid
    /\ refused' = refused \cup batch
    /\ answer' = "clientError"
    /\ UNCHANGED <<agentVars, authVars, pumpVars, late, issued, valid, stored, purged,
                   ambiguous>>

\* An abandoned request arrives after all, or never does.
LateArrival(r) ==
    /\ late' = late \ {r}
    /\ \/ /\ r.token \in valid
          /\ AddCopies(r.ids \ Invalid)
          /\ refused' = refused \cup (r.ids \cap Invalid)
       \/ UNCHANGED <<stored, refused>>
    /\ UNCHANGED <<agentVars, authVars, pumpVars, answer, issued, valid, purged, ambiguous>>

\* The user revokes the device on the dashboard.
RevokeToken(t) ==
    /\ t \in valid
    /\ valid' = valid \ {t}
    /\ UNCHANGED <<agentVars, authVars, pumpVars, answer, late, issued, stored, refused,
                   purged, ambiguous>>

-----------------------------------------------------------------------------
\* The process dies and starts again.  Rows, leases and the token survive;
\* open_or_init may find its key damaged and make a new one, which leaves
\* every row unreadable.
Restart ==
    /\ "restart" \in Faults
    /\ \E keyLost \in BOOLEAN :
          rows' = [id \in DOMAIN rows |->
                      [rows[id] EXCEPT !.readable = @ /\ ~keyLost]]
    /\ Abandon
    /\ EndRequest
    /\ ambiguous' = ambiguous \cup batch
    /\ pc' = "tick"
    /\ outcome' = "Empty"
    /\ creds' = NoToken
    /\ backoff' = 1
    /\ notifyDue' = FALSE
    /\ UNCHANGED <<nextId, token, serverVars, purged>>

StoreSteps == Push \/ Gc \/ ClockTick
PumpSteps ==
    \/ ReadCreds \/ LeaseBatch \/ LeaseFails
    \/ Answered2xx \/ Answered401 \/ AnsweredRetryable \/ AnsweredClientError
    \/ NetworkError \/ SettleFails
    \/ StartWait \/ Timer
UserSteps ==
    \/ \E t \in Tokens : PersistPairing(t)
    \/ Logout
    \/ Notify
ServerSteps ==
    \/ ServerAccepts \/ ServerUnauthorized \/ ServerUnavailable \/ ServerRefuses
    \/ \E r \in late : LateArrival(r)
    \/ \E t \in Tokens : RevokeToken(t)

Next == StoreSteps \/ PumpSteps \/ UserSteps \/ ServerSteps \/ Restart

Spec == Init /\ [][Next]_vars

(* Fairness: the task is never starved, sleeps end, a request ends (reqwest *)
(* has a 10 s timeout and the backend answers what reaches it), a UI        *)
(* command reaches its notify, time passes.  Nothing else is owed: users    *)
(* need not pair, gc need not run, nobody needs to be restarted.            *)
RequestEnds ==
    \/ Answered2xx \/ Answered401 \/ AnsweredRetryable \/ AnsweredClientError
    \/ NetworkError \/ SettleFails
ServerAnswers ==
    ServerAccepts \/ ServerUnauthorized \/ ServerUnavailable \/ ServerRefuses

Progress ==
    /\ WF_vars(ReadCreds)
    /\ WF_vars(LeaseBatch \/ LeaseFails)
    /\ WF_vars(ServerAnswers)
    /\ WF_vars(RequestEnds)
    /\ WF_vars(StartWait)
    /\ WF_vars(Timer)
    /\ WF_vars(Notify)
    /\ WF_vars(ClockTick)

FairSpec == Spec /\ Progress

\* Faults come and go: what is tried again and again succeeds in the end.
Recovers ==
    /\ SF_vars(LeaseBatch)
    /\ SF_vars(ServerAccepts)
    /\ SF_vars(Answered2xx)

RecoveringSpec == FairSpec /\ Recovers

-----------------------------------------------------------------------------
(* Properties.                                                              *)

\* An event leaves the outbox only when the backend has stored or refused it,
\* or the agent purged it itself: no answer, timeout, failed write or restart
\* loses one (retry policy, ingest.rs:3-10).
NothingLost ==
    \A id \in 1 .. nextId - 1 :
        \/ id \in DOMAIN rows
        \/ stored[id] > 0
        \/ id \in refused \cup purged

\* An event is stored twice only if one of its attempts ended without the
\* agent settling it: an answer lost or late, an insert that failed after
\* writing, a commit that failed, a restart.  Otherwise delivery is exactly
\* once, although nothing in the request identifies the batch.
DuplicatesExplained == \A id \in Ids : stored[id] > 1 => id \in ambiguous

\* The pump implements at-least-once delivery.
Delivery == INSTANCE EventDelivery WITH
    Events    <- Ids,
    accepted  <- 1 .. nextId - 1,
    outbox    <- DOMAIN rows,
    delivered <- {id \in Ids : stored[id] > 0},
    discarded <- refused \cup purged

ImplementsDelivery == Delivery!Spec

\* The waits that only a wake-up ends.
Parked == pc = "waiting" /\ outcome \in {"NoCreds", "AuthRequired"}

\* While the agent holds a good token and the pump is not parked, every row
\* leaves the outbox, including rows whose lease was orphaned by a failed
\* commit or release: leases run out and the oldest rows go first.
OutboxDrains ==
    (<>[](token \in valid) /\ <>[]~Parked)
        => \A id \in Ids : id \in DOMAIN rows ~> id \notin DOMAIN rows

\* "a token change through pairing is picked up without restarting the pump"
\* (ingest.rs:12-13, in Russian): with a good token in the keyring the pump
\* does not stay parked.  FairSpec refutes it, even without faults.
RePairResumesPump == (Parked /\ token \in valid) ~> ~(Parked /\ token \in valid)
=============================================================================
