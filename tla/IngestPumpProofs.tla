-------------------------- MODULE IngestPumpProofs --------------------------
(***************************************************************************)
(* Proofs about IngestPump, for every number of events, tokens, leases and *)
(* every set of faults: types are respected, no event is lost, duplicates  *)
(* are explained, and the pump implements EventDelivery.                   *)
(***************************************************************************)
EXTENDS IngestPump, TLAPS

\* What each phase of the pump may assume about its local variables.
PhaseOK ==
    /\ pc # "inflight" => batch = {} /\ answer = "none"
    /\ pc = "inflight" => answer # "none"
    /\ pc \in {"lease", "inflight"} => creds \in Tokens

\* An answer tells the truth about the batch it answers for.
AnswerOK ==
    /\ answer = "ok" => \A id \in batch : stored[id] > 0 \/ id \in refused
    /\ answer = "clientError" => batch \subseteq refused

\* Every copy the backend holds of an event that could be sent again is one
\* that the agent knows to be in doubt, or is about to settle.
CopiesOK ==
    /\ \A id \in DOMAIN rows \cup batch :
          stored[id] > 0 => id \in ambiguous \/ (answer = "ok" /\ id \in batch)
    /\ \A r \in late : r.ids \subseteq ambiguous
    /\ \A id \in Ids : id >= nextId => stored[id] = 0

IInv ==
    /\ TypeOK
    /\ PhaseOK
    /\ AnswerOK
    /\ CopiesOK
    /\ NothingLost
    /\ DuplicatesExplained
-----------------------------------------------------------------------------
\* Deleting rows keeps the table well typed.
LEMMA WithoutType ==
    ASSUME rows \in [DOMAIN rows -> Row], NEW ids
    PROVE  /\ DOMAIN Without(ids) = DOMAIN rows \ ids
           /\ Without(ids) \in [DOMAIN rows \ ids -> Row]
  BY DEF Without

\* Setting leases keeps the table well typed.
LEMMA WithLeaseType ==
    ASSUME rows \in [DOMAIN rows -> Row], NEW ids, NEW left \in NoLease .. LeaseSecs
    PROVE  /\ DOMAIN WithLease(ids, left) = DOMAIN rows
           /\ WithLease(ids, left) \in [DOMAIN rows -> Row]
  BY DEF WithLease, Row

\* A row that ages stays a row.
LEMMA OlderType == ASSUME NEW row \in Row PROVE Older(row) \in Row
  <1>1. row.age \in 0 .. GcAge + 1 /\ row.lease \in NoLease .. LeaseSecs
    BY DEF Row
  <1>2. (IF row.age > GcAge THEN row.age ELSE row.age + 1) \in 0 .. GcAge + 1
    BY <1>1, PumpAssumption
  <1>3. (IF row.lease = NoLease THEN NoLease ELSE row.lease - 1) \in NoLease .. LeaseSecs
    BY <1>1, PumpAssumption DEF NoLease
  <1> QED
    BY <1>2, <1>3 DEF Row, Older

\* Adding copies only grows the counts, and only for the given events.
LEMMA AddCopiesType ==
    ASSUME stored \in [Ids -> 0 .. 2], NEW ids, AddCopies(ids)
    PROVE  /\ stored' \in [Ids -> 0 .. 2]
           /\ \A id \in Ids : stored[id] > 0 => stored'[id] > 0
           /\ \A id \in Ids \cap ids : stored'[id] > 0
           /\ \A id \in Ids \ ids : stored'[id] = stored[id]
           /\ \A id \in Ids : stored'[id] > 1 => stored[id] > 0
  BY DEF AddCopies

LEMMA InitIInv == Init => IInv
  <1> SUFFICES ASSUME Init PROVE IInv
    OBVIOUS
  <1> USE PumpAssumption DEF Init
  <1>1. TypeOK
    <2>1. rows \in [DOMAIN rows -> Row] /\ DOMAIN rows = {}
      OBVIOUS
    <2>2. late \subseteq [ids : SUBSET (1 .. nextId - 1), token : Tokens]
      OBVIOUS
    <2>3. stored \in [Ids -> 0 .. 2] /\ nextId \in 1 .. MaxEvents + 1 /\ backoff \in 1 .. BackoffCap
      OBVIOUS
    <2> QED
      BY <2>1, <2>2, <2>3 DEF TypeOK, Outcomes, Answers
  <1>2. PhaseOK /\ AnswerOK /\ CopiesOK /\ NothingLost /\ DuplicatesExplained
    BY DEF PhaseOK, AnswerOK, CopiesOK, NothingLost, DuplicatesExplained, Ids
  <1> QED
    BY <1>1, <1>2 DEF IInv

-----------------------------------------------------------------------------
(* The outbox.                                                              *)

LEMMA PushIInv == ASSUME IInv, Push PROVE IInv'
  <1> USE PumpAssumption DEF IInv, Push, agentVars, authVars, pumpVars, serverVars
  <1>1. TypeOK'
    <2>1. [age |-> 0, lease |-> NoLease, readable |-> TRUE] \in Row
      BY DEF Row, NoLease
    <2>2. /\ DOMAIN rows' = DOMAIN rows \cup {nextId}
          /\ rows' \in [DOMAIN rows \cup {nextId} -> Row]
      BY <2>1 DEF TypeOK
    <2>3. nextId' \in 1 .. MaxEvents + 1 /\ DOMAIN rows' \subseteq 1 .. nextId' - 1
      BY <2>2 DEF TypeOK
    <2>4. late' \subseteq [ids : SUBSET (1 .. nextId' - 1), token : Tokens]
      <3>1. 1 .. nextId - 1 \subseteq 1 .. nextId' - 1
        BY DEF TypeOK
      <3> QED
        BY <3>1 DEF TypeOK
    <2>5. /\ batch' \subseteq 1 .. nextId' - 1
          /\ refused' \subseteq 1 .. nextId' - 1
          /\ purged' \subseteq 1 .. nextId' - 1
          /\ ambiguous' \subseteq 1 .. nextId' - 1
      BY DEF TypeOK
    <2> QED
      BY <2>2, <2>3, <2>4, <2>5 DEF TypeOK
  <1>2. PhaseOK' /\ AnswerOK'
    BY DEF PhaseOK, AnswerOK
  <1>3. CopiesOK'
    BY DEF CopiesOK, TypeOK, Ids
  <1>4. NothingLost' /\ DuplicatesExplained'
    BY DEF NothingLost, DuplicatesExplained, TypeOK
  <1> QED
    BY <1>1, <1>2, <1>3, <1>4

LEMMA GcIInv == ASSUME IInv, Gc PROVE IInv'
  <1> USE DEF IInv, Gc, authVars, pumpVars, serverVars
  <1>1. /\ DOMAIN rows' = DOMAIN rows \ Expired
        /\ rows' \in [DOMAIN rows \ Expired -> Row]
    BY WithoutType DEF TypeOK
  <1>2. TypeOK'
    BY <1>1 DEF TypeOK, Expired
  <1>3. PhaseOK' /\ AnswerOK' /\ CopiesOK'
    BY <1>1 DEF PhaseOK, AnswerOK, CopiesOK
  <1>4. NothingLost' /\ DuplicatesExplained'
    BY <1>1 DEF NothingLost, DuplicatesExplained
  <1> QED
    BY <1>2, <1>3, <1>4

LEMMA ClockTickIInv == ASSUME IInv, ClockTick PROVE IInv'
  <1> USE PumpAssumption DEF IInv, ClockTick, authVars, pumpVars, serverVars
  <1>1. DOMAIN rows' = DOMAIN rows /\ rows' \in [DOMAIN rows -> Row]
    <2>1. ASSUME NEW row \in Row PROVE Older(row) \in Row
      BY OlderType
    <2> QED
      BY <2>1 DEF TypeOK
  <1>2. TypeOK'
    BY <1>1 DEF TypeOK
  <1>3. PhaseOK' /\ AnswerOK' /\ CopiesOK' /\ NothingLost' /\ DuplicatesExplained'
    BY <1>1 DEF PhaseOK, AnswerOK, CopiesOK, NothingLost, DuplicatesExplained
  <1> QED
    BY <1>2, <1>3

-----------------------------------------------------------------------------
(* The pump.  The variable lists the frame conditions abbreviate are        *)
(* expanded everywhere.                                                     *)

LEMMA ReadCredsIInv == ASSUME IInv, ReadCreds PROVE IInv'
  <1> USE DEF IInv, ReadCreds, Finish, agentVars, authVars, serverVars
  <1>1. TypeOK'
    BY DEF TypeOK, Outcomes
  <1>2. PhaseOK'
    BY DEF PhaseOK, TypeOK
  <1>3. AnswerOK' /\ CopiesOK' /\ NothingLost' /\ DuplicatesExplained'
    BY DEF AnswerOK, CopiesOK, NothingLost, DuplicatesExplained
  <1> QED
    BY <1>1, <1>2, <1>3

LEMMA LeaseBatchIInv == ASSUME IInv, LeaseBatch PROVE IInv'
  <1> USE DEF IInv
  <1> DEFINE picked  == Oldest(Eligible, BatchSize)
             usable  == {id \in picked : rows[id].readable}
  <1>0. PICK gone \in {picked \ usable, {}} :
            /\ rows' = [id \in DOMAIN rows \ gone |-> WithLease(picked, LeaseSecs)[id]]
            /\ purged' = purged \cup gone
    BY DEF LeaseBatch
  <1>1. /\ pc = "lease"
        /\ rows' = [id \in DOMAIN rows \ gone |-> WithLease(picked, LeaseSecs)[id]]
        /\ purged' = purged \cup gone
        /\ \/ usable = {} /\ pc' = "settle" /\ outcome' = "Empty" /\ batch' = batch
                /\ answer' = answer
           \/ usable # {} /\ pc' = "inflight" /\ outcome' = outcome /\ batch' = usable
                /\ answer' = "sent"
    BY <1>0 DEF LeaseBatch, Finish
  <1>2. UNCHANGED <<nextId, token, notifyDue, creds, backoff, late, issued, valid,
                    stored, refused, ambiguous>>
    BY DEF LeaseBatch, authVars, serverVars
  <1>3. usable \subseteq DOMAIN rows /\ gone \subseteq DOMAIN rows /\ usable \cap gone = {}
    BY <1>0 DEF Oldest, Eligible
  <1> HIDE DEF usable
  <1>4. WithLease(picked, LeaseSecs) \in [DOMAIN rows -> Row]
    BY WithLeaseType, PumpAssumption DEF TypeOK, NoLease
  <1> HIDE DEF picked
  <1>5. DOMAIN rows' = DOMAIN rows \ gone /\ rows' \in [DOMAIN rows \ gone -> Row]
    BY <1>1, <1>4
  <1>6. batch = {} /\ answer = "none" /\ creds \in Tokens
    BY <1>1 DEF PhaseOK
  <1>7. TypeOK'
    BY <1>1, <1>2, <1>3, <1>5 DEF TypeOK, Outcomes, Answers
  <1>8. PhaseOK' /\ AnswerOK'
    BY <1>1, <1>2, <1>6 DEF PhaseOK, AnswerOK
  <1>9. CopiesOK'
    BY <1>1, <1>2, <1>3, <1>5, <1>6 DEF CopiesOK
  <1>10. NothingLost' /\ DuplicatesExplained'
    BY <1>1, <1>2, <1>5 DEF NothingLost, DuplicatesExplained
  <1> QED
    BY <1>7, <1>8, <1>9, <1>10

LEMMA LeaseFailsIInv == ASSUME IInv, LeaseFails PROVE IInv'
  <1> USE DEF IInv, LeaseFails, Finish, agentVars, authVars, serverVars
  <1>1. TypeOK'
    BY DEF TypeOK, Outcomes
  <1>2. PhaseOK' /\ AnswerOK' /\ CopiesOK' /\ NothingLost' /\ DuplicatesExplained'
    BY DEF PhaseOK, AnswerOK, CopiesOK, NothingLost, DuplicatesExplained
  <1> QED
    BY <1>1, <1>2

\* A tick that deletes the batch may do so: the backend has judged it.
LEMMA CommitIInv ==
    ASSUME IInv, pc = "inflight", Commit("Ok"), EndRequest,
           answer \in {"ok", "clientError"},
           UNCHANGED <<nextId, authVars, creds, backoff, late, serverVars, purged, ambiguous>>
    PROVE  IInv'
  <1> USE DEF IInv, EndRequest, authVars, serverVars
  <1>1. /\ DOMAIN rows' = DOMAIN rows \ batch
        /\ rows' \in [DOMAIN rows \ batch -> Row]
        /\ pc' = "settle" /\ outcome' = "Ok"
    BY WithoutType DEF TypeOK, Commit, Finish
  <1>2. TypeOK'
    BY <1>1 DEF TypeOK, Outcomes, Answers
  <1>3. PhaseOK' /\ AnswerOK' /\ CopiesOK'
    BY <1>1 DEF PhaseOK, AnswerOK, CopiesOK
  <1>4. NothingLost' /\ DuplicatesExplained'
    BY <1>1 DEF NothingLost, DuplicatesExplained, AnswerOK
  <1> QED
    BY <1>2, <1>3, <1>4

\* A tick that releases the batch keeps it, whatever the reason.
LEMMA ReleaseIInv ==
    ASSUME IInv, pc = "inflight", NEW result \in Outcomes, Release(result), EndRequest,
           answer # "ok",
           UNCHANGED <<nextId, authVars, creds, backoff, late, serverVars, purged, ambiguous>>
    PROVE  IInv'
  <1> USE DEF IInv, EndRequest, authVars, serverVars
  <1>1. /\ DOMAIN rows' = DOMAIN rows
        /\ rows' \in [DOMAIN rows -> Row]
        /\ pc' = "settle" /\ outcome' = result
    BY WithLeaseType, PumpAssumption DEF TypeOK, Release, Finish, NoLease
  <1>2. TypeOK'
    BY <1>1 DEF TypeOK, Answers
  <1>3. PhaseOK' /\ AnswerOK' /\ CopiesOK'
    BY <1>1 DEF PhaseOK, AnswerOK, CopiesOK
  <1>4. NothingLost' /\ DuplicatesExplained'
    BY <1>1 DEF NothingLost, DuplicatesExplained
  <1> QED
    BY <1>2, <1>3, <1>4

LEMMA AnsweredIInv ==
    ASSUME IInv, Answered2xx \/ Answered401 \/ AnsweredRetryable \/ AnsweredClientError
    PROVE  IInv'
  <1>1. CASE Answered2xx
    BY <1>1, CommitIInv DEF Answered2xx
  <1>2. CASE Answered401
    BY <1>2, ReleaseIInv DEF Answered401, Outcomes
  <1>3. CASE AnsweredRetryable
    BY <1>3, ReleaseIInv DEF AnsweredRetryable, Outcomes
  <1>4. CASE AnsweredClientError
    BY <1>4, CommitIInv DEF AnsweredClientError
  <1> QED
    BY <1>1, <1>2, <1>3, <1>4

\* An abandoned request carries a batch that is now in doubt.
LEMMA AbandonType ==
    ASSUME TypeOK, answer = "sent" => creds \in Tokens, Abandon
    PROVE  /\ late' \subseteq [ids : SUBSET (1 .. nextId - 1), token : Tokens]
           /\ \A r \in late' : r \in late \/ r.ids = batch
  BY DEF TypeOK, Abandon

LEMMA NetworkErrorIInv == ASSUME IInv, NetworkError PROVE IInv'
  <1> USE DEF IInv, NetworkError, EndRequest, authVars, serverVars
  <1>1. /\ DOMAIN rows' = DOMAIN rows
        /\ rows' \in [DOMAIN rows -> Row]
        /\ pc' = "settle" /\ outcome' = "Retryable"
    BY WithLeaseType, PumpAssumption DEF TypeOK, Release, Finish, NoLease
  <1>2. /\ late' \subseteq [ids : SUBSET (1 .. nextId - 1), token : Tokens]
        /\ \A r \in late' : r \in late \/ r.ids = batch
    BY AbandonType DEF PhaseOK
  <1>3. TypeOK'
    BY <1>1, <1>2 DEF TypeOK, Outcomes, Answers
  <1>4. PhaseOK' /\ AnswerOK' /\ CopiesOK'
    BY <1>1, <1>2 DEF PhaseOK, AnswerOK, CopiesOK
  <1>5. NothingLost' /\ DuplicatesExplained'
    BY <1>1 DEF NothingLost, DuplicatesExplained
  <1> QED
    BY <1>3, <1>4, <1>5

LEMMA SettleFailsIInv == ASSUME IInv, SettleFails PROVE IInv'
  <1> USE DEF IInv, SettleFails, Finish, EndRequest, agentVars, authVars, serverVars
  <1>1. TypeOK'
    BY DEF TypeOK, Outcomes, Answers
  <1>2. PhaseOK' /\ AnswerOK' /\ CopiesOK' /\ NothingLost' /\ DuplicatesExplained'
    BY DEF PhaseOK, AnswerOK, CopiesOK, NothingLost, DuplicatesExplained
  <1> QED
    BY <1>1, <1>2

LEMMA DoubleType == ASSUME NEW delay \in 1 .. BackoffCap PROVE Double(delay) \in 1 .. BackoffCap
  BY PumpAssumption DEF Double

\* Waiting touches nothing but the phase and the delay.
LEMMA WaitIInv ==
    ASSUME IInv, StartWait \/ Timer \/ Notify
    PROVE  IInv'
  <1> USE DEF IInv
  <1>1. /\ pc' \in {"tick", "waiting", pc} /\ (pc = "inflight" => pc' = pc)
        /\ notifyDue' \in BOOLEAN
        /\ UNCHANGED <<agentVars, token, outcome, creds, batch, answer, late, serverVars,
                       purged, ambiguous>>
    BY DEF StartWait, Timer, Notify, Listening, TypeOK, authVars
  <1>2. backoff' \in 1 .. BackoffCap
    <2>1. backoff \in 1 .. BackoffCap /\ 1 \in 1 .. BackoffCap
      BY PumpAssumption DEF TypeOK
    <2>2. Double(backoff) \in 1 .. BackoffCap /\ Double(1) \in 1 .. BackoffCap
      BY <2>1, DoubleType
    <2> QED
      BY <2>1, <2>2 DEF StartWait, Timer, Notify, WakeBackoff
  <1>3. TypeOK'
    BY <1>1, <1>2 DEF TypeOK, agentVars, serverVars
  <1>4. PhaseOK' /\ AnswerOK' /\ CopiesOK' /\ NothingLost' /\ DuplicatesExplained'
    BY <1>1 DEF PhaseOK, AnswerOK, CopiesOK, NothingLost, DuplicatesExplained, agentVars,
                serverVars
  <1> QED
    BY <1>3, <1>4

-----------------------------------------------------------------------------
(* The user, the backend, the process.                                      *)

LEMMA UserIInv ==
    ASSUME IInv, (\E t \in Tokens : PersistPairing(t)) \/ Logout \/ \E t \in Tokens : RevokeToken(t)
    PROVE  IInv'
  <1> USE DEF IInv
  <1>1. /\ UNCHANGED <<agentVars, pumpVars, answer, late, stored, refused, purged, ambiguous>>
        /\ token' \in Tokens \cup {NoToken}
        /\ notifyDue' \in BOOLEAN
        /\ issued' \subseteq Tokens
        /\ valid' \subseteq issued'
    BY DEF PersistPairing, Logout, RevokeToken, TypeOK, authVars, serverVars
  <1>2. TypeOK'
    BY <1>1 DEF TypeOK, agentVars, pumpVars
  <1>3. PhaseOK' /\ AnswerOK' /\ CopiesOK' /\ NothingLost' /\ DuplicatesExplained'
    BY <1>1 DEF PhaseOK, AnswerOK, CopiesOK, NothingLost, DuplicatesExplained, agentVars,
                pumpVars
  <1> QED
    BY <1>2, <1>3

\* The backend stores the valid part of the current batch; the pump will
\* learn that it did, or the batch is in doubt.
LEMMA StoreBatchIInv ==
    ASSUME IInv, answer = "sent",
           AddCopies(batch \ Invalid), refused' = refused \cup (batch \cap Invalid),
           \/ answer' = "ok" /\ ambiguous' = ambiguous
           \/ answer' = "unavailable" /\ ambiguous' = ambiguous \cup batch,
           UNCHANGED <<agentVars, authVars, pumpVars, late, issued, valid, purged>>
    PROVE  IInv'
  <1> USE DEF IInv, agentVars, authVars, pumpVars
  <1>1. batch \subseteq 1 .. nextId - 1 /\ 1 .. nextId - 1 \subseteq Ids
    BY PumpAssumption DEF TypeOK, Ids
  <1>2. /\ stored' \in [Ids -> 0 .. 2]
        /\ \A id \in Ids : stored[id] > 0 => stored'[id] > 0
        /\ \A id \in Ids \cap (batch \ Invalid) : stored'[id] > 0
        /\ \A id \in Ids \ (batch \ Invalid) : stored'[id] = stored[id]
        /\ \A id \in Ids : stored'[id] > 1 => stored[id] > 0
    BY AddCopiesType DEF TypeOK
  <1>3. TypeOK'
    BY <1>1, <1>2 DEF TypeOK, Answers
  <1>4. PhaseOK'
    BY DEF PhaseOK
  <1>5. AnswerOK'
    BY <1>1, <1>2 DEF AnswerOK
  <1>6. CopiesOK'
    <2>1. \A id \in DOMAIN rows \cup batch :
             stored'[id] > 0 => id \in ambiguous' \/ (answer' = "ok" /\ id \in batch)
      BY <1>1, <1>2 DEF CopiesOK, TypeOK
    <2>2. \A id \in Ids : id >= nextId => stored'[id] = 0
      BY <1>1, <1>2 DEF CopiesOK, TypeOK, Ids
    <2>3. \A r \in late : r.ids \subseteq ambiguous'
      BY DEF CopiesOK
    <2> QED
      BY <2>1, <2>2, <2>3 DEF CopiesOK
  <1>7. NothingLost'
    BY <1>1, <1>2 DEF NothingLost
  <1>8. DuplicatesExplained'
    BY <1>1, <1>2 DEF CopiesOK, DuplicatesExplained
  <1> QED
    BY <1>3, <1>4, <1>5, <1>6, <1>7, <1>8

LEMMA ServerIInv ==
    ASSUME IInv, ServerAccepts \/ ServerUnauthorized \/ ServerUnavailable \/ ServerRefuses
    PROVE  IInv'
  <1>1. CASE ServerAccepts
    BY <1>1, StoreBatchIInv DEF ServerAccepts
  <1>2. CASE ServerUnavailable
    <2>1. CASE UNCHANGED <<stored, refused, ambiguous>>
      <3> USE DEF IInv, ServerUnavailable, agentVars, authVars, pumpVars
      <3>1. TypeOK'
        BY <1>2, <2>1 DEF TypeOK, Answers
      <3>2. PhaseOK' /\ AnswerOK' /\ CopiesOK' /\ NothingLost' /\ DuplicatesExplained'
        BY <1>2, <2>1 DEF PhaseOK, AnswerOK, CopiesOK, NothingLost, DuplicatesExplained
      <3> QED
        BY <3>1, <3>2
    <2>2. CASE ~UNCHANGED <<stored, refused, ambiguous>>
      BY <1>2, <2>2, StoreBatchIInv DEF ServerUnavailable
    <2> QED
      BY <2>1, <2>2
  <1>3. CASE ServerUnauthorized
    <2> USE DEF IInv, ServerUnauthorized, agentVars, authVars, pumpVars, serverVars
    <2>1. TypeOK'
      BY <1>3 DEF TypeOK, Answers
    <2>2. PhaseOK' /\ AnswerOK' /\ CopiesOK' /\ NothingLost' /\ DuplicatesExplained'
      BY <1>3 DEF PhaseOK, AnswerOK, CopiesOK, NothingLost, DuplicatesExplained
    <2> QED
      BY <2>1, <2>2
  <1>4. CASE ServerRefuses
    <2> USE DEF IInv, ServerRefuses, agentVars, authVars, pumpVars
    <2>1. TypeOK'
      BY <1>4 DEF TypeOK, Answers
    <2>2. PhaseOK' /\ AnswerOK' /\ CopiesOK' /\ NothingLost' /\ DuplicatesExplained'
      BY <1>4 DEF PhaseOK, AnswerOK, CopiesOK, NothingLost, DuplicatesExplained
    <2> QED
      BY <2>1, <2>2
  <1> QED
    BY <1>1, <1>2, <1>3, <1>4

\* A late request stores only events that were in doubt already.
LEMMA LateArrivalIInv == ASSUME IInv, NEW r \in late, LateArrival(r) PROVE IInv'
  <1> USE DEF IInv, LateArrival, agentVars, authVars, pumpVars
  <1>1. /\ r.ids \subseteq 1 .. nextId - 1 /\ 1 .. nextId - 1 \subseteq Ids
        /\ r.ids \subseteq ambiguous
    BY PumpAssumption DEF TypeOK, Ids, CopiesOK
  <1>2. /\ stored' \in [Ids -> 0 .. 2]
        /\ \A id \in Ids : stored[id] > 0 => stored'[id] > 0
        /\ \A id \in Ids \ r.ids : stored'[id] = stored[id]
    <2>1. CASE AddCopies(r.ids \ Invalid)
      BY <2>1, AddCopiesType DEF TypeOK
    <2>2. CASE stored' = stored
      BY <2>2 DEF TypeOK
    <2> QED
      BY <2>1, <2>2
  <1>3. refused \subseteq refused' /\ refused' \subseteq 1 .. nextId - 1
    BY <1>1 DEF TypeOK
  <1>4. TypeOK'
    BY <1>2, <1>3 DEF TypeOK
  <1>5. PhaseOK'
    BY DEF PhaseOK
  <1>6. AnswerOK'
    BY <1>1, <1>2, <1>3 DEF AnswerOK, TypeOK
  <1>7. CopiesOK'
    <2>1. \A id \in DOMAIN rows \cup batch :
             stored'[id] > 0 => id \in ambiguous' \/ (answer' = "ok" /\ id \in batch)
      BY <1>1, <1>2 DEF CopiesOK, TypeOK
    <2>2. \A id \in Ids : id >= nextId => stored'[id] = 0
      BY <1>1, <1>2 DEF CopiesOK, TypeOK, Ids
    <2>3. \A q \in late' : q.ids \subseteq ambiguous'
      BY DEF CopiesOK
    <2> QED
      BY <2>1, <2>2, <2>3 DEF CopiesOK
  <1>8. NothingLost'
    BY <1>1, <1>2, <1>3 DEF NothingLost
  <1>9. DuplicatesExplained'
    BY <1>1, <1>2 DEF DuplicatesExplained
  <1> QED
    BY <1>4, <1>5, <1>6, <1>7, <1>8, <1>9

LEMMA RestartIInv == ASSUME IInv, Restart PROVE IInv'
  <1> USE DEF IInv, Restart, EndRequest, serverVars
  <1>1. DOMAIN rows' = DOMAIN rows /\ rows' \in [DOMAIN rows -> Row]
    <2>1. PICK keyLost \in BOOLEAN :
             rows' = [id \in DOMAIN rows |->
                         [rows[id] EXCEPT !.readable = @ /\ ~keyLost]]
      OBVIOUS
    <2>2. ASSUME NEW row \in Row
          PROVE  [row EXCEPT !.readable = @ /\ ~keyLost] \in Row
      BY DEF Row
    <2> QED
      BY <2>1, <2>2 DEF TypeOK
  <1>2. /\ late' \subseteq [ids : SUBSET (1 .. nextId - 1), token : Tokens]
        /\ \A r \in late' : r \in late \/ r.ids = batch
    BY AbandonType DEF PhaseOK
  <1>3. TypeOK'
    <2>1. backoff' \in 1 .. BackoffCap
      BY PumpAssumption
    <2> QED
      BY <1>1, <1>2, <2>1 DEF TypeOK, Outcomes, Answers
  <1>4. PhaseOK' /\ AnswerOK' /\ CopiesOK'
    BY <1>1, <1>2 DEF PhaseOK, AnswerOK, CopiesOK
  <1>5. NothingLost' /\ DuplicatesExplained'
    BY <1>1 DEF NothingLost, DuplicatesExplained
  <1> QED
    BY <1>3, <1>4, <1>5

LEMMA StutterIInv == ASSUME IInv, UNCHANGED vars PROVE IInv'
  BY DEF IInv, vars, TypeOK, PhaseOK, AnswerOK, CopiesOK, NothingLost, DuplicatesExplained

LEMMA NextIInv == IInv /\ [Next]_vars => IInv'
  <1> SUFFICES ASSUME IInv, [Next]_vars PROVE IInv'
    OBVIOUS
  <1>1. CASE StoreSteps
    BY <1>1, PushIInv, GcIInv, ClockTickIInv DEF StoreSteps
  <1>2. CASE PumpSteps
    BY <1>2, ReadCredsIInv, LeaseBatchIInv, LeaseFailsIInv, AnsweredIInv, NetworkErrorIInv,
       SettleFailsIInv, WaitIInv DEF PumpSteps
  <1>3. CASE UserSteps
    BY <1>3, UserIInv, WaitIInv DEF UserSteps
  <1>4. CASE ServerSteps
    BY <1>4, ServerIInv, LateArrivalIInv, UserIInv DEF ServerSteps
  <1>5. CASE Restart
    BY <1>5, RestartIInv
  <1>6. CASE UNCHANGED vars
    BY <1>6, StutterIInv
  <1> QED
    BY <1>1, <1>2, <1>3, <1>4, <1>5, <1>6 DEF Next

-----------------------------------------------------------------------------
\* The inductive invariant holds in every reachable state of the agent, the
\* wire and the backend (ingest.rs, store.rs, handler.go).
THEOREM Invariance == Spec => []IInv
  BY InitIInv, NextIInv, PTL DEF Spec

\* Every variable keeps its type; in particular the retry delay never passes
\* its ceiling (ingest.rs:109).
THEOREM TypeCorrect == Spec => []TypeOK
  <1>1. IInv => TypeOK
    BY DEF IInv
  <1> QED
    BY <1>1, Invariance, PTL

\* No answer, timeout, failed write, crash or race loses an event that the
\* outbox accepted (retry policy, ingest.rs:3-10).
THEOREM NoEventLost == Spec => []NothingLost
  <1>1. IInv => NothingLost
    BY DEF IInv
  <1> QED
    BY <1>1, Invariance, PTL

\* The backend stores an event twice only when an attempt to deliver it was
\* left in doubt (ingest.rs:151-191).
THEOREM DuplicatesOnlyInDoubt == Spec => []DuplicatesExplained
  <1>1. IInv => DuplicatesExplained
    BY DEF IInv
  <1> QED
    BY <1>1, Invariance, PTL

-----------------------------------------------------------------------------
(* Refinement: every step of the pump is a step of EventDelivery or leaves  *)
(* what EventDelivery sees alone.                                           *)

Delivered == {id \in Ids : stored[id] > 0}

\* Adding copies of some events is having them delivered.
LEMMA AddCopiesDelivers ==
    ASSUME stored \in [Ids -> 0 .. 2], NEW ids \in SUBSET Ids, AddCopies(ids)
    PROVE  Delivered' = Delivered \cup ids
  BY AddCopiesType DEF Delivered

\* The backend judging part of what was accepted is a Judge step.
LEMMA JudgeStep ==
    ASSUME NEW good \in SUBSET (1 .. nextId - 1), NEW bad \in SUBSET (1 .. nextId - 1),
           Delivered' = Delivered \cup good, refused' = refused \cup bad,
           UNCHANGED <<agentVars, purged>>
    PROVE  Delivery!Next
  <1>1. Delivery!Judge(good, bad)
    BY DEF Delivery!Judge, Delivered, agentVars
  <1> QED
    BY <1>1 DEF Delivery!Next

\* Deleting a batch that the backend has judged is a Settle step.
LEMMA SettleStep ==
    ASSUME IInv, answer \in {"ok", "clientError"}, rows' = Without(batch),
           UNCHANGED <<nextId, stored, refused, purged>>
    PROVE  Delivery!Next
  <1>1. DOMAIN rows' = DOMAIN rows \ batch
    BY DEF Without
  <1>2. batch \cap DOMAIN rows \subseteq {id \in Ids : stored[id] > 0} \cup (refused \cup purged)
    BY PumpAssumption DEF IInv, AnswerOK, TypeOK, Ids
  <1>3. Delivery!Settle(batch \cap DOMAIN rows)
    BY <1>1, <1>2 DEF Delivery!Settle
  <1> QED
    BY <1>3 DEF Delivery!Next

\* Steps that neither delete rows nor judge events are stutters.
LEMMA StutterStep ==
    ASSUME DOMAIN rows' = DOMAIN rows, UNCHANGED <<nextId, stored, refused, purged>>
    PROVE  UNCHANGED Delivery!vars
  BY DEF Delivery!vars

LEMMA StoreStepsRefine == ASSUME IInv, StoreSteps PROVE [Delivery!Next]_Delivery!vars
  <1>1. CASE Push
    <2>1. /\ nextId \in Ids \ (1 .. nextId - 1)
          /\ 1 .. nextId' - 1 = (1 .. nextId - 1) \cup {nextId}
          /\ DOMAIN rows' = DOMAIN rows \cup {nextId}
      BY <1>1 DEF Push, IInv, TypeOK, Ids
    <2>2. Delivery!Accept(nextId)
      BY <1>1, <2>1 DEF Delivery!Accept, Push, serverVars
    <2> QED
      BY <2>1, <2>2 DEF Delivery!Next
  <1>2. CASE Gc
    <2>1. DOMAIN rows' = DOMAIN rows \ Expired /\ Expired \subseteq DOMAIN rows
      BY <1>2 DEF Gc, Without, Expired
    <2>2. Delivery!Purge(Expired)
      BY <1>2, <2>1 DEF Delivery!Purge, Gc, serverVars
    <2> QED
      BY <2>1, <2>2 DEF Delivery!Next
  <1>3. CASE ClockTick
    BY <1>3, StutterStep DEF ClockTick, serverVars
  <1> QED
    BY <1>1, <1>2, <1>3 DEF StoreSteps

LEMMA PumpStepsRefine == ASSUME IInv, PumpSteps PROVE [Delivery!Next]_Delivery!vars
  <1>1. CASE LeaseBatch
    <2> DEFINE picked == Oldest(Eligible, BatchSize)
    <2>0. PICK gone \in {picked \ {id \in picked : rows[id].readable}, {}} :
              /\ rows' = [id \in DOMAIN rows \ gone |-> WithLease(picked, LeaseSecs)[id]]
              /\ purged' = purged \cup gone
      BY <1>1 DEF LeaseBatch
    <2>1. /\ DOMAIN rows' = DOMAIN rows \ gone
          /\ gone \subseteq DOMAIN rows
          /\ purged' = purged \cup gone
          /\ UNCHANGED <<nextId, stored, refused>>
      BY <1>1, <2>0 DEF LeaseBatch, serverVars, Oldest, Eligible
    <2>2. Delivery!Purge(gone)
      BY <2>1 DEF Delivery!Purge
    <2> QED
      BY <2>1, <2>2 DEF Delivery!Next
  <1>2. CASE Answered2xx
    BY <1>2, SettleStep DEF Answered2xx, Commit, serverVars
  <1>3. CASE AnsweredClientError
    BY <1>3, SettleStep DEF AnsweredClientError, Commit, serverVars
  <1>4. CASE Answered401 \/ AnsweredRetryable \/ NetworkError
    BY <1>4, StutterStep DEF Answered401, AnsweredRetryable, NetworkError, Release, WithLease,
       serverVars
  <1>5. CASE ReadCreds \/ LeaseFails \/ SettleFails \/ StartWait \/ Timer
    BY <1>5, StutterStep DEF ReadCreds, LeaseFails, SettleFails, StartWait, Timer, agentVars,
       serverVars
  <1> QED
    BY <1>1, <1>2, <1>3, <1>4, <1>5 DEF PumpSteps

LEMMA ServerStepsRefine == ASSUME IInv, ServerSteps PROVE [Delivery!Next]_Delivery!vars
  <1> USE PumpAssumption DEF IInv, TypeOK
  <1>1. ASSUME NEW ids \in SUBSET (1 .. nextId - 1), AddCopies(ids \ Invalid),
               refused' = refused \cup (ids \cap Invalid), UNCHANGED <<agentVars, purged>>
        PROVE  Delivery!Next
    <2>1. ids \ Invalid \in SUBSET Ids
      BY <1>1 DEF Ids
    <2>2. Delivered' = Delivered \cup (ids \ Invalid)
      BY <1>1, <2>1, AddCopiesDelivers
    <2> QED
      BY <1>1, <2>2, JudgeStep
  <1>2. CASE ServerAccepts
    BY <1>1, <1>2 DEF ServerAccepts
  <1>3. CASE ServerUnavailable
    BY <1>1, <1>3, StutterStep DEF ServerUnavailable, agentVars
  <1>4. CASE ServerRefuses
    <2>1. Delivered' = Delivered \cup {}
      BY <1>4 DEF ServerRefuses, Delivered
    <2> QED
      BY <1>4, <2>1, JudgeStep DEF ServerRefuses
  <1>5. CASE \E r \in late : LateArrival(r)
    <2>1. PICK r \in late : LateArrival(r)
      BY <1>5
    <2> QED
      BY <1>1, <2>1, StutterStep DEF LateArrival, agentVars
  <1>6. CASE ServerUnauthorized \/ \E t \in Tokens : RevokeToken(t)
    BY <1>6, StutterStep DEF ServerUnauthorized, RevokeToken, agentVars, serverVars
  <1> QED
    BY <1>2, <1>3, <1>4, <1>5, <1>6 DEF ServerSteps

\* The pump, with every fault it may meet, implements at-least-once delivery
\* (retry policy, ingest.rs:3-10).
THEOREM PumpImplementsDelivery == Spec => ImplementsDelivery
  <1>1. Init => Delivery!Init
    BY DEF Init, Delivery!Init
  <1>2. IInv /\ [Next]_vars => [Delivery!Next]_Delivery!vars
    <2> SUFFICES ASSUME IInv, [Next]_vars PROVE [Delivery!Next]_Delivery!vars
      OBVIOUS
    <2>1. CASE StoreSteps \/ PumpSteps \/ ServerSteps
      BY <2>1, StoreStepsRefine, PumpStepsRefine, ServerStepsRefine
    <2>2. CASE UserSteps
      BY <2>2, StutterStep DEF UserSteps, PersistPairing, Logout, Notify, agentVars, serverVars
    <2>3. CASE Restart
      BY <2>3, StutterStep DEF Restart, serverVars
    <2>4. CASE UNCHANGED vars
      BY <2>4, StutterStep DEF vars
    <2> QED
      BY <2>1, <2>2, <2>3, <2>4 DEF Next
  <1> QED
    BY <1>1, <1>2, Invariance, PTL DEF Spec, ImplementsDelivery, Delivery!Spec

-----------------------------------------------------------------------------
(* What EventDelivery promises, and what the pump therefore keeps.          *)

\* Whoever follows EventDelivery holds, stores and refuses only what a producer
\* has handed over.
THEOREM DeliveryTypeCorrect == Delivery!Spec => []Delivery!TypeOK
<1> USE DEF Delivery!TypeOK
<1>1. Delivery!Init => Delivery!TypeOK
  BY DEF Delivery!Init
<1>2. Delivery!TypeOK /\ [Delivery!Next]_Delivery!vars => Delivery!TypeOK'
  <2> SUFFICES ASSUME Delivery!TypeOK, [Delivery!Next]_Delivery!vars
               PROVE  Delivery!TypeOK'
    OBVIOUS
  <2>1. ASSUME NEW e \in Ids, Delivery!Accept(e) PROVE Delivery!TypeOK'
    BY <2>1 DEF Delivery!Accept
  <2>2. ASSUME NEW good \in SUBSET (1 .. nextId - 1),
               NEW bad \in SUBSET (1 .. nextId - 1), Delivery!Judge(good, bad)
        PROVE  Delivery!TypeOK'
    BY <2>2 DEF Delivery!Judge
  <2>3. ASSUME NEW gone \in SUBSET DOMAIN rows, Delivery!Purge(gone) PROVE Delivery!TypeOK'
    BY <2>3 DEF Delivery!Purge
  <2>4. ASSUME NEW done \in SUBSET DOMAIN rows, Delivery!Settle(done) PROVE Delivery!TypeOK'
    BY <2>4 DEF Delivery!Settle
  <2>5. CASE UNCHANGED Delivery!vars
    BY <2>5 DEF Delivery!vars
  <2> QED
    BY <2>1, <2>2, <2>3, <2>4, <2>5 DEF Delivery!Next
<1> QED
  BY <1>1, <1>2, PTL DEF Delivery!Spec

\* At-least-once delivery itself loses no event, whatever is stored, refused,
\* purged or forgotten: what implements EventDelivery inherits this
\* (ingest.rs:3-10).
THEOREM DeliveryLosesNothing == Delivery!Spec => []Delivery!NothingLost
<1> USE DEF Delivery!NothingLost
<1>1. Delivery!Init => Delivery!NothingLost
  BY DEF Delivery!Init
<1>2. Delivery!NothingLost /\ [Delivery!Next]_Delivery!vars => Delivery!NothingLost'
  <2> SUFFICES ASSUME Delivery!NothingLost, [Delivery!Next]_Delivery!vars
               PROVE  Delivery!NothingLost'
    OBVIOUS
  <2>1. ASSUME NEW e, Delivery!Accept(e) PROVE Delivery!NothingLost'
    BY <2>1 DEF Delivery!Accept
  <2>2. ASSUME NEW good, NEW bad, Delivery!Judge(good, bad)
        PROVE  Delivery!NothingLost'
    BY <2>2 DEF Delivery!Judge
  <2>3. ASSUME NEW gone, Delivery!Purge(gone) PROVE Delivery!NothingLost'
    BY <2>3 DEF Delivery!Purge
  <2>4. ASSUME NEW done, Delivery!Settle(done) PROVE Delivery!NothingLost'
    BY <2>4 DEF Delivery!Settle
  <2>5. CASE UNCHANGED Delivery!vars
    BY <2>5 DEF Delivery!vars
  <2> QED
    BY <2>1, <2>2, <2>3, <2>4, <2>5 DEF Delivery!Next
<1> QED
  BY <1>1, <1>2, PTL DEF Delivery!Spec

\* The promise reaches the pump through the refinement alone: seen through the
\* mapping, no event the outbox accepted is lost (ingest.rs:3-10).
THEOREM PumpKeepsThePromise == Spec => []Delivery!NothingLost
  BY PumpImplementsDelivery, DeliveryLosesNothing, PTL DEF ImplementsDelivery
=============================================================================
