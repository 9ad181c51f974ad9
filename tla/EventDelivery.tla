--------------------------- MODULE EventDelivery ---------------------------
(***************************************************************************)
(* What every client of Eye of Providence promises about the activity      *)
(* events it accepts: an event stays in the client's outbox until the      *)
(* backend has it, the backend has refused it, or the client has purged it *)
(* for a reason of its own (too old, unreadable).  Delivery is at least    *)
(* once: the backend may be handed an event it already has, and may be     *)
(* handed one the client has already given up on.                          *)
(*                                                                         *)
(* The promise is the retry policy in the header of                        *)
(* agent/src-tauri/src/core/ingest.rs (lines 3-10).  IngestPump implements *)
(* this module.                                                            *)
(***************************************************************************)
CONSTANT Events

VARIABLES
    accepted,   \* events a producer has handed to the client
    outbox,     \* events the client still holds
    delivered,  \* events the backend has stored at least once
    discarded   \* events refused by the backend or purged by the client

vars == <<accepted, outbox, delivered, discarded>>

TypeOK ==
    /\ accepted \subseteq Events
    /\ outbox \subseteq accepted
    /\ delivered \subseteq accepted
    /\ discarded \subseteq accepted

Init ==
    /\ accepted = {}
    /\ outbox = {}
    /\ delivered = {}
    /\ discarded = {}

Accept(e) ==
    /\ e \in Events \ accepted
    /\ accepted' = accepted \cup {e}
    /\ outbox' = outbox \cup {e}
    /\ UNCHANGED <<delivered, discarded>>

\* The backend handles a batch: it stores some events and refuses others.
Judge(stored, refused) ==
    /\ delivered' = delivered \cup stored
    /\ discarded' = discarded \cup refused
    /\ UNCHANGED <<accepted, outbox>>

\* The client gives up on events it still holds.
Purge(gone) ==
    /\ outbox' = outbox \ gone
    /\ discarded' = discarded \cup gone
    /\ UNCHANGED <<accepted, delivered>>

\* The client forgets events whose fate is decided.
Settle(done) ==
    /\ done \subseteq delivered \cup discarded
    /\ outbox' = outbox \ done
    /\ UNCHANGED <<accepted, delivered, discarded>>

Next ==
    \/ \E e \in Events : Accept(e)
    \/ \E stored, refused \in SUBSET accepted : Judge(stored, refused)
    \/ \E gone \in SUBSET outbox : Purge(gone)
    \/ \E done \in SUBSET outbox : Settle(done)

Spec == Init /\ [][Next]_vars

\* No event is lost: an accepted event is held, delivered or discarded for a
\* stated reason (ingest.rs:3-10).
NothingLost == accepted \subseteq outbox \cup delivered \cup discarded
=============================================================================
