--------------------------- MODULE DevicePairing ---------------------------
(***************************************************************************)
(* Pairing a client with an account: the desktop agent                     *)
(* (agent/src/shared/ui/pairing-wizard.tsx), the browser extension         *)
(* (browser-extension/src/shared/ui/pairing-wizard.tsx) or the VS Code     *)
(* extension (pairCmd in ide-vscode/src/extension.ts).  The client asks    *)
(* the backend for a code, the user types it into the dashboard, and the   *)
(* client polls until the backend hands over the API token that the claim  *)
(* minted (backend/internal/devices/pairing.go).                           *)
(*                                                                         *)
(* Poll is two steps on the backend, reading the row and then clearing the *)
(* plaintext, in no transaction, and answers can be lost.  The clients     *)
(* differ in what they make of an answer.  In the agent and the browser    *)
(* polls overlap: a timer sends one every 2.5 s whether or not the last    *)
(* one has been answered.  The agent stores the token before the wizard    *)
(* hears of it; its page re-renders every 3 s, which restarts the wizard's *)
(* effect and makes it ignore the answers to the polls already sent.  The  *)
(* browser's wizard stores the token itself, if it still listens.  The     *)
(* editor awaits each poll, stores what it brings, and looks at its own    *)
(* clock and at the cancel button in between.                              *)
(*                                                                         *)
(* The row of a code is never deleted: GCExpired has no caller.            *)
(***************************************************************************)
EXTENDS Integers, FiniteSets

CONSTANTS
    Pairs,     \* pairing codes ever begun
    Tokens,    \* API tokens ever minted
    Slots,     \* bound: polls under way at a time
    NoPair,
    NoToken,
    Clients,   \* subset of {"agent", "browser", "ide"}
    Faults     \* subset of {"network", "keyring", "postgres", "account"}

ASSUME PairingAssumption ==
    /\ NoPair \notin Pairs
    /\ NoToken \notin Tokens
    /\ Clients \subseteq {"agent", "browser", "ide"}
    /\ Faults \subseteq {"network", "keyring", "postgres", "account"}

VARIABLES
    client,    \* the client this behaviour is about
    minted,    \* tokens a claim has created
    codes,     \* pairing_codes: [expired, claimed, token, plaintext] per begun pair
    active,    \* api_tokens: tokens that exist and are not revoked
    wizard,    \* [phase, pair] of the wizard, or of pairCmd
    polls,     \* the poll in each slot
    keyring,   \* the token the client has stored
    handed,    \* answers that took each token out of its row: 0, 1 or 2 (= many)
    dropped    \* tokens whose only copy was lost, replaced or logged out

vars == <<client, minted, codes, active, wizard, polls, keyring, handed, dropped>>

MaybeToken == Tokens \cup {NoToken}
Begun == DOMAIN codes
Code == [expired : BOOLEAN, claimed : BOOLEAN, token : MaybeToken, plaintext : MaybeToken]

\* heeded: the wizard still listens; earlier: tokens handed out before it was sent
Poll == [stage : {"free", "sent", "read", "answered"}, pair : Pairs \cup {NoPair},
         answer : {"none", "pending", "expired", "claimed", "error"},
         token : MaybeToken, heeded : BOOLEAN, earlier : SUBSET Tokens]

NewCode == [expired |-> FALSE, claimed |-> FALSE, token |-> NoToken, plaintext |-> NoToken]

FreeSlot == [stage |-> "free", pair |-> NoPair, answer |-> "none", token |-> NoToken,
             heeded |-> FALSE, earlier |-> {}]

TypeOK ==
    /\ client \in Clients
    /\ Begun \subseteq Pairs
    /\ codes \in [Begun -> Code]
    /\ \A p \in Begun :
          ~codes[p].claimed => codes[p].token = NoToken /\ codes[p].plaintext = NoToken
    /\ minted \subseteq Tokens
    /\ active \subseteq minted
    /\ wizard \in [phase : {"idle", "waiting", "claimed", "expired"}, pair : Begun \cup {NoPair}]
    /\ polls \in [Slots -> Poll]
    /\ keyring \in MaybeToken
    /\ handed \in [Tokens -> 0 .. 2]
    /\ dropped \subseteq Tokens

Init ==
    /\ client \in Clients
    /\ codes = [p \in {} |-> NewCode]
    /\ minted = {}
    /\ active = {}
    /\ wizard = [phase |-> "idle", pair |-> NoPair]
    /\ polls = [q \in Slots |-> FreeSlot]
    /\ keyring = NoToken
    /\ handed = [t \in Tokens |-> 0]
    /\ dropped = {}

-----------------------------------------------------------------------------
(* The wizard and what surrounds it.                                        *)

\* Cleaning up the wizard's effect makes it ignore the polls under way; the
\* editor's loop takes the answer it awaits, whatever happens meanwhile.
Unheeded ==
    [q \in Slots |-> IF polls[q].stage = "free" \/ client = "ide" THEN polls[q]
                     ELSE [polls[q] EXCEPT !.heeded = FALSE]]

Idle == wizard' = [phase |-> "idle", pair |-> NoPair]

\* start: PairBegin inserts the row; when its answer is lost the client
\* shows an error, from which the user can only start again.  The editor's
\* command can be given when it is paired as well.
Begin(p) ==
    /\ wizard.phase \in {"idle", "expired"}
    /\ keyring = NoToken \/ client = "ide"
    /\ p \in Pairs \ Begun
    /\ codes' = [x \in Begun \cup {p} |-> IF x = p THEN NewCode ELSE codes[x]]
    /\ \/ wizard' = [phase |-> "waiting", pair |-> p]
       \/ "network" \in Faults /\ Idle
    /\ UNCHANGED <<client, minted, active, polls, keyring, handed, dropped>>

\* The cancel button; for the browser also a popup that closes.
Cancel ==
    /\ wizard.phase = "waiting"
    /\ Idle
    /\ polls' = Unheeded
    /\ UNCHANGED <<client, minted, codes, active, keyring, handed, dropped>>

\* The agent's refresh, every 3 s: a paired account replaces the wizard,
\* otherwise the new onClaimed callback restarts its effect.
Refresh ==
    /\ client = "agent"
    /\ \/ keyring # NoToken /\ Idle
       \/ keyring = NoToken /\ UNCHANGED wizard
    /\ polls' = Unheeded
    /\ UNCHANGED <<client, minted, codes, active, keyring, handed, dropped>>

\* The popup and the options page hear of the token that was stored and show
\* the connection in the wizard's place.
TokenShows ==
    /\ client = "browser" /\ keyring # NoToken
    /\ Idle
    /\ polls' = Unheeded
    /\ UNCHANGED <<client, minted, codes, active, keyring, handed, dropped>>

\* The editor has a poll of the code it waits for under way.
Awaiting == \E r \in Slots : polls[r].stage # "free" /\ polls[r].pair = wizard.pair

\* The timer of the wizard, or the next turn of the editor's loop.
SendPoll(q) ==
    /\ wizard.phase = "waiting"
    /\ client = "ide" => ~Awaiting
    /\ polls[q].stage = "free"
    /\ polls' = [polls EXCEPT ![q] =
                    [stage |-> "sent", pair |-> wizard.pair, answer |-> "none",
                     token |-> NoToken, heeded |-> TRUE,
                     earlier |-> {t \in Tokens : handed[t] > 0}]]
    /\ UNCHANGED <<client, minted, codes, active, wizard, keyring, handed, dropped>>

\* The editor's loop ends by its own clock, which began after the backend's,
\* whether or not the code was claimed.
TimesOut ==
    /\ client = "ide" /\ wizard.phase = "waiting" /\ ~Awaiting
    /\ codes[wizard.pair].expired
    /\ wizard' = [phase |-> "expired", pair |-> NoPair]
    /\ UNCHANGED <<client, minted, codes, active, polls, keyring, handed, dropped>>

\* Leaving the page unmounts the wizard; the editor's message is closed.
LeavePage ==
    /\ wizard.phase \in {"claimed", "expired"}
    /\ Idle
    /\ polls' = Unheeded
    /\ UNCHANGED <<client, minted, codes, active, keyring, handed, dropped>>

\* Logging out shows the wizard anew, and leaves the editor's loop alone.
logout ==
    /\ keyring # NoToken
    /\ dropped' = dropped \cup {keyring}
    /\ keyring' = NoToken
    /\ IF client = "ide" THEN UNCHANGED wizard ELSE Idle
    /\ polls' = Unheeded
    /\ UNCHANGED <<client, minted, codes, active, handed>>

-----------------------------------------------------------------------------
(* The backend.                                                             *)

\* The ten minutes of a code pass.
Expire(p) ==
    /\ p \in Begun /\ ~codes[p].expired
    /\ codes' = [codes EXCEPT ![p].expired = TRUE]
    /\ UNCHANGED <<client, minted, active, wizard, polls, keyring, handed, dropped>>

\* (mutant) the claim does not set claimed_at
ClaimUndated(p, t) ==
    /\ p \in Begun /\ ~codes[p].claimed /\ ~codes[p].expired
    /\ t \in Tokens \ minted
    /\ codes' = [codes EXCEPT ![p] = [@ EXCEPT !.token = t, !.plaintext = t]]
    /\ minted' = minted \cup {t}
    /\ active' = active \cup {t}
    /\ UNCHANGED <<client, wizard, polls, keyring, handed, dropped>>

\* Claim holds the row FOR UPDATE until it commits, hence one step.
Claim(p, t) ==
    /\ p \in Begun /\ ~codes[p].claimed /\ ~codes[p].expired
    /\ t \in Tokens \ minted
    /\ codes' = [codes EXCEPT ![p] = [@ EXCEPT !.claimed = TRUE, !.token = t,
                                              !.plaintext = t]]
    /\ minted' = minted \cup {t}
    /\ active' = active \cup {t}
    /\ UNCHANGED <<client, wizard, polls, keyring, handed, dropped>>

Answer(q, answer, token) ==
    polls' = [polls EXCEPT ![q] = [@ EXCEPT !.stage = "answered", !.answer = answer,
                                            !.token = token]]

\* (mutant) the code's expiry is not checked
PollReadsNoExpiry(q) ==
    LET code == codes[polls[q].pair]
    IN  /\ polls[q].stage = "sent"
        /\ \/ /\ ~code.claimed \/ code.token = NoToken
              /\ Answer(q, "pending", NoToken)
           \/ /\ code.claimed /\ code.token # NoToken
              /\ polls' = [polls EXCEPT ![q] = [@ EXCEPT !.stage = "read",
                                                       !.token = code.plaintext]]
        /\ UNCHANGED <<client, minted, codes, active, wizard, keyring, handed, dropped>>

\* Poll, up to and including its SELECT on pairing_codes.
PollReads(q) ==
    LET code == codes[polls[q].pair]
    IN  /\ polls[q].stage = "sent"
        /\ \/ /\ ~code.claimed /\ code.expired
              /\ Answer(q, "expired", NoToken)
           \/ /\ ~code.claimed /\ ~code.expired
              /\ Answer(q, "pending", NoToken)
           \/ /\ code.claimed /\ code.token = NoToken
              /\ Answer(q, "pending", NoToken)
           \/ /\ code.claimed /\ code.token # NoToken
              /\ polls' = [polls EXCEPT ![q] = [@ EXCEPT !.stage = "read",
                                                       !.token = code.plaintext]]
        /\ UNCHANGED <<client, minted, codes, active, wizard, keyring, handed, dropped>>

\* (mutant) the plaintext stays in the row
PollAnswersKeeping(q) ==
    LET p     == polls[q].pair
        token == polls[q].token
    IN  /\ polls[q].stage = "read"
        /\ IF codes[p].token = NoToken
           THEN /\ Answer(q, "error", NoToken)
                /\ UNCHANGED handed
           ELSE /\ Answer(q, "claimed", token)
                /\ handed' = [t \in Tokens |-> IF t # token THEN handed[t]
                                               ELSE IF handed[t] = 0 THEN 1 ELSE 2]
        /\ UNCHANGED <<client, minted, codes, active, wizard, keyring, dropped>>

\* The rest of Poll: it looks up the token's row, which fails when the
\* account has been deleted since, clears the plaintext it has read (an error
\* is ignored) and answers.
PollAnswers(q) ==
    LET p     == polls[q].pair
        token == polls[q].token
    IN  /\ polls[q].stage = "read"
        /\ \/ /\ codes[p].token = NoToken
              /\ Answer(q, "error", NoToken)
              /\ UNCHANGED <<codes, handed>>
           \/ /\ codes[p].token # NoToken
              /\ Answer(q, "claimed", token)
              /\ \/ /\ token = NoToken \/ "postgres" \in Faults
                    /\ UNCHANGED <<codes, handed>>
                 \/ /\ token # NoToken
                    /\ codes' = [codes EXCEPT ![p].plaintext = NoToken]
                    /\ handed' = [t \in Tokens |-> IF t # token THEN handed[t]
                                                   ELSE IF handed[t] = 0 THEN 1 ELSE 2]
        /\ UNCHANGED <<client, minted, active, wizard, keyring, dropped>>

\* The user revokes the device on the dashboard; the code's row stays.
Revoke(t) ==
    /\ t \in active
    /\ active' = active \ {t}
    /\ UNCHANGED <<client, minted, codes, wizard, polls, keyring, handed, dropped>>

\* wipeUserPg deletes the account's tokens; claimed_token_id is set to NULL.
WipeAccount(t) ==
    /\ "account" \in Faults
    /\ t \in minted
    /\ active' = active \ {t}
    /\ codes' = [p \in Begun |-> IF codes[p].token = t
                                 THEN [codes[p] EXCEPT !.token = NoToken] ELSE codes[p]]
    /\ UNCHANGED <<client, minted, wizard, polls, keyring, handed, dropped>>

-----------------------------------------------------------------------------
(* The client receives an answer.                                           *)

\* Every other copy of a token that poll q carries.
CopyElsewhere(q, t) ==
    \/ keyring = t
    \/ \E p \in Begun : codes[p].plaintext = t
    \/ \E r \in Slots \ {q} : polls[r].token = t

Lose(q) ==
    LET t == polls[q].token
    IN  dropped' = IF t = NoToken \/ CopyElsewhere(q, t) THEN dropped
                                                         ELSE dropped \cup {t}

\* The request or its answer is lost, or the client gives up.
PollLost(q) ==
    /\ "network" \in Faults
    /\ polls[q].stage \in {"sent", "answered"}
    /\ Lose(q)
    /\ polls' = [polls EXCEPT ![q] = FreeSlot]
    /\ UNCHANGED <<client, minted, codes, active, wizard, keyring, handed>>

\* (mutant) whatever is not the end of the code is a success
ClaimedAtOnce(poll) == poll.answer # "expired"

\* The agent's wizard takes "claimed" for a success, the others only a token;
\* the browser's stops its timer and is replaced once the token shows.
Claimed(poll) == poll.answer = "claimed" /\ (client = "agent" \/ poll.token # NoToken)

\* What a wizard that still listens makes of an answer to its code.
Heed(poll) ==
    wizard' = IF poll.heeded /\ poll.pair = wizard.pair /\ (poll.answer = "expired" \/ Claimed(poll))
              THEN [phase |-> IF poll.answer = "expired" THEN "expired" ELSE "claimed",
                    pair  |-> NoPair]
              ELSE wizard

\* Leaving the waiting phase cleans up the effect.
Settled(q) ==
    [r \in Slots |-> IF r = q THEN FreeSlot
                     ELSE IF wizard' # wizard THEN Unheeded[r] ELSE polls[r]]

\* The token takes the place of the one stored before.
StoreToken(t) ==
    /\ keyring' = t
    /\ dropped' = IF keyring \in {NoToken, t} THEN dropped ELSE dropped \cup {keyring}

\* (mutant) the token is stored by the wizard, if it still listens
PollReturnsHeeded(q) ==
    /\ client \in {"agent", "ide"}
    /\ polls[q].stage = "answered"
    /\ \/ /\ polls[q].token = NoToken \/ ~polls[q].heeded
          /\ UNCHANGED <<keyring, dropped>>
       \/ /\ polls[q].token # NoToken /\ polls[q].heeded
          /\ StoreToken(polls[q].token)
    /\ Heed(polls[q])
    /\ polls' = Settled(q)
    /\ UNCHANGED <<client, minted, codes, active, handed>>

\* pair_poll, or pairCmd, stores a token it is given; then the wizard takes the
\* answer.
PollReturns(q) ==
    /\ client \in {"agent", "ide"}
    /\ polls[q].stage = "answered"
    /\ \/ /\ polls[q].token = NoToken
          /\ UNCHANGED <<keyring, dropped>>
       \/ /\ polls[q].token # NoToken
          /\ StoreToken(polls[q].token)
    /\ Heed(polls[q])
    /\ polls' = Settled(q)
    /\ UNCHANGED <<client, minted, codes, active, handed>>

\* The browser's wizard stores the token, unless it was cancelled or closed:
\* then the token goes with the answer.
WizardPollReturns(q) ==
    /\ client = "browser"
    /\ polls[q].stage = "answered"
    /\ \/ /\ polls[q].token = NoToken
          /\ UNCHANGED <<keyring, dropped>>
       \/ /\ polls[q].token # NoToken /\ polls[q].heeded
          /\ StoreToken(polls[q].token)
       \/ /\ polls[q].token # NoToken /\ ~polls[q].heeded
          /\ Lose(q) /\ UNCHANGED keyring
    /\ Heed(polls[q])
    /\ polls' = Settled(q)
    /\ UNCHANGED <<client, minted, codes, active, handed>>

\* A keyring write of persist_pairing fails, the token's or the user id's, or
\* one of the editor's secret storage: an error, which is taken for a failed
\* poll.
PersistFails(q) ==
    /\ "keyring" \in Faults /\ client \in {"agent", "ide"}
    /\ polls[q].stage = "answered" /\ polls[q].token # NoToken
    /\ \/ /\ Lose(q)
          /\ UNCHANGED keyring
       \/ StoreToken(polls[q].token)
    /\ polls' = [polls EXCEPT ![q] = FreeSlot]
    /\ UNCHANGED <<client, minted, codes, active, wizard, handed>>

Next ==
    \/ \E p \in Pairs : Begin(p) \/ Expire(p) \/ \E t \in Tokens : Claim(p, t)
    \/ Cancel \/ Refresh \/ TokenShows \/ TimesOut \/ LeavePage \/ logout
    \/ \E q \in Slots :
          \/ SendPoll(q) \/ PollReads(q) \/ PollAnswers(q)
          \/ PollLost(q) \/ PollReturns(q) \/ WizardPollReturns(q) \/ PersistFails(q)
    \/ \E t \in Tokens : Revoke(t) \/ WipeAccount(t)

Spec == Init /\ [][Next]_vars

(* Fairness: time passes, the timers fire, and a request ends.  Each step   *)
(* of a poll the wizard still listens to is strongly fair: a re-render of   *)
(* the agent's page comes every 3 s and sends a poll at once, so answers do *)
(* get through between two of them.  The editor looks at its clock in every *)
(* turn of its loop.                                                        *)
Heeded(q) == polls[q].heeded

FairSpec ==
    /\ Spec
    /\ WF_vars(Refresh) /\ WF_vars(TokenShows) /\ SF_vars(TimesOut)
    /\ \A p \in Pairs : WF_vars(Expire(p))
    /\ WF_vars(\E q \in Slots : SendPoll(q))
    /\ \A q \in Slots :
          /\ WF_vars(PollReads(q)) /\ WF_vars(PollAnswers(q))
          /\ WF_vars(PollReturns(q) \/ WizardPollReturns(q))
    /\ SF_vars(\E q \in Slots : Heeded(q) /\ PollReads(q))
    /\ SF_vars(\E q \in Slots : Heeded(q) /\ PollAnswers(q))
    /\ SF_vars(\E q \in Slots : Heeded(q) /\ (PollReturns(q) \/ WizardPollReturns(q)))

-----------------------------------------------------------------------------
(* Properties.                                                              *)

\* A minted token does not vanish: it waits in the code's row, travels in a
\* poll or is stored by the client, unless a lost answer, a failed write, a
\* logout, another pairing or the browser's closed wizard took its last copy.
\* A wizard that stopped listening is no excuse for the agent.
TokenAccounted ==
    \A t \in active :
        \/ \E p \in Begun : codes[p].plaintext = t
        \/ \E q \in Slots : polls[q].token = t
        \/ keyring = t
        \/ t \in dropped

\* A poll sent after a token was handed over and taken out of the row never
\* gets it again (TestPairing_HappyPath, pairing_test.go:100-106).  Polls that were
\* under way by then may carry it too, see HandedOutOnce.
LaterPollsGetNothing ==
    \A q \in Slots : polls[q].stage = "answered" => polls[q].token \notin polls[q].earlier

\* "The backend gives out the plaintext token exactly once" (backend.ts:96-97 of the
\* browser extension, in Russian).  Spec refutes it, even without faults: the
\* wizard's timer sends a poll while another is under way, and both read the row
\* before either clears it (pairing.go:128-132, 161-166).
HandedOutOnce == \A t \in Tokens : handed[t] <= 1

\* The account of a claimed code has been deleted: its polls fail for ever.
Orphaned(p) == p \in Begun /\ codes[p].claimed /\ codes[p].token = NoToken

\* The browser's wizard ends with a token only, and its code's last copy is lost.
Stranded(p) == client = "browser" /\ p \in Begun /\ codes[p].token \in dropped

\* No client waits for ever, whatever is lost: the code is claimed or it
\* expires, unless the account that claimed it is deleted meanwhile, or the
\* browser missed the one answer that has the token.
WizardEnds ==
    wizard.phase = "waiting" ~>
        wizard.phase # "waiting" \/ Orphaned(wizard.pair) \/ Stranded(wizard.pair)

\* "Transient state: poll got claimed, the token is in the keyring"
\* (pairing-wizard.tsx:92, in Russian): a wizard that shows success goes away
\* for a paired account, unless the token was revoked, its last copy was lost
\* on the way or could not be taken out of the row.
ClaimedMeansPaired ==
    wizard.phase = "claimed" ~>
        \/ keyring # NoToken \/ wizard.phase # "claimed"
        \/ minted # active \/ dropped # {} \/ \E p \in Begun : codes[p].plaintext # NoToken
=============================================================================
