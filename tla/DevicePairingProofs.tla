------------------------ MODULE DevicePairingProofs ------------------------
(***************************************************************************)
(* A minted token is accounted for and handed over to no later poll, for   *)
(* any client, number of codes, tokens and polls, and any set of faults.   *)
(***************************************************************************)
EXTENDS DevicePairing, TLAPS

\* A wizard waits for a code that was begun.
WizardOK == wizard.phase = "waiting" => wizard.pair \in Begun

\* The plaintext in a code's row is that of the row's own token, until the
\* account is deleted.
CodesOK ==
    \A p \in Begun :
        /\ codes[p].plaintext \in minted \cup {NoToken}
        /\ codes[p].plaintext \in active => codes[p].token = codes[p].plaintext

\* A poll between its two statements on the backend holds all the plaintext
\* that its row still has, so that clearing it loses nothing; and if the row
\* has no token any more, neither has the account.
PollOK(q) ==
    /\ polls[q].token \in minted \cup {NoToken}
    /\ polls[q].stage \in {"free", "sent"} => polls[q].token = NoToken
    /\ polls[q].stage \in {"sent", "read"} => polls[q].pair \in Begun
    /\ polls[q].stage = "read" =>
          /\ codes[polls[q].pair].claimed
          /\ codes[polls[q].pair].plaintext \in {NoToken, polls[q].token}
          /\ polls[q].token \in active => codes[polls[q].pair].token = polls[q].token

PollsOK == \A q \in Slots : PollOK(q)

IInv == TypeOK /\ WizardOK /\ CodesOK /\ PollsOK /\ TokenAccounted

LEMMA InitIInv == Init => IInv
  <1> SUFFICES ASSUME Init PROVE IInv
    OBVIOUS
  <1> USE PairingAssumption DEF Init, FreeSlot, Begun
  <1>1. TypeOK
    BY DEF TypeOK, MaybeToken, Code, Poll
  <1>2. WizardOK /\ CodesOK /\ TokenAccounted
    BY DEF WizardOK, CodesOK, TokenAccounted
  <1>3. PollsOK
    BY DEF PollsOK, PollOK
  <1> QED
    BY <1>1, <1>2, <1>3 DEF IInv

-----------------------------------------------------------------------------
(* The wizard.                                                              *)

\* A wizard that stops listening leaves the polls to the agent, with all they
\* carry.
LEMMA UnheededPolls ==
    ASSUME polls \in [Slots -> Poll]
    PROVE  /\ Unheeded \in [Slots -> Poll]
           /\ \A q \in Slots : /\ Unheeded[q].stage = polls[q].stage
                               /\ Unheeded[q].token = polls[q].token
                               /\ Unheeded[q].pair = polls[q].pair
  BY DEF Unheeded, Poll

\* What the wizard's and the page's own actions share.
LEMMA DeafIInv ==
    ASSUME IInv, polls' = Unheeded \/ UNCHANGED polls,
           UNCHANGED <<client, minted, codes, active, handed>>,
           \/ UNCHANGED wizard
           \/ Idle
           \/ wizard' = [phase |-> "expired", pair |-> NoPair],
           \/ UNCHANGED <<keyring, dropped>>
           \/ keyring' = NoToken /\ keyring # NoToken /\ dropped' = dropped \cup {keyring}
    PROVE  IInv'
  <1> USE DEF IInv
  <1>1. /\ polls' \in [Slots -> Poll]
        /\ \A q \in Slots : /\ polls'[q].stage = polls[q].stage
                            /\ polls'[q].token = polls[q].token
                            /\ polls'[q].pair = polls[q].pair
    BY UnheededPolls DEF TypeOK
  <1>2. TypeOK'
    BY <1>1 DEF TypeOK, Idle, Begun, MaybeToken
  <1>3. WizardOK' /\ CodesOK'
    BY DEF WizardOK, CodesOK, Begun, Idle
  <1>4. PollsOK'
    BY <1>1 DEF PollsOK, PollOK, Begun
  <1>5. TokenAccounted'
    BY <1>1 DEF TokenAccounted, Begun
  <1> QED
    BY <1>2, <1>3, <1>4, <1>5

LEMMA DeafActionsIInv ==
    ASSUME IInv, Cancel \/ Refresh \/ TokenShows \/ TimesOut \/ LeavePage \/ logout
    PROVE  IInv'
  <1>1. CASE Cancel
    BY <1>1, DeafIInv DEF Cancel
  <1>2. CASE Refresh
    BY <1>2, DeafIInv DEF Refresh
  <1>3. CASE LeavePage
    BY <1>3, DeafIInv DEF LeavePage
  <1>4. CASE logout
    BY <1>4, DeafIInv DEF logout
  <1>5. CASE TokenShows
    BY <1>5, DeafIInv DEF TokenShows
  <1>6. CASE TimesOut
    BY <1>6, DeafIInv DEF TimesOut
  <1> QED
    BY <1>1, <1>2, <1>3, <1>4, <1>5, <1>6

LEMMA BeginIInv ==
    ASSUME IInv, NEW p \in Pairs, Begin(p)
    PROVE  IInv'
  <1> USE PairingAssumption DEF IInv, Begin, NewCode
  <1>1. Begun' = Begun \cup {p} /\ p \notin Begun
    BY DEF Begun
  <1>2. codes'[p] = NewCode /\ \A x \in Begun : codes'[x] = codes[x]
    BY <1>1 DEF Begun
  <1>3. codes' \in [Begun' -> Code]
    BY <1>1 DEF TypeOK, Code, MaybeToken
  <1>4. TypeOK'
    <2>1. wizard' \in [phase : {"idle", "waiting", "claimed", "expired"},
                       pair : Begun' \cup {NoPair}]
      BY <1>1 DEF Idle
    <2>2. Begun' \subseteq Pairs
      BY <1>1 DEF TypeOK
    <2>3. \A x \in Begun' : ~codes'[x].claimed => codes'[x].token = NoToken
                                                   /\ codes'[x].plaintext = NoToken
      BY <1>1, <1>2 DEF TypeOK
    <2> QED
      BY <1>3, <2>1, <2>2, <2>3 DEF TypeOK
  <1>5. WizardOK'
    BY <1>1 DEF WizardOK, Idle
  <1>6. CodesOK'
    BY <1>1, <1>2 DEF CodesOK, TypeOK
  <1>7. PollsOK'
    BY <1>1, <1>2 DEF PollsOK, PollOK
  <1>8. TokenAccounted'
    BY <1>1, <1>2 DEF TokenAccounted
  <1> QED
    BY <1>4, <1>5, <1>6, <1>7, <1>8

LEMMA SendPollIInv ==
    ASSUME IInv, NEW q \in Slots, SendPoll(q)
    PROVE  IInv'
  <1> USE PairingAssumption DEF IInv, SendPoll
  <1>1. /\ \A r \in Slots \ {q} : polls'[r] = polls[r]
        /\ polls'[q].stage = "sent" /\ polls'[q].token = NoToken
        /\ polls'[q].pair = wizard.pair
        /\ polls[q].token = NoToken
    BY DEF TypeOK, PollsOK, PollOK
  <1>2. polls' \in [Slots -> Poll]
    <2>1. wizard.pair \in Pairs
      BY DEF WizardOK, TypeOK
    <2> QED
      BY <2>1 DEF TypeOK, Poll, MaybeToken
  <1>3. TypeOK'
    BY <1>2 DEF TypeOK, Begun
  <1>4. WizardOK' /\ CodesOK'
    BY DEF WizardOK, CodesOK, Begun
  <1>5. PollsOK'
    BY <1>1 DEF PollsOK, PollOK, Begun, WizardOK
  <1>6. TokenAccounted'
    BY <1>1 DEF TokenAccounted, TypeOK, Begun
  <1> QED
    BY <1>3, <1>4, <1>5, <1>6

-----------------------------------------------------------------------------
(* The backend.                                                             *)

LEMMA ExpireIInv ==
    ASSUME IInv, NEW p \in Pairs, Expire(p)
    PROVE  IInv'
  <1> USE DEF IInv, Expire
  <1>1. /\ Begun' = Begun
        /\ \A x \in Begun : /\ codes'[x].claimed = codes[x].claimed
                            /\ codes'[x].token = codes[x].token
                            /\ codes'[x].plaintext = codes[x].plaintext
        /\ codes' \in [Begun -> Code]
    BY DEF TypeOK, Begun, Code
  <1>2. TypeOK'
    BY <1>1 DEF TypeOK
  <1>3. WizardOK' /\ CodesOK'
    BY <1>1 DEF WizardOK, CodesOK
  <1>4. PollsOK'
    BY <1>1 DEF PollsOK, PollOK
  <1>5. TokenAccounted'
    BY <1>1 DEF TokenAccounted
  <1> QED
    BY <1>2, <1>3, <1>4, <1>5

LEMMA ClaimIInv ==
    ASSUME IInv, NEW p \in Pairs, NEW t \in Tokens, Claim(p, t)
    PROVE  IInv'
  <1> USE PairingAssumption DEF IInv, Claim
  <1>1. /\ Begun' = Begun
        /\ codes' \in [Begun -> Code]
        /\ codes'[p].claimed /\ codes'[p].token = t /\ codes'[p].plaintext = t
        /\ \A x \in Begun \ {p} : codes'[x] = codes[x]
    <2> DEFINE claimed == [codes[p] EXCEPT !.claimed = TRUE, !.token = t, !.plaintext = t]
    <2>1. codes \in [Begun -> Code] /\ p \in Begun /\ codes' = [codes EXCEPT ![p] = claimed]
      BY DEF TypeOK
    <2>2. claimed \in Code /\ claimed.claimed /\ claimed.token = t /\ claimed.plaintext = t
      BY <2>1 DEF Code, MaybeToken
    <2> HIDE DEF claimed
    <2> QED
      BY <2>1, <2>2 DEF Begun
  <1>2. codes[p].plaintext = NoToken /\ p \in Begun /\ ~codes[p].claimed
    BY DEF TypeOK
  <1>3. TypeOK'
    BY <1>1 DEF TypeOK
  <1>4. WizardOK' /\ CodesOK'
    BY <1>1 DEF WizardOK, CodesOK, TypeOK
  <1>5. PollsOK'
    BY <1>1, <1>2 DEF PollsOK, PollOK, TypeOK
  <1>6. TokenAccounted'
    BY <1>1, <1>2 DEF TokenAccounted, TypeOK
  <1> QED
    BY <1>3, <1>4, <1>5, <1>6

\* What a poll on the backend does to its slot.
LEMMA AnswerPolls ==
    ASSUME polls \in [Slots -> Poll], NEW q \in Slots, NEW token \in MaybeToken,
           NEW answer \in {"none", "pending", "expired", "claimed", "error"},
           Answer(q, answer, token)
    PROVE  /\ polls' \in [Slots -> Poll]
           /\ \A r \in Slots \ {q} : polls'[r] = polls[r]
           /\ polls'[q].stage = "answered" /\ polls'[q].token = token
           /\ polls'[q].pair = polls[q].pair /\ polls'[q].earlier = polls[q].earlier
  BY DEF Answer, Poll

\* A poll that is answered after its first statement carried no token.
LEMMA PollReadsIInv ==
    ASSUME IInv, NEW q \in Slots, PollReads(q)
    PROVE  IInv'
  <1> USE PairingAssumption DEF IInv
  <1>1. /\ polls[q].token = NoToken /\ polls[q].pair \in Begun
        /\ UNCHANGED <<client, minted, codes, active, wizard, keyring, handed, dropped>>
    BY DEF PollReads, PollsOK, PollOK
  <1>2. polls \in [Slots -> Poll] /\ NoToken \in MaybeToken
    BY DEF TypeOK, MaybeToken
  <1>3. /\ polls' \in [Slots -> Poll]
        /\ \A r \in Slots \ {q} : polls'[r] = polls[r]
        /\ \/ polls'[q].stage = "answered" /\ polls'[q].token = NoToken
           \/ /\ codes[polls[q].pair].claimed
              /\ polls'[q].stage = "read" /\ polls'[q].pair = polls[q].pair
              /\ polls'[q].token = codes[polls[q].pair].plaintext
    <2>1. CASE Answer(q, "expired", NoToken) \/ Answer(q, "pending", NoToken)
      BY <1>2, <2>1, AnswerPolls
    <2>2. CASE /\ codes[polls[q].pair].claimed
               /\ polls' = [polls EXCEPT ![q] =
                                [@ EXCEPT !.stage = "read",
                                          !.token = codes[polls[q].pair].plaintext]]
      <3>1. codes[polls[q].pair].plaintext \in MaybeToken
        BY <1>1 DEF TypeOK, Code
      <3> DEFINE read == [polls[q] EXCEPT !.stage = "read",
                                          !.token = codes[polls[q].pair].plaintext]
      <3>2. polls[q] \in Poll /\ polls' = [polls EXCEPT ![q] = read]
        BY <1>2, <2>2
      <3>3. /\ read \in Poll /\ read.stage = "read" /\ read.pair = polls[q].pair
            /\ read.token = codes[polls[q].pair].plaintext
        BY <3>1, <3>2 DEF Poll
      <3> HIDE DEF read
      <3>4. /\ polls' \in [Slots -> Poll] /\ polls'[q] = read
            /\ \A r \in Slots \ {q} : polls'[r] = polls[r]
        BY <1>2, <3>2, <3>3
      <3> QED
        BY <2>2, <3>3, <3>4
    <2> QED
      BY <2>1, <2>2 DEF PollReads
  <1>4. TypeOK'
    BY <1>1, <1>3 DEF TypeOK, Begun
  <1>5. WizardOK' /\ CodesOK'
    BY <1>1 DEF WizardOK, CodesOK, Begun
  <1>6. PollsOK'
    <2>1. PollOK(q)'
      BY <1>1, <1>3 DEF PollOK, CodesOK, Begun
    <2>2. ASSUME NEW r \in Slots \ {q} PROVE PollOK(r)'
      BY <1>1, <1>3 DEF PollsOK, PollOK, Begun
    <2> QED
      BY <2>1, <2>2 DEF PollsOK
  <1>7. TokenAccounted'
    BY <1>1, <1>3 DEF TokenAccounted, TypeOK, Begun
  <1> QED
    BY <1>4, <1>5, <1>6, <1>7

\* The second statement of a poll on the backend.
LEMMA PollAnswersIInv ==
    ASSUME IInv, NEW q \in Slots, PollAnswers(q)
    PROVE  IInv'
  <1> USE PairingAssumption DEF IInv
  <1> DEFINE p == polls[q].pair
             token == polls[q].token
  <1>1. /\ polls[q].stage = "read" /\ p \in Begun /\ codes[p].claimed
        /\ codes[p].plaintext \in {NoToken, token}
        /\ token \in active => codes[p].token = token
        /\ polls \in [Slots -> Poll] /\ token \in MaybeToken /\ NoToken \in MaybeToken
        /\ UNCHANGED <<client, minted, active, wizard, keyring, dropped>>
    BY DEF PollAnswers, PollsOK, PollOK, TypeOK, MaybeToken
  <1>2. \/ /\ codes[p].token = NoToken /\ Answer(q, "error", NoToken)
           /\ UNCHANGED <<codes, handed>>
        \/ /\ codes[p].token # NoToken /\ Answer(q, "claimed", token)
           /\ \/ handed' = [t \in Tokens |-> IF t # token THEN handed[t]
                                             ELSE IF handed[t] = 0 THEN 1 ELSE 2]
              \/ handed' = handed
           /\ codes' = codes \/ codes' = [codes EXCEPT ![p].plaintext = NoToken]
    BY DEF PollAnswers
  <1>3. /\ polls' \in [Slots -> Poll]
        /\ \A r \in Slots \ {q} : polls'[r] = polls[r]
        /\ polls'[q].stage = "answered"
        /\ \/ polls'[q].token = token
           \/ polls'[q].token = NoToken /\ token \notin active
    <2>1. CASE codes[p].token = NoToken /\ Answer(q, "error", NoToken)
      <3>1. token \notin active
        BY <1>1, <2>1 DEF TypeOK
      <3> QED
        BY <1>1, <2>1, <3>1, AnswerPolls
    <2>2. CASE Answer(q, "claimed", token)
      BY <1>1, <2>2, AnswerPolls
    <2> QED
      BY <1>2, <2>1, <2>2
  <1>4. /\ Begun' = Begun /\ codes' \in [Begun -> Code]
        /\ \A x \in Begun :
              /\ codes'[x].claimed = codes[x].claimed
              /\ codes'[x].token = codes[x].token
              /\ \/ codes'[x].plaintext = codes[x].plaintext
                 \/ x = p /\ codes'[x].plaintext = NoToken
    <2>1. CASE codes' = codes
      BY <2>1 DEF TypeOK, Begun
    <2>2. CASE codes' = [codes EXCEPT ![p].plaintext = NoToken]
      BY <1>1, <2>2 DEF TypeOK, Begun, Code
    <2> QED
      BY <1>2, <2>1, <2>2
  <1>5. handed' \in [Tokens -> 0 .. 2]
    BY <1>2 DEF TypeOK
  <1> HIDE DEF p, token
  <1>6. TypeOK'
    BY <1>1, <1>3, <1>4, <1>5 DEF TypeOK
  <1>7. WizardOK' /\ CodesOK'
    BY <1>1, <1>4 DEF WizardOK, CodesOK, TypeOK
  <1>8. PollsOK'
    <2>1. PollOK(q)'
      BY <1>1, <1>3, <1>4 DEF PollsOK, PollOK, token
    <2>2. ASSUME NEW r \in Slots \ {q} PROVE PollOK(r)'
      BY <1>1, <1>3, <1>4, <2>2 DEF PollsOK, PollOK
    <2> QED
      BY <2>1, <2>2 DEF PollsOK
  <1>9. TokenAccounted'
    <2> SUFFICES ASSUME NEW t \in active
                 PROVE  \/ \E x \in Begun : codes'[x].plaintext = t
                        \/ \E r \in Slots : polls'[r].token = t
                        \/ keyring = t
                        \/ t \in dropped
      BY <1>1, <1>4 DEF TokenAccounted
    <2>1. CASE t = token
      BY <1>1, <1>3, <2>1
    <2>2. CASE t # token
      <3>1. t # NoToken
        BY DEF TypeOK
      <3> QED
        BY <1>1, <1>3, <1>4, <2>2, <3>1 DEF TokenAccounted, token
    <2> QED
      BY <2>1, <2>2
  <1> QED
    BY <1>6, <1>7, <1>8, <1>9

LEMMA RevokeIInv ==
    ASSUME IInv, NEW t \in Tokens, Revoke(t)
    PROVE  IInv'
  <1> USE DEF IInv, Revoke
  <1>1. TypeOK' /\ WizardOK'
    BY DEF TypeOK, WizardOK, Begun
  <1>2. CodesOK' /\ PollsOK'
    BY DEF CodesOK, PollsOK, PollOK, Begun
  <1>3. TokenAccounted'
    BY DEF TokenAccounted, Begun
  <1> QED
    BY <1>1, <1>2, <1>3

LEMMA WipeAccountIInv ==
    ASSUME IInv, NEW t \in Tokens, WipeAccount(t)
    PROVE  IInv'
  <1> USE PairingAssumption DEF IInv, WipeAccount
  <1>1. /\ Begun' = Begun /\ codes' \in [Begun -> Code]
        /\ \A x \in Begun :
              /\ codes'[x].claimed = codes[x].claimed
              /\ codes'[x].plaintext = codes[x].plaintext
              /\ codes'[x].token = IF codes[x].token = t THEN NoToken ELSE codes[x].token
    BY DEF TypeOK, Begun, Code, MaybeToken
  <1>2. TypeOK' /\ WizardOK'
    BY <1>1 DEF TypeOK, WizardOK
  <1>3. CodesOK' /\ PollsOK'
    BY <1>1 DEF CodesOK, PollsOK, PollOK
  <1>4. TokenAccounted'
    BY <1>1 DEF TokenAccounted
  <1> QED
    BY <1>2, <1>3, <1>4

-----------------------------------------------------------------------------
(* The client receives an answer.                                           *)

\* Freeing a slot, whatever becomes of the other polls' listener, keeps the
\* invariant if the token it carried is accounted for.
LEMMA FreeIInv ==
    ASSUME IInv, NEW q \in Slots,
           UNCHANGED <<client, minted, codes, active, handed>>,
           UNCHANGED wizard \/ wizard' \in [phase : {"expired", "claimed"}, pair : {NoPair}],
           polls' \in [Slots -> Poll],
           polls'[q] = FreeSlot,
           \A r \in Slots \ {q} : /\ polls'[r].stage = polls[r].stage
                                   /\ polls'[r].token = polls[r].token
                                   /\ polls'[r].pair = polls[r].pair,
           keyring' \in MaybeToken, keyring' \in {keyring, polls[q].token},
           dropped \subseteq dropped', dropped' \subseteq Tokens,
           keyring' = keyring \/ keyring \in dropped' \cup {NoToken},
           \/ polls[q].token \in dropped' \cup {NoToken, keyring'}
           \/ \E p \in Begun : codes[p].plaintext = polls[q].token
           \/ \E r \in Slots \ {q} : polls[r].token = polls[q].token
    PROVE  IInv'
  <1> USE PairingAssumption DEF IInv
  <1>1. polls'[q].stage = "free" /\ polls'[q].token = NoToken
    BY DEF FreeSlot
  <1>2. TypeOK'
    <2>1. wizard' \in [phase : {"idle", "waiting", "claimed", "expired"},
                       pair : Begun \cup {NoPair}]
      BY DEF TypeOK
    <2> QED
      BY <2>1 DEF TypeOK, Begun
  <1>3. WizardOK' /\ CodesOK'
    BY DEF WizardOK, CodesOK, Begun
  <1>4. PollsOK'
    <2>1. PollOK(q)'
      BY <1>1 DEF PollOK
    <2>2. ASSUME NEW r \in Slots \ {q} PROVE PollOK(r)'
      BY <2>2 DEF PollsOK, PollOK, Begun
    <2> QED
      BY <2>1, <2>2 DEF PollsOK
  <1>5. TokenAccounted'
    <2> SUFFICES ASSUME NEW t \in active
                 PROVE  \/ \E p \in Begun : codes[p].plaintext = t
                        \/ \E r \in Slots : polls'[r].token = t
                        \/ keyring' = t
                        \/ t \in dropped'
      BY DEF TokenAccounted, Begun
    <2>1. t # NoToken
      BY DEF TypeOK
    <2>2. CASE t = polls[q].token
      BY <2>1, <2>2
    <2>3. CASE t = keyring
      BY <2>1, <2>3
    <2>4. CASE t # polls[q].token /\ t # keyring
      BY <2>4 DEF TokenAccounted
    <2> QED
      BY <2>2, <2>3, <2>4
  <1> QED
    BY <1>2, <1>3, <1>4, <1>5

\* The two ways to free a slot.
LEMMA FreedPolls ==
    ASSUME polls \in [Slots -> Poll], NEW q \in Slots,
           polls' = [polls EXCEPT ![q] = FreeSlot] \/ polls' = Settled(q)
    PROVE  /\ polls' \in [Slots -> Poll]
           /\ polls'[q] = FreeSlot
           /\ \A r \in Slots \ {q} : /\ polls'[r].stage = polls[r].stage
                                      /\ polls'[r].token = polls[r].token
                                      /\ polls'[r].pair = polls[r].pair
  <1>1. FreeSlot \in Poll
    BY DEF FreeSlot, Poll, MaybeToken
  <1>2. CASE polls' = [polls EXCEPT ![q] = FreeSlot]
    BY <1>1, <1>2
  <1>3. CASE polls' = Settled(q)
    BY <1>1, <1>3, UnheededPolls DEF Settled
  <1> QED
    BY <1>2, <1>3

\* Lose drops a token only if no copy is left elsewhere.
LEMMA LoseAccounts ==
    ASSUME IInv, NEW q \in Slots, Lose(q)
    PROVE  /\ dropped \subseteq dropped' /\ dropped' \subseteq Tokens
           /\ \/ polls[q].token \in dropped' \cup {NoToken, keyring}
              \/ \E p \in Begun : codes[p].plaintext = polls[q].token
              \/ \E r \in Slots \ {q} : polls[r].token = polls[q].token
  BY DEF IInv, TypeOK, Poll, MaybeToken, Lose, CopyElsewhere

LEMMA PollLostIInv ==
    ASSUME IInv, NEW q \in Slots, PollLost(q)
    PROVE  IInv'
  <1>1. polls \in [Slots -> Poll] /\ keyring \in MaybeToken
    BY DEF IInv, TypeOK
  <1> QED
    BY <1>1, LoseAccounts, FreedPolls, FreeIInv DEF PollLost

\* The wizard heeds an answer by staying as it is or by leaving its phase.
LEMMA HeedWizard ==
    ASSUME NEW poll, Heed(poll)
    PROVE  UNCHANGED wizard \/ wizard' \in [phase : {"expired", "claimed"}, pair : {NoPair}]
  BY DEF Heed

\* Storing a token accounts for it and for the one it replaces.
LEMMA StoreAccounts ==
    ASSUME NEW t \in Tokens, keyring \in MaybeToken, dropped \subseteq Tokens, StoreToken(t)
    PROVE  /\ keyring' = t /\ dropped \subseteq dropped' /\ dropped' \subseteq Tokens
           /\ keyring' = keyring \/ keyring \in dropped' \cup {NoToken}
  BY DEF StoreToken, MaybeToken

LEMMA PollReturnsIInv ==
    ASSUME IInv, NEW q \in Slots, PollReturns(q) \/ WizardPollReturns(q)
    PROVE  IInv'
  <1>1. /\ polls \in [Slots -> Poll] /\ keyring \in MaybeToken /\ dropped \subseteq Tokens
        /\ polls[q].token \in MaybeToken
    BY DEF IInv, TypeOK, Poll
  <1>2. /\ UNCHANGED wizard \/ wizard' \in [phase : {"expired", "claimed"}, pair : {NoPair}]
        /\ polls' = Settled(q)
        /\ UNCHANGED <<client, minted, codes, active, handed>>
    BY HeedWizard DEF PollReturns, WizardPollReturns
  <1>3. \/ polls[q].token = NoToken /\ UNCHANGED <<keyring, dropped>>
        \/ polls[q].token \in Tokens /\ StoreToken(polls[q].token)
        \/ Lose(q) /\ UNCHANGED keyring
    BY <1>1 DEF PollReturns, WizardPollReturns, MaybeToken
  <1>4. CASE polls[q].token = NoToken /\ UNCHANGED <<keyring, dropped>>
    BY <1>1, <1>2, <1>4, FreedPolls, FreeIInv
  <1>5. CASE polls[q].token \in Tokens /\ StoreToken(polls[q].token)
    BY <1>1, <1>2, <1>5, StoreAccounts, FreedPolls, FreeIInv
  <1>6. CASE Lose(q) /\ UNCHANGED keyring
    BY <1>1, <1>2, <1>6, LoseAccounts, FreedPolls, FreeIInv
  <1> QED
    BY <1>3, <1>4, <1>5, <1>6

LEMMA PersistFailsIInv ==
    ASSUME IInv, NEW q \in Slots, PersistFails(q)
    PROVE  IInv'
  <1>1. /\ polls \in [Slots -> Poll] /\ keyring \in MaybeToken /\ dropped \subseteq Tokens
        /\ polls[q].token \in MaybeToken
    BY DEF IInv, TypeOK, Poll
  <1>2. CASE Lose(q) /\ UNCHANGED keyring
    BY <1>1, <1>2, LoseAccounts, FreedPolls, FreeIInv DEF PersistFails
  <1>3. CASE StoreToken(polls[q].token)
    <2>1. polls[q].token \in Tokens
      BY <1>1 DEF PersistFails, MaybeToken
    <2> QED
      BY <1>1, <1>3, <2>1, StoreAccounts, FreedPolls, FreeIInv DEF PersistFails
  <1> QED
    BY <1>2, <1>3 DEF PersistFails

-----------------------------------------------------------------------------
LEMMA NextIInv == IInv /\ [Next]_vars => IInv'
  <1> SUFFICES ASSUME IInv, [Next]_vars PROVE IInv'
    OBVIOUS
  <1>1. ASSUME NEW p \in Pairs, Begin(p) \/ Expire(p) \/ \E t \in Tokens : Claim(p, t)
        PROVE  IInv'
    BY <1>1, BeginIInv, ExpireIInv, ClaimIInv
  <1>2. CASE Cancel \/ Refresh \/ TokenShows \/ TimesOut \/ LeavePage \/ logout
    BY <1>2, DeafActionsIInv
  <1>3. ASSUME NEW q \in Slots,
               \/ SendPoll(q) \/ PollReads(q) \/ PollAnswers(q)
               \/ PollLost(q) \/ PollReturns(q) \/ WizardPollReturns(q) \/ PersistFails(q)
        PROVE  IInv'
    BY <1>3, SendPollIInv, PollReadsIInv, PollAnswersIInv,
       PollLostIInv, PollReturnsIInv, PersistFailsIInv
  <1>4. ASSUME NEW t \in Tokens, Revoke(t) \/ WipeAccount(t) PROVE IInv'
    BY <1>4, RevokeIInv, WipeAccountIInv
  <1>5. CASE UNCHANGED vars
    BY <1>5 DEF vars, IInv, TypeOK, WizardOK, CodesOK, PollsOK, PollOK, TokenAccounted, Begun
  <1> QED
    BY <1>1, <1>2, <1>3, <1>4, <1>5 DEF Next

\* The inductive invariant holds in every reachable state.
THEOREM Invariance == Spec => []IInv
  BY InitIInv, NextIInv, PTL DEF Spec

\* Every variable of the pairing keeps its type; a code that is not claimed
\* has neither a token nor a plaintext (Claim, pairing.go:171-256).
THEOREM TypeCorrect == Spec => []TypeOK
<1>1. IInv => TypeOK
  BY DEF IInv
<1> QED
  BY <1>1, Invariance, PTL

\* A valid token is in its code's row, in a poll's answer, in the keyring, or
\* was lost with an answer, by a failed write, a logout, another pairing or the
\* browser's closed wizard: neither Poll's two statements nor the agent's
\* wizard that stopped listening lose it (pairing.go:117-169, lib.rs:419-436).
THEOREM TokensAccounted == Spec => []TokenAccounted
<1>1. IInv => TokenAccounted
  BY DEF IInv
<1> QED
  BY <1>1, Invariance, PTL

-----------------------------------------------------------------------------
(* Later polls: a plaintext that was handed over is gone from every row.    *)

\* Handing a token over clears its plaintext, and no row gets it back.
HandedOver ==
    \A t \in Tokens : handed[t] > 0 =>
        /\ t \in minted
        /\ \A p \in Begun : codes[p].plaintext # t

\* A claim mints a token for one row only.
PlaintextsApart ==
    \A p, r \in Begun :
        codes[p].plaintext = codes[r].plaintext => p = r \/ codes[p].plaintext = NoToken

\* What a poll knows of the tokens handed over before it was sent, and what
\* it has read: a plaintext that no other row has.
PollLate(q) ==
    /\ polls[q].stage = "sent" => \A t \in polls[q].earlier : handed[t] > 0
    /\ polls[q].stage \in {"read", "answered"} => polls[q].token \notin polls[q].earlier
    /\ polls[q].stage = "read" /\ polls[q].token # NoToken =>
          \A p \in Begun \ {polls[q].pair} : codes[p].plaintext # polls[q].token

LateInv == HandedOver /\ PlaintextsApart /\ \A q \in Slots : PollLate(q)

\* Steps that leave the rows alone, and each poll as it was or its slot free.
LEMMA SamePollsLate ==
    ASSUME LateInv, polls' \in [Slots -> Poll], UNCHANGED <<minted, codes, handed>>,
           \A q \in Slots : \/ polls'[q].stage = "free"
                            \/ /\ polls'[q].stage = polls[q].stage
                               /\ polls'[q].token = polls[q].token
                               /\ polls'[q].pair = polls[q].pair
                               /\ polls'[q].earlier = polls[q].earlier
    PROVE  LateInv'
  <1>1. HandedOver' /\ PlaintextsApart'
    BY DEF LateInv, HandedOver, PlaintextsApart, Begun
  <1>2. ASSUME NEW q \in Slots PROVE PollLate(q)'
    BY DEF LateInv, PollLate, Begun
  <1> QED
    BY <1>1, <1>2 DEF LateInv

\* The wizard's own actions, and every way an answer ends.
LEMMA ClientLate ==
    ASSUME IInv, LateInv,
           \/ Cancel \/ Refresh \/ TokenShows \/ TimesOut \/ LeavePage \/ logout
           \/ \E q \in Slots : \/ PollLost(q) \/ PollReturns(q) \/ WizardPollReturns(q)
                              \/ PersistFails(q)
           \/ \E t \in Tokens : Revoke(t)
    PROVE  LateInv'
  <1> DEFINE Kept(q) == /\ polls'[q].stage = polls[q].stage
                        /\ polls'[q].token = polls[q].token
                        /\ polls'[q].pair = polls[q].pair
                        /\ polls'[q].earlier = polls[q].earlier
  <1>1. polls \in [Slots -> Poll]
    BY DEF IInv, TypeOK
  <1>2. ASSUME polls' = Unheeded \/ UNCHANGED polls
        PROVE  polls' \in [Slots -> Poll] /\ \A q \in Slots : Kept(q)
    <2>1. /\ Unheeded \in [Slots -> Poll]
          /\ \A r \in Slots : /\ Unheeded[r].stage = polls[r].stage
                              /\ Unheeded[r].token = polls[r].token
                              /\ Unheeded[r].pair = polls[r].pair
                              /\ Unheeded[r].earlier = polls[r].earlier
      BY <1>1 DEF Unheeded, Poll
    <2>2. CASE polls' = Unheeded
      BY <2>1, <2>2
    <2>3. CASE UNCHANGED polls
      BY <1>1, <2>3
    <2> QED
      BY <1>2, <2>2, <2>3
  <1>3. ASSUME NEW q \in Slots, polls' = [polls EXCEPT ![q] = FreeSlot] \/ polls' = Settled(q)
        PROVE  /\ polls' \in [Slots -> Poll]
               /\ \A r \in Slots : polls'[r].stage = "free" \/ Kept(r)
    <2>1. FreeSlot \in Poll /\ FreeSlot.stage = "free"
      BY DEF FreeSlot, Poll, MaybeToken
    <2>2. /\ Unheeded \in [Slots -> Poll]
          /\ \A r \in Slots : /\ Unheeded[r].stage = polls[r].stage
                              /\ Unheeded[r].token = polls[r].token
                              /\ Unheeded[r].pair = polls[r].pair
                              /\ Unheeded[r].earlier = polls[r].earlier
      BY <1>1 DEF Unheeded, Poll
    <2>3. CASE polls' = [polls EXCEPT ![q] = FreeSlot]
      BY <1>1, <2>1, <2>3
    <2>4. CASE polls' = Settled(q)
      BY <1>1, <2>1, <2>2, <2>4 DEF Settled
    <2> QED
      BY <1>3, <2>3, <2>4
  <1>4. CASE Cancel \/ Refresh \/ TokenShows \/ TimesOut \/ LeavePage \/ logout
    <2>1. (polls' = Unheeded \/ UNCHANGED polls) /\ UNCHANGED <<minted, codes, handed>>
      BY <1>4 DEF Cancel, Refresh, TokenShows, TimesOut, LeavePage, logout
    <2> QED
      BY <1>2, <2>1, SamePollsLate
  <1>5. ASSUME NEW q \in Slots,
               PollLost(q) \/ PollReturns(q) \/ WizardPollReturns(q) \/ PersistFails(q)
        PROVE  LateInv'
    <2>1. /\ polls' = [polls EXCEPT ![q] = FreeSlot] \/ polls' = Settled(q)
          /\ UNCHANGED <<minted, codes, handed>>
      BY <1>5 DEF PollLost, PollReturns, WizardPollReturns, PersistFails
    <2> QED
      BY <1>3, <2>1, SamePollsLate
  <1>6. ASSUME NEW t \in Tokens, Revoke(t) PROVE LateInv'
    BY <1>1, <1>6, SamePollsLate DEF Revoke
  <1> QED
    BY <1>4, <1>5, <1>6

\* Rows that begin, expire or lose their account have no plaintext that is new.
LEMMA RowsLate ==
    ASSUME IInv, LateInv, UNCHANGED <<polls, handed, minted>>, Begun \subseteq Begun',
           \A p \in Begun' : codes'[p].plaintext =
                                IF p \in Begun THEN codes[p].plaintext ELSE NoToken
    PROVE  LateInv'
  <1> USE PairingAssumption
  <1>1. HandedOver'
    BY DEF LateInv, HandedOver
  <1>2. PlaintextsApart'
    BY DEF LateInv, PlaintextsApart
  <1>3. ASSUME NEW q \in Slots PROVE PollLate(q)'
    BY DEF LateInv, PollLate
  <1> QED
    BY <1>1, <1>2, <1>3 DEF LateInv

LEMMA RowActionsLate ==
    ASSUME IInv, LateInv,
           \/ \E p \in Pairs : Begin(p) \/ Expire(p)
           \/ \E t \in Tokens : WipeAccount(t)
    PROVE  LateInv'
  <1> USE DEF Begun
  <1>1. codes \in [Begun -> Code]
    BY DEF IInv, TypeOK
  <1>2. ASSUME NEW p \in Pairs, Begin(p) PROVE LateInv'
    BY <1>1, <1>2, RowsLate DEF Begin, NewCode
  <1>3. ASSUME NEW p \in Pairs, Expire(p) PROVE LateInv'
    <2>1. /\ DOMAIN codes' = DOMAIN codes
          /\ \A r \in DOMAIN codes : codes'[r].plaintext = codes[r].plaintext
      BY <1>1, <1>3 DEF Expire, Code
    <2> QED
      BY <1>3, <2>1, RowsLate DEF Expire
  <1>4. ASSUME NEW t \in Tokens, WipeAccount(t) PROVE LateInv'
    <2>1. /\ DOMAIN codes' = DOMAIN codes
          /\ \A r \in DOMAIN codes : codes'[r].plaintext = codes[r].plaintext
      BY <1>1, <1>4 DEF WipeAccount, Code
    <2> QED
      BY <1>4, <2>1, RowsLate DEF WipeAccount
  <1> QED
    BY <1>2, <1>3, <1>4

\* A claim's token is new: nothing was handed over, stored or read of it.
LEMMA ClaimLate ==
    ASSUME IInv, LateInv, NEW p \in Pairs, NEW t \in Tokens, Claim(p, t)
    PROVE  LateInv'
  <1> USE PairingAssumption DEF Begun
  <1>1. /\ codes \in [Begun -> Code] /\ p \in Begun /\ t \notin minted /\ t # NoToken
        /\ minted \subseteq minted' /\ UNCHANGED <<polls, handed>>
    BY DEF IInv, TypeOK, Claim
  <1>2. /\ DOMAIN codes' = DOMAIN codes /\ codes'[p].plaintext = t
        /\ \A r \in Begun \ {p} : codes'[r] = codes[r]
    BY <1>1 DEF Claim, Code
  <1>3. \A r \in Begun : codes[r].plaintext # t
    BY <1>1 DEF IInv, CodesOK
  <1>4. HandedOver'
    BY <1>1, <1>2 DEF LateInv, HandedOver
  <1>5. PlaintextsApart'
    BY <1>1, <1>2, <1>3 DEF LateInv, PlaintextsApart
  <1>6. ASSUME NEW q \in Slots PROVE PollLate(q)'
    <2>1. polls[q].token # t
      BY <1>1 DEF IInv, PollsOK, PollOK
    <2> QED
      BY <1>1, <1>2, <2>1 DEF LateInv, PollLate
  <1> QED
    BY <1>4, <1>5, <1>6 DEF LateInv

\* A poll remembers what was handed over before it is sent.
LEMMA SendPollLate ==
    ASSUME IInv, LateInv, NEW q \in Slots, SendPoll(q)
    PROVE  LateInv'
  <1>1. polls \in [Slots -> Poll] /\ UNCHANGED <<minted, codes, handed>>
    BY DEF IInv, TypeOK, SendPoll
  <1>2. /\ polls'[q].stage = "sent" /\ polls'[q].earlier = {t \in Tokens : handed[t] > 0}
        /\ \A r \in Slots \ {q} : polls'[r] = polls[r]
    BY <1>1 DEF SendPoll
  <1>3. HandedOver' /\ PlaintextsApart'
    BY <1>1 DEF LateInv, HandedOver, PlaintextsApart, Begun
  <1>4. ASSUME NEW r \in Slots PROVE PollLate(r)'
    BY <1>1, <1>2 DEF LateInv, PollLate, Begun
  <1> QED
    BY <1>3, <1>4 DEF LateInv

\* A row that is read has no plaintext that was handed over, and its
\* plaintext is in no other row.
LEMMA PollReadsLate ==
    ASSUME IInv, LateInv, NEW q \in Slots, PollReads(q)
    PROVE  LateInv'
  <1> USE PairingAssumption
  <1>1. /\ polls \in [Slots -> Poll] /\ polls[q] \in Poll
        /\ polls[q].stage = "sent" /\ polls[q].pair \in Begun
        /\ UNCHANGED <<minted, codes, handed>>
    BY DEF IInv, TypeOK, PollsOK, PollOK, PollReads
  <1>2. /\ \A r \in Slots \ {q} : polls'[r] = polls[r]
        /\ polls'[q].earlier = polls[q].earlier /\ polls'[q].pair = polls[q].pair
        /\ \/ polls'[q].stage = "answered" /\ polls'[q].token = NoToken
           \/ /\ polls'[q].stage = "read"
              /\ polls'[q].token = codes[polls[q].pair].plaintext
    <2>1. CASE \E answer \in {"pending", "expired"} : Answer(q, answer, NoToken)
      BY <1>1, <2>1, AnswerPolls DEF MaybeToken
    <2>2. CASE polls' = [polls EXCEPT ![q] = [@ EXCEPT !.stage = "read",
                                                      !.token = codes[polls[q].pair].plaintext]]
      BY <1>1, <2>2 DEF Poll
    <2> QED
      BY <2>1, <2>2 DEF PollReads
  <1>3. HandedOver' /\ PlaintextsApart'
    BY <1>1 DEF LateInv, HandedOver, PlaintextsApart, Begun
  <1>4. PollLate(q)'
    <2>1. polls[q].earlier \subseteq Tokens /\ \A t \in polls[q].earlier : handed[t] > 0
      BY <1>1 DEF Poll, LateInv, PollLate
    <2>2. polls'[q].token \notin polls'[q].earlier
      BY <1>1, <1>2, <2>1 DEF LateInv, HandedOver
    <2>3. ASSUME polls'[q].stage = "read", polls'[q].token # NoToken,
                 NEW p \in Begun \ {polls[q].pair}
          PROVE  codes[p].plaintext # polls'[q].token
      BY <1>1, <1>2, <2>3 DEF LateInv, PlaintextsApart
    <2> QED
      BY <1>1, <1>2, <2>2, <2>3 DEF PollLate, Begun
  <1>5. ASSUME NEW r \in Slots \ {q} PROVE PollLate(r)'
    BY <1>1, <1>2 DEF LateInv, PollLate, Begun
  <1> QED
    BY <1>3, <1>4, <1>5 DEF LateInv

\* The token that is handed over leaves its only row.
LEMMA PollAnswersLate ==
    ASSUME IInv, LateInv, NEW q \in Slots, PollAnswers(q)
    PROVE  LateInv'
  <1> USE PairingAssumption
  <1> DEFINE p == polls[q].pair
             token == polls[q].token
  <1>1. /\ polls \in [Slots -> Poll] /\ polls[q] \in Poll /\ polls[q].earlier \subseteq Tokens
        /\ codes \in [Begun -> Code] /\ handed \in [Tokens -> 0 .. 2]
        /\ polls[q].stage = "read" /\ p \in Begun
        /\ token \in minted \cup {NoToken} /\ codes[p].plaintext \in {NoToken, token}
        /\ minted \subseteq Tokens /\ UNCHANGED minted
    BY DEF IInv, TypeOK, PollsOK, PollOK, PollAnswers, Poll
  <1>2. /\ \A r \in Slots \ {q} : polls'[r] = polls[r]
        /\ polls'[q].earlier = polls[q].earlier
        /\ polls'[q].stage = "answered" /\ polls'[q].token \in {NoToken, token}
    <2>1. token \in MaybeToken /\ NoToken \in MaybeToken
      BY <1>1 DEF MaybeToken
    <2>2. CASE Answer(q, "error", NoToken)
      BY <1>1, <2>1, <2>2, AnswerPolls
    <2>3. CASE Answer(q, "claimed", token)
      BY <1>1, <2>1, <2>3, AnswerPolls
    <2> QED
      BY <2>2, <2>3 DEF PollAnswers
  <1>3. PollLate(q)'
    BY <1>1, <1>2 DEF LateInv, PollLate
  <1>4. CASE UNCHANGED <<codes, handed>>
    <2>1. HandedOver' /\ PlaintextsApart'
      BY <1>1, <1>4 DEF LateInv, HandedOver, PlaintextsApart, Begun
    <2>2. ASSUME NEW r \in Slots \ {q} PROVE PollLate(r)'
      BY <1>1, <1>2, <1>4 DEF LateInv, PollLate, Begun
    <2> QED
      BY <1>3, <2>1, <2>2 DEF LateInv
  <1>5. CASE /\ token # NoToken
             /\ codes' = [codes EXCEPT ![p].plaintext = NoToken]
             /\ handed' = [t \in Tokens |-> IF t # token THEN handed[t]
                                            ELSE IF handed[t] = 0 THEN 1 ELSE 2]
    <2>1. /\ Begun' = Begun /\ codes'[p].plaintext = NoToken
          /\ \A r \in Begun \ {p} : codes'[r] = codes[r]
      BY <1>1, <1>5 DEF Begun, Code
    <2>2. \A r \in Begun \ {p} : codes[r].plaintext # token
      BY <1>1, <1>5 DEF LateInv, PollLate
    <2>3. \A t \in Tokens : handed[t] > 0 => handed'[t] > 0
      BY <1>1, <1>5
    <2>4. \A t \in Tokens : handed'[t] > 0 => handed[t] > 0 \/ t = token
      BY <1>1, <1>5
    <2>5. HandedOver'
      BY <1>1, <1>5, <2>1, <2>2, <2>4 DEF LateInv, HandedOver
    <2>6. PlaintextsApart'
      BY <2>1 DEF LateInv, PlaintextsApart
    <2>7. ASSUME NEW r \in Slots \ {q} PROVE PollLate(r)'
      <3>1. polls[r].earlier \subseteq Tokens
        BY <1>1 DEF Poll
      <3> QED
        BY <1>2, <2>1, <2>3, <3>1 DEF LateInv, PollLate
    <2> QED
      BY <1>3, <2>5, <2>6, <2>7 DEF LateInv
  <1> QED
    BY <1>4, <1>5 DEF PollAnswers

LEMMA NextLate == IInv /\ LateInv /\ [Next]_vars => LateInv'
  <1> SUFFICES ASSUME IInv, LateInv, [Next]_vars PROVE LateInv'
    OBVIOUS
  <1>1. ASSUME NEW p \in Pairs, NEW t \in Tokens, Claim(p, t) PROVE LateInv'
    BY <1>1, ClaimLate
  <1>2. ASSUME NEW q \in Slots, SendPoll(q) \/ PollReads(q) \/ PollAnswers(q)
        PROVE  LateInv'
    BY <1>2, SendPollLate, PollReadsLate, PollAnswersLate
  <1>3. CASE UNCHANGED vars
    BY <1>3 DEF vars, LateInv, HandedOver, PlaintextsApart, PollLate, Begun
  <1> QED
    BY <1>1, <1>2, <1>3, ClientLate, RowActionsLate DEF Next

\* A poll sent after a token was taken out of its row never brings it again,
\* however many polls overlap, whatever is lost and whoever claims
\* (TestPairing_HappyPath, pairing_test.go:100-106; pairing.go:117-169).
THEOREM TakenTokensStayTaken == Spec => []LaterPollsGetNothing
<1>1. Init => LateInv
  BY PairingAssumption DEF Init, LateInv, HandedOver, PlaintextsApart, PollLate, FreeSlot, Begun
<1>2. LateInv => LaterPollsGetNothing
  BY DEF LateInv, PollLate, LaterPollsGetNothing
<1> QED
  BY <1>1, <1>2, NextLate, Invariance, PTL DEF Spec
=============================================================================
