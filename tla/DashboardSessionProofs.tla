----------------------- MODULE DashboardSessionProofs -----------------------
(***************************************************************************)
(* The tabs of a browser are told of its session, for any number of tabs,  *)
(* accounts and tokens, and whatever happens.                              *)
(***************************************************************************)
EXTENDS DashboardSession, TLAPS

IInv == TypeOK /\ NoHalfSession /\ Informed

LEMMA InitIInv == Init => IInv
  <1> SUFFICES ASSUME Init PROVE IInv
    OBVIOUS
  <1> USE DashboardSessionAssumption DEF Init
  <1>1. TypeOK
    BY DEF TypeOK, Account, Tokens, Request, Job, Data, NoRequest, NoJob, NoData
  <1>2. NoHalfSession /\ Informed
    BY DEF NoHalfSession, Informed
  <1> QED
    BY <1>1, <1>2 DEF IInv

\* What a 401 leaves, whoever rendered.
LEMMA AuthFailed ==
    ASSUME IInv, NEW x \in Tabs, NEW renders, emitAuthFailed(x, renders)
    PROVE  /\ user' = NoUser /\ token' = 0
           /\ notice' \in [Tabs -> BOOLEAN]
           /\ view' \in [Tabs -> Account]
           /\ page' \in [Tabs -> {"login", "complete", "onboarding", "app"}]
           /\ dest' \in [Tabs -> {"app", "onboarding"}]
           /\ user' \in Account /\ token' \in 0 .. MaxToken
           /\ NoHalfSession' /\ Informed'
  <1> USE DEF IInv, emitAuthFailed, clearSession, Stored, LoginWith
  <1>1. /\ notice' \in [Tabs -> BOOLEAN]
        /\ view' \in [Tabs -> Account]
        /\ page' \in [Tabs -> {"login", "complete", "onboarding", "app"}]
        /\ dest' \in [Tabs -> {"app", "onboarding"}]
    BY DEF TypeOK, Account
  <1>2. Informed'
    BY DEF TypeOK, Informed
  <1> QED
    BY <1>1, <1>2, DashboardSessionAssumption DEF NoHalfSession, Account

\* A token is issued once, so that whose the others are does not change.
LEMMA Issued ==
    ASSUME TypeOK, NEW u \in Users, NEW t \in Tokens, Issue(u, t)
    PROVE  /\ owner' \in [Tokens -> Account]
           /\ owner'[t] = u /\ u # NoUser /\ t # 0 /\ t \in 0 .. MaxToken
           /\ \A s \in Tokens : owner[s] # NoUser => owner'[s] = owner[s]
  BY DashboardSessionAssumption DEF TypeOK, Issue, Account, Tokens

-----------------------------------------------------------------------------
(* One lemma per action.                                                    *)

LEMMA SeeSessionIInv ==
    ASSUME IInv, NEW x \in Tabs, SeeSession(x)
    PROVE  IInv'
  <1> USE DashboardSessionAssumption DEF IInv, SeeSession, Subscribed, store, backend, screen, cache
  <1>1. TypeOK'
    BY DEF TypeOK, Account, Tokens, Request, Job, Data, NoRequest, NoJob, NoData
  <1>2. NoHalfSession'
    BY DEF TypeOK, NoHalfSession, Tokens
  <1>3. Informed'
    BY DEF TypeOK, Informed
  <1> QED
    BY <1>1, <1>2, <1>3

LEMMA ReloadIInv ==
    ASSUME IInv, NEW x \in Tabs, Reload(x)
    PROVE  IInv'
  <1> USE DashboardSessionAssumption DEF IInv, Reload, Load, store, backend, screen, cache
  <1>1. TypeOK'
    BY DEF TypeOK, Account, Tokens, Request, Job, Data, NoRequest, NoJob, NoData
  <1>2. NoHalfSession'
    BY DEF TypeOK, NoHalfSession, Tokens
  <1>3. Informed'
    BY DEF TypeOK, Informed
  <1> QED
    BY <1>1, <1>2, <1>3

LEMMA LoadCompleteIInv ==
    ASSUME IInv, NEW x \in Tabs, LoadComplete(x)
    PROVE  IInv'
  <1> USE DashboardSessionAssumption DEF IInv, LoadComplete, Load, store, backend, screen, cache
  <1>1. TypeOK'
    BY DEF TypeOK, Account, Tokens, Request, Job, Data, NoRequest, NoJob, NoData
  <1>2. NoHalfSession'
    BY DEF TypeOK, NoHalfSession, Tokens
  <1>3. Informed'
    BY DEF TypeOK, Informed
  <1> QED
    BY <1>1, <1>2, <1>3

LEMMA QueryOkIInv ==
    ASSUME IInv, NEW x \in Tabs, QueryOk(x)
    PROVE  IInv'
  <1> USE DashboardSessionAssumption DEF IInv, QueryOk, store, backend, screen, cache
  <1>1. TypeOK'
    BY DEF TypeOK, Account, Tokens, Request, Job, Data, NoRequest, NoJob, NoData
  <1>2. NoHalfSession'
    BY DEF TypeOK, NoHalfSession, Tokens
  <1>3. Informed'
    BY DEF TypeOK, Informed
  <1> QED
    BY <1>1, <1>2, <1>3

LEMMA QueryUnauthorizedIInv ==
    ASSUME IInv, NEW x \in Tabs, QueryUnauthorized(x)
    PROVE  IInv'
  <1> USE DEF IInv
  <1>1. PICK renders : emitAuthFailed(x, renders)
    BY DEF QueryUnauthorized
  <1>2. request' \in [Tabs -> Request]
    <2>1. request[x] \in Request
      BY DEF TypeOK
    <2>2. PICK again \in {TRUE, FALSE} :
             request' = [request EXCEPT ![x] = IF again THEN [request[x] EXCEPT !.token = 0, !.again = TRUE]
                                                        ELSE NoRequest]
      BY DEF QueryUnauthorized
    <2>5. 0 \in 0 .. MaxToken
      BY DashboardSessionAssumption
    <2>3. [request[x] EXCEPT !.token = 0, !.again = TRUE] \in Request
      BY <2>1, <2>5, Zenon DEF Request
    <2>4. NoRequest \in Request
      BY DashboardSessionAssumption DEF Request, NoRequest
    <2> QED
      BY <2>2, <2>3, <2>4 DEF TypeOK
  <1>3. UNCHANGED <<backend, cache, job>>
    BY DEF QueryUnauthorized
  <1>4. TypeOK'
    BY <1>1, <1>2, <1>3, AuthFailed, DashboardSessionAssumption DEF TypeOK, Account, backend, cache
  <1> QED
    BY <1>1, <1>4, AuthFailed

LEMMA QueryAgainIInv ==
    ASSUME IInv, NEW x \in Tabs, QueryAgain(x)
    PROVE  IInv'
  <1> USE DEF IInv, QueryAgain, store, backend, screen, cache
  <1>1. request' \in [Tabs -> Request]
    BY DEF TypeOK, Request
  <1>2. TypeOK'
    BY <1>1 DEF TypeOK
  <1>3. NoHalfSession' /\ Informed'
    BY DEF NoHalfSession, Informed
  <1> QED
    BY <1>2, <1>3

LEMMA MeServerErrorIInv ==
    ASSUME IInv, NEW x \in Tabs, MeServerError(x)
    PROVE  IInv'
  <1> USE DashboardSessionAssumption DEF IInv, MeServerError, clearSession, LoginWith, Stored, store, backend, screen, cache
  <1>1. TypeOK'
    BY DEF TypeOK, Account, Tokens, Request, Job, Data, NoRequest, NoJob, NoData
  <1>2. NoHalfSession'
    BY DEF TypeOK, NoHalfSession, Tokens
  <1>3. Informed'
    BY DEF TypeOK, Informed
  <1> QED
    BY <1>1, <1>2, <1>3

LEMMA NotAuthedIInv ==
    ASSUME IInv, NEW x \in Tabs, NotAuthed(x)
    PROVE  IInv'
  <1> USE DashboardSessionAssumption DEF IInv, NotAuthed, LoginWith, store, backend, screen, cache
  <1>1. TypeOK'
    BY DEF TypeOK, Account, Tokens, Request, Job, Data, NoRequest, NoJob, NoData
  <1>2. NoHalfSession'
    BY DEF TypeOK, NoHalfSession, Tokens
  <1>3. Informed'
    BY DEF TypeOK, Informed
  <1> QED
    BY <1>1, <1>2, <1>3

LEMMA NoTeamsIInv ==
    ASSUME IInv, NEW x \in Tabs, NoTeams(x)
    PROVE  IInv'
  <1> USE DashboardSessionAssumption DEF IInv, NoTeams, Goto, store, backend, screen, cache
  <1>1. TypeOK'
    BY DEF TypeOK, Account, Tokens, Request, Job, Data, NoRequest, NoJob, NoData
  <1>2. NoHalfSession'
    BY DEF TypeOK, NoHalfSession, Tokens
  <1>3. Informed'
    BY DEF TypeOK, Informed
  <1> QED
    BY <1>1, <1>2, <1>3

LEMMA WizardDoneIInv ==
    ASSUME IInv, NEW x \in Tabs, WizardDone(x)
    PROVE  IInv'
  <1> USE DashboardSessionAssumption DEF IInv, WizardDone, Goto, store, backend, screen, cache
  <1>1. TypeOK'
    BY DEF TypeOK, Account, Tokens, Request, Job, Data, NoRequest, NoJob, NoData
  <1>2. NoHalfSession'
    BY DEF TypeOK, NoHalfSession, Tokens
  <1>3. Informed'
    BY DEF TypeOK, Informed
  <1> QED
    BY <1>1, <1>2, <1>3

LEMMA AlreadyInIInv ==
    ASSUME IInv, NEW x \in Tabs, AlreadyIn(x)
    PROVE  IInv'
  <1> USE DashboardSessionAssumption DEF IInv, AlreadyIn, Goto, store, backend, screen, cache
  <1>1. TypeOK'
    BY DEF TypeOK, Account, Tokens, Request, Job, Data, NoRequest, NoJob, NoData
  <1>2. NoHalfSession'
    BY DEF TypeOK, NoHalfSession, Tokens
  <1>3. Informed'
    BY DEF TypeOK, Informed
  <1> QED
    BY <1>1, <1>2, <1>3

LEMMA LoginIInv ==
    ASSUME IInv, NEW x \in Tabs, Login(x)
    PROVE  IInv'
  <1> USE DEF IInv, store, backend, screen, cache
  <1>1. NoHalfSession' /\ Informed'
    BY DEF Login, NoHalfSession, Informed
  <1>2. CASE \E u \in Users, t \in Tokens :
               /\ Issue(u, t) /\ valid' = valid \cup {t}
               /\ job' = [job EXCEPT ![x] = [kind |-> "login", token |-> t, dest |-> dest[x]]]
    <2>1. PICK u \in Users, t \in Tokens :
               /\ Issue(u, t) /\ valid' = valid \cup {t}
               /\ job' = [job EXCEPT ![x] = [kind |-> "login", token |-> t, dest |-> dest[x]]]
      BY <1>2
    <2>2. job' \in [Tabs -> Job]
      BY <2>1, Issued DEF TypeOK, Job
    <2>3. valid' \subseteq {s \in Tokens : owner'[s] # NoUser}
      BY <2>1, Issued DEF TypeOK
    <2>4. token # 0 => owner'[token] # NoUser
      BY <2>1, Issued DEF TypeOK, Tokens
    <2>5. ASSUME NEW y \in Tabs
          PROVE  /\ job'[y].token # 0 => owner'[job'[y].token] # NoUser
                 /\ job'[y].kind \in {"login", "me", "change"} => job'[y].token # 0
      <3>1. CASE y = x
        BY <2>1, <3>1, Issued DEF TypeOK
      <3>2. CASE y # x
        <4>1. job'[y] = job[y] /\ job[y].token \in Tokens \cup {0}
          BY <2>1, <3>2 DEF TypeOK, Tokens, Job
        <4> QED
          BY <2>1, <4>1, Issued DEF TypeOK
      <3> QED
        BY <3>1, <3>2
    <2>6. TypeOK'
      BY <2>1, <2>2, <2>3, <2>4, <2>5, Issued DEF Login, TypeOK
    <2> QED
      BY <1>1, <2>6
  <1>3. CASE /\ job' = [job EXCEPT ![x] = [NoJob EXCEPT !.kind = "refused"]]
             /\ UNCHANGED <<owner, valid>>
    <2>1. job' \in [Tabs -> Job]
      BY <1>3, DashboardSessionAssumption DEF TypeOK, Job, NoJob
    <2>2. TypeOK'
      BY <1>3, <2>1 DEF Login, TypeOK, NoJob
    <2> QED
      BY <1>1, <2>2
  <1> QED
    BY <1>2, <1>3 DEF Login

LEMMA LoginOkIInv ==
    ASSUME IInv, NEW x \in Tabs, LoginOk(x)
    PROVE  IInv'
  <1> USE DashboardSessionAssumption DEF IInv, LoginOk, setSession, Stored, Goto, store, backend, screen, cache
  <1>1. TypeOK'
    BY DEF TypeOK, Account, Tokens, Request, Job, Data, NoRequest, NoJob, NoData
  <1>2. NoHalfSession'
    BY DEF TypeOK, NoHalfSession, Tokens
  <1>3. Informed'
    BY DEF TypeOK, Informed
  <1> QED
    BY <1>1, <1>2, <1>3

LEMMA RefusedIInv ==
    ASSUME IInv, NEW x \in Tabs, Refused(x)
    PROVE  IInv'
  <1> USE DEF IInv, Refused
  <1>1. job' \in [Tabs -> Job]
    BY DashboardSessionAssumption DEF TypeOK, Job, NoJob
  <1>2. emitAuthFailed(x, FALSE) /\ UNCHANGED <<owner, valid, team, event, dismissed, teams, status, request>>
    BY DEF backend, cache
  <1>3. \A y \in Tabs : /\ job'[y].token # 0 => owner[job'[y].token] # NoUser
                        /\ job'[y].kind \in {"login", "me", "change"} => job'[y].token # 0
    BY DEF TypeOK, NoJob
  <1>4. TypeOK'
    BY <1>1, <1>2, <1>3, AuthFailed DEF TypeOK
  <1> QED
    BY <1>2, <1>4, AuthFailed

LEMMA ReturnFromProviderIInv ==
    ASSUME IInv, NEW x \in Tabs, ReturnFromProvider(x)
    PROVE  IInv'
  <1> USE DEF IInv, store
  <1>1. PICK u \in Users, t \in Tokens :
             /\ Issue(u, t) /\ valid' = valid \cup {t}
             /\ job' = [job EXCEPT ![x] = [NoJob EXCEPT !.kind = "handoff", !.token = t]]
    BY DEF ReturnFromProvider
  <1>2. job' \in [Tabs -> Job]
    BY <1>1, Issued DEF TypeOK, Job, NoJob
  <1>3. valid' \subseteq {s \in Tokens : owner'[s] # NoUser}
    BY <1>1, Issued DEF TypeOK
  <1>4. token # 0 => owner'[token] # NoUser
    BY <1>1, Issued DEF TypeOK, Tokens
  <1>5. \A y \in Tabs : /\ job'[y].token # 0 => owner'[job'[y].token] # NoUser
                        /\ job'[y].kind \in {"login", "me", "change"} => job'[y].token # 0
    BY <1>1, Issued DEF TypeOK, Tokens, Job, NoJob
  <1>6. teams' \in [Tabs -> Data] /\ status' \in [Tabs -> Data] /\ request' \in [Tabs -> Request]
    BY DashboardSessionAssumption
       DEF ReturnFromProvider, Load, TypeOK, Data, NoData, Request, NoRequest, Account
  <1>7. page' \in [Tabs -> {"login", "complete", "onboarding", "app"}] /\ view' \in [Tabs -> Account]
    BY DEF ReturnFromProvider, Goto, TypeOK
  <1>8. TypeOK'
    BY <1>2, <1>3, <1>4, <1>5, <1>6, <1>7, <1>1, Issued DEF ReturnFromProvider, TypeOK
  <1>9. NoHalfSession' /\ Informed'
    BY DEF ReturnFromProvider, Goto, TypeOK, NoHalfSession, Informed
  <1> QED
    BY <1>8, <1>9

LEMMA HandoffTokenIInv ==
    ASSUME IInv, NEW x \in Tabs, HandoffToken(x)
    PROVE  IInv'
  <1> USE DashboardSessionAssumption DEF IInv, HandoffToken, setToken, Stored, store, backend, screen, cache
  <1>1. TypeOK'
    BY DEF TypeOK, Account, Tokens, Request, Job, Data, NoRequest, NoJob, NoData
  <1>2. NoHalfSession'
    BY DEF TypeOK, NoHalfSession, Tokens
  <1>3. Informed'
    BY DEF TypeOK, Informed
  <1> QED
    BY <1>1, <1>2, <1>3

LEMMA HandoffMeIInv ==
    ASSUME IInv, NEW x \in Tabs, HandoffMe(x)
    PROVE  IInv'
  <1> USE DashboardSessionAssumption DEF IInv, HandoffMe, setSession, Stored, Goto, store, backend, screen, cache
  <1>1. TypeOK'
    BY DEF TypeOK, Account, Tokens, Request, Job, Data, NoRequest, NoJob, NoData
  <1>2. NoHalfSession'
    BY DEF TypeOK, NoHalfSession, Tokens
  <1>3. Informed'
    BY DEF TypeOK, Informed
  <1> QED
    BY <1>1, <1>2, <1>3

LEMMA HandoffFailsIInv ==
    ASSUME IInv, NEW x \in Tabs, HandoffFails(x)
    PROVE  IInv'
  <1> USE DashboardSessionAssumption DEF IInv, HandoffFails, clearSession, Stored, store, backend, screen, cache
  <1>1. TypeOK'
    BY DEF TypeOK, Account, Tokens, Request, Job, Data, NoRequest, NoJob, NoData
  <1>2. NoHalfSession'
    BY DEF TypeOK, NoHalfSession, Tokens
  <1>3. Informed'
    BY DEF TypeOK, Informed
  <1> QED
    BY <1>1, <1>2, <1>3

LEMMA BackToLoginIInv ==
    ASSUME IInv, NEW x \in Tabs, BackToLogin(x)
    PROVE  IInv'
  <1> USE DashboardSessionAssumption DEF IInv, BackToLogin, LoginWith, store, backend, screen, cache
  <1>1. TypeOK'
    BY DEF TypeOK, Account, Tokens, Request, Job, Data, NoRequest, NoJob, NoData
  <1>2. NoHalfSession'
    BY DEF TypeOK, NoHalfSession, Tokens
  <1>3. Informed'
    BY DEF TypeOK, Informed
  <1> QED
    BY <1>1, <1>2, <1>3

LEMMA ChangeCredentialsIInv ==
    ASSUME IInv, NEW x \in Tabs, ChangeCredentials(x)
    PROVE  IInv'
  <1> USE DEF IInv, store, screen, cache
  <1>1. NoHalfSession' /\ Informed'
    BY DEF ChangeCredentials, NoHalfSession, Informed
  <1>2. CASE /\ token \in valid
             /\ \E t \in Tokens :
                  /\ Issue(owner[token], t)
                  /\ valid' = (valid \ TokensOf(owner[token])) \cup {t}
                  /\ job' = [job EXCEPT ![x] = [NoJob EXCEPT !.kind = "change", !.token = t]]
    <2>1. PICK t \in Tokens :
                  /\ Issue(owner[token], t)
                  /\ valid' = (valid \ TokensOf(owner[token])) \cup {t}
                  /\ job' = [job EXCEPT ![x] = [NoJob EXCEPT !.kind = "change", !.token = t]]
      BY <1>2
    <2>2. owner[token] \in Users
      BY <1>2 DEF TypeOK, Account
    <2>3. job' \in [Tabs -> Job]
      BY <2>1, <2>2, Issued DEF TypeOK, Job, NoJob
    <2>4. valid' \subseteq {s \in Tokens : owner'[s] # NoUser}
      BY <2>1, <2>2, Issued DEF TypeOK
    <2>5. token # 0 => owner'[token] # NoUser
      BY <2>1, <2>2, Issued DEF TypeOK, Tokens
    <2>6. \A y \in Tabs : /\ job'[y].token # 0 => owner'[job'[y].token] # NoUser
                          /\ job'[y].kind \in {"login", "me", "change"} => job'[y].token # 0
      BY <2>1, <2>2, Issued DEF TypeOK, Tokens, Job, NoJob
    <2>7. TypeOK'
      BY <2>1, <2>2, <2>3, <2>4, <2>5, <2>6, Issued DEF ChangeCredentials, TypeOK
    <2> QED
      BY <1>1, <2>7
  <1>3. CASE /\ job' = [job EXCEPT ![x] = [NoJob EXCEPT !.kind = "refused"]]
             /\ UNCHANGED <<owner, valid>>
    <2>1. job' \in [Tabs -> Job]
      BY <1>3, DashboardSessionAssumption DEF TypeOK, Job, NoJob
    <2>2. TypeOK'
      BY <1>3, <2>1 DEF ChangeCredentials, TypeOK, NoJob
    <2> QED
      BY <1>1, <2>2
  <1> QED
    BY <1>2, <1>3 DEF ChangeCredentials

LEMMA ChangeOkIInv ==
    ASSUME IInv, NEW x \in Tabs, ChangeOk(x)
    PROVE  IInv'
  <1> USE DashboardSessionAssumption DEF IInv, ChangeOk, setToken, Stored, store, backend, screen, cache
  <1>1. TypeOK'
    BY DEF TypeOK, Account, Tokens, Request, Job, Data, NoRequest, NoJob, NoData
  <1>2. NoHalfSession'
    BY DEF TypeOK, NoHalfSession, Tokens
  <1>3. Informed'
    BY DEF TypeOK, Informed
  <1> QED
    BY <1>1, <1>2, <1>3

LEMMA DeleteDataIInv ==
    ASSUME IInv, NEW x \in Tabs, DeleteData(x)
    PROVE  IInv'
  <1> USE DEF IInv, store, screen, cache
  <1>1. NoHalfSession' /\ Informed'
    BY DEF DeleteData, NoHalfSession, Informed
  <1>2. job' \in [Tabs -> Job]
    BY DashboardSessionAssumption DEF DeleteData, TypeOK, Job, NoJob
  <1>3. \A y \in Tabs : /\ job'[y].token # 0 => owner[job'[y].token] # NoUser
                        /\ job'[y].kind \in {"login", "me", "change"} => job'[y].token # 0
    BY DEF DeleteData, TypeOK, Job, NoJob
  <1>4. /\ team' \in [Users -> BOOLEAN] /\ event' \in [Users -> BOOLEAN]
        /\ dismissed' \in [Users -> BOOLEAN]
    BY DEF DeleteData, TypeOK
  <1>5. valid' \subseteq valid
    BY DEF DeleteData, TokensOf
  <1>6. TypeOK'
    BY <1>2, <1>3, <1>4, <1>5 DEF DeleteData, TypeOK
  <1> QED
    BY <1>1, <1>6

LEMMA DeleteOkIInv ==
    ASSUME IInv, NEW x \in Tabs, DeleteOk(x)
    PROVE  IInv'
  <1> USE DashboardSessionAssumption DEF IInv, DeleteOk, clearSession, LoginWith, Load, Stored, store, backend, screen, cache
  <1>1. TypeOK'
    BY DEF TypeOK, Account, Tokens, Request, Job, Data, NoRequest, NoJob, NoData
  <1>2. NoHalfSession'
    BY DEF TypeOK, NoHalfSession, Tokens
  <1>3. Informed'
    BY DEF TypeOK, Informed
  <1> QED
    BY <1>1, <1>2, <1>3

LEMMA LogoutIInv ==
    ASSUME IInv, NEW x \in Tabs, Logout(x)
    PROVE  IInv'
  <1> USE DashboardSessionAssumption DEF IInv, Logout, clearSession, LoginWith, Load, Stored, store, backend, screen, cache
  <1>1. TypeOK'
    BY DEF TypeOK, Account, Tokens, Request, Job, Data, NoRequest, NoJob, NoData
  <1>2. NoHalfSession'
    BY DEF TypeOK, NoHalfSession, Tokens
  <1>3. Informed'
    BY DEF TypeOK, Informed
  <1> QED
    BY <1>1, <1>2, <1>3

LEMMA CreateCompanyIInv ==
    ASSUME IInv, NEW x \in Tabs, CreateCompany(x)
    PROVE  IInv'
  <1> USE DEF IInv, cache
  <1>1. CASE token \in valid
    <2>1. request' \in [Tabs -> Request]
      <3>1. request' = [request EXCEPT ![x] = [what |-> "teams", token |-> token, again |-> FALSE]]
        BY <1>1 DEF CreateCompany
      <3>2. [what |-> "teams", token |-> token, again |-> FALSE] \in Request
        BY DEF TypeOK, Request
      <3> QED
        BY <3>1, <3>2 DEF TypeOK
    <2>9. team' \in [Users -> BOOLEAN]
      BY <1>1 DEF CreateCompany, TypeOK
    <2>2. TypeOK' /\ NoHalfSession' /\ Informed'
      BY <1>1, <2>1, <2>9 DEF CreateCompany, store, screen, TypeOK, NoHalfSession, Informed
    <2> QED
      BY <2>2
  <1>2. CASE token \notin valid
    <2>1. emitAuthFailed(x, FALSE)
          /\ UNCHANGED <<owner, valid, team, event, dismissed, teams, status, request, job>>
      BY <1>2 DEF CreateCompany
    <2>2. TypeOK'
      BY <2>1, AuthFailed DEF TypeOK
    <2> QED
      BY <2>1, <2>2, AuthFailed
  <1> QED
    BY <1>1, <1>2

LEMMA FinishIInv ==
    ASSUME IInv, NEW x \in Tabs, Finish(x)
    PROVE  IInv'
  <1> USE DEF IInv, Finish, Goto, store, cache, clearSession, Stored
  <1>1. CASE token \in valid
    <2>1. dismissed' \in [Users -> BOOLEAN]
      BY <1>1 DEF TypeOK
    <2>2. TypeOK' /\ NoHalfSession' /\ Informed'
      BY <1>1, <2>1 DEF TypeOK, NoHalfSession, Informed
    <2> QED
      BY <2>2
  <1>2. CASE token \notin valid
    <2>0. user' = NoUser /\ token' = 0 /\ UNCHANGED <<dismissed, owner>>
      BY <1>2
    <2>3. notice' \in [Tabs -> BOOLEAN] /\ view' \in [Tabs -> Account]
          /\ page' \in [Tabs -> {"login", "complete", "onboarding", "app"}]
      BY <1>2, <2>0 DEF TypeOK, Account
    <2>1. TypeOK'
      BY <2>0, <2>3, DashboardSessionAssumption DEF TypeOK, Account
    <2>2. NoHalfSession' /\ Informed'
      BY <1>2 DEF TypeOK, NoHalfSession, Informed
    <2> QED
      BY <2>1, <2>2
  <1> QED
    BY <1>1, <1>2

LEMMA QueryIInv ==
    ASSUME IInv, NEW x \in Tabs, NEW what \in Queries, Query(x, what)
    PROVE  IInv'
  <1> USE DEF IInv, Query, store, backend, screen, cache
  <1>1. request' \in [Tabs -> Request]
    BY DashboardSessionAssumption DEF TypeOK, Request
  <1>2. TypeOK' /\ NoHalfSession' /\ Informed'
    BY <1>1 DEF TypeOK, NoHalfSession, Informed
  <1> QED
    BY <1>2

LEMMA ElsewhereIInv ==
    ASSUME IInv, NEW u \in Users, Revoke(u) \/ EventArrives(u) \/ LoseTeam(u)
    PROVE  IInv'
  <1> USE DEF IInv, Revoke, EventArrives, LoseTeam, store, screen, cache
  <1>1. TypeOK'
    BY DEF TypeOK, TokensOf
  <1>2. NoHalfSession' /\ Informed'
    BY DEF NoHalfSession, Informed
  <1> QED
    BY <1>1, <1>2

LEMMA NextIInv == IInv /\ [Next]_vars => IInv'
  <1> SUFFICES ASSUME IInv, [Next]_vars PROVE IInv'
    OBVIOUS
  <1>1. CASE UNCHANGED vars
    BY <1>1 DEF IInv, vars, store, backend, screen, cache, TypeOK, NoHalfSession, Informed
  <1>2. ASSUME NEW x \in Tabs, SeeSession(x) PROVE IInv'
    BY <1>2, SeeSessionIInv
  <1>3. ASSUME NEW x \in Tabs, Reload(x) PROVE IInv'
    BY <1>3, ReloadIInv
  <1>4. ASSUME NEW x \in Tabs, LoadComplete(x) PROVE IInv'
    BY <1>4, LoadCompleteIInv
  <1>5. ASSUME NEW x \in Tabs, QueryOk(x) PROVE IInv'
    BY <1>5, QueryOkIInv
  <1>6. ASSUME NEW x \in Tabs, QueryUnauthorized(x) PROVE IInv'
    BY <1>6, QueryUnauthorizedIInv
  <1>7. ASSUME NEW x \in Tabs, QueryAgain(x) PROVE IInv'
    BY <1>7, QueryAgainIInv
  <1>8. ASSUME NEW x \in Tabs, MeServerError(x) PROVE IInv'
    BY <1>8, MeServerErrorIInv
  <1>9. ASSUME NEW x \in Tabs, NotAuthed(x) PROVE IInv'
    BY <1>9, NotAuthedIInv
  <1>10. ASSUME NEW x \in Tabs, NoTeams(x) PROVE IInv'
    BY <1>10, NoTeamsIInv
  <1>11. ASSUME NEW x \in Tabs, WizardDone(x) PROVE IInv'
    BY <1>11, WizardDoneIInv
  <1>12. ASSUME NEW x \in Tabs, AlreadyIn(x) PROVE IInv'
    BY <1>12, AlreadyInIInv
  <1>13. ASSUME NEW x \in Tabs, Login(x) PROVE IInv'
    BY <1>13, LoginIInv
  <1>14. ASSUME NEW x \in Tabs, LoginOk(x) PROVE IInv'
    BY <1>14, LoginOkIInv
  <1>15. ASSUME NEW x \in Tabs, Refused(x) PROVE IInv'
    BY <1>15, RefusedIInv
  <1>16. ASSUME NEW x \in Tabs, ReturnFromProvider(x) PROVE IInv'
    BY <1>16, ReturnFromProviderIInv
  <1>17. ASSUME NEW x \in Tabs, HandoffToken(x) PROVE IInv'
    BY <1>17, HandoffTokenIInv
  <1>18. ASSUME NEW x \in Tabs, HandoffMe(x) PROVE IInv'
    BY <1>18, HandoffMeIInv
  <1>19. ASSUME NEW x \in Tabs, HandoffFails(x) PROVE IInv'
    BY <1>19, HandoffFailsIInv
  <1>20. ASSUME NEW x \in Tabs, BackToLogin(x) PROVE IInv'
    BY <1>20, BackToLoginIInv
  <1>21. ASSUME NEW x \in Tabs, ChangeCredentials(x) PROVE IInv'
    BY <1>21, ChangeCredentialsIInv
  <1>22. ASSUME NEW x \in Tabs, ChangeOk(x) PROVE IInv'
    BY <1>22, ChangeOkIInv
  <1>23. ASSUME NEW x \in Tabs, DeleteData(x) PROVE IInv'
    BY <1>23, DeleteDataIInv
  <1>24. ASSUME NEW x \in Tabs, DeleteOk(x) PROVE IInv'
    BY <1>24, DeleteOkIInv
  <1>25. ASSUME NEW x \in Tabs, Logout(x) PROVE IInv'
    BY <1>25, LogoutIInv
  <1>26. ASSUME NEW x \in Tabs, CreateCompany(x) PROVE IInv'
    BY <1>26, CreateCompanyIInv
  <1>27. ASSUME NEW x \in Tabs, Finish(x) PROVE IInv'
    BY <1>27, FinishIInv
  <1>28. ASSUME NEW x \in Tabs, NEW what \in Queries, Query(x, what) PROVE IInv'
    BY <1>28, QueryIInv
  <1>29. ASSUME NEW u \in Users, Revoke(u) \/ EventArrives(u) \/ LoseTeam(u) PROVE IInv'
    BY <1>29, ElsewhereIInv
  <1> QED
    BY <1>1, <1>2, <1>3, <1>4, <1>5, <1>6, <1>7, <1>8, <1>9, <1>10, <1>11, <1>12, <1>13, <1>14, <1>15, <1>16, <1>17, <1>18, <1>19, <1>20, <1>21, <1>22, <1>23, <1>24, <1>25, <1>26, <1>27, <1>28, <1>29 DEF Next

THEOREM Invariance == Spec => []IInv
  BY InitIInv, NextIInv, PTL DEF Spec

-----------------------------------------------------------------------------
(* The properties.                                                          *)

\* The state of the browser and of the backend has its type, and every token
\* kept, or on its way to a tab, was issued to someone.
THEOREM TypeCorrect == Spec => []TypeOK
  BY Invariance, PTL DEF IInv

\* Nobody is signed in without a token.
THEOREM SessionsAreWhole == Spec => []NoHalfSession
  BY Invariance, PTL DEF IInv

\* A tab that shows the application to someone who is not the browser's user,
\* or the login page to someone who has signed in, has a storage event on its way.
THEOREM TabsAreInformed == Spec => []Informed
  BY Invariance, PTL DEF IInv

\* What a step may do to the user, the token and whose it is.
LEMMA StepParts ==
    ASSUME IInv, [Next]_vars, Agrees
    PROVE  Agrees' \/ \E x \in Tabs : job[x].kind \in {"handoff", "change"} /\ job'[x] # job[x]
  <1> USE DEF IInv
  <1>1. CASE UNCHANGED <<user, token, owner>>
    BY <1>1 DEF Agrees
  <1>2. CASE user' = NoUser
    BY <1>2 DEF Agrees
  <1>3. CASE UNCHANGED <<user, token>> /\ \E u \in Users, t \in Tokens : Issue(u, t)
    <2>1. PICK u \in Users, t \in Tokens : Issue(u, t)
      BY <1>3
    <2>2. user # NoUser => token \in Tokens /\ owner[token] # NoUser
      BY DEF TypeOK, NoHalfSession, Tokens
    <2> QED
      BY <1>3, <2>1, <2>2, Issued DEF Agrees
  <1>4. CASE UNCHANGED owner /\ user' = owner[token']
    BY <1>4 DEF Agrees
  <1>5. ASSUME NEW x \in Tabs, SeeSession(x) \/ Reload(x) \/ LoadComplete(x) \/ QueryOk(x) \/ QueryAgain(x) \/ NotAuthed(x)
              \/ NoTeams(x) \/ WizardDone(x) \/ AlreadyIn(x) \/ BackToLogin(x) \/ DeleteData(x)
       PROVE  Agrees' \/ \E y \in Tabs : job[y].kind \in {"handoff", "change"} /\ job'[y] # job[y]
    BY <1>5, <1>1 DEF SeeSession, Reload, LoadComplete, QueryOk, QueryAgain, NotAuthed, NoTeams, WizardDone, AlreadyIn, BackToLogin, DeleteData, store, backend
  <1>6. ASSUME NEW x \in Tabs, NEW what \in Queries, Query(x, what)
       PROVE  Agrees' \/ \E y \in Tabs : job[y].kind \in {"handoff", "change"} /\ job'[y] # job[y]
    BY <1>6, <1>1 DEF Query, store, backend
  <1>7. ASSUME NEW u \in Users, Revoke(u) \/ EventArrives(u) \/ LoseTeam(u)
       PROVE  Agrees' \/ \E y \in Tabs : job[y].kind \in {"handoff", "change"} /\ job'[y] # job[y]
    BY <1>7, <1>1 DEF Revoke, EventArrives, LoseTeam, store
  <1>8. ASSUME NEW x \in Tabs, MeServerError(x) \/ HandoffFails(x) \/ DeleteOk(x) \/ Logout(x)
       PROVE  Agrees' \/ \E y \in Tabs : job[y].kind \in {"handoff", "change"} /\ job'[y] # job[y]
    BY <1>8, <1>2 DEF MeServerError, HandoffFails, DeleteOk, Logout, clearSession, Stored
  <1>9. ASSUME NEW x \in Tabs, QueryUnauthorized(x) \/ Refused(x)
       PROVE  Agrees' \/ \E y \in Tabs : job[y].kind \in {"handoff", "change"} /\ job'[y] # job[y]
    <2>1. \E renders : emitAuthFailed(x, renders)
      BY <1>9 DEF QueryUnauthorized, Refused
    <2> QED
      BY <2>1, <1>2, AuthFailed
  <1>10. ASSUME NEW x \in Tabs, CreateCompany(x)
       PROVE  Agrees' \/ \E y \in Tabs : job[y].kind \in {"handoff", "change"} /\ job'[y] # job[y]
    <2>1. CASE token \in valid
      BY <1>10, <1>1, <2>1 DEF CreateCompany, store
    <2>2. CASE token \notin valid
      BY <1>10, <1>2, <2>2, AuthFailed DEF CreateCompany
    <2> QED
      BY <2>1, <2>2
  <1>11. ASSUME NEW x \in Tabs, Finish(x)
       PROVE  Agrees' \/ \E y \in Tabs : job[y].kind \in {"handoff", "change"} /\ job'[y] # job[y]
    BY <1>11, <1>1, <1>2 DEF Finish, clearSession, Stored, store
  <1>12. ASSUME NEW x \in Tabs, Login(x) \/ ReturnFromProvider(x)
       PROVE  Agrees' \/ \E y \in Tabs : job[y].kind \in {"handoff", "change"} /\ job'[y] # job[y]
    BY <1>12, <1>1, <1>3 DEF Login, ReturnFromProvider, store
  <1>13. ASSUME NEW x \in Tabs, ChangeCredentials(x)
       PROVE  Agrees' \/ \E y \in Tabs : job[y].kind \in {"handoff", "change"} /\ job'[y] # job[y]
    <2>1. token \in valid => owner[token] \in Users
      BY DEF TypeOK, Account
    <2> QED
      BY <1>13, <1>1, <1>3, <2>1 DEF ChangeCredentials, store
  <1>14. ASSUME NEW x \in Tabs, LoginOk(x) \/ HandoffMe(x)
       PROVE  Agrees' \/ \E y \in Tabs : job[y].kind \in {"handoff", "change"} /\ job'[y] # job[y]
    BY <1>14, <1>4 DEF LoginOk, HandoffMe, setSession, Stored, backend
  <1>15. ASSUME NEW x \in Tabs, HandoffToken(x) \/ ChangeOk(x)
       PROVE  Agrees' \/ \E y \in Tabs : job[y].kind \in {"handoff", "change"} /\ job'[y] # job[y]
    <2>1. job[x].kind \in {"handoff", "change"} /\ job'[x].kind # job[x].kind
      BY <1>15 DEF HandoffToken, ChangeOk, NoJob, TypeOK, Job
    <2> QED
      BY <2>1
  <1>16. CASE UNCHANGED vars
    BY <1>16, <1>1 DEF vars, store, backend
  <1> QED
    BY <1>5, <1>6, <1>7, <1>8, <1>9, <1>10, <1>11, <1>12, <1>13, <1>14, <1>15, <1>16 DEF Next

\* User and token part only when a token arrives that was asked for under
\* another session.
THEOREM TokensPart == Spec => PartedByLateToken
  <1>1. IInv /\ [Next]_vars => (Agrees => Agrees' \/ \E x \in Tabs : job[x].kind \in {"handoff", "change"}
                                                                  /\ job'[x] # job[x])
    BY StepParts
  <1> QED
    BY <1>1, Invariance, PTL DEF Spec, PartedByLateToken
=============================================================================
