-------------------------- MODULE DashboardSession --------------------------
(***************************************************************************)
(* The dashboard's session: what the tabs of one browser keep in           *)
(* localStorage (shared/lib/session-storage.ts), the sign-in and account   *)
(* requests that change it, the interceptor that clears it on a 401        *)
(* (shared/api/http.ts), and the effects that move a tab between the login *)
(* page, the onboarding wizard and the pages of the application.           *)
(*                                                                         *)
(* A tab runs on one thread, but its requests are answered later, when     *)
(* this tab or another has changed the session they were sent under.       *)
(* Another tab learns of a change from a storage event; the tab that made  *)
(* it only if the code says so (notifySessionChange) or it renders anyway. *)
(***************************************************************************)
EXTENDS Naturals, FiniteSets

CONSTANTS
    Tabs, Users,
    Newcomers,  \* the users who have neither a team nor an event yet
    NoUser,     \* no eop_user_id; a query without data
    MaxToken,   \* bound: tokens the backend issues
    Queries,    \* bound: the queries sent, a subset of {"teams", "status", "me"}
    Inputs      \* bound: what may happen besides signing in, a subset of {"wrong", "oauth",
                \* "change", "delete", "logout", "reload", "remove", "event", "revoke", "outage"}

ASSUME DashboardSessionAssumption ==
    /\ NoUser \notin Users /\ Newcomers \subseteq Users /\ MaxToken \in Nat
    /\ Queries \subseteq {"teams", "status", "me"}

Tokens == 1 .. MaxToken
Account == Users \cup {NoUser}

VARIABLES
    user, token,          \* eop_user_id and eop_token in localStorage, 0 = no token
    owner,                \* whose each token is, NoUser = not issued
    valid,                \* the tokens the backend takes (token_version)
    team, event, dismissed, \* what the backend says of each user: in a team, has an
                          \* event, dismissed the wizard
    page, dest,           \* each tab's route, and the redirect parameter of its login page
    view,                 \* the userId each tab rendered with
    notice,               \* a storage event is on its way to the tab
    teams, status,        \* the data of the queries useTeams and useOnboardingStatus
    request,              \* the query under way
    job                   \* the sign-in or account request under way

backend == <<owner, valid, team, event, dismissed>>
store   == <<user, token, notice>>
screen  == <<page, dest, view>>
cache   == <<teams, status>>
vars    == <<store, backend, screen, cache, request, job>>

Request  == [what : {"none", "teams", "status", "me"}, token : 0 .. MaxToken, again : BOOLEAN]
Job      == [kind : {"none", "login", "handoff", "me", "change", "delete", "refused"},
             token : 0 .. MaxToken, dest : {"app", "onboarding"}]
\* The data of a query: for whom it was fetched, and whether they have a team
\* (useTeams) or are done with the wizard (useOnboardingStatus).
Data     == [of : Account, value : BOOLEAN]

NoRequest == [what |-> "none", token |-> 0, again |-> FALSE]
NoJob     == [kind |-> "none", token |-> 0, dest |-> "onboarding"]
NoData    == [of |-> NoUser, value |-> FALSE]

TypeOK ==
    /\ user \in Account /\ token \in 0 .. MaxToken
    /\ owner \in [Tokens -> Account]
    /\ valid \subseteq {t \in Tokens : owner[t] # NoUser}
    /\ {team, event, dismissed} \subseteq [Users -> BOOLEAN]
    /\ page \in [Tabs -> {"login", "complete", "onboarding", "app"}]
    /\ dest \in [Tabs -> {"app", "onboarding"}]
    /\ view \in [Tabs -> Account]
    /\ notice \in [Tabs -> BOOLEAN]
    /\ {teams, status} \subseteq [Tabs -> Data]
    /\ request \in [Tabs -> Request] /\ job \in [Tabs -> Job]
    \* what is kept or on its way was issued
    /\ token # 0 => owner[token] # NoUser
    /\ \A x \in Tabs : /\ job[x].token # 0 => owner[job[x].token] # NoUser
                       /\ job[x].kind \in {"login", "me", "change"} => job[x].token # 0

Init ==
    /\ user = NoUser /\ token = 0
    /\ owner = [t \in Tokens |-> NoUser] /\ valid = {}
    /\ team = [u \in Users |-> u \notin Newcomers]
    /\ event = team /\ dismissed = team
    /\ page = [x \in Tabs |-> "login"] /\ dest = [x \in Tabs |-> "onboarding"]
    /\ view = [x \in Tabs |-> NoUser] /\ notice = [x \in Tabs |-> FALSE]
    /\ teams = [x \in Tabs |-> NoData] /\ status = [x \in Tabs |-> NoData]
    /\ request = [x \in Tabs |-> NoRequest] /\ job = [x \in Tabs |-> NoJob]

-----------------------------------------------------------------------------
(* What the storage holds, and who is told.                                 *)

\* The browser sends the storage event to the other tabs.
Stored(x, u, t) ==
    /\ user' = u /\ token' = t
    /\ notice' = [y \in Tabs |-> notice[y] \/ (y # x /\ u # user)]

\* (mutant) a token that is there already is kept
SessionOnly(x, u, t) == Stored(x, u, IF token = 0 THEN t ELSE token)

setSession(x, u, t) == Stored(x, u, t)

setToken(x, t) == Stored(x, user, t)

\* (mutant) only the token is removed
ClearToken(x) == Stored(x, user, 0)

\* clearSession removes every eop_ key.
clearSession(x) == Stored(x, NoUser, 0)

\* A tab that mounts a route renders with the user it finds.
Goto(x, p) ==
    /\ page' = [page EXCEPT ![x] = p]
    /\ view' = [view EXCEPT ![x] = user']

\* buildLoginURL: the page that was left is the redirect parameter.
LoginWith(x, p) ==
    /\ page' = [page EXCEPT ![x] = "login"]
    /\ dest' = [dest EXCEPT ![x] = p]

\* (mutant) no event is dispatched
ClearedOnly(x, renders) ==
    /\ clearSession(x)
    /\ view' = [view EXCEPT ![x] = IF renders THEN NoUser ELSE @]
    /\ UNCHANGED <<page, dest>>

\* emitAuthFailed: the session goes, whatever session it is by now.  The
\* application's shell listens (onAuthFailed); another page notices only if
\* the answer makes it render.
emitAuthFailed(x, renders) ==
    /\ clearSession(x)
    /\ IF page[x] = "app"
       THEN LoginWith(x, "app") /\ view' = [view EXCEPT ![x] = NoUser]
       ELSE /\ view' = [view EXCEPT ![x] = IF renders THEN NoUser ELSE @]
            /\ UNCHANGED <<page, dest>>

\* (mutant) useUserId does not subscribe
Unsubscribed(x) == view[x]

\* subscribe and getUserId: the tab renders with the user in the storage.
Subscribed(x) == user

SeeSession(x) ==
    /\ notice[x]
    /\ notice' = [notice EXCEPT ![x] = FALSE]
    /\ view' = [view EXCEPT ![x] = Subscribed(x)]
    /\ UNCHANGED <<user, token, backend, page, dest, cache, request, job>>

\* The page is loaded anew: its requests and its memory are gone.
Load(x) ==
    /\ teams' = [teams EXCEPT ![x] = NoData]
    /\ status' = [status EXCEPT ![x] = NoData]
    /\ request' = [request EXCEPT ![x] = NoRequest]

Reload(x) ==
    /\ "reload" \in Inputs /\ page[x] # "complete"
    /\ Load(x)
    /\ view' = [view EXCEPT ![x] = user]
    /\ job' = [job EXCEPT ![x] = NoJob]
    /\ UNCHANGED <<store, backend, page, dest>>

\* The error page of the handoff is left, or the page is loaded without a
\* cookie (a reload, a bookmark): the handoff fails.
LoadComplete(x) ==
    /\ "reload" \in Inputs /\ page[x] = "complete"
    /\ Load(x)
    /\ view' = [view EXCEPT ![x] = user]
    /\ job' = [job EXCEPT ![x] = [NoJob EXCEPT !.kind = "handoff"]]
    /\ UNCHANGED <<store, backend, page, dest>>

-----------------------------------------------------------------------------
(* The queries of the mounted routes.                                       *)

Mounted(x) == CASE page[x] = "app"        -> {"teams", "me"}
                [] page[x] = "onboarding" -> {"teams"} \cup
                                             (IF view[x] # NoUser THEN {"status"} ELSE {})
                [] OTHER                  -> {}

\* The request interceptor: the token is the one stored at this moment.
Query(x, what) ==
    /\ request[x].what = "none" /\ what \in Queries \cap Mounted(x)
    /\ request' = [request EXCEPT ![x] = [what |-> what, token |-> token, again |-> FALSE]]
    /\ UNCHANGED <<store, backend, screen, cache, job>>

\* A mounted route renders when the data it uses has changed.
QueryOk(x) ==
    LET r == request[x]
        u == owner[r.token]
    IN  /\ r.what # "none" /\ r.token \in valid
        /\ teams' = IF r.what = "teams"
                    THEN [teams EXCEPT ![x] = [of |-> u, value |-> team[u]]]
                    ELSE teams
        /\ status' = IF r.what = "status"
                     THEN [status EXCEPT ![x] = [of |-> u, value |-> dismissed[u] \/ (team[u] /\ event[u])]]
                     ELSE status
        /\ view' = [view EXCEPT ![x] = IF page[x] \in {"app", "onboarding"} /\ cache' # cache
                                       THEN user ELSE @]
        /\ request' = [request EXCEPT ![x] = NoRequest]
        /\ UNCHANGED <<store, backend, page, dest, job>>

\* A 401.  The query is sent once more (retry: 1), a second later, under
\* the token it then finds.  The wizard's route renders only when the teams
\* are no longer pending.
QueryUnauthorized(x) ==
    LET r == request[x]
    IN  /\ r.what # "none" /\ r.token \notin valid
        /\ \E again \in {TRUE, FALSE} :
              /\ again => ~r.again
              /\ emitAuthFailed(x, /\ page[x] = "onboarding" /\ ~again
                                   /\ r.what = "teams" /\ teams[x].of = NoUser)
              /\ request' = [request EXCEPT ![x] =
                               IF again THEN [r EXCEPT !.token = 0, !.again = TRUE]
                               ELSE NoRequest]
        /\ UNCHANGED <<backend, cache, job>>

\* The retry picks up the token of a session begun meanwhile.
QueryAgain(x) ==
    /\ request[x].again /\ request[x].token = 0 /\ token # 0
    /\ request' = [request EXCEPT ![x] = [@ EXCEPT !.token = token]]
    /\ UNCHANGED <<store, backend, screen, cache, job>>

\* GET /v1/me failed twice with a 5xx: the shell gives the session up.
MeServerError(x) ==
    /\ "outage" \in Inputs
    /\ request[x].what = "me" /\ page[x] = "app"
    /\ clearSession(x)
    /\ LoginWith(x, "app") /\ view' = [view EXCEPT ![x] = NoUser]
    /\ request' = [request EXCEPT ![x] = NoRequest]
    /\ UNCHANGED <<backend, cache, job>>

-----------------------------------------------------------------------------
(* The effects.                                                             *)

NotAuthed(x) ==
    /\ page[x] \in {"app", "onboarding"} /\ view[x] = NoUser
    /\ LoginWith(x, page[x])
    /\ view' = [view EXCEPT ![x] = user]
    /\ UNCHANGED <<store, backend, cache, request, job>>

NoTeams(x) ==
    /\ page[x] = "app" /\ view[x] # NoUser
    /\ teams[x].of # NoUser /\ ~teams[x].value
    /\ UNCHANGED <<store, backend, dest, cache, request, job>>
    /\ Goto(x, "onboarding")

WizardDone(x) ==
    /\ page[x] = "onboarding" /\ status[x].value
    /\ UNCHANGED <<store, backend, dest, cache, request, job>>
    /\ Goto(x, "app")

AlreadyIn(x) ==
    /\ page[x] = "login" /\ view[x] # NoUser
    /\ UNCHANGED <<store, backend, dest, cache, request, job>>
    /\ Goto(x, dest[x])

-----------------------------------------------------------------------------
(* Signing in.                                                              *)

\* The backend issues a token to the user.
Issue(u, t) ==
    /\ owner[t] = NoUser /\ \A s \in 1 .. t - 1 : owner[s] # NoUser
    /\ owner' = [owner EXCEPT ![t] = u]

\* LoginForm and RegisterForm: the password is right, or it is not.
Login(x) ==
    /\ page[x] = "login" /\ job[x] = NoJob
    /\ \/ \E u \in Users, t \in Tokens :
            /\ Issue(u, t)
            /\ valid' = valid \cup {t}
            /\ job' = [job EXCEPT ![x] = [kind |-> "login", token |-> t, dest |-> dest[x]]]
       \/ /\ "wrong" \in Inputs
          /\ job' = [job EXCEPT ![x] = [NoJob EXCEPT !.kind = "refused"]]
          /\ UNCHANGED <<owner, valid>>
    /\ UNCHANGED <<store, team, event, dismissed, screen, cache, request>>

\* login, then onAuth.  Nothing that was fetched before is given up.
LoginOk(x) ==
    LET t == job[x].token
    IN  /\ job[x].kind = "login"
        /\ setSession(x, owner[t], t)
        /\ Goto(x, job[x].dest)
        /\ job' = [job EXCEPT ![x] = NoJob]
        /\ UNCHANGED <<backend, dest, cache, request>>

\* An account request is answered 401.
Refused(x) ==
    /\ job[x].kind = "refused"
    /\ emitAuthFailed(x, FALSE)
    /\ job' = [job EXCEPT ![x] = NoJob]
    /\ UNCHANGED <<backend, cache, request>>

\* The provider, or the passkey endpoint, sends the browser back with a cookie.
ReturnFromProvider(x) ==
    /\ "oauth" \in Inputs /\ page[x] = "login"
    /\ \E u \in Users, t \in Tokens :
         /\ Issue(u, t)
         /\ valid' = valid \cup {t}
         /\ job' = [job EXCEPT ![x] = [NoJob EXCEPT !.kind = "handoff", !.token = t]]
    /\ UNCHANGED <<store, team, event, dismissed, dest>>
    /\ Load(x)
    /\ Goto(x, "complete")

\* (mutant) an answer without a token is taken for one
HandoffAnything(x) ==
    /\ job[x].kind = "handoff"
    /\ setToken(x, job[x].token)
    /\ job' = [job EXCEPT ![x] = [@ EXCEPT !.kind = "me"]]
    /\ UNCHANGED <<backend, screen, cache, request>>

\* completeSessionHandoff: the token is kept and /v1/me asked under it.
HandoffToken(x) ==
    /\ job[x].kind = "handoff" /\ job[x].token # 0
    /\ setToken(x, job[x].token)
    /\ job' = [job EXCEPT ![x] = [@ EXCEPT !.kind = "me"]]
    /\ UNCHANGED <<backend, screen, cache, request>>

\* The answer of /v1/me, setAuth and, once the queries are invalidated, the page
\* of the application.  The tab was loaded for this page, which mounts no query:
\* there is none to wait for, so that nothing comes between.
HandoffMe(x) ==
    LET t == job[x].token
    IN  /\ job[x].kind = "me" /\ t \in valid
        /\ setSession(x, owner[t], t)
        /\ Goto(x, "app")
        /\ job' = [job EXCEPT ![x] = NoJob]
        /\ UNCHANGED <<backend, dest, cache, request>>

\* No cookie, the session ended meanwhile, or either request failed for another
\* reason (a network error, a 5xx): whatever session there is goes, also one whose
\* token is good.
HandoffFails(x) ==
    /\ \/ job[x].kind = "handoff" /\ job[x].token = 0
       \/ job[x].kind = "me" /\ job[x].token \notin valid
       \/ job[x].kind \in {"handoff", "me"} /\ "outage" \in Inputs
    /\ clearSession(x)
    /\ view' = [view EXCEPT ![x] = NoUser]
    /\ job' = [job EXCEPT ![x] = NoJob]
    /\ UNCHANGED <<backend, page, dest, cache, request>>

\* The link on the error page.
BackToLogin(x) ==
    /\ page[x] = "complete" /\ job[x] = NoJob
    /\ LoginWith(x, "onboarding")
    /\ view' = [view EXCEPT ![x] = user]
    /\ UNCHANGED <<store, backend, cache, request, job>>

-----------------------------------------------------------------------------
(* The account.                                                             *)

TokensOf(u) == {t \in valid : owner[t] = u}

\* changeMyPassword and changeMyEmail: the backend ends every session of the
\* user and issues a token for this one; a wrong current password, like a
\* session that has ended, is answered 401.
ChangeCredentials(x) ==
    /\ "change" \in Inputs
    /\ page[x] = "app" /\ view[x] # NoUser /\ job[x] = NoJob
    /\ \/ /\ token \in valid
          /\ \E t \in Tokens :
               /\ Issue(owner[token], t)
               /\ valid' = (valid \ TokensOf(owner[token])) \cup {t}
               /\ job' = [job EXCEPT ![x] = [NoJob EXCEPT !.kind = "change", !.token = t]]
       \/ /\ token \notin valid \/ "wrong" \in Inputs
          /\ job' = [job EXCEPT ![x] = [NoJob EXCEPT !.kind = "refused"]]
          /\ UNCHANGED <<owner, valid>>
    /\ UNCHANGED <<store, team, event, dismissed, screen, cache, request>>

ChangeOk(x) ==
    /\ job[x].kind = "change"
    /\ setToken(x, job[x].token)
    /\ job' = [job EXCEPT ![x] = NoJob]
    /\ UNCHANGED <<backend, screen, cache, request>>

\* DELETE /v1/me/data: the account and its sessions are gone.
DeleteData(x) ==
    /\ "delete" \in Inputs /\ page[x] = "app" /\ job[x] = NoJob
    /\ IF token \in valid
       THEN LET u == owner[token]
            IN  /\ valid' = valid \ TokensOf(u)
                /\ team' = [team EXCEPT ![u] = FALSE]
                /\ event' = [event EXCEPT ![u] = FALSE]
                /\ dismissed' = [dismissed EXCEPT ![u] = FALSE]
                /\ job' = [job EXCEPT ![x] = [NoJob EXCEPT !.kind = "delete"]]
       ELSE /\ job' = [job EXCEPT ![x] = [NoJob EXCEPT !.kind = "refused"]]
            /\ UNCHANGED <<valid, team, event, dismissed>>
    /\ UNCHANGED <<store, owner, screen, cache, request>>

\* clearSession, the cache cleared, logout and the login page.
DeleteOk(x) ==
    /\ job[x].kind = "delete"
    /\ clearSession(x)
    /\ LoginWith(x, "onboarding") /\ view' = [view EXCEPT ![x] = NoUser]
    /\ Load(x)
    /\ job' = [job EXCEPT ![x] = NoJob]
    /\ UNCHANGED backend

\* The topbar: logout, and the login page is loaded.
Logout(x) ==
    /\ "logout" \in Inputs /\ page[x] = "app" /\ view[x] # NoUser
    /\ clearSession(x)
    /\ LoginWith(x, "onboarding") /\ view' = [view EXCEPT ![x] = NoUser]
    /\ Load(x)
    /\ job' = [job EXCEPT ![x] = NoJob]
    /\ UNCHANGED backend

-----------------------------------------------------------------------------
(* The wizard.                                                              *)

\* createCompany, and the teams fetched again; a 401 renders the step only,
\* not the route around it.
CreateCompany(x) ==
    /\ page[x] = "onboarding" /\ request[x].what = "none"
    /\ status[x].of # NoUser /\ ~status[x].value /\ teams[x].of # NoUser /\ ~teams[x].value
    /\ IF token \in valid
       THEN /\ team' = [team EXCEPT ![owner[token]] = TRUE]
            /\ request' = [request EXCEPT ![x] = [what |-> "teams", token |-> token, again |-> FALSE]]
            /\ UNCHANGED <<store, screen>>
       ELSE /\ emitAuthFailed(x, FALSE)
            /\ UNCHANGED <<team, request>>
    /\ UNCHANGED <<owner, valid, event, dismissed, cache, job>>

\* finish: the wizard is dismissed, and left whether or not the backend agreed.
Finish(x) ==
    /\ page[x] = "onboarding" /\ status[x].of # NoUser /\ teams[x].value
    /\ IF token \in valid
       THEN dismissed' = [dismissed EXCEPT ![owner[token]] = TRUE] /\ UNCHANGED store
       ELSE clearSession(x) /\ UNCHANGED dismissed
    /\ Goto(x, "app")
    /\ UNCHANGED <<owner, valid, team, event, dest, cache, request, job>>

-----------------------------------------------------------------------------
(* What happens elsewhere.                                                  *)

\* Another browser changes the password, or resets it.
Revoke(u) ==
    /\ "revoke" \in Inputs /\ TokensOf(u) # {}
    /\ valid' = valid \ TokensOf(u)
    /\ UNCHANGED <<store, owner, team, event, dismissed, screen, cache, request, job>>

\* The agent sends the first event.
EventArrives(u) ==
    /\ "event" \in Inputs /\ ~event[u]
    /\ event' = [event EXCEPT ![u] = TRUE]
    /\ UNCHANGED <<store, owner, valid, team, dismissed, screen, cache, request, job>>

\* The user's last team is deleted, or the user removed from it.
LoseTeam(u) ==
    /\ "remove" \in Inputs /\ team[u]
    /\ team' = [team EXCEPT ![u] = FALSE]
    /\ UNCHANGED <<store, owner, valid, event, dismissed, screen, cache, request, job>>

-----------------------------------------------------------------------------
Next ==
    \/ \E x \in Tabs :
         \/ SeeSession(x) \/ Reload(x) \/ LoadComplete(x)
         \/ \E what \in Queries : Query(x, what)
         \/ QueryOk(x) \/ QueryUnauthorized(x) \/ QueryAgain(x) \/ MeServerError(x)
         \/ NotAuthed(x) \/ NoTeams(x) \/ WizardDone(x) \/ AlreadyIn(x)
         \/ Login(x) \/ LoginOk(x) \/ Refused(x)
         \/ ReturnFromProvider(x) \/ HandoffToken(x) \/ HandoffMe(x) \/ HandoffFails(x)
         \/ BackToLogin(x)
         \/ ChangeCredentials(x) \/ ChangeOk(x) \/ DeleteData(x) \/ DeleteOk(x) \/ Logout(x)
         \/ CreateCompany(x) \/ Finish(x)
    \/ \E u \in Users : Revoke(u) \/ EventArrives(u) \/ LoseTeam(u)

Spec == Init /\ [][Next]_vars

\* The browser delivers its events, React runs the effects, and the handoff's
\* requests are answered.
Fairness ==
    \A x \in Tabs :
        /\ WF_vars(SeeSession(x)) /\ WF_vars(NotAuthed(x)) /\ WF_vars(AlreadyIn(x))
        /\ WF_vars(HandoffToken(x) \/ HandoffMe(x) \/ HandoffFails(x))

FairSpec == Spec /\ Fairness

-----------------------------------------------------------------------------
(* Properties.                                                              *)

\* Nobody is signed in without a token, whichever requests crossed: every
\* change of the user comes with the token, and every clearing takes both.
NoHalfSession == user # NoUser => token # 0

\* A tab that shows the application to a user who is no longer the browser's,
\* or the login page to one who has signed in, is about to be told.
Informed ==
    \A x \in Tabs :
        \/ page[x] = "app" /\ view[x] # user
        \/ page[x] = "login" /\ view[x] = NoUser /\ user # NoUser
        => notice[x]

\* The token kept is the signed-in user's.
Agrees == user # NoUser => owner[token] = user

\* Once they agree, the user and the token part only when a token arrives that
\* was asked for under another session: a handoff or a change of credentials.
PartedByLateToken ==
    [][Agrees => Agrees' \/ \E x \in Tabs : job[x].kind \in {"handoff", "change"} /\ job'[x] # job[x]]_vars

\* A tab of the application whose browser has signed out leaves the application,
\* whichever tab or late answer ended the session.
SessionEnds ==
    \A x \in Tabs : page[x] = "app" /\ user = NoUser ~> page[x] # "app" \/ user # NoUser

\* A tab at the login page goes on once the browser has a user, whichever tab
\* signed in, and the handoff page comes to an end.
Arrives ==
    \A x \in Tabs :
        /\ page[x] = "login" /\ user # NoUser ~> page[x] # "login" \/ user = NoUser
        /\ page[x] = "complete" ~> page[x] # "complete" \/ job[x] = NoJob

\* "All other sessions will be signed out" (common.json:89): a browser keeps its
\* session as long as it has, or is being sent, a token the backend takes,
\* unless the user leaves.  Spec refutes it with one tab and "change" in Inputs.
OwnSessionSurvives ==
    [][user # NoUser /\ user' = NoUser =>
          \/ \E x \in Tabs : Logout(x) \/ DeleteOk(x)
          \/ \A t \in {token} \cup {job[x].token : x \in Tabs} : t \notin TokensOf(user)]_vars

\* "We do not bring back a user who dismissed the wizard" (onboarding/index.tsx:24):
\* the application sends nobody there whom the wizard sends away at once.  Spec
\* refutes it with one tab and "remove" in Inputs: the two effects then turn
\* the tab back and forth for ever.
WizardStaysAway ==
    [][\A x \in Tabs : page[x] = "app" /\ page'[x] = "onboarding" => ~status[x].value]_vars

=============================================================================
