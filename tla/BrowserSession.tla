---------------------------- MODULE BrowserSession ----------------------------
(***************************************************************************)
(* Who the tab believes is signed in (src/src/context/AuthContext.tsx), who *)
(* its cookie says it is, and the gate in front of every page              *)
(* (src/src/components/AppShell.tsx, AuthGate).  The backend is external:  *)
(* it knows the live sessions and answers requests in any order.           *)
(***************************************************************************)
EXTENDS Integers, FiniteSets

CONSTANTS Users, Admin, NoUser, MaxLogins            \* MaxLogins is a bound

\* The browser may open with a session that is still live, the first one.
ASSUME SessionAssumption ==
    MaxLogins \in Nat /\ MaxLogins >= 1 /\ NoUser \notin Users /\ Admin \in Users

VARIABLES
    abUser, abLoading,         \* the provider's state
    abPath,                    \* the page of the address bar
    abCookie,                  \* the session the browser would send, 0 for none
    abOwner,                   \* whose session each one is (NoUser: not created)
    abLive,                    \* the sessions the backend accepts
    abOut                      \* requests out, each with its answer when it has one

abVars == <<abUser, abLoading, abPath, abCookie, abOwner, abLive, abOut>>

Sessions == 1..MaxLogins
Paths == {"login", "home", "admin"}
Ask(kind, user) == [kind |-> kind, user |-> user, session |-> abCookie, answer |-> "none"]
Waiting(kind) == {r \in abOut : r.kind = kind}

\* routeAllowedForRole: the administration pages are for administrators.
RouteAllowed(path, user) == path = "admin" => user = Admin

\* The backend takes a request up.
ABServe(r) ==
    /\ r.answer = "none"
    /\ \E session \in {s \in Sessions : abOwner[s] = NoUser} \cup {0} :
         /\ IF r.kind = "login" /\ session # 0
            THEN /\ \A s \in 1..(session - 1) : abOwner[s] # NoUser
                 /\ abOwner' = [abOwner EXCEPT ![session] = r.user]
                 /\ abLive' = abLive \cup {session}
            ELSE /\ session = 0 /\ UNCHANGED abOwner
                 /\ abLive' = IF r.kind = "logout" THEN abLive \ {r.session} ELSE abLive
         /\ abOut' = (abOut \ {r}) \cup
              {IF r.kind = "login"
               THEN [r EXCEPT !.session = session,
                              !.answer = IF session = 0 THEN "401" ELSE "ok"]
               ELSE [r EXCEPT !.answer =
                       IF r.kind = "logout" \/ r.session \in abLive THEN "ok" ELSE "401"]}
    /\ UNCHANGED <<abUser, abLoading, abPath, abCookie>>

\* The network loses a request or its answer; without /me nobody is signed in.
ABLost(r) ==
    /\ abOut' = abOut \ {r}
    /\ abUser' = IF r.kind = "me" THEN NoUser ELSE abUser
    /\ abLoading' = (abLoading /\ r.kind # "me")
    /\ UNCHANGED <<abPath, abCookie, abOwner, abLive>>

\* An answer reaches the tab.  Every 401 ends whatever session is shown, and an
\* answered logout has the browser drop whatever cookie it has.
ABAnswer(r) ==
    /\ r.answer # "none" /\ abOut' = abOut \ {r}
    /\ abUser' = IF r.answer = "401" THEN NoUser
                 ELSE IF r.kind \in {"me", "login"} THEN abOwner[r.session] ELSE abUser
    /\ abCookie' = IF r.answer = "ok" /\ r.kind = "login" THEN r.session
                   ELSE IF r.answer = "ok" /\ r.kind = "logout" THEN 0 ELSE abCookie
    /\ abLoading' = (abLoading /\ r.kind # "me")
    /\ abPath' = IF r.kind = "login" /\ r.answer = "ok" THEN "home" ELSE abPath
    /\ UNCHANGED <<abOwner, abLive>>

\* Seeded fault: the name typed in is shown before the backend has agreed.
ABLogin_Optimistic(user) ==
    /\ ~abLoading /\ abUser = NoUser /\ abPath = "login" /\ Waiting("login") = {}
    /\ abOut' = abOut \cup {Ask("login", user)} /\ abUser' = user
    /\ UNCHANGED <<abLoading, abPath, abCookie, abOwner, abLive>>

\* The login form, closed to a second submission while one is out.
ABLogin(user) ==
    /\ ~abLoading /\ abUser = NoUser /\ abPath = "login" /\ Waiting("login") = {}
    /\ abOut' = abOut \cup {Ask("login", user)}
    /\ UNCHANGED <<abUser, abLoading, abPath, abCookie, abOwner, abLive>>

\* logoutWithLocalTeardown: the tab forgets first and tells the backend then.
ABLogout ==
    /\ abUser # NoUser /\ abUser' = NoUser
    /\ abOut' = abOut \cup {Ask("logout", NoUser)}
    /\ UNCHANGED <<abLoading, abPath, abCookie, abOwner, abLive>>

\* Behind the gate the provider asks for data again and again.
Shown == ~abLoading /\ abUser # NoUser /\ abPath # "login" /\ RouteAllowed(abPath, abUser)
ABPoll ==
    /\ Shown /\ Waiting("data") = {}
    /\ abOut' = abOut \cup {Ask("data", NoUser)}
    /\ UNCHANGED <<abUser, abLoading, abPath, abCookie, abOwner, abLive>>

\* Seeded fault: the gate covers the page, and leaves it to somebody else.
Target_Stays ==
    IF abUser # NoUser /\ (abPath = "login" \/ ~RouteAllowed(abPath, abUser))
    THEN "home" ELSE abPath

\* The effect of AuthGate.
Target ==
    IF abUser = NoUser THEN "login"
    ELSE IF abPath = "login" \/ ~RouteAllowed(abPath, abUser) THEN "home" ELSE abPath
ABRoute ==
    /\ ~abLoading /\ abPath # Target /\ abPath' = Target
    /\ UNCHANGED <<abUser, abLoading, abCookie, abOwner, abLive, abOut>>

ABNavigate(path) ==
    /\ path # abPath /\ abPath' = path
    /\ UNCHANGED <<abUser, abLoading, abCookie, abOwner, abLive, abOut>>

\* A session expires or is revoked: account disabled, password reset.
ABRevoke(session) ==
    /\ session \in abLive /\ abLive' = abLive \ {session}
    /\ UNCHANGED <<abUser, abLoading, abPath, abCookie, abOwner, abOut>>

\* A reload with the cookie of an earlier login, which may have expired.
ABInit ==
    /\ abUser = NoUser /\ abLoading = TRUE /\ abPath = "home"
    /\ abOwner = [s \in Sessions |-> IF s = 1 THEN Admin ELSE NoUser]
    /\ abCookie = 1 /\ abLive = {1}
    /\ abOut = {[kind |-> "me", user |-> NoUser, session |-> 1, answer |-> "none"]}

ABNext ==
    \/ ABLogout \/ ABPoll \/ ABRoute
    \/ \E user \in Users : ABLogin(user)
    \/ \E path \in Paths : ABNavigate(path)
    \/ \E session \in Sessions : ABRevoke(session)
    \/ \E r \in abOut : ABServe(r) \/ ABLost(r) \/ ABAnswer(r)

\* The polling that goes on while the page is shown: what fairness is about.
ServeData  == \E r \in Waiting("data") : ABServe(r)
AnswerData == \E r \in Waiting("data") : ABAnswer(r)

-----------------------------------------------------------------------------
\* The tab never acts as somebody else than it shows: the session its requests
\* carry is the shown user's or none, whatever late answer (of a login, of the
\* logout before it, of a poll of the session before) comes in between
\* (AuthContext.tsx lines 20-45, api.ts 296-297).
ActsAsShownUser ==
    abUser # NoUser /\ abCookie # 0 => abOwner[abCookie] = abUser

\* A tab whose session is gone does not stay on its page: it goes to the login
\* page or has a live session again, also when polls are lost: some poll is
\* answered 401, the handler forgets the user, the gate leaves the page
\* (AppShell.tsx lines 31-39).
LostSessionLeaves == []<>(abPath = "login" \/ abCookie \in abLive \/ abLoading)
=============================================================================
