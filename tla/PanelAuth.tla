------------------------------- MODULE PanelAuth -------------------------------
(* The sessions of the panel: rows of app_sessions in the database           *)
(* (server/src/postgres.ts), handed out by the relay's token endpoint and    *)
(* kept by a browser in its local storage (web/src/lib/session/auth.ts),     *)
(* which all its tabs share and read again after every await                 *)
(* (web/src/lib/api/client.ts).  A session is an access token and a refresh  *)
(* token; a refresh revokes its session and creates the next one of its line. *)
EXTENDS Naturals

CONSTANTS Tabs,         \* calls a browser makes at the same time
          MaxSessions,  \* bound on the sessions ever created
          NoSession

ASSUME SessionsAssumption == MaxSessions \in Nat
ASSUME NoSessionAssumption == NoSession \notin Nat

Sessions == 1..MaxSessions

VARIABLES
    created,    \* number of sessions created; they are numbered in that order
    line,       \* for each session, the session its line began with at a login
    access,     \* sessions whose access token has not expired
    refresh,    \* sessions whose refresh token has not expired
    revoked,    \* sessions with revoked_at
    stored,     \* the session in the browser's storage, or NoSession
    tab,        \* for each tab, what it waits for and with which session
    lost,       \* history: sessions whose answer never reached the browser
    signedOut   \* history: sessions that a sign-out revoked

vars == <<created, line, access, refresh, revoked, stored, tab, lost, signedOut>>
browser == <<stored, tab>>
rows == <<created, line, access, refresh, revoked>>
history == <<lost, signedOut>>

(* "call" and "retry" are API requests on their way, "config" loads the      *)
(* configuration after a 401; "login", "rotate" and "logout" are requests on *)
(* their way to the relay, and "signedIn", "renewed", "rejected" and "left"  *)
(* what the tab hears of them.                                               *)
Steps == {"idle", "call", "config", "retry", "login", "rotate", "logout",
          "signedIn", "renewed", "rejected", "left"}

Waits(t, step, s) == tab' = [tab EXCEPT ![t] = [step |-> step, session |-> s]]
Rests(t) == Waits(t, "idle", NoSession)

Init == /\ created = 0
        /\ line = [s \in Sessions |-> s]
        /\ access = {}
        /\ refresh = {}
        /\ revoked = {}
        /\ stored = NoSession
        /\ tab = [t \in Tabs |-> [step |-> "idle", session |-> NoSession]]
        /\ lost = {}
        /\ signedOut = {}

(* The where clause of refreshSession. *)
RenewableRevoked(s) == s \in refresh  \* mutant: revoked_at is not looked at
Renewable(s) == s \in refresh \ revoked

(* createSession inserts a row; its line is that of the session it replaces, *)
(* or its own after a login.                                                 *)
Newest == created + 1

CreateSession(itsLine) ==
    /\ created < MaxSessions
    /\ created' = Newest
    /\ line' = [line EXCEPT ![Newest] = itsLine]
    /\ access' = access \cup {Newest}
    /\ refresh' = refresh \cup {Newest}

(* The access token lives for an hour, the refresh token for longer. *)
AccessExpires(s) == /\ s \in access
                    /\ access' = access \ {s}
                    /\ UNCHANGED <<created, line, refresh, revoked, browser, history>>

RefreshExpires(s) == /\ s \in refresh \ access
                     /\ refresh' = refresh \ {s}
                     /\ UNCHANGED <<created, line, access, revoked, browser, history>>

-------------------------------------------------------------------------------
(* The browser.  A request carries the session that is in storage when it is *)
(* made.                                                                     *)

Call(t) == /\ tab[t].step = "idle"
           /\ stored # NoSession
           /\ Waits(t, "call", stored)
           /\ UNCHANGED <<rows, stored, history>>

SignIn(t) == /\ tab[t].step = "idle"
             /\ Waits(t, "login", NoSession)
             /\ UNCHANGED <<rows, stored, history>>

SignOut(t) == /\ tab[t].step = "idle"
              /\ stored # NoSession
              /\ Waits(t, "logout", stored)
              /\ UNCHANGED <<rows, stored, history>>

(* The call is served or fails; the second attempt is the last.  An error    *)
(* other than 401 ends it too.                                               *)
CallEnds(t) == /\ tab[t].step \in {"call", "retry"}
               /\ Rests(t)
               /\ UNCHANGED <<rows, stored, history>>

(* 401: the tab loads the configuration before it refreshes.  The relay says *)
(* so of a session it does not find, and of any when the database fails.     *)
Unauthorized(t) == /\ tab[t].step = "call"
                   /\ Waits(t, "config", tab[t].session)
                   /\ UNCHANGED <<rows, stored, history>>

(* The session it refreshes is the one in storage by now. *)
Refresh(t) == /\ tab[t].step = "config"
              /\ IF stored = NoSession THEN Rests(t) ELSE Waits(t, "rotate", stored)
              /\ UNCHANGED <<rows, stored, history>>

(* A session that was granted is stored, and one that was refused or left is *)
(* removed, whatever is in storage by now.                                   *)
SignedIn(t) == /\ tab[t].step = "signedIn"
               /\ stored' = tab[t].session
               /\ Rests(t)
               /\ UNCHANGED <<rows, history>>

RenewedFirst(t) ==  \* mutant: the previous session takes precedence
    /\ tab[t].step = "renewed"
    /\ stored' = IF stored = NoSession THEN tab[t].session ELSE stored
    /\ Waits(t, "retry", tab[t].session)
    /\ UNCHANGED <<rows, history>>

Renewed(t) == /\ tab[t].step = "renewed"
              /\ stored' = tab[t].session
              /\ Waits(t, "retry", tab[t].session)
              /\ UNCHANGED <<rows, history>>

Cleared(t) == /\ tab[t].step \in {"rejected", "left"}
              /\ stored' = NoSession
              /\ Rests(t)
              /\ UNCHANGED <<rows, history>>

-------------------------------------------------------------------------------
(* The relay and the database. *)

(* passwordLogin: the answer arrives, or the session is lost with it. *)
Login(t) == /\ tab[t].step = "login"
            /\ CreateSession(Newest)
            /\ \/ Waits(t, "signedIn", Newest) /\ UNCHANGED lost
               \/ Rests(t) /\ lost' = lost \cup {Newest}
            /\ UNCHANGED <<revoked, stored, signedOut>>

(* Wrong credentials, a limited address, or an error. *)
LoginFails(t) == /\ tab[t].step = "login"
                 /\ Rests(t)
                 /\ UNCHANGED <<rows, stored, history>>

RotateKeeping(t) ==  \* mutant: the session that is refreshed is not revoked
    /\ tab[t].step = "rotate"
    /\ Renewable(tab[t].session)
    /\ CreateSession(line[tab[t].session])
    /\ Waits(t, "renewed", Newest)
    /\ UNCHANGED <<revoked, stored, history>>

(* refreshSession: in one transaction, which locks the row, the session is   *)
(* revoked and the next one created.  The answer arrives; or the transaction *)
(* fails in the commit and is reported as refused; or the network loses it.  *)
Rotate(t) == LET s == tab[t].session IN
             /\ tab[t].step = "rotate"
             /\ Renewable(s)
             /\ CreateSession(line[s])
             /\ revoked' = revoked \cup {s}
             /\ \/ Waits(t, "renewed", Newest) /\ UNCHANGED lost
                \/ Waits(t, "rejected", s) /\ lost' = lost \cup {Newest}
                \/ Rests(t) /\ lost' = lost \cup {Newest}
             /\ UNCHANGED <<stored, signedOut>>

(* Any status but success is a refusal to the browser: a session that is not *)
(* renewable, a limited address, an error of the database.                   *)
RotateRefused(t) == /\ tab[t].step = "rotate"
                    /\ Waits(t, "rejected", tab[t].session)
                    /\ UNCHANGED <<rows, stored, history>>

(* The request is lost: the tab reports it and keeps the storage. *)
RotateLost(t) == /\ tab[t].step = "rotate"
                 /\ Rests(t)
                 /\ UNCHANGED <<rows, stored, history>>

(* logout revokes the session of the access token it is given, which changes *)
(* nothing when a refresh or another sign-out has revoked it before.         *)
Logout(t) == /\ tab[t].step = "logout"
             /\ revoked' = revoked \cup {tab[t].session}
             /\ signedOut' = signedOut \cup ({tab[t].session} \ revoked)
             /\ Waits(t, "left", NoSession)
             /\ UNCHANGED <<created, line, access, refresh, stored, lost>>

(* The request is lost, or its error caught: the browser forgets the session. *)
LogoutLost(t) == /\ tab[t].step = "logout"
                 /\ Waits(t, "left", NoSession)
                 /\ UNCHANGED <<rows, stored, history>>

Browser(t) == \/ Call(t) \/ SignIn(t) \/ SignOut(t) \/ CallEnds(t) \/ Unauthorized(t)
              \/ Refresh(t) \/ SignedIn(t) \/ Renewed(t) \/ Cleared(t)

Relay(t) == \/ Login(t) \/ LoginFails(t) \/ Rotate(t) \/ RotateRefused(t) \/ RotateLost(t)
            \/ Logout(t) \/ LogoutLost(t)

Next == \/ \E t \in Tabs : Browser(t) \/ Relay(t)
        \/ \E s \in Sessions : AccessExpires(s) \/ RefreshExpires(s)

Spec == Init /\ [][Next]_vars

-------------------------------------------------------------------------------
TypeOK == /\ created \in 0..MaxSessions
          /\ line \in [Sessions -> Sessions]
          /\ access \subseteq 1..created
          /\ refresh \subseteq 1..created
          /\ revoked \subseteq 1..created
          /\ stored \in 1..created \cup {NoSession}
          /\ tab \in [Tabs -> [step : Steps, session : 1..created \cup {NoSession}]]
          /\ lost \subseteq 1..created
          /\ signedOut \subseteq revoked

Unrevoked == (1..created) \ revoked
SameLine(s, r) == line[s] = line[r]

(* However the tabs of a browser race to refresh one session, a line has at  *)
(* most one session that is not revoked (postgres.ts:112-146).               *)
OneOfALine == \A s, r \in Unrevoked : SameLine(s, r) => s = r

(* A sign-out that finds its session unrevoked ends the line for good: no     *)
(* refresh that was under way for that session, in this tab or another,      *)
(* renews it afterwards (postgres.ts:148-153, :125).                         *)
SignOutEnds == \A s \in signedOut : \A r \in Unrevoked : ~SameLine(s, r)

InFlight(s) == \E t \in Tabs : tab[t] \in [step : {"signedIn", "renewed"}, session : {s}]

(* Tabs store what they are granted in any order, over sign-ins and          *)
(* sign-outs of other tabs; still the browser never goes back in a line: the *)
(* stored session is the one that is not revoked, unless that one's answer   *)
(* is on its way or was lost (auth.ts:116-140).                              *)
StoredIsNewest == \A s \in Unrevoked \ lost :
                      stored # NoSession /\ SameLine(stored, s) /\ ~InFlight(s) => stored = s
===============================================================================
