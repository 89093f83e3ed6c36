---------------------------- MODULE PanelAuthProofs ----------------------------
(* The sessions of the panel for any number of tabs and sessions: a line has *)
(* one session that is not revoked, a sign-out ends it, and the browser      *)
(* never goes back in it.                                                    *)
EXTENDS PanelAuth, TLAPS

Granting == {"signedIn", "renewed"}

(* A line begins with a session that is no younger than its members.         *)
LinesGoBack == \A s \in 1..created : line[s] \in 1..s

(* A session on its way to a tab is good, and nobody has it yet.             *)
Fresh ==
  \A t \in Tabs : tab[t].step \in Granting =>
    /\ tab[t].session \in (1..created) \ revoked
    /\ tab[t].session # stored
    /\ \A u \in Tabs : u # t => tab[u].session # tab[t].session

(* Whoever waits with a session of the browser waits with one that exists.   *)
Sent == \A t \in Tabs : tab[t].step \in {"call", "logout"} => tab[t].session \in 1..created

Lines == LinesGoBack /\ OneOfALine
IInv == TypeOK /\ Sent /\ Lines /\ SignOutEnds /\ Fresh /\ StoredIsNewest

-------------------------------------------------------------------------------
LEMMA InFlightIs ==
  ASSUME TypeOK, NEW s
  PROVE  InFlight(s) <=> \E t \in Tabs : tab[t].step \in Granting /\ tab[t].session = s
<1>1. \A t \in Tabs : tab[t] \in [step : Steps, session : 1..created \cup {NoSession}]
  BY DEF TypeOK
<1>2. \A t \in Tabs : tab[t] \in [step : {"signedIn", "renewed"}, session : {s}]
                      <=> tab[t].step \in Granting /\ tab[t].session = s
  BY <1>1 DEF Granting
<1>3. QED BY <1>2 DEF InFlight

LEMMA InvInit == Init => IInv
<1> SUFFICES ASSUME Init PROVE IInv
  OBVIOUS
<1>1. TypeOK
  BY SessionsAssumption DEF Init, TypeOK, Sessions, Steps
<1>2. Sent /\ Lines /\ SignOutEnds /\ Fresh
  BY DEF Init, Sent, Lines, LinesGoBack, OneOfALine, Unrevoked, SignOutEnds,
         Fresh, Granting
<1>3. StoredIsNewest
  BY DEF Init, StoredIsNewest, Unrevoked
<1>4. QED BY <1>1, <1>2, <1>3 DEF IInv

(* A tab goes on with a session it has, that of the storage, or none.        *)
LEMMA TabGoes ==
  ASSUME IInv, NEW t \in Tabs, NEW step \in Steps \ Granting, NEW s,
         s \in {stored, NoSession, tab[t].session},
         step \in {"call", "logout"} => s \in 1..created,
         tab[t].step \notin Granting, Waits(t, step, s),
         rows' = rows, lost' = lost, signedOut' = signedOut,
         stored' \in {stored, NoSession}
  PROVE  IInv'
<1>0. /\ created' = created /\ line' = line /\ access' = access /\ refresh' = refresh
      /\ revoked' = revoked
  BY DEF rows
<1>t. /\ TypeOK
      /\ created \in Nat
      /\ tab \in [Tabs -> [step : Steps, session : 1..created \cup {NoSession}]]
      /\ NoSession \notin 1..created
  BY NoSessionAssumption, SessionsAssumption DEF IInv, TypeOK
<1>1. \A u \in Tabs : tab'[u] = IF u = t THEN [step |-> step, session |-> s] ELSE tab[u]
  BY <1>t DEF Waits
<1>2. TypeOK'
  <2>1. s \in 1..created \cup {NoSession}
    BY <1>t DEF TypeOK
  <2>2. tab' \in [Tabs -> [step : Steps, session : 1..created \cup {NoSession}]]
    BY <1>t, <2>1 DEF Waits
  <2>3. QED BY <1>0, <1>t, <2>2 DEF TypeOK
<1>3. Sent'
  BY <1>0, <1>1 DEF IInv, Sent
<1>4. Lines' /\ SignOutEnds'
  BY <1>0 DEF IInv, Lines, LinesGoBack, OneOfALine, SameLine, Unrevoked, SignOutEnds
<1>5. Fresh'
  BY <1>0, <1>t, <1>1 DEF IInv, Fresh
<1>6. \A r : InFlight(r) => InFlight(r)'
  <2> TAKE r
  <2>1. (\E u \in Tabs : tab[u].step \in Granting /\ tab[u].session = r)
        => \E u \in Tabs : tab'[u].step \in Granting /\ tab'[u].session = r
    BY <1>1
  <2>2. InFlight(r) => \E u \in Tabs : tab[u].step \in Granting /\ tab[u].session = r
    BY <1>t, InFlightIs
  <2>3. \A u \in Tabs : tab'[u] \in [step : Steps, session : 1..created \cup {NoSession}]
    BY <1>0, <1>2 DEF TypeOK
  <2>4. (\E u \in Tabs : tab'[u].step \in Granting /\ tab'[u].session = r) => InFlight(r)'
    BY <2>3 DEF InFlight, Granting
  <2>5. QED BY <2>1, <2>2, <2>4
<1>7. StoredIsNewest'
  BY <1>0, <1>6 DEF IInv, StoredIsNewest, Unrevoked, SameLine
<1>8. QED BY <1>2, <1>3, <1>4, <1>5, <1>7 DEF IInv

(* A tab stores the session it was granted.                                  *)
LEMMA TabStores ==
  ASSUME IInv, NEW t \in Tabs, tab[t].step \in Granting, stored' = tab[t].session,
         UNCHANGED <<rows, history>>,
         Rests(t) \/ Waits(t, "retry", tab[t].session)
  PROVE  IInv'
<1> DEFINE x == tab[t].session
<1>0. /\ created' = created /\ line' = line /\ access' = access /\ refresh' = refresh
      /\ revoked' = revoked /\ lost' = lost /\ signedOut' = signedOut
  BY DEF rows, history
<1>t. /\ TypeOK
      /\ created \in Nat
      /\ tab \in [Tabs -> [step : Steps, session : 1..created \cup {NoSession}]]
      /\ NoSession \notin 1..created
      /\ x \in Unrevoked
  BY NoSessionAssumption, SessionsAssumption DEF IInv, TypeOK, Fresh, Unrevoked
<1>1. PICK y \in [step : {"idle", "retry"}, session : {x, NoSession}] : tab' = [tab EXCEPT ![t] = y]
  <2>1. CASE Rests(t)
    BY <2>1 DEF Rests, Waits
  <2>2. CASE Waits(t, "retry", x)
    BY <2>2 DEF Waits
  <2>3. QED BY <2>1, <2>2
<1>2. \A u \in Tabs : tab'[u] = IF u = t THEN y ELSE tab[u]
  BY <1>t, <1>1
<1>3. TypeOK'
  <2>1. y \in [step : Steps, session : 1..created \cup {NoSession}]
    BY <1>t DEF Steps, Unrevoked
  <2>2. tab' \in [Tabs -> [step : Steps, session : 1..created \cup {NoSession}]]
    BY <1>t, <1>1, <2>1
  <2>3. stored' \in 1..created
    BY <1>t DEF Unrevoked
  <2>4. QED BY <1>0, <1>t, <2>2, <2>3 DEF TypeOK
<1>4. Sent'
  BY <1>0, <1>2 DEF IInv, Sent
<1>5. Lines' /\ SignOutEnds'
  BY <1>0 DEF IInv, Lines, LinesGoBack, OneOfALine, SameLine, Unrevoked, SignOutEnds
<1>6. Fresh'
  BY <1>0, <1>t, <1>2 DEF IInv, Fresh, Granting
<1>7. StoredIsNewest'
  BY <1>0, <1>t DEF IInv, StoredIsNewest, Unrevoked, SameLine, Lines, OneOfALine
<1>8. QED BY <1>3, <1>4, <1>5, <1>6, <1>7 DEF IInv

(* A session is created whose answer reaches its tab or is lost; its line is *)
(* its own, or that of a session which is revoked with it.                   *)
LEMMA SessionCreated ==
  ASSUME IInv, NEW t \in Tabs, tab[t].step \notin Granting,
         NEW itsLine, CreateSession(itsLine),
         \/ itsLine = Newest /\ revoked' = revoked
         \/ \E s \in Unrevoked : /\ itsLine = line[s]
                                 /\ revoked' = revoked \cup {s}
                                 /\ s = tab[t].session,
         stored' = stored, signedOut' = signedOut,
         \/ \E step \in Granting : Waits(t, step, Newest) /\ lost' = lost
         \/ \E step \in {"idle", "rejected"} : /\ \E s \in {NoSession, tab[t].session} : Waits(t, step, s)
                                               /\ lost' = lost \cup {Newest}
  PROVE  IInv'
<1>t. /\ TypeOK
      /\ created \in Nat /\ MaxSessions \in Nat /\ created + 1 \in Sessions
      /\ line \in [Sessions -> Sessions]
      /\ stored \in 1..created \cup {NoSession}
      /\ tab \in [Tabs -> [step : Steps, session : 1..created \cup {NoSession}]]
      /\ NoSession \notin 1..created + 1
      /\ revoked \subseteq 1..created
  <2>1. created \in 0..MaxSessions /\ created < MaxSessions /\ MaxSessions \in Nat
    BY SessionsAssumption DEF IInv, TypeOK, CreateSession
  <2>2. created \in Nat /\ created + 1 \in Sessions
    BY <2>1 DEF Sessions
  <2>3. NoSession \notin 1..created + 1
    BY <2>2, NoSessionAssumption
  <2>4. QED BY <2>1, <2>2, <2>3 DEF IInv, TypeOK
<1>0. /\ created' = created + 1 /\ line' = [line EXCEPT ![created + 1] = itsLine]
      /\ access' = access \cup {created + 1} /\ refresh' = refresh \cup {created + 1}
  BY DEF CreateSession, Newest
<1>1. /\ revoked \subseteq revoked' /\ revoked' \subseteq 1..created
      /\ lost \subseteq lost' /\ lost' \subseteq lost \cup {created + 1}
  BY <1>t DEF Unrevoked, Newest
<1>2. PICK y \in [step : Granting \cup {"idle", "rejected"}, session : {created + 1, NoSession, tab[t].session}] :
        /\ tab' = [tab EXCEPT ![t] = y]
        /\ y.step \in Granting => y.session = created + 1
        /\ y.step \notin Granting => y.session # created + 1 /\ created + 1 \in lost'
  <2>1. \A s \in {NoSession, tab[t].session} : s # created + 1
    BY <1>t
  <2>2. CASE \E step \in Granting : Waits(t, step, Newest) /\ lost' = lost
    <3>1. PICK step \in Granting : Waits(t, step, Newest)
      BY <2>2
    <3>2. WITNESS [step |-> step, session |-> created + 1]
            \in [step : Granting \cup {"idle", "rejected"}, session : {created + 1, NoSession, tab[t].session}]
    <3>3. QED BY <3>1 DEF Waits, Newest
  <2>3. CASE \E step \in {"idle", "rejected"} : /\ \E s \in {NoSession, tab[t].session} : Waits(t, step, s)
                                                /\ lost' = lost \cup {Newest}
    <3>1. PICK step \in {"idle", "rejected"}, s \in {NoSession, tab[t].session} : Waits(t, step, s)
      BY <2>3
    <3>2. lost' = lost \cup {Newest} /\ step \notin Granting
      BY <2>3 DEF Granting
    <3>3. WITNESS [step |-> step, session |-> s]
            \in [step : Granting \cup {"idle", "rejected"}, session : {created + 1, NoSession, tab[t].session}]
    <3>4. QED BY <2>1, <3>1, <3>2 DEF Waits, Newest
  <2>4. QED BY <2>2, <2>3
<1>3. \A u \in Tabs : tab'[u] = IF u = t THEN y ELSE tab[u]
  BY <1>t, <1>2
<1>4. \A s \in 1..created + 1 : /\ s = created + 1 \/ s \in 1..created
                                /\ line'[s] = IF s = created + 1 THEN itsLine ELSE line[s]
  <2>1. \A s \in 1..created + 1 : s \in Sessions /\ (s = created + 1 \/ s \in 1..created)
    BY <1>t DEF Sessions
  <2>2. QED BY ONLY <1>0, <1>t, <2>1
<1>5. itsLine \in 1..created + 1 /\ itsLine \in Sessions
  <2>1. CASE itsLine = Newest
    BY <1>t, <2>1 DEF Newest
  <2>2. CASE \E s \in Unrevoked : itsLine = line[s]
    <3>1. \A s \in Unrevoked : s \in 1..created /\ line[s] \in 1..s
      BY DEF IInv, Lines, LinesGoBack, Unrevoked
    <3>2. \A s \in 1..created : \A n \in 1..s : n \in 1..created + 1 /\ n \in 1..MaxSessions
      BY <1>t DEF Sessions
    <3>3. QED BY <2>2, <3>1, <3>2 DEF Sessions
  <2>3. QED BY <2>1, <2>2
<1>6. TypeOK'
  <2>1. y \in [step : Steps, session : 1..created' \cup {NoSession}]
    BY <1>0, <1>t, <1>2 DEF Steps, Granting
  <2>2. tab' \in [Tabs -> [step : Steps, session : 1..created' \cup {NoSession}]]
    BY <1>0, <1>t, <1>2, <2>1
  <2>3. line' \in [Sessions -> Sessions]
    BY <1>0, <1>t, <1>5
  <2>4. 1..created \subseteq 1..created' /\ created' \in 1..created' /\ created' \in 0..MaxSessions
    BY <1>0, <1>t DEF Sessions
  <2>5. signedOut' \subseteq revoked'
    BY <1>1 DEF TypeOK, IInv
  <2>0. access \subseteq 1..created /\ refresh \subseteq 1..created /\ lost \subseteq 1..created
    BY <1>t DEF TypeOK
  <2>6. access' \subseteq 1..created' /\ refresh' \subseteq 1..created' /\ revoked' \subseteq 1..created'
    <3>1. access' \subseteq 1..created'
      BY <1>0, <2>0, <2>4
    <3>2. refresh' \subseteq 1..created'
      BY <1>0, <2>0, <2>4
    <3>3. revoked' \subseteq 1..created'
      BY <1>1, <2>4
    <3>4. QED BY <3>1, <3>2, <3>3
  <2>7. stored' \in 1..created' \cup {NoSession}
    BY <1>0, <1>t, <2>4
  <2>8. lost' \subseteq 1..created'
    BY <1>0, <1>1, <2>0, <2>4
  <2>9. QED BY <2>2, <2>3, <2>4, <2>5, <2>6, <2>7, <2>8 DEF TypeOK
<1>7. Sent'
  BY <1>0, <1>2, <1>3, <1>t DEF IInv, Sent, Granting
<1>8. LinesGoBack'
  BY <1>0, <1>4, <1>5 DEF IInv, Lines, LinesGoBack
<1>9. \A r \in Unrevoked' : r # created + 1 => r \in Unrevoked /\ ~(line[r] = itsLine)
  <2> SUFFICES ASSUME NEW r \in 1..created, r \notin revoked' PROVE line[r] # itsLine /\ r \in Unrevoked
    BY <1>0, <1>4 DEF Unrevoked
  <2>1. r \in Unrevoked
    BY <1>1 DEF Unrevoked
  <2>2. CASE itsLine = Newest
    BY <1>t, <2>1, <2>2 DEF IInv, Lines, LinesGoBack, Newest
  <2>3. CASE \E s \in Unrevoked : itsLine = line[s] /\ revoked' = revoked \cup {s}
    BY <2>1, <2>3 DEF IInv, Lines, OneOfALine, SameLine
  <2>4. QED BY <2>1, <2>2, <2>3
<1>10. OneOfALine'
  <2> SUFFICES ASSUME NEW s \in Unrevoked', NEW r \in Unrevoked', line'[s] = line'[r] PROVE s = r
    BY DEF OneOfALine, SameLine
  <2>1. s \in 1..created + 1 /\ r \in 1..created + 1
    BY <1>0 DEF Unrevoked
  <2>2. QED BY <1>4, <1>9, <2>1 DEF IInv, Lines, OneOfALine, SameLine
<1>12. SignOutEnds'
  <2> SUFFICES ASSUME NEW s \in signedOut, NEW r \in Unrevoked' PROVE line'[s] # line'[r]
    BY DEF SignOutEnds, SameLine
  <2>1. s \in signedOut /\ s \in 1..created /\ r \in 1..created + 1
    BY <1>0, <1>t DEF TypeOK, Unrevoked
  <2>2. line'[s] = line[s]
    BY <1>4, <1>t, <2>1
  <2>3. CASE r # created + 1
    BY <1>4, <1>9, <2>1, <2>2, <2>3 DEF IInv, SignOutEnds, SameLine
  <2>4. CASE r = created + 1
    <3>1. line'[r] = itsLine
      BY <1>4, <2>1, <2>4
    <3>2. CASE itsLine = Newest
      BY <1>t, <2>1, <2>2, <3>1, <3>2 DEF IInv, Lines, LinesGoBack, Newest
    <3>3. CASE \E q \in Unrevoked : itsLine = line[q]
      BY <2>1, <2>2, <3>1, <3>3 DEF IInv, SignOutEnds, SameLine
    <3>4. QED BY <3>2, <3>3
  <2>5. QED BY <2>3, <2>4
<1>13. Fresh'
  <2> SUFFICES ASSUME NEW u \in Tabs, tab'[u].step \in Granting
               PROVE  /\ tab'[u].session \in (1..created + 1) \ revoked'
                      /\ tab'[u].session # stored
                      /\ \A v \in Tabs : v # u => tab'[v].session # tab'[u].session
    BY <1>0 DEF Fresh
  <2>1. CASE u = t
    <3>1. tab'[u].session = created + 1
      BY <1>2, <1>3, <2>1
    <3>2. \A v \in Tabs : v # u => tab'[v].session \in 1..created \cup {NoSession}
      BY <1>3, <1>t, <2>1
    <3>3. QED BY <1>1, <1>t, <3>1, <3>2
  <2>2. CASE u # t
    <3>1. /\ tab'[u] = tab[u] /\ tab[u].session \in (1..created) \ revoked
          /\ tab[u].session # stored
          /\ \A v \in Tabs : v # u => tab[v].session # tab[u].session
      BY <1>3, <2>2 DEF IInv, Fresh
    <3>2. tab[u].session \notin revoked'
      BY <2>2, <3>1
    <3>3. y.session # tab[u].session
      BY <1>2, <1>t, <2>2, <3>1
    <3>4. QED BY <1>3, <1>t, <3>1, <3>2, <3>3
  <2>3. QED BY <2>1, <2>2
<1>14. \A r : r # created + 1 => (InFlight(r) => InFlight(r)')
  <2> TAKE r
  <2>1. InFlight(r) => \E u \in Tabs : tab[u].step \in Granting /\ tab[u].session = r
    BY <1>t, InFlightIs
  <2>2. (\E u \in Tabs : tab[u].step \in Granting /\ tab[u].session = r)
        => \E u \in Tabs : tab'[u].step \in Granting /\ tab'[u].session = r
    BY <1>3
  <2>3. \A u \in Tabs : tab'[u] \in [step : Steps, session : 1..created' \cup {NoSession}]
    BY <1>6 DEF TypeOK
  <2>4. (\E u \in Tabs : tab'[u].step \in Granting /\ tab'[u].session = r) => InFlight(r)'
    BY <2>3 DEF InFlight, Granting
  <2>5. QED BY <2>1, <2>2, <2>4
<1>15. \A r : r = created + 1 => r \in lost' \/ InFlight(r)'
  <2> SUFFICES ASSUME NEW r, r = created + 1, y.step \in Granting PROVE InFlight(r)'
    BY <1>2
  <2>1. tab'[t] = [step |-> y.step, session |-> r]
    BY <1>2, <1>3
  <2>2. QED BY <2>1 DEF InFlight, Granting
<1>16. StoredIsNewest'
  <2> SUFFICES ASSUME NEW s \in Unrevoked', s \notin lost', stored # NoSession,
                      line'[stored] = line'[s], ~InFlight(s)'
               PROVE  stored = s
    BY DEF StoredIsNewest, SameLine
  <2>1. s \in 1..created + 1
    BY <1>0 DEF Unrevoked
  <2>2. s # created + 1
    BY <1>15
  <2>3. stored \in 1..created /\ line'[stored] = line[stored]
    BY <1>4, <1>t
  <2>4. line'[s] = line[s] /\ s \in Unrevoked /\ s \notin lost /\ ~InFlight(s)
    BY <1>1, <1>4, <1>9, <1>14, <2>1, <2>2
  <2>5. QED BY <2>3, <2>4 DEF IInv, StoredIsNewest, SameLine
<1>17. QED
  BY <1>6, <1>7, <1>8, <1>10, <1>12, <1>13, <1>16 DEF IInv, Lines

LEMMA InvNext == IInv /\ [Next]_vars => IInv'
<1> SUFFICES ASSUME IInv, [Next]_vars PROVE IInv'
  OBVIOUS
<1> USE DEF history, Granting
<1>t. /\ stored \in 1..created \cup {NoSession}
      /\ access \subseteq 1..created /\ refresh \subseteq 1..created
  BY DEF IInv, TypeOK
<1>1. ASSUME NEW t \in Tabs, Browser(t) PROVE IInv'
  <2>1. CASE Call(t)
    BY <1>t, <2>1, TabGoes DEF Call, Steps
  <2>2. CASE SignIn(t)
    BY <2>2, TabGoes DEF SignIn, Steps
  <2>3. CASE SignOut(t)
    BY <1>t, <2>3, TabGoes DEF SignOut, Steps
  <2>4. CASE CallEnds(t)
    BY <2>4, TabGoes DEF CallEnds, Rests, Steps
  <2>5. CASE Unauthorized(t)
    BY <2>5, TabGoes DEF Unauthorized, Steps
  <2>6. CASE Refresh(t)
    BY <2>6, TabGoes DEF Refresh, Rests, Steps
  <2>7. CASE SignedIn(t)
    BY <2>7, TabStores DEF SignedIn
  <2>8. CASE Renewed(t)
    BY <2>8, TabStores DEF Renewed
  <2>9. CASE Cleared(t)
    BY <2>9, TabGoes DEF Cleared, Rests, Steps
  <2>10. QED
    BY <1>1, <2>1, <2>2, <2>3, <2>4, <2>5, <2>6, <2>7, <2>8, <2>9 DEF Browser
<1>2. ASSUME NEW t \in Tabs, Relay(t) PROVE IInv'
  <2>1. CASE Login(t)
    BY <2>1, SessionCreated DEF Login, Rests
  <2>2. CASE LoginFails(t) \/ RotateLost(t)
    BY <2>2, TabGoes DEF LoginFails, RotateLost, Rests, Steps
  <2>3. CASE Rotate(t)
    <3>1. tab[t].session \in Unrevoked
      BY <1>t, <2>3 DEF Rotate, Renewable, Unrevoked
    <3>2. QED BY <2>3, <3>1, SessionCreated DEF Rotate, Rests
  <2>4. CASE RotateRefused(t)
    BY <2>4, TabGoes DEF RotateRefused, Steps
  <2>5. CASE Logout(t)
    <3> DEFINE x == tab[t].session
    <3>1. /\ created' = created /\ line' = line /\ access' = access /\ refresh' = refresh
          /\ stored' = stored /\ lost' = lost
          /\ revoked' = revoked \cup {x} /\ signedOut' = signedOut \cup ({x} \ revoked)
          /\ Waits(t, "left", NoSession) /\ x \in 1..created
          /\ tab[t].step = "logout"
      BY <2>5 DEF Logout, IInv, Sent
    <3>2. /\ tab \in [Tabs -> [step : Steps, session : 1..created \cup {NoSession}]]
          /\ NoSession \notin 1..created
      BY NoSessionAssumption, SessionsAssumption DEF IInv, TypeOK
    <3>3. \A u \in Tabs : tab'[u] = IF u = t THEN [step |-> "left", session |-> NoSession] ELSE tab[u]
      BY <3>1, <3>2 DEF Waits
    <3>4. TypeOK'
      <4>1. tab' \in [Tabs -> [step : Steps, session : 1..created \cup {NoSession}]]
        BY <3>1, <3>2 DEF Waits, Steps
      <4>2. QED BY <3>1, <4>1 DEF IInv, TypeOK
    <3>5. Sent'
      BY <3>1, <3>3 DEF IInv, Sent
    <3>6. Lines'
      BY <3>1 DEF IInv, Lines, LinesGoBack, OneOfALine, SameLine, Unrevoked
    <3>8. SignOutEnds'
      <4> SUFFICES ASSUME NEW s \in signedOut \cup ({x} \ revoked), NEW r \in Unrevoked, r # x,
                          line[s] = line[r]
                   PROVE  FALSE
        BY <3>1 DEF SignOutEnds, SameLine, Unrevoked
      <4>1. CASE s \in signedOut
        BY <4>1 DEF IInv, SignOutEnds, SameLine
      <4>2. CASE s = x /\ x \notin revoked
        <5>1. x \in Unrevoked
          BY <3>1, <4>2 DEF Unrevoked
        <5>2. QED BY <4>2, <5>1 DEF IInv, Lines, OneOfALine, SameLine
      <4>3. QED BY <4>1, <4>2
    <3>9. Fresh'
      <4> SUFFICES ASSUME NEW u \in Tabs, tab'[u].step \in Granting
                   PROVE  /\ tab'[u].session \in (1..created) \ (revoked \cup {x})
                          /\ tab'[u].session # stored
                          /\ \A v \in Tabs : v # u => tab'[v].session # tab'[u].session
        BY <3>1 DEF Fresh
      <4>1. u # t /\ tab'[u] = tab[u]
        BY <3>3
      <4>2. /\ tab[u].session \in (1..created) \ revoked /\ tab[u].session # stored
            /\ \A v \in Tabs : v # u => tab[v].session # tab[u].session
        BY <4>1 DEF IInv, Fresh
      <4>3. QED BY <3>2, <3>3, <4>1, <4>2
    <3>10. \A r : InFlight(r) => InFlight(r)'
      <4> TAKE r
      <4>1. InFlight(r) => \E u \in Tabs : tab[u].step \in Granting /\ tab[u].session = r
        BY InFlightIs DEF IInv
      <4>2. (\E u \in Tabs : tab[u].step \in Granting /\ tab[u].session = r)
            => \E u \in Tabs : tab'[u].step \in Granting /\ tab'[u].session = r
        BY <3>1, <3>3
      <4>3. \A u \in Tabs : tab'[u] \in [step : Steps, session : 1..created' \cup {NoSession}]
        BY <3>4 DEF TypeOK
      <4>4. (\E u \in Tabs : tab'[u].step \in Granting /\ tab'[u].session = r) => InFlight(r)'
        BY <4>3 DEF InFlight
      <4>5. QED BY <4>1, <4>2, <4>4
    <3>11. StoredIsNewest'
      BY <3>1, <3>10 DEF IInv, StoredIsNewest, Unrevoked, SameLine
    <3>12. QED BY <3>4, <3>5, <3>6, <3>8, <3>9, <3>11 DEF IInv
  <2>6. CASE LogoutLost(t)
    BY <2>6, TabGoes DEF LogoutLost, Steps
  <2>7. QED BY <1>2, <2>1, <2>2, <2>3, <2>4, <2>5, <2>6 DEF Relay
<1>3. CASE /\ created' = created /\ line' = line /\ revoked' = revoked /\ stored' = stored
           /\ tab' = tab /\ lost' = lost /\ signedOut' = signedOut
           /\ access' \subseteq access /\ refresh' \subseteq refresh
  BY <1>3 DEF IInv, TypeOK, Sent, Lines, LinesGoBack, OneOfALine, SameLine, Unrevoked, SignOutEnds, Fresh, StoredIsNewest, InFlight
<1>4. ASSUME NEW s \in Sessions, AccessExpires(s) \/ RefreshExpires(s) PROVE IInv'
  BY <1>3, <1>4 DEF AccessExpires, RefreshExpires, browser
<1>5. CASE UNCHANGED vars
  BY <1>3, <1>5 DEF vars
<1>6. QED BY <1>1, <1>2, <1>4, <1>5 DEF Next

LEMMA InvHolds == Spec => []IInv
BY InvInit, InvNext, PTL DEF Spec

-------------------------------------------------------------------------------
(* Every state of the panel's sessions has its types.                        *)
THEOREM PanelTypes == Spec => []TypeOK
<1>1. IInv => TypeOK
  BY DEF IInv
<1>2. QED BY <1>1, InvHolds, PTL

(* Tabs that race to refresh a session never have two sessions of a line     *)
(* that are not revoked (postgres.ts:112-146).                               *)
THEOREM LineHasOne == Spec => []OneOfALine
<1>1. IInv => OneOfALine
  BY DEF IInv, Lines
<1>2. QED BY <1>1, InvHolds, PTL

(* A sign-out that finds its session unrevoked ends the line: no refresh     *)
(* renews that session or one of its line afterwards (postgres.ts:125, 148). *)
THEOREM SignOutIsFinal == Spec => []SignOutEnds
<1>1. IInv => SignOutEnds
  BY DEF IInv
<1>2. QED BY <1>1, InvHolds, PTL

(* In whatever order tabs store what they are granted, the browser never     *)
(* goes back in a line (auth.ts:116-140).                                    *)
THEOREM NewestIsStored == Spec => []StoredIsNewest
<1>1. IInv => StoredIsNewest
  BY DEF IInv
<1>2. QED BY <1>1, InvHolds, PTL
===============================================================================
