----------------------------- MODULE AccountProofs -----------------------------
(* The accounts of a host and the connection of each account's worker, for   *)
(* any number of accounts, commands, workers, requests and faults.  Of the   *)
(* host: the default account is registered, an account that is removed has   *)
(* no token, and an app-server that runs is the one of its worker, each with *)
(* the exceptions the properties name.  Of a worker: nothing waits on a      *)
(* connection that is gone, and requests are sent on connections that were   *)
(* initialized while connections do not cross.  The two specifications share *)
(* no state and no theorem speaks of both.                                   *)
EXTENDS AccountControl, AccountWorker, TLAPS

(* ---------------------- The host: AccountControl ------------------------- *)

UsesWorker == {"account.add", "account.login.start", "account.set-default", "session.issue"}

(* What a command holds at each of its steps.                                *)
TaskShape ==
  \A t \in Tasks :
    /\ task[t].step # "idle" => task[t].account \in Accounts
    /\ task[t].step \in {"ensure", "start", "probe", "use"} => task[t].command \in UsesWorker
    /\ task[t].step \in {"start", "probe", "use"} => task[t].worker \in 1..made
    /\ task[t].step = "issue" => task[t].command = "session.issue"
    /\ task[t].step \in {"check", "forget", "revoke", "remove"}
       => task[t].command = "account.remove"

Types == TypeOK /\ TaskShape

(* A session being issued was checked against an account that is registered  *)
(* or was removed beside it.                                                 *)
IssuesRegistered ==
  \A t \in Tasks :
    (task[t].command = "session.issue" /\ task[t].step \notin {"idle", "read"})
    => task[t].account \in registered \cup overlapped

(* A removal that has revoked the tokens of its account finds none later,    *)
(* unless one was issued or granted beside it.                               *)
RemovedRevoked ==
  \A t \in Tasks :
    task[t].step = "remove" => task[t].account \in overlapped \/ task[t].account \notin tokens

TokensInv == IssuesRegistered /\ RemovedRevoked /\ TokensHaveAccounts

(* A worker leaves the map stopped, or by a removal that has not stopped it. *)
InMapOrLeft == \A w \in 1..made : InMap(w) \/ w \in stopped \cup dropped

(* A worker that was stopped, or whose process was killed, holds no handle   *)
(* unless it is started again.                                               *)
StoppedDead == \A w \in (stopped \cup exiting) \ twice : w \notin handled

ServersInv == InMapOrLeft /\ StoppedDead /\ ServersOwned

-------------------------------------------------------------------------------
(* How a command goes on once it has its worker.                             *)
LEMMA WithGoesOn ==
  ASSUME NEW t, NEW w, task[t].command \in UsesWorker, With(t, w)
  PROVE  \/ Ends(t)
         \/ task' = [task EXCEPT ![t].step = "start", ![t].worker = w]
         \/ Leaves(t, "default")
         \/ Leaves(t, "issue") /\ task[t].command = "session.issue"
BY DEF With, Does, UsesWorker

(* A step of one command keeps the type of the commands.                     *)
LEMMA TaskGoes ==
  ASSUME NEW W, NEW t \in Tasks, NEW step \in Steps, NEW w \in W \cup {None},
         task \in [Tasks -> [command : Commands \cup {None}, account : Accounts \cup {None},
                            step : Steps, worker : W \cup {None}]]
  PROVE  [task EXCEPT ![t].step = step, ![t].worker = w]
           \in [Tasks -> [command : Commands \cup {None}, account : Accounts \cup {None},
                          step : Steps, worker : W \cup {None}]]
OBVIOUS

LEMMA WithKeepsTypes ==
  ASSUME Types, NEW t \in Tasks, task[t].command \in UsesWorker, task[t].step # "idle",
         NEW w \in 1..made, With(t, w),
         UNCHANGED <<registry, workers, made, processes, tokens, books>>
  PROVE  Types'
<1>0. /\ registered' = registered /\ ever' = ever /\ default' = default /\ workers' = workers
      /\ made' = made /\ tokens' = tokens /\ faults' = faults
      /\ readyWorkers' = readyWorkers /\ handled' = handled /\ stray' = stray /\ exiting' = exiting
      /\ stopped' = stopped /\ twice' = twice /\ dropped' = dropped /\ overlapped' = overlapped
  BY DEF registry, processes, books, history
<1>1. CASE Ends(t)
  BY <1>0, <1>1 DEF Ends, NoTask, Types, TypeOK, TaskShape, Steps
<1>2. ASSUME NEW step \in {"start", "default", "issue"}, NEW v \in 1..made \cup {None},
             step = "start" => v \in 1..made, step = "issue" => task[t].command = "session.issue",
             task' = [task EXCEPT ![t].step = step, ![t].worker = v]
      PROVE Types'
  <2>1. TypeOK'
    <3>1. task \in [Tasks -> [command : Commands \cup {None}, account : Accounts \cup {None},
                              step : Steps, worker : 1..made \cup {None}]]
      BY DEF Types, TypeOK
    <3>2. step \in Steps
      BY DEF Steps
    <3>3. task' \in [Tasks -> [command : Commands \cup {None}, account : Accounts \cup {None},
                               step : Steps, worker : 1..made \cup {None}]]
      BY <1>2, <3>1, <3>2, TaskGoes
    <3>4. QED BY <1>0, <3>3 DEF Types, TypeOK
  <2>2. TaskShape'
    BY <1>0, <1>2 DEF Types, TypeOK, TaskShape
  <2>3. QED BY <2>1, <2>2 DEF Types
<1>3. \/ Ends(t)
      \/ task' = [task EXCEPT ![t].step = "start", ![t].worker = w]
      \/ task' = [task EXCEPT ![t].step = "default", ![t].worker = None]
      \/ /\ task' = [task EXCEPT ![t].step = "issue", ![t].worker = None]
         /\ task[t].command = "session.issue"
  BY WithGoesOn DEF Leaves
<1>4. CASE task' = [task EXCEPT ![t].step = "start", ![t].worker = w]
  BY <1>2, <1>4
<1>5. CASE task' = [task EXCEPT ![t].step = "default", ![t].worker = None]
  BY <1>2, <1>5
<1>6. CASE /\ task' = [task EXCEPT ![t].step = "issue", ![t].worker = None]
           /\ task[t].command = "session.issue"
  BY <1>2, <1>6
<1>7. QED BY <1>1, <1>3, <1>4, <1>5, <1>6

LEMMA TypesInit == Init => Types
BY PrimaryAssumption, BoundsAssumption DEF Init, Types, TypeOK, TaskShape, NoTask, Steps

LEMMA TypesNext == Types /\ [Next]_vars => Types'
<1> SUFFICES ASSUME Types, [Next]_vars PROVE Types'
  OBVIOUS
<1> USE NoneAssumption, PrimaryAssumption, BoundsAssumption
<1> USE DEF Types, TypeOK, TaskShape, At, Does, Goes, Ends, Leaves, Account, Worker, NoTask,
            registry, processes, books, history, Commands, UsesWorker, Workers, Started, Steps
<1>1. ASSUME NEW t \in Tasks, Carry(t) PROVE Types'
  <2>1. CASE Receive(t)
    BY <2>1 DEF Receive
  <2>2. CASE Add(t)
    BY <2>2 DEF Add
  <2>3. CASE WorkerFor(t)
    BY <2>3 DEF WorkerFor
  <2>4. CASE UseWorker(t)
    <3>1. workers[Account(t)] \in 1..made
      BY <2>4 DEF UseWorker
    <3>2. task[t].command \in UsesWorker /\ With(t, workers[Account(t)])
      BY <2>4 DEF UseWorker
    <3>3. QED BY <2>4, <3>1, <3>2, WithKeepsTypes DEF UseWorker
  <2>5. CASE MakeWorker(t)
    <3>1. made' \in 0..MaxWorkers /\ made' \in 1..made' /\ 1..made \subseteq 1..made'
      BY <2>5 DEF MakeWorker
    <3>2. QED BY <2>5, <3>1 DEF MakeWorker
  <2>6. CASE Spawn(t)
    BY <2>6 DEF Spawn
  <2>7. CASE StartFails(t)
    BY <2>7 DEF StartFails
  <2>8. CASE Probe(t)
    BY <2>8 DEF Probe
  <2>9. CASE Use(t)
    <3>1. task[t].command \in UsesWorker /\ With(t, Worker(t))
      BY <2>9 DEF Use
    <3>2. QED BY <2>9, <3>1, WithKeepsTypes DEF Use
  <2>10. CASE SetDefault(t)
    BY <2>10 DEF SetDefault
  <2>11. CASE Issue(t)
    BY <2>11 DEF Issue
  <2>12. CASE RemoveRead(t)
    BY <2>12 DEF RemoveRead
  <2>13. CASE RemoveCheck(t)
    <3>1. workers[Account(t)] \in 1..made \cup {None}
      BY <2>13 DEF RemoveCheck
    <3>2. QED BY <2>13, <3>1 DEF RemoveCheck, StopWorker
  <2>14. CASE RemoveForget(t)
    <3>1. workers[Account(t)] \in 1..made \cup {None}
      BY <2>14 DEF RemoveForget
    <3>2. QED BY <2>14, <3>1 DEF RemoveForget
  <2>15. CASE RemoveRevoke(t)
    BY <2>15 DEF RemoveRevoke
  <2>16. CASE RemoveAccount(t)
    BY <2>16 DEF RemoveAccount
  <2>17. QED
    BY <1>1, <2>1, <2>2, <2>3, <2>4, <2>5, <2>6, <2>7, <2>8, <2>9, <2>10, <2>11, <2>12, <2>13,
       <2>14, <2>15, <2>16 DEF Carry
<1>2. ASSUME NEW w \in Workers, ExitOfOwn(w) \/ ExitOfStray(w) \/ ExitOfKilled(w) \/ Offline(w)
      PROVE Types'
  <2>1. CASE ExitOfOwn(w)
    BY <2>1 DEF ExitOfOwn, OnExit
  <2>2. CASE ExitOfStray(w)
    BY <2>2 DEF ExitOfStray, OnExit
  <2>3. CASE ExitOfKilled(w)
    BY <2>3 DEF ExitOfKilled, OnExit
  <2>4. CASE Offline(w)
    BY <2>4 DEF Offline
  <2>5. QED BY <1>2, <2>1, <2>2, <2>3, <2>4
<1>3. ASSUME NEW a \in Accounts, SessionEnds(a) \/ Grant(a) PROVE Types'
  BY <1>3 DEF SessionEnds, Grant
<1>4. CASE UNCHANGED vars
  BY <1>4 DEF vars
<1>5. QED BY <1>1, <1>2, <1>3, <1>4 DEF Next

-------------------------------------------------------------------------------
(* The default account.                                                      *)
LEMMA DefaultNext == Types /\ DefaultRegistered /\ [Next]_vars => DefaultRegistered'
<1> SUFFICES ASSUME Types, DefaultRegistered, [Next]_vars PROVE DefaultRegistered'
  OBVIOUS
<1> USE DEF DefaultRegistered, registry
<1>1. ASSUME NEW t \in Tasks, Add(t) PROVE DefaultRegistered'
  BY <1>1 DEF Add
<1>2. ASSUME NEW t \in Tasks, SetDefault(t) PROVE DefaultRegistered'
  BY <1>2 DEF SetDefault
<1>3. ASSUME NEW t \in Tasks, RemoveAccount(t) PROVE DefaultRegistered'
  BY <1>3 DEF RemoveAccount
<1>4. CASE UNCHANGED registry
  BY <1>4
<1>5. QED
  BY <1>1, <1>2, <1>3, <1>4
     DEF Next, vars, Carry, Receive, WorkerFor, UseWorker, MakeWorker, Spawn, StartFails, Probe,
         Use, Issue, RemoveRead, RemoveCheck, RemoveForget, RemoveRevoke, ExitOfOwn, ExitOfStray,
         ExitOfKilled, OnExit, Offline, SessionEnds, Grant

-------------------------------------------------------------------------------
(* The tokens of removed accounts.                                           *)

(* A step that adds no token and no account, and of the commands one goes on *)
(* or ends without reaching a step that the invariant speaks of.             *)
LEMMA TokensKept ==
  ASSUME Types, TokensInv, NEW t \in Tasks,
         registered \subseteq registered', tokens' \subseteq tokens, overlapped' = overlapped,
         \A u \in Tasks \ {t} : task'[u] = task[u],
         task'[t].step # "remove",
         task'[t].command = "session.issue" =>
             \/ task'[t].step \in {"idle", "read"}
             \/ task'[t].account \in registered'
             \/ /\ task[t].command = "session.issue"
                /\ task[t].step \notin {"idle", "read"}
                /\ task'[t].account = task[t].account
  PROVE  TokensInv'
<1>1. IssuesRegistered'
  <2> SUFFICES ASSUME NEW u \in Tasks, task'[u].command = "session.issue",
                      task'[u].step \notin {"idle", "read"}
               PROVE  task'[u].account \in registered' \cup overlapped'
    BY DEF IssuesRegistered
  <2>1. CASE u = t
    BY <2>1 DEF TokensInv, IssuesRegistered
  <2>2. CASE u # t
    <3>1. task'[u] = task[u]
      BY <2>2
    <3>2. QED BY <3>1 DEF TokensInv, IssuesRegistered
  <2>3. QED BY <2>1, <2>2
<1>2. RemovedRevoked'
  BY DEF TokensInv, RemovedRevoked
<1>3. TokensHaveAccounts'
  BY DEF TokensInv, TokensHaveAccounts
<1>4. QED BY <1>1, <1>2, <1>3 DEF TokensInv

LEMMA TokensInit == Init => TokensInv
BY DEF Init, TokensInv, IssuesRegistered, RemovedRevoked, TokensHaveAccounts, NoTask

LEMMA TokensNext == Types /\ TokensInv /\ [Next]_vars => TokensInv'
<1> SUFFICES ASSUME Types, TokensInv, [Next]_vars PROVE TokensInv'
  OBVIOUS
<1> USE NoneAssumption
<1> USE DEF At, Does, Goes, Ends, Leaves, Account, Worker, NoTask, registry, processes, books,
            history, Started
<1>t. DOMAIN task = Tasks /\ \A t \in Tasks : task[t] \in [command : Commands \cup {None},
          account : Accounts \cup {None}, step : Steps, worker : 1..made \cup {None}]
  BY DEF Types, TypeOK
<1>1. ASSUME NEW t \in Tasks, Carry(t) PROVE TokensInv'
  <2>1. CASE Receive(t)
    BY <1>t, <2>1, TokensKept DEF Receive
  <2>2. CASE Add(t)
    BY <1>t, <2>2, TokensKept DEF Add
  <2>3. CASE WorkerFor(t)
    BY <1>t, <2>3, TokensKept DEF WorkerFor
  <2>4. ASSUME NEW w, At(t, "ensure") \/ At(t, "use"), With(t, w),
               UNCHANGED <<registry, tokens, overlapped>>
        PROVE  TokensInv'
    <3>1. task[t].command \in UsesWorker
      BY <2>4 DEF Types, TaskShape
    <3>2. \/ Ends(t)
          \/ task' = [task EXCEPT ![t].step = "start", ![t].worker = w]
          \/ Leaves(t, "default")
          \/ Leaves(t, "issue") /\ task[t].command = "session.issue"
      BY <2>4, <3>1, WithGoesOn
    <3>3. /\ \A u \in Tasks \ {t} : task'[u] = task[u]
          /\ task'[t].step # "remove"
          /\ \/ task'[t].step = "idle"
             \/ task'[t].command = task[t].command /\ task'[t].account = task[t].account
      BY <1>t, <3>2
    <3>4. QED BY <2>4, <3>3, TokensKept
  <2>5. CASE MakeWorker(t)
    BY <1>t, <2>5, TokensKept DEF MakeWorker
  <2>6. CASE Spawn(t)
    BY <1>t, <2>6, TokensKept DEF Spawn
  <2>7. CASE StartFails(t)
    BY <1>t, <2>7, TokensKept DEF StartFails
  <2>8. CASE Probe(t)
    BY <1>t, <2>8, TokensKept DEF Probe
  <2>9. CASE SetDefault(t)
    BY <1>t, <2>9, TokensKept DEF SetDefault
  <2>10. CASE Issue(t)
    <3>1. /\ tokens' = tokens \cup {task[t].account}
          /\ overlapped \subseteq overlapped'
          /\ registered' = registered
          /\ task[t].account \in registered \cup overlapped
      BY <2>10 DEF Issue, Types, TaskShape, TokensInv, IssuesRegistered
    <3>2. \A u \in Tasks : task'[u] = IF u = t THEN NoTask ELSE task[u]
      BY <1>t, <2>10 DEF Issue
    <3>3. IssuesRegistered'
      BY <3>1, <3>2 DEF TokensInv, IssuesRegistered
    <3>4. RemovedRevoked'
      <4> SUFFICES ASSUME NEW u \in Tasks, task'[u].step = "remove"
                   PROVE  task'[u].account \in overlapped' \/ task'[u].account \notin tokens'
        BY DEF RemovedRevoked
      <4>1. u # t /\ task'[u] = task[u]
        BY <3>2
      <4>2. CASE task[u].account = task[t].account
        BY <2>10, <4>1, <4>2 DEF Issue
      <4>3. CASE task[u].account # task[t].account
        BY <3>1, <4>1, <4>3 DEF TokensInv, RemovedRevoked
      <4>4. QED BY <4>2, <4>3
    <3>5. TokensHaveAccounts'
      BY <3>1 DEF TokensInv, TokensHaveAccounts
    <3>6. QED BY <3>3, <3>4, <3>5 DEF TokensInv
  <2>11. CASE RemoveRead(t)
    BY <1>t, <2>11, TokensKept DEF RemoveRead
  <2>12. CASE RemoveCheck(t)
    BY <1>t, <2>12, TokensKept DEF RemoveCheck, Types, TaskShape
  <2>13. CASE RemoveForget(t)
    BY <1>t, <2>13, TokensKept DEF RemoveForget
  <2>14. CASE RemoveRevoke(t)
    <3>1. /\ tokens' = tokens \ {task[t].account}
          /\ overlapped' = overlapped /\ registered' = registered
          /\ task[t].command = "account.remove"
      BY <2>14 DEF RemoveRevoke, Types, TaskShape
    <3>2. \A u \in Tasks : /\ task'[u].command = task[u].command
                           /\ task'[u].account = task[u].account
                           /\ task'[u].step = IF u = t THEN "remove" ELSE task[u].step
      BY <1>t, <2>14 DEF RemoveRevoke
    <3>3. IssuesRegistered'
      BY <3>1, <3>2 DEF TokensInv, IssuesRegistered
    <3>4. RemovedRevoked'
      BY <3>1, <3>2 DEF TokensInv, RemovedRevoked
    <3>5. TokensHaveAccounts'
      BY <3>1 DEF TokensInv, TokensHaveAccounts
    <3>6. QED BY <3>3, <3>4, <3>5 DEF TokensInv
  <2>15. CASE RemoveAccount(t)
    <3>1. /\ tokens' = tokens /\ overlapped \subseteq overlapped'
          /\ registered \ {task[t].account} \subseteq registered'
      BY <2>15 DEF RemoveAccount
    <3>2. \A u \in Tasks : task'[u] = IF u = t THEN NoTask ELSE task[u]
      BY <1>t, <2>15 DEF RemoveAccount
    <3>3. IssuesRegistered'
      <4> SUFFICES ASSUME NEW u \in Tasks, task'[u].command = "session.issue",
                          task'[u].step \notin {"idle", "read"}
                   PROVE  task'[u].account \in registered' \cup overlapped'
        BY DEF IssuesRegistered
      <4>1. task'[u] = task[u]
        BY <3>2
      <4>2. task[u].account \in registered \cup overlapped
        BY <4>1 DEF TokensInv, IssuesRegistered
      <4>3. CASE task[u].account = task[t].account
        BY <2>15, <4>1, <4>2, <4>3 DEF RemoveAccount
      <4>4. CASE task[u].account # task[t].account
        BY <3>1, <4>1, <4>2, <4>4
      <4>5. QED BY <4>3, <4>4
    <3>4. RemovedRevoked'
      BY <3>1, <3>2 DEF TokensInv, RemovedRevoked
    <3>5. TokensHaveAccounts'
      BY <2>15, <3>1 DEF RemoveAccount, TokensInv, TokensHaveAccounts, RemovedRevoked
    <3>6. QED BY <3>3, <3>4, <3>5 DEF TokensInv
  <2>16. CASE UseWorker(t)
    BY <2>4, <2>16 DEF UseWorker
  <2>17. CASE Use(t)
    BY <2>4, <2>17 DEF Use
  <2>18. QED
    BY <1>1, <2>1, <2>2, <2>3, <2>5, <2>6, <2>7, <2>8, <2>9, <2>10, <2>11, <2>12, <2>13,
       <2>14, <2>15, <2>16, <2>17 DEF Carry
<1>2. CASE /\ registered' = registered /\ task' = task /\ overlapped' = overlapped
           /\ tokens' \subseteq tokens
  BY <1>2 DEF TokensInv, IssuesRegistered, RemovedRevoked, TokensHaveAccounts
<1>3. ASSUME NEW a \in Accounts, Grant(a) PROVE TokensInv'
  <2>1. /\ UNCHANGED <<registered, task>> /\ tokens' = tokens \cup {a}
        /\ overlapped \subseteq overlapped' /\ (a \notin registered => a \in overlapped')
        /\ \A u \in Tasks : task[u].step = "remove" /\ task[u].account = a => a \in overlapped'
    BY <1>3 DEF Grant
  <2>2. IssuesRegistered'
    BY <2>1 DEF TokensInv, IssuesRegistered
  <2>3. RemovedRevoked'
    BY <2>1 DEF TokensInv, RemovedRevoked
  <2>4. TokensHaveAccounts'
    BY <2>1 DEF TokensInv, TokensHaveAccounts
  <2>5. QED BY <2>2, <2>3, <2>4 DEF TokensInv
<1>4. QED
  BY <1>1, <1>2, <1>3
     DEF Next, vars, ExitOfOwn, ExitOfStray, ExitOfKilled, OnExit, Offline, SessionEnds

-------------------------------------------------------------------------------
(* The app-servers of the workers.                                           *)
LEMMA ServersInit == Init => ServersInv
<1> SUFFICES ASSUME Init PROVE ServersInv
  OBVIOUS
<1>1. InMapOrLeft
  BY PrimaryAssumption DEF Init, InMapOrLeft, InMap
<1>2. StoppedDead /\ ServersOwned
  BY <1>1 DEF Init, StoppedDead, ServersOwned, InMapOrLeft
<1>3. QED BY <1>1, <1>2 DEF ServersInv

(* A step that leaves the map and starts no process.                         *)
LEMMA ServersFewer ==
  ASSUME ServersInv, workers' = workers, made' = made, handled' \subseteq handled,
         exiting' \subseteq exiting, stopped' = stopped, twice' = twice, dropped' = dropped,
         \A w \in stray' \ stray : w \in twice
  PROVE  ServersInv'
<1>1. InMapOrLeft'
  BY DEF ServersInv, InMapOrLeft, InMap
<1>2. StoppedDead'
  BY DEF ServersInv, StoppedDead
<1>3. ServersOwned'
  BY DEF ServersInv, ServersOwned, InMap
<1>4. QED BY <1>1, <1>2, <1>3 DEF ServersInv

LEMMA ServersNext == Types /\ ServersInv /\ [Next]_vars => ServersInv'
<1> SUFFICES ASSUME Types, ServersInv, [Next]_vars PROVE ServersInv'
  OBVIOUS
<1> USE DEF registry, processes, books, history
<1>1. ASSUME NEW t \in Tasks, MakeWorker(t) PROVE ServersInv'
  <2> DEFINE a == Account(t)
  <2>1. /\ made \in Nat /\ made' = made + 1
        /\ workers \in [Accounts -> 1..made \cup {None}] /\ a \in Accounts
        /\ workers[a] = None /\ None \notin Nat
        /\ workers' = [workers EXCEPT ![a] = made + 1]
        /\ handled' = handled /\ stray' = stray /\ exiting' = exiting
        /\ stopped' = stopped /\ twice' = twice /\ dropped' = dropped
        /\ handled \subseteq 1..made /\ stray \subseteq 1..made
    BY <1>1, NoneAssumption DEF MakeWorker, Types, TypeOK, TaskShape, At, Account
  <2> HIDE DEF a
  <2>2. \A w \in 1..made' : w \in 1..made \/ w = made + 1
    BY <2>1
  <2>3. \E b \in Accounts : workers'[b] = made + 1
    BY <2>1
  <2>4. \A w \in 1..made : InMap(w) => InMap(w)'
    BY <2>1 DEF InMap
  <2>5. InMapOrLeft'
    BY <2>1, <2>2, <2>3, <2>4 DEF ServersInv, InMapOrLeft, InMap
  <2>6. StoppedDead'
    BY <2>1 DEF ServersInv, StoppedDead
  <2>7. ServersOwned'
    <3> SUFFICES ASSUME NEW w \in 1..made', w \notin twice' \cup dropped'
                 PROVE  w \notin stray' /\ (w \in handled' => InMap(w)')
      BY DEF ServersOwned
    <3>1. CASE w \in 1..made
      BY <2>1, <2>4, <3>1 DEF ServersInv, ServersOwned
    <3>2. CASE w = made + 1
      BY <2>1, <2>3, <3>2 DEF InMap
    <3>3. QED BY <2>2, <3>1, <3>2
  <2>8. QED BY <2>5, <2>6, <2>7 DEF ServersInv
<1>2. ASSUME NEW t \in Tasks, Spawn(t) PROVE ServersInv'
  <2> DEFINE v == Worker(t)
  <2>1. /\ v \in 1..made
        /\ workers' = workers /\ made' = made /\ exiting' = exiting
        /\ stopped' = stopped /\ dropped' = dropped
        /\ handled' = handled \cup {v}
        /\ stray' = IF v \in handled THEN stray \cup {v} ELSE stray
        /\ twice' = IF Runs(v) \/ v \in exiting \cup stopped THEN twice \cup {v} ELSE twice
    BY <1>2 DEF Spawn, Types, TaskShape, At, Worker
  <2> HIDE DEF v
  <2>2. InMapOrLeft'
    BY <2>1 DEF ServersInv, InMapOrLeft, InMap
  <2>3. StoppedDead'
    BY <2>1 DEF ServersInv, StoppedDead
  <2>4. ServersOwned'
    <3> SUFFICES ASSUME NEW w \in 1..made, w \notin twice' \cup dropped
                 PROVE  w \notin stray' /\ (w \in handled' => InMap(w))
      BY <2>1 DEF ServersOwned, InMap
    <3>1. CASE w = v
      <4>1. w \notin handled /\ w \notin stray /\ w \notin stopped
        BY <2>1, <3>1 DEF Runs
      <4>2. InMap(w)
        BY <4>1 DEF ServersInv, InMapOrLeft
      <4>3. QED BY <2>1, <3>1, <4>1, <4>2
    <3>2. CASE w # v
      BY <2>1, <3>2 DEF ServersInv, ServersOwned
    <3>3. QED BY <3>1, <3>2
  <2>5. QED BY <2>2, <2>3, <2>4 DEF ServersInv
<1>3. ASSUME NEW t \in Tasks, RemoveCheck(t) PROVE ServersInv'
  <2>1. CASE UNCHANGED <<handled, exiting, stopped>>
    BY <1>3, <2>1, ServersFewer DEF RemoveCheck
  <2>2. CASE StopWorker(workers[Account(t)]) /\ stopped' = stopped \cup {workers[Account(t)]}
    <3> DEFINE v == workers[Account(t)]
    <3>1. /\ workers' = workers /\ made' = made /\ stray' = stray /\ twice' = twice
          /\ dropped' = dropped
          /\ handled' = handled \ {v} /\ stopped' = stopped \cup {v}
          /\ exiting' \subseteq exiting \cup {v}
      BY <1>3, <2>2 DEF RemoveCheck, StopWorker
    <3> HIDE DEF v
    <3>2. InMapOrLeft'
      BY <3>1 DEF ServersInv, InMapOrLeft, InMap
    <3>3. StoppedDead'
      BY <3>1 DEF ServersInv, StoppedDead
    <3>4. ServersOwned'
      BY <3>1 DEF ServersInv, ServersOwned, InMap
    <3>5. QED BY <3>2, <3>3, <3>4 DEF ServersInv
  <2>3. QED BY <1>3, <2>1, <2>2 DEF RemoveCheck
<1>4. ASSUME NEW t \in Tasks, RemoveForget(t) PROVE ServersInv'
  <2> DEFINE a == Account(t)
             v == workers[a]
  <2>1. /\ workers \in [Accounts -> 1..made \cup {None}] /\ a \in Accounts
        /\ None \notin Nat /\ made \in Nat
        /\ workers' = [workers EXCEPT ![a] = None]
        /\ dropped' = IF v \in stopped \cup {None} THEN dropped ELSE dropped \cup {v}
        /\ made' = made /\ handled' = handled /\ stray' = stray /\ exiting' = exiting
        /\ stopped' = stopped /\ twice' = twice
    BY <1>4, NoneAssumption DEF RemoveForget, Types, TypeOK, TaskShape, At, Account
  <2>2. \A w \in 1..made : InMap(w) => InMap(w)' \/ w = v
    <3> HIDE DEF a
    <3> QED BY <2>1 DEF InMap
  <2> HIDE DEF a, v
  <2>3. \A w \in 1..made : w = v => w \in stopped \cup dropped'
    BY <2>1
  <2>4. InMapOrLeft'
    BY <2>1, <2>2, <2>3 DEF ServersInv, InMapOrLeft
  <2>5. StoppedDead'
    BY <2>1 DEF ServersInv, StoppedDead
  <2>6. ServersOwned'
    <3> SUFFICES ASSUME NEW w \in 1..made, w \notin twice \cup dropped'
                 PROVE  w \notin stray /\ (w \in handled => InMap(w)')
      BY <2>1 DEF ServersOwned
    <3>1. w \notin stray /\ (w \in handled => InMap(w))
      BY <2>1 DEF ServersInv, ServersOwned
    <3>2. w = v => w \notin handled
      BY <2>3 DEF ServersInv, StoppedDead
    <3>3. QED BY <2>2, <3>1, <3>2
  <2>7. QED BY <2>4, <2>5, <2>6 DEF ServersInv
<1>5. ASSUME NEW w \in Workers, ExitOfOwn(w) \/ ExitOfStray(w) \/ Offline(w) PROVE ServersInv'
  BY <1>5, ServersFewer DEF ExitOfOwn, ExitOfStray, Offline, OnExit
<1>6. ASSUME NEW w \in Workers, ExitOfKilled(w) PROVE ServersInv'
  <2>1. w \in handled => w \in twice
    BY <1>6 DEF ExitOfKilled, ServersInv, StoppedDead
  <2>2. QED BY <1>6, <2>1, ServersFewer DEF ExitOfKilled, OnExit
<1>7. CASE UNCHANGED <<workers, made, handled, stray, exiting, stopped, twice, dropped>>
  BY <1>7, ServersFewer
<1>8. QED
  BY <1>1, <1>2, <1>3, <1>4, <1>5, <1>6, <1>7
     DEF Next, vars, Carry, Receive, Add, WorkerFor, UseWorker, StartFails, Probe, Use, SetDefault,
         Issue, RemoveRead, RemoveRevoke, RemoveAccount, SessionEnds, Grant

-------------------------------------------------------------------------------
(* Every state of the host's accounts has its types.                         *)
THEOREM AccountTypes == Spec => []TypeOK
<1>1. Spec => []Types
  BY TypesInit, TypesNext, PTL DEF Spec
<1>2. Types => TypeOK
  BY DEF Types
<1>3. QED BY <1>1, <1>2, PTL

(* The default account is registered, however many commands overlap: the     *)
(* account store looks at the registry again when it removes                 *)
(* (account-store.ts:246, 292).                                              *)
THEOREM DefaultStays == Spec => []DefaultRegistered
<1>1. Spec => []Types
  BY TypesInit, TypesNext, PTL DEF Spec
<1>2. Init => DefaultRegistered
  BY DEF Init, DefaultRegistered
<1>3. QED BY <1>1, <1>2, DefaultNext, PTL DEF Spec

(* An account that was removed has no token, unless a session of it was      *)
(* being issued while it was removed (host-agent.ts:1045, 1244).             *)
THEOREM TokensGone == Spec => []TokensHaveAccounts
<1>1. Spec => []Types
  BY TypesInit, TypesNext, PTL DEF Spec
<1>2. Spec => []TokensInv
  BY <1>1, TokensInit, TokensNext, PTL DEF Spec
<1>3. TokensInv => TokensHaveAccounts
  BY DEF TokensInv
<1>4. QED BY <1>2, <1>3, PTL

(* Every process that runs is the one of a worker of the map, but for the    *)
(* workers started twice or dropped (account-worker.ts:203-213, 427;         *)
(* host-agent.ts:1239-1242).                                                 *)
THEOREM ServersStay == Spec => []ServersOwned
<1>1. Spec => []Types
  BY TypesInit, TypesNext, PTL DEF Spec
<1>2. Spec => []ServersInv
  BY <1>1, ServersInit, ServersNext, PTL DEF Spec
<1>3. ServersInv => ServersOwned
  BY DEF ServersInv
<1>4. QED BY <1>2, <1>3, PTL

(* ---------------------- A worker: AccountWorker -------------------------- *)

(* The opening that is shared has not been settled.                          *)
OpeningUnsettled == controlOpening # NoSocket => controlOpening \in unsettled

(* While connections do not cross, an initialize that is pending is that of  *)
(* the control socket, and so is the answer that was acted on.               *)
Uncrossed == ~crossed => /\ pendingInit \subseteq {controlSocket}
                         /\ controlInitialized => controlSocket \in handshaken

WorkerInv == WorkerTypeOK /\ OpeningUnsettled /\ PendingOnOpen /\ Uncrossed /\ SentInitialized

-------------------------------------------------------------------------------
LEMMA WorkerInvInit == WorkerInit => WorkerInv
<1> SUFFICES ASSUME WorkerInit PROVE WorkerInv
  OBVIOUS
<1>1. caller \in [Callers -> [step : {"idle", "waiting", "checked", "sent"}, on : Sockets \cup {NoSocket}]]
  BY DEF WorkerInit, Idle
<1>2. WorkerTypeOK
  <2>1. 0 \in 0..MaxStops
    BY SocketsAssumption
  <2>2. socket \in [Sockets -> {"new", "connecting", "open", "closing", "leaving", "closed"}]
    BY DEF WorkerInit
  <2>3. QED BY <1>1, <2>1, <2>2 DEF WorkerInit, WorkerTypeOK
<1>3. PendingOnOpen
  BY DEF WorkerInit, PendingOnOpen, Sends, Idle
<1>4. OpeningUnsettled /\ Uncrossed /\ SentInitialized
  BY DEF WorkerInit, OpeningUnsettled, Uncrossed, SentInitialized
<1>5. QED BY <1>2, <1>3, <1>4 DEF WorkerInv

(* Openings fail, and requests with them: whoever waits on goes on waiting   *)
(* for an opening that is not settled.                                       *)
LEMMA FailKeeps ==
  ASSUME WorkerInv, NEW ks, NEW cs, Fail(ks, cs)
  PROVE  /\ unsettled' \subseteq Sockets
         /\ controlOpening' \in Sockets \cup {NoSocket}
         /\ OpeningUnsettled'
         /\ caller' \in [Callers -> [step : {"idle", "waiting", "checked", "sent"},
                                     on : Sockets \cup {NoSocket}]]
         /\ \A c \in Callers : \/ caller'[c] = Idle
                               \/ caller'[c] = caller[c] /\ c \notin cs
         /\ \A c \in Callers : caller'[c].step = "waiting" => caller'[c].on \in unsettled'
<1>0. /\ caller \in [Callers -> [step : {"idle", "waiting", "checked", "sent"}, on : Sockets \cup {NoSocket}]]
      /\ unsettled \subseteq Sockets /\ controlOpening \in Sockets \cup {NoSocket}
      /\ OpeningUnsettled
      /\ \A c \in Callers : caller[c].step = "waiting" => caller[c].on \in unsettled
  BY DEF WorkerInv, WorkerTypeOK, PendingOnOpen
<1>1. \A c \in Callers : caller'[c] = IF c \in cs \/ \E k \in ks : WaitsFor(c, k) THEN Idle ELSE caller[c]
  BY DEF Fail, Settle
<1>2. unsettled' = unsettled \ ks
      /\ controlOpening' = IF ks \cap unsettled = {} THEN controlOpening ELSE NoSocket
  BY DEF Fail, Settle
<1>3. caller' \in [Callers -> [step : {"idle", "waiting", "checked", "sent"}, on : Sockets \cup {NoSocket}]]
  BY <1>0 DEF Fail, Settle, Idle
<1>4. OpeningUnsettled'
  BY <1>0, <1>2 DEF OpeningUnsettled
<1>5. ASSUME NEW c \in Callers, caller'[c].step = "waiting" PROVE caller'[c].on \in unsettled'
  <2>1. caller'[c] = caller[c] /\ \A k \in ks : ~WaitsFor(c, k)
    BY <1>1, <1>5 DEF Idle
  <2>2. caller[c] = [step |-> "waiting", on |-> caller[c].on]
    BY <1>0, <1>5, <2>1
  <2>3. caller[c].on \notin ks
    BY <2>1, <2>2 DEF WaitsFor
  <2>4. QED BY <1>0, <1>2, <1>5, <2>1, <2>3
<1>6. QED BY <1>0, <1>1, <1>2, <1>3, <1>4, <1>5

(* A caller makes a step of its own.                                         *)
LEMMA CallerGoes ==
  ASSUME WorkerInv, NEW c \in Callers, NEW step \in {"idle", "waiting", "checked", "sent"},
         NEW k \in Sockets \cup {NoSocket}, Becomes(c, step, k),
         UNCHANGED <<localReady, controlSocket, controlInitialized, pendingInit, handshaken,
                     crossed, stops>>,
         unsettled \subseteq unsettled', unsettled' \subseteq Sockets, OpeningUnsettled',
         controlOpening' \in Sockets \cup {NoSocket},
         \/ socket' = socket
         \/ \E j \in Sockets : socket[j] = "new" /\ socket' = [socket EXCEPT ![j] = "connecting"],
         bare' \in BOOLEAN, bare' => crossed,
         step = "waiting" => k \in unsettled', step = "sent" => socket[k] \in {"open", "leaving"}
  PROVE  WorkerInv'
<1>0. /\ caller \in [Callers -> [step : {"idle", "waiting", "checked", "sent"}, on : Sockets \cup {NoSocket}]]
      /\ socket \in [Sockets -> {"new", "connecting", "open", "closing", "leaving", "closed"}]
      /\ PendingOnOpen
  BY DEF WorkerInv, WorkerTypeOK
<1>1. \A d \in Callers : caller'[d] = IF d = c THEN [step |-> step, on |-> k] ELSE caller[d]
  BY <1>0 DEF Becomes
<1>2. caller' \in [Callers -> [step : {"idle", "waiting", "checked", "sent"}, on : Sockets \cup {NoSocket}]]
  BY <1>0 DEF Becomes
<1>3. /\ socket' \in [Sockets -> {"new", "connecting", "open", "closing", "leaving", "closed"}]
      /\ \A j : socket[j] \in {"open", "leaving"} => socket'[j] \in {"open", "leaving"}
  <2>1. CASE socket' = socket
    BY <1>0, <2>1
  <2>2. CASE \E j \in Sockets : socket[j] = "new" /\ socket' = [socket EXCEPT ![j] = "connecting"]
    BY <1>0, <2>2
  <2>3. QED BY <2>1, <2>2
<1>4. WorkerTypeOK'
  BY <1>2, <1>3 DEF WorkerInv, WorkerTypeOK
<1>5. PendingOnOpen'
  BY <1>0, <1>1, <1>3 DEF PendingOnOpen, Sends
<1>6. Uncrossed' /\ SentInitialized'
  BY DEF WorkerInv, Uncrossed, SentInitialized
<1>7. QED BY <1>4, <1>5, <1>6 DEF WorkerInv

LEMMA WorkerInvNext == WorkerInv /\ [WorkerNext]_workerVars => WorkerInv'
<1> SUFFICES ASSUME WorkerInv, [WorkerNext]_workerVars PROVE WorkerInv'
  OBVIOUS
<1> USE DEF workerHistory
<1>t. /\ WorkerTypeOK /\ OpeningUnsettled /\ PendingOnOpen /\ Uncrossed /\ SentInitialized
      /\ NoSocket \notin Sockets
      /\ caller \in [Callers -> [step : {"idle", "waiting", "checked", "sent"}, on : Sockets \cup {NoSocket}]]
      /\ socket \in [Sockets -> {"new", "connecting", "open", "closing", "leaving", "closed"}]
      /\ controlSocket \in Sockets \cup {NoSocket} /\ controlOpening \in Sockets \cup {NoSocket}
      /\ bare \in BOOLEAN /\ crossed \in BOOLEAN /\ controlInitialized \in BOOLEAN
      /\ unsettled \subseteq Sockets
  BY NoSocketAssumption DEF WorkerInv, WorkerTypeOK, Sockets
<1>1. CASE Start
  BY <1>1 DEF Start, WorkerInv, WorkerTypeOK, OpeningUnsettled, PendingOnOpen, Sends, Uncrossed, SentInitialized
<1>2. CASE Stop
  <2>1. WorkerTypeOK'
    <3>1. socket' \in [Sockets -> {"new", "connecting", "open", "closing", "leaving", "closed"}]
      BY <1>t, <1>2 DEF Stop
    <3>2. caller' \in [Callers -> [step : {"idle", "waiting", "checked", "sent"}, on : Sockets \cup {NoSocket}]]
      BY <1>t, <1>2 DEF Stop, Idle
    <3>3. stops' \in 0..MaxStops
      BY <1>t, <1>2, SocketsAssumption DEF Stop, WorkerTypeOK
    <3>4. QED BY <1>t, <1>2, <3>1, <3>2, <3>3 DEF Stop, WorkerTypeOK
  <2>2. \A c \in Callers : caller'[c] = IF Sends(c) \/ \E k \in pendingInit : WaitsFor(c, k)
                                        THEN Idle ELSE caller[c]
    BY <1>2 DEF Stop
  <2>3. PendingOnOpen'
    <3> SUFFICES ASSUME NEW c \in Callers
                 PROVE  /\ caller'[c].step # "sent"
                        /\ caller'[c].step = "waiting" => caller'[c].on \in unsettled \ pendingInit
      BY <1>2 DEF Stop, PendingOnOpen, Sends
    <3>1. CASE caller'[c] = Idle
      BY <3>1 DEF Idle
    <3>2. CASE caller'[c] # Idle
      <4>1. caller'[c] = caller[c] /\ ~Sends(c) /\ \A k \in pendingInit : ~WaitsFor(c, k)
        BY <2>2, <3>2
      <4>2. caller[c] = [step |-> caller[c].step, on |-> caller[c].on]
        BY <1>t
      <4>3. QED BY <1>t, <4>1, <4>2 DEF Sends, WaitsFor, PendingOnOpen
    <3>3. QED BY <3>1, <3>2
  <2>4. OpeningUnsettled' /\ Uncrossed' /\ SentInitialized'
    BY <1>t, <1>2 DEF Stop, OpeningUnsettled, Uncrossed, SentInitialized
  <2>5. QED BY <2>1, <2>3, <2>4 DEF WorkerInv
<1>3. ASSUME NEW c \in Callers, Request(c) PROVE WorkerInv'
  <2>0. bare => crossed
    BY <1>t DEF SentInitialized
  <2>1. CASE UseConnection(c)
    BY <1>3, <1>t, <2>0, <2>1, CallerGoes DEF Request, UseConnection, OpeningUnsettled
  <2>2. CASE ShareOpening(c)
    <3>1. controlOpening \in Sockets /\ controlOpening \in unsettled
      BY <1>t, <2>2 DEF ShareOpening, OpeningUnsettled
    <3>2. QED BY <1>3, <1>t, <2>0, <2>2, <3>1, CallerGoes DEF Request, ShareOpening, OpeningUnsettled
  <2>3. CASE OpenConnection(c)
    BY <1>3, <1>t, <2>0, <2>3, CallerGoes, ZenonT(60) DEF Request, OpenConnection, OpeningUnsettled
  <2>4. QED BY <1>3, <2>1, <2>2, <2>3 DEF Request
<1>4. ASSUME NEW c \in Callers, Send(c) PROVE WorkerInv'
  <2>1. CASE Connected
    <3>1. /\ Becomes(c, "sent", controlSocket) /\ bare' = (bare \/ controlSocket \notin handshaken)
          /\ controlSocket \in Sockets /\ socket[controlSocket] = "open" /\ controlInitialized
      BY <1>4, <1>t, <2>1 DEF Send, Connected
    <3>2. bare' => crossed
      BY <1>t, <3>1 DEF Uncrossed, SentInitialized
    <3>3. QED BY <1>4, <1>t, <3>1, <3>2, CallerGoes DEF Send, OpeningUnsettled
  <2>2. CASE ~Connected
    BY <1>4, <1>t, <2>2, CallerGoes DEF Send, OpeningUnsettled, SentInitialized
  <2>3. QED BY <2>1, <2>2
<1>5. ASSUME NEW c \in Callers, Answered(c) \/ TimedOut(c) PROVE WorkerInv'
  BY <1>5, <1>t, CallerGoes DEF Answered, TimedOut, OpeningUnsettled, SentInitialized
<1>6. ASSUME NEW k \in Sockets, Opened(k) PROVE WorkerInv'
  <2>1. WorkerTypeOK'
    BY <1>6, <1>t DEF Opened, WorkerTypeOK
  <2>2. \A j \in Sockets : socket'[j] = IF j = k THEN "open" ELSE socket[j]
    BY <1>6, <1>t DEF Opened
  <2>3. PendingOnOpen' /\ OpeningUnsettled' /\ SentInitialized'
    <3>1. pendingInit \subseteq Sockets
      BY <1>t DEF WorkerTypeOK
    <3>2. \A j : socket[j] \in {"open", "leaving"} => socket'[j] \in {"open", "leaving"}
      BY <1>6, <1>t DEF Opened
    <3>3. QED BY <1>6, <1>t, <2>2, <3>1, <3>2
              DEF Opened, PendingOnOpen, Sends, OpeningUnsettled, SentInitialized
  <2>4. Uncrossed'
    <3>1. \A j \in pendingInit : j \in Sockets /\ socket[j] \in {"open", "leaving"}
      BY <1>t DEF WorkerTypeOK, PendingOnOpen
    <3>2. QED BY <1>6, <3>1 DEF Opened, Uncrossed, Alive
  <2>5. QED BY <2>1, <2>3, <2>4 DEF WorkerInv
<1>7. ASSUME NEW k \in Sockets, InitAnswered(k) PROVE WorkerInv'
  <2>1. /\ unsettled' = unsettled \ {k}
        /\ controlOpening' = IF {k} \cap unsettled = {} THEN controlOpening ELSE NoSocket
        /\ caller' = [c \in Callers |-> IF WaitsFor(c, k) THEN [step |-> "checked", on |-> NoSocket]
                                                          ELSE caller[c]]
    BY <1>7 DEF InitAnswered, Settle
  <2>2. WorkerTypeOK'
    <3>1. caller' \in [Callers -> [step : {"idle", "waiting", "checked", "sent"}, on : Sockets \cup {NoSocket}]]
      BY <1>t, <2>1
    <3>2. QED BY <1>7, <1>t, <2>1, <3>1 DEF InitAnswered, WorkerTypeOK
  <2>3. OpeningUnsettled'
    BY <1>t, <2>1 DEF OpeningUnsettled
  <2>4. PendingOnOpen'
    <3> SUFFICES ASSUME NEW c \in Callers
                 PROVE  /\ caller'[c].step = "sent" => socket[caller'[c].on] \in {"open", "leaving"}
                        /\ caller'[c].step = "waiting" => caller'[c].on \in unsettled \ {k}
      BY <1>7, <1>t, <2>1 DEF InitAnswered, PendingOnOpen, Sends
    <3>1. CASE WaitsFor(c, k)
      BY <2>1, <3>1
    <3>2. CASE ~WaitsFor(c, k)
      <4>1. caller'[c] = caller[c] /\ caller[c] = [step |-> caller[c].step, on |-> caller[c].on]
        BY <1>t, <2>1, <3>2
      <4>2. QED BY <1>t, <3>2, <4>1 DEF WaitsFor, PendingOnOpen, Sends
    <3>3. QED BY <3>1, <3>2
  <2>5. Uncrossed' /\ SentInitialized'
    BY <1>7, <1>t DEF InitAnswered, Uncrossed, SentInitialized
  <2>6. QED BY <2>2, <2>3, <2>4, <2>5 DEF WorkerInv
<1>8. ASSUME NEW k \in Sockets, InitRefused(k) \/ InitTimeout(k) PROVE WorkerInv'
  <2>1. /\ Fail({k}, {}) /\ socket' = socket /\ pendingInit' \subseteq pendingInit
        /\ UNCHANGED <<localReady, controlSocket, controlInitialized, handshaken, crossed, bare, stops>>
    BY <1>8 DEF InitRefused, InitTimeout
  <2>2. /\ unsettled' \subseteq Sockets
        /\ controlOpening' \in Sockets \cup {NoSocket}
        /\ OpeningUnsettled'
        /\ caller' \in [Callers -> [step : {"idle", "waiting", "checked", "sent"},
                                    on : Sockets \cup {NoSocket}]]
        /\ \A c \in Callers : caller'[c] = Idle \/ caller'[c] = caller[c]
        /\ \A c \in Callers : caller'[c].step = "waiting" => caller'[c].on \in unsettled'
    BY <2>1, FailKeeps
  <2>3. WorkerTypeOK'
    BY <1>t, <2>1, <2>2 DEF WorkerTypeOK
  <2>4. PendingOnOpen'
    BY <1>t, <2>1, <2>2 DEF PendingOnOpen, Sends, Idle
  <2>5. Uncrossed' /\ SentInitialized'
    BY <1>t, <2>1 DEF Uncrossed, SentInitialized
  <2>6. QED BY <2>2, <2>3, <2>4, <2>5 DEF WorkerInv
<1>9. ASSUME NEW k \in Sockets, Closed(k) PROVE WorkerInv'
  <2> DEFINE ks == pendingInit \cup (IF socket[k] = "connecting" THEN {k} ELSE {})
             cs == {c \in Callers : Sends(c)}
  <2>1. /\ Fail(ks, cs) /\ socket' = [socket EXCEPT ![k] = "closed"] /\ pendingInit' = {}
        /\ controlSocket' = IF controlSocket = k THEN NoSocket ELSE controlSocket
        /\ controlInitialized' = (controlInitialized /\ controlSocket # k)
        /\ localReady' = FALSE
        /\ UNCHANGED <<handshaken, crossed, bare, stops>>
    BY <1>9 DEF Closed
  <2>2. /\ unsettled' \subseteq Sockets
        /\ controlOpening' \in Sockets \cup {NoSocket}
        /\ OpeningUnsettled'
        /\ caller' \in [Callers -> [step : {"idle", "waiting", "checked", "sent"},
                                    on : Sockets \cup {NoSocket}]]
        /\ \A c \in Callers : caller'[c] = Idle \/ (caller'[c] = caller[c] /\ c \notin cs)
        /\ \A c \in Callers : caller'[c].step = "waiting" => caller'[c].on \in unsettled'
    <3> HIDE DEF ks, cs
    <3> QED BY <2>1, FailKeeps
  <2>3. WorkerTypeOK'
    BY <1>t, <2>1, <2>2 DEF WorkerTypeOK
  <2>4. PendingOnOpen'
    BY <1>t, <2>1, <2>2 DEF PendingOnOpen, Sends, Idle
  <2>5. Uncrossed' /\ SentInitialized'
    BY <1>t, <2>1 DEF Uncrossed, SentInitialized
  <2>6. QED BY <2>2, <2>3, <2>4, <2>5 DEF WorkerInv
<1>10. ASSUME NEW k \in Sockets, PeerCloses(k) PROVE WorkerInv'
  <2>1. \A j \in Sockets : socket'[j] = IF j = k THEN "leaving" ELSE socket[j]
    BY <1>10, <1>t DEF PeerCloses
  <2>2. WorkerTypeOK'
    BY <1>10, <1>t DEF PeerCloses, WorkerTypeOK
  <2>3. PendingOnOpen'
    <3>1. \A j : socket[j] \in {"open", "leaving"} => socket'[j] \in {"open", "leaving"}
      BY <1>10, <1>t DEF PeerCloses
    <3>2. QED BY <1>10, <1>t, <3>1 DEF PeerCloses, PendingOnOpen, Sends
  <2>4. OpeningUnsettled' /\ Uncrossed' /\ SentInitialized'
    BY <1>10, <1>t DEF PeerCloses, OpeningUnsettled, Uncrossed, SentInitialized
  <2>5. QED BY <2>2, <2>3, <2>4 DEF WorkerInv
<1>11. CASE UNCHANGED workerVars
  BY <1>11 DEF workerVars, WorkerInv, WorkerTypeOK, OpeningUnsettled, PendingOnOpen, Sends, Uncrossed, SentInitialized
<1>12. QED BY <1>1, <1>2, <1>3, <1>4, <1>5, <1>6, <1>7, <1>8, <1>9, <1>10, <1>11 DEF WorkerNext

LEMMA WorkerInvHolds == WorkerSpec => []WorkerInv
BY WorkerInvInit, WorkerInvNext, PTL DEF WorkerSpec

-------------------------------------------------------------------------------
(* Every state of a worker's connections has its types.                      *)
THEOREM WorkerTypes == WorkerSpec => []WorkerTypeOK
<1>1. WorkerInv => WorkerTypeOK
  BY DEF WorkerInv
<1>2. QED BY <1>1, WorkerInvHolds, PTL

(* Requests are sent on connections whose initialize was answered, while no  *)
(* connection opens beside one that has not closed (account-worker.ts:471).  *)
THEOREM InitializedFirst == WorkerSpec => []SentInitialized
<1>1. WorkerInv => SentInitialized
  BY DEF WorkerInv
<1>2. QED BY <1>1, WorkerInvHolds, PTL

(* The close event and stop leave no request behind that waits for the       *)
(* connection (account-worker.ts:213-233, 517-530).                          *)
THEOREM NothingWaitsInVain == WorkerSpec => []PendingOnOpen
<1>1. WorkerInv => PendingOnOpen
  BY DEF WorkerInv
<1>2. QED BY <1>1, WorkerInvHolds, PTL
================================================================================
