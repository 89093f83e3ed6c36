---------------------------- MODULE AccountControl ----------------------------
(* The accounts of the host: the account registry (server/src/account-store  *)
(* .ts), the map of workers and the app-server processes they start          *)
(* (server/src/account-worker.ts), and the control commands of the relay     *)
(* that work on all three and on the session tokens, each of them an         *)
(* asynchronous function of host-agent.ts that others run beside.            *)
(* An operation of a registry file is one step: see RegistryFile.            *)
EXTENDS Naturals, FiniteSets

CONSTANTS Accounts,     \* identifiers of accounts ever created
          Bookable,     \* accounts that reservations and an admin's tokens are made for
          Primary,      \* the account of the host's configuration
          Tasks,        \* commands that are carried out at the same time
          MaxWorkers,   \* bound on the worker objects ever made
          MaxFaults,    \* bound on processes and connections that fail
          None

ASSUME PrimaryAssumption == Primary \in Accounts
ASSUME BoundsAssumption == MaxWorkers \in Nat \ {0} /\ MaxFaults \in Nat
ASSUME NoneAssumption == None \notin Accounts /\ None \notin Nat

Workers == 1..MaxWorkers

VARIABLES
    registered,   \* accounts in the registry
    ever,         \* accounts that were ever in it
    default,      \* defaultAccountId
    workers,      \* the map: for each account a worker object, or None
    made,         \* worker objects made so far
    readyWorkers,   \* ready worker objects
    handled,      \* worker objects that hold the handle of a live process
    stray,        \* worker objects with a live process they hold no handle of
    exiting,      \* worker objects with a killed process whose exit is not yet seen
    tokens,       \* accounts with a token that is neither revoked nor expired
    task,         \* what each command does
    faults,
    stopped,      \* history: worker objects that were stopped
    twice,        \* history: worker objects that a start found started or stopped
    dropped,      \* history: worker objects a removal forgot that none had stopped
    overlapped    \* history: accounts removed beside a session.issue of theirs, or
                  \* given a token by an admin after a removal had revoked theirs

vars == <<registered, ever, default, workers, made, readyWorkers, handled, stray, exiting, tokens,
          task, faults, stopped, twice, dropped, overlapped>>
history == <<stopped, twice, dropped, overlapped>>
books == <<faults, history>>
registry == <<registered, ever, default>>
processes == <<readyWorkers, handled, stray, exiting>>

Commands == {"account.add", "account.set-default", "account.login.start", "account.remove",
             "session.issue"}

Steps == {"idle", "read", "ensure", "start", "probe", "use", "default", "issue",
          "check", "forget", "revoke", "remove"}

NoTask == [command |-> None, account |-> None, step |-> "idle", worker |-> None]

(* The host has started: the primary account is registered and its worker runs. *)
Init == /\ registered = {Primary}
        /\ ever = {Primary}
        /\ default = Primary
        /\ workers = [a \in Accounts |-> IF a = Primary THEN 1 ELSE None]
        /\ made = 1
        /\ readyWorkers = {1}
        /\ handled = {1}
        /\ stray = {}
        /\ exiting = {}
        /\ tokens = {}
        /\ task = [t \in Tasks |-> NoTask]
        /\ faults = 0
        /\ stopped = {}
        /\ twice = {}
        /\ dropped = {}
        /\ overlapped = {}

At(t, step) == task[t].step = step
Does(t, command) == task[t].command = command
Goes(t, step) == task' = [task EXCEPT ![t].step = step]
Leaves(t, step) == task' = [task EXCEPT ![t].step = step, ![t].worker = None]
Ends(t) == task' = [task EXCEPT ![t] = NoTask]
Account(t) == task[t].account
Worker(t) == task[t].worker

(* A random identifier: no addition under way has chosen it. *)
Unused(a) == a \notin ever /\ \A t \in Tasks : Account(t) # a

(* A command arrives and awaits its first read of the registry. *)
Receive(t) == /\ At(t, "idle")
              /\ \E command \in Commands, a \in Accounts :
                     /\ IF command = "account.add" THEN Unused(a) ELSE a \in ever
                     /\ command = "account.remove" => a # Primary
                     /\ command = "session.issue" => a \in Bookable
                     /\ task' = [task EXCEPT ![t] = [command |-> command, account |-> a,
                                                     step |-> "read", worker |-> None]]
              /\ UNCHANGED <<registry, workers, made, processes, tokens, books>>

(* AccountStore.add: a new identifier, which no other command knows yet. *)
Add(t) == LET a == Account(t) IN
          /\ At(t, "read") /\ Does(t, "account.add")
          /\ registered' = registered \cup {a}
          /\ ever' = ever \cup {a}
          /\ Goes(t, "ensure")
          /\ UNCHANGED <<default, workers, made, processes, tokens, books>>

(* workerFor: the account is registered, or the command fails. *)
WorkerFor(t) == /\ At(t, "read")
                /\ task[t].command \in {"account.set-default", "account.login.start", "session.issue"}
                /\ IF Account(t) \in registered THEN Goes(t, "ensure") ELSE Ends(t)
                /\ UNCHANGED <<registry, workers, made, processes, tokens, books>>

(* What a command does once it has its worker, ready or not: only            *)
(* account.login.start, account.logout and the list of models start it.      *)
With(t, w) == LET ready == w \in readyWorkers IN
    CASE Does(t, "account.add") -> Ends(t)
      [] Does(t, "account.login.start") ->
             IF ready THEN Ends(t)
             ELSE task' = [task EXCEPT ![t].step = "start", ![t].worker = w]
      [] Does(t, "account.set-default") -> IF ready THEN Leaves(t, "default") ELSE Ends(t)
      [] Does(t, "session.issue") -> IF ready THEN Leaves(t, "issue") ELSE Ends(t)

(* ensureWorker takes the worker of the map as it is, or puts a new one      *)
(* there and starts it.                                                      *)
UseWorker(t) == /\ At(t, "ensure")
                /\ workers[Account(t)] # None
                /\ With(t, workers[Account(t)])
                /\ UNCHANGED <<registry, workers, made, processes, tokens, books>>

MakeWorker(t) == /\ At(t, "ensure")
                 /\ workers[Account(t)] = None
                 /\ made < MaxWorkers
                 /\ made' = made + 1
                 /\ workers' = [workers EXCEPT ![Account(t)] = made']
                 /\ task' = [task EXCEPT ![t].step = "start", ![t].worker = made']
                 /\ UNCHANGED <<registry, processes, tokens, books>>

-------------------------------------------------------------------------------
(* The processes of a worker. *)

InMap(w) == \E a \in Accounts : workers[a] = w
Runs(w) == w \in handled \cup stray

(* start: the token is there and the process is spawned, whether or not one  *)
(* runs already and whatever became of the worker meanwhile.                 *)
Spawn(t) == LET w == Worker(t) IN
            /\ At(t, "start")
            /\ stray' = IF w \in handled THEN stray \cup {w} ELSE stray
            /\ handled' = handled \cup {w}
            /\ twice' = IF Runs(w) \/ w \in exiting \cup stopped THEN twice \cup {w} ELSE twice
            /\ Goes(t, "probe")
            /\ UNCHANGED <<registry, workers, made, readyWorkers, exiting, tokens, faults, stopped,
                           dropped, overlapped>>

(* A start that ends was all the command asked for, or its first part. *)
Started(t) == IF Does(t, "account.login.start") THEN Ends(t) ELSE Goes(t, "use")

(* The token file cannot be read or written, or nothing answers in time:     *)
(* ensureWorker logs it.                                                     *)
StartFails(t) == /\ At(t, "start") \/ At(t, "probe")
                 /\ Started(t)
                 /\ UNCHANGED <<registry, workers, made, processes, tokens, books>>

(* A process answers the probe and the worker is ready. *)
Probe(t) == /\ At(t, "probe")
            /\ Runs(Worker(t))
            /\ readyWorkers' = readyWorkers \cup {Worker(t)}
            /\ Started(t)
            /\ UNCHANGED <<registry, workers, made, handled, stray, exiting, tokens, books>>

(* The exit of any process of a worker takes it offline and drops the handle *)
(* it holds, which may be of another process.                                *)
OnExit(w) == /\ handled' = handled \ {w}
             /\ readyWorkers' = readyWorkers \ {w}
             /\ UNCHANGED <<registry, workers, made, tokens, task, history>>

ExitOfOwn(w) == /\ w \in handled
                /\ faults < MaxFaults
                /\ faults' = faults + 1
                /\ OnExit(w)
                /\ UNCHANGED <<stray, exiting>>

ExitOfStray(w) == /\ w \in stray
                  /\ faults < MaxFaults
                  /\ faults' = faults + 1
                  /\ stray' = IF w \in handled THEN stray ELSE stray \ {w}
                  /\ OnExit(w)
                  /\ UNCHANGED exiting

ExitOfKilled(w) == /\ w \in exiting
                   /\ exiting' = exiting \ {w}
                   /\ stray' = IF w \in handled THEN stray \cup {w} ELSE stray
                   /\ OnExit(w)
                   /\ UNCHANGED faults

(* The control connection of a worker closes: it is offline and its process runs. *)
Offline(w) == /\ w \in readyWorkers
              /\ faults < MaxFaults
              /\ faults' = faults + 1
              /\ readyWorkers' = readyWorkers \ {w}
              /\ UNCHANGED <<registry, workers, made, handled, stray, exiting, tokens, task, history>>

-------------------------------------------------------------------------------
(* What the commands do with the worker. *)

(* A command whose start has ended looks at the worker again. *)
Use(t) == /\ At(t, "use")
          /\ With(t, Worker(t))
          /\ UNCHANGED <<registry, workers, made, processes, tokens, books>>

(* AccountStore.setDefault *)
SetDefault(t) == /\ At(t, "default")
                 /\ default' = IF Account(t) \in registered THEN Account(t) ELSE default
                 /\ Ends(t)
                 /\ UNCHANGED <<registered, ever, workers, made, processes, tokens, books>>

(* AccessStore.issue, which does not know the account registry and refuses a *)
(* second token of an account.                                               *)
Issue(t) == /\ At(t, "issue")
            /\ tokens' = tokens \cup {Account(t)}
            /\ overlapped' = IF \E u \in Tasks : At(u, "remove") /\ Account(u) = Account(t)
                             THEN overlapped \cup {Account(t)} ELSE overlapped
            /\ Ends(t)
            /\ UNCHANGED <<registry, workers, made, processes, faults, stopped, twice, dropped>>

(* An admin gives an account a token: access.issue names the account,        *)
(* access.update-policy binds a token that had none, and access.reactivate   *)
(* takes back the revocation of one.  Each is one operation of the access    *)
(* registry, which refuses a second token of an account and does not know    *)
(* the account registry.                                                     *)
Grant(a) == /\ a \in Bookable \ tokens
            /\ tokens' = tokens \cup {a}
            /\ overlapped' = IF a \notin registered \/ \E u \in Tasks : At(u, "remove") /\ Account(u) = a
                             THEN overlapped \cup {a} ELSE overlapped
            /\ UNCHANGED <<registry, workers, made, processes, task, faults, stopped, twice, dropped>>

(* A token expires, or access.revoke revokes it. *)
SessionEnds(a) == /\ a \in tokens
                  /\ tokens' = tokens \ {a}
                  /\ UNCHANGED <<registry, workers, made, processes, task, books>>

(* account.remove: the account exists, *)
RemoveRead(t) == /\ At(t, "read") /\ Does(t, "account.remove")
                 /\ IF Account(t) \in registered THEN Goes(t, "check") ELSE Ends(t)
                 /\ UNCHANGED <<registry, workers, made, processes, tokens, books>>

StopAlive(w) ==  \* mutant: the process is not killed
    readyWorkers' = readyWorkers \ {w} /\ UNCHANGED <<handled, exiting>>

(* it is not the default one, and its worker is stopped: the process whose   *)
(* handle it holds is killed;                                                *)
StopWorker(w) == /\ readyWorkers' = readyWorkers \ {w}
                 /\ handled' = handled \ {w}
                 /\ exiting' = IF w \in handled THEN exiting \cup {w} ELSE exiting

RemoveCheck(t) == LET w == workers[Account(t)] IN
                  /\ At(t, "check")
                  /\ IF default = Account(t)
                     THEN Ends(t) /\ UNCHANGED <<readyWorkers, handled, exiting, stopped>>
                     ELSE IF w = None
                     THEN Goes(t, "revoke") /\ UNCHANGED <<readyWorkers, handled, exiting, stopped>>
                     ELSE /\ StopWorker(w)
                          /\ stopped' = stopped \cup {w}
                          /\ Goes(t, "forget")
                  /\ UNCHANGED <<registry, workers, made, stray, tokens, faults, twice,
                                 dropped, overlapped>>

(* then the map forgets the worker it has for the account, *)
RemoveForget(t) == LET w == workers[Account(t)] IN
                   /\ At(t, "forget")
                   /\ workers' = [workers EXCEPT ![Account(t)] = None]
                   /\ dropped' = IF w \in stopped \cup {None} THEN dropped ELSE dropped \cup {w}
                   /\ Goes(t, "revoke")
                   /\ UNCHANGED <<registry, made, processes, tokens, faults, stopped, twice, overlapped>>

RemoveRevokeLater(t) ==  \* mutant: the tokens are left to expire
    /\ At(t, "revoke")
    /\ Goes(t, "remove")
    /\ UNCHANGED <<registry, workers, made, processes, tokens, books>>

(* its tokens are revoked, *)
RemoveRevoke(t) == /\ At(t, "revoke")
                   /\ tokens' = tokens \ {Account(t)}
                   /\ Goes(t, "remove")
                   /\ UNCHANGED <<registry, workers, made, processes, books>>

RemoveAccountAtOnce(t) ==  \* mutant: the default account is not looked at again
    /\ At(t, "remove")
    /\ Ends(t)
    /\ registered' = registered \ {Account(t)}
    /\ overlapped' = overlapped \cup {Account(t)}
    /\ UNCHANGED <<ever, default, workers, made, processes, tokens, faults,
                                   stopped, twice, dropped>>

(* and AccountStore.remove looks at the registry again. *)
RemoveAccount(t) == LET a == Account(t) IN
                    /\ At(t, "remove")
                    /\ Ends(t)
                    /\ IF a \in registered /\ default # a
                       THEN /\ registered' = registered \ {a}
                            /\ overlapped' = IF \E u \in Tasks : /\ Does(u, "session.issue")
                                                                 /\ Account(u) = a
                                             THEN overlapped \cup {a} ELSE overlapped
                       ELSE UNCHANGED <<registered, overlapped>>
                    /\ UNCHANGED <<ever, default, workers, made, processes, tokens, faults,
                                   stopped, twice, dropped>>

Carry(t) == \/ Receive(t) \/ Add(t) \/ WorkerFor(t) \/ UseWorker(t) \/ MakeWorker(t)
            \/ Spawn(t) \/ StartFails(t) \/ Probe(t)
            \/ Use(t) \/ SetDefault(t) \/ Issue(t)
            \/ RemoveRead(t) \/ RemoveCheck(t) \/ RemoveForget(t) \/ RemoveRevoke(t) \/ RemoveAccount(t)

Next == \/ \E t \in Tasks : Carry(t)
        \/ \E w \in Workers : ExitOfOwn(w) \/ ExitOfStray(w) \/ ExitOfKilled(w) \/ Offline(w)
        \/ \E a \in Accounts : SessionEnds(a) \/ Grant(a)

Spec == Init /\ [][Next]_vars

-------------------------------------------------------------------------------
TypeOK == /\ registered \subseteq ever
          /\ ever \subseteq Accounts
          /\ default \in Accounts
          /\ workers \in [Accounts -> 1..made \cup {None}]
          /\ made \in 0..MaxWorkers
          /\ readyWorkers \subseteq 1..made
          /\ handled \subseteq 1..made
          /\ stray \subseteq 1..made
          /\ exiting \subseteq 1..made
          /\ tokens \subseteq Accounts
          /\ task \in [Tasks -> [command : Commands \cup {None}, account : Accounts \cup {None},
                                 step : Steps, worker : 1..made \cup {None}]]
          /\ faults \in 0..MaxFaults
          /\ stopped \subseteq 1..made
          /\ twice \subseteq 1..made
          /\ dropped \subseteq 1..made
          /\ overlapped \subseteq Accounts

(* The default account is registered, however commands that make an account  *)
(* the default and commands that remove it overlap (account-store.ts:246,    *)
(* 292; host-agent.ts:1229-1252).                                            *)
DefaultRegistered == default \in registered

(* An account that has been removed has no token, whoever gave it one and    *)
(* whenever: the removal has revoked them all, unless a session was issued   *)
(* beside it, or an admin gave the account another one after that            *)
(* (host-agent.ts:1030, :1045, :1171, :1244).                                *)
TokensHaveAccounts == tokens \ registered \subseteq overlapped

(* An app-server that runs is the one its worker can kill, and the worker is *)
(* in the map, unless the worker was started while its process ran or had    *)
(* not been seen to exit, or after it was stopped (account-worker.ts:203,    *)
(* 213, 427), or of two removals of the account the later forgot a worker    *)
(* made between (host-agent.ts:1239-1242).                                   *)
ServersOwned == \A w \in 1..made \ (twice \cup dropped) :
                    w \notin stray /\ (w \in handled => InMap(w))
===============================================================================
