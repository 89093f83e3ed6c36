------------------------------ MODULE AccessSync ------------------------------
(***************************************************************************)
(* How the relay learns which tokens it may admit: the access sync of the  *)
(* host agent (server/src/host-agent.ts), the tunnel, and the gate of the  *)
(* relay (server/src/relay.ts) that clients of /codex pass.                *)
(*                                                                         *)
(* The host reads the registry and sends what it read; any number of these *)
(* calls (a timer every second, a control command, a usage report) are     *)
(* under way at once, each between its read and its send for as long as    *)
(* the audits and the file writes in between take.  The tunnel delivers in *)
(* order, may break at any moment, and is opened again by the host.        *)
(*                                                                         *)
(* The registry is what AccessStore promises: here, only which tokens are  *)
(* neither revoked nor disabled, have spent their quota, or have expired.  *)
(* Times are ages, counted up to the first value that is too old.          *)
(***************************************************************************)
EXTENDS Integers, Sequences, FiniteSets, SequencesExt

CONSTANTS
  Devices,           \* device tokens
  Calls,             \* bound: syncAccess calls under way at once
  HeartbeatTimeout,  \* 20 s
  MaxWire,           \* bound: messages in the tunnel when one more is sent
  Metered, Expiring, \* bound: tokens whose quota runs out, or that expire
  WorkerStates       \* bound: the states the account's worker takes

ASSUME ConstantsAssumption ==
  /\ IsFiniteSet(Devices) /\ IsFiniteSet(Calls)
  /\ Metered \subseteq Devices /\ Expiring \subseteq Devices
  /\ HeartbeatTimeout \in Nat /\ MaxWire \in Nat
  /\ WorkerStates \subseteq {"down", "ready", "spent"}

VARIABLES
  active, flagged, expired,  \* the registry: admissible, out of quota, expired
  worker,        \* the account's worker on the host
  link,          \* the host's side of the tunnel
  calls,         \* syncAccess calls of the host
  lastSynced,    \* lastSyncedDeviceIds of the host
  wire,          \* messages on their way to the relay
  tunnel, registered, accessSynced,  \* the relay's side of the tunnel
  account,       \* the relay's copy of worker; "none" until accounts.sync
  devices,       \* the relay's list of tokens
  streams,       \* tokens with an open client connection at the relay
  age            \* time since the last message, sync and connection

registry == <<active, flagged, expired>>
host     == <<link, calls, lastSynced>>
gate     == <<tunnel, registered, accessSynced, account, devices, streams>>
relay    == <<gate, age>>
vars     == <<registry, worker, host, wire, relay>>

SyncTimeout == 2 * HeartbeatTimeout

Idle     == [step |-> "idle"]
Reading  == [step |-> "reading"]
Snapshot == [step : {"holding"}, listed : SUBSET Devices, flagged : SUBSET Devices]

Message ==
  [type : {"register", "heartbeat"}]
    \cup [type : {"access.revoke"}, device : Devices]
    \cup [type : {"access.sync"}, listed : SUBSET Devices, flagged : SUBSET Devices]
    \cup [type : {"accounts.sync"}, account : {"down", "ready", "spent"}]

Init ==
  /\ active = {} /\ flagged = {} /\ expired = {}
  /\ worker = "down"
  /\ link = "down" /\ calls = [c \in Calls |-> Idle] /\ lastSynced = {}
  /\ wire = <<>>
  /\ tunnel = FALSE /\ registered = FALSE /\ accessSynced = FALSE
  /\ account = "none" /\ devices = {} /\ streams = {}
  /\ age = [message |-> HeartbeatTimeout + 1, sync |-> SyncTimeout + 1,
            connect |-> HeartbeatTimeout + 1]

-----------------------------------------------------------------------------
(* The registry and the worker change under the sync.                      *)

Admit(d) ==  \* a token is issued, enabled or reactivated
  /\ d \notin active
  /\ active' = active \cup {d}
  /\ UNCHANGED <<flagged, expired, worker, host, wire, relay>>

Withdraw(d) ==  \* a token is revoked or disabled
  /\ d \in active
  /\ active' = active \ {d}
  /\ UNCHANGED <<flagged, expired, worker, host, wire, relay>>

Meter(d) ==  \* its quota runs out, or its window is reset
  /\ d \in Metered
  /\ flagged' = IF d \in flagged THEN flagged \ {d} ELSE flagged \cup {d}
  /\ UNCHANGED <<active, expired, worker, host, wire, relay>>

Expire(d) ==
  /\ d \in Expiring \ expired
  /\ expired' = expired \cup {d}
  /\ UNCHANGED <<active, flagged, worker, host, wire, relay>>

WorkerChanges ==  \* spent: ready, but the reading exceeds the tokens' limits
  /\ \E w \in WorkerStates \ {worker} : worker' = w
  /\ UNCHANGED <<registry, host, wire, relay>>

-----------------------------------------------------------------------------
(* The host.                                                               *)

Room == Len(wire) < MaxWire

(* send drops the message unless the socket is open; a relay that has      *)
(* closed its side no longer reads.                                        *)
Sent(messages) == IF link = "up" /\ tunnel THEN wire \o messages ELSE wire

Busy == {c \in Calls : calls[c] # Idle}

Started(c) == [calls EXCEPT ![c] = Reading]

SyncStart(c) ==
  /\ link = "up" /\ calls[c] = Idle
  /\ calls' = Started(c)
  /\ UNCHANGED <<registry, worker, link, lastSynced, wire, relay>>

ReadableOrLast ==  \* mutant: what was listed once is read again from memory
  (active \ expired) \cup lastSynced

Readable == active \ expired

SyncRead(c) ==
  /\ calls[c] = Reading
  /\ calls' = [calls EXCEPT ![c] =
                 [step |-> "holding", listed |-> Readable,
                  flagged |-> flagged \cap Readable]]
  /\ UNCHANGED <<registry, worker, link, lastSynced, wire, relay>>

(* The registry cannot be read or written, or the file of SSH keys cannot.  *)
(* The bound on the tunnel delays the end of a call, not only its send.     *)
SyncFail(c) ==
  /\ \/ calls[c] = Reading
     \/ calls[c].step = "holding" /\ Room
  /\ calls' = [calls EXCEPT ![c] = Idle]
  /\ UNCHANGED <<registry, worker, link, lastSynced, wire, relay>>

Revokes(order) ==
  [i \in DOMAIN order |-> [type |-> "access.revoke", device |-> order[i]]]

ListOf(s) == [type |-> "access.sync", listed |-> s.listed, flagged |-> s.flagged]

SyncSendChanged(c) ==  \* mutant: a list is sent only when it has changed
  /\ calls[c].step = "holding" /\ Room
  /\ \E order \in SetToSeqs(lastSynced \ calls[c].listed) :
       wire' = IF calls[c].listed = lastSynced THEN wire
               ELSE Sent(Append(Revokes(order), ListOf(calls[c])))
  /\ lastSynced' = calls[c].listed
  /\ calls' = [calls EXCEPT ![c] = Idle]
  /\ UNCHANGED <<registry, worker, link, relay>>

SyncSend(c) ==
  /\ calls[c].step = "holding" /\ Room
  /\ \E order \in SetToSeqs(lastSynced \ calls[c].listed) :
       wire' = Sent(Append(Revokes(order), ListOf(calls[c])))
  /\ lastSynced' = calls[c].listed
  /\ calls' = [calls EXCEPT ![c] = Idle]
  /\ UNCHANGED <<registry, worker, link, relay>>

AccountsSync ==
  /\ link = "up" /\ Room
  /\ wire' = Sent(<<[type |-> "accounts.sync", account |-> worker]>>)
  /\ UNCHANGED <<registry, worker, host, relay>>

Heartbeat ==
  /\ link = "up" /\ Room
  /\ wire' = Sent(<<[type |-> "heartbeat"]>>)
  /\ UNCHANGED <<registry, worker, host, relay>>

(* The first messages may still reach the relay.                           *)
HostClose ==
  /\ link # "down"
  /\ link' = "down" /\ lastSynced' = {}
  /\ \E n \in 0..Len(wire) : wire' = SubSeq(wire, 1, n)
  /\ UNCHANGED <<registry, worker, calls, relay>>

(* The open event: register, and a first call unless Calls are all busy.   *)
Open ==
  /\ link = "opening"
  /\ link' = "up" /\ lastSynced' = {}
  /\ wire' = IF tunnel THEN <<[type |-> "register"]>> ELSE wire
  /\ IF Busy = Calls THEN UNCHANGED calls
     ELSE \E c \in Calls \ Busy : calls' = Started(c)
  /\ UNCHANGED <<registry, worker, relay>>

-----------------------------------------------------------------------------
(* The relay.                                                              *)

Fresh == age.message <= HeartbeatTimeout /\ age.sync <= SyncTimeout

Ready ==
  tunnel /\ registered /\ accessSynced /\ account \in {"ready", "spent"} /\ Fresh

FailClosed ==
  /\ tunnel' = FALSE /\ registered' = FALSE /\ accessSynced' = FALSE
  /\ account' = "none" /\ devices' = {} /\ streams' = {}
  /\ age' = [message |-> HeartbeatTimeout + 1, sync |-> SyncTimeout + 1,
             connect |-> HeartbeatTimeout + 1]
  /\ wire' = <<>>

AcceptKeeping ==  \* mutant: the sessions of the replaced tunnel stay open
  /\ link = "down"
  /\ link' = "opening"
  /\ tunnel' = TRUE /\ registered' = FALSE /\ accessSynced' = FALSE
  /\ account' = "none" /\ devices' = {}
  /\ age' = [message |-> 0, sync |-> SyncTimeout + 1, connect |-> 0]
  /\ wire' = <<>>
  /\ UNCHANGED <<registry, worker, calls, lastSynced, streams>>

Accept ==  \* handleTunnel: a new socket replaces the one the relay knew
  /\ link = "down"
  /\ link' = "opening"
  /\ tunnel' = TRUE /\ registered' = FALSE /\ accessSynced' = FALSE
  /\ account' = "none" /\ devices' = {}
  /\ streams' = IF tunnel THEN {} ELSE streams
  /\ age' = [message |-> 0, sync |-> SyncTimeout + 1, connect |-> 0]
  /\ wire' = <<>>
  /\ UNCHANGED <<registry, worker, calls, lastSynced>>

TunnelClosed ==  \* the close event of a socket the host has lost
  /\ tunnel /\ link = "down"
  /\ FailClosed
  /\ UNCHANGED <<registry, worker, host>>

Arrives(type) == tunnel /\ wire # <<>> /\ Head(wire).type = type

Heard == [age EXCEPT !.message = 0]

Taken == wire' = Tail(wire) /\ UNCHANGED <<registry, worker, host>>

DeliverRegister ==
  /\ Arrives("register") /\ Taken
  /\ registered' = TRUE
  /\ age' = Heard
  /\ UNCHANGED <<tunnel, accessSynced, account, devices, streams>>

DeliverHeartbeat ==
  /\ Arrives("heartbeat") /\ Taken
  /\ age' = Heard
  /\ UNCHANGED <<gate>>

DeliverRevoke ==
  /\ Arrives("access.revoke") /\ Taken
  /\ age' = Heard
  /\ IF registered
     THEN /\ devices' = devices \ {Head(wire).device}
          /\ streams' = streams \ {Head(wire).device}
     ELSE UNCHANGED <<devices, streams>>
  /\ UNCHANGED <<tunnel, registered, accessSynced, account>>

(* What the relay keeps of a synced list.                                  *)
Admitted(m) ==
  {d \in m.listed \ m.flagged : d \notin expired /\ account = "ready"}

ApplyAccessSync(m) ==
  /\ streams' = streams \ (devices \ Admitted(m))
  /\ devices' = Admitted(m)
  /\ accessSynced' = TRUE
  /\ age' = [Heard EXCEPT !.sync = 0]
  /\ UNCHANGED <<tunnel, registered, account>>

DeliverAccess ==
  /\ Arrives("access.sync")
  /\ IF registered
     THEN Taken /\ ApplyAccessSync(Head(wire))
     ELSE FailClosed /\ UNCHANGED <<registry, worker, host>>

DeliverAccounts ==
  /\ Arrives("accounts.sync")
  /\ IF registered
     THEN /\ Taken
          /\ account' = Head(wire).account
          /\ age' = [Heard EXCEPT !.sync = 0]
          /\ UNCHANGED <<tunnel, registered, accessSynced, devices, streams>>
     ELSE FailClosed /\ UNCHANGED <<registry, worker, host>>

Deliver == \/ DeliverRegister \/ DeliverHeartbeat \/ DeliverRevoke
           \/ DeliverAccess \/ DeliverAccounts

InitialSyncComplete == registered /\ accessSynced /\ account # "none"

Overdue ==
  /\ tunnel
  /\ IF InitialSyncComplete THEN ~Fresh ELSE age.connect > HeartbeatTimeout

PruneState ==
  /\ \/ Overdue /\ FailClosed
     \/ /\ ~Overdue /\ devices \cap expired # {}
        /\ devices' = devices \ expired
        /\ streams' = streams \ (devices \cap expired)
        /\ UNCHANGED <<tunnel, registered, accessSynced, account, age, wire>>
  /\ UNCHANGED <<registry, worker, host>>

ClientConnect(d) ==
  /\ Ready
  /\ d \in devices \ (expired \cup streams) /\ account = "ready"
  /\ streams' = streams \cup {d}
  /\ UNCHANGED <<registry, worker, host, wire, tunnel, registered,
                 accessSynced, account, devices, age>>

ClientLeave(d) ==  \* its last connection
  /\ d \in streams
  /\ streams' = streams \ {d}
  /\ UNCHANGED <<registry, worker, host, wire, tunnel, registered,
                 accessSynced, account, devices, age>>

Older(a, limit) == IF a > limit THEN a ELSE a + 1

Tick ==
  /\ age' = [message |-> Older(age.message, HeartbeatTimeout),
             sync    |-> Older(age.sync, SyncTimeout),
             connect |-> Older(age.connect, HeartbeatTimeout)]
  /\ UNCHANGED <<registry, worker, host, wire, gate>>

Sync(c) == SyncStart(c) \/ SyncRead(c) \/ SyncFail(c) \/ SyncSend(c)

Next ==
  \/ \E d \in Devices : \/ Admit(d) \/ Withdraw(d) \/ Meter(d) \/ Expire(d)
                        \/ ClientConnect(d) \/ ClientLeave(d)
  \/ WorkerChanges
  \/ \E c \in Calls : Sync(c)
  \/ AccountsSync \/ Heartbeat \/ HostClose \/ Open
  \/ Accept \/ TunnelClosed \/ Deliver \/ PruneState \/ Tick

Spec == Init /\ [][Next]_vars

(* Timers run again, handlers end, sockets report their close, and reads   *)
(* and writes of the registry do not fail for ever.  Sends wait only for    *)
(* the bound on the tunnel.                                                 *)
Fairness ==
  /\ WF_vars(\E c \in Calls : SyncStart(c))
  /\ SF_vars(\E c \in Calls : SyncRead(c)) /\ SF_vars(\E c \in Calls : SyncSend(c))
  /\ SF_vars(AccountsSync)
  /\ WF_vars(TunnelClosed) /\ WF_vars(Deliver) /\ WF_vars(PruneState)

LiveSpec == Spec /\ Fairness

-----------------------------------------------------------------------------
(* The variables keep their types: in particular the relay's list is one of *)
(* tokens, and a message on the tunnel is one of the protocol's.            *)
TypeOK ==
  /\ active \subseteq Devices /\ flagged \subseteq Devices
  /\ expired \subseteq Devices
  /\ worker \in {"down", "ready", "spent"}
  /\ link \in {"down", "opening", "up"}
  /\ calls \in [Calls -> {Idle, Reading} \cup Snapshot]
  /\ lastSynced \subseteq Devices
  /\ wire \in Seq(Message)
  /\ tunnel \in BOOLEAN /\ registered \in BOOLEAN /\ accessSynced \in BOOLEAN
  /\ account \in {"none", "down", "ready", "spent"}
  /\ devices \subseteq Devices /\ streams \subseteq Devices
  /\ age \in [message : 0..HeartbeatTimeout + 1, sync : 0..SyncTimeout + 1,
              connect : 0..HeartbeatTimeout + 1]

(* Fail closed: the relay serves only clients whose token it lists, and     *)
(* lists tokens only on a registered tunnel that has synced its accesses;   *)
(* nothing outlives the loss, the replacement or the silence of the tunnel. *)
FailsClosed ==
  /\ streams \subseteq devices
  /\ devices # {} => tunnel /\ registered /\ accessSynced

(* The relay never meets a sync on a tunnel that has not registered, which  *)
(* would make it drop the tunnel: the host registers before anything else,  *)
(* whatever calls from before a reconnection are still under way.           *)
RegisterFirst ==
  tunnel /\ ~registered /\ wire # <<>> => Head(wire).type = "register"

(* Tokens the host no longer reads, and the lists under way that name one:   *)
(* held by calls, and in the tunnel.                                        *)
Unreadable      == Devices \ (active \ expired)
Holding(d)      == {c \in Calls : calls[c].step = "holding" /\ d \in calls[c].listed}
Naming(d)       == {i \in DOMAIN wire : wire[i].type = "access.sync" /\ d \in wire[i].listed}
Outstanding(d)  == Cardinality(Holding(d)) + Cardinality(Naming(d))

(* Of overlapping syncAccess calls the one that read first may send last,   *)
(* and the relay lists a token again that was withdrawn or has expired      *)
(* (host-agent.ts:545-581).  But what names the token only gets less, and   *)
(* the relay takes the token up again at most once for each list read       *)
(* before, whatever fails and however often the tunnel breaks.              *)
StaleListsRunOut ==
  [][\A d \in Unreadable :
       /\ Outstanding(d)' <= Outstanding(d)
       /\ d \in devices' \ devices => Outstanding(d)' < Outstanding(d)]_vars

(* A token withdrawn, out of quota, expired or without a ready account for  *)
(* good leaves the relay for good, and so do its clients: whatever calls    *)
(* overlap or fail and however often the tunnel breaks, for ever or not.    *)
BarredLeaves ==
  \A d \in Devices :
    (<>[](d \in Unreadable \cup flagged) \/ <>[](worker # "ready"))
      => <>[](d \notin devices \cup streams)

(* A token with everything in order becomes admissible and stays so once    *)
(* the tunnel holds, though a sync applied before the accounts are known    *)
(* drops every token.                                                       *)
EntitledReturns ==
  \A d \in Devices :
    <>[](/\ d \in active \ (flagged \cup expired) /\ worker = "ready"
         /\ link = "up" /\ tunnel) => <>[](d \in devices)
=============================================================================
