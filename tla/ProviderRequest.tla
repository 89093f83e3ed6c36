--------------------------- MODULE ProviderRequest ---------------------------
(* The responses proxy: a client's POST passes the relay (relay.ts), the   *)
(* tunnel, the host (host-agent.ts) and the broker                         *)
(* (oauth-responses-broker.ts) to the provider, and the answer streams     *)
(* back.  What the code does between two awaits is one step, and so are    *)
(* awaits that nothing else can tell apart.                                *)
EXTENDS Naturals, FiniteSets, SequencesExt

CONSTANTS
  Requests,   \* requests of clients, each sent once
  Devices,    \* access tokens
  DeviceOf,   \* the token of each request
  MaxParts,   \* bound: parts of an answer
  MaxLosses   \* bound: lost tunnels and restarts of the host

ASSUME ProviderAssumption ==
  /\ DeviceOf \in [Requests -> Devices]
  /\ MaxParts \in Nat /\ MaxLosses \in Nat

VARIABLES
  (* the relay *)
  response,   \* the answer written to each client
  pending,    \* pendingProviderRequests, with headersSent
  left,       \* clients that have gone
  listed,     \* tokens the relay admits
  tunnel,     \* the relay's end: "none", "open" or "registered"
  (* the tunnel *)
  toHost, toRelay,
  (* the host *)
  link,       \* the host's end of the tunnel is open
  task,       \* where handleProviderRequest of each request stands
  controllers,\* activeRequests of the broker
  aborted,    \* requests whose AbortController has fired
  registry,   \* the token's entry, as list() returns it
  metered,    \* how often recordUsage has charged each request
  (* the provider, and bounds and histories *)
  upstream,   \* parts sent by the provider, and whether it has finished
  stale,      \* requests forwarded for a token no longer valid on the host
  fetched,    \* requests that have reached the provider
  losses

relay == <<response, pending, left, listed, tunnel, stale>>
wires == <<toHost, toRelay>>
work  == <<task, controllers, aborted>>
host  == <<link, work, registry, metered>>
vars  == <<relay, wires, host, upstream, fetched, losses>>

Message(type, r) == [type |-> type, id |-> r]
Idle == [step |-> "none", retried |-> FALSE]

Init ==
  /\ response = [r \in Requests |->
                   [phase |-> "none", parts |-> 0, how |-> "unended"]]
  /\ pending = [r \in Requests |-> "absent"]
  /\ left = {} /\ stale = {}
  /\ listed = {} /\ tunnel = "none"
  /\ toHost = <<>> /\ toRelay = <<>>
  /\ link = FALSE
  /\ task = [r \in Requests |-> Idle]
  /\ controllers = {} /\ aborted = {}
  /\ registry = [d \in Devices |-> "valid"]
  /\ metered = [r \in Requests |-> 0]
  /\ upstream = [r \in Requests |-> [parts |-> 0, complete |-> FALSE]]
  /\ fetched = {}
  /\ losses = 0

-----------------------------------------------------------------------------
(* The relay: handleProviderResponsesApi.                                  *)

(* sendToTunnel: what is sent without an open tunnel is dropped, and what  *)
(* is sent on a tunnel the host has lost never arrives.                    *)
SendToTunnel(m) ==
  toHost' = IF tunnel # "none" /\ link THEN Append(toHost, m) ELSE toHost

Ended(x, how) == [x EXCEPT !.phase = "ended", !.how = how]

(* What is written to an ended response is lost.                           *)
Write(r, x) ==
  response' = [response EXCEPT ![r] = IF @.phase = "ended" THEN @ ELSE x]

(* jsonResponse without a head, otherwise end().                           *)
Finish(r, how) == Write(r, Ended(response[r], how))

Forget(r) == pending' = [pending EXCEPT ![r] = "absent"]

(* The checks made before the body is awaited.                             *)
Arrive(r) ==
  /\ response[r].phase = "none"
  /\ response' = [response EXCEPT
       ![r] = IF DeviceOf[r] \in listed /\ tunnel = "registered"
              THEN [@ EXCEPT !.phase = "reading"] ELSE Ended(@, "cut")]
  /\ UNCHANGED <<pending, left, listed, tunnel, stale>>
  /\ UNCHANGED <<wires, host, upstream, fetched, losses>>

(* The body cannot be read, or names a model the token may not use.        *)
BodyRejected(r) ==
  /\ response[r].phase = "reading"
  /\ response' = [response EXCEPT ![r] = Ended(@, "cut")]
  /\ UNCHANGED <<pending, left, listed, tunnel, stale>>
  /\ UNCHANGED <<wires, host, upstream, fetched, losses>>

(* Neither the token nor the tunnel is looked at again after the await.    *)
Forward(r) ==
  /\ response[r].phase = "reading" /\ r \notin left
  /\ response' = [response EXCEPT ![r].phase = "open"]
  /\ pending' = [pending EXCEPT ![r] = "waiting"]
  /\ SendToTunnel(Message("request", r))
  /\ stale' = IF registry[DeviceOf[r]] = "valid" THEN stale ELSE stale \cup {r}
  /\ UNCHANGED <<left, listed, tunnel, toRelay>>
  /\ UNCHANGED <<host, upstream, fetched, losses>>

TimeoutWithoutHead(r) ==  \* mutant: the head stops the timer
  /\ pending[r] = "waiting"
  /\ Finish(r, "cut") /\ Forget(r)
  /\ SendToTunnel(Message("abort", r))
  /\ UNCHANGED <<left, listed, tunnel, stale, toRelay>>
  /\ UNCHANGED <<host, upstream, fetched, losses>>

(* The timer of ten minutes.                                               *)
Timeout(r) ==
  /\ pending[r] # "absent"
  /\ Finish(r, "cut") /\ Forget(r)
  /\ SendToTunnel(Message("abort", r))
  /\ UNCHANGED <<left, listed, tunnel, stale, toRelay>>
  /\ UNCHANGED <<host, upstream, fetched, losses>>

(* The close event of a request whose client has gone.  The listener is    *)
(* attached after the body was consumed, so the event may never be heard.  *)
ClientClosed(r) ==
  /\ r \in left /\ pending[r] # "absent"
  /\ response[r].phase # "ended"
  /\ Forget(r)
  /\ SendToTunnel(Message("abort", r))
  /\ UNCHANGED <<response, left, listed, tunnel, stale, toRelay>>
  /\ UNCHANGED <<host, upstream, fetched, losses>>

ClientLeaves(r) ==
  /\ response[r].phase \notin {"none", "ended"} /\ r \notin left
  /\ left' = left \cup {r}
  /\ UNCHANGED <<response, pending, listed, tunnel, stale>>
  /\ UNCHANGED <<wires, host, upstream, fetched, losses>>

-----------------------------------------------------------------------------
(* The relay: messages of the host.  Those of requests no longer pending   *)
(* are ignored.                                                            *)

Arrives(type, r) ==
  /\ tunnel # "none" /\ toRelay # <<>>
  /\ Head(toRelay) = Message(type, r)
  /\ toRelay' = Tail(toRelay)
  /\ UNCHANGED <<left, listed, tunnel, stale, toHost>>
  /\ UNCHANGED <<host, upstream, fetched, losses>>

Ignored(r) ==
  /\ pending[r] = "absent"
  /\ \E type \in {"start", "part", "end", "error"} : Arrives(type, r)
  /\ UNCHANGED <<response, pending>>

DeliverStart(r) ==
  /\ pending[r] # "absent" /\ Arrives("start", r)
  /\ pending' = [pending EXCEPT ![r] = "headed"]
  /\ Write(r, [response[r] EXCEPT !.phase = "streaming"])

DeliverPart(r) ==
  /\ pending[r] # "absent" /\ Arrives("part", r)
  /\ Write(r, [response[r] EXCEPT !.parts = @ + 1])
  /\ UNCHANGED pending

DeliverEnd(r) ==
  /\ pending[r] # "absent" /\ Arrives("end", r)
  /\ Write(r, Ended(response[r], "whole")) /\ Forget(r)

DeliverError(r) ==
  /\ pending[r] # "absent" /\ Arrives("error", r)
  /\ Finish(r, "cut") /\ Forget(r)

-----------------------------------------------------------------------------
(* The tunnel.                                                             *)

FailClosedForgetting ==  \* mutant: pending requests are dropped unanswered
  /\ listed' = {}
  /\ pending' = [r \in Requests |-> "absent"]
  /\ UNCHANGED <<response, left, stale>>

FailClosed ==
  /\ listed' = {}
  /\ pending' = [r \in Requests |-> "absent"]
  /\ response' = [r \in Requests |->
                    IF pending[r] = "absent" THEN response[r]
                    ELSE Ended(response[r], "cut")]
  /\ UNCHANGED <<left, stale>>

(* The connection breaks or the host restarts, ending its tasks.  What was *)
(* sent to the host is lost, of what it sent some arrives.                 *)
LoseTunnel ==
  /\ link /\ losses < MaxLosses
  /\ losses' = losses + 1
  /\ link' = FALSE
  /\ toHost' = <<>>
  /\ toRelay' \in Prefixes(toRelay)
  /\ \/ UNCHANGED work
     \/ /\ task' = [r \in Requests |->
                      IF task[r].step = "none" THEN task[r]
                      ELSE [task[r] EXCEPT !.step = "over"]]
        /\ controllers' = {} /\ aborted' = {}
  /\ UNCHANGED <<relay, registry, metered, upstream, fetched>>

TunnelClosed ==
  /\ tunnel # "none" /\ ~link /\ toRelay = <<>>
  /\ tunnel' = "none"
  /\ FailClosed
  /\ UNCHANGED <<wires, host, upstream, fetched, losses>>

(* pruneState finds the heartbeat overdue, or the relay stops.  The host   *)
(* reads on until it sees the close.                                       *)
DropTunnel ==
  /\ tunnel # "none" /\ losses < MaxLosses
  /\ losses' = losses + 1
  /\ tunnel' = "none"
  /\ toRelay' = <<>>
  /\ FailClosed
  /\ UNCHANGED <<toHost, host, upstream, fetched>>

HostClosed ==
  /\ link /\ tunnel = "none"
  /\ link' = FALSE /\ toHost' = <<>>
  /\ UNCHANGED <<relay, toRelay, work, registry, metered, upstream, fetched,
                 losses>>

(* handleTunnel: the relay has a new tunnel, nothing of which is registered. *)
Connected ==
  /\ ~link
  /\ link' = TRUE /\ tunnel' = "open"
  /\ toHost' = <<>> /\ toRelay' = <<>>
  /\ UNCHANGED <<work, registry, metered, upstream, fetched, losses>>

(* It fails closed only where it still knows another: a request forwarded    *)
(* while there was none stays pending, though nobody has been asked.         *)
Accept ==
  /\ tunnel = "none" /\ Connected
  /\ listed' = {}
  /\ UNCHANGED <<response, pending, left, stale>>

TakeOverKeeping ==  \* mutant: a new tunnel takes over without failing closed
  /\ tunnel # "none" /\ Connected
  /\ listed' = {}
  /\ UNCHANGED <<response, pending, left, stale>>

(* The messages of the tunnel it replaces are not read any more.             *)
TakeOver ==
  /\ tunnel # "none" /\ Connected
  /\ FailClosed

(* Registration and the syncs of accounts and access.                      *)
Sync ==
  /\ tunnel # "none" /\ link
  /\ tunnel' = "registered"
  /\ listed' = {d \in Devices : registry[d] = "valid"}
  /\ UNCHANGED <<response, pending, left, stale>>
  /\ UNCHANGED <<wires, host, upstream, fetched, losses>>

Revoke(d) ==
  /\ registry[d] = "valid"
  /\ registry' = [registry EXCEPT ![d] = "barred"]
  /\ UNCHANGED <<relay, wires, link, work, metered, upstream, fetched, losses>>

-----------------------------------------------------------------------------
(* The host: handleProviderRequest and the broker.                         *)

Sent(type, r) ==
  toRelay' = IF link /\ tunnel # "none"
             THEN Append(toRelay, Message(type, r)) ELSE toRelay

Go(r, step) == task' = [task EXCEPT ![r].step = step]

(* A step of the task of r that neither sends nor leaves the broker.       *)
At(r, step) ==
  /\ task[r].step = step
  /\ UNCHANGED <<relay, link, losses, toHost>>

Released(r) == controllers' = controllers \ {r}

(* The account has no ready worker, or the registry is read.               *)
HandleRequest(r) ==
  /\ link /\ toHost # <<>> /\ Head(toHost) = Message("request", r)
  /\ toHost' = Tail(toHost)
  /\ \/ Go(r, "over") /\ Sent("error", r)
     \/ Go(r, "validating") /\ UNCHANGED toRelay
  /\ UNCHANGED <<relay, link, controllers, aborted, registry, metered>>
  /\ UNCHANGED <<upstream, fetched, losses>>

(* abort() of a request that is not executing is lost.                     *)
HandleAbort(r) ==
  /\ link /\ toHost # <<>> /\ Head(toHost) = Message("abort", r)
  /\ toHost' = Tail(toHost)
  /\ aborted' = IF r \in controllers THEN aborted \cup {r} ELSE aborted
  /\ Released(r)
  /\ UNCHANGED <<relay, link, task, registry, metered, toRelay>>
  /\ UNCHANGED <<upstream, fetched, losses>>

ValidateNothing(r) ==  \* mutant: the relay's check is trusted
  /\ At(r, "validating")
  /\ Go(r, "auditing") /\ UNCHANGED toRelay
  /\ UNCHANGED <<controllers, aborted, registry, metered, upstream, fetched>>

Validate(r) ==
  /\ At(r, "validating")
  /\ IF registry[DeviceOf[r]] = "valid"
     THEN /\ \E step \in {"auditing", "denying"} : Go(r, step)
          /\ UNCHANGED toRelay
     ELSE Go(r, "over") /\ Sent("error", r)
  /\ UNCHANGED <<controllers, aborted, registry, metered, upstream, fetched>>

(* The audit of a denied model or of a failure is written: the error is sent. *)
ReportError(r) ==
  /\ At(r, "denying") \/ At(r, "failing")
  /\ Go(r, "over") /\ Sent("error", r)
  /\ UNCHANGED <<controllers, aborted, registry, metered, upstream, fetched>>

Execute(r) ==
  /\ At(r, "auditing")
  /\ Go(r, "auth")
  /\ controllers' = controllers \cup {r}
  /\ UNCHANGED <<aborted, registry, metered, upstream, fetched, toRelay>>

(* readAccountAuth: without credentials the request fails at once.         *)
ReadAuth(r) ==
  /\ At(r, "auth")
  /\ \/ /\ Go(r, "fetching") /\ fetched' = fetched \cup {r}
        /\ UNCHANGED <<controllers, toRelay>>
     \/ /\ Go(r, "over") /\ Released(r) /\ Sent("error", r)
        /\ UNCHANGED fetched
  /\ UNCHANGED <<aborted, registry, metered, upstream>>

(* fetch rejects, because of the network, its own timeout or the abort; or *)
(* reading the answer does.  An aborted request ends in silence.           *)
Breaks(r) ==
  /\ At(r, "fetching") \/ At(r, "streaming")
  /\ Go(r, IF r \in aborted THEN "over" ELSE "failing")
  /\ Released(r)
  /\ UNCHANGED <<aborted, registry, metered, upstream, fetched, toRelay>>

FetchAnswersAlways(r) ==  \* mutant: the retry does not know it is one
  /\ At(r, "fetching") /\ r \notin aborted
  /\ \/ Go(r, "streaming") /\ Sent("start", r)
     \/ Go(r, "refreshing") /\ UNCHANGED toRelay
     \/ Go(r, "rejected") /\ UNCHANGED toRelay
  /\ UNCHANGED <<controllers, aborted, registry, metered, upstream, fetched>>

FetchAnswers(r) ==
  /\ At(r, "fetching") /\ r \notin aborted
  /\ \/ Go(r, "streaming") /\ Sent("start", r)
     \/ ~task[r].retried /\ Go(r, "refreshing") /\ UNCHANGED toRelay
     \/ Go(r, "rejected") /\ UNCHANGED toRelay
  /\ UNCHANGED <<controllers, aborted, registry, metered, upstream, fetched>>

(* refreshOAuthToken returns: one retry unless aborted meanwhile.          *)
Refreshed(r) ==
  /\ At(r, "refreshing")
  /\ \/ /\ r \notin aborted
        /\ task' = [task EXCEPT ![r] = [step |-> "auth", retried |-> TRUE]]
     \/ Go(r, "rejected")
  /\ UNCHANGED <<controllers, aborted, registry, metered, upstream, fetched,
                 toRelay>>

(* The text of a rejection is read and reported, aborted or not.           *)
RejectionRead(r) ==
  /\ At(r, "rejected")
  /\ Go(r, "failing") /\ Released(r)
  /\ UNCHANGED <<aborted, registry, metered, upstream, fetched, toRelay>>

ReadPart(r) ==
  /\ At(r, "streaming") /\ r \notin aborted
  /\ upstream[r].parts < MaxParts
  /\ upstream' = [upstream EXCEPT ![r].parts = @ + 1]
  /\ Sent("part", r)
  /\ UNCHANGED <<work, registry, metered, fetched>>

StreamEndsAborted(r) ==  \* mutant: the end does not look at the abort
  /\ At(r, "streaming")
  /\ upstream' = [upstream EXCEPT ![r].complete = TRUE]
  /\ \E step \in {"metering", "ending"} : Go(r, step)
  /\ Released(r)
  /\ UNCHANGED <<aborted, registry, metered, fetched, toRelay>>

(* onEnd, with usage or without.                                           *)
StreamEnds(r) ==
  /\ At(r, "streaming") /\ r \notin aborted
  /\ upstream' = [upstream EXCEPT ![r].complete = TRUE]
  /\ \E step \in {"metering", "ending"} : Go(r, step)
  /\ Released(r)
  /\ UNCHANGED <<aborted, registry, metered, fetched, toRelay>>

(* recordUsage charges the token and may use up its quota; its failure is  *)
(* only logged.                                                            *)
Meter(r) ==
  /\ At(r, "metering")
  /\ Go(r, "ending")
  /\ \/ /\ metered' = [metered EXCEPT ![r] = @ + 1]
        /\ registry' \in {registry, [registry EXCEPT ![DeviceOf[r]] = "barred"]}
     \/ UNCHANGED <<metered, registry>>
  /\ UNCHANGED <<controllers, aborted, upstream, fetched, toRelay>>

ReportEnd(r) ==
  /\ At(r, "ending")
  /\ Go(r, "over") /\ Sent("end", r)
  /\ UNCHANGED <<controllers, aborted, registry, metered, upstream, fetched>>

HostStep(r) ==
  \/ Validate(r) \/ ReportError(r) \/ Execute(r) \/ ReadAuth(r)
  \/ Breaks(r) \/ FetchAnswers(r) \/ Refreshed(r) \/ RejectionRead(r)
  \/ ReadPart(r) \/ StreamEnds(r) \/ Meter(r) \/ ReportEnd(r)

Next ==
  \/ \E r \in Requests :
       \/ Arrive(r) \/ BodyRejected(r) \/ Forward(r)
       \/ Timeout(r) \/ ClientClosed(r) \/ ClientLeaves(r)
       \/ Ignored(r) \/ DeliverStart(r) \/ DeliverPart(r)
       \/ DeliverEnd(r) \/ DeliverError(r)
       \/ HandleRequest(r) \/ HandleAbort(r) \/ HostStep(r)
  \/ LoseTunnel \/ TunnelClosed \/ DropTunnel \/ HostClosed \/ Accept \/ TakeOver
  \/ Sync
  \/ \E d \in Devices : Revoke(d)

Spec == Init /\ [][Next]_vars

(* The timer of the relay fires, and every await of a task returns: fetch  *)
(* has a timeout of its own.                                               *)
Fairness ==
  \A r \in Requests : WF_vars(Timeout(r)) /\ WF_vars(HostStep(r))

LiveSpec == Spec /\ Fairness

-----------------------------------------------------------------------------
(* Properties.                                                             *)

Steps == {"none", "validating", "denying", "auditing", "auth", "fetching",
          "refreshing", "rejected", "streaming", "metering", "ending",
          "failing", "over"}
Executing == {"auth", "fetching", "refreshing", "rejected", "streaming"}

TypeOK ==
  /\ response \in [Requests ->
       [phase : {"none", "reading", "open", "streaming", "ended"},
        parts : 0..MaxParts, how : {"unended", "whole", "cut"}]]
  /\ pending \in [Requests -> {"absent", "waiting", "headed"}]
  /\ left \subseteq Requests /\ listed \subseteq Devices
  /\ tunnel \in {"none", "open", "registered"} /\ link \in BOOLEAN
  /\ toHost \in Seq([type : {"request", "abort"}, id : Requests])
  /\ toRelay \in Seq([type : {"start", "part", "end", "error"}, id : Requests])
  /\ task \in [Requests -> [step : Steps, retried : BOOLEAN]]
  /\ controllers \subseteq Requests /\ aborted \subseteq Requests
  /\ registry \in [Devices -> {"valid", "barred"}]
  /\ metered \in [Requests -> Nat]
  /\ upstream \in [Requests -> [parts : 0..MaxParts, complete : BOOLEAN]]
  /\ stale \subseteq Requests
  /\ fetched \subseteq Requests
  /\ losses \in 0..MaxLosses

(* A forwarded request is in pendingProviderRequests exactly while its      *)
(* answer is open: no client waits for an answer nobody will end, and no    *)
(* late message finds an ended one.                                        *)
PendingWhileOpen ==
  \A r \in Requests :
    /\ pending[r] = "waiting" => response[r].phase = "open"
    /\ pending[r] = "headed"  => response[r].phase = "streaming"
    /\ response[r].phase \in {"open", "streaming"} /\ pending[r] = "absent"
       => r \in left

(* An abort the broker has taken keeps the request from being charged, and *)
(* no request is charged twice.                                            *)
ChargedOnce ==
  \A r \in Requests : /\ metered[r] <= 1
                      /\ metered[r] = 1 => r \notin aborted

(* A token withdrawn while the relay was reading the body does not reach   *)
(* the provider: the host looks at the registry again.                     *)
StaleNeverFetched == stale \cap fetched = {}

(* IMPLEMENTATION_HANDOFF_LOCAL_RUNTIME_OAUTH_PROXY.md:418: revocation     *)
(* aborts the active request.  No part of an answer is written for a token *)
(* the relay has dropped.                                                  *)
RevokedGetsNothing ==
  [][\A r \in Requests :
       response'[r].parts > response[r].parts => DeviceOf[r] \in listed]_vars

(* Every request the relay has taken is ended, or its client has gone.     *)
RequestsEnd ==
  \A r \in Requests :
    response[r].phase \in {"open", "streaming"}
      ~> (response[r].phase = "ended" \/ r \in left)

(* Every task of the host ends, also when the provider answers 401 each    *)
(* time and each refresh of the account succeeds.                          *)
TasksEnd ==
  \A r \in Requests :
    task[r].step # "none" ~> task[r].step = "over"

Promise == INSTANCE ProviderPromise

(* The relay, the tunnel and the host together keep what the proxy         *)
(* promises: each answer is written in order and ends whole or is cut.     *)
KeepsPromise == Promise!Spec
=============================================================================
