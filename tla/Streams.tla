-------------------------------- MODULE Streams --------------------------------
(* A client's WebSocket to the relay (relay.ts) and the one the host opens    *)
(* for it to the app-server of its account (host-agent.ts): the two ends of a *)
(* stream, whose frames and close pass the tunnel in both directions.         *)
(* The clients and the app-server are external; all streams are of one token. *)
EXTENDS Naturals, FiniteSets, SequencesExt

CONSTANTS
  Streams,     \* connections of clients, each made once
  MaxStreams,  \* maxConcurrentStreamsPerDevice
  MaxPending,  \* MAX_PENDING_FRAMES
  MaxFrames,   \* bound: frames a client, or an app-server, sends on a stream
  MaxLosses    \* bound: tunnels lost or dropped

ASSUME StreamsAssumption ==
  /\ IsFiniteSet(Streams)
  /\ {MaxStreams, MaxPending, MaxFrames, MaxLosses} \subseteq Nat

VARIABLES
  (* the relay *)
  client,     \* the client's connection; "open" and "leaving" ones are in streams
  listIds,    \* streams with the id of a model/list in pendingModelListRequestIds
  admitted,   \* the relay is ready and lists the token
  tunnel,     \* the relay has a tunnel
  (* the tunnel *)
  toHost, toRelay,
  (* the host *)
  link,       \* its end of the tunnel is open
  localStreams,
  socket,     \* the connection to the app-server
  pending,    \* frames for a socket that is not open
  (* what clients and app-servers have sent and received, by number *)
  up, down, got, read,
  asked,      \* requests for the models its app-server has not answered
  (* bounds and histories *)
  losses,
  overflowed, \* streams closed for their pending frames
  used,       \* frames the client had sent when the id was last used up
  leaked      \* unfiltered lists of models shown: their streams and requests

relay   == <<client, listIds, admitted, tunnel>>
wires   == <<toHost, toRelay>>
host    == <<link, localStreams, socket, pending>>
peers   == <<up, down, got, read, asked>>
history == <<overflowed, used, leaked>>
vars    == <<relay, wires, host, peers, losses, history>>

Open(s)  == [type |-> "open", id |-> s]
Close(s) == [type |-> "close", id |-> s]
Data(s, n, kind, of) ==
  [type |-> "data", id |-> s, n |-> n, kind |-> kind, of |-> of]

First(messages) == {messages[i] : i \in DOMAIN messages \cap {1}}

Init ==
  /\ client = [s \in Streams |-> "new"] /\ listIds = {}
  /\ admitted = FALSE /\ tunnel = FALSE
  /\ toHost = <<>> /\ toRelay = <<>>
  /\ link = FALSE /\ localStreams = {}
  /\ socket = [s \in Streams |-> "none"]
  /\ pending = [s \in Streams |-> <<>>]
  /\ up = [s \in Streams |-> 0] /\ down = [s \in Streams |-> 0]
  /\ got = [s \in Streams |-> <<>>] /\ read = [s \in Streams |-> <<>>]
  /\ asked = [s \in Streams |-> {}]
  /\ losses = 0 /\ overflowed = {} /\ used = [s \in Streams |-> 0] /\ leaked = {}

-----------------------------------------------------------------------------
(* The relay: clients.                                                     *)

Live == {s \in Streams : client[s] \in {"open", "leaving"}}

(* What is sent on a tunnel the host has lost never arrives.               *)
SendToTunnel(messages) ==
  toHost' = IF tunnel /\ link THEN toHost \o messages ELSE toHost

(* closeStream of each of S.                                               *)
Ends(S) ==
  /\ client' = [s \in Streams |-> IF s \in S THEN "ended" ELSE client[s]]
  /\ listIds' = listIds \ S

(* handleUpgrade: a token with too many streams is refused.                *)
Accepts == tunnel /\ admitted /\ Cardinality(Live) < MaxStreams

(* handleClient.                                                           *)
Connect(s) ==
  /\ client[s] = "new" /\ Accepts
  /\ client' = [client EXCEPT ![s] = "open"]
  /\ SendToTunnel(<<Open(s)>>)
  /\ UNCHANGED <<listIds, admitted, tunnel, toRelay, host, peers, losses, history>>

PolicyUnrecorded(s, kind) ==  \* mutant: the id of model/list is not kept
  UNCHANGED listIds

(* applyModelPolicyToClientFrame: the id of a model/list is kept, for its  *)
(* answer to be filtered.  A client may use its id again at any time.      *)
PolicyToClientFrame(s, kind) ==
  listIds' = IF kind = "list" THEN listIds \cup {s} ELSE listIds

(* A frame of the client that the model policy lets pass, *)
ClientFrame(s, kind) ==
  /\ client[s] = "open" /\ up[s] < MaxFrames
  /\ up' = [up EXCEPT ![s] = @ + 1]
  /\ PolicyToClientFrame(s, kind)
  /\ SendToTunnel(<<Data(s, up'[s], kind, 0)>>)
  /\ UNCHANGED <<client, admitted, tunnel, toRelay, host>>
  /\ UNCHANGED <<down, got, read, asked, losses, history>>

(* or one that the relay answers itself: it goes no further, but the id of *)
(* a model/list is kept all the same.                                      *)
ClientFrameDenied(s, kind) ==
  /\ client[s] = "open"
  /\ PolicyToClientFrame(s, kind)
  /\ UNCHANGED <<client, admitted, tunnel, wires, host, peers, losses, history>>

(* The client closes its connection or stops answering pings, *)
ClientLeaves(s) ==
  /\ client[s] = "open"
  /\ client' = [client EXCEPT ![s] = "leaving"]
  /\ UNCHANGED <<listIds, admitted, tunnel, wires, host, peers, losses, history>>

ClientClosedQuietly(s) ==  \* mutant: the host is not told
  /\ client[s] = "leaving"
  /\ Ends({s})
  /\ UNCHANGED <<admitted, tunnel, wires, host, peers, losses, history>>

(* and the relay sees the close event.                                     *)
ClientClosed(s) ==
  /\ client[s] = "leaving"
  /\ Ends({s})
  /\ SendToTunnel(<<Close(s)>>)
  /\ UNCHANGED <<admitted, tunnel, toRelay, host, peers, losses, history>>

(* The syncs of the host list the token, *)
Admit ==
  /\ tunnel /\ link /\ ~admitted
  /\ admitted' = TRUE
  /\ UNCHANGED <<client, listIds, tunnel, wires, host, peers, losses, history>>

(* or a sync, a revocation or its expiry closes all its streams.           *)
Bar ==
  /\ admitted
  /\ admitted' = FALSE
  /\ Ends(Live)
  /\ SendToTunnel(SetToSeq({Close(s) : s \in Live}))
  /\ UNCHANGED <<tunnel, toRelay, host, peers, losses, history>>

-----------------------------------------------------------------------------
(* The relay: messages of the host.                                        *)

FromHost(m) ==
  /\ tunnel /\ m \in First(toRelay)
  /\ toRelay' = Tail(toRelay)
  /\ UNCHANGED <<admitted, tunnel, toHost, host, up, down, got, asked, losses, overflowed>>

(* applyModelPolicyToServerFrame: every frame with the id of a pending     *)
(* model/list uses the id up, also a request of the app-server that        *)
(* happens to have it and passes as it is.                                 *)
PolicyToServerFrame(s, m) ==
  IF m.kind = "plain" THEN UNCHANGED <<listIds, used, leaked>>
  ELSE IF s \in listIds
  THEN /\ listIds' = listIds \ {s} /\ used' = [used EXCEPT ![s] = up[s]]
       /\ UNCHANGED leaked
  ELSE /\ leaked' = leaked \cup {[id |-> s, of |-> m.of] : k \in {m.kind} \cap {"list"}}
       /\ UNCHANGED <<listIds, used>>

(* A frame for a client that is gone is dropped.                           *)
ForwardDataToClient(s) ==
  \E m \in First(toRelay) :
    /\ m.type = "data" /\ m.id = s /\ FromHost(m)
    /\ IF client[s] = "open"
       THEN read' = [read EXCEPT ![s] = Append(@, m.n)] /\ PolicyToServerFrame(s, m)
       ELSE UNCHANGED <<read, listIds, used, leaked>>
    /\ UNCHANGED client

CloseFromHost(s) ==
  /\ FromHost(Close(s))
  /\ Ends({s} \cap Live)
  /\ UNCHANGED <<read, used, leaked>>

-----------------------------------------------------------------------------
(* The tunnel.                                                             *)

FailClosed ==
  /\ admitted' = FALSE
  /\ Ends(Live)

(* closeLocalStream of each of S: the app-server's socket is closed, and   *)
(* its close event will find the stream closed.                            *)
CloseLocal(S) ==
  /\ localStreams' = localStreams \ S
  /\ socket' = [s \in Streams |->
                  IF s \in S /\ socket[s] \in {"connecting", "open"}
                  THEN "closing" ELSE socket[s]]
  /\ pending' = [s \in Streams |-> IF s \in S THEN <<>> ELSE pending[s]]

(* The connection breaks, or the host restarts.  What was sent to the host *)
(* is lost, of what it sent some arrives.                                  *)
LoseTunnel ==
  /\ link /\ losses < MaxLosses
  /\ losses' = losses + 1
  /\ link' = FALSE
  /\ CloseLocal(localStreams)
  /\ toHost' = <<>> /\ toRelay' \in Prefixes(toRelay)
  /\ UNCHANGED <<relay, peers, history>>

TunnelClosed ==
  /\ tunnel /\ ~link /\ toRelay = <<>>
  /\ tunnel' = FALSE
  /\ FailClosed
  /\ UNCHANGED <<wires, host, peers, losses, history>>

(* pruneState finds the tunnel overdue; the host reads on until it is told. *)
DropTunnel ==
  /\ tunnel /\ losses < MaxLosses
  /\ losses' = losses + 1
  /\ tunnel' = FALSE /\ toRelay' = <<>>
  /\ FailClosed
  /\ UNCHANGED <<toHost, host, peers, history>>

HostClosed ==
  /\ link /\ ~tunnel
  /\ link' = FALSE /\ toHost' = <<>>
  /\ CloseLocal(localStreams)
  /\ UNCHANGED <<relay, toRelay, peers, losses, history>>

(* The host connects again; a tunnel the relay still has is replaced.      *)
Accept ==
  /\ ~link
  /\ link' = TRUE /\ tunnel' = TRUE
  /\ FailClosed
  /\ toHost' = <<>> /\ toRelay' = <<>>
  /\ UNCHANGED <<localStreams, socket, pending, peers, losses, history>>

-----------------------------------------------------------------------------
(* The host: messages of the relay.                                        *)

Send(m) == toRelay' = IF link /\ tunnel THEN Append(toRelay, m) ELSE toRelay

FromRelay(m) ==
  /\ link /\ m \in First(toHost)
  /\ toHost' = Tail(toHost)
  /\ UNCHANGED <<relay, link, up, down, read, losses, used, leaked>>

(* The account's worker is not ready; or the app-server is connected to.   *)
OpenLocalStream(s) ==
  /\ FromRelay(Open(s))
  /\ \/ /\ Send(Close(s))
        /\ UNCHANGED <<localStreams, socket>>
     \/ /\ localStreams' = localStreams \cup {s}
        /\ socket' = [socket EXCEPT ![s] = "connecting"]
        /\ UNCHANGED toRelay
  /\ UNCHANGED <<pending, got, asked, overflowed>>

(* The app-server receives frames in one batch.                            *)
Receives(s, frames) ==
  /\ got' = [got EXCEPT ![s] = @ \o [i \in DOMAIN frames |-> frames[i].n]]
  /\ asked' = [asked EXCEPT ![s] =
                 @ \cup {f.n : f \in {x \in ToSet(frames) : x.kind = "list"}}]

(* A frame for a stream the host does not have is dropped.  One too many   *)
(* for a socket that is not open closes the stream, and the relay is not   *)
(* told.                                                                   *)
ForwardDataToLocal(s) ==
  \E m \in First(toHost) :
    /\ m.type = "data" /\ m.id = s /\ FromRelay(m)
    /\ UNCHANGED toRelay
    /\ CASE s \notin localStreams ->
              UNCHANGED <<localStreams, socket, pending, got, asked, overflowed>>
         [] s \in localStreams /\ socket[s] = "open" ->
              /\ Receives(s, <<m>>)
              /\ UNCHANGED <<localStreams, socket, pending, overflowed>>
         [] s \in localStreams /\ socket[s] # "open" /\ Len(pending[s]) < MaxPending ->
              /\ pending' = [pending EXCEPT ![s] = Append(@, m)]
              /\ UNCHANGED <<localStreams, socket, got, asked, overflowed>>
         [] OTHER ->
              /\ CloseLocal({s})
              /\ overflowed' = overflowed \cup {s}
              /\ UNCHANGED <<got, asked>>

CloseFromRelay(s) ==
  /\ FromRelay(Close(s))
  /\ CloseLocal({s} \cap localStreams)
  /\ UNCHANGED <<toRelay, got, asked, overflowed>>

-----------------------------------------------------------------------------
(* The host: events of the app-server's socket.                            *)

LocalEvent == UNCHANGED <<relay, toHost, link, up, read, losses, history>>

OpenedUnflushed(s) ==  \* mutant: frames wait for the next ones
  /\ socket[s] = "connecting"
  /\ socket' = [socket EXCEPT ![s] = "open"]
  /\ LocalEvent /\ UNCHANGED <<localStreams, pending, toRelay, down, got, asked>>

Opened(s) ==
  /\ socket[s] = "connecting"
  /\ socket' = [socket EXCEPT ![s] = "open"]
  /\ Receives(s, pending[s])
  /\ pending' = [pending EXCEPT ![s] = <<>>]
  /\ LocalEvent /\ UNCHANGED <<localStreams, toRelay, down>>

(* The app-server sends what it likes, a request of its own by the id of   *)
(* model/list among it, *)
AppServerFrame(s, kind, of) ==
  /\ s \in localStreams /\ socket[s] = "open" /\ down[s] < MaxFrames
  /\ down' = [down EXCEPT ![s] = @ + 1]
  /\ asked' = [asked EXCEPT ![s] = @ \ {of}]
  /\ Send(Data(s, down'[s], kind, of))
  /\ LocalEvent /\ UNCHANGED <<localStreams, socket, pending, got>>

AppServerSends(s)   == \E kind \in {"plain", "ask"} : AppServerFrame(s, kind, 0)

(* and answers each model/list once, in any order.                         *)
AppServerAnswers(s) == \E n \in asked[s] : AppServerFrame(s, "list", n)

(* It closes the connection, or cannot be reached, *)
AppServerCloses(s) ==
  /\ socket[s] \in {"connecting", "open"}
  /\ socket' = [socket EXCEPT ![s] = "closing"]
  /\ LocalEvent /\ UNCHANGED <<localStreams, pending, toRelay, down, got, asked>>

(* and the host sees the close event.                                      *)
LocalClosed(s) ==
  /\ socket[s] = "closing"
  /\ socket' = [socket EXCEPT ![s] = "closed"]
  /\ localStreams' = localStreams \ {s}
  /\ pending' = [pending EXCEPT ![s] = <<>>]
  /\ IF s \in localStreams THEN Send(Close(s)) ELSE UNCHANGED toRelay
  /\ LocalEvent /\ UNCHANGED <<down, got, asked>>

-----------------------------------------------------------------------------
Kinds == {"plain", "list"}

Relayed(s) == ForwardDataToClient(s) \/ CloseFromHost(s)
Handled(s) == OpenLocalStream(s) \/ ForwardDataToLocal(s) \/ CloseFromRelay(s)
Connected(s) == Opened(s) \/ (socket[s] = "connecting" /\ AppServerCloses(s))

Next ==
  \/ \E s \in Streams :
       \/ Connect(s) \/ ClientLeaves(s) \/ ClientClosed(s)
       \/ \E kind \in Kinds : ClientFrame(s, kind) \/ ClientFrameDenied(s, kind)
       \/ ForwardDataToClient(s) \/ CloseFromHost(s)
       \/ OpenLocalStream(s) \/ ForwardDataToLocal(s) \/ CloseFromRelay(s)
       \/ Opened(s) \/ AppServerCloses(s) \/ LocalClosed(s)
       \/ AppServerSends(s) \/ AppServerAnswers(s)
  \/ Admit \/ Bar
  \/ LoseTunnel \/ TunnelClosed \/ DropTunnel \/ HostClosed \/ Accept

Spec == Init /\ [][Next]_vars

(* Messages that have arrived are handled, a handshake ends by its timeout *)
(* of ten seconds, a socket that is closing closes, and both ends notice a *)
(* lost tunnel: the relay by its heartbeats, the host by the connection.   *)
(* Nothing is assumed of clients and app-servers.                          *)
Fairness ==
  /\ WF_vars(\E s \in Streams : Relayed(s)) /\ WF_vars(\E s \in Streams : Handled(s))
  /\ WF_vars(TunnelClosed) /\ WF_vars(HostClosed)
  /\ \A s \in Streams : /\ WF_vars(Connected(s)) /\ WF_vars(LocalClosed(s))
                        /\ WF_vars(ClientClosed(s))

LiveSpec == Spec /\ Fairness

-----------------------------------------------------------------------------
(* Properties.                                                             *)

Frames == [type : {"data"}, id : Streams, n : 1..MaxFrames,
           kind : Kinds \cup {"ask"}, of : 0..MaxFrames]
Signs  == [type : {"open", "close"}, id : Streams]

TypeOK ==
  /\ client \in [Streams -> {"new", "open", "leaving", "ended"}]
  /\ listIds \subseteq Live /\ admitted \in BOOLEAN /\ tunnel \in BOOLEAN
  /\ toHost \in Seq(Frames \cup Signs) /\ toRelay \in Seq(Frames \cup Signs)
  /\ link \in BOOLEAN /\ localStreams \subseteq Streams
  /\ socket \in [Streams -> {"none", "connecting", "open", "closing", "closed"}]
  /\ pending \in [Streams -> Seq(Frames)]
  /\ up \in [Streams -> 0..MaxFrames] /\ down \in [Streams -> 0..MaxFrames]
  /\ got \in [Streams -> Seq(1..MaxFrames)] /\ read \in [Streams -> Seq(1..MaxFrames)]
  /\ asked \in [Streams -> SUBSET (1..MaxFrames)]
  /\ losses \in 0..MaxLosses
  /\ overflowed \subseteq Streams /\ used \in [Streams -> 0..MaxFrames]
  /\ leaked \subseteq [id : Streams, of : 0..MaxFrames]

Unbroken(frames) == \A i \in DOMAIN frames : frames[i] = i

(* Frames arrive at the app-server and at the client in the order they     *)
(* were sent and without a gap, those kept while the app-server was being  *)
(* connected to included (host-agent.ts:948-950, 985-998).                 *)
FramesInOrder == \A s \in Streams : Unbroken(got[s]) /\ Unbroken(read[s])

(* relay.test.ts:62: the policy filters the answer to model/list, in       *)
(* whatever order requests and answers cross.  A list of models is shown   *)
(* unfiltered only if the id was used up after the list had been asked     *)
(* for: by a request of the app-server with that id, or by the answer to   *)
(* another model/list of a client that uses one id for both                *)
(* (relay.ts:296-299, 315-320).                                            *)
ListsFiltered == \A l \in leaked : l.of <= used[l.id]

Opening(s) == Contains(toHost, Open(s))

(* The two ends of a stream end together, through revocations and lost     *)
(* tunnels: a client is not left with a stream the host does not have,     *)
(* unless its pending frames overflowed (host-agent.ts:994), and no        *)
(* connection to an app-server outlives its client.                        *)
EndsTogether ==
  \A s \in Streams :
    /\ (s \in Live \ (localStreams \cup overflowed) /\ ~Opening(s))
         ~> client[s] = "ended"
    /\ client[s] = "ended" ~> [](socket[s] \in {"none", "closed"})
=============================================================================
