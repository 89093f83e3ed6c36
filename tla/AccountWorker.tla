----------------------------- MODULE AccountWorker -----------------------------
(* The control connection of one account's worker to its codex app-server    *)
(* (server/src/account-worker.ts).  ensureControl opens it for the first     *)
(* request that finds none and shares the opening among the others; the      *)
(* connection must be initialized before requests are sent; every event of   *)
(* every socket that is still alive acts on the one state of the worker.     *)
(* The app-server is external: it answers, is slow, or closes connections.   *)
EXTENDS Naturals

CONSTANTS Callers,      \* requests made at the same time
          MaxSockets,   \* bound on the connections ever opened
          MaxStops,     \* bound on calls of stop
          NoSocket

ASSUME SocketsAssumption == MaxSockets \in Nat /\ MaxStops \in Nat
ASSUME NoSocketAssumption == NoSocket \notin Nat

Sockets == 1..MaxSockets

VARIABLES
    localReady,
    controlSocket,        \* the socket requests are sent on, or NoSocket
    controlInitialized,
    controlOpening,       \* the socket whose opening is shared, or NoSocket
    socket,               \* for each socket "new", "connecting", "open", "closing" (stop closes it),
                          \* "leaving" (the app-server closes it) or "closed"
    unsettled,            \* sockets whose opening has not been settled
    pendingInit,          \* sockets whose initialize is in the table of pending requests
    handshaken,           \* sockets on which the answer to initialize was acted on
    caller,               \* for each caller its step, and the socket it waits for
    crossed,              \* history: a socket opened while an older one had not closed
    bare,                 \* history: a request was sent on a socket not handshaken
    stops

workerVars == <<localReady, controlSocket, controlInitialized, controlOpening, socket, unsettled,
          pendingInit, handshaken, caller, crossed, bare, stops>>
workerHistory == <<crossed, bare>>

(* "waiting" for an opening, "checked" it, "sent" the request and waits for  *)
(* its answer.                                                               *)
Idle == [step |-> "idle", on |-> NoSocket]

WorkerInit == /\ localReady = TRUE
              /\ controlSocket = NoSocket
              /\ controlInitialized = FALSE
              /\ controlOpening = NoSocket
              /\ socket = [k \in Sockets |-> "new"]
              /\ unsettled = {}
              /\ pendingInit = {}
              /\ handshaken = {}
              /\ caller = [c \in Callers |-> Idle]
              /\ crossed = FALSE
              /\ bare = FALSE
              /\ stops = 0

ConnectedEarly == controlSocket # NoSocket /\ socket[controlSocket] = "open"  \* mutant: not initialized
Connected == controlSocket # NoSocket /\ socket[controlSocket] = "open" /\ controlInitialized

Alive == {"connecting", "open", "closing", "leaving"}  \* its close event has yet to come

Becomes(c, step, k) == caller' = [caller EXCEPT ![c] = [step |-> step, on |-> k]]

Sends(c) == caller[c].step = "sent"
WaitsFor(c, k) == caller[c] = [step |-> "waiting", on |-> k]

(* start: the probe of the app-server has succeeded. *)
Start == /\ ~localReady
         /\ localReady' = TRUE
         /\ UNCHANGED <<controlSocket, controlInitialized, controlOpening, socket, unsettled,
                        pendingInit, handshaken, caller, workerHistory, stops>>

(* request uses the connection there is, waits for the one being opened, or  *)
(* opens one.                                                                *)
UseConnection(c) == /\ Connected
                    /\ Becomes(c, "checked", NoSocket)
                    /\ UNCHANGED <<controlOpening, socket, unsettled>>

ShareOpening(c) == /\ ~Connected
                   /\ controlOpening # NoSocket
                   /\ Becomes(c, "waiting", controlOpening)
                   /\ UNCHANGED <<controlOpening, socket, unsettled>>

OpenConnection(c) == /\ ~Connected
                     /\ controlOpening = NoSocket
                     /\ \E k \in Sockets :
                            /\ socket[k] = "new"
                            /\ \A j \in Sockets : j < k => socket[j] # "new"
                            /\ socket' = [socket EXCEPT ![k] = "connecting"]
                            /\ controlOpening' = k
                            /\ unsettled' = unsettled \cup {k}
                            /\ Becomes(c, "waiting", k)

Request(c) == /\ caller[c].step = "idle"
              /\ UseConnection(c) \/ ShareOpening(c) \/ OpenConnection(c)
              /\ UNCHANGED <<localReady, controlSocket, controlInitialized, pendingInit,
                             handshaken, workerHistory, stops>>

(* The socket opens and becomes the control socket, whatever was it before. *)
Opened(k) == /\ socket[k] = "connecting"
             /\ socket' = [socket EXCEPT ![k] = "open"]
             /\ controlSocket' = k
             /\ controlInitialized' = FALSE
             /\ pendingInit' = pendingInit \cup {k}
             /\ crossed' = (crossed \/ \E j \in Sockets \ {k} : socket[j] \in Alive)
             /\ UNCHANGED <<localReady, controlOpening, unsettled, handshaken, caller, bare, stops>>

(* The openings in ks settle: whoever waits for one goes on, or has failed,  *)
(* and there is no opening to share.  A second settling changes nothing.     *)
Settle(ks, caller1) ==
    /\ unsettled' = unsettled \ ks
    /\ controlOpening' = IF ks \cap unsettled = {} THEN controlOpening ELSE NoSocket
    /\ caller' = caller1

Fail(ks, cs) == Settle(ks, [c \in Callers |->
                    IF c \in cs \/ \E k \in ks : WaitsFor(c, k) THEN Idle ELSE caller[c]])

(* The answer to initialize is acted on while its entry is in the table,     *)
(* also when the opening has timed out or the socket is no longer the        *)
(* control socket.                                                           *)
InitAnswered(k) ==
    /\ socket[k] = "open"
    /\ k \in pendingInit
    /\ pendingInit' = pendingInit \ {k}
    /\ controlInitialized' = TRUE
    /\ handshaken' = handshaken \cup {k}
    /\ Settle({k}, [c \in Callers |-> IF WaitsFor(c, k) THEN [step |-> "checked", on |-> NoSocket]
                                                         ELSE caller[c]])
    /\ UNCHANGED <<localReady, controlSocket, socket, workerHistory, stops>>

(* The app-server refuses initialize: the opening fails, the socket stays. *)
InitRefused(k) == /\ socket[k] = "open"
                  /\ k \in pendingInit
                  /\ pendingInit' = pendingInit \ {k}
                  /\ Fail({k}, {})
                  /\ UNCHANGED <<localReady, controlSocket, controlInitialized, socket,
                                 handshaken, workerHistory, stops>>

(* The timer of initialize fails the opening and leaves the rest as it is. *)
InitTimeout(k) == /\ k \in pendingInit \cap unsettled
                  /\ Fail({k}, {})
                  /\ UNCHANGED <<localReady, controlSocket, controlInitialized, socket,
                                 pendingInit, handshaken, workerHistory, stops>>

(* After the await the connection is looked at again. *)
Send(c) == /\ caller[c].step = "checked"
           /\ IF Connected
              THEN /\ Becomes(c, "sent", controlSocket)
                   /\ bare' = (bare \/ controlSocket \notin handshaken)
              ELSE Becomes(c, "idle", NoSocket) /\ UNCHANGED bare
           /\ UNCHANGED <<localReady, controlSocket, controlInitialized, controlOpening, socket,
                          unsettled, pendingInit, handshaken, crossed, stops>>

(* The answer arrives, or the timer of the request fires. *)
Answered(c) == /\ Sends(c)
               /\ socket[caller[c].on] = "open"
               /\ Becomes(c, "idle", NoSocket)
               /\ UNCHANGED <<localReady, controlSocket, controlInitialized, controlOpening, socket,
                              unsettled, pendingInit, handshaken, workerHistory, stops>>

TimedOut(c) == /\ Sends(c)
               /\ Becomes(c, "idle", NoSocket)
               /\ UNCHANGED <<localReady, controlSocket, controlInitialized, controlOpening, socket,
                              unsettled, pendingInit, handshaken, workerHistory, stops>>

(* The app-server closes a connection: it takes no more requests, and what    *)
(* waits on it stays in the table until the close event.                     *)
PeerCloses(k) == /\ socket[k] = "open"
                 /\ socket' = [socket EXCEPT ![k] = "leaving"]
                 /\ UNCHANGED <<localReady, controlSocket, controlInitialized, controlOpening, unsettled,
                                pendingInit, handshaken, caller, workerHistory, stops>>

ClosedQuietly(k) ==  \* mutant: the pending requests are kept
    /\ socket[k] \in Alive
    /\ socket' = [socket EXCEPT ![k] = "closed"]
    /\ controlSocket' = IF controlSocket = k THEN NoSocket ELSE controlSocket
    /\ controlInitialized' = (controlInitialized /\ controlSocket # k)
    /\ localReady' = FALSE
    /\ Fail(IF socket[k] = "connecting" THEN {k} ELSE {}, {})
    /\ UNCHANGED <<pendingInit, handshaken, workerHistory, stops>>

(* A socket closes, or could not open: the worker is offline and every       *)
(* pending request fails, of whatever socket.                                *)
Closed(k) == /\ socket[k] \in Alive
             /\ socket' = [socket EXCEPT ![k] = "closed"]
             /\ controlSocket' = IF controlSocket = k THEN NoSocket ELSE controlSocket
             /\ controlInitialized' = (controlInitialized /\ controlSocket # k)
             /\ localReady' = FALSE
             /\ pendingInit' = {}
             /\ Fail(pendingInit \cup (IF socket[k] = "connecting" THEN {k} ELSE {}),
                     {c \in Callers : Sends(c)})
             /\ UNCHANGED <<handshaken, workerHistory, stops>>

StopQuietly ==  \* mutant: the table is cleared and nobody is told
    /\ stops < MaxStops
    /\ stops' = stops + 1
    /\ localReady' = FALSE
    /\ socket' = IF controlSocket # NoSocket /\ socket[controlSocket] = "open"
                 THEN [socket EXCEPT ![controlSocket] = "closing"] ELSE socket
    /\ controlSocket' = NoSocket
    /\ controlInitialized' = FALSE
    /\ pendingInit' = {}
    /\ controlOpening' = NoSocket
    /\ UNCHANGED <<unsettled, caller, handshaken, workerHistory>>

(* stop closes the control socket and fails every pending request; a socket  *)
(* that is connecting goes on.                                               *)
Stop == /\ stops < MaxStops
        /\ stops' = stops + 1
        /\ localReady' = FALSE
        /\ socket' = IF controlSocket # NoSocket /\ socket[controlSocket] = "open"
                     THEN [socket EXCEPT ![controlSocket] = "closing"] ELSE socket
        /\ controlSocket' = NoSocket
        /\ controlInitialized' = FALSE
        /\ pendingInit' = {}
        /\ controlOpening' = NoSocket
        /\ unsettled' = unsettled \ pendingInit
        /\ caller' = [c \in Callers |->
                         IF Sends(c) \/ \E k \in pendingInit : WaitsFor(c, k) THEN Idle ELSE caller[c]]
        /\ UNCHANGED <<handshaken, workerHistory>>

WorkerNext == \/ Start \/ Stop
              \/ \E c \in Callers : Request(c) \/ Send(c) \/ Answered(c) \/ TimedOut(c)
              \/ \E k \in Sockets : Opened(k) \/ InitAnswered(k) \/ InitRefused(k) \/ InitTimeout(k)
                                    \/ PeerCloses(k) \/ Closed(k)

WorkerSpec == WorkerInit /\ [][WorkerNext]_workerVars

(* Timers fire, a handshake ends (it has a timeout of its own), and          *)
(* continuations run; the app-server owes nothing.                           *)
LiveSpec == /\ WorkerSpec
            /\ \A c \in Callers : WF_workerVars(Send(c)) /\ WF_workerVars(TimedOut(c))
            /\ \A k \in Sockets : WF_workerVars(InitTimeout(k))
                                  /\ WF_workerVars(socket[k] = "connecting" /\ (Opened(k) \/ Closed(k)))

-------------------------------------------------------------------------------
WorkerTypeOK == /\ localReady \in BOOLEAN
                /\ controlSocket \in Sockets \cup {NoSocket}
                /\ controlInitialized \in BOOLEAN
                /\ controlOpening \in Sockets \cup {NoSocket}
                /\ socket \in [Sockets -> {"new", "connecting", "open", "closing", "leaving", "closed"}]
                /\ unsettled \subseteq Sockets
                /\ pendingInit \subseteq Sockets
                /\ handshaken \subseteq Sockets
                /\ caller \in [Callers -> [step : {"idle", "waiting", "checked", "sent"},
                                           on : Sockets \cup {NoSocket}]]
                /\ crossed \in BOOLEAN
                /\ bare \in BOOLEAN
                /\ stops \in 0..MaxStops

(* No request reaches the app-server before the connection it is sent on has *)
(* been initialized, unless a connection opened beside one that had not      *)
(* closed: after an initialize that timed out or was refused, or a stop      *)
(* (account-worker.ts:471).                                                  *)
SentInitialized == bare => crossed

(* Nothing waits for an answer of a connection that has closed or that stop  *)
(* closes: the close event and stop fail every request of it                 *)
(* (account-worker.ts:517-530, 213-233).                                     *)
PendingOnOpen == /\ \A k \in pendingInit : socket[k] \in {"open", "leaving"}
                 /\ \A c \in Callers : Sends(c) => socket[caller[c].on] \in {"open", "leaving"}
                 /\ \A c \in Callers : caller[c].step = "waiting" => caller[c].on \in unsettled

(* Every request ends, whatever the app-server does and whichever events of  *)
(* old connections arrive (account-worker.ts:334-350).                       *)
RequestsEnd == \A c \in Callers : caller[c].step # "idle" ~> caller[c].step = "idle"
===============================================================================
