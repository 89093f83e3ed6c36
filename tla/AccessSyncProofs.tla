--------------------------- MODULE AccessSyncProofs ---------------------------
(***************************************************************************)
(* The gate of the relay for any number of tokens, overlapping calls,      *)
(* reconnections and messages: it fails closed and never meets a sync      *)
(* before the registration; and a token that is no longer readable comes   *)
(* back at most once for each list that was read before.                   *)
(***************************************************************************)
EXTENDS AccessSync, FiniteSetTheorems, SequenceTheorems, TLAPS

-----------------------------------------------------------------------------
(* Types.                                                                  *)

AgeType == [message : 0..HeartbeatTimeout + 1, sync : 0..SyncTimeout + 1,
            connect : 0..HeartbeatTimeout + 1]

LEMMA Ages ==
  /\ [message |-> HeartbeatTimeout + 1, sync |-> SyncTimeout + 1,
      connect |-> HeartbeatTimeout + 1] \in AgeType
  /\ [message |-> 0, sync |-> SyncTimeout + 1, connect |-> 0] \in AgeType
  /\ 0 \in 0..SyncTimeout + 1 /\ SyncTimeout + 1 \in 0..SyncTimeout + 1
<1>1. HeartbeatTimeout \in Nat /\ SyncTimeout \in Nat
  BY ConstantsAssumption DEF SyncTimeout
<1>2. QED
  BY <1>1 DEF AgeType

LEMMA MessageTypes ==
  /\ [type |-> "register"] \in Message
  /\ [type |-> "heartbeat"] \in Message
  /\ \A w \in {"down", "ready", "spent"} :
       [type |-> "accounts.sync", account |-> w] \in Message
  /\ \A d \in Devices : [type |-> "access.revoke", device |-> d] \in Message
  /\ \A s \in Snapshot : ListOf(s) \in Message
BY DEF Message, Snapshot, ListOf

LEMMA RevokesType ==
  ASSUME NEW S \in SUBSET Devices, NEW order \in SetToSeqs(S)
  PROVE  /\ Revokes(order) \in Seq(Message)
         /\ \A i \in 1..Len(Revokes(order)) :
              Revokes(order)[i].type = "access.revoke"
<1>1. Cardinality(S) \in Nat
  BY FS_Subset, FS_CardinalityType, ConstantsAssumption
<1>2. order \in [1..Cardinality(S) -> S]
  BY DEF SetToSeqs
<1>3. Revokes(order) \in [1..Cardinality(S) -> Message]
  BY <1>2, MessageTypes DEF Revokes
<1>4. Revokes(order) \in Seq(Message) /\ Len(Revokes(order)) = Cardinality(S)
  BY <1>1, <1>3
<1>5. \A i \in 1..Cardinality(S) : Revokes(order)[i].type = "access.revoke"
  BY <1>2 DEF Revokes
<1>6. QED
  BY <1>4, <1>5

(* What a send leaves on the tunnel: all that was there, and at its end the *)
(* list that was read.                                                     *)
LEMMA SendShape ==
  ASSUME TypeOK, NEW c \in Calls, SyncSend(c)
  PROVE  /\ wire' \in Seq(Message)
         /\ Len(wire) <= Len(wire')
         /\ \A i \in 1..Len(wire) : wire'[i] = wire[i]
         /\ \A i \in Len(wire) + 1 .. Len(wire') :
              \/ wire'[i].type = "access.revoke"
              \/ i = Len(wire') /\ wire'[i] = ListOf(calls[c])
         /\ ~(link = "up" /\ tunnel) => wire' = wire
<1>1. calls[c] \in Snapshot /\ wire \in Seq(Message) /\ lastSynced \subseteq Devices
  BY DEF TypeOK, SyncSend, Idle, Reading, Snapshot
<1>2. PICK order \in SetToSeqs(lastSynced \ calls[c].listed) :
        wire' = Sent(Append(Revokes(order), ListOf(calls[c])))
  BY DEF SyncSend
<1>. DEFINE R == Revokes(order)
            L == ListOf(calls[c])
<1>3. /\ R \in Seq(Message)
      /\ \A i \in 1..Len(R) : R[i].type = "access.revoke"
  BY <1>1, RevokesType
<1>4. L \in Message
  BY <1>1, MessageTypes
<1>5. wire' = wire \/ wire' = wire \o Append(R, L)
  BY <1>2 DEF Sent
<1>6. ~(link = "up" /\ tunnel) => wire' = wire
  BY <1>2 DEF Sent
<1>. HIDE DEF R, L
<1>7. CASE wire' = wire
  BY <1>1, <1>6, <1>7
<1>8. CASE wire' = wire \o Append(R, L)
  <2>. DEFINE A == Append(R, L)
  <2>1. /\ A \in Seq(Message)
        /\ Len(A) = Len(R) + 1
        /\ \A i \in 1..Len(R) : A[i] = R[i]
        /\ A[Len(R) + 1] = L
    BY <1>3, <1>4
  <2>2. wire' = wire \o A
    BY <1>8
  <2>. HIDE DEF A
  <2>3. /\ Len(wire') = Len(wire) + Len(A) /\ wire' \in Seq(Message)
        /\ \A i \in 1..Len(wire) : wire'[i] = wire[i]
        /\ \A i \in Len(wire) + 1 .. Len(wire') : wire'[i] = A[i - Len(wire)]
    <3>1. wire \in Seq(Message) /\ A \in Seq(Message)
      BY <1>1, <2>1
    <3>2. /\ wire \o A \in Seq(Message) /\ Len(wire \o A) = Len(wire) + Len(A)
          /\ \A i \in 1 .. Len(wire) + Len(A) :
               (wire \o A)[i] = IF i <= Len(wire) THEN wire[i] ELSE A[i - Len(wire)]
      BY <3>1, ConcatProperties
    <3>3. /\ wire' \in Seq(Message) /\ Len(wire') = Len(wire) + Len(A)
          /\ \A i \in 1 .. Len(wire) + Len(A) :
               wire'[i] = IF i <= Len(wire) THEN wire[i] ELSE A[i - Len(wire)]
      BY <2>2, <3>2, Zenon
    <3>4. Len(wire) \in Nat /\ Len(A) \in Nat
      BY <3>1
    <3>. QED
      BY <3>3, <3>4
  <2>4. Len(R) \in Nat /\ Len(wire) \in Nat
    BY <1>1, <1>3
  <2>5. ASSUME NEW i \in Len(wire) + 1 .. Len(wire')
        PROVE  wire'[i].type = "access.revoke" \/ (i = Len(wire') /\ wire'[i] = L)
    <3>. DEFINE k == i - Len(wire)
    <3>1. k \in 1..Len(R) + 1 /\ wire'[i] = A[k]
      BY <2>1, <2>3, <2>4
    <3>2. k = Len(R) + 1 => i = Len(wire')
      BY <2>1, <2>3, <2>4
    <3>. HIDE DEF k
    <3>3. CASE k = Len(R) + 1
      BY <2>1, <3>1, <3>2, <3>3
    <3>4. CASE k \in 1..Len(R)
      <4>1. wire'[i] = R[k]
        BY <2>1, <3>1, <3>4
      <4>2. QED
        BY <1>3, <3>4, <4>1
    <3>5. QED
      BY <2>4, <3>1, <3>3, <3>4
  <2>6. QED
    BY <1>6, <2>3, <2>4, <2>1, <2>5 DEF L
<1>9. QED
  BY <1>5, <1>7, <1>8

LEMMA InitType == Init => TypeOK
<1>. SUFFICES ASSUME Init PROVE TypeOK
  OBVIOUS
<1>1. age \in AgeType
  BY Ages DEF Init
<1>2. wire \in Seq(Message)
  BY DEF Init
<1>3. QED
  BY <1>1, <1>2 DEF Init, TypeOK, AgeType

LEMMA FailClosedType ==
  ASSUME TypeOK, FailClosed, UNCHANGED <<registry, worker, host>>
  PROVE  TypeOK'
<1>1. age' \in AgeType
  BY Ages DEF FailClosed
<1>2. wire' \in Seq(Message)
  BY DEF FailClosed
<1>3. QED
  BY <1>1, <1>2 DEF TypeOK, FailClosed, registry, host, AgeType

LEMMA RegistryType ==
  ASSUME TypeOK,
         \/ \E d \in Devices : Admit(d) \/ Withdraw(d) \/ Meter(d) \/ Expire(d)
         \/ WorkerChanges
  PROVE  TypeOK'
<1>. USE DEF registry, host, relay, gate
<1>1. ASSUME NEW d \in Devices, Admit(d) \/ Meter(d) \/ Expire(d)
      PROVE  TypeOK'
  BY <1>1 DEF TypeOK, Admit, Meter, Expire
<1>2. ASSUME NEW d \in Devices, Withdraw(d)
      PROVE  TypeOK'
  BY <1>2 DEF TypeOK, Withdraw
<1>3. CASE WorkerChanges
  BY <1>3, ConstantsAssumption DEF TypeOK, WorkerChanges
<1>4. QED
  BY <1>1, <1>2, <1>3

(* A single message at the end of the tunnel.                              *)
LEMMA SentShape ==
  ASSUME TypeOK, NEW m \in Message, wire' = Sent(<<m>>)
  PROVE  /\ wire' \in Seq(Message)
         /\ Len(wire) <= Len(wire')
         /\ \A i \in 1..Len(wire) : wire'[i] = wire[i]
         /\ \A i \in Len(wire) + 1 .. Len(wire') : wire'[i] = m
         /\ ~(link = "up" /\ tunnel) => wire' = wire
<1>1. wire \in Seq(Message) /\ Len(wire) \in Nat
  BY DEF TypeOK
<1>2. wire' = wire \/ wire' = Append(wire, m)
  BY <1>1 DEF Sent
<1>3. ~(link = "up" /\ tunnel) => wire' = wire
  BY DEF Sent
<1>4. wire' \in Seq(Message) /\ Len(wire') \in {Len(wire), Len(wire) + 1}
  BY <1>1, <1>2, AppendProperties
<1>5. \A i \in 1..Len(wire) : wire'[i] = wire[i]
  BY <1>1, <1>2, AppendProperties
<1>6. Len(wire') = Len(wire) + 1 => wire'[Len(wire) + 1] = m
  <2>1. CASE wire' = wire
    BY <1>1, <2>1
  <2>2. CASE wire' = Append(wire, m)
    BY <1>1, <2>2, AppendProperties
  <2>3. QED
    BY <1>2, <2>1, <2>2
<1>7. \A i \in Len(wire) + 1 .. Len(wire') :
        i = Len(wire) + 1 /\ Len(wire') = Len(wire) + 1
  BY <1>1, <1>4
<1>8. QED
  BY <1>1, <1>3, <1>4, <1>5, <1>6, <1>7

(* The message the relay takes, and those behind it.                       *)
LEMMA TakenShape ==
  ASSUME TypeOK, wire # <<>>
  PROVE  /\ Head(wire) = wire[1] /\ wire[1] \in Message /\ Len(wire) \in Nat \ {0}
         /\ Tail(wire) \in Seq(Message) /\ Len(Tail(wire)) = Len(wire) - 1
         /\ \A i \in 1..Len(wire) - 1 : Tail(wire)[i] = wire[i + 1]
<1>1. wire \in Seq(Message)
  BY DEF TypeOK
<1>2. Len(wire) \in Nat \ {0} /\ Head(wire) = wire[1] /\ wire[1] \in Message
  BY <1>1
<1>3. QED
  BY <1>1, <1>2, HeadTailProperties

(* What a broken connection leaves of the tunnel.                          *)
LEMMA PrefixShape ==
  ASSUME TypeOK, NEW n \in 0..Len(wire)
  PROVE  /\ SubSeq(wire, 1, n) \in Seq(Message) /\ Len(SubSeq(wire, 1, n)) = n
         /\ \A i \in 1..n : SubSeq(wire, 1, n)[i] = wire[i]
<1>1. wire \in Seq(Message) /\ Len(wire) \in Nat
  BY DEF TypeOK
<1>2. QED
  BY <1>1, SubSeqProperties

LEMMA SyncType ==
  ASSUME TypeOK, NEW c \in Calls, Sync(c)
  PROVE  TypeOK'
<1>. USE DEF registry, host, relay, gate
<1>1. CASE SyncStart(c)
  BY <1>1 DEF TypeOK, SyncStart, Started
<1>2. CASE SyncRead(c)
  <2>1. [step |-> "holding", listed |-> Readable,
         flagged |-> flagged \cap Readable] \in Snapshot
    BY DEF Snapshot, Readable, TypeOK
  <2>2. QED
    BY <1>2, <2>1 DEF TypeOK, SyncRead
<1>3. CASE SyncFail(c)
  BY <1>3 DEF TypeOK, SyncFail
<1>4. CASE SyncSend(c)
  <2>1. wire' \in Seq(Message)
    BY <1>4, SendShape
  <2>2. calls[c] \in Snapshot
    BY <1>4 DEF TypeOK, SyncSend, Idle, Reading, Snapshot
  <2>3. calls[c].listed \subseteq Devices
    BY <2>2 DEF Snapshot
  <2>4. QED
    BY <1>4, <2>1, <2>3 DEF TypeOK, SyncSend
<1>5. QED
  BY <1>1, <1>2, <1>3, <1>4 DEF Sync

LEMMA HostType ==
  ASSUME TypeOK, AccountsSync \/ Heartbeat \/ HostClose \/ Open
  PROVE  TypeOK'
<1>. USE DEF registry, host, relay, gate
<1>1. CASE AccountsSync
  <2>1. [type |-> "accounts.sync", account |-> worker] \in Message
    BY MessageTypes DEF TypeOK
  <2>2. wire' \in Seq(Message)
    BY <1>1, <2>1, SentShape DEF AccountsSync
  <2>3. QED
    BY <1>1, <2>2 DEF TypeOK, AccountsSync
<1>2. CASE Heartbeat
  <2>1. wire' \in Seq(Message)
    BY <1>2, MessageTypes, SentShape DEF Heartbeat
  <2>2. QED
    BY <1>2, <2>1 DEF TypeOK, Heartbeat
<1>3. CASE HostClose
  <2>1. wire' \in Seq(Message)
    BY <1>3, PrefixShape DEF HostClose
  <2>2. QED
    BY <1>3, <2>1 DEF TypeOK, HostClose
<1>4. CASE Open
  <2>1. wire' \in Seq(Message)
    BY <1>4, MessageTypes DEF TypeOK, Open
  <2>2. calls' \in [Calls -> {Idle, Reading} \cup Snapshot]
    BY <1>4 DEF TypeOK, Open, Started
  <2>3. QED
    BY <1>4, <2>1, <2>2 DEF TypeOK, Open
<1>5. QED
  BY <1>1, <1>2, <1>3, <1>4

LEMMA HeardType ==
  ASSUME TypeOK
  PROVE  /\ Heard \in AgeType /\ [Heard EXCEPT !.sync = 0] \in AgeType
         /\ 0 \in 0..SyncTimeout + 1
<1>1. HeartbeatTimeout \in Nat /\ SyncTimeout \in Nat
  BY ConstantsAssumption DEF SyncTimeout
<1>2. age \in AgeType
  BY DEF TypeOK, AgeType
<1>3. 0 \in 0..HeartbeatTimeout + 1 /\ 0 \in 0..SyncTimeout + 1
  BY <1>1
<1>4. Heard \in AgeType
  BY <1>2, <1>3 DEF AgeType, Heard
<1>5. [Heard EXCEPT !.sync = 0] \in AgeType
  BY <1>3, <1>4 DEF AgeType
<1>6. QED
  BY <1>3, <1>4, <1>5

LEMMA DeliverType == TypeOK /\ Deliver => TypeOK'
<1>. SUFFICES ASSUME TypeOK, Deliver PROVE TypeOK'
  OBVIOUS
<1>. USE DEF registry, host, gate
<1>. DEFINE m == Head(wire)
<1>1. /\ wire # <<>> /\ m \in Message
      /\ wire' = Tail(wire) => wire' \in Seq(Message)
  BY TakenShape DEF Deliver, DeliverRegister, DeliverHeartbeat, DeliverRevoke,
     DeliverAccess, DeliverAccounts, Arrives
<1>. HIDE DEF m
<1>2. CASE DeliverRegister
  BY <1>1, <1>2, HeardType DEF DeliverRegister, Taken, TypeOK, AgeType
<1>3. CASE DeliverHeartbeat
  BY <1>1, <1>3, HeardType DEF DeliverHeartbeat, Taken, TypeOK, AgeType
<1>4. CASE DeliverRevoke
  <2>1. devices' \subseteq devices /\ streams' \subseteq streams
    BY <1>4 DEF DeliverRevoke
  <2>2. QED
    BY <1>1, <1>4, <2>1, HeardType DEF DeliverRevoke, Taken, TypeOK, AgeType
<1>5. CASE DeliverAccess
  <2>1. CASE registered
    <3>1. m.type = "access.sync" /\ Taken /\ ApplyAccessSync(m)
      BY <1>5, <2>1 DEF DeliverAccess, Arrives, m
    <3>2. m.listed \subseteq Devices
      BY <1>1, <3>1 DEF Message
    <3>3. Admitted(m) \subseteq Devices
      BY <3>2 DEF Admitted
    <3>4. age' \in AgeType
      BY <3>1, HeardType DEF ApplyAccessSync
    <3>5. QED
      BY <1>1, <3>1, <3>3, <3>4 DEF ApplyAccessSync, Taken, TypeOK, AgeType
  <2>2. CASE ~registered
    BY <1>5, <2>2, FailClosedType DEF DeliverAccess
  <2>3. QED
    BY <2>1, <2>2
<1>6. CASE DeliverAccounts
  <2>1. CASE registered
    <3>1. m.type = "accounts.sync" /\ account' = m.account /\ Taken
      BY <1>6, <2>1 DEF DeliverAccounts, Arrives, m
    <3>2. account' \in {"down", "ready", "spent"}
      BY <1>1, <3>1 DEF Message
    <3>3. QED
      BY <1>1, <1>6, <2>1, <3>1, <3>2, HeardType
      DEF DeliverAccounts, Taken, TypeOK, AgeType
  <2>2. CASE ~registered
    BY <1>6, <2>2, FailClosedType DEF DeliverAccounts
  <2>3. QED
    BY <2>1, <2>2
<1>7. QED
  BY <1>2, <1>3, <1>4, <1>5, <1>6 DEF Deliver

LEMMA RelayType ==
  ASSUME TypeOK,
         \/ Accept \/ TunnelClosed \/ PruneState \/ Tick
         \/ \E d \in Devices : ClientConnect(d) \/ ClientLeave(d)
  PROVE  TypeOK'
<1>. USE DEF registry, host, gate
<1>1. CASE Accept
  <2>1. age' \in AgeType
    BY <1>1, Ages DEF Accept
  <2>2. wire' \in Seq(Message)
    BY <1>1 DEF Accept
  <2>3. QED
    BY <1>1, <2>1, <2>2 DEF Accept, TypeOK, AgeType
<1>2. CASE TunnelClosed
  BY <1>2, FailClosedType DEF TunnelClosed
<1>3. CASE PruneState
  <2>1. CASE FailClosed
    BY <1>3, <2>1, FailClosedType DEF PruneState
  <2>2. CASE ~FailClosed
    BY <1>3, <2>2 DEF PruneState, TypeOK
  <2>3. QED
    BY <2>1, <2>2
<1>4. CASE Tick
  <2>1. HeartbeatTimeout \in Nat /\ SyncTimeout \in Nat
    BY ConstantsAssumption DEF SyncTimeout
  <2>2. \A limit \in Nat : \A a \in 0..limit + 1 : Older(a, limit) \in 0..limit + 1
    BY DEF Older
  <2>3. age' \in AgeType
    BY <1>4, <2>1, <2>2 DEF Tick, TypeOK, AgeType
  <2>4. QED
    BY <1>4, <2>3 DEF Tick, TypeOK, AgeType
<1>5. ASSUME NEW d \in Devices, ClientConnect(d) \/ ClientLeave(d)
      PROVE  TypeOK'
  BY <1>5 DEF ClientConnect, ClientLeave, TypeOK
<1>6. QED
  BY <1>1, <1>2, <1>3, <1>4, <1>5

LEMMA NextType == TypeOK /\ [Next]_vars => TypeOK'
<1>. SUFFICES ASSUME TypeOK, [Next]_vars PROVE TypeOK'
  OBVIOUS
<1>1. CASE UNCHANGED vars
  BY <1>1 DEF vars, registry, host, relay, gate, TypeOK
<1>2. QED
  BY <1>1, RegistryType, SyncType, HostType, DeliverType, RelayType DEF Next

(* Every value of the host, the tunnel and the relay has its type, and     *)
(* only tokens of the registry are listed (relay.ts, access.sync).         *)
THEOREM SyncTypes == Spec => []TypeOK
BY InitType, NextType, PTL DEF Spec

-----------------------------------------------------------------------------
(* The gate.  A tunnel that is up but not registered still carries its     *)
(* registration, and in front of everything else.                          *)
RegisterSent == link = "up" /\ tunnel /\ ~registered => wire # <<>>

GateInv == TypeOK /\ FailsClosed /\ RegisterFirst /\ RegisterSent

LEMMA InitGate == Init => GateInv
BY InitType DEF Init, GateInv, FailsClosed, RegisterFirst, RegisterSent

LEMMA FailClosedGate ==
  ASSUME FailClosed
  PROVE  FailsClosed' /\ RegisterFirst' /\ RegisterSent'
BY DEF FailClosed, FailsClosed, RegisterFirst, RegisterSent

(* Whatever the host appends, the gate and the head of the tunnel stay.    *)
LEMMA GrowthGate ==
  ASSUME GateInv, UNCHANGED <<link, gate>>,
         wire' \in Seq(Message), Len(wire) <= Len(wire'),
         \A i \in 1..Len(wire) : wire'[i] = wire[i],
         ~(link = "up" /\ tunnel) => wire' = wire
  PROVE  FailsClosed' /\ RegisterFirst' /\ RegisterSent'
<1>1. wire \in Seq(Message)
  BY DEF GateInv, TypeOK
<1>2. FailsClosed'
  BY DEF GateInv, FailsClosed, gate
<1>3. wire # <<>> => wire' # <<>> /\ Head(wire') = Head(wire)
  <2>1. ASSUME wire # <<>> PROVE Len(wire) \in Nat \ {0} /\ Head(wire) = wire[1]
    BY <1>1, <2>1
  <2>2. ASSUME wire # <<>> PROVE wire' # <<>> /\ Head(wire') = wire'[1]
    BY <2>1, <2>2
  <2>3. QED
    BY <2>1, <2>2
<1>4. RegisterSent'
  BY <1>3 DEF GateInv, RegisterSent, gate
<1>5. RegisterFirst'
  <2>1. CASE wire # <<>>
    BY <1>3, <2>1 DEF GateInv, RegisterFirst, gate
  <2>2. CASE wire = <<>>
    BY <2>2 DEF GateInv, RegisterFirst, RegisterSent, gate
  <2>3. QED
    BY <2>1, <2>2
<1>6. QED
  BY <1>2, <1>4, <1>5

LEMMA HostGate ==
  ASSUME GateInv,
         \/ \E c \in Calls : Sync(c)
         \/ AccountsSync \/ Heartbeat \/ HostClose \/ Open
  PROVE  FailsClosed' /\ RegisterFirst' /\ RegisterSent'
<1>. USE DEF relay
<1>. TypeOK
  BY DEF GateInv
<1>0. wire \in Seq(Message)
  BY DEF TypeOK
<1>1. ASSUME NEW c \in Calls, SyncStart(c) \/ SyncRead(c) \/ SyncFail(c)
      PROVE  FailsClosed' /\ RegisterFirst' /\ RegisterSent'
  BY <1>1 DEF SyncStart, SyncRead, SyncFail, GateInv, FailsClosed, RegisterFirst,
              RegisterSent, host, gate
<1>2. ASSUME NEW c \in Calls, SyncSend(c)
      PROVE  FailsClosed' /\ RegisterFirst' /\ RegisterSent'
  <2>1. UNCHANGED <<link, gate>>
    BY <1>2 DEF SyncSend
  <2>2. QED
    BY <1>2, <2>1, SendShape, GrowthGate
<1>3. CASE AccountsSync
  <2>1. [type |-> "accounts.sync", account |-> worker] \in Message
    BY MessageTypes DEF TypeOK
  <2>2. /\ UNCHANGED <<link, gate>>
        /\ wire' = Sent(<<[type |-> "accounts.sync", account |-> worker]>>)
    BY <1>3 DEF AccountsSync, host
  <2>3. QED
    BY <2>1, <2>2, SentShape, GrowthGate
<1>4. CASE Heartbeat
  <2>1. UNCHANGED <<link, gate>> /\ wire' = Sent(<<[type |-> "heartbeat"]>>)
    BY <1>4 DEF Heartbeat, host
  <2>2. QED
    BY <2>1, MessageTypes, SentShape, GrowthGate
<1>5. CASE HostClose
  <2>1. PICK n \in 0..Len(wire) : wire' = SubSeq(wire, 1, n)
    BY <1>5 DEF HostClose
  <2>2. /\ wire' \in Seq(Message) /\ Len(wire') = n
        /\ \A i \in 1..n : wire'[i] = wire[i]
    BY <2>1, PrefixShape
  <2>3. wire' # <<>> => wire # <<>> /\ Head(wire') = Head(wire)
    <3>1. ASSUME wire' # <<>> PROVE n > 0 /\ Head(wire') = wire'[1]
      BY <1>0, <2>2, <3>1
    <3>2. ASSUME n > 0 PROVE wire # <<>> /\ Head(wire) = wire[1]
      BY <1>0, <2>1, <3>2
    <3>3. QED
      BY <1>0, <2>2, <3>1, <3>2
  <2>4. link' = "down" /\ UNCHANGED gate
    BY <1>5 DEF HostClose
  <2>5. QED
    BY <2>3, <2>4 DEF GateInv, FailsClosed, RegisterFirst, RegisterSent, gate
<1>6. CASE Open
  BY <1>6 DEF Open, GateInv, FailsClosed, RegisterFirst, RegisterSent, gate
<1>7. QED
  BY <1>1, <1>2, <1>3, <1>4, <1>5, <1>6 DEF Sync

LEMMA DeliverGate ==
  ASSUME GateInv, Deliver
  PROVE  FailsClosed' /\ RegisterFirst' /\ RegisterSent'
<1>. USE DEF GateInv, FailsClosed, RegisterFirst, RegisterSent, Taken, Arrives,
            host, gate
<1>1. CASE DeliverRegister
  BY <1>1 DEF DeliverRegister
<1>2. CASE DeliverHeartbeat
  BY <1>2 DEF DeliverHeartbeat
<1>3. CASE DeliverRevoke
  BY <1>3 DEF DeliverRevoke
<1>4. CASE DeliverAccess
  <2>1. registered /\ ApplyAccessSync(Head(wire))
    BY <1>4 DEF DeliverAccess
  <2>2. QED
    BY <1>4, <2>1 DEF DeliverAccess, ApplyAccessSync
<1>5. CASE DeliverAccounts
  BY <1>5 DEF DeliverAccounts
<1>6. QED
  BY <1>1, <1>2, <1>3, <1>4, <1>5 DEF Deliver

LEMMA RelayGate ==
  ASSUME GateInv,
         \/ Accept \/ TunnelClosed \/ PruneState \/ Tick
         \/ \E d \in Devices : ClientConnect(d) \/ ClientLeave(d)
  PROVE  FailsClosed' /\ RegisterFirst' /\ RegisterSent'
<1>. USE DEF GateInv, FailsClosed, RegisterFirst, RegisterSent, host, gate
<1>1. CASE Accept
  BY <1>1 DEF Accept
<1>2. CASE TunnelClosed
  BY <1>2, FailClosedGate DEF TunnelClosed
<1>3. CASE PruneState
  <2>1. CASE FailClosed
    BY <2>1, FailClosedGate
  <2>2. CASE ~FailClosed
    BY <1>3, <2>2 DEF PruneState
  <2>3. QED
    BY <2>1, <2>2
<1>4. CASE Tick
  BY <1>4 DEF Tick
<1>5. ASSUME NEW d \in Devices, ClientConnect(d) \/ ClientLeave(d)
      PROVE  FailsClosed' /\ RegisterFirst' /\ RegisterSent'
  BY <1>5 DEF ClientConnect, ClientLeave
<1>6. QED
  BY <1>1, <1>2, <1>3, <1>4, <1>5

LEMMA NextGate == GateInv /\ [Next]_vars => GateInv'
<1>. SUFFICES ASSUME GateInv, [Next]_vars PROVE GateInv'
  OBVIOUS
<1>1. TypeOK'
  BY NextType DEF GateInv
<1>2. ASSUME \/ \E d \in Devices : Admit(d) \/ Withdraw(d) \/ Meter(d) \/ Expire(d)
             \/ WorkerChanges \/ UNCHANGED vars
      PROVE  FailsClosed' /\ RegisterFirst' /\ RegisterSent'
  BY <1>2 DEF Admit, Withdraw, Meter, Expire, WorkerChanges, vars, host, relay,
              gate, GateInv, FailsClosed, RegisterFirst, RegisterSent
<1>3. FailsClosed' /\ RegisterFirst' /\ RegisterSent'
  BY <1>2, HostGate, DeliverGate, RelayGate DEF Next
<1>4. QED
  BY <1>1, <1>3 DEF GateInv

(* Clients are served only under a listed token, and tokens are listed only *)
(* on a registered and synced tunnel (failClosed and handleTunnel of        *)
(* relay.ts; SECURITY.md, Fail closed).                                     *)
THEOREM GateFailsClosed == Spec => []FailsClosed
<1>1. GateInv => FailsClosed
  BY DEF GateInv
<1>2. QED
  BY <1>1, InitGate, NextGate, PTL DEF Spec

(* No sync arrives before the registration of its tunnel, whatever calls   *)
(* span a reconnection: those branches of handleTunnelMessage are never     *)
(* taken.                                                                   *)
THEOREM RegistersFirst == Spec => []RegisterFirst
<1>1. GateInv => RegisterFirst
  BY DEF GateInv
<1>2. QED
  BY <1>1, InitGate, NextGate, PTL DEF Spec

-----------------------------------------------------------------------------
(* The lists that name a token which can no longer be read.                *)

LEMMA PositionsAreFinite ==
  ASSUME NEW w \in Seq(Message), NEW S \in SUBSET (DOMAIN w)
  PROVE  /\ IsFiniteSet(S) /\ Cardinality(S) \in Nat
         /\ S \subseteq 1..Len(w) /\ S \in SUBSET Int
<1>1. Len(w) \in Nat /\ DOMAIN w = 1..Len(w)
  OBVIOUS
<1>2. IsFiniteSet(1..Len(w))
  BY <1>1, FS_Interval
<1>3. IsFiniteSet(S)
  BY <1>1, <1>2, FS_Subset
<1>4. QED
  BY <1>1, <1>3, FS_CardinalityType

LEMMA CountsAreFinite ==
  ASSUME TypeOK, NEW d \in Devices
  PROVE  /\ IsFiniteSet(Holding(d)) /\ Cardinality(Holding(d)) \in Nat
         /\ IsFiniteSet(Naming(d)) /\ Cardinality(Naming(d)) \in Nat
         /\ Naming(d) \subseteq 1..Len(wire) /\ Naming(d) \in SUBSET Int
<1>1. wire \in Seq(Message) /\ Naming(d) \in SUBSET (DOMAIN wire)
  BY DEF TypeOK, Naming
<1>2. IsFiniteSet(Holding(d))
  BY ConstantsAssumption, FS_Subset DEF Holding
<1>3. QED
  BY <1>1, <1>2, PositionsAreFinite, FS_CardinalityType

LEMMA CountsStayFinite ==
  ASSUME TypeOK', NEW d \in Devices
  PROVE  /\ IsFiniteSet(Holding(d)') /\ Cardinality(Holding(d)') \in Nat
         /\ IsFiniteSet(Naming(d)') /\ Cardinality(Naming(d)') \in Nat
         /\ Naming(d)' \subseteq 1..Len(wire') /\ Naming(d)' \in SUBSET Int
<1>1. wire' \in Seq(Message) /\ Naming(d)' \in SUBSET (DOMAIN wire')
  BY DEF TypeOK, Naming
<1>2. IsFiniteSet(Holding(d)')
  BY ConstantsAssumption, FS_Subset DEF Holding
<1>3. QED
  BY <1>1, <1>2, PositionsAreFinite, FS_CardinalityType

(* Positions that only move are not more than before.                      *)
LEMMA ShiftedCount ==
  ASSUME NEW S \in SUBSET Int, NEW T \in SUBSET Int, NEW k \in Int,
         IsFiniteSet(T), \A i \in S : i + k \in T
  PROVE  IsFiniteSet(S) /\ Cardinality(S) <= Cardinality(T)
<1>. DEFINE move == [i \in S |-> i + k]
<1>1. move \in Injection(S, T)
  BY DEF Injection, IsInjective
<1>2. QED
  BY <1>1, FS_Injection

(* What neither takes the token up nor adds a list that names it.          *)
LEMMA NoneAdded ==
  ASSUME TypeOK, TypeOK', NEW d \in Devices, NEW k \in Nat,
         Holding(d)' \subseteq Holding(d),
         \A i \in Naming(d)' : i + k \in Naming(d),
         d \notin devices' \ devices
  PROVE  /\ Outstanding(d)' <= Outstanding(d)
         /\ d \in devices' \ devices => Outstanding(d)' < Outstanding(d)
<1>1. /\ IsFiniteSet(Holding(d)) /\ Cardinality(Holding(d)) \in Nat
      /\ IsFiniteSet(Naming(d)) /\ Cardinality(Naming(d)) \in Nat
      /\ Naming(d) \in SUBSET Int
  BY CountsAreFinite
<1>2. /\ Cardinality(Holding(d)') \in Nat /\ Cardinality(Naming(d)') \in Nat
      /\ Naming(d)' \in SUBSET Int
  BY CountsStayFinite
<1>3. Cardinality(Holding(d)') <= Cardinality(Holding(d))
  BY <1>1, FS_Subset, Zenon
<1>4. Cardinality(Naming(d)') <= Cardinality(Naming(d))
  <2>1. k \in Int
    OBVIOUS
  <2>2. QED
    BY <1>1, <1>2, <2>1, ShiftedCount, Zenon
<1>5. QED
  BY <1>1, <1>2, <1>3, <1>4 DEF Outstanding

(* The messages on the tunnel that may name the token, after a step that    *)
(* sends no list.                                                           *)
LEMMA NamingKept ==
  ASSUME TypeOK, TypeOK', NEW d \in Devices, NEW k \in Nat,
         \A i \in 1..Len(wire') :
           \/ wire'[i].type # "access.sync"
           \/ i + k \in 1..Len(wire) /\ wire'[i] = wire[i + k]
  PROVE  \A i \in Naming(d)' : i + k \in Naming(d)
<1>1. wire \in Seq(Message) /\ wire' \in Seq(Message)
  BY DEF TypeOK
<1>2. DOMAIN wire = 1..Len(wire) /\ DOMAIN wire' = 1..Len(wire')
  BY <1>1
<1>3. QED
  BY <1>2 DEF Naming

LEMMA EmptyRunsOut ==
  ASSUME TypeOK, TypeOK', NEW d \in Devices, calls' = calls, wire' = <<>>,
         devices' = {}
  PROVE  /\ Outstanding(d)' <= Outstanding(d)
         /\ d \in devices' \ devices => Outstanding(d)' < Outstanding(d)
<1>1. Holding(d)' \subseteq Holding(d)
  BY DEF Holding
<1>2. \A i \in Naming(d)' : i + 0 \in Naming(d)
  BY DEF Naming
<1>3. QED
  BY <1>1, <1>2, NoneAdded

(* A list is held no longer and is the last on the tunnel.                 *)
LEMMA SendRunsOut ==
  ASSUME TypeOK, TypeOK', NEW d \in Devices, NEW c \in Calls, SyncSend(c)
  PROVE  /\ Outstanding(d)' <= Outstanding(d)
         /\ d \in devices' \ devices => Outstanding(d)' < Outstanding(d)
<1>1. /\ wire \in Seq(Message) /\ wire' \in Seq(Message)
      /\ Len(wire) <= Len(wire')
      /\ \A i \in 1..Len(wire) : wire'[i] = wire[i]
      /\ \A i \in Len(wire) + 1 .. Len(wire') :
           \/ wire'[i].type = "access.revoke"
           \/ i = Len(wire') /\ wire'[i] = ListOf(calls[c])
  BY SendShape DEF TypeOK
<1>2. /\ DOMAIN wire = 1..Len(wire) /\ DOMAIN wire' = 1..Len(wire')
      /\ Len(wire) \in Nat /\ Len(wire') \in Nat
  BY <1>1
<1>3. /\ IsFiniteSet(Holding(d)) /\ Cardinality(Holding(d)) \in Nat
      /\ IsFiniteSet(Naming(d)) /\ Cardinality(Naming(d)) \in Nat
      /\ IsFiniteSet(Naming(d)')
  BY CountsAreFinite, CountsStayFinite
<1>4. /\ calls \in [Calls -> {Idle, Reading} \cup Snapshot]
      /\ calls[c].step = "holding" /\ calls' = [calls EXCEPT ![c] = Idle]
      /\ devices' = devices
  BY DEF SyncSend, relay, gate, TypeOK
<1>5. Holding(d)' = Holding(d) \ {c}
  BY <1>4 DEF Holding, Idle
<1>6. CASE d \in calls[c].listed
  <2>1. c \in Holding(d)
    BY <1>4, <1>6 DEF Holding
  <2>2. Cardinality(Holding(d)') = Cardinality(Holding(d)) - 1
    BY <1>3, <1>5, <2>1, FS_RemoveElement
  <2>3. Naming(d)' \subseteq Naming(d) \cup {Len(wire')}
    <3>1. SUFFICES ASSUME NEW i \in Naming(d)', i # Len(wire')
                   PROVE  i \in Naming(d)
      OBVIOUS
    <3>2. i \in 1..Len(wire') /\ wire'[i].type = "access.sync" /\ d \in wire'[i].listed
      BY <1>2 DEF Naming
    <3>3. ~(wire'[i].type = "access.revoke")
      BY <3>2
    <3>4. i \notin Len(wire) + 1 .. Len(wire')
      BY <1>1, <3>1, <3>3
    <3>5. i \in 1..Len(wire)
      BY <1>2, <3>2, <3>4
    <3>6. QED
      BY <1>1, <1>2, <3>2, <3>5 DEF Naming
  <2>4. /\ IsFiniteSet(Naming(d) \cup {Len(wire')})
        /\ Cardinality(Naming(d) \cup {Len(wire')}) \in Nat
        /\ Cardinality(Naming(d) \cup {Len(wire')}) <= Cardinality(Naming(d)) + 1
    <3>. DEFINE N == Naming(d)  l == Len(wire')
    <3>1. IsFiniteSet(N) /\ Cardinality(N) \in Nat
      BY <1>3
    <3>. HIDE DEF N, l
    <3>2. /\ IsFiniteSet(N \cup {l})
          /\ Cardinality(N \cup {l}) = IF l \in N THEN Cardinality(N) ELSE Cardinality(N) + 1
      BY <3>1, FS_AddElement
    <3>3. QED
      BY <3>1, <3>2 DEF N, l
  <2>5. /\ Cardinality(Naming(d)') <= Cardinality(Naming(d) \cup {Len(wire')})
        /\ Cardinality(Naming(d)') \in Nat
    BY <1>3, <2>3, <2>4, FS_Subset, FS_CardinalityType
  <2>6. QED
    BY <1>3, <1>4, <2>2, <2>4, <2>5 DEF Outstanding
<1>7. CASE d \notin calls[c].listed
  <2>1. Holding(d)' \subseteq Holding(d)
    BY <1>5
  <2>2. \A i \in Naming(d)' : i + 0 \in Naming(d)
    <3>1. SUFFICES ASSUME NEW i \in Naming(d)' PROVE i \in Naming(d)
      BY <1>2 DEF Naming
    <3>2. i \in 1..Len(wire') /\ wire'[i].type = "access.sync" /\ d \in wire'[i].listed
      BY <1>2 DEF Naming
    <3>3. ~(wire'[i].type = "access.revoke") /\ wire'[i] # ListOf(calls[c])
      BY <1>7, <3>2 DEF ListOf
    <3>4. i \notin Len(wire) + 1 .. Len(wire')
      BY <1>1, <3>3
    <3>5. i \in 1..Len(wire)
      BY <1>2, <3>2, <3>4
    <3>6. QED
      BY <1>1, <1>2, <3>2, <3>5 DEF Naming
  <2>3. QED
    BY <1>4, <2>1, <2>2, NoneAdded
<1>8. QED
  BY <1>6, <1>7

LEMMA HostRunsOut ==
  ASSUME TypeOK, TypeOK', NEW d \in Unreadable,
         \/ \E c \in Calls : Sync(c)
         \/ AccountsSync \/ Heartbeat \/ HostClose \/ Open
  PROVE  /\ Outstanding(d)' <= Outstanding(d)
         /\ d \in devices' \ devices => Outstanding(d)' < Outstanding(d)
<1>. USE DEF relay, gate, host
<1>. d \in Devices
  BY DEF Unreadable
<1>0. /\ wire \in Seq(Message) /\ Len(wire) \in Nat /\ DOMAIN wire = 1..Len(wire)
      /\ calls \in [Calls -> {Idle, Reading} \cup Snapshot]
  BY DEF TypeOK
<1>1. ASSUME NEW c \in Calls, SyncStart(c) \/ SyncRead(c) \/ SyncFail(c)
      PROVE  /\ Outstanding(d)' <= Outstanding(d)
             /\ d \in devices' \ devices => Outstanding(d)' < Outstanding(d)
  <2>1. wire' = wire /\ devices' = devices
    BY <1>1 DEF SyncStart, SyncRead, SyncFail
  <2>2. Holding(d)' \subseteq Holding(d)
    <3>1. \A x \in Calls \ {c} : calls'[x] = calls[x]
      BY <1>0, <1>1 DEF SyncStart, Started, SyncRead, SyncFail
    <3>2. calls'[c].step = "holding" => calls'[c].listed = Readable
      BY <1>0, <1>1 DEF SyncStart, Started, SyncRead, SyncFail, Idle, Reading
    <3>3. QED
      BY <3>1, <3>2 DEF Holding, Readable, Unreadable
  <2>3. \A i \in Naming(d)' : i + 0 \in Naming(d)
    BY <1>0, <2>1 DEF Naming
  <2>4. QED
    BY <2>1, <2>2, <2>3, NoneAdded
<1>2. ASSUME NEW c \in Calls, SyncSend(c)
      PROVE  /\ Outstanding(d)' <= Outstanding(d)
             /\ d \in devices' \ devices => Outstanding(d)' < Outstanding(d)
  BY <1>2, SendRunsOut
<1>3. ASSUME NEW m \in Message, m.type # "access.sync", wire' = Sent(<<m>>),
             calls' = calls, devices' = devices
      PROVE  /\ Outstanding(d)' <= Outstanding(d)
             /\ d \in devices' \ devices => Outstanding(d)' < Outstanding(d)
  <2>1. /\ wire' \in Seq(Message) /\ Len(wire) <= Len(wire')
        /\ \A i \in 1..Len(wire) : wire'[i] = wire[i]
        /\ \A i \in Len(wire) + 1 .. Len(wire') : wire'[i] = m
    BY <1>3, SentShape
  <2>2. \A i \in Naming(d)' : i + 0 \in Naming(d)
    <3>1. Len(wire') \in Nat
      BY <2>1
    <3>2. \A i \in 1..Len(wire') :
            \/ wire'[i].type # "access.sync"
            \/ i + 0 \in 1..Len(wire) /\ wire'[i] = wire[i + 0]
      BY <1>0, <1>3, <2>1, <3>1
    <3>3. QED
      BY <3>2, NamingKept
  <2>3. Holding(d)' \subseteq Holding(d)
    BY <1>3 DEF Holding
  <2>4. QED
    BY <1>3, <2>2, <2>3, NoneAdded
<1>4. CASE AccountsSync
  <2>1. [type |-> "accounts.sync", account |-> worker] \in Message
    BY MessageTypes DEF TypeOK
  <2>2. /\ wire' = Sent(<<[type |-> "accounts.sync", account |-> worker]>>)
        /\ calls' = calls /\ devices' = devices
    BY <1>4 DEF AccountsSync
  <2>3. QED
    BY <1>3, <2>1, <2>2
<1>5. CASE Heartbeat
  <2>1. wire' = Sent(<<[type |-> "heartbeat"]>>) /\ calls' = calls /\ devices' = devices
    BY <1>5 DEF Heartbeat
  <2>2. QED
    BY <1>3, <2>1, MessageTypes
<1>6. CASE HostClose
  <2>1. PICK n \in 0..Len(wire) : wire' = SubSeq(wire, 1, n)
    BY <1>6 DEF HostClose
  <2>2. Len(wire') = n /\ \A i \in 1..n : wire'[i] = wire[i]
    BY <2>1, PrefixShape
  <2>3. \A i \in 1..Len(wire') :
          \/ wire'[i].type # "access.sync"
          \/ i + 0 \in 1..Len(wire) /\ wire'[i] = wire[i + 0]
    BY <1>0, <2>2
  <2>4. Holding(d)' \subseteq Holding(d) /\ devices' = devices
    BY <1>6 DEF HostClose, Holding
  <2>5. QED
    BY <2>3, <2>4, NamingKept, NoneAdded
<1>7. CASE Open
  <2>1. wire' = wire \/ wire' = <<[type |-> "register"]>>
    BY <1>7 DEF Open
  <2>2. \A i \in 1..Len(wire') :
          \/ wire'[i].type # "access.sync"
          \/ i + 0 \in 1..Len(wire) /\ wire'[i] = wire[i + 0]
    BY <1>0, <2>1
  <2>3. Holding(d)' \subseteq Holding(d)
    <3>1. \A x \in Calls : calls'[x] = calls[x] \/ calls'[x] = Reading
      BY <1>0, <1>7 DEF Open, Started
    <3>2. QED
      BY <3>1 DEF Holding, Reading
  <2>4. devices' = devices
    BY <1>7 DEF Open
  <2>5. QED
    BY <2>2, <2>3, <2>4, NamingKept, NoneAdded
<1>8. QED
  BY <1>1, <1>2, <1>4, <1>5, <1>6, <1>7 DEF Sync

(* The relay takes a message, and takes the token up only from a list that  *)
(* names it.                                                                *)
LEMMA DeliverRunsOut ==
  ASSUME TypeOK, TypeOK', NEW d \in Devices, Deliver
  PROVE  /\ Outstanding(d)' <= Outstanding(d)
         /\ d \in devices' \ devices => Outstanding(d)' < Outstanding(d)
<1>. USE DEF host, gate
<1>1. wire # <<>> /\ calls' = calls
  BY DEF Deliver, DeliverRegister, DeliverHeartbeat, DeliverRevoke, DeliverAccess,
         DeliverAccounts, Arrives, Taken, FailClosed
<1>2. Holding(d)' \subseteq Holding(d)
  BY <1>1 DEF Holding
<1>3. /\ wire \in Seq(Message) /\ Len(wire) \in Nat \ {0} /\ DOMAIN wire = 1..Len(wire)
      /\ Head(wire) = wire[1] /\ Tail(wire) \in Seq(Message)
      /\ Len(Tail(wire)) = Len(wire) - 1
      /\ \A i \in 1..Len(wire) - 1 : Tail(wire)[i] = wire[i + 1]
  BY <1>1, TakenShape DEF TypeOK
<1>4. ASSUME wire' = Tail(wire)
      PROVE  \A i \in Naming(d)' : i + 1 \in Naming(d) \ {1}
  <2>1. \A i \in 1..Len(wire') :
          \/ wire'[i].type # "access.sync"
          \/ i + 1 \in 1..Len(wire) /\ wire'[i] = wire[i + 1]
    BY <1>3, <1>4
  <2>2. \A i \in Naming(d)' : i + 1 \in Naming(d)
    BY <2>1, NamingKept
  <2>3. \A i \in Naming(d)' : i \in Nat /\ i # 0
    BY CountsStayFinite
  <2>4. QED
    BY <2>2, <2>3
<1>5. ASSUME FailClosed
      PROVE  /\ Outstanding(d)' <= Outstanding(d)
             /\ d \in devices' \ devices => Outstanding(d)' < Outstanding(d)
  BY <1>1, <1>5, EmptyRunsOut DEF FailClosed
<1>6. ASSUME wire' = Tail(wire), devices' \subseteq devices
      PROVE  /\ Outstanding(d)' <= Outstanding(d)
             /\ d \in devices' \ devices => Outstanding(d)' < Outstanding(d)
  BY <1>2, <1>4, <1>6, NoneAdded
<1>7. CASE DeliverRegister \/ DeliverHeartbeat \/ DeliverRevoke
  BY <1>6, <1>7 DEF DeliverRegister, DeliverHeartbeat, DeliverRevoke, Taken
<1>8. CASE DeliverAccounts
  BY <1>5, <1>6, <1>8 DEF DeliverAccounts, Taken
<1>9. CASE DeliverAccess
  <2>1. CASE ~registered
    BY <1>5, <1>9, <2>1 DEF DeliverAccess
  <2>2. CASE registered /\ d \in devices' \ devices
    <3>1. /\ wire' = Tail(wire) /\ Head(wire).type = "access.sync"
          /\ d \in Head(wire).listed
      BY <1>9, <2>2 DEF DeliverAccess, Arrives, Taken, ApplyAccessSync, Admitted
    <3>2. 1 \in Naming(d)
      BY <1>3, <3>1 DEF Naming
    <3>3. /\ IsFiniteSet(Naming(d) \ {1})
          /\ Cardinality(Naming(d) \ {1}) = Cardinality(Naming(d)) - 1
          /\ Naming(d) \ {1} \in SUBSET Int /\ Naming(d)' \in SUBSET Int
      <4>1. /\ IsFiniteSet(Naming(d)) /\ Naming(d) \in SUBSET Int
            /\ Naming(d)' \in SUBSET Int
        BY CountsAreFinite, CountsStayFinite
      <4>2. QED
        BY <3>2, <4>1, FS_RemoveElement
    <3>4. Cardinality(Naming(d)') <= Cardinality(Naming(d)) - 1
      <4>1. 1 \in Int /\ \A i \in Naming(d)' : i + 1 \in Naming(d) \ {1}
        BY <1>4, <3>1
      <4>2. Cardinality(Naming(d)') <= Cardinality(Naming(d) \ {1})
        BY <3>3, <4>1, ShiftedCount, Zenon
      <4>3. QED
        BY <3>3, <4>2
    <3>5. Cardinality(Holding(d)') <= Cardinality(Holding(d))
      BY <1>2, CountsAreFinite, FS_Subset
    <3>6. /\ Cardinality(Naming(d)') \in Nat /\ Cardinality(Holding(d)') \in Nat
          /\ Cardinality(Naming(d)) \in Nat /\ Cardinality(Holding(d)) \in Nat
      BY CountsAreFinite, CountsStayFinite
    <3>7. QED
      BY <3>4, <3>5, <3>6 DEF Outstanding
  <2>3. CASE registered /\ d \notin devices' \ devices
    <3>1. wire' = Tail(wire)
      BY <1>9, <2>3 DEF DeliverAccess, Taken
    <3>2. \A i \in Naming(d)' : i + 1 \in Naming(d)
      BY <1>4, <3>1
    <3>3. 1 \in Nat
      OBVIOUS
    <3>4. QED
      BY <1>2, <2>3, <3>2, <3>3, NoneAdded, Zenon
  <2>4. QED
    BY <2>1, <2>2, <2>3
<1>10. QED
  BY <1>7, <1>8, <1>9 DEF Deliver

LEMMA RelayRunsOut ==
  ASSUME TypeOK, TypeOK', NEW d \in Devices,
         \/ Accept \/ TunnelClosed \/ PruneState \/ Tick
         \/ WorkerChanges \/ UNCHANGED vars
         \/ \E x \in Devices : \/ ClientConnect(x) \/ ClientLeave(x)
                               \/ Admit(x) \/ Withdraw(x) \/ Meter(x) \/ Expire(x)
  PROVE  /\ Outstanding(d)' <= Outstanding(d)
         /\ d \in devices' \ devices => Outstanding(d)' < Outstanding(d)
<1>. USE DEF host, relay, gate
<1>1. calls' = calls
  BY DEF Accept, TunnelClosed, PruneState, Tick, WorkerChanges, vars, ClientConnect,
         ClientLeave, Admit, Withdraw, Meter, Expire
<1>2. (wire' = <<>> /\ devices' = {}) \/ (wire' = wire /\ devices' \subseteq devices)
  BY DEF Accept, TunnelClosed, PruneState, Tick, WorkerChanges, vars, ClientConnect,
         ClientLeave, Admit, Withdraw, Meter, Expire, FailClosed
<1>3. CASE wire' = <<>> /\ devices' = {}
  BY <1>1, <1>3, EmptyRunsOut
<1>4. CASE wire' = wire /\ devices' \subseteq devices
  <2>1. Holding(d)' \subseteq Holding(d)
    BY <1>1 DEF Holding
  <2>2. \A i \in Naming(d)' : i + 0 \in Naming(d)
    <3>1. Naming(d) \subseteq 1..Len(wire) /\ Len(wire) \in Nat
      BY CountsAreFinite
    <3>2. Naming(d)' = Naming(d)
      BY <1>4 DEF Naming
    <3>3. QED
      BY <3>1, <3>2
  <2>3. QED
    BY <1>4, <2>1, <2>2, NoneAdded
<1>5. QED
  BY <1>2, <1>3, <1>4

(* However many calls overlap, fail or outlive a tunnel: a token that can   *)
(* no longer be read is only ever taken up again from a list read before,   *)
(* each such list serves once, and no list names it anew (syncAccess of     *)
(* host-agent.ts, access.sync and access.revoke of relay.ts).               *)
THEOREM StaleListsEnd == Spec => StaleListsRunOut
<1>. Unreadable \subseteq Devices
  BY DEF Unreadable
<1>1. ASSUME TypeOK, TypeOK', [Next]_vars
      PROVE  [\A d \in Unreadable :
                /\ Outstanding(d)' <= Outstanding(d)
                /\ d \in devices' \ devices => Outstanding(d)' < Outstanding(d)]_vars
  <2>1. SUFFICES ASSUME NEW d \in Unreadable
                 PROVE  /\ Outstanding(d)' <= Outstanding(d)
                        /\ d \in devices' \ devices => Outstanding(d)' < Outstanding(d)
    OBVIOUS
  <2>2. QED
    BY <1>1, HostRunsOut, DeliverRunsOut, RelayRunsOut DEF Next
<1>2. QED
  BY <1>1, SyncTypes, PTL DEF Spec, StaleListsRunOut
=============================================================================
