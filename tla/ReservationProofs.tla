--------------------------- MODULE ReservationProofs ---------------------------
(* Reservations, for any number of them, of accounts, transactions, calls    *)
(* and ticks: they do not overlap; tokens are of granted reservations, one   *)
(* customer to an account, linked once, and end with their session; grants   *)
(* decided at the same time fit into the week they share.                    *)
EXTENDS Reservation, FiniteSetTheorems, WellFoundedInduction, TLAPS

TxType == [step : {"begun", "checked"}, r : Reservations, account : Accounts, start : Times,
           approved : BOOLEAN, budget : 0..DefaultBudget]

CallType == [step : {"cancelling"}, r : Reservations]
            \cup [step : {"issuing"}, r : Reservations, linked : BOOLEAN]
            \cup [step : {"linking", "undoing", "ending"}, r : Reservations, n : 1..MaxTokens]

DataTypes ==
  /\ row \in [Reservations -> Row \cup {Null}]
  /\ busy \in [Reservations -> [start : Int, end : Int] \cup {Null}]
  /\ week \in [Accounts -> Week \cup {Null}]
  /\ consumed \in [Reservations -> 0..MaxConsumed]
  /\ inbox \subseteq [r : Reservations, call : Calls \cup {Null}]
  /\ tokens \subseteq [r : Reservations, n : 1..MaxTokens]
  /\ issued \in [Reservations -> 0..MaxTokens]
  /\ seen \in [Accounts -> Week]
  /\ late \subseteq Reservations /\ failed \subseteq Reservations
  /\ now \in Times

TxTypes ==
  /\ tx = [t \in Txs |-> tx[t]]
  /\ \A t \in Txs : tx[t] # NoTx => tx[t] \in TxType

CallTypes ==
  /\ call = [c \in Calls |-> call[c]]
  /\ \A c \in Calls : call[c] # NoCall => call[c] \in CallType /\ row[call[c].r] # Null

Types == DataTypes /\ TxTypes /\ CallTypes

(* A transaction works on a reservation that is new or pending, and no other *)
(* transaction does.                                                         *)
TxOwns ==
  \A t \in Txs : tx[t] # NoTx =>
    /\ row[tx[t].r] = Null \/ row[tx[t].r].approval = "pending"
    /\ \A u \in Txs : tx[u] # NoTx /\ tx[u].r = tx[t].r => u = t

(* Only approved reservations have a device.                                 *)
DeviceApproved ==
  \A r \in Reservations : row[r] # Null /\ row[r].device # 0 => row[r].approval = "approved"

(* A reservation was granted, and is unless it was cancelled late.           *)
WasGranted(r) == /\ row[r] # Null
                 /\ row[r].approval = "approved" /\ row[r].start <= now
                 /\ row[r].status = "scheduled" \/ r \in late

(* A request at the host is that of the call it names, or the call failed.   *)
RequestOfCall ==
  \A m \in inbox : IF m.call = Null THEN m.r \in failed
                   ELSE call[m.call].step = "issuing" /\ call[m.call].r = m.r

(* A call that asked for a token knows whether there was a device.           *)
LinkedKnown ==
  \A c \in Calls : call[c].step = "issuing" /\ call[c].linked => row[call[c].r].device # 0

SessionSteps == {"issuing", "linking", "undoing"}

SessionsGranted ==
  /\ \A m \in inbox : WasGranted(m.r)
  /\ \A c \in Calls : call[c].step \in SessionSteps => WasGranted(call[c].r)
  /\ \A k \in tokens : WasGranted(k.r)

(* A token has a device beside it or a call that is about to see to it. *)
SeenTo(k) == \E c \in Calls : /\ call[c].step \in {"linking", "undoing"}
                              /\ call[c].r = k.r /\ call[c].n = k.n

TokensSeenTo == \A k \in tokens : k.r \notin failed => row[k.r].device # 0 \/ SeenTo(k)

Table == TxOwns /\ DeviceApproved /\ BusyExact /\ NoOverlap
Sessions == RequestOfCall /\ LinkedKnown /\ SessionsGranted /\ OneCustomer /\ TokensSeenTo
IInv == Types /\ Table /\ Sessions

-------------------------------------------------------------------------------
LEMMA SlotEndTime == \A s \in Times : SlotEnd(s) \in Int
<1> TAKE s \in Times
<1>1. s \in Int /\ SlotTicks \in Int /\ SlotTicks > 0
  BY ReservationAssumption DEF Times
<1>2. s \div SlotTicks \in Int
  BY <1>1
<1>3. QED BY <1>1, <1>2 DEF SlotEnd

LEMMA WeekInt ==
  ASSUME NEW w \in Week
  PROVE  w.used \in Int /\ w.reset \in Int
<1>1. w.used \in Usages /\ w.reset \in Resets
  BY DEF Week
<1>2. Usages \subseteq Int /\ Resets \subseteq Int
  BY ReservationAssumption
<1>3. QED BY <1>1, <1>2

LEMMA RowFields ==
  ASSUME NEW x \in Row \cup {Null}
  PROVE  x # Null <=> x \in Row
BY NullAssumption

(* Writing a row through the trigger keeps the types of the table.           *)
LEMMA PutTypes ==
  ASSUME Types, NEW r \in Reservations, NEW x \in Row, Put(r, x)
  PROVE  /\ row' \in [Reservations -> Row \cup {Null}]
         /\ busy' \in [Reservations -> [start : Int, end : Int] \cup {Null}]
         /\ \A q \in Reservations : row'[q] = IF q = r THEN x ELSE row[q]
         /\ \A q \in Reservations : busy'[q] = IF q = r THEN SyncBusy(r, x) ELSE busy[q]
         /\ x # Null
<1>1. /\ row \in [Reservations -> Row \cup {Null}]
      /\ busy \in [Reservations -> [start : Int, end : Int] \cup {Null}]
  BY DEF Types, DataTypes
<1>2. SyncBusy(r, x) \in [start : Int, end : Int] \cup {Null}
  BY DEF SyncBusy, Window, Row
<1>3. x # Null
  BY NullAssumption
<1>4. QED BY <1>1, <1>2, <1>3 DEF Put

LEMMA PutBusyExact ==
  ASSUME Types, BusyExact, NEW r \in Reservations, NEW x \in Row, Put(r, x)
  PROVE  BusyExact'
<1>1. /\ \A q \in Reservations : row'[q] = IF q = r THEN x ELSE row[q]
      /\ \A q \in Reservations : busy'[q] = IF q = r THEN SyncBusy(r, x) ELSE busy[q]
  BY PutTypes
<1>2. QED BY <1>1 DEF BusyExact, SyncBusy, Window, Occupies

(* A row that keeps its window, and holds a place only if it did before,     *)
(* overlaps no more than it did.                                             *)
LEMMA PutNoOverlap ==
  ASSUME Types, NoOverlap, NEW r \in Reservations, NEW x \in Row, Put(r, x),
         Occupies(x) => /\ Occupies(row[r]) /\ x.account = row[r].account
                        /\ x.start = row[r].start /\ x.end = row[r].end
  PROVE  NoOverlap'
<1>1. \A q \in Reservations : row'[q] = IF q = r THEN x ELSE row[q]
  BY PutTypes
<1>2. QED BY <1>1 DEF NoOverlap, Occupies

(* A row that a call changes: no transaction works on it.                    *)
LEMMA PutTable ==
  ASSUME Types, Table, NEW r \in Reservations, NEW x \in Row, Put(r, x), ~RowLocked(r), tx' = tx,
         x.device # 0 => x.approval = "approved",
         Occupies(x) => /\ Occupies(row[r]) /\ x.account = row[r].account
                        /\ x.start = row[r].start /\ x.end = row[r].end
  PROVE  Table'
<1>1. \A q \in Reservations : row'[q] = IF q = r THEN x ELSE row[q]
  BY PutTypes
<1>2. TxOwns'
  <2>1. \A t \in Txs : tx[t] # NoTx => tx[t].r # r /\ tx[t].r \in Reservations
    BY DEF RowLocked, Types, TxTypes, TxType
  <2>2. QED BY <1>1, <2>1 DEF Table, TxOwns
<1>3. DeviceApproved'
  BY <1>1 DEF Table, DeviceApproved
<1>4. BusyExact' /\ NoOverlap'
  BY PutBusyExact, PutNoOverlap DEF Table
<1>5. QED BY <1>2, <1>3, <1>4 DEF Table

LEMMA TypesOK == Types => TypeOK
<1> SUFFICES ASSUME Types PROVE TypeOK
  OBVIOUS
<1>1. \A c \in Calls : call[c] # NoCall => call[c].r \in Reservations
  BY DEF Types, CallTypes, CallType
<1>2. QED BY <1>1 DEF Types, DataTypes, TxTypes, TxType, CallTypes, TypeOK

LEMMA InvInit == Init => IInv
<1> SUFFICES ASSUME Init PROVE IInv
  OBVIOUS
<1> USE ReservationAssumption
<1>1. DataTypes
  <2>1. /\ row \in [Reservations -> Row \cup {Null}]
        /\ busy \in [Reservations -> [start : Int, end : Int] \cup {Null}]
        /\ week \in [Accounts -> Week \cup {Null}]
    BY DEF Init
  <2>2. /\ 0 \in 0..MaxConsumed /\ 0 \in 0..MaxTokens /\ 0 \in 0..FullPercent /\ 0 \in Times
    BY DEF Times
  <2>3. QED BY <2>1, <2>2 DEF Init, DataTypes
<1>2. Types
  BY <1>1 DEF Init, Types, TxTypes, CallTypes
<1>3. Table
  BY DEF Init, Table, TxOwns, DeviceApproved, BusyExact, NoOverlap, Occupies
<1>4. Sessions
  BY DEF Init, Sessions, RequestOfCall, LinkedKnown, SessionsGranted, OneCustomer, TokensSeenTo,
         SessionSteps, NoCall
<1>5. QED BY <1>2, <1>3, <1>4 DEF IInv

-------------------------------------------------------------------------------
(* Steps of transactions.                                                    *)
LEMMA TxGoes ==
  ASSUME TxTypes, NEW t \in Txs, NEW x, tx' = [tx EXCEPT ![t] = x], x = NoTx \/ x \in TxType
  PROVE  TxTypes' /\ \A u \in Txs : tx'[u] = IF u = t THEN x ELSE tx[u]
<1>1. tx = [u \in Txs |-> tx[u]]
  BY DEF TxTypes
<1>2. tx' = [u \in Txs |-> IF u = t THEN x ELSE tx[u]]
  BY <1>1
<1>3. QED BY <1>2 DEF TxTypes

(* Sessions are as they were where rows that were granted keep what they say *)
(* and no call takes part in a session or leaves one.                        *)
LEMMA SessionsKept ==
  ASSUME Types, Types', Sessions, now <= now',
         inbox' \subseteq inbox, tokens' \subseteq tokens, failed' = failed,
         \A r \in Reservations : WasGranted(r) =>
             /\ WasGranted(r)' /\ row'[r].end = row[r].end /\ row'[r].account = row[r].account
             /\ row[r].device # 0 => row'[r].device # 0,
         \A c \in Calls : \/ call'[c] = call[c]
                          \/ call[c].step \notin SessionSteps /\ call'[c].step \notin SessionSteps
  PROVE  Sessions'
<1>1. /\ \A m \in inbox : m.r \in Reservations /\ m.call \in Calls \cup {Null} /\ WasGranted(m.r)
      /\ \A k \in tokens : k.r \in Reservations /\ WasGranted(k.r)
  BY DEF Types, DataTypes, Sessions, SessionsGranted
<1>2. \A c \in Calls : call[c].step \in SessionSteps => call[c].r \in Reservations /\ WasGranted(call[c].r)
  BY DEF Types, CallTypes, CallType, NoCall, SessionSteps, Sessions, SessionsGranted
<1>3. RequestOfCall'
  BY <1>1 DEF Sessions, RequestOfCall, SessionSteps
<1>4. LinkedKnown'
  BY <1>2 DEF Sessions, LinkedKnown, SessionSteps
<1>5. SessionsGranted'
  BY <1>1, <1>2 DEF SessionsGranted
<1>7. OneCustomer'
  BY <1>1 DEF Sessions, OneCustomer
<1>8. \A k \in tokens : SeenTo(k) => SeenTo(k)'
  BY DEF SeenTo, SessionSteps
<1>9. TokensSeenTo'
  BY <1>1, <1>8 DEF Sessions, TokensSeenTo
<1>10. QED BY <1>3, <1>4, <1>5, <1>7, <1>9 DEF Sessions

(* Nothing but the clock changes for sessions.                               *)
LEMMA SessionsStay ==
  ASSUME Types, Types', Sessions, now <= now', row' = row, late' = late,
         inbox' = inbox, tokens' \subseteq tokens, failed' = failed,
         \A c \in Calls : \/ call'[c] = call[c]
                          \/ call[c].step \notin SessionSteps /\ call'[c].step \notin SessionSteps
  PROVE  Sessions'
<1>1. \A r \in Reservations : WasGranted(r) => WasGranted(r)'
  <2> SUFFICES ASSUME NEW r \in Reservations, WasGranted(r) PROVE row[r].start <= now'
    BY DEF WasGranted
  <2>1. row[r].start \in Int /\ now \in Int /\ now' \in Int /\ row[r].start <= now
    BY DEF WasGranted, Types, DataTypes, Row, Times
  <2>2. QED BY <2>1
<1>2. QED BY <1>1, SessionsKept

(* Calls and rows stay: a transaction begins, goes on or is rolled back.     *)
LEMMA TxKeeps ==
  ASSUME IInv, NEW t \in Txs, NEW x, tx' = [tx EXCEPT ![t] = x],
         UNCHANGED <<table, readings, access, now, late>>, seen' \in [Accounts -> Week],
         \/ x = NoTx
         \/ /\ x \in TxType
            /\ \/ tx[t] # NoTx /\ x.r = tx[t].r
               \/ ~RowLocked(x.r) /\ (row[x.r] = Null \/ row[x.r].approval = "pending")
  PROVE  IInv'
<1>0. /\ row' = row /\ busy' = busy /\ week' = week /\ consumed' = consumed /\ now' = now
      /\ late' = late /\ call' = call /\ inbox' = inbox /\ tokens' = tokens
      /\ issued' = issued /\ failed' = failed
  BY DEF table, readings, access
<1>1. TxTypes' /\ \A u \in Txs : tx'[u] = IF u = t THEN x ELSE tx[u]
  BY TxGoes DEF IInv, Types
<1>2. Types'
  BY <1>0, <1>1 DEF IInv, Types, DataTypes, CallTypes
<1>3. TxOwns'
  BY <1>0, <1>1 DEF IInv, Table, TxOwns, RowLocked
<1>4. Table'
  BY <1>0, <1>3 DEF IInv, Table, DeviceApproved, BusyExact, NoOverlap
<1>5. now <= now'
  BY <1>0 DEF IInv, Types, DataTypes, Times
<1>6. Sessions'
  BY <1>0, <1>2, <1>5, SessionsStay DEF IInv
<1>7. QED BY <1>2, <1>4, <1>6 DEF IInv

LEMMA BeginKeeps ==
  ASSUME IInv, NEW t \in Txs, NEW r \in Reservations, NEW a \in Accounts, NEW s \in Times,
         NEW approved \in BOOLEAN, NEW budget \in 0..DefaultBudget,
         Begin(t, r, a, s, approved, budget),
         row[r] = Null \/ row[r].approval = "pending"
  PROVE  IInv'
<1> DEFINE x == [step |-> "begun", r |-> r, account |-> a, start |-> s,
                 approved |-> approved, budget |-> budget]
<1>1. x \in TxType
  BY ReservationAssumption DEF TxType
<1>2. tx' = [tx EXCEPT ![t] = x] /\ ~RowLocked(r)
      /\ UNCHANGED <<table, readings, access, now, late>> /\ seen' \in [Accounts -> Week]
  BY DEF Begin, IInv, Types, DataTypes
<1>3. x.r = r
  OBVIOUS
<1> HIDE DEF x
<1>4. QED BY <1>1, <1>2, <1>3, TxKeeps

LEMMA CheckKeeps ==
  ASSUME IInv, NEW t \in Txs, CheckCapacity(t)
  PROVE  IInv'
<1> DEFINE x == [tx[t] EXCEPT !.step = "checked"]
<1>1. tx[t] \in TxType /\ tx[t] # NoTx
  BY DEF CheckCapacity, IInv, Types, TxTypes, NoTx
<1>2. seen' \in [Accounts -> Week]
  <2>1. /\ week \in [Accounts -> Week \cup {Null}] /\ seen \in [Accounts -> Week]
        /\ tx[t].account \in Accounts
    BY <1>1 DEF IInv, Types, DataTypes, TxType
  <2>2. \/ seen' = seen
        \/ /\ week[tx[t].account] # Null
           /\ seen' = [seen EXCEPT ![tx[t].account] = week[tx[t].account]]
    BY DEF CheckCapacity, KnowsWeek
  <2>3. QED BY <2>1, <2>2
<1>3. tx' = [tx EXCEPT ![t] = x] /\ UNCHANGED <<table, readings, access, now, late>>
  BY <1>1 DEF CheckCapacity, IInv, Types, TxTypes
<1>4. x \in TxType /\ x.r = tx[t].r
  BY <1>1 DEF TxType
<1> HIDE DEF x
<1>5. QED BY <1>1, <1>2, <1>3, <1>4, TxKeeps

LEMMA CommitKeeps ==
  ASSUME IInv, NEW t \in Txs, Commit(t)
  PROVE  IInv'
<1> DEFINE w == tx[t]
           x == [account |-> w.account, start |-> w.start, end |-> SlotEnd(w.start),
                 status |-> "scheduled", approval |-> IF w.approved THEN "approved" ELSE "pending",
                 budget |-> w.budget, device |-> 0]
<1>1. /\ w \in TxType /\ w # NoTx
      /\ Free(w.r, w.account, w.start, SlotEnd(w.start))
      /\ Put(w.r, x)
      /\ seen' = seen
      /\ tx' = [tx EXCEPT ![t] = NoTx]
      /\ week' = week /\ consumed' = consumed /\ call' = call /\ inbox' = inbox
      /\ tokens' = tokens /\ issued' = issued /\ failed' = failed /\ now' = now /\ late' = late
  BY DEF Commit, IInv, Types, TxTypes, NoTx, readings, access
<1>2. x \in Row /\ w.r \in Reservations
  <2>1. SlotEnd(w.start) \in Int /\ w.start \in Int
    BY <1>1, SlotEndTime DEF TxType, Times
  <2>2. w.budget \in 0..FullPercent /\ 0 \in 0..MaxTokens
    BY <1>1, ReservationAssumption DEF TxType
  <2>3. QED BY <1>1, <2>1, <2>2 DEF TxType, Row
<1>3. row[w.r] = Null \/ row[w.r].approval = "pending"
  BY <1>1 DEF IInv, Table, TxOwns
<1>4. /\ x.account = w.account /\ x.start = w.start /\ x.end = SlotEnd(w.start)
      /\ x.device = 0
  OBVIOUS
<1>5. w.account \in Accounts
  BY <1>1 DEF TxType
<1> HIDE DEF x
<1>6. /\ row' \in [Reservations -> Row \cup {Null}]
      /\ busy' \in [Reservations -> [start : Int, end : Int] \cup {Null}]
      /\ \A q \in Reservations : row'[q] = IF q = w.r THEN x ELSE row[q]
      /\ x # Null
  BY <1>1, <1>2, PutTypes DEF IInv
<1>7. TxTypes' /\ \A u \in Txs : tx'[u] = IF u = t THEN NoTx ELSE tx[u]
  BY <1>1, TxGoes DEF IInv, Types
<1> HIDE DEF w
<1>8. Types'
  <2>1. DataTypes'
    BY <1>1, <1>5, <1>6 DEF IInv, Types, DataTypes
  <2>2. CallTypes'
    <3>1. \A r \in Reservations : row[r] # Null => row'[r] # Null
      BY <1>6
    <3>2. \A c \in Calls : call[c] \in CallType => call[c].r \in Reservations
      BY DEF CallType
    <3>3. QED BY <1>1, <3>1, <3>2 DEF IInv, Types, CallTypes
  <2>3. QED BY <1>7, <2>1, <2>2 DEF Types
<1>9. TxOwns'
  <2>1. \A u \in Txs : tx[u] # NoTx => tx[u].r \in Reservations
    BY DEF IInv, Types, TxTypes, TxType
  <2>2. \A u \in Txs : tx[u] # NoTx /\ u # t => tx[u].r # w.r
    BY <1>1 DEF IInv, Table, TxOwns, w
  <2>3. QED BY <1>6, <1>7, <2>1, <2>2 DEF IInv, Table, TxOwns
<1>10. DeviceApproved'
  BY <1>4, <1>6 DEF IInv, Table, DeviceApproved
<1>11. BusyExact'
  BY <1>1, <1>2, PutBusyExact DEF IInv, Table
<1>12. NoOverlap'
  <2>1. \A q \in Reservations \ {w.r} : Occupies(row[q]) /\ row[q].account = w.account
          => row[q].end <= x.start \/ x.end <= row[q].start
    <3> SUFFICES ASSUME NEW q \in Reservations \ {w.r}, Occupies(row[q]), row[q].account = w.account
                 PROVE  row[q].end <= x.start \/ x.end <= row[q].start
      OBVIOUS
    <3>1. row[q] \in Row
      BY DEF Occupies, IInv, Types, DataTypes
    <3>2. row[q].start \in Int /\ row[q].end \in Int /\ x.start \in Int /\ x.end \in Int
      BY <1>2, <3>1 DEF Row
    <3>3. ~(x.start < row[q].end /\ row[q].start < x.end)
      BY <1>1, <1>4 DEF Free, Overlap
    <3>4. QED BY <3>2, <3>3
  <2>2. \A q, r \in Reservations :
          /\ q # w.r /\ r # w.r /\ q # r /\ Occupies(row[q]) /\ Occupies(row[r])
          /\ row[q].account = row[r].account
          => row[q].end <= row[r].start \/ row[r].end <= row[q].start
    BY DEF IInv, Table, NoOverlap
  <2>3. \A q \in Reservations : Occupies(row'[q]) => q = w.r \/ Occupies(row[q])
    BY <1>6
  <2>4. QED BY <1>4, <1>6, <2>1, <2>2, <2>3 DEF NoOverlap, Occupies
<1>13. Sessions'
  <2>1. \A r \in Reservations : WasGranted(r) => r # w.r
    BY <1>3 DEF WasGranted
  <2>2. \A r \in Reservations : r # w.r => row'[r] = row[r]
    BY <1>6
  <2>3. now <= now'
    BY <1>1 DEF IInv, Types, DataTypes, Times
  <2>4. \A r \in Reservations : WasGranted(r) =>
             /\ WasGranted(r)' /\ row'[r].end = row[r].end /\ row'[r].account = row[r].account
             /\ row[r].device # 0 => row'[r].device # 0
    BY <1>1, <2>1, <2>2 DEF WasGranted
  <2>5. QED BY <1>1, <1>8, <2>3, <2>4, SessionsKept DEF IInv
<1>14. QED BY <1>8, <1>9, <1>10, <1>11, <1>12, <1>13 DEF IInv, Table

-------------------------------------------------------------------------------
(* Steps of calls.                                                           *)
LEMMA CallGoes ==
  ASSUME CallTypes, NEW c \in Calls, NEW x, Go(c, x),
         x = NoCall \/ (x \in CallType /\ row[x.r] # Null),
         \A r \in Reservations : row[r] # Null => row'[r] # Null
  PROVE  CallTypes' /\ \A d \in Calls : call'[d] = IF d = c THEN x ELSE call[d]
<1>1. call' = [d \in Calls |-> IF d = c THEN x ELSE call[d]]
  BY DEF CallTypes, Go
<1>2. \A d \in Calls : call[d] \in CallType => call[d].r \in Reservations
  BY DEF CallType
<1>3. x \in CallType => x.r \in Reservations
  BY DEF CallType
<1>4. QED BY <1>1, <1>2, <1>3 DEF CallTypes

(* A call whose step takes no part in a session goes to another such step.   *)
LEMMA CallKeeps ==
  ASSUME IInv, NEW c \in Calls, NEW x, Go(c, x), call[c].step \notin SessionSteps,
         x.step \notin SessionSteps, x = NoCall \/ (x \in CallType /\ row[x.r] # Null),
         UNCHANGED <<Others, inbox, issued, failed>>, tokens' \subseteq tokens
  PROVE  IInv'
<1>0. /\ row' = row /\ busy' = busy /\ week' = week /\ consumed' = consumed /\ now' = now
      /\ seen' = seen /\ late' = late /\ tx' = tx /\ inbox' = inbox
      /\ issued' = issued /\ failed' = failed
  BY DEF Others, table, readings
<1>1. CallTypes' /\ \A d \in Calls : call'[d] = IF d = c THEN x ELSE call[d]
  BY <1>0, CallGoes DEF IInv, Types
<1>2. Types'
  BY <1>0, <1>1 DEF IInv, Types, DataTypes, TxTypes
<1>3. Table'
  BY <1>0 DEF IInv, Table, TxOwns, DeviceApproved, BusyExact, NoOverlap
<1>4. now <= now'
  BY <1>0 DEF IInv, Types, DataTypes, Times
<1>5. Sessions'
  BY <1>0, <1>1, <1>2, <1>4, SessionsStay DEF IInv
<1>6. QED BY <1>2, <1>3, <1>5 DEF IInv

(* An update of a row that keeps its window and device, and takes a grant    *)
(* away only in time or for the record.                                      *)
LEMMA UpdateKeeps ==
  ASSUME IInv, NEW r \in Reservations, NEW approval \in {"pending", "approved", "rejected", "expired"},
         row[r] # Null, Put(r, Cancelled(row[r], approval)), ~RowLocked(r),
         WasGranted(r) => approval = "approved" /\ r \in late',
         row[r].device # 0 => approval = "approved",
         late \subseteq late', late' \subseteq Reservations,
         UNCHANGED <<readings, tx, inbox, tokens, issued, failed, now, seen>>,
         CallTypes => CallTypes' \/ call' = call,
         \A c \in Calls : \/ call'[c] = call[c]
                          \/ call[c].step \notin SessionSteps /\ call'[c].step \notin SessionSteps
  PROVE  IInv'
<1> DEFINE x == Cancelled(row[r], approval)
<1>0. /\ week' = week /\ consumed' = consumed /\ now' = now /\ seen' = seen /\ tx' = tx
      /\ inbox' = inbox /\ tokens' = tokens /\ issued' = issued /\ failed' = failed
  BY DEF readings
<1>1. row[r] \in Row
  BY DEF IInv, Types, DataTypes
<1>2. /\ x \in Row /\ x.status = "cancelled" /\ x.approval = approval /\ x.device = row[r].device
      /\ x.account = row[r].account /\ x.start = row[r].start /\ x.end = row[r].end
  BY <1>1 DEF Cancelled, Row
<1>3. ~Occupies(x)
  BY <1>2 DEF Occupies
<1> HIDE DEF x
<1>4. Put(r, x)
  BY DEF x
<1>5. /\ row' \in [Reservations -> Row \cup {Null}]
      /\ busy' \in [Reservations -> [start : Int, end : Int] \cup {Null}]
      /\ \A q \in Reservations : row'[q] = IF q = r THEN x ELSE row[q]
      /\ x # Null
  BY <1>2, <1>4, PutTypes DEF IInv
<1>6. CallTypes'
  <2>1. \A c \in Calls : call[c] \in CallType => call[c].r \in Reservations
    BY DEF CallType
  <2>2. call' = call => CallTypes'
    BY <1>5, <2>1 DEF IInv, Types, CallTypes
  <2>3. QED BY <2>2 DEF IInv, Types
<1>7. Types'
  BY <1>0, <1>5, <1>6 DEF IInv, Types, DataTypes, TxTypes
<1>8. Table'
  BY <1>0, <1>2, <1>3, <1>4, PutTable DEF IInv
<1>9. now <= now'
  BY <1>0 DEF IInv, Types, DataTypes, Times
<1>10. \A q \in Reservations : WasGranted(q) =>
             /\ WasGranted(q)' /\ row'[q].end = row[q].end /\ row'[q].account = row[q].account
             /\ row[q].device # 0 => row'[q].device # 0
  BY <1>0, <1>2, <1>5 DEF WasGranted
<1>11. Sessions'
  BY <1>0, <1>7, <1>9, <1>10, SessionsKept DEF IInv
<1>12. QED BY <1>7, <1>8, <1>11 DEF IInv

LEMMA CancelKeeps ==
  ASSUME IInv, NEW c \in Calls, CancelWrite(c)
  PROVE  IInv'
<1> DEFINE r == call[c].r
<1>1. /\ call[c].step = "cancelling" /\ ~RowLocked(r)
      /\ Put(r, Cancelled(row[r], row[r].approval))
      /\ late' = IF row[r].status = "scheduled" /\ row[r].start <= now THEN late \cup {r} ELSE late
      /\ Go(c, NoCall)
      /\ UNCHANGED <<readings, tx, inbox, tokens, issued, failed, now, seen>>
  BY DEF CancelWrite
<1>2. r \in Reservations /\ row[r] # Null
  BY <1>1 DEF IInv, Types, CallTypes, CallType, NoCall
<1>3. row[r] \in Row /\ late \subseteq Reservations
  BY <1>2 DEF IInv, Types, DataTypes
<1>4. row[r].approval \in {"pending", "approved", "rejected", "expired"}
  BY <1>3 DEF Row
<1>5. WasGranted(r) => row[r].approval = "approved" /\ r \in late'
  BY <1>1 DEF WasGranted
<1>6. row[r].device # 0 => row[r].approval = "approved"
  BY <1>2 DEF IInv, Table, DeviceApproved
<1>7. /\ \A d \in Calls : call'[d] = IF d = c THEN NoCall ELSE call[d]
      /\ NoCall.step \notin SessionSteps /\ call[c].step \notin SessionSteps
  BY <1>1 DEF Go, IInv, Types, CallTypes, NoCall, SessionSteps
<1>8. CallTypes'
  <2>1. \A q \in Reservations : row[q] # Null => row'[q] # Null
    <3>1. Cancelled(row[r], row[r].approval) \in Row
      BY <1>3 DEF Cancelled, Row
    <3>2. QED BY <1>1, <1>2, <3>1, PutTypes DEF IInv
  <2>2. QED BY <1>1, <2>1, CallGoes DEF IInv, Types
<1>9. late \subseteq late' /\ late' \subseteq Reservations
  BY <1>1, <1>2, <1>3
<1> HIDE DEF r
<1>10. QED BY <1>1, <1>2, <1>4, <1>5, <1>6, <1>7, <1>8, <1>9, UpdateKeeps

(* Steps of a session: rows stay.                                            *)
LEMMA RequestKeeps ==
  ASSUME IInv, NEW c \in Calls, NEW r \in Reservations, SessionRead(c, r)
  PROVE  IInv'
<1> DEFINE x == [step |-> "issuing", r |-> r, linked |-> row[r].device # 0]
           m == [r |-> r, call |-> c]
<1>0. /\ row' = row /\ busy' = busy /\ week' = week /\ consumed' = consumed /\ now' = now
      /\ seen' = seen /\ late' = late /\ tx' = tx /\ inbox' = inbox \cup {m}
      /\ tokens' = tokens /\ issued' = issued /\ failed' = failed
      /\ call[c] = NoCall /\ Go(c, x) /\ InSession(row[r])
  BY DEF SessionRead, Others, table, readings
<1>1. /\ x \in CallType /\ x.step = "issuing" /\ x.r = r /\ (x.linked => row[r].device # 0)
      /\ row[r] # Null
  BY <1>0 DEF CallType, InSession, Granted, Occupies
<1>2. m \in [r : Reservations, call : Calls \cup {Null}] /\ m.r = r /\ m.call = c /\ c # Null
  BY NullAssumption
<1> HIDE DEF x, m
<1>3. CallTypes' /\ \A d \in Calls : call'[d] = IF d = c THEN x ELSE call[d]
  BY <1>0, <1>1, CallGoes DEF IInv, Types
<1>4. Types'
  BY <1>0, <1>2, <1>3 DEF IInv, Types, DataTypes, TxTypes
<1>5. Table'
  BY <1>0 DEF IInv, Table, TxOwns, DeviceApproved, BusyExact, NoOverlap
<1>6. WasGranted(r)
  BY <1>0, <1>1 DEF InSession, Granted, Occupies, WasGranted
<1>7. \A q : WasGranted(q)' <=> WasGranted(q)
  BY <1>0 DEF WasGranted
<1>8. RequestOfCall'
  <2>1. \A n \in inbox : n.call # Null => n.call \in Calls /\ n.call # c
    BY <1>0 DEF IInv, Types, DataTypes, Sessions, RequestOfCall, NoCall
  <2>2. QED BY <1>0, <1>1, <1>2, <1>3, <2>1 DEF IInv, Sessions, RequestOfCall
<1>9. LinkedKnown'
  BY <1>0, <1>1, <1>3 DEF IInv, Sessions, LinkedKnown
<1>10. SessionsGranted'
  BY <1>0, <1>1, <1>2, <1>3, <1>6, <1>7 DEF IInv, Sessions, SessionsGranted
<1>11. OneCustomer'
  BY <1>0 DEF IInv, Sessions, OneCustomer
<1>12. TokensSeenTo'
  <2>1. \A k : SeenTo(k) => SeenTo(k)'
    BY <1>0, <1>3 DEF SeenTo, NoCall
  <2>2. QED BY <1>0, <2>1 DEF IInv, Sessions, TokensSeenTo
<1>13. QED BY <1>4, <1>5, <1>8, <1>9, <1>10, <1>11, <1>12 DEF IInv, Sessions

LEMMA IssueKeeps ==
  ASSUME IInv, NEW m \in inbox, HostIssues(m)
  PROVE  IInv'
<1> DEFINE n == issued[m.r] + 1
           k == [r |-> m.r, n |-> n]
           x == IF call[m.call].linked THEN NoCall ELSE [step |-> "linking", r |-> m.r, n |-> n]
<1>0. /\ row' = row /\ busy' = busy /\ week' = week /\ consumed' = consumed /\ now' = now
      /\ seen' = seen /\ late' = late /\ tx' = tx /\ failed' = failed
      /\ now < row[m.r].end /\ ~Taken(m.r) /\ issued[m.r] < MaxTokens
      /\ issued' = [issued EXCEPT ![m.r] = @ + 1]
      /\ tokens' = tokens \cup {k} /\ inbox' = inbox \ {m}
      /\ IF m.call = Null THEN call' = call ELSE Go(m.call, x)
  BY DEF HostIssues, WithinBound, Others, table, readings, NextToken
<1>1. /\ m.r \in Reservations /\ m.call \in Calls \cup {Null} /\ WasGranted(m.r) /\ row[m.r] # Null
      /\ m = [r |-> m.r, call |-> m.call]
  BY DEF IInv, Types, DataTypes, Sessions, SessionsGranted, WasGranted
<1>2. n \in 1..MaxTokens
  BY <1>0, <1>1, ReservationAssumption DEF IInv, Types, DataTypes
<1>3. k \in [r : Reservations, n : 1..MaxTokens] /\ k.r = m.r /\ k.n = n
  BY <1>1, <1>2
<1>4. m.call # Null => call[m.call].step = "issuing" /\ call[m.call].r = m.r
  BY DEF IInv, Sessions, RequestOfCall
<1>5. x = NoCall \/ (x \in CallType /\ row[x.r] # Null)
  BY <1>1, <1>2 DEF CallType
<1>6. x.step \in {"none", "linking"} /\ (x.step = "linking" => x.r = m.r /\ x.n = n)
      /\ (x.step = "none" => call[m.call].linked)
  BY DEF NoCall
<1> HIDE DEF n, k, x
<1>7. /\ CallTypes'
      /\ \A d \in Calls : call'[d] = IF m.call # Null /\ d = m.call THEN x ELSE call[d]
  <2>1. CASE m.call = Null
    BY <1>0, <2>1 DEF IInv, Types, CallTypes
  <2>2. CASE m.call # Null
    BY <1>0, <1>1, <1>5, <2>2, CallGoes DEF IInv, Types
  <2>3. QED BY <2>1, <2>2
<1>8. Types'
  <2>1. issued' \in [Reservations -> 0..MaxTokens]
    BY <1>0, <1>1, ReservationAssumption DEF IInv, Types, DataTypes
  <2>2. QED BY <1>0, <1>3, <1>7, <2>1 DEF IInv, Types, DataTypes, TxTypes
<1>9. Table'
  BY <1>0 DEF IInv, Table, TxOwns, DeviceApproved, BusyExact, NoOverlap
<1>10. \A q : WasGranted(q)' <=> WasGranted(q)
  BY <1>0 DEF WasGranted
<1>11. RequestOfCall'
  <2> SUFFICES ASSUME NEW o \in inbox, o # m
               PROVE  IF o.call = Null THEN o.r \in failed
                      ELSE call'[o.call].step = "issuing" /\ call'[o.call].r = o.r
    BY <1>0 DEF RequestOfCall
  <2>1. /\ o.call \in Calls \cup {Null} /\ o = [r |-> o.r, call |-> o.call]
        /\ IF o.call = Null THEN o.r \in failed
           ELSE call[o.call].step = "issuing" /\ call[o.call].r = o.r
    BY DEF IInv, Types, DataTypes, Sessions, RequestOfCall
  <2>2. o.call # Null => o.call # m.call
    BY <1>1, <1>4, <2>1
  <2>3. QED BY <1>7, <2>1, <2>2
<1>12. LinkedKnown'
  BY <1>0, <1>6, <1>7 DEF IInv, Sessions, LinkedKnown
<1>13. SessionsGranted'
  BY <1>0, <1>1, <1>3, <1>6, <1>7, <1>10 DEF IInv, Sessions, SessionsGranted, SessionSteps
<1>14. OneCustomer'
  <2> SUFFICES ASSUME NEW i \in tokens \cup {k}, NEW j \in tokens \cup {k},
                      row[i.r].account = row[j.r].account
               PROVE  i.r = j.r
    BY <1>0 DEF OneCustomer
  <2>1. \A o \in tokens : row[o.r].account = row[m.r].account => o.r = m.r
    BY <1>0 DEF Taken
  <2>2. QED BY <1>3, <2>1 DEF IInv, Sessions, OneCustomer
<1>15. TokensSeenTo'
  <2>1. \A o : SeenTo(o) => SeenTo(o)'
    <3> SUFFICES ASSUME NEW o, NEW c \in Calls, call[c].step \in {"linking", "undoing"},
                        call[c].r = o.r, call[c].n = o.n
                 PROVE  SeenTo(o)'
      BY DEF SeenTo
    <3>1. call'[c] = call[c]
      BY <1>4, <1>7
    <3>2. QED BY <3>1 DEF SeenTo
  <2>2. \A o : o = k /\ m.r \notin failed => row[m.r].device # 0 \/ SeenTo(o)'
    <3> SUFFICES ASSUME NEW o, o = k, m.r \notin failed, row[m.r].device = 0 PROVE SeenTo(o)'
      OBVIOUS
    <3>1. m.call \in Calls /\ m.call # Null
      BY <1>1 DEF IInv, Sessions, RequestOfCall
    <3>2. ~call[m.call].linked
      BY <1>4, <3>1 DEF IInv, Sessions, LinkedKnown
    <3>3. call'[m.call] = x /\ x.step = "linking" /\ x.r = m.r /\ x.n = n
      BY <1>6, <1>7, <3>1, <3>2
    <3>4. QED BY <1>3, <3>1, <3>3 DEF SeenTo
  <2>3. QED BY <1>0, <1>3, <2>1, <2>2 DEF IInv, Sessions, TokensSeenTo
<1>16. QED BY <1>8, <1>9, <1>11, <1>12, <1>13, <1>14, <1>15 DEF IInv, Sessions

(* The host rejects a request, or its call gives up.                         *)
LEMMA RefuseKeeps ==
  ASSUME IInv, NEW m \in inbox, HostRefuses(m)
  PROVE  IInv'
<1>0. /\ row' = row /\ busy' = busy /\ week' = week /\ consumed' = consumed /\ now' = now
      /\ seen' = seen /\ late' = late /\ tx' = tx /\ failed' = failed /\ tokens' = tokens
      /\ issued' = issued /\ inbox' = inbox \ {m}
      /\ IF m.call = Null THEN call' = call ELSE Go(m.call, NoCall)
  BY DEF HostRefuses, Others, table, readings
<1>1. /\ m.call \in Calls \cup {Null} /\ m = [r |-> m.r, call |-> m.call]
      /\ m.call # Null => call[m.call].step = "issuing" /\ call[m.call].r = m.r
  BY DEF IInv, Types, DataTypes, Sessions, RequestOfCall
<1>2. /\ CallTypes'
      /\ \A d \in Calls : call'[d] = IF m.call # Null /\ d = m.call THEN NoCall ELSE call[d]
  <2>1. CASE m.call = Null
    BY <1>0, <2>1 DEF IInv, Types, CallTypes
  <2>2. CASE m.call # Null
    BY <1>0, <1>1, <2>2, CallGoes DEF IInv, Types
  <2>3. QED BY <2>1, <2>2
<1>3. Types'
  BY <1>0, <1>2 DEF IInv, Types, DataTypes, TxTypes
<1>4. Table'
  BY <1>0 DEF IInv, Table, TxOwns, DeviceApproved, BusyExact, NoOverlap
<1>5. \A q : WasGranted(q)' <=> WasGranted(q)
  BY <1>0 DEF WasGranted
<1>6. RequestOfCall'
  <2> SUFFICES ASSUME NEW o \in inbox, o # m
               PROVE  IF o.call = Null THEN o.r \in failed
                      ELSE call'[o.call].step = "issuing" /\ call'[o.call].r = o.r
    BY <1>0 DEF RequestOfCall
  <2>1. /\ o.call \in Calls \cup {Null} /\ o = [r |-> o.r, call |-> o.call]
        /\ IF o.call = Null THEN o.r \in failed
           ELSE call[o.call].step = "issuing" /\ call[o.call].r = o.r
    BY DEF IInv, Types, DataTypes, Sessions, RequestOfCall
  <2>2. o.call # Null => o.call # m.call
    BY <1>1, <2>1
  <2>3. QED BY <1>2, <2>1, <2>2
<1>7. LinkedKnown' /\ SessionsGranted' /\ OneCustomer'
  BY <1>0, <1>2, <1>5
     DEF IInv, Sessions, LinkedKnown, SessionsGranted, OneCustomer, NoCall, SessionSteps
<1>8. \A o : SeenTo(o) => SeenTo(o)'
  BY <1>1, <1>2 DEF SeenTo
<1>9. TokensSeenTo'
  BY <1>0, <1>8 DEF IInv, Sessions, TokensSeenTo
<1>10. QED BY <1>3, <1>4, <1>6, <1>7, <1>9 DEF IInv, Sessions

LEMMA TimeoutKeeps ==
  ASSUME IInv, NEW c \in Calls, ControlTimeout(c)
  PROVE  IInv'
<1>0. /\ row' = row /\ busy' = busy /\ week' = week /\ consumed' = consumed /\ now' = now
      /\ seen' = seen /\ late' = late /\ tx' = tx /\ tokens' = tokens /\ issued' = issued
      /\ inbox' = {IF m.call = c THEN [m EXCEPT !.call = Null] ELSE m : m \in inbox}
      /\ failed' = failed \cup {call[c].r} /\ Go(c, NoCall) /\ call[c].step = "issuing"
  BY DEF ControlTimeout, Others, table, readings
<1>1. call[c].r \in Reservations
  BY <1>0 DEF IInv, Types, CallTypes, CallType, NoCall
<1>2. CallTypes' /\ \A d \in Calls : call'[d] = IF d = c THEN NoCall ELSE call[d]
  BY <1>0, CallGoes DEF IInv, Types
<1>3. \A o \in inbox' : /\ o.r \in Reservations /\ o.call \in Calls \cup {Null}
                        /\ o \in [r : Reservations, call : Calls \cup {Null}]
                        /\ \E m \in inbox : /\ o.r = m.r
                                            /\ \/ m.call = c /\ o.call = Null
                                               \/ m.call # c /\ o.call = m.call
  <2> SUFFICES ASSUME NEW m \in inbox,
                      NEW o, o = IF m.call = c THEN [m EXCEPT !.call = Null] ELSE m
               PROVE  /\ o \in [r : Reservations, call : Calls \cup {Null}]
                      /\ o.r = m.r
                      /\ \/ m.call = c /\ o.call = Null
                         \/ m.call # c /\ o.call = m.call
    BY <1>0
  <2>1. m \in [r : Reservations, call : Calls \cup {Null}]
    BY DEF IInv, Types, DataTypes
  <2>2. QED BY <2>1
<1>4. Types'
  BY <1>0, <1>1, <1>2, <1>3 DEF IInv, Types, DataTypes, TxTypes
<1>5. Table'
  BY <1>0 DEF IInv, Table, TxOwns, DeviceApproved, BusyExact, NoOverlap
<1>6. \A q : WasGranted(q)' <=> WasGranted(q)
  BY <1>0 DEF WasGranted
<1>7. RequestOfCall'
  <2> SUFFICES ASSUME NEW o \in inbox'
               PROVE  IF o.call = Null THEN o.r \in failed'
                      ELSE call'[o.call].step = "issuing" /\ call'[o.call].r = o.r
    BY DEF RequestOfCall
  <2>1. PICK m \in inbox : /\ o.r = m.r
                           /\ \/ m.call = c /\ o.call = Null
                              \/ m.call # c /\ o.call = m.call
    BY <1>3
  <2>2. /\ m.call \in Calls \cup {Null}
        /\ IF m.call = Null THEN m.r \in failed
           ELSE call[m.call].step = "issuing" /\ call[m.call].r = m.r
    BY DEF IInv, Types, DataTypes, Sessions, RequestOfCall
  <2>3. c # Null
    BY NullAssumption
  <2>4. QED BY <1>0, <1>2, <2>1, <2>2, <2>3
<1>8. LinkedKnown' /\ OneCustomer'
  BY <1>0, <1>2 DEF IInv, Sessions, LinkedKnown, OneCustomer, NoCall
<1>9. SessionsGranted'
  BY <1>0, <1>2, <1>3, <1>6 DEF IInv, Sessions, SessionsGranted, NoCall, SessionSteps
<1>10. \A o : SeenTo(o) => SeenTo(o)'
  BY <1>0, <1>2 DEF SeenTo
<1>11. TokensSeenTo'
  BY <1>0, <1>10 DEF IInv, Sessions, TokensSeenTo
<1>12. QED BY <1>4, <1>5, <1>7, <1>8, <1>9, <1>11 DEF IInv, Sessions

(* A call with a token goes on, or ends when the reservation has a device,   *)
(* the token is gone, or something failed.                                   *)
LEMMA TokenCallKeeps ==
  ASSUME IInv, NEW c \in Calls, call[c].step \in {"linking", "undoing"}, NEW x, Go(c, x),
         Types', Table', RequestOfCall',
         inbox' = inbox, tokens' \subseteq tokens, failed \subseteq failed', late' = late, now' = now,
         \A q \in Reservations : WasGranted(q) =>
             /\ WasGranted(q)' /\ row'[q].end = row[q].end /\ row'[q].account = row[q].account
             /\ row[q].device # 0 => row'[q].device # 0,
         \/ x = NoCall /\ \/ row'[call[c].r].device # 0
                          \/ call[c].r \in failed'
                          \/ tokens' = tokens \ {[r |-> call[c].r, n |-> call[c].n]}
         \/ x.step = "undoing" /\ x.r = call[c].r /\ x.n = call[c].n
  PROVE  IInv'
<1>1. \A d \in Calls : call'[d] = IF d = c THEN x ELSE call[d]
  BY DEF Go, IInv, Types, CallTypes
<1>2. /\ \A m \in inbox : m.r \in Reservations /\ WasGranted(m.r)
      /\ \A k \in tokens : k.r \in Reservations /\ WasGranted(k.r)
                           /\ k = [r |-> k.r, n |-> k.n]
      /\ \A d \in Calls : call[d].step \in SessionSteps => call[d].r \in Reservations /\ WasGranted(call[d].r)
  BY DEF IInv, Types, DataTypes, Sessions, SessionsGranted, CallTypes, CallType, NoCall, SessionSteps
<1>3. x.step # "issuing"
  BY DEF NoCall
<1>4. LinkedKnown'
  BY <1>1, <1>2, <1>3 DEF IInv, Sessions, LinkedKnown, SessionSteps
<1>5. SessionsGranted'
  BY <1>1, <1>2, <1>3 DEF SessionsGranted, SessionSteps, NoCall
<1>7. OneCustomer'
  BY <1>2 DEF IInv, Sessions, OneCustomer
<1>8. TokensSeenTo'
  <2> SUFFICES ASSUME NEW k \in tokens', k.r \notin failed', row'[k.r].device = 0
               PROVE  SeenTo(k)'
    BY DEF TokensSeenTo
  <2>1. SeenTo(k)
    BY <1>2 DEF IInv, Sessions, TokensSeenTo
  <2>2. PICK d \in Calls : /\ call[d].step \in {"linking", "undoing"}
                           /\ call[d].r = k.r /\ call[d].n = k.n
    BY <2>1 DEF SeenTo
  <2>3. CASE d # c
    BY <1>1, <2>2, <2>3 DEF SeenTo
  <2>4. CASE d = c
    <3>1. k = [r |-> call[c].r, n |-> call[c].n]
      BY <1>2, <2>2, <2>4
    <3>2. x.step = "undoing" /\ x.r = k.r /\ x.n = k.n
      BY <2>2, <2>4, <3>1
    <3>3. QED BY <1>1, <3>2 DEF SeenTo
  <2>5. QED BY <2>3, <2>4
<1>9. QED BY <1>4, <1>5, <1>7, <1>8 DEF IInv, Sessions

(* Requests at the host are not of a call that has its token.                *)
LEMMA OtherRequests ==
  ASSUME IInv, NEW c \in Calls, call[c].step \in {"linking", "undoing"}, NEW x, Go(c, x),
         inbox' = inbox, failed \subseteq failed'
  PROVE  RequestOfCall'
<1>1. \A d \in Calls : call'[d] = IF d = c THEN x ELSE call[d]
  BY DEF Go, IInv, Types, CallTypes
<1>2. \A m \in inbox : /\ m.call \in Calls \cup {Null}
                       /\ IF m.call = Null THEN m.r \in failed
                          ELSE call[m.call].step = "issuing" /\ call[m.call].r = m.r
  BY DEF IInv, Types, DataTypes, Sessions, RequestOfCall
<1>3. QED BY <1>1, <1>2 DEF RequestOfCall

(* The device is entered in the row of a session under way.                  *)
LEMMA DeviceEntered ==
  ASSUME IInv, NEW r \in Reservations, NEW n \in 1..MaxTokens, NEW c \in Calls, NEW x, Go(c, x),
         x = NoCall \/ (x \in CallType /\ row[x.r] # Null),
         row[r].device = 0, InSession(row[r]), ~RowLocked(r), Put(r, [row[r] EXCEPT !.device = n]),
         UNCHANGED <<readings, tx, inbox, tokens, issued, now, seen, late>>,
         failed' \subseteq Reservations
  PROVE  /\ Types' /\ Table'
         /\ row'[r].device # 0
         /\ \A q \in Reservations : WasGranted(q) =>
             /\ WasGranted(q)' /\ row'[q].end = row[q].end /\ row'[q].account = row[q].account
             /\ row[q].device # 0 => row'[q].device # 0
<1> DEFINE y == [row[r] EXCEPT !.device = n]
<1>0. /\ week' = week /\ consumed' = consumed /\ now' = now /\ seen' = seen /\ tx' = tx
      /\ inbox' = inbox /\ tokens' = tokens /\ issued' = issued /\ late' = late
  BY DEF readings
<1>1. row[r] \in Row /\ row[r].approval = "approved" /\ Occupies(row[r])
  BY DEF InSession, Granted, Occupies, IInv, Types, DataTypes
<1>2. n \in 0..MaxTokens /\ n # 0
  BY ReservationAssumption
<1>3. /\ y \in Row /\ y.approval = "approved" /\ y.status = row[r].status /\ y.device # 0
      /\ y.account = row[r].account /\ y.start = row[r].start /\ y.end = row[r].end
  BY <1>1, <1>2 DEF Row
<1>4. Put(r, y)
  OBVIOUS
<1> HIDE DEF y
<1>5. /\ row' \in [Reservations -> Row \cup {Null}]
      /\ busy' \in [Reservations -> [start : Int, end : Int] \cup {Null}]
      /\ \A q \in Reservations : row'[q] = IF q = r THEN y ELSE row[q]
      /\ y # Null
  BY <1>3, <1>4, PutTypes DEF IInv
<1>6. CallTypes'
  BY <1>5, CallGoes DEF IInv, Types
<1>7. Types'
  BY <1>0, <1>5, <1>6 DEF IInv, Types, DataTypes, TxTypes
<1>8. Table'
  BY <1>0, <1>1, <1>3, <1>4, PutTable DEF IInv
<1>9. QED BY <1>0, <1>3, <1>5, <1>7, <1>8 DEF WasGranted

(* Rows stay while a call with a token goes on.                              *)
LEMMA TokenCallTypes ==
  ASSUME IInv, NEW c \in Calls, NEW x, Go(c, x), x = NoCall \/ (x \in CallType /\ row[x.r] # Null),
         UNCHANGED <<table, readings, tx, inbox, issued, now, seen, late>>, tokens' \subseteq tokens,
         failed' \subseteq Reservations
  PROVE  /\ Types' /\ Table'
         /\ \A q \in Reservations : WasGranted(q) =>
             /\ WasGranted(q)' /\ row'[q].end = row[q].end /\ row'[q].account = row[q].account
             /\ row[q].device # 0 => row'[q].device # 0
<1>0. /\ row' = row /\ busy' = busy /\ week' = week /\ consumed' = consumed /\ now' = now
      /\ seen' = seen /\ tx' = tx /\ inbox' = inbox /\ issued' = issued /\ late' = late
  BY DEF table, readings
<1>1. CallTypes'
  BY <1>0, CallGoes DEF IInv, Types
<1>2. Types'
  BY <1>0, <1>1 DEF IInv, Types, DataTypes, TxTypes
<1>3. Table'
  BY <1>0 DEF IInv, Table, TxOwns, DeviceApproved, BusyExact, NoOverlap
<1>4. QED BY <1>0, <1>2, <1>3 DEF WasGranted

LEMMA LinkKeeps ==
  ASSUME IInv, NEW c \in Calls, Link(c) \/ LinkFails(c) \/ LinkThrows(c) \/ Undo(c)
  PROVE  IInv'
<1> DEFINE r == call[c].r
           n == call[c].n
           u == [call[c] EXCEPT !.step = "undoing"]
<1>1. call[c].step \in {"linking", "undoing"}
  BY DEF Link, LinkFails, LinkThrows, Undo
<1>2. /\ r \in Reservations /\ n \in 1..MaxTokens /\ row[r] # Null
      /\ u \in CallType /\ u.step = "undoing" /\ u.r = r /\ u.n = n
  BY <1>1 DEF IInv, Types, CallTypes, CallType, NoCall
<1>3. failed \subseteq Reservations
  BY DEF IInv, Types, DataTypes
<1> HIDE DEF u
<1>4. ASSUME Link(c) PROVE IInv'
  <2>1. CASE row[r].device # 0
    <3>1. /\ Go(c, NoCall) /\ row' = row
          /\ UNCHANGED <<table, readings, tx, inbox, tokens, issued, failed, now, seen, late>>
      BY <1>4, <2>1 DEF Link, table
    <3>2. QED BY <1>1, <1>3, <2>1, <3>1, TokenCallTypes, OtherRequests, TokenCallKeeps
  <2>2. CASE row[r].device = 0 /\ InSession(row[r])
    <3>1. /\ Go(c, NoCall) /\ Put(r, [row[r] EXCEPT !.device = n]) /\ ~RowLocked(r)
          /\ UNCHANGED <<readings, tx, inbox, tokens, issued, failed, now, seen, late>>
      BY <1>4, <2>2 DEF Link
    <3>2. /\ Types' /\ Table' /\ row'[r].device # 0
          /\ \A q \in Reservations : WasGranted(q) =>
               /\ WasGranted(q)' /\ row'[q].end = row[q].end /\ row'[q].account = row[q].account
               /\ row[q].device # 0 => row'[q].device # 0
      <4> HIDE DEF r, n
      <4> QED BY <1>2, <1>3, <2>2, <3>1, DeviceEntered
    <3>3. QED BY <1>1, <3>1, <3>2, OtherRequests, TokenCallKeeps
  <2>3. CASE row[r].device = 0 /\ ~InSession(row[r])
    <3>1. /\ Go(c, u)
          /\ UNCHANGED <<table, readings, tx, inbox, tokens, issued, failed, now, seen, late>>
      BY <1>4, <2>3 DEF Link, u
    <3>2. QED BY <1>1, <1>2, <1>3, <3>1, TokenCallTypes, OtherRequests, TokenCallKeeps
  <2>4. QED BY <2>1, <2>2, <2>3
<1>5. ASSUME LinkFails(c) \/ LinkThrows(c) PROVE IInv'
  <2>1. PICK x : /\ Go(c, x)
                 /\ \/ x = u /\ failed' = failed
                    \/ x = NoCall /\ failed' = failed \cup {r}
    BY <1>5 DEF LinkFails, LinkThrows, u
  <2>2. /\ LinkMayWrite(c)
        /\ UNCHANGED <<readings, tx, inbox, tokens, issued, now, seen, late>>
    BY <1>5 DEF LinkFails, LinkThrows
  <2>3. /\ x = NoCall \/ (x \in CallType /\ row[x.r] # Null)
        /\ failed \subseteq failed' /\ failed' \subseteq Reservations
    BY <1>2, <1>3, <2>1
  <2>4. CASE UNCHANGED table
    <3>1. UNCHANGED <<table, readings, tx, inbox, tokens, issued, now, seen, late>>
      BY <2>2, <2>4
    <3>2. QED BY <1>1, <1>2, <2>1, <2>3, <3>1, TokenCallTypes, OtherRequests, TokenCallKeeps
  <2>5. CASE /\ row[r].device = 0 /\ InSession(row[r]) /\ ~RowLocked(r)
             /\ Put(r, [row[r] EXCEPT !.device = n])
    <3>1. /\ Types' /\ Table'
          /\ \A q \in Reservations : WasGranted(q) =>
               /\ WasGranted(q)' /\ row'[q].end = row[q].end /\ row'[q].account = row[q].account
               /\ row[q].device # 0 => row'[q].device # 0
      <4> HIDE DEF r, n
      <4> QED BY <1>2, <2>1, <2>2, <2>3, <2>5, DeviceEntered
    <3>2. QED BY <1>1, <1>2, <2>1, <2>2, <2>3, <3>1, OtherRequests, TokenCallKeeps
  <2>6. QED BY <2>2, <2>4, <2>5 DEF LinkMayWrite
<1>6. ASSUME Undo(c) PROVE IInv'
  <2>1. /\ Go(c, NoCall)
        /\ UNCHANGED <<table, readings, tx, inbox, issued, now, seen, late>>
        /\ \/ tokens' = tokens \ {[r |-> r, n |-> n]} /\ failed' = failed
           \/ tokens' = tokens /\ failed' = failed \cup {r}
    BY <1>6 DEF Undo, Others, table
  <2>2. tokens' \subseteq tokens /\ failed \subseteq failed' /\ failed' \subseteq Reservations
    BY <1>2, <1>3, <2>1
  <2>3. QED BY <1>1, <2>1, <2>2, TokenCallTypes, OtherRequests, TokenCallKeeps
<1>7. QED BY <1>4, <1>5, <1>6

-------------------------------------------------------------------------------
(* Steps outside of transactions and calls.                                  *)
LEMMA TimeKeeps ==
  ASSUME IInv, row' = row, busy' = busy, tx' = tx, seen' = seen, late' = late,
         UNCHANGED <<call, inbox, issued, failed>>, tokens' \subseteq tokens,
         now <= now', now' \in Times, week' \in [Accounts -> Week \cup {Null}],
         consumed' \in [Reservations -> 0..MaxConsumed]
  PROVE  IInv'
<1>0. call' = call /\ inbox' = inbox /\ issued' = issued /\ failed' = failed
  OBVIOUS
<1>1. Types'
  BY <1>0 DEF IInv, Types, DataTypes, TxTypes, CallTypes
<1>2. Table'
  BY DEF IInv, Table, TxOwns, DeviceApproved, BusyExact, NoOverlap
<1>3. Sessions'
  BY <1>0, <1>1, SessionsStay DEF IInv
<1>4. QED BY <1>1, <1>2, <1>3 DEF IInv

LEMMA WithdrawKeeps ==
  ASSUME IInv, NEW r \in Reservations, Reject(r) \/ Expire(r)
  PROVE  IInv'
<1>1. /\ row[r] # Null /\ row[r].approval = "pending" /\ ~RowLocked(r)
      /\ Put(r, Cancelled(row[r], "rejected")) \/ Put(r, Cancelled(row[r], "expired"))
      /\ UNCHANGED <<readings, tx, inbox, tokens, issued, failed, now, seen>>
      /\ call' = call /\ late' = late
  BY DEF Reject, Expire, Occupies, access
<1>2. ~WasGranted(r) /\ row[r].device = 0
  BY <1>1 DEF WasGranted, IInv, Table, DeviceApproved
<1>3. late' \subseteq Reservations
  BY <1>1 DEF IInv, Types, DataTypes
<1>4. QED BY <1>1, <1>2, <1>3, UpdateKeeps

LEMMA InvNext == IInv /\ [Next]_vars => IInv'
<1> SUFFICES ASSUME IInv, [Next]_vars PROVE IInv'
  OBVIOUS
<1>t. /\ now \in Int /\ now <= now /\ now \in Times
      /\ week \in [Accounts -> Week \cup {Null}]
      /\ consumed \in [Reservations -> 0..MaxConsumed]
  BY DEF IInv, Types, DataTypes, Times
<1>1. ASSUME NEW t \in Txs, NEW r \in Reservations, NEW a \in Accounts, Request(t, r, a) PROVE IInv'
  <2>1. PICK s \in Times, approved \in BOOLEAN :
          Begin(t, r, a, s, approved, IF approved THEN DefaultBudget ELSE 0)
    BY <1>1 DEF Request
  <2>2. (IF approved THEN DefaultBudget ELSE 0) \in 0..DefaultBudget
    BY ReservationAssumption
  <2>3. row[r] = Null
    BY <1>1 DEF Request
  <2>4. QED BY <2>1, <2>2, <2>3, BeginKeeps
<1>2. ASSUME NEW t \in Txs, NEW r \in Reservations, Approve(t, r) PROVE IInv'
  <2>1. PICK s \in Times, budget \in 1..DefaultBudget :
          Begin(t, r, row[r].account, s, TRUE, budget)
    BY <1>2 DEF Approve
  <2>2. row[r] # Null /\ row[r].approval = "pending"
    BY <1>2 DEF Approve, Occupies
  <2>3. row[r].account \in Accounts /\ budget \in 0..DefaultBudget
    BY <2>2, ReservationAssumption DEF IInv, Types, DataTypes, Row
  <2>4. QED BY <2>1, <2>2, <2>3, BeginKeeps
<1>3. ASSUME NEW t \in Txs, CheckCapacity(t) PROVE IInv'
  BY <1>3, CheckKeeps
<1>4. ASSUME NEW t \in Txs, Commit(t) PROVE IInv'
  BY <1>4, CommitKeeps
<1>5. ASSUME NEW t \in Txs, Rollback(t) PROVE IInv'
  <2>1. seen' \in [Accounts -> Week]
    BY <1>5 DEF Rollback, IInv, Types, DataTypes
  <2>2. QED BY <1>5, <2>1, TxKeeps DEF Rollback
<1>6. ASSUME NEW r \in Reservations, Reject(r) \/ Expire(r) PROVE IInv'
  BY <1>6, WithdrawKeeps
<1>7. ASSUME NEW r \in Reservations, Consume(r) PROVE IInv'
  <2>1. consumed' \in [Reservations -> 0..MaxConsumed]
    BY <1>7, <1>t, ReservationAssumption DEF Consume
  <2>2. QED BY <1>7, <1>t, <2>1, TimeKeeps DEF Consume, table, access
<1>8. ASSUME NEW c \in Calls, NEW r \in Reservations, CancelRead(c, r) PROVE IInv'
  <2> DEFINE x == [step |-> "cancelling", r |-> r]
  <2>1. /\ call[c] = NoCall /\ row[r] # Null /\ Go(c, x)
        /\ UNCHANGED <<Others, inbox, issued, failed>> /\ tokens' = tokens
    BY <1>8 DEF CancelRead, Others
  <2>2. x \in CallType /\ x.r = r /\ x.step \notin SessionSteps /\ call[c].step \notin SessionSteps
    BY <2>1 DEF CallType, SessionSteps, NoCall
  <2> HIDE DEF x
  <2>3. QED BY <2>1, <2>2, CallKeeps
<1>9. ASSUME NEW c \in Calls, NEW r \in Reservations, SessionRead(c, r) PROVE IInv'
  BY <1>9, RequestKeeps
<1>10. ASSUME NEW c \in Calls, NEW r \in Reservations, EndRead(c, r) PROVE IInv'
  <2> DEFINE x == [step |-> "ending", r |-> r, n |-> row[r].device]
  <2>1. /\ call[c] = NoCall /\ Go(c, x) /\ InSession(row[r]) /\ row[r].device # 0
        /\ UNCHANGED <<Others, inbox, issued, failed>> /\ tokens' = tokens
    BY <1>10 DEF EndRead
  <2>2. row[r] # Null /\ row[r] \in Row
    BY <2>1 DEF InSession, Granted, Occupies, IInv, Types, DataTypes
  <2>3. row[r].device \in 1..MaxTokens
    BY <2>1, <2>2, ReservationAssumption DEF Row
  <2>4. x \in CallType /\ x.r = r /\ x.step \notin SessionSteps /\ call[c].step \notin SessionSteps
    BY <2>1, <2>3 DEF CallType, SessionSteps, NoCall
  <2> HIDE DEF x
  <2>5. QED BY <2>1, <2>2, <2>4, CallKeeps
<1>11. ASSUME NEW c \in Calls, CancelWrite(c) PROVE IInv'
  BY <1>11, CancelKeeps
<1>12. ASSUME NEW c \in Calls, ControlTimeout(c) PROVE IInv'
  BY <1>12, TimeoutKeeps
<1>13. ASSUME NEW c \in Calls, Link(c) \/ LinkFails(c) \/ LinkThrows(c) \/ Undo(c) PROVE IInv'
  BY <1>13, LinkKeeps
<1>14. ASSUME NEW c \in Calls, EndRevoke(c) PROVE IInv'
  <2>1. call[c].step \notin SessionSteps /\ NoCall.step \notin SessionSteps
    BY <1>14 DEF EndRevoke, SessionSteps, NoCall
  <2>2. QED BY <1>14, <2>1, CallKeeps DEF EndRevoke
<1>15. ASSUME NEW m \in inbox, HostIssues(m) \/ HostRefuses(m) PROVE IInv'
  BY <1>15, IssueKeeps, RefuseKeeps
<1>16. ASSUME NEW a \in Accounts, Observe(a) PROVE IInv'
  <2>1. week' \in [Accounts -> Week \cup {Null}] /\ consumed' = consumed /\ now' = now
    BY <1>16, <1>t DEF Observe
  <2>2. QED BY <1>16, <1>t, <2>1, TimeKeeps DEF Observe, table, access
<1>17. CASE Tick
  <2>1. now <= now' /\ now' \in Times
    BY <1>17, <1>t, ReservationAssumption DEF Tick, Times
  <2>2. QED BY <1>17, <1>t, <2>1, TimeKeeps DEF Tick, table, readings
<1>18. CASE UNCHANGED vars
  BY <1>18, <1>t, TimeKeeps DEF vars, table, readings, access
<1>19. QED
  BY <1>1, <1>2, <1>3, <1>4, <1>5, <1>6, <1>7, <1>8, <1>9, <1>10, <1>11, <1>12, <1>13, <1>14,
     <1>15, <1>16, <1>17, <1>18 DEF Next

LEMMA InvHolds == Spec => []IInv
BY InvInit, InvNext, PTL DEF Spec

(* A device once linked stays.                                               *)
LEMMA DeviceStays ==
  ASSUME IInv, [Next]_vars, NEW r \in Reservations, row[r] # Null, row[r].device # 0
  PROVE  row'[r].device = row[r].device
<1>r. /\ row \in [Reservations -> Row \cup {Null}] /\ row[r] \in Row
      /\ row[r].approval = "approved"
  BY DEF IInv, Types, DataTypes, Table, DeviceApproved
<1>1. ASSUME NEW t \in Txs, Commit(t) PROVE row'[r].device = row[r].device
  <2>1. tx[t] # NoTx
    BY <1>1 DEF Commit, NoTx
  <2>2. tx[t].r # r
    BY <1>r, <2>1 DEF IInv, Table, TxOwns
  <2>3. row'[r] = row[r]
    BY <1>1, <1>r, <2>2 DEF Commit, Put
  <2>4. QED BY <2>3
<1>2. ASSUME NEW q \in Reservations, Reject(q) \/ Expire(q) PROVE row'[r].device = row[r].device
  <2>1. q # r
    BY <1>2, <1>r DEF Reject, Expire
  <2>2. QED BY <1>2, <1>r, <2>1 DEF Reject, Expire, Put
<1>3. ASSUME NEW c \in Calls, CancelWrite(c) PROVE row'[r].device = row[r].device
  <2>1. Put(call[c].r, Cancelled(row[call[c].r], row[call[c].r].approval))
    BY <1>3 DEF CancelWrite
  <2>2. Cancelled(row[r], row[r].approval).device = row[r].device
    BY <1>r DEF Cancelled, Row
  <2>3. QED BY <1>r, <2>1, <2>2 DEF Put
<1>4. ASSUME NEW c \in Calls, Link(c) \/ LinkFails(c) \/ LinkThrows(c)
      PROVE  row'[r].device = row[r].device
  <2>1. \/ row' = row
        \/ call[c].r # r /\ Put(call[c].r, [row[call[c].r] EXCEPT !.device = call[c].n])
    BY <1>4 DEF Link, LinkFails, LinkThrows, LinkMayWrite, table
  <2>2. QED BY <1>r, <2>1 DEF Put
<1>5. CASE row' = row
  BY <1>5
<1>6. QED
  BY <1>1, <1>2, <1>3, <1>4, <1>5, ZenonT(60)
     DEF Next, Request, Approve, Begin, CheckCapacity, Rollback, Consume, CancelRead, SessionRead,
         EndRead, ControlTimeout, Undo, EndRevoke, HostIssues, HostRefuses, Observe, Tick, vars,
         Others, table

-------------------------------------------------------------------------------
(* Sums over finite sets.  The library folds with a function that CHOOSE     *)
(* finds, defined on all subsets by the element it picks: the function       *)
(* exists and is one, or there were a smallest set on which it failed.       *)
Pick(s) == CHOOSE x \in s : TRUE
Stage(f, S, g) == [s \in SUBSET S |-> IF s = {} THEN 0 ELSE f[Pick(s)] + g[s \ {Pick(s)}]]
Stages(f, S) == CHOOSE g : g = Stage(f, S, g)

LEMMA SumStages ==
  ASSUME NEW f, NEW S
  PROVE  SumFunctionOnSet(f, S) = Stages(f, S)[S]
BY DEF SumFunctionOnSet, FoldFunctionOnSet, MapThenFoldSet, Stages, Stage, Pick

LEMMA SmallestSet ==
  ASSUME NEW S, IsFiniteSet(S), NEW B, B \subseteq SUBSET S, B # {}
  PROVE  \E m \in B : \A u \in B : u \subseteq m => u = m
<1>1. IsWellFoundedOn(StrictSubsetOrdering(S), SUBSET S)
  BY FS_StrictSubsetOrderingWellFounded, FS_FiniteSubsetsOfFinite
<1>2. PICK m \in B : \A u \in B : ~ (<<u, m>> \in StrictSubsetOrdering(S))
  <2> HIDE DEF StrictSubsetOrdering
  <2>1. QED BY <1>1, WFMin
<1>3. ASSUME NEW u \in B, u \subseteq m, u # m PROVE FALSE
  <2>1. <<u, m>> \in (SUBSET S) \X (SUBSET S)
    OBVIOUS
  <2>2. <<u, m>> \in StrictSubsetOrdering(S)
    BY <2>1, <1>3 DEF StrictSubsetOrdering
  <2>3. QED BY <1>2, <2>2
<1>4. QED BY <1>2, <1>3

LEMMA PickIn == ASSUME NEW s, s # {} PROVE Pick(s) \in s
BY DEF Pick

LEMMA StagesAgree ==
  ASSUME NEW f, NEW S, NEW T, NEW g, NEW h, g = Stage(f, S, g), h = Stage(f, T, h),
         NEW u, u \subseteq S, u \subseteq T, IsFiniteSet(u)
  PROVE  g[u] = h[u]
<1> DEFINE B == {v \in SUBSET u : g[v] # h[v]}
<1> SUFFICES ASSUME B # {} PROVE FALSE
  OBVIOUS
<1>1. PICK m \in B : \A v \in B : v \subseteq m => v = m
  <2> HIDE DEF B
  <2>1. B \subseteq SUBSET u
    BY DEF B
  <2>2. QED BY <2>1, SmallestSet
<1>2. m \subseteq u /\ g[m] # h[m]
  OBVIOUS
<1>3. /\ g[m] = IF m = {} THEN 0 ELSE f[Pick(m)] + g[m \ {Pick(m)}]
      /\ h[m] = IF m = {} THEN 0 ELSE f[Pick(m)] + h[m \ {Pick(m)}]
  BY <1>2 DEF Stage
<1>4. m # {} => m \ {Pick(m)} \notin B
  BY <1>1, PickIn
<1>5. m # {} => g[m \ {Pick(m)}] = h[m \ {Pick(m)}]
  BY <1>2, <1>4
<1>6. QED BY <1>2, <1>3, <1>5

LEMMA StagesSolve ==
  ASSUME NEW f, NEW S, IsFiniteSet(S)
  PROVE  Stages(f, S) = Stage(f, S, Stages(f, S))
<1> DEFINE B == {s \in SUBSET S : ~ \E g : g = Stage(f, s, g)}
<1>1. B = {}
  <2> SUFFICES ASSUME B # {} PROVE FALSE
    OBVIOUS
  <2>1. PICK m \in B : \A v \in B : v \subseteq m => v = m
    <3> HIDE DEF B
    <3>1. B \subseteq SUBSET S
      BY DEF B
    <3>2. QED BY <3>1, SmallestSet
  <2>2. IsFiniteSet(m) /\ m \subseteq S
    BY FS_Subset
  <2>3. \A v : v \subseteq m /\ v # m => Stages(f, v) = Stage(f, v, Stages(f, v))
    <3> SUFFICES ASSUME NEW v, v \subseteq m, v # m PROVE \E g : g = Stage(f, v, g)
      BY DEF Stages
    <3>1. v \in SUBSET S /\ v \notin B
      BY <2>1, <2>2
    <3>2. QED BY <3>1
  <2> DEFINE h == [s \in SUBSET m |-> IF s = {} THEN 0 ELSE f[Pick(s)] + Stages(f, s \ {Pick(s)})[s \ {Pick(s)}]]
  <2>4. ASSUME NEW v, v \subseteq m, v # m PROVE h[v] = Stages(f, v)[v]
    <3>1. Stages(f, v)[v] = IF v = {} THEN 0 ELSE f[Pick(v)] + Stages(f, v)[v \ {Pick(v)}]
      BY <2>3, <2>4, ZenonT(60) DEF Stage
    <3>2. CASE v = {}
      BY <3>1, <3>2, <2>4
    <3>3. CASE v # {}
      <4> DEFINE w == v \ {Pick(v)}
      <4>1. w \subseteq v /\ w # v /\ w \subseteq m /\ w # m
        BY PickIn, <3>3, <2>4
      <4>2. IsFiniteSet(w)
        BY <4>1, <2>2, FS_Subset
      <4>3. Stages(f, v) = Stage(f, v, Stages(f, v)) /\ Stages(f, w) = Stage(f, w, Stages(f, w))
        BY <2>3, <2>4, <4>1
      <4>4. Stages(f, v)[w] = Stages(f, w)[w]
        <5> HIDE DEF w
        <5>1. QED BY ONLY <4>1, <4>2, <4>3, StagesAgree
      <4>5. QED BY <3>1, <3>3, <4>4, <2>4
    <3>4. QED BY <3>2, <3>3
  <2>5. h = Stage(f, m, h)
    <3> SUFFICES ASSUME NEW s \in SUBSET m
                 PROVE  h[s] = IF s = {} THEN 0 ELSE f[Pick(s)] + h[s \ {Pick(s)}]
      BY DEF Stage
    <3>1. CASE s = {}
      BY <3>1
    <3>2. CASE s # {}
      <4>1. s \ {Pick(s)} \subseteq m /\ s \ {Pick(s)} # m
        BY PickIn, <3>2
      <4>2. h[s] = f[Pick(s)] + Stages(f, s \ {Pick(s)})[s \ {Pick(s)}]
        BY <3>2
      <4> HIDE DEF h
      <4>3. h[s \ {Pick(s)}] = Stages(f, s \ {Pick(s)})[s \ {Pick(s)}]
        BY <4>1, <2>4
      <4>4. QED BY <3>2, <4>2, <4>3
    <3>3. QED BY <3>1, <3>2
  <2>6. QED BY <2>1, <2>5
<1>2. \E g : g = Stage(f, S, g)
  BY <1>1
<1>3. QED BY <1>2 DEF Stages

(* The sum of nothing, and of a set by the element it begins with.           *)
LEMMA SumUnfolds ==
  ASSUME NEW f, NEW S, IsFiniteSet(S)
  PROVE  SumFunctionOnSet(f, S)
         = IF S = {} THEN 0 ELSE f[Pick(S)] + SumFunctionOnSet(f, S \ {Pick(S)})
<1>1. Stages(f, S) = Stage(f, S, Stages(f, S))
  BY StagesSolve
<1>2. Stages(f, S)[S] = IF S = {} THEN 0 ELSE f[Pick(S)] + Stages(f, S)[S \ {Pick(S)}]
  BY <1>1 DEF Stage
<1> DEFINE w == S \ {Pick(S)}
<1>3. w \subseteq S /\ IsFiniteSet(w)
  BY FS_Subset
<1>4. Stages(f, w) = Stage(f, w, Stages(f, w))
  BY <1>3, StagesSolve
<1>5. Stages(f, S)[w] = Stages(f, w)[w]
  <2> HIDE DEF w
  <2>1. QED BY ONLY <1>1, <1>3, <1>4, StagesAgree
<1>6. QED BY <1>2, <1>5, SumStages

(* Where a claim about the finite subsets of S fails, it fails for one all   *)
(* of whose strict subsets satisfy it: this is SmallestSet.                  *)
LEMMA SumNat ==
  ASSUME NEW f, NEW S, IsFiniteSet(S), \A x \in S : f[x] \in Nat
  PROVE  SumFunctionOnSet(f, S) \in Nat
<1> DEFINE B == {s \in SUBSET S : SumFunctionOnSet(f, s) \notin Nat}
<1> SUFFICES ASSUME B # {} PROVE FALSE
  OBVIOUS
<1>1. PICK m \in B : \A v \in B : v \subseteq m => v = m
  <2> HIDE DEF B
  <2>1. B \subseteq SUBSET S
    BY DEF B
  <2>2. QED BY <2>1, SmallestSet
<1>2. m \subseteq S /\ IsFiniteSet(m) /\ SumFunctionOnSet(f, m) \notin Nat
  BY FS_Subset
<1>3. SumFunctionOnSet(f, m)
      = IF m = {} THEN 0 ELSE f[Pick(m)] + SumFunctionOnSet(f, m \ {Pick(m)})
  BY <1>2, SumUnfolds
<1>4. m # {} => f[Pick(m)] \in Nat /\ SumFunctionOnSet(f, m \ {Pick(m)}) \in Nat
  BY <1>1, <1>2, PickIn
<1> HIDE DEF B
<1>5. CASE m = {}
  BY <1>2, <1>3, <1>5
<1>6. CASE m # {}
  BY <1>2, <1>3, <1>4, <1>6
<1>7. QED BY <1>5, <1>6

(* The sum of a set by any of its elements.                                  *)
LEMMA SumTakes ==
  ASSUME NEW f, NEW S, IsFiniteSet(S), \A x \in S : f[x] \in Nat, NEW y \in S
  PROVE  SumFunctionOnSet(f, S) = f[y] + SumFunctionOnSet(f, S \ {y})
<1> DEFINE Takes(s, e) == SumFunctionOnSet(f, s) = f[e] + SumFunctionOnSet(f, s \ {e})
           B == {s \in SUBSET S : \E e \in s : ~Takes(s, e)}
<1> SUFFICES ASSUME B # {} PROVE FALSE
  OBVIOUS
<1>1. PICK m \in B : \A v \in B : v \subseteq m => v = m
  <2> HIDE DEF B
  <2>1. B \subseteq SUBSET S
    BY DEF B
  <2>2. QED BY <2>1, SmallestSet
<1>2. m \subseteq S /\ IsFiniteSet(m)
  BY FS_Subset
<1>3. PICK e \in m : ~Takes(m, e)
  OBVIOUS
<1> DEFINE p == Pick(m)
<1>4. Takes(m, p) /\ p \in m /\ p # e
  <2>1. Takes(m, p) /\ p \in m
    BY <1>2, <1>3, SumUnfolds, PickIn
  <2>2. QED BY <2>1, <1>3
<1>5. \A d \in m : \A x \in m \ {d} : Takes(m \ {d}, x)
  <2> SUFFICES ASSUME NEW d \in m PROVE \A x \in m \ {d} : Takes(m \ {d}, x)
    OBVIOUS
  <2>1. m \ {d} \in SUBSET S /\ m \ {d} # m /\ m \ {d} \subseteq m
    BY <1>2
  <2>2. m \ {d} \notin B
    <3> HIDE DEF B
    <3>1. QED BY <2>1, <1>1
  <2> HIDE DEF Takes
  <2>3. QED BY <2>1, <2>2
<1> HIDE DEF B
<1>6. Takes(m \ {p}, e) /\ Takes(m \ {e}, p)
  BY <1>4, <1>5
<1>7. (m \ {p}) \ {e} = (m \ {e}) \ {p}
  OBVIOUS
<1>8. f[e] \in Nat /\ f[p] \in Nat /\ SumFunctionOnSet(f, (m \ {p}) \ {e}) \in Nat
  <2>1. IsFiniteSet((m \ {p}) \ {e}) /\ \A x \in (m \ {p}) \ {e} : f[x] \in Nat
    BY <1>2, FS_Subset
  <2>2. SumFunctionOnSet(f, (m \ {p}) \ {e}) \in Nat
    BY <2>1, SumNat
  <2>3. QED BY <1>2, <1>4, <2>2
<1> HIDE DEF p
<1>9. SumFunctionOnSet(f, m) = f[e] + SumFunctionOnSet(f, m \ {e})
  BY <1>4, <1>6, <1>7, <1>8
<1>10. QED BY <1>3, <1>9

(* Fewer and smaller values have no larger sum.                              *)
LEMMA SumGrows ==
  ASSUME NEW f, NEW g, NEW S, NEW T, IsFiniteSet(T), S \subseteq T,
         \A x \in S : f[x] \in Nat /\ f[x] <= g[x], \A x \in T : g[x] \in Nat
  PROVE  SumFunctionOnSet(f, S) <= SumFunctionOnSet(g, T)
<1> DEFINE Larger(u) == SumFunctionOnSet(f, u \cap S) <= SumFunctionOnSet(g, u)
           B == {u \in SUBSET T : ~Larger(u)}
<1>0. T \cap S = S
  OBVIOUS
<1> SUFFICES ASSUME B # {} PROVE FALSE
  <2>1. T \notin B
    OBVIOUS
  <2>2. QED BY <1>0, <2>1
<1>1. PICK m \in B : \A v \in B : v \subseteq m => v = m
  <2> HIDE DEF B
  <2>1. B \subseteq SUBSET T
    BY DEF B
  <2>2. QED BY <2>1, SmallestSet
<1>2. m \subseteq T /\ IsFiniteSet(m) /\ ~Larger(m) /\ IsFiniteSet(m \cap S)
  BY FS_Subset
<1>3. CASE m = {}
  <2>1. m \cap S = {}
    BY <1>3
  <2>2. SumFunctionOnSet(f, m \cap S) = 0 /\ SumFunctionOnSet(g, m) = 0
    BY <1>2, <1>3, <2>1, SumUnfolds
  <2>3. QED BY <1>2, <2>2
<1>4. CASE m # {}
  <2> DEFINE p == Pick(m)
             w == m \ {p}
  <2>1. p \in m /\ w \subseteq T /\ w # m /\ w \subseteq m /\ IsFiniteSet(w) /\ IsFiniteSet(w \cap S)
    BY <1>2, <1>4, PickIn, FS_Subset
  <2>2. Larger(w)
    <3> HIDE DEF w, Larger
    <3>1. w \in SUBSET T /\ w \notin B
      <4> HIDE DEF B
      <4>1. QED BY <2>1, <1>1
    <3>2. QED BY <3>1
  <2>3. SumFunctionOnSet(g, m) = g[p] + SumFunctionOnSet(g, w)
    BY <1>2, <2>1, SumTakes
  <2>4. SumFunctionOnSet(g, w) \in Nat /\ SumFunctionOnSet(f, w \cap S) \in Nat /\ g[p] \in Nat
    <3>1. \A x \in w : g[x] \in Nat
      BY <2>1
    <3>2. \A x \in w \cap S : f[x] \in Nat
      BY \A x \in S : f[x] \in Nat /\ f[x] <= g[x]
    <3> HIDE DEF w
    <3>3. SumFunctionOnSet(g, w) \in Nat /\ SumFunctionOnSet(f, w \cap S) \in Nat
      BY <2>1, <3>1, <3>2, SumNat
    <3>4. QED BY <3>3, <1>2, <2>1
  <2>5. CASE p \in S
    <3>1. SumFunctionOnSet(f, m \cap S) = f[p] + SumFunctionOnSet(f, (m \cap S) \ {p})
      BY <1>2, <2>1, <2>5, SumTakes
    <3>2. (m \cap S) \ {p} = w \cap S
      OBVIOUS
    <3>3. f[p] \in Nat /\ f[p] <= g[p]
      BY <2>5
    <3> HIDE DEF p, w
    <3> HIDE DEF B
    <3>4. SumFunctionOnSet(f, m \cap S) <= SumFunctionOnSet(g, m)
      <4>1. SumFunctionOnSet(f, w \cap S) <= SumFunctionOnSet(g, w)
        BY <2>2
      <4>2. SumFunctionOnSet(f, m \cap S) = f[p] + SumFunctionOnSet(f, w \cap S)
        BY <3>1, <3>2
      <4>3. QED BY ONLY <4>1, <4>2, <2>3, <2>4, <3>3
    <3>5. QED BY <1>2, <3>4
  <2>6. CASE p \notin S
    <3>1. m \cap S = w \cap S
      BY <2>6
    <3> HIDE DEF p, w
    <3>2. QED BY <1>2, <2>2, <2>3, <2>4, <3>1
  <2>7. QED BY <2>5, <2>6
<1>5. QED BY <1>3, <1>4

-------------------------------------------------------------------------------
(* What the accounts are committed to.                                        *)
(* The reservations that were ever written are finitely many.                *)
RowsFinite == IsFiniteSet({r \in Reservations : row[r] # Null})

(* The advisory lock: one transaction to an account.                         *)
OneTx == \A t, u \in Txs :
           tx[t] # NoTx /\ tx[u] # NoTx /\ tx[t].account = tx[u].account => t = u

(* What the triggers have checked holds until the transaction commits.       *)
TxFits ==
  \A t \in Txs :
    tx[t] # NoTx /\ tx[t].step = "checked" /\ tx[t].approved
    => Committed(tx[t].account, seen[tx[t].account].reset, {tx[t].r}) + tx[t].budget
         <= FullPercent - seen[tx[t].account].used

Capacity == RowsFinite /\ OneTx /\ TxFits /\ CommitmentsFit

LEMMA CommittingFinite ==
  ASSUME RowsFinite, NEW a, NEW z
  PROVE  IsFiniteSet(Committing(a, z))
<1>1. Committing(a, z) \subseteq {r \in Reservations : row[r] # Null}
  BY DEF Committing, Granted, Occupies
<1>2. QED BY <1>1, FS_Subset DEF RowsFinite

LEMMA CommitmentNat ==
  ASSUME Types, NEW a, NEW z, NEW r \in Committing(a, z)
  PROVE  Commitments(a, z)[r] \in Nat /\ Commitments(a, z)[r] <= row[r].budget
<1>1. row[r] # Null /\ r \in Reservations
  BY DEF Committing, Granted, Occupies
<1>2. row[r] \in Row /\ consumed[r] \in Nat
  BY <1>1, ReservationAssumption DEF Types, DataTypes
<1>3. row[r].budget \in Nat
  BY <1>2, ReservationAssumption DEF Row
<1>4. Commitments(a, z)[r] = IF row[r].budget > consumed[r] THEN row[r].budget - consumed[r] ELSE 0
  BY DEF Commitments, Commitment
<1>5. QED BY <1>2, <1>3, <1>4

LEMMA CommitmentNatNext ==
  ASSUME Types', NEW a, NEW z, NEW r \in Committing(a, z)'
  PROVE  Commitments(a, z)'[r] \in Nat /\ Commitments(a, z)'[r] <= row'[r].budget
<1>1. row'[r] # Null /\ r \in Reservations
  BY DEF Committing, Granted, Occupies
<1>2. row'[r] \in Row /\ consumed'[r] \in Nat
  BY <1>1, ReservationAssumption DEF Types, DataTypes
<1>3. row'[r].budget \in Nat
  BY <1>2, ReservationAssumption DEF Row
<1>4. Commitments(a, z)'[r] = IF row'[r].budget > consumed'[r] THEN row'[r].budget - consumed'[r] ELSE 0
  BY DEF Commitments, Commitment
<1>5. QED BY <1>2, <1>3, <1>4

LEMMA CommittedNat ==
  ASSUME Types, RowsFinite, NEW a, NEW z, NEW p
  PROVE  Committed(a, z, p) \in Nat
<1> DEFINE S == Committing(a, z) \ p
<1>1. IsFiniteSet(S)
  BY CommittingFinite, FS_Subset
<1>2. \A q \in S : Commitments(a, z)[q] \in Nat
  BY CommitmentNat
<1> HIDE DEF S
<1>3. SumFunctionOnSet(Commitments(a, z), S) \in Nat
  BY <1>1, <1>2, SumNat
<1>4. QED BY <1>3 DEF Committed, S

LEMMA CommittedNatNext ==
  ASSUME Types', RowsFinite', NEW a, NEW z, NEW p
  PROVE  Committed(a, z, p)' \in Nat
<1> DEFINE S == Committing(a, z)' \ p
           f == Commitments(a, z)'
<1>1. IsFiniteSet(S)
  <2>1. S \subseteq {q \in Reservations : row'[q] # Null}
    BY DEF Committing, Granted, Occupies
  <2>2. QED BY <2>1, FS_Subset DEF RowsFinite
<1>2. \A q \in S : f[q] \in Nat
  BY CommitmentNatNext
<1> HIDE DEF S, f
<1>3. SumFunctionOnSet(f, S) \in Nat
  BY <1>1, <1>2, SumNat
<1>4. QED BY <1>3 DEF Committed, S, f

(* What is still committed of an account falls as reservations consume, end  *)
(* or are withdrawn.                                                         *)
LEMMA CommitmentFalls ==
  ASSUME Types, Types', NEW a, NEW z, NEW r \in Committing(a, z), r \in Committing(a, z)',
         row'[r].budget = row[r].budget, consumed[r] <= consumed'[r]
  PROVE  Commitments(a, z)'[r] <= Commitments(a, z)[r]
<1>1. row[r] # Null /\ row'[r] # Null /\ r \in Reservations
  BY DEF Committing, Granted, Occupies
<1>2. row[r] \in Row /\ consumed[r] \in Int /\ consumed'[r] \in Int
  BY <1>1, ReservationAssumption DEF Types, DataTypes
<1>3. row[r].budget \in Int
  BY <1>2, ReservationAssumption DEF Row
<1>4. /\ Commitments(a, z)[r] = IF row[r].budget > consumed[r] THEN row[r].budget - consumed[r] ELSE 0
      /\ Commitments(a, z)'[r] = IF row'[r].budget > consumed'[r] THEN row'[r].budget - consumed'[r] ELSE 0
  BY DEF Commitments, Commitment
<1>5. QED BY <1>2, <1>3, <1>4

LEMMA CommittedFalls ==
  ASSUME Types, Types', RowsFinite, NEW a, NEW z, NEW p, Committing(a, z)' \subseteq Committing(a, z),
         \A r \in Committing(a, z)' : row'[r].budget = row[r].budget /\ consumed[r] <= consumed'[r]
  PROVE  Committed(a, z, p)' <= Committed(a, z, p)
<1> DEFINE f == Commitments(a, z)'
           g == Commitments(a, z)
           S == Committing(a, z)' \ p
           T == Committing(a, z) \ p
<1>1. IsFiniteSet(T) /\ S \subseteq T
  BY CommittingFinite, FS_Subset
<1>2. \A r \in S : f[r] <= g[r]
  BY CommitmentFalls
<1>3. \A r \in T : g[r] \in Nat
  BY CommitmentNat
<1>4. \A r \in S : f[r] \in Nat
  BY CommitmentNatNext
<1>5. SumFunctionOnSet(f, S) <= SumFunctionOnSet(g, T)
  <2> HIDE DEF f, g, S, T
  <2>1. QED BY <1>1, <1>2, <1>3, <1>4, SumGrows
<1>6. QED BY <1>5 DEF Committed

(* Steps that grant nothing, give nothing back and check nothing.            *)
LEMMA CapacityKept ==
  ASSUME Types, Types', Capacity, OneTx', seen' = seen, now <= now',
         \A r \in Reservations :
           /\ row'[r] # Null => row[r] # Null
           /\ Granted(row'[r]) => /\ Granted(row[r]) /\ row'[r].account = row[r].account
                                  /\ row'[r].end = row[r].end /\ row'[r].budget = row[r].budget
                                  /\ row'[r].start = row[r].start
           /\ consumed[r] <= consumed'[r],
         \A t \in Txs : tx'[t] = tx[t] \/ tx'[t] = NoTx \/ tx'[t].step = "begun"
  PROVE  Capacity'
<1>1. RowsFinite'
  <2>1. {r \in Reservations : row'[r] # Null} \subseteq {r \in Reservations : row[r] # Null}
    OBVIOUS
  <2>2. QED BY <2>1, FS_Subset DEF Capacity, RowsFinite
<1>2. ASSUME NEW a, NEW z PROVE Committing(a, z)' \subseteq Committing(a, z)
  <2> SUFFICES ASSUME NEW r \in Committing(a, z)' PROVE r \in Committing(a, z)
    OBVIOUS
  <2>1. /\ r \in Reservations /\ Granted(row'[r]) /\ row'[r].account = a /\ now' < row'[r].end
        /\ Granted(row[r]) /\ row[r].account = a /\ row'[r].end = row[r].end
        /\ row[r].start < z
    BY DEF Committing
  <2>2. row[r] \in Row
    BY <2>1 DEF Granted, Occupies, Types, DataTypes
  <2>3. row[r].end \in Int /\ now \in Int /\ now' \in Int
    BY <2>2 DEF Types, DataTypes, Row, Times
  <2>4. now < row[r].end
    BY <2>1, <2>3
  <2>5. QED BY <2>1, <2>4 DEF Committing
<1>3. ASSUME NEW a, NEW z, NEW p PROVE Committed(a, z, p)' <= Committed(a, z, p)
  <2>1. \A r \in Committing(a, z)' : row'[r].budget = row[r].budget /\ consumed[r] <= consumed'[r]
    BY DEF Committing
  <2>2. QED BY <1>2, <2>1, CommittedFalls DEF Capacity
<1>4. ASSUME NEW a, NEW z, NEW p PROVE Committed(a, z, p) \in Int /\ Committed(a, z, p)' \in Int
  <2>1. Committed(a, z, p) \in Nat
    BY CommittedNat DEF Capacity
  <2>2. Committed(a, z, p)' \in Nat
    BY <1>1, CommittedNatNext
  <2>3. QED BY <2>1, <2>2
<1>5. TxFits'
  <2> SUFFICES ASSUME NEW t \in Txs, tx'[t] # NoTx, tx'[t].step = "checked", tx'[t].approved
               PROVE  (Committed(tx[t].account, seen[tx[t].account].reset, {tx[t].r})
                         + tx[t].budget <= FullPercent - seen[tx[t].account].used)'
    BY DEF TxFits
  <2>1. tx'[t] = tx[t]
    OBVIOUS
  <2>2. tx[t] \in TxType
    BY <2>1 DEF Types, TxTypes
  <2>0. PICK a, p, z, u : /\ a = tx[t].account /\ p = {tx[t].r}
                          /\ z = seen[a].reset /\ u = seen[a].used
    OBVIOUS
  <2>3. tx[t].budget \in Int /\ u \in Int /\ FullPercent \in Int
    <3>1. seen[a] \in Week
      BY <2>0, <2>2 DEF Types, DataTypes, TxType
    <3>2. QED BY <2>0, <2>2, <3>1, WeekInt, ReservationAssumption DEF TxType
  <2>4. Committed(a, z, p) + tx[t].budget <= FullPercent - u
    BY <2>0, <2>1 DEF Capacity, TxFits
  <2>5. /\ Committed(a, z, p)' <= Committed(a, z, p)
        /\ Committed(a, z, p) \in Int /\ Committed(a, z, p)' \in Int
    BY <1>3, <1>4
  <2>6. Committed(a, z, p)' + tx[t].budget <= FullPercent - u
    BY <2>3, <2>4, <2>5
  <2>7. QED BY <2>0, <2>1, <2>6
<1>6. CommitmentsFit'
  <2> SUFFICES ASSUME NEW a \in Accounts, NEW z, NEW u, z = seen[a].reset, u = seen[a].used,
                      Committing(a, z)' # {}
               PROVE  Committed(a, z, {})' <= FullPercent - u
    BY DEF CommitmentsFit
  <2>1. Committed(a, z, {}) <= FullPercent - u
    BY <1>2 DEF Capacity, CommitmentsFit
  <2>2. u \in Int /\ FullPercent \in Int
    BY ReservationAssumption DEF Types, DataTypes, Week
  <2>3. /\ Committed(a, z, {})' <= Committed(a, z, {})
        /\ Committed(a, z, {}) \in Int /\ Committed(a, z, {})' \in Int
    BY <1>3, <1>4
  <2>4. QED BY <2>1, <2>2, <2>3
<1>7. QED BY <1>1, <1>5, <1>6 DEF Capacity

(* Rows, what was consumed and the clock stay, and so does what is committed. *)
LEMMA CommittedSame ==
  ASSUME row' = row, consumed' = consumed, now' = now, NEW a, NEW z, NEW p
  PROVE  Committed(a, z, p)' = Committed(a, z, p) /\ Committing(a, z)' = Committing(a, z)
<1>1. Committing(a, z)' = Committing(a, z)
  BY DEF Committing
<1>2. Commitments(a, z)' = Commitments(a, z)
  BY <1>1 DEF Commitments, Commitment
<1>3. QED BY <1>1, <1>2 DEF Committed

(* A transaction takes the lock of its account.                              *)
LEMMA BeginFits ==
  ASSUME Types, Types', Capacity, NEW t \in Txs, NEW r \in Reservations, NEW a \in Accounts,
         NEW s, NEW approved, NEW budget, Begin(t, r, a, s, approved, budget)
  PROVE  Capacity'
<1>0. /\ row' = row /\ consumed' = consumed /\ now' = now /\ seen' = seen /\ ~Locked(a)
      /\ tx' = [tx EXCEPT ![t] = [step |-> "begun", r |-> r, account |-> a, start |-> s,
                                  approved |-> approved, budget |-> budget]]
  BY DEF Begin, table, readings
<1> DEFINE x == [step |-> "begun", r |-> r, account |-> a, start |-> s,
                 approved |-> approved, budget |-> budget]
<1>1. \A u \in Txs : tx'[u] = IF u = t THEN x ELSE tx[u]
  BY <1>0 DEF Types, TxTypes
<1>2. x.account = a /\ x.step = "begun"
  OBVIOUS
<1> HIDE DEF x
<1>3. OneTx'
  BY <1>0, <1>1, <1>2 DEF Capacity, OneTx, Locked
<1>4. /\ \A u \in Txs : tx'[u] = tx[u] \/ tx'[u] = NoTx \/ tx'[u].step = "begun"
      /\ \A q \in Reservations : consumed[q] <= consumed'[q]
      /\ now <= now'
  <2>1. now \in Int /\ \A q \in Reservations : consumed[q] \in Int
    BY ReservationAssumption DEF Types, DataTypes, Times
  <2>2. QED BY <1>0, <1>1, <1>2, <2>1
<1>5. QED BY <1>0, <1>3, <1>4, CapacityKept

(* A transaction ends, or goes on without more rows and less consumed.       *)
LEMMA RestFits ==
  ASSUME Types, Types', Capacity, seen' = seen, now <= now',
         \A r \in Reservations :
           /\ row'[r] # Null => row[r] # Null
           /\ Granted(row'[r]) => /\ Granted(row[r]) /\ row'[r].account = row[r].account
                                  /\ row'[r].end = row[r].end /\ row'[r].budget = row[r].budget
                                  /\ row'[r].start = row[r].start
           /\ consumed[r] <= consumed'[r],
         \A t \in Txs : tx'[t] = tx[t] \/ tx'[t] = NoTx
  PROVE  Capacity'
<1>1. OneTx'
  BY DEF Capacity, OneTx
<1>2. QED BY <1>1, CapacityKept

(* The trigger looks at the capacity with the lock held.                     *)
LEMMA CheckFits ==
  ASSUME IInv, IInv', Capacity, NEW t \in Txs, CheckCapacity(t)
  PROVE  Capacity'
<1>0. /\ row' = row /\ consumed' = consumed /\ now' = now
      /\ tx' = [tx EXCEPT ![t].step = "checked"] /\ tx[t].step = "begun"
      /\ tx[t].approved => /\ KnowsWeek(tx[t].account)
                           /\ tx[t].budget <= Available(tx[t].account, tx[t].r)
      /\ seen' = IF tx[t].approved
                 THEN [seen EXCEPT ![tx[t].account] = week[tx[t].account]] ELSE seen
  BY DEF CheckCapacity, table, readings
<1>1. tx[t] # NoTx /\ tx[t] \in TxType /\ Types /\ Types'
  BY <1>0 DEF NoTx, IInv, Types, TxTypes
<1>2. /\ \A u \in Txs : u # t => tx'[u] = tx[u]
      /\ tx'[t].account = tx[t].account /\ tx'[t].r = tx[t].r /\ tx'[t].budget = tx[t].budget
      /\ tx'[t].approved = tx[t].approved
  BY <1>0, <1>1 DEF Types, TxTypes, TxType
<1>3. RowsFinite'
  BY <1>0 DEF Capacity, RowsFinite
<1>4. OneTx'
  BY <1>1, <1>2 DEF Capacity, OneTx
<1>5. /\ seen \in [Accounts -> Week] /\ tx[t].account \in Accounts
      /\ \A a \in Accounts : a # tx[t].account \/ ~tx[t].approved => seen'[a] = seen[a]
      /\ tx[t].approved => seen'[tx[t].account] = week[tx[t].account]
  BY <1>0, <1>1 DEF Types, DataTypes, TxType
(* What the check finds, for the account it looks at.                        *)
<1>6. ASSUME tx[t].approved, NEW a, a = tx[t].account, NEW p, p = {tx[t].r},
             NEW z, z = seen'[a].reset, NEW u, u = seen'[a].used
      PROVE  /\ Committed(a, z, p)' + tx[t].budget <= FullPercent - u
             /\ Committed(a, z, {})' <= FullPercent - u
  <2>1. u = week[a].used /\ z = week[a].reset
    BY <1>5, <1>6
  <2>2. tx[t].budget <= FullPercent - u - Committed(a, z, p)
    BY <1>0, <1>6, <2>1 DEF Available
  <2>3. tx[t].budget \in Nat /\ FullPercent \in Int /\ u \in Int
    <3>1. seen'[a] \in Week
      BY <1>1, <1>5, <1>6 DEF Types, DataTypes
    <3>2. QED BY <1>1, <1>6, <3>1, WeekInt, ReservationAssumption DEF TxType
  <2>4. Committed(a, z, p) \in Int
    <3>1. Committed(a, z, p) \in Nat
      BY <1>1, CommittedNat DEF Capacity
    <3>2. QED BY <3>1
  <2>5. Committed(a, z, p)' = Committed(a, z, p) /\ Committed(a, z, {})' = Committed(a, z, {})
    BY <1>0, CommittedSame
  <2>6. Committed(a, z, {}) = Committed(a, z, p)
    <3>1. row[tx[t].r] = Null \/ row[tx[t].r].approval = "pending"
      BY <1>1 DEF IInv, Table, TxOwns
    <3>2. tx[t].r \notin Committing(a, z)
      BY <3>1 DEF Committing, Granted, Occupies
    <3>3. Committing(a, z) \ {} = Committing(a, z) \ p
      BY <1>6, <3>2
    <3>4. QED BY <3>3 DEF Committed
  <2>7. QED BY <2>2, <2>3, <2>4, <2>5, <2>6
<1>7. CommitmentsFit'
  <2> SUFFICES ASSUME NEW a \in Accounts, NEW z, NEW u, z = seen'[a].reset, u = seen'[a].used,
                      Committing(a, z)' # {}
               PROVE  Committed(a, z, {})' <= FullPercent - u
    BY DEF CommitmentsFit
  <2>1. CASE a = tx[t].account /\ tx[t].approved
    BY <1>6, <2>1
  <2>2. CASE a # tx[t].account \/ ~tx[t].approved
    <3>1. Committed(a, z, {})' = Committed(a, z, {}) /\ Committing(a, z)' = Committing(a, z)
      BY <1>0, CommittedSame
    <3>2. seen'[a] = seen[a]
      BY <1>5, <2>2
    <3>3. QED BY <3>1, <3>2 DEF Capacity, CommitmentsFit
  <2>3. QED BY <2>1, <2>2
<1>8. TxFits'
  <2> SUFFICES ASSUME NEW u \in Txs, tx'[u] # NoTx, tx'[u].step = "checked", tx'[u].approved
               PROVE  (Committed(tx[u].account, seen[tx[u].account].reset, {tx[u].r})
                         + tx[u].budget <= FullPercent - seen[tx[u].account].used)'
    BY DEF TxFits
  <2>1. PICK a, p, z, w : /\ a = tx[u].account /\ p = {tx[u].r}
                          /\ z = seen'[a].reset /\ w = seen'[a].used
    OBVIOUS
  <2>2. a = tx'[u].account /\ p = {tx'[u].r} /\ tx'[u].budget = tx[u].budget
    BY <1>2, <2>1
  <2>3. Committed(a, z, p)' + tx[u].budget <= FullPercent - w
    <3>1. CASE u # t
      <4>1. a # tx[t].account /\ a \in Accounts /\ tx'[u] = tx[u]
        BY <1>1, <1>2, <2>1, <3>1 DEF Capacity, OneTx, Types, TxTypes, TxType
      <4>2. seen'[a] = seen[a]
        BY <1>5, <4>1
      <4>3. Committed(a, z, p) + tx[u].budget <= FullPercent - w
        BY <2>1, <4>1, <4>2 DEF Capacity, TxFits
      <4>4. Committed(a, z, p)' = Committed(a, z, p)
        BY <1>0, CommittedSame
      <4>5. QED BY <4>3, <4>4
    <3>2. CASE u = t
      BY <1>2, <1>6, <2>1, <3>2
    <3>3. QED BY <3>1, <3>2
  <2>4. QED BY <2>1, <2>2, <2>3
<1>9. QED BY <1>3, <1>4, <1>7, <1>8 DEF Capacity

(* A commit grants what its triggers have checked.                           *)
LEMMA CommitRows ==
  ASSUME IInv, NEW t \in Txs, Commit(t)
  PROVE  /\ tx[t] \in TxType /\ tx[t] # NoTx /\ tx[t].step = "checked"
         /\ \A u \in Txs : tx'[u] = IF u = t THEN NoTx ELSE tx[u]
         /\ consumed' = consumed /\ now' = now
         /\ seen' = seen
         /\ \A q \in Reservations : q # tx[t].r => row'[q] = row[q]
         /\ row'[tx[t].r].account = tx[t].account /\ row'[tx[t].r].budget = tx[t].budget
         /\ row'[tx[t].r].approval = "approved" => tx[t].approved
         /\ ~Granted(row[tx[t].r])
<1> DEFINE w == tx[t]
           x == [account |-> w.account, start |-> w.start, end |-> SlotEnd(w.start),
                 status |-> "scheduled", approval |-> IF w.approved THEN "approved" ELSE "pending",
                 budget |-> w.budget, device |-> 0]
<1>1. /\ w.step = "checked" /\ Put(w.r, x) /\ tx' = [tx EXCEPT ![t] = NoTx]
      /\ consumed' = consumed /\ now' = now
      /\ seen' = seen
  BY DEF Commit, readings
<1>2. w # NoTx /\ w \in TxType
  BY <1>1 DEF NoTx, IInv, Types, TxTypes
<1>3. \A u \in Txs : tx'[u] = IF u = t THEN NoTx ELSE tx[u]
  BY <1>1 DEF IInv, Types, TxTypes
<1>4. /\ x.account = w.account /\ x.budget = w.budget
      /\ x.approval = "approved" => w.approved
  OBVIOUS
<1> HIDE DEF x
<1>5. \A q \in Reservations : row'[q] = IF q = w.r THEN x ELSE row[q]
  BY <1>1, <1>2 DEF Put, IInv, Types, DataTypes
<1>6. row[w.r] = Null \/ row[w.r].approval = "pending"
  BY <1>2 DEF IInv, Table, TxOwns
<1>7. ~Granted(row[w.r])
  BY <1>6 DEF Granted, Occupies
<1>8. w.r \in Reservations
  BY <1>2 DEF TxType
<1>9. QED BY <1>1, <1>2, <1>3, <1>4, <1>5, <1>7, <1>8

(* Accounts that the commit does not grant are committed to no more.         *)
LEMMA CommitElsewhere ==
  ASSUME IInv, Types', Capacity, NEW t \in Txs, Commit(t), NEW a, NEW z, NEW p,
         a # tx[t].account \/ ~tx[t].approved
  PROVE  Committing(a, z)' \subseteq Committing(a, z) /\ Committed(a, z, p)' <= Committed(a, z, p)
<1>0. /\ consumed' = consumed /\ now' = now
      /\ \A q \in Reservations : q # tx[t].r => row'[q] = row[q]
      /\ row'[tx[t].r].account = tx[t].account
      /\ row'[tx[t].r].approval = "approved" => tx[t].approved
  BY CommitRows
<1>1. Types
  BY DEF IInv
<1>2. \A r \in Committing(a, z)' : r \in Reservations /\ r # tx[t].r
  BY <1>0 DEF Committing, Granted
<1>3. Committing(a, z)' \subseteq Committing(a, z)
  BY <1>0, <1>2 DEF Committing
<1>4. \A r \in Reservations : consumed[r] \in Int
  BY <1>1, ReservationAssumption DEF Types, DataTypes
<1>5. \A r \in Committing(a, z)' : row'[r].budget = row[r].budget /\ consumed[r] <= consumed'[r]
  BY <1>0, <1>2, <1>4
<1>6. QED BY <1>1, <1>3, <1>5, CommittedFalls DEF Capacity

(* The account of the grant is committed to what it was, and the budget.     *)
LEMMA CommitGrants ==
  ASSUME IInv, Types', RowsFinite', Capacity, NEW t \in Txs, Commit(t), NEW a, NEW z, NEW p,
         a = tx[t].account, p = tx[t].r
  PROVE  Committed(a, z, {})' <= tx[t].budget + Committed(a, z, {p})
<1> DEFINE f == Commitments(a, z)'
           g == Commitments(a, z)
           S == Committing(a, z)' \ {}
           T == Committing(a, z) \ {p}
<1>0. /\ consumed' = consumed /\ now' = now
      /\ \A q \in Reservations : q # p => row'[q] = row[q]
      /\ row'[p].budget = tx[t].budget /\ tx[t] \in TxType /\ ~Granted(row[p])
  BY CommitRows
<1>1. Types
  BY DEF IInv
<1>2. S \ {p} \subseteq T
  BY <1>0 DEF Committing
<1>3. IsFiniteSet(T) /\ IsFiniteSet(S)
  <2>1. S \subseteq {q \in Reservations : row'[q] # Null}
    BY DEF Committing, Granted, Occupies
  <2>2. IsFiniteSet(S)
    BY <2>1, FS_Subset DEF RowsFinite
  <2>3. QED BY <2>2, CommittingFinite, FS_Subset DEF Capacity
<1>4. \A r \in S : f[r] \in Nat /\ f[r] <= row'[r].budget
  BY CommitmentNatNext
<1>5. \A r \in T : g[r] \in Nat
  BY <1>1, CommitmentNat
<1>6. \A r \in S \ {p} : f[r] <= g[r]
  <2> SUFFICES ASSUME NEW r \in S \ {p} PROVE f[r] <= g[r]
    OBVIOUS
  <2>1. r \in Committing(a, z) /\ r \in Committing(a, z)' /\ r \in Reservations
    BY <1>2 DEF Committing
  <2>2. consumed[r] \in Int
    BY <1>1, <2>1, ReservationAssumption DEF Types, DataTypes
  <2>3. row'[r].budget = row[r].budget /\ consumed[r] <= consumed'[r]
    BY <1>0, <2>1, <2>2
  <2>4. QED BY <1>1, <2>1, <2>3, CommitmentFalls
<1>7. tx[t].budget \in Nat
  BY <1>0, ReservationAssumption DEF TxType
<1>8. SumFunctionOnSet(f, S \ {p}) <= SumFunctionOnSet(g, T)
  <2> HIDE DEF f, g, S, T
  <2>1. QED BY <1>2, <1>3, <1>4, <1>5, <1>6, SumGrows
<1>9. /\ SumFunctionOnSet(f, S \ {p}) \in Nat /\ SumFunctionOnSet(g, T) \in Nat
  <2> HIDE DEF f, g, S, T
  <2>1. IsFiniteSet(S \ {p})
    BY <1>3, FS_Subset
  <2>2. QED BY <1>3, <1>4, <1>5, <2>1, SumNat
<1>10. SumFunctionOnSet(f, S) <= tx[t].budget + SumFunctionOnSet(g, T)
  <2>1. CASE p \in S
    <3>1. f[p] \in Nat /\ f[p] <= tx[t].budget
      BY <1>0, <1>4, <2>1
    <3>2. SumFunctionOnSet(f, S) = f[p] + SumFunctionOnSet(f, S \ {p})
      <4> HIDE DEF f, S
      <4>1. QED BY <1>3, <1>4, <2>1, SumTakes
    <3> HIDE DEF f, g, S, T
    <3>3. QED BY <1>7, <1>8, <1>9, <3>1, <3>2
  <2>2. CASE p \notin S
    <3>1. S = S \ {p}
      BY <2>2
    <3> HIDE DEF f, g, S, T
    <3>2. SumFunctionOnSet(f, S) = SumFunctionOnSet(f, S \ {p})
      BY <3>1
    <3>3. QED BY <1>7, <1>8, <1>9, <3>2
  <2>3. QED BY <2>1, <2>2
<1>11. QED BY <1>10 DEF Committed

LEMMA CommitFits ==
  ASSUME IInv, IInv', Capacity, NEW t \in Txs, Commit(t)
  PROVE  Capacity'
<1>0. /\ tx[t] \in TxType /\ tx[t] # NoTx /\ tx[t].step = "checked"
      /\ \A u \in Txs : tx'[u] = IF u = t THEN NoTx ELSE tx[u]
      /\ seen' = seen
      /\ \A q \in Reservations : q # tx[t].r => row'[q] = row[q]
  BY CommitRows
<1>1. Types /\ Types'
  BY DEF IInv
<1>2. RowsFinite'
  <2>1. {r \in Reservations : row'[r] # Null} \subseteq {r \in Reservations : row[r] # Null} \cup {tx[t].r}
    BY <1>0
  <2>2. IsFiniteSet({r \in Reservations : row[r] # Null} \cup {tx[t].r})
    BY FS_AddElement DEF Capacity, RowsFinite
  <2>3. QED BY <2>1, <2>2, FS_Subset DEF RowsFinite
<1>3. OneTx'
  BY <1>0 DEF Capacity, OneTx
<1>4. ASSUME NEW a, NEW z, NEW p PROVE Committed(a, z, p) \in Int /\ Committed(a, z, p)' \in Int
  <2>1. Committed(a, z, p) \in Nat
    BY <1>1, CommittedNat DEF Capacity
  <2>2. Committed(a, z, p)' \in Nat
    BY <1>1, <1>2, CommittedNatNext
  <2>3. QED BY <2>1, <2>2
<1>5. TxFits'
  <2> SUFFICES ASSUME NEW u \in Txs, tx'[u] # NoTx, tx'[u].step = "checked", tx'[u].approved
               PROVE  (Committed(tx[u].account, seen[tx[u].account].reset, {tx[u].r})
                         + tx[u].budget <= FullPercent - seen[tx[u].account].used)'
    BY DEF TxFits
  <2>1. tx'[u] = tx[u] /\ u # t
    BY <1>0
  <2>2. tx[u] \in TxType
    BY <1>1, <2>1 DEF Types, TxTypes
  <2>3. PICK a, p, z, w : /\ a = tx[u].account /\ p = {tx[u].r}
                          /\ z = seen[a].reset /\ w = seen[a].used
    OBVIOUS
  <2>4. tx[u].budget \in Int /\ w \in Int /\ FullPercent \in Int
    <3>1. seen[a] \in Week
      BY <1>1, <2>2, <2>3 DEF Types, DataTypes, TxType
    <3>2. QED BY <2>2, <2>3, <3>1, WeekInt, ReservationAssumption DEF TxType
  <2>5. a # tx[t].account
    BY <1>0, <2>1, <2>3 DEF Capacity, OneTx
  <2>6. Committed(a, z, p) + tx[u].budget <= FullPercent - w
    BY <2>1, <2>3 DEF Capacity, TxFits
  <2>7. Committed(a, z, p)' <= Committed(a, z, p)
    BY <1>1, <2>5, CommitElsewhere
  <2>8. Committed(a, z, p) \in Int /\ Committed(a, z, p)' \in Int
    BY <1>4
  <2>9. Committed(a, z, p)' + tx[u].budget <= FullPercent - w
    BY <2>4, <2>6, <2>7, <2>8
  <2>10. QED BY <1>0, <2>1, <2>3, <2>9
<1>6. CommitmentsFit'
  <2> SUFFICES ASSUME NEW a \in Accounts, NEW z, NEW u, z = seen[a].reset, u = seen[a].used,
                      Committing(a, z)' # {}
               PROVE  Committed(a, z, {})' <= FullPercent - u
    BY <1>0 DEF CommitmentsFit
  <2>1. u \in Int /\ FullPercent \in Int
    BY <1>1, ReservationAssumption DEF Types, DataTypes, Week
  <2>2. Committed(a, z, {}) \in Int /\ Committed(a, z, {})' \in Int
    BY <1>4
  <2>3. CASE a # tx[t].account \/ ~tx[t].approved
    <3>1. Committing(a, z)' \subseteq Committing(a, z) /\ Committed(a, z, {})' <= Committed(a, z, {})
      BY <1>1, <2>3, CommitElsewhere
    <3>2. Committed(a, z, {}) <= FullPercent - u
      BY <3>1 DEF Capacity, CommitmentsFit
    <3>3. QED BY <2>1, <2>2, <3>1, <3>2
  <2>4. CASE a = tx[t].account /\ tx[t].approved
    <3>1. PICK p : p = tx[t].r
      OBVIOUS
    <3>2. Committed(a, z, {})' <= tx[t].budget + Committed(a, z, {p})
      BY <1>1, <1>2, <2>4, <3>1, CommitGrants
    <3>3. Committed(a, z, {p}) + tx[t].budget <= FullPercent - u
      BY <1>0, <2>4, <3>1 DEF Capacity, TxFits
    <3>4. tx[t].budget \in Int
      BY <1>0, ReservationAssumption DEF TxType
    <3>5. Committed(a, z, {p}) \in Int
      BY <1>4
    <3>6. QED BY <2>1, <2>2, <3>2, <3>3, <3>4, <3>5
  <2>5. QED BY <2>3, <2>4
<1>7. QED BY <1>2, <1>3, <1>5, <1>6 DEF Capacity

LEMMA CapacityInit == Init => Capacity
<1> SUFFICES ASSUME Init PROVE Capacity
  OBVIOUS
<1>1. \A r \in Reservations : row[r] = Null
  BY DEF Init
<1>2. {r \in Reservations : row[r] # Null} = {}
  BY <1>1
<1>3. RowsFinite
  BY <1>2, FS_EmptySet DEF RowsFinite
<1>4. \A a, z : Committing(a, z) = {}
  BY <1>1 DEF Committing, Granted, Occupies
<1>5. CommitmentsFit
  BY <1>4 DEF CommitmentsFit
<1>6. \A t \in Txs : tx[t] = NoTx
  BY DEF Init
<1>7. QED BY <1>3, <1>5, <1>6 DEF Capacity, OneTx, TxFits

(* An update that keeps account, window and budget, and grants nothing.      *)
LEMMA PutFits ==
  ASSUME Types, Types', Capacity, NEW r \in Reservations, NEW x, Put(r, x), row[r] # Null,
         Granted(x) => /\ Granted(row[r]) /\ x.account = row[r].account
                       /\ x.end = row[r].end /\ x.budget = row[r].budget
                       /\ x.start = row[r].start,
         tx' = tx, consumed' = consumed, now' = now, seen' = seen
  PROVE  Capacity'
<1>1. \A q \in Reservations : row'[q] = IF q = r THEN x ELSE row[q]
  BY DEF Put, Types, DataTypes
<1>2. now <= now' /\ \A q \in Reservations : consumed[q] <= consumed'[q]
  BY ReservationAssumption DEF Types, DataTypes, Times
<1>3. QED BY <1>1, <1>2, RestFits

(* Steps that leave the rows alone.                                          *)
LEMMA StayFits ==
  ASSUME Types, Types', Capacity, row' = row, seen' = seen, now <= now',
         \A r \in Reservations : consumed[r] <= consumed'[r],
         \A t \in Txs : tx'[t] = tx[t] \/ tx'[t] = NoTx
  PROVE  Capacity'
BY RestFits

LEMMA CapacityNext == IInv /\ Capacity /\ [Next]_vars => Capacity'
<1> SUFFICES ASSUME IInv, Capacity, [Next]_vars PROVE Capacity'
  OBVIOUS
<1>0. IInv' /\ Types /\ Types'
  BY InvNext DEF IInv
<1>t. /\ now <= now /\ \A r \in Reservations : consumed[r] \in Int /\ consumed[r] <= consumed[r]
  BY <1>0, ReservationAssumption DEF Types, DataTypes, Times
<1>1. ASSUME NEW t \in Txs, NEW r \in Reservations, NEW a \in Accounts, Request(t, r, a) PROVE Capacity'
  BY <1>0, <1>1, BeginFits DEF Request
<1>2. ASSUME NEW t \in Txs, NEW r \in Reservations, Approve(t, r) PROVE Capacity'
  <2>1. PICK s \in Times, budget \in 1..DefaultBudget :
          Begin(t, r, row[r].account, s, TRUE, budget)
    BY <1>2 DEF Approve
  <2>2. row[r] \in Row
    BY <1>0, <1>2 DEF Approve, Occupies, Types, DataTypes
  <2>3. row[r].account \in Accounts
    BY <2>2 DEF Row
  <2>4. QED BY <1>0, <2>1, <2>3, BeginFits
<1>3. ASSUME NEW t \in Txs, CheckCapacity(t) PROVE Capacity'
  BY <1>0, <1>3, CheckFits
<1>4. ASSUME NEW t \in Txs, Commit(t) PROVE Capacity'
  BY <1>0, <1>4, CommitFits
<1>5. ASSUME NEW t \in Txs, Rollback(t) PROVE Capacity'
  <2>1. /\ tx' = [tx EXCEPT ![t] = NoTx] /\ row' = row /\ consumed' = consumed
        /\ seen' = seen /\ now' = now
    BY <1>5 DEF Rollback, table, readings
  <2>2. \A u \in Txs : tx'[u] = tx[u] \/ tx'[u] = NoTx
    BY <1>0, <2>1 DEF Types, TxTypes
  <2>3. QED BY <1>0, <1>t, <2>1, <2>2, StayFits
<1>6. ASSUME NEW r \in Reservations, Reject(r) \/ Expire(r) PROVE Capacity'
  <2>1. PICK x : /\ Put(r, x) /\ x.status = "cancelled" /\ row[r] # Null
                 /\ tx' = tx /\ consumed' = consumed /\ now' = now /\ seen' = seen
    <3>1. row[r] # Null
      BY <1>6 DEF Reject, Expire, Occupies
    <3>2. row[r] \in Row
      BY <1>0, <3>1 DEF Types, DataTypes
    <3>3. \A p : Cancelled(row[r], p).status = "cancelled"
      BY <3>2 DEF Cancelled, Row
    <3>4. QED BY <1>6, <3>1, <3>3 DEF Reject, Expire, readings
  <2>2. ~Granted(x)
    BY <2>1 DEF Granted, Occupies
  <2>3. QED BY <1>0, <2>1, <2>2, PutFits
<1>7. ASSUME NEW r \in Reservations, Consume(r) PROVE Capacity'
  <2>1. /\ row' = row /\ seen' = seen /\ now' = now /\ tx' = tx
        /\ consumed' = [consumed EXCEPT ![r] = @ + 1]
    BY <1>7 DEF Consume, table
  <2>2. \A q \in Reservations : consumed[q] <= consumed'[q]
    BY <1>0, <1>t, <2>1 DEF Types, DataTypes
  <2>3. QED BY <1>0, <1>t, <2>1, <2>2, StayFits
<1>8. ASSUME NEW c \in Calls, CancelWrite(c) PROVE Capacity'
  <2>1. /\ call[c].r \in Reservations /\ row[call[c].r] # Null /\ row[call[c].r] \in Row
    BY <1>0, <1>8 DEF CancelWrite, NoCall, Types, CallTypes, CallType, DataTypes
  <2>2. PICK r, x :
          /\ r \in Reservations /\ Put(r, x) /\ x.status = "cancelled" /\ row[r] # Null
          /\ tx' = tx /\ consumed' = consumed /\ now' = now /\ seen' = seen
    <3>1. Cancelled(row[call[c].r], row[call[c].r].approval).status = "cancelled"
      BY <2>1 DEF Cancelled, Row
    <3>2. QED BY <1>8, <2>1, <3>1 DEF CancelWrite, readings
  <2>3. ~Granted(x)
    BY <2>2 DEF Granted, Occupies
  <2>4. QED BY <1>0, <2>2, <2>3, PutFits
<1>9. ASSUME NEW c \in Calls, Link(c) \/ LinkFails(c) \/ LinkThrows(c) PROVE Capacity'
  <2>1. /\ call[c].r \in Reservations /\ row[call[c].r] # Null /\ row[call[c].r] \in Row
    BY <1>0, <1>9 DEF Link, LinkFails, LinkThrows, NoCall, Types, CallTypes, CallType, DataTypes
  <2>2. PICK r, x :
          /\ r = call[c].r /\ x = [row[r] EXCEPT !.device = call[c].n]
          /\ r \in Reservations /\ row[r] # Null /\ row[r] \in Row
          /\ row' = row \/ Put(r, x)
          /\ tx' = tx /\ consumed' = consumed /\ now' = now /\ seen' = seen
    BY <1>9, <2>1 DEF Link, LinkFails, LinkThrows, LinkMayWrite, table, readings
  <2>3. /\ x.account = row[r].account /\ x.end = row[r].end /\ x.budget = row[r].budget
        /\ x.status = row[r].status /\ x.approval = row[r].approval /\ x.start = row[r].start
    BY <2>2 DEF Row
  <2>4. Granted(x) => Granted(row[r])
    BY <2>2, <2>3 DEF Granted, Occupies
  <2>5. CASE Put(r, x)
    BY <1>0, <2>2, <2>3, <2>4, <2>5, PutFits
  <2>6. CASE row' = row
    BY <1>0, <1>t, <2>2, <2>6, StayFits
  <2>7. QED BY <2>2, <2>5, <2>6
<1>10. CASE Tick
  <2>1. /\ row' = row /\ seen' = seen /\ tx' = tx /\ consumed' = consumed /\ now' = now + 1
    BY <1>10 DEF Tick, table, readings
  <2>2. now <= now'
    BY <1>0, <2>1 DEF Types, DataTypes, Times
  <2>3. QED BY <1>0, <1>t, <2>1, <2>2, StayFits
<1>11. CASE row' = row /\ seen' = seen /\ now' = now /\ tx' = tx /\ consumed' = consumed
  BY <1>0, <1>t, <1>11, StayFits
<1>12. QED
  BY <1>1, <1>2, <1>3, <1>4, <1>5, <1>6, <1>7, <1>8, <1>9, <1>10, <1>11
     DEF Next, CancelRead, SessionRead, EndRead, ControlTimeout, Undo, EndRevoke, HostIssues,
         HostRefuses, Observe, vars, Others, table, readings

-------------------------------------------------------------------------------
(* Tokens are numbered as they are issued: what a row, a call or a token      *)
(* names has been issued; and no token outlives its reservation.             *)
Marks ==
  /\ \A r \in Reservations : row[r] # Null => row[r].device <= issued[r]
  /\ \A c \in Calls : call[c].step \in {"linking", "undoing"} => call[c].n <= issued[call[c].r]
  /\ \A k \in tokens : k.n <= issued[k.r] /\ now < row[k.r].end

MInv == IInv /\ Marks

(* A row that a call writes: a device in it is that of the call.              *)
LEMMA MarksPut ==
  ASSUME MInv, NEW r \in Reservations, NEW x \in Row, Put(r, x), row[r] # Null,
         x.device <= issued[r], x.end = row[r].end,
         issued' = issued, now' = now, tokens' = tokens,
         \A c \in Calls : \/ call'[c] = call[c]
                          \/ call'[c].step \notin {"linking", "undoing"}
                          \/ call'[c].r = call[c].r /\ call'[c].n = call[c].n
                             /\ call[c].step \in {"linking", "undoing"}
  PROVE  Marks'
<1>1. /\ \A q \in Reservations : row'[q] = IF q = r THEN x ELSE row[q]
      /\ \A k \in tokens : k.r \in Reservations
  BY PutTypes DEF MInv, IInv, Types, DataTypes
<1>2. \A q \in Reservations : row'[q] # Null => row'[q].device <= issued[q]
  BY <1>1 DEF MInv, Marks
<1>3. \A k \in tokens : row'[k.r].end = row[k.r].end
  BY <1>1
<1>4. QED BY <1>2, <1>3 DEF MInv, Marks

(* Steps that leave rows and tokens issued alone.                             *)
LEMMA MarksStay ==
  ASSUME MInv, row' = row, issued' = issued,
         \A k \in tokens' : k \in tokens /\ (now' = now \/ now' < row[k.r].end),
         \A c \in Calls : \/ call'[c] = call[c]
                          \/ call'[c].step \notin {"linking", "undoing"}
                          \/ call'[c].r = call[c].r /\ call'[c].n = call[c].n
                             /\ call[c].step \in {"linking", "undoing"}
  PROVE  Marks'
BY DEF MInv, Marks

(* How a call goes on.                                                        *)
LEMMA CallIs ==
  ASSUME IInv, NEW c \in Calls, NEW x, Go(c, x)
  PROVE  \A d \in Calls : call'[d] = IF d = c THEN x ELSE call[d]
BY DEF Go, IInv, Types, CallTypes

LEMMA MarksIssue ==
  ASSUME MInv, NEW m \in inbox, HostIssues(m)
  PROVE  Marks'
<1> DEFINE n == issued[m.r] + 1
           k == [r |-> m.r, n |-> n]
           x == IF call[m.call].linked THEN NoCall ELSE [step |-> "linking", r |-> m.r, n |-> n]
<1>1. /\ row' = row /\ now' = now /\ now < row[m.r].end
      /\ issued' = [issued EXCEPT ![m.r] = n] /\ tokens' = tokens \cup {k}
      /\ IF m.call = Null THEN call' = call ELSE Go(m.call, x)
  BY DEF HostIssues, Others, table, NextToken
<1>2. /\ m.r \in Reservations /\ m.call \in Calls \cup {Null}
      /\ issued \in [Reservations -> 0..MaxTokens] /\ \A q \in Reservations : issued[q] \in Nat
      /\ tokens \subseteq [r : Reservations, n : 1..MaxTokens]
      /\ row \in [Reservations -> Row \cup {Null}]
  BY ReservationAssumption DEF MInv, IInv, Types, DataTypes
<1>3. \A q \in Reservations : issued'[q] \in Nat /\ issued[q] <= issued'[q]
  BY <1>1, <1>2
<1>4. issued'[m.r] = n /\ n \in Nat
  BY <1>1, <1>2
<1>5. k.r = m.r /\ k.n = n
  OBVIOUS
<1>6. /\ x.step \in {"linking", "undoing"} => x.r = m.r /\ x.n = n
  BY DEF NoCall
<1> HIDE DEF n, k, x
<1>7. \A d \in Calls : call'[d] = IF m.call # Null /\ d = m.call THEN x ELSE call[d]
  <2>1. CASE m.call = Null
    BY <1>1, <2>1
  <2>2. CASE m.call # Null
    BY <1>1, <1>2, <2>2, CallIs DEF MInv
  <2>3. QED BY <2>1, <2>2
<1>8. ASSUME NEW r \in Reservations, row[r] # Null PROVE row[r].device <= issued'[r]
  <2>1. row[r] \in Row /\ row[r].device <= issued[r]
    BY <1>2, <1>8 DEF MInv, Marks
  <2>2. row[r].device \in Int
    BY <2>1, ReservationAssumption DEF Row
  <2>3. QED BY <1>2, <1>3, <2>1, <2>2
<1>9. ASSUME NEW c \in Calls, call'[c].step \in {"linking", "undoing"}
      PROVE  call'[c].n <= issued'[call'[c].r]
  <2>1. CASE call'[c] = x
    BY <1>2, <1>4, <1>6, <1>9, <2>1
  <2>2. CASE call'[c] = call[c]
    <3>1. call[c].n <= issued[call[c].r]
      BY <1>9, <2>2 DEF MInv, Marks
    <3>2. call[c].r \in Reservations /\ call[c].n \in Int
      BY <1>9, <2>2, ReservationAssumption DEF MInv, IInv, Types, CallTypes, CallType, NoCall
    <3>3. QED BY <1>2, <1>3, <2>2, <3>1, <3>2
  <2>3. QED BY <1>7, <2>1, <2>2
<1>10. ASSUME NEW o \in tokens' PROVE o.n <= issued'[o.r] /\ now < row[o.r].end
  <2>1. CASE o = k
    BY <1>1, <1>4, <1>5, <2>1
  <2>2. CASE o \in tokens
    <3>1. o.n <= issued[o.r] /\ now < row[o.r].end
      BY <2>2 DEF MInv, Marks
    <3>2. o.r \in Reservations /\ o.n \in Int
      BY <1>2, <2>2, ReservationAssumption
    <3>3. QED BY <1>2, <1>3, <3>1, <3>2
  <2>3. QED BY <1>1, <2>1, <2>2
<1>11. QED BY <1>1, <1>8, <1>9, <1>10 DEF Marks

LEMMA MarksLink ==
  ASSUME MInv, NEW c \in Calls, Link(c) \/ LinkFails(c) \/ LinkThrows(c)
  PROVE  Marks'
<1> DEFINE r == call[c].r
           n == call[c].n
<1>1. /\ call[c].step = "linking" /\ issued' = issued /\ now' = now /\ tokens' = tokens
      /\ Go(c, NoCall) \/ Go(c, [call[c] EXCEPT !.step = "undoing"])
      /\ row' = row \/ (Put(r, [row[r] EXCEPT !.device = n]) /\ InSession(row[r]))
  BY DEF Link, LinkFails, LinkThrows, LinkMayWrite, table
<1>2. /\ r \in Reservations /\ n \in 1..MaxTokens /\ row[r] # Null /\ row[r] \in Row
      /\ call[c] \in [step : {"linking", "undoing", "ending"}, r : Reservations, n : 1..MaxTokens]
  BY <1>1 DEF MInv, IInv, Types, DataTypes, CallTypes, CallType, NoCall
<1>3. \A d \in Calls : \/ call'[d] = call[d]
                       \/ call'[d].step \notin {"linking", "undoing"}
                       \/ call'[d].r = call[d].r /\ call'[d].n = call[d].n
                          /\ call[d].step \in {"linking", "undoing"}
  <2>1. CASE Go(c, NoCall)
    BY <2>1, CallIs DEF NoCall, MInv
  <2>2. CASE Go(c, [call[c] EXCEPT !.step = "undoing"])
    <3>1. \A d \in Calls : call'[d] = IF d = c THEN [call[c] EXCEPT !.step = "undoing"] ELSE call[d]
      BY <2>2, CallIs DEF MInv
    <3>2. QED BY <1>1, <1>2, <3>1
  <2>3. QED BY <1>1, <2>1, <2>2
<1>4. CASE row' = row
  BY <1>1, <1>3, <1>4, MarksStay
<1>5. CASE Put(r, [row[r] EXCEPT !.device = n])
  <2>1. PICK x : x = [row[r] EXCEPT !.device = n]
    OBVIOUS
  <2>2. x \in Row /\ x.device = n /\ x.end = row[r].end
    BY <1>2, <2>1, ReservationAssumption DEF Row
  <2>3. n <= issued[r]
    BY <1>1 DEF MInv, Marks
  <2>4. Put(r, x)
    BY <1>5, <2>1
  <2> HIDE DEF r, n
  <2>5. QED BY <1>1, <1>2, <1>3, <2>2, <2>3, <2>4, MarksPut
<1>6. QED BY <1>1, <1>4, <1>5

LEMMA MarksCommit ==
  ASSUME MInv, NEW t \in Txs, Commit(t)
  PROVE  Marks'
<1>1. /\ call' = call /\ tokens' = tokens /\ issued' = issued /\ now' = now
      /\ tx[t].step = "checked"
  BY DEF Commit, access
<1>2. tx[t] # NoTx /\ tx[t] \in TxType
  BY <1>1 DEF NoTx, MInv, IInv, Types, TxTypes
<1>3. PICK x : Put(tx[t].r, x) /\ x.device = 0
  BY DEF Commit
<1>4. \A q \in Reservations : row'[q] = IF q = tx[t].r THEN x ELSE row[q]
  BY <1>3 DEF Put, MInv, IInv, Types, DataTypes
<1>5. row[tx[t].r] = Null \/ row[tx[t].r].approval = "pending"
  BY <1>2 DEF MInv, IInv, Table, TxOwns
<1>6. \A k \in tokens : k.r \in Reservations /\ k.r # tx[t].r
  BY <1>5 DEF MInv, IInv, Types, DataTypes, Sessions, SessionsGranted, WasGranted
<1>7. \A q \in Reservations : issued[q] >= 0
  BY ReservationAssumption DEF MInv, IInv, Types, DataTypes
<1>8. QED BY <1>1, <1>3, <1>4, <1>6, <1>7 DEF MInv, Marks

LEMMA MarksNext == MInv /\ [Next]_vars => Marks'
<1> SUFFICES ASSUME MInv, [Next]_vars PROVE Marks'
  OBVIOUS
<1>t. /\ \A k \in tokens : k.r \in Reservations
      /\ \A c \in Calls : call[c] # NoCall => call[c].r \in Reservations /\ row[call[c].r] # Null
      /\ row \in [Reservations -> Row \cup {Null}]
  BY DEF MInv, IInv, Types, DataTypes, CallTypes, CallType
<1>1. ASSUME NEW t \in Txs, Commit(t) PROVE Marks'
  BY <1>1, MarksCommit
<1>2. ASSUME NEW c \in Calls, Link(c) \/ LinkFails(c) \/ LinkThrows(c) PROVE Marks'
  BY <1>2, MarksLink
<1>3. ASSUME NEW m \in inbox, HostIssues(m) PROVE Marks'
  BY <1>3, MarksIssue
<1>4. ASSUME NEW r \in Reservations, NEW p, row[r] # Null, Put(r, Cancelled(row[r], p)),
             p \in {"pending", "approved", "rejected", "expired"},
             issued' = issued, now' = now, tokens' = tokens,
             \A c \in Calls : call'[c] = call[c] \/ call'[c] = NoCall
      PROVE  Marks'
  <2>1. row[r] \in Row
    BY <1>t, <1>4
  <2>2. PICK x : x = Cancelled(row[r], p)
    OBVIOUS
  <2>3. x \in Row /\ x.device = row[r].device /\ x.end = row[r].end
    BY <1>4, <2>1, <2>2 DEF Cancelled, Row
  <2>4. x.device <= issued[r]
    BY <1>4, <2>3 DEF MInv, Marks
  <2>5. QED BY <1>4, <2>2, <2>3, <2>4, MarksPut DEF NoCall
<1>5. ASSUME NEW r \in Reservations, Reject(r) \/ Expire(r) PROVE Marks'
  BY <1>4, <1>5 DEF Reject, Expire, Occupies, access
<1>6. ASSUME NEW c \in Calls, CancelWrite(c) PROVE Marks'
  <2>1. PICK r, p :
          /\ r = call[c].r /\ p = row[r].approval /\ Put(r, Cancelled(row[r], p))
          /\ Go(c, NoCall) /\ issued' = issued /\ now' = now /\ tokens' = tokens
    BY <1>6 DEF CancelWrite
  <2>2. call[c] # NoCall
    BY <1>6 DEF CancelWrite, NoCall
  <2>3. r \in Reservations /\ row[r] # Null /\ row[r] \in Row
    BY <1>t, <2>1, <2>2
  <2>4. p \in {"pending", "approved", "rejected", "expired"}
    BY <2>1, <2>3 DEF Row
  <2>5. QED BY <1>4, <2>1, <2>3, <2>4, CallIs DEF MInv
<1>7. ASSUME NEW c \in Calls, NEW x, Go(c, x), x.step \notin {"linking", "undoing"},
             row' = row, issued' = issued, now' = now, tokens' \subseteq tokens
      PROVE  Marks'
  BY <1>7, CallIs, MarksStay DEF MInv
<1>8. ASSUME NEW c \in Calls, NEW r \in Reservations, CancelRead(c, r) \/ SessionRead(c, r) \/ EndRead(c, r)
      PROVE  Marks'
  <2>1. PICK x : Go(c, x) /\ x.step \notin {"linking", "undoing"}
    BY <1>8 DEF CancelRead, SessionRead, EndRead
  <2>2. row' = row /\ issued' = issued /\ now' = now /\ tokens' = tokens
    BY <1>8 DEF CancelRead, SessionRead, EndRead, Others, table
  <2>3. QED BY <1>7, <2>1, <2>2
<1>9. ASSUME NEW c \in Calls, ControlTimeout(c) \/ Undo(c) \/ EndRevoke(c) PROVE Marks'
  <2>1. Go(c, NoCall) /\ row' = row /\ issued' = issued /\ now' = now /\ tokens' \subseteq tokens
    BY <1>9 DEF ControlTimeout, Undo, EndRevoke, Others, table
  <2>2. QED BY <1>7, <2>1 DEF NoCall
<1>10. ASSUME NEW m \in inbox, HostRefuses(m) PROVE Marks'
  <2>1. row' = row /\ issued' = issued /\ now' = now /\ tokens' = tokens
    BY <1>10 DEF HostRefuses, Others, table
  <2>2. m.call \in Calls \cup {Null}
    BY DEF MInv, IInv, Types, DataTypes
  <2>3. CASE m.call = Null
    BY <1>10, <2>1, <2>3, MarksStay DEF HostRefuses
  <2>4. CASE m.call # Null
    BY <1>7, <1>10, <2>1, <2>2, <2>4 DEF HostRefuses, NoCall
  <2>5. QED BY <2>3, <2>4
<1>11. CASE Tick
  BY <1>11, MarksStay DEF Tick, table
<1>12. CASE row' = row /\ call' = call /\ issued' = issued /\ now' = now /\ tokens' = tokens
  BY <1>12, MarksStay
<1>13. QED
  BY <1>1, <1>2, <1>3, <1>5, <1>6, <1>8, <1>9, <1>10, <1>11, <1>12
     DEF Next, Request, Approve, Begin, CheckCapacity, Rollback, Consume, Observe, vars, table,
         access

LEMMA MInvHolds == Spec => []MInv
<1>1. Init => MInv
  <2> SUFFICES ASSUME Init PROVE Marks
    BY InvInit DEF MInv
  <2>1. \A r \in Reservations : row[r] = Null
    BY DEF Init
  <2>2. tokens = {} /\ \A c \in Calls : call[c] = NoCall
    BY DEF Init
  <2>3. QED BY <2>1, <2>2 DEF Marks, NoCall
<1>2. MInv /\ [Next]_vars => MInv'
  BY MarksNext, InvNext DEF MInv
<1>3. QED BY <1>1, <1>2, PTL DEF Spec

-------------------------------------------------------------------------------
(* Every state of the reservations has its types.                            *)
THEOREM ReservationTypes == Spec => []TypeOK
<1>1. IInv => TypeOK
  BY TypesOK DEF IInv
<1>2. QED BY <1>1, InvHolds, PTL

(* Reservations that hold a place on an account do not overlap, whatever     *)
(* transactions, approvals and withdrawals race (the SQL of the operational  *)
(* fixed slots, :125).                                                       *)
THEOREM NeverOverlap == Spec => []NoOverlap
<1>1. IInv => NoOverlap
  BY DEF IInv, Table
<1>2. QED BY <1>1, InvHolds, PTL

(* A live token belongs to a reservation that was approved, in its window,   *)
(* and not cancelled before its start.                                       *)
THEOREM TokensGranted == Spec => []TokenNeedsGrant
<1>1. MInv => TokenNeedsGrant
  BY DEF MInv, Marks, IInv, Sessions, SessionsGranted, WasGranted, TokenNeedsGrant
<1>2. QED BY <1>1, MInvHolds, PTL

(* No account serves two reservations at once.                               *)
THEOREM CustomerIsOne == Spec => []OneCustomer
<1>1. IInv => OneCustomer
  BY DEF IInv, Sessions
<1>2. QED BY <1>1, InvHolds, PTL

(* A session that runs can be ended, and its only token with it, but for     *)
(* late cancellations and calls that timed out, threw or could not undo      *)
(* (relay.ts:1655-1717).                                                     *)
THEOREM EndIsPossible == Spec => []SessionsCanEnd
<1>1. MInv => SessionsCanEnd
  <2> SUFFICES ASSUME MInv, NEW k \in tokens, k.r \notin failed \cup late,
                      \A c \in Calls : call[c] # NoCall => call[c].r # k.r
               PROVE  /\ InSession(row[k.r]) /\ row[k.r].device \in 1..issued[k.r]
                      /\ issued[k.r] = 1 => row[k.r].device = k.n
    BY DEF SessionsCanEnd
  <2>1. ~SeenTo(k)
    BY DEF SeenTo, NoCall
  <2>2. row[k.r].device # 0
    BY <2>1 DEF MInv, IInv, Sessions, TokensSeenTo
  <2>3. /\ k.r \in Reservations /\ k.n \in 1..MaxTokens
        /\ WasGranted(k.r) /\ now < row[k.r].end /\ k.n <= issued[k.r]
        /\ row[k.r].device <= issued[k.r]
    BY DEF MInv, Marks, IInv, Types, DataTypes, Sessions, SessionsGranted, WasGranted
  <2>4. row[k.r] \in Row
    BY <2>3 DEF WasGranted, MInv, IInv, Types, DataTypes
  <2>5. InSession(row[k.r])
    BY <2>3 DEF WasGranted, InSession, Granted, Occupies
  <2>6. row[k.r].device \in Int /\ row[k.r].device >= 0 /\ issued[k.r] \in Int
    BY <2>3, <2>4, ReservationAssumption DEF Row, MInv, IInv, Types, DataTypes
  <2>7. QED BY <2>2, <2>3, <2>5, <2>6
<1>2. QED BY <1>1, MInvHolds, PTL

(* The credential of a reservation is linked once.                           *)
THEOREM LinksOnce == Spec => LinkedOnce
<1>1. IInv /\ [Next]_vars => [\A r \in Reservations : row[r] # Null /\ row[r].device # 0
                                  => row'[r].device = row[r].device]_vars
  BY DeviceStays
<1>2. QED BY <1>1, InvHolds, PTL DEF Spec, LinkedOnce

(* Each grant fits into what the week it was decided in has left, after the  *)
(* commitments to the others that start before its reset: two grants decided *)
(* at the same time do not both take it (account_quota_capacity and its      *)
(* triggers).                                                                *)
THEOREM CommitmentsHold == Spec => []CommitmentsFit
<1>1. Init => IInv /\ Capacity
  BY InvInit, CapacityInit
<1>2. (IInv /\ Capacity) /\ [Next]_vars => (IInv /\ Capacity)'
  BY InvNext, CapacityNext
<1>3. IInv /\ Capacity => CommitmentsFit
  BY DEF Capacity
<1>4. QED BY <1>1, <1>2, <1>3, PTL DEF Spec
===============================================================================
