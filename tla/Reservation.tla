----------------------------- MODULE Reservation -----------------------------
(* Reservations: the transactions that book, approve and withdraw them     *)
(* (20260907120000_operational_fixed_slots.sql) and the handlers of the    *)
(* relay that hand out and end their sessions (relay.ts).                  *)
(*                                                                         *)
(* A slot of five hours is SlotTicks ticks; an immediate reservation       *)
(* starts inside one and ends with it.                                     *)
EXTENDS Integers, FiniteSets, FiniteSetsExt

CONSTANTS
  Reservations, Accounts,
  Txs,            \* transactions that book or approve
  Calls,          \* calls of users being handled by the relay
  Null,
  SlotTicks,      \* ticks of a fixed slot
  FullPercent,    \* 100 percent of an account's week
  DefaultBudget,  \* session_weekly_quota_percent
  Usages, Resets, \* readings of a week: its usage, the tick of its reset
  MaxTokens,      \* bound: tokens issued for two reservations together
  MaxConsumed,    \* bound: usage of a reservation that ends all reports
  MaxTime         \* bound of the clock

ASSUME ReservationAssumption ==
  /\ SlotTicks \in Nat \ {0} /\ FullPercent \in Nat
  /\ DefaultBudget \in 1..FullPercent
  /\ Usages \subseteq 0..FullPercent /\ Resets \subseteq Nat
  /\ MaxTokens \in Nat /\ MaxConsumed \in Nat /\ MaxTime \in Nat

(* A row, as far as it is of interest here.                                *)
Row == [account : Accounts, start : Int, end : Int,
        status : {"scheduled", "cancelled"},
        approval : {"pending", "approved", "rejected", "expired"},
        budget : 0..FullPercent, device : 0..MaxTokens]

Week == [used : Usages, reset : Resets]

ASSUME NullAssumption == Null \notin Row \cup Week \cup Calls

VARIABLES
  row,        \* codex_reservations
  busy,       \* codex_busy_slots
  week,       \* reading of each account's week, Null unless it is ready
  consumed,   \* what the devices of a reservation have consumed
  tx,         \* transactions under way; one holds its account's lock
  call,       \* calls under way
  inbox,      \* session.issue requests the host has not answered
  tokens,     \* tokens of sessions, neither revoked nor expired
  issued,     \* tokens issued for each reservation
  now,
  seen,       \* history: reading with which an account was last found to have room
  late,       \* history: reservations cancelled after their start
  failed      \* history: reservations with a call that failed or timed out

table    == <<row, busy>>
readings == <<week, consumed>>
access   == <<call, inbox, tokens, issued, failed>>
vars     == <<table, readings, tx, access, now, seen, late>>

NoTx   == [step |-> "none"]
NoCall == [step |-> "none"]

Window(start, end) == [start |-> start, end |-> end]
SlotEnd(s)      == (s \div SlotTicks + 1) * SlotTicks
IsFixedSlot(s)  == s % SlotTicks = 0
Times == 0..MaxTime

Init ==
  /\ row = [r \in Reservations |-> Null]
  /\ busy = [r \in Reservations |-> Null]
  /\ week \in [Accounts -> Week] /\ seen = week
  /\ consumed = [r \in Reservations |-> 0]
  /\ tx = [t \in Txs |-> NoTx] /\ call = [c \in Calls |-> NoCall]
  /\ inbox = {} /\ tokens = {}
  /\ issued = [r \in Reservations |-> 0]
  /\ now = 0
  /\ late = {} /\ failed = {}

-----------------------------------------------------------------------------
(* The table: constraints and triggers.                                    *)

OverlapStart(s, e, x) ==  \* mutant: windows overlap when they start together
  s = x.start

(* Half-open windows: adjacent slots do not overlap.                       *)
Overlap(s, e, x) == s < x.end /\ x.start < e

Occupies(x) == /\ x # Null
               /\ x.status = "scheduled" /\ x.approval \in {"pending", "approved"}

Granted(x) == Occupies(x) /\ x.approval = "approved"

Free(r, a, s, e) ==
  \A q \in Reservations \ {r} :
    Occupies(row[q]) /\ row[q].account = a => ~Overlap(s, e, row[q])

(* account_quota_capacity: what the granted reservations of the account,   *)
(* but the excluded, that start before its week is reset still have to     *)
(* consume, and what is left of the week.  No week is known from a reading *)
(* whose reset is past.                                                    *)
KnowsWeek(a) == week[a] # Null /\ now < week[a].reset

Commitment(r) == IF row[r].budget > consumed[r]
                 THEN row[r].budget - consumed[r] ELSE 0
Committing(a, reset) == {r \in Reservations :
                           /\ Granted(row[r]) /\ row[r].account = a
                           /\ now < row[r].end /\ row[r].start < reset}
Commitments(a, reset) == [r \in Committing(a, reset) |-> Commitment(r)]
Committed(a, reset, excluded) ==
  SumFunctionOnSet(Commitments(a, reset), Committing(a, reset) \ excluded)
Available(a, r) ==
  FullPercent - week[a].used - Committed(a, week[a].reset, {r})

(* The trigger sync_busy_slots.                                            *)
SyncBusy(r, x) == IF Occupies(x) THEN Window(x.start, x.end) ELSE Null

Put(r, x) ==
  /\ row' = [row EXCEPT ![r] = x]
  /\ busy' = [busy EXCEPT ![r] = SyncBusy(r, x)]

(* FOR UPDATE of an approval makes other writers of the row wait.          *)
RowLocked(r) == \E t \in Txs : tx[t] # NoTx /\ tx[t].r = r

LockedNever(a) ==  \* mutant: no advisory lock
  FALSE

Locked(a) == \E t \in Txs : tx[t] # NoTx /\ tx[t].account = a

-----------------------------------------------------------------------------
(* Transactions that book and approve.  They take the advisory lock of the *)
(* account, look for conflicts and capacity, write through the triggers,   *)
(* which look at the capacity again, and commit.                           *)

Begin(t, r, a, s, approved, budget) ==
  /\ tx[t] = NoTx /\ ~RowLocked(r) /\ ~Locked(a)
  /\ week[a] # Null
  /\ Free(r, a, s, SlotEnd(s))
  /\ tx' = [tx EXCEPT ![t] =
              [step |-> "begun", r |-> r, account |-> a, start |-> s,
               approved |-> approved, budget |-> budget]]
  /\ UNCHANGED <<table, readings, access, now, seen, late>>

(* One of the fixed slots to come, or the rest of the current one.         *)
Bookable(s) == s >= now /\ (IsFixedSlot(s) \/ s = now)

(* codex_request_reservation; the settings decide on automatic approval.   *)
Request(t, r, a) ==
  /\ row[r] = Null
  /\ \E s \in Times, approved \in BOOLEAN :
       /\ Bookable(s)
       /\ Begin(t, r, a, s, approved, IF approved THEN DefaultBudget ELSE 0)

(* codex_approve_reservation: the window stays or moves to another slot    *)
(* that has not ended, and the budget, of at least one percent, shrinks to *)
(* what is left.                                                           *)
Approve(t, r) ==
  /\ Occupies(row[r]) /\ row[r].approval = "pending"
  /\ LET a == row[r].account
     IN  /\ KnowsWeek(a)
         /\ \E s \in Times, budget \in 1..DefaultBudget :
              /\ \/ budget = Available(a, r)
                 \/ budget = DefaultBudget /\ budget < Available(a, r)
              /\ IsFixedSlot(s) \/ s = now \/ s = row[r].start
              /\ SlotEnd(s) > now
              /\ Begin(t, r, a, s, TRUE, budget)

(* The triggers of the write: enforce_weekly_capacity.                     *)
CheckCapacity(t) ==
  /\ tx[t].step = "begun"
  /\ LET a == tx[t].account
     IN  IF tx[t].approved
         THEN /\ KnowsWeek(a) /\ tx[t].budget <= Available(a, tx[t].r)
              /\ seen' = [seen EXCEPT ![a] = week[a]]
         ELSE UNCHANGED seen
  /\ tx' = [tx EXCEPT ![t].step = "checked"]
  /\ UNCHANGED <<table, readings, access, now, late>>

(* The exclusion constraint holds when the transaction commits.            *)
Commit(t) ==
  /\ tx[t].step = "checked"
  /\ LET w == tx[t]
     IN  /\ Free(w.r, w.account, w.start, SlotEnd(w.start))
         /\ Put(w.r, [account |-> w.account, start |-> w.start,
                      end |-> SlotEnd(w.start), status |-> "scheduled",
                      approval |-> IF w.approved THEN "approved" ELSE "pending",
                      budget |-> w.budget, device |-> 0])
  /\ tx' = [tx EXCEPT ![t] = NoTx]
  /\ UNCHANGED <<readings, access, now, seen, late>>

(* An exception of a check, or a lost connection.                          *)
Rollback(t) ==
  /\ tx[t] # NoTx
  /\ tx' = [tx EXCEPT ![t] = NoTx]
  /\ UNCHANGED <<table, readings, access, now, seen, late>>

-----------------------------------------------------------------------------
(* Updates of a single statement.                                          *)

Cancelled(x, approval) == [x EXCEPT !.status = "cancelled", !.approval = approval]

(* The administrator rejects: the filter asks for a pending reservation.   *)
Reject(r) ==
  /\ Occupies(row[r]) /\ row[r].approval = "pending" /\ ~RowLocked(r)
  /\ Put(r, Cancelled(row[r], "rejected"))
  /\ UNCHANGED <<readings, tx, access, now, seen, late>>

(* The list of the administrator expires what is overdue.                  *)
Expire(r) ==
  /\ row[r] # Null /\ row[r].approval = "pending" /\ row[r].end <= now
  /\ ~RowLocked(r)
  /\ Put(r, Cancelled(row[r], "expired"))
  /\ UNCHANGED <<readings, tx, access, now, seen, late>>

Go(c, x) == call' = [call EXCEPT ![c] = x]

(* The user cancels: the relay reads a reservation to come and then        *)
(* updates it, whatever it is by then.                                     *)
CancelRead(c, r) ==
  /\ call[c] = NoCall
  /\ row[r] # Null /\ row[r].status = "scheduled" /\ row[r].start > now
  /\ Go(c, [step |-> "cancelling", r |-> r])
  /\ UNCHANGED <<table, readings, tx, inbox, tokens, issued, failed, now,
                 seen, late>>

CancelWrite(c) ==
  /\ call[c].step = "cancelling"
  /\ LET r == call[c].r
     IN  /\ ~RowLocked(r)
         /\ Put(r, Cancelled(row[r], row[r].approval))
         /\ late' = IF row[r].status = "scheduled" /\ row[r].start <= now
                    THEN late \cup {r} ELSE late
  /\ Go(c, NoCall)
  /\ UNCHANGED <<readings, tx, inbox, tokens, issued, failed, now, seen>>

-----------------------------------------------------------------------------
(* Sessions.  The relay reads the reservation, asks the host for a token,  *)
(* and links the first token to the reservation.                           *)

Others == <<table, readings, tx, now, seen, late>>

InSession(x) == Granted(x) /\ x.start <= now /\ now < x.end

SessionReadPending(c, r) ==  \* mutant: a reservation need not be approved
  /\ call[c] = NoCall
  /\ Occupies(row[r]) /\ row[r].start <= now /\ now < row[r].end
  /\ Go(c, [step |-> "issuing", r |-> r, linked |-> row[r].device # 0])
  /\ inbox' = inbox \cup {[r |-> r, call |-> c]}
  /\ UNCHANGED <<Others, tokens, issued, failed>>

SessionRead(c, r) ==
  /\ call[c] = NoCall
  /\ InSession(row[r])
  /\ Go(c, [step |-> "issuing", r |-> r, linked |-> row[r].device # 0])
  /\ inbox' = inbox \cup {[r |-> r, call |-> c]}
  /\ UNCHANGED <<Others, tokens, issued, failed>>

TakenNever(r) ==  \* mutant: issue does not look for other holders
  FALSE

Taken(r) == \E k \in tokens : k.r # r /\ row[k.r].account = row[r].account

NextToken(r) == issued[r] + 1
WithinBound(r) ==
  /\ issued[r] < MaxTokens
  /\ \A q \in Reservations \ {r} : issued[r] + issued[q] < MaxTokens

(* session.issue on the host: a token to the end of the reservation unless *)
(* the account has another holder.                                         *)
HostIssues(m) ==
  /\ now < row[m.r].end /\ ~Taken(m.r)
  /\ WithinBound(m.r)
  /\ issued' = [issued EXCEPT ![m.r] = @ + 1]
  /\ tokens' = tokens \cup {[r |-> m.r, n |-> NextToken(m.r)]}
  /\ inbox' = inbox \ {m}
  /\ IF m.call = Null THEN UNCHANGED call
     ELSE Go(m.call, IF call[m.call].linked THEN NoCall
                     ELSE [step |-> "linking", r |-> m.r, n |-> NextToken(m.r)])
  /\ UNCHANGED <<Others, failed>>

(* The host rejects the request or loses it with the tunnel.               *)
HostRefuses(m) ==
  /\ inbox' = inbox \ {m}
  /\ IF m.call = Null THEN UNCHANGED call ELSE Go(m.call, NoCall)
  /\ UNCHANGED <<Others, tokens, issued, failed>>

(* sendControlRequest gives up after 20 seconds, or the tunnel is lost; the *)
(* host may still answer.                                                  *)
ControlTimeout(c) ==
  /\ call[c].step = "issuing"
  /\ inbox' = {IF m.call = c THEN [m EXCEPT !.call = Null] ELSE m : m \in inbox}
  /\ failed' = failed \cup {call[c].r}
  /\ Go(c, NoCall)
  /\ UNCHANGED <<Others, tokens, issued>>

(* The effect of an update whose answer is an error or is lost.             *)
LinkMayWrite(c) ==
  LET r == call[c].r
  IN  \/ UNCHANGED table
      \/ /\ row[r].device = 0 /\ InSession(row[r]) /\ ~RowLocked(r)
         /\ Put(r, [row[r] EXCEPT !.device = call[c].n])

LinkAgain(c) ==  \* mutant: neither filter nor trigger looks at the device
  /\ call[c].step = "linking" /\ ~RowLocked(call[c].r)
  /\ Go(c, NoCall)
  /\ Put(call[c].r, [row[call[c].r] EXCEPT !.device = call[c].n])
  /\ UNCHANGED <<readings, tx, inbox, tokens, issued, failed, now, seen, late>>

(* The update of a reservation without a device, through the trigger that  *)
(* only links to a session under way; another link is left alone.          *)
Link(c) ==
  /\ call[c].step = "linking"
  /\ LET r == call[c].r
     IN  /\ ~RowLocked(r)
         /\ IF row[r].device # 0
            THEN Go(c, NoCall) /\ UNCHANGED table
            ELSE IF InSession(row[r])
            THEN Go(c, NoCall) /\ Put(r, [row[r] EXCEPT !.device = call[c].n])
            ELSE Go(c, [call[c] EXCEPT !.step = "undoing"]) /\ UNCHANGED table
  /\ UNCHANGED <<readings, tx, inbox, tokens, issued, failed, now, seen, late>>

(* The update reports an error, with or without its effect, and the token  *)
(* is to be undone.                                                        *)
LinkFails(c) ==
  /\ call[c].step = "linking"
  /\ LinkMayWrite(c)
  /\ Go(c, [call[c] EXCEPT !.step = "undoing"])
  /\ UNCHANGED <<readings, tx, inbox, tokens, issued, failed, now, seen, late>>

(* The update throws, and so does the handler: nothing is undone.          *)
LinkThrows(c) ==
  /\ call[c].step = "linking"
  /\ LinkMayWrite(c)
  /\ failed' = failed \cup {call[c].r}
  /\ Go(c, NoCall)
  /\ UNCHANGED <<readings, tx, inbox, tokens, issued, now, seen, late>>

UndoNothing(c) ==  \* mutant: a token that cannot be linked is kept
  /\ call[c].step = "undoing"
  /\ Go(c, NoCall)
  /\ UNCHANGED <<Others, inbox, tokens, issued, failed>>

(* The token that could not be linked is revoked; a failure is swallowed.  *)
Undo(c) ==
  /\ call[c].step = "undoing"
  /\ LET k == [r |-> call[c].r, n |-> call[c].n]
     IN  \/ tokens' = tokens \ {k} /\ UNCHANGED failed
         \/ UNCHANGED tokens /\ failed' = failed \cup {k.r}
  /\ Go(c, NoCall)
  /\ UNCHANGED <<Others, inbox, issued>>

(* The user ends the session: the linked token is revoked.                 *)
EndRead(c, r) ==
  /\ call[c] = NoCall
  /\ InSession(row[r]) /\ row[r].device # 0
  /\ Go(c, [step |-> "ending", r |-> r, n |-> row[r].device])
  /\ UNCHANGED <<Others, inbox, tokens, issued, failed>>

EndRevoke(c) ==
  /\ call[c].step = "ending"
  /\ \/ tokens' = tokens \ {[r |-> call[c].r, n |-> call[c].n]}
     \/ UNCHANGED tokens
  /\ Go(c, NoCall)
  /\ UNCHANGED <<Others, inbox, issued, failed>>

-----------------------------------------------------------------------------
(* Telemetry, and time, with which tokens expire.  A transaction lasts     *)
(* less than a tick.                                                       *)

Observe(a) ==
  /\ \E u \in Week \cup {Null} : u # week[a] /\ week' = [week EXCEPT ![a] = u]
  /\ UNCHANGED <<table, consumed, tx, access, now, seen, late>>

Consume(r) ==
  /\ \E k \in tokens : k.r = r
  /\ \A q \in Reservations : consumed[q] < MaxConsumed
  /\ consumed' = [consumed EXCEPT ![r] = @ + 1]
  /\ UNCHANGED <<table, week, tx, access, now, seen, late>>

Tick ==
  /\ now < MaxTime /\ \A t \in Txs : tx[t] = NoTx
  /\ now' = now + 1
  /\ tokens' = {k \in tokens : now' < row[k.r].end}
  /\ UNCHANGED <<table, readings, tx, call, inbox, issued, failed, seen, late>>

Next ==
  \/ \E t \in Txs :
       \/ \E r \in Reservations, a \in Accounts : Request(t, r, a)
       \/ \E r \in Reservations : Approve(t, r)
       \/ CheckCapacity(t) \/ Commit(t) \/ Rollback(t)
  \/ \E r \in Reservations : Reject(r) \/ Expire(r) \/ Consume(r)
  \/ \E c \in Calls :
       \/ \E r \in Reservations : CancelRead(c, r) \/ SessionRead(c, r)
                                  \/ EndRead(c, r)
       \/ CancelWrite(c) \/ ControlTimeout(c)
       \/ Link(c) \/ LinkFails(c) \/ LinkThrows(c) \/ Undo(c) \/ EndRevoke(c)
  \/ \E m \in inbox : HostIssues(m) \/ HostRefuses(m)
  \/ \E a \in Accounts : Observe(a)
  \/ Tick

Spec == Init /\ [][Next]_vars

-----------------------------------------------------------------------------
(* Properties.                                                             *)

TypeOK ==
  /\ row \in [Reservations -> Row \cup {Null}]
  /\ busy \in [Reservations -> [start : Int, end : Int] \cup {Null}]
  /\ week \in [Accounts -> Week \cup {Null}]
  /\ consumed \in [Reservations -> 0..MaxConsumed]
  /\ \A t \in Txs : tx[t] # NoTx =>
       /\ tx[t].r \in Reservations /\ tx[t].account \in Accounts
       /\ tx[t].budget \in 0..DefaultBudget
  /\ \A c \in Calls : call[c] # NoCall => call[c].r \in Reservations /\ row[call[c].r] # Null
  /\ inbox \subseteq [r : Reservations, call : Calls \cup {Null}]
  /\ tokens \subseteq [r : Reservations, n : 1..MaxTokens]
  /\ issued \in [Reservations -> 0..MaxTokens]
  /\ seen \in [Accounts -> Week]
  /\ late \subseteq Reservations /\ failed \subseteq Reservations
  /\ now \in Times

(* IMPLEMENTATION_HANDOFF_LOCAL_RUNTIME_OAUTH_PROXY.md:274: reservations   *)
(* that hold a place on an account do not overlap, immediate ones and      *)
(* those an approval has moved included.                                   *)
NoOverlap ==
  \A r, q \in Reservations :
    (/\ r # q /\ Occupies(row[r]) /\ Occupies(row[q])
     /\ row[r].account = row[q].account)
    => row[r].end <= row[q].start \/ row[q].end <= row[r].start

(* Each grant fits into what the week it was decided in has left, after    *)
(* the commitments to the others that start before its reset: also grants  *)
(* decided at the same time.                                               *)
CommitmentsFit ==
  \A a \in Accounts :
    LET reset == seen[a].reset
    IN  Committing(a, reset) # {}
        => Committed(a, reset, {}) <= FullPercent - seen[a].used

(* The slots shown as busy are those of the reservations holding a place.  *)
BusyExact ==
  \A r \in Reservations :
    IF Occupies(row[r])
    THEN busy[r] = [start |-> row[r].start, end |-> row[r].end]
    ELSE busy[r] = Null

(* PRODUCT.md:10: a live token belongs to an approved reservation in its   *)
(* window that has not been cancelled, unless after its start.             *)
TokenNeedsGrant ==
  \A k \in tokens :
    /\ row[k.r].approval = "approved" /\ row[k.r].start <= now /\ now < row[k.r].end
    /\ row[k.r].status = "scheduled" \/ k.r \in late

(* No account serves two reservations at once, even when a late            *)
(* cancellation has freed the slot of a session that goes on.              *)
OneCustomer ==
  \A k, l \in tokens : row[k.r].account = row[l.r].account => k.r = l.r

(* A session that runs can be ended, and its only token with it: between   *)
(* calls, its reservation names one of the tokens issued for it, the only  *)
(* one if there is no other.  Excepted are late cancellations and calls    *)
(* that timed out, threw, or could not undo (relay.ts:1655-1717).          *)
SessionsCanEnd ==
  \A k \in tokens :
    (/\ k.r \notin failed \cup late
     /\ \A c \in Calls : call[c] # NoCall => call[c].r # k.r)
    => /\ InSession(row[k.r]) /\ row[k.r].device \in 1..issued[k.r]
       /\ issued[k.r] = 1 => row[k.r].device = k.n

(* The credential of a reservation is linked once, by concurrent calls too. *)
LinkedOnce ==
  [][\A r \in Reservations :
       row[r] # Null /\ row[r].device # 0
       => row'[r].device = row[r].device]_vars
=============================================================================
