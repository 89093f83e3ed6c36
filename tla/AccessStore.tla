----------------------------- MODULE AccessStore -----------------------------
(***************************************************************************)
(* The registry of device tokens, server/src/access-store.ts.  The host    *)
(* agent and the `access` command line issue, police, disable, revoke and  *)
(* meter tokens through this one JSON file; each operation below is one    *)
(* read-modify-write under withWriteLock (the lock itself is the subject   *)
(* of RegistryFile).                                                       *)
(*                                                                         *)
(* A device is a record; the registry is the array of the file, in issue   *)
(* order, and entries are never removed from it.  Labels, hashes, SSH keys, *)
(* user ids, allowedModels and lastSeenAt (all that touch writes) are       *)
(* carried by the store but decide nothing in it, and are left out; the    *)
(* token counters recordUsage also keeps are left out as well.             *)
(***************************************************************************)
EXTENDS Integers, Sequences

CONSTANTS
  Accounts,      \* accounts a token can be bound to
  Reservations,  \* reservations a session token can be issued for
  Null,          \* JSON null
  Keep,          \* an absent (undefined) option of updatePolicy
  Readings,      \* rate-limit readings the workers can report
  Budgets,       \* weekly budget granted to each reservation
  WeeklyLimits,  \* weeklyLimitPercent values an operator sets
  FullPercent,   \* 100: the value that means "monitoring only"
  ConsumedCap,   \* 10_000: saturation of the consumed ledger
  ResetSlack,    \* 60 s: difference of reset times treated as jitter
  Expiries,      \* expiry instants a caller can ask for
  MaxDevices,    \* bound: entries issued
  MaxTime        \* bound: last instant of the clock

ASSUME ConstantsAssumption ==
  /\ FullPercent \in Nat /\ ConsumedCap \in Nat /\ ResetSlack \in Nat
  /\ MaxDevices \in Nat /\ MaxTime \in Nat
  /\ Expiries \subseteq Nat
  /\ WeeklyLimits \subseteq 0..FullPercent
  /\ Budgets \in [Reservations -> 1..FullPercent]
  /\ Null \notin Int /\ Null \notin Accounts /\ Null \notin Reservations
  /\ Keep \notin Int /\ Keep \notin Accounts /\ Keep # Null

ASSUME ReadingsAssumption ==
  Readings \subseteq [used     : Int \cup {Null},
                      duration : (Nat \ {0}) \cup {Null},
                      resetsAt : Nat \cup {Null}]

VARIABLES
  registry,  \* the devices array of the file
  now,       \* the clock the operations read
  revived,   \* history: entries whose expiry was moved after it had passed
  paused,    \* history: entries that have been disabled or revoked
  floor      \* history: highest ledger recordUsage has stored per session

history == <<revived, paused, floor>>
vars == <<registry, now, revived, paused, floor>>

Scopes == {"all", "reservations", "manual"}
Device == [account     : Accounts \cup {Null},
           reservation : Reservations \cup {Null},
           revoked     : BOOLEAN,
           disabled    : BOOLEAN,
           expiresAt   : Nat,
           weeklyLimit : 0..FullPercent,
           base        : Int \cup {Null},
           budget      : Int \cup {Null},
           consumed    : 0..ConsumedCap,
           last        : Int \cup {Null},
           used        : Int \cup {Null},
           duration    : Nat \cup {Null},
           resetsAt    : Nat \cup {Null},
           limited     : BOOLEAN]

-----------------------------------------------------------------------------
(* What the code asks of one entry.                                        *)

Unexpired(d) == d.expiresAt > now
Live(d)      == ~d.revoked /\ Unexpired(d)
Active(d)    == Live(d) /\ ~d.disabled
Budgeted(d)  == d.base # Null /\ d.budget # Null

LimitReached(d, used) ==
  IF Budgeted(d) THEN d.consumed >= d.budget
  ELSE used # Null /\ d.weeklyLimit < FullPercent /\ used >= d.weeklyLimit

Least(a, b)    == IF a < b THEN a ELSE b
Greatest(a, b) == IF a > b THEN a ELSE b
Clamped(used)  == Greatest(0, Least(FullPercent, used))

FirstOf(a, b) == IF a # Null THEN a ELSE b
Previous(d)   == FirstOf(d.last, FirstOf(d.used, d.base))

SameWindow(d, r) ==
  r.duration = Null \/ d.duration = Null \/ r.duration = d.duration

WindowChanged(d, r) ==
  /\ SameWindow(d, r)
  /\ r.resetsAt # Null /\ d.resetsAt # Null
  /\ r.resetsAt - d.resetsAt > ResetSlack
  /\ d.resetsAt <= now

DeltaSigned(d, r) ==  \* mutant: a lower reading counts as a refund
  IF Previous(d) = Null \/ ~SameWindow(d, r) THEN 0
  ELSE IF WindowChanged(d, r) THEN Clamped(r.used)
  ELSE Clamped(r.used) - Previous(d)

(* What a reading adds to the consumed ledger.  Without a previous reading *)
(* there is no base either, so the code's last branch adds nothing.        *)
Delta(d, r) ==
  LET current  == Clamped(r.used)
      previous == Previous(d)
  IN  IF previous = Null THEN 0
      ELSE IF WindowChanged(d, r) THEN current
      ELSE IF SameWindow(d, r) THEN Greatest(0, current - previous)
      ELSE 0

Progress(d, r) ==
  LET current  == Clamped(r.used)
      previous == Previous(d)
  IN  IF r.used = Null THEN d
      ELSE [d EXCEPT
             !.consumed = Least(ConsumedCap, d.consumed + Delta(d, r)),
             !.last = IF /\ SameWindow(d, r) /\ ~WindowChanged(d, r)
                         /\ previous # Null
                      THEN Greatest(previous, current) ELSE current]

(* The whole effect of a reading on an entry's account usage.              *)
Metered(d, r) ==
  LET p == [Progress(d, r) EXCEPT
              !.resetsAt = FirstOf(r.resetsAt, d.resetsAt),
              !.used = r.used, !.duration = r.duration]
  IN  [p EXCEPT !.limited = LimitReached(p, r.used)]

WithLedgerNoFlag(d, from) ==  \* mutant: the blocked flag is not copied
  [d EXCEPT !.consumed = from.consumed, !.last = from.last,
            !.resetsAt = from.resetsAt, !.used = from.used,
            !.duration = from.duration]

WithLedgerNoLast(d, from) ==  \* mutant: the highest reading is not copied
  [d EXCEPT !.consumed = from.consumed,
            !.resetsAt = from.resetsAt, !.used = from.used,
            !.duration = from.duration, !.limited = from.limited]

WithLedger(d, from) ==
  [d EXCEPT !.consumed = from.consumed, !.last = from.last,
            !.resetsAt = from.resetsAt, !.used = from.used,
            !.duration = from.duration, !.limited = from.limited]

LiveSessionsOf(r, a) ==  \* mutant: tokens no longer live are left behind
  {i \in DOMAIN registry : /\ r # Null /\ Live(registry[i])
                           /\ registry[i].reservation = r
                           /\ registry[i].account = a}

(* Entries that share the ledger of reservation r on account a.            *)
SessionsOf(r, a) ==
  {i \in DOMAIN registry : /\ r # Null
                           /\ registry[i].reservation = r
                           /\ registry[i].account = a}

(* The entry issue copies the ledger from: most consumed, oldest on a tie. *)
MostCharged(S) ==
  {i \in S : \A j \in S : \/ registry[j].consumed < registry[i].consumed
                          \/ /\ registry[j].consumed = registry[i].consumed
                             /\ i <= j}

OtherLive(d, a) ==
  \E i \in DOMAIN registry \ {d} : registry[i].account = a /\ Live(registry[i])

-----------------------------------------------------------------------------
Init ==
  /\ registry = <<>>
  /\ now = 0
  /\ revived = {}
  /\ paused = {}
  /\ floor = [s \in Reservations \X Accounts |-> 0]

Fresh(a, r, base, budget, limit, expiry) ==
  [account |-> a, reservation |-> r, revoked |-> FALSE, disabled |-> FALSE,
   expiresAt |-> expiry, weeklyLimit |-> limit,
   base |-> base, budget |-> budget, consumed |-> 0, last |-> Null,
   used |-> Null, duration |-> Null, resetsAt |-> Null, limited |-> FALSE]

AccountTakenByOther(a, r) ==  \* mutant: a manual token ignores its likes
  /\ a # Null
  /\ \E i \in DOMAIN registry : /\ registry[i].account = a
                                /\ Live(registry[i])
                                /\ registry[i].reservation # r

(* issue refuses an account that another reservation, or any token when the *)
(* new one has no reservation, holds live.                                  *)
AccountTaken(a, r) ==
  /\ a # Null
  /\ \E i \in DOMAIN registry : /\ registry[i].account = a
                                /\ Live(registry[i])
                                /\ r = Null \/ registry[i].reservation # r

Issue(a, r, base, budget, limit, expiry) ==
  LET fresh    == Fresh(a, r, base, budget, limit, expiry)
      sessions == SessionsOf(r, a)
  IN  /\ Len(registry) < MaxDevices
      /\ expiry > now
      /\ ~AccountTaken(a, r)
      /\ \/ sessions = {} /\ registry' = Append(registry, fresh)
         \/ \E p \in MostCharged(sessions) :
              registry' = Append(registry,
                [WithLedger(fresh, registry[p]) EXCEPT
                   !.base = registry[p].base])
      /\ UNCHANGED <<now, history>>

(* access.issue: an operator's token, with an optional account.            *)
IssueManual ==
  \E a \in Accounts \cup {Null}, limit \in WeeklyLimits, e \in Expiries :
    Issue(a, Null, Null, Null, limit, e)

(* session.issue: the token of an approved reservation; the base is the    *)
(* account's current weekly reading, which the host requires to be known.  *)
IssueSession ==
  \E a \in Accounts, r \in Reservations, e \in Expiries,
     reading \in {x \in Readings : x.used # Null} :
    Issue(a, r, reading.used, Budgets[r], Budgets[r], e)

UpdatePolicy(d, account, limit, expiry) ==
  LET was == registry[d]
  IN  /\ ~was.revoked
      /\ account # Keep =>
           /\ was.account = Null \/ was.account = account
           /\ account # Null => ~OtherLive(d, account)
      /\ expiry # Keep => expiry > now
      /\ registry' = [registry EXCEPT
           ![d].account = IF account = Keep THEN @ ELSE account,
           ![d].weeklyLimit = IF limit = Keep THEN @ ELSE limit,
           ![d].expiresAt = IF expiry = Keep THEN @ ELSE expiry]
      /\ revived' = IF expiry # Keep /\ ~Unexpired(was)
                    THEN revived \cup {d} ELSE revived
      /\ UNCHANGED <<now, paused, floor>>

Disable(d) ==
  /\ ~registry[d].revoked /\ ~registry[d].disabled
  /\ registry' = [registry EXCEPT ![d].disabled = TRUE]
  /\ paused' = paused \cup {d}
  /\ UNCHANGED <<now, revived, floor>>

Enable(d) ==
  /\ Live(registry[d]) /\ registry[d].disabled
  /\ registry' = [registry EXCEPT ![d].disabled = FALSE]
  /\ UNCHANGED <<now, history>>

Revoke(d) ==
  /\ ~registry[d].revoked
  /\ registry' = [registry EXCEPT ![d].revoked = TRUE]
  /\ paused' = paused \cup {d}
  /\ UNCHANGED <<now, revived, floor>>

Reactivate(d) ==
  /\ registry[d].revoked /\ Unexpired(registry[d])
  /\ registry[d].account # Null => ~OtherLive(d, registry[d].account)
  /\ registry' = [registry EXCEPT ![d].revoked = FALSE, ![d].disabled = FALSE]
  /\ UNCHANGED <<now, history>>

(* revokeAll and revokeForAccount keep the entries they do not match.      *)
RevokeMatching(Match(_)) ==
  /\ \E i \in DOMAIN registry : Match(registry[i]) /\ ~registry[i].revoked
  /\ registry' = [i \in DOMAIN registry |->
                    IF Match(registry[i])
                    THEN [registry[i] EXCEPT !.revoked = TRUE]
                    ELSE registry[i]]
  /\ paused' = paused \cup {i \in DOMAIN registry : Match(registry[i])}
  /\ UNCHANGED <<now, revived, floor>>

RevokeAll           == LET Any(d) == TRUE IN RevokeMatching(Any)
RevokeForAccount(a) == LET OnIt(d) == d.account = a IN RevokeMatching(OnIt)

(* A token-usage notification: meter the device, then bring every entry of *)
(* the same session that has not consumed more up to this ledger.          *)
RecordUsage(d, r) ==
  LET metered == Metered(registry[d], r)
      session == <<registry[d].reservation, registry[d].account>>
      peers   == {i \in SessionsOf(registry[d].reservation,
                                   registry[d].account) :
                    i # d /\ registry[i].consumed <= metered.consumed}
  IN  /\ Active(registry[d])
      /\ registry' = [i \in DOMAIN registry |->
                        IF i = d THEN metered
                        ELSE IF i \in peers THEN WithLedger(registry[i], metered)
                        ELSE registry[i]]
      /\ floor' = IF session \in DOMAIN floor
                  THEN [floor EXCEPT ![session] = Greatest(@, metered.consumed)]
                  ELSE floor
      /\ UNCHANGED <<now, revived, paused>>

InScope(d, scope) ==
  /\ scope = "reservations" => d.reservation # Null
  /\ scope = "manual" => d.reservation = Null

UpdateAccountLimit(a, r, scope) ==
  /\ registry' = [i \in DOMAIN registry |->
                    IF /\ registry[i].account = a /\ Active(registry[i])
                       /\ InScope(registry[i], scope)
                    THEN Metered(registry[i], r) ELSE registry[i]]
  /\ UNCHANGED <<now, history>>

Tick ==
  /\ now < MaxTime
  /\ now' = now + 1
  /\ UNCHANGED <<registry, history>>

Next ==
  \/ IssueManual
  \/ IssueSession
  \/ RevokeAll
  \/ \E a \in Accounts : RevokeForAccount(a)
  \/ \E a \in Accounts, r \in Readings, scope \in Scopes :
       UpdateAccountLimit(a, r, scope)
  \/ \E d \in DOMAIN registry :
       \/ \E account \in Accounts \cup {Null, Keep},
             limit \in WeeklyLimits \cup {Keep},
             expiry \in Expiries \cup {Keep} :
            UpdatePolicy(d, account, limit, expiry)
       \/ Disable(d)
       \/ Enable(d)
       \/ Revoke(d)
       \/ Reactivate(d)
       \/ \E r \in Readings : RecordUsage(d, r)
  \/ Tick

Spec == Init /\ [][Next]_vars

-----------------------------------------------------------------------------
(* Properties.                                                             *)

TypeOK ==
  /\ registry \in Seq(Device) /\ Len(registry) <= MaxDevices
  /\ now \in Nat
  /\ revived \subseteq 1..Len(registry)
  /\ paused \subseteq 1..Len(registry)
  /\ floor \in [Reservations \X Accounts -> 0..ConsumedCap]

(* Two different live tokens bound to one account serve the same           *)
(* reservation: an account is never shared by two customers.  Entries an   *)
(* operator brought back by moving an expiry already past are excepted,    *)
(* because updatePolicy does not repeat the check issue makes.             *)
ExclusiveUnlessRevived ==
  \A i, j \in DOMAIN registry \ revived :
    (/\ i # j /\ Live(registry[i]) /\ Live(registry[j])
     /\ registry[i].account = registry[j].account
     /\ registry[i].account # Null)
    => /\ registry[i].reservation = registry[j].reservation
       /\ registry[i].reservation # Null

(* No operation gives consumed quota back: not a reading of a new window,  *)
(* not the copy of a ledger between entries of one session.                *)
LedgerNeverShrinks ==
  [][\A i \in DOMAIN registry :
       registry'[i].consumed >= registry[i].consumed]_vars

(* Usage reported through any device of a session is charged to every      *)
(* device of it, the ones issued later and the disabled ones included.     *)
SessionLedgerFloor ==
  \A i \in DOMAIN registry :
    LET s == <<registry[i].reservation, registry[i].account>>
    IN  s \in DOMAIN floor => registry[i].consumed >= floor[s]

(* While no token of a session has been disabled, revoked or has expired,  *)
(* its tokens agree on what the session has left, however their readings   *)
(* and reissues interleave.                                                *)
SessionAgrees ==
  \A i \in DOMAIN registry :
    LET S == SessionsOf(registry[i].reservation, registry[i].account)
    IN  (\A j \in S : Active(registry[j]) /\ j \notin paused \cup revived)
        => \A j \in S : registry[j].consumed = registry[i].consumed

(* A budgeted token is blocked exactly when its ledger has reached the     *)
(* budget, also right after a reissue or a copy from a sibling.            *)
BudgetFlagExact ==
  \A i \in DOMAIN registry :
    Budgeted(registry[i]) =>
      (registry[i].limited <=> registry[i].consumed >= registry[i].budget)
=============================================================================
