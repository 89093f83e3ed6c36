----------------------------- MODULE RegistryProofs -----------------------------
(* The registry of device tokens, for any number of accounts, sessions,      *)
(* tokens, readings, operations, processes and crashes: what its operations  *)
(* do to the array of devices, and that its file makes each of them one      *)
(* atomic update.                                                            *)
(*                                                                           *)
(* The inductive invariant of the devices adds to the checked properties the *)
(* shape of session entries: a token with a reservation has an account, a    *)
(* base and that reservation's budget, one without has no base.  Without it  *)
(* a copied ledger could carry a flag computed for another budget.  That the *)
(* tokens of a session agree needs more (Agree): the readings behind their   *)
(* ledgers agree too, and who was stopped stays marked.                      *)
(*                                                                           *)
(* Of the file: the operations of a process take turns, two operations of    *)
(* any processes do while no working holder loses its lock, and the file     *)
(* implements the atomic registry of RegistryPromise.                        *)
EXTENDS AccessStore, RegistryFile, SequenceTheorems, TLAPS

(* ---------------------- The devices: AccessStore ------------------------- *)

SessionShape ==
  \A i \in DOMAIN registry :
    IF registry[i].reservation = Null
    THEN registry[i].base = Null
    ELSE /\ registry[i].account # Null
         /\ registry[i].base # Null
         /\ registry[i].budget = Budgets[registry[i].reservation]

(* A session charged for anything has an entry that carries the charge.    *)
FloorHasEntry ==
  \A s \in DOMAIN floor :
    floor[s] # 0 =>
      \E i \in DOMAIN registry :
        s = <<registry[i].reservation, registry[i].account>>

IInv ==
  /\ TypeOK
  /\ SessionShape
  /\ FloorHasEntry
  /\ ExclusiveUnlessRevived
  /\ BudgetFlagExact
  /\ SessionLedgerFloor

(* Metering and copying a ledger touch none of these fields.               *)
SameToken(d, e) ==
  /\ d.account = e.account /\ d.reservation = e.reservation
  /\ d.revoked = e.revoked /\ d.disabled = e.disabled
  /\ d.expiresAt = e.expiresAt
  /\ d.base = e.base /\ d.budget = e.budget

-----------------------------------------------------------------------------
(* Assigning the fields of an entry's ledger keeps it an entry and keeps   *)
(* the rest of the token.                                                  *)

LEMMA FlagType ==
  ASSUME NEW d \in Device, NEW b \in BOOLEAN
  PROVE LET n == [d EXCEPT !.limited = b]
        IN  n \in Device /\ n.consumed = d.consumed /\ n.limited = b
            /\ SameToken(n, d)
  BY DEF Device, SameToken
LEMMA BaseType ==
  ASSUME NEW d \in Device, NEW base \in Int \cup {Null}
  PROVE LET n == [d EXCEPT !.base = base]
        IN  /\ n \in Device /\ n.base = base
            /\ n.account = d.account /\ n.reservation = d.reservation
            /\ n.budget = d.budget /\ n.revoked = d.revoked
            /\ n.consumed = d.consumed /\ n.limited = d.limited
  BY DEF Device

LEMMA ReadingType ==
  ASSUME NEW d \in Device, NEW u \in Int \cup {Null},
         NEW du \in Nat \cup {Null}, NEW rs \in Nat \cup {Null}
  PROVE LET n == [d EXCEPT !.resetsAt = rs, !.used = u, !.duration = du]
        IN  n \in Device /\ n.consumed = d.consumed /\ SameToken(n, d)
<1>. DEFINE n == [d EXCEPT !.resetsAt = rs, !.used = u, !.duration = du]
<1>1. n \in Device
  BY ZenonT(60) DEF Device
<1>2. n.consumed = d.consumed
  BY DEF Device
<1>3. SameToken(n, d)
  BY DEF Device, SameToken
<1>4. QED
  BY <1>1, <1>2, <1>3

LEMMA LedgerType ==
  ASSUME NEW d \in Device, NEW c \in 0..ConsumedCap, NEW l \in Int \cup {Null}
  PROVE LET n == [d EXCEPT !.consumed = c, !.last = l]
        IN  n \in Device /\ n.consumed = c /\ SameToken(n, d)
  BY ZenonT(60) DEF Device, SameToken

-----------------------------------------------------------------------------
(* Arithmetic of one reading.                                              *)

LEMMA DeltaType ==
  ASSUME NEW d \in Device, NEW r \in Readings, r.used # Null
  PROVE  Delta(d, r) \in Nat
<1>1. r.used \in Int
  BY ReadingsAssumption
<1>2. Clamped(r.used) \in Nat
  BY <1>1, ConstantsAssumption DEF Clamped, Greatest, Least
<1>3. Previous(d) \in Int \cup {Null}
  BY DEF Previous, FirstOf, Device
<1>4. QED
  BY <1>2, <1>3 DEF Delta, Greatest

LEMMA ProgressType ==
  ASSUME NEW d \in Device, NEW r \in Readings
  PROVE  /\ Progress(d, r) \in Device
         /\ Progress(d, r).consumed >= d.consumed
         /\ SameToken(Progress(d, r), d)
<1>1. CASE r.used = Null
  BY <1>1 DEF Progress, Device, SameToken
<1>2. CASE r.used # Null
  <2>1. Delta(d, r) \in Nat
    BY <1>2, DeltaType
  <2>2. Clamped(r.used) \in Int /\ Previous(d) \in Int \cup {Null}
    BY <1>2, ReadingsAssumption, ConstantsAssumption
    DEF Clamped, Greatest, Least, Previous, FirstOf, Device
  <2>3. d.consumed \in 0..ConsumedCap
    BY DEF Device
  <2>4. /\ Least(ConsumedCap, d.consumed + Delta(d, r)) \in 0..ConsumedCap
        /\ Least(ConsumedCap, d.consumed + Delta(d, r)) >= d.consumed
    BY <2>1, <2>3, ConstantsAssumption DEF Least
  <2>. DEFINE c == Least(ConsumedCap, d.consumed + Delta(d, r))
              l == IF /\ SameWindow(d, r) /\ ~WindowChanged(d, r)
                      /\ Previous(d) # Null
                   THEN Greatest(Previous(d), Clamped(r.used))
                   ELSE Clamped(r.used)
  <2>5. l \in Int
    BY <2>2 DEF Greatest
  <2>6. Progress(d, r) = [d EXCEPT !.consumed = c, !.last = l]
    BY <1>2 DEF Progress
  <2>. HIDE DEF c, l
  <2>7. c \in 0..ConsumedCap /\ c >= d.consumed
    BY <2>4 DEF c
  <2>8. QED
    BY <2>5, <2>6, <2>7 DEF Device, SameToken
<1>3. QED
  BY <1>1, <1>2

LEMMA LimitReachedType ==
  ASSUME NEW d, NEW used
  PROVE  LimitReached(d, used) \in BOOLEAN
<1>1. CASE Budgeted(d)
  <2>1. LimitReached(d, used) = (d.consumed >= d.budget)
    BY <1>1 DEF LimitReached
  <2>2. QED
    BY <2>1
<1>2. CASE ~Budgeted(d)
  <2>1. LimitReached(d, used) = (/\ used # Null
                                 /\ d.weeklyLimit < FullPercent
                                 /\ used >= d.weeklyLimit)
    BY <1>2, Zenon DEF LimitReached
  <2>2. QED
    BY <2>1
<1>3. QED
  BY <1>1, <1>2

LEMMA MeteredType ==
  ASSUME NEW d \in Device, NEW r \in Readings
  PROVE  /\ Metered(d, r) \in Device
         /\ Metered(d, r).consumed >= d.consumed
         /\ SameToken(Metered(d, r), d)
         /\ Budgeted(d) => (Metered(d, r).limited
                              <=> Metered(d, r).consumed >= d.budget)
<1>. DEFINE p == Progress(d, r)
            q == [p EXCEPT !.resetsAt = FirstOf(r.resetsAt, d.resetsAt),
                           !.used = r.used, !.duration = r.duration]
            b == LimitReached(q, r.used)
            n == [q EXCEPT !.limited = b]
<1>1. n = Metered(d, r)
  BY DEF Metered
<1>2. /\ r.used \in Int \cup {Null} /\ r.duration \in Nat \cup {Null}
      /\ FirstOf(r.resetsAt, d.resetsAt) \in Nat \cup {Null}
  BY ReadingsAssumption DEF FirstOf, Device
<1>3. p \in Device /\ p.consumed >= d.consumed /\ SameToken(p, d)
  BY ProgressType
<1>. HIDE DEF p
<1>4. q \in Device /\ q.consumed = p.consumed /\ SameToken(q, p)
  BY <1>2, <1>3, ReadingType
<1>. HIDE DEF q
<1>5. b \in BOOLEAN
  BY LimitReachedType
<1>6. Budgeted(d) => (b <=> q.consumed >= d.budget)
  BY <1>3, <1>4 DEF LimitReached, Budgeted, SameToken
<1>. HIDE DEF b
<1>7. /\ n \in Device /\ n.consumed = q.consumed /\ n.limited = b
      /\ SameToken(n, q)
  BY <1>4, <1>5, FlagType
<1>. HIDE DEF n
<1>8. SameToken(n, d)
  BY <1>3, <1>4, <1>7 DEF SameToken
<1>9. QED
  <2>1. n.consumed >= d.consumed
    BY <1>3, <1>4, <1>7
  <2>2. Budgeted(d) => (n.limited <=> n.consumed >= d.budget)
    BY <1>6, <1>7
  <2>3. QED
    BY <1>1, <1>7, <1>8, <2>1, <2>2

LEMMA WithLedgerType ==
  ASSUME NEW d \in Device, NEW e \in Device
  PROVE  /\ WithLedger(d, e) \in Device
         /\ WithLedger(d, e).consumed = e.consumed
         /\ WithLedger(d, e).limited = e.limited
         /\ SameToken(WithLedger(d, e), d)
<1>1. /\ e.consumed \in 0..ConsumedCap
      /\ e.last \in Int \cup {Null} /\ e.used \in Int \cup {Null}
      /\ e.duration \in Nat \cup {Null} /\ e.resetsAt \in Nat \cup {Null}
      /\ e.limited \in BOOLEAN
  BY DEF Device
<1>. DEFINE b == e.limited
            p == [d EXCEPT !.consumed = e.consumed, !.last = e.last]
            q == [p EXCEPT !.resetsAt = e.resetsAt, !.used = e.used,
                           !.duration = e.duration]
            n == [q EXCEPT !.limited = b]
<1>2. WithLedger(d, e) = n
  BY DEF WithLedger
<1>3. p \in Device /\ p.consumed = e.consumed /\ SameToken(p, d)
  BY <1>1, LedgerType
<1>. HIDE DEF p
<1>4. q \in Device /\ q.consumed = p.consumed /\ SameToken(q, p)
  BY <1>1, <1>3, ReadingType
<1>. HIDE DEF q, b
<1>5. /\ n \in Device /\ n.consumed = q.consumed /\ n.limited = b
      /\ SameToken(n, q)
  <2>1. b \in BOOLEAN
    BY <1>1, Zenon DEF b
  <2>2. QED
    BY <1>4, <2>1, FlagType
<1>. HIDE DEF n
<1>6. SameToken(n, d)
  BY <1>3, <1>4, <1>5 DEF SameToken
<1>7. n.consumed = e.consumed
  BY <1>3, <1>4, <1>5
<1>8. QED
  BY <1>2, <1>5, <1>6, <1>7, Zenon DEF b

LEMMA SeqFromFunction ==
  ASSUME NEW S, NEW n \in Nat, NEW f \in [1..n -> S]
  PROVE  f \in Seq(S) /\ Len(f) = n /\ DOMAIN f = 1..n
<1>1. f \in Seq(S)
  BY SeqDef
<1>2. QED
  BY <1>1, LenProperties

-----------------------------------------------------------------------------
(* What each operation does to the array.                                  *)

LEMMA RegistryShape ==
  ASSUME TypeOK
  PROVE  /\ registry \in Seq(Device) /\ Len(registry) \in Nat
         /\ DOMAIN registry = 1..Len(registry)
         /\ registry \in [1..Len(registry) -> Device]
         /\ \A i \in DOMAIN registry : registry[i] \in Device
  BY LenProperties, ElementOfSeq DEF TypeOK

(* A new entry is appended; it starts from an empty ledger or from the     *)
(* ledger of an earlier entry of its session.                              *)
LEMMA IssueShape ==
  ASSUME TypeOK,
         NEW a \in Accounts \cup {Null}, NEW r \in Reservations \cup {Null},
         NEW base \in Int \cup {Null}, NEW budget \in Int \cup {Null},
         NEW limit \in 0..FullPercent, NEW expiry \in Nat,
         Issue(a, r, base, budget, limit, expiry)
  PROVE  /\ registry' \in Seq(Device)
         /\ Len(registry') = Len(registry) + 1
         /\ Len(registry') <= MaxDevices
         /\ DOMAIN registry' = 1..(Len(registry) + 1)
         /\ \A i \in DOMAIN registry : registry'[i] = registry[i]
         /\ LET new == registry'[Len(registry) + 1]
            IN  /\ new.account = a /\ new.reservation = r
                /\ new.budget = budget /\ ~new.revoked
                /\ \/ /\ SessionsOf(r, a) = {}
                      /\ new.base = base /\ new.consumed = 0 /\ ~new.limited
                   \/ \E p \in MostCharged(SessionsOf(r, a)) :
                        /\ new.base = registry[p].base
                        /\ new.consumed = registry[p].consumed
                        /\ new.limited = registry[p].limited
<1>. DEFINE fresh == Fresh(a, r, base, budget, limit, expiry)
<1>1. fresh \in Device /\ fresh = Fresh(a, r, base, budget, limit, expiry)
  BY ConstantsAssumption DEF Fresh, Device
<1>2. /\ fresh.account = a /\ fresh.reservation = r /\ fresh.base = base
      /\ fresh.budget = budget /\ ~fresh.revoked
      /\ fresh.consumed = 0 /\ ~fresh.limited
  BY DEF Fresh
<1>3. Len(registry) < MaxDevices /\ Len(registry) \in Nat /\ MaxDevices \in Nat
  BY RegistryShape, ConstantsAssumption DEF Issue
<1>4. ASSUME NEW new \in Device, registry' = Append(registry, new)
      PROVE  /\ registry' \in Seq(Device)
             /\ Len(registry') = Len(registry) + 1
             /\ DOMAIN registry' = 1..(Len(registry) + 1)
             /\ \A i \in DOMAIN registry : registry'[i] = registry[i]
             /\ registry'[Len(registry) + 1] = new
  BY <1>4, RegistryShape, AppendProperties, LenProperties
<1>. HIDE DEF fresh
<1>5. CASE SessionsOf(r, a) = {} /\ registry' = Append(registry, fresh)
  BY <1>1, <1>2, <1>3, <1>4, <1>5
<1>6. CASE \E p \in MostCharged(SessionsOf(r, a)) :
             registry' = Append(registry,
               [WithLedger(fresh, registry[p]) EXCEPT !.base = registry[p].base])
  <2>1. PICK p \in MostCharged(SessionsOf(r, a)) :
             registry' = Append(registry,
               [WithLedger(fresh, registry[p]) EXCEPT !.base = registry[p].base])
    BY <1>6
  <2>2. registry[p] \in Device
    BY RegistryShape DEF MostCharged, SessionsOf
  <2>. DEFINE w   == WithLedger(fresh, registry[p])
              new == [w EXCEPT !.base = registry[p].base]
  <2>3. /\ w \in Device /\ w.consumed = registry[p].consumed
        /\ w.limited = registry[p].limited /\ SameToken(w, fresh)
    BY <1>1, <2>2, WithLedgerType
  <2>4. registry[p].base \in Int \cup {Null}
    BY <2>2 DEF Device
  <2>. HIDE DEF w
  <2>7. /\ new \in Device /\ new.base = registry[p].base
        /\ new.account = w.account /\ new.reservation = w.reservation
        /\ new.budget = w.budget /\ new.revoked = w.revoked
        /\ new.consumed = w.consumed /\ new.limited = w.limited
    BY <2>3, <2>4, BaseType
  <2>. HIDE DEF new
  <2>8. registry' = Append(registry, new)
    BY <2>1 DEF new, w
  <2>9. /\ new.account = a /\ new.reservation = r /\ new.budget = budget
        /\ ~new.revoked
    BY <1>2, <2>3, <2>7 DEF SameToken
  <2>10. new.consumed = registry[p].consumed /\ new.limited = registry[p].limited
    BY <2>3, <2>7, Zenon
  <2>11. /\ registry' \in Seq(Device)
         /\ Len(registry') = Len(registry) + 1
         /\ DOMAIN registry' = 1..(Len(registry) + 1)
         /\ \A i \in DOMAIN registry : registry'[i] = registry[i]
         /\ registry'[Len(registry) + 1] = new
    BY <1>4, <2>7, <2>8
  <2>12. Len(registry') <= MaxDevices
    BY <1>3, <2>11
  <2>13. QED
    BY <2>1, <2>7, <2>9, <2>10, <2>11, <2>12, Zenon
<1>7. QED
  BY <1>1, <1>5, <1>6 DEF Issue

(* A step that only rewrites entries: what every entry keeps.              *)
Kept(d, e) ==
  /\ e.reservation = d.reservation
  /\ e.base = d.base /\ e.budget = d.budget
  /\ d.reservation # Null => e.account = d.account
  /\ e.consumed >= d.consumed

Rewrites ==
  /\ registry' \in Seq(Device)
  /\ Len(registry') = Len(registry) /\ DOMAIN registry' = DOMAIN registry
  /\ \A i \in DOMAIN registry : Kept(registry[i], registry'[i])

(* The token's own fields: who holds it, and whether it may be used.       *)
SameHolder(d, e) ==
  /\ e.account = d.account
  /\ e.revoked <=> d.revoked
  /\ e.expiresAt = d.expiresAt

(* Nothing metered has moved.                                              *)
SameLedger(d, e) == e.consumed = d.consumed /\ (e.limited <=> d.limited)

LEMMA Unchanged ==
  ASSUME NEW d \in Device
  PROVE  Kept(d, d) /\ SameLedger(d, d) /\ SameHolder(d, d)
BY DEF Kept, SameLedger, SameHolder, Device

LEMMA RewrittenSequence ==
  ASSUME TypeOK, registry' \in [DOMAIN registry -> Device]
  PROVE  /\ registry' \in Seq(Device)
         /\ Len(registry') = Len(registry) /\ DOMAIN registry' = DOMAIN registry
BY RegistryShape, SeqFromFunction

LEMMA UpdatePolicyShape ==
  ASSUME IInv, NEW d \in DOMAIN registry,
         NEW account \in Accounts \cup {Null, Keep},
         NEW limit \in WeeklyLimits \cup {Keep},
         NEW expiry \in Expiries \cup {Keep},
         UpdatePolicy(d, account, limit, expiry)
  PROVE  /\ Rewrites
         /\ \A i \in DOMAIN registry : SameLedger(registry[i], registry'[i])
         /\ \A i \in DOMAIN registry \ {d} : registry'[i] = registry[i]
         /\ registry'[d].account = IF account = Keep THEN registry[d].account
                                   ELSE account
         /\ registry'[d].revoked <=> registry[d].revoked
         /\ registry'[d].expiresAt = IF expiry = Keep THEN registry[d].expiresAt
                                     ELSE expiry
<1>. DEFINE was == registry[d]
            a == IF account = Keep THEN was.account ELSE account
            w == IF limit = Keep THEN was.weeklyLimit ELSE limit
            x == IF expiry = Keep THEN was.expiresAt ELSE expiry
            new == [was EXCEPT !.account = a, !.weeklyLimit = w, !.expiresAt = x]
<1>1. TypeOK /\ was \in Device
  BY RegistryShape DEF IInv
<1>2. a \in Accounts \cup {Null} /\ w \in 0..FullPercent /\ x \in Nat
  BY <1>1, ConstantsAssumption DEF Device
<1>3. registry' = [registry EXCEPT ![d] = new]
  BY DEF UpdatePolicy
<1>4. was.reservation # Null => a = was.account
  BY DEF IInv, SessionShape, UpdatePolicy
<1>. HIDE DEF was, a, w, x
<1>5. new.account = a /\ new.expiresAt = x /\ (new.revoked <=> was.revoked)
  BY <1>1 DEF Device
<1>6. new \in Device /\ Kept(was, new) /\ SameLedger(was, new)
  <2>1. new \in Device
    BY <1>1, <1>2 DEF Device
  <2>2. /\ new.reservation = was.reservation /\ new.base = was.base
        /\ new.budget = was.budget /\ new.consumed = was.consumed
    BY <1>1 DEF Device
  <2>3. was.consumed \in Int
    BY <1>1 DEF Device
  <2>4. new.limited <=> was.limited
    BY <1>1 DEF Device
  <2>5. QED
    BY <1>4, <1>5, <2>1, <2>2, <2>3, <2>4 DEF Kept, SameLedger
<1>. HIDE DEF new
<1>7. /\ registry' \in [DOMAIN registry -> Device] /\ registry'[d] = new
      /\ \A i \in DOMAIN registry \ {d} : registry'[i] = registry[i]
  BY <1>1, <1>3, <1>6, RegistryShape
<1>8. \A i \in DOMAIN registry : Kept(registry[i], registry'[i])
                                /\ SameLedger(registry[i], registry'[i])
  BY <1>1, <1>6, <1>7, RegistryShape, Unchanged DEF was
<1>9. Rewrites
  BY <1>1, <1>7, <1>8, RewrittenSequence DEF Rewrites
<1>10. QED
  BY <1>5, <1>7, <1>8, <1>9 DEF was, a, x

(* Disabling, enabling, revoking and reactivating write two flags only.    *)
OnlyFlags(d, e) ==
  /\ e.account = d.account /\ e.reservation = d.reservation
  /\ e.expiresAt = d.expiresAt
  /\ e.base = d.base /\ e.budget = d.budget
  /\ e.consumed = d.consumed /\ (e.limited <=> d.limited)

LEMMA FlagFields ==
  ASSUME NEW d \in Device, NEW b \in BOOLEAN
  PROVE  /\ [d EXCEPT !.disabled = b] \in Device
         /\ OnlyFlags(d, [d EXCEPT !.disabled = b])
         /\ [d EXCEPT !.disabled = b].revoked <=> d.revoked
         /\ [d EXCEPT !.revoked = b] \in Device
         /\ OnlyFlags(d, [d EXCEPT !.revoked = b])
         /\ [d EXCEPT !.revoked = b].revoked <=> b
         /\ OnlyFlags(d, d)
<1>1. [d EXCEPT !.disabled = b] \in Device /\ [d EXCEPT !.revoked = b] \in Device
  BY DEF Device
<1>2. OnlyFlags(d, [d EXCEPT !.disabled = b]) /\ OnlyFlags(d, d)
  BY DEF Device, OnlyFlags
<1>3. OnlyFlags(d, [d EXCEPT !.revoked = b])
  BY DEF Device, OnlyFlags
<1>4. [d EXCEPT !.disabled = b].revoked <=> d.revoked
  BY DEF Device
<1>5. [d EXCEPT !.revoked = b].revoked <=> b
  BY DEF Device
<1>6. QED
  BY <1>1, <1>2, <1>3, <1>4, <1>5

LEMMA FlagsShape ==
  ASSUME IInv, registry' \in [DOMAIN registry -> Device],
         \A i \in DOMAIN registry : OnlyFlags(registry[i], registry'[i])
  PROVE  /\ Rewrites
         /\ \A i \in DOMAIN registry : SameLedger(registry[i], registry'[i])
<1>1. TypeOK
  BY DEF IInv
<1>2. \A i \in DOMAIN registry : registry[i].consumed \in Int
  BY <1>1, RegistryShape DEF Device
<1>3. QED
  BY <1>1, <1>2, RewrittenSequence DEF Rewrites, OnlyFlags, Kept, SameLedger

LEMMA DisableShape ==
  ASSUME IInv, NEW d \in DOMAIN registry, Disable(d) \/ Enable(d)
  PROVE  /\ registry' \in [DOMAIN registry -> Device]
         /\ \A i \in DOMAIN registry : /\ OnlyFlags(registry[i], registry'[i])
                                       /\ registry'[i].revoked <=> registry[i].revoked
<1>1. TypeOK /\ registry[d] \in Device
  BY RegistryShape DEF IInv
<1>2. PICK b \in BOOLEAN :
        registry' = [registry EXCEPT ![d] = [registry[d] EXCEPT !.disabled = b]]
  <2>1. CASE Disable(d)
    BY <2>1 DEF Disable
  <2>2. CASE Enable(d)
    BY <2>2 DEF Enable
  <2>3. QED
    BY <2>1, <2>2
<1>. DEFINE n == [registry[d] EXCEPT !.disabled = b]
<1>3. /\ n \in Device /\ OnlyFlags(registry[d], n)
      /\ n.revoked <=> registry[d].revoked
  BY <1>1, FlagFields
<1>4. registry' = [registry EXCEPT ![d] = n]
  BY <1>2
<1>. HIDE DEF n
<1>5. /\ registry' \in [DOMAIN registry -> Device] /\ registry'[d] = n
      /\ \A i \in DOMAIN registry \ {d} : registry'[i] = registry[i]
  BY <1>1, <1>3, <1>4, RegistryShape
<1>6. \A i \in DOMAIN registry : OnlyFlags(registry[i], registry[i])
  BY <1>1, FlagFields, RegistryShape
<1>7. QED
  BY <1>3, <1>5, <1>6

LEMMA RevokeShape ==
  ASSUME IInv,
         \/ \E d \in DOMAIN registry : Revoke(d)
         \/ RevokeAll
         \/ \E a \in Accounts : RevokeForAccount(a)
  PROVE  /\ registry' \in [DOMAIN registry -> Device]
         /\ \A i \in DOMAIN registry :
              /\ OnlyFlags(registry[i], registry'[i])
              /\ registry[i].revoked => registry'[i].revoked
<1>1. TypeOK
  BY DEF IInv
<1>2. DOMAIN registry' = DOMAIN registry /\ registry' = [i \in DOMAIN registry |-> registry'[i]]
  BY RegistryShape, <1>1 DEF Revoke, RevokeAll, RevokeForAccount, RevokeMatching
<1>3. ASSUME NEW i \in DOMAIN registry
      PROVE  \/ registry'[i] = registry[i]
             \/ registry'[i] = [registry[i] EXCEPT !.revoked = TRUE]
  <2>1. CASE \E d \in DOMAIN registry : Revoke(d)
    BY <1>1, <2>1, RegistryShape DEF Revoke
  <2>2. CASE RevokeAll
    BY <2>2 DEF RevokeAll, RevokeMatching
  <2>3. CASE \E a \in Accounts : RevokeForAccount(a)
    BY <2>3 DEF RevokeForAccount, RevokeMatching
  <2>4. QED
    BY <2>1, <2>2, <2>3
<1>4. ASSUME NEW i \in DOMAIN registry
      PROVE  /\ registry'[i] \in Device
             /\ OnlyFlags(registry[i], registry'[i])
             /\ registry[i].revoked => registry'[i].revoked
  <2>1. registry[i] \in Device
    BY <1>1, RegistryShape
  <2>. DEFINE n == [registry[i] EXCEPT !.revoked = TRUE]
  <2>2. n \in Device /\ OnlyFlags(registry[i], n) /\ n.revoked
    BY <2>1, FlagFields
  <2>3. OnlyFlags(registry[i], registry[i])
    BY <2>1, FlagFields
  <2>4. registry'[i] = registry[i] \/ registry'[i] = n
    BY <1>3
  <2>. HIDE DEF n
  <2>5. QED
    BY <2>1, <2>2, <2>3, <2>4
<1>5. QED
  BY <1>2, <1>4

LEMMA ReactivateShape ==
  ASSUME IInv, NEW d \in DOMAIN registry, Reactivate(d)
  PROVE  /\ registry' \in [DOMAIN registry -> Device]
         /\ \A i \in DOMAIN registry : OnlyFlags(registry[i], registry'[i])
         /\ \A i \in DOMAIN registry \ {d} : registry'[i] = registry[i]
<1>. DEFINE was == registry[d]
            on  == [was EXCEPT !.revoked = FALSE]
            new == [on EXCEPT !.disabled = FALSE]
<1>1. TypeOK /\ was \in Device
  BY RegistryShape DEF IInv
<1>2. registry' = [registry EXCEPT ![d] = new]
  BY DEF Reactivate
<1>. HIDE DEF was
<1>3. on \in Device /\ OnlyFlags(was, on)
  BY <1>1, FlagFields
<1>. HIDE DEF on
<1>4. new \in Device /\ OnlyFlags(on, new)
  BY <1>3, FlagFields
<1>. HIDE DEF new
<1>5. OnlyFlags(was, new)
  BY <1>3, <1>4 DEF OnlyFlags
<1>6. /\ registry' \in [DOMAIN registry -> Device] /\ registry'[d] = new
      /\ \A i \in DOMAIN registry \ {d} : registry'[i] = registry[i]
  BY <1>1, <1>2, <1>4, RegistryShape
<1>7. QED
  BY <1>1, <1>5, <1>6, FlagFields, RegistryShape DEF was

(* What metering guarantees of an entry before (d) and after (e).          *)
FlagExact(e) == Budgeted(e) => (e.limited <=> e.consumed >= e.budget)
Charged(d, e) ==
  /\ e \in Device /\ SameToken(e, d)
  /\ e.consumed >= d.consumed /\ FlagExact(e)

LEMMA MeteredCharged ==
  ASSUME NEW d \in Device, NEW r \in Readings
  PROVE  Charged(d, Metered(d, r))
<1>. DEFINE m == Metered(d, r)
<1>1. /\ m \in Device /\ m.consumed >= d.consumed /\ SameToken(m, d)
      /\ Budgeted(d) => (m.limited <=> m.consumed >= d.budget)
  BY MeteredType
<1>. HIDE DEF m
<1>2. m.budget = d.budget /\ (Budgeted(m) <=> Budgeted(d))
  BY <1>1 DEF SameToken, Budgeted
<1>3. Charged(d, m)
  BY <1>1, <1>2 DEF Charged, FlagExact
<1>4. QED
  BY <1>3 DEF m

LEMMA ChargedShape ==
  ASSUME IInv, registry' = [i \in DOMAIN registry |-> registry'[i]],
         \A i \in DOMAIN registry : Charged(registry[i], registry'[i])
  PROVE  Rewrites
<1>1. TypeOK /\ registry' \in [DOMAIN registry -> Device]
  BY DEF IInv, Charged
<1>2. QED
  BY <1>1, RewrittenSequence DEF Rewrites, Charged, SameToken, Kept

LEMMA RecordUsageShape ==
  ASSUME IInv, NEW d \in DOMAIN registry, NEW r \in Readings, RecordUsage(d, r)
  PROVE  /\ registry' = [i \in DOMAIN registry |-> registry'[i]]
         /\ \A i \in DOMAIN registry : Charged(registry[i], registry'[i])
         /\ registry'[d] = Metered(registry[d], r)
         /\ \A i \in SessionsOf(registry[d].reservation, registry[d].account) :
              registry'[i].consumed >= registry'[d].consumed
<1>. DEFINE m == Metered(registry[d], r)
            S == SessionsOf(registry[d].reservation, registry[d].account)
            peers == {i \in S : i # d /\ registry[i].consumed <= m.consumed}
<1>1. TypeOK /\ registry[d] \in Device
  BY RegistryShape DEF IInv
<1>2. m \in Device /\ Charged(registry[d], m)
  BY <1>1, MeteredCharged DEF Charged
<1>3. registry' = [i \in DOMAIN registry |->
                     IF i = d THEN m
                     ELSE IF i \in peers THEN WithLedger(registry[i], m)
                     ELSE registry[i]]
  BY DEF RecordUsage
<1>. HIDE DEF m
<1>4. ASSUME NEW i \in DOMAIN registry
      PROVE  /\ Charged(registry[i], registry'[i])
             /\ i \in S => registry'[i].consumed >= m.consumed
  <2>1. registry[i] \in Device /\ registry[i].consumed \in Int /\ m.consumed \in Int
    BY <1>1, <1>2, RegistryShape DEF Device
  <2>2. CASE i = d
    BY <1>2, <1>3, <2>1, <2>2
  <2>3. CASE i # d /\ i \in peers
    <3>. DEFINE n == WithLedger(registry[i], m)
    <3>1. /\ n \in Device /\ n.consumed = m.consumed
          /\ n.limited = m.limited /\ SameToken(n, registry[i])
      BY <1>2, <2>1, WithLedgerType
    <3>2. registry'[i] = n
      BY <1>3, <2>3
    <3>. HIDE DEF n
    <3>3. (n.budget = m.budget) /\ (Budgeted(n) => Budgeted(m))
      <4>1. /\ registry[i].reservation # Null
            /\ registry[i].reservation = registry[d].reservation
        BY <2>3 DEF SessionsOf
      <4>2. /\ registry[i].budget = registry[d].budget
            /\ registry[i].base # Null /\ registry[d].base # Null
        BY <4>1 DEF IInv, SessionShape
      <4>3. QED
        BY <1>2, <3>1, <4>2 DEF Charged, SameToken, Budgeted
    <3>4. FlagExact(n)
      BY <1>2, <3>1, <3>3 DEF Charged, FlagExact
    <3>5. QED
      BY <2>1, <2>3, <3>1, <3>2, <3>4 DEF Charged
  <2>4. CASE i # d /\ i \notin peers
    <3>1. registry'[i] = registry[i]
      BY <1>3, <2>4
    <3>2. FlagExact(registry[i])
      BY DEF IInv, BudgetFlagExact, FlagExact
    <3>3. i \in S => registry[i].consumed >= m.consumed
      BY <2>1, <2>4
    <3>4. QED
      BY <2>1, <3>1, <3>2, <3>3 DEF Charged, SameToken
  <2>5. QED
    BY <2>2, <2>3, <2>4
<1>5. registry'[d] = m
  BY <1>3
<1>6. \A i \in S : registry'[i].consumed >= registry'[d].consumed
  BY <1>4, <1>5 DEF SessionsOf
<1>7. QED
  BY <1>3, <1>4, <1>5, <1>6 DEF m

LEMMA UpdateAccountLimitShape ==
  ASSUME IInv, NEW a \in Accounts, NEW r \in Readings, NEW scope \in Scopes,
         UpdateAccountLimit(a, r, scope)
  PROVE  /\ registry' = [i \in DOMAIN registry |-> registry'[i]]
         /\ \A i \in DOMAIN registry : Charged(registry[i], registry'[i])
<1>1. TypeOK
  BY DEF IInv
<1>2. registry' = [i \in DOMAIN registry |-> registry'[i]]
  BY DEF UpdateAccountLimit
<1>3. ASSUME NEW i \in DOMAIN registry
      PROVE  Charged(registry[i], registry'[i])
  <2>1. registry[i] \in Device /\ registry[i].consumed \in Int
    BY <1>1, RegistryShape DEF Device
  <2>2. registry'[i] = Metered(registry[i], r) \/ registry'[i] = registry[i]
    BY DEF UpdateAccountLimit
  <2>3. Charged(registry[i], Metered(registry[i], r))
    BY <2>1, MeteredCharged
  <2>4. Charged(registry[i], registry[i])
    BY <2>1 DEF IInv, BudgetFlagExact, FlagExact, Charged, SameToken
  <2>5. QED
    BY <2>2, <2>3, <2>4
<1>4. QED
  BY <1>2, <1>3

-----------------------------------------------------------------------------
(* Each conjunct of IInv, from the shape of a step.                        *)

LEMMA TypePreserved ==
  ASSUME IInv, Rewrites, now' \in Nat,
         revived' \subseteq DOMAIN registry, paused' \subseteq DOMAIN registry,
         floor' \in [Reservations \X Accounts -> 0..ConsumedCap]
  PROVE  TypeOK'
BY RegistryShape DEF IInv, Rewrites, TypeOK

LEMMA SessionShapePreserved ==
  ASSUME IInv, Rewrites
  PROVE  SessionShape'
BY DEF IInv, Rewrites, Kept, SessionShape

LEMMA ConsumedType ==
  ASSUME NEW d \in Device
  PROVE  d.consumed \in Int
BY DEF Device

LEMMA FloorPreserved ==
  ASSUME IInv, Rewrites, floor' = floor
  PROVE  FloorHasEntry' /\ SessionLedgerFloor'
<1>1. DOMAIN floor = Reservations \X Accounts /\ TypeOK
  BY DEF IInv, TypeOK
<1>2. ASSUME NEW i \in DOMAIN registry
      PROVE  /\ registry'[i].reservation = registry[i].reservation
             /\ registry[i].reservation \in Reservations =>
                  registry'[i].account = registry[i].account
             /\ registry'[i].consumed >= registry[i].consumed
             /\ registry'[i].consumed \in Int /\ registry[i].consumed \in Int
  <2>1. registry[i] \in Device /\ i \in 1..Len(registry')
    BY <1>1, RegistryShape DEF Rewrites
  <2>2. registry'[i] \in Device
    <3>1. registry' \in Seq(Device)
      BY DEF Rewrites
    <3>2. QED
      BY <2>1, <3>1, ElementOfSeq
  <2>3. registry'[i].consumed \in Int /\ registry[i].consumed \in Int
    BY <2>1, <2>2, ConsumedType
  <2>4. registry[i].reservation \in Reservations => registry[i].reservation # Null
    BY ConstantsAssumption
  <2>5. QED
    BY <2>3, <2>4 DEF Rewrites, Kept
<1>3. ASSUME NEW s \in DOMAIN floor', floor'[s] # 0
      PROVE  \E i \in DOMAIN registry' :
               s = <<registry'[i].reservation, registry'[i].account>>
  <2>1. PICK i \in DOMAIN registry :
          s = <<registry[i].reservation, registry[i].account>>
    BY <1>3 DEF IInv, FloorHasEntry
  <2>2. registry[i].reservation \in Reservations
    BY <1>1, <1>3, <2>1
  <2>3. QED
    BY <1>2, <2>1, <2>2 DEF Rewrites
<1>4. ASSUME NEW i \in DOMAIN registry',
             <<registry'[i].reservation, registry'[i].account>> \in DOMAIN floor'
      PROVE  registry'[i].consumed
               >= floor'[<<registry'[i].reservation, registry'[i].account>>]
  <2>. DEFINE s == <<registry[i].reservation, registry[i].account>>
  <2>1. i \in DOMAIN registry
    BY DEF Rewrites
  <2>2. registry'[i].reservation \in Reservations
    BY <1>1, <1>4
  <2>3. s = <<registry'[i].reservation, registry'[i].account>>
    BY <1>2, <2>1, <2>2
  <2>4. registry[i].consumed >= floor[s] /\ floor[s] \in Int
    BY <1>4, <2>1, <2>3 DEF IInv, SessionLedgerFloor, TypeOK
  <2>5. QED
    BY <1>2, <2>1, <2>3, <2>4
<1>5. QED
  BY <1>3, <1>4 DEF FloorHasEntry, SessionLedgerFloor

LEMMA FlagsPreserved ==
  ASSUME IInv, Rewrites,
         \A i \in DOMAIN registry : SameLedger(registry[i], registry'[i])
  PROVE  BudgetFlagExact'
BY DEF IInv, Rewrites, Kept, SameLedger, BudgetFlagExact, Budgeted

LEMMA FlagsRecomputed ==
  ASSUME DOMAIN registry' = DOMAIN registry,
         \A i \in DOMAIN registry : Charged(registry[i], registry'[i])
  PROVE  BudgetFlagExact'
BY DEF Charged, FlagExact, BudgetFlagExact, Budgeted

(* The one entry d a step may bring to life is excepted, or found its      *)
(* account free.  Steps that bring none to life use a d outside the array. *)
LEMMA ExclusivePreserved ==
  ASSUME IInv, NEW d,
         DOMAIN registry' = DOMAIN registry, revived \subseteq revived',
         \A i \in DOMAIN registry \ {d} :
           /\ registry'[i].account = registry[i].account
           /\ registry'[i].reservation = registry[i].reservation
           /\ ~registry'[i].revoked /\ registry'[i].expiresAt > now'
                => Live(registry[i]),
         d \in DOMAIN registry =>
           /\ registry'[d].reservation = registry[d].reservation
           /\ \/ d \in revived'
              \/ /\ registry'[d].account = registry[d].account
                 /\ ~registry'[d].revoked /\ registry'[d].expiresAt > now'
                      => Live(registry[d])
              \/ /\ registry'[d].account # Null
                   => ~OtherLive(d, registry'[d].account)
  PROVE  ExclusiveUnlessRevived'
<1>. DEFINE LiveNow(i) == ~registry'[i].revoked /\ registry'[i].expiresAt > now'
<1>. SUFFICES ASSUME NEW i \in DOMAIN registry' \ revived',
                     NEW j \in DOMAIN registry' \ revived',
                     i # j, LiveNow(i), LiveNow(j),
                     registry'[i].account = registry'[j].account,
                     registry'[i].account # Null
              PROVE  /\ registry'[i].reservation = registry'[j].reservation
                     /\ registry'[i].reservation # Null
  BY DEF ExclusiveUnlessRevived, Live, Unexpired
<1>1. i \in DOMAIN registry \ revived /\ j \in DOMAIN registry \ revived
  OBVIOUS
<1>2. CASE d \notin {i, j}
  BY <1>1, <1>2 DEF IInv, ExclusiveUnlessRevived
<1>3. CASE d \in {i, j}
  <2>1. d \in DOMAIN registry /\ d \notin revived'
    BY <1>1, <1>3
  <2>2. CASE /\ registry'[d].account = registry[d].account
             /\ LiveNow(d) => Live(registry[d])
    BY <1>1, <1>3, <2>1, <2>2 DEF IInv, ExclusiveUnlessRevived
  <2>3. CASE registry'[d].account # Null
               => ~OtherLive(d, registry'[d].account)
    BY <1>1, <1>3, <2>1, <2>3 DEF OtherLive
  <2>4. QED
    BY <2>1, <2>2, <2>3
<1>4. QED
  BY <1>2, <1>3

-----------------------------------------------------------------------------
(* The invariant is inductive: one lemma per kind of operation.            *)

LEMMA InitIInv == Init => IInv
<1>. SUFFICES ASSUME Init PROVE IInv
  OBVIOUS
<1>1. registry = <<>> /\ DOMAIN registry = {} /\ Len(registry) = 0
  BY EmptySeq DEF Init
<1>2. TypeOK
  BY <1>1, EmptySeq, ConstantsAssumption DEF Init, TypeOK
<1>3. FloorHasEntry
  BY DEF Init, FloorHasEntry
<1>4. QED
  BY <1>1, <1>2, <1>3
  DEF IInv, SessionShape, ExclusiveUnlessRevived, BudgetFlagExact,
      SessionLedgerFloor

(* The other kind of step appends an entry and leaves the rest alone.       *)
Appends ==
  /\ DOMAIN registry \subseteq DOMAIN registry'
  /\ \A i \in DOMAIN registry : registry'[i] = registry[i]

LEMMA IssuePreserves ==
  ASSUME IInv,
         NEW a \in Accounts \cup {Null}, NEW r \in Reservations \cup {Null},
         NEW base \in Int \cup {Null}, NEW budget \in Int \cup {Null},
         NEW limit \in 0..FullPercent, NEW expiry \in Nat,
         r = Null => base = Null,
         r # Null => a # Null /\ base # Null /\ budget = Budgets[r],
         Issue(a, r, base, budget, limit, expiry)
  PROVE  IInv' /\ Appends
<1>. DEFINE n == Len(registry) + 1
            new == registry'[n]
<1>1. TypeOK /\ Len(registry) \in Nat /\ DOMAIN registry = 1..Len(registry)
  BY RegistryShape DEF IInv
<1>2. /\ registry' \in Seq(Device) /\ Len(registry') = n /\ n <= MaxDevices
      /\ DOMAIN registry' = DOMAIN registry \cup {n} /\ n \notin DOMAIN registry
      /\ \A i \in DOMAIN registry : registry'[i] = registry[i]
  <2>1. /\ registry' \in Seq(Device)
        /\ Len(registry') = Len(registry) + 1 /\ Len(registry') <= MaxDevices
        /\ DOMAIN registry' = 1..(Len(registry) + 1)
        /\ \A i \in DOMAIN registry : registry'[i] = registry[i]
    BY <1>1, IssueShape
  <2>2. QED
    BY <1>1, <2>1
<1>3. /\ new.account = a /\ new.reservation = r
      /\ new.budget = budget /\ ~new.revoked
      /\ \/ /\ SessionsOf(r, a) = {}
            /\ new.base = base /\ new.consumed = 0 /\ ~new.limited
         \/ \E p \in MostCharged(SessionsOf(r, a)) :
              /\ new.base = registry[p].base
              /\ new.consumed = registry[p].consumed
              /\ new.limited = registry[p].limited
  BY <1>1, IssueShape
<1>4. UNCHANGED <<now, revived, paused, floor>> /\ ~AccountTaken(a, r)
  BY DEF Issue, history
<1>5. new \in Device
  BY <1>1, <1>2, ElementOfSeq
<1>. HIDE DEF n, new
<1>6. TypeOK'
  BY <1>1, <1>2, <1>4 DEF TypeOK, n
<1>7. new.base # Null => new.reservation # Null
  BY <1>3 DEF MostCharged, SessionsOf
<1>8. SessionShape'
  <2>1. IF new.reservation = Null THEN new.base = Null
        ELSE /\ new.account # Null /\ new.base # Null
             /\ new.budget = Budgets[new.reservation]
    BY <1>3, <1>7 DEF IInv, SessionShape, MostCharged, SessionsOf
  <2>2. QED
    BY <1>2, <2>1 DEF IInv, SessionShape, new
<1>9. FloorHasEntry'
  BY <1>2, <1>4 DEF IInv, FloorHasEntry
<1>10. ExclusiveUnlessRevived'
  <2>1. ASSUME NEW j \in DOMAIN registry, Live(registry[j]),
               registry[j].account = a, a # Null
        PROVE  r # Null /\ registry[j].reservation = r
    BY <1>4, <2>1 DEF AccountTaken
  <2>2. QED
    BY <1>2, <1>3, <1>4, <2>1
    DEF IInv, ExclusiveUnlessRevived, Live, Unexpired, new
<1>11. BudgetFlagExact'
  <2>1. FlagExact(new)
    <3>1. CASE SessionsOf(r, a) = {} /\ new.base = base
                 /\ new.consumed = 0 /\ ~new.limited
      BY <1>3, <3>1, ConstantsAssumption DEF FlagExact, Budgeted
    <3>2. CASE \E p \in MostCharged(SessionsOf(r, a)) :
                 /\ new.base = registry[p].base
                 /\ new.consumed = registry[p].consumed
                 /\ new.limited = registry[p].limited
      BY <1>3, <3>2
      DEF IInv, SessionShape, BudgetFlagExact, MostCharged, SessionsOf,
          FlagExact, Budgeted
    <3>3. QED
      BY <1>3, <3>1, <3>2
  <2>2. QED
    BY <1>2, <2>1 DEF IInv, BudgetFlagExact, FlagExact, Budgeted, new
<1>12. SessionLedgerFloor'
  <2>1. <<r, a>> \in DOMAIN floor => new.consumed >= floor[<<r, a>>]
    <3>. HAVE <<r, a>> \in DOMAIN floor
    <3>1. floor[<<r, a>>] \in Nat /\ r \in Reservations
      BY DEF IInv, TypeOK
    <3>2. CASE SessionsOf(r, a) = {} /\ new.consumed = 0
      BY <3>1, <3>2, ConstantsAssumption DEF IInv, FloorHasEntry, SessionsOf
    <3>3. CASE \E p \in MostCharged(SessionsOf(r, a)) :
                 new.consumed = registry[p].consumed
      BY <3>3 DEF IInv, SessionLedgerFloor, MostCharged, SessionsOf
    <3>4. QED
      BY <1>3, <3>2, <3>3
  <2>2. QED
    BY <1>2, <1>3, <1>4, <2>1 DEF IInv, SessionLedgerFloor, new
<1>13. Appends
  BY <1>2 DEF Appends
<1>14. QED
  BY <1>6, <1>8, <1>9, <1>10, <1>11, <1>12, <1>13 DEF IInv

(* Steps that leave floor alone and rewrite no ledger.                     *)
LEMMA RewritePreserves ==
  ASSUME IInv, Rewrites, UNCHANGED <<now, floor>>,
         revived' \subseteq DOMAIN registry, paused' \subseteq DOMAIN registry,
         \A i \in DOMAIN registry : SameLedger(registry[i], registry'[i]),
         ExclusiveUnlessRevived'
  PROVE  IInv'
<1>1. now' \in Nat /\ floor' \in [Reservations \X Accounts -> 0..ConsumedCap]
  BY DEF IInv, TypeOK
<1>2. QED
  BY <1>1, TypePreserved, SessionShapePreserved, FloorPreserved, FlagsPreserved
  DEF IInv

LEMMA HistoryTyped ==
  ASSUME IInv
  PROVE  revived \subseteq DOMAIN registry /\ paused \subseteq DOMAIN registry
BY RegistryShape DEF IInv, TypeOK

LEMMA UpdatePolicyPreserves ==
  ASSUME IInv, NEW d \in DOMAIN registry,
         NEW account \in Accounts \cup {Null, Keep},
         NEW limit \in WeeklyLimits \cup {Keep},
         NEW expiry \in Expiries \cup {Keep},
         UpdatePolicy(d, account, limit, expiry)
  PROVE  IInv' /\ Rewrites
<1>1. /\ Rewrites
      /\ \A i \in DOMAIN registry : SameLedger(registry[i], registry'[i])
      /\ \A i \in DOMAIN registry \ {d} : registry'[i] = registry[i]
      /\ registry'[d].account = IF account = Keep THEN registry[d].account
                                ELSE account
      /\ registry'[d].revoked <=> registry[d].revoked
      /\ registry'[d].expiresAt = IF expiry = Keep THEN registry[d].expiresAt
                                  ELSE expiry
  BY UpdatePolicyShape
<1>2. /\ UNCHANGED <<now, paused, floor>>
      /\ revived' = IF expiry # Keep /\ ~Unexpired(registry[d])
                    THEN revived \cup {d} ELSE revived
      /\ ~registry[d].revoked
      /\ account # Keep =>
           /\ registry[d].account = Null \/ registry[d].account = account
           /\ account # Null => ~OtherLive(d, account)
  BY DEF UpdatePolicy
<1>3. ExclusiveUnlessRevived'
  <2>1. \A i \in DOMAIN registry \ {d} :
          /\ registry'[i].account = registry[i].account
          /\ registry'[i].reservation = registry[i].reservation
          /\ ~registry'[i].revoked /\ registry'[i].expiresAt > now'
               => Live(registry[i])
    BY <1>1, <1>2 DEF Live, Unexpired
  <2>2. \/ d \in revived'
        \/ /\ registry'[d].account = registry[d].account
           /\ ~registry'[d].revoked /\ registry'[d].expiresAt > now'
                => Live(registry[d])
        \/ /\ registry'[d].account # Null
             => ~OtherLive(d, registry'[d].account)
    <3>1. CASE account # Keep
      BY <1>1, <1>2, <3>1
    <3>2. CASE account = Keep /\ expiry # Keep /\ ~Unexpired(registry[d])
      BY <1>2, <3>2
    <3>3. CASE account = Keep /\ (expiry = Keep \/ Unexpired(registry[d]))
      BY <1>1, <1>2, <3>3 DEF Live, Unexpired
    <3>4. QED
      BY <3>1, <3>2, <3>3
  <2>3. registry'[d].reservation = registry[d].reservation
    BY <1>1 DEF Rewrites, Kept
  <2>4. DOMAIN registry' = DOMAIN registry /\ revived \subseteq revived'
    BY <1>1, <1>2 DEF Rewrites
  <2>5. QED
    BY <2>1, <2>2, <2>3, <2>4, ExclusivePreserved
<1>4. QED
  BY <1>1, <1>2, <1>3, HistoryTyped, RewritePreserves

LEMMA FlagStepPreserves ==
  ASSUME IInv,
         \/ \E d \in DOMAIN registry :
              Disable(d) \/ Enable(d) \/ Revoke(d) \/ Reactivate(d)
         \/ RevokeAll
         \/ \E a \in Accounts : RevokeForAccount(a)
  PROVE  IInv' /\ Rewrites
<1>1. /\ UNCHANGED <<now, floor, revived>>
      /\ paused' \subseteq DOMAIN registry
  BY HistoryTyped
  DEF Disable, Enable, Revoke, Reactivate, RevokeAll, RevokeForAccount,
      RevokeMatching, history
<1>2. ASSUME NEW d,
             registry' \in [DOMAIN registry -> Device],
             \A i \in DOMAIN registry : OnlyFlags(registry[i], registry'[i]),
             \A i \in DOMAIN registry \ {d} :
               registry[i].revoked => registry'[i].revoked,
             d \in DOMAIN registry => (registry[d].account # Null
                                        => ~OtherLive(d, registry[d].account))
      PROVE  IInv' /\ Rewrites
  <2>1. /\ Rewrites
        /\ \A i \in DOMAIN registry : SameLedger(registry[i], registry'[i])
    BY <1>2, FlagsShape
  <2>2. \A i \in DOMAIN registry \ {d} :
          /\ registry'[i].account = registry[i].account
          /\ registry'[i].reservation = registry[i].reservation
          /\ ~registry'[i].revoked /\ registry'[i].expiresAt > now'
               => Live(registry[i])
    BY <1>1, <1>2 DEF OnlyFlags, Live, Unexpired
  <2>3. d \in DOMAIN registry =>
          /\ registry'[d].account = registry[d].account
          /\ registry'[d].reservation = registry[d].reservation
    BY <1>2 DEF OnlyFlags
  <2>4. ExclusiveUnlessRevived'
    BY <1>1, <1>2, <2>1, <2>2, <2>3, ExclusivePreserved DEF Rewrites
  <2>5. QED
    BY <1>1, <2>1, <2>4, HistoryTyped, RewritePreserves
<1>3. CASE \E d \in DOMAIN registry : Disable(d) \/ Enable(d)
  <2>1. PICK d \in DOMAIN registry : Disable(d) \/ Enable(d)
    BY <1>3
  <2>2. /\ registry' \in [DOMAIN registry -> Device]
        /\ \A i \in DOMAIN registry : /\ OnlyFlags(registry[i], registry'[i])
                                      /\ registry'[i].revoked <=> registry[i].revoked
    BY <2>1, DisableShape
  <2>3. 0 \notin DOMAIN registry
    BY RegistryShape DEF IInv
  <2>4. QED
    BY <1>2, <2>2, <2>3
<1>4. CASE \/ \E d \in DOMAIN registry : Revoke(d)
           \/ RevokeAll
           \/ \E a \in Accounts : RevokeForAccount(a)
  <2>1. /\ registry' \in [DOMAIN registry -> Device]
        /\ \A i \in DOMAIN registry :
             /\ OnlyFlags(registry[i], registry'[i])
             /\ registry[i].revoked => registry'[i].revoked
    BY <1>4, RevokeShape
  <2>2. 0 \notin DOMAIN registry
    BY RegistryShape DEF IInv
  <2>3. QED
    BY <1>2, <2>1, <2>2
<1>5. CASE \E d \in DOMAIN registry : Reactivate(d)
  <2>1. PICK d \in DOMAIN registry : Reactivate(d)
    BY <1>5
  <2>2. /\ registry' \in [DOMAIN registry -> Device]
        /\ \A i \in DOMAIN registry : OnlyFlags(registry[i], registry'[i])
        /\ \A i \in DOMAIN registry \ {d} : registry'[i] = registry[i]
    BY <2>1, ReactivateShape
  <2>3. registry[d].account # Null => ~OtherLive(d, registry[d].account)
    BY <2>1 DEF Reactivate
  <2>4. QED
    BY <1>2, <2>2, <2>3
<1>6. QED
  BY <1>3, <1>4, <1>5

(* A metering step: nobody's token changes hands, ledgers only grow.       *)
LEMMA MeterPreserves ==
  ASSUME IInv, UNCHANGED <<now, revived, paused>>,
         registry' = [i \in DOMAIN registry |-> registry'[i]],
         \A i \in DOMAIN registry : Charged(registry[i], registry'[i]),
         floor' \in [Reservations \X Accounts -> 0..ConsumedCap],
         FloorHasEntry', SessionLedgerFloor'
  PROVE  IInv' /\ Rewrites
<1>1. Rewrites
  BY ChargedShape
<1>2. TypeOK'
  <2>1. now' \in Nat
    BY DEF IInv, TypeOK
  <2>2. QED
    BY <1>1, <2>1, HistoryTyped, TypePreserved
<1>3. ExclusiveUnlessRevived'
  <2>1. 0 \notin DOMAIN registry
    BY RegistryShape DEF IInv
  <2>2. \A i \in DOMAIN registry \ {0} :
          /\ registry'[i].account = registry[i].account
          /\ registry'[i].reservation = registry[i].reservation
          /\ ~registry'[i].revoked /\ registry'[i].expiresAt > now'
               => Live(registry[i])
    BY DEF Charged, SameToken, Live, Unexpired
  <2>3. DOMAIN registry' = DOMAIN registry /\ revived \subseteq revived'
    BY <1>1 DEF Rewrites
  <2>4. QED
    BY <2>1, <2>2, <2>3, ExclusivePreserved
<1>4. SessionShape' /\ BudgetFlagExact'
  BY <1>1, SessionShapePreserved, FlagsRecomputed DEF Rewrites
<1>5. QED
  BY <1>1, <1>2, <1>3, <1>4 DEF IInv

LEMMA UpdateAccountLimitPreserves ==
  ASSUME IInv, NEW a \in Accounts, NEW r \in Readings, NEW scope \in Scopes,
         UpdateAccountLimit(a, r, scope)
  PROVE  IInv' /\ Rewrites
<1>1. UNCHANGED <<now, revived, paused, floor>>
  BY DEF UpdateAccountLimit, history
<1>2. /\ registry' = [i \in DOMAIN registry |-> registry'[i]]
      /\ \A i \in DOMAIN registry : Charged(registry[i], registry'[i])
  BY UpdateAccountLimitShape
<1>3. Rewrites
  BY <1>2, ChargedShape
<1>4. FloorHasEntry' /\ SessionLedgerFloor'
  BY <1>1, <1>3, FloorPreserved
<1>5. floor' \in [Reservations \X Accounts -> 0..ConsumedCap]
  BY <1>1 DEF IInv, TypeOK
<1>6. QED
  BY <1>1, <1>2, <1>4, <1>5, MeterPreserves

LEMMA RecordUsagePreserves ==
  ASSUME IInv, NEW d \in DOMAIN registry, NEW r \in Readings, RecordUsage(d, r)
  PROVE  IInv' /\ Rewrites
<1>. DEFINE s == <<registry[d].reservation, registry[d].account>>
            c == Metered(registry[d], r).consumed
<1>1. /\ registry' = [i \in DOMAIN registry |-> registry'[i]]
      /\ \A i \in DOMAIN registry : Charged(registry[i], registry'[i])
      /\ registry'[d] = Metered(registry[d], r)
      /\ \A i \in SessionsOf(registry[d].reservation, registry[d].account) :
           registry'[i].consumed >= registry'[d].consumed
  BY RecordUsageShape
<1>2. UNCHANGED <<now, revived, paused>>
  BY DEF RecordUsage
<1>3. floor' = IF s \in DOMAIN floor
               THEN [floor EXCEPT ![s] = Greatest(@, c)] ELSE floor
  BY DEF RecordUsage
<1>4. Rewrites
  BY <1>1, ChargedShape
<1>5. c \in 0..ConsumedCap /\ registry'[d].consumed = c
  BY <1>1 DEF Charged, Device
<1>. HIDE DEF c
<1>6. /\ floor \in [Reservations \X Accounts -> 0..ConsumedCap]
      /\ floor' \in [Reservations \X Accounts -> 0..ConsumedCap]
      /\ DOMAIN floor = Reservations \X Accounts
      /\ DOMAIN floor' = Reservations \X Accounts
  <2>1. floor \in [Reservations \X Accounts -> 0..ConsumedCap]
    BY DEF IInv, TypeOK
  <2>2. s \in DOMAIN floor => Greatest(floor[s], c) \in 0..ConsumedCap
    BY <1>5, <2>1 DEF Greatest
  <2>3. QED
    BY <1>3, <2>1, <2>2
<1>7. \A t \in DOMAIN floor :
        /\ t # s => floor'[t] = floor[t]
        /\ t = s => floor'[t] = Greatest(floor[t], c)
  BY <1>3, <1>6
<1>8. ASSUME NEW i \in DOMAIN registry
      PROVE  /\ registry'[i].reservation = registry[i].reservation
             /\ registry'[i].account = registry[i].account
             /\ registry'[i].consumed >= registry[i].consumed
             /\ registry'[i].consumed \in Int /\ registry[i].consumed \in Int
  <2>1. registry[i] \in Device /\ registry'[i] \in Device
    BY <1>1, RegistryShape DEF IInv, Charged
  <2>2. registry[i].consumed \in Int /\ registry'[i].consumed \in Int
    BY <2>1, ConsumedType
  <2>3. QED
    BY <1>1, <2>2 DEF Charged, SameToken
<1>9. FloorHasEntry'
  <2>. SUFFICES ASSUME NEW t \in DOMAIN floor', floor'[t] # 0
                PROVE  \E i \in DOMAIN registry' :
                         t = <<registry'[i].reservation, registry'[i].account>>
    BY DEF FloorHasEntry
  <2>1. t = s \/ floor[t] # 0
    BY <1>6, <1>7
  <2>2. \E i \in DOMAIN registry :
          t = <<registry[i].reservation, registry[i].account>>
    BY <1>6, <2>1 DEF IInv, FloorHasEntry
  <2>3. QED
    BY <1>4, <1>8, <2>2 DEF Rewrites
<1>10. SessionLedgerFloor'
  <2>. SUFFICES ASSUME NEW i \in DOMAIN registry,
                       <<registry[i].reservation, registry[i].account>>
                         \in DOMAIN floor
                PROVE  registry'[i].consumed >=
                         floor'[<<registry[i].reservation, registry[i].account>>]
    BY <1>4, <1>6, <1>8 DEF SessionLedgerFloor, Rewrites
  <2>. DEFINE t == <<registry[i].reservation, registry[i].account>>
  <2>1. registry[i].consumed >= floor[t] /\ floor[t] \in Int
    BY <1>6 DEF IInv, SessionLedgerFloor
  <2>2. CASE t # s
    BY <1>7, <1>8, <2>1, <2>2
  <2>3. CASE t = s
    <3>1. i \in SessionsOf(registry[d].reservation, registry[d].account)
      BY <1>6, <2>3, ConstantsAssumption DEF SessionsOf
    <3>2. registry'[i].consumed >= c
      BY <1>1, <1>5, <3>1
    <3>3. floor'[t] = Greatest(floor[t], c)
      BY <1>7, <2>3
    <3>4. QED
      BY <1>5, <1>8, <2>1, <3>2, <3>3 DEF Greatest
  <2>4. QED
    BY <2>2, <2>3
<1>11. QED
  BY <1>1, <1>2, <1>6, <1>9, <1>10, MeterPreserves

LEMMA NextIInv ==
  ASSUME IInv, [Next]_vars
  PROVE  IInv' /\ (Rewrites \/ Appends)
<1>1. CASE IssueManual
  <2>1. PICK a \in Accounts \cup {Null}, limit \in WeeklyLimits, e \in Expiries :
          Issue(a, Null, Null, Null, limit, e)
    BY <1>1 DEF IssueManual
  <2>2. limit \in 0..FullPercent /\ e \in Nat
    BY ConstantsAssumption
  <2>3. QED
    BY <2>1, <2>2, IssuePreserves
<1>2. CASE IssueSession
  <2>1. PICK a \in Accounts, r \in Reservations, e \in Expiries,
             reading \in {x \in Readings : x.used # Null} :
          Issue(a, r, reading.used, Budgets[r], Budgets[r], e)
    BY <1>2 DEF IssueSession
  <2>2. /\ Budgets[r] \in 0..FullPercent /\ Budgets[r] \in Int \cup {Null}
        /\ e \in Nat /\ reading.used \in Int \cup {Null}
    BY ConstantsAssumption, ReadingsAssumption
  <2>3. a # Null /\ r # Null /\ reading.used # Null
    BY ConstantsAssumption
  <2>4. QED
    BY <2>1, <2>2, <2>3, IssuePreserves
<1>3. CASE \/ RevokeAll
           \/ \E a \in Accounts : RevokeForAccount(a)
           \/ \E d \in DOMAIN registry :
                Disable(d) \/ Enable(d) \/ Revoke(d) \/ Reactivate(d)
  BY <1>3, FlagStepPreserves
<1>4. CASE \E a \in Accounts, r \in Readings, scope \in Scopes :
             UpdateAccountLimit(a, r, scope)
  BY <1>4, UpdateAccountLimitPreserves
<1>5. CASE \E d \in DOMAIN registry :
             \E account \in Accounts \cup {Null, Keep},
                limit \in WeeklyLimits \cup {Keep},
                expiry \in Expiries \cup {Keep} :
               UpdatePolicy(d, account, limit, expiry)
  BY <1>5, UpdatePolicyPreserves
<1>6. CASE \E d \in DOMAIN registry : \E r \in Readings : RecordUsage(d, r)
  BY <1>6, RecordUsagePreserves
<1>7. CASE Tick \/ UNCHANGED vars
  <2>1. UNCHANGED <<registry, history>> /\ now' \in Nat /\ now' >= now
    BY <1>7 DEF Tick, vars, history, IInv, TypeOK
  <2>2. TypeOK /\ TypeOK'
    BY <2>1 DEF IInv, TypeOK, history
  <2>3. \A i \in DOMAIN registry :
          /\ registry[i] \in Device
          /\ ~registry'[i].revoked /\ registry'[i].expiresAt > now'
               => Live(registry[i])
    <3>1. \A i \in DOMAIN registry : registry[i] \in Device
      BY <2>2, RegistryShape
    <3>2. \A i \in DOMAIN registry : registry[i].expiresAt \in Nat
      BY <3>1 DEF Device
    <3>3. now \in Nat
      BY <2>2 DEF TypeOK
    <3>4. QED
      BY <2>1, <3>1, <3>2, <3>3 DEF Live, Unexpired
  <2>4. ExclusiveUnlessRevived'
    BY <2>1, <2>3, ExclusivePreserved, HistoryTyped, RegistryShape, <2>2 DEF history
  <2>5. QED
    BY <2>1, <2>2, <2>4
    DEF IInv, SessionShape, FloorHasEntry, BudgetFlagExact,
        SessionLedgerFloor, Budgeted, Appends, history
<1>8. QED
  BY <1>1, <1>2, <1>3, <1>4, <1>5, <1>6, <1>7 DEF Next

-----------------------------------------------------------------------------
(* Tokens of one session carry one base and, while none of them has been     *)
(* stopped or brought back, one ledger: also the readings that decide what   *)
(* the next reading adds.                                                    *)
Mates(i, j) ==
  /\ registry[i].reservation # Null
  /\ registry[i].reservation = registry[j].reservation
  /\ registry[i].account = registry[j].account

Clean(i) == Active(registry[i]) /\ i \notin paused \cup revived
CleanSession(i) == \A j \in DOMAIN registry : Mates(i, j) => Clean(j)

SameReadings(d, e) ==
  /\ e.consumed = d.consumed /\ e.last = d.last /\ e.used = d.used
  /\ e.duration = d.duration /\ e.resetsAt = d.resetsAt

OneBase ==
  \A i, j \in DOMAIN registry : Mates(i, j) => registry[i].base = registry[j].base

OneLedger ==
  \A i, j \in DOMAIN registry :
    Mates(i, j) /\ CleanSession(i) => SameReadings(registry[i], registry[j])

StoppedArePaused ==
  \A i \in DOMAIN registry : registry[i].disabled \/ registry[i].revoked => i \in paused

Agree == OneBase /\ OneLedger /\ StoppedArePaused

(* Before a step that stops nothing for the record and revives nothing, the  *)
(* session was as clean as it is after the step.                             *)
LEMMA SessionWasClean ==
  ASSUME StoppedArePaused, DOMAIN registry \subseteq DOMAIN registry',
         revived \subseteq revived', paused \subseteq paused',
         \A i \in DOMAIN registry :
           /\ registry'[i].reservation = registry[i].reservation
           /\ registry[i].reservation # Null => registry'[i].account = registry[i].account
           /\ registry'[i].expiresAt > now' => i \in revived' \/ registry[i].expiresAt > now,
         NEW i \in DOMAIN registry
  PROVE  /\ CleanSession(i)' => CleanSession(i)
         /\ \A j \in DOMAIN registry : Mates(i, j)' <=> Mates(i, j)
<1>1. \A j \in DOMAIN registry : Mates(i, j)' <=> Mates(i, j)
  BY DEF Mates
<1>2. \A j \in DOMAIN registry : Clean(j)' => Clean(j)
  BY DEF Clean, Active, Live, Unexpired, StoppedArePaused
<1>3. QED
  BY <1>1, <1>2 DEF CleanSession

(* A step that rewrites no ledger and marks what it stops.                   *)
LEMMA AgreeKept ==
  ASSUME Agree, Rewrites, revived \subseteq revived', paused \subseteq paused',
         \A i \in DOMAIN registry :
           /\ SameReadings(registry[i], registry'[i])
           /\ registry'[i].disabled \/ registry'[i].revoked
                => registry[i].disabled \/ registry[i].revoked \/ i \in paused'
           /\ registry'[i].expiresAt > now' => i \in revived' \/ registry[i].expiresAt > now
  PROVE  Agree'
<1>1. /\ DOMAIN registry' = DOMAIN registry
      /\ \A i \in DOMAIN registry :
           /\ registry'[i].reservation = registry[i].reservation
           /\ registry[i].reservation # Null => registry'[i].account = registry[i].account
           /\ registry'[i].base = registry[i].base
  BY DEF Rewrites, Kept
<1>2. ASSUME NEW i \in DOMAIN registry
      PROVE  /\ CleanSession(i)' => CleanSession(i)
             /\ \A j \in DOMAIN registry : Mates(i, j)' <=> Mates(i, j)
  BY <1>1, SessionWasClean DEF Agree
<1>3. OneBase'
  BY <1>1, <1>2 DEF Agree, OneBase
<1>4. OneLedger'
  BY <1>1, <1>2 DEF Agree, OneLedger, SameReadings
<1>5. StoppedArePaused'
  BY <1>1 DEF Agree, StoppedArePaused
<1>6. QED
  BY <1>3, <1>4, <1>5 DEF Agree

(* The fields that each kind of write leaves alone.                          *)
LEMMA PolicyFields ==
  ASSUME NEW d \in Device, NEW a, NEW w, NEW x
  PROVE  LET n == [d EXCEPT !.account = a, !.weeklyLimit = w, !.expiresAt = x]
         IN  /\ SameReadings(d, n) /\ n.expiresAt = x
             /\ (n.disabled <=> d.disabled) /\ (n.revoked <=> d.revoked)
<1> DEFINE n == [d EXCEPT !.account = a, !.weeklyLimit = w, !.expiresAt = x]
<1>1. SameReadings(d, n)
  BY DEF Device, SameReadings
<1>2. n.expiresAt = x
  BY DEF Device
<1>3. (n.disabled <=> d.disabled) /\ (n.revoked <=> d.revoked)
  BY DEF Device
<1>4. QED
  BY <1>1, <1>2, <1>3

LEMMA StopFields ==
  ASSUME NEW d \in Device, NEW b
  PROVE  /\ SameReadings(d, [d EXCEPT !.disabled = b]) /\ SameReadings(d, [d EXCEPT !.revoked = b])
         /\ [d EXCEPT !.disabled = b].expiresAt = d.expiresAt
         /\ [d EXCEPT !.revoked = b].expiresAt = d.expiresAt
<1>1. SameReadings(d, [d EXCEPT !.disabled = b])
  BY DEF Device, SameReadings
<1>2. SameReadings(d, [d EXCEPT !.revoked = b])
  BY DEF Device, SameReadings
<1>3. [d EXCEPT !.disabled = b].expiresAt = d.expiresAt
  BY DEF Device
<1>4. [d EXCEPT !.revoked = b].expiresAt = d.expiresAt
  BY DEF Device
<1>5. QED
  BY <1>1, <1>2, <1>3, <1>4

LEMMA UpdatePolicyAgrees ==
  ASSUME IInv, Agree, NEW d \in DOMAIN registry,
         NEW account \in Accounts \cup {Null, Keep},
         NEW limit \in WeeklyLimits \cup {Keep},
         NEW expiry \in Expiries \cup {Keep},
         UpdatePolicy(d, account, limit, expiry)
  PROVE  Agree'
<1>. DEFINE was == registry[d]
            a == IF account = Keep THEN was.account ELSE account
            w == IF limit = Keep THEN was.weeklyLimit ELSE limit
            x == IF expiry = Keep THEN was.expiresAt ELSE expiry
            new == [was EXCEPT !.account = a, !.weeklyLimit = w, !.expiresAt = x]
<1>1. TypeOK /\ was \in Device
  BY RegistryShape DEF IInv
<1>2. /\ registry' = [registry EXCEPT ![d] = new] /\ now' = now /\ paused' = paused
      /\ revived' = IF expiry # Keep /\ ~Unexpired(was) THEN revived \cup {d} ELSE revived
  BY DEF UpdatePolicy
<1>3. /\ SameReadings(was, new) /\ new.expiresAt = x
      /\ (new.disabled <=> was.disabled) /\ (new.revoked <=> was.revoked)
  <2>. HIDE DEF was, a, w, x
  <2>1. QED
    BY <1>1, PolicyFields
<1>. HIDE DEF new
<1>4. x > now => d \in revived' \/ was.expiresAt > now
  BY <1>2 DEF Unexpired
<1>5. \A i \in DOMAIN registry : registry'[i] = IF i = d THEN new ELSE registry[i]
  BY <1>1, <1>2, RegistryShape
<1>. HIDE DEF x
<1>6. Rewrites
  BY UpdatePolicyShape
<1>7. QED
  BY <1>2, <1>3, <1>4, <1>5, <1>6, AgreeKept DEF SameReadings

(* Disabling, enabling, revoking and reactivating.                           *)
LEMMA FlagStepAgrees ==
  ASSUME IInv, Agree,
         \/ \E d \in DOMAIN registry :
              Disable(d) \/ Enable(d) \/ Revoke(d) \/ Reactivate(d)
         \/ RevokeAll
         \/ \E a \in Accounts : RevokeForAccount(a)
  PROVE  Agree'
<1>1. Rewrites
  BY FlagStepPreserves
<1>2. TypeOK /\ \A i \in DOMAIN registry : registry[i] \in Device
  BY RegistryShape DEF IInv
<1>3. now' = now /\ revived' = revived /\ paused \subseteq paused'
  BY DEF Disable, Enable, Revoke, Reactivate, RevokeAll, RevokeForAccount, RevokeMatching, history
<1>4. ASSUME NEW i \in DOMAIN registry
      PROVE  \/ registry'[i] = registry[i]
             \/ i \in paused' /\ \E b \in BOOLEAN : registry'[i] = [registry[i] EXCEPT !.disabled = b]
             \/ i \in paused' /\ registry'[i] = [registry[i] EXCEPT !.revoked = TRUE]
             \/ /\ i \in paused'
                /\ registry'[i] = [registry[i] EXCEPT !.revoked = FALSE, !.disabled = FALSE]
  <2>1. CASE \E d \in DOMAIN registry : Disable(d)
    BY <2>1, <1>2, RegistryShape DEF Disable
  <2>2. CASE \E d \in DOMAIN registry : Enable(d)
    BY <2>2, <1>2, <1>3, RegistryShape DEF Enable, Agree, StoppedArePaused
  <2>3. CASE \E d \in DOMAIN registry : Revoke(d)
    BY <2>3, <1>2, RegistryShape DEF Revoke
  <2>4. CASE \E d \in DOMAIN registry : Reactivate(d)
    BY <2>4, <1>2, <1>3, RegistryShape DEF Reactivate, Agree, StoppedArePaused
  <2>5. CASE RevokeAll
    BY <2>5 DEF RevokeAll, RevokeMatching
  <2>6. CASE \E a \in Accounts : RevokeForAccount(a)
    BY <2>6 DEF RevokeForAccount, RevokeMatching
  <2>7. QED
    BY <2>1, <2>2, <2>3, <2>4, <2>5, <2>6
<1>5. ASSUME NEW i \in DOMAIN registry
      PROVE  /\ SameReadings(registry[i], registry'[i])
             /\ registry'[i].expiresAt = registry[i].expiresAt
             /\ registry'[i] # registry[i] => i \in paused'
  <2>1. CASE registry'[i] = registry[i]
    BY <2>1 DEF SameReadings
  <2>2. ASSUME NEW n, registry'[i] = n, i \in paused',
               SameReadings(registry[i], n), n.expiresAt = registry[i].expiresAt
        PROVE  /\ SameReadings(registry[i], registry'[i])
               /\ registry'[i].expiresAt = registry[i].expiresAt
               /\ registry'[i] # registry[i] => i \in paused'
    BY <2>2
  <2>3. CASE i \in paused' /\ \E b \in BOOLEAN : registry'[i] = [registry[i] EXCEPT !.disabled = b]
    <3>1. PICK b \in BOOLEAN : registry'[i] = [registry[i] EXCEPT !.disabled = b]
      BY <2>3
    <3>. DEFINE n == [registry[i] EXCEPT !.disabled = b]
    <3>2. registry'[i] = n /\ SameReadings(registry[i], n) /\ n.expiresAt = registry[i].expiresAt
      BY <1>2, <3>1, StopFields
    <3>. HIDE DEF n
    <3>3. QED
      BY <2>2, <2>3, <3>2
  <2>4. CASE i \in paused' /\ registry'[i] = [registry[i] EXCEPT !.revoked = TRUE]
    <3>. DEFINE n == [registry[i] EXCEPT !.revoked = TRUE]
    <3>1. registry'[i] = n /\ SameReadings(registry[i], n) /\ n.expiresAt = registry[i].expiresAt
      BY <1>2, <2>4, StopFields
    <3>. HIDE DEF n
    <3>2. QED
      BY <2>2, <2>4, <3>1
  <2>5. CASE /\ i \in paused'
             /\ registry'[i] = [registry[i] EXCEPT !.revoked = FALSE, !.disabled = FALSE]
    <3>. DEFINE on == [registry[i] EXCEPT !.revoked = FALSE]
                n  == [on EXCEPT !.disabled = FALSE]
    <3>1. registry'[i] = n
      BY <2>5
    <3>2. on \in Device /\ SameReadings(registry[i], on) /\ on.expiresAt = registry[i].expiresAt
      BY <1>2, StopFields, FlagFields
    <3>. HIDE DEF on
    <3>3. SameReadings(on, n) /\ n.expiresAt = on.expiresAt
      BY <3>2, StopFields
    <3>. HIDE DEF n
    <3>4. QED
      BY <2>2, <2>5, <3>1, <3>2, <3>3 DEF SameReadings
  <2>6. QED
    BY <1>4, <2>1, <2>3, <2>4, <2>5
<1>6. ASSUME NEW i \in DOMAIN registry
      PROVE  /\ registry'[i].disabled \/ registry'[i].revoked
                  => registry[i].disabled \/ registry[i].revoked \/ i \in paused'
             /\ registry'[i].expiresAt > now' => i \in revived' \/ registry[i].expiresAt > now
  BY <1>3, <1>5
<1>7. QED
  BY <1>1, <1>3, <1>5, <1>6, AgreeKept

(* What metering writes is a function of base, readings and reading.         *)
LEMMA MeteredReadings ==
  ASSUME NEW d \in Device, NEW r \in Readings
  PROVE  LET m == Metered(d, r)
         IN  /\ m.consumed = Progress(d, r).consumed /\ m.last = Progress(d, r).last
             /\ m.used = r.used /\ m.duration = r.duration
             /\ m.resetsAt = FirstOf(r.resetsAt, d.resetsAt)
<1>. DEFINE p == Progress(d, r)
            q == [p EXCEPT !.resetsAt = FirstOf(r.resetsAt, d.resetsAt),
                           !.used = r.used, !.duration = r.duration]
            b == LimitReached(q, r.used)
            n == [q EXCEPT !.limited = b]
<1>1. n = Metered(d, r)
  BY DEF Metered
<1>2. /\ r.used \in Int \cup {Null} /\ r.duration \in Nat \cup {Null}
      /\ FirstOf(r.resetsAt, d.resetsAt) \in Nat \cup {Null}
  BY ReadingsAssumption DEF FirstOf, Device
<1>3. p \in Device
  BY ProgressType
<1>. HIDE DEF p
<1>4. q \in Device
  BY <1>2, <1>3, ReadingType
<1>5. /\ q.consumed = p.consumed /\ q.last = p.last /\ q.used = r.used
      /\ q.duration = r.duration /\ q.resetsAt = FirstOf(r.resetsAt, d.resetsAt)
  BY <1>3 DEF Device
<1>. HIDE DEF q, b
<1>6. /\ n.consumed = q.consumed /\ n.last = q.last /\ n.used = q.used
      /\ n.duration = q.duration /\ n.resetsAt = q.resetsAt
  BY <1>4 DEF Device
<1>. HIDE DEF n
<1>7. QED
  BY <1>1, <1>5, <1>6 DEF p

(* Copies of a ledger with the same base stay copies when metered.           *)
LEMMA MeterAgrees ==
  ASSUME NEW d \in Device, NEW e \in Device, NEW r \in Readings,
         SameReadings(d, e), d.base = e.base
  PROVE  SameReadings(Metered(d, r), Metered(e, r))
<1>1. /\ e.consumed = d.consumed /\ e.last = d.last /\ e.used = d.used
      /\ e.duration = d.duration /\ e.resetsAt = d.resetsAt
  BY DEF SameReadings
<1>2. /\ Previous(e) = Previous(d) /\ SameWindow(e, r) = SameWindow(d, r)
      /\ WindowChanged(e, r) = WindowChanged(d, r)
  BY <1>1 DEF Previous, SameWindow, WindowChanged
<1>3. Delta(e, r) = Delta(d, r)
  BY <1>2 DEF Delta
<1>4. Progress(e, r).consumed = Progress(d, r).consumed /\ Progress(e, r).last = Progress(d, r).last
  <2>1. CASE r.used = Null
    BY <1>1, <2>1 DEF Progress
  <2>2. CASE r.used # Null
    <3>. DEFINE c == Least(ConsumedCap, d.consumed + Delta(d, r))
                l == IF SameWindow(d, r) /\ ~WindowChanged(d, r) /\ Previous(d) # Null
                     THEN Greatest(Previous(d), Clamped(r.used)) ELSE Clamped(r.used)
    <3>1. Progress(d, r) = [d EXCEPT !.consumed = c, !.last = l]
      BY <2>2 DEF Progress
    <3>2. Progress(e, r) = [e EXCEPT !.consumed = c, !.last = l]
      BY <1>1, <1>2, <1>3, <2>2 DEF Progress
    <3>. HIDE DEF c, l
    <3>3. /\ [d EXCEPT !.consumed = c, !.last = l].consumed = c
          /\ [d EXCEPT !.consumed = c, !.last = l].last = l
          /\ [e EXCEPT !.consumed = c, !.last = l].consumed = c
          /\ [e EXCEPT !.consumed = c, !.last = l].last = l
      BY DEF Device
    <3>4. QED
      BY <3>1, <3>2, <3>3
  <2>3. QED
    BY <2>1, <2>2
<1>5. FirstOf(r.resetsAt, e.resetsAt) = FirstOf(r.resetsAt, d.resetsAt)
  BY <1>1
<1>. DEFINE m == Metered(d, r)
            n == Metered(e, r)
<1>6. /\ m.consumed = Progress(d, r).consumed /\ m.last = Progress(d, r).last
      /\ m.used = r.used /\ m.duration = r.duration /\ m.resetsAt = FirstOf(r.resetsAt, d.resetsAt)
  BY MeteredReadings
<1>7. /\ n.consumed = Progress(e, r).consumed /\ n.last = Progress(e, r).last
      /\ n.used = r.used /\ n.duration = r.duration /\ n.resetsAt = FirstOf(r.resetsAt, e.resetsAt)
  BY MeteredReadings
<1>. HIDE DEF m, n
<1>8. SameReadings(m, n)
  BY <1>4, <1>5, <1>6, <1>7 DEF SameReadings
<1>9. QED
  BY <1>8 DEF m, n

LEMMA CopyReadings ==
  ASSUME NEW d \in Device, NEW e \in Device
  PROVE  SameReadings(e, WithLedger(d, e))
<1>. DEFINE b == e.limited
            n == [d EXCEPT !.consumed = e.consumed, !.last = e.last, !.resetsAt = e.resetsAt,
                           !.used = e.used, !.duration = e.duration, !.limited = b]
<1>1. WithLedger(d, e) = n
  BY DEF WithLedger
<1>. HIDE DEF b
<1>2. /\ n.consumed = e.consumed /\ n.last = e.last /\ n.used = e.used
      /\ n.duration = e.duration /\ n.resetsAt = e.resetsAt
  BY DEF Device
<1>. HIDE DEF n
<1>3. QED
  BY <1>1, <1>2 DEF SameReadings

(* A metering step, once the ledgers of clean sessions are known to agree.   *)
LEMMA MeterStepAgrees ==
  ASSUME IInv, Agree, UNCHANGED <<now, revived, paused>>,
         registry' = [i \in DOMAIN registry |-> registry'[i]],
         \A i \in DOMAIN registry : Charged(registry[i], registry'[i]),
         \A i, j \in DOMAIN registry :
           Mates(i, j) /\ CleanSession(i) => SameReadings(registry'[i], registry'[j])
  PROVE  Agree'
<1>1. /\ DOMAIN registry' = DOMAIN registry
      /\ \A i \in DOMAIN registry :
           /\ registry'[i].reservation = registry[i].reservation
           /\ registry'[i].account = registry[i].account
           /\ registry'[i].base = registry[i].base
           /\ registry'[i].expiresAt = registry[i].expiresAt
           /\ registry'[i].disabled \/ registry'[i].revoked
                => registry[i].disabled \/ registry[i].revoked
  BY DEF Charged, SameToken
<1>2. ASSUME NEW i \in DOMAIN registry
      PROVE  /\ CleanSession(i)' => CleanSession(i)
             /\ \A j \in DOMAIN registry : Mates(i, j)' <=> Mates(i, j)
  BY <1>1, SessionWasClean DEF Agree
<1>3. OneBase'
  BY <1>1, <1>2 DEF Agree, OneBase
<1>4. OneLedger'
  BY <1>1, <1>2 DEF OneLedger
<1>5. StoppedArePaused'
  BY <1>1 DEF Agree, StoppedArePaused
<1>6. QED
  BY <1>3, <1>4, <1>5 DEF Agree

LEMMA UpdateAccountLimitAgrees ==
  ASSUME IInv, Agree, NEW a \in Accounts, NEW r \in Readings, NEW scope \in Scopes,
         UpdateAccountLimit(a, r, scope)
  PROVE  Agree'
<1>1. UNCHANGED <<now, revived, paused>>
  BY DEF UpdateAccountLimit, history
<1>2. /\ registry' = [i \in DOMAIN registry |-> registry'[i]]
      /\ \A i \in DOMAIN registry : Charged(registry[i], registry'[i])
  BY UpdateAccountLimitShape
<1>3. ASSUME NEW i \in DOMAIN registry, NEW j \in DOMAIN registry, Mates(i, j), CleanSession(i)
      PROVE  SameReadings(registry'[i], registry'[j])
  <2>1. registry[i] \in Device /\ registry[j] \in Device
    BY RegistryShape DEF IInv
  <2>2. SameReadings(registry[i], registry[j]) /\ registry[i].base = registry[j].base
    BY <1>3 DEF Agree, OneBase, OneLedger
  <2>3. Mates(i, i) /\ Active(registry[i]) /\ Active(registry[j])
    BY <1>3 DEF Mates, CleanSession, Clean
  <2>4. /\ registry[i].account = registry[j].account
        /\ InScope(registry[i], scope) <=> InScope(registry[j], scope)
    BY <1>3 DEF Mates, InScope
  <2>5. CASE registry[i].account = a /\ InScope(registry[i], scope)
    <3>1. registry'[i] = Metered(registry[i], r) /\ registry'[j] = Metered(registry[j], r)
      BY <2>3, <2>4, <2>5 DEF UpdateAccountLimit
    <3>2. QED
      BY <2>1, <2>2, <3>1, MeterAgrees
  <2>6. CASE ~(registry[i].account = a /\ InScope(registry[i], scope))
    <3>1. registry'[i] = registry[i] /\ registry'[j] = registry[j]
      BY <2>4, <2>6 DEF UpdateAccountLimit
    <3>2. QED
      BY <2>2, <3>1
  <2>7. QED
    BY <2>5, <2>6
<1>4. QED
  BY <1>1, <1>2, <1>3, MeterStepAgrees

LEMMA RecordUsageAgrees ==
  ASSUME IInv, Agree, NEW d \in DOMAIN registry, NEW r \in Readings, RecordUsage(d, r)
  PROVE  Agree'
<1>. DEFINE m == Metered(registry[d], r)
            S == SessionsOf(registry[d].reservation, registry[d].account)
            peers == {i \in S : i # d /\ registry[i].consumed <= m.consumed}
<1>1. UNCHANGED <<now, revived, paused>>
  BY DEF RecordUsage
<1>2. /\ registry' = [i \in DOMAIN registry |-> registry'[i]]
      /\ \A i \in DOMAIN registry : Charged(registry[i], registry'[i])
  BY RecordUsageShape
<1>3. registry' = [i \in DOMAIN registry |->
                     IF i = d THEN m
                     ELSE IF i \in peers THEN WithLedger(registry[i], m)
                     ELSE registry[i]]
  BY DEF RecordUsage
<1>4. /\ \A i \in DOMAIN registry : registry[i] \in Device
      /\ m \in Device /\ m.consumed >= registry[d].consumed
  BY RegistryShape, MeteredType DEF IInv
<1>5. \A i \in DOMAIN registry : i \in S <=> Mates(d, i)
  BY DEF SessionsOf, Mates
<1>. HIDE DEF m, S
<1>6. ASSUME NEW i \in DOMAIN registry, Mates(d, i), CleanSession(d)
      PROVE  SameReadings(m, registry'[i])
  <2>1. CASE i = d
    BY <1>3, <2>1 DEF SameReadings
  <2>2. CASE i # d
    <3>1. registry[i].consumed = registry[d].consumed
      BY <1>6 DEF Agree, OneLedger, SameReadings
    <3>2. i \in peers
      BY <1>4, <1>5, <1>6, <2>2, <3>1
    <3>3. registry'[i] = WithLedger(registry[i], m)
      BY <1>3, <2>2, <3>2
    <3>4. QED
      BY <1>4, <3>3, CopyReadings
  <2>3. QED
    BY <2>1, <2>2
<1>7. ASSUME NEW i \in DOMAIN registry, NEW j \in DOMAIN registry, Mates(i, j), CleanSession(i)
      PROVE  SameReadings(registry'[i], registry'[j])
  <2>1. CASE Mates(d, i)
    <3>1. Mates(d, j) /\ CleanSession(d)
      BY <1>7, <2>1 DEF Mates, CleanSession
    <3>2. SameReadings(m, registry'[i]) /\ SameReadings(m, registry'[j])
      BY <1>6, <2>1, <3>1
    <3>3. QED
      BY <3>2 DEF SameReadings
  <2>2. CASE ~Mates(d, i)
    <3>1. ~Mates(d, j) /\ i # d /\ j # d
      BY <1>7, <2>2 DEF Mates
    <3>2. registry'[i] = registry[i] /\ registry'[j] = registry[j]
      BY <1>3, <1>5, <2>2, <3>1
    <3>3. QED
      BY <1>7, <3>2 DEF Agree, OneLedger
  <2>3. QED
    BY <2>1, <2>2
<1>8. QED
  BY <1>1, <1>2, <1>7, MeterStepAgrees

(* The entry issue appends: its flags, and the ledger it copies.             *)
LEMMA IssueCopies ==
  ASSUME TypeOK,
         NEW a \in Accounts \cup {Null}, NEW r \in Reservations \cup {Null},
         NEW base \in Int \cup {Null}, NEW budget \in Int \cup {Null},
         NEW limit \in 0..FullPercent, NEW expiry \in Nat,
         Issue(a, r, base, budget, limit, expiry)
  PROVE  LET new == registry'[Len(registry) + 1]
         IN  /\ ~new.disabled
             /\ \/ SessionsOf(r, a) = {}
                \/ \E p \in SessionsOf(r, a) : /\ SameReadings(registry[p], new)
                                               /\ new.base = registry[p].base
<1>. DEFINE fresh == Fresh(a, r, base, budget, limit, expiry)
<1>1. fresh \in Device
  BY ConstantsAssumption DEF Fresh, Device
<1>2. ~fresh.disabled
  BY DEF Fresh
<1>3. ASSUME NEW new, registry' = Append(registry, new)
      PROVE  registry'[Len(registry) + 1] = new
  BY <1>3, RegistryShape, AppendProperties
<1>. HIDE DEF fresh
<1>4. CASE SessionsOf(r, a) = {} /\ registry' = Append(registry, fresh)
  BY <1>2, <1>3, <1>4
<1>5. CASE \E p \in MostCharged(SessionsOf(r, a)) :
             registry' = Append(registry,
               [WithLedger(fresh, registry[p]) EXCEPT !.base = registry[p].base])
  <2>1. PICK p \in MostCharged(SessionsOf(r, a)) :
             registry' = Append(registry,
               [WithLedger(fresh, registry[p]) EXCEPT !.base = registry[p].base])
    BY <1>5
  <2>2. registry[p] \in Device /\ p \in SessionsOf(r, a)
    BY RegistryShape DEF MostCharged, SessionsOf
  <2>. DEFINE w   == WithLedger(fresh, registry[p])
              new == [w EXCEPT !.base = registry[p].base]
  <2>3. registry' = Append(registry, new)
    BY <2>1
  <2>4. w \in Device /\ SameToken(w, fresh) /\ SameReadings(registry[p], w)
    BY <1>1, <2>2, WithLedgerType, CopyReadings
  <2>. HIDE DEF w
  <2>5. SameReadings(w, new)
    BY <2>4 DEF Device, SameReadings
  <2>6. new.base = registry[p].base
    BY <2>4 DEF Device
  <2>7. new.disabled = w.disabled
    BY <2>4 DEF Device
  <2>. HIDE DEF new
  <2>8. ~new.disabled
    BY <1>2, <2>4, <2>7 DEF SameToken
  <2>9. SameReadings(registry[p], new)
    BY <2>4, <2>5 DEF SameReadings
  <2>10. registry'[Len(registry) + 1] = new
    BY <1>3, <2>3
  <2>11. QED
    BY <2>2, <2>6, <2>8, <2>9, <2>10
<1>6. QED
  BY <1>4, <1>5 DEF Issue, fresh

LEMMA IssueAgrees ==
  ASSUME IInv, Agree,
         NEW a \in Accounts \cup {Null}, NEW r \in Reservations \cup {Null},
         NEW base \in Int \cup {Null}, NEW budget \in Int \cup {Null},
         NEW limit \in 0..FullPercent, NEW expiry \in Nat,
         Issue(a, r, base, budget, limit, expiry)
  PROVE  Agree'
<1>0. PICK n : n = Len(registry) + 1
  OBVIOUS
<1>. DEFINE new == registry'[n]
<1>1. TypeOK /\ UNCHANGED <<now, revived, paused>>
  BY DEF IInv, Issue, history
<1>2. /\ DOMAIN registry' = DOMAIN registry \cup {n} /\ n \notin DOMAIN registry
      /\ \A i \in DOMAIN registry : registry'[i] = registry[i]
      /\ new.account = a /\ new.reservation = r /\ ~new.revoked
  <2>1. /\ DOMAIN registry' = 1..(Len(registry) + 1)
        /\ \A i \in DOMAIN registry : registry'[i] = registry[i]
        /\ new.account = a /\ new.reservation = r /\ ~new.revoked
    BY <1>0, <1>1, IssueShape
  <2>2. DOMAIN registry = 1..Len(registry) /\ Len(registry) \in Nat
    BY <1>1, RegistryShape
  <2>. HIDE DEF new
  <2>3. QED
    BY <1>0, <2>1, <2>2
<1>3. /\ ~new.disabled
      /\ \/ SessionsOf(r, a) = {}
         \/ \E p \in SessionsOf(r, a) : /\ SameReadings(registry[p], new)
                                        /\ new.base = registry[p].base
  BY <1>0, <1>1, IssueCopies
<1>4. ASSUME NEW i \in DOMAIN registry
      PROVE  /\ CleanSession(i)' => CleanSession(i)
             /\ \A j \in DOMAIN registry : Mates(i, j)' <=> Mates(i, j)
  BY <1>1, <1>2, SessionWasClean DEF Agree
(* A mate of the new entry is one of the session it was issued into.         *)
<1>5. ASSUME NEW i \in DOMAIN registry, Mates(i, n)' \/ Mates(n, i)'
      PROVE  /\ registry[i].base = new.base
             /\ CleanSession(i) => SameReadings(registry[i], new)
  <2>1. i \in SessionsOf(r, a)
    BY <1>2, <1>5 DEF Mates, SessionsOf
  <2>2. PICK p \in SessionsOf(r, a) : /\ SameReadings(registry[p], new)
                                      /\ new.base = registry[p].base
    BY <1>3, <2>1
  <2>3. p \in DOMAIN registry /\ Mates(i, p)
    BY <2>1, <2>2 DEF Mates, SessionsOf
  <2>4. registry[i].base = registry[p].base
    BY <2>3 DEF Agree, OneBase
  <2>5. CleanSession(i) => SameReadings(registry[i], registry[p])
    BY <2>3 DEF Agree, OneLedger
  <2>6. QED
    BY <2>2, <2>4, <2>5 DEF SameReadings
<1>6. ASSUME NEW i \in DOMAIN registry, Mates(n, i)', CleanSession(n)'
      PROVE  CleanSession(i)
  <2>1. CleanSession(i)'
    BY <1>6 DEF CleanSession, Mates
  <2>2. QED
    BY <1>4, <2>1
<1>7. OneBase'
  <2>. SUFFICES ASSUME NEW i \in DOMAIN registry', NEW j \in DOMAIN registry', Mates(i, j)'
                PROVE  registry'[i].base = registry'[j].base
    BY DEF OneBase
  <2>1. CASE i # n /\ j # n
    BY <1>2, <1>4, <2>1 DEF Agree, OneBase
  <2>2. CASE i = n \/ j = n
    BY <1>2, <1>5, <2>2
  <2>3. QED
    BY <2>1, <2>2
<1>8. OneLedger'
  <2>. SUFFICES ASSUME NEW i \in DOMAIN registry', NEW j \in DOMAIN registry',
                       Mates(i, j)', CleanSession(i)'
                PROVE  SameReadings(registry'[i], registry'[j])
    BY DEF OneLedger
  <2>1. CASE i # n /\ j # n
    BY <1>2, <1>4, <2>1 DEF Agree, OneLedger
  <2>2. CASE i # n /\ j = n
    BY <1>2, <1>4, <1>5, <2>2
  <2>3. CASE i = n /\ j # n
    <3>1. SameReadings(registry[j], new)
      BY <1>2, <1>5, <1>6, <2>3
    <3>2. QED
      BY <1>2, <2>3, <3>1 DEF SameReadings
  <2>4. CASE i = n /\ j = n
    BY <2>4 DEF SameReadings
  <2>5. QED
    BY <2>1, <2>2, <2>3, <2>4
<1>9. StoppedArePaused'
  BY <1>1, <1>2, <1>3 DEF Agree, StoppedArePaused
<1>10. QED
  BY <1>7, <1>8, <1>9 DEF Agree

LEMMA AgreeInit == Init => Agree
<1>. SUFFICES ASSUME Init PROVE Agree
  OBVIOUS
<1>1. DOMAIN registry = {}
  BY EmptySeq DEF Init
<1>2. QED
  BY <1>1 DEF Agree, OneBase, OneLedger, StoppedArePaused

LEMMA AgreeNext ==
  ASSUME IInv, Agree, [Next]_vars
  PROVE  Agree'
<1>1. CASE IssueManual
  <2>1. PICK a \in Accounts \cup {Null}, limit \in WeeklyLimits, e \in Expiries :
          Issue(a, Null, Null, Null, limit, e)
    BY <1>1 DEF IssueManual
  <2>2. limit \in 0..FullPercent /\ e \in Nat
    BY ConstantsAssumption
  <2>3. QED
    BY <2>1, <2>2, IssueAgrees
<1>2. CASE IssueSession
  <2>1. PICK a \in Accounts, r \in Reservations, e \in Expiries,
             reading \in {x \in Readings : x.used # Null} :
          Issue(a, r, reading.used, Budgets[r], Budgets[r], e)
    BY <1>2 DEF IssueSession
  <2>2. /\ Budgets[r] \in 0..FullPercent /\ Budgets[r] \in Int \cup {Null}
        /\ e \in Nat /\ reading.used \in Int \cup {Null}
    BY ConstantsAssumption, ReadingsAssumption
  <2>3. QED
    BY <2>1, <2>2, IssueAgrees
<1>3. CASE \/ RevokeAll
           \/ \E a \in Accounts : RevokeForAccount(a)
           \/ \E d \in DOMAIN registry :
                Disable(d) \/ Enable(d) \/ Revoke(d) \/ Reactivate(d)
  BY <1>3, FlagStepAgrees
<1>4. CASE \E a \in Accounts, r \in Readings, scope \in Scopes :
             UpdateAccountLimit(a, r, scope)
  BY <1>4, UpdateAccountLimitAgrees
<1>5. CASE \E d \in DOMAIN registry :
             \E account \in Accounts \cup {Null, Keep},
                limit \in WeeklyLimits \cup {Keep},
                expiry \in Expiries \cup {Keep} :
               UpdatePolicy(d, account, limit, expiry)
  BY <1>5, UpdatePolicyAgrees
<1>6. CASE \E d \in DOMAIN registry : \E r \in Readings : RecordUsage(d, r)
  BY <1>6, RecordUsageAgrees
<1>7. CASE Tick \/ UNCHANGED vars
  <2>1. registry' = registry /\ UNCHANGED history /\ now \in Nat /\ now' \in Nat /\ now' >= now
    BY <1>7 DEF Tick, vars, history, IInv, TypeOK
  <2>2. \A i \in DOMAIN registry :
          /\ registry[i].expiresAt \in Nat /\ Kept(registry[i], registry[i])
    BY RegistryShape, Unchanged DEF IInv, Device
  <2>3. Rewrites
    BY <2>1, <2>2 DEF Rewrites, IInv, TypeOK
  <2>4. QED
    BY <2>1, <2>2, <2>3, AgreeKept DEF SameReadings, history
<1>8. QED
  BY <1>1, <1>2, <1>3, <1>4, <1>5, <1>6, <1>7 DEF Next

(* The registry keeps its types, and its ledgers stay within the cap, for  *)
(* any number of accounts, sessions, tokens and readings.                  *)
THEOREM TypeCorrect == Spec => []TypeOK
<1>1. Init => IInv
  BY InitIInv
<1>2. IInv /\ [Next]_vars => IInv'
  BY NextIInv
<1>3. IInv => TypeOK
  BY DEF IInv
<1>4. QED
  BY <1>1, <1>2, <1>3, PTL DEF Spec

(* No two customers ever hold live tokens of one account, unless an        *)
(* operator moved the expiry of a token that had already lapsed.           *)
THEOREM AccountsExclusive == Spec => []ExclusiveUnlessRevived
<1>1. Init => IInv
  BY InitIInv
<1>2. IInv /\ [Next]_vars => IInv'
  BY NextIInv
<1>3. IInv => ExclusiveUnlessRevived
  BY DEF IInv
<1>4. QED
  BY <1>1, <1>2, <1>3, PTL DEF Spec

(* The blocked flag of a budgeted token is exact after every operation.    *)
THEOREM BudgetEnforced == Spec => []BudgetFlagExact
<1>1. Init => IInv
  BY InitIInv
<1>2. IInv /\ [Next]_vars => IInv'
  BY NextIInv
<1>3. IInv => BudgetFlagExact
  BY DEF IInv
<1>4. QED
  BY <1>1, <1>2, <1>3, PTL DEF Spec

(* Reissuing a session's token never hands back quota another token of the *)
(* session was charged for.                                                *)
THEOREM SessionChargesKept == Spec => []SessionLedgerFloor
<1>1. Init => IInv
  BY InitIInv
<1>2. IInv /\ [Next]_vars => IInv'
  BY NextIInv
<1>3. IInv => SessionLedgerFloor
  BY DEF IInv
<1>4. QED
  BY <1>1, <1>2, <1>3, PTL DEF Spec

(* No operation decreases what an entry has consumed.                      *)
THEOREM LedgerMonotonic == Spec => LedgerNeverShrinks
<1>1. Init => IInv
  BY InitIInv
<1>2. IInv /\ [Next]_vars => IInv'
  BY NextIInv
<1>3. IInv /\ [Next]_vars =>
        [\A i \in DOMAIN registry :
           registry'[i].consumed >= registry[i].consumed]_vars
  <2>. SUFFICES ASSUME IInv, [Next]_vars, NEW i \in DOMAIN registry
                PROVE  registry'[i].consumed >= registry[i].consumed
    OBVIOUS
  <2>1. registry[i].consumed \in Int
    BY RegistryShape, ConsumedType DEF IInv
  <2>2. Rewrites \/ Appends
    BY NextIInv
  <2>3. QED
    BY <2>1, <2>2 DEF Rewrites, Kept, Appends
<1>4. QED
  BY <1>1, <1>2, <1>3, PTL DEF Spec, LedgerNeverShrinks

(* While no token of a session has been disabled, revoked or brought back,   *)
(* its tokens agree on what is left (recordUsage and issue copy ledgers,     *)
(* access-store.ts), for any readings, reissues and sessions.                *)
THEOREM LedgersAgree == Spec => []SessionAgrees
<1>1. Init => IInv /\ Agree
  BY InitIInv, AgreeInit
<1>2. (IInv /\ Agree) /\ [Next]_vars => (IInv /\ Agree)'
  BY NextIInv, AgreeNext
<1>3. IInv /\ Agree => SessionAgrees
  <2>. SUFFICES ASSUME Agree,
                       NEW i \in DOMAIN registry,
                       NEW j \in SessionsOf(registry[i].reservation, registry[i].account),
                       \A k \in SessionsOf(registry[i].reservation, registry[i].account) :
                         Active(registry[k]) /\ k \notin paused \cup revived
                PROVE  registry[j].consumed = registry[i].consumed
    BY DEF SessionAgrees
  <2>1. j \in DOMAIN registry /\ Mates(i, j) /\ CleanSession(i)
    BY DEF SessionsOf, Mates, CleanSession, Clean
  <2>2. QED
    BY <2>1 DEF Agree, OneLedger, SameReadings
<1>4. QED
  BY <1>1, <1>2, <1>3, PTL DEF Spec

(* ----------------------- The file: RegistryFile -------------------------- *)

InTurn == {"queued"} \cup Waiting \cup Holding

(* An operation under way is in the queue of its process, and at its head    *)
(* once it has begun.                                                        *)
Turns ==
  \A c \in Calls :
    /\ pc[c] \in InTurn => \E i \in 1..Len(chain[ProcessOf[c]]) : chain[ProcessOf[c]][i] = c
    /\ pc[c] \in Waiting \cup Holding => Head(chain[ProcessOf[c]]) = c

Types == FileTypeOK /\ Turns

(* Whoever works on the registry owns the lock file.                         *)
HolderHasLock == ~usurped => \A c \in Calls : pc[c] \in Holding => lock = c

(* What an operation knows of the registry is true while it has the lock.    *)
KnowsFile ==
  ~(usurped \/ refused) =>
    \A c \in Calls :
      /\ pc[c] = "write" => snapshot[c] = file
      /\ pc[c] # "replace"
      /\ pc[c] = "release" /\ result[c] = "changed" => c \in file

-------------------------------------------------------------------------------
(* The operation at the head of a queue leaves it.                           *)
LEMMA LeaveQueue ==
  ASSUME NEW q \in Seq(Calls), NEW c, q # <<>>, Head(q) = c
  PROVE  /\ Tail(q) \in Seq(Calls)
         /\ \A d \in Calls : d # c /\ (\E i \in 1..Len(q) : q[i] = d)
                             => \E i \in 1..Len(Tail(q)) : Tail(q)[i] = d
<1>1. /\ Tail(q) \in Seq(Calls) /\ Len(Tail(q)) = Len(q) - 1
      /\ \A i \in 1..Len(Tail(q)) : Tail(q)[i] = q[i + 1]
  BY HeadTailProperties
<1>2. ASSUME NEW d \in Calls, d # c, NEW i \in 1..Len(q), q[i] = d
      PROVE  \E j \in 1..Len(Tail(q)) : Tail(q)[j] = d
  <2>1. Len(q) \in Nat /\ q[1] = c
    OBVIOUS
  <2>2. i # 1
    BY <1>2, <2>1
  <2>3. i - 1 \in 1..Len(Tail(q)) /\ Tail(q)[i - 1] = d
    BY <1>1, <1>2, <2>1, <2>2
  <2>4. QED BY <2>3
<1>3. QED BY <1>1, <1>2

(* An operation joins a queue.                                               *)
LEMMA JoinQueue ==
  ASSUME NEW q \in Seq(Calls), NEW c \in Calls
  PROVE  /\ Append(q, c) \in Seq(Calls)
         /\ \E i \in 1..Len(Append(q, c)) : Append(q, c)[i] = c
         /\ \A d \in Calls : (\E i \in 1..Len(q) : q[i] = d)
                => (\E i \in 1..Len(Append(q, c)) : Append(q, c)[i] = d) /\ Head(Append(q, c)) = Head(q)
<1>1. /\ Append(q, c) \in Seq(Calls) /\ Len(Append(q, c)) = Len(q) + 1 /\ Len(q) \in Nat
      /\ \A i \in 1..Len(q) : Append(q, c)[i] = q[i]
      /\ Append(q, c)[Len(q) + 1] = c
  BY AppendProperties
<1>2. ASSUME NEW d \in Calls, NEW i \in 1..Len(q), q[i] = d
      PROVE  (\E j \in 1..Len(Append(q, c)) : Append(q, c)[j] = d) /\ Head(Append(q, c)) = Head(q)
  <2>1. i \in 1..Len(Append(q, c)) /\ Append(q, c)[i] = d
    BY <1>1, <1>2
  <2>2. Append(q, c)[1] = q[1]
    BY <1>1
  <2>3. Head(Append(q, c)) = Head(q)
    BY <2>2
  <2>4. QED BY <2>1, <2>3
<1>3. QED BY <1>1, <1>2

(* A step of one operation that leaves the queues.                           *)
LEMMA TurnsKept ==
  ASSUME Turns, FileTypeOK, NEW c \in Calls, NEW step, chain' = chain, pc' = [pc EXCEPT ![c] = step],
         step \in Waiting \cup Holding
           => \/ pc[c] \in Waiting \cup Holding
              \/ Head(chain[ProcessOf[c]]) = c /\ pc[c] \in InTurn,
         step # "queued"
  PROVE  Turns'
BY DEF Turns, FileTypeOK, InTurn

(* An operation that has begun ends and leaves its queue.                    *)
LEMMA TurnsPassed ==
  ASSUME Turns, FileTypeOK, NEW c \in Calls, NEW step \in Ended, pc[c] \in Waiting \cup Holding,
         pc' = [pc EXCEPT ![c] = step],
         chain' = [chain EXCEPT ![ProcessOf[c]] = Tail(@)]
  PROVE  Turns' /\ chain' \in [Processes -> Seq(Calls)]
<1> DEFINE p == ProcessOf[c]
           q == chain[p]
<1>1. p \in Processes /\ q \in Seq(Calls) /\ chain \in [Processes -> Seq(Calls)]
  BY CallsAssumption DEF FileTypeOK
<1>2. Head(q) = c /\ \E i \in 1..Len(q) : q[i] = c
  BY DEF Turns, InTurn
<1>3. q # <<>>
  BY <1>1, <1>2
<1>4. /\ Tail(q) \in Seq(Calls)
      /\ \A d \in Calls : d # c /\ (\E i \in 1..Len(q) : q[i] = d)
                          => \E i \in 1..Len(Tail(q)) : Tail(q)[i] = d
  BY <1>1, <1>2, <1>3, LeaveQueue
<1>5. chain' = [chain EXCEPT ![p] = Tail(q)]
  OBVIOUS
<1>6. \A d \in Calls : ProcessOf[d] \in Processes
  BY CallsAssumption
<1>7. Turns'
  <2> SUFFICES ASSUME NEW d \in Calls, pc'[d] \in InTurn
               PROVE  /\ \E i \in 1..Len(chain'[ProcessOf[d]]) : chain'[ProcessOf[d]][i] = d
                      /\ pc'[d] \in Waiting \cup Holding => Head(chain'[ProcessOf[d]]) = d
    BY DEF Turns, InTurn
  <2>1. d # c /\ pc'[d] = pc[d]
    BY DEF FileTypeOK, InTurn, Ended, Waiting, Holding
  <2>2. CASE ProcessOf[d] = p
    <3>1. chain'[ProcessOf[d]] = Tail(q)
      BY <1>1, <1>5, <2>2
    <3>2. \E i \in 1..Len(q) : q[i] = d
      BY <2>1, <2>2 DEF Turns
    <3>3. pc[d] \notin Waiting \cup Holding
      BY <1>2, <2>1, <2>2 DEF Turns
    <3>4. QED BY <1>4, <2>1, <3>1, <3>2, <3>3
  <2>3. CASE ProcessOf[d] # p
    <3>1. chain'[ProcessOf[d]] = chain[ProcessOf[d]]
      BY <1>1, <1>5, <1>6, <2>3
    <3>2. QED BY <2>1, <3>1 DEF Turns
  <2>4. QED BY <2>2, <2>3
<1>8. QED BY <1>1, <1>4, <1>5, <1>7

LEMMA TypesInit == FileInit => Types
<1> SUFFICES ASSUME FileInit PROVE Types
  OBVIOUS
<1>1. <<>> \in Seq(Calls)
  OBVIOUS
<1>2. chain \in [Processes -> Seq(Calls)]
  BY <1>1 DEF FileInit
<1>3. FileTypeOK
  <2>1. /\ 0 \in 0..StaleAfter + 1 /\ 0 \in 0..MaxCrashes
    BY BoundsAssumption
  <2>2. /\ pc \in [Calls -> {"idle", "queued"} \cup Waiting \cup Holding \cup Ended]
        /\ waited \in [Calls -> 0..StaleAfter + 1]
        /\ snapshot \in [Calls -> SUBSET Calls]
        /\ result \in [Calls -> {"changed", "same", "failed"}]
    BY <2>1 DEF FileInit
  <2>3. QED BY <1>2, <2>1, <2>2 DEF FileInit, FileTypeOK
<1>4. Turns
  BY DEF FileInit, Turns, InTurn, Waiting, Holding
<1>5. QED BY <1>3, <1>4 DEF Types

LEMMA OlderInRange == \A t \in 0..StaleAfter + 1 : Older(t) \in 0..StaleAfter + 1
BY BoundsAssumption DEF Older

LEMMA TypesNext == Types /\ [FileNext]_fileVars => Types'
<1> SUFFICES ASSUME Types, [FileNext]_fileVars PROVE Types'
  OBVIOUS
<1> USE BoundsAssumption DEF disk
<1>t. /\ FileTypeOK /\ Turns
      /\ pc \in [Calls -> {"idle", "queued"} \cup Waiting \cup Holding \cup Ended]
      /\ 0 \in 0..StaleAfter + 1
  BY DEF Types, FileTypeOK
<1>1. ASSUME NEW c \in Calls, Call(c) PROVE Types'
  <2> DEFINE p == ProcessOf[c]
             q == chain[p]
  <2>1. p \in Processes /\ q \in Seq(Calls) /\ chain \in [Processes -> Seq(Calls)]
    BY <1>t, CallsAssumption DEF FileTypeOK
  <2>2. chain' = [chain EXCEPT ![p] = Append(q, c)] /\ pc' = [pc EXCEPT ![c] = "queued"]
    BY <1>1 DEF Call, Goes
  <2>3. /\ Append(q, c) \in Seq(Calls)
        /\ \E i \in 1..Len(Append(q, c)) : Append(q, c)[i] = c
        /\ \A d \in Calls : (\E i \in 1..Len(q) : q[i] = d)
               => (\E i \in 1..Len(Append(q, c)) : Append(q, c)[i] = d) /\ Head(Append(q, c)) = Head(q)
    BY <2>1, JoinQueue
  <2>4. \A d \in Calls : ProcessOf[d] \in Processes
    BY CallsAssumption
  <2>5. Turns'
    <3> SUFFICES ASSUME NEW d \in Calls, pc'[d] \in InTurn
                 PROVE  /\ \E i \in 1..Len(chain'[ProcessOf[d]]) : chain'[ProcessOf[d]][i] = d
                        /\ pc'[d] \in Waiting \cup Holding => Head(chain'[ProcessOf[d]]) = d
      BY DEF Turns, InTurn
    <3> HIDE DEF p, q
    <3>1. CASE d = c
      <4>1. pc'[d] = "queued" /\ chain'[ProcessOf[d]] = Append(q, c)
        BY <1>t, <2>1, <2>2, <3>1 DEF p
      <4>2. QED BY <2>3, <3>1, <4>1 DEF Waiting, Holding
    <3>2. CASE d # c
      <4>1. pc'[d] = pc[d]
        BY <1>t, <2>2, <3>2
      <4>2. CASE ProcessOf[d] = p
        <5>1. chain'[ProcessOf[d]] = Append(q, c) /\ chain[ProcessOf[d]] = q
          BY <2>1, <2>2, <4>2 DEF q
        <5>2. \E i \in 1..Len(q) : q[i] = d
          BY <1>t, <4>1, <5>1 DEF Turns
        <5>3. pc[d] \in Waiting \cup Holding => Head(q) = d
          BY <1>t, <5>1 DEF Turns
        <5>4. QED BY <2>3, <4>1, <5>1, <5>2, <5>3
      <4>3. CASE ProcessOf[d] # p
        <5>1. chain'[ProcessOf[d]] = chain[ProcessOf[d]]
          BY <2>1, <2>2, <2>4, <4>3
        <5>2. QED BY <1>t, <4>1, <5>1 DEF Turns
      <4>4. QED BY <4>2, <4>3
    <3>3. QED BY <3>1, <3>2
  <2>6. FileTypeOK'
    BY <1>1, <2>1, <2>2, <2>3 DEF Call, Types, FileTypeOK
  <2>7. QED BY <2>5, <2>6 DEF Types
<1>2. ASSUME NEW c \in Calls, Step(c) PROVE Types'
  <2> USE DEF Goes, Forget
  <2>1. CASE Begin(c)
    BY <1>t, <2>1, TurnsKept DEF Begin, Types, FileTypeOK, Waiting, Holding, InTurn
  <2>2. CASE CreateLock(c)
    BY <1>t, <2>2, TurnsKept DEF CreateLock, Types, FileTypeOK, Waiting, Holding, InTurn
  <2>3. CASE CreateFails(c)
    BY <1>t, <2>3, TurnsKept DEF CreateFails, Types, FileTypeOK, Waiting, Holding, InTurn
  <2>4. CASE FindLock(c)
    BY <1>t, <2>4, TurnsKept DEF FindLock, Types, FileTypeOK, Waiting, Holding, InTurn
  <2>5. CASE JudgeStale(c)
    BY <1>t, <2>5, TurnsKept DEF JudgeStale, Types, FileTypeOK, Waiting, Holding, InTurn
  <2>6. CASE Retry(c)
    BY <1>t, <2>6, TurnsKept DEF Retry, Types, FileTypeOK, Waiting, Holding, InTurn
  <2>7. CASE TimeOut(c) \/ WaitFails(c)
    <3>1. pc[c] \in Waiting /\ GiveUp(c)
      BY <2>7 DEF TimeOut, WaitFails, Waiting
    <3>2. Turns' /\ chain' \in [Processes -> Seq(Calls)]
      BY <1>t, <3>1, TurnsPassed DEF GiveUp, Ended
    <3>3. FileTypeOK'
      BY <1>t, <3>1, <3>2 DEF GiveUp, FileTypeOK, Ended
    <3>4. QED BY <3>2, <3>3 DEF Types
  <2>8. CASE RemoveStale(c)
    BY <1>t, <2>8, TurnsKept DEF RemoveStale, RemoveLock, Types, FileTypeOK, Waiting, Holding, InTurn
  <2>9. CASE Read(c)
    BY <1>t, <2>9, TurnsKept DEF Read, Types, FileTypeOK, Waiting, Holding, InTurn
  <2>10. CASE NothingToWrite(c)
    BY <1>t, <2>10, TurnsKept DEF NothingToWrite, Types, FileTypeOK, Waiting, Holding, InTurn
  <2>11. CASE FileFails(c)
    BY <1>t, <2>11, TurnsKept DEF FileFails, Types, FileTypeOK, Waiting, Holding, InTurn
  <2>12. CASE Rename(c)
    BY <1>t, <2>12, TurnsKept DEF Rename, Types, FileTypeOK, Waiting, Holding, InTurn
  <2>13. CASE RenameRefused(c)
    BY <1>t, <2>13, TurnsKept DEF RenameRefused, Types, FileTypeOK, Waiting, Holding, InTurn
  <2>14. CASE Release(c)
    <3>1. pc[c] \in Holding /\ Outcome(c) \in Ended
      BY <2>14 DEF Release, Holding, Ended, Outcome
    <3>2. Turns' /\ chain' \in [Processes -> Seq(Calls)]
      BY <1>t, <2>14, <3>1, TurnsPassed DEF Release
    <3>3. FileTypeOK'
      BY <1>t, <2>14, <3>1, <3>2 DEF Release, RemoveLock, FileTypeOK
    <3>4. QED BY <3>2, <3>3 DEF Types
  <2>15. QED
    BY <1>2, <2>1, <2>2, <2>3, <2>4, <2>5, <2>6, <2>7, <2>8, <2>9, <2>10, <2>11, <2>12, <2>13,
       <2>14 DEF Step
<1>3. ASSUME NEW p \in Processes, Crash(p) PROVE Types'
  <2>1. FileTypeOK'
    BY <1>t, <1>3 DEF Crash, FileTypeOK, Ended
  <2>2. \A c \in Calls : pc'[c] \in InTurn => ProcessOf[c] # p /\ pc'[c] = pc[c]
    BY <1>t, <1>3 DEF Crash, Running, InTurn, Ended, Waiting, Holding
  <2>3. \A r \in Processes : r # p => chain'[r] = chain[r]
    BY <1>t, <1>3 DEF Crash, FileTypeOK
  <2>4. Turns'
    BY <1>t, <2>2, <2>3, CallsAssumption DEF Turns, InTurn
  <2>5. QED BY <2>1, <2>4 DEF Types
<1>4. CASE FileTick
  <2>1. FileTypeOK'
    BY <1>t, <1>4, OlderInRange DEF FileTick, FileTypeOK
  <2>2. Turns'
    BY <1>t, <1>4 DEF FileTick, Turns
  <2>3. QED BY <2>1, <2>2 DEF Types
<1>5. CASE UNCHANGED fileVars
  BY <1>5 DEF fileVars, Types, FileTypeOK, Turns
<1>6. QED BY <1>1, <1>2, <1>3, <1>4, <1>5 DEF FileNext

-------------------------------------------------------------------------------
(* One holder.                                                               *)
LEMMA HolderInit == FileInit => HolderHasLock
BY DEF FileInit, HolderHasLock, Holding

LEMMA HolderNext == FileTypeOK /\ HolderHasLock /\ [FileNext]_fileVars => HolderHasLock'
<1> SUFFICES ASSUME FileTypeOK, HolderHasLock, [FileNext]_fileVars PROVE HolderHasLock'
  OBVIOUS
<1> USE DEF disk, Goes, Waiting, Holding, Ended
<1>t. pc \in [Calls -> {"idle", "queued"} \cup Waiting \cup Holding \cup Ended]
  BY DEF FileTypeOK
<1>1. ASSUME NEW c \in Calls,
             CreateLock(c) \/ CreateFails(c)
      PROVE  HolderHasLock'
  <2>1. /\ lock = NoLock /\ lock' = c /\ usurped' = usurped
        /\ \A d \in Calls : d # c => pc'[d] = pc[d]
    BY <1>t, <1>1 DEF CreateLock, CreateFails
  <2>2. QED BY <2>1, NoLockAssumption DEF HolderHasLock
<1>2. ASSUME NEW c \in Calls, RemoveStale(c) PROVE HolderHasLock'
  <2>1. /\ usurped' = (usurped \/ (lock \notin {NoLock, c} /\ pc[lock] \in Holding))
        /\ pc[c] = "remove" /\ pc' = [pc EXCEPT ![c] = "open"]
    BY <1>2 DEF RemoveStale, RemoveLock
  <2>2. QED BY <1>t, <2>1, NoLockAssumption DEF HolderHasLock
<1>3. ASSUME NEW c \in Calls, Release(c) PROVE HolderHasLock'
  <2>1. pc[c] = "release" /\ \A d \in Calls : pc'[d] = IF d = c THEN Outcome(c) ELSE pc[d]
    BY <1>t, <1>3 DEF Release
  <2>2. Outcome(c) \notin Holding
    BY DEF Outcome
  <2>3. CASE UNCHANGED disk
    BY <2>1, <2>2, <2>3 DEF HolderHasLock
  <2>4. CASE RemoveLock(c)
    <3>1. usurped' = (usurped \/ (lock \notin {NoLock, c} /\ pc[lock] \in Holding))
      BY <2>4 DEF RemoveLock
    <3>2. QED BY <2>1, <2>2, <3>1, NoLockAssumption DEF HolderHasLock
  <2>5. QED BY <1>3, <2>3, <2>4 DEF Release
<1>4. CASE /\ lock' = lock /\ usurped' = usurped
           /\ \A c \in Calls : pc'[c] \in Holding => pc[c] \in Holding
  BY <1>4 DEF HolderHasLock
<1>5. ASSUME NEW c \in Calls, GiveUp(c) PROVE HolderHasLock'
  BY <1>t, <1>4, <1>5 DEF GiveUp
<1>6. ASSUME NEW c \in Calls, Call(c) \/ Step(c) PROVE HolderHasLock'
  BY <1>t, <1>1, <1>2, <1>3, <1>4, <1>5, <1>6
     DEF Call, Step, Begin, FindLock, JudgeStale, Retry, TimeOut, WaitFails, Read,
         NothingToWrite, FileFails, Rename, RenameRefused
<1>7. ASSUME NEW p \in Processes, Crash(p) PROVE HolderHasLock'
  BY <1>t, <1>4, <1>7 DEF Crash, Running
<1>8. CASE FileTick \/ UNCHANGED fileVars
  BY <1>4, <1>8 DEF FileTick, fileVars
<1>9. QED BY <1>6, <1>7, <1>8 DEF FileNext

LEMMA HolderIsOne == HolderHasLock => OneHolder
BY DEF HolderHasLock, OneHolder

-------------------------------------------------------------------------------
(* The promise.                                                              *)
LEMMA KnowsInit == FileInit => KnowsFile
BY DEF FileInit, KnowsFile

(* Of two operations only the one with the lock knows the file.              *)
LEMMA KnowsNext == FileTypeOK /\ HolderHasLock /\ KnowsFile /\ [FileNext]_fileVars => KnowsFile'
<1> SUFFICES ASSUME FileTypeOK, HolderHasLock, KnowsFile, [FileNext]_fileVars PROVE KnowsFile'
  OBVIOUS
<1> USE DEF disk, Goes, Forget
<1>t. /\ pc \in [Calls -> {"idle", "queued"} \cup Waiting \cup Holding \cup Ended]
      /\ result \in [Calls -> {"changed", "same", "failed"}]
      /\ snapshot \in [Calls -> SUBSET Calls]
      /\ usurped \in BOOLEAN /\ refused \in BOOLEAN
  BY DEF FileTypeOK
<1>1. ASSUME NEW c \in Calls, Rename(c) PROVE KnowsFile'
  <2> SUFFICES ASSUME ~usurped, ~refused,
                      NEW d \in Calls
               PROVE  /\ pc'[d] = "write" => snapshot'[d] = file'
                      /\ pc'[d] # "replace"
                      /\ pc'[d] = "release" /\ result'[d] = "changed" => d \in file'
    BY <1>1 DEF Rename, KnowsFile
  <2>1. pc[c] = "write" /\ file' = file \cup {c} /\ pc' = [pc EXCEPT ![c] = "release"]
    BY <1>1 DEF Rename, KnowsFile
  <2>2. CASE d = c
    BY <1>t, <2>1, <2>2
  <2>3. CASE d # c
    <3>1. pc[d] \notin Holding
      BY <2>1, <2>3 DEF HolderHasLock, Holding
    <3>2. QED BY <1>t, <2>1, <2>3, <3>1 DEF Holding
  <2>4. QED BY <2>2, <2>3
<1>2. ASSUME NEW c \in Calls, RenameRefused(c) PROVE KnowsFile'
  BY <1>2 DEF RenameRefused, KnowsFile
<1>3. ASSUME NEW c \in Calls, Read(c) PROVE KnowsFile'
  BY <1>t, <1>3 DEF Read, KnowsFile
<1>4. ASSUME NEW c \in Calls, NEW step, file' = file,
             (usurped' = usurped /\ refused' = refused) \/ usurped',
             pc' = [pc EXCEPT ![c] = step], step \notin {"write", "replace", "release"},
             Forget(c) \/ UNCHANGED <<waited, snapshot>>,
             UNCHANGED result \/ result' = [result EXCEPT ![c] = "failed"]
      PROVE  KnowsFile'
  BY <1>t, <1>4 DEF KnowsFile
<1>5. ASSUME NEW c \in Calls, GiveUp(c) PROVE KnowsFile'
  BY <1>4, <1>5 DEF GiveUp
<1>6. ASSUME NEW c \in Calls, RemoveLock(c)
      PROVE  file' = file /\ ((usurped' = usurped /\ refused' = refused) \/ usurped')
  BY <1>t, <1>6 DEF RemoveLock
<1>7. ASSUME NEW c \in Calls, Release(c) PROVE KnowsFile'
  <2>1. file' = file /\ ((usurped' = usurped /\ refused' = refused) \/ usurped')
    BY <1>6, <1>7 DEF Release
  <2>2. /\ pc' = [pc EXCEPT ![c] = Outcome(c)] /\ UNCHANGED <<waited, snapshot, result>>
        /\ Outcome(c) \notin {"write", "replace", "release"}
    BY <1>7 DEF Release, Outcome
  <2>3. QED BY <1>4, <2>1, <2>2
<1>8. ASSUME NEW c \in Calls, RemoveStale(c) PROVE KnowsFile'
  BY <1>4, <1>6, <1>8 DEF RemoveStale
<1>9. ASSUME NEW c \in Calls, CreateLock(c) PROVE KnowsFile'
  BY <1>4, <1>9 DEF CreateLock
<1>10. ASSUME NEW c \in Calls, NothingToWrite(c) \/ FileFails(c) \/ CreateFails(c)
       PROVE  KnowsFile'
  BY <1>t, <1>10 DEF NothingToWrite, FileFails, CreateFails, KnowsFile
<1>11. ASSUME NEW c \in Calls, Call(c) \/ Begin(c) \/ FindLock(c) \/ JudgeStale(c) \/ Retry(c)
       PROVE  KnowsFile'
  BY <1>4, <1>11 DEF Call, Begin, FindLock, JudgeStale, Retry
<1>12. ASSUME NEW c \in Calls, Call(c) \/ Step(c) PROVE KnowsFile'
  BY <1>1, <1>2, <1>3, <1>5, <1>7, <1>8, <1>9, <1>10, <1>11, <1>12
     DEF Step, TimeOut, WaitFails
<1>13. ASSUME NEW p \in Processes, Crash(p) PROVE KnowsFile'
  BY <1>t, <1>13 DEF Crash, KnowsFile
<1>14. CASE FileTick \/ UNCHANGED fileVars
  BY <1>14 DEF FileTick, fileVars, KnowsFile
<1>15. QED BY <1>12, <1>13, <1>14 DEF FileNext

(* A step of the file is a step of the promise.                              *)
LEMMA StepKeepsPromise ==
  FileTypeOK /\ FileTypeOK' /\ KnowsFile /\ [FileNext]_fileVars => [Abstract!PNext]_(Abstract!pvars)
<1> SUFFICES ASSUME FileTypeOK, FileTypeOK', KnowsFile, [FileNext]_fileVars
             PROVE  Abstract!PNext \/ UNCHANGED Abstract!pvars
  OBVIOUS
<1> USE DEF disk, Goes, Forget
<1>t. /\ pc \in [Calls -> {"idle", "queued"} \cup Waiting \cup Holding \cup Ended]
      /\ result \in [Calls -> {"changed", "same", "failed"}]
      /\ usurped \in BOOLEAN /\ refused \in BOOLEAN /\ usurped' \in BOOLEAN /\ refused' \in BOOLEAN
      /\ file' \in SUBSET Calls
  BY DEF FileTypeOK
<1>1. CASE usurped' \/ refused'
  BY <1>t, <1>1 DEF Abstract!PNext, Abstract!Break
<1>2. CASE /\ file' = file /\ usurped' = usurped /\ refused' = refused
           /\ \A c \in Calls : /\ pc'[c] = "done" <=> pc[c] = "done"
                               /\ pc[c] = "done" => result'[c] = result[c]
  <2>1. {c \in Calls : pc'[c] = "done" /\ result'[c] = "changed"}
        = {c \in Calls : pc[c] = "done" /\ result[c] = "changed"}
    BY <1>2
  <2>2. QED BY <1>2, <2>1 DEF Abstract!pvars
<1>3. ASSUME ~usurped, ~refused, ~usurped', ~refused', NEW c \in Calls, Rename(c)
      PROVE  Abstract!PNext
  <2>1. /\ file' = file \cup {c} /\ usurped' = usurped /\ refused' = refused
        /\ {d \in Calls : pc'[d] = "done" /\ result'[d] = "changed"}
           = {d \in Calls : pc[d] = "done" /\ result[d] = "changed"}
    BY <1>t, <1>3 DEF Rename, KnowsFile
  <2>2. QED BY <1>3, <2>1 DEF Abstract!PNext, Abstract!Update
<1>4. ASSUME ~usurped, ~refused, ~usurped', ~refused', NEW c \in Calls, Release(c)
      PROVE  Abstract!PNext \/ UNCHANGED Abstract!pvars
  <2>1. /\ file' = file /\ (usurped' \/ refused') = (usurped \/ refused) /\ result' = result
        /\ pc[c] = "release" /\ pc' = [pc EXCEPT ![c] = Outcome(c)]
    BY <1>t, <1>4 DEF Release, RemoveLock
  <2>2. CASE result[c] = "changed"
    <3>1. c \in file
      BY <1>4, <2>1, <2>2 DEF KnowsFile
    <3>2. {d \in Calls : pc'[d] = "done" /\ result'[d] = "changed"}
          = {d \in Calls : pc[d] = "done" /\ result[d] = "changed"} \cup {c}
      BY <1>t, <2>1, <2>2 DEF Outcome
    <3>3. QED BY <1>4, <2>1, <3>1, <3>2 DEF Abstract!PNext, Abstract!Ack
  <2>3. CASE result[c] # "changed"
    <3>1. {d \in Calls : pc'[d] = "done" /\ result'[d] = "changed"}
          = {d \in Calls : pc[d] = "done" /\ result[d] = "changed"}
      BY <1>t, <2>1, <2>3
    <3>2. QED BY <2>1, <3>1 DEF Abstract!pvars
  <2>4. QED BY <2>2, <2>3
<1>5. usurped \/ refused => usurped' \/ refused'
  BY <1>t DEF FileNext, Call, Step, Begin, CreateLock, CreateFails, FindLock, JudgeStale, Retry, TimeOut,
     GiveUp, RemoveStale, RemoveLock, WaitFails, Read, NothingToWrite, FileFails, Rename,
     RenameRefused, Release, Crash, FileTick, fileVars
<1>6. ASSUME NEW c \in Calls, Call(c) \/ Step(c), ~usurped', ~refused'
      PROVE  Abstract!PNext \/ UNCHANGED Abstract!pvars
  <2> USE <1>t, <1>2, <1>6
  <2>1. CASE Call(c) \/ Begin(c) \/ FindLock(c) \/ JudgeStale(c) \/ Retry(c) \/ Read(c)
    BY <2>1 DEF Call, Begin, FindLock, JudgeStale, Retry, Read
  <2>2. CASE CreateLock(c) \/ CreateFails(c)
    BY <2>2 DEF CreateLock, CreateFails
  <2>3. CASE TimeOut(c) \/ WaitFails(c)
    BY <2>3 DEF TimeOut, WaitFails, GiveUp, Waiting
  <2>4. CASE RemoveStale(c)
    BY <1>5, <2>4 DEF RemoveStale, RemoveLock
  <2>5. CASE NothingToWrite(c) \/ FileFails(c)
    BY <2>5 DEF NothingToWrite, FileFails
  <2>6. CASE Rename(c) \/ Release(c)
    BY <1>3, <1>4, <1>5, <2>6
  <2>7. CASE RenameRefused(c)
    BY <2>7 DEF RenameRefused
  <2>8. QED BY <2>1, <2>2, <2>3, <2>4, <2>5, <2>6, <2>7 DEF Step
<1>7. ASSUME NEW p \in Processes, Crash(p)
      PROVE  Abstract!PNext \/ UNCHANGED Abstract!pvars
  <2>1. \A c \in Calls : /\ pc'[c] = IF Running(c, p) THEN "failed" ELSE pc[c]
                         /\ result'[c] = IF Running(c, p) THEN "failed" ELSE result[c]
    BY <1>7 DEF Crash
  <2>2. \A c \in Calls : Running(c, p) => pc[c] # "done"
    BY DEF Running, Ended
  <2>3. \A c \in Calls : /\ pc'[c] = "done" <=> pc[c] = "done"
                         /\ pc[c] = "done" => result'[c] = result[c]
    BY <2>1, <2>2
  <2>4. file' = file /\ usurped' = usurped /\ refused' = refused
    BY <1>7 DEF Crash
  <2>5. QED BY <1>2, <2>3, <2>4
<1>8. CASE FileTick \/ UNCHANGED fileVars
  BY <1>2, <1>8 DEF FileTick, fileVars
<1>9. QED BY <1>1, <1>6, <1>7, <1>8 DEF FileNext

-------------------------------------------------------------------------------
(* Every state of the file and its users has its types.                      *)
THEOREM FileTypes == FileSpec => []FileTypeOK
<1>1. FileSpec => []Types
  BY TypesInit, TypesNext, PTL DEF FileSpec
<1>2. Types => FileTypeOK
  BY DEF Types
<1>3. QED BY <1>1, <1>2, PTL

(* Two operations never work on the registry at once while no working holder *)
(* has lost its lock file (access-store.ts:110, 125).                        *)
THEOREM HoldersExclude == FileSpec => []OneHolder
<1>1. FileSpec => []FileTypeOK
  BY FileTypes
<1>2. FileSpec => []HolderHasLock
  BY <1>1, HolderInit, HolderNext, PTL DEF FileSpec
<1>3. QED BY <1>2, HolderIsOne, PTL

(* The file implements the atomic registry: an operation replaces what it    *)
(* read by what it read and its change, and nothing that was reported        *)
(* successful is lost (access-store.ts:144-187).                             *)
THEOREM FileKeepsPromise == FileSpec => KeepsPromise
<1>1. FileSpec => []FileTypeOK
  BY FileTypes
<1>2. FileSpec => []HolderHasLock
  BY <1>1, HolderInit, HolderNext, PTL DEF FileSpec
<1>3. FileSpec => []KnowsFile
  BY <1>1, <1>2, KnowsInit, KnowsNext, PTL DEF FileSpec
<1>4. FileInit => Abstract!PInit
  BY DEF FileInit, Abstract!PInit
<1>5. QED
  BY <1>1, <1>3, <1>4, StepKeepsPromise, PTL DEF FileSpec, KeepsPromise, Abstract!Promise
================================================================================
