-------------------------- MODULE SessionStartProofs --------------------------
(***************************************************************************)
(* The startup queue for any number of hosts, reservations, claims and     *)
(* restarts: a turn is sent at most once and stays visible, unless a claim *)
(* overtakes a submission, and the reports in the queue are true.          *)
(***************************************************************************)
EXTENDS SessionStart, FiniteSetTheorems, TLAPS

(* A statement saw only jobs that may be claimed.                          *)
SnapshotsClaimable ==
  \A s \in statements : \A r \in DOMAIN s.seen :
    s.seen[r] # Null => s.seen[r].status \in {"claimed", "retry"}

(* The tokens of running tasks are claims of the job, each held by one host *)
(* at most.                                                                *)
TokensIssued ==
  \A h \in Hosts, r \in Reservations :
    task[h][r] # Idle => job[r] # Null /\ task[h][r].token <= job[r].token

TokensUnique ==
  \A g, h \in Hosts, r \in Reservations :
    /\ task[g][r] # Idle /\ task[h][r] # Idle
    /\ task[g][r].token = task[h][r].token
    => g = h

(* A host about to send holds the job, marked submitting, and nobody has   *)
(* sent yet.                                                               *)
SenderHoldsJob ==
  \A h \in Hosts, r \in Reservations \ overtaken :
    At(h, r, "send") => /\ job[r].status = "submitting"
                        /\ job[r].token = task[h][r].token
                        /\ sent[r] = {}

(* What a task past its submission has seen of the provider.               *)
TasksHold ==
  \A h \in Hosts, r \in Reservations :
    /\ \/ At(h, r, "ack") \/ At(h, r, "poll") \/ At(h, r, "complete")
       => task[h][r].token \in sent[r]
    /\ At(h, r, "complete") => task[h][r].token \in completed[r]

IInv ==
  /\ TypeOK
  /\ SnapshotsClaimable
  /\ TokensIssued
  /\ TokensUnique
  /\ SenderHoldsJob
  /\ SentStaysVisible
  /\ AtMostOneTurnUnlessOvertaken
  /\ TasksHold
  /\ ReportsHold

-----------------------------------------------------------------------------
LEMMA InitIInv == Init => IInv
BY DEF Init, IInv, TypeOK, SnapshotsClaimable, TokensIssued, TokensUnique,
       SenderHoldsJob, SentStaysVisible, AtMostOneTurnUnlessOvertaken,
       TasksHold, ReportsHold, Task, Idle, At

LEMMA GotoShape ==
  ASSUME TypeOK, NEW h \in Hosts, NEW r \in Reservations,
         NEW step \in Steps \cup {"idle"}, Goto(h, r, step)
  PROVE  /\ task' \in [Hosts -> [Reservations -> Task]]
         /\ \A g \in Hosts, q \in Reservations :
              ~(g = h /\ q = r) => task'[g][q] = task[g][q]
         /\ IF step = "idle" THEN task'[h][r] = Idle
            ELSE /\ task'[h][r].step = step
                 /\ task'[h][r].token = task[h][r].token
<1>. DEFINE new == IF step = "idle" THEN Idle ELSE [task[h][r] EXCEPT !.step = step]
<1>1. task[h][r] \in Task
  BY DEF TypeOK
<1>2. /\ new \in Task
      /\ IF step = "idle" THEN new = Idle
         ELSE new.step = step /\ new.token = task[h][r].token
  BY <1>1 DEF Task, Idle, Steps
<1>3. task' = [task EXCEPT ![h] = [task[h] EXCEPT ![r] = new]]
  BY DEF Goto
<1>. HIDE DEF new
<1>4. QED
  BY <1>2, <1>3 DEF TypeOK

(* A step that keeps every job's token and gives no task a new one.        *)
LEMMA TokensKept ==
  ASSUME IInv,
         \A q \in Reservations :
           job[q] # Null => job'[q] # Null /\ job'[q].token = job[q].token,
         \A g \in Hosts, q \in Reservations :
           \/ task'[g][q] = Idle
           \/ task[g][q] # Idle /\ task'[g][q].token = task[g][q].token
  PROVE  TokensIssued' /\ TokensUnique'
BY DEF IInv, TokensIssued, TokensUnique

LEMMA UpdateShape ==
  ASSUME IInv, NEW h \in Hosts, NEW r \in Reservations, NEW status \in Statuses,
         NEW next \in Steps \cup {"idle"}, NEW failed \in Steps \cup {"idle"},
         task[h][r] # Idle,
         Update(h, r, status, next, failed)
  PROVE  /\ UNCHANGED <<granted, statements, sent, completed, now, crashes,
                        overtaken>>
         /\ job' \in [Reservations -> Job \cup {Null}]
         /\ \A q \in Reservations \ {r} : job'[q] = job[q]
         /\ job'[r] # job[r] =>
              /\ Accepts(r, task[h][r].token, status)
              /\ job'[r] # Null /\ job'[r].status = status
              /\ job'[r].token = job[r].token
         /\ \A q \in Reservations :
              job[q] # Null => job'[q] # Null /\ job'[q].token = job[q].token
         /\ Goto(h, r, next) \/ Goto(h, r, failed)
<1>1. job \in [Reservations -> Job \cup {Null}] /\ now \in Nat
  BY DEF IInv, TypeOK
<1>2. job' = job \/ job' = Written(r, task[h][r].token, status)
  BY DEF Update
<1>3. Goto(h, r, next) \/ Goto(h, r, failed)
  BY DEF Update
<1>4. UNCHANGED <<granted, statements, sent, completed, now, crashes, overtaken>>
  BY DEF Update, provider
<1>5. CASE job' = job
  BY <1>1, <1>3, <1>4, <1>5
<1>6. CASE job' # job
  <2>1. Accepts(r, task[h][r].token, status) /\ job[r] # Null
    BY <1>1, <1>2, <1>6 DEF Written, Accepts
  <2>. DEFINE new == [job[r] EXCEPT !.status = status, !.updatedAt = now]
  <2>2. job[r] \in Job
    BY <1>1, <2>1
  <2>3. new \in Job /\ new.status = status /\ new.token = job[r].token
    BY <1>1, <2>2 DEF Job
  <2>4. job' = [job EXCEPT ![r] = new]
    BY <1>2, <1>6, <2>1 DEF Written
  <2>. HIDE DEF new
  <2>5. new # Null
    BY <2>3, NullAssumption
  <2>6. QED
    BY <1>1, <1>3, <1>4, <2>1, <2>3, <2>4, <2>5
<1>7. QED
  BY <1>5, <1>6

(* After a step of start(), the other tasks stand where they stood.        *)
LEMMA MoveShape ==
  ASSUME IInv, NEW h \in Hosts, NEW r \in Reservations,
         NEW step \in Steps \cup {"idle"}, Goto(h, r, step),
         task[h][r] # Idle
  PROVE  /\ task' \in [Hosts -> [Reservations -> Task]]
         /\ \A g \in Hosts, q \in Reservations :
              \/ task'[g][q] = Idle
              \/ task[g][q] # Idle /\ task'[g][q].token = task[g][q].token
         /\ \A g \in Hosts, q \in Reservations :
              ~(g = h /\ q = r) => task'[g][q] = task[g][q]
         /\ task'[h][r] # Idle => /\ task'[h][r].step = step
                                 /\ task'[h][r].token = task[h][r].token
<1>1. TypeOK
  BY DEF IInv
<1>2. /\ task' \in [Hosts -> [Reservations -> Task]]
      /\ \A g \in Hosts, q \in Reservations :
           ~(g = h /\ q = r) => task'[g][q] = task[g][q]
      /\ IF step = "idle" THEN task'[h][r] = Idle
         ELSE /\ task'[h][r].step = step
              /\ task'[h][r].token = task[h][r].token
  BY <1>1, GotoShape
<1>3. ASSUME NEW g \in Hosts, NEW q \in Reservations
      PROVE  \/ task'[g][q] = Idle
             \/ task[g][q] # Idle /\ task'[g][q].token = task[g][q].token
  <2>1. CASE g = h /\ q = r
    BY <1>2, <2>1
  <2>2. CASE ~(g = h /\ q = r)
    BY <1>2, <2>2
  <2>3. QED
    BY <2>1, <2>2
<1>4. QED
  BY <1>2, <1>3

(* The calls other than the one that marks a job submitting.               *)
LEMMA UpdatePreserves ==
  ASSUME IInv, NEW h \in Hosts, NEW r \in Reservations,
         NEW status \in Statuses \ {"submitting", "claimed"},
         NEW next \in {"poll", "idle", "uncertain", "retry"},
         NEW failed \in {"idle", "uncertain", "retry"},
         task[h][r] # Idle,
         Update(h, r, status, next, failed),
         next = "poll" \/ status = "submitted" => task[h][r].token \in sent[r],
         status = "completed" => task[h][r].token \in completed[r]
  PROVE  IInv'
<1>. DEFINE token == task[h][r].token
<1>1. /\ UNCHANGED <<granted, statements, sent, completed, now, crashes, overtaken>>
      /\ job' \in [Reservations -> Job \cup {Null}]
      /\ \A q \in Reservations \ {r} : job'[q] = job[q]
      /\ job'[r] # job[r] =>
           /\ Accepts(r, token, status)
           /\ job'[r] # Null /\ job'[r].status = status
           /\ job'[r].token = job[r].token
      /\ \A q \in Reservations :
           job[q] # Null => job'[q] # Null /\ job'[q].token = job[q].token
      /\ Goto(h, r, next) \/ Goto(h, r, failed)
  BY UpdateShape DEF Steps
<1>2. PICK step \in {next, failed} : Goto(h, r, step)
  BY <1>1
<1>3. /\ task' \in [Hosts -> [Reservations -> Task]]
      /\ \A g \in Hosts, q \in Reservations :
           \/ task'[g][q] = Idle
           \/ task[g][q] # Idle /\ task'[g][q].token = task[g][q].token
      /\ \A g \in Hosts, q \in Reservations :
           ~(g = h /\ q = r) => task'[g][q] = task[g][q]
      /\ task'[h][r] # Idle => task'[h][r].step = step /\ task'[h][r].token = token
  BY <1>2, MoveShape DEF Steps
<1>4. TypeOK' /\ SnapshotsClaimable'
  BY <1>1, <1>3 DEF IInv, TypeOK, SnapshotsClaimable
<1>5. TokensIssued' /\ TokensUnique'
  BY <1>1, <1>3, TokensKept
<1>6. SenderHoldsJob'
  <2>. SUFFICES ASSUME NEW g \in Hosts, NEW q \in Reservations \ overtaken',
                       At(g, q, "send")'
                PROVE  /\ job'[q].status = "submitting"
                       /\ job'[q].token = task'[g][q].token
                       /\ sent'[q] = {}
    BY DEF SenderHoldsJob
  <2>1. ~(g = h /\ q = r)
    BY <1>3 DEF At
  <2>2. At(g, q, "send") /\ task'[g][q] = task[g][q]
    BY <1>3, <2>1 DEF At
  <2>3. /\ job[q].status = "submitting" /\ job[q].token = task[g][q].token
        /\ sent[q] = {}
    BY <1>1, <2>2 DEF IInv, SenderHoldsJob
  <2>4. job'[q] = job[q]
    <3>1. CASE q # r
      BY <1>1, <3>1
    <3>2. CASE q = r /\ job'[r] # job[r]
      <4>1. job[r].token = token
        BY <1>1, <3>2 DEF Accepts
      <4>2. g = h
        BY <2>2, <2>3, <3>2, <4>1 DEF IInv, TokensUnique, At
      <4>3. QED
        BY <2>1, <3>2, <4>2
    <3>3. QED
      BY <3>1, <3>2
  <2>5. QED
    BY <1>1, <2>2, <2>3, <2>4
<1>7. SentStaysVisible'
  <2>. SUFFICES ASSUME NEW q \in Reservations \ overtaken', sent'[q] # {}
                PROVE  job'[q] # Null /\ job'[q].status \notin {"claimed", "retry"}
    BY DEF SentStaysVisible
  <2>1. job[q] # Null /\ job[q].status \notin {"claimed", "retry"}
    BY <1>1 DEF IInv, SentStaysVisible
  <2>2. CASE job'[q] = job[q]
    BY <2>1, <2>2
  <2>3. CASE job'[q] # job[q]
    BY <1>1, <2>1, <2>3 DEF Accepts, Follows, Statuses
  <2>4. QED
    BY <2>2, <2>3
<1>8. AtMostOneTurnUnlessOvertaken'
  BY <1>1 DEF IInv, AtMostOneTurnUnlessOvertaken
<1>9. TasksHold'
  <2>. SUFFICES ASSUME NEW g \in Hosts, NEW q \in Reservations
                PROVE  /\ \/ At(g, q, "ack")' \/ At(g, q, "poll")'
                          \/ At(g, q, "complete")'
                          => task'[g][q].token \in sent'[q]
                       /\ At(g, q, "complete")' => task'[g][q].token \in completed'[q]
    BY DEF TasksHold
  <2>1. CASE g = h /\ q = r
    BY <1>1, <1>3, <2>1 DEF At
  <2>2. CASE ~(g = h /\ q = r)
    BY <1>1, <1>3, <2>2 DEF At, IInv, TasksHold
  <2>3. QED
    BY <2>1, <2>2
<1>10. ReportsHold'
  BY <1>1 DEF IInv, ReportsHold, Accepts
<1>11. QED
  BY <1>4, <1>5, <1>6, <1>7, <1>8, <1>9, <1>10 DEF IInv

LEMMA SubmitPreserves ==
  ASSUME IInv, NEW h \in Hosts, NEW r \in Reservations, Submit(h, r)
  PROVE  IInv'
<1>. DEFINE token == task[h][r].token
            next == IF Accepts(r, token, "submitting") THEN "send" ELSE "idle"
<1>0. At(h, r, "submit") /\ task[h][r] # Idle
  BY DEF Submit, At
<1>1. /\ UNCHANGED <<granted, statements, sent, completed, now, crashes, overtaken>>
      /\ job' \in [Reservations -> Job \cup {Null}]
      /\ \A q \in Reservations \ {r} : job'[q] = job[q]
      /\ job'[r] # job[r] =>
           /\ Accepts(r, token, "submitting")
           /\ job'[r] # Null /\ job'[r].status = "submitting"
           /\ job'[r].token = job[r].token
      /\ \A q \in Reservations :
           job[q] # Null => job'[q] # Null /\ job'[q].token = job[q].token
  <2>1. Update(h, r, "submitting", next, "retry")
    BY DEF Submit
  <2>2. "submitting" \in Statuses /\ next \in Steps \cup {"idle"}
        /\ "retry" \in Steps \cup {"idle"}
    BY DEF Statuses, Steps
  <2>. HIDE DEF next
  <2>3. QED
    BY <1>0, <2>1, <2>2, UpdateShape
<1>2. PICK step \in {"send", "idle", "retry"} :
        /\ Goto(h, r, step)
        /\ step = "send" => /\ Accepts(r, token, "submitting")
                            /\ job' = Written(r, token, "submitting")
  BY DEF Submit, Update
<1>3. /\ task' \in [Hosts -> [Reservations -> Task]]
      /\ \A g \in Hosts, q \in Reservations :
           \/ task'[g][q] = Idle
           \/ task[g][q] # Idle /\ task'[g][q].token = task[g][q].token
      /\ \A g \in Hosts, q \in Reservations :
           ~(g = h /\ q = r) => task'[g][q] = task[g][q]
      /\ task'[h][r] # Idle => task'[h][r].step = step /\ task'[h][r].token = token
  BY <1>0, <1>2, MoveShape DEF Steps
<1>4. TypeOK' /\ SnapshotsClaimable'
  BY <1>1, <1>3 DEF IInv, TypeOK, SnapshotsClaimable
<1>5. TokensIssued' /\ TokensUnique'
  BY <1>1, <1>3, TokensKept
<1>6. Accepts(r, token, "submitting") /\ r \notin overtaken => sent[r] = {}
  BY DEF Accepts, Follows, IInv, SentStaysVisible
<1>7. step = "send" => job'[r].status = "submitting" /\ job'[r].token = token
  <2>. HAVE step = "send"
  <2>1. Accepts(r, token, "submitting") /\ job' = Written(r, token, "submitting")
    BY <1>2
  <2>2. job[r] \in Job /\ job[r].token = token
    BY <2>1 DEF Accepts, IInv, TypeOK
  <2>3. job'[r] = [job[r] EXCEPT !.status = "submitting", !.updatedAt = now]
    BY <2>1 DEF Written, IInv, TypeOK
  <2>4. QED
    BY <2>2, <2>3 DEF Job
<1>8. SenderHoldsJob'
  <2>. SUFFICES ASSUME NEW g \in Hosts, NEW q \in Reservations \ overtaken',
                       At(g, q, "send")'
                PROVE  /\ job'[q].status = "submitting"
                       /\ job'[q].token = task'[g][q].token
                       /\ sent'[q] = {}
    BY DEF SenderHoldsJob
  <2>1. CASE g = h /\ q = r
    BY <1>1, <1>2, <1>3, <1>6, <1>7, <2>1 DEF At
  <2>2. CASE ~(g = h /\ q = r)
    <3>1. At(g, q, "send") /\ task'[g][q] = task[g][q]
      BY <1>3, <2>2 DEF At
    <3>2. /\ job[q].status = "submitting" /\ job[q].token = task[g][q].token
          /\ sent[q] = {}
      BY <1>1, <3>1 DEF IInv, SenderHoldsJob
    <3>3. job'[q] = job[q]
      BY <1>1, <3>2 DEF Accepts, Follows
    <3>4. QED
      BY <1>1, <3>1, <3>2, <3>3
  <2>3. QED
    BY <2>1, <2>2
<1>9. SentStaysVisible'
  <2>1. ASSUME NEW q \in Reservations \ overtaken', sent'[q] # {}
        PROVE  job'[q] # Null /\ job'[q].status \notin {"claimed", "retry"}
    BY <1>1, <2>1 DEF IInv, SentStaysVisible
  <2>2. QED
    BY <2>1 DEF SentStaysVisible
<1>10. AtMostOneTurnUnlessOvertaken'
  BY <1>1 DEF IInv, AtMostOneTurnUnlessOvertaken
<1>11. TasksHold'
  <2>. SUFFICES ASSUME NEW g \in Hosts, NEW q \in Reservations
                PROVE  /\ \/ At(g, q, "ack")' \/ At(g, q, "poll")'
                          \/ At(g, q, "complete")'
                          => task'[g][q].token \in sent'[q]
                       /\ At(g, q, "complete")' => task'[g][q].token \in completed'[q]
    BY DEF TasksHold
  <2>1. CASE g = h /\ q = r
    BY <1>1, <1>3, <2>1 DEF At
  <2>2. CASE ~(g = h /\ q = r)
    BY <1>1, <1>3, <2>2 DEF At, IInv, TasksHold
  <2>3. QED
    BY <2>1, <2>2
<1>12. ReportsHold'
  BY <1>1 DEF IInv, ReportsHold, Accepts
<1>13. QED
  BY <1>4, <1>5, <1>8, <1>9, <1>10, <1>11, <1>12 DEF IInv

(* Prepare and Poll only move the task.                                    *)
LEMMA MovePreserves ==
  ASSUME IInv, NEW h \in Hosts, NEW r \in Reservations,
         NEW step \in {"submit", "retry", "uncertain", "complete"},
         Goto(h, r, step), task[h][r] # Idle,
         UNCHANGED <<job, granted, statements, sent, completed, now, crashes,
                     overtaken>>,
         step = "complete" => task[h][r].token \in sent[r] \cap completed[r]
  PROVE  IInv'
<1>1. /\ task' \in [Hosts -> [Reservations -> Task]]
      /\ \A g \in Hosts, q \in Reservations :
           \/ task'[g][q] = Idle
           \/ task[g][q] # Idle /\ task'[g][q].token = task[g][q].token
      /\ \A g \in Hosts, q \in Reservations :
           ~(g = h /\ q = r) => task'[g][q] = task[g][q]
      /\ task'[h][r] # Idle => /\ task'[h][r].step = step
                              /\ task'[h][r].token = task[h][r].token
  BY MoveShape DEF Steps
<1>2. TypeOK' /\ SnapshotsClaimable'
  BY <1>1 DEF IInv, TypeOK, SnapshotsClaimable
<1>3. TokensIssued' /\ TokensUnique'
  BY <1>1, TokensKept
<1>4. SenderHoldsJob'
  BY <1>1 DEF IInv, SenderHoldsJob, At
<1>5. SentStaysVisible' /\ AtMostOneTurnUnlessOvertaken' /\ ReportsHold'
  BY DEF IInv, SentStaysVisible, AtMostOneTurnUnlessOvertaken, ReportsHold
<1>6. TasksHold'
  BY <1>1 DEF IInv, TasksHold, At
<1>7. QED
  BY <1>2, <1>3, <1>4, <1>5, <1>6 DEF IInv

LEMMA SendPreserves ==
  ASSUME IInv, NEW h \in Hosts, NEW r \in Reservations, Send(h, r)
  PROVE  IInv'
<1>. DEFINE token == task[h][r].token
<1>1. /\ At(h, r, "send") /\ task[h][r] # Idle
      /\ UNCHANGED <<job, granted, statements, completed, now, crashes, overtaken>>
  BY DEF Send, At, database
<1>2. PICK step \in {"ack", "uncertain"} :
        /\ Goto(h, r, step)
        /\ \/ sent' = [sent EXCEPT ![r] = @ \cup {token}]
           \/ sent' = sent /\ step # "ack"
  BY DEF Send
<1>3. /\ task' \in [Hosts -> [Reservations -> Task]]
      /\ \A g \in Hosts, q \in Reservations :
           \/ task'[g][q] = Idle
           \/ task[g][q] # Idle /\ task'[g][q].token = task[g][q].token
      /\ \A g \in Hosts, q \in Reservations :
           ~(g = h /\ q = r) => task'[g][q] = task[g][q]
      /\ task'[h][r] # Idle => task'[h][r].step = step /\ task'[h][r].token = token
  BY <1>1, <1>2, MoveShape DEF Steps
<1>4. sent \in [Reservations -> SUBSET Nat] /\ token \in Nat
  BY DEF IInv, TypeOK, Task
<1>5. /\ sent' \in [Reservations -> SUBSET Nat]
      /\ \A q \in Reservations \ {r} : sent'[q] = sent[q]
      /\ sent'[r] \in {sent[r], sent[r] \cup {token}}
      /\ step = "ack" => token \in sent'[r]
      /\ \A q \in Reservations : sent[q] \subseteq sent'[q]
  BY <1>2, <1>4
<1>6. r \notin overtaken => /\ job[r] # Null /\ job[r].status = "submitting"
                            /\ job[r].token = token /\ sent[r] = {}
  BY <1>1 DEF IInv, SenderHoldsJob, TokensIssued
<1>7. TypeOK' /\ SnapshotsClaimable'
  BY <1>1, <1>3, <1>5 DEF IInv, TypeOK, SnapshotsClaimable
<1>8. TokensIssued' /\ TokensUnique'
  BY <1>1, <1>3, TokensKept
<1>9. SenderHoldsJob'
  <2>. SUFFICES ASSUME NEW g \in Hosts, NEW q \in Reservations \ overtaken',
                       At(g, q, "send")'
                PROVE  /\ job'[q].status = "submitting"
                       /\ job'[q].token = task'[g][q].token
                       /\ sent'[q] = {}
    BY DEF SenderHoldsJob
  <2>1. ~(g = h /\ q = r)
    BY <1>3 DEF At
  <2>2. At(g, q, "send") /\ task'[g][q] = task[g][q]
    BY <1>3, <2>1 DEF At
  <2>3. /\ job[q].status = "submitting" /\ job[q].token = task[g][q].token
        /\ sent[q] = {}
    BY <1>1, <2>2 DEF IInv, SenderHoldsJob
  <2>4. q # r
    BY <1>1, <1>6, <2>1, <2>2, <2>3 DEF IInv, TokensUnique, At
  <2>5. QED
    BY <1>1, <1>5, <2>2, <2>3, <2>4
<1>10. SentStaysVisible'
  BY <1>1, <1>5, <1>6 DEF IInv, SentStaysVisible
<1>11. AtMostOneTurnUnlessOvertaken'
  BY <1>1, <1>5, <1>6 DEF IInv, AtMostOneTurnUnlessOvertaken
<1>12. TasksHold'
  <2>. SUFFICES ASSUME NEW g \in Hosts, NEW q \in Reservations
                PROVE  /\ \/ At(g, q, "ack")' \/ At(g, q, "poll")'
                          \/ At(g, q, "complete")'
                          => task'[g][q].token \in sent'[q]
                       /\ At(g, q, "complete")' => task'[g][q].token \in completed'[q]
    BY DEF TasksHold
  <2>1. CASE g = h /\ q = r
    BY <1>3, <1>5, <2>1 DEF At
  <2>2. CASE ~(g = h /\ q = r)
    BY <1>1, <1>3, <1>5, <2>2 DEF At, IInv, TasksHold
  <2>3. QED
    BY <2>1, <2>2
<1>13. ReportsHold'
  BY <1>1, <1>5 DEF IInv, ReportsHold, TypeOK
<1>14. QED
  BY <1>7, <1>8, <1>9, <1>10, <1>11, <1>12, <1>13 DEF IInv

(* A claim gives the jobs it writes a token above all tokens in use.       *)
LEMMA ClaimWritePreserves ==
  ASSUME IInv, NEW s \in statements, ClaimWrite(s)
  PROVE  IInv'
<1>1. PICK S \in SUBSET {r \in DOMAIN s.seen : granted[r]}, delivered \in BOOLEAN :
        /\ job' = [r \in Reservations |->
                     IF r \notin S THEN job[r]
                     ELSE [status |-> "claimed", updatedAt |-> s.at,
                           token |-> ClaimToken(r)]]
        /\ statements' = statements \ {s}
        /\ task' = IF s.host = Null \/ ~delivered THEN task
                   ELSE [task EXCEPT ![s.host] = [r \in Reservations |->
                           IF r \in S THEN [step |-> "prepare",
                                            token |-> job'[r].token]
                           ELSE Idle]]
        /\ overtaken' = overtaken \cup
             {r \in S : /\ job[r] # s.seen[r]
                       /\ job[r].status \notin {"claimed", "retry"}}
        /\ UNCHANGED <<granted, sent, completed, now, crashes>>
  BY DEF ClaimWrite, provider
<1>2. /\ TypeOK /\ s.at \in Nat /\ s.host \in Hosts \cup {Null}
      /\ S \subseteq Reservations
      /\ task \in [Hosts -> [Reservations -> Task]]
      /\ job \in [Reservations -> Job \cup {Null}]
  BY DEF IInv, TypeOK
<1>3. \A r \in Reservations :
        /\ ClaimToken(r) \in Nat \ {0}
        /\ job[r] # Null => job[r].token \in Nat /\ ClaimToken(r) > job[r].token
  BY <1>2 DEF Job, ClaimToken
<1>4. \A r \in Reservations \ S : job'[r] = job[r]
  BY <1>1
<1>5. \A r \in S : /\ job'[r] \in Job /\ job'[r] # Null
                   /\ job'[r].status = "claimed" /\ job'[r].token = ClaimToken(r)
  <2>. TAKE r \in S
  <2>. DEFINE n == [status |-> "claimed", updatedAt |-> s.at, token |-> ClaimToken(r)]
  <2>1. n \in Job /\ n.status = "claimed" /\ n.token = ClaimToken(r)
    BY <1>2, <1>3 DEF Job, Statuses
  <2>2. job'[r] = n
    BY <1>1, <1>2
  <2>. HIDE DEF n
  <2>3. QED
    BY <2>1, <2>2, NullAssumption
<1>6. \A r \in Reservations :
        job[r] # Null => /\ job[r].token \in Nat /\ job'[r] # Null
                         /\ job'[r].token \in Nat
                         /\ job'[r].token >= job[r].token
                         /\ r \in S => job'[r].token > job[r].token
  BY <1>2, <1>3, <1>4, <1>5
<1>7. \A g \in Hosts, r \in Reservations :
        \/ task'[g][r] = task[g][r]
        \/ task'[g][r] = Idle
        \/ /\ r \in S /\ g = s.host
           /\ task'[g][r] = [step |-> "prepare", token |-> ClaimToken(r)]
           /\ task'[g][r].step = "prepare" /\ task'[g][r].token = ClaimToken(r)
  BY <1>1, <1>2, <1>5
<1>8. TypeOK'
  <2>1. task' \in [Hosts -> [Reservations -> Task]]
    BY <1>1, <1>2, <1>3, <1>5 DEF Task, Idle, Steps
  <2>2. job' \in [Reservations -> Job \cup {Null}]
    BY <1>1, <1>2, <1>4, <1>5
  <2>3. QED
    BY <1>1, <1>2, <2>1, <2>2 DEF TypeOK
<1>9. SnapshotsClaimable'
  BY <1>1 DEF IInv, SnapshotsClaimable
<1>10. \A g \in Hosts, r \in Reservations :
         task[g][r] # Idle => /\ job[r] # Null
                              /\ task[g][r].token \in Nat
                              /\ task[g][r].token <= job[r].token
  BY <1>2 DEF IInv, TokensIssued, Task
<1>11. TokensIssued'
  <2>. SUFFICES ASSUME NEW g \in Hosts, NEW r \in Reservations, task'[g][r] # Idle
                PROVE  job'[r] # Null /\ task'[g][r].token <= job'[r].token
    BY DEF TokensIssued
  <2>1. CASE task'[g][r] = task[g][r]
    <3>1. /\ job[r] # Null /\ task'[g][r].token \in Nat
          /\ task'[g][r].token <= job[r].token
      BY <1>10, <2>1
    <3>2. /\ job'[r] # Null /\ job[r].token \in Nat
          /\ job'[r].token \in Nat /\ job'[r].token >= job[r].token
      BY <1>3, <1>4, <1>5, <1>6, <3>1
    <3>3. QED
      BY <3>1, <3>2
  <2>2. CASE task'[g][r] # task[g][r]
    <3>1. r \in S /\ task'[g][r].token = ClaimToken(r)
      BY <1>7, <2>2
    <3>2. QED
      BY <1>3, <1>5, <3>1
  <2>3. QED
    BY <2>1, <2>2
<1>12. TokensUnique'
  <2>. SUFFICES ASSUME NEW g \in Hosts, NEW h \in Hosts, NEW r \in Reservations,
                       task'[g][r] # Idle, task'[h][r] # Idle,
                       task'[g][r].token = task'[h][r].token
                PROVE  g = h
    BY DEF TokensUnique
  <2>1. CASE task'[g][r] = task[g][r] /\ task'[h][r] = task[h][r]
    BY <2>1 DEF IInv, TokensUnique
  <2>2. CASE task'[g][r] # task[g][r] /\ task'[h][r] # task[h][r]
    BY <1>7, <2>2
  <2>3. CASE task'[g][r] # task[g][r] /\ task'[h][r] = task[h][r]
    <3>1. r \in S /\ task'[g][r].token = ClaimToken(r)
      BY <1>7, <2>3
    <3>2. /\ job[r] # Null /\ task[h][r].token \in Nat
          /\ task[h][r].token <= job[r].token
      BY <1>10, <2>3
    <3>3. ClaimToken(r) \in Nat /\ job[r].token \in Nat /\ ClaimToken(r) > job[r].token
      BY <1>3, <1>5, <1>6, <3>1, <3>2
    <3>4. QED
      BY <2>3, <3>1, <3>2, <3>3
  <2>4. CASE task'[g][r] = task[g][r] /\ task'[h][r] # task[h][r]
    <3>1. r \in S /\ task'[h][r].token = ClaimToken(r)
      BY <1>7, <2>4
    <3>2. /\ job[r] # Null /\ task[g][r].token \in Nat
          /\ task[g][r].token <= job[r].token
      BY <1>10, <2>4
    <3>3. ClaimToken(r) \in Nat /\ job[r].token \in Nat /\ ClaimToken(r) > job[r].token
      BY <1>3, <1>5, <1>6, <3>1, <3>2
    <3>4. QED
      BY <2>4, <3>1, <3>2, <3>3
  <2>5. QED
    BY <2>1, <2>2, <2>3, <2>4
<1>13. ASSUME NEW r \in S, r \notin overtaken'
       PROVE  job[r] = Null \/ job[r].status \in {"claimed", "retry"}
  <2>1. r \in DOMAIN s.seen
    BY <1>1
  <2>2. job[r] = s.seen[r] \/ job[r].status \in {"claimed", "retry"}
    BY <1>1, <1>13
  <2>3. QED
    BY <2>1, <2>2 DEF IInv, SnapshotsClaimable
<1>14. SenderHoldsJob'
  <2>. SUFFICES ASSUME NEW g \in Hosts, NEW r \in Reservations \ overtaken',
                       At(g, r, "send")'
                PROVE  /\ job'[r].status = "submitting"
                       /\ job'[r].token = task'[g][r].token
                       /\ sent'[r] = {}
    BY DEF SenderHoldsJob
  <2>1. task'[g][r] = task[g][r] /\ At(g, r, "send")
    BY <1>7 DEF At
  <2>2. /\ job[r].status = "submitting" /\ job[r].token = task[g][r].token
        /\ sent[r] = {} /\ job[r] # Null
    BY <1>1, <2>1 DEF IInv, SenderHoldsJob, TokensIssued, At
  <2>3. r \notin S
    BY <1>13, <2>2
  <2>4. QED
    BY <1>1, <1>4, <2>1, <2>2, <2>3
<1>15. SentStaysVisible'
  <2>1. ASSUME NEW r \in Reservations \ overtaken', sent'[r] # {}
        PROVE  job'[r] # Null /\ job'[r].status \notin {"claimed", "retry"}
    <3>1. job[r] # Null /\ job[r].status \notin {"claimed", "retry"}
      BY <1>1, <2>1 DEF IInv, SentStaysVisible
    <3>2. r \notin S
      BY <1>13, <3>1
    <3>3. QED
      BY <1>4, <3>1, <3>2
  <2>2. QED
    BY <2>1 DEF SentStaysVisible
<1>16. AtMostOneTurnUnlessOvertaken'
  BY <1>1 DEF IInv, AtMostOneTurnUnlessOvertaken
<1>17. TasksHold'
  BY <1>1, <1>7 DEF IInv, TasksHold, At, Idle
<1>18. ReportsHold'
  BY <1>1, <1>4, <1>5 DEF IInv, ReportsHold
<1>19. QED
  BY <1>8, <1>9, <1>11, <1>12, <1>14, <1>15, <1>16, <1>17, <1>18 DEF IInv

LEMMA ClaimSnapshotPreserves ==
  ASSUME IInv, NEW h \in Hosts, ClaimSnapshot(h)
  PROVE  IInv'
<1>1. PICK S \in Candidates :
        statements' = statements \cup
          {[host |-> h, at |-> now, seen |-> [r \in S |-> job[r]]]}
  BY DEF ClaimSnapshot
<1>2. UNCHANGED <<job, granted, task, sent, completed, now, crashes, overtaken>>
  BY DEF ClaimSnapshot, provider
<1>3. S \subseteq Reservations /\ \A r \in S : Claimable(r)
  BY DEF Candidates
<1>. DEFINE new == [host |-> h, at |-> now, seen |-> [r \in S |-> job[r]]]
<1>4. /\ new.host = h /\ new.at = now /\ DOMAIN new.seen = S
      /\ \A r \in S : new.seen[r] = job[r]
  OBVIOUS
<1>. HIDE DEF new
<1>5. statements' = statements \cup {new}
  BY <1>1 DEF new
<1>6. TypeOK'
  BY <1>2, <1>3, <1>4, <1>5 DEF IInv, TypeOK
<1>7. SnapshotsClaimable'
  BY <1>3, <1>4, <1>5 DEF IInv, SnapshotsClaimable, Claimable
<1>8. QED
  BY <1>2, <1>6, <1>7
  DEF IInv, TokensIssued, TokensUnique, SenderHoldsJob, SentStaysVisible,
      AtMostOneTurnUnlessOvertaken, TasksHold, ReportsHold, At

LEMMA CrashPreserves ==
  ASSUME IInv, NEW h \in Hosts, Crash(h)
  PROVE  IInv'
<1>1. /\ task' = [task EXCEPT ![h] = [r \in Reservations |-> Idle]]
      /\ statements' = {[host |-> IF s.host = h THEN Null ELSE s.host,
                          at |-> s.at, seen |-> s.seen] : s \in statements}
      /\ crashes' = crashes + 1
      /\ UNCHANGED <<job, granted, sent, completed, now, overtaken>>
  BY DEF Crash, provider
<1>2. TypeOK /\ task \in [Hosts -> [Reservations -> Task]]
  BY DEF IInv, TypeOK
<1>3. /\ task' \in [Hosts -> [Reservations -> Task]]
      /\ \A g \in Hosts, r \in Reservations :
           task'[g][r] = task[g][r] \/ task'[g][r] = Idle
  BY <1>1, <1>2 DEF Task, Idle
<1>0. \A t \in statements' : \E s \in statements :
        /\ t.host \in {s.host, Null} /\ t.at = s.at /\ t.seen = s.seen
  <2>. TAKE t \in statements'
  <2>1. PICK s \in statements :
          t = [host |-> IF s.host = h THEN Null ELSE s.host,
               at |-> s.at, seen |-> s.seen]
    BY <1>1
  <2>2. t.host \in {s.host, Null} /\ t.at = s.at /\ t.seen = s.seen
    BY <2>1
  <2>3. QED
    BY <2>2
<1>4. TypeOK'
  <2>1. \A t \in statements' : /\ t.host \in Hosts \cup {Null}
                               /\ t.at \in Nat
                               /\ DOMAIN t.seen \subseteq Reservations
    BY <1>0, <1>2 DEF TypeOK
  <2>2. QED
    BY <1>1, <1>2, <1>3, <2>1 DEF TypeOK
<1>5. SnapshotsClaimable'
  BY <1>0 DEF IInv, SnapshotsClaimable
<1>6. TokensIssued' /\ TokensUnique'
  BY <1>1, <1>3, TokensKept
<1>7. SenderHoldsJob' /\ TasksHold'
  BY <1>1, <1>3 DEF IInv, SenderHoldsJob, TasksHold, At, Idle
<1>8. QED
  BY <1>1, <1>4, <1>5, <1>6, <1>7
  DEF IInv, SentStaysVisible, AtMostOneTurnUnlessOvertaken, ReportsHold

(* The clock, the provider's answers and cancellations.                    *)
LEMMA EnvironmentPreserves ==
  ASSUME IInv,
         Tick \/ \E r \in Reservations : Cancel(r) \/ TurnCompletes(r)
  PROVE  IInv'
<1>1. UNCHANGED <<job, statements, task, sent, crashes, overtaken>>
  BY DEF Tick, Cancel, TurnCompletes, database, provider
<1>2. TypeOK' /\ \A r \in Reservations : completed[r] \subseteq completed'[r]
  <2>1. CASE Tick
    BY <1>1, <2>1 DEF Tick, database, provider, IInv, TypeOK
  <2>2. ASSUME NEW r \in Reservations, Cancel(r)
        PROVE  TypeOK' /\ \A q \in Reservations : completed[q] \subseteq completed'[q]
    BY <1>1, <2>2 DEF Cancel, provider, IInv, TypeOK
  <2>3. ASSUME NEW r \in Reservations, TurnCompletes(r)
        PROVE  TypeOK' /\ \A q \in Reservations : completed[q] \subseteq completed'[q]
    <3>1. PICK t \in sent[r] : completed' = [completed EXCEPT ![r] = @ \cup {t}]
      BY <2>3 DEF TurnCompletes
    <3>2. t \in Nat /\ completed \in [Reservations -> SUBSET Nat]
      BY DEF IInv, TypeOK
    <3>3. /\ completed' \in [Reservations -> SUBSET Nat]
          /\ \A q \in Reservations : completed[q] \subseteq completed'[q]
      BY <3>1, <3>2
    <3>4. UNCHANGED <<now, granted>>
      BY <2>3 DEF TurnCompletes, database
    <3>5. QED
      BY <1>1, <3>3, <3>4 DEF IInv, TypeOK
  <2>4. QED
    BY <2>1, <2>2, <2>3
<1>3. QED
  BY <1>1, <1>2
  DEF IInv, SnapshotsClaimable, TokensIssued, TokensUnique, SenderHoldsJob,
      SentStaysVisible, AtMostOneTurnUnlessOvertaken, TasksHold, ReportsHold, At

LEMMA StartPreserves ==
  ASSUME IInv, NEW h \in Hosts, NEW r \in Reservations, Start(h, r)
  PROVE  IInv'
<1>1. CASE Prepare(h, r)
  <2>1. PICK step \in {"submit", "retry"} : Goto(h, r, step)
    BY <1>1 DEF Prepare
  <2>2. /\ task[h][r] # Idle
        /\ UNCHANGED <<job, granted, statements, sent, completed, now, crashes,
                       overtaken>>
    BY <1>1 DEF Prepare, At, database, provider
  <2>3. QED
    BY <2>1, <2>2, MovePreserves
<1>2. CASE Submit(h, r)
  BY <1>2, SubmitPreserves
<1>3. CASE Send(h, r)
  BY <1>3, SendPreserves
<1>4. CASE Ack(h, r)
  <2>1. task[h][r] # Idle /\ task[h][r].token \in sent[r]
    BY <1>4 DEF Ack, At, IInv, TasksHold
  <2>2. Update(h, r, "submitted", "poll", "uncertain")
    BY <1>4 DEF Ack
  <2>3. QED
    BY <2>1, <2>2, UpdatePreserves DEF Statuses
<1>5. CASE Poll(h, r)
  <2>1. /\ task[h][r] # Idle /\ task[h][r].token \in sent[r]
        /\ UNCHANGED <<job, granted, statements, sent, completed, now, crashes,
                       overtaken>>
    BY <1>5 DEF Poll, At, IInv, TasksHold, database, provider
  <2>2. PICK step \in {"complete", "uncertain"} :
          /\ Goto(h, r, step)
          /\ step = "complete" => task[h][r].token \in completed[r]
    BY <1>5 DEF Poll
  <2>3. QED
    BY <2>1, <2>2, MovePreserves
<1>6. CASE Complete(h, r)
  <2>1. task[h][r] # Idle /\ task[h][r].token \in completed[r]
    BY <1>6 DEF Complete, At, IInv, TasksHold
  <2>2. Update(h, r, "completed", "idle", "uncertain")
    BY <1>6 DEF Complete
  <2>3. QED
    BY <2>1, <2>2, UpdatePreserves DEF Statuses
<1>7. ASSUME NEW step \in {"retry", "uncertain"}, GiveUp(h, r, step)
      PROVE  IInv'
  <2>1. task[h][r] # Idle /\ Update(h, r, step, "idle", "idle")
    BY <1>7 DEF GiveUp, At
  <2>2. QED
    BY <2>1, UpdatePreserves DEF Statuses
<1>8. QED
  BY <1>1, <1>2, <1>3, <1>4, <1>5, <1>6, <1>7 DEF Start

LEMMA ClaimFailedPreserves ==
  ASSUME IInv, NEW s \in statements, ClaimFailed(s)
  PROVE  IInv'
<1>1. /\ statements' = statements \ {s}
      /\ UNCHANGED <<job, granted, task, sent, completed, now, crashes, overtaken>>
  BY DEF ClaimFailed, provider
<1>2. TypeOK' /\ SnapshotsClaimable'
  BY <1>1 DEF IInv, TypeOK, SnapshotsClaimable
<1>3. QED
  BY <1>1, <1>2
  DEF IInv, TokensIssued, TokensUnique, SenderHoldsJob, SentStaysVisible,
      AtMostOneTurnUnlessOvertaken, TasksHold, ReportsHold, At

-----------------------------------------------------------------------------
LEMMA NextIInv == IInv /\ [Next]_vars => IInv'
<1>. SUFFICES ASSUME IInv, [Next]_vars
              PROVE  IInv'
  OBVIOUS
<1>1. ASSUME NEW h \in Hosts, ClaimSnapshot(h)
      PROVE  IInv'
  BY <1>1, ClaimSnapshotPreserves
<1>2. ASSUME NEW h \in Hosts, NEW r \in Reservations, Start(h, r)
      PROVE  IInv'
  BY <1>2, StartPreserves
<1>3. ASSUME NEW h \in Hosts, Crash(h)
      PROVE  IInv'
  BY <1>3, CrashPreserves
<1>4. ASSUME NEW s \in statements, Claim(s)
      PROVE  IInv'
  BY <1>4, ClaimWritePreserves, ClaimFailedPreserves DEF Claim
<1>5. CASE Tick \/ \E r \in Reservations : Cancel(r) \/ TurnCompletes(r)
  BY <1>5, EnvironmentPreserves
<1>6. CASE UNCHANGED vars
  BY <1>6
  DEF vars, IInv, TypeOK, SnapshotsClaimable, TokensIssued, TokensUnique,
      SenderHoldsJob, SentStaysVisible, AtMostOneTurnUnlessOvertaken,
      TasksHold, ReportsHold, At
<1>7. QED
  BY <1>1, <1>2, <1>3, <1>4, <1>5, <1>6 DEF Next

LEMMA InvariantHolds == Spec => []IInv
BY InitIInv, NextIInv, PTL DEF Spec

-----------------------------------------------------------------------------
(* The claims being made: one of each host at most, and one of each restart *)
(* or lost connection at most that nobody waits for any more.               *)
Orphans == {s \in statements : s.host = Null}
Awaited == {s \in statements : s.host # Null}

OneClaimAHost == \A s, t \in Awaited : s.host = t.host => s = t

ClaimsInv ==
  /\ IsFiniteSet(statements)
  /\ OneClaimAHost
  /\ Cardinality(Orphans) <= crashes
  /\ ClaimsBounded

(* A set told apart by its images in a finite set is not larger.           *)
LEMMA ToldApart ==
  ASSUME NEW S, NEW T, IsFiniteSet(T), NEW f \in [S -> T],
         \A x, y \in S : f[x] = f[y] => x = y
  PROVE  IsFiniteSet(S) /\ Cardinality(S) <= Cardinality(T)
<1>1. f \in Injection(S, T)
  BY DEF Injection, IsInjective
<1>2. QED
  BY <1>1, FS_Injection

(* A host that is about to claim leaves room for its claim.                *)
LEMMA RoomForClaim ==
  ASSUME IInv, ClaimsInv, NEW h \in Hosts, \A s \in statements : s.host # h
  PROVE  Cardinality(statements) + 1 <= Cardinality(Hosts) + crashes
<1>1. IsFiniteSet(Hosts) /\ crashes \in Nat /\ Null \notin Hosts
  BY ConstantsAssumption DEF IInv, TypeOK
<1>2. /\ IsFiniteSet(Hosts \ {h})
      /\ Cardinality(Hosts \ {h}) = Cardinality(Hosts) - 1
      /\ Cardinality(Hosts) \in Nat
  BY <1>1, FS_RemoveElement, FS_CardinalityType
<1>3. IsFiniteSet(Awaited) /\ Cardinality(Awaited) <= Cardinality(Hosts \ {h})
  <2>. DEFINE f == [s \in Awaited |-> s.host]
  <2>1. f \in [Awaited -> Hosts \ {h}]
    BY DEF Awaited, IInv, TypeOK
  <2>2. \A s, t \in Awaited : f[s] = f[t] => s = t
    BY DEF ClaimsInv, OneClaimAHost
  <2>. HIDE DEF f
  <2>3. QED
    BY <1>2, <2>1, <2>2, ToldApart
<1>4. IsFiniteSet(Orphans) /\ Cardinality(Orphans) <= crashes
  BY FS_Subset DEF Orphans, ClaimsInv
<1>5. statements = Awaited \cup Orphans /\ Awaited \cap Orphans = {}
  BY DEF Awaited, Orphans
<1>6. Cardinality(statements) = Cardinality(Awaited) + Cardinality(Orphans)
  <2>1. Cardinality({}) = 0
    BY FS_EmptySet
  <2>2. Cardinality(statements)
          = Cardinality(Awaited) + Cardinality(Orphans) - Cardinality(Awaited \cap Orphans)
    BY <1>3, <1>4, <1>5, FS_Union
  <2>3. Cardinality(Awaited) \in Nat /\ Cardinality(Orphans) \in Nat
    BY <1>3, <1>4, FS_CardinalityType
  <2>4. Cardinality(Awaited \cap Orphans) = 0
    BY <1>5, <2>1
  <2>5. QED
    BY <2>2, <2>3, <2>4
<1>7. Cardinality(Awaited) \in Nat /\ Cardinality(Orphans) \in Nat
  BY <1>3, <1>4, FS_CardinalityType
<1>8. QED
  BY <1>1, <1>2, <1>3, <1>4, <1>6, <1>7

LEMMA InitClaims == Init => ClaimsInv
<1>. SUFFICES ASSUME Init PROVE ClaimsInv
  OBVIOUS
<1>1. IsFiniteSet({}) /\ Cardinality({}) = 0
  BY FS_EmptySet
<1>2. Orphans = {} /\ Awaited = {} /\ \A r \in Reservations : Claiming(r) = {}
  BY DEF Init, Orphans, Awaited, Claiming
<1>3. Cardinality(Hosts) \in Nat
  BY ConstantsAssumption, FS_CardinalityType
<1>4. \A r \in Reservations : ClaimToken(r) = 1
  BY DEF Init, ClaimToken
<1>5. ClaimsBounded
  <2>1. \A r \in Reservations : Cardinality(Claiming(r)) = 0
    BY <1>1, <1>2
  <2>2. crashes = 0 /\ MaxAttempts \in Nat \ {0}
    BY ConstantsAssumption DEF Init
  <2>3. QED
    BY <1>3, <1>4, <2>1, <2>2 DEF ClaimsBounded
<1>6. QED
  BY <1>1, <1>2, <1>5 DEF ClaimsInv, OneClaimAHost, Init

(* A step that makes no claim and gives up none.                           *)
LEMMA NoClaimMade ==
  ASSUME IInv, ClaimsInv, UNCHANGED <<statements, crashes>>,
         \A r \in Reservations : ClaimToken(r)' = ClaimToken(r)
  PROVE  ClaimsInv'
BY DEF ClaimsInv, OneClaimAHost, Awaited, Orphans, ClaimsBounded, Claiming

LEMMA StartClaims ==
  ASSUME IInv, ClaimsInv, NEW h \in Hosts, NEW r \in Reservations, Start(h, r)
  PROVE  ClaimsInv'
<1>. DEFINE Kept == /\ UNCHANGED <<statements, crashes>>
                    /\ \A q \in Reservations : ClaimToken(q)' = ClaimToken(q)
<1>1. ASSUME NEW status \in Statuses, NEW next, NEW failed, Update(h, r, status, next, failed)
      PROVE  Kept
  <2>1. job \in [Reservations -> Job \cup {Null}]
    BY DEF IInv, TypeOK
  <2>2. job' = job \/ job' = Written(r, task[h][r].token, status)
    BY <1>1 DEF Update
  <2>3. UNCHANGED <<statements, crashes>>
    BY <1>1 DEF Update
  <2>4. ASSUME NEW q \in Reservations PROVE ClaimToken(q)' = ClaimToken(q)
    <3>. DEFINE new == [job[r] EXCEPT !.status = status, !.updatedAt = now]
    <3>1. CASE job' = job
      BY <3>1 DEF ClaimToken
    <3>2. CASE job' # job
      <4>1. job[r] # Null /\ job' = [job EXCEPT ![r] = new]
        BY <2>1, <2>2, <3>2 DEF Written, Accepts
      <4>2. job[r] \in Job
        BY <2>1, <4>1
      <4>3. new \in Job /\ new.token = job[r].token
        BY <4>2 DEF Job, IInv, TypeOK
      <4>4. new # Null
        <5>. HIDE DEF new
        <5>1. QED
          BY <4>3, NullAssumption
      <4>. HIDE DEF new
      <4>5. QED
        BY <2>1, <4>1, <4>3, <4>4 DEF ClaimToken
    <3>3. QED
      BY <3>1, <3>2
  <2>5. QED
    BY <2>3, <2>4
<1>2. Kept
  <2>1. CASE Prepare(h, r) \/ Send(h, r) \/ Poll(h, r)
    <3>1. UNCHANGED <<job, statements, crashes>>
      BY <2>1 DEF Prepare, Send, Poll, database
    <3>2. QED
      BY <3>1 DEF ClaimToken
  <2>2. CASE Submit(h, r) \/ Ack(h, r) \/ Complete(h, r)
    BY <1>1, <2>2 DEF Submit, Ack, Complete, Statuses
  <2>3. CASE GiveUp(h, r, "retry") \/ GiveUp(h, r, "uncertain")
    BY <1>1, <2>3 DEF GiveUp, Statuses
  <2>4. QED
    BY <2>1, <2>2, <2>3 DEF Start
<1>3. QED
  BY <1>2, NoClaimMade

LEMMA SnapshotClaims ==
  ASSUME IInv, ClaimsInv, NEW h \in Hosts, ClaimSnapshot(h)
  PROVE  ClaimsInv'
<1>1. PICK S \in Candidates :
        statements' = statements \cup
          {[host |-> h, at |-> now, seen |-> [r \in S |-> job[r]]]}
  BY DEF ClaimSnapshot
<1>2. UNCHANGED <<job, crashes>> /\ \A s \in statements : s.host # h
  BY DEF ClaimSnapshot, Running
<1>3. S \subseteq Reservations /\ \A r \in S : Claimable(r)
  BY DEF Candidates
<1>. DEFINE new == [host |-> h, at |-> now, seen |-> [r \in S |-> job[r]]]
<1>4. new.host = h /\ DOMAIN new.seen = S
  OBVIOUS
<1>. HIDE DEF new
<1>5. statements' = statements \cup {new}
  BY <1>1 DEF new
<1>6. Null \notin Hosts /\ IsFiniteSet(Hosts) /\ Cardinality(Hosts) \in Nat
      /\ MaxAttempts \in Nat \ {0} /\ crashes \in Nat
      /\ job \in [Reservations -> Job \cup {Null}] /\ IsFiniteSet(statements)
  BY ConstantsAssumption, FS_CardinalityType DEF IInv, TypeOK, ClaimsInv
<1>7. IsFiniteSet(statements')
  BY <1>5, <1>6, FS_AddElement
<1>8. OneClaimAHost'
  BY <1>2, <1>4, <1>5 DEF ClaimsInv, OneClaimAHost, Awaited
<1>9. Cardinality(Orphans)' <= crashes'
  <2>1. Orphans' = Orphans
    BY <1>4, <1>5, <1>6 DEF Orphans
  <2>2. QED
    BY <1>2, <2>1 DEF ClaimsInv
<1>10. ASSUME NEW r \in Reservations
       PROVE  ClaimToken(r)' + Cardinality(Claiming(r))'
                <= MaxAttempts + Cardinality(Hosts) + crashes'
  <2>1. ClaimToken(r)' = ClaimToken(r)
    BY <1>2 DEF ClaimToken
  <2>2. CASE r \notin S
    <3>1. Claiming(r)' = Claiming(r)
      BY <1>4, <1>5, <2>2 DEF Claiming
    <3>2. QED
      BY <1>2, <2>1, <3>1 DEF ClaimsInv, ClaimsBounded
  <2>3. CASE r \in S
    <3>1. Claiming(r)' = Claiming(r) \cup {new}
      BY <1>4, <1>5, <2>3 DEF Claiming
    <3>2. /\ IsFiniteSet(Claiming(r)) /\ Cardinality(Claiming(r)) <= Cardinality(statements)
          /\ Cardinality(Claiming(r)) \in Nat /\ Cardinality(statements) \in Nat
      BY <1>6, FS_Subset, FS_CardinalityType DEF Claiming
    <3>3. Cardinality(Claiming(r)') <= Cardinality(Claiming(r)) + 1
          /\ Cardinality(Claiming(r)') \in Nat
      <4>1. /\ IsFiniteSet(Claiming(r) \cup {new})
            /\ Cardinality(Claiming(r) \cup {new})
                 = IF new \in Claiming(r) THEN Cardinality(Claiming(r))
                                          ELSE Cardinality(Claiming(r)) + 1
        BY <3>2, FS_AddElement
      <4>2. QED
        BY <3>1, <3>2, <4>1
    <3>4. ClaimToken(r) \in Nat /\ ClaimToken(r) <= MaxAttempts
      BY <1>3, <1>6, <2>3 DEF Claimable, ClaimToken, Job
    <3>5. Cardinality(statements) + 1 <= Cardinality(Hosts) + crashes
      BY <1>2, RoomForClaim
    <3>6. QED
      BY <1>2, <1>6, <2>1, <3>2, <3>3, <3>4, <3>5
  <2>4. QED
    BY <2>2, <2>3
<1>11. QED
  BY <1>7, <1>8, <1>9, <1>10 DEF ClaimsInv, ClaimsBounded

(* A claim ends, and has counted up the jobs it wrote.                     *)
LEMMA ClaimEnds ==
  ASSUME IInv, ClaimsInv, NEW s \in statements, Claim(s)
  PROVE  ClaimsInv'
<1>1. /\ statements' = statements \ {s} /\ crashes' = crashes
      /\ \A r \in Reservations :
           \/ ClaimToken(r)' = ClaimToken(r)
           \/ ClaimToken(r)' = ClaimToken(r) + 1 /\ s \in Claiming(r)
  <2>1. CASE ClaimFailed(s)
    BY <2>1 DEF ClaimFailed, ClaimToken
  <2>2. CASE ClaimWrite(s)
    <3>1. PICK S \in SUBSET {r \in DOMAIN s.seen : granted[r]} :
            /\ job' = [r \in Reservations |->
                         IF r \notin S THEN job[r]
                         ELSE [status |-> "claimed", updatedAt |-> s.at,
                               token |-> ClaimToken(r)]]
            /\ statements' = statements \ {s}
            /\ crashes' = crashes
      BY <2>2 DEF ClaimWrite
    <3>2. ASSUME NEW r \in Reservations
          PROVE  \/ ClaimToken(r)' = ClaimToken(r)
                 \/ ClaimToken(r)' = ClaimToken(r) + 1 /\ s \in Claiming(r)
      <4>1. CASE r \notin S
        BY <3>1, <4>1 DEF ClaimToken
      <4>2. CASE r \in S
        <5>. DEFINE new == [status |-> "claimed", updatedAt |-> s.at,
                            token |-> ClaimToken(r)]
        <5>1. new \in Job /\ new.token = ClaimToken(r)
          BY DEF IInv, TypeOK, Job, ClaimToken, Statuses
        <5>2. job'[r] = new
          BY <3>1, <4>2
        <5>. HIDE DEF new
        <5>3. job'[r] # Null /\ job'[r].token = ClaimToken(r)
          BY <5>1, <5>2, NullAssumption
        <5>4. ClaimToken(r)' = ClaimToken(r) + 1
          BY <5>3 DEF ClaimToken
        <5>5. QED
          BY <4>2, <5>4 DEF Claiming
      <4>3. QED
        BY <4>1, <4>2
    <3>3. QED
      BY <3>1, <3>2
  <2>3. QED
    BY <2>1, <2>2 DEF Claim
<1>2. /\ IsFiniteSet(statements) /\ IsFiniteSet(Orphans)
      /\ crashes \in Nat /\ MaxAttempts \in Nat /\ Cardinality(Hosts) \in Nat
  BY FS_Subset, FS_CardinalityType, ConstantsAssumption DEF IInv, TypeOK, ClaimsInv, Orphans
<1>3. IsFiniteSet(statements')
  BY <1>1, <1>2, FS_RemoveElement
<1>4. OneClaimAHost'
  BY <1>1 DEF ClaimsInv, OneClaimAHost, Awaited
<1>5. Cardinality(Orphans)' <= crashes'
  <2>1. Orphans' \in SUBSET Orphans
    BY <1>1 DEF Orphans
  <2>2. Cardinality(Orphans') <= Cardinality(Orphans) /\ IsFiniteSet(Orphans')
    BY <1>2, <2>1, FS_Subset
  <2>3. Cardinality(Orphans) \in Nat /\ Cardinality(Orphans') \in Nat
    BY <1>2, <2>2, FS_CardinalityType
  <2>4. QED
    BY <1>1, <1>2, <2>2, <2>3 DEF ClaimsInv
<1>6. ASSUME NEW r \in Reservations
      PROVE  ClaimToken(r)' + Cardinality(Claiming(r))'
               <= MaxAttempts + Cardinality(Hosts) + crashes'
  <2>1. ClaimToken(r) \in Nat /\ IsFiniteSet(Claiming(r))
        /\ ClaimToken(r) + Cardinality(Claiming(r)) <= MaxAttempts + Cardinality(Hosts) + crashes
    BY <1>2, FS_Subset DEF IInv, TypeOK, Job, ClaimToken, Claiming, ClaimsInv, ClaimsBounded
  <2>2. Claiming(r)' = Claiming(r) \ {s}
    BY <1>1 DEF Claiming
  <2>3. /\ Cardinality(Claiming(r)') = IF s \in Claiming(r) THEN Cardinality(Claiming(r)) - 1
                                       ELSE Cardinality(Claiming(r))
        /\ Cardinality(Claiming(r)) \in Nat
    BY <2>1, <2>2, FS_RemoveElement, FS_CardinalityType
  <2>4. QED
    BY <1>1, <1>2, <2>1, <2>3
<1>7. QED
  BY <1>3, <1>4, <1>5, <1>6 DEF ClaimsInv, ClaimsBounded

(* A restart leaves at most one more claim that nobody waits for.          *)
LEMMA CrashClaims ==
  ASSUME IInv, ClaimsInv, NEW h \in Hosts, Crash(h)
  PROVE  ClaimsInv'
<1>. DEFINE Left(s) == [host |-> IF s.host = h THEN Null ELSE s.host,
                        at |-> s.at, seen |-> s.seen]
            back == [t \in statements' |-> CHOOSE s \in statements : t = Left(s)]
<1>1. /\ statements' = {Left(s) : s \in statements}
      /\ crashes' = crashes + 1 /\ job' = job
  BY DEF Crash
<1>2. /\ IsFiniteSet(statements) /\ IsFiniteSet(Orphans) /\ Null \notin Hosts
      /\ crashes \in Nat /\ MaxAttempts \in Nat /\ Cardinality(Hosts) \in Nat
      /\ Cardinality(Orphans) \in Nat
  BY FS_Subset, FS_CardinalityType, ConstantsAssumption DEF IInv, TypeOK, ClaimsInv, Orphans
<1>3. \A t \in statements' : back[t] \in statements /\ t = Left(back[t])
  BY <1>1
<1>4. \A t \in statements' : /\ t.host = IF back[t].host = h THEN Null ELSE back[t].host
                             /\ t.seen = back[t].seen
  BY <1>3
<1>5. \A t, u \in statements' : back[t] = back[u] => t = u
  BY <1>3
<1>6. IsFiniteSet(statements')
  <2>1. back \in [statements' -> statements]
    BY <1>3
  <2>. HIDE DEF back
  <2>2. QED
    BY <1>2, <1>5, <2>1, ToldApart
<1>7. OneClaimAHost'
  <2>. HIDE DEF back
  <2>1. \A t \in Awaited' : back[t] \in Awaited /\ t.host = back[t].host
    BY <1>3, <1>4 DEF Awaited
  <2>2. QED
    BY <1>5, <2>1 DEF ClaimsInv, OneClaimAHost, Awaited
<1>8. Cardinality(Orphans)' <= crashes'
  <2>. DEFINE mine == {s \in Awaited : s.host = h}
              g == [t \in Orphans' |-> back[t]]
  <2>1. IsFiniteSet(mine) /\ Cardinality(mine) <= 1 /\ Cardinality(mine) \in Nat
    <3>1. CASE mine = {}
      BY <3>1, FS_EmptySet
    <3>2. CASE mine # {}
      <4>1. PICK s \in mine : TRUE
        BY <3>2
      <4>2. mine = {s}
        BY <4>1 DEF ClaimsInv, OneClaimAHost
      <4>. HIDE DEF mine
      <4>3. IsFiniteSet({s}) /\ Cardinality({s}) = 1
        BY FS_Singleton
      <4>4. QED
        BY <4>2, <4>3
    <3>3. QED
      BY <3>1, <3>2
  <2>2. /\ IsFiniteSet(Orphans \cup mine)
        /\ Cardinality(Orphans \cup mine) <= Cardinality(Orphans) + 1
        /\ Cardinality(Orphans \cup mine) \in Nat
    <3>. HIDE DEF mine
    <3>1. IsFiniteSet(Orphans \cap mine) /\ Cardinality(Orphans \cap mine) \in Nat
      BY <1>2, FS_Subset, FS_CardinalityType
    <3>2. /\ IsFiniteSet(Orphans \cup mine)
          /\ Cardinality(Orphans \cup mine)
               = Cardinality(Orphans) + Cardinality(mine) - Cardinality(Orphans \cap mine)
      BY <1>2, <2>1, FS_Union
    <3>3. Cardinality(Orphans \cup mine) \in Nat
      BY <3>2, FS_CardinalityType
    <3>4. QED
      BY <1>2, <2>1, <3>1, <3>2, <3>3
  <2>3. g \in [Orphans' -> Orphans \cup mine]
    <3>. HIDE DEF back
    <3>1. \A t \in Orphans' : back[t] \in Orphans \cup mine
      BY <1>3, <1>4 DEF Orphans, Awaited
    <3>2. QED
      BY <3>1
  <2>4. \A t, u \in Orphans' : g[t] = g[u] => t = u
    <3>. HIDE DEF back
    <3>1. QED
      BY <1>5 DEF Orphans
  <2>. HIDE DEF mine, g
  <2>5. IsFiniteSet(Orphans') /\ Cardinality(Orphans') <= Cardinality(Orphans \cup mine)
    BY <2>2, <2>3, <2>4, ToldApart
  <2>6. Cardinality(Orphans') \in Nat
    BY <2>5, FS_CardinalityType
  <2>7. QED
    BY <1>1, <1>2, <2>2, <2>5, <2>6 DEF ClaimsInv
<1>9. ASSUME NEW r \in Reservations
      PROVE  ClaimToken(r)' + Cardinality(Claiming(r))'
               <= MaxAttempts + Cardinality(Hosts) + crashes'
  <2>. DEFINE g == [t \in Claiming(r)' |-> back[t]]
  <2>1. g \in [Claiming(r)' -> Claiming(r)]
    <3>. HIDE DEF back
    <3>1. \A t \in Claiming(r)' : back[t] \in Claiming(r)
      BY <1>3, <1>4 DEF Claiming
    <3>2. QED
      BY <3>1
  <2>2. \A t, u \in Claiming(r)' : g[t] = g[u] => t = u
    <3>. HIDE DEF back
    <3>1. QED
      BY <1>5 DEF Claiming
  <2>. HIDE DEF g
  <2>3. IsFiniteSet(Claiming(r)) /\ Cardinality(Claiming(r)) \in Nat
    BY <1>2, FS_Subset, FS_CardinalityType DEF Claiming
  <2>4. IsFiniteSet(Claiming(r)') /\ Cardinality(Claiming(r)') <= Cardinality(Claiming(r))
    BY <2>1, <2>2, <2>3, ToldApart
  <2>5. Cardinality(Claiming(r)') \in Nat
    BY <2>4, FS_CardinalityType
  <2>6. ClaimToken(r)' = ClaimToken(r) /\ ClaimToken(r) \in Nat
    BY <1>1 DEF ClaimToken, IInv, TypeOK, Job
  <2>7. ClaimToken(r) + Cardinality(Claiming(r)) <= MaxAttempts + Cardinality(Hosts) + crashes
    BY DEF ClaimsInv, ClaimsBounded
  <2>8. QED
    BY <1>1, <1>2, <2>3, <2>4, <2>5, <2>6, <2>7
<1>10. QED
  BY <1>6, <1>7, <1>8, <1>9 DEF ClaimsInv, ClaimsBounded

LEMMA NextClaims == IInv /\ ClaimsInv /\ [Next]_vars => ClaimsInv'
<1>. SUFFICES ASSUME IInv, ClaimsInv, [Next]_vars
              PROVE  ClaimsInv'
  OBVIOUS
<1>1. ASSUME NEW h \in Hosts, ClaimSnapshot(h)
      PROVE  ClaimsInv'
  BY <1>1, SnapshotClaims
<1>2. ASSUME NEW h \in Hosts, NEW r \in Reservations, Start(h, r)
      PROVE  ClaimsInv'
  BY <1>2, StartClaims
<1>3. ASSUME NEW h \in Hosts, Crash(h)
      PROVE  ClaimsInv'
  BY <1>3, CrashClaims
<1>4. ASSUME NEW s \in statements, Claim(s)
      PROVE  ClaimsInv'
  BY <1>4, ClaimEnds
<1>5. CASE Tick \/ (\E r \in Reservations : Cancel(r) \/ TurnCompletes(r)) \/ UNCHANGED vars
  <2>1. UNCHANGED <<job, statements, crashes>>
    BY <1>5 DEF Tick, Cancel, TurnCompletes, vars, database
  <2>2. QED
    BY <2>1, NoClaimMade DEF ClaimToken
<1>6. QED
  BY <1>1, <1>2, <1>3, <1>4, <1>5 DEF Next

(* Every value of the queue and of the hosts' tasks has its type.          *)
THEOREM StartupTypes == Spec => []TypeOK
<1>1. IInv => TypeOK
  BY DEF IInv
<1>2. QED
  BY <1>1, InvariantHolds, PTL

(* However many hosts claim, fail and restart, the startup turn of a       *)
(* reservation is sent under one claim only, unless a claim overtook a     *)
(* submission (codex_claim_session_starts, lines 14-36).                   *)
THEOREM OneTurnPerReservation == Spec => []AtMostOneTurnUnlessOvertaken
<1>1. IInv => AtMostOneTurnUnlessOvertaken
  BY DEF IInv
<1>2. QED
  BY <1>1, InvariantHolds, PTL

(* A job whose turn may have been sent is never among those a claim takes  *)
(* (session-start.ts:24), whatever failed afterwards.                      *)
THEOREM SubmissionsStayVisible == Spec => []SentStaysVisible
<1>1. IInv => SentStaysVisible
  BY DEF IInv
<1>2. QED
  BY <1>1, InvariantHolds, PTL

(* The startup turn of a reservation is claimed beyond the limit of         *)
(* attempts only by claims that overlap: of the other hosts, and of hosts    *)
(* that have restarted or lost a connection (session_start_jobs.sql:24-28). *)
THEOREM ClaimsAreBounded == Spec => []ClaimsBounded
<1>1. Spec => []ClaimsInv
  BY InvariantHolds, InitClaims, NextClaims, PTL DEF Spec
<1>2. ClaimsInv => ClaimsBounded
  BY DEF ClaimsInv
<1>3. QED
  BY <1>1, <1>2, PTL

(* "submitted" and "completed" in the queue are true of the provider.      *)
THEOREM QueueReportsHold == Spec => []ReportsHold
<1>1. IInv => ReportsHold
  BY DEF IInv
<1>2. QED
  BY <1>1, InvariantHolds, PTL
=============================================================================
