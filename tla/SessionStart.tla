----------------------------- MODULE SessionStart -----------------------------
(***************************************************************************)
(* Startup turns of reservations: SessionStarter (server/src/              *)
(* session-start.ts) on every host, and the durable queue it claims jobs    *)
(* from, codex_claim_session_starts and codex_update_session_start          *)
(* (supabase/migrations/20260907130000_session_start_jobs.sql).             *)
(*                                                                         *)
(* A host's tick claims jobs and then runs start() for each of them at the *)
(* same time; the steps of start() below end at an await.  Every database  *)
(* call may fail before or after it took effect.  The claim is a single    *)
(* READ COMMITTED statement: it chooses the candidates in its snapshot, and *)
(* writes them later, without looking at the job again.                    *)
(***************************************************************************)
EXTENDS Integers, FiniteSets

CONSTANTS
  Hosts,         \* host agents
  Reservations,
  Null,          \* no job row; the host of a statement nobody waits for
  Starts, Ends,  \* window of each reservation
  RetryAfter,    \* 2 minutes: age at which an unsubmitted claim is retaken
  MaxAttempts,   \* 5: claims of one reservation after which none is begun
  ClaimLimit,    \* 16: reservations of one claim
  MaxTime,       \* bound: last instant of the clock
  MaxCrashes     \* bound: restarts and lost connections

ASSUME ConstantsAssumption ==
  /\ Starts \in [Reservations -> Nat] /\ Ends \in [Reservations -> Nat]
  /\ RetryAfter \in Nat /\ MaxAttempts \in Nat \ {0} /\ ClaimLimit \in Nat \ {0}
  /\ MaxTime \in Nat /\ MaxCrashes \in Nat
  /\ IsFiniteSet(Hosts) /\ Null \notin Hosts

VARIABLES
  job,         \* codex_session_starts: the row of each reservation, or Null
  granted,     \* reservations scheduled and approved
  statements,  \* claim statements that have taken their snapshot
  task,        \* where each host's start() of each reservation stands
  sent,        \* claim tokens of the startup turns the provider received
  completed,   \* those of them the provider completed
  now,
  crashes,     \* restarts of hosts and lost connections so far
  overtaken    \* history: jobs a claim took back after their submission

database == <<job, granted, statements>>
provider == <<sent, completed>>
vars == <<job, granted, statements, task, sent, completed, now, crashes,
          overtaken>>

Statuses == {"claimed", "retry", "submitting", "submitted", "completed",
             "uncertain"}
Steps    == {"prepare", "submit", "send", "ack", "poll", "complete",
             "retry", "uncertain"}
Idle     == [step |-> "idle", token |-> 0]

(* The claim token is a fresh uuid; the number of the attempt stands for it. *)
Job  == [status : Statuses, token : Nat \ {0}, updatedAt : Nat]
Task == [step : Steps \cup {"idle"}, token : Nat]

ASSUME NullAssumption == Null \notin Job

-----------------------------------------------------------------------------
Claiming(r) == {s \in statements : r \in DOMAIN s.seen}
InWindow(r) == Starts[r] <= now /\ now < Ends[r]
Running(h)  == \/ \E r \in Reservations : task[h][r] # Idle
               \/ \E s \in statements : s.host = h

ClaimableOrSubmitting(r) ==  \* mutant: a submission left behind is retried
  job[r] = Null \/ /\ job[r].status \in {"claimed", "retry", "submitting"}
                   /\ now - job[r].updatedAt > RetryAfter
                   /\ job[r].token < MaxAttempts

ClaimableOnceMore(r) ==  \* mutant: a claim too many is allowed
  job[r] = Null \/ /\ job[r].status \in {"claimed", "retry"}
                   /\ now - job[r].updatedAt > RetryAfter
                   /\ job[r].token <= MaxAttempts

Claimable(r) ==
  job[r] = Null \/ /\ job[r].status \in {"claimed", "retry"}
                   /\ now - job[r].updatedAt > RetryAfter
                   /\ job[r].token < MaxAttempts

(* The earliest ClaimLimit reservations that are in their window.          *)
Candidates ==
  LET C == {r \in Reservations : granted[r] /\ InWindow(r) /\ Claimable(r)}
  IN  {S \in SUBSET C :
         /\ IF Cardinality(C) < ClaimLimit THEN S = C
            ELSE Cardinality(S) = ClaimLimit
         /\ \A r \in S, q \in C \ S : Starts[r] <= Starts[q]}

Init ==
  /\ job = [r \in Reservations |-> Null]
  /\ granted = [r \in Reservations |-> TRUE]
  /\ statements = {}
  /\ task = [h \in Hosts |-> [r \in Reservations |-> Idle]]
  /\ sent = [r \in Reservations |-> {}]
  /\ completed = [r \in Reservations |-> {}]
  /\ now = 0 /\ crashes = 0
  /\ overtaken = {}

-----------------------------------------------------------------------------
(* The tick: claimSessionStarts.                                           *)

ClaimSnapshot(h) ==
  /\ ~Running(h)
  /\ \E S \in Candidates :
       /\ S # {}
       /\ statements' = statements \cup
            {[host |-> h, at |-> now, seen |-> [r \in S |-> job[r]]]}
  /\ UNCHANGED <<job, granted, task, provider, now, crashes, overtaken>>

ClaimToken(r) == IF job[r] = Null THEN 1 ELSE job[r].token + 1

(* The row lock rechecks the reservation if it changed, never the job: the *)
(* upsert takes whatever job it finds.  Rows that another statement may     *)
(* have locked are skipped.  The host gets the rows unless its connection   *)
(* fails or it has died.                                                   *)
ClaimWrite(s) ==
  \E S \in SUBSET {r \in DOMAIN s.seen : granted[r]}, delivered \in BOOLEAN :
    /\ \A r \in DOMAIN s.seen \ S :
         ~granted[r] \/ \E o \in statements \ {s} : r \in DOMAIN o.seen
    /\ job' = [r \in Reservations |->
                 IF r \notin S THEN job[r]
                 ELSE [status |-> "claimed", updatedAt |-> s.at,
                       token |-> ClaimToken(r)]]
    /\ statements' = statements \ {s}
    /\ task' = IF s.host = Null \/ ~delivered THEN task
               ELSE [task EXCEPT ![s.host] = [r \in Reservations |->
                       IF r \in S THEN [step |-> "prepare",
                                        token |-> job'[r].token]
                       ELSE Idle]]
    /\ overtaken' = overtaken \cup
         {r \in S : job[r] # s.seen[r] /\ job[r].status \notin {"claimed", "retry"}}
    /\ UNCHANGED <<granted, provider, now, crashes>>

ClaimFailed(s) ==
  /\ statements' = statements \ {s}
  /\ UNCHANGED <<job, granted, task, provider, now, crashes, overtaken>>

-----------------------------------------------------------------------------
(* start(), one action per await.                                          *)

At(h, r, step) == task[h][r] # Idle /\ task[h][r].step = step
Goto(h, r, step) ==
  task' = [task EXCEPT ![h][r] = IF step = "idle" THEN Idle
                                 ELSE [@ EXCEPT !.step = step]]

Follows(from, to) ==
  \/ from = "claimed" /\ to \in {"retry", "submitting"}
  \/ from = "submitting" /\ to \in {"submitted", "uncertain"}
  \/ from = "submitted" /\ to \in {"completed", "uncertain"}

AcceptsAnyToken(r, token, status) ==  \* mutant: the claim token is not checked
  /\ job[r] # Null
  /\ status = "submitting" => granted[r] /\ InWindow(r)
  /\ Follows(job[r].status, status)

(* codex_update_session_start changes one row, or none.                    *)
Accepts(r, token, status) ==
  /\ job[r] # Null /\ job[r].token = token
  /\ status = "submitting" => granted[r] /\ InWindow(r)
  /\ Follows(job[r].status, status)

Written(r, token, status) ==
  [job EXCEPT ![r] = IF Accepts(r, token, status)
                     THEN [@ EXCEPT !.status = status, !.updatedAt = now]
                     ELSE @]

(* updateSessionStart: the answer arrives, and start() goes on at `next`;  *)
(* or the call throws, with or without effect, and it goes on at `failed`.  *)
Update(h, r, status, next, failed) ==
  /\ \/ job' = Written(r, task[h][r].token, status) /\ Goto(h, r, next)
     \/ /\ job' \in {job, Written(r, task[h][r].token, status)}
        /\ Goto(h, r, failed)
  /\ UNCHANGED <<granted, statements, provider, now, crashes, overtaken>>

(* The worker is ready, a model is chosen and a thread started in time; or *)
(* one of these failed.                                                    *)
Prepare(h, r) ==
  /\ At(h, r, "prepare")
  /\ \/ now < Ends[r] /\ Goto(h, r, "submit")
     \/ Goto(h, r, "retry")
  /\ UNCHANGED <<database, provider, now, crashes, overtaken>>

(* Without the row, start() returns and sends nothing.                     *)
Submit(h, r) ==
  /\ At(h, r, "submit")
  /\ Update(h, r, "submitting",
            IF Accepts(r, task[h][r].token, "submitting") THEN "send" ELSE "idle",
            "retry")

(* turn/start: lost, rejected or acknowledged.                             *)
Send(h, r) ==
  /\ At(h, r, "send")
  /\ \/ /\ sent' = [sent EXCEPT ![r] = @ \cup {task[h][r].token}]
        /\ Goto(h, r, "ack") \/ Goto(h, r, "uncertain")
     \/ Goto(h, r, "uncertain") /\ UNCHANGED sent
  /\ UNCHANGED <<database, completed, now, crashes, overtaken>>

Ack(h, r) ==
  /\ At(h, r, "ack")
  /\ Update(h, r, "submitted", "poll", "uncertain")

(* thread/read until the turn completes; failures, errors and the deadline *)
(* all end in the catch.                                                   *)
Poll(h, r) ==
  /\ At(h, r, "poll")
  /\ \/ task[h][r].token \in completed[r] /\ Goto(h, r, "complete")
     \/ Goto(h, r, "uncertain")
  /\ UNCHANGED <<database, provider, now, crashes, overtaken>>

Complete(h, r) ==
  /\ At(h, r, "complete")
  /\ Update(h, r, "completed", "idle", "uncertain")

(* The catch: "uncertain" once the job was marked submitting.              *)
GiveUp(h, r, step) ==
  /\ step \in {"retry", "uncertain"}
  /\ At(h, r, step)
  /\ Update(h, r, step, "idle", "idle")

Start(h, r) ==
  \/ Prepare(h, r) \/ Submit(h, r) \/ Send(h, r) \/ Ack(h, r) \/ Poll(h, r)
  \/ Complete(h, r) \/ GiveUp(h, r, "retry") \/ GiveUp(h, r, "uncertain")

-----------------------------------------------------------------------------
(* The host process restarts, or loses the connection of its claim: what   *)
(* it called goes on in the database and in the provider, and nobody waits  *)
(* for it.                                                                 *)
Crash(h) ==
  /\ crashes < MaxCrashes
  /\ crashes' = crashes + 1
  /\ task' = [task EXCEPT ![h] = [r \in Reservations |-> Idle]]
  /\ statements' = {[host |-> IF s.host = h THEN Null ELSE s.host,
                      at |-> s.at, seen |-> s.seen] : s \in statements}
  /\ UNCHANGED <<job, granted, provider, now, overtaken>>

(* The user or an administrator cancels the reservation.                   *)
Cancel(r) ==
  /\ granted[r]
  /\ granted' = [granted EXCEPT ![r] = FALSE]
  /\ UNCHANGED <<job, statements, task, provider, now, crashes, overtaken>>

TurnCompletes(r) ==
  /\ \E t \in sent[r] \ completed[r] :
       completed' = [completed EXCEPT ![r] = @ \cup {t}]
  /\ UNCHANGED <<database, task, sent, now, crashes, overtaken>>

Tick ==
  /\ now < MaxTime
  /\ now' = now + 1
  /\ UNCHANGED <<database, task, provider, crashes, overtaken>>

Claim(s) == ClaimWrite(s) \/ ClaimFailed(s)

Next ==
  \/ \E h \in Hosts : \/ ClaimSnapshot(h)
                      \/ \E r \in Reservations : Start(h, r)
                      \/ Crash(h)
  \/ \E s \in statements : Claim(s)
  \/ \E r \in Reservations : Cancel(r) \/ TurnCompletes(r)
  \/ Tick

Spec == Init /\ [][Next]_vars

-----------------------------------------------------------------------------
(* Properties.                                                             *)

TypeOK ==
  /\ job \in [Reservations -> Job \cup {Null}]
  /\ granted \in [Reservations -> BOOLEAN]
  /\ \A s \in statements : /\ s.host \in Hosts \cup {Null}
                           /\ s.at \in Nat
                           /\ DOMAIN s.seen \subseteq Reservations
  /\ task \in [Hosts -> [Reservations -> Task]]
  /\ sent \in [Reservations -> SUBSET Nat]
  /\ completed \in [Reservations -> SUBSET Nat]
  /\ now \in Nat /\ crashes \in Nat
  /\ overtaken \subseteq Reservations

(* session-start.ts:22: the claims keep hosts and restarts from sending    *)
(* the startup turn of a reservation twice, but for jobs a slow claim took *)
(* back after their submission.                                            *)
AtMostOneTurnUnlessOvertaken ==
  \A r \in Reservations \ overtaken : \A t, u \in sent[r] : t = u

(* session-start.ts:24: what may have been sent stays visible, and is never *)
(* queued again: also when the host that sent it is gone.                  *)
SentStaysVisible ==
  \A r \in Reservations \ overtaken :
    sent[r] # {} => job[r] # Null /\ job[r].status \notin {"claimed", "retry"}

(* A job reported submitted had its turn accepted, one reported completed  *)
(* had it completed by the provider.                                       *)
ReportsHold ==
  \A r \in Reservations :
    job[r] # Null =>
      /\ job[r].status = "submitted" => job[r].token \in sent[r]
      /\ job[r].status = "completed" => job[r].token \in completed[r]

(* The claims of a reservation, made and being made, go beyond the limit   *)
(* that a claim checks in its snapshot only by the claims it can overlap:   *)
(* one of every other host, and one of every restart or lost connection     *)
(* (session_start_jobs.sql:24-28).                                         *)
ClaimsBounded ==
  \A r \in Reservations :
    ClaimToken(r) + Cardinality(Claiming(r)) <= MaxAttempts + Cardinality(Hosts) + crashes
=============================================================================
