------------------------- MODULE ProviderRequestProofs -------------------------
(* The responses proxy for any number of requests, parts and lost tunnels:   *)
(* what is pending is open, a request is charged at most once, a withdrawn   *)
(* token does not reach the provider, and every answer keeps the promise.    *)
EXTENDS ProviderRequest, SequenceTheorems, TLAPS

(* What a task has done by the step it is at.                                *)
TaskShape ==
  \A r \in Requests :
    /\ r \in controllers => task[r].step \in Executing
    /\ task[r].step = "metering" => r \notin aborted
    /\ metered[r] # 0 => /\ metered[r] = 1 /\ r \notin aborted
                         /\ task[r].step \in {"ending", "over"}
    /\ upstream[r].complete => task[r].step \in {"metering", "ending", "over"}
    /\ task[r].step \in {"metering", "ending"} => upstream[r].complete
    /\ task[r].step = "none" => /\ upstream[r] = [parts |-> 0, complete |-> FALSE]
                                /\ r \notin fetched

(* A token that was withdrawn stays so, and stops its request.               *)
StaleStopped ==
  \A r \in stale : /\ registry[DeviceOf[r]] = "barred" /\ r \notin fetched
                   /\ task[r].step \in {"none", "validating", "over"}

(* Nothing is asked of the host before the relay has forwarded the request,  *)
Forwarded ==
  \A r \in Requests :
    response[r].phase \in {"none", "reading"} =>
      /\ pending[r] = "absent" /\ task[r].step = "none" /\ response[r].parts = 0
      /\ \A i \in DOMAIN toHost : toHost[i] # Message("request", r)

(* it is asked once,                                                         *)
RequestedOnce ==
  \A i \in DOMAIN toHost :
    toHost[i].type = "request" =>
      /\ task[toHost[i].id].step = "none"
      /\ \A j \in DOMAIN toHost : toHost[j] = toHost[i] => j = i

(* and who answers has been asked.                                           *)
Answers == \A i \in DOMAIN toRelay : task[toRelay[i].id].step # "none"

(* What the host sends gets into the tunnel.                                 *)
Intact == link /\ tunnel # "none"

(* The head of the answer of r is in the queue q;                            *)
HeadIn(r, q) == \E j \in DOMAIN q : q[j] = Message("start", r)

(* it is there before the parts and the end.                                 *)
HeadBefore(r, q) ==
  \A i \in DOMAIN q :
    q[i] \in {Message("part", r), Message("end", r)}
      => \E j \in DOMAIN q : j < i /\ q[j] = Message("start", r)

(* Once the first i messages of q are delivered n[i] parts are written, when *)
(* p are by now: no more than the provider has sent, and all of them before  *)
(* the end.                                                                  *)
Counts(r, n, q, p, sent) ==
  /\ n[0] = p
  /\ \A i \in DOMAIN q : n[i] = n[i - 1] + (IF q[i] = Message("part", r) THEN 1 ELSE 0)
  /\ \A i \in 0..Len(q) : n[i] <= sent.parts
  /\ \A i \in DOMAIN q :
       q[i] = Message("end", r) => sent.complete /\ n[i] = sent.parts

Counted(r, q, p, sent) == \E n \in [0..Len(q) -> 0..MaxParts] : Counts(r, n, q, p, sent)

(* Nothing the provider has sent is missing from what is written and q.      *)
Whole(r, q, p, sent) ==
  \E n \in [0..Len(q) -> 0..MaxParts] : Counts(r, n, q, p, sent) /\ n[Len(q)] = sent.parts

AfterHead == {"streaming", "metering", "ending"}

HeadFirst ==
  \A r \in Requests :
    pending[r] = "waiting" =>
      /\ HeadBefore(r, toRelay)
      /\ Intact /\ task[r].step \in AfterHead => HeadIn(r, toRelay)

Accounted ==
  \A r \in Requests :
    pending[r] # "absent" =>
      /\ Counted(r, toRelay, response[r].parts, upstream[r])
      /\ Intact => Whole(r, toRelay, response[r].parts, upstream[r])

(* While the relay has no tunnel, what is pending has been asked of nobody.  *)
Unsent ==
  tunnel = "none" =>
    \A r \in Requests :
      pending[r] # "absent" =>
        /\ task[r].step = "none" /\ response[r].parts = 0
        /\ \A i \in DOMAIN toHost : toHost[i] # Message("request", r)

Tasks == TaskShape /\ StaleStopped
Asking == Forwarded /\ RequestedOnce
Answering == Answers /\ HeadFirst /\ Accounted
IInv == TypeOK /\ Tasks /\ Asking /\ Answering /\ PendingWhileOpen /\ Unsent

ToHost  == [type : {"request", "abort"}, id : Requests]
ToRelay == [type : {"start", "part", "end", "error"}, id : Requests]
Phases  == {"none", "reading", "open", "streaming", "ended"}
Answer  == [phase : Phases, parts : 0..MaxParts, how : {"unended", "whole", "cut"}]

-------------------------------------------------------------------------------
(* Queues.                                                                   *)

LEMMA Appended ==
  ASSUME NEW M, NEW q \in Seq(M), NEW m \in M
  PROVE  /\ Append(q, m) \in Seq(M) /\ Len(q) \in Nat /\ Len(Append(q, m)) = Len(q) + 1
         /\ DOMAIN q = 1..Len(q) /\ DOMAIN Append(q, m) = 1..Len(q) + 1
         /\ \A i \in 1..Len(q) : Append(q, m)[i] = q[i]
         /\ Append(q, m)[Len(q) + 1] = m
BY AppendProperties, LenProperties

LEMMA Tailed ==
  ASSUME NEW M, NEW q \in Seq(M), q # <<>>
  PROVE  /\ Tail(q) \in Seq(M) /\ Len(q) \in Nat \ {0} /\ Len(Tail(q)) = Len(q) - 1
         /\ DOMAIN q = 1..Len(q) /\ DOMAIN Tail(q) = 1..Len(q) - 1
         /\ \A i \in 1..Len(q) - 1 : Tail(q)[i] = q[i + 1]
         /\ Head(q) = q[1]
BY HeadTailProperties, LenProperties, EmptySeq

LEMMA Prefixed ==
  ASSUME NEW M, NEW q \in Seq(M), NEW p \in Prefixes(q)
  PROVE  /\ p \in Seq(M) /\ Len(q) \in Nat /\ Len(p) \in 0..Len(q)
         /\ DOMAIN q = 1..Len(q) /\ DOMAIN p = 1..Len(p)
         /\ \A i \in 1..Len(p) : p[i] = q[i]
<1>1. PICK l \in 0..Len(q) : p = SubSeq(q, 1, l)
  BY DEF Prefixes
<1>2. Len(q) \in Nat /\ DOMAIN q = 1..Len(q) /\ \A i \in 1..l : q[i] \in M
  BY LenProperties, ElementOfSeq
<1>3. /\ SubSeq(q, 1, l) \in Seq(M)
      /\ Len(SubSeq(q, 1, l)) = IF 1 <= l THEN l - 1 + 1 ELSE 0
      /\ \A i \in 1..l - 1 + 1 : SubSeq(q, 1, l)[i] = q[1 + i - 1]
  BY <1>2, SubSeqProperties
<1>4. p \in Seq(M) /\ Len(p) = l /\ \A i \in 1..l : p[i] = q[i]
  BY <1>1, <1>2, <1>3
<1>5. QED BY <1>1, <1>2, <1>4, LenProperties

LEMMA Emptied ==
  ASSUME NEW M PROVE <<>> \in Seq(M) /\ Len(<<>>) = 0 /\ DOMAIN <<>> = 1..0
BY EmptySeq, LenProperties

LEMMA Messages ==
  ASSUME NEW t, NEW r PROVE Message(t, r).type = t /\ Message(t, r).id = r
BY DEF Message

(* What happens to a queue of answers, message by message.                   *)
LEMMA HeadPrefix ==
  ASSUME NEW q \in Seq(ToRelay), NEW p \in Prefixes(q), NEW r, HeadBefore(r, q)
  PROVE  HeadBefore(r, p)
<1>1. PICK n \in Nat, m \in Nat : /\ m <= n /\ DOMAIN q = 1..n /\ DOMAIN p = 1..m
                                  /\ \A i \in 1..m : p[i] = q[i]
  BY Prefixed
<1>2. QED BY <1>1 DEF HeadBefore

LEMMA HeadTail ==
  ASSUME NEW q \in Seq(ToRelay), q # <<>>, NEW r, Head(q).id # r
  PROVE  /\ HeadBefore(r, q) => HeadBefore(r, Tail(q))
         /\ HeadIn(r, q) => HeadIn(r, Tail(q))
<1>1. PICK n \in Nat : /\ n # 0 /\ DOMAIN q = 1..n /\ DOMAIN Tail(q) = 1..(n - 1)
                       /\ \A i \in 1..(n - 1) : Tail(q)[i] = q[i + 1]
                       /\ Head(q) = q[1]
  BY Tailed
<1>2. q[1] # Message("start", r)
  BY <1>1, Messages
<1>3. \A j \in DOMAIN q : q[j] = Message("start", r)
        => j - 1 \in DOMAIN Tail(q) /\ Tail(q)[j - 1] = Message("start", r)
  BY <1>1, <1>2
<1>4. \A i \in DOMAIN Tail(q) : i + 1 \in DOMAIN q /\ q[i + 1] = Tail(q)[i]
  BY <1>1
<1>5. ASSUME HeadBefore(r, q),
             NEW i \in DOMAIN Tail(q), Tail(q)[i] \in {Message("part", r), Message("end", r)}
      PROVE  \E j \in DOMAIN Tail(q) : j < i /\ Tail(q)[j] = Message("start", r)
  <2>1. PICK j \in DOMAIN q : j < i + 1 /\ q[j] = Message("start", r)
    BY <1>4, <1>5 DEF HeadBefore
  <2>2. j - 1 < i
    BY <1>1, <2>1
  <2>3. QED BY <1>3, <2>1, <2>2
<1>6. HeadIn(r, q) => HeadIn(r, Tail(q))
  BY <1>3 DEF HeadIn
<1>7. QED BY <1>5, <1>6 DEF HeadBefore

LEMMA HeadAppend ==
  ASSUME NEW q \in Seq(ToRelay), NEW m \in ToRelay, NEW r
  PROVE  /\ HeadIn(r, q) \/ m = Message("start", r) => HeadIn(r, Append(q, m))
         /\ /\ HeadBefore(r, q)
            /\ m \in {Message("part", r), Message("end", r)} => HeadIn(r, q)
            => HeadBefore(r, Append(q, m))
<1>1. PICK n \in Nat : /\ DOMAIN q = 1..n /\ DOMAIN Append(q, m) = 1..(n + 1)
                       /\ \A i \in 1..n : Append(q, m)[i] = q[i]
                       /\ Append(q, m)[n + 1] = m
  BY Appended
<1>2. ASSUME HeadBefore(r, q), m \in {Message("part", r), Message("end", r)} => HeadIn(r, q),
             NEW i \in DOMAIN Append(q, m),
             Append(q, m)[i] \in {Message("part", r), Message("end", r)}
      PROVE  \E j \in DOMAIN Append(q, m) : j < i /\ Append(q, m)[j] = Message("start", r)
  <2>1. i \in 1..n \/ i = n + 1
    BY <1>1
  <2>2. CASE i \in 1..n
    BY <1>1, <1>2, <2>2 DEF HeadBefore
  <2>3. CASE i = n + 1
    BY <1>1, <1>2, <2>3 DEF HeadIn
  <2>4. QED BY <2>1, <2>2, <2>3
<1>3. HeadIn(r, q) => HeadIn(r, Append(q, m))
  BY <1>1 DEF HeadIn
<1>4. m = Message("start", r) => HeadIn(r, Append(q, m))
  <2>1. n + 1 \in DOMAIN Append(q, m)
    BY <1>1
  <2>2. QED BY <1>1, <2>1 DEF HeadIn
<1>5. QED BY <1>2, <1>3, <1>4 DEF HeadBefore

Sending == [parts : 0..MaxParts, complete : BOOLEAN]

LEMMA CountsKept ==
  ASSUME NEW q \in Seq(ToRelay), NEW r, NEW p, NEW u \in Sending, NEW s \in Sending,
         u.parts <= s.parts, u.complete => s = u
  PROVE  /\ Counted(r, q, p, u) => Counted(r, q, p, s)
         /\ Whole(r, q, p, u) /\ s.parts = u.parts => Whole(r, q, p, s)
<1> SUFFICES ASSUME NEW n \in [0..Len(q) -> 0..MaxParts], Counts(r, n, q, p, u)
             PROVE  Counts(r, n, q, p, s)
  BY DEF Counted, Whole
<1>1. Len(q) \in Nat /\ DOMAIN q = 1..Len(q) /\ MaxParts \in Nat
  BY LenProperties, ProviderAssumption
<1>2. \A i \in 0..Len(q) : n[i] <= s.parts
  BY <1>1 DEF Counts, Sending
<1>3. \A i \in DOMAIN q : q[i] = Message("end", r) => s.complete /\ n[i] = s.parts
  BY DEF Counts
<1>4. QED BY <1>2, <1>3 DEF Counts

LEMMA CountsPrefix ==
  ASSUME NEW q \in Seq(ToRelay), NEW a \in Prefixes(q), NEW r, NEW p, NEW u \in Sending,
         Counted(r, q, p, u)
  PROVE  Counted(r, a, p, u)
<1>1. PICK n \in [0..Len(q) -> 0..MaxParts] : Counts(r, n, q, p, u)
  BY DEF Counted
<1>2. PICK l \in Nat, k \in Nat : /\ k <= l /\ l = Len(q) /\ k = Len(a)
                                  /\ DOMAIN q = 1..l /\ DOMAIN a = 1..k
                                  /\ \A i \in 1..k : a[i] = q[i]
  BY Prefixed
<1> DEFINE m == [i \in 0..k |-> n[i]]
<1>3. m \in [0..Len(a) -> 0..MaxParts]
  BY <1>1, <1>2
<1>4. \A i \in DOMAIN a : /\ m[i] = n[i] /\ m[i - 1] = n[i - 1] /\ i \in DOMAIN q /\ a[i] = q[i]
  BY <1>2
<1>5. m[0] = n[0] /\ \A i \in 0..Len(a) : m[i] <= u.parts
  BY <1>1, <1>2 DEF Counts
<1> HIDE DEF m
<1>6. Counts(r, m, a, p, u)
  BY <1>1, <1>4, <1>5 DEF Counts
<1>7. QED BY <1>3, <1>6 DEF Counted

LEMMA CountsTail ==
  ASSUME NEW q \in Seq(ToRelay), q # <<>>, NEW r, NEW p, NEW u \in Sending, Counted(r, q, p, u)
  PROVE  LET next == p + (IF Head(q) = Message("part", r) THEN 1 ELSE 0)
         IN /\ next \in 0..MaxParts /\ next <= u.parts /\ Counted(r, Tail(q), next, u)
            /\ Whole(r, q, p, u) => Whole(r, Tail(q), next, u)
            /\ Head(q) = Message("end", r) => u.complete /\ p = u.parts
<1> DEFINE next == p + (IF Head(q) = Message("part", r) THEN 1 ELSE 0)
<1>1. PICK l \in Nat : /\ l # 0 /\ l = Len(q) /\ l - 1 = Len(Tail(q))
                       /\ DOMAIN q = 1..l /\ DOMAIN Tail(q) = 1..(l - 1)
                       /\ \A i \in 1..(l - 1) : Tail(q)[i] = q[i + 1]
                       /\ Head(q) = q[1]
  BY Tailed
<1>2. ASSUME NEW n \in [0..Len(q) -> 0..MaxParts], Counts(r, n, q, p, u)
      PROVE  /\ next \in 0..MaxParts /\ next <= u.parts
             /\ Head(q) = Message("end", r) => u.complete /\ p = u.parts
             /\ \E m \in [0..Len(Tail(q)) -> 0..MaxParts] :
                  Counts(r, m, Tail(q), next, u) /\ m[Len(Tail(q))] = n[Len(q)]
  <2> DEFINE m == [i \in 0..(l - 1) |-> n[i + 1]]
  <2>1. m \in [0..Len(Tail(q)) -> 0..MaxParts]
    BY <1>1
  <2>2. \A i \in DOMAIN Tail(q) : /\ m[i] = n[i + 1] /\ m[i - 1] = n[(i + 1) - 1]
                                 /\ i + 1 \in DOMAIN q /\ Tail(q)[i] = q[i + 1]
    BY <1>1
  <2>3. /\ m[0] = n[1] /\ n[1] \in 0..MaxParts /\ n[1] <= u.parts /\ m[l - 1] = n[l]
        /\ \A i \in 0..(l - 1) : m[i] <= u.parts
    BY <1>1, <1>2 DEF Counts
  <2>4. n[1] = next
    <3>1. 1 \in DOMAIN q /\ 1 - 1 = 0
      BY <1>1
    <3>2. n[1] = n[0] + (IF q[1] = Message("part", r) THEN 1 ELSE 0)
      BY <1>2, <3>1 DEF Counts
    <3>3. QED BY <1>1, <1>2, <3>2 DEF Counts
  <2>5. Head(q) = Message("end", r) => u.complete /\ p = u.parts
    <3>1. Head(q) = Message("end", r) => u.complete /\ n[1] = u.parts
      BY <1>1, <1>2 DEF Counts
    <3>2. Message("end", r) # Message("part", r)
      BY DEF Message
    <3>3. n[0] = p /\ p \in 0..MaxParts /\ MaxParts \in Nat
      BY <1>1, <1>2, ProviderAssumption DEF Counts
    <3>4. QED BY <2>4, <3>1, <3>2, <3>3
  <2> HIDE DEF m
  <2>6. Counts(r, m, Tail(q), n[1], u)
    <3>1. \A i \in DOMAIN Tail(q) :
            /\ m[i] = m[i - 1] + (IF Tail(q)[i] = Message("part", r) THEN 1 ELSE 0)
            /\ Tail(q)[i] = Message("end", r) => u.complete /\ m[i] = u.parts
      BY <1>2, <2>2 DEF Counts
    <3>2. QED BY <1>1, <2>3, <3>1 DEF Counts
  <2>7. m[Len(Tail(q))] = n[Len(q)]
    BY <1>1, <2>3
  <2>8. QED BY <2>1, <2>3, <2>4, <2>5, <2>6, <2>7
<1> HIDE DEF next
<1>3. /\ next \in 0..MaxParts /\ next <= u.parts /\ Counted(r, Tail(q), next, u)
      /\ Head(q) = Message("end", r) => u.complete /\ p = u.parts
  BY <1>2 DEF Counted
<1>4. Whole(r, q, p, u) => Whole(r, Tail(q), next, u)
  BY <1>2 DEF Whole
<1>5. QED BY <1>3, <1>4 DEF next

LEMMA CountsAppend ==
  ASSUME NEW q \in Seq(ToRelay), NEW x \in ToRelay, NEW r, NEW p, NEW u \in Sending, NEW s \in Sending,
         Whole(r, q, p, u), u.complete => s = u,
         s.parts = u.parts + (IF x = Message("part", r) THEN 1 ELSE 0),
         x = Message("end", r) => s.complete
  PROVE  Whole(r, Append(q, x), p, s)
<1>1. PICK n \in [0..Len(q) -> 0..MaxParts] : Counts(r, n, q, p, u) /\ n[Len(q)] = u.parts
  BY DEF Whole
<1>2. PICK l \in Nat : /\ l = Len(q) /\ l + 1 = Len(Append(q, x))
                       /\ DOMAIN q = 1..l /\ DOMAIN Append(q, x) = 1..(l + 1)
                       /\ \A i \in 1..l : Append(q, x)[i] = q[i]
                       /\ Append(q, x)[l + 1] = x
  BY Appended
<1> DEFINE m == [i \in 0..(l + 1) |-> IF i <= l THEN n[i] ELSE s.parts]
           a == Append(q, x)
<1>3. m \in [0..Len(a) -> 0..MaxParts]
  BY <1>1, <1>2 DEF Sending
<1>4. /\ \A i \in 0..l : m[i] = n[i] /\ n[i] \in 0..MaxParts
      /\ m[l + 1] = s.parts /\ n[l] = u.parts
  BY <1>1, <1>2 DEF Counts
<1> HIDE DEF m
<1>5. \A i \in 0..(l + 1) : m[i] <= s.parts
  <2>1. MaxParts \in Nat /\ s.parts \in Nat /\ u.parts \in Nat /\ u.parts <= s.parts
    BY ProviderAssumption DEF Sending
  <2>2. \A i \in 0..l : n[i] <= u.parts
    BY <1>1, <1>2 DEF Counts
  <2>3. QED BY <1>4, <2>1, <2>2
<1>6. ASSUME NEW i \in DOMAIN a
      PROVE  /\ m[i] = m[i - 1] + (IF a[i] = Message("part", r) THEN 1 ELSE 0)
             /\ a[i] = Message("end", r) => s.complete /\ m[i] = s.parts
  <2>1. CASE i \in 1..l
    <3>1. m[i] = n[i] /\ m[i - 1] = n[i - 1] /\ i \in DOMAIN q /\ a[i] = q[i]
      BY <1>2, <1>4, <2>1
    <3>2. QED BY <1>1, <3>1 DEF Counts
  <2>2. CASE i = l + 1
    <3>1. m[i] = s.parts /\ m[i - 1] = u.parts /\ a[i] = x
      BY <1>2, <1>4, <2>2
    <3>2. QED BY <3>1
  <2>3. QED BY <1>2, <2>1, <2>2
<1>7. Counts(r, m, a, p, s) /\ m[Len(a)] = s.parts
  BY <1>1, <1>2, <1>4, <1>5, <1>6 DEF Counts
<1>8. QED BY <1>3, <1>7 DEF Whole

LEMMA WholeCounted ==
  ASSUME NEW r, NEW q, NEW p, NEW u PROVE Whole(r, q, p, u) => Counted(r, q, p, u)
BY DEF Whole, Counted

-------------------------------------------------------------------------------
LEMMA InvInit == Init => IInv
<1> SUFFICES ASSUME Init PROVE IInv
  OBVIOUS
<1> USE DEF Init
<1>1. /\ toHost \in Seq(ToHost) /\ DOMAIN toHost = {}
      /\ toRelay \in Seq(ToRelay) /\ DOMAIN toRelay = {} /\ Len(toRelay) = 0
  BY Emptied
<1>2. TypeOK
  <2>1. MaxParts \in Nat /\ MaxLosses \in Nat
    BY ProviderAssumption
  <2>2. /\ toHost \in Seq([type : {"request", "abort"}, id : Requests])
        /\ toRelay \in Seq([type : {"start", "part", "end", "error"}, id : Requests])
    BY <1>1 DEF ToHost, ToRelay
  <2>3. /\ response \in [Requests -> Answer] /\ pending \in [Requests -> {"absent", "waiting", "headed"}]
        /\ task \in [Requests -> [step : Steps, retried : BOOLEAN]]
        /\ upstream \in [Requests -> [parts : 0..MaxParts, complete : BOOLEAN]]
        /\ losses \in 0..MaxLosses
    BY <2>1 DEF Answer, Phases, Steps, Idle
  <2>4. QED BY <2>2, <2>3 DEF TypeOK, Answer, Phases
<1>3. Tasks /\ Asking
  BY <1>1 DEF Tasks, TaskShape, StaleStopped, Asking, Forwarded, RequestedOnce, Idle
<1>4. Answering
  BY <1>1 DEF Answering, Answers, HeadFirst, Accounted
<1>5. PendingWhileOpen
  BY DEF PendingWhileOpen
<1>6. Unsent
  BY DEF Unsent
<1>7. QED BY <1>2, <1>3, <1>4, <1>5, <1>6 DEF IInv

(* A step of a task: what it moves, and what it sends.                       *)
Quiet(r) ==
  /\ toRelay' = toRelay
  /\ task'[r].step \in {"streaming", "metering", "ending"}
       => task[r].step \in {"streaming", "metering", "ending"}
  /\ upstream'[r].parts = upstream[r].parts
  /\ upstream[r].complete => upstream'[r] = upstream[r]

Starts(r)   == task'[r].step = "streaming" /\ Sent("start", r) /\ upstream' = upstream
Produces(r) == /\ task[r].step = "streaming" /\ task' = task /\ Sent("part", r)
               /\ ~upstream[r].complete
               /\ upstream'[r].parts = upstream[r].parts + 1
Closes(r)   == /\ task[r].step = "ending" /\ task'[r].step = "over" /\ Sent("end", r)
               /\ upstream' = upstream /\ upstream[r].complete
Fails(r)    == task'[r].step = "over" /\ Sent("error", r) /\ upstream' = upstream

LEMMA HostMoves ==
  ASSUME TypeOK, TaskShape, NEW r \in Requests, HostStep(r)
  PROVE  /\ UNCHANGED <<relay, link, losses, toHost>>
         /\ task' \in [Requests -> [step : Steps, retried : BOOLEAN]]
         /\ task[r].step \notin {"none", "over"} /\ task'[r].step # "none"
         /\ upstream' \in [Requests -> [parts : 0..MaxParts, complete : BOOLEAN]]
         /\ \A q \in Requests : q # r => task'[q] = task[q] /\ upstream'[q] = upstream[q]
         /\ Quiet(r) \/ Starts(r) \/ Produces(r) \/ Closes(r) \/ Fails(r)
<1> USE DEF At
<1>t. /\ task \in [Requests -> [step : Steps, retried : BOOLEAN]]
      /\ upstream \in [Requests -> [parts : 0..MaxParts, complete : BOOLEAN]]
      /\ MaxParts \in Nat
      /\ task[r].step = "streaming" => ~upstream[r].complete
      /\ task[r].step = "ending" => upstream[r].complete
  BY ProviderAssumption DEF TypeOK, TaskShape
<1>g. ASSUME NEW step \in Steps \ {"none"}, Go(r, step)
      PROVE  /\ task' \in [Requests -> [step : Steps, retried : BOOLEAN]]
             /\ task'[r].step = step
             /\ \A q \in Requests : q # r => task'[q] = task[q]
  BY <1>t, <1>g DEF Go
<1>1. CASE Validate(r)
  BY <1>1, <1>t, <1>g DEF Validate, Steps, Quiet, Fails
<1>2. CASE ReportError(r)
  BY <1>2, <1>t, <1>g DEF ReportError, Steps, Fails
<1>3. CASE Execute(r)
  BY <1>3, <1>t, <1>g DEF Execute, Steps, Quiet
<1>4. CASE ReadAuth(r)
  BY <1>4, <1>t, <1>g DEF ReadAuth, Steps, Quiet, Fails
<1>5. CASE Breaks(r)
  BY <1>5, <1>t, <1>g DEF Breaks, Steps, Quiet
<1>6. CASE FetchAnswers(r)
  BY <1>6, <1>t, <1>g DEF FetchAnswers, Steps, Quiet, Starts
<1>7. CASE Refreshed(r)
  <2>1. /\ task' \in [Requests -> [step : Steps, retried : BOOLEAN]]
        /\ task'[r].step \in {"auth", "rejected"}
        /\ \A q \in Requests : q # r => task'[q] = task[q]
    <3>1. CASE task' = [task EXCEPT ![r] = [step |-> "auth", retried |-> TRUE]]
      BY <1>t, <3>1 DEF Steps
    <3>2. CASE Go(r, "rejected")
      BY <1>t, <1>g, <3>2 DEF Steps
    <3>3. QED BY <1>7, <3>1, <3>2 DEF Refreshed
  <2>2. QED BY <1>7, <1>t, <2>1 DEF Refreshed, Quiet
<1>8. CASE RejectionRead(r)
  BY <1>8, <1>t, <1>g DEF RejectionRead, Steps, Quiet
<1>9. CASE ReadPart(r)
  BY <1>9, <1>t DEF ReadPart, Steps, Produces, work
<1>10. CASE StreamEnds(r)
  BY <1>10, <1>t, <1>g, ZenonT(60) DEF StreamEnds, Steps, Quiet
<1>11. CASE Meter(r)
  BY <1>11, <1>t, <1>g DEF Meter, Steps, Quiet
<1>12. CASE ReportEnd(r)
  BY <1>12, <1>t, <1>g DEF ReportEnd, Steps, Closes
<1>13. QED
  BY <1>1, <1>2, <1>3, <1>4, <1>5, <1>6, <1>7, <1>8, <1>9, <1>10, <1>11, <1>12 DEF HostStep

-------------------------------------------------------------------------------
(* Tasks.                                                                    *)

(* The part of TaskShape and StaleStopped that is about one request.         *)
Shaped(r) ==
  /\ r \in controllers => task[r].step \in Executing
  /\ task[r].step = "metering" => r \notin aborted
  /\ metered[r] # 0 => /\ metered[r] = 1 /\ r \notin aborted
                       /\ task[r].step \in {"ending", "over"}
  /\ upstream[r].complete => task[r].step \in {"metering", "ending", "over"}
  /\ task[r].step \in {"metering", "ending"} => upstream[r].complete
  /\ task[r].step = "none" => /\ upstream[r] = [parts |-> 0, complete |-> FALSE]
                              /\ r \notin fetched

Stopped(r) ==
  r \in stale => /\ registry[DeviceOf[r]] = "barred" /\ r \notin fetched
                 /\ task[r].step \in {"none", "validating", "over"}

LEMMA TasksPerRequest ==
  ASSUME TypeOK PROVE Tasks <=> \A r \in Requests : Shaped(r) /\ Stopped(r)
BY DEF TypeOK, Tasks, TaskShape, StaleStopped, Shaped, Stopped

LEMMA OthersKept ==
  ASSUME TypeOK, NEW r \in Requests, HostStep(r)
  PROVE  /\ UNCHANGED <<aborted, stale>>
         /\ \A q \in Requests \ {r} : /\ q \in controllers' <=> q \in controllers
                                      /\ metered'[q] = metered[q]
                                      /\ q \in fetched' <=> q \in fetched
         /\ \A d \in Devices : registry[d] = "barred" => registry'[d] = "barred"
<1> USE DEF At, Released
<1>t. /\ metered \in [Requests -> Nat] /\ registry \in [Devices -> {"valid", "barred"}]
  BY DEF TypeOK
<1>1. CASE Validate(r) \/ ReportError(r)
  BY <1>1 DEF Validate, ReportError, relay
<1>2. CASE Execute(r)
  BY <1>2 DEF Execute, relay
<1>3. CASE ReadAuth(r)
  BY <1>3 DEF ReadAuth, relay
<1>4. CASE Breaks(r)
  BY <1>4 DEF Breaks, relay
<1>5. CASE FetchAnswers(r) \/ Refreshed(r)
  BY <1>5 DEF FetchAnswers, Refreshed, relay
<1>6. CASE RejectionRead(r)
  BY <1>6 DEF RejectionRead, relay
<1>7. CASE ReadPart(r)
  BY <1>7 DEF ReadPart, relay, work
<1>8. CASE StreamEnds(r)
  BY <1>8 DEF StreamEnds, relay
<1>9. CASE Meter(r)
  <2>1. UNCHANGED <<aborted, stale, controllers, fetched>>
    BY <1>9 DEF Meter, relay
  <2>2. \A q \in Requests \ {r} : metered'[q] = metered[q]
    BY <1>9, <1>t DEF Meter
  <2>3. \A d \in Devices : registry[d] = "barred" => registry'[d] = "barred"
    BY <1>9, <1>t DEF Meter
  <2>4. QED BY <2>1, <2>2, <2>3
<1>10. CASE ReportEnd(r)
  BY <1>10 DEF ReportEnd, relay
<1>11. QED
  BY <1>1, <1>2, <1>3, <1>4, <1>5, <1>6, <1>7, <1>8, <1>9, <1>10 DEF HostStep

LEMMA TaskStep ==
  ASSUME TypeOK, NEW r \in Requests, Shaped(r), Stopped(r), HostStep(r)
  PROVE  Shaped(r)' /\ Stopped(r)'
<1> USE DEF At, Released, Executing, Shaped, Stopped
<1>t. /\ task \in [Requests -> [step : Steps, retried : BOOLEAN]]
      /\ upstream \in [Requests -> [parts : 0..MaxParts, complete : BOOLEAN]]
      /\ metered \in [Requests -> Nat] /\ registry \in [Devices -> {"valid", "barred"}]
      /\ DeviceOf[r] \in Devices
  BY ProviderAssumption DEF TypeOK
<1>g. ASSUME NEW step, Go(r, step) PROVE task'[r].step = step
  BY <1>t, <1>g DEF Go
<1>1. CASE Validate(r)
  BY <1>1, <1>t, <1>g DEF Validate, relay
<1>2. CASE ReportError(r)
  BY <1>2, <1>t, <1>g DEF ReportError, relay
<1>3. CASE Execute(r)
  BY <1>3, <1>t, <1>g DEF Execute, relay
<1>4. CASE ReadAuth(r)
  BY <1>4, <1>t, <1>g DEF ReadAuth, relay
<1>5. CASE Breaks(r)
  BY <1>5, <1>t, <1>g DEF Breaks, relay
<1>6. CASE FetchAnswers(r)
  BY <1>6, <1>t, <1>g DEF FetchAnswers, relay
<1>7. CASE Refreshed(r)
  <2>1. task'[r].step \in {"auth", "rejected"}
    BY <1>7, <1>t, <1>g DEF Refreshed
  <2>2. QED BY <1>7, <1>t, <2>1 DEF Refreshed, relay
<1>8. CASE RejectionRead(r)
  BY <1>8, <1>t, <1>g DEF RejectionRead, relay
<1>9. CASE ReadPart(r)
  BY <1>9, <1>t DEF ReadPart, relay, work
<1>10. CASE StreamEnds(r)
  BY <1>10, <1>t, <1>g DEF StreamEnds, relay
<1>11. CASE Meter(r)
  <2>1. task'[r].step = "ending" /\ task[r].step = "metering"
    BY <1>11, <1>g DEF Meter
  <2>2. metered'[r] \in {0, 1}
    BY <1>11, <1>t, <2>1 DEF Meter
  <2>3. UNCHANGED <<aborted, stale, controllers, fetched, upstream>>
    BY <1>11 DEF Meter, relay
  <2>4. QED BY <2>1, <2>2, <2>3
<1>12. CASE ReportEnd(r)
  BY <1>12, <1>t, <1>g DEF ReportEnd, relay
<1>13. QED
  BY <1>1, <1>2, <1>3, <1>4, <1>5, <1>6, <1>7, <1>8, <1>9, <1>10, <1>11, <1>12 DEF HostStep

(* The relay's own steps and the tunnel leave the tasks alone, but for a      *)
(* restart of the host.                                                      *)
taskState == <<task, controllers, aborted, metered, upstream, fetched>>

RelayStep(r) == Arrive(r) \/ BodyRejected(r) \/ Timeout(r) \/ ClientClosed(r) \/ ClientLeaves(r)
Delivered(r) == \/ Ignored(r) \/ DeliverStart(r) \/ DeliverPart(r)
                \/ DeliverEnd(r) \/ DeliverError(r)
TunnelStep   == TunnelClosed \/ DropTunnel \/ TakeOver

LEMMA RelayLeavesTasks ==
  ASSUME \/ \E r \in Requests : RelayStep(r) \/ Delivered(r)
         \/ TunnelStep \/ HostClosed \/ Accept \/ Sync \/ UNCHANGED vars
  PROVE  UNCHANGED <<taskState, registry, stale>>
<1> USE DEF taskState, host, work, relay
<1>1. ASSUME NEW r \in Requests, RelayStep(r) PROVE UNCHANGED <<taskState, registry, stale>>
  BY <1>1 DEF RelayStep, Arrive, BodyRejected, Timeout, ClientClosed, ClientLeaves
<1>2. ASSUME NEW r \in Requests, Delivered(r) PROVE UNCHANGED <<taskState, registry, stale>>
  BY <1>2 DEF Delivered, Ignored, DeliverStart, DeliverPart, DeliverEnd, DeliverError, Arrives
<1>3. CASE TunnelStep \/ HostClosed \/ Accept \/ Sync \/ UNCHANGED vars
  BY <1>3 DEF TunnelStep, TunnelClosed, DropTunnel, TakeOver, Accept, Connected, FailClosed, HostClosed, Sync, vars
<1>4. QED BY <1>1, <1>2, <1>3

LEMMA TasksNext == IInv /\ [Next]_vars => Tasks'
<1> SUFFICES ASSUME IInv, [Next]_vars PROVE Tasks'
  OBVIOUS
<1>t. /\ TypeOK /\ TaskShape /\ Tasks /\ Asking /\ stale \subseteq Requests
      /\ task \in [Requests -> [step : Steps, retried : BOOLEAN]]
      /\ registry \in [Devices -> {"valid", "barred"}]
      /\ \A r \in Requests : DeviceOf[r] \in Devices
  BY ProviderAssumption DEF IInv, TypeOK, Tasks
<1>p. \A r \in Requests : Shaped(r) /\ Stopped(r)
  BY <1>t, TasksPerRequest
<1>q. ASSUME \A r \in Requests : Shaped(r)' /\ Stopped(r)', stale' \subseteq Requests PROVE Tasks'
  BY <1>q DEF Tasks, TaskShape, StaleStopped, Shaped, Stopped
<1>1. CASE UNCHANGED <<taskState, registry, stale>>
  BY <1>1, <1>t DEF Tasks, TaskShape, StaleStopped, taskState
<1>2. ASSUME NEW r \in Requests, Forward(r) PROVE Tasks'
  <2>1. /\ UNCHANGED <<taskState, registry>>
        /\ stale' = IF registry[DeviceOf[r]] = "valid" THEN stale ELSE stale \cup {r}
    BY <1>2 DEF Forward, host, work, taskState
  <2>2. task[r].step = "none" /\ r \notin fetched
    BY <1>2, <1>t DEF Forward, Asking, Forwarded, TaskShape
  <2>3. registry[DeviceOf[r]] # "valid" => registry[DeviceOf[r]] = "barred"
    BY <1>t
  <2>4. QED BY <1>p, <1>q, <1>t, <2>1, <2>2, <2>3 DEF Shaped, Stopped, taskState
<1>3. ASSUME NEW r \in Requests, HandleRequest(r) PROVE Tasks'
  <2>1. task[r].step = "none"
    <3>1. /\ toHost \in Seq(ToHost) /\ toHost # <<>> /\ Head(toHost) = Message("request", r)
      BY <1>3, <1>t DEF HandleRequest, TypeOK, ToHost
    <3>2. 1 \in DOMAIN toHost /\ toHost[1] = Message("request", r)
      BY <3>1, Tailed
    <3>3. toHost[1].type = "request" /\ toHost[1].id = r
      BY <3>2 DEF Message
    <3>4. QED BY <1>t, <3>2, <3>3 DEF Asking, RequestedOnce
  <2>2. /\ UNCHANGED <<controllers, aborted, metered, upstream, fetched, registry, stale>>
        /\ \E step \in {"over", "validating"} : Go(r, step)
    BY <1>3 DEF HandleRequest, relay
  <2>3. /\ task'[r].step \in {"over", "validating"}
        /\ \A q \in Requests : q # r => task'[q] = task[q]
    BY <1>t, <2>2 DEF Go
  <2>4. \A q \in Requests : Shaped(q)' /\ Stopped(q)'
    BY <1>p, <2>1, <2>2, <2>3 DEF Shaped, Stopped, Executing
  <2>5. QED BY <1>q, <1>t, <2>2, <2>4
<1>4. ASSUME NEW r \in Requests, HandleAbort(r) PROVE Tasks'
  <2>1. /\ UNCHANGED <<task, metered, upstream, fetched, registry, stale>>
        /\ aborted' = (IF r \in controllers THEN aborted \cup {r} ELSE aborted)
        /\ controllers' = controllers \ {r}
    BY <1>4 DEF HandleAbort, Released, relay
  <2>2. \A q \in Requests : Shaped(q)' /\ Stopped(q)'
    BY <1>p, <2>1 DEF Shaped, Stopped, Executing
  <2>3. QED BY <1>q, <1>t, <2>1, <2>2
<1>5. ASSUME NEW r \in Requests, HostStep(r) PROVE Tasks'
  <2>1. UNCHANGED relay /\ \A q \in Requests : q # r => task'[q] = task[q] /\ upstream'[q] = upstream[q]
    BY <1>5, <1>t, HostMoves
  <2>2. Shaped(r)' /\ Stopped(r)'
    BY <1>5, <1>p, <1>t, TaskStep
  <2>3. \A q \in Requests \ {r} : Shaped(q)' /\ Stopped(q)'
    BY <1>5, <1>p, <1>t, <2>1, OthersKept DEF Shaped, Stopped
  <2>4. QED BY <1>q, <1>t, <2>1, <2>2, <2>3 DEF relay
<1>6. CASE LoseTunnel
  <2>1. UNCHANGED <<metered, upstream, fetched, registry, stale>>
    BY <1>6 DEF LoseTunnel, relay
  <2>2. \/ UNCHANGED <<task, controllers, aborted>>
        \/ /\ \A q \in Requests : /\ task[q].step = "none" => task'[q] = task[q]
                                  /\ task[q].step # "none" => task'[q].step = "over"
           /\ controllers' = {} /\ aborted' = {}
    BY <1>6, <1>t DEF LoseTunnel, work
  <2>3. \A q \in Requests : Shaped(q)' /\ Stopped(q)'
    BY <1>p, <2>1, <2>2 DEF Shaped, Stopped, Executing
  <2>4. QED BY <1>q, <1>t, <2>1, <2>3
<1>7. ASSUME NEW d \in Devices, Revoke(d) PROVE Tasks'
  <2>1. UNCHANGED <<taskState, stale>> /\ \A e \in Devices : registry[e] = "barred" => registry'[e] = "barred"
    BY <1>7, <1>t DEF Revoke, taskState, work, relay
  <2>2. \A q \in Requests : Shaped(q)' /\ Stopped(q)'
    BY <1>p, <1>t, <2>1 DEF Shaped, Stopped, taskState
  <2>3. QED BY <1>q, <1>t, <2>1, <2>2
<1>8. QED
  BY <1>1, <1>2, <1>3, <1>4, <1>5, <1>6, <1>7, RelayLeavesTasks DEF Next, RelayStep, Delivered, TunnelStep
-------------------------------------------------------------------------------
(* What is asked of the host.                                                *)

(* Whatever happens to toHost but a new request, the requests in it were in  *)
(* it, once each.                                                            *)
LEMMA NothingAsked ==
  ASSUME TypeOK, RequestedOnce,
         \/ toHost' = toHost \/ toHost' = <<>>
         \/ toHost # <<>> /\ toHost' = Tail(toHost)
         \/ \E r \in Requests : toHost' = Append(toHost, Message("abort", r))
  PROVE  /\ toHost' \in Seq(ToHost)
         /\ \A i \in DOMAIN toHost' : toHost'[i].type = "request" =>
              /\ \E j \in DOMAIN toHost : toHost[j] = toHost'[i]
              /\ \A j \in DOMAIN toHost' : toHost'[j] = toHost'[i] => j = i
         /\ toHost # <<>> /\ toHost' = Tail(toHost) /\ Head(toHost).type = "request"
              => \A i \in DOMAIN toHost' : toHost'[i] # Head(toHost)
<1>t. toHost \in Seq(ToHost)
  BY DEF TypeOK, ToHost
<1>1. CASE toHost' = <<>>
  BY <1>1, Emptied
<1>2. CASE toHost # <<>> /\ toHost' = Tail(toHost)
  <2>1. PICK n \in Nat : /\ n # 0 /\ toHost' \in Seq(ToHost)
                         /\ DOMAIN toHost = 1..n /\ DOMAIN toHost' = 1..(n - 1)
                         /\ \A i \in 1..(n - 1) : toHost'[i] = toHost[i + 1]
                         /\ Head(toHost) = toHost[1]
    BY <1>2, <1>t, Tailed
  <2>2. \A i \in DOMAIN toHost' : toHost'[i].type = "request" =>
              /\ \E j \in DOMAIN toHost : toHost[j] = toHost'[i]
              /\ \A j \in DOMAIN toHost' : toHost'[j] = toHost'[i] => j = i
    <3> SUFFICES ASSUME NEW i \in DOMAIN toHost', toHost'[i].type = "request"
                 PROVE  /\ \E j \in DOMAIN toHost : toHost[j] = toHost'[i]
                        /\ \A j \in DOMAIN toHost' : toHost'[j] = toHost'[i] => j = i
      OBVIOUS
    <3>1. i + 1 \in DOMAIN toHost /\ toHost[i + 1] = toHost'[i]
      BY <2>1
    <3>2. \A j \in DOMAIN toHost' : j + 1 \in DOMAIN toHost /\ toHost[j + 1] = toHost'[j]
      BY <2>1
    <3>3. \A j \in DOMAIN toHost' : toHost'[j] = toHost'[i] => j + 1 = i + 1
      BY <3>1, <3>2 DEF RequestedOnce
    <3>4. QED BY <2>1, <3>1, <3>3
  <2>3. Head(toHost).type = "request" => \A i \in DOMAIN toHost' : toHost'[i] # Head(toHost)
    <3> SUFFICES ASSUME Head(toHost).type = "request", NEW i \in DOMAIN toHost',
                        toHost'[i] = Head(toHost) PROVE FALSE
      OBVIOUS
    <3>1. 1 \in DOMAIN toHost /\ i + 1 \in DOMAIN toHost /\ toHost[i + 1] = toHost[1]
      BY <2>1
    <3>2. i + 1 = 1
      BY <2>1, <3>1 DEF RequestedOnce
    <3>3. QED BY <2>1, <3>2
  <2>4. QED BY <2>1, <2>2, <2>3
<1>3. ASSUME NEW r \in Requests, toHost' = Append(toHost, Message("abort", r))
      PROVE  /\ toHost' \in Seq(ToHost) /\ ~(toHost # <<>> /\ toHost' = Tail(toHost))
             /\ \A i \in DOMAIN toHost' : toHost'[i].type = "request" =>
                  /\ \E j \in DOMAIN toHost : toHost[j] = toHost'[i]
                  /\ \A j \in DOMAIN toHost' : toHost'[j] = toHost'[i] => j = i
  <2>1. Message("abort", r) \in ToHost /\ Message("abort", r).type = "abort"
    BY DEF Message, ToHost
  <2>2. PICK n \in Nat : /\ toHost' \in Seq(ToHost)
                         /\ DOMAIN toHost = 1..n /\ DOMAIN toHost' = 1..(n + 1)
                         /\ \A i \in 1..n : toHost'[i] = toHost[i]
                         /\ toHost'[n + 1] = Message("abort", r)
    BY <1>3, <1>t, <2>1, Appended
  <2>3. \A i \in DOMAIN toHost' : toHost'[i].type = "request"
          => i \in DOMAIN toHost /\ toHost[i] = toHost'[i]
    BY <2>1, <2>2
  <2>4. \A i \in DOMAIN toHost', j \in DOMAIN toHost' :
          toHost'[i].type = "request" /\ toHost'[j] = toHost'[i] => j = i
    BY <2>3 DEF RequestedOnce
  <2>5. toHost # <<>> => Tail(toHost) # Append(toHost, Message("abort", r))
    <3>1. toHost # <<>> => Len(Tail(toHost)) = Len(toHost) - 1
      BY <1>t, Tailed
    <3>2. Len(toHost) \in Nat /\ Len(Append(toHost, Message("abort", r))) = Len(toHost) + 1
      BY <1>t, <2>1, Appended
    <3>3. QED BY <3>1, <3>2
  <2>6. QED BY <1>3, <2>2, <2>3, <2>4, <2>5
<1>4. CASE toHost' = toHost
  <2>1. toHost # <<>> => toHost' # Tail(toHost)
    BY <1>4, <1>t, Tailed
  <2>2. QED BY <1>4, <1>t, <2>1 DEF RequestedOnce
<1>5. QED BY <1>1, <1>2, <1>3, <1>4

(* A response that is not yet open was not, and nothing is pending for it.   *)
LEMMA EarlyPhases ==
  ASSUME IInv, [Next]_vars
  PROVE  /\ response' \in [Requests -> [phase : Phases, parts : Nat,
                                        how : {"unended", "whole", "cut"}]]
         /\ pending' \in [Requests -> {"absent", "waiting", "headed"}]
         /\ \A q \in Requests : response'[q].phase \in {"none", "reading"} =>
              /\ response[q].phase \in {"none", "reading"} /\ pending'[q] = "absent"
              /\ response'[q].parts = response[q].parts
<1>t. /\ response \in [Requests -> [phase : Phases, parts : Nat, how : {"unended", "whole", "cut"}]]
      /\ pending \in [Requests -> {"absent", "waiting", "headed"}]
  BY ProviderAssumption DEF IInv, TypeOK, Phases
<1>p. \A q \in Requests :
        /\ response[q].phase \in {"none", "reading"} => pending[q] = "absent"
        /\ pending[q] # "absent" => response[q].phase \in {"open", "streaming"}
  BY <1>t DEF IInv, Asking, Forwarded, PendingWhileOpen
<1> USE DEF Phases
<1>1. CASE UNCHANGED <<response, pending>>
  BY <1>1, <1>t, <1>p
<1>2. ASSUME NEW r \in Requests, Arrive(r) \/ BodyRejected(r)
      PROVE  /\ UNCHANGED pending /\ \A q \in Requests : q # r => response'[q] = response[q]
             /\ response' \in [Requests -> [phase : Phases, parts : Nat, how : {"unended", "whole", "cut"}]]
             /\ response[r].phase \in {"none", "reading"}
             /\ response'[r].parts = response[r].parts
  BY <1>2, <1>t, ZenonT(60) DEF Arrive, BodyRejected, Ended
<1>3. ASSUME NEW r \in Requests, Forward(r)
      PROVE  /\ \A q \in Requests : q # r => response'[q] = response[q] /\ pending'[q] = pending[q]
             /\ response' \in [Requests -> [phase : Phases, parts : Nat, how : {"unended", "whole", "cut"}]]
             /\ pending' \in [Requests -> {"absent", "waiting", "headed"}]
             /\ response'[r].phase = "open"
  BY <1>3, <1>t DEF Forward
<1>4. ASSUME NEW r \in Requests, Timeout(r) \/ ClientClosed(r) \/ Delivered(r)
      PROVE  /\ \A q \in Requests : q # r => response'[q] = response[q] /\ pending'[q] = pending[q]
             /\ response' \in [Requests -> [phase : Phases, parts : Nat, how : {"unended", "whole", "cut"}]]
             /\ pending' \in [Requests -> {"absent", "waiting", "headed"}]
             /\ response'[r].phase \in {"open", "streaming", "ended"} \/ UNCHANGED <<response, pending>>
  <2>1. CASE Timeout(r)
    BY <2>1, <1>t, <1>p, ZenonT(60) DEF Timeout, Finish, Write, Forget, Ended
  <2>2. CASE ClientClosed(r)
    BY <2>2, <1>t, <1>p DEF ClientClosed, Forget
  <2>3. CASE Ignored(r)
    BY <2>3, <1>t DEF Ignored
  <2>4. CASE DeliverStart(r)
    BY <2>4, <1>t, <1>p DEF DeliverStart, Write
  <2>5. CASE DeliverPart(r)
    BY <2>5, <1>t, <1>p DEF DeliverPart, Write
  <2>6. CASE DeliverEnd(r)
    BY <2>6, <1>t, <1>p, ZenonT(60) DEF DeliverEnd, Write, Forget, Ended
  <2>7. CASE DeliverError(r)
    BY <2>7, <1>t, <1>p, ZenonT(60) DEF DeliverError, Finish, Write, Forget, Ended
  <2>8. QED BY <1>4, <2>1, <2>2, <2>3, <2>4, <2>5, <2>6, <2>7 DEF Delivered
<1>5. CASE FailClosed
  BY <1>5, <1>t, <1>p DEF FailClosed, Ended
<1>6. CASE \/ \E r \in Requests : \/ ClientLeaves(r) \/ HandleRequest(r) \/ HandleAbort(r)
                                     \/ HostStep(r)
           \/ LoseTunnel \/ HostClosed \/ Accept \/ Sync \/ (\E d \in Devices : Revoke(d))
           \/ UNCHANGED vars
  <2>1. ASSUME NEW r \in Requests, HostStep(r) PROVE UNCHANGED <<response, pending>>
    BY <2>1, HostMoves DEF IInv, Tasks, relay
  <2>2. UNCHANGED <<response, pending>>
    BY <1>6, <2>1 DEF ClientLeaves, HandleRequest, HandleAbort, LoseTunnel, HostClosed, Accept, Sync,
                      Revoke, vars, relay
  <2>3. QED BY <1>1, <2>2
<1>7. CASE TunnelClosed \/ DropTunnel \/ TakeOver
  BY <1>5, <1>7 DEF TunnelClosed, DropTunnel, TakeOver
<1>8. ASSUME NEW r \in Requests, Arrive(r) \/ BodyRejected(r) \/ Forward(r) \/ Timeout(r)
                                \/ ClientClosed(r) \/ Delivered(r)
      PROVE  /\ response' \in [Requests -> [phase : Phases, parts : Nat, how : {"unended", "whole", "cut"}]]
             /\ pending' \in [Requests -> {"absent", "waiting", "headed"}]
             /\ \A q \in Requests : response'[q].phase \in {"none", "reading"} =>
                  /\ response[q].phase \in {"none", "reading"} /\ pending'[q] = "absent"
                  /\ response'[q].parts = response[q].parts
  BY <1>8, <1>2, <1>3, <1>4, <1>t, <1>p
<1>9. QED
  BY <1>6, <1>7, <1>8 DEF Next, Delivered

LEMMA AskingNext == IInv /\ [Next]_vars => Asking' /\ toHost' \in Seq(ToHost)
<1> SUFFICES ASSUME IInv, [Next]_vars PROVE Asking' /\ toHost' \in Seq(ToHost)
  OBVIOUS
<1>t. /\ TypeOK /\ TaskShape /\ Forwarded /\ RequestedOnce /\ PendingWhileOpen
      /\ toHost \in Seq(ToHost)
      /\ task \in [Requests -> [step : Steps, retried : BOOLEAN]]
      /\ response \in [Requests -> Answer]
  BY DEF IInv, Asking, Tasks, TypeOK, ToHost, Answer, Phases
<1>e. \A q \in Requests : response'[q].phase \in {"none", "reading"} =>
        /\ response[q].phase \in {"none", "reading"} /\ pending'[q] = "absent"
        /\ response'[q].parts = response[q].parts
  BY EarlyPhases
<1>k. ASSUME \/ toHost' = toHost \/ toHost' = <<>>
             \/ toHost # <<>> /\ toHost' = Tail(toHost)
             \/ \E r \in Requests : toHost' = Append(toHost, Message("abort", r)),
             \A q \in Requests : task[q].step = "none" =>
               \/ task'[q].step = "none"
               \/ toHost # <<>> /\ toHost' = Tail(toHost) /\ Head(toHost) = Message("request", q)
      PROVE  Asking' /\ toHost' \in Seq(ToHost)
  <2>1. /\ toHost' \in Seq(ToHost)
        /\ \A i \in DOMAIN toHost' : toHost'[i].type = "request" =>
              /\ \E j \in DOMAIN toHost : toHost[j] = toHost'[i]
              /\ \A j \in DOMAIN toHost' : toHost'[j] = toHost'[i] => j = i
        /\ toHost # <<>> /\ toHost' = Tail(toHost) /\ Head(toHost).type = "request"
              => \A i \in DOMAIN toHost' : toHost'[i] # Head(toHost)
    BY <1>k, <1>t, NothingAsked
  <2>2. Forwarded'
    <3> SUFFICES ASSUME NEW q \in Requests, response'[q].phase \in {"none", "reading"}
                 PROVE  /\ pending'[q] = "absent" /\ task'[q].step = "none" /\ response'[q].parts = 0
                        /\ \A i \in DOMAIN toHost' : toHost'[i] # Message("request", q)
      BY DEF Forwarded
    <3>1. /\ pending'[q] = "absent" /\ task[q].step = "none" /\ response'[q].parts = 0
          /\ \A i \in DOMAIN toHost : toHost[i] # Message("request", q)
      BY <1>e, <1>t DEF Forwarded
    <3>2. \A i \in DOMAIN toHost' : toHost'[i] # Message("request", q)
      BY <2>1, <3>1, Messages
    <3>3. toHost # <<>> => 1 \in DOMAIN toHost /\ Head(toHost) = toHost[1]
      BY <1>t, Tailed
    <3>4. QED BY <1>k, <3>1, <3>2, <3>3
  <2>3. RequestedOnce'
    <3> SUFFICES ASSUME NEW i \in DOMAIN toHost', toHost'[i].type = "request"
                 PROVE  task'[toHost'[i].id].step = "none"
      BY <2>1 DEF RequestedOnce
    <3> DEFINE q == toHost'[i].id
    <3>1. q \in Requests /\ toHost'[i] = Message("request", q)
      <4>1. toHost'[i] \in ToHost
        BY <2>1, ElementOfSeq, LenProperties
      <4>2. QED BY <4>1 DEF ToHost, Message
    <3>2. task[q].step = "none"
      BY <1>t, <2>1 DEF RequestedOnce
    <3>3. QED BY <1>k, <2>1, <3>1, <3>2, Messages
  <2>4. QED BY <2>1, <2>2, <2>3 DEF Asking
<1>f. ASSUME NEW r \in Requests, Forward(r) PROVE Asking' /\ toHost' \in Seq(ToHost)
  <2>1. /\ task' = task /\ response[r].phase = "reading" /\ task[r].step = "none"
        /\ response'[r].phase = "open"
        /\ \A i \in DOMAIN toHost : toHost[i] # Message("request", r)
        /\ toHost' = toHost \/ toHost' = Append(toHost, Message("request", r))
    BY <1>f, <1>t DEF Forward, Forwarded, SendToTunnel, host, work, Answer
  <2>2. CASE toHost' = toHost
    BY <1>k, <2>1, <2>2
  <2>3. CASE toHost' = Append(toHost, Message("request", r))
    <3>1. Message("request", r) \in ToHost
      BY DEF Message, ToHost
    <3>2. PICK n \in Nat : /\ DOMAIN toHost = 1..n /\ DOMAIN toHost' = 1..(n + 1)
                           /\ \A i \in 1..n : toHost'[i] = toHost[i]
                           /\ toHost'[n + 1] = Message("request", r)
      BY <2>3, <1>t, <3>1, Appended
    <3>3. Forwarded'
      <4> SUFFICES ASSUME NEW q \in Requests, response'[q].phase \in {"none", "reading"}
                   PROVE  /\ pending'[q] = "absent" /\ task'[q].step = "none" /\ response'[q].parts = 0
                          /\ \A i \in DOMAIN toHost' : toHost'[i] # Message("request", q)
        BY DEF Forwarded
      <4>1. /\ pending'[q] = "absent" /\ task[q].step = "none" /\ response'[q].parts = 0 /\ q # r
            /\ \A i \in DOMAIN toHost : toHost[i] # Message("request", q)
        BY <1>e, <1>t, <2>1 DEF Forwarded
      <4>2. Message("request", r) # Message("request", q)
        BY <4>1, Messages
      <4>3. QED BY <2>1, <3>2, <4>1, <4>2
    <3>4. RequestedOnce'
      <4> SUFFICES ASSUME NEW i \in DOMAIN toHost', toHost'[i].type = "request"
                   PROVE  /\ task'[toHost'[i].id].step = "none"
                          /\ \A j \in DOMAIN toHost' : toHost'[j] = toHost'[i] => j = i
        BY DEF RequestedOnce
      <4>1. CASE i = n + 1
        BY <2>1, <3>2, <4>1, Messages
      <4>2. CASE i \in 1..n
        <5>1. i \in DOMAIN toHost /\ toHost'[i] = toHost[i] /\ toHost'[i] # Message("request", r)
          BY <2>1, <3>2, <4>2
        <5>2. \A j \in DOMAIN toHost' : toHost'[j] = toHost'[i] => j \in DOMAIN toHost /\ toHost[j] = toHost[i]
          BY <3>2, <5>1
        <5>3. QED BY <1>t, <2>1, <5>1, <5>2 DEF RequestedOnce
      <4>3. QED BY <3>2, <4>1, <4>2
    <3>5. toHost' \in Seq(ToHost)
      BY <2>3, <1>t, <3>1, Appended
    <3>6. QED BY <3>3, <3>4, <3>5 DEF Asking
  <2>4. QED BY <2>1, <2>2, <2>3
<1>1. ASSUME NEW r \in Requests, HandleRequest(r) PROVE Asking' /\ toHost' \in Seq(ToHost)
  <2>1. /\ toHost # <<>> /\ toHost' = Tail(toHost) /\ Head(toHost) = Message("request", r)
        /\ \A q \in Requests : q # r => task'[q] = task[q]
    BY <1>1, <1>t DEF HandleRequest, Go
  <2>2. QED BY <1>k, <2>1
<1>2. ASSUME NEW r \in Requests, Timeout(r) \/ ClientClosed(r) \/ HandleAbort(r) PROVE Asking' /\ toHost' \in Seq(ToHost)
  BY <1>2, <1>k DEF Timeout, ClientClosed, HandleAbort, SendToTunnel, host, work
<1>3. CASE LoseTunnel
  BY <1>3, <1>k, <1>t DEF LoseTunnel, work
<1>4. ASSUME NEW r \in Requests, HostStep(r) PROVE Asking' /\ toHost' \in Seq(ToHost)
  <2>1. toHost' = toHost /\ \A q \in Requests : task[q].step = "none" => task'[q] = task[q]
    BY <1>4, <1>t, HostMoves
  <2>2. QED BY <1>k, <2>1
<1>5. CASE (\E r \in Requests : Arrive(r) \/ BodyRejected(r) \/ ClientLeaves(r) \/ Delivered(r))
           \/ TunnelStep \/ HostClosed \/ Accept \/ Sync \/ UNCHANGED vars
  <2>1. task' = task
    BY <1>5, RelayLeavesTasks DEF RelayStep, taskState
  <2>2. toHost' = toHost \/ toHost' = <<>>
    <3>1. ASSUME NEW r \in Requests, Delivered(r) PROVE toHost' = toHost
      BY <3>1 DEF Delivered, Ignored, DeliverStart, DeliverPart, DeliverEnd, DeliverError, Arrives
    <3>2. ASSUME NEW r \in Requests, Arrive(r) \/ BodyRejected(r) \/ ClientLeaves(r) PROVE toHost' = toHost
      BY <3>2 DEF Arrive, BodyRejected, ClientLeaves, wires
    <3>3. CASE TunnelStep \/ HostClosed \/ Accept \/ Sync \/ UNCHANGED vars
      BY <3>3 DEF TunnelStep, TunnelClosed, DropTunnel, TakeOver, Accept, Connected, HostClosed, Sync,
                  wires, vars
    <3>4. QED BY <1>5, <3>1, <3>2, <3>3
  <2>3. QED BY <1>k, <2>1, <2>2
<1>6. ASSUME NEW d \in Devices, Revoke(d) PROVE Asking' /\ toHost' \in Seq(ToHost)
  BY <1>6, <1>k DEF Revoke, wires, work
<1>7. QED
  BY <1>f, <1>1, <1>2, <1>3, <1>4, <1>5, <1>6 DEF Next, Delivered, TunnelStep

-------------------------------------------------------------------------------
(* What is answered.                                                         *)

LEMMA AnswersKept ==
  ASSUME TypeOK, Answers,
         \A q \in Requests : task[q].step # "none" => task'[q].step # "none",
         \/ toRelay' = toRelay \/ toRelay' = <<>> \/ toRelay' \in Prefixes(toRelay)
         \/ toRelay # <<>> /\ toRelay' = Tail(toRelay)
         \/ \E m \in ToRelay : toRelay' = Append(toRelay, m) /\ task'[m.id].step # "none"
  PROVE  toRelay' \in Seq(ToRelay) /\ Answers'
<1>t. toRelay \in Seq(ToRelay) /\ \A i \in DOMAIN toRelay : toRelay[i].id \in Requests
  <2>1. toRelay \in Seq(ToRelay)
    BY DEF TypeOK, ToRelay
  <2>2. \A i \in DOMAIN toRelay : toRelay[i] \in ToRelay
    BY <2>1, ElementOfSeq, LenProperties
  <2>3. QED BY <2>1, <2>2 DEF ToRelay
<1>1. CASE toRelay' = toRelay
  BY <1>1, <1>t DEF Answers
<1>2. CASE toRelay' = <<>>
  BY <1>2, Emptied DEF Answers
<1>3. CASE toRelay' \in Prefixes(toRelay)
  <2>1. /\ toRelay' \in Seq(ToRelay)
        /\ \A i \in DOMAIN toRelay' : i \in DOMAIN toRelay /\ toRelay'[i] = toRelay[i]
    BY <1>3, <1>t, Prefixed
  <2>2. QED BY <1>t, <2>1 DEF Answers
<1>4. CASE toRelay # <<>> /\ toRelay' = Tail(toRelay)
  <2>1. /\ toRelay' \in Seq(ToRelay)
        /\ \A i \in DOMAIN toRelay' : i + 1 \in DOMAIN toRelay /\ toRelay'[i] = toRelay[i + 1]
    BY <1>4, <1>t, Tailed
  <2>2. QED BY <1>t, <2>1 DEF Answers
<1>5. ASSUME NEW m \in ToRelay, toRelay' = Append(toRelay, m), task'[m.id].step # "none"
      PROVE  toRelay' \in Seq(ToRelay) /\ Answers'
  <2>1. /\ toRelay' \in Seq(ToRelay)
        /\ \A i \in DOMAIN toRelay' :
             (i \in DOMAIN toRelay /\ toRelay'[i] = toRelay[i]) \/ toRelay'[i] = m
    <3>1. PICK n \in Nat : /\ DOMAIN toRelay = 1..n /\ DOMAIN toRelay' = 1..(n + 1)
                           /\ \A i \in 1..n : toRelay'[i] = toRelay[i]
                           /\ toRelay'[n + 1] = m
      BY <1>5, <1>t, Appended
    <3>2. toRelay' \in Seq(ToRelay)
      BY <1>5, <1>t, Appended
    <3>3. ASSUME NEW i \in DOMAIN toRelay'
          PROVE  (i \in DOMAIN toRelay /\ toRelay'[i] = toRelay[i]) \/ toRelay'[i] = m
      <4>1. CASE i \in 1..n
        BY <3>1, <4>1
      <4>2. CASE i = n + 1
        BY <3>1, <4>2
      <4>3. QED BY <3>1, <4>1, <4>2
    <3>4. QED BY <3>2, <3>3
  <2>2. QED BY <1>5, <1>t, <2>1 DEF Answers
<1>6. QED BY <1>1, <1>2, <1>3, <1>4, <1>5

(* HeadFirst and Accounted, request by request.                              *)
Heading(q) ==
  pending[q] = "waiting" =>
    /\ HeadBefore(q, toRelay)
    /\ Intact /\ task[q].step \in AfterHead => HeadIn(q, toRelay)

Counting(q) ==
  pending[q] # "absent" =>
    /\ Counted(q, toRelay, response[q].parts, upstream[q])
    /\ Intact => Whole(q, toRelay, response[q].parts, upstream[q])

(* A step that leaves the queue of answers alone.                            *)
LEMMA QueueKept ==
  ASSUME TypeOK, NEW q \in Requests, Heading(q), Counting(q), toRelay' = toRelay, Intact' => Intact,
         pending'[q] \in {pending[q], "absent"},
         pending'[q] # "absent" => response'[q].parts = response[q].parts,
         Intact /\ task'[q].step \in AfterHead => task[q].step \in AfterHead,
         upstream'[q] \in Sending, upstream[q].parts <= upstream'[q].parts,
         upstream[q].complete => upstream'[q] = upstream[q],
         Intact => upstream'[q].parts = upstream[q].parts
  PROVE  Heading(q)' /\ Counting(q)'
<1>t. toRelay \in Seq(ToRelay) /\ upstream[q] \in Sending
  BY DEF TypeOK, ToRelay, Sending
<1>1. Heading(q)'
  BY DEF Heading, HeadBefore, HeadIn
<1>2. Counting(q)'
  <2> SUFFICES ASSUME pending'[q] # "absent"
               PROVE  /\ Counted(q, toRelay, response[q].parts, upstream'[q])
                      /\ Intact' => Whole(q, toRelay, response[q].parts, upstream'[q])
    BY DEF Counting
  <2>1. /\ Counted(q, toRelay, response[q].parts, upstream[q])
        /\ Intact => Whole(q, toRelay, response[q].parts, upstream[q])
    BY DEF Counting
  <2>2. QED BY <1>t, <2>1, CountsKept
<1>3. QED BY <1>1, <1>2

(* A step of the host that sends a message of type t about the request r.    *)
LEMMA QueueGrown ==
  ASSUME TypeOK, NEW q \in Requests, NEW r \in Requests, NEW t \in {"start", "part", "end", "error"},
         Heading(q), Counting(q), Intact, Intact', toRelay' = Append(toRelay, Message(t, r)),
         pending'[q] = pending[q], response'[q] = response[q],
         q = r /\ t \in {"part", "end"} => task[r].step \in AfterHead,
         task'[q].step \in AfterHead => task[q].step \in AfterHead \/ (q = r /\ t = "start"),
         upstream'[q] \in Sending, upstream[q].complete => upstream'[q] = upstream[q],
         upstream'[q].parts = upstream[q].parts + (IF q = r /\ t = "part" THEN 1 ELSE 0),
         q = r /\ t = "end" => upstream[q].complete
  PROVE  Heading(q)' /\ Counting(q)'
<1>t. toRelay \in Seq(ToRelay) /\ upstream[q] \in Sending
  BY DEF TypeOK, ToRelay, Sending
<1>m. /\ Message(t, r) \in ToRelay
      /\ \A k \in {"start", "part", "end"} : Message(t, r) = Message(k, q) <=> t = k /\ r = q
  BY DEF Message, ToRelay
<1>1. Heading(q)'
  <2> SUFFICES ASSUME pending[q] = "waiting"
               PROVE  /\ HeadBefore(q, Append(toRelay, Message(t, r)))
                      /\ task'[q].step \in AfterHead => HeadIn(q, Append(toRelay, Message(t, r)))
    BY DEF Heading
  <2>1. /\ HeadBefore(q, toRelay)
        /\ task[q].step \in AfterHead => HeadIn(q, toRelay)
    BY DEF Heading
  <2>2. /\ Message(t, r) \in {Message("part", q), Message("end", q)} => task[q].step \in AfterHead
        /\ task'[q].step \in AfterHead
              => task[q].step \in AfterHead \/ Message(t, r) = Message("start", q)
    BY <1>m
  <2>3. QED BY <1>t, <1>m, <2>1, <2>2, HeadAppend
<1>2. Counting(q)'
  <2> SUFFICES ASSUME pending[q] # "absent"
               PROVE  /\ Counted(q, Append(toRelay, Message(t, r)), response[q].parts, upstream'[q])
                      /\ Whole(q, Append(toRelay, Message(t, r)), response[q].parts, upstream'[q])
    BY DEF Counting
  <2>1. Whole(q, toRelay, response[q].parts, upstream[q])
    BY DEF Counting
  <2>2. /\ upstream'[q].parts = upstream[q].parts + (IF Message(t, r) = Message("part", q) THEN 1 ELSE 0)
        /\ Message(t, r) = Message("end", q) => upstream'[q].complete
    BY <1>m
  <2>3. Whole(q, Append(toRelay, Message(t, r)), response[q].parts, upstream'[q])
    BY <1>t, <1>m, <2>1, <2>2, CountsAppend
  <2>4. QED BY <2>3, WholeCounted
<1>3. QED BY <1>1, <1>2

LEMMA AnsweringPerRequest ==
  (HeadFirst /\ Accounted) <=> \A q \in Requests : Heading(q) /\ Counting(q)
BY DEF HeadFirst, Accounted, Heading, Counting

(* What the steps that leave toRelay alone do to what it answers.            *)
LEMMA Undelivered ==
  ASSUME IInv,
         \/ \E r \in Requests : \/ RelayStep(r) \/ HandleAbort(r)
                              \/ (HandleRequest(r) /\ UNCHANGED toRelay)
         \/ HostClosed \/ Sync \/ (\E d \in Devices : Revoke(d)) \/ UNCHANGED vars
  PROVE  /\ toRelay' = toRelay /\ upstream' = upstream /\ (Intact' => Intact)
         /\ \A q \in Requests :
              /\ pending'[q] \in {pending[q], "absent"}
              /\ pending'[q] # "absent" => response'[q].parts = response[q].parts
              /\ task'[q].step \in AfterHead => task[q].step \in AfterHead
              /\ task[q].step # "none" => task'[q].step # "none"
<1>t. /\ response \in [Requests -> Answer] /\ pending \in [Requests -> {"absent", "waiting", "headed"}]
      /\ task \in [Requests -> [step : Steps, retried : BOOLEAN]]
  BY DEF IInv, TypeOK, Answer, Phases
<1> DEFINE Left == /\ toRelay' = toRelay /\ upstream' = upstream /\ (Intact' => Intact)
                   /\ \A q \in Requests :
                        /\ pending'[q] \in {pending[q], "absent"}
                        /\ pending'[q] # "absent" => response'[q].parts = response[q].parts
                        /\ task'[q].step \in AfterHead => task[q].step \in AfterHead
                        /\ task[q].step # "none" => task'[q].step # "none"
<1>1. ASSUME NEW r \in Requests, Arrive(r) \/ BodyRejected(r) PROVE Left
  <2>1. UNCHANGED <<pending, tunnel, link, task, upstream, toRelay>>
    BY <1>1 DEF Arrive, BodyRejected, wires, host, work
  <2>2. \A q \in Requests : response'[q].parts = response[q].parts
    <3>1. CASE Arrive(r)
      BY <3>1, <1>t DEF Arrive, Ended, Answer
    <3>2. CASE BodyRejected(r)
      BY <3>2, <1>t DEF BodyRejected, Ended, Answer
    <3>3. QED BY <1>1, <3>1, <3>2
  <2>3. QED BY <2>1, <2>2 DEF Intact
<1>2. ASSUME NEW r \in Requests, Timeout(r) \/ ClientClosed(r) PROVE Left
  <2>1. UNCHANGED <<tunnel, link, task, upstream, toRelay>> /\ Forget(r)
    BY <1>2 DEF Timeout, ClientClosed, host, work
  <2>2. pending'[r] = "absent" /\ \A q \in Requests : q # r => pending'[q] = pending[q]
    BY <2>1, <1>t DEF Forget
  <2>3. \A q \in Requests : q # r => response'[q] = response[q]
    BY <1>2, <1>t DEF Timeout, ClientClosed, Finish, Write
  <2>4. QED BY <2>1, <2>2, <2>3 DEF Intact
<1>3. ASSUME NEW r \in Requests, ClientLeaves(r) PROVE Left
  BY <1>3 DEF ClientLeaves, wires, host, work, Intact
<1>4. ASSUME NEW r \in Requests, HandleAbort(r) PROVE Left
  BY <1>4 DEF HandleAbort, relay, Intact
<1>5. ASSUME NEW r \in Requests, HandleRequest(r), UNCHANGED toRelay PROVE Left
  <2>1. UNCHANGED <<relay, link, upstream>> /\ \E step \in {"over", "validating"} : Go(r, step)
    BY <1>5 DEF HandleRequest
  <2>2. \A q \in Requests : \/ task'[q] = task[q] \/ task'[q].step \in {"over", "validating"}
    BY <2>1, <1>t DEF Go
  <2>3. QED BY <1>5, <2>1, <2>2 DEF relay, Intact, AfterHead
<1>6. CASE HostClosed \/ Sync \/ (\E d \in Devices : Revoke(d)) \/ UNCHANGED vars
  BY <1>6 DEF HostClosed, Sync, Revoke, vars, relay, wires, host, work, Intact
<1>7. QED BY <1>1, <1>2, <1>3, <1>4, <1>5, <1>6 DEF RelayStep

(* A request nobody has been asked is not spoken of in the queue.            *)
LEMMA NothingAnswered ==
  ASSUME NEW r \in Requests, NEW q \in Seq(ToRelay), NEW sent, sent.parts = 0,
         \A i \in DOMAIN q : q[i].id # r
  PROVE  Whole(r, q, 0, sent) /\ HeadBefore(r, q)
<1> DEFINE n == [i \in 0..Len(q) |-> 0]
<1>1. /\ n \in [0..Len(q) -> 0..MaxParts] /\ Len(q) \in Nat /\ DOMAIN q = 1..Len(q)
  BY LenProperties, ProviderAssumption
<1>2. /\ \A i \in 0..Len(q) : n[i] = 0
      /\ \A i \in DOMAIN q : /\ n[i] = 0 /\ n[i - 1] = 0
                             /\ q[i] # Message("part", r) /\ q[i] # Message("end", r)
  BY <1>1, Messages
<1> HIDE DEF n
<1>3. Counts(r, n, q, 0, sent) /\ n[Len(q)] = sent.parts
  BY <1>1, <1>2 DEF Counts
<1>4. HeadBefore(r, q)
  BY <1>2 DEF HeadBefore
<1>5. QED BY <1>1, <1>3, <1>4 DEF Whole

LEMMA AnsweringNext == IInv /\ [Next]_vars => Answering' /\ toRelay' \in Seq(ToRelay)
<1> SUFFICES ASSUME IInv, [Next]_vars PROVE Answering' /\ toRelay' \in Seq(ToRelay)
  OBVIOUS
<1>t. /\ TypeOK /\ TaskShape /\ Tasks /\ Forwarded /\ Answers /\ PendingWhileOpen
      /\ toRelay \in Seq(ToRelay)
      /\ task \in [Requests -> [step : Steps, retried : BOOLEAN]]
      /\ response \in [Requests -> Answer] /\ pending \in [Requests -> {"absent", "waiting", "headed"}]
      /\ upstream \in [Requests -> Sending]
  BY DEF IInv, Asking, Answering, Tasks, TypeOK, ToRelay, Answer, Phases, Sending
<1>k. TypeOK /\ Answers
  BY <1>t
<1>p. \A q \in Requests : Heading(q) /\ Counting(q)
  BY AnsweringPerRequest DEF IInv, Answering
<1>q. ASSUME \A q \in Requests : Heading(q)' /\ Counting(q)' PROVE HeadFirst' /\ Accounted'
  BY <1>q DEF HeadFirst, Accounted, Heading, Counting
<1>s. \A q \in Requests : upstream[q].parts \in Nat
  BY <1>t, ProviderAssumption DEF Sending
<1>1. ASSUME \/ \E r \in Requests : \/ RelayStep(r) \/ HandleAbort(r)
                                   \/ (HandleRequest(r) /\ UNCHANGED toRelay)
             \/ HostClosed \/ Sync \/ (\E d \in Devices : Revoke(d)) \/ UNCHANGED vars
      PROVE  Answering' /\ toRelay' \in Seq(ToRelay)
  <2>1. /\ toRelay' = toRelay /\ upstream' = upstream /\ (Intact' => Intact)
        /\ \A q \in Requests :
              /\ pending'[q] \in {pending[q], "absent"}
              /\ pending'[q] # "absent" => response'[q].parts = response[q].parts
              /\ task'[q].step \in AfterHead => task[q].step \in AfterHead
              /\ task[q].step # "none" => task'[q].step # "none"
    BY <1>1, Undelivered
  <2>2. ASSUME NEW q \in Requests PROVE Heading(q)' /\ Counting(q)'
    <3>1. /\ upstream'[q] \in Sending /\ upstream[q].parts <= upstream'[q].parts
          /\ upstream'[q] = upstream[q]
      BY <1>s, <1>t, <2>1
    <3>2. /\ pending'[q] \in {pending[q], "absent"}
          /\ pending'[q] # "absent" => response'[q].parts = response[q].parts
          /\ task'[q].step \in AfterHead => task[q].step \in AfterHead
          /\ toRelay' = toRelay /\ (Intact' => Intact)
      BY <2>1
    <3>3. QED BY <1>k, <1>p, <3>1, <3>2, QueueKept
  <2>3. Answers' /\ toRelay' \in Seq(ToRelay)
    <3>1. toRelay' = toRelay /\ \A q \in Requests : task[q].step # "none" => task'[q].step # "none"
      BY <2>1
    <3>2. QED BY <1>k, <3>1, AnswersKept
  <2>4. QED BY <1>q, <2>2, <2>3 DEF Answering
<1>2. ASSUME NEW r \in Requests, Forward(r) PROVE Answering' /\ toRelay' \in Seq(ToRelay)
  <2>1. /\ UNCHANGED <<toRelay, task, upstream, link, tunnel>>
        /\ response[r].phase = "reading" /\ response[r].parts = 0 /\ task[r].step = "none"
        /\ response'[r].parts = 0
        /\ \A q \in Requests : q # r => response'[q] = response[q] /\ pending'[q] = pending[q]
    BY <1>2, <1>t DEF Forward, Forwarded, host, work, Answer
  <2>2. \A i \in DOMAIN toRelay : toRelay[i].id # r
    BY <2>1, <1>t DEF Answers
  <2>3. Whole(r, toRelay, 0, upstream[r]) /\ HeadBefore(r, toRelay)
    BY <2>1, <2>2, <1>t, NothingAnswered DEF TaskShape
  <2>4. Heading(r)' /\ Counting(r)'
    BY <2>1, <2>3, WholeCounted DEF Heading, Counting, AfterHead
  <2>5. \A q \in Requests \ {r} : Heading(q)' /\ Counting(q)'
    BY <2>1, <1>p DEF Heading, Counting, Intact
  <2>6. Answers' /\ toRelay' \in Seq(ToRelay)
    BY <2>1, <1>t, AnswersKept
  <2>7. QED BY <1>q, <2>4, <2>5, <2>6 DEF Answering
<1>3. ASSUME NEW r \in Requests, Delivered(r) PROVE Answering' /\ toRelay' \in Seq(ToRelay)
  <2>1. PICK t \in {"start", "part", "end", "error"} : Arrives(t, r)
    BY <1>3 DEF Delivered, Ignored, DeliverStart, DeliverPart, DeliverEnd, DeliverError
  <2>2. /\ toRelay # <<>> /\ Head(toRelay) = Message(t, r) /\ toRelay' = Tail(toRelay)
        /\ UNCHANGED <<tunnel, link, task, upstream>>
    BY <2>1 DEF Arrives, host, work
  <2>3. \A q \in Requests \ {r} : response'[q] = response[q] /\ pending'[q] = pending[q]
    BY <1>3, <1>t DEF Delivered, Ignored, DeliverStart, DeliverPart, DeliverEnd, DeliverError,
                      Write, Finish, Forget
  <2>4. \A q \in Requests \ {r} : Heading(q)' /\ Counting(q)'
    <3> SUFFICES ASSUME NEW q \in Requests \ {r} PROVE Heading(q)' /\ Counting(q)'
      OBVIOUS
    <3>1. Head(toRelay).id # q /\ Head(toRelay) # Message("part", q)
      BY <2>2, Messages
    <3>2. Heading(q)'
      BY <1>p, <1>t, <2>2, <2>3, <3>1, HeadTail DEF Heading, Intact
    <3>3. Counting(q)'
      <4> SUFFICES ASSUME pending[q] # "absent"
                   PROVE  /\ Counted(q, Tail(toRelay), response[q].parts, upstream[q])
                          /\ Intact => Whole(q, Tail(toRelay), response[q].parts, upstream[q])
        BY <2>2, <2>3 DEF Counting, Intact
      <4>1. /\ Counted(q, toRelay, response[q].parts, upstream[q])
            /\ Intact => Whole(q, toRelay, response[q].parts, upstream[q])
        BY <1>p DEF Counting
      <4>2. response[q].parts + 0 = response[q].parts
        BY <1>t, ProviderAssumption DEF Answer
      <4>3. QED BY <1>t, <2>2, <3>1, <4>1, <4>2, CountsTail
    <3>4. QED BY <3>2, <3>3
  <2>5. Heading(r)' /\ Counting(r)'
    <3>1. CASE pending'[r] = "absent"
      BY <3>1 DEF Heading, Counting
    <3>2. CASE pending'[r] # "absent"
      <4>1. /\ pending[r] # "absent" /\ t \in {"start", "part"}
            /\ t = "start" => pending'[r] = "headed"
            /\ t = "part" => pending'[r] = pending[r]
            /\ response'[r].parts = response[r].parts + (IF t = "part" THEN 1 ELSE 0)
        <5>1. \A k \in {"start", "part", "end", "error"} : Arrives(k, r) => k = t
          BY <2>1 DEF Arrives, Message
        <5>2. response[r].phase # "ended" \/ pending[r] = "absent"
          BY <1>t DEF PendingWhileOpen
        <5>3. CASE DeliverStart(r)
          BY <1>t, <3>2, <5>1, <5>2, <5>3, ProviderAssumption DEF DeliverStart, Write, Answer
        <5>4. CASE DeliverPart(r)
          BY <1>t, <3>2, <5>1, <5>2, <5>4, ProviderAssumption DEF DeliverPart, Write, Answer
        <5>5. CASE Ignored(r) \/ DeliverEnd(r) \/ DeliverError(r)
          BY <1>t, <3>2, <5>5 DEF Ignored, DeliverEnd, DeliverError, Forget
        <5>6. QED BY <1>3, <5>3, <5>4, <5>5 DEF Delivered
      <4>2. Head(toRelay) = Message("part", r) <=> t = "part"
        BY <2>2 DEF Message
      <4>3. ~(t = "part" /\ pending[r] = "waiting")
        <5> SUFFICES ASSUME t = "part", pending[r] = "waiting" PROVE FALSE
          OBVIOUS
        <5>1. HeadBefore(r, toRelay)
          BY <1>p DEF Heading
        <5>2. 1 \in DOMAIN toRelay /\ toRelay[1] = Message("part", r) /\ \A j \in DOMAIN toRelay : ~(j < 1)
          BY <1>t, <2>2, Tailed
        <5>3. QED BY <5>1, <5>2 DEF HeadBefore
      <4>4. Heading(r)'
        BY <1>t, <4>1, <4>3 DEF Heading
      <4>5. Counting(r)'
        <5>1. /\ Counted(r, toRelay, response[r].parts, upstream[r])
              /\ Intact => Whole(r, toRelay, response[r].parts, upstream[r])
          BY <1>p, <4>1 DEF Counting
        <5>2. /\ Counted(r, Tail(toRelay), response'[r].parts, upstream[r])
              /\ Intact => Whole(r, Tail(toRelay), response'[r].parts, upstream[r])
          BY <1>t, <2>2, <4>1, <4>2, <5>1, CountsTail
        <5>3. QED BY <2>2, <5>2 DEF Counting, Intact
      <4>6. QED BY <4>4, <4>5
    <3>3. QED BY <3>1, <3>2
  <2>6. Answers' /\ toRelay' \in Seq(ToRelay)
    BY <2>2, <1>t, AnswersKept
  <2>7. QED BY <1>q, <2>4, <2>5, <2>6 DEF Answering
<1>4. CASE TunnelStep
  <2>1. task' = task /\ toRelay' \in {toRelay, <<>>} /\ pending' = [q \in Requests |-> "absent"]
    BY <1>4 DEF TunnelStep, TunnelClosed, DropTunnel, TakeOver, Connected, FailClosed, wires, host, work
  <2>2. \A q \in Requests : Heading(q)' /\ Counting(q)'
    BY <2>1 DEF Heading, Counting
  <2>3. Answers' /\ toRelay' \in Seq(ToRelay)
    BY <2>1, <1>t, AnswersKept
  <2>4. QED BY <1>q, <2>2, <2>3 DEF Answering
<1>5. CASE LoseTunnel
  <2>1. /\ UNCHANGED <<response, pending, upstream>> /\ ~Intact' /\ toRelay' \in Prefixes(toRelay)
        /\ \A q \in Requests : task[q].step # "none" => task'[q].step # "none"
    BY <1>5, <1>t DEF LoseTunnel, relay, work, Intact
  <2>2. \A q \in Requests : Heading(q)'
    BY <1>p, <1>t, <2>1, HeadPrefix DEF Heading
  <2>3. \A q \in Requests : Counting(q)'
    BY <1>p, <1>t, <2>1, CountsPrefix DEF Counting
  <2>4. Answers' /\ toRelay' \in Seq(ToRelay)
    BY <2>1, <1>t, AnswersKept
  <2>5. QED BY <1>q, <2>2, <2>3, <2>4 DEF Answering
<1>6. ASSUME NEW r \in Requests, NEW t \in {"start", "part", "end", "error"},
             Sent(t, r), UNCHANGED <<relay, link>>, task'[r].step # "none",
             t \in {"part", "end"} => task[r].step \in AfterHead,
             task'[r].step \in AfterHead => task[r].step \in AfterHead \/ t = "start",
             \A q \in Requests : q # r => task'[q] = task[q] /\ upstream'[q] = upstream[q],
             upstream' \in [Requests -> Sending], upstream[r].complete => upstream' = upstream,
             upstream'[r].parts = upstream[r].parts + (IF t = "part" THEN 1 ELSE 0),
             t = "end" => upstream[r].complete
      PROVE  Answering' /\ toRelay' \in Seq(ToRelay)
  <2>1. /\ UNCHANGED <<pending, response>> /\ Intact' = Intact
        /\ toRelay' = IF Intact THEN Append(toRelay, Message(t, r)) ELSE toRelay
    BY <1>6 DEF relay, Intact, Sent
  <2>2. ASSUME NEW q \in Requests PROVE Heading(q)' /\ Counting(q)'
    <3>1. CASE Intact
      <4>1. /\ toRelay' = Append(toRelay, Message(t, r)) /\ Intact'
            /\ pending'[q] = pending[q] /\ response'[q] = response[q]
            /\ q = r /\ t \in {"part", "end"} => task[r].step \in AfterHead
            /\ task'[q].step \in AfterHead => task[q].step \in AfterHead \/ (q = r /\ t = "start")
        BY <1>6, <2>1, <3>1
      <4>2. /\ upstream'[q] \in Sending /\ (upstream[q].complete => upstream'[q] = upstream[q])
            /\ upstream'[q].parts = upstream[q].parts + (IF q = r /\ t = "part" THEN 1 ELSE 0)
            /\ q = r /\ t = "end" => upstream[q].complete
        <5>1. CASE q = r
          BY <1>6, <5>1
        <5>2. CASE q # r
          <6>1. upstream[q].parts + 0 = upstream[q].parts
            BY <1>s
          <6>2. QED BY <1>6, <5>2, <6>1
        <5>3. QED BY <5>1, <5>2
      <4>3. QED BY <1>k, <1>p, <3>1, <4>1, <4>2, QueueGrown
    <3>2. CASE ~Intact
      <4>1. /\ toRelay' = toRelay /\ ~Intact' /\ pending'[q] = pending[q] /\ response'[q] = response[q]
        BY <2>1, <3>2
      <4>2. /\ upstream'[q] \in Sending /\ (upstream[q].complete => upstream'[q] = upstream[q])
            /\ upstream[q].parts <= upstream'[q].parts
        BY <1>6, <1>s
      <4>3. QED BY <1>k, <1>p, <3>2, <4>1, <4>2, QueueKept
    <3>3. QED BY <3>1, <3>2
  <2>3. Answers' /\ toRelay' \in Seq(ToRelay)
    <3>1. Message(t, r) \in ToRelay /\ Message(t, r).id = r
      BY DEF Message, ToRelay
    <3>2. \A q \in Requests : task[q].step # "none" => task'[q].step # "none"
      BY <1>6
    <3>3. QED BY <1>6, <1>t, <2>1, <3>1, <3>2, AnswersKept
  <2>4. QED BY <1>q, <2>2, <2>3 DEF Answering
<1>7. ASSUME NEW r \in Requests, HandleRequest(r), Sent("error", r), Go(r, "over")
      PROVE  Answering' /\ toRelay' \in Seq(ToRelay)
  <2>1. /\ UNCHANGED <<relay, link, upstream>> /\ task'[r].step = "over"
        /\ \A q \in Requests : q # r => task'[q] = task[q]
    BY <1>7, <1>t DEF HandleRequest, Go
  <2>2. upstream[r].parts + 0 = upstream[r].parts
    BY <1>s
  <2>3. QED BY <1>6, <1>7, <1>t, <2>1, <2>2 DEF AfterHead
<1>8. ASSUME NEW r \in Requests, HostStep(r) PROVE Answering' /\ toRelay' \in Seq(ToRelay)
  <2>1. /\ UNCHANGED <<relay, link, losses, toHost>>
        /\ task' \in [Requests -> [step : Steps, retried : BOOLEAN]]
        /\ task[r].step \notin {"none", "over"} /\ task'[r].step # "none"
        /\ upstream' \in [Requests -> Sending]
        /\ \A q \in Requests : q # r => task'[q] = task[q] /\ upstream'[q] = upstream[q]
        /\ Quiet(r) \/ Starts(r) \/ Produces(r) \/ Closes(r) \/ Fails(r)
    BY <1>8, <1>t, HostMoves DEF Sending
  <2>2. upstream[r].parts + 0 = upstream[r].parts
    BY <1>s
  <2>3. CASE Quiet(r)
    <3>1. /\ toRelay' = toRelay /\ Intact' = Intact /\ UNCHANGED <<pending, response>>
      BY <2>1, <2>3 DEF Quiet, relay, Intact
    <3>2. ASSUME NEW q \in Requests PROVE Heading(q)' /\ Counting(q)'
      <4>1. /\ task'[q].step \in AfterHead => task[q].step \in AfterHead
            /\ upstream'[q] \in Sending /\ upstream[q].parts <= upstream'[q].parts
            /\ upstream[q].complete => upstream'[q] = upstream[q]
            /\ upstream'[q].parts = upstream[q].parts
        BY <2>1, <2>3, <1>s DEF Quiet, AfterHead
      <4>2. QED BY <1>p, <1>t, <3>1, <4>1, QueueKept
    <3>3. Answers' /\ toRelay' \in Seq(ToRelay)
      BY <1>t, <2>1, <3>1, AnswersKept
    <3>4. QED BY <1>q, <3>2, <3>3 DEF Answering
  <2>4. CASE Starts(r)
    BY <1>6, <2>1, <2>2, <2>4 DEF Starts
  <2>5. CASE Produces(r)
    BY <1>6, <2>1, <2>5 DEF Produces, AfterHead
  <2>6. CASE Closes(r)
    BY <1>6, <2>1, <2>2, <2>6 DEF Closes, AfterHead
  <2>7. CASE Fails(r)
    BY <1>6, <2>1, <2>2, <2>7 DEF Fails, AfterHead
  <2>8. QED BY <2>1, <2>3, <2>4, <2>5, <2>6, <2>7
<1>9. \A r \in Requests : HandleRequest(r) => UNCHANGED toRelay \/ (Sent("error", r) /\ Go(r, "over"))
  BY DEF HandleRequest
<1>10. CASE Accept
  <2>1. /\ UNCHANGED <<task, upstream, response, pending>> /\ toRelay' = <<>> /\ tunnel = "none"
    BY <1>10 DEF Accept, Connected, work
  <2>2. \A q \in Requests : pending[q] # "absent" => task[q].step = "none" /\ response[q].parts = 0
    BY <2>1 DEF IInv, Unsent
  <2>3. <<>> \in Seq(ToRelay) /\ DOMAIN <<>> = 1..0
    BY Emptied
  <2>4. ASSUME NEW q \in Requests PROVE Heading(q)' /\ Counting(q)'
    <3>1. CASE pending[q] = "absent"
      BY <2>1, <3>1 DEF Heading, Counting
    <3>2. CASE pending[q] # "absent"
      <4>1. upstream[q].parts = 0 /\ \A i \in DOMAIN toRelay' : toRelay'[i].id # q
        BY <1>t, <2>1, <2>2, <2>3, <3>2 DEF TaskShape
      <4>2. toRelay' \in Seq(ToRelay)
        BY <2>1, <2>3
      <4>3. Whole(q, toRelay', 0, upstream[q]) /\ HeadBefore(q, toRelay')
        BY <4>1, <4>2, NothingAnswered
      <4>4. QED BY <2>1, <2>2, <3>2, <4>3, WholeCounted DEF Heading, Counting, AfterHead
    <3>3. QED BY <3>1, <3>2
  <2>5. Answers' /\ toRelay' \in Seq(ToRelay)
    BY <2>1, <1>t, AnswersKept
  <2>6. QED BY <1>q, <2>4, <2>5 DEF Answering
<1>11. QED
  BY <1>1, <1>2, <1>3, <1>4, <1>5, <1>7, <1>8, <1>9, <1>10 DEF Next, Delivered, RelayStep, TunnelStep

LEMMA UnsentNext == IInv /\ [Next]_vars => Unsent'
<1> SUFFICES ASSUME IInv, [Next]_vars, tunnel' = "none" PROVE Unsent'
  BY DEF Unsent
<1>t. /\ TypeOK /\ RequestedOnce /\ Forwarded /\ TaskShape /\ PendingWhileOpen
      /\ pending \in [Requests -> {"absent", "waiting", "headed"}]
      /\ response \in [Requests -> Answer]
      /\ task \in [Requests -> [step : Steps, retried : BOOLEAN]] /\ toHost \in Seq(ToHost)
  BY DEF IInv, Asking, Tasks, TypeOK, Answer, Phases, ToHost
<1>k. ASSUME tunnel = "none",
             \/ toHost' = toHost \/ toHost' = <<>>
             \/ toHost # <<>> /\ toHost' = Tail(toHost)
             \/ \E r \in Requests : toHost' = Append(toHost, Message("abort", r)),
             \A q \in Requests : pending'[q] # "absent" =>
               /\ pending[q] # "absent" /\ response'[q].parts = response[q].parts
               /\ task[q].step = "none" =>
                    \/ task'[q].step = "none"
                    \/ toHost # <<>> /\ Head(toHost) = Message("request", q)
      PROVE  Unsent'
  <2>1. \A i \in DOMAIN toHost' : toHost'[i].type = "request" =>
          \E j \in DOMAIN toHost : toHost[j] = toHost'[i]
    BY <1>k, <1>t, NothingAsked
  <2>2. toHost # <<>> => 1 \in DOMAIN toHost /\ Head(toHost) = toHost[1]
    BY <1>t, Tailed
  <2> SUFFICES ASSUME NEW q \in Requests, pending'[q] # "absent"
               PROVE  /\ task'[q].step = "none" /\ response'[q].parts = 0
                      /\ \A i \in DOMAIN toHost' : toHost'[i] # Message("request", q)
    BY DEF Unsent
  <2>3. /\ task[q].step = "none" /\ response[q].parts = 0
        /\ \A i \in DOMAIN toHost : toHost[i] # Message("request", q)
    BY <1>k DEF IInv, Unsent
  <2>4. QED BY <1>k, <2>1, <2>2, <2>3, Messages
<1>1. ASSUME NEW r \in Requests, Forward(r) PROVE Unsent'
  <2>1. /\ tunnel = "none" /\ UNCHANGED <<task, toHost>>
        /\ \A q \in Requests : q # r => response'[q] = response[q] /\ pending'[q] = pending[q]
        /\ response'[r].parts = 0 /\ task[r].step = "none"
        /\ \A i \in DOMAIN toHost : toHost[i] # Message("request", r)
    BY <1>1, <1>t DEF Forward, Forwarded, SendToTunnel, host, work, Answer
  <2>2. QED BY <2>1 DEF IInv, Unsent
<1>2. ASSUME NEW r \in Requests, Delivered(r) PROVE FALSE
  BY <1>2 DEF Delivered, Ignored, DeliverStart, DeliverPart, DeliverEnd, DeliverError, Arrives
<1>3. ASSUME NEW r \in Requests, RelayStep(r) \/ HandleAbort(r) \/ (HandleRequest(r) /\ UNCHANGED toRelay)
      PROVE  Unsent'
  <2>1. \A q \in Requests : /\ pending'[q] \in {pending[q], "absent"}
                            /\ pending'[q] # "absent" => response'[q].parts = response[q].parts
    BY <1>3, Undelivered
  <2>2. CASE RelayStep(r)
    <3>1. UNCHANGED <<tunnel, task>>
      BY <2>2 DEF RelayStep, Arrive, BodyRejected, Timeout, ClientClosed, ClientLeaves, host, work
    <3>2. toHost' = toHost \/ toHost' = Append(toHost, Message("abort", r))
      BY <2>2 DEF RelayStep, Arrive, BodyRejected, Timeout, ClientClosed, ClientLeaves, wires, SendToTunnel
    <3>3. QED BY <1>k, <2>1, <3>1, <3>2
  <2>3. CASE HandleAbort(r)
    BY <1>k, <2>1, <2>3 DEF HandleAbort, relay
  <2>4. CASE HandleRequest(r)
    <3>1. /\ UNCHANGED tunnel /\ toHost # <<>> /\ toHost' = Tail(toHost)
          /\ Head(toHost) = Message("request", r)
          /\ \A q \in Requests : q # r => task'[q] = task[q]
      BY <2>4, <1>t DEF HandleRequest, relay, Go
    <3>2. QED BY <1>k, <2>1, <3>1
  <2>5. QED BY <1>3, <2>2, <2>3, <2>4
<1>4. ASSUME NEW r \in Requests, HandleRequest(r) PROVE Unsent'
  <2>1. /\ UNCHANGED <<tunnel, pending, response>> /\ toHost # <<>> /\ toHost' = Tail(toHost)
        /\ Head(toHost) = Message("request", r)
        /\ \A q \in Requests : q # r => task'[q] = task[q]
    BY <1>4, <1>t DEF HandleRequest, relay, Go
  <2>2. QED BY <1>k, <2>1
<1>5. ASSUME NEW r \in Requests, HostStep(r) PROVE Unsent'
  <2>1. /\ UNCHANGED <<relay, toHost>>
        /\ \A q \in Requests : task[q].step = "none" => task'[q] = task[q]
    BY <1>5, <1>t, HostMoves
  <2>2. QED BY <1>k, <2>1 DEF relay
<1>6. CASE TunnelClosed \/ DropTunnel
  BY <1>6 DEF TunnelClosed, DropTunnel, FailClosed, Unsent
<1>7. CASE Accept \/ TakeOver \/ Sync
  BY <1>7 DEF Accept, TakeOver, Connected, Sync
<1>8. CASE LoseTunnel \/ HostClosed \/ (\E d \in Devices : Revoke(d)) \/ UNCHANGED vars
  <2>1. /\ UNCHANGED <<tunnel, pending, response>> /\ (toHost' = toHost \/ toHost' = <<>>)
        /\ \A q \in Requests : task[q].step = "none" => task'[q].step = "none"
    BY <1>8, <1>t DEF LoseTunnel, HostClosed, Revoke, relay, wires, host, work, vars
  <2>2. QED BY <1>k, <2>1
<1>9. QED
  BY <1>1, <1>2, <1>3, <1>4, <1>5, <1>6, <1>7, <1>8 DEF Next, RelayStep, Delivered

-------------------------------------------------------------------------------
(* Responses.                                                                *)

(* A message that is not ignored finds the answer where it continues it.     *)
LEMMA Continued ==
  ASSUME IInv, NEW r \in Requests, pending[r] # "absent",
         NEW t \in {"start", "part", "end", "error"}, Arrives(t, r)
  PROVE  /\ response[r].phase \in {"open", "streaming"}
         /\ t \in {"part", "end"} => response[r].phase = "streaming"
         /\ t = "part" => /\ response[r].parts + 1 \in 0..MaxParts
                         /\ response[r].parts < upstream[r].parts
         /\ t = "end" => upstream[r].complete /\ response[r].parts = upstream[r].parts
<1>t. /\ PendingWhileOpen /\ toRelay \in Seq(ToRelay) /\ upstream[r] \in Sending
      /\ response[r] \in Answer /\ pending[r] \in {"absent", "waiting", "headed"} /\ MaxParts \in Nat
  BY ProviderAssumption DEF IInv, TypeOK, ToRelay, Answer, Phases, Sending
<1>h. toRelay # <<>> /\ Head(toRelay) = Message(t, r)
  BY DEF Arrives
<1>1. t \in {"part", "end"} => pending[r] = "headed"
  <2> SUFFICES ASSUME t \in {"part", "end"}, pending[r] = "waiting" PROVE FALSE
    BY <1>t
  <2>1. HeadBefore(r, toRelay)
    BY DEF IInv, Answering, HeadFirst
  <2>2. /\ 1 \in DOMAIN toRelay /\ toRelay[1] = Message(t, r)
        /\ \A j \in DOMAIN toRelay : ~(j < 1)
    BY <1>t, <1>h, Tailed
  <2>3. QED BY <2>1, <2>2 DEF HeadBefore
<1>2. Counted(r, toRelay, response[r].parts, upstream[r])
  BY DEF IInv, Answering, Accounted
<1>3. /\ Head(toRelay) = Message("part", r) <=> t = "part"
      /\ Head(toRelay) = Message("end", r) <=> t = "end"
  BY <1>h DEF Message
<1>4. t = "part" => response[r].parts + 1 \in 0..MaxParts /\ response[r].parts + 1 <= upstream[r].parts
  BY <1>t, <1>h, <1>2, <1>3, CountsTail
<1>5. t = "end" => upstream[r].complete /\ response[r].parts = upstream[r].parts
  BY <1>t, <1>h, <1>2, <1>3, CountsTail
<1>6. response[r].parts \in Nat /\ upstream[r].parts \in Nat
  BY <1>t DEF Answer, Sending
<1>7. QED BY <1>t, <1>1, <1>4, <1>5, <1>6 DEF PendingWhileOpen

LEMMA PendingNext == IInv /\ [Next]_vars => PendingWhileOpen' /\ response' \in [Requests -> Answer]
<1> SUFFICES ASSUME IInv, [Next]_vars PROVE PendingWhileOpen' /\ response' \in [Requests -> Answer]
  OBVIOUS
<1> DEFINE Open(q) == /\ pending[q] = "waiting" => response[q].phase = "open"
                      /\ pending[q] = "headed"  => response[q].phase = "streaming"
                      /\ response[q].phase \in {"open", "streaming"} /\ pending[q] = "absent"
                         => q \in left
<1>t. /\ TypeOK /\ response \in [Requests -> Answer] /\ pending \in [Requests -> {"absent", "waiting", "headed"}]
      /\ MaxParts \in Nat
  BY ProviderAssumption DEF IInv, TypeOK, Answer, Phases
<1>p. \A q \in Requests : Open(q)
  BY DEF IInv, PendingWhileOpen
<1>q. ASSUME \A q \in Requests : Open(q)' PROVE PendingWhileOpen'
  BY <1>q DEF PendingWhileOpen
<1>r. ASSUME NEW r \in Requests, left \subseteq left', Open(r)', response' \in [Requests -> Answer],
             \A q \in Requests : q # r => response'[q] = response[q] /\ pending'[q] = pending[q]
      PROVE  PendingWhileOpen' /\ response' \in [Requests -> Answer]
  BY <1>p, <1>q, <1>r
<1> USE DEF Answer, Phases
<1>1. ASSUME UNCHANGED <<response, pending>>, left \subseteq left'
      PROVE PendingWhileOpen' /\ response' \in [Requests -> Answer]
  BY <1>1, <1>p, <1>q, <1>t
<1>2. ASSUME NEW r \in Requests, Arrive(r) \/ BodyRejected(r)
      PROVE PendingWhileOpen' /\ response' \in [Requests -> Answer]
  <2>1. /\ left' = left /\ pending' = pending /\ response' \in [Requests -> Answer]
        /\ response'[r].phase \in {"reading", "ended"} /\ response[r].phase \in {"none", "reading"}
        /\ \A q \in Requests : q # r => response'[q] = response[q]
    BY <1>2, <1>t, ZenonT(60) DEF Arrive, BodyRejected, Ended
  <2>2. pending[r] = "absent"
    BY <1>p, <1>t, <2>1
  <2>3. QED BY <1>r, <2>1, <2>2
<1>3. ASSUME NEW r \in Requests, Forward(r) PROVE PendingWhileOpen' /\ response' \in [Requests -> Answer]
  BY <1>3, <1>r, <1>t DEF Forward
<1>4. ASSUME NEW r \in Requests, Timeout(r) PROVE PendingWhileOpen' /\ response' \in [Requests -> Answer]
  BY <1>4, <1>r, <1>t DEF Timeout, Finish, Write, Forget, Ended
<1>5. ASSUME NEW r \in Requests, ClientClosed(r) PROVE PendingWhileOpen' /\ response' \in [Requests -> Answer]
  BY <1>5, <1>r, <1>t DEF ClientClosed, Forget
<1>6. ASSUME NEW r \in Requests, Delivered(r) PROVE PendingWhileOpen' /\ response' \in [Requests -> Answer]
  <2>1. CASE Ignored(r)
    BY <1>1, <2>1 DEF Ignored, Arrives
  <2>2. CASE DeliverStart(r)
    <3>1. response[r].phase \in {"open", "streaming"} /\ left' = left
      BY <2>2, Continued DEF DeliverStart, Arrives
    <3>2. QED BY <1>r, <1>t, <2>2, <3>1 DEF DeliverStart, Write
  <2>3. CASE DeliverPart(r)
    <3>1. /\ response[r].phase = "streaming" /\ response[r].parts + 1 \in 0..MaxParts
          /\ left' = left /\ pending' = pending
      BY <2>3, Continued DEF DeliverPart, Arrives
    <3>2. response' = [response EXCEPT ![r] = [response[r] EXCEPT !.parts = response[r].parts + 1]]
      BY <1>t, <2>3, <3>1 DEF DeliverPart, Write
    <3>3. QED BY <1>p, <1>r, <1>t, <3>1, <3>2
  <2>4. CASE DeliverEnd(r)
    BY <1>r, <1>t, <2>4 DEF DeliverEnd, Arrives, Write, Forget, Ended
  <2>5. CASE DeliverError(r)
    BY <1>r, <1>t, <2>5 DEF DeliverError, Arrives, Finish, Write, Forget, Ended
  <2>6. QED BY <1>6, <2>1, <2>2, <2>3, <2>4, <2>5 DEF Delivered
<1>7. CASE TunnelStep
  <2>1. /\ left' = left /\ \A q \in Requests : pending'[q] = "absent"
        /\ response' = [q \in Requests |-> IF pending[q] = "absent" THEN response[q]
                                          ELSE Ended(response[q], "cut")]
    BY <1>7 DEF TunnelStep, TunnelClosed, DropTunnel, TakeOver, FailClosed
  <2>2. \A q \in Requests : Open(q)'
    BY <1>p, <1>t, <2>1 DEF Ended
  <2>3. response' \in [Requests -> Answer]
    BY <1>t, <2>1 DEF Ended
  <2>4. QED BY <1>q, <2>2, <2>3
<1>8. CASE \/ \E r \in Requests : ClientLeaves(r) \/ HandleRequest(r) \/ HandleAbort(r) \/ HostStep(r)
           \/ LoseTunnel \/ HostClosed \/ Accept \/ Sync \/ (\E d \in Devices : Revoke(d))
           \/ UNCHANGED vars
  <2>1. ASSUME NEW r \in Requests, HostStep(r) PROVE UNCHANGED relay
    BY <2>1, HostMoves DEF IInv, Tasks
  <2>2. UNCHANGED <<response, pending>> /\ left \subseteq left'
    BY <1>8, <2>1 DEF ClientLeaves, HandleRequest, HandleAbort, LoseTunnel, HostClosed, Accept, Sync,
                      Revoke, vars, relay
  <2>3. QED BY <1>1, <2>2
<1>9. QED BY <1>2, <1>3, <1>4, <1>5, <1>6, <1>7, <1>8 DEF Next, Delivered, TunnelStep

LEMMA RelayTypes ==
  IInv /\ [Next]_vars =>
    /\ left' \subseteq Requests /\ listed' \subseteq Devices /\ stale' \subseteq Requests
    /\ tunnel' \in {"none", "open", "registered"} /\ link' \in BOOLEAN /\ losses' \in 0..MaxLosses
<1> SUFFICES ASSUME IInv, [Next]_vars
             PROVE  /\ left' \subseteq Requests /\ listed' \subseteq Devices /\ stale' \subseteq Requests
                    /\ tunnel' \in {"none", "open", "registered"} /\ link' \in BOOLEAN
                    /\ losses' \in 0..MaxLosses
  OBVIOUS
<1>t. /\ left \subseteq Requests /\ listed \subseteq Devices /\ stale \subseteq Requests
      /\ tunnel \in {"none", "open", "registered"} /\ link \in BOOLEAN
      /\ losses \in 0..MaxLosses /\ MaxLosses \in Nat
  BY ProviderAssumption DEF IInv, TypeOK
<1>1. CASE UNCHANGED <<left, listed, stale, tunnel, link, losses>>
  BY <1>1, <1>t
<1>2. ASSUME NEW r \in Requests, Delivered(r) PROVE UNCHANGED <<left, listed, stale, tunnel, link, losses>>
  BY <1>2 DEF Delivered, Ignored, DeliverStart, DeliverPart, DeliverEnd, DeliverError, Arrives, host
<1>3. ASSUME NEW r \in Requests, HostStep(r) PROVE UNCHANGED <<left, listed, stale, tunnel, link, losses>>
  BY <1>3, HostMoves DEF relay, IInv, Tasks
<1>4. ASSUME NEW r \in Requests, Arrive(r) \/ BodyRejected(r) \/ Timeout(r) \/ ClientClosed(r)
                                \/ HandleRequest(r) \/ HandleAbort(r)
      PROVE  UNCHANGED <<left, listed, stale, tunnel, link, losses>>
  BY <1>4 DEF Arrive, BodyRejected, Timeout, ClientClosed, HandleRequest, HandleAbort, relay, host
<1>5. ASSUME NEW r \in Requests, Forward(r) \/ ClientLeaves(r)
      PROVE  /\ UNCHANGED <<listed, tunnel, link, losses>>
             /\ left' \subseteq Requests /\ stale' \subseteq Requests
  BY <1>5, <1>t DEF Forward, ClientLeaves, host
<1>6. CASE LoseTunnel \/ HostClosed
  <2>1. /\ UNCHANGED <<left, listed, stale, tunnel>> /\ link' = FALSE
        /\ \/ losses' = losses
           \/ losses < MaxLosses /\ losses' = losses + 1
    BY <1>6 DEF LoseTunnel, HostClosed, relay
  <2>2. losses' \in 0..MaxLosses
    BY <1>t, <2>1
  <2>3. QED BY <1>t, <2>1, <2>2
<1>7. CASE TunnelStep \/ Accept
  <2>1. /\ UNCHANGED <<left, stale>> /\ listed' = {} /\ tunnel' \in {"none", "open"}
        /\ link' \in {link, TRUE}
        /\ \/ losses' = losses
           \/ losses < MaxLosses /\ losses' = losses + 1
    BY <1>7 DEF TunnelStep, TunnelClosed, DropTunnel, TakeOver, Accept, Connected, FailClosed, host
  <2>2. losses' \in 0..MaxLosses
    BY <1>t, <2>1
  <2>3. QED BY <1>t, <2>1, <2>2
<1>8. CASE Sync \/ (\E d \in Devices : Revoke(d)) \/ UNCHANGED vars
  BY <1>8, <1>t DEF Sync, Revoke, relay, host, vars
<1>9. QED
  BY <1>1, <1>2, <1>3, <1>4, <1>5, <1>6, <1>7, <1>8, <1>t DEF Next, Delivered, TunnelStep

LEMMA HostTypes ==
  IInv /\ [Next]_vars =>
    /\ task' \in [Requests -> [step : Steps, retried : BOOLEAN]]
    /\ controllers' \subseteq Requests /\ aborted' \subseteq Requests /\ fetched' \subseteq Requests
    /\ registry' \in [Devices -> {"valid", "barred"}] /\ metered' \in [Requests -> Nat]
    /\ upstream' \in [Requests -> Sending]
<1> DEFINE Work == /\ task \in [Requests -> [step : Steps, retried : BOOLEAN]]
                   /\ upstream \in [Requests -> Sending]
           Sets == controllers \subseteq Requests /\ aborted \subseteq Requests /\ fetched \subseteq Requests
           Kept == registry \in [Devices -> {"valid", "barred"}] /\ metered \in [Requests -> Nat]
<1> SUFFICES ASSUME IInv, [Next]_vars PROVE Work' /\ Sets' /\ Kept'
  OBVIOUS
<1>t. Work /\ Sets /\ Kept /\ \A r \in Requests : DeviceOf[r] \in Devices
  BY ProviderAssumption DEF IInv, TypeOK, Sending
<1>1. CASE UNCHANGED <<taskState, registry>>
  BY <1>1, <1>t DEF taskState
<1>2. ASSUME NEW r \in Requests, Forward(r) PROVE UNCHANGED <<taskState, registry>>
  BY <1>2 DEF Forward, host, work, taskState
<1>3. ASSUME NEW r \in Requests, HandleRequest(r) PROVE Work' /\ Sets' /\ Kept'
  <2>1. /\ UNCHANGED <<controllers, aborted, registry, metered, upstream, fetched>>
        /\ \E step \in {"over", "validating"} : Go(r, step)
    BY <1>3 DEF HandleRequest
  <2>2. QED BY <1>t, <2>1 DEF Go, Steps
<1>4. ASSUME NEW r \in Requests, HandleAbort(r) PROVE Work' /\ Sets' /\ Kept'
  <2>1. /\ UNCHANGED <<task, registry, metered, upstream, fetched>>
        /\ aborted' \in {aborted, aborted \cup {r}} /\ controllers' = controllers \ {r}
    BY <1>4 DEF HandleAbort, Released
  <2>2. QED BY <1>t, <2>1
<1>5. ASSUME NEW r \in Requests, HostStep(r) PROVE Work' /\ Sets' /\ Kept'
  <2>1. Work' /\ \A q \in Requests : q # r => task'[q] = task[q] /\ upstream'[q] = upstream[q]
    BY <1>5, HostMoves DEF IInv, Tasks, Sending
  <2>2. Sets'
    <3> USE DEF At, Released
    <3>1. CASE Validate(r) \/ ReportError(r) \/ Execute(r) \/ ReadAuth(r)
      BY <1>t, <3>1 DEF Validate, ReportError, Execute, ReadAuth
    <3>2. CASE Breaks(r) \/ FetchAnswers(r) \/ Refreshed(r) \/ RejectionRead(r)
      BY <1>t, <3>2 DEF Breaks, FetchAnswers, Refreshed, RejectionRead
    <3>3. CASE ReadPart(r) \/ StreamEnds(r) \/ Meter(r) \/ ReportEnd(r)
      BY <1>t, <3>3 DEF ReadPart, StreamEnds, Meter, ReportEnd, work
    <3>4. QED BY <1>5, <3>1, <3>2, <3>3 DEF HostStep
  <2>3. Kept'
    <3>1. CASE Meter(r)
      <4>1. /\ metered' \in {metered, [metered EXCEPT ![r] = @ + 1]}
            /\ registry' \in {registry, [registry EXCEPT ![DeviceOf[r]] = "barred"]}
        BY <3>1 DEF Meter
      <4>2. QED BY <1>t, <4>1
    <3>2. CASE ~Meter(r)
      <4>1. UNCHANGED <<registry, metered>>
        BY <1>5, <3>2 DEF HostStep, Validate, ReportError, Execute, ReadAuth, Breaks, FetchAnswers,
                          Refreshed, RejectionRead, ReadPart, StreamEnds, ReportEnd
      <4>2. QED BY <1>t, <4>1
    <3>3. QED BY <3>1, <3>2
  <2>4. QED BY <2>1, <2>2, <2>3
<1>6. CASE LoseTunnel
  <2>1. /\ UNCHANGED <<registry, metered, upstream, fetched>>
        /\ \/ UNCHANGED <<task, controllers, aborted>>
           \/ /\ task' = [r \in Requests |-> IF task[r].step = "none" THEN task[r]
                                            ELSE [task[r] EXCEPT !.step = "over"]]
              /\ controllers' = {} /\ aborted' = {}
    BY <1>6 DEF LoseTunnel, work
  <2>2. QED BY <1>t, <2>1 DEF Steps
<1>7. ASSUME NEW d \in Devices, Revoke(d) PROVE Work' /\ Sets' /\ Kept'
  BY <1>7, <1>t DEF Revoke, work
<1>8. QED
  BY <1>1, <1>2, <1>3, <1>4, <1>5, <1>6, <1>7, RelayLeavesTasks
  DEF Next, RelayStep, Delivered, TunnelStep

LEMMA InvNext == IInv /\ [Next]_vars => IInv'
<1> SUFFICES ASSUME IInv, [Next]_vars PROVE IInv'
  OBVIOUS
<1>1. Tasks' /\ Asking' /\ Answering' /\ PendingWhileOpen'
  BY TasksNext, AskingNext, AnsweringNext, PendingNext
<1>2. /\ response' \in [Requests -> Answer] /\ pending' \in [Requests -> {"absent", "waiting", "headed"}]
      /\ toHost' \in Seq(ToHost) /\ toRelay' \in Seq(ToRelay)
  BY EarlyPhases, AskingNext, AnsweringNext, PendingNext
<1>3. /\ left' \subseteq Requests /\ listed' \subseteq Devices /\ stale' \subseteq Requests
      /\ tunnel' \in {"none", "open", "registered"} /\ link' \in BOOLEAN /\ losses' \in 0..MaxLosses
  BY RelayTypes
<1>4. /\ task' \in [Requests -> [step : Steps, retried : BOOLEAN]]
      /\ controllers' \subseteq Requests /\ aborted' \subseteq Requests /\ fetched' \subseteq Requests
      /\ registry' \in [Devices -> {"valid", "barred"}] /\ metered' \in [Requests -> Nat]
      /\ upstream' \in [Requests -> Sending]
  BY HostTypes
<1>5. TypeOK'
  BY <1>2, <1>3, <1>4 DEF TypeOK, Answer, Phases, ToHost, ToRelay, Sending
<1>6. QED BY <1>1, <1>5, UnsentNext DEF IInv

LEMMA InvHolds == Spec => []IInv
BY InvInit, InvNext, PTL DEF Spec

(* Every variable of relay, tunnel and host keeps its type; in particular no *)
(* answer has more parts written than the provider may send.                 *)
THEOREM TypeCorrect == Spec => []TypeOK
<1>1. IInv => TypeOK
  BY DEF IInv
<1>2. QED BY <1>1, InvHolds, PTL

(* A forwarded request is in pendingProviderRequests exactly while its        *)
(* answer is open, through timeouts, lost tunnels and takeovers.             *)
THEOREM PendingOpen == Spec => []PendingWhileOpen
<1>1. IInv => PendingWhileOpen
  BY DEF IInv
<1>2. QED BY <1>1, InvHolds, PTL

(* recordUsage charges a request at most once, and never one whose abort the *)
(* broker has taken.                                                         *)
THEOREM OneCharge == Spec => []ChargedOnce
<1>1. IInv => ChargedOnce
  BY DEF IInv, Tasks, TaskShape, TypeOK, ChargedOnce
<1>2. QED BY <1>1, InvHolds, PTL

(* A token withdrawn while the relay read the body does not reach the        *)
(* provider: validateToken reads the registry again.                         *)
THEOREM StaleStops == Spec => []StaleNeverFetched
<1>1. IInv => StaleNeverFetched
  BY DEF IInv, Tasks, StaleStopped, StaleNeverFetched
<1>2. QED BY <1>1, InvHolds, PTL

-------------------------------------------------------------------------------
(* The promise.                                                              *)

LEMMA PromiseInit == Init => Promise!Init
BY DEF Init, Promise!Init

LEMMA OneCut ==
  ASSUME NEW r \in Requests, response \in [Requests -> Answer],
         response[r].phase # "ended", upstream' = upstream,
         response' = [response EXCEPT ![r] = Ended(response[r], "cut")]
  PROVE  Promise!Next
<1>1. /\ {r} # {} /\ {r} \in SUBSET Requests
      /\ \A q \in {r} : response[q].phase \in {"none", "reading", "open", "streaming"}
  BY DEF Answer, Phases
<1>2. response' = [q \in Requests |-> IF q \in {r} THEN [response[q] EXCEPT !.phase = "ended", !.how = "cut"]
                                    ELSE response[q]]
  BY DEF Ended
<1>3. Promise!Cut({r})
  BY <1>1, <1>2 DEF Promise!Cut, Promise!Phases
<1>4. QED BY <1>1, <1>3 DEF Promise!Next

LEMMA PromiseNext == IInv /\ [Next]_vars => [Promise!Next]_(Promise!vars)
<1> SUFFICES ASSUME IInv, [Next]_vars PROVE Promise!Next \/ UNCHANGED <<response, upstream>>
  BY DEF Promise!vars
<1>t. /\ response \in [Requests -> Answer] /\ upstream \in [Requests -> Sending]
      /\ pending \in [Requests -> {"absent", "waiting", "headed"}]
      /\ PendingWhileOpen /\ TypeOK /\ TaskShape
  BY DEF IInv, TypeOK, Answer, Phases, Sending, Tasks
<1>1. ASSUME NEW r \in Requests, Arrive(r) PROVE Promise!Next
  <2>1. response[r].phase = "none" /\ upstream' = upstream
    BY <1>1 DEF Arrive
  <2>2. CASE DeviceOf[r] \in listed /\ tunnel = "registered"
    <3>1. response' = [response EXCEPT ![r].phase = "reading"]
      BY <1>1, <1>t, <2>2 DEF Arrive, Answer
    <3>2. Promise!Advance(r, {"none"}, "reading")
      BY <2>1, <3>1 DEF Promise!Advance
    <3>3. QED BY <3>2 DEF Promise!Next
  <2>3. CASE ~(DeviceOf[r] \in listed /\ tunnel = "registered")
    <3>1. response' = [response EXCEPT ![r] = Ended(response[r], "cut")]
      BY <1>1, <1>t, <2>3 DEF Arrive
    <3>2. QED BY <1>t, <2>1, <3>1, OneCut
  <2>4. QED BY <2>2, <2>3
<1>2. ASSUME NEW r \in Requests, BodyRejected(r) PROVE Promise!Next
  BY <1>2, <1>t, OneCut DEF BodyRejected
<1>3. ASSUME NEW r \in Requests, Forward(r) PROVE Promise!Next
  <2>1. Promise!Advance(r, {"reading"}, "open")
    BY <1>3 DEF Forward, Promise!Advance
  <2>2. QED BY <2>1 DEF Promise!Next
<1>4. ASSUME NEW r \in Requests, Timeout(r) PROVE Promise!Next
  <2>1. response[r].phase # "ended" /\ upstream' = upstream
    BY <1>4, <1>t DEF Timeout, PendingWhileOpen
  <2>2. response' = [response EXCEPT ![r] = Ended(response[r], "cut")]
    BY <1>4, <1>t, <2>1 DEF Timeout, Finish, Write
  <2>3. QED BY <1>t, <2>1, <2>2, OneCut
<1>5. ASSUME NEW r \in Requests, Delivered(r) PROVE Promise!Next \/ UNCHANGED <<response, upstream>>
  <2>0. upstream' = upstream
    BY <1>5 DEF Delivered, Ignored, DeliverStart, DeliverPart, DeliverEnd, DeliverError, Arrives
  <2>1. CASE Ignored(r)
    BY <2>0, <2>1 DEF Ignored
  <2>2. CASE DeliverStart(r)
    <3>1. response[r].phase \in {"open", "streaming"}
      BY <2>2, Continued DEF DeliverStart
    <3>2. response' = [response EXCEPT ![r].phase = "streaming"]
      BY <1>t, <2>2, <3>1 DEF DeliverStart, Write
    <3>3. CASE response[r].phase = "open"
      <4>1. Promise!Advance(r, {"open"}, "streaming")
        BY <2>0, <3>2, <3>3 DEF Promise!Advance
      <4>2. QED BY <4>1 DEF Promise!Next
    <3>4. CASE response[r].phase = "streaming"
      BY <1>t, <2>0, <3>2, <3>4 DEF Answer
    <3>5. QED BY <3>1, <3>3, <3>4
  <2>3. CASE DeliverPart(r)
    <3>1. response[r].phase = "streaming" /\ response[r].parts < upstream[r].parts
      BY <2>3, Continued DEF DeliverPart
    <3>2. response' = [response EXCEPT ![r].parts = @ + 1]
      BY <1>t, <2>3, <3>1 DEF DeliverPart, Write, Answer
    <3>3. Promise!Write(r)
      BY <2>0, <3>1, <3>2 DEF Promise!Write
    <3>4. QED BY <3>3 DEF Promise!Next
  <2>4. CASE DeliverEnd(r)
    <3>1. /\ response[r].phase = "streaming" /\ upstream[r].complete
          /\ response[r].parts = upstream[r].parts
      BY <2>4, Continued DEF DeliverEnd
    <3>2. response' = [response EXCEPT ![r].phase = "ended", ![r].how = "whole"]
      BY <1>t, <2>4, <3>1 DEF DeliverEnd, Write, Ended, Answer
    <3>3. Promise!EndWhole(r)
      BY <2>0, <3>1, <3>2 DEF Promise!EndWhole
    <3>4. QED BY <3>3 DEF Promise!Next
  <2>5. CASE DeliverError(r)
    <3>1. response[r].phase # "ended"
      BY <2>5, Continued DEF DeliverError
    <3>2. response' = [response EXCEPT ![r] = Ended(response[r], "cut")]
      BY <1>t, <2>5, <3>1 DEF DeliverError, Finish, Write
    <3>3. QED BY <1>t, <2>0, <3>1, <3>2, OneCut
  <2>6. QED BY <1>5, <2>1, <2>2, <2>3, <2>4, <2>5 DEF Delivered
<1>6. CASE TunnelStep
  <2> DEFINE S == {q \in Requests : pending[q] # "absent"}
  <2>1. /\ upstream' = upstream
        /\ response' = [q \in Requests |-> IF pending[q] = "absent" THEN response[q]
                                          ELSE Ended(response[q], "cut")]
    BY <1>6 DEF TunnelStep, TunnelClosed, DropTunnel, TakeOver, Connected, FailClosed
  <2>2. CASE S = {}
    BY <1>t, <2>1, <2>2
  <2>3. CASE S # {}
    <3>1. \A q \in S : response[q].phase \in {"none", "reading", "open", "streaming"}
      BY <1>t DEF PendingWhileOpen
    <3>2. response' = [q \in Requests |->
                         IF q \in S THEN [response[q] EXCEPT !.phase = "ended", !.how = "cut"] ELSE response[q]]
      BY <2>1 DEF Ended
    <3>3. Promise!Cut(S) /\ S \in SUBSET Requests
      BY <2>1, <2>3, <3>1, <3>2 DEF Promise!Cut, Promise!Phases
    <3>4. QED BY <3>3 DEF Promise!Next
  <2>4. QED BY <2>2, <2>3
<1>7. ASSUME NEW r \in Requests, HostStep(r) PROVE Promise!Next \/ UNCHANGED <<response, upstream>>
  <2>0. response' = response
    BY <1>7, <1>t, HostMoves DEF relay
  <2>1. task[r].step = "streaming" => ~upstream[r].complete
    BY <1>t DEF TaskShape
  <2>2. CASE ReadPart(r)
    <3>1. Promise!Produce(r)
      BY <2>0, <2>1, <2>2 DEF ReadPart, At, Promise!Produce
    <3>2. QED BY <3>1 DEF Promise!Next
  <2>3. CASE StreamEnds(r)
    <3>1. Promise!Complete(r)
      BY <2>0, <2>1, <2>3 DEF StreamEnds, At, Promise!Complete
    <3>2. QED BY <3>1 DEF Promise!Next
  <2>4. CASE ~ReadPart(r) /\ ~StreamEnds(r)
    BY <1>7, <2>0, <2>4 DEF HostStep, Validate, ReportError, Execute, ReadAuth, Breaks, FetchAnswers,
                        Refreshed, RejectionRead, Meter, ReportEnd
  <2>5. QED BY <2>2, <2>3, <2>4
<1>8. CASE \/ \E r \in Requests : ClientClosed(r) \/ ClientLeaves(r) \/ HandleRequest(r) \/ HandleAbort(r)
           \/ LoseTunnel \/ HostClosed \/ Accept \/ Sync \/ (\E d \in Devices : Revoke(d))
           \/ UNCHANGED vars
  BY <1>8 DEF ClientClosed, ClientLeaves, HandleRequest, HandleAbort, LoseTunnel, HostClosed, Accept,
              Connected, Sync, Revoke, vars, relay
<1>9. QED
  BY <1>1, <1>2, <1>3, <1>4, <1>5, <1>6, <1>7, <1>8 DEF Next, Delivered, TunnelStep

(* Relay, tunnel and host keep what ProviderPromise says: each step of them  *)
(* writes the next part of an answer, ends it whole or cuts it, or changes   *)
(* nothing a client sees.                                                    *)
THEOREM ProxyKeepsPromise == Spec => KeepsPromise
BY PromiseInit, PromiseNext, InvHolds, PTL DEF Spec, KeepsPromise, Promise!Spec
=============================================================================
