----------------------------- MODULE StreamsProofs -----------------------------
(* The streams of a token for any number of streams, frames and lost tunnels: *)
(* frames arrive in order and without a gap in both directions, and no list   *)
(* of models passes unfiltered unless its id was used up.                     *)
EXTENDS Streams, FiniteSetTheorems, SequenceTheorems, TLAPS

Messages == Frames \cup Signs

IsData(m, s) == m.type = "data" /\ m.id = s

(* The frames of s in the queue q carry the numbers that follow base: after   *)
(* the first i messages n[i] frames have been taken.  None was not sent.      *)
Numbers(s, n, q, base, sent) ==
  /\ n[0] = base
  /\ \A i \in DOMAIN q : /\ n[i] = n[i - 1] + (IF IsData(q[i], s) THEN 1 ELSE 0)
                         /\ IsData(q[i], s) => q[i].n = n[i]
  /\ \A i \in 0..Len(q) : n[i] <= sent

Numbered(s, q, base, sent) == \E n \in [0..Len(q) -> Nat] : Numbers(s, n, q, base, sent)

(* Every frame sent is among them.                                            *)
Whole(s, q, base, sent) ==
  \E n \in [0..Len(q) -> Nat] : Numbers(s, n, q, base, sent) /\ n[Len(q)] = sent

HasOpen(q, s) == \E i \in DOMAIN q : q[i] = Open(s)
NoneOf(q, s)  == \A i \in DOMAIN q : q[i].id # s

(* The host has the stream s, or will have it.                                *)
Served(s) == client[s] = "new" \/ s \in localStreams \/ HasOpen(toHost, s)

(* Nothing has happened to a stream before its client connects.               *)
Untouched(s) ==
  client[s] = "new" =>
    /\ up[s] = 0 /\ down[s] = 0 /\ got[s] = <<>> /\ read[s] = <<>> /\ pending[s] = <<>>
    /\ socket[s] = "none" /\ s \notin localStreams
    /\ NoneOf(toHost, s) /\ NoneOf(toRelay, s)

(* A host without a tunnel has no stream, and no relay without one a client.  *)
Linked ==
  /\ ~link => localStreams = {} /\ toHost = <<>>
  /\ \A s \in Streams : client[s] = "open" => tunnel

(* A socket under way or open is a stream's, and an open one has taken the    *)
(* frames kept for it, which follow those it has received.                    *)
Socket(s) ==
  /\ socket[s] = "connecting" => s \in localStreams
  /\ socket[s] = "open" => s \in localStreams /\ pending[s] = <<>>
  /\ \A i \in DOMAIN pending[s] : pending[s][i].n = Len(got[s]) + i

(* The host is asked to open a stream once, before it is sent frames of it.   *)
OpensFirst(q, s) ==
  \A i \in DOMAIN q, j \in DOMAIN q :
    q[i] = Open(s) /\ j < i => q[j] # Open(s) /\ ~IsData(q[j], s)

OpenFirst(s) ==
  /\ OpensFirst(toHost, s)
  /\ HasOpen(toHost, s) => s \notin localStreams /\ pending[s] = <<>>

UpNumbered(s) ==
  Served(s) => /\ Numbered(s, toHost, Len(got[s]) + Len(pending[s]), up[s])
               /\ link /\ tunnel => Whole(s, toHost, Len(got[s]) + Len(pending[s]), up[s])

DownNumbered(s) ==
  client[s] \in {"new", "open"} =>
    /\ Numbered(s, toRelay, Len(read[s]), down[s])
    /\ link /\ tunnel => Whole(s, toRelay, Len(read[s]), down[s])

Ordered(s) == Unbroken(got[s]) /\ Unbroken(read[s])

Frame(s) == /\ Untouched(s) /\ Socket(s) /\ OpenFirst(s)
            /\ UpNumbered(s) /\ DownNumbered(s) /\ Ordered(s)

IInv == TypeOK /\ Linked /\ (\A s \in Streams : Frame(s))

-------------------------------------------------------------------------------
(* Queues.                                                                   *)

LEMMA Emptied ==
  ASSUME NEW M PROVE <<>> \in Seq(M) /\ Len(<<>>) = 0 /\ DOMAIN <<>> = {}
BY EmptySeq, LenProperties

LEMMA Tailed ==
  ASSUME NEW M, NEW q \in Seq(M), q # <<>>
  PROVE  /\ Tail(q) \in Seq(M) /\ Len(q) \in Nat \ {0} /\ Len(Tail(q)) = Len(q) - 1
         /\ DOMAIN q = 1..Len(q) /\ DOMAIN Tail(q) = 1..Len(q) - 1
         /\ \A i \in 1..Len(q) - 1 : Tail(q)[i] = q[i + 1]
         /\ Head(q) = q[1] /\ q[1] \in M
BY HeadTailProperties, LenProperties, EmptySeq, ElementOfSeq

LEMMA Prefixed ==
  ASSUME NEW M, NEW q \in Seq(M), NEW p \in Prefixes(q)
  PROVE  /\ p \in Seq(M) /\ Len(q) \in Nat /\ Len(p) \in 0..Len(q)
         /\ DOMAIN q = 1..Len(q) /\ DOMAIN p = 1..Len(p)
         /\ \A i \in 1..Len(p) : p[i] = q[i]
<1>1. PICK l \in 0..Len(q) : p = SubSeq(q, 1, l)
  BY DEF Prefixes
<1>2. Len(q) \in Nat /\ DOMAIN q = 1..Len(q) /\ \A i \in 1..l : q[i] \in M
  BY LenProperties, ElementOfSeq
<1>3. /\ SubSeq(q, 1, l) \in Seq(M)
      /\ Len(SubSeq(q, 1, l)) = IF 1 <= l THEN l - 1 + 1 ELSE 0
      /\ \A i \in 1..l - 1 + 1 : SubSeq(q, 1, l)[i] = q[1 + i - 1]
  BY <1>2, SubSeqProperties
<1>4. p \in Seq(M) /\ Len(p) = l /\ \A i \in 1..l : p[i] = q[i]
  BY <1>1, <1>2, <1>3
<1>5. QED BY <1>1, <1>2, <1>4, LenProperties

LEMMA Joined ==
  ASSUME NEW M, NEW q \in Seq(M), NEW z \in Seq(M)
  PROVE  /\ q \o z \in Seq(M) /\ Len(q) \in Nat /\ Len(z) \in Nat
         /\ Len(q \o z) = Len(q) + Len(z)
         /\ DOMAIN q = 1..Len(q) /\ DOMAIN z = 1..Len(z)
         /\ DOMAIN (q \o z) = 1..Len(q) + Len(z)
         /\ \A i \in 1..Len(q) : (q \o z)[i] = q[i]
         /\ \A i \in 1..Len(z) : (q \o z)[Len(q) + i] = z[i]
<1>1. /\ q \o z \in Seq(M) /\ Len(q) \in Nat /\ Len(z) \in Nat
      /\ Len(q \o z) = Len(q) + Len(z)
      /\ DOMAIN q = 1..Len(q) /\ DOMAIN z = 1..Len(z)
      /\ DOMAIN (q \o z) = 1..Len(q \o z)
  BY ConcatProperties, LenProperties
<1>2. \A i \in 1..Len(q) + Len(z) :
        (q \o z)[i] = IF i <= Len(q) THEN q[i] ELSE z[i - Len(q)]
  BY ConcatProperties
<1>3. \A i \in 1..Len(z) : (q \o z)[Len(q) + i] = z[i]
  <2> TAKE i \in 1..Len(z)
  <2>1. /\ Len(q) + i \in 1..Len(q) + Len(z) /\ ~(Len(q) + i <= Len(q))
        /\ Len(q) + i - Len(q) = i
    BY <1>1
  <2>2. QED BY <1>2, <2>1
<1>4. \A i \in 1..Len(q) : (q \o z)[i] = q[i]
  BY <1>1, <1>2
<1>5. QED BY <1>1, <1>3, <1>4

LEMMA One ==
  ASSUME NEW M, NEW m \in M
  PROVE  <<m>> \in Seq(M) /\ Len(<<m>>) = 1 /\ DOMAIN <<m>> = {1} /\ <<m>>[1] = m
OBVIOUS

LEMMA Taken ==
  ASSUME NEW M, NEW q \in Seq(M), NEW m \in First(q)
  PROVE  q # <<>> /\ m = Head(q) /\ m \in M
<1>1. 1 \in DOMAIN q /\ m = q[1]
  BY DEF First
<1>2. q # <<>>
  BY <1>1, Emptied
<1>3. QED BY <1>1, <1>2, Tailed

LEMMA Fields ==
  ASSUME NEW s
  PROVE  /\ Open(s).type = "open" /\ Open(s).id = s
         /\ Close(s).type = "close" /\ Close(s).id = s
         /\ \A n, kind, of :
              /\ Data(s, n, kind, of).type = "data" /\ Data(s, n, kind, of).id = s
              /\ Data(s, n, kind, of).n = n /\ Data(s, n, kind, of).kind = kind
              /\ Data(s, n, kind, of).of = of
BY DEF Open, Close, Data

(* Messages that matter little to s: neither its opening nor a frame of it.   *)
Aside(m, s) == m # Open(s) /\ ~IsData(m, s)

LEMMA AsideClose ==
  ASSUME NEW s, NEW r PROVE Aside(Close(r), s)
BY Fields DEF Aside, IsData

LEMMA AsideOther ==
  ASSUME NEW s, NEW m, m.id # s PROVE Aside(m, s)
BY Fields DEF Aside, IsData

(* The messages of s in p are in q, in the same order.                        *)
Within(p, q, s) ==
  \E d \in {0, 1} : \A i \in DOMAIN p :
    ~Aside(p[i], s) => i + d \in DOMAIN q /\ q[i + d] = p[i]

(* One message that is aside is taken from the queue q, or some are added.    *)
Passes(q, p, s) ==
  \/ p = q
  \/ q # <<>> /\ Aside(Head(q), s) /\ p = Tail(q)
  \/ \E z \in Seq(Messages) : (\A i \in DOMAIN z : Aside(z[i], s)) /\ p = q \o z

LEMMA WithinTail ==
  ASSUME NEW q \in Seq(Messages), q # <<>>, NEW s
  PROVE  Within(Tail(q), q, s)
<1>1. PICK n \in Nat : /\ DOMAIN q = 1..n /\ DOMAIN Tail(q) = 1..(n - 1)
                       /\ \A i \in 1..(n - 1) : Tail(q)[i] = q[i + 1]
  BY Tailed
<1>2. \A i \in DOMAIN Tail(q) : i + 1 \in DOMAIN q /\ q[i + 1] = Tail(q)[i]
  BY <1>1
<1>3. QED BY <1>2 DEF Within

LEMMA WithinPrefix ==
  ASSUME NEW q \in Seq(Messages), NEW p \in Prefixes(q), NEW s
  PROVE  Within(p, q, s)
<1>1. PICK n \in Nat, m \in Nat : /\ m <= n /\ DOMAIN q = 1..n /\ DOMAIN p = 1..m
                                  /\ \A i \in 1..m : p[i] = q[i]
  BY Prefixed
<1>2. \A i \in DOMAIN p : i + 0 \in DOMAIN q /\ q[i + 0] = p[i]
  BY <1>1
<1>3. QED BY <1>2 DEF Within

LEMMA WithinPass ==
  ASSUME NEW q \in Seq(Messages), NEW p, NEW s, Passes(q, p, s)
  PROVE  p \in Seq(Messages) /\ Within(p, q, s)
<1>1. CASE p = q
  <2>1. \A i \in DOMAIN q : i + 0 = i
    BY LenProperties
  <2>2. QED BY <1>1, <2>1 DEF Within
<1>2. CASE q # <<>> /\ p = Tail(q)
  BY <1>2, WithinTail, Tailed
<1>3. ASSUME NEW z \in Seq(Messages), \A i \in DOMAIN z : Aside(z[i], s), p = q \o z
      PROVE  p \in Seq(Messages) /\ Within(p, q, s)
  <2>1. PICK n \in Nat, k \in Nat :
          /\ DOMAIN q = 1..n /\ DOMAIN z = 1..k /\ DOMAIN (q \o z) = 1..(n + k)
          /\ \A i \in 1..n : (q \o z)[i] = q[i]
          /\ \A i \in 1..k : (q \o z)[n + i] = z[i]
    BY Joined
  <2>2. ASSUME NEW i \in DOMAIN p, ~Aside(p[i], s)
        PROVE  i + 0 \in DOMAIN q /\ q[i + 0] = p[i]
    <3>1. CASE i \in 1..n
      BY <1>3, <2>1, <3>1
    <3>2. CASE i \notin 1..n
      <4>1. i - n \in 1..k /\ n + (i - n) = i
        BY <1>3, <2>1, <3>2
      <4>2. p[i] = z[i - n]
        BY <1>3, <2>1, <4>1
      <4>3. QED BY <1>3, <2>1, <2>2, <4>1, <4>2
    <3>3. QED BY <3>1, <3>2
  <2>3. QED BY <1>3, <2>2, Joined DEF Within
<1>4. QED BY <1>1, <1>2, <1>3 DEF Passes

LEMMA WithinKeeps ==
  ASSUME NEW q \in Seq(Messages), NEW p \in Seq(Messages), NEW s, Within(p, q, s)
  PROVE  /\ HasOpen(p, s) => HasOpen(q, s)
         /\ OpensFirst(q, s) => OpensFirst(p, s)
<1>1. PICK d \in {0, 1} : \A i \in DOMAIN p :
        ~Aside(p[i], s) => i + d \in DOMAIN q /\ q[i + d] = p[i]
  BY DEF Within
<1>2. DOMAIN p \subseteq Nat
  BY LenProperties
<1>3. \A m : /\ IsData(m, s) => ~Aside(m, s)
             /\ m = Open(s) => ~Aside(m, s)
  BY DEF Aside
<1>6. HasOpen(p, s) => HasOpen(q, s)
  BY <1>1, <1>3 DEF HasOpen
<1>7. ASSUME OpensFirst(q, s), NEW i \in DOMAIN p, NEW j \in DOMAIN p, p[i] = Open(s), j < i
      PROVE  p[j] # Open(s) /\ ~IsData(p[j], s)
  <2>1. j + d < i + d
    BY <1>2, <1>7
  <2>2. QED BY <1>1, <1>3, <1>7, <2>1 DEF OpensFirst
<1>8. QED BY <1>6, <1>7 DEF OpensFirst

LEMMA NoneKeeps ==
  ASSUME NEW q \in Seq(Messages), NEW s, NoneOf(q, s)
  PROVE  /\ NoneOf(Tail(q), s) \/ q = <<>>
         /\ \A p \in Prefixes(q) : NoneOf(p, s)
         /\ \A z \in Seq(Messages) : NoneOf(z, s) => NoneOf(q \o z, s)
         /\ ~HasOpen(q, s) /\ OpensFirst(q, s)
<1>1. ASSUME q # <<>> PROVE NoneOf(Tail(q), s)
  <2>1. PICK n \in Nat : /\ DOMAIN q = 1..n /\ DOMAIN Tail(q) = 1..(n - 1)
                         /\ \A i \in 1..(n - 1) : Tail(q)[i] = q[i + 1]
    BY <1>1, Tailed
  <2>2. QED BY <2>1 DEF NoneOf
<1>2. ASSUME NEW p \in Prefixes(q) PROVE NoneOf(p, s)
  <2>1. PICK n \in Nat, m \in Nat : /\ m <= n /\ DOMAIN q = 1..n /\ DOMAIN p = 1..m
                                    /\ \A i \in 1..m : p[i] = q[i]
    BY Prefixed
  <2>2. QED BY <2>1 DEF NoneOf
<1>3. ASSUME NEW z \in Seq(Messages), NoneOf(z, s) PROVE NoneOf(q \o z, s)
  <2>1. PICK n \in Nat, k \in Nat :
          /\ DOMAIN q = 1..n /\ DOMAIN z = 1..k /\ DOMAIN (q \o z) = 1..(n + k)
          /\ \A i \in 1..n : (q \o z)[i] = q[i]
          /\ \A i \in 1..k : (q \o z)[n + i] = z[i]
    BY Joined
  <2> SUFFICES ASSUME NEW i \in DOMAIN (q \o z) PROVE (q \o z)[i].id # s
    BY DEF NoneOf
  <2>2. CASE i \in 1..n
    BY <2>1, <2>2 DEF NoneOf
  <2>3. CASE i \notin 1..n
    <3>1. i - n \in 1..k /\ n + (i - n) = i
      BY <2>1, <2>3
    <3>2. QED BY <1>3, <2>1, <3>1 DEF NoneOf
  <2>4. QED BY <2>2, <2>3
<1>4. ~HasOpen(q, s) /\ OpensFirst(q, s)
  <2>1. \A i \in DOMAIN q : ~IsData(q[i], s) /\ q[i] # Open(s)
    BY Fields DEF NoneOf, IsData
  <2>2. QED BY <2>1 DEF HasOpen, OpensFirst
<1>5. QED BY <1>1, <1>2, <1>3, <1>4

(* Numbers in queues.                                                         *)

LEMMA EmptyNumbered ==
  ASSUME NEW s, NEW b \in Nat, NEW u \in Nat, b <= u
  PROVE  Numbered(s, <<>>, b, u) /\ (b = u => Whole(s, <<>>, b, u))
<1> DEFINE n == [i \in 0..0 |-> b]
<1>1. n \in [0..Len(<<>>) -> Nat] /\ n[0] = b /\ n[Len(<<>>)] = b /\ Len(<<>>) = 0
  BY Emptied
<1>2. Numbers(s, n, <<>>, b, u)
  BY <1>1, Emptied DEF Numbers
<1> HIDE DEF n
<1>3. QED BY <1>1, <1>2 DEF Numbered, Whole

LEMMA WholeNumbered ==
  ASSUME NEW s, NEW q, NEW b, NEW u PROVE Whole(s, q, b, u) => Numbered(s, q, b, u)
BY DEF Whole, Numbered

LEMMA PrefixNumbered ==
  ASSUME NEW q \in Seq(Messages), NEW p \in Prefixes(q), NEW s, NEW b, NEW u,
         Numbered(s, q, b, u)
  PROVE  Numbered(s, p, b, u)
<1>1. PICK n \in [0..Len(q) -> Nat] : Numbers(s, n, q, b, u)
  BY DEF Numbered
<1>2. PICK l \in Nat, k \in Nat : /\ k <= l /\ l = Len(q) /\ k = Len(p)
                                  /\ DOMAIN q = 1..l /\ DOMAIN p = 1..k
                                  /\ \A i \in 1..k : p[i] = q[i]
  BY Prefixed
<1> DEFINE m == [i \in 0..k |-> n[i]]
<1>3. m \in [0..Len(p) -> Nat]
  BY <1>1, <1>2
<1>4. \A i \in DOMAIN p : /\ m[i] = n[i] /\ m[i - 1] = n[i - 1] /\ i \in DOMAIN q /\ p[i] = q[i]
  BY <1>2
<1>5. m[0] = n[0] /\ \A i \in 0..Len(p) : m[i] <= u
  BY <1>1, <1>2 DEF Numbers
<1> HIDE DEF m
<1>6. Numbers(s, m, p, b, u)
  BY <1>1, <1>4, <1>5 DEF Numbers
<1>7. QED BY <1>3, <1>6 DEF Numbered

LEMMA TailNumbers ==
  ASSUME NEW q \in Seq(Messages), q # <<>>, NEW s, NEW b \in Nat, NEW u \in Nat,
         NEW n \in [0..Len(q) -> Nat], Numbers(s, n, q, b, u),
         NEW c \in Nat, c = b + (IF IsData(Head(q), s) THEN 1 ELSE 0)
  PROVE  /\ c <= u /\ (IsData(Head(q), s) => Head(q).n = c)
         /\ \E m \in [0..Len(Tail(q)) -> Nat] :
              Numbers(s, m, Tail(q), c, u) /\ m[Len(Tail(q))] = n[Len(q)]
<1>1. PICK l \in Nat : /\ l # 0 /\ l = Len(q) /\ l - 1 = Len(Tail(q))
                       /\ DOMAIN q = 1..l /\ DOMAIN Tail(q) = 1..(l - 1)
                       /\ \A i \in 1..(l - 1) : Tail(q)[i] = q[i + 1]
                       /\ Head(q) = q[1]
  BY Tailed
<1> DEFINE m == [i \in 0..(l - 1) |-> n[i + 1]]
<1>2. m \in [0..Len(Tail(q)) -> Nat]
  BY <1>1
<1>3. \A i \in DOMAIN Tail(q) : /\ m[i] = n[i + 1] /\ m[i - 1] = n[(i + 1) - 1]
                               /\ i + 1 \in DOMAIN q /\ Tail(q)[i] = q[i + 1]
  BY <1>1
<1>4. /\ m[0] = n[1] /\ n[1] <= u /\ m[l - 1] = n[l]
      /\ \A i \in 0..(l - 1) : m[i] <= u
  BY <1>1 DEF Numbers
<1>5. n[1] = c /\ (IsData(Head(q), s) => Head(q).n = c)
  <2>1. 1 \in DOMAIN q /\ 1 - 1 = 0
    BY <1>1
  <2>2. /\ n[1] = n[0] + (IF IsData(q[1], s) THEN 1 ELSE 0)
        /\ IsData(q[1], s) => q[1].n = n[1]
    BY <2>1 DEF Numbers
  <2>3. QED BY <1>1, <2>2 DEF Numbers
<1> HIDE DEF m
<1>6. Numbers(s, m, Tail(q), c, u)
  <2>1. \A i \in DOMAIN Tail(q) :
          /\ m[i] = m[i - 1] + (IF IsData(Tail(q)[i], s) THEN 1 ELSE 0)
          /\ IsData(Tail(q)[i], s) => Tail(q)[i].n = m[i]
    BY <1>3 DEF Numbers
  <2>2. QED BY <1>1, <1>4, <1>5, <2>1 DEF Numbers
<1>7. QED BY <1>1, <1>2, <1>4, <1>5, <1>6

LEMMA TailNumbered ==
  ASSUME NEW q \in Seq(Messages), q # <<>>, NEW s, NEW b \in Nat, NEW u \in Nat,
         Numbered(s, q, b, u),
         NEW c \in Nat, c = b + (IF IsData(Head(q), s) THEN 1 ELSE 0)
  PROVE  /\ c <= u /\ (IsData(Head(q), s) => Head(q).n = c)
         /\ Numbered(s, Tail(q), c, u)
         /\ Whole(s, q, b, u) => Whole(s, Tail(q), c, u)
BY TailNumbers DEF Numbered, Whole

(* A message, or some that are aside, at the end of a queue.                  *)
LEMMA JoinNumbers ==
  ASSUME NEW q \in Seq(Messages), NEW s, NEW b \in Nat, NEW u \in Nat,
         NEW n \in [0..Len(q) -> Nat], Numbers(s, n, q, b, u),
         NEW z \in Seq(Messages), \A i \in DOMAIN z : Aside(z[i], s)
  PROVE  \E m \in [0..Len(q \o z) -> Nat] :
           Numbers(s, m, q \o z, b, u) /\ m[Len(q \o z)] = n[Len(q)]
<1>j. /\ Len(q) \in Nat /\ Len(z) \in Nat /\ Len(q \o z) = Len(q) + Len(z)
      /\ DOMAIN q = 1..Len(q) /\ DOMAIN z = 1..Len(z)
      /\ DOMAIN (q \o z) = 1..(Len(q) + Len(z))
      /\ \A i \in 1..Len(q) : (q \o z)[i] = q[i]
      /\ \A i \in 1..Len(z) : (q \o z)[Len(q) + i] = z[i]
  BY ONLY q \in Seq(Messages), z \in Seq(Messages), Joined
<1> DEFINE l == Len(q)
           k == Len(z)
<1>1. /\ l \in Nat /\ k \in Nat /\ l = Len(q) /\ k = Len(z) /\ l + k = Len(q \o z)
      /\ DOMAIN q = 1..l /\ DOMAIN z = 1..k /\ DOMAIN (q \o z) = 1..(l + k)
      /\ \A i \in 1..l : (q \o z)[i] = q[i]
      /\ \A i \in 1..k : (q \o z)[l + i] = z[i]
  BY ONLY <1>j
<1> HIDE DEF l, k
<1> DEFINE a == q \o z
           m == [i \in 0..(l + k) |-> IF i <= l THEN n[i] ELSE n[l]]
<1>0. \A i \in 0..l : n[i] \in Nat
  BY <1>1
<1>2. m \in [0..Len(a) -> Nat]
  BY <1>0, <1>1
<1>3. /\ \A i \in 0..l : m[i] = n[i]
      /\ \A i \in l..(l + k) : m[i] = n[l]
      /\ n[l] \in Nat
  BY <1>0, <1>1
<1>4. \A i \in 0..(l + k) : m[i] <= u
  BY <1>1 DEF Numbers
<1> HIDE DEF m
<1>5. ASSUME NEW i \in DOMAIN a
      PROVE  /\ m[i] = m[i - 1] + (IF IsData(a[i], s) THEN 1 ELSE 0)
             /\ IsData(a[i], s) => a[i].n = m[i]
  <2>1. CASE i \in 1..l
    <3>1. m[i] = n[i] /\ m[i - 1] = n[i - 1] /\ i \in DOMAIN q /\ a[i] = q[i]
      BY <1>1, <1>3, <2>1
    <3>2. QED BY <3>1 DEF Numbers
  <2>2. CASE i \notin 1..l
    <3>1. i - l \in 1..k /\ l + (i - l) = i /\ i \in l..(l + k) /\ i - 1 \in l..(l + k)
      BY <1>1, <2>2
    <3>2. a[i] = z[i - l]
      BY <1>1, <3>1
    <3>3. ~IsData(a[i], s)
      BY <1>1, <3>1, <3>2 DEF Aside
    <3>4. m[i] = n[l] /\ m[i - 1] = n[l] /\ n[l] \in Nat
      BY <1>1, <1>3, <3>1
    <3>5. QED BY ONLY <3>3, <3>4
  <2>3. QED BY <2>1, <2>2
<1>6. m[0] = b /\ m[Len(a)] = n[Len(q)] /\ \A i \in 0..Len(a) : m[i] <= u
  <2>1. 0 \in 0..l /\ l + k \in l..(l + k)
    BY <1>1
  <2>2. m[0] = b /\ m[l + k] = n[l]
    BY <1>3, <2>1 DEF Numbers
  <2>3. Len(a) = l + k /\ Len(q) = l
    BY <1>1
  <2>4. QED BY <1>4, <2>2, <2>3
<1>7. Numbers(s, m, a, b, u)
  BY <1>5, <1>6 DEF Numbers
<1>8. QED BY <1>2, <1>6, <1>7

LEMMA SendWhole ==
  ASSUME NEW q \in Seq(Messages), NEW s, NEW b \in Nat, NEW u \in Nat, Whole(s, q, b, u),
         NEW x \in Messages, NEW v \in Nat, v = u + (IF IsData(x, s) THEN 1 ELSE 0),
         IsData(x, s) => x.n = v
  PROVE  Whole(s, q \o <<x>>, b, v)
<1>1. PICK n \in [0..Len(q) -> Nat] : Numbers(s, n, q, b, u) /\ n[Len(q)] = u
  BY DEF Whole
<1> DEFINE a == q \o <<x>>
<1>2. PICK l \in Nat : /\ l = Len(q) /\ l + 1 = Len(a)
                       /\ DOMAIN q = 1..l /\ DOMAIN a = 1..(l + 1)
                       /\ \A i \in 1..l : a[i] = q[i]
                       /\ a[l + 1] = x
  BY Joined, One
<1> DEFINE m == [i \in 0..(l + 1) |-> IF i <= l THEN n[i] ELSE v]
<1>3. m \in [0..Len(a) -> Nat]
  BY <1>1, <1>2
<1>4. /\ \A i \in 0..l : m[i] = n[i] /\ n[i] \in Nat
      /\ m[l + 1] = v /\ n[l] = u
  BY <1>1, <1>2
<1> HIDE DEF m
<1>5. \A i \in 0..(l + 1) : m[i] <= v
  <2>1. \A i \in 0..l : n[i] <= u
    BY <1>1, <1>2 DEF Numbers
  <2>2. QED BY <1>4, <2>1
<1>6. ASSUME NEW i \in DOMAIN a
      PROVE  /\ m[i] = m[i - 1] + (IF IsData(a[i], s) THEN 1 ELSE 0)
             /\ IsData(a[i], s) => a[i].n = m[i]
  <2>1. CASE i \in 1..l
    <3>1. m[i] = n[i] /\ m[i - 1] = n[i - 1] /\ i \in DOMAIN q /\ a[i] = q[i]
      BY <1>2, <1>4, <2>1
    <3>2. QED BY <1>1, <3>1 DEF Numbers
  <2>2. CASE i = l + 1
    <3>1. m[i] = v /\ m[i - 1] = u /\ a[i] = x
      BY <1>2, <1>4, <2>2
    <3>2. QED BY <3>1
  <2>3. QED BY <1>2, <2>1, <2>2
<1>7. m[0] = b /\ m[Len(a)] = v /\ \A i \in 0..Len(a) : m[i] <= v
  BY <1>1, <1>2, <1>4, <1>5 DEF Numbers
<1>8. Numbers(s, m, a, b, v)
  BY <1>6, <1>7 DEF Numbers
<1>9. QED BY <1>3, <1>7, <1>8 DEF Whole

LEMMA PassNumbered ==
  ASSUME NEW q \in Seq(Messages), NEW p, NEW s, Passes(q, p, s), NEW b \in Nat, NEW u \in Nat
  PROVE  /\ Numbered(s, q, b, u) => Numbered(s, p, b, u)
         /\ Whole(s, q, b, u) => Whole(s, p, b, u)
<1>1. CASE p = q
  BY <1>1
<1>2. CASE q # <<>> /\ Aside(Head(q), s) /\ p = Tail(q)
  <2>1. b = b + (IF IsData(Head(q), s) THEN 1 ELSE 0)
    BY <1>2 DEF Aside
  <2>2. QED BY <1>2, <2>1, TailNumbered, WholeNumbered
<1>3. ASSUME NEW z \in Seq(Messages), \A i \in DOMAIN z : Aside(z[i], s), p = q \o z
      PROVE  /\ Numbered(s, q, b, u) => Numbered(s, p, b, u)
             /\ Whole(s, q, b, u) => Whole(s, p, b, u)
  <2>1. ASSUME NEW n \in [0..Len(q) -> Nat], Numbers(s, n, q, b, u)
        PROVE  \E m \in [0..Len(q \o z) -> Nat] :
                 Numbers(s, m, q \o z, b, u) /\ m[Len(q \o z)] = n[Len(q)]
    <3>1. \A i \in DOMAIN z : Aside(z[i], s)
      BY <1>3
    <3> HIDE <1>3
    <3>2. QED BY <2>1, <3>1, JoinNumbers
  <2>2. /\ Numbered(s, q, b, u) => Numbered(s, q \o z, b, u)
        /\ Whole(s, q, b, u) => Whole(s, q \o z, b, u)
    BY <2>1 DEF Numbered, Whole
  <2>3. QED BY <1>3, <2>2
<1>4. QED BY <1>1, <1>2, <1>3 DEF Passes

-------------------------------------------------------------------------------
LEMMA InvInit == Init => IInv
<1> SUFFICES ASSUME Init PROVE IInv
  OBVIOUS
<1> USE DEF Init
<1>1. /\ toHost \in Seq(Messages) /\ DOMAIN toHost = {}
      /\ toRelay \in Seq(Messages) /\ DOMAIN toRelay = {}
  BY Emptied
<1>2. TypeOK
  <2>1. MaxFrames \in Nat /\ MaxLosses \in Nat
    BY StreamsAssumption
  <2>2. /\ got \in [Streams -> Seq(1..MaxFrames)] /\ read \in [Streams -> Seq(1..MaxFrames)]
        /\ pending \in [Streams -> Seq(Frames)]
    BY EmptySeq
  <2>3. toHost \in Seq(Frames \cup Signs) /\ toRelay \in Seq(Frames \cup Signs)
    BY <1>1 DEF Messages
  <2>4. up \in [Streams -> 0..MaxFrames] /\ down \in [Streams -> 0..MaxFrames] /\ losses \in 0..MaxLosses
    BY <2>1
  <2>5. listIds \subseteq Live /\ client \in [Streams -> {"new", "open", "leaving", "ended"}]
    OBVIOUS
  <2>6. socket \in [Streams -> {"none", "connecting", "open", "closing", "closed"}]
    OBVIOUS
  <2> HIDE DEF Init
  <2>7. QED BY <2>2, <2>3, <2>4, <2>5, <2>6 DEF TypeOK, Init
<1>3. Linked
  BY DEF Linked
<1>4. ASSUME NEW s \in Streams PROVE Frame(s)
  <2>1. NoneOf(toHost, s) /\ NoneOf(toRelay, s)
    BY <1>1 DEF NoneOf
  <2>2. OpensFirst(toHost, s) /\ ~HasOpen(toHost, s)
    BY <1>1 DEF OpensFirst, HasOpen
  <2>3. Untouched(s) /\ Socket(s) /\ OpenFirst(s)
    BY <2>1, <2>2, Emptied DEF Untouched, Socket, OpenFirst
  <2>4. UpNumbered(s) /\ DownNumbered(s)
    BY EmptyNumbered, Emptied DEF UpNumbered, DownNumbered
  <2>5. Ordered(s)
    BY Emptied DEF Ordered, Unbroken
  <2>6. QED BY <2>3, <2>4, <2>5 DEF Frame
<1>5. QED BY <1>2, <1>3, <1>4 DEF IInv

LEMMA Typed ==
  ASSUME TypeOK, NEW s \in Streams
  PROVE  /\ toHost \in Seq(Messages) /\ toRelay \in Seq(Messages)
         /\ up[s] \in Nat /\ down[s] \in Nat
         /\ got[s] \in Seq(1..MaxFrames) /\ read[s] \in Seq(1..MaxFrames)
         /\ pending[s] \in Seq(Frames)
         /\ Len(got[s]) \in Nat /\ Len(read[s]) \in Nat /\ Len(pending[s]) \in Nat
         /\ Len(got[s]) + Len(pending[s]) \in Nat
         /\ MaxFrames \in Nat
<1>1. MaxFrames \in Nat
  BY StreamsAssumption
<1>2. QED BY <1>1, LenProperties DEF TypeOK, Messages

(* A step that leaves s alone, but for its client or its app-server going and *)
(* messages that are aside.                                                   *)
Calm(s) ==
  /\ \/ client'[s] = client[s]
     \/ client[s] # "new" /\ client'[s] \in {"leaving", "ended"}
  /\ \/ socket'[s] = socket[s]
     \/ client[s] # "new" /\ socket'[s] \in {"closing", "closed"}
  /\ up'[s] = up[s] /\ down'[s] = down[s] /\ got'[s] = got[s] /\ read'[s] = read[s]
  /\ pending'[s] = pending[s]
  /\ s \in localStreams' <=> s \in localStreams
  /\ link' = link /\ tunnel' = tunnel
  /\ Passes(toHost, toHost', s) /\ Passes(toRelay, toRelay', s)
  /\ client'[s] = "new" =>
       /\ NoneOf(toHost, s) => NoneOf(toHost', s)
       /\ NoneOf(toRelay, s) => NoneOf(toRelay', s)

LEMMA CalmKeeps ==
  ASSUME TypeOK, NEW s \in Streams, Frame(s), Calm(s)
  PROVE  Frame(s)'
<1> USE DEF Calm
<1>1. /\ toHost \in Seq(Messages) /\ toHost' \in Seq(Messages) /\ Within(toHost', toHost, s)
      /\ toRelay \in Seq(Messages) /\ toRelay' \in Seq(Messages) /\ Within(toRelay', toRelay, s)
  BY Typed, WithinPass
<1>2. /\ client'[s] = "new" => client[s] = "new"
      /\ client'[s] = "open" => client[s] = "open"
  OBVIOUS
<1>3. Untouched(s)'
  BY <1>2 DEF Frame, Untouched
<1>4. Socket(s)'
  BY DEF Frame, Socket
<1>5. OpenFirst(s)'
  BY <1>1, WithinKeeps DEF Frame, OpenFirst
<1>6. UpNumbered(s)'
  <2>1. Served(s)' => Served(s)
    BY <1>1, <1>2, WithinKeeps DEF Served
  <2>2. /\ Len(got'[s]) + Len(pending'[s]) = Len(got[s]) + Len(pending[s])
        /\ Len(got[s]) + Len(pending[s]) \in Nat /\ up[s] \in Nat
    BY Typed
  <2>3. QED BY <1>1, <2>1, <2>2, PassNumbered DEF Frame, UpNumbered
<1>7. DownNumbered(s)'
  BY <1>1, <1>2, Typed, PassNumbered DEF Frame, DownNumbered
<1>8. Ordered(s)'
  BY DEF Frame, Ordered
<1>9. QED BY <1>3, <1>4, <1>5, <1>6, <1>7, <1>8 DEF Frame

-------------------------------------------------------------------------------
(* What a step does to the wires.                                             *)

LEMMA Kept ==
  ASSUME NEW q, NEW s PROVE Passes(q, q, s)
BY DEF Passes

LEMMA Sent ==
  ASSUME TypeOK, NEW z \in Seq(Messages), SendToTunnel(z)
  PROVE  /\ toHost' \in Seq(Messages)
         /\ \A s : (\A i \in DOMAIN z : Aside(z[i], s)) => Passes(toHost, toHost', s)
         /\ \A s : NoneOf(z, s) => /\ Passes(toHost, toHost', s)
                                   /\ NoneOf(toHost, s) => NoneOf(toHost', s)
<1>1. toHost \in Seq(Messages) /\ (toHost' = toHost \/ toHost' = toHost \o z)
  BY DEF TypeOK, Messages, SendToTunnel
<1>2. toHost' \in Seq(Messages)
  <2>1. toHost \o z \in Seq(Messages)
    BY <1>1, Joined
  <2>2. QED BY <1>1, <2>1
<1>3. ASSUME NEW s, \A i \in DOMAIN z : Aside(z[i], s) PROVE Passes(toHost, toHost', s)
  BY <1>1, <1>3 DEF Passes
<1>4. ASSUME NEW s, NoneOf(z, s)
      PROVE  /\ Passes(toHost, toHost', s)
             /\ NoneOf(toHost, s) => NoneOf(toHost', s)
  <2>1. \A i \in DOMAIN z : Aside(z[i], s)
    BY <1>4, AsideOther DEF NoneOf
  <2>2. QED BY <1>1, <1>3, <1>4, <2>1, NoneKeeps
<1>5. QED BY <1>2, <1>3, <1>4

LEMMA SentOne ==
  ASSUME TypeOK, NEW m \in Messages, SendToTunnel(<<m>>)
  PROVE  /\ toHost' \in Seq(Messages)
         /\ toHost' = IF tunnel /\ link THEN toHost \o <<m>> ELSE toHost
         /\ \A s : Aside(m, s) => Passes(toHost, toHost', s)
         /\ \A s : m.id # s => /\ Passes(toHost, toHost', s)
                               /\ NoneOf(toHost, s) => NoneOf(toHost', s)
<1>1. <<m>> \in Seq(Messages) /\ DOMAIN <<m>> = {1} /\ <<m>>[1] = m
  BY One
<1>2. \A s : /\ Aside(m, s) => \A i \in DOMAIN <<m>> : Aside(<<m>>[i], s)
             /\ m.id # s => NoneOf(<<m>>, s)
  BY <1>1 DEF NoneOf
<1>3. QED BY <1>1, <1>2, Sent DEF SendToTunnel

LEMMA SentBack ==
  ASSUME TypeOK, NEW m \in Messages, Send(m)
  PROVE  /\ toRelay' \in Seq(Messages)
         /\ toRelay' = IF link /\ tunnel THEN toRelay \o <<m>> ELSE toRelay
         /\ \A s : Aside(m, s) => Passes(toRelay, toRelay', s)
         /\ \A s : m.id # s => /\ Passes(toRelay, toRelay', s)
                               /\ NoneOf(toRelay, s) => NoneOf(toRelay', s)
<1>1. <<m>> \in Seq(Messages) /\ DOMAIN <<m>> = {1} /\ <<m>>[1] = m
  BY One
<1>2. toRelay \in Seq(Messages)
  BY DEF TypeOK, Messages
<1>3. toRelay' = IF link /\ tunnel THEN toRelay \o <<m>> ELSE toRelay
  BY <1>2, AppendIsConcat DEF Send
<1>4. ASSUME NEW s, Aside(m, s) PROVE Passes(toRelay, toRelay', s)
  BY <1>1, <1>3, <1>4 DEF Passes
<1>5. ASSUME NEW s, m.id # s PROVE NoneOf(toRelay, s) => NoneOf(toRelay', s)
  <2>1. NoneOf(<<m>>, s)
    BY <1>1, <1>5 DEF NoneOf
  <2>2. QED BY <1>1, <1>2, <1>3, <2>1, NoneKeeps
<1>6. QED BY <1>1, <1>2, <1>3, <1>4, <1>5, AsideOther, Joined

LEMMA TookHost ==
  ASSUME TypeOK, NEW m, FromRelay(m)
  PROVE  /\ link /\ toHost # <<>> /\ m = Head(toHost) /\ m \in Messages
         /\ toHost' = Tail(toHost) /\ toHost' \in Seq(Messages)
         /\ Within(toHost', toHost, m.id)
         /\ toHost[1] = m /\ 1 \in DOMAIN toHost
         /\ \A s : Aside(m, s) => Passes(toHost, toHost', s)
         /\ \A s : NoneOf(toHost, s) => NoneOf(toHost', s) /\ s # m.id
<1>1. toHost \in Seq(Messages)
  BY DEF TypeOK, Messages
<1>2. /\ link /\ toHost # <<>> /\ m = Head(toHost) /\ m \in Messages /\ toHost' = Tail(toHost)
  BY <1>1, Taken DEF FromRelay
<1>3. 1 \in DOMAIN toHost /\ toHost[1] = m /\ toHost' \in Seq(Messages)
  BY <1>1, <1>2, Tailed
<1>4. \A s : NoneOf(toHost, s) => NoneOf(toHost', s) /\ s # m.id
  BY <1>1, <1>2, <1>3, NoneKeeps DEF NoneOf
<1>5. QED BY <1>1, <1>2, <1>3, <1>4, WithinTail DEF Passes

LEMMA TookRelay ==
  ASSUME TypeOK, NEW m, FromHost(m)
  PROVE  /\ tunnel /\ toRelay # <<>> /\ m = Head(toRelay) /\ m \in Messages
         /\ toRelay' = Tail(toRelay) /\ toRelay' \in Seq(Messages)
         /\ Within(toRelay', toRelay, m.id)
         /\ toRelay[1] = m /\ 1 \in DOMAIN toRelay
         /\ \A s : Aside(m, s) => Passes(toRelay, toRelay', s)
         /\ \A s : NoneOf(toRelay, s) => NoneOf(toRelay', s) /\ s # m.id
<1>1. toRelay \in Seq(Messages)
  BY DEF TypeOK, Messages
<1>2. /\ tunnel /\ toRelay # <<>> /\ m = Head(toRelay) /\ m \in Messages /\ toRelay' = Tail(toRelay)
  BY <1>1, Taken DEF FromHost
<1>3. 1 \in DOMAIN toRelay /\ toRelay[1] = m /\ toRelay' \in Seq(Messages)
  BY <1>1, <1>2, Tailed
<1>4. \A s : NoneOf(toRelay, s) => NoneOf(toRelay', s) /\ s # m.id
  BY <1>1, <1>2, <1>3, NoneKeeps DEF NoneOf
<1>5. QED BY <1>1, <1>2, <1>3, <1>4, WithinTail DEF Passes

LEMMA Others ==
  ASSUME IInv, TypeOK', Linked', NEW s \in Streams,
         \A r \in Streams \ {s} : Calm(r), Frame(s)'
  PROVE  IInv'
<1>1. \A r \in Streams \ {s} : Frame(r)'
  BY CalmKeeps DEF IInv
<1>2. QED BY <1>1 DEF IInv

LEMMA AllCalm ==
  ASSUME IInv, TypeOK', Linked', \A r \in Streams : Calm(r)
  PROVE  IInv'
<1>1. \A r \in Streams : Frame(r)'
  BY CalmKeeps DEF IInv
<1>2. QED BY <1>1 DEF IInv

LEMMA Sorts ==
  ASSUME NEW s \in Streams
  PROVE  /\ Open(s) \in Messages /\ Close(s) \in Messages
         /\ \A n \in 1..MaxFrames, kind \in Kinds \cup {"ask"}, of \in 0..MaxFrames :
              Data(s, n, kind, of) \in Frames /\ Data(s, n, kind, of) \in Messages
BY DEF Messages, Frames, Signs, Open, Close, Data

LEMMA DataOf ==
  ASSUME NEW s \in Streams, NEW n \in 1..MaxFrames, NEW kind \in Kinds \cup {"ask"},
         NEW of \in 0..MaxFrames, NEW m, m = Data(s, n, kind, of)
  PROVE  /\ m \in Frames /\ m \in Messages /\ IsData(m, s)
         /\ m.id = s /\ m.n = n /\ m.kind = kind /\ m.of = of
BY DEF Messages, Frames, Data, IsData

-------------------------------------------------------------------------------
(* The relay: clients.                                                        *)

LEMMA StepConnect ==
  ASSUME IInv, NEW s \in Streams, Connect(s) PROVE IInv'
<1> USE DEF Connect
<1>1. /\ TypeOK /\ Linked /\ Frame(s) /\ tunnel /\ client[s] = "new"
      /\ client' = [client EXCEPT ![s] = "open"] /\ client'[s] = "open"
      /\ UNCHANGED <<listIds, admitted, tunnel, toRelay, host, peers, losses, history>>
  BY DEF IInv, TypeOK, Accepts
<1> USE DEF host, peers, history
<1>2. /\ toHost' \in Seq(Messages)
      /\ toHost' = IF tunnel /\ link THEN toHost \o <<Open(s)>> ELSE toHost
      /\ \A r : r # s => /\ Passes(toHost, toHost', r)
                         /\ NoneOf(toHost, r) => NoneOf(toHost', r)
  BY <1>1, SentOne, Sorts, Fields
<1>3. TypeOK'
  <2>1. listIds' \subseteq Live'
    BY <1>1 DEF TypeOK, Live
  <2>2. QED BY <1>1, <1>2, <2>1 DEF TypeOK, Messages
<1>4. Linked'
  BY <1>1, <1>2 DEF Linked, TypeOK
<1>5. \A r \in Streams \ {s} : Calm(r)
  <2> TAKE r \in Streams \ {s}
  <2>1. client'[r] = client[r]
    BY <1>1 DEF TypeOK
  <2>2. Passes(toHost, toHost', r) /\ Passes(toRelay, toRelay', r)
    BY <1>1, <1>2, Kept
  <2>3. QED BY <1>1, <1>2, <2>1, <2>2 DEF Calm
<1>6. /\ up[s] = 0 /\ down[s] = 0 /\ got[s] = <<>> /\ read[s] = <<>> /\ pending[s] = <<>>
      /\ socket[s] = "none" /\ s \notin localStreams
      /\ NoneOf(toHost, s) /\ NoneOf(toRelay, s)
  BY <1>1 DEF Frame, Untouched
<1>7. toHost \in Seq(Messages) /\ toRelay \in Seq(Messages) /\ Len(<<>>) = 0 /\ DOMAIN <<>> = {}
  BY <1>1, Typed, Emptied
<1>8. /\ OpensFirst(toHost', s)
      /\ HasOpen(toHost', s) => tunnel /\ link
  <2>1. CASE toHost' = toHost
    BY <1>6, <1>7, <2>1, NoneKeeps
  <2>2. CASE tunnel /\ link /\ toHost' = toHost \o <<Open(s)>>
    <3>1. PICK n \in Nat : /\ DOMAIN toHost = 1..n /\ DOMAIN (toHost \o <<Open(s)>>) = 1..(n + 1)
                           /\ \A i \in 1..n : (toHost \o <<Open(s)>>)[i] = toHost[i]
                           /\ (toHost \o <<Open(s)>>)[n + 1] = Open(s)
      BY <1>7, Joined, One, Sorts
    <3>2. \A i \in 1..n : toHost'[i] # Open(s) /\ ~IsData(toHost'[i], s)
      BY <1>6, <2>2, <3>1, Fields DEF NoneOf, IsData
    <3>3. \A i \in DOMAIN toHost' : ~IsData(toHost'[i], s)
      <4> TAKE i \in DOMAIN toHost'
      <4>1. i \in 1..n \/ (i = n + 1 /\ toHost'[i] = Open(s))
        BY <2>2, <3>1
      <4>2. QED BY <3>2, <4>1, Fields DEF IsData
    <3>5. OpensFirst(toHost', s)
      <4> SUFFICES ASSUME NEW i \in DOMAIN toHost', NEW j \in DOMAIN toHost', j < i
                   PROVE  toHost'[j] # Open(s) /\ ~IsData(toHost'[j], s)
        BY DEF OpensFirst
      <4>1. j \in 1..n
        BY <2>2, <3>1
      <4>2. QED BY <3>2, <4>1
    <3>6. QED BY <2>2, <3>5
  <2>3. QED BY <1>2, <2>1, <2>2
<1>9. Frame(s)'
  <2>1. Untouched(s)' /\ Socket(s)' /\ Ordered(s)'
    BY <1>1, <1>6, <1>7 DEF Untouched, Socket, Ordered, Unbroken
  <2>2. OpenFirst(s)'
    BY <1>1, <1>6, <1>8 DEF OpenFirst
  <2>3. UpNumbered(s)'
    <3>1. Whole(s, toHost, 0, 0) \/ ~(link /\ tunnel)
      BY <1>1, <1>6, <1>7 DEF Frame, UpNumbered, Served
    <3>2. Whole(s, toHost \o <<Open(s)>>, 0, 0) \/ ~(link /\ tunnel)
      <4>1. 0 = 0 + (IF IsData(Open(s), s) THEN 1 ELSE 0)
        BY Fields DEF IsData
      <4>2. QED BY <1>7, <3>1, <4>1, SendWhole, Sorts
    <3>3. Served(s)' => link /\ tunnel
      BY <1>1, <1>6, <1>8 DEF Served
    <3>4. QED BY <1>1, <1>2, <1>6, <1>7, <3>2, <3>3, WholeNumbered DEF UpNumbered
  <2>4. DownNumbered(s)'
    BY <1>1 DEF Frame, DownNumbered
  <2>5. QED BY <2>1, <2>2, <2>3, <2>4 DEF Frame
<1>10. QED BY <1>3, <1>4, <1>5, <1>9, Others

LEMMA NumberedMore ==
  ASSUME NEW q \in Seq(Messages), NEW s, NEW b \in Nat, NEW u \in Nat, NEW v \in Nat, u <= v,
         Numbered(s, q, b, u)
  PROVE  Numbered(s, q, b, v)
<1>1. PICK n \in [0..Len(q) -> Nat] : Numbers(s, n, q, b, u)
  BY DEF Numbered
<1>2. Len(q) \in Nat /\ \A i \in 0..Len(q) : n[i] \in Nat /\ n[i] <= u
  BY <1>1, LenProperties DEF Numbers
<1>3. \A i \in 0..Len(q) : n[i] <= v
  BY <1>2
<1>4. Numbers(s, n, q, b, v)
  BY <1>1, <1>3 DEF Numbers
<1>5. QED BY <1>4 DEF Numbered

LEMMA SendKeeps ==
  ASSUME NEW q \in Seq(Messages), NEW s, NEW m \in Messages, IsData(m, s)
  PROVE  /\ q \o <<m>> \in Seq(Messages)
         /\ OpensFirst(q, s) => OpensFirst(q \o <<m>>, s)
         /\ HasOpen(q \o <<m>>, s) => HasOpen(q, s)
<1> DEFINE a == q \o <<m>>
<1>0. <<m>> \in Seq(Messages) /\ Len(<<m>>) = 1 /\ <<m>>[1] = m /\ 1 \in 1..1
  BY One
<1>1. PICK n \in Nat : /\ DOMAIN q = 1..n /\ DOMAIN a = 1..(n + 1)
                       /\ \A i \in 1..n : a[i] = q[i]
                       /\ a[n + 1] = m
  BY <1>0, Joined
<1>2. m # Open(s) /\ a \in Seq(Messages)
  BY Fields, Joined, One DEF IsData
<1> HIDE DEF a
<1>3. \A i \in DOMAIN a : (i \in DOMAIN q /\ a[i] = q[i]) \/ (i = n + 1 /\ a[i] = m)
  BY <1>1
<1>4. ASSUME OpensFirst(q, s), NEW i \in DOMAIN a, NEW j \in DOMAIN a, a[i] = Open(s), j < i
      PROVE  a[j] # Open(s) /\ ~IsData(a[j], s)
  <2>1. i \in DOMAIN q /\ j \in DOMAIN q /\ a[i] = q[i] /\ a[j] = q[j]
    BY <1>1, <1>2, <1>3, <1>4
  <2>2. QED BY <1>4, <2>1 DEF OpensFirst
<1>5. HasOpen(a, s) => HasOpen(q, s)
  BY <1>2, <1>3 DEF HasOpen
<1>9. OpensFirst(q, s) => OpensFirst(a, s)
  BY <1>4 DEF OpensFirst
<1>10. QED BY <1>2, <1>5, <1>9 DEF a

LEMMA StepClientFrame ==
  ASSUME IInv, NEW s \in Streams, NEW kind \in Kinds, ClientFrame(s, kind) PROVE IInv'
<1> DEFINE m == Data(s, up'[s], kind, 0)
<1>1. /\ TypeOK /\ Linked /\ Frame(s)
      /\ client[s] = "open" /\ up[s] < MaxFrames /\ up' = [up EXCEPT ![s] = up[s] + 1]
      /\ PolicyToClientFrame(s, kind) /\ SendToTunnel(<<m>>)
      /\ UNCHANGED <<client, admitted, tunnel, toRelay, host>>
      /\ UNCHANGED <<down, got, read, asked, losses, history>>
  BY DEF IInv, ClientFrame
<1> USE DEF host, history
<1>2. /\ up[s] \in Nat /\ MaxFrames \in Nat /\ up'[s] = up[s] + 1 /\ up'[s] \in 1..MaxFrames
      /\ \A r \in Streams \ {s} : up'[r] = up[r]
      /\ toHost \in Seq(Messages) /\ toRelay \in Seq(Messages)
      /\ Len(got[s]) + Len(pending[s]) \in Nat
  <2>1. up[s] \in Nat /\ MaxFrames \in Nat /\ up \in [Streams -> 0..MaxFrames]
    BY <1>1, Typed DEF TypeOK
  <2>2. up'[s] = up[s] + 1 /\ \A r \in Streams \ {s} : up'[r] = up[r]
    BY <1>1, <2>1
  <2>3. up[s] + 1 \in 1..MaxFrames
    BY <1>1, <2>1
  <2>4. QED BY <1>1, <2>1, <2>2, <2>3, Typed
<1>3. /\ m \in Messages /\ m.id = s /\ m.n = up'[s] /\ m.kind = kind /\ IsData(m, s)
  BY <1>2, DataOf
<1> HIDE DEF m
<1>4. /\ toHost' \in Seq(Messages)
      /\ toHost' = IF tunnel /\ link THEN toHost \o <<m>> ELSE toHost
      /\ \A r : r # s => /\ Passes(toHost, toHost', r)
                         /\ NoneOf(toHost, r) => NoneOf(toHost', r)
  BY <1>1, <1>3, SentOne
<1>5. listIds' \subseteq listIds \cup {s}
  BY <1>1 DEF PolicyToClientFrame, TypeOK
<1>6. TypeOK'
  <2>1. listIds' \subseteq Live'
    BY <1>1, <1>5 DEF TypeOK, Live
  <2>2. up' \in [Streams -> 0..MaxFrames]
    BY <1>1, <1>2 DEF TypeOK
  <2>3. QED BY <1>1, <1>4, <1>5, <2>1, <2>2 DEF TypeOK, Messages
<1>7. Linked'
  BY <1>1, <1>4 DEF Linked
<1>8. \A r \in Streams \ {s} : Calm(r)
  <2> TAKE r \in Streams \ {s}
  <2>1. Passes(toHost, toHost', r) /\ Passes(toRelay, toRelay', r)
    BY <1>1, <1>4, Kept
  <2>2. QED BY <1>1, <1>2, <1>4, <1>5, <2>1 DEF Calm
<1>9. Frame(s)'
  <2>1. Untouched(s)' /\ Socket(s)' /\ Ordered(s)' /\ DownNumbered(s)'
    BY <1>1 DEF Frame, Untouched, Socket, Ordered, Unbroken, DownNumbered
  <2>2. HasOpen(toHost', s) => HasOpen(toHost, s)
    BY <1>2, <1>3, <1>4, SendKeeps
  <2>3. OpenFirst(s)'
    BY <1>1, <1>2, <1>3, <1>4, <2>2, SendKeeps DEF Frame, OpenFirst
  <2>4. UpNumbered(s)'
    <3> SUFFICES ASSUME Served(s)'
                 PROVE  /\ Numbered(s, toHost', Len(got[s]) + Len(pending[s]), up'[s])
                        /\ link /\ tunnel => Whole(s, toHost', Len(got[s]) + Len(pending[s]), up'[s])
      BY <1>1 DEF UpNumbered
    <3>1. Served(s)
      BY <1>1, <2>2 DEF Served
    <3>2. CASE link /\ tunnel
      <4>1. Whole(s, toHost, Len(got[s]) + Len(pending[s]), up[s])
        BY <1>1, <3>1, <3>2 DEF Frame, UpNumbered
      <4>2. Whole(s, toHost \o <<m>>, Len(got[s]) + Len(pending[s]), up'[s])
        <5>1. up'[s] = up[s] + (IF IsData(m, s) THEN 1 ELSE 0) /\ up'[s] \in Nat
          BY <1>2, <1>3
        <5>2. QED BY <1>2, <1>3, <4>1, <5>1, SendWhole
      <4>3. QED BY <1>4, <3>2, <4>2, WholeNumbered
    <3>3. CASE ~(link /\ tunnel)
      <4>1. Numbered(s, toHost, Len(got[s]) + Len(pending[s]), up[s])
        BY <1>1, <3>1 DEF Frame, UpNumbered
      <4>2. up[s] <= up'[s] /\ up'[s] \in Nat
        BY <1>2
      <4>3. QED BY <1>2, <1>4, <3>3, <4>1, <4>2, NumberedMore
    <3>4. QED BY <3>2, <3>3
  <2>5. QED BY <2>1, <2>3, <2>4 DEF Frame
<1>10. QED BY <1>6, <1>7, <1>8, <1>9, Others

LEMMA StepClientFrameDenied ==
  ASSUME IInv, NEW s \in Streams, NEW kind \in Kinds, ClientFrameDenied(s, kind) PROVE IInv'
<1> USE DEF ClientFrameDenied, wires, host, peers, history
<1>1. TypeOK /\ Linked /\ client[s] = "open"
  BY DEF IInv
<1>2. TypeOK' /\ Linked'
  BY <1>1 DEF TypeOK, Live, Linked, PolicyToClientFrame
<1>3. \A r \in Streams : Calm(r)
  BY Kept DEF Calm
<1>4. QED BY <1>2, <1>3, AllCalm

(* A client that is gone leaves no stream to keep in order.                   *)
LEMMA StepClientLeaves ==
  ASSUME IInv, NEW s \in Streams, ClientLeaves(s) PROVE IInv'
<1> USE DEF ClientLeaves, wires, host, peers, history
<1>1. /\ TypeOK /\ Linked
      /\ client' = [client EXCEPT ![s] = "leaving"] /\ client[s] = "open"
  BY DEF IInv
<1>2. TypeOK'
  <2>1. Live' = Live
    BY <1>1 DEF Live, TypeOK
  <2>2. QED BY <1>1, <2>1 DEF TypeOK
<1>3. Linked'
  BY <1>1 DEF Linked, TypeOK
<1>4. \A r \in Streams : Calm(r)
  <2> TAKE r \in Streams
  <2>1. client'[r] = client[r] \/ (client[r] # "new" /\ client'[r] \in {"leaving", "ended"})
    BY <1>1 DEF TypeOK
  <2>2. QED BY <2>1, Kept DEF Calm
<1>5. QED BY <1>2, <1>3, <1>4, AllCalm

LEMMA Ended ==
  ASSUME TypeOK, NEW S \in SUBSET Live, Ends(S)
  PROVE  /\ client' \in [Streams -> {"new", "open", "leaving", "ended"}]
         /\ listIds' \subseteq Live'
         /\ \A s \in S : client[s] \in {"open", "leaving"} /\ client'[s] = "ended"
         /\ \A s \in Streams \ S : /\ client'[s] = client[s]
                                   /\ s \in listIds' <=> s \in listIds
BY DEF Ends, TypeOK, Live

LEMMA StepClientClosed ==
  ASSUME IInv, NEW s \in Streams, ClientClosed(s) PROVE IInv'
<1> USE DEF host, peers, history
<1>1. /\ TypeOK /\ Linked /\ {s} \in SUBSET Live /\ Ends({s})
      /\ SendToTunnel(<<Close(s)>>)
      /\ UNCHANGED <<admitted, tunnel, toRelay, host, peers, losses, history>>
  BY DEF IInv, ClientClosed, Live
<1>2. /\ toHost' \in Seq(Messages)
      /\ toHost' = IF tunnel /\ link THEN toHost \o <<Close(s)>> ELSE toHost
      /\ \A r : Passes(toHost, toHost', r)
      /\ \A r : r # s => (NoneOf(toHost, r) => NoneOf(toHost', r))
  BY <1>1, SentOne, Sorts, Fields, AsideClose
<1>3. TypeOK'
  BY <1>1, <1>2, Ended DEF TypeOK, Messages
<1>4. Linked'
  BY <1>1, <1>2, Ended DEF Linked
<1>5. \A r \in Streams : Calm(r)
  <2> TAKE r \in Streams
  <2>1. /\ client'[r] = client[r] \/ (client[r] # "new" /\ client'[r] \in {"leaving", "ended"})
        /\ r = s => client'[r] = "ended"
        /\ r # s => (r \in listIds' <=> r \in listIds)
    BY <1>1, Ended
  <2>2. QED BY <1>1, <1>2, <2>1, Kept DEF Calm
<1>6. QED BY <1>3, <1>4, <1>5, AllCalm

LEMMA StepAdmit ==
  ASSUME IInv, Admit PROVE IInv'
<1> USE DEF Admit, wires, host, peers, history
<1>1. TypeOK /\ Linked
  BY DEF IInv
<1>2. TypeOK' /\ Linked'
  BY <1>1 DEF TypeOK, Live, Linked
<1>3. \A r \in Streams : Calm(r)
  BY Kept DEF Calm
<1>4. QED BY <1>2, <1>3, AllCalm

LEMMA Closings ==
  LET z == SetToSeq({Close(s) : s \in Live})
  IN  /\ z \in Seq(Messages)
      /\ \A i \in DOMAIN z : \E s \in Live : z[i] = Close(s)
<1> DEFINE S == {Close(s) : s \in Live}
           c == [s \in Live |-> Close(s)]
<1>1. IsFiniteSet(Live)
  BY StreamsAssumption, FS_Subset DEF Live
<1>2. c \in Surjection(Live, S)
  BY DEF Surjection
<1>3. IsFiniteSet(S)
  BY <1>1, <1>2, FS_Surjection
<1> HIDE DEF S, c
<1>4. Cardinality(S) \in Nat /\ \E f \in [1..Cardinality(S) -> S] : IsInjective(f)
  BY <1>3, FS_CardinalityType DEF ExistsBijection, Bijection, Injection
<1>5. SetToSeq(S) \in [1..Cardinality(S) -> S]
  BY <1>4 DEF SetToSeq
<1>6. S \subseteq Messages
  BY Sorts DEF S, Live
<1>7. SetToSeq(S) \in Seq(Messages)
  BY <1>4, <1>5, <1>6, SeqDef
<1>8. \A i \in DOMAIN SetToSeq(S) : SetToSeq(S)[i] \in S
  BY <1>5
<1>9. QED BY <1>7, <1>8 DEF S

LEMMA StepBar ==
  ASSUME IInv, Bar PROVE IInv'
<1> USE DEF host, peers, history
<1> DEFINE z == SetToSeq({Close(s) : s \in Live})
<1>1. /\ TypeOK /\ Linked /\ Ends(Live) /\ SendToTunnel(z) /\ admitted' = FALSE
      /\ UNCHANGED <<tunnel, toRelay, host, peers, losses, history>>
  BY DEF IInv, Bar
<1>2. z \in Seq(Messages) /\ \A i \in DOMAIN z : \E s \in Live : z[i] = Close(s)
  BY Closings
<1> HIDE DEF z
<1>3. /\ toHost' \in Seq(Messages)
      /\ \A r : Passes(toHost, toHost', r)
      /\ \A r \in Streams \ Live : NoneOf(toHost, r) => NoneOf(toHost', r)
      /\ link \/ toHost' = toHost
  <2>1. \A r : \A i \in DOMAIN z : Aside(z[i], r)
    BY <1>2, AsideClose
  <2>2. \A r \in Streams \ Live : NoneOf(z, r)
    BY <1>2, Fields DEF NoneOf
  <2>3. QED BY <1>1, <1>2, <2>1, <2>2, Sent DEF SendToTunnel
<1>4. TypeOK'
  BY <1>1, <1>3, Ended DEF TypeOK, Messages
<1>5. Linked'
  BY <1>1, <1>3, Ended DEF Linked, Live
<1>6. \A r \in Streams : Calm(r)
  <2> TAKE r \in Streams
  <2>1. CASE r \in Live
    <3>1. client[r] # "new" /\ client'[r] = "ended"
      BY <1>1, <2>1, Ended
    <3>2. QED BY <1>1, <1>3, <3>1, Kept DEF Calm
  <2>2. CASE r \notin Live
    <3>1. client'[r] = client[r] /\ (r \in listIds' <=> r \in listIds)
      BY <1>1, <2>2, Ended
    <3>2. QED BY <1>1, <1>3, <2>2, <3>1, Kept DEF Calm
  <2>3. QED BY <2>1, <2>2
<1>7. QED BY <1>4, <1>5, <1>6, AllCalm

-------------------------------------------------------------------------------
(* The relay: messages of the host.                                           *)

(* A frame for a client brings those it has read up to its number.            *)
LEMMA StepForwardDataToClient ==
  ASSUME IInv, NEW s \in Streams, ForwardDataToClient(s) PROVE IInv'
<1>1. PICK m : /\ m.type = "data" /\ m.id = s /\ FromHost(m)
               /\ IF client[s] = "open"
                  THEN /\ read' = [read EXCEPT ![s] = Append(read[s], m.n)]
                       /\ PolicyToServerFrame(s, m)
                  ELSE UNCHANGED <<read, listIds, used, leaked>>
               /\ UNCHANGED client
  BY DEF ForwardDataToClient
<1>2. /\ TypeOK /\ Linked /\ Frame(s)
      /\ UNCHANGED <<admitted, tunnel, toHost, host, up, down, got, asked, losses, overflowed>>
  BY <1>1 DEF IInv, FromHost
<1> USE DEF host
<1>3. /\ toRelay # <<>> /\ m = Head(toRelay) /\ m \in Messages /\ toRelay \in Seq(Messages)
      /\ toRelay' = Tail(toRelay) /\ toRelay' \in Seq(Messages)
      /\ Within(toRelay', toRelay, s)
      /\ toRelay[1] = m /\ 1 \in DOMAIN toRelay
      /\ \A r \in Streams \ {s} : Passes(toRelay, toRelay', r)
      /\ \A r : NoneOf(toRelay, r) => NoneOf(toRelay', r) /\ r # s
  BY <1>1, <1>2, TookRelay, Typed, AsideOther
<1>4. m \in Frames /\ m.n \in 1..MaxFrames /\ IsData(m, s) /\ IsData(Head(toRelay), s)
  BY <1>1, <1>3 DEF Messages, Frames, Signs, IsData
<1>5. client[s] # "new"
  BY <1>2, <1>3 DEF Frame, Untouched
<1>6. /\ \A r \in Streams \ {s} :
           read'[r] = read[r]
      /\ read' \in [Streams -> Seq(1..MaxFrames)]
      /\ listIds' \subseteq listIds /\ used' \in [Streams -> 0..MaxFrames]
      /\ leaked' \subseteq [id : Streams, of : 0..MaxFrames]
  <2>1. read \in [Streams -> Seq(1..MaxFrames)] /\ Append(read[s], m.n) \in Seq(1..MaxFrames)
    BY <1>2, <1>4, AppendProperties DEF TypeOK
  <2>2. CASE client[s] = "open"
    <3>1. m.of \in 0..MaxFrames /\ up[s] \in 0..MaxFrames
      BY <1>2, <1>4 DEF Frames, TypeOK
    <3>2. read' \in [Streams -> Seq(1..MaxFrames)] /\ \A r \in Streams \ {s} : read'[r] = read[r]
      BY <1>1, <2>1, <2>2
    <3>3. /\ listIds' \subseteq listIds /\ used' \in [Streams -> 0..MaxFrames]
          /\ leaked' \subseteq [id : Streams, of : 0..MaxFrames]
      BY <1>1, <1>2, <2>2, <3>1 DEF PolicyToServerFrame, TypeOK
    <3>4. QED BY <3>2, <3>3
  <2>3. CASE client[s] # "open"
    BY <1>1, <1>2, <2>1, <2>3 DEF TypeOK
  <2>4. QED BY <2>2, <2>3
<1>7. TypeOK'
  <2>1. Live' = Live
    BY <1>1 DEF Live
  <2>2. QED BY <1>1, <1>2, <1>3, <1>6, <2>1 DEF TypeOK, Messages
<1>8. Linked'
  BY <1>1, <1>2 DEF Linked
<1>10. \A r \in Streams \ {s} : Calm(r)
  BY <1>1, <1>2, <1>3, <1>6, Kept DEF Calm
<1>11. Untouched(s)' /\ Socket(s)' /\ OpenFirst(s)' /\ UpNumbered(s)'
  BY <1>1, <1>2, <1>5 DEF Frame, Untouched, Socket, OpenFirst, UpNumbered, Served
<1>12. CASE client[s] # "open"
  <2>1. DownNumbered(s)' /\ Ordered(s)'
    BY <1>1, <1>2, <1>5, <1>12 DEF Frame, DownNumbered, Ordered
  <2>2. QED BY <1>7, <1>8, <1>10, <1>11, <2>1, Others DEF Frame
<1>13. CASE client[s] = "open"
  <2>1. /\ Len(read[s]) \in Nat /\ down[s] \in Nat /\ DOMAIN read[s] = 1..Len(read[s])
        /\ Numbered(s, toRelay, Len(read[s]), down[s])
        /\ read'[s] = Append(read[s], m.n) /\ Len(read'[s]) = Len(read[s]) + 1
        /\ DOMAIN read'[s] = 1..(Len(read[s]) + 1)
        /\ read'[s][Len(read[s]) + 1] = m.n
        /\ \A i \in 1..Len(read[s]) : read'[s][i] = read[s][i]
    <3>1. read[s] \in Seq(1..MaxFrames) /\ read'[s] = Append(read[s], m.n)
      BY <1>1, <1>2, <1>13, Typed DEF TypeOK
    <3>2. /\ read'[s] \in Seq(1..MaxFrames) /\ Len(read'[s]) = Len(read[s]) + 1
          /\ read'[s][Len(read[s]) + 1] = m.n
          /\ \A i \in 1..Len(read[s]) : read'[s][i] = read[s][i]
      BY <1>4, <3>1, AppendProperties
    <3>3. /\ DOMAIN read[s] = 1..Len(read[s]) /\ DOMAIN read'[s] = 1..Len(read'[s])
          /\ Len(read[s]) \in Nat
      BY <3>1, <3>2, LenProperties
    <3>4. Numbered(s, toRelay, Len(read[s]), down[s]) /\ down[s] \in Nat
      BY <1>2, <1>13, Typed DEF Frame, DownNumbered
    <3>5. QED BY <3>1, <3>2, <3>3, <3>4
  <2>2. Len(read[s]) + 1 = Len(read[s]) + (IF IsData(Head(toRelay), s) THEN 1 ELSE 0)
    BY <1>4
  <2>3. /\ m.n = Len(read[s]) + 1
        /\ Numbered(s, toRelay', Len(read[s]) + 1, down[s])
        /\ Whole(s, toRelay, Len(read[s]), down[s]) => Whole(s, toRelay', Len(read[s]) + 1, down[s])
    <3>1. /\ Len(read[s]) \in Nat /\ Len(read[s]) + 1 \in Nat /\ down[s] \in Nat
          /\ Numbered(s, toRelay, Len(read[s]), down[s])
      BY <2>1
    <3>2. toRelay # <<>> /\ toRelay \in Seq(Messages)
      BY <1>3
    <3>3. /\ IsData(Head(toRelay), s) => Head(toRelay).n = Len(read[s]) + 1
          /\ Numbered(s, Tail(toRelay), Len(read[s]) + 1, down[s])
          /\ Whole(s, toRelay, Len(read[s]), down[s]) =>
               Whole(s, Tail(toRelay), Len(read[s]) + 1, down[s])
      BY <2>2, <3>1, <3>2, TailNumbered
    <3>4. QED BY <1>3, <1>4, <3>3
  <2>4. DownNumbered(s)'
    BY <1>1, <1>2, <1>13, <2>1, <2>3 DEF Frame, DownNumbered
  <2>5. Ordered(s)'
    <3>1. \A i \in 1..(Len(read[s]) + 1) : read'[s][i] = i
      <4> TAKE i \in 1..(Len(read[s]) + 1)
      <4>1. CASE i \in 1..Len(read[s])
        BY <1>2, <2>1, <4>1 DEF Frame, Ordered, Unbroken
      <4>2. CASE i = Len(read[s]) + 1
        BY <2>1, <2>3, <4>2
      <4>3. QED BY <2>1, <4>1, <4>2
    <3>2. QED BY <1>2, <2>1, <3>1 DEF Frame, Ordered, Unbroken
  <2>7. QED BY <1>7, <1>8, <1>10, <1>11, <2>4, <2>5, Others DEF Frame
<1>14. QED BY <1>12, <1>13

LEMMA StepCloseFromHost ==
  ASSUME IInv, NEW s \in Streams, CloseFromHost(s) PROVE IInv'
<1>1. /\ TypeOK /\ Linked /\ FromHost(Close(s)) /\ Ends({s} \cap Live)
      /\ UNCHANGED <<read, used, leaked>>
      /\ UNCHANGED <<admitted, tunnel, toHost, host, up, down, got, asked, losses, overflowed>>
      /\ {s} \cap Live \in SUBSET Live
  BY DEF IInv, CloseFromHost, FromHost
<1> USE DEF host
<1>2. /\ toRelay' \in Seq(Messages)
      /\ \A r : /\ Passes(toRelay, toRelay', r)
                /\ NoneOf(toRelay, r) => NoneOf(toRelay', r)
  BY <1>1, TookRelay, AsideClose
<1>3. TypeOK'
  BY <1>1, <1>2, Ended DEF TypeOK, Messages
<1>4. Linked'
  BY <1>1, Ended DEF Linked
<1>5. \A r \in Streams : Calm(r)
  <2> TAKE r \in Streams
  <2>1. CASE r \in {s} \cap Live
    <3>1. client[r] # "new" /\ client'[r] = "ended"
      BY <1>1, <2>1, Ended
    <3>2. QED BY <1>1, <1>2, <3>1, Kept DEF Calm
  <2>2. CASE r \notin {s} \cap Live
    <3>1. client'[r] = client[r] /\ (r \in listIds' <=> r \in listIds)
      BY <1>1, <2>2, Ended
    <3>2. QED BY <1>1, <1>2, <3>1, Kept DEF Calm
  <2>3. QED BY <2>1, <2>2
<1>6. QED BY <1>3, <1>4, <1>5, AllCalm

-------------------------------------------------------------------------------
(* The host: messages of the relay.                                           *)

LEMMA StepOpenLocalStream ==
  ASSUME IInv, NEW s \in Streams, OpenLocalStream(s) PROVE IInv'
<1>1. /\ TypeOK /\ Linked /\ Frame(s) /\ FromRelay(Open(s))
      /\ \/ /\ Send(Close(s))
            /\ UNCHANGED <<localStreams, socket>>
         \/ /\ localStreams' = localStreams \cup {s}
            /\ socket' = [socket EXCEPT ![s] = "connecting"]
            /\ UNCHANGED toRelay
      /\ UNCHANGED <<pending, got, asked, overflowed>>
      /\ UNCHANGED <<relay, link, up, down, read, losses, used, leaked>>
  BY DEF IInv, OpenLocalStream, FromRelay
<1> USE DEF relay
<1>2. /\ link /\ toHost # <<>> /\ Head(toHost) = Open(s) /\ toHost \in Seq(Messages)
      /\ toHost' = Tail(toHost) /\ toHost' \in Seq(Messages) /\ Within(toHost', toHost, s)
      /\ toHost[1] = Open(s) /\ 1 \in DOMAIN toHost
      /\ \A r \in Streams \ {s} : Passes(toHost, toHost', r)
      /\ \A r : NoneOf(toHost, r) => NoneOf(toHost', r) /\ r # s
  <2>1. Open(s).id = s /\ \A r : r # s => Aside(Open(s), r)
    BY AsideOther, Fields
  <2>2. QED BY <1>1, <2>1, TookHost, Typed
<1>3. /\ toRelay' \in Seq(Messages)
      /\ \A r : Passes(toRelay, toRelay', r)
      /\ \A r \in Streams \ {s} : NoneOf(toRelay, r) => NoneOf(toRelay', r)
  <2>1. CASE toRelay' = toRelay
    BY <1>1, <2>1, Kept, Typed
  <2>2. CASE Send(Close(s))
    <3>1. Close(s) \in Messages /\ Close(s).id = s /\ \A r : Aside(Close(s), r)
      BY Sorts, Fields, AsideClose
    <3>2. TypeOK
      BY <1>1
    <3>3. QED BY <2>2, <3>1, <3>2, SentBack
  <2>3. QED BY <1>1, <2>1, <2>2
<1>4. /\ \A r \in Streams \ {s} : /\ socket'[r] = socket[r]
                                  /\ r \in localStreams' <=> r \in localStreams
      /\ socket' \in [Streams -> {"none", "connecting", "open", "closing", "closed"}]
      /\ localStreams' \subseteq Streams
  BY <1>1 DEF TypeOK
<1>5. TypeOK'
  BY <1>1, <1>2, <1>3, <1>4 DEF TypeOK, Messages, Live
<1>6. Linked'
  BY <1>1, <1>2 DEF Linked
<1>7. \A r \in Streams \ {s} : Calm(r)
  BY <1>1, <1>2, <1>3, <1>4 DEF Calm
<1>8. /\ client[s] # "new" /\ s \notin localStreams /\ pending[s] = <<>>
      /\ HasOpen(toHost, s)
  BY <1>1, <1>2 DEF Frame, Untouched, OpenFirst, HasOpen
<1>9. ~HasOpen(toHost', s)
  <2>1. PICK n \in Nat : /\ DOMAIN toHost = 1..n /\ DOMAIN toHost' = 1..(n - 1)
                         /\ \A i \in 1..(n - 1) : toHost'[i] = toHost[i + 1]
    BY <1>2, Tailed
  <2>2. \A i \in DOMAIN toHost' : i + 1 \in DOMAIN toHost /\ 1 < i + 1 /\ toHost'[i] = toHost[i + 1]
    BY <2>1
  <2>3. OpensFirst(toHost, s)
    BY <1>1 DEF Frame, OpenFirst
  <2>4. QED BY <1>2, <2>2, <2>3 DEF HasOpen, OpensFirst
<1>10. Frame(s)'
  <2>1. Untouched(s)' /\ Ordered(s)'
    BY <1>1, <1>8 DEF Frame, Untouched, Ordered
  <2>2. Socket(s)'
    <3>1. socket[s] \notin {"connecting", "open"}
      BY <1>1, <1>8 DEF Frame, Socket
    <3>2. socket'[s] \in {"connecting", "open"} => socket'[s] = "connecting" /\ s \in localStreams'
      BY <1>1, <3>1 DEF TypeOK
    <3>3. DOMAIN pending'[s] = {}
      BY <1>1, <1>8, Emptied
    <3>4. QED BY <3>2, <3>3 DEF Socket
  <2>3. OpenFirst(s)'
    BY <1>1, <1>2, <1>9, WithinKeeps DEF Frame, OpenFirst
  <2>4. UpNumbered(s)'
    <3>1. Len(got[s]) + Len(pending[s]) =
            Len(got[s]) + Len(pending[s]) + (IF IsData(Head(toHost), s) THEN 1 ELSE 0)
      <4>1. ~IsData(Head(toHost), s)
        BY <1>2, Fields DEF IsData
      <4>2. QED BY <1>1, <4>1, Typed
    <3>2. /\ Numbered(s, toHost, Len(got[s]) + Len(pending[s]), up[s])
          /\ link /\ tunnel => Whole(s, toHost, Len(got[s]) + Len(pending[s]), up[s])
      BY <1>1, <1>8 DEF Frame, UpNumbered, Served
    <3>3. /\ Numbered(s, toHost', Len(got[s]) + Len(pending[s]), up[s])
          /\ link /\ tunnel => Whole(s, toHost', Len(got[s]) + Len(pending[s]), up[s])
      BY <1>1, <1>2, <3>1, <3>2, Typed, TailNumbered
    <3>4. QED BY <1>1, <3>3 DEF UpNumbered
  <2>5. DownNumbered(s)'
    BY <1>1, <1>3, Typed, PassNumbered DEF Frame, DownNumbered
  <2>6. QED BY <2>1, <2>2, <2>3, <2>4, <2>5 DEF Frame
<1>11. QED BY <1>5, <1>6, <1>7, <1>10, Others

LEMMA ClosedLocal ==
  ASSUME TypeOK, NEW S \in SUBSET Streams, CloseLocal(S)
  PROVE  /\ localStreams' = localStreams \ S
         /\ socket' \in [Streams -> {"none", "connecting", "open", "closing", "closed"}]
         /\ pending' \in [Streams -> Seq(Frames)]
         /\ \A s \in S : pending'[s] = <<>> /\ socket'[s] \notin {"connecting", "open"}
         /\ \A s \in Streams \ S : pending'[s] = pending[s] /\ socket'[s] = socket[s]
<1>1. <<>> \in Seq(Frames)
  BY EmptySeq
<1>2. QED BY <1>1 DEF CloseLocal, TypeOK

(* A stream the host has lost, or never had.                                  *)
Cut(s) ==
  /\ client[s] # "new"
  /\ client'[s] = client[s] \/ client'[s] \in {"leaving", "ended"}
  /\ up'[s] = up[s] /\ down'[s] = down[s] /\ got'[s] = got[s] /\ read'[s] = read[s]
  /\ pending'[s] \in {<<>>, pending[s]}
  /\ s \notin localStreams' /\ socket'[s] \notin {"connecting", "open"}
  /\ toHost' \in Seq(Messages) /\ Within(toHost', toHost, s) /\ ~HasOpen(toHost', s)
  /\ toRelay' \in Seq(Messages) /\ Within(toRelay', toRelay, s)

LEMMA CutKeeps ==
  ASSUME TypeOK, NEW s \in Streams, Frame(s), Cut(s), DownNumbered(s)'
  PROVE  Frame(s)'
<1> USE DEF Cut
<1>1. toHost \in Seq(Messages) /\ toRelay \in Seq(Messages) /\ client'[s] # "new"
  BY Typed
<1>2. Untouched(s)' /\ UpNumbered(s)' /\ Ordered(s)'
  BY <1>1 DEF Frame, Untouched, UpNumbered, Served, Ordered
<1>3. Socket(s)'
  <2>1. CASE pending'[s] = <<>>
    BY <2>1, Emptied DEF Socket
  <2>2. CASE pending'[s] = pending[s]
    BY <2>2 DEF Frame, Socket
  <2>3. QED BY <2>1, <2>2
<1>4. OpenFirst(s)'
  BY <1>1, WithinKeeps DEF Frame, OpenFirst
<1>5. QED BY <1>2, <1>3, <1>4 DEF Frame

(* Frames that follow those the app-server has received leave them unbroken.  *)
LEMMA Received ==
  ASSUME TypeOK, NEW s \in Streams, NEW frames \in Seq(Frames), Receives(s, frames)
  PROVE  /\ got' \in [Streams -> Seq(1..MaxFrames)]
         /\ asked' \in [Streams -> SUBSET (1..MaxFrames)]
         /\ \A r \in Streams \ {s} : got'[r] = got[r] /\ asked'[r] = asked[r]
         /\ \A n \in asked'[s] \ asked[s] :
              \E i \in DOMAIN frames : frames[i].kind = "list" /\ frames[i].n = n
         /\ Len(got'[s]) = Len(got[s]) + Len(frames)
         /\ /\ Unbroken(got[s])
            /\ \A i \in DOMAIN frames : frames[i].n = Len(got[s]) + i
            => Unbroken(got'[s])
<1> DEFINE g == [i \in DOMAIN frames |-> frames[i].n]
<1>1. /\ got \in [Streams -> Seq(1..MaxFrames)] /\ got[s] \in Seq(1..MaxFrames)
      /\ Len(frames) \in Nat /\ DOMAIN frames = 1..Len(frames)
  BY LenProperties DEF TypeOK
<1>2. g \in [1..Len(frames) -> 1..MaxFrames]
  <2>1. \A i \in 1..Len(frames) : frames[i].n \in 1..MaxFrames
    <3>1. \A i \in 1..Len(frames) : frames[i] \in Frames
      BY ElementOfSeq
    <3>2. QED BY <3>1 DEF Frames
  <2>2. QED BY <1>1, <2>1
<1>3. g \in Seq(1..MaxFrames) /\ Len(g) = Len(frames)
  <2>1. g \in Seq(1..MaxFrames)
    BY <1>1, <1>2, SeqDef
  <2>2. DOMAIN g = 1..Len(frames) /\ Len(g) \in Nat /\ DOMAIN g = 1..Len(g)
    BY <1>1, <2>1, LenProperties
  <2>3. QED BY <1>1, <2>1, <2>2
<1>4. \A i \in DOMAIN frames : g[i] = frames[i].n
  OBVIOUS
<1> HIDE DEF g
<1>5. got' = [got EXCEPT ![s] = got[s] \o g]
  BY DEF Receives, g
<1>a. /\ asked' \in [Streams -> SUBSET (1..MaxFrames)]
      /\ \A r \in Streams \ {s} : asked'[r] = asked[r]
      /\ \A n \in asked'[s] \ asked[s] :
           \E i \in DOMAIN frames : frames[i].kind = "list" /\ frames[i].n = n
  <2> DEFINE N == {f.n : f \in {x \in ToSet(frames) : x.kind = "list"}}
  <2>1. \A n \in N : \E i \in DOMAIN frames : frames[i].kind = "list" /\ frames[i].n = n
    BY DEF ToSet
  <2>0. asked' = [asked EXCEPT ![s] = asked[s] \cup N]
    BY DEF Receives
  <2> HIDE DEF N
  <2>2. N \subseteq 1..MaxFrames
    <3>1. \A i \in DOMAIN frames : frames[i] \in Frames
      BY <1>1, ElementOfSeq
    <3>2. QED BY <2>1, <3>1 DEF Frames
  <2>3. asked \in [Streams -> SUBSET (1..MaxFrames)]
    BY DEF TypeOK
  <2>4. QED BY <2>0, <2>1, <2>2, <2>3
<1>6. PICK n \in Nat, k \in Nat :
        /\ n = Len(got[s]) /\ k = Len(frames) /\ got[s] \o g \in Seq(1..MaxFrames)
        /\ Len(got[s] \o g) = n + k /\ DOMAIN (got[s] \o g) = 1..(n + k)
        /\ DOMAIN got[s] = 1..n /\ DOMAIN frames = 1..k
        /\ \A i \in 1..n : (got[s] \o g)[i] = got[s][i]
        /\ \A i \in 1..k : (got[s] \o g)[n + i] = g[i]
  <2>1. /\ got[s] \o g \in Seq(1..MaxFrames) /\ Len(got[s]) \in Nat
        /\ Len(got[s] \o g) = Len(got[s]) + Len(g)
        /\ DOMAIN (got[s] \o g) = 1..Len(got[s]) + Len(g)
        /\ DOMAIN got[s] = 1..Len(got[s])
        /\ \A i \in 1..Len(got[s]) : (got[s] \o g)[i] = got[s][i]
        /\ \A i \in 1..Len(g) : (got[s] \o g)[Len(got[s]) + i] = g[i]
    <3>1. got[s] \in Seq(1..MaxFrames) /\ g \in Seq(1..MaxFrames)
      BY <1>1, <1>3
    <3>2. QED BY ONLY <3>1, Joined
  <2>2. QED BY <1>1, <1>3, <2>1
<1>7. got' \in [Streams -> Seq(1..MaxFrames)] /\ got'[s] = got[s] \o g
  BY <1>1, <1>5, <1>6
<1>8. ASSUME Unbroken(got[s]), \A i \in DOMAIN frames : frames[i].n = Len(got[s]) + i
      PROVE  Unbroken(got[s] \o g)
  <2> SUFFICES ASSUME NEW i \in 1..(n + k) PROVE (got[s] \o g)[i] = i
    BY <1>6 DEF Unbroken
  <2>1. CASE i \in 1..n
    BY <1>6, <1>8, <2>1 DEF Unbroken
  <2>2. CASE i \notin 1..n
    <3>1. i - n \in 1..k /\ n + (i - n) = i
      BY <1>6, <2>2
    <3>2. (got[s] \o g)[i] = g[i - n] /\ g[i - n] = n + (i - n)
      BY <1>4, <1>6, <1>8, <3>1
    <3>3. QED BY <3>1, <3>2
  <2>3. QED BY <2>1, <2>2
<1>9. QED BY <1>1, <1>3, <1>a, <1>5, <1>6, <1>7, <1>8 DEF TypeOK

LEMMA StepForwardDataToLocal ==
  ASSUME IInv, NEW s \in Streams, ForwardDataToLocal(s) PROVE IInv'
<1>1. PICK m :
        /\ m.type = "data" /\ m.id = s /\ FromRelay(m)
        /\ UNCHANGED toRelay
        /\ \/ /\ s \notin localStreams
              /\ UNCHANGED <<localStreams, socket, pending, got, asked, overflowed>>
           \/ /\ s \in localStreams /\ socket[s] = "open"
              /\ Receives(s, <<m>>)
              /\ UNCHANGED <<localStreams, socket, pending, overflowed>>
           \/ /\ s \in localStreams /\ socket[s] # "open"
              /\ pending' = [pending EXCEPT ![s] = Append(pending[s], m)]
              /\ UNCHANGED <<localStreams, socket, got, asked, overflowed>>
           \/ /\ s \in localStreams /\ CloseLocal({s})
              /\ overflowed' = overflowed \cup {s}
              /\ UNCHANGED <<got, asked>>
  BY DEF ForwardDataToLocal
<1>2. /\ TypeOK /\ Linked /\ Frame(s)
      /\ UNCHANGED <<relay, link, up, down, read, losses, used, leaked>>
  BY <1>1 DEF IInv, FromRelay
<1> USE DEF relay
<1>3. /\ link /\ toHost # <<>> /\ m = Head(toHost) /\ m \in Messages /\ toHost \in Seq(Messages)
      /\ toHost' = Tail(toHost) /\ toHost' \in Seq(Messages) /\ Within(toHost', toHost, s)
      /\ toHost[1] = m /\ 1 \in DOMAIN toHost
      /\ \A r \in Streams \ {s} : Passes(toHost, toHost', r)
      /\ \A r : NoneOf(toHost, r) => NoneOf(toHost', r) /\ r # s
      /\ toRelay \in Seq(Messages)
  BY <1>1, <1>2, TookHost, Typed, AsideOther
<1>4. m \in Frames /\ IsData(m, s) /\ IsData(Head(toHost), s)
  BY <1>1, <1>3 DEF Messages, Frames, Signs, IsData
<1>5. client[s] # "new"
  BY <1>2, <1>3 DEF Frame, Untouched
<1>6. ~HasOpen(toHost', s)
  <2>1. PICK n \in Nat : /\ DOMAIN toHost = 1..n /\ DOMAIN toHost' = 1..(n - 1)
                         /\ \A i \in 1..(n - 1) : toHost'[i] = toHost[i + 1]
    BY <1>3, Tailed
  <2>2. \A i \in DOMAIN toHost' : i + 1 \in DOMAIN toHost /\ 1 < i + 1 /\ toHost'[i] = toHost[i + 1]
    BY <2>1
  <2>3. QED BY <1>2, <1>3, <1>4, <2>2 DEF Frame, OpenFirst, HasOpen, OpensFirst
<1>7. Within(toRelay', toRelay, s)
  BY <1>1, <1>3, WithinPass, Kept
<1>8. DownNumbered(s)' /\ Linked'
  BY <1>1, <1>2, <1>3, ClosedLocal DEF Frame, DownNumbered, Linked
<1>9. ASSUME /\ localStreams' \subseteq localStreams
             /\ socket' \in [Streams -> {"none", "connecting", "open", "closing", "closed"}]
             /\ pending' \in [Streams -> Seq(Frames)]
             /\ got' \in [Streams -> Seq(1..MaxFrames)]
             /\ asked' \in [Streams -> SUBSET (1..MaxFrames)] /\ overflowed' \subseteq Streams
             /\ \A r \in Streams \ {s} : /\ socket'[r] = socket[r] /\ pending'[r] = pending[r]
                                         /\ got'[r] = got[r]
                                         /\ r \in localStreams' <=> r \in localStreams,
             Frame(s)'
      PROVE  IInv'
  <2>1. TypeOK'
    BY <1>1, <1>2, <1>3, <1>9 DEF TypeOK, Messages, Live
  <2>2. \A r \in Streams \ {s} : Calm(r)
    BY <1>1, <1>2, <1>3, <1>9, Kept DEF Calm
  <2>3. QED BY <1>8, <1>9, <2>1, <2>2, Others
<1>10. CASE /\ s \notin localStreams
            /\ UNCHANGED <<localStreams, socket, pending, got, asked, overflowed>>
  <2>1. socket[s] \notin {"connecting", "open"}
    BY <1>2, <1>10 DEF Frame, Socket
  <2>2. Cut(s)
    BY <1>1, <1>2, <1>3, <1>5, <1>6, <1>7, <1>10, <2>1 DEF Cut
  <2>3. Frame(s)'
    BY <1>2, <1>8, <2>2, CutKeeps
  <2>4. QED BY <1>2, <1>9, <1>10, <2>3 DEF TypeOK
<1>11. CASE /\ s \in localStreams /\ CloseLocal({s})
            /\ overflowed' = overflowed \cup {s}
            /\ UNCHANGED <<got, asked>>
  <2>1. /\ localStreams' = localStreams \ {s}
        /\ socket' \in [Streams -> {"none", "connecting", "open", "closing", "closed"}]
        /\ pending' \in [Streams -> Seq(Frames)]
        /\ pending'[s] = <<>> /\ socket'[s] \notin {"connecting", "open"}
        /\ \A r \in Streams \ {s} : pending'[r] = pending[r] /\ socket'[r] = socket[r]
    BY <1>2, <1>11, ClosedLocal
  <2>2. Cut(s)
    BY <1>1, <1>2, <1>3, <1>5, <1>6, <1>7, <1>11, <2>1 DEF Cut
  <2>3. Frame(s)'
    BY <1>2, <1>8, <2>2, CutKeeps
  <2>4. QED BY <1>2, <1>9, <1>11, <2>1, <2>3 DEF TypeOK
<1>12. ASSUME s \in localStreams
       PROVE  /\ m.n = Len(got[s]) + Len(pending[s]) + 1
              /\ Numbered(s, toHost', Len(got[s]) + Len(pending[s]) + 1, up[s])
              /\ link /\ tunnel => Whole(s, toHost', Len(got[s]) + Len(pending[s]) + 1, up[s])
  <2> DEFINE b == Len(got[s]) + Len(pending[s])
  <2>1. b \in Nat /\ b + 1 \in Nat /\ up[s] \in Nat
    <3>1. b \in Nat /\ up[s] \in Nat
      BY <1>2, Typed
    <3> HIDE DEF b
    <3>2. QED BY <3>1
  <2>2. Numbered(s, toHost, b, up[s]) /\ (link /\ tunnel => Whole(s, toHost, b, up[s]))
    BY <1>2, <1>12 DEF Frame, UpNumbered, Served
  <2> HIDE DEF b
  <2>3. b + 1 = b + (IF IsData(Head(toHost), s) THEN 1 ELSE 0)
    BY <1>4
  <2>4. /\ IsData(Head(toHost), s) => Head(toHost).n = b + 1
        /\ Numbered(s, Tail(toHost), b + 1, up[s])
        /\ Whole(s, toHost, b, up[s]) => Whole(s, Tail(toHost), b + 1, up[s])
    <3>1. toHost \in Seq(Messages) /\ toHost # <<>>
      BY <1>3
    <3>2. QED BY <2>1, <2>2, <2>3, <3>1, TailNumbered
  <2>5. QED BY <1>3, <1>4, <2>2, <2>4 DEF b
<1>14. OpensFirst(toHost', s) /\ Untouched(s)'
  BY <1>2, <1>3, <1>5, WithinKeeps DEF Frame, OpenFirst, Untouched
<1>15. CASE /\ s \in localStreams /\ socket[s] = "open"
            /\ Receives(s, <<m>>)
            /\ UNCHANGED <<localStreams, socket, pending, overflowed>>
  <2>1. <<m>> \in Seq(Frames) /\ Len(<<m>>) = 1 /\ DOMAIN <<m>> = {1} /\ <<m>>[1] = m
    BY <1>4, One
  <2>2. pending[s] = <<>> /\ Len(pending[s]) = 0 /\ Len(got[s]) \in Nat
    BY <1>2, <1>15, Emptied, Typed DEF Frame, Socket
  <2>3. /\ got' \in [Streams -> Seq(1..MaxFrames)]
        /\ asked' \in [Streams -> SUBSET (1..MaxFrames)]
        /\ \A r \in Streams \ {s} : got'[r] = got[r]
        /\ Len(got'[s]) = Len(got[s]) + 1
        /\ Unbroken(got'[s])
    <3>1. \A i \in DOMAIN <<m>> : <<m>>[i].n = Len(got[s]) + i
      BY <1>12, <1>15, <2>1, <2>2
    <3>2. Unbroken(got[s])
      BY <1>2 DEF Frame, Ordered
    <3>3. QED BY <1>2, <1>15, <2>1, <3>1, <3>2, Received
  <2>4. Socket(s)' /\ OpenFirst(s)' /\ Ordered(s)'
    BY <1>2, <1>6, <1>14, <1>15, <2>2, <2>3, Emptied DEF Frame, Socket, OpenFirst, Ordered
  <2>5. UpNumbered(s)'
    <3>1. Len(got'[s]) + Len(pending'[s]) = Len(got[s]) + Len(pending[s]) + 1
      BY <1>15, <2>2, <2>3
    <3>2. QED BY <1>2, <1>12, <1>15, <3>1 DEF UpNumbered
  <2>7. Frame(s)'
    BY <1>8, <1>14, <2>4, <2>5 DEF Frame
  <2>8. QED BY <1>2, <1>9, <1>15, <2>3, <2>7 DEF TypeOK
<1>16. CASE /\ s \in localStreams /\ socket[s] # "open"
            /\ pending' = [pending EXCEPT ![s] = Append(pending[s], m)]
            /\ UNCHANGED <<localStreams, socket, got, asked, overflowed>>
  <2>1. PICK n \in Nat :
          /\ n = Len(pending[s]) /\ pending'[s] = Append(pending[s], m)
          /\ pending'[s] \in Seq(Frames) /\ Len(pending'[s]) = n + 1
          /\ DOMAIN pending[s] = 1..n /\ DOMAIN pending'[s] = 1..(n + 1)
          /\ \A i \in 1..n : pending'[s][i] = pending[s][i]
          /\ pending'[s][n + 1] = m
    <3>1. pending[s] \in Seq(Frames) /\ pending'[s] = Append(pending[s], m)
      BY <1>2, <1>16 DEF TypeOK
    <3>2. QED BY <1>4, <3>1, AppendProperties, LenProperties
  <2>2. /\ pending' \in [Streams -> Seq(Frames)]
        /\ \A r \in Streams \ {s} : pending'[r] = pending[r]
    BY <1>2, <1>16, <2>1 DEF TypeOK
  <2>3. /\ Len(got[s]) \in Nat /\ got' = got /\ Len(got'[s]) = Len(got[s])
        /\ m.n = Len(got[s]) + (n + 1)
        /\ Len(got'[s]) + Len(pending'[s]) = Len(got[s]) + Len(pending[s]) + 1
    <3>1. Len(got[s]) \in Nat /\ got' = got
      BY <1>2, <1>16, Typed
    <3>2. m.n = Len(got[s]) + Len(pending[s]) + 1
      BY <1>12, <1>16
    <3>3. n \in Nat /\ n = Len(pending[s]) /\ Len(pending'[s]) = n + 1
      BY <2>1
    <3>4. Len(got'[s]) = Len(got[s])
      BY <3>1
    <3>5. PICK g \in Nat : g = Len(got[s])
      BY <3>1
    <3>6. m.n = g + (n + 1) /\ Len(got'[s]) + Len(pending'[s]) = g + n + 1
      <4>0. n \in Nat /\ g \in Nat
        OBVIOUS
      <4>1. g + n + 1 = g + (n + 1)
        BY ONLY <4>0
      <4>2. m.n = g + n + 1
        BY <3>2, <3>3, <3>5
      <4>3. Len(got'[s]) + Len(pending'[s]) = g + (n + 1)
        BY <3>3, <3>4, <3>5
      <4>4. QED BY <4>1, <4>2, <4>3
    <3>7. QED BY <3>1, <3>3, <3>4, <3>5, <3>6
  <2>4. Socket(s)'
    <3>1. ASSUME NEW i \in DOMAIN pending'[s] PROVE pending'[s][i].n = Len(got'[s]) + i
      <4>1. CASE i \in 1..n
        BY <1>2, <1>16, <2>1, <4>1 DEF Frame, Socket
      <4>2. CASE i = n + 1
        BY <2>1, <2>3, <4>2
      <4>3. QED BY <2>1, <4>1, <4>2
    <3>2. QED BY <1>2, <1>16, <3>1 DEF Frame, Socket
  <2>5. OpenFirst(s)' /\ Ordered(s)'
    BY <1>2, <1>6, <1>14, <1>16 DEF Frame, OpenFirst, Ordered
  <2>6. UpNumbered(s)'
    <3>1. Len(got'[s]) + Len(pending'[s]) = Len(got[s]) + Len(pending[s]) + 1
      BY <2>3
    <3>2. QED BY <1>2, <1>12, <1>16, <3>1 DEF UpNumbered
  <2>8. Frame(s)'
    BY <1>8, <1>14, <2>4, <2>5, <2>6 DEF Frame
  <2>9. QED BY <1>2, <1>9, <1>16, <2>2, <2>8 DEF TypeOK
<1>17. QED BY <1>1, <1>10, <1>11, <1>15, <1>16

LEMMA StepCloseFromRelay ==
  ASSUME IInv, NEW s \in Streams, CloseFromRelay(s) PROVE IInv'
<1>1. /\ TypeOK /\ Linked /\ Frame(s)
      /\ FromRelay(Close(s)) /\ CloseLocal({s} \cap localStreams)
      /\ UNCHANGED <<toRelay, got, asked, overflowed>>
      /\ UNCHANGED <<relay, link, up, down, read, losses, used, leaked>>
  BY DEF IInv, CloseFromRelay, FromRelay
<1> USE DEF relay
<1>2. /\ link /\ toHost \in Seq(Messages) /\ toHost' \in Seq(Messages)
      /\ Within(toHost', toHost, s)
      /\ \A r : /\ Passes(toHost, toHost', r)
                /\ NoneOf(toHost, r) => NoneOf(toHost', r)
  <2>1. Close(s).id = s /\ \A r : Aside(Close(s), r)
    BY Fields, AsideClose
  <2>2. QED BY <1>1, <2>1, TookHost, Typed
<1>3. /\ localStreams' = localStreams \ ({s} \cap localStreams)
      /\ socket' \in [Streams -> {"none", "connecting", "open", "closing", "closed"}]
      /\ pending' \in [Streams -> Seq(Frames)]
      /\ s \in localStreams => pending'[s] = <<>> /\ socket'[s] \notin {"connecting", "open"}
      /\ \A r \in Streams \ ({s} \cap localStreams) :
           pending'[r] = pending[r] /\ socket'[r] = socket[r]
  BY <1>1, ClosedLocal
<1>4. TypeOK' /\ Linked'
  BY <1>1, <1>2, <1>3 DEF TypeOK, Messages, Live, Linked
<1>5. \A r \in Streams \ ({s} \cap localStreams) : Calm(r)
  BY <1>1, <1>2, <1>3, Kept DEF Calm
<1>6. CASE s \notin localStreams
  BY <1>4, <1>5, <1>6, AllCalm
<1>7. CASE s \in localStreams
  <2>1. client[s] # "new" /\ ~HasOpen(toHost, s)
    BY <1>1, <1>7 DEF Frame, Untouched, OpenFirst
  <2>2. ~HasOpen(toHost', s)
    BY <1>2, <2>1, WithinKeeps
  <2>3. toRelay \in Seq(Messages) /\ Within(toRelay', toRelay, s)
    BY <1>1, Typed, WithinPass, Kept
  <2>4. Cut(s)
    BY <1>1, <1>2, <1>3, <1>7, <2>1, <2>2, <2>3 DEF Cut
  <2>5. DownNumbered(s)'
    BY <1>1 DEF Frame, DownNumbered
  <2>6. QED BY <1>1, <1>4, <1>5, <2>4, <2>5, CutKeeps, Others
<1>8. QED BY <1>6, <1>7

-------------------------------------------------------------------------------
(* The host: events of the app-server's socket.                               *)

LEMMA StepOpened ==
  ASSUME IInv, NEW s \in Streams, Opened(s) PROVE IInv'
<1>1. /\ TypeOK /\ Linked /\ Frame(s)
      /\ socket[s] = "connecting" /\ socket' = [socket EXCEPT ![s] = "open"]
      /\ Receives(s, pending[s])
      /\ pending' = [pending EXCEPT ![s] = <<>>]
      /\ UNCHANGED <<localStreams, toRelay, down>>
      /\ UNCHANGED <<relay, toHost, link, up, read, losses, history>>
  BY DEF IInv, Opened, LocalEvent
<1> USE DEF relay, history
<1>2. /\ pending[s] \in Seq(Frames) /\ <<>> \in Seq(Frames) /\ Len(<<>>) = 0 /\ DOMAIN <<>> = {}
      /\ Len(got[s]) \in Nat /\ Len(pending[s]) \in Nat
  BY <1>1, Typed, Emptied
<1>3. /\ s \in localStreams
      /\ \A i \in DOMAIN pending[s] : pending[s][i].n = Len(got[s]) + i
      /\ Unbroken(got[s])
  BY <1>1 DEF Frame, Socket, Ordered
<1>4. /\ got' \in [Streams -> Seq(1..MaxFrames)]
      /\ asked' \in [Streams -> SUBSET (1..MaxFrames)]
      /\ \A r \in Streams \ {s} : got'[r] = got[r]
      /\ Len(got'[s]) = Len(got[s]) + Len(pending[s])
      /\ Unbroken(got'[s])
  BY <1>1, <1>2, <1>3, Received
<1>5. /\ socket' \in [Streams -> {"none", "connecting", "open", "closing", "closed"}]
      /\ pending' \in [Streams -> Seq(Frames)]
      /\ pending'[s] = <<>> /\ socket'[s] = "open"
      /\ \A r \in Streams \ {s} : pending'[r] = pending[r] /\ socket'[r] = socket[r]
  BY <1>1, <1>2 DEF TypeOK
<1>6. TypeOK' /\ Linked'
  BY <1>1, <1>4, <1>5 DEF TypeOK, Live, Linked
<1>7. \A r \in Streams \ {s} : Calm(r)
  BY <1>1, <1>4, <1>5, Kept DEF Calm
<1>8. Frame(s)'
  <2>1. client[s] # "new"
    BY <1>1, <1>3 DEF Frame, Untouched
  <2>2. Untouched(s)' /\ Socket(s)' /\ OpenFirst(s)' /\ DownNumbered(s)' /\ Ordered(s)'
    BY <1>1, <1>2, <1>3, <1>4, <1>5, <2>1
       DEF Frame, Untouched, Socket, OpenFirst, DownNumbered, Ordered
  <2>3. Len(got'[s]) + Len(pending'[s]) = Len(got[s]) + Len(pending[s])
    BY <1>2, <1>4, <1>5
  <2>4. UpNumbered(s)'
    BY <1>1, <1>3, <2>3 DEF Frame, UpNumbered, Served
  <2>5. QED BY <2>2, <2>4 DEF Frame
<1>9. QED BY <1>6, <1>7, <1>8, Others

LEMMA StepAppServerFrame ==
  ASSUME IInv, NEW s \in Streams, NEW kind \in Kinds \cup {"ask"}, NEW of \in 0..MaxFrames,
         AppServerFrame(s, kind, of)
  PROVE  IInv'
<1> DEFINE m == Data(s, down'[s], kind, of)
<1>1. /\ TypeOK /\ Linked /\ Frame(s)
      /\ s \in localStreams /\ down[s] < MaxFrames
      /\ down' = [down EXCEPT ![s] = down[s] + 1]
      /\ asked' = [asked EXCEPT ![s] = asked[s] \ {of}]
      /\ Send(m)
      /\ UNCHANGED <<localStreams, socket, pending, got>>
      /\ UNCHANGED <<relay, toHost, link, up, read, losses, history>>
  BY DEF IInv, AppServerFrame, LocalEvent
<1> USE DEF relay, history
<1>2. /\ down[s] \in Nat /\ MaxFrames \in Nat /\ down'[s] = down[s] + 1 /\ down'[s] \in 1..MaxFrames
      /\ \A r \in Streams \ {s} : down'[r] = down[r]
      /\ toRelay \in Seq(Messages) /\ Len(read[s]) \in Nat
  <2>1. down[s] \in Nat /\ MaxFrames \in Nat /\ down \in [Streams -> 0..MaxFrames]
    BY <1>1, Typed DEF TypeOK
  <2>2. down'[s] = down[s] + 1 /\ \A r \in Streams \ {s} : down'[r] = down[r]
    BY <1>1, <2>1
  <2>3. down[s] + 1 \in 1..MaxFrames
    BY <1>1, <2>1
  <2>4. toRelay \in Seq(Messages) /\ Len(read[s]) \in Nat
    BY <1>1, Typed
  <2>5. QED BY <2>1, <2>2, <2>3, <2>4
<1>3. /\ m \in Messages /\ m.id = s /\ m.n = down'[s] /\ m.kind = kind /\ IsData(m, s)
  <2>1. s \in Streams /\ down'[s] \in 1..MaxFrames /\ kind \in Kinds \cup {"ask"} /\ of \in 0..MaxFrames
    BY <1>2
  <2>2. QED BY ONLY <2>1, DataOf
<1> HIDE DEF m
<1>4. /\ toRelay' \in Seq(Messages)
      /\ toRelay' = IF link /\ tunnel THEN toRelay \o <<m>> ELSE toRelay
      /\ \A r : r # s => /\ Passes(toRelay, toRelay', r)
                         /\ NoneOf(toRelay, r) => NoneOf(toRelay', r)
  BY <1>1, <1>3, SentBack
<1>5. asked' \in [Streams -> SUBSET (1..MaxFrames)]
  BY <1>1 DEF TypeOK
<1>6. TypeOK'
  <2>1. down' \in [Streams -> 0..MaxFrames]
    BY <1>1, <1>2 DEF TypeOK
  <2>2. QED BY <1>1, <1>4, <1>5, <2>1 DEF TypeOK, Messages, Live
<1>7. Linked'
  BY <1>1 DEF Linked
<1>8. \A r \in Streams \ {s} : Calm(r)
  <2> TAKE r \in Streams \ {s}
  <2>1. Passes(toHost, toHost', r) /\ Passes(toRelay, toRelay', r)
    BY <1>1, <1>4, Kept
  <2>2. QED BY <1>1, <1>2, <1>4, <1>5, <2>1 DEF Calm
<1>9. client[s] # "new" /\ link
  BY <1>1 DEF Frame, Untouched, Linked
<1>10. Frame(s)'
  <2>1. Untouched(s)' /\ Socket(s)' /\ OpenFirst(s)' /\ UpNumbered(s)' /\ Ordered(s)'
    BY <1>1, <1>9 DEF Frame, Untouched, Socket, OpenFirst, UpNumbered, Served, Ordered
  <2>2. DownNumbered(s)'
    <3> SUFFICES ASSUME client[s] = "open"
                 PROVE  /\ Numbered(s, toRelay', Len(read[s]), down'[s])
                        /\ Whole(s, toRelay', Len(read[s]), down'[s])
      BY <1>1, <1>9 DEF DownNumbered
    <3>1. link /\ tunnel /\ Whole(s, toRelay, Len(read[s]), down[s])
      BY <1>1, <1>9 DEF Frame, DownNumbered, Linked
    <3>2. down'[s] = down[s] + (IF IsData(m, s) THEN 1 ELSE 0) /\ down'[s] \in Nat
      BY <1>2, <1>3
    <3>3. Whole(s, toRelay \o <<m>>, Len(read[s]), down'[s])
      BY <1>2, <1>3, <3>1, <3>2, SendWhole
    <3>4. QED BY <1>4, <3>1, <3>3, WholeNumbered
  <2>3. QED BY <2>1, <2>2 DEF Frame
<1>11. QED BY <1>6, <1>7, <1>8, <1>10, Others

LEMMA StepAppServerCloses ==
  ASSUME IInv, NEW s \in Streams, AppServerCloses(s) PROVE IInv'
<1>1. /\ TypeOK /\ Linked /\ Frame(s)
      /\ socket[s] \in {"connecting", "open"} /\ socket' = [socket EXCEPT ![s] = "closing"]
      /\ UNCHANGED <<localStreams, pending, toRelay, down, got, asked>>
      /\ UNCHANGED <<relay, toHost, link, up, read, losses, history>>
  BY DEF IInv, AppServerCloses, LocalEvent
<1> USE DEF relay, history
<1>2. TypeOK' /\ Linked'
  BY <1>1 DEF TypeOK, Live, Linked
<1>3. client[s] # "new" /\ socket'[s] = "closing" /\ \A r \in Streams \ {s} : socket'[r] = socket[r]
  BY <1>1 DEF TypeOK, Frame, Untouched
<1>4. \A r \in Streams : Calm(r)
  BY <1>1, <1>3, Kept DEF Calm
<1>5. QED BY <1>2, <1>4, AllCalm

LEMMA StepLocalClosed ==
  ASSUME IInv, NEW s \in Streams, LocalClosed(s) PROVE IInv'
<1>1. /\ TypeOK /\ Linked /\ Frame(s)
      /\ socket[s] = "closing" /\ socket' = [socket EXCEPT ![s] = "closed"]
      /\ localStreams' = localStreams \ {s}
      /\ pending' = [pending EXCEPT ![s] = <<>>]
      /\ IF s \in localStreams THEN Send(Close(s)) ELSE UNCHANGED toRelay
      /\ UNCHANGED <<down, got, asked>>
      /\ UNCHANGED <<relay, toHost, link, up, read, losses, history>>
  BY DEF IInv, LocalClosed, LocalEvent
<1> USE DEF relay, history
<1>2. /\ toRelay' \in Seq(Messages) /\ toRelay \in Seq(Messages) /\ toHost \in Seq(Messages)
      /\ \A r : Passes(toRelay, toRelay', r)
      /\ \A r : r # s => (NoneOf(toRelay, r) => NoneOf(toRelay', r))
  <2>1. CASE UNCHANGED toRelay
    BY <1>1, <2>1, Typed, Kept
  <2>2. CASE Send(Close(s))
    <3>1. Close(s) \in Messages /\ Close(s).id = s /\ \A r : Aside(Close(s), r)
      BY Sorts, Fields, AsideClose
    <3>2. TypeOK
      BY <1>1
    <3>3. QED BY <2>2, <3>1, <3>2, SentBack, Typed
  <2>3. QED BY <1>1, <2>1, <2>2
<1>3. /\ socket' \in [Streams -> {"none", "connecting", "open", "closing", "closed"}]
      /\ pending' \in [Streams -> Seq(Frames)]
      /\ pending'[s] = <<>> /\ socket'[s] = "closed"
      /\ \A r \in Streams \ {s} : pending'[r] = pending[r] /\ socket'[r] = socket[r]
  <2>1. <<>> \in Seq(Frames)
    BY EmptySeq
  <2>2. QED BY <1>1, <2>1 DEF TypeOK
<1>4. TypeOK' /\ Linked'
  BY <1>1, <1>2, <1>3 DEF TypeOK, Messages, Live, Linked
<1>5. \A r \in Streams \ {s} : Calm(r)
  BY <1>1, <1>2, <1>3, Kept DEF Calm
<1>6. client[s] # "new"
  BY <1>1 DEF Frame, Untouched
<1>7. CASE HasOpen(toHost, s)
  <2>1. s \notin localStreams /\ pending[s] = <<>>
    BY <1>1, <1>7 DEF Frame, OpenFirst
  <2>2. Calm(s)
    BY <1>1, <1>2, <1>3, <1>6, <2>1, Kept DEF Calm
  <2>3. QED BY <1>4, <1>5, <2>2, AllCalm
<1>8. CASE ~HasOpen(toHost, s)
  <2>1. Within(toHost', toHost, s) /\ Within(toRelay', toRelay, s)
    BY <1>1, <1>2, WithinPass, Kept
  <2>2. Cut(s)
    BY <1>1, <1>2, <1>3, <1>6, <1>8, <2>1 DEF Cut
  <2>3. DownNumbered(s)'
    BY <1>1, <1>2, Typed, PassNumbered DEF Frame, DownNumbered
  <2>4. QED BY <1>1, <1>4, <1>5, <2>2, <2>3, CutKeeps, Others
<1>9. QED BY <1>7, <1>8

-------------------------------------------------------------------------------
(* The tunnel.                                                                *)

LEMMA WithinEmpty ==
  ASSUME NEW q, NEW s
  PROVE  /\ <<>> \in Seq(Messages) /\ Within(<<>>, q, s)
         /\ ~HasOpen(<<>>, s) /\ NoneOf(<<>>, s) /\ OpensFirst(<<>>, s)
BY Emptied DEF Within, HasOpen, NoneOf, OpensFirst

(* A stream that has not begun bears any loss.                                *)
Unborn(s) ==
  /\ client[s] = "new" /\ client'[s] = "new"
  /\ up'[s] = up[s] /\ down'[s] = down[s] /\ got'[s] = got[s] /\ read'[s] = read[s]
  /\ pending'[s] = pending[s] /\ socket'[s] = socket[s]
  /\ s \notin localStreams'
  /\ toHost' \in Seq(Messages) /\ NoneOf(toHost', s)
  /\ toRelay' \in Seq(Messages) /\ NoneOf(toRelay', s)
  /\ toHost' = <<>> \/ (toHost' = toHost /\ (link' /\ tunnel' => link /\ tunnel))
  /\ \/ toRelay' = <<>>
     \/ toRelay' \in Prefixes(toRelay) /\ ~(link' /\ tunnel')
     \/ toRelay' = toRelay /\ (link' /\ tunnel' => link /\ tunnel)

LEMMA UnbornKeeps ==
  ASSUME TypeOK, NEW s \in Streams, Frame(s), Unborn(s)
  PROVE  Frame(s)'
<1> USE DEF Unborn
<1>1. /\ up[s] = 0 /\ down[s] = 0 /\ got[s] = <<>> /\ read[s] = <<>> /\ pending[s] = <<>>
      /\ socket[s] = "none"
  BY DEF Frame, Untouched
<1>2. Untouched(s)'
  BY <1>1 DEF Untouched
<1>3. Socket(s)' /\ Ordered(s)'
  BY <1>1, Emptied DEF Socket, Ordered, Unbroken
<1>4. OpenFirst(s)'
  BY NoneKeeps DEF OpenFirst
<1>5. UpNumbered(s)'
  <2>1. Len(got[s]) + Len(pending[s]) = 0
    BY <1>1, Emptied
  <2>2. CASE toHost' = <<>>
    BY <1>1, <2>1, <2>2, EmptyNumbered DEF UpNumbered
  <2>3. CASE toHost' = toHost /\ (link' /\ tunnel' => link /\ tunnel)
    BY <2>3 DEF Frame, UpNumbered, Served
  <2>4. QED BY <2>2, <2>3
<1>6. DownNumbered(s)'
  <2>1. Len(read[s]) = 0
    BY <1>1, Emptied
  <2>2. CASE toRelay' = <<>>
    BY <1>1, <2>1, <2>2, EmptyNumbered DEF DownNumbered
  <2>3. CASE toRelay' \in Prefixes(toRelay) /\ ~(link' /\ tunnel')
    BY <2>3, PrefixNumbered, Typed DEF Frame, DownNumbered
  <2>4. CASE toRelay' = toRelay /\ (link' /\ tunnel' => link /\ tunnel)
    BY <2>4 DEF Frame, DownNumbered
  <2>5. QED BY <2>2, <2>3, <2>4
<1>7. QED BY <1>2, <1>3, <1>4, <1>5, <1>6 DEF Frame

LEMMA StepHostLoses ==
  ASSUME IInv, link, link' = FALSE, CloseLocal(localStreams), toHost' = <<>>,
         toRelay' \in Prefixes(toRelay), losses' \in 0..MaxLosses, UNCHANGED <<relay, peers, history>>
  PROVE  IInv'
<1> USE DEF relay, peers, history
<1>1. TypeOK /\ Linked
  BY DEF IInv
<1>2. /\ localStreams' = {}
      /\ socket' \in [Streams -> {"none", "connecting", "open", "closing", "closed"}]
      /\ pending' \in [Streams -> Seq(Frames)]
      /\ \A s \in localStreams : pending'[s] = <<>> /\ socket'[s] \notin {"connecting", "open"}
      /\ \A s \in Streams \ localStreams : pending'[s] = pending[s] /\ socket'[s] = socket[s]
  BY <1>1, ClosedLocal DEF TypeOK
<1>3. toRelay \in Seq(Messages) /\ toRelay' \in Seq(Messages) /\ toHost' \in Seq(Messages)
  BY <1>1, Typed, Prefixed, WithinEmpty DEF TypeOK, Messages
<1>4. TypeOK' /\ Linked'
  BY <1>1, <1>2, <1>3 DEF TypeOK, Messages, Live, Linked
<1>5. ASSUME NEW s \in Streams PROVE Frame(s)'
  <2>1. Frame(s)
    BY DEF IInv
  <2>2. CASE client[s] = "new"
    <3>1. /\ s \notin localStreams
          /\ NoneOf(toHost, s) /\ NoneOf(toRelay, s)
      BY <2>1, <2>2 DEF Frame, Untouched
    <3>2. NoneOf(toRelay', s)
      BY <1>3, <3>1, NoneKeeps
    <3>3. Unborn(s)
      BY <1>2, <1>3, <2>2, <3>1, <3>2, WithinEmpty DEF Unborn
    <3>4. QED BY <1>1, <2>1, <3>3, UnbornKeeps
  <2>3. CASE client[s] # "new"
    <3>1. socket'[s] \notin {"connecting", "open"} /\ pending'[s] \in {<<>>, pending[s]}
      BY <1>2, <2>1 DEF Frame, Socket
    <3>2. Cut(s)
      BY <1>2, <1>3, <2>3, <3>1, WithinEmpty, WithinPrefix DEF Cut
    <3>3. DownNumbered(s)'
      BY <1>3, <2>1, PrefixNumbered DEF Frame, DownNumbered
    <3>4. QED BY <1>1, <2>1, <3>2, <3>3, CutKeeps
  <2>4. QED BY <2>2, <2>3
<1>6. QED BY <1>4, <1>5 DEF IInv

LEMMA StepLoseTunnel == IInv /\ LoseTunnel => IInv'
<1> SUFFICES ASSUME IInv, LoseTunnel PROVE IInv'
  OBVIOUS
<1>1. losses' \in 0..MaxLosses
  <2>1. losses \in 0..MaxLosses /\ MaxLosses \in Nat
    BY StreamsAssumption DEF IInv, TypeOK
  <2>2. QED BY <2>1 DEF LoseTunnel
<1>2. QED BY <1>1, StepHostLoses DEF LoseTunnel

LEMMA StepHostClosed == IInv /\ HostClosed => IInv'
<1> SUFFICES ASSUME IInv, HostClosed PROVE IInv'
  OBVIOUS
<1>1. toRelay \in Seq(Messages) /\ losses \in 0..MaxLosses
  BY DEF IInv, TypeOK, Messages
<1>2. toRelay \in Prefixes(toRelay)
  <2>1. Len(toRelay) \in 0..Len(toRelay) /\ SubSeq(toRelay, 1, Len(toRelay)) = toRelay
    BY <1>1, LenProperties, SubSeqFull
  <2>2. QED BY <2>1 DEF Prefixes
<1>3. QED BY <1>1, <1>2, StepHostLoses DEF HostClosed

LEMMA AllEnded ==
  ASSUME TypeOK, FailClosed
  PROVE  /\ client' \in [Streams -> {"new", "open", "leaving", "ended"}]
         /\ listIds' \subseteq Live' /\ admitted' = FALSE
         /\ \A s \in Streams : client'[s] = IF client[s] = "new" THEN "new" ELSE "ended"
<1>1. /\ \A s \in Live : client'[s] = "ended"
      /\ \A s \in Streams \ Live : client'[s] = client[s]
      /\ client' \in [Streams -> {"new", "open", "leaving", "ended"}]
      /\ listIds' \subseteq Live' /\ admitted' = FALSE
  BY Ended DEF FailClosed
<1>2. QED BY <1>1 DEF TypeOK, Live

(* A relay that closes all streams of a host that has none.                   *)
LEMMA StepNoHost ==
  ASSUME IInv, ~link, FailClosed, tunnel' \in BOOLEAN, link' \in BOOLEAN,
         \/ toHost' = <<>> /\ toRelay' = <<>>
         \/ UNCHANGED wires /\ ~(link' /\ tunnel'),
         UNCHANGED <<localStreams, socket, pending, peers, losses, history>>
  PROVE  IInv'
<1> USE DEF wires, peers, history
<1>1. /\ TypeOK /\ Linked /\ localStreams = {} /\ toHost = <<>>
      /\ \A s \in Streams : Frame(s)
  BY DEF IInv, Linked
<1>2. /\ client' \in [Streams -> {"new", "open", "leaving", "ended"}]
      /\ listIds' \subseteq Live' /\ admitted' = FALSE
      /\ \A s \in Streams : client'[s] = IF client[s] = "new" THEN "new" ELSE "ended"
  BY <1>1, AllEnded
<1>3. /\ toHost' = <<>> /\ toHost' \in Seq(Messages) /\ toRelay' \in Seq(Messages)
      /\ toRelay \in Seq(Messages)
  BY <1>1, WithinEmpty, Typed DEF TypeOK, Messages
<1>4. TypeOK' /\ Linked'
  BY <1>1, <1>2, <1>3 DEF TypeOK, Messages, Linked
<1>5. ASSUME NEW s \in Streams PROVE Frame(s)'
  <2>1. Within(toRelay', toRelay, s) /\ Within(toHost', toHost, s) /\ ~HasOpen(toHost', s)
    BY <1>3, WithinEmpty, WithinPass, Kept
  <2>2. CASE client[s] = "new"
    <3>1. NoneOf(toRelay, s)
      BY <1>1, <2>2 DEF Frame, Untouched
    <3>2. NoneOf(toHost', s) /\ NoneOf(toRelay', s)
      BY <1>3, <3>1, WithinEmpty
    <3>3. Unborn(s)
      BY <1>1, <1>2, <1>3, <2>2, <3>1, <3>2 DEF Unborn
    <3>4. QED BY <1>1, <3>3, UnbornKeeps
  <2>3. CASE client[s] # "new"
    <3>1. socket[s] \notin {"connecting", "open"} /\ client'[s] = "ended"
      BY <1>1, <1>2, <2>3 DEF Frame, Socket
    <3>2. Cut(s)
      BY <1>1, <1>3, <2>1, <2>3, <3>1 DEF Cut
    <3>3. DownNumbered(s)'
      BY <3>1 DEF DownNumbered
    <3>4. QED BY <1>1, <3>2, <3>3, CutKeeps
  <2>4. QED BY <2>2, <2>3
<1>6. QED BY <1>4, <1>5 DEF IInv

LEMMA StepTunnelClosed == IInv /\ TunnelClosed => IInv'
<1> SUFFICES ASSUME IInv, TunnelClosed PROVE IInv'
  OBVIOUS
<1>1. /\ ~link /\ FailClosed /\ tunnel' = FALSE /\ link' \in BOOLEAN
      /\ UNCHANGED <<wires, peers, losses, history>>
      /\ UNCHANGED <<localStreams, socket, pending>>
  BY DEF IInv, TypeOK, TunnelClosed, host
<1>2. QED BY <1>1, StepNoHost

LEMMA StepAccept == IInv /\ Accept => IInv'
BY StepNoHost DEF Accept

LEMMA StepDropTunnel ==
  ASSUME IInv, DropTunnel PROVE IInv'
<1> USE DEF host, peers, history
<1>1. /\ TypeOK /\ Linked /\ tunnel' = FALSE /\ toRelay' = <<>> /\ FailClosed
      /\ UNCHANGED <<toHost, host, peers, history>>
      /\ \A s \in Streams : Frame(s)
      /\ losses' \in 0..MaxLosses
  <2>1. losses \in 0..MaxLosses /\ MaxLosses \in Nat
    BY StreamsAssumption DEF IInv, TypeOK
  <2>2. QED BY <2>1 DEF IInv, DropTunnel
<1>2. /\ client' \in [Streams -> {"new", "open", "leaving", "ended"}]
      /\ listIds' \subseteq Live' /\ admitted' = FALSE
      /\ \A s \in Streams : client'[s] = IF client[s] = "new" THEN "new" ELSE "ended"
  BY <1>1, AllEnded
<1>3. TypeOK' /\ Linked'
  BY <1>1, <1>2, WithinEmpty DEF TypeOK, Messages, Linked
<1>4. ASSUME NEW s \in Streams PROVE Frame(s)'
  <2>1. CASE client[s] = "new"
    <3>1. /\ s \notin localStreams /\ NoneOf(toHost, s)
          /\ toHost' \in Seq(Messages) /\ NoneOf(toRelay', s) /\ toRelay' \in Seq(Messages)
      BY <1>1, <2>1, Typed, WithinEmpty DEF Frame, Untouched
    <3>2. Unborn(s)
      BY <1>1, <1>2, <2>1, <3>1 DEF Unborn
    <3>3. QED BY <1>1, <3>2, UnbornKeeps
  <2>2. CASE client[s] # "new"
    <3>1. client'[s] = "ended"
      BY <1>2, <2>2
    <3>2. Untouched(s)' /\ DownNumbered(s)'
      BY <3>1 DEF Untouched, DownNumbered
    <3>3. Socket(s)' /\ OpenFirst(s)' /\ Ordered(s)'
      BY <1>1 DEF Frame, Socket, OpenFirst, Ordered
    <3>4. UpNumbered(s)'
      BY <1>1, <3>1 DEF Frame, UpNumbered, Served
    <3>5. QED BY <3>2, <3>3, <3>4 DEF Frame
  <2>3. QED BY <2>1, <2>2
<1>5. QED BY <1>3, <1>4 DEF IInv

-------------------------------------------------------------------------------
LEMMA InvNext == IInv /\ [Next]_vars => IInv'
<1> SUFFICES ASSUME IInv, [Next]_vars PROVE IInv'
  OBVIOUS
<1>1. CASE UNCHANGED vars
  <2> USE DEF vars, relay, wires, host, peers, history
  <2>1. TypeOK' /\ Linked'
    BY <1>1 DEF IInv, TypeOK, Live, Linked
  <2>2. \A s \in Streams : Calm(s)
    BY <1>1, Kept DEF Calm
  <2>3. QED BY <2>1, <2>2, AllCalm
<1>2. ASSUME NEW s \in Streams,
             \/ Connect(s) \/ ClientLeaves(s) \/ ClientClosed(s)
             \/ \E kind \in Kinds : ClientFrame(s, kind) \/ ClientFrameDenied(s, kind)
      PROVE  IInv'
  BY <1>2, StepConnect, StepClientLeaves, StepClientClosed, StepClientFrame,
     StepClientFrameDenied
<1>3. ASSUME NEW s \in Streams,
             \/ ForwardDataToClient(s) \/ CloseFromHost(s)
             \/ OpenLocalStream(s) \/ ForwardDataToLocal(s) \/ CloseFromRelay(s)
      PROVE  IInv'
  BY <1>3, StepForwardDataToClient, StepCloseFromHost, StepOpenLocalStream,
     StepForwardDataToLocal, StepCloseFromRelay
<1>4. ASSUME NEW s \in Streams,
             \/ Opened(s) \/ AppServerCloses(s) \/ LocalClosed(s)
             \/ AppServerSends(s) \/ AppServerAnswers(s)
      PROVE  IInv'
  <2>1. AppServerSends(s) => IInv'
    <3>1. 0 \in 0..MaxFrames
      BY StreamsAssumption
    <3>2. QED BY <3>1, StepAppServerFrame DEF AppServerSends, Kinds
  <2>2. AppServerAnswers(s) => IInv'
    <3>1. asked[s] \subseteq 0..MaxFrames
      BY StreamsAssumption DEF IInv, TypeOK
    <3>2. QED BY <3>1, StepAppServerFrame DEF AppServerAnswers, Kinds
  <2>3. QED BY <1>4, <2>1, <2>2, StepOpened, StepAppServerCloses, StepLocalClosed
<1>5. CASE Admit \/ Bar
  BY <1>5, StepAdmit, StepBar
<1>6. CASE LoseTunnel \/ TunnelClosed \/ DropTunnel \/ HostClosed \/ Accept
  BY <1>6, StepLoseTunnel, StepTunnelClosed, StepDropTunnel, StepHostClosed, StepAccept
<1>7. QED BY <1>1, <1>2, <1>3, <1>4, <1>5, <1>6 DEF Next

LEMMA Invariance == Spec => []IInv
BY InvInit, InvNext, PTL DEF Spec

(* The two ends of the tunnel keep to the sorts of messages and states that   *)
(* relay.ts and host-agent.ts switch on, and an id kept for a model/list is   *)
(* that of a client who is still connected.                                   *)
THEOREM TypeCorrect == Spec => []TypeOK
<1>1. IInv => TypeOK
  BY DEF IInv
<1>2. QED BY <1>1, Invariance, PTL

(* For any number of streams, frames and lost tunnels, what an app-server has *)
(* received and what a client has read is what the other end has sent, in     *)
(* order and without a gap: those kept while it was being connected to come   *)
(* first (host-agent.ts:948-950, 985-998), and after a break nothing follows. *)
THEOREM InOrder == Spec => []FramesInOrder
<1>1. IInv => FramesInOrder
  BY DEF IInv, Frame, Ordered, FramesInOrder
<1>2. QED BY <1>1, Invariance, PTL

-------------------------------------------------------------------------------
(* Lists of models.                                                           *)

IsList(m, s) == IsData(m, s) /\ m.kind = "list"

(* The list that frame n of a client asks for may still come: the request is  *)
(* on its way, kept, or not answered, or its answer is on its way.            *)
Awaited(s, n) ==
  \/ \E i \in DOMAIN toHost : IsList(toHost[i], s) /\ toHost[i].n = n
  \/ \E i \in DOMAIN pending[s] : pending[s][i].kind = "list" /\ pending[s][i].n = n
  \/ n \in asked[s]
  \/ \E i \in DOMAIN toRelay : IsList(toRelay[i], s) /\ toRelay[i].of = n

(* The relay still has the id, or it was used up after frame n had been sent. *)
Recorded(s, n) ==
  /\ n <= up[s]
  /\ client[s] \in {"new", "open"} => s \in listIds \/ n <= used[s]

Known(s) == used[s] <= up[s] /\ \A n \in Nat : Awaited(s, n) => Recorded(s, n)

LInv == (\A s \in Streams : Known(s)) /\ ListsFiltered

(* A step after which no more lists may come, and none whose id is not kept.  *)
Eased(s) ==
  /\ \A n \in Nat : Awaited(s, n)' => Awaited(s, n)
  /\ up'[s] = up[s] /\ used'[s] = used[s]
  /\ client'[s] \in {"new", "open"} =>
       client[s] \in {"new", "open"} /\ (s \in listIds => s \in listIds')

LEMMA EasedKeeps ==
  ASSUME NEW s, Known(s), Eased(s) PROVE Known(s)'
BY DEF Known, Eased, Recorded

LEMMA AllEased ==
  ASSUME LInv, \A s \in Streams : Eased(s), UNCHANGED <<leaked, used>> PROVE LInv'
<1>1. \A s \in Streams : Known(s)'
  BY EasedKeeps DEF LInv
<1>2. ListsFiltered'
  BY DEF LInv, ListsFiltered
<1>3. QED BY <1>1, <1>2 DEF LInv

LEMMA WithinLists ==
  ASSUME NEW p, NEW q, NEW s, Within(p, q, s), NEW i \in DOMAIN p, IsData(p[i], s)
  PROVE  \E j \in DOMAIN q : q[j] = p[i]
BY DEF Within, Aside

LEMMA StillAwaited ==
  ASSUME NEW s, Within(toHost', toHost, s), Within(toRelay', toRelay, s),
         NEW n, Awaited(s, n)', n \in asked'[s] => Awaited(s, n),
         \A i \in DOMAIN pending'[s] :
           pending'[s][i].kind = "list" /\ pending'[s][i].n = n => Awaited(s, n)
  PROVE  Awaited(s, n)
<1>1. ASSUME NEW i \in DOMAIN toHost', IsList(toHost'[i], s), toHost'[i].n = n
      PROVE  Awaited(s, n)
  BY <1>1, WithinLists DEF Awaited, IsList
<1>2. ASSUME NEW i \in DOMAIN toRelay', IsList(toRelay'[i], s), toRelay'[i].of = n
      PROVE  Awaited(s, n)
  BY <1>2, WithinLists DEF Awaited, IsList
<1>3. QED BY <1>1, <1>2 DEF Awaited

LEMMA Lessened ==
  ASSUME NEW s, Within(toHost', toHost, s), Within(toRelay', toRelay, s),
         pending'[s] \in {<<>>, pending[s]}, asked'[s] \subseteq asked[s],
         NEW n, Awaited(s, n)'
  PROVE  Awaited(s, n)
<1>1. ASSUME NEW i \in DOMAIN pending'[s], pending'[s][i].kind = "list", pending'[s][i].n = n
      PROVE  Awaited(s, n)
  BY <1>1, Emptied DEF Awaited
<1>2. n \in asked'[s] => Awaited(s, n)
  BY DEF Awaited
<1>3. QED BY <1>1, <1>2, StillAwaited

LEMMA Added ==
  ASSUME NEW M, NEW q \in Seq(M), NEW m \in M, NEW i \in DOMAIN (q \o <<m>>)
  PROVE  (q \o <<m>>)[i] = m \/ \E j \in DOMAIN q : q[j] = (q \o <<m>>)[i]
<1>1. <<m>> \in Seq(M) /\ Len(<<m>>) = 1 /\ <<m>>[1] = m
  BY One
<1>2. PICK n \in Nat : /\ DOMAIN q = 1..n /\ DOMAIN (q \o <<m>>) = 1..(n + 1)
                       /\ \A j \in 1..n : (q \o <<m>>)[j] = q[j]
                       /\ (q \o <<m>>)[n + 1] = m
  <2>1. /\ Len(q) \in Nat /\ DOMAIN q = 1..Len(q) /\ DOMAIN (q \o <<m>>) = 1..(Len(q) + 1)
        /\ \A j \in 1..Len(q) : (q \o <<m>>)[j] = q[j]
        /\ (q \o <<m>>)[Len(q) + 1] = m
    BY <1>1, Joined
  <2>2. QED BY <2>1
<1>3. QED BY <1>2

(* The relay: clients and messages of the host.                               *)

LEMMA ListsClientFrame ==
  ASSUME IInv, LInv, NEW s \in Streams, NEW kind \in Kinds, ClientFrame(s, kind) PROVE LInv'
<1> DEFINE m == Data(s, up'[s], kind, 0)
<1> USE DEF ClientFrame, host, history
<1>1. /\ up[s] \in Nat /\ up'[s] = up[s] + 1 /\ up'[s] \in 1..MaxFrames
      /\ \A r \in Streams \ {s} : up'[r] = up[r]
      /\ \A r \in Streams : used[r] \in Nat
      /\ toHost \in Seq(Messages) /\ toRelay \in Seq(Messages) /\ TypeOK
      /\ MaxFrames \in Nat
  <2>1. TypeOK /\ up \in [Streams -> 0..MaxFrames] /\ MaxFrames \in Nat
        /\ used \in [Streams -> 0..MaxFrames]
    BY StreamsAssumption DEF IInv, TypeOK
  <2>2. up' = [up EXCEPT ![s] = up[s] + 1] /\ up[s] < MaxFrames
    OBVIOUS
  <2>3. up[s] \in Nat /\ up'[s] = up[s] + 1 /\ \A r \in Streams \ {s} : up'[r] = up[r]
    BY <2>1, <2>2
  <2>4. up[s] + 1 \in 1..MaxFrames
    BY <2>1, <2>2
  <2>5. toHost \in Seq(Messages) /\ toRelay \in Seq(Messages)
    BY <2>1, Typed
  <2>6. \A r \in Streams : used[r] \in Nat
    BY <2>1
  <2>7. QED BY <2>1, <2>3, <2>4, <2>5, <2>6
<1>2. m \in Messages /\ m.id = s /\ m.n = up'[s] /\ m.kind = kind
  BY <1>1, DataOf
<1> HIDE DEF m
<1>3. /\ \A r : r # s => Passes(toHost, toHost', r)
      /\ toHost' = toHost \/ toHost' = toHost \o <<m>>
  <2>1. SendToTunnel(<<m>>)
    BY DEF m
  <2>2. QED BY <1>1, <1>2, <2>1, SentOne
<1>4. /\ s \in listIds => s \in listIds'
      /\ kind = "list" => s \in listIds'
      /\ \A r \in Streams \ {s} : r \in listIds => r \in listIds'
  BY DEF PolicyToClientFrame
<1>5. ASSUME NEW r \in Streams \ {s} PROVE Known(r)'
  <2>1. \A n \in Nat : Awaited(r, n)' => Awaited(r, n)
    <3>1. Within(toHost', toHost, r) /\ Within(toRelay', toRelay, r)
      BY <1>1, <1>3, Kept, WithinPass
    <3>2. QED BY <3>1, Lessened
  <2>2. Eased(r)
    BY <1>1, <1>4, <2>1 DEF Eased
  <2>3. QED BY <2>2, EasedKeeps DEF LInv
<1>6. Known(s)'
  <2>1. used[s] <= up[s] /\ \A n \in Nat : Awaited(s, n) => Recorded(s, n)
    BY DEF LInv, Known
  <2>2. ASSUME NEW n \in Nat, Awaited(s, n)' PROVE Awaited(s, n) \/ (n = up'[s] /\ kind = "list")
    <3>1. ASSUME NEW i \in DOMAIN toHost', IsList(toHost'[i], s), toHost'[i].n = n
          PROVE  Awaited(s, n) \/ (n = up'[s] /\ kind = "list")
      <4>1. toHost'[i] = m \/ \E j \in DOMAIN toHost : toHost[j] = toHost'[i]
        <5>1. toHost' = toHost \o <<m>> => toHost'[i] = m \/ \E j \in DOMAIN toHost : toHost[j] = toHost'[i]
          BY <1>1, <1>2, <3>1, Added
        <5>2. QED BY <1>3, <3>1, <5>1
      <4>2. QED BY <1>2, <3>1, <4>1 DEF Awaited, IsList
    <3>2. QED BY <2>2, <3>1 DEF Awaited
  <2>3. ASSUME NEW n \in Nat, Awaited(s, n)' PROVE Recorded(s, n)'
    <3>1. CASE Awaited(s, n)
      <4>1. n <= up[s] /\ (s \in listIds \/ n <= used[s])
        BY <2>1, <3>1 DEF Recorded
      <4>2. n <= up'[s]
        BY <1>1, <4>1
      <4>3. QED BY <1>4, <4>1, <4>2 DEF Recorded
    <3>2. CASE n = up'[s] /\ kind = "list"
      BY <1>1, <1>4, <3>2 DEF Recorded
    <3>3. QED BY <2>2, <2>3, <3>1, <3>2
  <2>4. used'[s] <= up'[s]
    BY <1>1, <2>1
  <2>5. QED BY <2>3, <2>4 DEF Known
<1>7. ListsFiltered'
  BY DEF LInv, ListsFiltered
<1>8. QED BY <1>5, <1>6, <1>7 DEF LInv

LEMMA ListsClientFrameDenied ==
  ASSUME LInv, NEW s \in Streams, NEW kind \in Kinds, ClientFrameDenied(s, kind) PROVE LInv'
<1> USE DEF ClientFrameDenied, wires, host, peers, history
<1>1. ASSUME NEW r \in Streams PROVE Eased(r)
  <2>1. \A n \in Nat : Awaited(r, n)' => Awaited(r, n)
    BY DEF Awaited
  <2>2. r \in listIds => r \in listIds'
    BY DEF PolicyToClientFrame
  <2>3. QED BY <2>1, <2>2 DEF Eased
<1>2. QED BY <1>1, AllEased

(* A frame with the id uses it up, and a list that comes later was asked for  *)
(* before, since the id of one asked for afterwards would have been kept.     *)
LEMMA ListsForwardDataToClient ==
  ASSUME IInv, LInv, NEW s \in Streams, ForwardDataToClient(s) PROVE LInv'
<1>1. PICK m : /\ m.type = "data" /\ m.id = s /\ FromHost(m)
               /\ IF client[s] = "open"
                  THEN PolicyToServerFrame(s, m)
                  ELSE UNCHANGED <<read, listIds, used, leaked>>
               /\ UNCHANGED client
  BY DEF ForwardDataToClient
<1>2. /\ TypeOK /\ toHost' = toHost /\ pending' = pending /\ asked' = asked /\ up' = up
      /\ m \in Messages /\ toRelay[1] = m /\ 1 \in DOMAIN toRelay
      /\ \A r \in Streams : Within(toRelay', toRelay, r) /\ Within(toHost', toHost, r)
  <2>1. /\ TypeOK /\ toHost' = toHost /\ pending' = pending /\ asked' = asked /\ up' = up
        /\ toRelay \in Seq(Messages) /\ toHost \in Seq(Messages)
    BY <1>1, Typed DEF IInv, FromHost, host
  <2>2. m \in Messages /\ toRelay[1] = m /\ 1 \in DOMAIN toRelay /\ toRelay # <<>> /\ toRelay' = Tail(toRelay)
    BY <1>1, <2>1, TookRelay
  <2>3. \A r \in Streams : Within(toRelay', toRelay, r) /\ Within(toHost', toHost, r)
    BY <2>1, <2>2, WithinTail, WithinPass, Kept
  <2>4. QED BY <2>1, <2>2, <2>3
<1>3. ASSUME NEW r \in Streams, NEW n \in Nat, Awaited(r, n)' PROVE Awaited(r, n)
  BY <1>2, <1>3, Lessened
<1>4. /\ m \in Frames /\ m.of \in Nat /\ \A r \in Streams : used[r] \in Nat /\ up[r] \in Nat
      /\ used \in [Streams -> 0..MaxFrames] /\ MaxFrames \in Nat
  <2>1. /\ m \in Frames /\ MaxFrames \in Nat /\ used \in [Streams -> 0..MaxFrames]
        /\ up \in [Streams -> 0..MaxFrames]
    BY <1>1, <1>2, StreamsAssumption DEF Messages, Frames, Signs, TypeOK
  <2>2. QED BY <2>1 DEF Frames
<1>5. ASSUME NEW r \in Streams, used'[r] = used[r], r \in listIds => r \in listIds' PROVE Known(r)'
  BY <1>1, <1>2, <1>3, <1>5, EasedKeeps DEF Eased, LInv
<1>6. CASE client[s] # "open" \/ m.kind = "plain"
  <2>1. UNCHANGED <<listIds, used, leaked>>
    BY <1>1, <1>6 DEF PolicyToServerFrame
  <2>2. QED BY <1>5, <2>1 DEF LInv, ListsFiltered
<1>7. CASE client[s] = "open" /\ m.kind # "plain" /\ s \in listIds
  <2>1. /\ listIds' = listIds \ {s} /\ used' = [used EXCEPT ![s] = up[s]] /\ leaked' = leaked
    BY <1>1, <1>7 DEF PolicyToServerFrame
  <2>2. used[s] <= up[s] /\ used'[s] = up[s]
    BY <1>4, <2>1 DEF LInv, Known
  <2>3. Known(s)'
    <3>1. ASSUME NEW n \in Nat, Awaited(s, n)' PROVE Recorded(s, n)'
      <4>1. Recorded(s, n)
        BY <1>3, <3>1 DEF LInv, Known
      <4>2. QED BY <1>2, <2>2, <4>1 DEF Recorded
    <3>2. used'[s] <= up'[s]
      BY <1>2, <1>4, <2>2
    <3>3. QED BY <3>1, <3>2 DEF Known
  <2>4. \A r \in Streams \ {s} : Known(r)'
    BY <1>4, <1>5, <2>1
  <2>5. ListsFiltered'
    <3>1. ASSUME NEW l \in leaked PROVE l.of <= used'[l.id]
      <4>1. l.id \in Streams /\ l.of \in Nat /\ l.of <= used[l.id]
        BY <1>2, <1>4 DEF LInv, ListsFiltered, TypeOK
      <4>2. used[l.id] <= used'[l.id] /\ used'[l.id] \in Nat
        BY <1>4, <2>1, <2>2, <4>1
      <4>3. QED BY <1>4, <4>1, <4>2
    <3>2. QED BY <2>1, <3>1 DEF ListsFiltered
  <2>6. QED BY <2>3, <2>4, <2>5 DEF LInv
<1>8. CASE client[s] = "open" /\ m.kind # "plain" /\ s \notin listIds
  <2>1. /\ UNCHANGED <<listIds, used>>
        /\ leaked' = leaked \cup {[id |-> s, of |-> m.of] : k \in {m.kind} \cap {"list"}}
    BY <1>1, <1>8 DEF PolicyToServerFrame
  <2>2. ASSUME m.kind = "list" PROVE m.of <= used[s]
    <3>1. Awaited(s, m.of)
      BY <1>1, <1>2, <2>2 DEF Awaited, IsList, IsData
    <3>2. Recorded(s, m.of)
      BY <1>4, <3>1 DEF LInv, Known
    <3>3. QED BY <1>8, <3>2 DEF Recorded
  <2>3. ListsFiltered'
    <3>1. \A l \in leaked' : l \in leaked \/ (m.kind = "list" /\ l.id = s /\ l.of = m.of)
      BY <2>1
    <3>2. QED BY <2>1, <2>2, <3>1 DEF LInv, ListsFiltered
  <2>4. QED BY <1>5, <2>1, <2>3 DEF LInv
<1>9. QED BY <1>6, <1>7, <1>8

(* The host: requests are kept, reach the app-server and are answered.        *)

LEMMA ListsForwardDataToLocal ==
  ASSUME IInv, LInv, NEW s \in Streams, ForwardDataToLocal(s) PROVE LInv'
<1>1. PICK m :
        /\ m.type = "data" /\ m.id = s /\ FromRelay(m) /\ UNCHANGED toRelay
        /\ \/ UNCHANGED <<pending, asked>>
           \/ Receives(s, <<m>>) /\ UNCHANGED pending
           \/ pending' = [pending EXCEPT ![s] = Append(pending[s], m)] /\ UNCHANGED asked
           \/ CloseLocal({s}) /\ UNCHANGED asked
  BY DEF ForwardDataToLocal
<1>2. /\ TypeOK /\ UNCHANGED <<relay, up, used, leaked>>
      /\ m \in Frames /\ toHost[1] = m /\ 1 \in DOMAIN toHost
      /\ \A r \in Streams : Within(toHost', toHost, r) /\ Within(toRelay', toRelay, r)
  <2>1. TypeOK /\ toHost \in Seq(Messages) /\ toRelay \in Seq(Messages)
        /\ UNCHANGED <<relay, up, used, leaked>>
    BY <1>1, Typed DEF IInv, FromRelay
  <2>2. m \in Messages /\ toHost[1] = m /\ 1 \in DOMAIN toHost /\ toHost # <<>> /\ toHost' = Tail(toHost)
    BY <1>1, <2>1, TookHost
  <2>3. \A r \in Streams : Within(toHost', toHost, r) /\ Within(toRelay', toRelay, r)
    BY <1>1, <2>1, <2>2, WithinTail, WithinPass, Kept
  <2>4. m \in Frames
    BY <1>1, <2>2 DEF Messages, Frames, Signs
  <2>5. QED BY <2>1, <2>2, <2>3, <2>4
<1>3. m.kind = "list" => Awaited(s, m.n)
  BY <1>1, <1>2 DEF Awaited, IsList, IsData
<1>4. ASSUME NEW r \in Streams, NEW n \in Nat, Awaited(r, n)' PROVE Awaited(r, n)
  <2>1. CASE pending'[r] \in {<<>>, pending[r]} /\ asked'[r] \subseteq asked[r]
    BY <1>2, <1>4, <2>1, Lessened
  <2>2. CASE r = s /\ Receives(s, <<m>>) /\ UNCHANGED pending
    <3>1. <<m>> \in Seq(Frames) /\ DOMAIN <<m>> = {1} /\ <<m>>[1] = m
      BY <1>2, One
    <3>2. n \in asked'[s] \ asked[s] =>
            \E i \in DOMAIN <<m>> : <<m>>[i].kind = "list" /\ <<m>>[i].n = n
      BY <1>2, <2>2, <3>1, Received
    <3>3. n \in asked'[s] => n \in asked[s] \/ (m.kind = "list" /\ n = m.n)
      BY <3>1, <3>2
    <3>4. n \in asked'[s] => Awaited(s, n)
      BY <1>3, <3>3 DEF Awaited
    <3>5. \A i \in DOMAIN pending'[s] :
            pending'[s][i].kind = "list" /\ pending'[s][i].n = n => Awaited(s, n)
      BY <2>2 DEF Awaited
    <3>6. QED BY <1>2, <1>4, <2>2, <3>4, <3>5, StillAwaited
  <2>3. CASE r = s /\ pending' = [pending EXCEPT ![s] = Append(pending[s], m)] /\ UNCHANGED asked
    <3>0. pending[s] \in Seq(Frames) /\ pending'[s] = Append(pending[s], m)
      BY <1>2, <2>3 DEF TypeOK
    <3>1. pending[s] \in Seq(Frames) /\ pending'[s] = pending[s] \o <<m>>
      BY <1>2, <3>0, AppendIsConcat
    <3>2. ASSUME NEW i \in DOMAIN pending'[s], pending'[s][i].kind = "list", pending'[s][i].n = n
          PROVE  Awaited(s, n)
      <4>1. pending'[s][i] = m \/ \E j \in DOMAIN pending[s] : pending[s][j] = pending'[s][i]
        BY <1>2, <3>1, <3>2, Added
      <4>2. QED BY <1>3, <3>2, <4>1 DEF Awaited
    <3>3. QED BY <1>2, <1>4, <2>3, <3>2, StillAwaited DEF Awaited
  <2>4. QED
    <3>1. \A S \in SUBSET Streams : CloseLocal(S) => pending'[r] \in {<<>>, pending[r]}
      BY <1>2, ClosedLocal
    <3>2. ASSUME r # s, Receives(s, <<m>>) PROVE asked'[r] = asked[r]
      BY <1>2, <3>2 DEF Receives, TypeOK
    <3>3. ASSUME r # s, pending' = [pending EXCEPT ![s] = Append(pending[s], m)]
          PROVE  pending'[r] = pending[r]
      BY <1>2, <3>3 DEF TypeOK
    <3>4. QED BY <1>1, <2>1, <2>2, <2>3, <3>1, <3>2, <3>3
<1>5. \A r \in Streams : Eased(r)
  BY <1>2, <1>4 DEF Eased, relay
<1>6. QED BY <1>2, <1>5, AllEased

LEMMA ListsOpened ==
  ASSUME IInv, LInv, NEW s \in Streams, Opened(s) PROVE LInv'
<1>1. /\ TypeOK /\ Receives(s, pending[s]) /\ pending' = [pending EXCEPT ![s] = <<>>]
      /\ UNCHANGED <<relay, toHost, toRelay, up, used, leaked>> /\ pending[s] \in Seq(Frames)
  BY Typed DEF IInv, Opened, LocalEvent, history
<1>2. \A r \in Streams : Within(toHost', toHost, r) /\ Within(toRelay', toRelay, r)
  BY <1>1, Typed, WithinPass, Kept
<1>3. ASSUME NEW r \in Streams, NEW n \in Nat, Awaited(r, n)' PROVE Awaited(r, n)
  <2>1. pending'[r] \in {<<>>, pending[r]}
    BY <1>1 DEF TypeOK
  <2>2. CASE r # s
    <3>1. asked'[r] = asked[r]
      BY <1>1, <2>2, Received
    <3>2. QED BY <1>2, <1>3, <2>1, <3>1, Lessened
  <2>3. CASE r = s
    <3>1. n \in asked'[s] => n \in asked[s] \/
            \E i \in DOMAIN pending[s] : pending[s][i].kind = "list" /\ pending[s][i].n = n
      BY <1>1, Received
    <3>2. QED BY <1>2, <1>3, <2>1, <2>3, <3>1, StillAwaited DEF Awaited
  <2>4. QED BY <2>2, <2>3
<1>4. \A r \in Streams : Eased(r)
  BY <1>1, <1>3 DEF Eased, relay
<1>5. QED BY <1>1, <1>4, AllEased

LEMMA ListsAppServerFrame ==
  ASSUME IInv, LInv, NEW s \in Streams, NEW kind \in Kinds \cup {"ask"}, NEW of \in 0..MaxFrames,
         AppServerFrame(s, kind, of), kind = "list" => of \in asked[s]
  PROVE  LInv'
<1> DEFINE m == Data(s, down'[s], kind, of)
<1>1. /\ TypeOK /\ down' = [down EXCEPT ![s] = down[s] + 1] /\ down[s] < MaxFrames
      /\ asked' = [asked EXCEPT ![s] = asked[s] \ {of}] /\ Send(m)
      /\ UNCHANGED <<relay, toHost, pending, up, used, leaked>>
      /\ toRelay \in Seq(Messages)
  BY Typed DEF IInv, AppServerFrame, LocalEvent, history
<1>2. m \in Messages /\ m.id = s /\ m.kind = kind /\ m.of = of
  <2>1. down[s] \in 0..MaxFrames /\ MaxFrames \in Nat /\ down \in [Streams -> 0..MaxFrames]
    BY <1>1, StreamsAssumption DEF TypeOK
  <2>2. down'[s] = down[s] + 1 /\ down[s] + 1 \in 1..MaxFrames
    BY <1>1, <2>1
  <2>3. QED BY <2>2, Sorts, Fields
<1> HIDE DEF m
<1>3. /\ \A r : r # s => Passes(toRelay, toRelay', r)
      /\ toRelay' = toRelay \/ toRelay' = toRelay \o <<m>>
  BY <1>1, <1>2, SentBack
<1>4. \A r \in Streams : asked'[r] \subseteq asked[r] /\ Within(toHost', toHost, r)
  BY <1>1, Typed, WithinPass, Kept DEF TypeOK
<1>5. ASSUME NEW r \in Streams, NEW n \in Nat, Awaited(r, n)' PROVE Awaited(r, n)
  <2>1. CASE r # s
    <3>1. Within(toRelay', toRelay, r)
      BY <1>1, <1>3, <2>1, WithinPass
    <3>2. QED BY <1>1, <1>4, <1>5, <3>1, Lessened
  <2>2. CASE r = s
    <3>1. ASSUME NEW i \in DOMAIN toRelay', IsList(toRelay'[i], s), toRelay'[i].of = n
          PROVE  Awaited(s, n)
      <4>1. toRelay'[i] = m \/ \E j \in DOMAIN toRelay : toRelay[j] = toRelay'[i]
        BY <1>1, <1>2, <1>3, <3>1, Added
      <4>2. QED BY <1>2, <3>1, <4>1 DEF Awaited, IsList
    <3>2. QED BY <1>1, <1>4, <1>5, <2>2, <3>1 DEF Awaited
  <2>3. QED BY <2>1, <2>2
<1>6. \A r \in Streams : Eased(r)
  BY <1>1, <1>5 DEF Eased, relay
<1>7. QED BY <1>1, <1>6, AllEased

(* Every other step leaves the requests alone, or loses some.                 *)
Quiet ==
  /\ UNCHANGED <<up, asked, used, leaked>>
  /\ \A s \in Streams :
       /\ Within(toHost', toHost, s) /\ Within(toRelay', toRelay, s)
       /\ pending'[s] \in {<<>>, pending[s]}
       /\ client'[s] \in {"new", "open"} =>
            client[s] \in {"new", "open"} /\ (s \in listIds => s \in listIds')

LEMMA ListsQuiet ==
  ASSUME LInv, Quiet PROVE LInv'
<1>1. \A s \in Streams, n \in Nat : Awaited(s, n)' => Awaited(s, n)
  BY Lessened DEF Quiet
<1>2. \A s \in Streams : Eased(s)
  BY <1>1 DEF Eased, Quiet
<1>3. QED BY <1>2, AllEased DEF Quiet

LEMMA Same ==
  ASSUME IInv, NEW s \in Streams PROVE Within(toHost, toHost, s) /\ Within(toRelay, toRelay, s)
BY Typed, WithinPass, Kept DEF IInv

LEMMA ListsConnect ==
  ASSUME IInv, LInv, NEW s \in Streams, Connect(s) PROVE LInv'
<1> USE DEF Connect, host, peers, history
<1>1. /\ TypeOK /\ toHost \in Seq(Messages) /\ Open(s) \in Messages
      /\ Open(s).id = s /\ Open(s).type = "open"
      /\ client' = [client EXCEPT ![s] = "open"] /\ client[s] = "new"
      /\ \A r \in Streams \ {s} : client'[r] = client[r]
  <2>1. TypeOK /\ client' = [client EXCEPT ![s] = "open"] /\ client[s] = "new"
    BY DEF IInv
  <2>2. toHost \in Seq(Messages) /\ Open(s) \in Messages /\ Open(s).id = s /\ Open(s).type = "open"
    BY <2>1, Typed, Sorts, Fields
  <2>3. \A r \in Streams \ {s} : client'[r] = client[r]
    BY <2>1 DEF TypeOK
  <2>4. QED BY <2>1, <2>2, <2>3
<1>2. /\ \A r : r # s => Passes(toHost, toHost', r)
      /\ toHost' = toHost \/ toHost' = toHost \o <<Open(s)>>
  BY <1>1, SentOne
<1>3. ASSUME NEW r \in Streams, NEW n \in Nat, Awaited(r, n)' PROVE Awaited(r, n)
  <2>1. CASE r # s
    <3>1. Within(toHost', toHost, r) /\ Within(toRelay', toRelay, r)
      BY <1>1, <1>2, <2>1, WithinPass, Same
    <3>2. QED BY <1>3, <3>1, Lessened
  <2>2. CASE r = s
    <3>1. ASSUME NEW i \in DOMAIN toHost', IsList(toHost'[i], s), toHost'[i].n = n
          PROVE  Awaited(s, n)
      <4>1. toHost'[i] = Open(s) \/ \E j \in DOMAIN toHost : toHost[j] = toHost'[i]
        BY <1>1, <1>2, <3>1, Added
      <4>2. QED BY <1>1, <3>1, <4>1 DEF Awaited, IsList, IsData
    <3>2. QED BY <1>3, <2>2, <3>1 DEF Awaited
  <2>3. QED BY <2>1, <2>2
<1>4. \A r \in Streams : Eased(r)
  BY <1>1, <1>3 DEF Eased
<1>5. QED BY <1>4, AllEased

LEMMA QuietClients ==
  ASSUME IInv, NEW s \in Streams, ClientLeaves(s) \/ ClientClosed(s) \/ CloseFromHost(s)
  PROVE  Quiet
<1>1. /\ TypeOK /\ \A r \in Streams : Within(toHost, toHost, r) /\ Within(toRelay, toRelay, r)
      /\ toHost \in Seq(Messages) /\ toRelay \in Seq(Messages)
  BY Same, Typed DEF IInv
<1>2. CASE ClientLeaves(s)
  BY <1>1, <1>2 DEF ClientLeaves, Quiet, TypeOK, wires, host, peers, history
<1>3. CASE ClientClosed(s)
  <2>1. \A r \in Streams : Within(toHost', toHost, r)
    <3>1. \A r : Passes(toHost, toHost', r)
      BY <1>1, <1>3, SentOne, Sorts, AsideClose DEF ClientClosed
    <3>2. QED BY <1>1, <3>1, WithinPass
  <2>2. QED BY <1>1, <1>3, <2>1 DEF ClientClosed, Ends, Quiet, host, peers, history
<1>4. CASE CloseFromHost(s)
  <2>1. \A r \in Streams : Within(toRelay', toRelay, r)
    <3>1. toRelay # <<>> /\ toRelay' = Tail(toRelay)
      BY <1>1, <1>4, TookRelay DEF CloseFromHost
    <3>2. QED BY <1>1, <3>1, WithinTail
  <2>2. QED BY <1>1, <1>4, <2>1 DEF CloseFromHost, FromHost, Ends, Quiet, host
<1>5. QED BY <1>2, <1>3, <1>4

LEMMA QuietRelay ==
  ASSUME IInv, Admit \/ Bar PROVE Quiet
<1>1. /\ TypeOK /\ \A r \in Streams : Within(toHost, toHost, r) /\ Within(toRelay, toRelay, r)
      /\ \A r \in Streams : toHost \in Seq(Messages)
  BY Same, Typed DEF IInv
<1>2. CASE Admit
  BY <1>1, <1>2 DEF Admit, Quiet, wires, host, peers, history
<1>3. CASE Bar
  <2> DEFINE z == SetToSeq({Close(s) : s \in Live})
  <2>1. z \in Seq(Messages) /\ \A i \in DOMAIN z : \E s \in Live : z[i] = Close(s)
    BY Closings
  <2>2. SendToTunnel(z)
    BY <1>3 DEF Bar
  <2> HIDE DEF z
  <2>3. \A r \in Streams : Within(toHost', toHost, r)
    <3>1. \A r : \A i \in DOMAIN z : Aside(z[i], r)
      BY <2>1, AsideClose
    <3>2. \A r : Passes(toHost, toHost', r)
      BY <1>1, <2>1, <2>2, <3>1, Sent
    <3>3. QED BY <1>1, <3>2, WithinPass
  <2>4. QED BY <1>1, <1>3, <2>3 DEF Bar, Ends, Quiet, host, peers, history
<1>4. QED BY <1>2, <1>3

LEMMA QuietHost ==
  ASSUME IInv, NEW s \in Streams,
         OpenLocalStream(s) \/ CloseFromRelay(s) \/ AppServerCloses(s) \/ LocalClosed(s)
  PROVE  Quiet
<1>1. /\ TypeOK /\ \A r \in Streams : Within(toHost, toHost, r) /\ Within(toRelay, toRelay, r)
      /\ toHost \in Seq(Messages) /\ toRelay \in Seq(Messages)
  BY Same, Typed DEF IInv
<1>2. ASSUME NEW m, FromRelay(m)
      PROVE  \A r \in Streams : Within(toHost', toHost, r)
  <2>1. toHost # <<>> /\ toHost' = Tail(toHost)
    BY <1>1, <1>2, TookHost
  <2>2. QED BY <1>1, <2>1, WithinTail
<1>3. ASSUME Send(Close(s)) PROVE \A r \in Streams : Within(toRelay', toRelay, r)
  <2>1. \A r : Passes(toRelay, toRelay', r)
    BY <1>1, <1>3, SentBack, Sorts, AsideClose
  <2>2. QED BY <1>1, <2>1, WithinPass
<1>4. CASE OpenLocalStream(s)
  BY <1>1, <1>2, <1>3, <1>4 DEF OpenLocalStream, FromRelay, Quiet, relay
<1>5. CASE CloseFromRelay(s)
  <2>1. \A r \in Streams : pending'[r] \in {<<>>, pending[r]}
    BY <1>5 DEF CloseFromRelay, CloseLocal
  <2>2. QED BY <1>1, <1>2, <1>5, <2>1 DEF CloseFromRelay, FromRelay, Quiet, relay
<1>6. CASE AppServerCloses(s)
  BY <1>1, <1>6 DEF AppServerCloses, LocalEvent, Quiet, relay, history
<1>7. CASE LocalClosed(s)
  <2>1. \A r \in Streams : pending'[r] \in {<<>>, pending[r]}
    BY <1>1, <1>7 DEF LocalClosed, TypeOK
  <2>2. QED BY <1>1, <1>3, <1>7, <2>1 DEF LocalClosed, LocalEvent, Quiet, relay, history
<1>8. QED BY <1>4, <1>5, <1>6, <1>7

LEMMA QuietTunnel ==
  ASSUME IInv, LoseTunnel \/ TunnelClosed \/ DropTunnel \/ HostClosed \/ Accept PROVE Quiet
<1>1. /\ \A r \in Streams : Within(toHost, toHost, r) /\ Within(toRelay, toRelay, r)
      /\ \A r : Within(<<>>, toHost, r) /\ Within(<<>>, toRelay, r)
      /\ toRelay \in Seq(Messages)
  BY Same, WithinEmpty DEF IInv, TypeOK, Messages
<1>2. CASE LoseTunnel
  <2>1. \A r \in Streams : pending'[r] \in {<<>>, pending[r]} /\ Within(toRelay', toRelay, r)
    BY <1>1, <1>2, WithinPrefix DEF LoseTunnel, CloseLocal
  <2>2. QED BY <1>1, <1>2, <2>1 DEF LoseTunnel, Quiet, relay, peers, history
<1>3. CASE TunnelClosed
  BY <1>1, <1>3 DEF TunnelClosed, FailClosed, Ends, Quiet, wires, host, peers, history
<1>4. CASE DropTunnel
  BY <1>1, <1>4 DEF DropTunnel, FailClosed, Ends, Quiet, host, peers, history
<1>5. CASE HostClosed
  <2>1. \A r \in Streams : pending'[r] \in {<<>>, pending[r]}
    BY <1>5 DEF HostClosed, CloseLocal
  <2>2. QED BY <1>1, <1>5, <2>1 DEF HostClosed, Quiet, relay, peers, history
<1>6. CASE Accept
  BY <1>1, <1>6 DEF Accept, FailClosed, Ends, Quiet, peers, history
<1>7. QED BY <1>2, <1>3, <1>4, <1>5, <1>6

LEMMA ListsInit == Init => LInv
<1> SUFFICES ASSUME Init PROVE LInv
  OBVIOUS
<1>1. \A s \in Streams, n \in Nat : ~Awaited(s, n)
  BY Emptied DEF Init, Awaited
<1>2. \A s \in Streams : used[s] <= up[s]
  BY DEF Init
<1>3. QED BY <1>1, <1>2 DEF Init, LInv, Known, ListsFiltered

LEMMA ListsNext == IInv /\ LInv /\ [Next]_vars => LInv'
<1> SUFFICES ASSUME IInv, LInv, [Next]_vars PROVE LInv'
  OBVIOUS
<1>1. CASE UNCHANGED vars
  BY <1>1, Same, ListsQuiet DEF Quiet, vars, relay, wires, host, peers, history
<1>2. ASSUME NEW s \in Streams, NEW kind \in Kinds, ClientFrame(s, kind) \/ ClientFrameDenied(s, kind)
      PROVE  LInv'
  BY <1>2, ListsClientFrame, ListsClientFrameDenied
<1>3. ASSUME NEW s \in Streams,
             Connect(s) \/ ForwardDataToClient(s) \/ ForwardDataToLocal(s) \/ Opened(s)
      PROVE  LInv'
  BY <1>3, ListsConnect, ListsForwardDataToClient, ListsForwardDataToLocal, ListsOpened
<1>4. ASSUME NEW s \in Streams, AppServerSends(s) \/ AppServerAnswers(s) PROVE LInv'
  <2>1. 0 \in 0..MaxFrames /\ asked[s] \subseteq 0..MaxFrames
    BY StreamsAssumption DEF IInv, TypeOK
  <2>2. AppServerSends(s) => LInv'
    BY <2>1, ListsAppServerFrame DEF AppServerSends, Kinds
  <2>3. AppServerAnswers(s) => LInv'
    BY <2>1, ListsAppServerFrame DEF AppServerAnswers, Kinds
  <2>4. QED BY <1>4, <2>2, <2>3
<1>5. ASSUME NEW s \in Streams,
             \/ ClientLeaves(s) \/ ClientClosed(s) \/ CloseFromHost(s)
             \/ OpenLocalStream(s) \/ CloseFromRelay(s) \/ AppServerCloses(s) \/ LocalClosed(s)
      PROVE  LInv'
  BY <1>5, QuietClients, QuietHost, ListsQuiet
<1>6. CASE Admit \/ Bar \/ LoseTunnel \/ TunnelClosed \/ DropTunnel \/ HostClosed \/ Accept
  BY <1>6, QuietRelay, QuietTunnel, ListsQuiet
<1>7. QED BY <1>1, <1>2, <1>3, <1>4, <1>5, <1>6 DEF Next

(* However requests, answers and requests of the app-server cross, whatever   *)
(* a client sends, and for any number of streams, frames and lost tunnels: an *)
(* unfiltered list of models is shown only if its id was used up after the    *)
(* list had been asked for (relay.ts:296-299, 315-320).                       *)
THEOREM Filtered == Spec => []ListsFiltered
<1>1. LInv => ListsFiltered
  BY DEF LInv
<1>2. QED BY <1>1, Invariance, ListsInit, ListsNext, PTL DEF Spec
===============================================================================
