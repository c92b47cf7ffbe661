-------------------------- MODULE HttpServerProofs --------------------------
(* Proofs about HttpServer.  The reference counts are exact only because   *)
(* each request is asked once, its message is in the queue once, and the   *)
(* program has no object of it before the message is taken out; the parts  *)
(* of the invariant say so, and together they are inductive.               *)
EXTENDS HttpServer, FiniteSetTheorems, SequenceTheorems, TLAPS

-----------------------------------------------------------------------------
(* The invariant                                                           *)

Running == {"read", "waiting", "release", "close"}
Replying == {"reply", "replied", "chunk", "chunked"}

Occurrences(q, r) == Cardinality({i \in DOMAIN q : q[i].req = r})
Live(f, c) == {r \in Req : Thread(r) = c /\ f[r] > 0}

\* What the phases of the threads say about the other variables.
PhasesOK ==
  /\ lpc = "joinwait" <=> joined # NoConn
  /\ \A c \in pending : spc[c] = "none"
  /\ \A c \in Conn : Contains(servers, c) <=> spc[c] \in Running
  /\ \A c \in Conn : spc[c] \in {"waiting", "release"} => asked[c] > 0
  /\ vpc \in Replying <=> vreq # NoReq
  /\ vpc \in Replying => vreq \in objects

\* Nothing has happened to a request that has not been read yet.
NotAskedYet ==
  \A r \in Req : r[2] > asked[Thread(r)] =>
    refs[r] = 0 /\ signaled[r] = 0 /\ ~completed[r]

\* While a request is in the queue nobody but its server thread knows of it.
QueueOK ==
  \A i \in DOMAIN queue : queue[i].type = "request" =>
    /\ queue[i].req \notin objects /\ Threads(sender[queue[i].req]) = 0
    /\ \A j \in DOMAIN queue : queue[j].req = queue[i].req => j = i

\* A request that has been read and whose reply is not yet complete.
Open(r) ==
  /\ r[2] <= asked[Thread(r)] /\ ~completed[r]
  /\ ~(vreq = r /\ vpc \in {"replied", "chunked"})
  /\ sender[r]["sent"] = 0

\* Only one reply to a request is under way, and until the server shuts down the
\* server thread waits for it - unless the program has replied twice at a time.
TurnOK ==
  /\ \A r \in Req \ doubled :
       Unfinished(sender[r]) <= 1 /\ (Unfinished(sender[r]) > 0 => ~completed[r])
  /\ vpc \in Replying /\ vreq \notin doubled =>
       ~completed[vreq] /\ Unfinished(sender[vreq]) = 0
  /\ ~shutdown => \A r \in Req \ doubled : Open(r) =>
       spc[Thread(r)] = "waiting" /\ Cur(Thread(r)) = r /\ signaled[r] = 0

IInv ==
  /\ TypeOK /\ RefsExact /\ EventCountsMessages
  /\ PhasesOK /\ NotAskedYet /\ QueueOK /\ TurnOK

-----------------------------------------------------------------------------
(* Requests, the queue and the list of threads                             *)

(* What a request is made of.                                              *)
LEMMA ReqForm ==
  /\ \A r \in Req : /\ Thread(r) \in Conn /\ r[2] \in Nat \ {0}
                    /\ r[2] <= MaxReq[Thread(r)] /\ r = <<Thread(r), r[2]>>
  /\ \A c \in Conn, n \in Nat : n > 0 /\ n <= MaxReq[c] =>
       <<c, n>> \in Req /\ Thread(<<c, n>>) = c
  /\ NoReq \notin Req /\ NoConn \notin Conn
<1>1. \A c \in Conn : MaxReq[c] \in Nat
  BY HttpAssumption
<1>2. ASSUME NEW r \in Req
      PROVE  /\ Thread(r) \in Conn /\ r[2] \in Nat \ {0}
             /\ r[2] <= MaxReq[Thread(r)] /\ r = <<Thread(r), r[2]>>
  <2>1. PICK c \in Conn : r \in {<<c, n>> : n \in 1 .. MaxReq[c]}
    BY DEF Req
  <2>2. PICK n \in 1 .. MaxReq[c] : r = <<c, n>>
    BY <2>1
  <2> QED
    BY <1>1, <2>2 DEF Thread
<1>3. ASSUME NEW c \in Conn, NEW n \in Nat, n > 0, n <= MaxReq[c]
      PROVE  <<c, n>> \in Req /\ Thread(<<c, n>>) = c
  <2>1. n \in 1 .. MaxReq[c]
    BY <1>1, <1>3
  <2>2. <<c, n>> \in {<<c, m>> : m \in 1 .. MaxReq[c]}
    BY <2>1
  <2> QED
    BY <2>2 DEF Req, Thread
<1>4. NoReq \notin Req
  <2> SUFFICES ASSUME NoReq \in Req PROVE FALSE
    OBVIOUS
  <2>1. NoReq = <<Thread(NoReq), NoReq[2]>> /\ Thread(NoReq) \in Conn /\ NoReq[2] \in Nat
    BY <1>2
  <2>2. <<Thread(NoReq), NoReq[2]>> \in Conn \X Nat
    BY <2>1
  <2> QED
    BY <2>1, <2>2, HttpAssumption
<1> QED
  BY <1>2, <1>3, <1>4, HttpAssumption

(* A connection has finitely many live requests.                           *)
LEMMA LiveFinite ==
  ASSUME NEW f, NEW c \in Conn
  PROVE  IsFiniteSet(Live(f, c)) /\ Cardinality(Live(f, c)) \in Nat
<1> DEFINE Mine == {r \in Req : Thread(r) = c}
           Nth == [n \in 1 .. MaxReq[c] |-> <<c, n>>]
<1>1. MaxReq[c] \in Nat
  BY HttpAssumption
<1>2. IsFiniteSet(1 .. MaxReq[c])
  BY <1>1, FS_Interval
<1>3. Nth \in Surjection(1 .. MaxReq[c], Mine)
  <2>1. \A n \in 1 .. MaxReq[c] : <<c, n>> \in Mine
    BY <1>1, ReqForm
  <2>2. Nth \in [1 .. MaxReq[c] -> Mine]
    BY <2>1
  <2>3. ASSUME NEW r \in Mine
        PROVE  \E n \in 1 .. MaxReq[c] : Nth[n] = r
    <3>1. r[2] \in 1 .. MaxReq[c] /\ r = <<c, r[2]>>
      BY <1>1, ReqForm
    <3> QED
      BY <3>1
  <2> QED
    BY <2>2, <2>3 DEF Surjection
<1>4. IsFiniteSet(Mine)
  BY <1>2, <1>3, FS_Surjection
<1>5. Live(f, c) \in SUBSET Mine
  BY DEF Live
<1> QED
  BY <1>4, <1>5, FS_Subset, FS_CardinalityType

(* The places of a request in the queue can be counted.                    *)
LEMMA OccurrencesFinite ==
  ASSUME NEW q \in Seq(Message), NEW r
  PROVE  /\ IsFiniteSet({i \in DOMAIN q : q[i].req = r})
         /\ Occurrences(q, r) \in Nat
         /\ Occurrences(q, r) > 0 <=> \E i \in DOMAIN q : q[i].req = r
<1> DEFINE At == {i \in DOMAIN q : q[i].req = r}
<1>1. Len(q) \in Nat /\ DOMAIN q = 1 .. Len(q)
  BY LenProperties
<1>2. IsFiniteSet(1 .. Len(q))
  BY <1>1, FS_Interval
<1>3. IsFiniteSet(At)
  BY <1>1, <1>2, FS_Subset
<1>4. Cardinality(At) \in Nat /\ (Cardinality(At) = 0 <=> At = {})
  BY <1>3, FS_CardinalityType, FS_EmptySet
<1> QED
  BY <1>3, <1>4 DEF Occurrences

(* A message that is posted adds a place of its request.                   *)
LEMMA OccurrencesAppend ==
  ASSUME NEW q \in Seq(Message), NEW m \in Message, NEW r
  PROVE  Occurrences(Append(q, m), r) = Occurrences(q, r) + One(m.req = r)
<1> DEFINE At == {i \in DOMAIN q : q[i].req = r}
           p == Append(q, m)
           AtP == {i \in DOMAIN p : p[i].req = r}
<1>1. /\ Len(q) \in Nat /\ DOMAIN q = 1 .. Len(q)
      /\ p \in Seq(Message) /\ DOMAIN p = 1 .. Len(q) + 1
      /\ \A i \in 1 .. Len(q) : p[i] = q[i]
      /\ p[Len(q) + 1] = m
  BY LenProperties, AppendProperties
<1>2. IsFiniteSet(At) /\ Cardinality(At) \in Nat
  BY OccurrencesFinite DEF Occurrences
<1>3. CASE m.req = r
  <2>1. AtP = At \cup {Len(q) + 1}
    BY <1>1, <1>3
  <2>2. Len(q) + 1 \notin At
    BY <1>1
  <2>3. Cardinality(AtP) = Cardinality(At) + 1
    BY <1>2, <2>1, <2>2, FS_AddElement
  <2> QED
    BY <1>3, <2>3 DEF Occurrences, One
<1>4. CASE m.req # r
  <2>1. AtP = At
    BY <1>1, <1>4
  <2>2. Occurrences(p, r) = Cardinality(At)
    BY <2>1 DEF Occurrences
  <2>3. Occurrences(q, r) = Cardinality(At)
    BY DEF Occurrences
  <2>4. One(m.req = r) = 0
    BY <1>4 DEF One
  <2> QED
    BY <1>2, <2>2, <2>3, <2>4
<1> QED
  BY <1>3, <1>4

(* A message that is taken out takes a place of its request away.          *)
LEMMA OccurrencesTail ==
  ASSUME NEW q \in Seq(Message), q # <<>>, NEW r
  PROVE  Occurrences(q, r) = Occurrences(Tail(q), r) + One(Head(q).req = r)
<1> DEFINE At == {i \in DOMAIN q : q[i].req = r}
           t == Tail(q)
           AtT == {i \in DOMAIN t : t[i].req = r}
           Up == [i \in AtT |-> i + 1]
<1>1. /\ Len(q) \in Nat \ {0} /\ DOMAIN q = 1 .. Len(q)
      /\ t \in Seq(Message) /\ Len(t) = Len(q) - 1 /\ DOMAIN t = 1 .. Len(q) - 1
      /\ \A i \in 1 .. Len(q) - 1 : t[i] = q[i + 1]
      /\ Head(q) = q[1]
  BY LenProperties, EmptySeq, HeadTailProperties
<1>2. IsFiniteSet(AtT) /\ IsFiniteSet(At) /\ Cardinality(At) \in Nat
  BY <1>1, OccurrencesFinite DEF Occurrences
<1>3. Up \in Bijection(AtT, At \ {1})
  <2>1. Up \in [AtT -> At \ {1}]
    BY <1>1
  <2>2. \A i, j \in AtT : Up[i] = Up[j] => i = j
    BY <1>1
  <2>3. ASSUME NEW j \in At \ {1}
        PROVE  \E i \in AtT : Up[i] = j
    <3>1. j - 1 \in AtT
      BY <1>1
    <3> QED
      BY <1>1, <3>1
  <2> QED
    BY <2>1, <2>2, <2>3 DEF Bijection, Injection, Surjection, IsInjective
<1>4. Cardinality(At \ {1}) = Cardinality(AtT)
  BY ZenonT(40), <1>2, <1>3, FS_Bijection DEF ExistsBijection
<1>5. Cardinality(At \ {1}) = IF 1 \in At THEN Cardinality(At) - 1 ELSE Cardinality(At)
  BY <1>2, FS_RemoveElement
<1>6. 1 \in At <=> Head(q).req = r
  BY <1>1
<1>7. Occurrences(q, r) = Cardinality(At) /\ Occurrences(t, r) = Cardinality(AtT)
  BY DEF Occurrences
<1>8. One(Head(q).req = r) = IF 1 \in At THEN 1 ELSE 0
  BY <1>6 DEF One
<1> HIDE DEF At, AtT
<1> QED
  BY <1>2, <1>4, <1>5, <1>7, <1>8

(* A thread that is taken off the list is no longer in it, the others are. *)
LEMMA RemoveFromList ==
  ASSUME NEW s \in Seq(Conn), IsInjective(s), NEW i \in DOMAIN s
  PROVE  /\ RemoveAt(s, i) \in Seq(Conn) /\ IsInjective(RemoveAt(s, i))
         /\ \A c : Contains(RemoveAt(s, i), c) <=> Contains(s, c) /\ c # s[i]
<1> DEFINE a == SubSeq(s, 1, i - 1)
           b == SubSeq(s, i + 1, Len(s))
           t == RemoveAt(s, i)
<1>1. Len(s) \in Nat /\ DOMAIN s = 1 .. Len(s) /\ i \in 1 .. Len(s)
      /\ \A j \in 1 .. Len(s) : s[j] \in Conn
  BY LenProperties, ElementOfSeq
<1>2. /\ a \in Seq(Conn) /\ Len(a) = i - 1
      /\ \A j \in 1 .. i - 1 : a[j] = s[j]
  <2>1. \A j \in 1 .. i - 1 : s[j] \in Conn
    BY <1>1
  <2> QED
    BY <1>1, <2>1, SubSeqProperties
<1>3. /\ b \in Seq(Conn) /\ Len(b) = Len(s) - i
      /\ \A j \in 1 .. Len(s) - i : b[j] = s[j + i]
  <2>1. \A j \in i + 1 .. Len(s) : s[j] \in Conn
    BY <1>1
  <2>2. /\ b \in Seq(Conn)
        /\ Len(b) = IF i + 1 <= Len(s) THEN Len(s) - (i + 1) + 1 ELSE 0
        /\ \A j \in 1 .. Len(s) - (i + 1) + 1 : b[j] = s[i + 1 + j - 1]
    BY <1>1, <2>1, SubSeqProperties
  <2>3. \A j \in 1 .. Len(s) - i : b[j] = s[j + i]
    <3> TAKE j \in 1 .. Len(s) - i
    <3>1. i + 1 + j - 1 = j + i /\ j \in 1 .. Len(s) - (i + 1) + 1
      BY <1>1
    <3> QED
      BY <2>2, <3>1
  <2> QED
    BY <1>1, <2>2, <2>3
<1>4. /\ t \in Seq(Conn) /\ Len(t) = Len(s) - 1 /\ DOMAIN t = 1 .. Len(s) - 1
      /\ \A j \in 1 .. Len(s) - 1 : t[j] = IF j < i THEN s[j] ELSE s[j + 1]
  <2>1. /\ t \in Seq(Conn) /\ Len(t) = Len(a) + Len(b)
        /\ \A j \in 1 .. Len(a) + Len(b) :
             t[j] = IF j <= Len(a) THEN a[j] ELSE b[j - Len(a)]
    BY <1>2, <1>3, ConcatProperties DEF RemoveAt
  <2>2. ASSUME NEW j \in 1 .. Len(s) - 1
        PROVE  t[j] = IF j < i THEN s[j] ELSE s[j + 1]
    <3>1. CASE j < i
      BY <1>1, <1>2, <1>3, <2>1, <3>1
    <3>2. CASE j >= i
      <4>1. PICK n, p, q, k : /\ n = Len(s) /\ p = Len(a) /\ q = Len(b)
                              /\ k = j - Len(a)
        OBVIOUS
      <4>6. n \in Nat /\ i \in 1 .. n /\ j \in 1 .. n - 1
        BY <1>1, <4>1
      <4>7. p = i - 1 /\ q = n - i
        BY <1>2, <1>3, <4>1
      <4>8. k \in 1 .. n - i /\ k + i = j + 1 /\ j \in 1 .. p + q /\ ~(j <= p)
        <5>1. k = j - p /\ i \in Int /\ j \in Int /\ n \in Int
          BY <4>1, <4>6
        <5>2. k = j - i + 1 /\ k \in Int
          BY <4>7, <5>1
        <5>3. k + i = j + 1
          BY <5>1, <5>2
        <5>4. i >= 1 /\ i <= n /\ j >= 1 /\ j <= n - 1 /\ j >= i
          BY <3>2, <4>6
        <5>5. k \in 1 .. n - i
          BY <5>1, <5>2, <5>4
        <5>6. p + q = n - 1 /\ ~(j <= p)
          BY <4>7, <5>1, <5>4
        <5> QED
          BY <4>6, <5>3, <5>5, <5>6
      <4>2. /\ k \in 1 .. Len(s) - i /\ k + i = j + 1
            /\ j \in 1 .. Len(a) + Len(b) /\ ~(j <= Len(a))
        BY <4>1, <4>8
      <4>3. t[j] = b[k]
        BY <2>1, <4>1, <4>2
      <4>4. b[k] = s[j + 1]
        BY <1>3, <4>2
      <4>5. ~(j < i)
        BY <1>1, <3>2
      <4> QED
        BY <4>3, <4>4, <4>5
    <3> QED
      BY <1>1, <3>1, <3>2
  <2> QED
    BY <1>1, <1>2, <1>3, <2>1, <2>2, LenProperties
<1>5. IsInjective(t)
  <2>1. ASSUME NEW x \in 1 .. Len(s) - 1, NEW y \in 1 .. Len(s) - 1, t[x] = t[y]
        PROVE  x = y
    <3>1. PICK v, w : /\ v = IF x < i THEN x ELSE x + 1
                      /\ w = IF y < i THEN y ELSE y + 1
      OBVIOUS
    <3>2. v \in 1 .. Len(s) /\ w \in 1 .. Len(s) /\ (v = w => x = y)
      BY <1>1, <3>1
    <3>3. s[v] = s[w]
      BY <1>4, <2>1, <3>1
    <3>4. v = w
      BY <1>1, <3>2, <3>3 DEF IsInjective
    <3> QED
      BY <3>2, <3>4
  <2> HIDE DEF t
  <2> QED
    BY <1>4, <2>1 DEF IsInjective
<1>6. ASSUME NEW c, Contains(s, c), c # s[i]
      PROVE  Contains(t, c)
  <2>1. PICK j \in 1 .. Len(s) : s[j] = c
    BY <1>6 DEF Contains
  <2>2. CASE j < i
    BY <1>1, <1>4, <2>1, <2>2 DEF Contains
  <2>3. CASE j > i
    <3>1. j - 1 \in 1 .. Len(s) - 1 /\ ~(j - 1 < i) /\ j - 1 + 1 = j
      BY <1>1, <2>3
    <3>2. t[j - 1] = c
      BY <1>4, <2>1, <3>1
    <3> QED
      BY <1>4, <3>1, <3>2 DEF Contains
  <2> QED
    BY <1>1, <1>6, <2>1, <2>2, <2>3
<1>7. ASSUME NEW c, Contains(t, c)
      PROVE  Contains(s, c) /\ c # s[i]
  <2>1. PICK j \in 1 .. Len(s) - 1 : t[j] = c
    BY <1>4, <1>7 DEF Contains
  <2>2. CASE j < i
    BY <1>1, <1>4, <2>1, <2>2 DEF Contains, IsInjective
  <2>3. CASE j >= i
    <3>1. j + 1 \in 1 .. Len(s) /\ j + 1 # i /\ s[j + 1] = c
      BY <1>1, <1>4, <2>1, <2>3
    <3> QED
      BY <1>1, <3>1 DEF Contains, IsInjective
  <2> QED
    BY <1>1, <2>2, <2>3
<1> QED
  BY <1>4, <1>5, <1>6, <1>7

(* A thread that is put at the head of the list is in it, with the others.  *)
LEMMA AddToList ==
  ASSUME NEW s \in Seq(Conn), IsInjective(s), NEW c \in Conn, ~Contains(s, c)
  PROVE  /\ <<c>> \o s \in Seq(Conn) /\ IsInjective(<<c>> \o s)
         /\ \A d : Contains(<<c>> \o s, d) <=> Contains(s, d) \/ d = c
<1> DEFINE t == <<c>> \o s
<1>1. Len(s) \in Nat /\ DOMAIN s = 1 .. Len(s)
  BY LenProperties
<1>2. <<c>> \in Seq(Conn) /\ Len(<<c>>) = 1 /\ <<c>>[1] = c
  OBVIOUS
<1>3. /\ t \in Seq(Conn) /\ Len(t) = 1 + Len(s)
      /\ \A j \in 1 .. 1 + Len(s) : t[j] = IF j <= 1 THEN <<c>>[j] ELSE s[j - 1]
  BY <1>2, ConcatProperties
<1>4. /\ DOMAIN t = 1 .. Len(s) + 1 /\ Len(t) = Len(s) + 1 /\ t[1] = c
      /\ \A j \in 2 .. Len(s) + 1 : t[j] = s[j - 1]
  BY <1>1, <1>2, <1>3, LenProperties
<1>5. \A j \in 1 .. Len(s) : t[j + 1] = s[j]
  BY <1>1, <1>4
<1>6. IsInjective(t)
  <2> SUFFICES ASSUME NEW j \in DOMAIN t, NEW k \in DOMAIN t, t[j] = t[k]
               PROVE  j = k
    BY DEF IsInjective
  <2>1. CASE j = 1 /\ k > 1
    BY <1>1, <1>4, <2>1 DEF Contains
  <2>2. CASE k = 1 /\ j > 1
    BY <1>1, <1>4, <2>2 DEF Contains
  <2>3. CASE j > 1 /\ k > 1
    <3>1. j - 1 \in DOMAIN s /\ k - 1 \in DOMAIN s /\ s[j - 1] = s[k - 1]
      BY <1>1, <1>4, <2>3
    <3> QED
      BY <1>1, <1>4, <3>1 DEF IsInjective
  <2> QED
    BY <1>1, <1>4, <2>1, <2>2, <2>3
<1>7. ASSUME NEW d
      PROVE  Contains(t, d) <=> Contains(s, d) \/ d = c
  <2>1. ASSUME Contains(t, d) PROVE Contains(s, d) \/ d = c
    <3>1. PICK j \in 1 .. Len(s) + 1 : t[j] = d
      BY <1>4, <2>1 DEF Contains
    <3>2. j = 1 \/ j - 1 \in 1 .. Len(s)
      BY <1>1
    <3> QED
      BY <1>1, <1>4, <3>1, <3>2 DEF Contains
  <2>2. ASSUME Contains(s, d) PROVE Contains(t, d)
    <3>1. PICK j \in 1 .. Len(s) : s[j] = d
      BY <2>2 DEF Contains
    <3>2. j + 1 \in 1 .. Len(t) /\ t[j + 1] = d
      BY <1>1, <1>4, <1>5, <3>1
    <3> QED
      BY <3>2 DEF Contains
  <2>3. ASSUME d = c PROVE Contains(t, d)
    <3>1. 1 \in 1 .. Len(t)
      BY <1>1, <1>4
    <3> QED
      BY <1>4, <2>3, <3>1 DEF Contains
  <2> QED
    BY <2>1, <2>2, <2>3
<1> QED
  BY <1>3, <1>6, <1>7

-----------------------------------------------------------------------------
(* The background senders                                                  *)

(* The threads that send a reply, and those that have not completed the    *)
(* request yet, are counted.                                               *)
LEMMA ThreadsCounted ==
  ASSUME NEW s \in [SenderPhase -> Nat]
  PROVE  /\ s["sending"] \in Nat /\ s["sent"] \in Nat /\ s["post"] \in Nat
         /\ Threads(s) \in Nat /\ Unfinished(s) \in Nat
         /\ Threads(s) = Unfinished(s) + s["post"]
         /\ Unfinished(s) = s["sending"] + s["sent"]
<1>1. s["sending"] \in Nat /\ s["sent"] \in Nat /\ s["post"] \in Nat
  BY DEF SenderPhase
<1> QED
  BY <1>1 DEF Threads, Unfinished

(* A step that changes how many threads are in one phase of one request.   *)
LEMMA SenderSet ==
  ASSUME sender \in [Req -> [SenderPhase -> Nat]], NEW q \in Req, NEW p \in SenderPhase,
         NEW n \in Nat, sender' = [sender EXCEPT ![q][p] = n]
  PROVE  /\ sender' \in [Req -> [SenderPhase -> Nat]]
         /\ \A r \in Req \ {q} : sender'[r] = sender[r]
         /\ sender'[q][p] = n
         /\ \A o \in SenderPhase \ {p} : sender'[q][o] = sender[q][o]
<1>1. sender'[q] = [sender[q] EXCEPT ![p] = n] /\ \A r \in Req \ {q} : sender'[r] = sender[r]
  OBVIOUS
<1>2. sender[q] \in [SenderPhase -> Nat]
  OBVIOUS
<1>3. sender'[q] \in [SenderPhase -> Nat]
  BY <1>1, <1>2
<1>4. sender' \in [Req -> [SenderPhase -> Nat]]
  BY <1>3
<1> QED
  BY <1>1, <1>2, <1>4

(* A thread of a request that goes from one phase to the next.             *)
LEMMA SenderMoved ==
  ASSUME sender \in [Req -> [SenderPhase -> Nat]], NEW q \in Req, NEW from \in SenderPhase,
         NEW to \in SenderPhase, from # to, SenderGoes(q, from, to)
  PROVE  /\ sender' \in [Req -> [SenderPhase -> Nat]]
         /\ \A r \in Req \ {q} : sender'[r] = sender[r]
         /\ sender'[q][from] = sender[q][from] - 1 /\ sender'[q][to] = sender[q][to] + 1
         /\ \A o \in SenderPhase \ {from, to} : sender'[q][o] = sender[q][o]
<1> DEFINE mid == [sender EXCEPT ![q][from] = sender[q][from] - 1]
<1>1. /\ sender[q] \in [SenderPhase -> Nat] /\ sender[q][from] \in Nat
      /\ sender[q][from] > 0 /\ sender[q][to] \in Nat
  BY DEF SenderGoes
<1>2. /\ mid \in [Req -> [SenderPhase -> Nat]]
      /\ mid[q] = [sender[q] EXCEPT ![from] = sender[q][from] - 1]
      /\ \A r \in Req \ {q} : mid[r] = sender[r]
  <2>1. mid[q] = [sender[q] EXCEPT ![from] = sender[q][from] - 1]
    OBVIOUS
  <2>2. sender[q][from] - 1 \in Nat
    BY <1>1
  <2>3. [sender[q] EXCEPT ![from] = sender[q][from] - 1] \in [SenderPhase -> Nat]
    BY <1>1, <2>2
  <2> QED
    BY <2>1, <2>3
<1>3. mid[q][to] = sender[q][to]
  BY <1>1, <1>2
<1>4. sender' = [mid EXCEPT ![q][to] = mid[q][to] + 1]
  BY DEF SenderGoes
<1> HIDE DEF mid
<1>5. sender'[q] = [mid[q] EXCEPT ![to] = mid[q][to] + 1]
      /\ \A r \in Req \ {q} : sender'[r] = mid[r]
  BY <1>2, <1>4
<1>6. mid[q] \in [SenderPhase -> Nat] /\ mid[q][to] + 1 \in Nat
  BY <1>1, <1>2, <1>3
<1>7. sender'[q] \in [SenderPhase -> Nat]
  BY <1>5, <1>6
<1>8. sender' \in [Req -> [SenderPhase -> Nat]]
  BY <1>2, <1>4, <1>5, <1>7
<1> QED
  BY <1>1, <1>2, <1>3, <1>5, <1>6, <1>8

(* What a background sender's step does to the threads of its request, and  *)
(* to no other's.                                                          *)
LEMMA SenderSteps ==
  ASSUME sender \in [Req -> [SenderPhase -> Nat]], NEW q \in Req,
         SenderSends(q) \/ SenderCompletes(q) \/ SenderPosts(q)
  PROVE  /\ sender' \in [Req -> [SenderPhase -> Nat]]
         /\ \A r \in Req \ {q} : sender'[r] = sender[r]
         /\ Threads(sender[q]) > 0
         /\ SenderSends(q) =>
              /\ Threads(sender'[q]) = Threads(sender[q])
              /\ Unfinished(sender'[q]) = Unfinished(sender[q])
              /\ Unfinished(sender[q]) > 0 /\ sender'[q]["sent"] > 0
         /\ SenderCompletes(q) =>
              /\ Threads(sender'[q]) = Threads(sender[q])
              /\ Unfinished(sender'[q]) = Unfinished(sender[q]) - 1
              /\ Unfinished(sender[q]) > 0
         /\ SenderPosts(q) =>
              /\ Threads(sender'[q]) = Threads(sender[q]) - 1
              /\ Unfinished(sender'[q]) = Unfinished(sender[q])
              /\ sender'[q]["sent"] = sender[q]["sent"]
<1> DEFINE Others == \A r \in Req \ {q} : sender'[r] = sender[r]
           a == sender[q]
           b == sender'[q]
<1>1. /\ a \in [SenderPhase -> Nat]
      /\ a["sending"] \in Nat /\ a["sent"] \in Nat /\ a["post"] \in Nat
      /\ {"sending", "sent", "post"} = SenderPhase
  BY DEF SenderPhase
<1>2. ASSUME SenderSends(q)
      PROVE  /\ sender' \in [Req -> [SenderPhase -> Nat]] /\ Others
             /\ a["sending"] > 0 /\ b["sending"] = a["sending"] - 1
             /\ b["sent"] = a["sent"] + 1 /\ b["post"] = a["post"]
  <2>1. SenderGoes(q, "sending", "sent") /\ a["sending"] > 0
    BY <1>2 DEF SenderSends, SenderGoes
  <2> QED
    BY <1>1, <2>1, SenderMoved
<1>3. ASSUME SenderCompletes(q)
      PROVE  /\ sender' \in [Req -> [SenderPhase -> Nat]] /\ Others
             /\ a["sent"] > 0 /\ b["sent"] = a["sent"] - 1
             /\ b["post"] = a["post"] + 1 /\ b["sending"] = a["sending"]
  <2>1. SenderGoes(q, "sent", "post") /\ a["sent"] > 0
    BY <1>3 DEF SenderCompletes, SenderGoes
  <2> QED
    BY <1>1, <2>1, SenderMoved
<1>4. ASSUME SenderPosts(q)
      PROVE  /\ sender' \in [Req -> [SenderPhase -> Nat]] /\ Others
             /\ a["post"] > 0 /\ b["post"] = a["post"] - 1
             /\ b["sent"] = a["sent"] /\ b["sending"] = a["sending"]
  <2>1. a["post"] > 0 /\ sender' = [sender EXCEPT ![q]["post"] = sender[q]["post"] - 1]
    BY <1>4 DEF SenderPosts
  <2>2. a["post"] - 1 \in Nat
    BY <1>1, <2>1
  <2> QED
    BY <1>1, <2>1, <2>2, SenderSet
<1> HIDE DEF a, b, Others
<1>5. SenderSends(q) => /\ Threads(b) = Threads(a) /\ Unfinished(b) = Unfinished(a)
                        /\ Unfinished(a) > 0 /\ b["sent"] > 0 /\ Threads(a) > 0
  <2> SUFFICES ASSUME SenderSends(q)
               PROVE  /\ Threads(b) = Threads(a) /\ Unfinished(b) = Unfinished(a)
                      /\ Unfinished(a) > 0 /\ b["sent"] > 0 /\ Threads(a) > 0
    OBVIOUS
  <2>1. /\ a["sending"] > 0 /\ b["sending"] = a["sending"] - 1
        /\ b["sent"] = a["sent"] + 1 /\ b["post"] = a["post"]
    BY <1>2
  <2> QED
    BY <1>1, <2>1 DEF Threads, Unfinished
<1>6. SenderCompletes(q) => /\ Threads(b) = Threads(a) /\ Unfinished(b) = Unfinished(a) - 1
                            /\ Unfinished(a) > 0 /\ Threads(a) > 0
  <2> SUFFICES ASSUME SenderCompletes(q)
               PROVE  /\ Threads(b) = Threads(a) /\ Unfinished(b) = Unfinished(a) - 1
                      /\ Unfinished(a) > 0 /\ Threads(a) > 0
    OBVIOUS
  <2>1. /\ a["sent"] > 0 /\ b["sent"] = a["sent"] - 1
        /\ b["post"] = a["post"] + 1 /\ b["sending"] = a["sending"]
    BY <1>3
  <2> QED
    BY <1>1, <2>1 DEF Threads, Unfinished
<1>7. SenderPosts(q) => /\ Threads(b) = Threads(a) - 1 /\ Unfinished(b) = Unfinished(a)
                        /\ b["sent"] = a["sent"] /\ Threads(a) > 0
  <2> SUFFICES ASSUME SenderPosts(q)
               PROVE  /\ Threads(b) = Threads(a) - 1 /\ Unfinished(b) = Unfinished(a)
                      /\ b["sent"] = a["sent"] /\ Threads(a) > 0
    OBVIOUS
  <2>1. /\ a["post"] > 0 /\ b["post"] = a["post"] - 1
        /\ b["sent"] = a["sent"] /\ b["sending"] = a["sending"]
    BY <1>4
  <2> QED
    BY <1>1, <2>1 DEF Threads, Unfinished
<1> QED
  BY <1>2, <1>3, <1>4, <1>5, <1>6, <1>7 DEF a, b, Others

(* What sendReplyAsync does to the threads: it launches one, or fails to.   *)
LEMMA SenderLaunched ==
  ASSUME sender \in [Req -> [SenderPhase -> Nat]], NEW q \in Req,
         sender' = [sender EXCEPT ![q]["sending"] = @ + 1]
  PROVE  /\ sender' \in [Req -> [SenderPhase -> Nat]]
         /\ \A r \in Req \ {q} : sender'[r] = sender[r]
         /\ Threads(sender'[q]) = Threads(sender[q]) + 1
         /\ Unfinished(sender'[q]) = Unfinished(sender[q]) + 1
         /\ sender'[q]["sent"] = sender[q]["sent"]
<1> DEFINE a == sender[q]
           b == sender'[q]
<1>1. /\ a["sending"] \in Nat /\ a["sent"] \in Nat /\ a["post"] \in Nat
      /\ {"sending", "sent", "post"} = SenderPhase
  BY DEF SenderPhase
<1>2. sender' = [sender EXCEPT ![q]["sending"] = sender[q]["sending"] + 1]
  OBVIOUS
<1>3. /\ sender' \in [Req -> [SenderPhase -> Nat]]
      /\ \A r \in Req \ {q} : sender'[r] = sender[r]
      /\ b["sending"] = a["sending"] + 1 /\ b["sent"] = a["sent"] /\ b["post"] = a["post"]
  <2>1. a["sending"] + 1 \in Nat
    BY <1>1
  <2> QED
    BY <1>1, <1>2, <2>1, SenderSet
<1> HIDE DEF a, b
<1>4. Threads(b) = Threads(a) + 1 /\ Unfinished(b) = Unfinished(a) + 1
  BY <1>1, <1>3 DEF Threads, Unfinished
<1> QED
  BY <1>3, <1>4 DEF a, b

(* A step does not make the threads of a request any less countable.       *)
LEMMA SenderTyped ==
  ASSUME TypeOK, [Next]_vars
  PROVE  sender' \in [Req -> [SenderPhase -> Nat]]
<1> USE DEF listenerVars, serverVars, queueVars, eventVars, vmVars
<1>1. sender \in [Req -> [SenderPhase -> Nat]]
  BY DEF TypeOK
<1>2. ASSUME NEW r \in Req, SenderStep(r)
      PROVE  sender' \in [Req -> [SenderPhase -> Nat]]
  BY <1>1, <1>2, SenderSteps DEF SenderStep
<1>3. ASSUME NEW r \in Req, SendReplyAsync(r)
      PROVE  sender' \in [Req -> [SenderPhase -> Nat]]
  BY <1>1, <1>3, SenderLaunched DEF SendReplyAsync
<1>4. CASE ListenerStep \/ UNCHANGED vars
  BY <1>1, <1>4 DEF ListenerStep, ListenerWakes, AcceptFails, AcceptEnds, ListenerJoin,
    ListenerJoined, Accept, vars
<1>5. CASE VmStep
  BY <1>1, <1>5 DEF VmStep, QueueEvent, GetMessage, ReplySent, ReplyDone, ChunkSent,
    ChunkedDone, ShutdownReturns, Flush
<1>6. CASE \/ GetNetEvent \/ QueueTimeout \/ CollectServer \/ Terminate
           \/ \E wait \in BOOLEAN : Shutdown(wait)
           \/ \E r \in Req : SendReply(r) \/ SendChunk(r) \/ CollectRequest(r)
  BY <1>1, <1>6 DEF GetNetEvent, QueueTimeout, CollectServer, Terminate, Shutdown, SendReply,
    SendChunk, CollectRequest
<1>7. ASSUME NEW c \in Conn, Connect(c) \/ SendRequest(c) \/ ReadFails(c) \/ ServerStep(c)
      PROVE  sender' \in [Req -> [SenderPhase -> Nat]]
  BY <1>1, <1>7 DEF Connect, SendRequest, ReadFails, ServerStep, AddThread, WaitForCompletion,
    ReleaseRequest, RemoveThread, ThreadExits
<1> QED
  BY <1>2, <1>3, <1>4, <1>5, <1>6, <1>7 DEF Next, Program

-----------------------------------------------------------------------------
(* Reference counts                                                        *)

AtServer(r) == Cur(Thread(r)) = r /\ spc[Thread(r)] \in {"waiting", "release"}
AtReply(r) == vreq = r /\ vpc \in {"reply", "replied"}
Alive(c) == spc[c] \notin {"none", "done"}

CountTypes == refs \in [Req -> Nat] /\ trefs \in [Conn -> Nat]

(* The holders of a request and of a thread, now and after a step.         *)
LEMMA Holders ==
  ASSUME queue' \in Seq(Message), queue \in Seq(Message)
  PROVE  /\ \A r \in Req :
              /\ HoldersOf(r) = One(AtServer(r)) + Occurrences(queue, r) + One(r \in objects)
                                + One(AtReply(r)) + Threads(sender[r])
              /\ HoldersOf(r)' = One(AtServer(r)') + Occurrences(queue', r)
                                 + One(r \in objects') + One(AtReply(r)')
                                 + Threads(sender'[r])
              /\ Occurrences(queue, r) \in Nat /\ Occurrences(queue', r) \in Nat
         /\ \A c \in Conn :
              /\ ThreadHolders(c) = One(Alive(c)) + One(Contains(servers, c))
                                    + One(joined = c) + Cardinality(Live(refs, c))
              /\ ThreadHolders(c)' = One(Alive(c)') + One(Contains(servers', c))
                                     + One(joined' = c) + Cardinality(Live(refs', c))
              /\ Cardinality(Live(refs, c)) \in Nat /\ Cardinality(Live(refs', c)) \in Nat
<1>1. \A r \in Req : Occurrences(queue, r) \in Nat /\ Occurrences(queue', r) \in Nat
  BY OccurrencesFinite
<1>2. \A c \in Conn :
        Cardinality(Live(refs, c)) \in Nat /\ Cardinality(Live(refs', c)) \in Nat
  BY LiveFinite
<1>3. \A r \in Req :
        /\ HoldersOf(r) = One(AtServer(r)) + Occurrences(queue, r) + One(r \in objects)
                          + One(AtReply(r)) + Threads(sender[r])
        /\ HoldersOf(r)' = One(AtServer(r)') + Occurrences(queue', r)
                           + One(r \in objects') + One(AtReply(r)')
                           + Threads(sender'[r])
  BY DEF HoldersOf, AtServer, AtReply, Occurrences, One, Background
<1>4. \A c \in Conn :
        /\ ThreadHolders(c) = One(Alive(c)) + One(Contains(servers, c))
                              + One(joined = c) + Cardinality(Live(refs, c))
        /\ ThreadHolders(c)' = One(Alive(c)') + One(Contains(servers', c))
                               + One(joined' = c) + Cardinality(Live(refs', c))
  BY DEF ThreadHolders, Alive, Live, One
<1> QED
  BY <1>1, <1>2, <1>3, <1>4

(* Counts that are exact are natural numbers.                              *)
LEMMA ExactCounts ==
  ASSUME queue' \in Seq(Message), queue \in Seq(Message),
         sender' \in [Req -> [SenderPhase -> Nat]],
         DOMAIN refs' = Req, refs' = [r \in Req |-> refs'[r]],
         DOMAIN trefs' = Conn, trefs' = [c \in Conn |-> trefs'[c]],
         \A r \in Req : refs'[r] = HoldersOf(r)',
         \A c \in Conn : trefs'[c] = ThreadHolders(c)'
  PROVE  RefsExact' /\ CountTypes'
<1>1. ASSUME NEW r \in Req
      PROVE  HoldersOf(r)' \in Nat
  <2>1. /\ One(AtServer(r)') \in Nat /\ One(r \in objects') \in Nat
        /\ One(AtReply(r)') \in Nat /\ Threads(sender'[r]) \in Nat
    BY ThreadsCounted DEF One
  <2>2. Occurrences(queue', r) \in Nat
    BY OccurrencesFinite
  <2> QED
    BY <2>1, <2>2, Holders
<1>2. ASSUME NEW c \in Conn
      PROVE  ThreadHolders(c)' \in Nat
  <2>1. /\ One(Alive(c)') \in Nat /\ One(Contains(servers', c)) \in Nat
        /\ One(joined' = c) \in Nat
    BY DEF One
  <2>2. Cardinality(Live(refs', c)) \in Nat
    BY LiveFinite
  <2> QED
    BY <2>1, <2>2, Holders
<1>3. \A r \in Req : refs'[r] \in Nat
  BY <1>1
<1>4. \A c \in Conn : trefs'[c] \in Nat
  BY <1>2
<1> QED
  BY <1>3, <1>4 DEF RefsExact, CountTypes

(* A step that changes no holder keeps the counts exact.                   *)
LEMMA QuietCounts ==
  ASSUME TypeOK, RefsExact, sender' \in [Req -> [SenderPhase -> Nat]],
         UNCHANGED <<refs, trefs, queue>>,
         \A r \in Req : /\ AtServer(r)' <=> AtServer(r)
                        /\ r \in objects' <=> r \in objects
                        /\ AtReply(r)' <=> AtReply(r)
                        /\ Threads(sender'[r]) = Threads(sender[r]),
         \A c \in Conn : /\ Alive(c)' <=> Alive(c)
                         /\ Contains(servers', c) <=> Contains(servers, c)
                         /\ joined' = c <=> joined = c
  PROVE  RefsExact' /\ CountTypes'
<1>1. queue \in Seq(Message) /\ queue' \in Seq(Message)
  BY DEF TypeOK
<1>2. ASSUME NEW r \in Req
      PROVE  HoldersOf(r)' = HoldersOf(r)
  <2>1. /\ One(AtServer(r)') = One(AtServer(r)) /\ One(AtReply(r)') = One(AtReply(r))
        /\ One(r \in objects') = One(r \in objects)
        /\ Occurrences(queue', r) = Occurrences(queue, r)
        /\ Threads(sender'[r]) = Threads(sender[r])
    BY DEF One
  <2> QED
    BY <1>1, <2>1, Holders
<1>3. \A c \in Conn : ThreadHolders(c)' = ThreadHolders(c)
  BY <1>1, Holders DEF One
<1> QED
  BY <1>1, <1>2, <1>3, ExactCounts DEF TypeOK, RefsExact

(* Letting go of requests lets go of a thread once for each that is        *)
(* deleted.                                                                *)
LEMMA ReleaseCounts ==
  ASSUME TypeOK, NEW R \in SUBSET Req, \A r \in R : refs[r] > 0, ReleaseReqs(R)
  PROVE  /\ DOMAIN refs' = Req /\ refs' = [r \in Req |-> refs'[r]]
         /\ DOMAIN trefs' = Conn /\ trefs' = [c \in Conn |-> trefs'[c]]
         /\ \A r \in Req : refs'[r] = refs[r] - One(r \in R)
         /\ \A c \in Conn :
              trefs[c] - Cardinality(Live(refs, c)) = trefs'[c] - Cardinality(Live(refs', c))
<1>1. \A r \in Req : refs[r] \in Nat
  BY DEF TypeOK
<1>2. \A r \in Req : refs'[r] = refs[r] - One(r \in R)
  BY <1>1 DEF ReleaseReqs, One
<1>3. ASSUME NEW c \in Conn
      PROVE  trefs[c] - Cardinality(Live(refs, c)) = trefs'[c] - Cardinality(Live(refs', c))
  <2> DEFINE Gone == {r \in R : Thread(r) = c /\ refs[r] = 1}
  <2>1. Live(refs', c) = Live(refs, c) \ Gone
    BY <1>1, <1>2 DEF Live, One
  <2>2. Live(refs, c) \cap Gone = Gone
    BY DEF Live
  <2>3. IsFiniteSet(Live(refs, c)) /\ Cardinality(Live(refs, c)) \in Nat
    BY LiveFinite
  <2>4. IsFiniteSet(Gone) /\ Cardinality(Gone) \in Nat
    BY <2>2, <2>3, FS_Intersection, FS_CardinalityType
  <2>5. Cardinality(Live(refs', c)) = Cardinality(Live(refs, c)) - Cardinality(Gone)
    BY <2>1, <2>2, <2>3, FS_Difference
  <2>6. trefs'[c] = trefs[c] - Cardinality(Gone)
    BY DEF ReleaseReqs
  <2>7. trefs[c] \in Nat
    BY DEF TypeOK
  <2> HIDE DEF Gone
  <2> QED
    BY <2>3, <2>4, <2>5, <2>6, <2>7
<1> QED
  BY <1>2, <1>3 DEF ReleaseReqs

(* A step that moves references of threads as their holders move.          *)
LEMMA ThreadCounts ==
  ASSUME TypeOK, RefsExact, sender' \in [Req -> [SenderPhase -> Nat]],
         UNCHANGED <<refs, queue>>,
         \A r \in Req : /\ AtServer(r)' <=> AtServer(r)
                        /\ r \in objects' <=> r \in objects
                        /\ AtReply(r)' <=> AtReply(r)
                        /\ Threads(sender'[r]) = Threads(sender[r]),
         trefs' \in [Conn -> Int],
         \A e \in Conn :
           trefs'[e] + One(Alive(e)) + One(Contains(servers, e)) + One(joined = e)
           = trefs[e] + One(Alive(e)') + One(Contains(servers', e)) + One(joined' = e)
  PROVE  RefsExact' /\ CountTypes'
<1>1. queue \in Seq(Message) /\ queue' \in Seq(Message)
  BY DEF TypeOK
<1>2. ASSUME NEW r \in Req
      PROVE  HoldersOf(r)' = HoldersOf(r)
  <2>1. /\ One(AtServer(r)') = One(AtServer(r)) /\ One(AtReply(r)') = One(AtReply(r))
        /\ One(r \in objects') = One(r \in objects)
        /\ Occurrences(queue', r) = Occurrences(queue, r)
        /\ Threads(sender'[r]) = Threads(sender[r])
    BY DEF One
  <2> QED
    BY <1>1, <2>1, Holders
<1>3. trefs \in [Conn -> Nat] /\ refs \in [Req -> Nat]
  BY DEF TypeOK
<1>4. ASSUME NEW c \in Conn
      PROVE  trefs'[c] = ThreadHolders(c)'
  <2>1. /\ One(Alive(c)) \in Nat /\ One(Contains(servers, c)) \in Nat
        /\ One(joined = c) \in Nat
        /\ One(Alive(c)') \in Nat /\ One(Contains(servers', c)) \in Nat
        /\ One(joined' = c) \in Nat
    BY DEF One
  <2>2. /\ ThreadHolders(c) = One(Alive(c)) + One(Contains(servers, c))
                              + One(joined = c) + Cardinality(Live(refs, c))
        /\ ThreadHolders(c)' = One(Alive(c)') + One(Contains(servers', c))
                               + One(joined' = c) + Cardinality(Live(refs, c))
    BY <1>1, Holders
  <2>3. Cardinality(Live(refs, c)) \in Nat
    BY LiveFinite
  <2>4. trefs[c] = ThreadHolders(c) /\ trefs[c] \in Int /\ trefs'[c] \in Int
    BY <1>3 DEF RefsExact
  <2>5. trefs'[c] + One(Alive(c)) + One(Contains(servers, c)) + One(joined = c)
        = trefs[c] + One(Alive(c)') + One(Contains(servers', c)) + One(joined' = c)
    OBVIOUS
  <2> DEFINE before == One(Alive(c)) + One(Contains(servers, c)) + One(joined = c)
             after == One(Alive(c)') + One(Contains(servers', c)) + One(joined' = c)
  <2>6. before \in Int /\ after \in Int
    BY <2>1
  <2>7. trefs'[c] + before = trefs[c] + after
    BY <2>1, <2>4, <2>5
  <2>8. trefs[c] = before + Cardinality(Live(refs, c))
    BY <2>2, <2>4
  <2>9. ThreadHolders(c)' = after + Cardinality(Live(refs, c))
    BY <2>2
  <2> HIDE DEF before, after
  <2> QED
    BY <2>3, <2>4, <2>6, <2>7, <2>8, <2>9
<1>5. \A r \in Req : refs'[r] = HoldersOf(r)'
  BY <1>2 DEF RefsExact
<1> QED
  BY <1>1, <1>3, <1>4, <1>5, ExactCounts

(* A step that lets go of requests.                                        *)
LEMMA RequestCounts ==
  ASSUME TypeOK, RefsExact, queue' \in Seq(Message), sender' \in [Req -> [SenderPhase -> Nat]],
         NEW R \in SUBSET Req, ReleaseReqs(R),
         \A r \in Req :
           One(AtServer(r)') + Occurrences(queue', r) + One(r \in objects')
             + One(AtReply(r)') + Threads(sender'[r]) + One(r \in R)
           = One(AtServer(r)) + Occurrences(queue, r) + One(r \in objects)
             + One(AtReply(r)) + Threads(sender[r]),
         \A e \in Conn : /\ Alive(e)' <=> Alive(e)
                         /\ Contains(servers', e) <=> Contains(servers, e)
                         /\ joined' = e <=> joined = e
  PROVE  RefsExact' /\ CountTypes'
<1>1. queue \in Seq(Message)
  BY DEF TypeOK
<1>2. ASSUME NEW r \in Req
      PROVE  HoldersOf(r)' + One(r \in R) = refs[r] /\ HoldersOf(r)' \in Nat
  <2>1. /\ One(AtServer(r)') \in Nat /\ One(r \in objects') \in Nat
        /\ One(AtReply(r)') \in Nat /\ Threads(sender'[r]) \in Nat
    BY ThreadsCounted DEF One
  <2>2. Occurrences(queue', r) \in Nat
    BY OccurrencesFinite
  <2>3. refs[r] = HoldersOf(r)
    BY DEF RefsExact
  <2> QED
    BY SMTT(40), <1>1, <2>1, <2>2, <2>3, Holders
<1>3. \A r \in R : refs[r] > 0
  BY <1>2 DEF One
<1>4. /\ DOMAIN refs' = Req /\ refs' = [r \in Req |-> refs'[r]]
      /\ DOMAIN trefs' = Conn /\ trefs' = [c \in Conn |-> trefs'[c]]
      /\ \A r \in Req : refs'[r] = refs[r] - One(r \in R)
      /\ \A c \in Conn :
           trefs[c] - Cardinality(Live(refs, c)) = trefs'[c] - Cardinality(Live(refs', c))
  BY <1>3, ReleaseCounts
<1>5. ASSUME NEW r \in Req
      PROVE  refs'[r] = HoldersOf(r)'
  <2>1. /\ HoldersOf(r)' + One(r \in R) = refs[r] /\ HoldersOf(r)' \in Nat
        /\ refs'[r] = refs[r] - One(r \in R)
    BY <1>2, <1>4
  <2>2. One(r \in R) \in Nat
    BY DEF One
  <2> QED
    BY <2>1, <2>2
<1>6. ASSUME NEW c \in Conn
      PROVE  trefs'[c] = ThreadHolders(c)'
  <2>1. /\ ThreadHolders(c) = One(Alive(c)) + One(Contains(servers, c))
                              + One(joined = c) + Cardinality(Live(refs, c))
        /\ ThreadHolders(c)' = One(Alive(c)) + One(Contains(servers, c))
                               + One(joined = c) + Cardinality(Live(refs', c))
        /\ Cardinality(Live(refs, c)) \in Nat /\ Cardinality(Live(refs', c)) \in Nat
    BY <1>1, Holders DEF One
  <2>2. /\ One(Alive(c)) \in Nat /\ One(Contains(servers, c)) \in Nat
        /\ One(joined = c) \in Nat
    BY DEF One
  <2>3. trefs[c] = ThreadHolders(c)
    BY DEF RefsExact
  <2>4. trefs[c] - Cardinality(Live(refs, c)) = trefs'[c] - Cardinality(Live(refs', c))
    BY <1>4
  <2>5. trefs'[c] \in Int
    <3>1. IsFiniteSet({r \in R : Thread(r) = c /\ refs[r] = 1})
      <4>1. {r \in R : Thread(r) = c /\ refs[r] = 1} \in SUBSET Live(refs, c)
        BY DEF Live
      <4> QED
        BY <4>1, LiveFinite, FS_Subset
    <3>2. trefs'[c] = trefs[c] - Cardinality({r \in R : Thread(r) = c /\ refs[r] = 1})
      BY DEF ReleaseReqs
    <3>3. trefs[c] \in Nat
      BY DEF TypeOK
    <3> QED
      BY <3>1, <3>2, <3>3, FS_CardinalityType
  <2> QED
    BY <2>1, <2>2, <2>3, <2>4, <2>5
<1> QED
  BY <1>1, <1>4, <1>5, <1>6, ExactCounts

(* The threads' steps that move no reference.                              *)
LEMMA QuietSteps ==
  ASSUME IInv, sender' \in [Req -> [SenderPhase -> Nat]],
         \/ ListenerWakes \/ AcceptFails \/ AcceptEnds
         \/ \E c \in Conn : Connect(c) \/ ReadFails(c) \/ WaitForCompletion(c)
         \/ GetNetEvent \/ QueueEvent \/ QueueTimeout \/ ReplySent \/ ChunkSent \/ ChunkedDone
         \/ \E r \in Req : SendChunk(r) \/ SenderSends(r) \/ SenderCompletes(r)
         \/ (\E wait \in BOOLEAN : Shutdown(wait)) \/ ShutdownReturns \/ CollectServer
  PROVE  RefsExact' /\ CountTypes'
<1> USE DEF listenerVars, serverVars, queueVars, eventVars, vmVars
<1>1. TypeOK /\ RefsExact /\ PhasesOK
  BY DEF IInv
<1>2. CASE ListenerWakes \/ AcceptEnds
  BY <1>1, <1>2, QuietCounts DEF ListenerWakes, AcceptEnds, AtServer, AtReply, Alive, Cur
<1>3. CASE AcceptFails
  <2>1. spc' = spc \/ \E c \in Conn : spc[c] = "none" /\ spc' = [spc EXCEPT ![c] = "done"]
    BY <1>1, <1>3 DEF AcceptFails, PhasesOK, TypeOK
  <2>2. \A c \in Conn : spc'[c] = spc[c] \/ (spc[c] = "none" /\ spc'[c] = "done")
    BY <1>1, <2>1 DEF TypeOK
  <2>3. UNCHANGED <<refs, trefs, queue, asked, objects, vreq, vpc, sender, servers, joined>>
    BY <1>3 DEF AcceptFails
  <2>4. \A r \in Req : AtServer(r)' <=> AtServer(r)
    BY <2>2, <2>3, ReqForm DEF AtServer, Cur
  <2>5. \A c \in Conn : Alive(c)' <=> Alive(c)
    BY <2>2 DEF Alive
  <2> QED
    BY <1>1, <2>3, <2>4, <2>5, QuietCounts DEF AtReply
<1>4. ASSUME NEW c \in Conn, Connect(c)
      PROVE  RefsExact' /\ CountTypes'
  BY <1>1, <1>4, QuietCounts DEF Connect, AtServer, AtReply, Alive, Cur
<1>5. ASSUME NEW c \in Conn, ReadFails(c) \/ WaitForCompletion(c)
      PROVE  RefsExact' /\ CountTypes'
  <2>1. \A e \in Conn : \/ spc'[e] = spc[e]
                        \/ spc[e] = "read" /\ spc'[e] = "close"
                        \/ spc[e] = "waiting" /\ spc'[e] = "release"
    BY <1>1, <1>5 DEF ReadFails, WaitForCompletion, TypeOK
  <2>2. UNCHANGED <<refs, trefs, queue, asked, objects, vreq, vpc, sender, servers, joined>>
    BY <1>5 DEF ReadFails, WaitForCompletion
  <2>3. \A r \in Req : AtServer(r)' <=> AtServer(r)
    BY <2>1, <2>2, ReqForm DEF AtServer, Cur
  <2>4. \A e \in Conn : Alive(e)' <=> Alive(e)
    BY <2>1 DEF Alive
  <2> QED
    BY <1>1, <2>2, <2>3, <2>4, QuietCounts DEF AtReply
<1>6. CASE \/ GetNetEvent \/ QueueEvent \/ QueueTimeout \/ ReplySent \/ ChunkSent \/ ChunkedDone
           \/ ShutdownReturns \/ CollectServer
  <2>1. /\ UNCHANGED <<refs, trefs, queue, asked, spc, objects, sender, servers, joined>>
        /\ \A r \in Req : AtReply(r)' <=> AtReply(r)
    BY <1>6 DEF GetNetEvent, QueueEvent, QueueTimeout, ReplySent, ChunkSent, ChunkedDone,
      ShutdownReturns, CollectServer, AtReply
  <2> QED
    BY <1>1, <2>1, QuietCounts DEF AtServer, Alive, Cur
<1>7. ASSUME NEW r \in Req, SendChunk(r) \/ SenderSends(r) \/ SenderCompletes(r)
      PROVE  RefsExact' /\ CountTypes'
  <2>1. /\ UNCHANGED <<refs, trefs, queue, asked, spc, objects, servers, joined>>
        /\ \A q \in Req : AtReply(q)' <=> AtReply(q)
    BY <1>7 DEF SendChunk, SenderSends, SenderCompletes, MayReply, AtReply
  <2>2. \A q \in Req : Threads(sender'[q]) = Threads(sender[q])
    <3>1. CASE SendChunk(r)
      BY <3>1 DEF SendChunk
    <3>2. CASE SenderSends(r) \/ SenderCompletes(r)
      BY <1>1, <3>2, SenderSteps DEF TypeOK
    <3> QED
      BY <1>7, <3>1, <3>2
  <2> QED
    BY <1>1, <2>1, <2>2, QuietCounts DEF AtServer, Alive, Cur
<1>8. ASSUME NEW wait \in BOOLEAN, Shutdown(wait)
      PROVE  RefsExact' /\ CountTypes'
  BY <1>1, <1>8, QuietCounts DEF Shutdown, AtServer, AtReply, Alive, Cur
<1> QED
  BY <1>2, <1>3, <1>4, <1>5, <1>6, <1>7, <1>8

(* The threads' steps that take or drop a reference on a thread.           *)
LEMMA ThreadSteps ==
  ASSUME IInv, sender' \in [Req -> [SenderPhase -> Nat]],
         \/ ListenerJoin \/ ListenerJoined
         \/ \E c \in Conn : Accept(c) \/ AddThread(c) \/ RemoveThread(c) \/ ThreadExits(c)
  PROVE  RefsExact' /\ CountTypes'
<1> USE DEF listenerVars, serverVars, queueVars, eventVars, vmVars
<1>1. /\ TypeOK /\ RefsExact /\ PhasesOK
      /\ trefs \in [Conn -> Nat] /\ spc \in [Conn -> ServerPhase] /\ NoConn \notin Conn
  BY HttpAssumption DEF IInv, TypeOK
<1> DEFINE Rest == UNCHANGED <<refs, queue, asked, objects, vreq, vpc, sender>>
           SameRequests == \A r \in Req : /\ AtServer(r)' <=> AtServer(r)
                                          /\ r \in objects' <=> r \in objects
                                          /\ AtReply(r)' <=> AtReply(r)
                                          /\ Threads(sender'[r]) = Threads(sender[r])
           SameThread(e) ==
             trefs'[e] + One(Alive(e)) + One(Contains(servers, e)) + One(joined = e)
             = trefs[e] + One(Alive(e)') + One(Contains(servers', e)) + One(joined' = e)
<1>2. ASSUME Rest, \A e \in Conn : \/ spc'[e] = spc[e]
                                   \/ /\ spc[e] \notin {"waiting", "release"}
                                      /\ spc'[e] \notin {"waiting", "release"}
      PROVE  SameRequests
  <2>1. \A r \in Req : AtServer(r)' <=> AtServer(r)
    BY <1>2, ReqForm DEF AtServer, Cur
  <2> QED
    BY <1>2, <2>1 DEF AtReply
<1>3. ASSUME SameRequests, Rest, trefs' \in [Conn -> Int], \A e \in Conn : SameThread(e)
      PROVE  RefsExact' /\ CountTypes'
  BY <1>1, <1>3, ThreadCounts
<1>4. CASE ListenerJoin
  <2>1. UNCHANGED spc /\ Rest /\ UNCHANGED servers
    BY <1>4 DEF ListenerJoin
  <2>2. CASE servers = <<>>
    <3>1. UNCHANGED <<trefs, joined>>
      BY <1>4, <2>2 DEF ListenerJoin
    <3> QED
      BY <1>1, <1>2, <1>3, <2>1, <3>1 DEF Alive
  <2>3. CASE servers # <<>>
    <3>1. Head(servers) \in Conn
      BY <1>1, <2>3, HeadTailProperties DEF TypeOK
    <3>2. joined = NoConn
      BY <1>1, <1>4 DEF ListenerJoin, PhasesOK
    <3>3. joined' = Head(servers) /\ trefs' = [trefs EXCEPT ![Head(servers)] = @ + 1]
      BY <1>4, <2>3 DEF ListenerJoin, AddThreadRef
    <3>4. trefs' \in [Conn -> Int]
      BY <1>1, <3>1, <3>3
    <3>5. \A e \in Conn : SameThread(e)
      BY <1>1, <2>1, <3>1, <3>2, <3>3 DEF One, Alive
    <3> HIDE DEF SameThread
    <3> QED
      BY <1>1, <1>2, <1>3, <2>1, <3>4, <3>5
  <2> QED
    BY <2>2, <2>3
<1>5. CASE ListenerJoined
  <2>1. joined \in Conn
    BY <1>1, <1>5, HttpAssumption DEF ListenerJoined, PhasesOK, TypeOK
  <2>2. /\ joined' = NoConn /\ trefs' = [trefs EXCEPT ![joined] = @ - 1]
        /\ UNCHANGED servers /\ Rest /\ UNCHANGED spc
    BY <1>5 DEF ListenerJoined, ReleaseThread
  <2>3. trefs' \in [Conn -> Int]
    BY <1>1, <2>1, <2>2
  <2>4. \A e \in Conn : SameThread(e)
    BY <1>1, <2>1, <2>2 DEF One, Alive
  <2> HIDE DEF SameThread
  <2> QED
    BY <1>1, <1>2, <1>3, <2>2, <2>3, <2>4
<1>6. ASSUME NEW c \in Conn, Accept(c)
      PROVE  RefsExact' /\ CountTypes'
  <2>1. spc[c] = "none"
    BY <1>1, <1>6 DEF Accept, PhasesOK
  <2>2. /\ trefs' = [trefs EXCEPT ![c] = @ + 1] /\ spc' = [spc EXCEPT ![c] = "launched"]
        /\ UNCHANGED <<servers, joined>> /\ Rest
    BY <1>6 DEF Accept, AddThreadRef
  <2>3. trefs' \in [Conn -> Int]
    BY <1>1, <2>2
  <2>4. spc'[c] = "launched" /\ \A e \in Conn \ {c} : spc'[e] = spc[e]
    BY <1>1, <2>2
  <2>5. \A e \in Conn : SameThread(e)
    BY <1>1, <2>1, <2>2, <2>4 DEF One, Alive
  <2>6. SameRequests
    BY <1>2, <2>1, <2>2, <2>4
  <2> HIDE DEF SameThread, SameRequests
  <2> QED
    BY <1>3, <2>2, <2>3, <2>5, <2>6
<1>7. ASSUME NEW c \in Conn, AddThread(c)
      PROVE  RefsExact' /\ CountTypes'
  <2>1. spc[c] = "launched" /\ ~Contains(servers, c)
    BY <1>1, <1>7 DEF AddThread, PhasesOK, Running
  <2>2. /\ trefs' = [trefs EXCEPT ![c] = @ + 1]
        /\ servers' = <<c>> \o servers /\ UNCHANGED joined /\ Rest
    BY <1>7 DEF AddThread, AddThreadRef
  <2>3. \A d : Contains(servers', d) <=> Contains(servers, d) \/ d = c
    BY <1>1, <2>1, <2>2, AddToList DEF TypeOK
  <2>4. spc'[c] \in {"close", "read"} /\ \A e \in Conn \ {c} : spc'[e] = spc[e]
    BY <1>1, <1>7 DEF AddThread, NextTurn
  <2>5. trefs' \in [Conn -> Int]
    BY <1>1, <2>2
  <2>6. \A e \in Conn : SameThread(e)
    BY <1>1, <2>1, <2>2, <2>3, <2>4 DEF One, Alive
  <2>7. SameRequests
    BY <1>2, <2>1, <2>2, <2>4
  <2> HIDE DEF SameThread, SameRequests
  <2> QED
    BY <1>3, <2>2, <2>5, <2>6, <2>7
<1>8. ASSUME NEW c \in Conn, RemoveThread(c)
      PROVE  RefsExact' /\ CountTypes'
  <2>1. spc[c] = "close" /\ Contains(servers, c)
    BY <1>1, <1>8 DEF RemoveThread, PhasesOK, Running
  <2>2. /\ trefs' = [trefs EXCEPT ![c] = @ - 1] /\ spc' = [spc EXCEPT ![c] = "cleanup"]
        /\ UNCHANGED joined /\ Rest
    BY <1>8 DEF RemoveThread, ReleaseThread
  <2>3. PICK i \in DOMAIN servers : servers[i] = c /\ servers' = RemoveAt(servers, i)
    BY <1>8 DEF RemoveThread
  <2>4. \A d : Contains(servers', d) <=> Contains(servers, d) /\ d # c
    BY <1>1, <2>3, RemoveFromList DEF TypeOK
  <2>5. spc'[c] = "cleanup" /\ \A e \in Conn \ {c} : spc'[e] = spc[e]
    BY <1>1, <2>2
  <2>6. trefs' \in [Conn -> Int]
    BY <1>1, <2>2
  <2>7. \A e \in Conn : SameThread(e)
    BY <1>1, <2>1, <2>2, <2>4, <2>5 DEF One, Alive
  <2>8. SameRequests
    BY <1>2, <2>1, <2>2, <2>5
  <2> HIDE DEF SameThread, SameRequests
  <2> QED
    BY <1>3, <2>2, <2>6, <2>7, <2>8
<1>9. ASSUME NEW c \in Conn, ThreadExits(c)
      PROVE  RefsExact' /\ CountTypes'
  <2>1. spc[c] = "cleanup"
    BY <1>9 DEF ThreadExits
  <2>2. /\ trefs' = [trefs EXCEPT ![c] = @ - 1] /\ spc' = [spc EXCEPT ![c] = "done"]
        /\ UNCHANGED <<servers, joined>> /\ Rest
    BY <1>9 DEF ThreadExits, ReleaseThread
  <2>3. spc'[c] = "done" /\ \A e \in Conn \ {c} : spc'[e] = spc[e]
    BY <1>1, <2>2
  <2>4. trefs' \in [Conn -> Int]
    BY <1>1, <2>2
  <2>5. \A e \in Conn : SameThread(e)
    BY <1>1, <2>1, <2>2, <2>3 DEF One, Alive
  <2>6. SameRequests
    BY <1>2, <2>1, <2>2, <2>3
  <2> HIDE DEF SameThread, SameRequests
  <2> QED
    BY <1>3, <2>2, <2>4, <2>5, <2>6
<1> QED
  BY <1>4, <1>5, <1>6, <1>7, <1>8, <1>9

(* A step that moves references of requests as their holders move, and     *)
(* deletes none.                                                           *)
LEMMA MoveCounts ==
  ASSUME TypeOK, RefsExact, queue' \in Seq(Message), sender' \in [Req -> [SenderPhase -> Nat]], UNCHANGED trefs,
         refs' \in [Req -> Int],
         \A r \in Req : refs'[r] > 0 <=> refs[r] > 0,
         \A r \in Req :
           refs'[r] + (One(AtServer(r)) + Occurrences(queue, r) + One(r \in objects)
                       + One(AtReply(r)) + Threads(sender[r]))
           = refs[r] + (One(AtServer(r)') + Occurrences(queue', r) + One(r \in objects')
                        + One(AtReply(r)') + Threads(sender'[r])),
         \A e \in Conn : /\ Alive(e)' <=> Alive(e)
                         /\ Contains(servers', e) <=> Contains(servers, e)
                         /\ joined' = e <=> joined = e
  PROVE  RefsExact' /\ CountTypes'
<1>1. /\ queue \in Seq(Message) /\ refs \in [Req -> Nat] /\ trefs \in [Conn -> Nat]
      /\ sender \in [Req -> [SenderPhase -> Nat]]
  BY DEF TypeOK
<1>2. \A c \in Conn : Live(refs', c) = Live(refs, c)
  BY DEF Live
<1>3. ASSUME NEW c \in Conn
      PROVE  ThreadHolders(c)' = ThreadHolders(c)
  <2>1. /\ ThreadHolders(c) = One(Alive(c)) + One(Contains(servers, c))
                              + One(joined = c) + Cardinality(Live(refs, c))
        /\ ThreadHolders(c)' = One(Alive(c)') + One(Contains(servers', c))
                               + One(joined' = c) + Cardinality(Live(refs', c))
    BY <1>1, Holders
  <2>2. /\ One(Alive(c)') = One(Alive(c)) /\ One(joined' = c) = One(joined = c)
        /\ One(Contains(servers', c)) = One(Contains(servers, c))
    BY DEF One
  <2>3. Cardinality(Live(refs', c)) = Cardinality(Live(refs, c))
    BY <1>2
  <2> QED
    BY <2>1, <2>2, <2>3
<1>4. ASSUME NEW r \in Req
      PROVE  refs'[r] = HoldersOf(r)'
  <2> DEFINE before == One(AtServer(r)) + Occurrences(queue, r) + One(r \in objects)
                       + One(AtReply(r)) + Threads(sender[r])
             after == One(AtServer(r)') + Occurrences(queue', r) + One(r \in objects')
                      + One(AtReply(r)') + Threads(sender'[r])
  <2>1. /\ One(AtServer(r)) \in Nat /\ One(r \in objects) \in Nat
        /\ One(AtReply(r)) \in Nat /\ Threads(sender[r]) \in Nat
        /\ One(AtServer(r)') \in Nat /\ One(r \in objects') \in Nat
        /\ One(AtReply(r)') \in Nat /\ Threads(sender'[r]) \in Nat
    BY <1>1, ThreadsCounted DEF One
  <2>2. Occurrences(queue, r) \in Nat /\ Occurrences(queue', r) \in Nat
    BY <1>1, OccurrencesFinite
  <2>3. before \in Int /\ after \in Int
    <3>1. \A a, b, d, e, f \in Nat : a + b + d + e + f \in Int
      OBVIOUS
    <3> QED
      BY <2>1, <2>2, <3>1
  <2>4. refs[r] \in Int /\ refs'[r] \in Int
    BY <1>1
  <2>6. refs'[r] + before = refs[r] + after
    OBVIOUS
  <2>7. refs[r] = before
    BY <1>1, Holders DEF RefsExact
  <2>8. HoldersOf(r)' = after
    BY <1>1, Holders
  <2> HIDE DEF before, after
  <2> QED
    BY <2>3, <2>4, <2>6, <2>7, <2>8
<1>5. \A c \in Conn : trefs'[c] = ThreadHolders(c)'
  BY <1>3 DEF RefsExact
<1> QED
  BY <1>1, <1>4, <1>5, ExactCounts

(* A request the program has an object of is referred to, and was read.     *)
LEMMA HeldRequests ==
  ASSUME IInv, NEW r \in Req
  PROVE  /\ r \in objects \/ Threads(sender[r]) > 0 \/ AtReply(r) \/ AtServer(r) => refs[r] > 0
         /\ (\E i \in DOMAIN queue : queue[i].req = r) => refs[r] > 0
         /\ refs[r] > 0 => r[2] <= asked[Thread(r)]
<1>1. queue \in Seq(Message) /\ refs \in [Req -> Nat] /\ asked \in [Conn -> Nat]
  BY DEF IInv, TypeOK
<1>2. Occurrences(queue, r) \in Nat
      /\ (Occurrences(queue, r) > 0 <=> \E i \in DOMAIN queue : queue[i].req = r)
  BY <1>1, OccurrencesFinite
<1>3. refs[r] = One(AtServer(r)) + Occurrences(queue, r) + One(r \in objects)
                + One(AtReply(r)) + Threads(sender[r])
  <2>1. HoldersOf(r) = One(AtServer(r)) + Occurrences(queue, r) + One(r \in objects)
                       + One(AtReply(r)) + Threads(sender[r])
    BY DEF HoldersOf, AtServer, AtReply, Occurrences, Background
  <2> QED
    BY <2>1 DEF IInv, RefsExact
<1>4. Threads(sender[r]) \in Nat
  BY ThreadsCounted DEF IInv, TypeOK
<1>5. r \in objects \/ Threads(sender[r]) > 0 \/ AtReply(r) \/ AtServer(r) => refs[r] > 0
  BY <1>2, <1>3, <1>4 DEF One
<1>6. (\E i \in DOMAIN queue : queue[i].req = r) => refs[r] > 0
  BY <1>2, <1>3, <1>4 DEF One
<1>7. refs[r] > 0 => r[2] <= asked[Thread(r)]
  BY <1>1, ReqForm DEF IInv, NotAskedYet
<1> QED
  BY <1>5, <1>6, <1>7

(* The other steps that hand a request on or let go of it.                 *)
LEMMA RequestSteps ==
  ASSUME IInv, sender' \in [Req -> [SenderPhase -> Nat]],
         \/ GetMessage \/ ReplyDone \/ Terminate \/ Flush
         \/ \E c \in Conn : ReleaseRequest(c)
         \/ \E r \in Req : SendReply(r) \/ SendReplyAsync(r) \/ SenderPosts(r)
                           \/ CollectRequest(r)
  PROVE  RefsExact' /\ CountTypes'
<1> USE DEF listenerVars, serverVars, queueVars, eventVars, vmVars
<1>1. /\ TypeOK /\ RefsExact /\ PhasesOK /\ QueueOK
      /\ queue \in Seq(Message) /\ refs \in [Req -> Nat] /\ objects \in SUBSET Req
      /\ sender \in [Req -> [SenderPhase -> Nat]]
  BY DEF IInv, TypeOK
<1>2. \A r \in Req : Occurrences(queue, r) \in Nat /\ Threads(sender[r]) \in Nat
  BY <1>1, OccurrencesFinite, ThreadsCounted
<1>3. \A r \in Req : Result(r) \in Message /\ Result(r).req = r /\ Result(r).type = "result"
  BY DEF Result, Message
<1> DEFINE SameThreads == \A e \in Conn : /\ Alive(e)' <=> Alive(e)
                                          /\ Contains(servers', e) <=> Contains(servers, e)
                                          /\ joined' = e <=> joined = e
           Released(R, r) ==
             One(AtServer(r)') + Occurrences(queue', r) + One(r \in objects')
               + One(AtReply(r)') + Threads(sender'[r]) + One(r \in R)
             = One(AtServer(r)) + Occurrences(queue, r) + One(r \in objects)
               + One(AtReply(r)) + Threads(sender[r])
           Moved(r) ==
             refs'[r] + (One(AtServer(r)) + Occurrences(queue, r) + One(r \in objects)
                         + One(AtReply(r)) + Threads(sender[r]))
             = refs[r] + (One(AtServer(r)') + Occurrences(queue', r) + One(r \in objects')
                          + One(AtReply(r)') + Threads(sender'[r]))
<1>4. ASSUME UNCHANGED <<spc, servers, joined>>
      PROVE  SameThreads
  BY <1>4 DEF Alive
<1>5. ASSUME UNCHANGED <<spc, asked>>, NEW r \in Req
      PROVE  One(AtServer(r)') = One(AtServer(r)) /\ One(AtServer(r)) \in Nat
  BY <1>5 DEF AtServer, Cur, One
<1>6. ASSUME queue # <<>>, GetMessage \/ Flush
      PROVE  RefsExact' /\ CountTypes'
  <2>1. /\ Tail(queue) \in Seq(Message) /\ Head(queue) \in Message
        /\ Head(queue) = queue[1] /\ 1 \in DOMAIN queue /\ Head(queue).req \in Req
    <3>1. Tail(queue) \in Seq(Message) /\ Head(queue) \in Message
      BY <1>1, <1>6, HeadTailProperties
    <3>2. Len(queue) \in Nat \ {0} /\ DOMAIN queue = 1 .. Len(queue)
      BY <1>1, <1>6, EmptySeq, LenProperties
    <3> QED
      BY <3>1, <3>2 DEF Message
  <2>2. \A r \in Req : /\ Occurrences(Tail(queue), r) \in Nat
                       /\ Occurrences(queue, r) = Occurrences(Tail(queue), r)
                                                  + One(Head(queue).req = r)
    <3> TAKE r \in Req
    <3>1. Occurrences(Tail(queue), r) \in Nat
      BY <2>1, OccurrencesFinite
    <3>2. Occurrences(queue, r) = Occurrences(Tail(queue), r) + One(Head(queue).req = r)
      BY <1>1, <1>6, OccurrencesTail
    <3> QED
      BY <3>1, <3>2
  <2>3. ASSUME queue' = Tail(queue), ReleaseReqs({Head(queue).req}),
               UNCHANGED <<spc, servers, joined, asked, objects, vreq, sender>>,
               \A r \in Req : ~AtReply(r) /\ ~AtReply(r)'
        PROVE  RefsExact' /\ CountTypes'
    <3>1. ASSUME NEW r \in Req
          PROVE  Released({Head(queue).req}, r)
      <4>1. /\ One(AtServer(r)') = One(AtServer(r)) /\ One(AtServer(r)) \in Nat
            /\ One(AtReply(r)') = 0 /\ One(AtReply(r)) = 0
            /\ One(r \in objects') = One(r \in objects) /\ One(r \in objects) \in Nat
            /\ Threads(sender'[r]) = Threads(sender[r]) /\ Threads(sender[r]) \in Nat
        BY <1>2, <1>5, <2>3 DEF One
      <4>2. /\ Occurrences(queue', r) \in Nat
            /\ Occurrences(queue, r) = Occurrences(queue', r) + One(Head(queue).req = r)
        BY <2>2, <2>3
      <4>3. One(r \in {Head(queue).req}) = One(Head(queue).req = r)
            /\ One(Head(queue).req = r) \in Nat
        BY DEF One
      <4> QED
        BY <4>1, <4>2, <4>3
    <3>2. SameThreads /\ {Head(queue).req} \in SUBSET Req /\ queue' \in Seq(Message)
      BY <1>4, <2>1, <2>3
    <3> HIDE DEF SameThreads
    <3> QED
      BY <1>1, <2>3, <3>1, <3>2, RequestCounts DEF SameThreads
  <2>4. CASE GetMessage /\ Head(queue).type = "request"
    <3>1. /\ queue' = Tail(queue) /\ objects' = objects \cup {Head(queue).req}
          /\ UNCHANGED <<spc, servers, joined, asked, refs, trefs, vreq, sender>>
          /\ vpc = "get" /\ vpc' = "run"
      BY <1>6, <2>4 DEF GetMessage
    <3>2. \A r \in Req : ~AtReply(r) /\ ~AtReply(r)'
      BY <3>1 DEF AtReply
    <3>3. Head(queue).req \notin objects
      BY <1>1, <2>1, <2>4 DEF QueueOK
    <3>4. \A r \in Req : Moved(r)
      BY <1>1, <1>2, <1>5, <2>2, <3>1, <3>2, <3>3 DEF One
    <3> QED
      BY <1>1, <1>4, <2>1, <3>1, <3>4, MoveCounts
  <2>5. CASE GetMessage /\ Head(queue).type # "request"
    <3>1. /\ queue' = Tail(queue) /\ ReleaseReqs({Head(queue).req})
          /\ UNCHANGED <<spc, servers, joined, asked, objects, vreq, sender>>
          /\ vpc = "get" /\ vpc' = "run"
      BY <1>6, <2>5 DEF GetMessage
    <3> QED
      BY <2>3, <3>1 DEF AtReply
  <2>6. CASE Flush
    <3>1. /\ queue' = Tail(queue) /\ ReleaseReqs({Head(queue).req})
          /\ UNCHANGED <<spc, servers, joined, asked, objects, vreq, sender>>
          /\ vpc = "flush" /\ vpc' = "flush"
      BY <1>6, <2>6 DEF Flush
    <3> QED
      BY <2>3, <3>1 DEF AtReply
  <2> QED
    BY <1>6, <2>4, <2>5, <2>6
<1>7. ASSUME queue = <<>>, GetMessage \/ Flush
      PROVE  RefsExact' /\ CountTypes'
  <2>1. /\ UNCHANGED <<refs, trefs, queue, asked, spc, objects, sender, servers, joined>>
        /\ \A r \in Req : AtReply(r)' <=> AtReply(r)
    BY <1>7 DEF GetMessage, Flush, AtReply
  <2> QED
    BY <1>1, <2>1, QuietCounts DEF AtServer, Alive, Cur
<1>8. CASE ReplyDone
  <2>1. /\ vpc = "replied" /\ vpc' = "run" /\ ReleaseReqs({vreq})
        /\ UNCHANGED <<queue, asked, spc, objects, sender, servers, joined>>
    BY <1>8 DEF ReplyDone
  <2>2. vreq \in Req
    BY <1>1, <2>1 DEF PhasesOK, Replying
  <2>3. \A r \in Req : AtReply(r) <=> r \in {vreq}
    BY <2>1, <2>2 DEF AtReply
  <2>4. \A r \in Req : ~AtReply(r)'
    BY <2>1 DEF AtReply
  <2>5. \A r \in Req : Released({vreq}, r)
    BY <1>2, <1>5, <2>1, <2>3, <2>4 DEF One
  <2> QED
    BY <1>1, <1>4, <2>1, <2>2, <2>5, RequestCounts
<1>9. ASSUME NEW R \in SUBSET objects, \A r \in R : ~AtReply(r), ReleaseReqs(R),
             objects' = objects \ R, vpc' \notin {"reply", "replied"},
             \A r \in Req : ~AtReply(r),
             UNCHANGED <<queue, asked, spc, sender, servers, joined>>
      PROVE  RefsExact' /\ CountTypes'
  <2>1. \A r \in Req : ~AtReply(r)'
    BY <1>9 DEF AtReply
  <2>2. \A r \in Req : Released(R, r)
    BY <1>1, <1>2, <1>5, <1>9, <2>1 DEF One
  <2>3. R \in SUBSET Req
    BY <1>1, <1>9
  <2> QED
    BY <1>1, <1>4, <1>9, <2>2, <2>3, RequestCounts
<1>10. CASE Terminate
  <2>1. objects' = objects \ objects
    BY <1>10 DEF Terminate
  <2> QED
    BY <1>9, <1>10, <2>1 DEF Terminate, AtReply
<1>11. ASSUME NEW r \in Req, CollectRequest(r)
       PROVE  RefsExact' /\ CountTypes'
  <2>1. {r} \in SUBSET objects /\ vpc = "run" /\ vpc' = "run"
    BY <1>11 DEF CollectRequest
  <2> QED
    BY <1>9, <1>11, <2>1 DEF CollectRequest, AtReply
<1>12. ASSUME NEW c \in Conn, ReleaseRequest(c)
       PROVE  RefsExact' /\ CountTypes'
  <2>1. /\ spc[c] = "release" /\ ReleaseReqs({Cur(c)})
        /\ UNCHANGED <<queue, asked, objects, vpc, vreq, sender, servers, joined>>
    BY <1>12 DEF ReleaseRequest
  <2>2. spc'[c] \in {"close", "read"} /\ \A e \in Conn \ {c} : spc'[e] = spc[e]
    BY <1>1, <1>12 DEF ReleaseRequest, NextTurn, TypeOK
  <2>3. Cur(c) \in Req /\ Thread(Cur(c)) = c
    <3>1. asked[c] \in Nat /\ asked[c] > 0 /\ asked[c] <= MaxReq[c]
      BY <1>1, <2>1 DEF PhasesOK, TypeOK
    <3> QED
      BY <3>1, ReqForm DEF Cur
  <2>4. \A r \in Req : AtServer(r) <=> AtServer(r)' \/ r = Cur(c)
    BY <2>1, <2>2, <2>3, ReqForm DEF AtServer, Cur
  <2>5. \A r \in Req : AtServer(r)' => r # Cur(c)
    BY <2>1, <2>2, <2>3, ReqForm DEF AtServer, Cur
  <2>6. \A r \in Req : Released({Cur(c)}, r)
    BY <1>2, <2>1, <2>4, <2>5 DEF One, AtReply
  <2>7. SameThreads
    BY <2>1, <2>2 DEF Alive
  <2> QED
    BY <1>1, <2>1, <2>3, <2>6, <2>7, RequestCounts
<1>13. ASSUME NEW r \in Req, SendReply(r)
       PROVE  RefsExact' /\ CountTypes'
  <2>1. /\ r \in objects /\ vpc = "run" /\ vpc' = "reply" /\ vreq' = r
        /\ refs' = [refs EXCEPT ![r] = @ + 1]
        /\ UNCHANGED <<trefs, queue, asked, spc, objects, sender, servers, joined>>
    BY <1>13 DEF SendReply, MayReply
  <2>2. refs[r] > 0
    BY <2>1, HeldRequests
  <2>3. \A q \in Req : ~AtReply(q) /\ (AtReply(q)' <=> q = r)
    BY <2>1 DEF AtReply
  <2>4. refs' \in [Req -> Int] /\ \A q \in Req : refs'[q] > 0 <=> refs[q] > 0
    BY <1>1, <2>1, <2>2
  <2>5. ASSUME NEW q \in Req
        PROVE  Moved(q)
    <3>1. refs'[q] = refs[q] + One(AtReply(q)') /\ refs[q] \in Nat /\ One(AtReply(q)) = 0
      BY <1>1, <2>1, <2>3 DEF One
    <3>2. One(AtServer(q)') = One(AtServer(q)) /\ One(AtServer(q)) \in Nat
      BY <1>5, <2>1
    <3> QED
      BY <1>2, <2>1, <3>1, <3>2 DEF One
  <2> QED
    BY <1>1, <1>4, <2>1, <2>4, <2>5, MoveCounts
<1>14. ASSUME NEW r \in Req, SendReplyAsync(r)
       PROVE  RefsExact' /\ CountTypes'
  <2>1. /\ r \in objects /\ refs' = [refs EXCEPT ![r] = @ + 1]
        /\ UNCHANGED <<trefs, asked, spc, objects, vpc, vreq, servers, joined>>
    BY <1>14 DEF SendReplyAsync, MayReply
  <2>2. refs[r] > 0
    BY <2>1, HeldRequests
  <2>3. \A q \in Req : AtReply(q)' <=> AtReply(q)
    BY <2>1 DEF AtReply
  <2>4. refs' \in [Req -> Int] /\ \A q \in Req : refs'[q] > 0 <=> refs[q] > 0
    BY <1>1, <2>1, <2>2
  <2>5. CASE sender' = [sender EXCEPT ![r]["sending"] = @ + 1] /\ UNCHANGED queue
    <3>1. ASSUME NEW q \in Req
          PROVE  Moved(q)
      <4>1. refs'[q] = refs[q] + One(q = r) /\ refs[q] \in Nat
        BY <1>1, <2>1 DEF One
      <4>2. /\ One(AtServer(q)') = One(AtServer(q)) /\ One(AtServer(q)) \in Nat
            /\ One(AtReply(q)') = One(AtReply(q)) /\ One(AtReply(q)) \in Nat
        BY <1>5, <2>1, <2>3 DEF One
      <4>3. Threads(sender'[q]) = Threads(sender[q]) + One(q = r)
        <5>1. /\ Threads(sender'[r]) = Threads(sender[r]) + 1
              /\ q # r => sender'[q] = sender[q]
          BY <1>1, <2>5, SenderLaunched
        <5> QED
          BY <1>2, <5>1 DEF One
      <4>4. /\ One(q = r) \in Nat /\ One(q \in objects) \in Nat
            /\ Threads(sender[q]) \in Nat /\ Occurrences(queue, q) \in Nat
        BY <1>2 DEF One
      <4>5. One(q \in objects') = One(q \in objects)
            /\ Occurrences(queue', q) = Occurrences(queue, q)
        BY <2>1, <2>5
      <4> QED
        BY <4>1, <4>2, <4>3, <4>4, <4>5
    <3> QED
      BY <1>1, <1>4, <2>1, <2>4, <2>5, <3>1, MoveCounts
  <2>6. CASE queue' = Append(queue, Result(r)) /\ UNCHANGED sender
    <3>1. queue' \in Seq(Message)
      BY <1>1, <1>3, <2>6, AppendProperties
    <3>2. \A q \in Req : Occurrences(queue', q) = Occurrences(queue, q) + One(q = r)
      <4>1. \A q \in Req : One(Result(r).req = q) = One(q = r)
        BY <1>3 DEF One
      <4> QED
        BY <1>1, <1>3, <2>6, <4>1, OccurrencesAppend
    <3>3. ASSUME NEW q \in Req
          PROVE  Moved(q)
      <4>1. refs'[q] = refs[q] + One(q = r) /\ refs[q] \in Nat
        BY <1>1, <2>1 DEF One
      <4>2. One(AtServer(q)') = One(AtServer(q)) /\ One(AtServer(q)) \in Nat
        BY <1>5, <2>1
      <4>3. One(AtReply(q)') = One(AtReply(q)) /\ One(AtReply(q)) \in Nat
        BY <2>3 DEF One
      <4>4. /\ One(q = r) \in Nat /\ One(q \in objects) \in Nat
            /\ Threads(sender[q]) \in Nat /\ Occurrences(queue, q) \in Nat
        BY <1>2 DEF One
      <4>5. /\ One(q \in objects') = One(q \in objects)
            /\ Threads(sender'[q]) = Threads(sender[q])
            /\ Occurrences(queue', q) = Occurrences(queue, q) + One(q = r)
        BY <2>1, <2>6, <3>2
      <4> QED
        BY <4>1, <4>2, <4>3, <4>4, <4>5
    <3> QED
      BY <1>1, <1>4, <2>1, <2>4, <3>1, <3>3, MoveCounts
  <2> QED
    BY <1>14, <2>5, <2>6 DEF SendReplyAsync, Post
<1>15. ASSUME NEW r \in Req, SenderPosts(r)
       PROVE  RefsExact' /\ CountTypes'
  <2>1. /\ queue' = Append(queue, Result(r))
        /\ UNCHANGED <<refs, trefs, asked, spc, objects, vpc, vreq, servers, joined>>
    BY <1>15 DEF SenderPosts, Post
  <2>2. \A q \in Req : AtReply(q)' <=> AtReply(q)
    BY <2>1 DEF AtReply
  <2>3. queue' \in Seq(Message)
    BY <1>1, <1>3, <2>1, AppendProperties
  <2>4. \A q \in Req : Occurrences(queue', q) = Occurrences(queue, q) + One(q = r)
    <3>1. \A q \in Req : One(Result(r).req = q) = One(q = r)
      BY <1>3 DEF One
    <3> QED
      BY <1>1, <1>3, <2>1, <3>1, OccurrencesAppend
  <2>5. ASSUME NEW q \in Req
        PROVE  Moved(q)
    <3>1. refs'[q] = refs[q] /\ refs[q] \in Nat
      BY <1>1, <2>1
    <3>2. One(AtServer(q)') = One(AtServer(q)) /\ One(AtServer(q)) \in Nat
      BY <1>5, <2>1
    <3>3. One(AtReply(q)') = One(AtReply(q))
      BY <2>2 DEF One
    <3>4. Threads(sender[q]) = Threads(sender'[q]) + One(q = r)
      <4>1. /\ Threads(sender'[r]) = Threads(sender[r]) - 1
            /\ q # r => sender'[q] = sender[q]
        BY <1>1, <1>15, SenderSteps
      <4> QED
        BY <1>2, <4>1 DEF One
    <3>5. /\ Occurrences(queue', q) = Occurrences(queue, q) + One(q = r)
          /\ Occurrences(queue, q) \in Nat /\ Threads(sender'[q]) \in Nat
          /\ One(q = r) \in Nat /\ One(AtReply(q)) \in Nat /\ One(q \in objects) \in Nat
          /\ One(q \in objects') = One(q \in objects)
      BY <1>2, <2>1, <2>4, ThreadsCounted DEF One
    <3> QED
      BY <3>1, <3>2, <3>3, <3>4, <3>5
  <2> QED
    BY <1>1, <1>4, <2>1, <2>3, <2>5, MoveCounts
<1> QED
  BY <1>6, <1>7, <1>8, <1>10, <1>11, <1>12, <1>13, <1>14, <1>15

(* A request that is read gets a reference of its server thread and one of *)
(* the queue, and takes one on the thread.                                 *)
LEMMA RequestSent ==
  ASSUME IInv, sender' \in [Req -> [SenderPhase -> Nat]], NEW c \in Conn, SendRequest(c)
  PROVE  RefsExact' /\ CountTypes'
<1> DEFINE r == <<c, asked[c] + 1>>
           m == [type |-> "request", req |-> r]
<1>1. /\ TypeOK /\ RefsExact /\ NotAskedYet /\ QueueOK
      /\ queue \in Seq(Message) /\ refs \in [Req -> Nat] /\ trefs \in [Conn -> Nat]
      /\ asked \in [Conn -> Nat] /\ spc \in [Conn -> ServerPhase]
      /\ sender \in [Req -> [SenderPhase -> Nat]]
  BY DEF IInv, TypeOK
<1>2. /\ spc[c] = "read" /\ asked' = [asked EXCEPT ![c] = @ + 1]
      /\ refs' = [refs EXCEPT ![r] = 2] /\ queue' = Append(queue, m)
      /\ trefs' = [trefs EXCEPT ![c] = @ + 1] /\ spc' = [spc EXCEPT ![c] = "waiting"]
      /\ UNCHANGED <<objects, vpc, vreq, sender, servers, joined>>
  BY DEF SendRequest, Post, AddThreadRef, listenerVars, vmVars
<1>3. /\ r \in Req /\ Thread(r) = c /\ r[2] = asked[c] + 1 /\ m \in Message /\ m.req = r
      /\ asked[c] \in Nat
  <2>1. asked[c] \in Nat /\ asked[c] < MaxReq[c] /\ MaxReq[c] \in Nat
    BY <1>1, HttpAssumption DEF SendRequest
  <2>2. r \in Req /\ Thread(r) = c
    BY <2>1, ReqForm
  <2> QED
    BY <2>1, <2>2 DEF Message
<1>4. refs[r] = 0
  BY <1>1, <1>3 DEF NotAskedYet
<1>5. r \notin objects /\ Threads(sender[r]) = 0 /\ ~AtReply(r) /\ Occurrences(queue, r) = 0
  <2>1. r \notin objects /\ Threads(sender[r]) = 0 /\ ~AtReply(r)
        /\ ~(\E i \in DOMAIN queue : queue[i].req = r)
    <3>1. Threads(sender[r]) \in Nat /\ r \in Req
      BY <1>1, <1>3, ThreadsCounted
    <3> HIDE DEF r
    <3> QED
      BY <1>4, <3>1, HeldRequests
  <2> HIDE DEF r
  <2>2. /\ Occurrences(queue, r) \in Nat
        /\ Occurrences(queue, r) > 0 <=> \E i \in DOMAIN queue : queue[i].req = r
    BY <1>1, OccurrencesFinite
  <2> QED
    BY <2>1, <2>2
<1>6. queue' \in Seq(Message)
      /\ \A q \in Req : Occurrences(queue', q) = Occurrences(queue, q) + One(q = r)
                        /\ Occurrences(queue, q) \in Nat
  <2> HIDE DEF r, m
  <2>1. queue' \in Seq(Message)
    BY <1>1, <1>2, <1>3, AppendProperties
  <2>2. ASSUME NEW q \in Req
        PROVE  Occurrences(queue', q) = Occurrences(queue, q) + One(q = r)
               /\ Occurrences(queue, q) \in Nat
    <3>1. Occurrences(queue', q) = Occurrences(queue, q) + One(m.req = q)
      BY <1>1, <1>2, <1>3, OccurrencesAppend
    <3>2. One(m.req = q) = One(q = r)
      BY <1>3 DEF One
    <3> QED
      BY <1>1, <3>1, <3>2, OccurrencesFinite
  <2> QED
    BY <2>1, <2>2
<1>7. \A q \in Req : AtServer(q)' <=> AtServer(q) \/ q = r
  <2>1. /\ asked'[c] = asked[c] + 1 /\ spc'[c] = "waiting"
        /\ \A e \in Conn \ {c} : asked'[e] = asked[e] /\ spc'[e] = spc[e]
    BY <1>1, <1>2
  <2>2. \A q \in Req : Thread(q) = c => (AtServer(q)' <=> q = r) /\ ~AtServer(q)
    BY <1>2, <2>1 DEF AtServer, Cur
  <2>3. \A q \in Req : Thread(q) # c => (AtServer(q)' <=> AtServer(q)) /\ q # r
    BY <1>3, <2>1, ReqForm DEF AtServer, Cur
  <2> QED
    BY <2>2, <2>3
<1>8. ~AtServer(r)
  BY <1>2, <1>3 DEF AtServer
<1> HIDE DEF r, m
<1>9. ASSUME NEW q \in Req
      PROVE  refs'[q] = HoldersOf(q)'
  <2>1. HoldersOf(q)' = One(AtServer(q)') + Occurrences(queue', q) + One(q \in objects)
                        + One(AtReply(q)) + Threads(sender[q])
    BY <1>1, <1>2, <1>6, Holders DEF AtReply
  <2>2. CASE q = r
    <3>1. /\ One(AtServer(q)') = 1 /\ Occurrences(queue', q) = 1 /\ One(q \in objects) = 0
          /\ One(AtReply(q)) = 0 /\ Threads(sender[q]) = 0
      BY <1>5, <1>6, <1>7, <2>2 DEF One
    <3>2. refs'[q] = 2
      BY <1>1, <1>2, <1>3, <2>2
    <3> QED
      BY <2>1, <3>1, <3>2
  <2>3. CASE q # r
    <3>1. One(AtServer(q)') = One(AtServer(q)) /\ Occurrences(queue', q) = Occurrences(queue, q)
      BY <1>6, <1>7, <2>3 DEF One
    <3>2. HoldersOf(q) = One(AtServer(q)) + Occurrences(queue, q) + One(q \in objects)
                         + One(AtReply(q)) + Threads(sender[q])
      BY <1>1, <1>6, Holders
    <3>3. refs'[q] = refs[q] /\ refs[q] = HoldersOf(q)
      BY <1>1, <1>2, <2>3 DEF RefsExact
    <3> QED
      BY <2>1, <3>1, <3>2, <3>3
  <2> QED
    BY <2>2, <2>3
<1>10. ASSUME NEW e \in Conn
       PROVE  trefs'[e] = ThreadHolders(e)'
  <2>1. /\ ThreadHolders(e) = One(Alive(e)) + One(Contains(servers, e))
                              + One(joined = e) + Cardinality(Live(refs, e))
        /\ ThreadHolders(e)' = One(Alive(e)') + One(Contains(servers, e))
                               + One(joined = e) + Cardinality(Live(refs', e))
        /\ Cardinality(Live(refs, e)) \in Nat /\ Cardinality(Live(refs', e)) \in Nat
    BY <1>1, <1>2, <1>6, Holders
  <2>2. One(Alive(e)') = One(Alive(e))
    <3>1. spc'[e] = spc[e] \/ (spc'[e] = "waiting" /\ spc[e] = "read")
      <4>1. CASE e = c
        BY <1>1, <1>2, <4>1
      <4>2. CASE e # c
        BY <1>1, <1>2, <4>2
      <4> QED
        BY <4>1, <4>2
    <3> QED
      BY <3>1 DEF Alive, One
  <2>3. Cardinality(Live(refs', e)) = Cardinality(Live(refs, e)) + One(e = c)
    <3>1. \A q \in Req : refs'[q] = IF q = r THEN 2 ELSE refs[q]
      BY <1>1, <1>2, <1>3
    <3>2. CASE e = c
      <4>1. Live(refs', e) = Live(refs, e) \cup {r} /\ r \notin Live(refs, e)
        BY <1>3, <1>4, <3>1, <3>2 DEF Live
      <4> QED
        BY <3>2, <4>1, LiveFinite, FS_AddElement DEF One
    <3>3. CASE e # c
      <4>1. Live(refs', e) = Live(refs, e)
        BY <1>3, <3>1, <3>3 DEF Live
      <4>2. One(e = c) = 0
        BY <3>3 DEF One
      <4> QED
        BY <2>1, <4>1, <4>2
    <3> QED
      BY <3>2, <3>3
  <2>4. trefs'[e] = trefs[e] + One(e = c)
    BY <1>1, <1>2 DEF One
  <2>5. trefs[e] = ThreadHolders(e)
    BY <1>1 DEF RefsExact
  <2>6. /\ One(Alive(e)) \in Nat /\ One(Contains(servers, e)) \in Nat
        /\ One(joined = e) \in Nat /\ One(e = c) \in Nat
    BY DEF One
  <2> QED
    BY <2>1, <2>2, <2>3, <2>4, <2>5, <2>6
<1> QED
  BY <1>1, <1>2, <1>6, <1>9, <1>10, ExactCounts

(* Every step keeps the reference counts exact.                            *)
LEMMA CountStep ==
  ASSUME IInv, [Next]_vars
  PROVE  RefsExact' /\ CountTypes'
<1>1. sender' \in [Req -> [SenderPhase -> Nat]]
  BY SenderTyped DEF IInv
<1>2. CASE UNCHANGED vars
  BY <1>2, <1>1, QuietCounts DEF vars, listenerVars, serverVars, queueVars, eventVars, vmVars,
    IInv, AtServer, AtReply, Alive, Cur
<1>3. CASE Next
  BY <1>3, <1>1, QuietSteps, ThreadSteps, RequestSteps, RequestSent
  DEF Next, ListenerStep, VmStep, Program, ServerStep, SenderStep
<1> QED
  BY <1>2, <1>3

-----------------------------------------------------------------------------
(* The other parts                                                         *)

(* The queue's event counts its messages after every step.                 *)
LEMMA EventStep ==
  ASSUME TypeOK, EventCountsMessages, [Next]_vars
  PROVE  EventCountsMessages' /\ queue' \in Seq(Message) /\ arrivals' \in Nat
<1> USE DEF listenerVars, serverVars, queueVars, eventVars, vmVars
<1>1. queue \in Seq(Message) /\ arrivals \in Nat /\ Len(queue) \in Nat
  BY LenProperties DEF TypeOK
<1>2. ASSUME UNCHANGED <<queue, arrivals>>,
             vpc' \in {"flush", "over"} \/ (vpc \notin {"flush", "over"} /\ (vpc = "get" <=> vpc' = "get"))
      PROVE  EventCountsMessages' /\ queue' \in Seq(Message) /\ arrivals' \in Nat
  BY <1>1, <1>2 DEF EventCountsMessages, One
<1>3. ASSUME NEW m \in Message, Post(m), UNCHANGED vpc
      PROVE  EventCountsMessages' /\ queue' \in Seq(Message) /\ arrivals' \in Nat
  BY <1>1, <1>3, AppendProperties DEF EventCountsMessages, Post, One
<1>4. CASE UNCHANGED <<queue, arrivals, vpc>>
  BY <1>1, <1>4 DEF EventCountsMessages, One
<1>5. CASE QueueEvent
  BY <1>1, <1>5 DEF QueueEvent, EventCountsMessages, One
<1>6. CASE GetMessage
  <2>1. queue # <<>>
    BY <1>1, <1>6 DEF GetMessage, EventCountsMessages, One
  <2>2. Tail(queue) \in Seq(Message) /\ Len(Tail(queue)) = Len(queue) - 1
    BY <1>1, <2>1, HeadTailProperties
  <2> QED
    BY <1>1, <1>6, <2>1, <2>2 DEF GetMessage, EventCountsMessages, One
<1>7. CASE Flush
  <2>1. queue # <<>> => Tail(queue) \in Seq(Message)
    BY <1>1, HeadTailProperties
  <2> QED
    BY <1>1, <1>7, <2>1 DEF Flush, EventCountsMessages
<1>8. ASSUME NEW c \in Conn, SendRequest(c)
      PROVE  EventCountsMessages' /\ queue' \in Seq(Message) /\ arrivals' \in Nat
  <2>1. asked[c] \in Nat /\ asked[c] < MaxReq[c]
    BY <1>8 DEF SendRequest, TypeOK
  <2>2. <<c, asked[c] + 1>> \in Req
    BY <2>1, ReqForm, HttpAssumption
  <2>3. [type |-> "request", req |-> <<c, asked[c] + 1>>] \in Message
    BY <2>2 DEF Message
  <2> QED
    BY <1>3, <1>8, <2>3 DEF SendRequest
<1>9. ASSUME NEW r \in Req, SendReplyAsync(r) \/ SenderPosts(r)
      PROVE  EventCountsMessages' /\ queue' \in Seq(Message) /\ arrivals' \in Nat
  <2>1. Result(r) \in Message
    BY DEF Result, Message
  <2>2. CASE Post(Result(r))
    BY <1>3, <1>9, <2>1, <2>2 DEF SendReplyAsync, SenderPosts
  <2>3. CASE UNCHANGED queueVars
    BY <1>4, <1>9, <2>3 DEF SendReplyAsync, SenderPosts
  <2> QED
    BY <1>9, <2>2, <2>3 DEF SendReplyAsync, SenderPosts
<1>10. CASE GetNetEvent \/ QueueTimeout \/ ReplySent \/ ReplyDone \/ ChunkSent \/ ChunkedDone
            \/ ShutdownReturns \/ CollectServer \/ Terminate
  BY <1>1, <1>2, <1>10 DEF GetNetEvent, QueueTimeout, ReplySent, ReplyDone, ChunkSent,
    ChunkedDone, ShutdownReturns, CollectServer, Terminate
<1>11. ASSUME NEW r \in Req, SendReply(r) \/ SendChunk(r) \/ CollectRequest(r)
       PROVE  EventCountsMessages' /\ queue' \in Seq(Message) /\ arrivals' \in Nat
  BY <1>1, <1>2, <1>11 DEF SendReply, SendChunk, CollectRequest, MayReply
<1>12. ASSUME NEW wait \in BOOLEAN, Shutdown(wait)
       PROVE  EventCountsMessages' /\ queue' \in Seq(Message) /\ arrivals' \in Nat
  BY <1>1, <1>2, <1>12 DEF Shutdown
<1>13. CASE ListenerStep
  BY <1>4, <1>13 DEF ListenerStep, ListenerWakes, AcceptFails, AcceptEnds, ListenerJoin,
    ListenerJoined, Accept
<1>14. ASSUME NEW c \in Conn, Connect(c) \/ ReadFails(c) \/ ServerStep(c)
       PROVE  EventCountsMessages' /\ queue' \in Seq(Message) /\ arrivals' \in Nat
  BY <1>4, <1>14 DEF ServerStep, Connect, ReadFails, AddThread, WaitForCompletion,
    ReleaseRequest, RemoveThread, ThreadExits
<1>15. ASSUME NEW r \in Req, SenderSends(r) \/ SenderCompletes(r)
       PROVE  EventCountsMessages' /\ queue' \in Seq(Message) /\ arrivals' \in Nat
  BY <1>4, <1>15 DEF SenderSends, SenderCompletes
<1>16. CASE UNCHANGED vars
  BY <1>4, <1>16 DEF vars
<1> QED
  BY <1>5, <1>6, <1>7, <1>8, <1>9, <1>10, <1>11, <1>12, <1>13, <1>14, <1>15, <1>16
  DEF Next, VmStep, Program, SenderStep

(* Every step keeps the types and what the phases say.                     *)
LEMMA TypeStep ==
  ASSUME IInv, [Next]_vars, CountTypes', queue' \in Seq(Message), arrivals' \in Nat,
         sender' \in [Req -> [SenderPhase -> Nat]]
  PROVE  TypeOK' /\ PhasesOK'
<1> USE DEF listenerVars, serverVars, queueVars, eventVars, vmVars, CountTypes
<1>1. TypeOK /\ PhasesOK
  BY DEF IInv
<1>2. NoReq \notin Req /\ NoConn \notin Conn
  BY ReqForm
<1> USE DEF TypeOK, PhasesOK, ListenerPhase, ServerPhase, SenderPhase, VmPhase, Running,
  Replying
<1>3. CASE ListenerWakes \/ AcceptEnds
  BY <1>1, <1>2, <1>3 DEF ListenerWakes, AcceptEnds
<1>4. CASE AcceptFails
  BY <1>1, <1>2, <1>4 DEF AcceptFails
<1>5. ASSUME NEW c \in Conn, Accept(c)
      PROVE  TypeOK' /\ PhasesOK'
  BY <1>1, <1>2, <1>5 DEF Accept
<1>6. ASSUME NEW c \in Conn, Connect(c)
      PROVE  TypeOK' /\ PhasesOK'
  BY <1>1, <1>2, <1>6 DEF Connect
<1>7. ASSUME NEW c \in Conn, ReadFails(c) \/ ThreadExits(c)
      PROVE  TypeOK' /\ PhasesOK'
  <2>1. CASE ReadFails(c)
    BY <1>1, <1>2, <2>1 DEF ReadFails
  <2>2. CASE ThreadExits(c)
    BY <1>1, <1>2, <2>2 DEF ThreadExits
  <2> QED
    BY <1>7, <2>1, <2>2
<1>8. ASSUME NEW c \in Conn, ReleaseRequest(c)
      PROVE  TypeOK' /\ PhasesOK'
  BY <1>1, <1>2, <1>8 DEF ReleaseRequest, NextTurn
<1>9. CASE GetNetEvent \/ QueueTimeout \/ QueueEvent \/ ShutdownReturns \/ CollectServer
  <2>1. /\ UNCHANGED <<pending, listenerVars, servers, serverVars, signaled, completed,
                        sender, vreq, objects, doubled>>
        /\ vpc \notin Replying /\ vpc' \notin Replying /\ vpc' \in VmPhase
        /\ shutdown' \in BOOLEAN /\ server' \in BOOLEAN
    BY <1>1, <1>9 DEF GetNetEvent, QueueTimeout, QueueEvent, ShutdownReturns, CollectServer
  <2> QED
    BY <1>1, <2>1
<1>10. CASE Terminate \/ Flush
  <2>1. CASE Terminate
    BY <1>1, <1>2, <2>1 DEF Terminate
  <2>2. CASE Flush
    BY <1>1, <1>2, <2>2 DEF Flush
  <2> QED
    BY <1>10, <2>1, <2>2
<1>11. CASE ReplySent \/ ReplyDone
  <2>1. vreq \in Req
    BY <1>1, <1>11 DEF ReplySent, ReplyDone
  <2>2. CASE ReplySent
    <3>1. signaled' \in [Req -> Nat]
      BY <1>1, <2>1, <2>2 DEF ReplySent
    <3> QED
      BY <1>1, <1>2, <2>2, <3>1 DEF ReplySent
  <2>3. CASE ReplyDone
    <3>1. completed' \in [Req -> BOOLEAN]
      BY <1>1, <2>1, <2>3 DEF ReplyDone
    <3> QED
      BY <1>1, <1>2, <2>3, <3>1 DEF ReplyDone
  <2> QED
    BY <1>11, <2>2, <2>3
<1>12. CASE ChunkSent \/ ChunkedDone
  <2>1. vreq \in Req
    BY <1>1, <1>12 DEF ChunkSent, ChunkedDone
  <2>2. CASE ChunkSent
    <3>1. signaled' \in [Req -> Nat]
      <4>1. signaled' = signaled \/ signaled' = [signaled EXCEPT ![vreq] = @ + 1]
        BY <2>2 DEF ChunkSent
      <4>2. signaled \in [Req -> Nat]
        BY <1>1
      <4>3. signaled[vreq] + 1 \in Nat
        BY <2>1, <4>2
      <4> QED
        BY <4>1, <4>2, <4>3
    <3> QED
      BY SMTT(40), <1>1, <1>2, <2>2, <3>1 DEF ChunkSent
  <2>3. CASE ChunkedDone
    <3>1. completed' \in [Req -> BOOLEAN]
      BY <1>1, <2>1, <2>3 DEF ChunkedDone
    <3> QED
      BY <1>1, <1>2, <2>3, <3>1 DEF ChunkedDone
  <2> QED
    BY <1>12, <2>2, <2>3
<1>13. ASSUME NEW r \in Req, SendReply(r) \/ SendChunk(r)
      PROVE  TypeOK' /\ PhasesOK'
  <2>1. doubled' \in SUBSET Req
    BY <1>1, <1>13 DEF SendReply, SendChunk, NoteReply
  <2>2. CASE SendReply(r)
    BY <1>1, <1>2, <2>1, <2>2 DEF SendReply, MayReply
  <2>3. CASE SendChunk(r)
    BY <1>1, <1>2, <2>1, <2>3 DEF SendChunk, MayReply
  <2> QED
    BY <1>13, <2>2, <2>3
<1>14. ASSUME NEW r \in Req, SendReplyAsync(r) \/ SenderPosts(r)
      PROVE  TypeOK' /\ PhasesOK'
  <2>1. doubled' \in SUBSET Req
    BY <1>1, <1>14 DEF SendReplyAsync, SenderPosts, NoteReply
  <2>2. CASE SendReplyAsync(r)
    BY <1>1, <1>2, <2>1, <2>2 DEF SendReplyAsync
  <2>3. CASE SenderPosts(r)
    BY <1>1, <1>2, <2>1, <2>3 DEF SenderPosts
  <2> QED
    BY <1>14, <2>2, <2>3
<1>15. ASSUME NEW r \in Req, SenderSends(r) \/ SenderCompletes(r)
      PROVE  TypeOK' /\ PhasesOK'
  <2>1. CASE SenderSends(r)
    <3>1. signaled' \in [Req -> Nat]
      BY <1>1, <2>1 DEF SenderSends
    <3> QED
      BY <1>1, <1>2, <2>1, <3>1 DEF SenderSends
  <2>2. CASE SenderCompletes(r)
    <3>1. completed' \in [Req -> BOOLEAN]
      BY <1>1, <2>2 DEF SenderCompletes
    <3> QED
      BY <1>1, <1>2, <2>2, <3>1 DEF SenderCompletes
  <2> QED
    BY <1>15, <2>1, <2>2
<1>16. ASSUME NEW r \in Req, CollectRequest(r)
      PROVE  TypeOK' /\ PhasesOK'
  BY <1>1, <1>2, <1>16 DEF CollectRequest
<1>17. ASSUME NEW wait \in BOOLEAN, Shutdown(wait)
      PROVE  TypeOK' /\ PhasesOK'
  BY <1>1, <1>2, <1>17 DEF Shutdown
<1>18. CASE UNCHANGED vars
  BY <1>1, <1>2, <1>18 DEF vars
<1>19. CASE ListenerJoin
  <2>1. servers # <<>> => Head(servers) \in Conn
    BY <1>1, HeadTailProperties
  <2> QED
    BY <1>1, <1>2, <1>19, <2>1 DEF ListenerJoin
<1>20. CASE ListenerJoined
  BY <1>1, <1>2, <1>20 DEF ListenerJoined
<1>21. ASSUME NEW c \in Conn, AddThread(c)
       PROVE  TypeOK' /\ PhasesOK'
  <2>1. servers \in Seq(Conn) /\ IsInjective(servers) /\ ~Contains(servers, c)
    BY <1>1, <1>21 DEF AddThread
  <2>2. /\ servers' \in Seq(Conn) /\ IsInjective(servers')
        /\ \A d : Contains(servers', d) <=> Contains(servers, d) \/ d = c
    BY <1>21, <2>1, AddToList DEF AddThread
  <2> QED
    BY <1>1, <1>2, <1>21, <2>2 DEF AddThread, NextTurn
<1>22. ASSUME NEW c \in Conn, RemoveThread(c)
       PROVE  TypeOK' /\ PhasesOK'
  <2>1. servers \in Seq(Conn) /\ IsInjective(servers)
    BY <1>1
  <2>2. PICK i \in DOMAIN servers : servers[i] = c /\ servers' = RemoveAt(servers, i)
    BY <1>22 DEF RemoveThread
  <2>3. /\ servers' \in Seq(Conn) /\ IsInjective(servers')
        /\ \A d : Contains(servers', d) <=> Contains(servers, d) /\ d # c
    BY <2>1, <2>2, RemoveFromList
  <2> QED
    BY <1>1, <1>2, <1>22, <2>3 DEF RemoveThread
<1>23. ASSUME NEW c \in Conn, WaitForCompletion(c)
       PROVE  TypeOK' /\ PhasesOK'
  <2>1. Cur(c) \in Req
    <3>1. asked[c] \in Nat /\ asked[c] > 0 /\ asked[c] <= MaxReq[c]
      BY <1>1, <1>23 DEF WaitForCompletion
    <3> QED
      BY <3>1, ReqForm DEF Cur
  <2>2. signaled' \in [Req -> Nat]
    <3>1. \/ signaled' = signaled
          \/ signaled[Cur(c)] > 0 /\ signaled' = [signaled EXCEPT ![Cur(c)] = @ - 1]
      BY <1>23 DEF WaitForCompletion
    <3>2. signaled \in [Req -> Nat] /\ signaled[Cur(c)] \in Nat
      BY <1>1, <2>1
    <3>3. signaled[Cur(c)] > 0 => signaled[Cur(c)] - 1 \in Nat
      BY <3>2
    <3> QED
      BY <2>1, <3>1, <3>2, <3>3
  <2> QED
    BY <1>1, <1>2, <1>23, <2>2 DEF WaitForCompletion
<1>24. ASSUME NEW c \in Conn, SendRequest(c)
       PROVE  TypeOK' /\ PhasesOK'
  <2>1. MaxReq[c] \in Nat /\ asked[c] \in Nat /\ asked[c] < MaxReq[c]
    BY <1>1, <1>24, HttpAssumption DEF SendRequest
  <2>2. /\ asked' \in [Conn -> Nat] /\ \A d \in Conn : asked'[d] <= MaxReq[d]
        /\ \A d \in Conn \ {c} : asked'[d] = asked[d]
        /\ asked'[c] > 0
    BY SMTT(40), <1>1, <1>24, <2>1 DEF SendRequest
  <2> QED
    BY SMTT(40), <1>1, <1>2, <1>24, <2>2 DEF SendRequest
<1>25. CASE GetMessage
  <2>1. queue # <<>> => Head(queue).req \in Req
    <3>1. queue # <<>> => Head(queue) \in Message
      BY <1>1, HeadTailProperties
    <3> QED
      BY <3>1 DEF Message
  <2> QED
    BY <1>1, <1>2, <1>25, <2>1 DEF GetMessage
<1> QED
  BY <1>3, <1>4, <1>5, <1>6, <1>7, <1>8, <1>9, <1>10, <1>11, <1>12, <1>13, <1>14, <1>15,
    <1>16, <1>17, <1>18, <1>19, <1>20, <1>21, <1>22, <1>23, <1>24, <1>25
  DEF Next, ListenerStep, VmStep, Program, ServerStep, SenderStep

(* A request that has not been read yet is touched by nobody: whoever adds *)
(* a reference, sets the event or completes it has it already.             *)
LEMMA NotAskedStep ==
  ASSUME IInv, [Next]_vars
  PROVE  NotAskedYet'
<1> USE DEF listenerVars, serverVars, queueVars, eventVars, vmVars
<1>1. /\ TypeOK /\ PhasesOK /\ NotAskedYet /\ TurnOK
      /\ refs \in [Req -> Nat] /\ signaled \in [Req -> Nat] /\ completed \in [Req -> BOOLEAN]
      /\ asked \in [Conn -> Nat]
  BY DEF IInv, TypeOK
<1>2. ASSUME UNCHANGED <<refs, signaled, completed, asked>>
      PROVE  NotAskedYet'
  BY <1>1, <1>2 DEF NotAskedYet
<1>3. ASSUME NEW r \in Req, refs[r] > 0, UNCHANGED asked,
             \A q \in Req \ {r} : refs'[q] = refs[q] /\ signaled'[q] = signaled[q]
                                  /\ completed'[q] = completed[q]
      PROVE  NotAskedYet'
  <2>1. r[2] <= asked[Thread(r)]
    BY <1>3, HeldRequests
  <2>2. r[2] \in Nat /\ asked[Thread(r)] \in Nat
    BY <1>1, ReqForm
  <2> QED
    BY <1>1, <1>3, <2>1, <2>2 DEF NotAskedYet
<1>4. ASSUME UNCHANGED <<signaled, completed, asked>>, NEW R \in SUBSET Req, ReleaseReqs(R),
             \A r \in R : refs[r] > 0
      PROVE  NotAskedYet'
  <2>1. \A r \in Req : refs'[r] = IF r \in R THEN refs[r] - 1 ELSE refs[r]
    BY <1>4 DEF ReleaseReqs
  <2> QED
    BY <1>1, <1>4, <2>1 DEF NotAskedYet
<1>5. CASE UNCHANGED vars \/ ListenerStep
  BY <1>2, <1>5 DEF vars, ListenerStep, ListenerWakes, AcceptFails, AcceptEnds, ListenerJoin,
    ListenerJoined, Accept
<1>6. ASSUME NEW c \in Conn, SendRequest(c)
      PROVE  NotAskedYet'
  <2> DEFINE r == <<c, asked[c] + 1>>
  <2>1. asked[c] \in Nat /\ r \in Req /\ Thread(r) = c /\ r[2] = asked[c] + 1
    <3>1. asked[c] \in Nat /\ asked[c] < MaxReq[c] /\ MaxReq[c] \in Nat
      BY <1>1, <1>6, HttpAssumption DEF SendRequest
    <3> QED
      BY <3>1, ReqForm
  <2>2. /\ refs' = [refs EXCEPT ![r] = 2] /\ asked' = [asked EXCEPT ![c] = @ + 1]
        /\ UNCHANGED <<signaled, completed>>
    BY <1>6 DEF SendRequest
  <2> HIDE DEF r
  <2>3. ASSUME NEW q \in Req, q[2] > asked'[Thread(q)]
        PROVE  refs'[q] = 0 /\ signaled'[q] = 0 /\ ~completed'[q]
    <3>1. Thread(q) \in Conn /\ q[2] \in Nat
      BY ReqForm
    <3>2. asked'[c] = asked[c] + 1 /\ \A d \in Conn \ {c} : asked'[d] = asked[d]
      BY <1>1, <2>2
    <3>3. q # r
      BY <2>1, <2>3, <3>2
    <3>4. q[2] > asked[Thread(q)]
      BY <1>1, <2>1, <2>3, <3>1, <3>2
    <3>5. refs[q] = 0 /\ signaled[q] = 0 /\ ~completed[q]
      BY <1>1, <3>4 DEF NotAskedYet
    <3> QED
      BY <1>1, <2>2, <3>3, <3>5
  <2> QED
    BY <2>3 DEF NotAskedYet
<1>7. ASSUME NEW c \in Conn, WaitForCompletion(c) \/ ReleaseRequest(c)
      PROVE  NotAskedYet'
  <2>1. Cur(c) \in Req /\ Thread(Cur(c)) = c
    <3>1. asked[c] \in Nat /\ asked[c] > 0 /\ asked[c] <= MaxReq[c]
      BY <1>1, <1>7 DEF WaitForCompletion, ReleaseRequest, TypeOK, PhasesOK
    <3> QED
      BY <3>1, ReqForm DEF Cur
  <2>2. AtServer(Cur(c))
    BY <1>7, <2>1 DEF WaitForCompletion, ReleaseRequest, AtServer
  <2>3. refs[Cur(c)] > 0
    BY <2>1, <2>2, HeldRequests
  <2>4. CASE WaitForCompletion(c)
    <3>1. \A q \in Req \ {Cur(c)} : signaled'[q] = signaled[q]
      BY <1>1, <2>1, <2>4 DEF WaitForCompletion
    <3>2. UNCHANGED <<refs, completed, asked>>
      BY <2>4 DEF WaitForCompletion
    <3> QED
      BY <1>3, <2>1, <2>3, <3>1, <3>2
  <2>5. CASE ReleaseRequest(c)
    <3>1. {Cur(c)} \in SUBSET Req /\ \A r \in {Cur(c)} : refs[r] > 0
      BY <2>1, <2>3
    <3> QED
      BY <1>4, <2>5, <3>1 DEF ReleaseRequest
  <2> QED
    BY <1>7, <2>4, <2>5
<1>8. ASSUME NEW c \in Conn,
             Connect(c) \/ ReadFails(c) \/ AddThread(c) \/ RemoveThread(c) \/ ThreadExits(c)
      PROVE  NotAskedYet'
  BY <1>2, <1>8 DEF Connect, ReadFails, AddThread, RemoveThread, ThreadExits
<1>9. ASSUME NEW r \in Req, \/ SendReply(r) \/ SendReplyAsync(r)
                            \/ SenderSends(r) \/ SenderCompletes(r)
      PROVE  NotAskedYet'
  <2>1. r \in objects \/ Threads(sender[r]) > 0
    <3>1. SenderSends(r) \/ SenderCompletes(r) => Threads(sender[r]) > 0
      BY <1>1, SenderSteps DEF TypeOK
    <3> QED
      BY <1>9, <3>1 DEF SendReply, SendReplyAsync, MayReply
  <2>2. refs[r] > 0
    BY <2>1, HeldRequests
  <2>3. UNCHANGED asked
    BY <1>9 DEF SendReply, SendReplyAsync, SenderSends, SenderCompletes
  <2>4. \A q \in Req \ {r} : refs'[q] = refs[q] /\ signaled'[q] = signaled[q]
                             /\ completed'[q] = completed[q]
    BY <1>1, <1>9 DEF SendReply, SendReplyAsync, SenderSends, SenderCompletes
  <2> QED
    BY <1>3, <2>2, <2>3, <2>4
<1>10. ASSUME NEW r \in Req, SendChunk(r) \/ SenderPosts(r)
       PROVE  NotAskedYet'
  BY <1>2, <1>10 DEF SendChunk, SenderPosts
<1>11. CASE ReplySent \/ ReplyDone \/ ChunkSent \/ ChunkedDone
  <2>1. vreq \in Req /\ vreq \in objects
    BY <1>1, <1>11 DEF ReplySent, ReplyDone, ChunkSent, ChunkedDone, PhasesOK, Replying, TypeOK
  <2>2. refs[vreq] > 0
    BY <2>1, HeldRequests
  <2>3. UNCHANGED asked
    BY <1>11 DEF ReplySent, ReplyDone, ChunkSent, ChunkedDone
  <2>4. \A q \in Req \ {vreq} : refs'[q] = refs[q] /\ signaled'[q] = signaled[q]
                                /\ completed'[q] = completed[q]
    BY <1>1, <1>11, <2>1 DEF ReplySent, ReplyDone, ChunkSent, ChunkedDone, ReleaseReqs
  <2> QED
    BY <1>3, <2>1, <2>2, <2>3, <2>4
<1>12. CASE GetNetEvent \/ QueueTimeout \/ QueueEvent \/ ShutdownReturns \/ CollectServer
            \/ \E wait \in BOOLEAN : Shutdown(wait)
  BY <1>2, <1>12 DEF GetNetEvent, QueueTimeout, QueueEvent, ShutdownReturns, CollectServer,
    Shutdown
<1>13. CASE Terminate
  <2>1. objects \in SUBSET Req
    BY <1>1 DEF TypeOK
  <2>2. \A r \in objects : refs[r] > 0
    BY <2>1, HeldRequests
  <2> QED
    BY <1>4, <1>13, <2>1, <2>2 DEF Terminate
<1>14. ASSUME NEW r \in Req, CollectRequest(r)
       PROVE  NotAskedYet'
  <2>1. refs[r] > 0
    BY <1>14, HeldRequests DEF CollectRequest
  <2> QED
    BY <1>4, <1>14, <2>1 DEF CollectRequest
<1>15. CASE GetMessage \/ Flush
  <2>1. CASE queue = <<>>
    BY <1>2, <1>15, <2>1 DEF GetMessage, Flush
  <2>2. CASE queue # <<>>
    <3>1. queue \in Seq(Message)
      BY <1>1 DEF TypeOK
    <3>2. Head(queue) \in Message /\ Head(queue) = queue[1] /\ 1 \in DOMAIN queue
      BY <2>2, <3>1, HeadTailProperties, EmptySeq, LenProperties
    <3>3. Head(queue).req \in Req
      BY <3>2 DEF Message
    <3>4. refs[Head(queue).req] > 0
      BY <3>2, <3>3, HeldRequests
    <3>5. UNCHANGED refs \/ ReleaseReqs({Head(queue).req})
      BY <1>15, <2>2 DEF GetMessage, Flush
    <3>6. UNCHANGED <<signaled, completed, asked>>
      BY <1>15 DEF GetMessage, Flush
    <3> QED
      BY <1>2, <1>4, <3>3, <3>4, <3>5, <3>6
  <2> QED
    BY <2>1, <2>2
<1> QED
  BY <1>5, <1>6, <1>7, <1>8, <1>9, <1>10, <1>11, <1>12, <1>13, <1>14, <1>15
  DEF Next, VmStep, Program, ServerStep, SenderStep

(* A request stays known to its server thread only until the VM has taken  *)
(* it out of the queue, where it is once.                                  *)
LEMMA QueueStep ==
  ASSUME IInv, [Next]_vars
  PROVE  QueueOK'
<1> USE DEF listenerVars, serverVars, queueVars, eventVars, vmVars
<1>1. /\ TypeOK /\ QueueOK /\ NotAskedYet
      /\ queue \in Seq(Message) /\ sender \in [Req -> [SenderPhase -> Nat]]
      /\ \A i \in DOMAIN queue : queue[i] \in Message /\ queue[i].req \in Req
      /\ Len(queue) \in Nat /\ DOMAIN queue = 1 .. Len(queue)
  <2>1. queue \in Seq(Message) /\ sender \in [Req -> [SenderPhase -> Nat]]
    BY DEF IInv, TypeOK
  <2>2. \A i \in DOMAIN queue : queue[i] \in Message
    BY <2>1, LenProperties, ElementOfSeq
  <2>3. \A i \in DOMAIN queue : queue[i].req \in Req
    BY <2>2 DEF Message
  <2> QED
    BY <2>1, <2>2, <2>3, LenProperties DEF IInv
<1>2. ASSUME UNCHANGED queue, objects' \subseteq objects,
             \A r \in Req : Threads(sender[r]) = 0 => Threads(sender'[r]) = 0 \/ r \in objects
      PROVE  QueueOK'
  BY <1>1, <1>2 DEF QueueOK
<1>3. ASSUME queue # <<>>, queue' = Tail(queue), UNCHANGED sender,
             \/ objects' \subseteq objects
             \/ Head(queue).type = "request" /\ objects' = objects \cup {Head(queue).req}
      PROVE  QueueOK'
  <2>1. /\ Len(queue) \in Nat \ {0} /\ Head(queue) = queue[1]
        /\ DOMAIN queue' = 1 .. Len(queue) - 1
        /\ \A i \in 1 .. Len(queue) - 1 : queue'[i] = queue[i + 1]
    BY <1>1, <1>3, EmptySeq, LenProperties, HeadTailProperties
  <2>2. ASSUME NEW i \in DOMAIN queue', queue'[i].type = "request"
        PROVE  /\ queue'[i].req \notin objects' /\ Threads(sender'[queue'[i].req]) = 0
               /\ \A j \in DOMAIN queue' : queue'[j].req = queue'[i].req => j = i
    <3>1. i + 1 \in DOMAIN queue /\ queue'[i] = queue[i + 1]
      BY <1>1, <2>1
    <3>2. /\ queue[i + 1].req \notin objects /\ Threads(sender[queue[i + 1].req]) = 0
          /\ \A j \in DOMAIN queue : queue[j].req = queue[i + 1].req => j = i + 1
      BY <1>1, <2>2, <3>1 DEF QueueOK
    <3>3. 1 \in DOMAIN queue /\ i + 1 # 1 /\ i \in Nat
      BY <1>1, <2>1
    <3>4. queue[1].req # queue[i + 1].req
      BY <3>2, <3>3
    <3>5. ASSUME NEW j \in DOMAIN queue', queue'[j].req = queue'[i].req
          PROVE  j = i
      <4>1. j + 1 \in DOMAIN queue /\ queue'[j] = queue[j + 1] /\ j \in Nat
        BY <1>1, <2>1
      <4>2. j + 1 = i + 1
        BY <3>1, <3>2, <3>5, <4>1
      <4> QED
        BY <3>3, <4>1, <4>2
    <3> QED
      BY <1>3, <2>1, <3>1, <3>2, <3>4, <3>5
  <2> QED
    BY <2>2 DEF QueueOK
<1>4. ASSUME NEW m \in Message, queue' = Append(queue, m), UNCHANGED objects,
             \A q \in Req \ {m.req} : sender'[q] = sender[q],
             \A i \in DOMAIN queue : queue[i].type = "request" => queue[i].req # m.req,
             m.type = "request" =>
               /\ m.req \notin objects /\ Threads(sender'[m.req]) = 0
               /\ \A i \in DOMAIN queue : queue[i].req # m.req
      PROVE  QueueOK'
  <2>1. /\ DOMAIN queue' = 1 .. Len(queue) + 1
        /\ \A i \in 1 .. Len(queue) : queue'[i] = queue[i]
        /\ queue'[Len(queue) + 1] = m
    BY <1>1, <1>4, AppendProperties, LenProperties
  <2>2. ASSUME NEW i \in DOMAIN queue', queue'[i].type = "request"
        PROVE  /\ queue'[i].req \notin objects' /\ Threads(sender'[queue'[i].req]) = 0
               /\ \A j \in DOMAIN queue' : queue'[j].req = queue'[i].req => j = i
    <3>1. CASE i = Len(queue) + 1
      BY <1>1, <1>4, <2>1, <2>2, <3>1
    <3>2. CASE i \in 1 .. Len(queue)
      <4>1. /\ queue[i].req \notin objects /\ Threads(sender[queue[i].req]) = 0
            /\ \A j \in DOMAIN queue : queue[j].req = queue[i].req => j = i
            /\ queue[i].req # m.req /\ queue[i].req \in Req
        BY <1>1, <1>4, <2>1, <2>2, <3>2 DEF QueueOK
      <4> QED
        BY <1>1, <1>4, <2>1, <3>2, <4>1
    <3> QED
      BY <1>1, <2>1, <3>1, <3>2
  <2> QED
    BY <2>2 DEF QueueOK
<1>5. CASE GetMessage \/ Flush
  BY <1>2, <1>3, <1>5 DEF GetMessage, Flush
<1>6. ASSUME NEW c \in Conn, SendRequest(c)
      PROVE  QueueOK'
  <2> DEFINE r == <<c, asked[c] + 1>>
             m == [type |-> "request", req |-> r]
  <2>1. r \in Req /\ refs[r] = 0
    <3>1. asked[c] \in Nat /\ asked[c] < MaxReq[c] /\ MaxReq[c] \in Nat
      BY <1>1, <1>6, HttpAssumption DEF SendRequest, TypeOK
    <3>2. r \in Req /\ Thread(r) = c /\ r[2] = asked[c] + 1
      BY <3>1, ReqForm
    <3> QED
      BY <1>1, <3>1, <3>2 DEF NotAskedYet
  <2>2. queue' = Append(queue, m) /\ UNCHANGED <<objects, sender>>
    BY <1>6 DEF SendRequest, Post
  <2>3. m \in Message /\ m.req = r
    BY <2>1 DEF Message
  <2> HIDE DEF r, m
  <2>4. r \notin objects /\ Threads(sender[r]) = 0 /\ \A i \in DOMAIN queue : queue[i].req # r
    <3>1. Threads(sender[r]) \in Nat
      BY <1>1, <2>1, ThreadsCounted
    <3> QED
      BY <2>1, <3>1, HeldRequests
  <2> QED
    BY <1>4, <2>2, <2>3, <2>4
<1>7. ASSUME NEW r \in Req, SendReplyAsync(r) \/ SenderPosts(r)
      PROVE  QueueOK'
  <2>1. Result(r) \in Message /\ Result(r).req = r /\ Result(r).type # "request"
    BY DEF Result, Message
  <2>2. \A i \in DOMAIN queue : queue[i].type = "request" => queue[i].req # r
    <3>1. r \in objects \/ Threads(sender[r]) > 0
      BY <1>1, <1>7, SenderSteps DEF SendReplyAsync, MayReply
    <3> QED
      BY <1>1, <3>1 DEF QueueOK
  <2>3. UNCHANGED objects /\ \A q \in Req \ {r} : sender'[q] = sender[q]
    <3>1. CASE SendReplyAsync(r)
      BY <1>1, <3>1, SenderLaunched DEF SendReplyAsync
    <3>2. CASE SenderPosts(r)
      BY <1>1, <3>2, SenderSteps DEF SenderPosts
    <3> QED
      BY <1>7, <3>1, <3>2
  <2>4. CASE queue' = Append(queue, Result(r))
    BY <1>4, <2>1, <2>2, <2>3, <2>4
  <2>5. CASE UNCHANGED queue /\ SendReplyAsync(r)
    BY <1>2, <2>3, <2>5 DEF SendReplyAsync, MayReply
  <2> QED
    BY <1>7, <2>4, <2>5 DEF SendReplyAsync, SenderPosts, Post
<1>8. CASE UNCHANGED vars \/ ListenerStep
  BY <1>2, <1>8 DEF vars, ListenerStep, ListenerWakes, AcceptFails, AcceptEnds, ListenerJoin,
    ListenerJoined, Accept
<1>9. ASSUME NEW c \in Conn, Connect(c) \/ ReadFails(c) \/ ServerStep(c)
      PROVE  QueueOK'
  BY <1>2, <1>9 DEF ServerStep, Connect, ReadFails, AddThread, WaitForCompletion,
    ReleaseRequest, RemoveThread, ThreadExits
<1>10. CASE GetNetEvent \/ QueueTimeout \/ QueueEvent \/ ShutdownReturns \/ CollectServer
            \/ Terminate \/ \E wait \in BOOLEAN : Shutdown(wait)
  BY <1>2, <1>10 DEF GetNetEvent, QueueTimeout, QueueEvent, ShutdownReturns, CollectServer,
    Terminate, Shutdown
<1>11. CASE ReplySent \/ ReplyDone \/ ChunkSent \/ ChunkedDone
  BY <1>2, <1>11 DEF ReplySent, ReplyDone, ChunkSent, ChunkedDone
<1>12. ASSUME NEW r \in Req, SendReply(r) \/ SendChunk(r) \/ CollectRequest(r)
       PROVE  QueueOK'
  BY <1>2, <1>12 DEF SendReply, SendChunk, CollectRequest
<1>13. ASSUME NEW r \in Req, SenderSends(r) \/ SenderCompletes(r)
       PROVE  QueueOK'
  <2>1. \A q \in Req : Threads(sender[q]) = 0 => Threads(sender'[q]) = 0
    BY <1>1, <1>13, SenderSteps
  <2> QED
    BY <1>2, <1>13, <2>1 DEF SenderSends, SenderCompletes
<1> QED
  BY <1>5, <1>6, <1>7, <1>8, <1>9, <1>10, <1>11, <1>12, <1>13
  DEF Next, VmStep, Program, SenderStep

(* One reply at a time: what a step must leave alone, or may begin.        *)
LEMMA TurnKept ==
  ASSUME IInv, shutdown => shutdown', doubled \subseteq doubled',
         \A r \in Req \ doubled' :
           \/ Unfinished(sender'[r]) = 0
           \/ Unfinished(sender'[r]) = 1 /\ ~completed'[r]
           \/ Unfinished(sender'[r]) = Unfinished(sender[r]) /\ completed'[r] = completed[r],
         vpc' \in Replying /\ vreq' \notin doubled' =>
           \/ ~completed'[vreq'] /\ Unfinished(sender'[vreq']) = 0
           \/ /\ vpc \in Replying /\ vreq' = vreq /\ completed'[vreq] = completed[vreq]
              /\ Unfinished(sender'[vreq]) = Unfinished(sender[vreq]),
         ~shutdown' => \A r \in Req \ doubled' : Open(r)' =>
           Open(r) /\ UNCHANGED <<spc[Thread(r)], Cur(Thread(r)), signaled[r]>>
  PROVE  TurnOK'
<1>1. TurnOK
  BY DEF IInv
<1>2. ASSUME NEW r \in Req \ doubled'
      PROVE  /\ Unfinished(sender'[r]) <= 1
             /\ Unfinished(sender'[r]) > 0 => ~completed'[r]
  <2>1. /\ Unfinished(sender[r]) <= 1
        /\ Unfinished(sender[r]) > 0 => ~completed[r]
    BY <1>1 DEF TurnOK
  <2> QED
    BY <2>1
<1>3. vpc' \in Replying /\ vreq' \notin doubled' =>
        ~completed'[vreq'] /\ Unfinished(sender'[vreq']) = 0
  BY <1>1 DEF TurnOK
<1>4. ASSUME ~shutdown', NEW r \in Req \ doubled', Open(r)'
      PROVE  (spc[Thread(r)] = "waiting" /\ Cur(Thread(r)) = r /\ signaled[r] = 0)'
  BY <1>1, <1>4 DEF TurnOK
<1> QED
  BY <1>2, <1>3, <1>4 DEF TurnOK

(* Every step keeps replies in turn.                                       *)
LEMMA TurnStep ==
  ASSUME IInv, [Next]_vars
  PROVE  TurnOK'
<1> USE DEF listenerVars, serverVars, queueVars, eventVars, vmVars
<1>1. /\ TypeOK /\ PhasesOK /\ TurnOK /\ NotAskedYet
      /\ signaled \in [Req -> Nat] /\ completed \in [Req -> BOOLEAN]
      /\ asked \in [Conn -> Nat] /\ sender \in [Req -> [SenderPhase -> Nat]]
      /\ spc \in [Conn -> ServerPhase]
  BY DEF IInv, TypeOK
<1>2. ASSUME UNCHANGED <<asked, completed, vreq, vpc, sender, spc, signaled, doubled>>,
             shutdown => shutdown'
      PROVE  TurnOK'
  BY <1>2, TurnKept DEF Open, Cur
<1>3. CASE UNCHANGED vars
  BY <1>2, <1>3 DEF vars
<1>4. CASE ListenerWakes \/ AcceptEnds \/ ListenerJoin \/ ListenerJoined
  BY <1>2, <1>4 DEF ListenerWakes, AcceptEnds, ListenerJoin, ListenerJoined
<1>5. ASSUME NEW c \in Conn, shutdown => shutdown', spc[c] # "waiting" \/ shutdown,
             UNCHANGED <<asked, completed, vreq, vpc, sender, signaled, doubled>>,
             \A d \in Conn \ {c} : spc'[d] = spc[d]
      PROVE  TurnOK'
  <2>1. ASSUME ~shutdown', NEW r \in Req \ doubled', Open(r)'
        PROVE  Open(r) /\ UNCHANGED <<spc[Thread(r)], Cur(Thread(r)), signaled[r]>>
    <3>1. Open(r)
      BY <1>5, <2>1 DEF Open
    <3>2. spc[Thread(r)] = "waiting" /\ Thread(r) \in Conn
      BY <1>1, <1>5, <2>1, <3>1, ReqForm DEF TurnOK
    <3> QED
      BY <1>5, <2>1, <3>1, <3>2 DEF Cur
  <2> QED
    BY <1>5, <2>1, TurnKept
<1>6. CASE AcceptFails
  <2>1. shutdown' /\ UNCHANGED <<asked, completed, vreq, vpc, sender, signaled, doubled>>
    BY <1>6 DEF AcceptFails
  <2> QED
    BY <2>1, TurnKept
<1>7. ASSUME NEW c \in Conn, Accept(c)
      PROVE  TurnOK'
  BY <1>1, <1>5, <1>7 DEF Accept, PhasesOK
<1>8. ASSUME NEW c \in Conn, \/ ReadFails(c) \/ AddThread(c) \/ ReleaseRequest(c)
                             \/ RemoveThread(c) \/ ThreadExits(c)
      PROVE  TurnOK'
  <2>1. /\ UNCHANGED <<asked, completed, vreq, vpc, sender, signaled, shutdown, doubled>>
        /\ spc[c] # "waiting"
    BY <1>8 DEF ReadFails, AddThread, ReleaseRequest, RemoveThread, ThreadExits
  <2>2. \A d \in Conn \ {c} : spc'[d] = spc[d]
    BY <1>1, <1>8 DEF ReadFails, AddThread, ReleaseRequest, RemoveThread, ThreadExits, NextTurn
  <2> QED
    BY <1>5, <2>1, <2>2
<1>9. ASSUME NEW c \in Conn, Connect(c)
      PROVE  TurnOK'
  BY <1>2, <1>9 DEF Connect
<1>10. ASSUME NEW c \in Conn, WaitForCompletion(c)
       PROVE  TurnOK'
  <2>1. /\ UNCHANGED <<asked, completed, vreq, vpc, sender, shutdown, doubled>>
        /\ \A d \in Conn \ {c} : spc'[d] = spc[d]
    BY <1>1, <1>10 DEF WaitForCompletion
  <2>2. CASE shutdown
    BY <2>1, <2>2, TurnKept
  <2>3. CASE ~shutdown
    <3>1. signaled[Cur(c)] > 0
      BY <1>10, <2>3 DEF WaitForCompletion
    <3>2. ASSUME NEW r \in Req \ doubled', Open(r)'
          PROVE  Open(r) /\ UNCHANGED <<spc[Thread(r)], Cur(Thread(r)), signaled[r]>>
      <4>1. Open(r)
        BY <2>1, <3>2 DEF Open
      <4>2. Cur(Thread(r)) = r /\ signaled[r] = 0 /\ Thread(r) \in Conn
        BY <1>1, <2>1, <2>3, <4>1, ReqForm DEF TurnOK
      <4>3. r # Cur(c) /\ Thread(r) # c
        BY <1>1, <3>1, <4>2
      <4>4. signaled'[r] = signaled[r]
        BY <1>1, <1>10, <4>3 DEF WaitForCompletion
      <4> QED
        BY <2>1, <4>1, <4>2, <4>3, <4>4 DEF Cur
    <3> QED
      BY <2>1, <3>2, TurnKept
  <2> QED
    BY <2>2, <2>3
<1>11. ASSUME NEW c \in Conn, SendRequest(c)
       PROVE  TurnOK'
  <2> DEFINE q == <<c, asked[c] + 1>>
  <2>1. asked[c] \in Nat /\ q \in Req /\ Thread(q) = c /\ q[2] = asked[c] + 1
    <3>1. asked[c] \in Nat /\ asked[c] < MaxReq[c] /\ MaxReq[c] \in Nat
      BY <1>1, <1>11, HttpAssumption DEF SendRequest
    <3> QED
      BY <3>1, ReqForm
  <2>2. /\ UNCHANGED <<completed, vreq, vpc, sender, signaled, shutdown, doubled>>
        /\ asked'[c] = asked[c] + 1 /\ spc[c] = "read" /\ spc'[c] = "waiting"
        /\ \A d \in Conn \ {c} : asked'[d] = asked[d] /\ spc'[d] = spc[d]
    BY <1>1, <1>11 DEF SendRequest
  <2>3. Cur(c)' = q
    BY <2>2 DEF Cur
  <2> HIDE DEF q
  <2>4. /\ \A r \in Req \ doubled' :
             /\ Unfinished(sender'[r]) <= 1
             /\ Unfinished(sender'[r]) > 0 => ~completed'[r]
        /\ vpc' \in Replying /\ vreq' \notin doubled' =>
             ~completed'[vreq'] /\ Unfinished(sender'[vreq']) = 0
    BY <1>1, <2>2 DEF TurnOK
  <2>5. ASSUME ~shutdown', NEW r \in Req \ doubled', Open(r)'
        PROVE  (spc[Thread(r)] = "waiting" /\ Cur(Thread(r)) = r /\ signaled[r] = 0)'
    <3>1. CASE r = q
      <4>1. signaled[r] = 0
        BY <1>1, <2>1, <3>1 DEF NotAskedYet
      <4> QED
        BY <2>1, <2>2, <2>3, <3>1, <4>1
    <3>2. CASE r # q
      <4>1. Thread(r) \in Conn /\ r[2] \in Nat /\ r = <<Thread(r), r[2]>>
            /\ q = <<c, q[2]>>
        BY <2>1, ReqForm
      <4>2. ~(Thread(r) = c /\ r[2] = asked[c] + 1)
        BY <2>1, <3>2, <4>1
      <4>3. r[2] <= asked[Thread(r)]
        <5>1. r[2] <= asked'[Thread(r)] /\ asked[Thread(r)] \in Nat
          BY <1>1, <2>5, <4>1 DEF Open
        <5>2. CASE Thread(r) = c
          BY <2>1, <2>2, <4>1, <4>2, <5>1, <5>2
        <5>3. CASE Thread(r) # c
          BY <2>2, <4>1, <5>1, <5>3
        <5> QED
          BY <5>2, <5>3
      <4>4. Open(r)
        BY <2>2, <2>5, <4>3 DEF Open
      <4>5. spc[Thread(r)] = "waiting" /\ Cur(Thread(r)) = r /\ signaled[r] = 0
        BY <1>1, <2>2, <2>5, <4>4 DEF TurnOK
      <4>6. Thread(r) # c
        BY <2>2, <4>5
      <4> QED
        BY <2>2, <4>1, <4>5, <4>6 DEF Cur
    <3> QED
      BY <3>1, <3>2
  <2> QED
    BY <2>4, <2>5 DEF TurnOK
<1>12. CASE GetNetEvent \/ QueueTimeout \/ QueueEvent \/ ShutdownReturns \/ CollectServer
            \/ Terminate \/ Flush \/ GetMessage \/ \E wait \in BOOLEAN : Shutdown(wait)
  <2>1. /\ UNCHANGED <<asked, completed, vreq, sender, spc, signaled, doubled>>
        /\ shutdown => shutdown'
        /\ vpc \notin Replying /\ vpc' \notin Replying
    BY <1>12 DEF GetNetEvent, QueueTimeout, QueueEvent, ShutdownReturns, CollectServer,
      Terminate, Flush, GetMessage, Shutdown, Replying
  <2> QED
    BY <2>1, TurnKept DEF Open, Cur, Replying
<1>13. CASE ReplySent \/ ChunkSent
  <2>1. vreq \in Req /\ vpc \in {"reply", "chunk"}
    BY <1>1, <1>13 DEF ReplySent, ChunkSent, PhasesOK, Replying, TypeOK
  <2>2. /\ UNCHANGED <<asked, completed, sender, spc, shutdown, doubled>>
        /\ \A r \in Req \ {vreq} : signaled'[r] = signaled[r]
        /\ \/ vpc' = "run" /\ UNCHANGED signaled
           \/ vpc' \in {"replied", "chunked"} /\ UNCHANGED vreq
    BY <1>1, <1>13 DEF ReplySent, ChunkSent
  <2>3. \A r \in Req : Open(r)' =>
          Open(r) /\ UNCHANGED <<spc[Thread(r)], Cur(Thread(r)), signaled[r]>>
    BY <2>1, <2>2 DEF Open, Cur
  <2> QED
    BY <2>1, <2>2, <2>3, TurnKept DEF Replying
<1>14. CASE ReplyDone \/ ChunkedDone
  <2>1. vreq \in Req /\ vpc \in {"replied", "chunked"}
    BY <1>1, <1>14 DEF ReplyDone, ChunkedDone, PhasesOK, Replying, TypeOK
  <2>2. /\ UNCHANGED <<asked, sender, spc, shutdown, signaled, doubled>>
        /\ completed' = [completed EXCEPT ![vreq] = TRUE]
        /\ vpc' = "run"
    BY <1>14 DEF ReplyDone, ChunkedDone
  <2>3. completed'[vreq] /\ \A r \in Req \ {vreq} : completed'[r] = completed[r]
    BY <1>1, <2>1, <2>2
  <2>4. \A r \in Req : Open(r)' => Open(r)
    BY <2>1, <2>2, <2>3 DEF Open
  <2>5. vreq \notin doubled => Unfinished(sender[vreq]) = 0
    BY <1>1, <2>1 DEF TurnOK, Replying
  <2> QED
    BY <2>2, <2>3, <2>4, <2>5, TurnKept DEF Cur, Replying
<1>15. ASSUME NEW q \in Req, NoteReply(q), ~(q \in doubled')
       PROVE  Unfinished(sender[q]) = 0
  <2>1. Unfinished(sender[q]) \in Nat
    BY <1>1, ThreadsCounted
  <2> QED
    BY <1>15, <2>1 DEF NoteReply
<1>16. ASSUME NEW q \in Req, SendReply(q) \/ SendChunk(q)
       PROVE  TurnOK'
  <2>1. /\ UNCHANGED <<asked, completed, sender, spc, shutdown, signaled>>
        /\ ~completed[q] /\ vpc = "run" /\ NoteReply(q) /\ doubled \subseteq doubled'
        /\ vreq' = q /\ vpc' \in {"reply", "chunk"}
    BY <1>16 DEF SendReply, SendChunk, MayReply, NoteReply
  <2>2. \A r \in Req : Open(r)' => Open(r)
    BY <2>1 DEF Open
  <2>3. q \notin doubled' => Unfinished(sender[q]) = 0
    BY <1>15, <2>1
  <2> QED
    BY <2>1, <2>2, <2>3, TurnKept DEF Cur
<1>17. ASSUME NEW q \in Req, SendReplyAsync(q)
       PROVE  TurnOK'
  <2>1. /\ UNCHANGED <<asked, completed, spc, shutdown, signaled, vpc, vreq>>
        /\ ~completed[q] /\ vpc = "run" /\ doubled \subseteq doubled'
    BY <1>17 DEF SendReplyAsync, MayReply, NoteReply
  <2>2. CASE UNCHANGED <<sender, doubled>>
    BY <1>2, <2>1, <2>2
  <2>3. CASE sender' = [sender EXCEPT ![q]["sending"] = @ + 1] /\ NoteReply(q)
    <3>1. /\ \A r \in Req \ {q} : sender'[r] = sender[r]
          /\ Unfinished(sender'[q]) = Unfinished(sender[q]) + 1
          /\ sender'[q]["sent"] = sender[q]["sent"]
      BY <1>1, <2>3, SenderLaunched
    <3>2. q \notin doubled' => Unfinished(sender'[q]) = 1
      BY <1>15, <2>3, <3>1
    <3>3. \A r \in Req : Open(r)' => Open(r)
      BY <2>1, <3>1 DEF Open
    <3> QED
      BY <2>1, <3>1, <3>2, <3>3, TurnKept DEF Cur, Replying
  <2> QED
    BY <1>17, <2>2, <2>3 DEF SendReplyAsync
<1>18. ASSUME NEW q \in Req, SenderStep(q)
       PROVE  TurnOK'
  <2>1. /\ UNCHANGED <<asked, spc, shutdown, vpc, vreq, doubled>>
        /\ \A r \in Req \ {q} : signaled'[r] = signaled[r] /\ completed'[r] = completed[r]
    BY <1>1, <1>18 DEF SenderStep, SenderSends, SenderCompletes, SenderPosts
  <2>2. \A r \in Req \ {q} : sender'[r] = sender[r]
    BY <1>1, <1>18, SenderSteps DEF SenderStep
  <2>3. \A r \in Req \ {q} : Open(r)' =>
          Open(r) /\ UNCHANGED <<spc[Thread(r)], Cur(Thread(r)), signaled[r]>>
    BY <2>1, <2>2 DEF Open, Cur
  <2>4. CASE SenderSends(q)
    <3>1. /\ UNCHANGED completed /\ Unfinished(sender'[q]) = Unfinished(sender[q])
          /\ sender'[q]["sent"] > 0
      BY <1>1, <2>4, SenderSteps DEF SenderSends
    <3>2. ~Open(q)'
      BY <3>1 DEF Open
    <3>3. vpc' \in Replying => vreq' \in Req
      BY <1>1, <2>1 DEF PhasesOK, TypeOK
    <3> QED
      BY <2>1, <2>2, <2>3, <3>1, <3>2, <3>3, TurnKept
  <2>5. CASE SenderCompletes(q)
    <3>1. /\ completed' = [completed EXCEPT ![q] = TRUE] /\ Unfinished(sender[q]) > 0
          /\ Unfinished(sender'[q]) = Unfinished(sender[q]) - 1
      BY <1>1, <2>5, SenderSteps DEF SenderCompletes
    <3>2. completed'[q] /\ ~Open(q)'
      BY <1>1, <3>1 DEF Open
    <3>3. q \notin doubled => Unfinished(sender'[q]) = 0
      <4>1. Unfinished(sender[q]) \in Nat
        BY <1>1, ThreadsCounted
      <4> QED
        BY <1>1, <3>1, <4>1 DEF TurnOK
    <3>4. vpc' \in Replying /\ vreq' \notin doubled' => vreq' \in Req \ {q}
      BY <1>1, <2>1, <3>1 DEF TurnOK, PhasesOK, TypeOK
    <3> QED
      BY <2>1, <2>2, <2>3, <3>2, <3>3, <3>4, TurnKept
  <2>6. CASE SenderPosts(q)
    <3>1. /\ Unfinished(sender'[q]) = Unfinished(sender[q])
          /\ sender'[q]["sent"] = sender[q]["sent"] /\ UNCHANGED <<completed, signaled>>
      BY <1>1, <2>6, SenderSteps DEF SenderPosts
    <3>2. \A r \in Req : Open(r)' => Open(r)
      BY <2>1, <2>2, <3>1 DEF Open
    <3>3. vpc' \in Replying => vreq' \in Req
      BY <1>1, <2>1 DEF PhasesOK, TypeOK
    <3> QED
      BY <2>1, <2>2, <3>1, <3>2, <3>3, TurnKept DEF Cur
  <2> QED
    BY <1>18, <2>4, <2>5, <2>6 DEF SenderStep
<1>19. ASSUME NEW q \in Req, CollectRequest(q)
       PROVE  TurnOK'
  BY <1>2, <1>19 DEF CollectRequest
<1> QED
  BY <1>3, <1>4, <1>6, <1>7, <1>8, <1>9, <1>10, <1>11, <1>12, <1>13, <1>14, <1>16,
    <1>17, <1>18, <1>19 DEF Next, ListenerStep, VmStep, Program, ServerStep

-----------------------------------------------------------------------------
(* The theorems                                                            *)

(* The server starts without connections, requests or messages.            *)
LEMMA InitOK == Init => IInv
<1> SUFFICES ASSUME Init PROVE IInv
  OBVIOUS
<1>1. \A c \in Conn : MaxReq[c] \in Nat
  BY HttpAssumption
<1>2. /\ <<>> \in Seq(Conn) /\ <<>> \in Seq(Message)
      /\ DOMAIN <<>> = {} /\ Len(<<>>) = 0
  OBVIOUS
<1>3. queue = <<>> /\ servers = <<>>
  BY DEF Init
<1>4. TypeOK
  <2>1. IsInjective(servers)
    BY <1>2, <1>3 DEF IsInjective
  <2>2. servers \in Seq(Conn) /\ queue \in Seq(Message)
    BY <1>2, <1>3
  <2>3. /\ asked = [c \in Conn |-> 0] /\ \A c \in Conn : asked[c] <= MaxReq[c]
    BY <1>1 DEF Init
  <2>4. /\ spc \in [Conn -> ServerPhase] /\ asked \in [Conn -> Nat]
        /\ trefs \in [Conn -> Nat] /\ refs \in [Req -> Nat]
        /\ signaled \in [Req -> Nat] /\ completed \in [Req -> BOOLEAN]
        /\ sender \in [Req -> [SenderPhase -> Nat]]
    BY DEF Init, ServerPhase, SenderPhase
  <2>5. /\ shutdown \in BOOLEAN /\ pending \in SUBSET Conn
        /\ lpc \in ListenerPhase /\ joined \in Conn \cup {NoConn} /\ arrivals \in Nat
        /\ vpc \in VmPhase /\ vreq \in Req \cup {NoReq} /\ objects \in SUBSET Req
        /\ server \in BOOLEAN /\ doubled \in SUBSET Req
    BY DEF Init, ListenerPhase, VmPhase
  <2> QED
    BY <2>1, <2>2, <2>3, <2>4, <2>5 DEF TypeOK
<1>5. \A c \in Conn : ~Contains(servers, c)
  BY <1>2, <1>3 DEF Contains
<1>6. \A r \in Req : Occurrences(queue, r) = 0
  <2>1. \A r \in Req : {i \in DOMAIN queue : queue[i].req = r} = {}
    BY <1>2, <1>3
  <2> QED
    BY <2>1, FS_EmptySet DEF Occurrences
<1>7. \A c \in Conn : Cardinality(Live(refs, c)) = 0
  <2>1. \A c \in Conn : Live(refs, c) = {}
    BY DEF Init, Live
  <2> QED
    BY <2>1, FS_EmptySet
<1>8. RefsExact
  <2>1. ASSUME NEW r \in Req
        PROVE  refs[r] = HoldersOf(r)
    <3>1. Thread(r) \in Conn
      BY ReqForm
    <3>2. /\ refs[r] = 0 /\ spc[Thread(r)] = "none" /\ r \notin objects
          /\ vpc = "run" /\ Background(r) = 0
      BY <3>1 DEF Init, Background, Threads, SenderPhase
    <3>3. Cardinality({i \in DOMAIN queue : queue[i].req = r}) = 0
      BY <1>6 DEF Occurrences
    <3> QED
      BY <3>2, <3>3 DEF HoldersOf, One
  <2>2. ASSUME NEW c \in Conn
        PROVE  trefs[c] = ThreadHolders(c)
    <3>1. trefs[c] = 0 /\ spc[c] = "none" /\ joined # c
      BY ReqForm DEF Init
    <3>2. Cardinality({r \in Req : Thread(r) = c /\ refs[r] > 0}) = 0
      BY <1>7 DEF Live
    <3> QED
      BY <1>5, <3>1, <3>2 DEF ThreadHolders, One
  <2> QED
    BY <2>1, <2>2 DEF RefsExact
<1>9. EventCountsMessages
  BY <1>2, <1>3 DEF Init, EventCountsMessages, One
<1>10. NotAskedYet
  BY DEF Init, NotAskedYet
<1>11. PhasesOK
  BY <1>5 DEF Init, PhasesOK, Running, Replying
<1>12. QueueOK
  BY <1>2, <1>3 DEF QueueOK
<1>13. TurnOK
  <2>1. \A r \in Req : ~Open(r)
    BY ReqForm DEF Init, Open
  <2> QED
    BY <2>1 DEF Init, TurnOK, Replying, Unfinished, SenderPhase
<1> QED
  BY <1>4, <1>8, <1>9, <1>10, <1>11, <1>12, <1>13 DEF IInv

(* Every step of a thread, of a client or of the program keeps the parts of *)
(* the invariant together.                                                 *)
LEMMA InductiveStep == IInv /\ [Next]_vars => IInv'
<1> SUFFICES ASSUME IInv, [Next]_vars PROVE IInv'
  OBVIOUS
<1>1. TypeOK /\ EventCountsMessages
  BY DEF IInv
<1>2. RefsExact' /\ CountTypes'
  BY CountStep
<1>3. EventCountsMessages' /\ queue' \in Seq(Message) /\ arrivals' \in Nat
  BY <1>1, EventStep
<1>4. TypeOK' /\ PhasesOK'
  BY <1>1, <1>2, <1>3, SenderTyped, TypeStep
<1>5. NotAskedYet' /\ QueueOK' /\ TurnOK'
  BY NotAskedStep, QueueStep, TurnStep
<1> QED
  BY <1>2, <1>3, <1>4, <1>5 DEF IInv

(* Whatever is written is a reply to a request that is open, by one writer. *)
LEMMA TurnsHeld == IInv => ReplyInTurn
<1> SUFFICES ASSUME IInv, ~shutdown PROVE ReplyInTurn
  BY DEF ReplyInTurn
<1>1. /\ TypeOK /\ PhasesOK /\ TurnOK
      /\ \A r \in Req : sender[r] \in [SenderPhase -> Nat]
  BY DEF IInv, TypeOK
<1>2. ASSUME NEW r \in Req \ doubled, Writers(r) > 0
      PROVE  /\ spc[Thread(r)] = "waiting" /\ Cur(Thread(r)) = r /\ signaled[r] = 0
             /\ Writers(r) = 1
  <2>1. /\ sender[r]["sending"] \in Nat /\ sender[r]["sent"] \in Nat
        /\ Threads(sender[r]) \in Nat
        /\ Unfinished(sender[r]) = sender[r]["sending"] + sender[r]["sent"]
        /\ sender[r]["sending"] > 0 => Threads(sender[r]) > 0
    BY <1>1, ThreadsCounted DEF Threads
  <2>2. /\ Unfinished(sender[r]) <= 1
        /\ Unfinished(sender[r]) > 0 => ~completed[r]
        /\ vreq = r /\ vpc \in Replying => ~completed[r] /\ Unfinished(sender[r]) = 0
    BY <1>1 DEF TurnOK
  <2>3. CASE vreq = r /\ vpc \in {"reply", "chunk"}
    <3>1. r \in objects /\ vpc \in Replying
      BY <1>1, <2>3 DEF PhasesOK, Replying
    <3>2. r[2] <= asked[Thread(r)]
      BY <3>1, HeldRequests
    <3>3. Open(r)
      BY <2>1, <2>2, <2>3, <3>1, <3>2 DEF Open
    <3>4. Writers(r) = 1
      BY <2>1, <2>2, <2>3, <3>1 DEF Writers, One
    <3> QED
      BY <1>1, <3>3, <3>4 DEF TurnOK
  <2>4. CASE ~(vreq = r /\ vpc \in {"reply", "chunk"})
    <3>1. sender[r]["sending"] > 0 /\ Writers(r) = sender[r]["sending"]
      BY <1>2, <2>1, <2>4 DEF Writers, One
    <3>2. r[2] <= asked[Thread(r)]
      BY <2>1, <3>1, HeldRequests
    <3>3. Writers(r) = 1 /\ sender[r]["sent"] = 0 /\ Unfinished(sender[r]) > 0
      BY <2>1, <2>2, <3>1
    <3>4. Open(r)
      BY <2>2, <3>2, <3>3 DEF Open, Replying
    <3> QED
      BY <1>1, <3>3, <3>4 DEF TurnOK
  <2> QED
    BY <2>3, <2>4
<1>3. ASSUME NEW r \in Req \ doubled, Writers(r) > 0,
             NEW q \in Req \ (doubled \cup {r}), Writers(q) > 0
      PROVE  Thread(q) # Thread(r)
  BY <1>2, <1>3
<1> QED
  BY <1>2, <1>3 DEF ReplyInTurn

(* The parts of the invariant hold in every state the server reaches.      *)
THEOREM Inductive == Spec => []IInv
BY InitOK, InductiveStep, PTL DEF Spec

(* Every variable keeps its type; no server thread is in the listener's list *)
(* twice, and none reads more requests than its client sends.              *)
THEOREM TypesKept == Spec => []TypeOK
<1>1. IInv => TypeOK
  BY DEF IInv
<1> QED
  BY <1>1, Inductive, PTL

(* The reference counts of requests and server threads are exact for any   *)
(* number of connections, requests and ways to reply: add_ref and          *)
(* release_ref of vmnet.h are balanced on every path.                      *)
THEOREM RefCountsExact == Spec => []RefsExact
<1>1. IInv => RefsExact
  BY DEF IInv
<1> QED
  BY <1>1, Inductive, PTL

(* The event of the message queue counts the messages in it.               *)
THEOREM EventMatchesQueue == Spec => []EventCountsMessages
<1>1. IInv => EventCountsMessages
  BY DEF IInv
<1> QED
  BY <1>1, Inductive, PTL

(* Replies are written one at a time and in the turn of their request      *)
(* although the threads share the socket without a lock - but for requests *)
(* the program replies to while a reply to them is being sent in the       *)
(* background, which the code does not prevent.                            *)
THEOREM RepliesInTurn == Spec => []ReplyInTurn
BY Inductive, TurnsHeld, PTL
=============================================================================
