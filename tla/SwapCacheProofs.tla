-------------------------- MODULE SwapCacheProofs --------------------------
(***************************************************************************)
(* Theorems about SwapCache.                                               *)
(***************************************************************************)
EXTENDS SwapCache, FiniteSetTheorems, SequenceTheorems, WellFoundedInduction, TLAPS

(* The program frees only objects that are in memory, which nothing in the  *)
(* cache sees to: what a free of a swapped-out object does, the run        *)
(* swap_free shows.                                                        *)
FreesPresent == FreeAbsent = FALSE

------------------------------------------------------------------------------
(* Walks along a sequence.                                                 *)

LessThan == {p \in Nat \X Nat : p[1] < p[2]}
(* Every nonempty set of numbers has a least one.                          *)
LEMMA HasLeast ==
  ASSUME NEW S, S \subseteq Nat, S # {}
  PROVE  \E x \in S : \A y \in S : x <= y
<1>1. IsWellFoundedOn(LessThan, Nat)
  <2>1. LessThan = OpToRel(<, Nat)
    BY DEF LessThan, OpToRel
  <2> QED
    BY <2>1, NatLessThanWellFounded
<1>2. PICK x \in S : \A y \in S : ~(<<y, x>> \in LessThan)
  BY <1>1, WFMin
<1>3. ASSUME NEW y \in S, y < x PROVE FALSE
  <2>1. <<y, x>> \in LessThan
    BY <1>3 DEF LessThan
  <2> QED
    BY <1>2, <2>1
<1> QED
  BY <1>3

(* What holds of 0, and of every number when it holds of the one before,   *)
(* holds of all numbers up to n.                                           *)
LEMMA Upward ==
  ASSUME NEW n \in Nat, NEW S, 0 \in S, \A k \in 1 .. n : k - 1 \in S => k \in S
  PROVE  0 .. n \subseteq S
<1> DEFINE Bad == {k \in 0 .. n : k \notin S}
<1>1. ASSUME Bad # {} PROVE FALSE
  <2>1. Bad \subseteq Nat
    OBVIOUS
  <2>2. PICK k \in Bad : \A j \in Bad : k <= j
    <3> HIDE DEF Bad
    <3> QED
      BY <1>1, <2>1, HasLeast
  <2>3. k \in 1 .. n /\ k - 1 \in 0 .. n
    BY <2>2
  <2>4. k - 1 \in S
    BY <2>2, <2>3
  <2> QED
    BY <2>2, <2>3, <2>4
<1> QED
  BY <1>1

\* The walk f goes from base by the steps of g, m times.
Walks(A, base, g, f, m) ==
  /\ f \in [0 .. m -> A] /\ f[0] = base
  /\ \A i \in 1 .. m : f[i] = g[<<f[i - 1], i>>]
(* A walk that goes on from every state it can be in exists.               *)
LEMMA WalkExists ==
  ASSUME NEW A, NEW n \in Nat, NEW base \in A, NEW g \in [A \X (1 .. n) -> A]
  PROVE  \E f : Walks(A, base, g, f, n)
<1> DEFINE S == {m \in 0 .. n : \E f : Walks(A, base, g, f, m)}
<1>1. 0 \in S
  <2>1. PICK f : f = [i \in 0 .. 0 |-> base]
    OBVIOUS
  <2>2. f \in [0 .. 0 -> A] /\ f[0] = base
    BY <2>1
  <2>3. Walks(A, base, g, f, 0)
    BY <2>2 DEF Walks
  <2> QED
    BY <2>3
<1>2. ASSUME NEW k \in 1 .. n, k - 1 \in S
      PROVE  k \in S
  <2>1. PICK f : Walks(A, base, g, f, k - 1)
    BY <1>2
  <2>2. PICK e : e = [i \in 0 .. k |-> IF i = k THEN g[<<f[k - 1], k>>] ELSE f[i]]
    OBVIOUS
  <2>3. k - 1 \in 0 .. k - 1 /\ f[k - 1] \in A
    BY <2>1 DEF Walks
  <2>4. g[<<f[k - 1], k>>] \in A
    BY <2>3
  <2>5. e \in [0 .. k -> A] /\ e[0] = base
    BY <2>1, <2>2, <2>4 DEF Walks
  <2>6. ASSUME NEW i \in 1 .. k
        PROVE  e[i] = g[<<e[i - 1], i>>]
    <3>1. e[i - 1] = f[i - 1] /\ i - 1 \in 0 .. k - 1
      BY <2>2
    <3>2. CASE i = k
      <4>1. e[k] = g[<<f[k - 1], k>>] /\ e[k - 1] = f[k - 1]
        BY <2>2, <3>1, <3>2
      <4> QED
        BY <3>2, <4>1
    <3>3. CASE i # k
      <4>1. i \in 1 .. k - 1 /\ e[i] = f[i]
        BY <2>2, <3>3
      <4> QED
        BY <2>1, <3>1, <4>1 DEF Walks
    <3> QED
      BY <3>2, <3>3
  <2>7. Walks(A, base, g, e, k)
    BY <2>5, <2>6 DEF Walks
  <2> QED
    BY <2>7
<1>3. 0 .. n \subseteq S
  <2> HIDE DEF S
  <2> QED
    BY <1>1, <1>2, Upward
<1>4. n \in S
  BY <1>3
<1> QED
  BY <1>4

IsUpto(h, f) ==
  f = [k \in 0 .. Len(h) |-> IF k = 0 THEN 0 ELSE f[k - 1] + Room(h[k])]
(* The sums of the blocks' sizes.                                          *)
LEMMA UptoIs ==
  ASSUME NEW h, Len(h) \in Nat, \A k \in 1 .. Len(h) : Room(h[k]) \in Nat
  PROVE  /\ Upto(h) \in [0 .. Len(h) -> Nat] /\ Upto(h)[0] = 0
         /\ \A k \in 1 .. Len(h) : Upto(h)[k] = Upto(h)[k - 1] + Room(h[k])
<1>1. PICK n \in Nat : n = Len(h)
  OBVIOUS
<1> DEFINE g == [p \in Nat \X (1 .. n) |-> p[1] + Room(h[p[2]])]
<1>2. g \in [Nat \X (1 .. n) -> Nat]
  BY <1>1
<1>3. PICK f : Walks(Nat, 0, g, f, n)
  <2> HIDE DEF g
  <2> QED
    BY <1>1, <1>2, WalkExists
<1>4. f \in [0 .. n -> Nat] /\ f[0] = 0 /\ \A i \in 1 .. n : f[i] = f[i - 1] + Room(h[i])
  <2>1. f \in [0 .. n -> Nat] /\ f[0] = 0
    BY <1>3 DEF Walks
  <2>2. ASSUME NEW i \in 1 .. n PROVE f[i] = f[i - 1] + Room(h[i])
    <3>1. f[i - 1] \in Nat
      BY <2>1
    <3>2. f[i] = g[<<f[i - 1], i>>]
      BY <1>3 DEF Walks
    <3> QED
      BY <3>1, <3>2
  <2> QED
    BY <2>1, <2>2
<1>5. IsUpto(h, f)
  BY <1>1, <1>3, <1>4 DEF IsUpto
<1>6. Upto(h) = CHOOSE e : IsUpto(h, e)
  BY DEF Upto, IsUpto
<1>7. IsUpto(h, Upto(h))
  BY <1>5, <1>6
<1> DEFINE S == {k \in 0 .. n : Upto(h)[k] \in Nat}
<1>8. 0 .. n \subseteq S
  <2>1. 0 \in S
    BY <1>1, <1>7 DEF IsUpto
  <2>2. ASSUME NEW k \in 1 .. n, k - 1 \in S PROVE k \in S
    BY <1>1, <1>7, <2>2 DEF IsUpto
  <2> HIDE DEF S
  <2> QED
    BY <1>1, <2>1, <2>2, Upward
<1>9. \A k \in 0 .. n : Upto(h)[k] \in Nat
  BY <1>8
<1>10. DOMAIN Upto(h) = 0 .. n /\ Upto(h) = [k \in 0 .. n |-> Upto(h)[k]]
  BY <1>1, <1>7 DEF IsUpto
<1>11. Upto(h) \in [0 .. n -> Nat]
  BY <1>9, <1>10
<1>12. Upto(h)[0] = 0 /\ \A k \in 1 .. n : Upto(h)[k] = Upto(h)[k - 1] + Room(h[k])
  BY <1>1, <1>7 DEF IsUpto
<1> QED
  BY <1>1, <1>11, <1>12
------------------------------------------------------------------------------
(* The inductive invariant.                                                *)

Blocks == [own : Object \cup {Free, End}, data : Seq(Value)]
Segments == [ptr : Nat, siz : Nat, osz : Nat, obj : Object, use : BOOLEAN]

\* Heaps end with an end mark; block i is the only one of object o; o has none.
Heap(h) == h \in Seq(Blocks) /\ Len(h) > 0 /\ h[Len(h)].own = End
Sits(h, o, i) ==
  /\ i \in 1 .. Len(h) /\ h[i].own = o
  /\ \A j \in 1 .. Len(h) : h[j].own = o => j = i
Absent(h, o) == \A j \in 1 .. Len(h) : h[j].own # o

\* No two free blocks are neighbours.
NoGap(q) ==
  \A m \in 1 .. Len(q) - 1 : ~(q[m].own = Free /\ q[m + 1].own = Free)

TypesOK ==
  /\ Heap(heap)
  /\ mapped \subseteq Object /\ flags \in [Object -> SUBSET Flag]
  /\ siz \in [Object -> Nat] /\ locks \in [Object -> Nat] /\ chunks \in Nat
  /\ kept \in [Object -> Seq(Value)]

\* Exactly the objects in memory have a block, one of their size.
HasBlock(o) ==
  IF Present(o) THEN \E i \in 1 .. Len(heap) : Sits(heap, o, i) /\ Len(heap[i].data) = siz[o]
  ELSE Absent(heap, o)

\* Only an object in memory is locked; once it was there, it is not read from the
\* load file again.
EntryOK(o) ==
  /\ o \notin mapped => flags[o] = {}
  /\ o \in mapped => siz[o] > 0
  /\ locks[o] <= MaxLock[o] /\ (locks[o] > 0 => Present(o))
  /\ Present(o) => "nodisc" \in flags[o] /\ "revrt" \notin flags[o]

Stored(s, o) == ReadFile(s.file, s.seg[s.loc[o]].ptr, s.seg[s.loc[o]].osz)
Begins(k, d) == Len(k) <= Len(d) /\ \A i \in 1 .. Len(k) : k[i] = d[i]
Unwritten(o) == \A i \in 1 .. Len(kept[o]) : kept[o][i] = <<o, 0>>

\* What was last written into an object is where the object is.
KeptOK(o) ==
  /\ o \notin mapped => kept[o] = <<>>
  /\ \A i \in 1 .. Len(kept[o]) : kept[o][i] \in {<<o, v>> : v \in 0 .. 2}
  /\ Len(kept[o]) <= siz[o]
  /\ "revrt" \in flags[o] => Unwritten(o)
  /\ \A i \in 1 .. Len(heap) : Sits(heap, o, i) => Begins(kept[o], heap[i].data)
  /\ SwappedOut(o) /\ "revrt" \notin flags[o] => Begins(kept[o], Stored(Swapper, o))
  /\ ~Present(o) /\ ~InSwapFile(o) => Unwritten(o)

LruOK ==
  /\ lru \in Seq(Object) /\ IsInjective(lru)
  /\ \A o \in Object : Present(o) /\ locks[o] = 0 => o \in Range(lru)
  /\ \A o \in Range(lru) : o \in mapped /\ Present(o)

\* The call under way: while it lasts nobody else touches its object.
Tries == {"first", "again", "third", "swap"}
CallOK ==
  /\ call \in [op : {"idle", "malo", "load", "realo"}, obj : Object \cup {Free},
               need : Nat, stage : Tries \cup {"idle", "resize"}, tot : Nat,
               size : Nat, mine : BOOLEAN]
  /\ \/ call = Idle
     \/ /\ call.op = "malo" /\ call.obj \in Object \ (mapped \cup Static)
        /\ call.need > 0 /\ ~call.mine /\ call.stage \in Tries
     \/ /\ call.op = "load" /\ call.obj \in mapped /\ ~Present(call.obj)
        /\ call.need = siz[call.obj] /\ ~call.mine /\ call.stage \in Tries
     \/ /\ call.op = "realo" /\ call.obj \in mapped /\ Present(call.obj)
        /\ locks[call.obj] > 0 /\ call.need > 0
        /\ \/ call.stage = "resize"
           \/ /\ call.stage \in Tries /\ locks[call.obj] = 1
              /\ call.need >= siz[call.obj]

\* The swapper's state s, when the objects Out are swapped out.
SwapOK(s, Out) ==
  /\ s.seg \in Seq(Segments) /\ s.file \in [1 .. Quota -> Value]
  /\ s.top \in Nat /\ s.max \in Nat /\ s.loc \in [Object -> Int]
  /\ \A o \in Out :
       s.loc[o] \in 1 .. Len(s.seg) /\ s.seg[s.loc[o]].use /\ s.seg[s.loc[o]].obj = o
  /\ \A i \in 1 .. Len(s.seg) :
       s.seg[i].use => s.seg[i].obj \in Out /\ s.loc[s.seg[i].obj] = i
  /\ \A i \in 1 .. Len(s.seg) :
       s.seg[i].osz <= s.seg[i].siz /\ s.seg[i].ptr = SegEnd(s.seg, i - 1)
  /\ s.top = SegEnd(s.seg, Len(s.seg)) /\ s.top + s.max = Quota
Out == {o \in Object : SwappedOut(o)}

\* After a garbage collection no two free blocks are neighbours.
GarbOK == call.stage = "again" => NoGap(heap)

ObjectsOK == \A o \in Object : HasBlock(o) /\ EntryOK(o) /\ KeptOK(o)
SwapperOK == SwapOK(Swapper, Out)

IInv == TypesOK /\ ObjectsOK /\ LruOK /\ CallOK /\ SwapperOK /\ GarbOK

------------------------------------------------------------------------------
(* Sequences.                                                              *)

(* Constants are what they are said to be.                                 *)
LEMMA ConstantsOK ==
  /\ Hdr \in Nat /\ Split \in Nat /\ Chunk \in Nat /\ FirstChunk \in Nat
  /\ Chunks \in Nat /\ Quota \in Nat /\ Hdr <= FirstChunk /\ FirstChunk <= Chunk
  /\ Hdr <= Split /\ Static \subseteq Object
  /\ Free \notin Object /\ End \notin Object /\ Free # End
  /\ \A o \in Object : /\ MaxLock[o] \in Nat /\ MaxLock[o] > 0 /\ Versions[o] \in 1 .. 3
                       /\ \A n \in Size[o] : n \in Nat /\ n > 0
                       /\ \A n \in NewSize[o] : n \in Nat /\ n > 0
<1>1. /\ Size \in [Object -> SUBSET (1 .. (Chunk - Hdr))]
      /\ NewSize \in [Object -> SUBSET (1 .. (Chunk - Hdr))]
      /\ MaxLock \in [Object -> Nat \ {0}] /\ Versions \in [Object -> 1 .. 3]
      /\ Chunk \in Nat /\ Hdr \in Nat
  BY CacheAssumption
<1>2. \A o \in Object : /\ MaxLock[o] \in Nat /\ MaxLock[o] > 0 /\ Versions[o] \in 1 .. 3
                        /\ Size[o] \subseteq 1 .. (Chunk - Hdr)
                        /\ NewSize[o] \subseteq 1 .. (Chunk - Hdr)
  BY <1>1
<1>3. \A n \in 1 .. (Chunk - Hdr) : n \in Nat /\ n > 0
  BY <1>1
<1>4. \A o \in Object : /\ \A n \in Size[o] : n \in Nat /\ n > 0
                        /\ \A n \in NewSize[o] : n \in Nat /\ n > 0
  BY <1>2, <1>3
<1> QED
  BY <1>2, <1>4, CacheAssumption

\* Elements i to j replaced by t.
Spliced(h, i, j, t) == SubSeq(h, 1, i - 1) \o t \o SubSeq(h, j + 1, Len(h))
IsSpliced(S, h, i, j, t, r) ==
  /\ r \in Seq(S) /\ Len(r) = i - 1 + Len(t) + Len(h) - j
  /\ \A k \in 1 .. i - 1 : r[k] = h[k]
  /\ \A k \in 1 .. Len(t) : r[i - 1 + k] = t[k]
  /\ \A k \in j + 1 .. Len(h) : r[k + (i - 1 + Len(t) - j)] = h[k]
(* What is in front stays, what is behind moves.                           *)
LEMMA Splice ==
  ASSUME NEW S, NEW h \in Seq(S), NEW t \in Seq(S),
         NEW i \in 1 .. Len(h) + 1, NEW j \in i - 1 .. Len(h)
  PROVE  IsSpliced(S, h, i, j, t, Spliced(h, i, j, t))
<1> DEFINE a == SubSeq(h, 1, i - 1)
           b == SubSeq(h, j + 1, Len(h))
<1> DEFINE r == Spliced(h, i, j, t)
<1>1. Len(h) \in Nat /\ Len(t) \in Nat /\ \A k \in 1 .. Len(h) : h[k] \in S
  BY LenProperties, ElementOfSeq
<1>2. /\ a \in Seq(S) /\ Len(a) = i - 1
      /\ \A k \in 1 .. i - 1 : a[k] = h[k]
  <2>1. \A k \in 1 .. i - 1 : h[k] \in S
    BY <1>1
  <2> QED
    BY <1>1, <2>1, SubSeqProperties
<1>3. /\ b \in Seq(S) /\ Len(b) = Len(h) - j
      /\ \A k \in 1 .. Len(h) - j : b[k] = h[k + j]
  <2>1. \A k \in j + 1 .. Len(h) : h[k] \in S
    BY <1>1
  <2>2. /\ b \in Seq(S)
        /\ Len(b) = IF j + 1 <= Len(h) THEN Len(h) - (j + 1) + 1 ELSE 0
        /\ \A k \in 1 .. Len(h) - (j + 1) + 1 : b[k] = h[j + 1 + k - 1]
    BY <1>1, <2>1, SubSeqProperties
  <2>3. \A k \in 1 .. Len(h) - j : b[k] = h[k + j]
    <3> TAKE k \in 1 .. Len(h) - j
    <3>1. j + 1 + k - 1 = k + j /\ k \in 1 .. Len(h) - (j + 1) + 1
      BY <1>1
    <3> QED
      BY <2>2, <3>1
  <2> QED
    BY <1>1, <2>2, <2>3
<1>10. r = (a \o t) \o b
  BY DEF Spliced
<1> HIDE DEF a, b, r
<1>4. PICK c : c = a \o t
  OBVIOUS
<1>5. /\ c \in Seq(S) /\ Len(c) = i - 1 + Len(t)
      /\ \A k \in 1 .. i - 1 + Len(t) :
           c[k] = IF k <= i - 1 THEN a[k] ELSE t[k - (i - 1)]
  <2>1. /\ a \o t \in Seq(S) /\ Len(a \o t) = Len(a) + Len(t)
        /\ \A k \in 1 .. Len(a) + Len(t) :
             (a \o t)[k] = IF k <= Len(a) THEN a[k] ELSE t[k - Len(a)]
    BY <1>2, ConcatProperties
  <2> QED
    BY <1>2, <1>4, <2>1
<1>6. /\ r \in Seq(S) /\ Len(r) = i - 1 + Len(t) + (Len(h) - j)
      /\ \A k \in 1 .. i - 1 + Len(t) + (Len(h) - j) :
           r[k] = IF k <= i - 1 + Len(t) THEN c[k] ELSE b[k - (i - 1 + Len(t))]
  <2>1. /\ c \o b \in Seq(S) /\ Len(c \o b) = Len(c) + Len(b)
        /\ \A k \in 1 .. Len(c) + Len(b) :
             (c \o b)[k] = IF k <= Len(c) THEN c[k] ELSE b[k - Len(c)]
    BY <1>3, <1>5, ConcatProperties
  <2>2. r = c \o b
    BY <1>4, <1>10
  <2> QED
    BY <1>3, <1>5, <2>1, <2>2
<1>7. ASSUME NEW k \in 1 .. i - 1
      PROVE  r[k] = h[k]
  <2>1. k \in 1 .. i - 1 + Len(t) /\ k \in 1 .. i - 1 + Len(t) + (Len(h) - j)
        /\ k <= i - 1 + Len(t) /\ k <= i - 1
    BY <1>1
  <2>2. r[k] = c[k] /\ c[k] = a[k]
    BY <1>5, <1>6, <2>1
  <2> QED
    BY <1>2, <2>2
<1>8. ASSUME NEW k \in 1 .. Len(t)
      PROVE  r[i - 1 + k] = t[k]
  <2>1. PICK m : m = i - 1 + k
    OBVIOUS
  <2>2. m \in 1 .. i - 1 + Len(t) /\ m \in 1 .. i - 1 + Len(t) + (Len(h) - j)
        /\ m <= i - 1 + Len(t) /\ ~(m <= i - 1) /\ m - (i - 1) = k
    BY <1>1, <2>1
  <2>3. r[m] = c[m] /\ c[m] = t[m - (i - 1)]
    BY <1>5, <1>6, <2>2
  <2> QED
    BY <2>1, <2>2, <2>3
<1>9. ASSUME NEW k \in j + 1 .. Len(h)
      PROVE  r[k + (i - 1 + Len(t) - j)] = h[k]
  <2>1. PICK m : m = k + (i - 1 + Len(t) - j)
    OBVIOUS
  <2>2. m \in 1 .. i - 1 + Len(t) + (Len(h) - j) /\ ~(m <= i - 1 + Len(t))
        /\ m - (i - 1 + Len(t)) = k - j /\ k - j \in 1 .. Len(h) - j /\ k - j + j = k
    BY <1>1, <2>1
  <2>3. r[m] = b[k - j] /\ b[k - j] = h[k]
    BY <1>3, <1>6, <2>2
  <2> QED
    BY <2>1, <2>3
<1> QED
  BY <1>1, <1>6, <1>7, <1>8, <1>9 DEF r, IsSpliced

(* One element taken out of a list without repetition.                     *)
LEMMA TakenOut ==
  ASSUME NEW S, NEW s \in Seq(S), IsInjective(s), NEW i \in DOMAIN s
  PROVE  /\ RemoveAt(s, i) \in Seq(S) /\ IsInjective(RemoveAt(s, i))
         /\ Range(RemoveAt(s, i)) = Range(s) \ {s[i]}
<1> DEFINE r == RemoveAt(s, i)
<1>1. Len(s) \in Nat /\ DOMAIN s = 1 .. Len(s) /\ \A k \in 1 .. Len(s) : s[k] \in S
  BY LenProperties, ElementOfSeq
<1>2. r = SubSeq(s, 1, i - 1) \o <<>> \o SubSeq(s, i + 1, Len(s))
  <2>1. \A k \in 1 .. i - 1 : s[k] \in S
    BY <1>1
  <2>2. SubSeq(s, 1, i - 1) \in Seq(S)
    BY <1>1, <2>1, SubSeqProperties
  <2> QED
    BY <2>2, ConcatEmptySeq DEF RemoveAt
<1>3. /\ r \in Seq(S) /\ Len(r) = Len(s) - 1
      /\ \A k \in 1 .. i - 1 : r[k] = s[k]
      /\ \A k \in i + 1 .. Len(s) : r[k - 1] = s[k]
  <2>1. <<>> \in Seq(S) /\ Len(<<>>) = 0
    BY EmptySeq
  <2>2. i \in 1 .. Len(s) + 1 /\ i \in i - 1 .. Len(s)
    BY <1>1
  <2> HIDE DEF r
  <2>5. PICK t \in Seq(S) : t = <<>> /\ Len(t) = 0
    BY <2>1
  <2>6. r = Spliced(s, i, i, t)
    BY <1>2, <2>5 DEF Spliced
  <2>7. /\ r \in Seq(S) /\ Len(r) = i - 1 + Len(t) + Len(s) - i
        /\ \A k \in 1 .. i - 1 : r[k] = s[k]
        /\ \A k \in i + 1 .. Len(s) : r[k + (i - 1 + Len(t) - i)] = s[k]
    <3>1. t \in Seq(S) /\ s \in Seq(S)
      BY <2>5
    <3>2. IsSpliced(S, s, i, i, t, r)
      BY <2>2, <2>6, <3>1, Splice
    <3> QED
      BY <3>2 DEF IsSpliced
  <2>3. /\ r \in Seq(S) /\ Len(r) = i - 1 + 0 + Len(s) - i
        /\ \A k \in 1 .. i - 1 : r[k] = s[k]
        /\ \A k \in i + 1 .. Len(s) : r[k + (i - 1 + 0 - i)] = s[k]
    BY <2>5, <2>7
  <2>4. ASSUME NEW k \in i + 1 .. Len(s) PROVE r[k - 1] = s[k]
    <3>1. k + (i - 1 + 0 - i) = k - 1
      BY <1>1
    <3> QED
      BY <2>3, <3>1
  <2> QED
    BY <1>1, <2>3, <2>4
<1> HIDE DEF r
<1>4. DOMAIN r = 1 .. Len(s) - 1
  BY <1>3, LenProperties
<1>5. \A k \in 1 .. Len(s) - 1 : \/ k \in 1 .. i - 1 /\ r[k] = s[k]
                                 \/ k + 1 \in i + 1 .. Len(s) /\ r[k] = s[k + 1]
  <2> TAKE k \in 1 .. Len(s) - 1
  <2>1. CASE k < i
    BY <1>1, <1>3, <2>1
  <2>2. CASE k >= i
    <3>1. k + 1 \in i + 1 .. Len(s) /\ k + 1 - 1 = k
      BY <1>1, <2>2
    <3> QED
      BY <1>3, <3>1
  <2> QED
    BY <1>1, <2>1, <2>2
<1>6. \A k, m \in 1 .. Len(s) : s[k] = s[m] => k = m
  BY <1>1 DEF IsInjective
<1>7. IsInjective(r)
  <2>1. ASSUME NEW k \in 1 .. Len(s) - 1, NEW m \in 1 .. Len(s) - 1, r[k] = r[m]
        PROVE  k = m
    <3>1. k \in 1 .. Len(s) /\ k + 1 \in 1 .. Len(s) /\ m \in 1 .. Len(s) /\ m + 1 \in 1 .. Len(s)
      BY <1>1
    <3>2. \/ k \in 1 .. i - 1 /\ r[k] = s[k]
          \/ k + 1 \in i + 1 .. Len(s) /\ r[k] = s[k + 1]
      BY <1>5
    <3>3. \/ m \in 1 .. i - 1 /\ r[m] = s[m]
          \/ m + 1 \in i + 1 .. Len(s) /\ r[m] = s[m + 1]
      BY <1>5
    <3>4. \/ k = m \/ k + 1 = m + 1
          \/ k \in 1 .. i - 1 /\ m + 1 \in i + 1 .. Len(s) /\ k = m + 1
          \/ m \in 1 .. i - 1 /\ k + 1 \in i + 1 .. Len(s) /\ m = k + 1
      BY <1>6, <2>1, <3>1, <3>2, <3>3
    <3> QED
      BY <1>1, <3>4
  <2> QED
    BY <1>4, <2>1 DEF IsInjective
<1>8. Range(r) = Range(s) \ {s[i]}
  <2>1. ASSUME NEW k \in 1 .. Len(s) - 1
        PROVE  r[k] \in Range(s) \ {s[i]}
    <3>1. k \in 1 .. Len(s) /\ k + 1 \in 1 .. Len(s)
      BY <1>1
    <3>2. \/ k # i /\ r[k] = s[k]
          \/ k + 1 # i /\ r[k] = s[k + 1]
      BY <1>1, <1>5
    <3> QED
      BY <1>1, <1>6, <3>1, <3>2 DEF Range
  <2>2. ASSUME NEW k \in 1 .. Len(s), s[k] # s[i]
        PROVE  s[k] \in Range(r)
    <3>1. CASE k < i
      <4>1. k \in 1 .. i - 1 /\ k \in 1 .. Len(s) - 1
        BY <1>1, <3>1
      <4> QED
        BY <1>3, <1>4, <4>1 DEF Range
    <3>2. CASE k > i
      <4>1. k \in i + 1 .. Len(s) /\ k - 1 \in 1 .. Len(s) - 1
        BY <1>1, <3>2
      <4> QED
        BY <1>3, <1>4, <4>1 DEF Range
    <3> QED
      BY <1>1, <2>2, <3>1, <3>2
  <2>3. Range(r) = {r[k] : k \in 1 .. Len(s) - 1} /\ Range(s) = {s[k] : k \in 1 .. Len(s)}
    BY <1>1, <1>4 DEF Range
  <2>4. \A x : x \in Range(r) => x \in Range(s) \ {s[i]}
    BY <2>1, <2>3
  <2>5. \A x : x \in Range(s) \ {s[i]} => x \in Range(r)
    BY <2>2, <2>3
  <2> QED
    BY <2>4, <2>5
<1> QED
  BY <1>3, <1>7, <1>8 DEF r

(* Unlinking and using leave a list without repetition.                    *)
LEMMA UnlinkIs ==
  ASSUME NEW S, NEW l \in Seq(S), IsInjective(l), NEW o \in S
  PROVE  /\ Unlink(l, o) \in Seq(S) /\ IsInjective(Unlink(l, o))
         /\ Range(Unlink(l, o)) = Range(l) \ {o}
<1>1. CASE o \in Range(l)
  <2>1. PICK i : i = CHOOSE k \in DOMAIN l : l[k] = o
    OBVIOUS
  <2>2. i \in DOMAIN l /\ l[i] = o
    BY <1>1, <2>1 DEF Range
  <2>3. Unlink(l, o) = RemoveAt(l, i)
    BY <1>1, <2>1 DEF Unlink
  <2> QED
    BY <2>2, <2>3, TakenOut
<1>2. CASE o \notin Range(l)
  <2>1. Unlink(l, o) = l /\ Range(l) = Range(l) \ {o}
    BY <1>2 DEF Unlink
  <2> QED
    BY <2>1
<1> QED
  BY <1>1, <1>2

(* The used object is then on it.                                          *)
LEMMA UseIs ==
  ASSUME NEW S, NEW l \in Seq(S), IsInjective(l), NEW o \in S
  PROVE  /\ Use(l, o) \in Seq(S) /\ IsInjective(Use(l, o))
         /\ Range(Use(l, o)) = Range(l) \cup {o}
<1> DEFINE u == Unlink(l, o)
           r == Use(l, o)
<1>1. u \in Seq(S) /\ IsInjective(u) /\ Range(u) = Range(l) \ {o}
  BY UnlinkIs
<1>2. r = Append(u, o)
  BY DEF Use
<1> HIDE DEF u, r
<1>3. Len(u) \in Nat /\ DOMAIN u = 1 .. Len(u)
  BY <1>1, LenProperties
<1>4. /\ r \in Seq(S) /\ Len(r) = Len(u) + 1 /\ r[Len(u) + 1] = o
      /\ \A k \in 1 .. Len(u) : r[k] = u[k]
  BY <1>1, <1>2, AppendProperties
<1>5. DOMAIN r = 1 .. Len(u) + 1
  BY <1>4, LenProperties
<1>6. \A k \in 1 .. Len(u) : u[k] # o
  BY <1>1, <1>3 DEF Range
<1>7. IsInjective(r)
  <2>1. ASSUME NEW k \in 1 .. Len(u) + 1, NEW m \in 1 .. Len(u) + 1, r[k] = r[m]
        PROVE  k = m
    <3>1. k \in 1 .. Len(u) \/ k = Len(u) + 1
      BY <1>3
    <3>2. m \in 1 .. Len(u) \/ m = Len(u) + 1
      BY <1>3
    <3> QED
      BY <1>1, <1>3, <1>4, <1>6, <2>1, <3>1, <3>2 DEF IsInjective
  <2> QED
    BY <1>5, <2>1 DEF IsInjective
<1>8. Range(r) = Range(u) \cup {o}
  <2>1. \A k \in 1 .. Len(u) + 1 : k \in 1 .. Len(u) \/ k = Len(u) + 1
    BY <1>3
  <2>2. \A k \in 1 .. Len(u) : k \in 1 .. Len(u) + 1
    BY <1>3
  <2>3. Len(u) + 1 \in 1 .. Len(u) + 1
    BY <1>3
  <2>4. \A x : x \in Range(r) => x \in Range(u) \cup {o}
    BY <1>3, <1>4, <1>5, <2>1 DEF Range
  <2>5. \A x : x \in Range(u) \cup {o} => x \in Range(r)
    BY <1>3, <1>4, <1>5, <2>2, <2>3 DEF Range
  <2> QED
    BY <2>4, <2>5
<1>9. Range(r) = Range(l) \cup {o}
  BY <1>1, <1>8
<1> QED
  BY <1>4, <1>7, <1>9 DEF r

(* A function on 1 .. n is a sequence.                                     *)
LEMMA FcnIsSeq ==
  ASSUME NEW S, NEW n \in Nat, NEW f \in [1 .. n -> S]
  PROVE  f \in Seq(S) /\ Len(f) = n
<1>1. f \in Seq(S)
  BY SeqDef
<1>2. DOMAIN f = 1 .. n /\ DOMAIN f = 1 .. Len(f) /\ Len(f) \in Nat
  BY <1>1, LenProperties
<1>3. Len(f) = n
  BY <1>2
<1> QED
  BY <1>1, <1>3

------------------------------------------------------------------------------
(* Blocks.                                                                 *)

(* What is in a block.                                                     *)
LEMMA CellsIs ==
  ASSUME NEW d \in Seq(Value), NEW n \in Nat
  PROVE  /\ Cells(d, n) \in Seq(Value) /\ Len(Cells(d, n)) = n
         /\ \A k \in 1 .. n : Cells(d, n)[k] = IF k <= Len(d) THEN d[k] ELSE Junk
<1>1. \A k \in 1 .. Len(d) : d[k] \in Value
  BY ElementOfSeq
<1>2. Junk \in Value /\ Len(d) \in Nat
  BY LenProperties DEF Value
<1>3. Cells(d, n) \in [1 .. n -> Value]
  BY <1>1, <1>2 DEF Cells
<1> QED
  BY <1>3, FcnIsSeq DEF Cells

(* What is in a list filled with one value.                                *)
LEMMA FillIs ==
  ASSUME NEW v \in Value, NEW n \in Nat
  PROVE  /\ Fill(v, n) \in Seq(Value) /\ Len(Fill(v, n)) = n
         /\ \A k \in 1 .. n : Fill(v, n)[k] = v
<1>1. Fill(v, n) \in [1 .. n -> Value]
  BY DEF Fill
<1> QED
  BY <1>1, FcnIsSeq DEF Fill

(* A block is what it is made of.                                          *)
LEMMA BlockIs ==
  ASSUME NEW own \in Object \cup {Free, End}, NEW d \in Seq(Value)
  PROVE  /\ Block(own, d) \in Blocks /\ Block(own, d).own = own /\ Block(own, d).data = d
         /\ Room(Block(own, d)) = Len(d) + Hdr
BY DEF Block, Blocks, Room

(* A free block.                                                           *)
LEMMA FreeBlockIs ==
  ASSUME NEW n \in Nat
  PROVE  /\ FreeBlock(n) \in Blocks /\ FreeBlock(n).own = Free
         /\ FreeBlock(n).data \in Seq(Value) /\ Len(FreeBlock(n).data) = n
         /\ Room(FreeBlock(n)) = n + Hdr
<1>1. Junk \in Value
  BY DEF Value
<1>2. Fill(Junk, n) \in Seq(Value) /\ Len(Fill(Junk, n)) = n
  BY <1>1, FillIs
<1> QED
  BY <1>2, BlockIs DEF FreeBlock

(* The blocks of a heap.                                                   *)
LEMMA HeapBlocks ==
  ASSUME NEW h \in Seq(Blocks)
  PROVE  /\ Len(h) \in Nat /\ DOMAIN h = 1 .. Len(h)
         /\ \A i \in 1 .. Len(h) :
              /\ h[i] \in Blocks /\ h[i].own \in Object \cup {Free, End}
              /\ h[i].data \in Seq(Value) /\ Len(h[i].data) \in Nat /\ Room(h[i]) \in Nat
<1>1. Len(h) \in Nat /\ DOMAIN h = 1 .. Len(h) /\ \A i \in 1 .. Len(h) : h[i] \in Blocks
  BY LenProperties, ElementOfSeq
<1>2. ASSUME NEW b \in Blocks
      PROVE  /\ b.own \in Object \cup {Free, End}
             /\ b.data \in Seq(Value) /\ Len(b.data) \in Nat /\ Room(b) \in Nat
  <2>1. b.own \in Object \cup {Free, End} /\ b.data \in Seq(Value)
    BY DEF Blocks
  <2>2. Len(b.data) \in Nat
    BY <2>1, LenProperties
  <2> QED
    BY <2>1, <2>2, ConstantsOK DEF Room
<1> QED
  BY <1>1, <1>2

(* Where the block of an object is.                                        *)
LEMMA AtIs ==
  ASSUME NEW h \in Seq(Blocks), NEW o, NEW i, Sits(h, o, i)
  PROVE  At(h, o) = i
<1>1. DOMAIN h = 1 .. Len(h)
  BY HeapBlocks
<1>2. i \in DOMAIN h /\ h[i].own = o /\ \A j \in DOMAIN h : h[j].own = o => j = i
  BY <1>1 DEF Sits
<1> QED
  BY <1>2 DEF At

\* Blocks i to j of h have become blocks i to j + c.
Changed(h, g, i, j, c) ==
  /\ i \in 1 .. Len(h) + 1 /\ j \in i - 1 .. Len(h) /\ c \in Int /\ i - 1 <= j + c
  /\ Len(g) = Len(h) + c
  /\ \A k \in 1 .. i - 1 : g[k] = h[k]
  /\ \A k \in j + 1 .. Len(h) : g[k + c] = h[k]

\* Object o's block is as it was.
SameBlock(h, g, o) ==
  /\ \A k : Sits(h, o, k) => \E m : Sits(g, o, m) /\ g[m] = h[k]
  /\ Absent(h, o) => Absent(g, o)

(* Other blocks stay.                                                      *)
LEMMA OthersStay ==
  ASSUME NEW h \in Seq(Blocks), NEW g \in Seq(Blocks), NEW i, NEW j, NEW c,
         Changed(h, g, i, j, c), NEW o,
         \A k \in i .. j : h[k].own # o, \A k \in i .. j + c : g[k].own # o
  PROVE  /\ SameBlock(h, g, o)
         /\ \A k : Sits(h, o, k) => Sits(g, o, IF k < i THEN k ELSE k + c)
<1>1. /\ Len(h) \in Nat /\ Len(g) \in Nat /\ i \in 1 .. Len(h) + 1 /\ j \in i - 1 .. Len(h)
      /\ c \in Int /\ i - 1 <= j + c /\ Len(g) = Len(h) + c
  BY HeapBlocks DEF Changed
<1>2. ASSUME NEW m \in 1 .. Len(g), g[m].own = o
      PROVE  \E k \in 1 .. Len(h) : h[k].own = o /\ m = IF k < i THEN k ELSE k + c
  <2>1. CASE m < i
    <3>1. m \in 1 .. i - 1 /\ m \in 1 .. Len(h)
      BY <1>1, <2>1
    <3> QED
      BY <1>2, <2>1, <3>1 DEF Changed
  <2>2. CASE m > j + c
    <3>1. PICK k : k = m - c
      OBVIOUS
    <3>2. k \in j + 1 .. Len(h) /\ k \in 1 .. Len(h) /\ m = k + c /\ ~(k < i)
      BY <1>1, <2>2, <3>1
    <3>3. g[k + c] = h[k]
      BY <3>2 DEF Changed
    <3> QED
      BY <1>2, <3>2, <3>3
  <2>3. CASE i <= m /\ m <= j + c
    <3>1. m \in i .. j + c
      BY <1>1, <2>3
    <3> QED
      BY <1>2, <3>1
  <2> QED
    BY <1>1, <2>1, <2>2, <2>3
<1>3. ASSUME NEW k, Sits(h, o, k)
      PROVE  LET m == IF k < i THEN k ELSE k + c IN Sits(g, o, m) /\ g[m] = h[k]
  <2>1. k \in 1 .. Len(h) /\ h[k].own = o /\ \A l \in 1 .. Len(h) : h[l].own = o => l = k
    BY <1>3 DEF Sits
  <2>2. PICK m : m = IF k < i THEN k ELSE k + c
    OBVIOUS
  <2>3. m \in 1 .. Len(g) /\ g[m] = h[k]
    <3>1. CASE k < i
      <4>1. k \in 1 .. i - 1 /\ m = k /\ k \in 1 .. Len(g)
        BY <1>1, <2>1, <2>2, <3>1
      <4> QED
        BY <4>1 DEF Changed
    <3>2. CASE ~(k < i)
      <4>1. k > j
        <5>1. k \in i .. j \/ k > j
          BY <1>1, <2>1, <3>2
        <5> QED
          BY <2>1, <5>1
      <4>2. k \in j + 1 .. Len(h) /\ m = k + c /\ k + c \in 1 .. Len(g)
        BY <1>1, <2>1, <2>2, <3>2, <4>1
      <4> QED
        BY <4>2 DEF Changed
    <3> QED
      BY <3>1, <3>2
  <2>4. \A l \in 1 .. Len(g) : g[l].own = o => l = m
    BY <1>2, <2>1, <2>2
  <2> QED
    BY <2>1, <2>2, <2>3, <2>4 DEF Sits
<1>4. Absent(h, o) => Absent(g, o)
  BY <1>2 DEF Absent
<1> QED
  BY <1>3, <1>4 DEF SameBlock

(* A splice changes blocks.                                                *)
LEMMA SpliceChanges ==
  ASSUME NEW h \in Seq(Blocks), NEW t \in Seq(Blocks),
         NEW i \in 1 .. Len(h) + 1, NEW j \in i - 1 .. Len(h)
  PROVE  /\ IsSpliced(Blocks, h, i, j, t, Spliced(h, i, j, t))
         /\ Changed(h, Spliced(h, i, j, t), i, j, i - 1 + Len(t) - j)
<1>1. IsSpliced(Blocks, h, i, j, t, Spliced(h, i, j, t))
  BY Splice
<1>2. Len(h) \in Nat /\ Len(t) \in Nat
  BY HeapBlocks
<1> QED
  BY <1>1, <1>2 DEF IsSpliced, Changed

(* mcmsplt leaves at least n cells in the block, and a free block behind it. *)
LEMMA SplitIs ==
  ASSUME NEW h, Heap(h), NEW i \in 1 .. Len(h), h[i].own # End,
         NEW n \in Nat, n <= Len(h[i].data), NEW g, g = SplitAt(h, i, n)
  PROVE  /\ Heap(g) /\ i \in 1 .. Len(g) /\ g[i].own = h[i].own
         /\ n <= Len(g[i].data) /\ Len(g[i].data) <= Len(h[i].data)
         /\ \A k \in 1 .. Len(g[i].data) : g[i].data[k] = h[i].data[k]
         /\ \/ g = h /\ Changed(h, g, i, i, 0)
            \/ /\ Changed(h, g, i, i, 1) /\ g[i + 1].own = Free
               /\ Room(g[i]) + Room(g[i + 1]) = Room(h[i])
<1>1. /\ h \in Seq(Blocks) /\ Len(h) \in Nat /\ i # Len(h) /\ h[Len(h)].own = End
      /\ h[i].own \in Object \cup {Free, End}
      /\ h[i].data \in Seq(Value) /\ Len(h[i].data) \in Nat
      /\ Room(h[i]) = Len(h[i].data) + Hdr
  BY HeapBlocks DEF Heap, Room
<1>2. CASE Len(h[i].data) < n + Split
  <2>1. g = h
    BY <1>2 DEF SplitAt
  <2>2. Changed(h, g, i, i, 0)
    BY <1>1, <2>1 DEF Changed
  <2> QED
    BY <1>1, <2>1, <2>2
<1>3. CASE ~(Len(h[i].data) < n + Split)
  <2> DEFINE b == Block(h[i].own, Cells(h[i].data, n))
             f == FreeBlock(Len(h[i].data) - n - Hdr)
             t == <<b, f>>
  <2>1. Len(h[i].data) - n - Hdr \in Nat
    BY <1>1, <1>3, ConstantsOK
  <2>2. /\ b \in Blocks /\ b.own = h[i].own /\ Len(b.data) = n /\ Room(b) = n + Hdr
        /\ \A k \in 1 .. n : b.data[k] = h[i].data[k]
    <3>1. PICK d : d = Cells(h[i].data, n)
      OBVIOUS
    <3>2. /\ d \in Seq(Value) /\ Len(d) = n
          /\ \A k \in 1 .. n : d[k] = IF k <= Len(h[i].data) THEN h[i].data[k] ELSE Junk
      BY <1>1, <3>1, CellsIs
    <3>3. b \in Blocks /\ b.own = h[i].own /\ b.data = d /\ Room(b) = Len(d) + Hdr
      BY <1>1, <3>1, <3>2, BlockIs
    <3>4. \A k \in 1 .. n : k <= Len(h[i].data)
      <4>1. PICK m : m = Len(h[i].data)
        OBVIOUS
      <4>2. m \in Nat /\ n \in Nat /\ n <= m
        BY <1>1, <4>1
      <4> QED
        BY ONLY <4>1, <4>2
    <3> QED
      BY <3>2, <3>3, <3>4
  <2>3. f \in Blocks /\ f.own = Free /\ Room(f) = Len(h[i].data) - n - Hdr + Hdr
    BY <2>1, FreeBlockIs
  <2> HIDE DEF b, f
  <2>4. t \in Seq(Blocks) /\ Len(t) = 2 /\ t[1] = b /\ t[2] = f
    BY <2>2, <2>3
  <2>5. g = Spliced(h, i, i, t)
    BY <1>3 DEF SplitAt, Spliced, b, f
  <2> HIDE DEF t
  <2>6. /\ g \in Seq(Blocks) /\ Changed(h, g, i, i, i - 1 + 2 - i)
        /\ \A k \in 1 .. 2 : g[i - 1 + k] = t[k]
    <3>1. i \in 1 .. Len(h) + 1 /\ i \in i - 1 .. Len(h)
      BY <1>1
    <3>2. /\ g \in Seq(Blocks) /\ Changed(h, g, i, i, i - 1 + Len(t) - i)
          /\ \A k \in 1 .. Len(t) : g[i - 1 + k] = t[k]
      <4>1. h \in Seq(Blocks) /\ t \in Seq(Blocks)
        BY <1>1, <2>4
      <4>2. /\ IsSpliced(Blocks, h, i, i, t, g)
            /\ Changed(h, g, i, i, i - 1 + Len(t) - i)
        BY <2>5, <3>1, <4>1, SpliceChanges
      <4> QED
        BY <4>2 DEF IsSpliced
    <3> QED
      BY <2>4, <3>2
  <2>7. g[i - 1 + 1] = t[1] /\ g[i - 1 + 2] = t[2]
    BY <2>6
  <2>8. g[i] = b /\ g[i + 1] = f
    BY <1>1, <2>4, <2>7
  <2>9. i - 1 + 2 - i = 1
    BY <1>1
  <2>10. Changed(h, g, i, i, 1)
    BY <2>6, <2>9
  <2>11. Len(g) = Len(h) + 1 /\ g[Len(g)].own = End
    <3>1. Len(h) \in i + 1 .. Len(h)
      BY <1>1
    <3> QED
      BY <1>1, <2>10, <3>1 DEF Changed
  <2>12. Heap(g)
    BY <1>1, <2>6, <2>11 DEF Heap
  <2> QED
    BY <1>1, <2>2, <2>3, <2>8, <2>10, <2>11, <2>12, ConstantsOK
<1> QED
  BY <1>2, <1>3

(* A free block that is split.                                             *)
LEMMA SplitFree ==
  ASSUME NEW h, Heap(h), NEW i \in 1 .. Len(h), h[i].own = Free,
         NEW n \in Nat, n <= Len(h[i].data), NEW g, g = SplitAt(h, i, n)
  PROVE  /\ Heap(g) /\ i \in 1 .. Len(g) /\ g[i].own = Free
         /\ n <= Len(g[i].data) /\ Len(g[i].data) \in Nat
         /\ \A o \in Object : SameBlock(h, g, o)
<1>1. h[i].own # End
  BY ConstantsOK
<1>2. /\ Heap(g) /\ i \in 1 .. Len(g) /\ g[i].own = Free /\ n <= Len(g[i].data)
      /\ \/ Changed(h, g, i, i, 0)
         \/ Changed(h, g, i, i, 1) /\ g[i + 1].own = Free
  BY <1>1, SplitIs
<1>3. /\ h \in Seq(Blocks) /\ g \in Seq(Blocks) /\ Len(g[i].data) \in Nat
      /\ Len(h) \in Nat
  BY <1>2, HeapBlocks DEF Heap
<1>4. ASSUME NEW o \in Object
      PROVE  SameBlock(h, g, o)
  <2>1. o # Free
    BY ConstantsOK
  <2>2. \A k \in i .. i : h[k].own # o
    BY <1>3, <2>1
  <2>3. CASE Changed(h, g, i, i, 0)
    <3>1. \A k \in i .. i + 0 : g[k].own # o
      BY <1>2, <1>3, <2>1
    <3> QED
      BY <1>3, <2>2, <2>3, <3>1, OthersStay
  <2>4. CASE Changed(h, g, i, i, 1) /\ g[i + 1].own = Free
    <3>1. \A k \in i .. i + 1 : g[k].own # o
      BY <1>2, <1>3, <2>1, <2>4
    <3> QED
      BY <1>3, <2>2, <2>4, <3>1, OthersStay
  <2> QED
    BY <1>2, <2>3, <2>4
<1> QED
  BY <1>2, <1>3, <1>4

IsReplaced(h, g, i, b) ==
  /\ Heap(g) /\ Len(g) = Len(h) /\ g[i] = b /\ Changed(h, g, i, i, 0)
  /\ \A k \in 1 .. Len(h) : k # i => g[k] = h[k]
  /\ \A o \in Object \ {h[i].own, b.own} : SameBlock(h, g, o)
  /\ \A o : Absent(h, o) /\ b.own = o => Sits(g, o, i)
  /\ \A o : Sits(h, o, i) /\ b.own = o => Sits(g, o, i)
  /\ \A o : Sits(h, o, i) /\ b.own # o => Absent(g, o)
(* Block i is given to object o, or taken from it, or filled anew.         *)
LEMMA BlockReplaced ==
  ASSUME NEW h, Heap(h), NEW i \in 1 .. Len(h), h[i].own # End,
         NEW b \in Blocks, b.own # End, NEW g, g = [h EXCEPT ![i] = b]
  PROVE  IsReplaced(h, g, i, b)
<1>1. h \in Seq(Blocks) /\ Len(h) \in Nat /\ h[Len(h)].own = End /\ i # Len(h)
  BY HeapBlocks DEF Heap
<1>2. /\ g \in Seq(Blocks) /\ Len(g) = Len(h) /\ g[i] = b
      /\ \A k \in 1 .. Len(h) : k # i => g[k] = h[k]
  BY <1>1, ExceptSeq
<1>3. Heap(g)
  <2>1. Len(h) \in 1 .. Len(h)
    BY <1>1
  <2> QED
    BY <1>1, <1>2, <2>1 DEF Heap
<1>4. Changed(h, g, i, i, 0)
  <2>1. \A k \in 1 .. i - 1 : k \in 1 .. Len(h) /\ k # i
    BY <1>1
  <2>2. \A k \in i + 1 .. Len(h) : k \in 1 .. Len(h) /\ k # i /\ k + 0 = k
    BY <1>1
  <2>3. \A k \in 1 .. i - 1 : g[k] = h[k]
    BY <1>2, <2>1
  <2>4. \A k \in i + 1 .. Len(h) : g[k + 0] = h[k]
    BY <1>2, <2>2
  <2> QED
    BY <1>1, <1>2, <2>3, <2>4 DEF Changed
<1>5. ASSUME NEW o \in Object \ {h[i].own, b.own}
      PROVE  SameBlock(h, g, o)
  <2>1. \A k \in i .. i : h[k].own # o
    BY <1>1, <1>5
  <2>2. \A k \in i .. i + 0 : g[k].own # o
    BY <1>1, <1>2, <1>5
  <2>3. h \in Seq(Blocks) /\ g \in Seq(Blocks)
    BY <1>1, <1>2
  <2> QED
    BY <1>4, <2>1, <2>2, <2>3, OthersStay
<1>6. ASSUME NEW o
      PROVE  /\ Absent(h, o) /\ b.own = o => Sits(g, o, i)
             /\ Sits(h, o, i) /\ b.own = o => Sits(g, o, i)
             /\ Sits(h, o, i) /\ b.own # o => Absent(g, o)
  BY <1>1, <1>2 DEF Sits, Absent
<1> QED
  BY <1>2, <1>3, <1>4, <1>5, <1>6 DEF IsReplaced

(* The contents of an object's block are all of it the properties see.     *)
LEMMA SameBlockTwice ==
  ASSUME NEW f, NEW g, NEW h, NEW o, SameBlock(f, g, o), SameBlock(g, h, o)
  PROVE  SameBlock(f, h, o)
<1>1. ASSUME NEW k, Sits(f, o, k)
      PROVE  \E m : Sits(h, o, m) /\ h[m] = f[k]
  <2>1. PICK l : Sits(g, o, l) /\ g[l] = f[k]
    BY <1>1 DEF SameBlock
  <2>2. PICK m : Sits(h, o, m) /\ h[m] = g[l]
    BY <2>1 DEF SameBlock
  <2> QED
    BY <2>1, <2>2
<1>2. Absent(f, o) => Absent(h, o)
  BY DEF SameBlock
<1> QED
  BY <1>1, <1>2 DEF SameBlock

------------------------------------------------------------------------------
(* Where blocks are.                                                       *)

\* Blocks i + 1 to j take the same; so do blocks i + 1 + c to j + c of the other heap.
SameRooms(h, g, i, j, c) ==
  /\ i \in 0 .. Len(h) /\ j \in i .. Len(h) /\ c \in Int /\ i + c >= 0 /\ j + c <= Len(g)
  /\ \A k \in i + 1 .. j : Room(g[k + c]) = Room(h[k])
SameSum(h, g, i, j, c) ==
  Upto(g)[j + c] - Upto(g)[i + c] = Upto(h)[j] - Upto(h)[i]
(* The sums of two heaps agree where their blocks do.                      *)
LEMMA UptoAgrees ==
  ASSUME NEW h \in Seq(Blocks), NEW g \in Seq(Blocks), NEW c, NEW i, NEW j,
         SameRooms(h, g, i, j, c)
  PROVE  SameSum(h, g, i, j, c)
<1>0. /\ i \in 0 .. Len(h) /\ j \in i .. Len(h) /\ c \in Int /\ i + c >= 0 /\ j + c <= Len(g)
      /\ \A k \in i + 1 .. j : Room(g[k + c]) = Room(h[k])
      /\ Len(h) \in Nat /\ Len(g) \in Nat /\ i \in Nat /\ j \in Nat
  <2>1. Len(h) \in Nat /\ Len(g) \in Nat
    BY HeapBlocks
  <2> QED
    BY <2>1 DEF SameRooms
<1>1. /\ Len(h) \in Nat /\ Len(g) \in Nat
      /\ \A k \in 1 .. Len(h) : Room(h[k]) \in Nat
      /\ \A k \in 1 .. Len(g) : Room(g[k]) \in Nat
  BY HeapBlocks
<1>2. /\ Upto(h) \in [0 .. Len(h) -> Nat]
      /\ \A k \in 1 .. Len(h) : Upto(h)[k] = Upto(h)[k - 1] + Room(h[k])
  BY <1>1, UptoIs
<1>3. /\ Upto(g) \in [0 .. Len(g) -> Nat]
      /\ \A k \in 1 .. Len(g) : Upto(g)[k] = Upto(g)[k - 1] + Room(g[k])
  BY <1>1, UptoIs
<1> DEFINE S == {m \in 0 .. j - i :
                   Upto(g)[i + m + c] - Upto(g)[i + c] = Upto(h)[i + m] - Upto(h)[i]}
<1>4. 0 \in S
  <2>1. i + 0 = i /\ i + 0 + c = i + c /\ 0 \in 0 .. j - i
    BY <1>0
  <2>2. Upto(g)[i + c] \in Nat /\ Upto(h)[i] \in Nat
    <3>1. i + c \in 0 .. Len(g) /\ i \in 0 .. Len(h)
      BY <1>0
    <3> QED
      BY <1>2, <1>3, <3>1
  <2> QED
    BY <2>1, <2>2
<1>5. ASSUME NEW m \in 1 .. j - i, m - 1 \in S
      PROVE  m \in S
  <2>1. PICK p, q, e : p = i + m /\ q = i + m + c /\ e = i + c
    OBVIOUS
  <2>2. /\ p \in 1 .. Len(h) /\ p \in i + 1 .. j /\ q \in 1 .. Len(g) /\ m \in 0 .. j - i
        /\ i + (m - 1) = p - 1 /\ i + (m - 1) + c = q - 1 /\ p + c = q
        /\ p - 1 \in 0 .. Len(h) /\ q - 1 \in 0 .. Len(g) /\ e \in 0 .. Len(g)
        /\ i \in 0 .. Len(h)
    <3>1. /\ i \in 0 .. Len(h) /\ j \in i .. Len(h) /\ c \in Int /\ i + c >= 0
          /\ j + c <= Len(g) /\ Len(h) \in Nat /\ Len(g) \in Nat /\ i \in Nat /\ j \in Nat
      BY <1>0
    <3> QED
      BY <2>1, <3>1
  <2>3. Upto(h)[p] = Upto(h)[p - 1] + Room(h[p])
    BY <1>2, <2>2
  <2>4. Upto(g)[q] = Upto(g)[q - 1] + Room(g[q])
    BY <1>3, <2>2
  <2>5. Room(g[q]) = Room(h[p])
    BY <1>0, <2>2
  <2>6. Upto(g)[q - 1] - Upto(g)[e] = Upto(h)[p - 1] - Upto(h)[i]
    BY <1>5, <2>1, <2>2
  <2>7. /\ Upto(h)[p - 1] \in Nat /\ Upto(h)[i] \in Nat /\ Upto(g)[q - 1] \in Nat
        /\ Upto(g)[e] \in Nat /\ Room(h[p]) \in Nat
    BY <1>1, <1>2, <1>3, <2>2
  <2>8. Upto(g)[q] - Upto(g)[e] = Upto(h)[p] - Upto(h)[i]
    <3>2. PICK x, y, hi, gi, rm :
            /\ x = Upto(g)[q - 1] /\ y = Upto(h)[p - 1] /\ hi = Upto(h)[i]
            /\ gi = Upto(g)[e] /\ rm = Room(h[p])
      OBVIOUS
    <3>3. x \in Nat /\ y \in Nat /\ hi \in Nat /\ gi \in Nat /\ rm \in Nat /\ x - gi = y - hi
      BY <2>6, <2>7, <3>2
    <3>4. Upto(g)[q] = x + rm /\ Upto(h)[p] = y + rm
      BY <2>3, <2>4, <2>5, <3>2
    <3>5. (x + rm) - gi = (y + rm) - hi
      BY <3>3
    <3> QED
      BY <3>2, <3>4, <3>5
  <2> QED
    BY <2>1, <2>2, <2>8
<1>6. 0 .. j - i \subseteq S
  <2>1. j - i \in Nat
    BY <1>0
  <2> HIDE DEF S
  <2> QED
    BY <1>4, <1>5, <2>1, Upward
<1>7. j - i \in 0 .. j - i /\ i + (j - i) = j
  BY <1>0
<1>8. j - i \in S
  BY <1>6, <1>7
<1> QED
  BY <1>7, <1>8 DEF SameSum

\* What all the blocks of a list take.
Total(h) == Upto(h)[Len(h)]

(* The sums of a list's beginning stay when it gets longer.                *)
LEMMA UptoBegins ==
  ASSUME NEW h \in Seq(Blocks), NEW g \in Seq(Blocks), Len(h) <= Len(g),
         \A k \in 1 .. Len(h) : g[k] = h[k]
  PROVE  \A m \in 0 .. Len(h) : Upto(g)[m] = Upto(h)[m]
<1> TAKE m \in 0 .. Len(h)
<1>1. /\ Len(h) \in Nat /\ Len(g) \in Nat
      /\ \A k \in 1 .. Len(h) : Room(h[k]) \in Nat
      /\ \A k \in 1 .. Len(g) : Room(g[k]) \in Nat
  BY HeapBlocks
<1>2. Upto(h) \in [0 .. Len(h) -> Nat] /\ Upto(h)[0] = 0
  BY <1>1, UptoIs
<1>3. Upto(g) \in [0 .. Len(g) -> Nat] /\ Upto(g)[0] = 0
  BY <1>1, UptoIs
<1>4. \A k \in 0 + 1 .. m : Room(g[k + 0]) = Room(h[k])
  <2> TAKE k \in 0 + 1 .. m
  <2>1. k \in 1 .. Len(h) /\ k + 0 = k
    BY <1>1
  <2> QED
    BY <2>1
<1>5. Upto(g)[m + 0] - Upto(g)[0 + 0] = Upto(h)[m] - Upto(h)[0]
  <2>1. 0 \in 0 .. Len(h) /\ m \in 0 .. Len(h) /\ 0 + 0 >= 0 /\ m + 0 <= Len(g)
    BY <1>1
  <2>2. SameRooms(h, g, 0, m, 0)
    BY <1>4, <2>1 DEF SameRooms
  <2> QED
    BY <2>2, UptoAgrees DEF SameSum
<1>6. Upto(g)[m] \in Nat /\ Upto(h)[m] \in Nat /\ m + 0 = m /\ 0 + 0 = 0
  BY <1>1, <1>2, <1>3
<1> QED
  BY <1>2, <1>3, <1>5, <1>6

(* What two lists take together.                                           *)
LEMMA TotalConcat ==
  ASSUME NEW a \in Seq(Blocks), NEW b \in Seq(Blocks)
  PROVE  /\ Total(a \o b) = Total(a) + Total(b)
         /\ Total(a) \in Nat /\ Total(b) \in Nat
<1>1. PICK r : r = a \o b
  OBVIOUS
<1>2. /\ r \in Seq(Blocks) /\ Len(r) = Len(a) + Len(b)
      /\ \A k \in 1 .. Len(a) + Len(b) : r[k] = IF k <= Len(a) THEN a[k] ELSE b[k - Len(a)]
  BY <1>1, ConcatProperties
<1>3. /\ Len(a) \in Nat /\ Len(b) \in Nat /\ Len(r) \in Nat
      /\ \A k \in 1 .. Len(a) : Room(a[k]) \in Nat
      /\ \A k \in 1 .. Len(b) : Room(b[k]) \in Nat
      /\ \A k \in 1 .. Len(r) : Room(r[k]) \in Nat
  BY <1>2, HeapBlocks
<1>4. /\ Upto(a) \in [0 .. Len(a) -> Nat] /\ Upto(b) \in [0 .. Len(b) -> Nat]
      /\ Upto(r) \in [0 .. Len(r) -> Nat] /\ Upto(b)[0] = 0
  BY <1>3, UptoIs
<1>5. Upto(r)[Len(a)] = Upto(a)[Len(a)]
  <2>1. \A k \in 1 .. Len(a) : k \in 1 .. Len(a) + Len(b) /\ k <= Len(a)
    BY <1>3
  <2>2. \A k \in 1 .. Len(a) : r[k] = a[k]
    BY <1>2, <2>1
  <2>3. Len(a) <= Len(r) /\ Len(a) \in 0 .. Len(a)
    BY <1>2, <1>3
  <2> QED
    BY <1>2, <2>2, <2>3, UptoBegins
<1>6. Upto(r)[Len(b) + Len(a)] - Upto(r)[0 + Len(a)] = Upto(b)[Len(b)] - Upto(b)[0]
  <2>1. \A k \in 0 + 1 .. Len(b) : Room(r[k + Len(a)]) = Room(b[k])
    <3> TAKE k \in 0 + 1 .. Len(b)
    <3>1. PICK m : m = k + Len(a)
      OBVIOUS
    <3>2. m \in 1 .. Len(a) + Len(b) /\ ~(m <= Len(a)) /\ m - Len(a) = k
      BY <1>3, <3>1
    <3>3. r[m] = b[k]
      BY <1>2, <3>2
    <3> QED
      BY <3>1, <3>3
  <2>2. 0 \in 0 .. Len(b) /\ Len(b) \in 0 .. Len(b) /\ 0 + Len(a) >= 0
        /\ Len(b) + Len(a) <= Len(r) /\ Len(a) \in Int
    BY <1>2, <1>3
  <2>3. SameRooms(b, r, 0, Len(b), Len(a))
    BY <2>1, <2>2 DEF SameRooms
  <2> QED
    BY <1>2, <2>3, UptoAgrees DEF SameSum
<1>7. /\ Upto(a)[Len(a)] \in Nat /\ Upto(b)[Len(b)] \in Nat /\ Upto(r)[Len(r)] \in Nat
      /\ Len(b) + Len(a) = Len(r) /\ 0 + Len(a) = Len(a)
  <2>1. Len(a) \in 0 .. Len(a) /\ Len(b) \in 0 .. Len(b) /\ Len(r) \in 0 .. Len(r)
    BY <1>3
  <2>2. Len(b) + Len(a) = Len(r) /\ 0 + Len(a) = Len(a)
    BY <1>2, <1>3
  <2> QED
    BY <1>4, <2>1, <2>2
<1>8. Upto(r)[Len(r)] = Upto(a)[Len(a)] + Upto(b)[Len(b)]
  <2>1. Upto(r)[Len(r)] - Upto(a)[Len(a)] = Upto(b)[Len(b)] - 0
    BY <1>4, <1>5, <1>6, <1>7
  <2>2. \A x, y, z \in Nat : x - y = z - 0 => x = y + z
    OBVIOUS
  <2> QED
    BY <1>7, <2>1, <2>2
<1> QED
  BY <1>1, <1>7, <1>8 DEF Total

(* The total of one block.                                                 *)
LEMMA TotalOne ==
  ASSUME NEW b \in Blocks
  PROVE  Total(<<b>>) = Room(b) /\ Total(<<>>) = 0
<1>1. <<b>> \in Seq(Blocks) /\ Len(<<b>>) = 1 /\ <<b>>[1] = b
  OBVIOUS
<1>2. <<>> \in Seq(Blocks) /\ Len(<<>>) = 0
  BY EmptySeq
<1>3. PICK q \in Seq(Blocks) : q = <<b>> /\ Len(q) = 1 /\ q[1] = b
  BY <1>1
<1>4. Room(q[1]) \in Nat
  <2>1. q \in Seq(Blocks) /\ 1 \in 1 .. Len(q)
    BY <1>3
  <2> QED
    BY <2>1, HeapBlocks
<1>5. Upto(q)[0] = 0 /\ Upto(q)[1] = Upto(q)[1 - 1] + Room(q[1])
  <2>1. \A k \in 1 .. Len(q) : Room(q[k]) \in Nat
    BY <1>3, <1>4
  <2>2. Len(q) \in Nat /\ 1 \in 1 .. Len(q)
    BY <1>3
  <2> QED
    BY <2>1, <2>2, UptoIs
<1>6. Total(q) = Room(b)
  BY <1>3, <1>4, <1>5 DEF Total
<1>7. Upto(<<>>)[0] = 0
  <2>1. PICK e \in Seq(Blocks) : e = <<>> /\ Len(e) = 0
    BY <1>2
  <2>2. \A k \in 1 .. Len(e) : Room(e[k]) \in Nat
    BY <2>1
  <2>3. Upto(e)[0] = 0
    BY <2>1, <2>2, UptoIs
  <2> QED
    BY <2>1, <2>3
<1>8. Total(<<>>) = 0
  BY <1>2, <1>7 DEF Total
<1> QED
  BY <1>3, <1>6, <1>8

------------------------------------------------------------------------------
(* Garbage collection.                                                     *)

\* The list q is the list a followed by the list b.
IsConcat(S, a, b, q) ==
  /\ q \in Seq(S) /\ Len(q) = Len(a) + Len(b)
  /\ \A m \in 1 .. Len(a) : q[m] = a[m]
  /\ \A m \in 1 .. Len(b) : q[Len(a) + m] = b[m]
(* An element of a concatenation is one of either list.                    *)
LEMMA ConcatIs ==
  ASSUME NEW S, NEW a \in Seq(S), NEW b \in Seq(S)
  PROVE  /\ IsConcat(S, a, b, a \o b)
         /\ \A m \in 1 .. Len(a \o b) :
              m \in 1 .. Len(a) \/ (m - Len(a) \in 1 .. Len(b) /\ Len(a) + (m - Len(a)) = m)
<1>1. Len(a) \in Nat /\ Len(b) \in Nat
  BY LenProperties
<1>2. /\ a \o b \in Seq(S) /\ Len(a \o b) = Len(a) + Len(b)
      /\ \A m \in 1 .. Len(a) + Len(b) :
           (a \o b)[m] = IF m <= Len(a) THEN a[m] ELSE b[m - Len(a)]
  BY ConcatProperties
<1>3. ASSUME NEW m \in 1 .. Len(a) PROVE (a \o b)[m] = a[m]
  <2>1. m \in 1 .. Len(a) + Len(b) /\ m <= Len(a)
    BY <1>1
  <2> QED
    BY <1>2, <2>1
<1>4. ASSUME NEW m \in 1 .. Len(b) PROVE (a \o b)[Len(a) + m] = b[m]
  <2>1. PICK l : l = Len(a) + m
    OBVIOUS
  <2>2. l \in 1 .. Len(a) + Len(b) /\ ~(l <= Len(a)) /\ l - Len(a) = m
    BY <1>1, <2>1
  <2> QED
    BY <1>2, <2>1, <2>2
<1>5. \A m \in 1 .. Len(a \o b) :
        m \in 1 .. Len(a) \/ (m - Len(a) \in 1 .. Len(b) /\ Len(a) + (m - Len(a)) = m)
  BY <1>1, <1>2
<1> QED
  BY <1>2, <1>3, <1>4, <1>5 DEF IsConcat

\* A free block at the end of a and one at the beginning of b would be neighbours.
Meet(a, b) ==
  Len(a) > 0 /\ Len(b) > 0 /\ a[Len(a)].own = Free /\ b[1].own = Free
(* Lists without neighbouring free blocks, put together.                   *)
LEMMA NoGapConcat ==
  ASSUME NEW a \in Seq(Blocks), NEW b \in Seq(Blocks), NoGap(a), NoGap(b), ~Meet(a, b)
  PROVE  NoGap(a \o b)
<1>1. PICK q : q = a \o b
  OBVIOUS
<1>2. IsConcat(Blocks, a, b, q)
  BY <1>1, ConcatIs
<1>3. Len(a) \in Nat /\ Len(b) \in Nat /\ Len(q) = Len(a) + Len(b)
  BY <1>2, HeapBlocks DEF IsConcat
<1>4. ASSUME NEW m \in 1 .. Len(q) - 1, q[m].own = Free, q[m + 1].own = Free
      PROVE  FALSE
  <2>1. CASE m < Len(a)
    <3>1. m \in 1 .. Len(a) - 1 /\ m \in 1 .. Len(a) /\ m + 1 \in 1 .. Len(a)
      BY <1>3, <2>1
    <3>2. q[m] = a[m] /\ q[m + 1] = a[m + 1]
      BY <1>2, <3>1 DEF IsConcat
    <3> QED
      BY <1>4, <3>1, <3>2 DEF NoGap
  <2>2. CASE m = Len(a)
    <3>1. m \in 1 .. Len(a) /\ 1 \in 1 .. Len(b) /\ Len(a) > 0 /\ Len(b) > 0
      BY <1>3, <2>2
    <3>2. q[m] = a[m] /\ q[Len(a) + 1] = b[1]
      BY <1>2, <3>1 DEF IsConcat
    <3> QED
      BY <1>4, <2>2, <3>1, <3>2 DEF Meet
  <2>3. CASE m > Len(a)
    <3>1. PICK l : l = m - Len(a)
      OBVIOUS
    <3>2. /\ l \in 1 .. Len(b) - 1 /\ l \in 1 .. Len(b) /\ l + 1 \in 1 .. Len(b)
          /\ Len(a) + l = m /\ Len(a) + (l + 1) = m + 1
      BY <1>3, <2>3, <3>1
    <3>3. q[m] = b[l] /\ q[m + 1] = b[l + 1]
      BY <1>2, <3>2 DEF IsConcat
    <3> QED
      BY <1>4, <3>2, <3>3 DEF NoGap
  <2> QED
    BY <1>3, <2>1, <2>2, <2>3
<1> QED
  BY <1>1, <1>4 DEF NoGap

\* The objects' blocks in q are those of the first k blocks of h, each once.
Copies(h, k, q) ==
  /\ \A m \in 1 .. Len(q) : q[m].own \in Object => \E i \in 1 .. k : h[i] = q[m]
  /\ \A i \in 1 .. k : h[i].own \in Object => \E m \in 1 .. Len(q) : q[m] = h[i]
  /\ \A m, l \in 1 .. Len(q) : q[m].own = q[l].own /\ q[m].own \in Object => m = l
Distinct(h) ==
  \A i, j \in 1 .. Len(h) : h[i].own = h[j].own /\ h[i].own \in Object => i = j

CopyStep(h, k, q, o) ==
  /\ k \in 1 .. Len(h) /\ Copies(h, k - 1, q)
  /\ Len(o) = 1 /\ (o[1] = h[k] \/ (o[1].own = Free /\ h[k].own = Free))
(* The next block is copied; for a free block there may be any other.      *)
LEMMA CopiesNext ==
  ASSUME NEW h \in Seq(Blocks), Distinct(h), NEW k,
         NEW q \in Seq(Blocks), NEW o \in Seq(Blocks), CopyStep(h, k, q, o)
  PROVE  Copies(h, k, q \o o)
<1> DEFINE b == o[1]
<1>0. k \in 1 .. Len(h) /\ Copies(h, k - 1, q) /\ Len(o) = 1
  BY DEF CopyStep
<1>1. PICK r : r = q \o o
  OBVIOUS
<1>2. b = h[k] \/ (b.own = Free /\ h[k].own = Free)
  BY DEF CopyStep
<1> HIDE DEF b
<1>3. IsConcat(Blocks, q, o, r)
  BY <1>1, ConcatIs
<1>4. /\ Len(r) = Len(q) + 1 /\ \A m \in 1 .. Len(q) : r[m] = q[m]
      /\ r[Len(q) + 1] = b
  <2>1. 1 \in 1 .. Len(o)
    BY <1>0
  <2> QED
    BY <1>0, <1>3, <2>1 DEF IsConcat, b
<1>5. Len(h) \in Nat /\ Len(q) \in Nat
  BY HeapBlocks
<1>6. \A m \in 1 .. Len(r) : m \in 1 .. Len(q) \/ m = Len(q) + 1
  BY <1>0, <1>4, <1>5
<1>7. Free \notin Object
  BY ConstantsOK
<1>8. ASSUME NEW m \in 1 .. Len(r), r[m].own \in Object
      PROVE  \E i \in 1 .. k : h[i] = r[m]
  <2>1. CASE m \in 1 .. Len(q)
    <3>1. PICK i \in 1 .. k - 1 : h[i] = q[m]
      BY <1>0, <1>4, <1>8, <2>1 DEF Copies
    <3>2. i \in 1 .. k
      BY <1>0, <1>5, <3>1
    <3> QED
      BY <1>0, <1>4, <2>1, <3>1, <3>2
  <2>2. CASE m = Len(q) + 1
    <3>1. b = h[k] /\ k \in 1 .. k
      BY <1>0, <1>2, <1>4, <1>7, <1>8, <2>2
    <3> QED
      BY <1>0, <1>4, <2>2, <3>1
  <2> QED
    BY <1>0, <1>6, <2>1, <2>2
<1>9. ASSUME NEW i \in 1 .. k, h[i].own \in Object
      PROVE  \E m \in 1 .. Len(r) : r[m] = h[i]
  <2>1. CASE i = k
    <3>1. b = h[k] /\ Len(q) + 1 \in 1 .. Len(r)
      BY <1>0, <1>2, <1>4, <1>5, <1>7, <1>9, <2>1
    <3> QED
      BY <1>0, <1>4, <2>1, <3>1
  <2>2. CASE i # k
    <3>1. i \in 1 .. k - 1
      BY <1>0, <1>5, <2>2
    <3>2. PICK m \in 1 .. Len(q) : q[m] = h[i]
      BY <1>0, <1>9, <3>1 DEF Copies
    <3>3. m \in 1 .. Len(r)
      BY <1>0, <1>4, <1>5, <3>2
    <3> QED
      BY <1>0, <1>4, <3>2, <3>3
  <2> QED
    BY <1>0, <2>1, <2>2
<1>10. ASSUME NEW m \in 1 .. Len(q), r[m].own = b.own, b.own \in Object
       PROVE  FALSE
  <2>1. b = h[k]
    BY <1>0, <1>2, <1>7, <1>10
  <2>2. PICK i \in 1 .. k - 1 : h[i] = q[m]
    BY <1>0, <1>4, <1>10 DEF Copies
  <2>3. i \in 1 .. Len(h) /\ i # k
    BY <1>0, <1>5, <2>2
  <2> QED
    BY <1>0, <1>4, <1>10, <2>1, <2>2, <2>3 DEF Distinct
<1>11. ASSUME NEW m \in 1 .. Len(r), NEW l \in 1 .. Len(r),
              r[m].own = r[l].own, r[m].own \in Object
       PROVE  m = l
  <2>1. CASE m \in 1 .. Len(q) /\ l \in 1 .. Len(q)
    BY <1>0, <1>4, <1>11, <2>1 DEF Copies
  <2>2. CASE m = Len(q) + 1 \/ l = Len(q) + 1
    BY <1>0, <1>4, <1>6, <1>10, <1>11, <2>2
  <2> QED
    BY <1>0, <1>6, <2>1, <2>2
<1> QED
  BY <1>0, <1>1, <1>8, <1>9, <1>11 DEF Copies

(* Free blocks may be left out.                                            *)
LEMMA CopiesWithout ==
  ASSUME NEW h \in Seq(Blocks), NEW k \in 0 .. Len(h),
         NEW a \in Seq(Blocks), NEW f \in Seq(Blocks), NEW b \in Seq(Blocks),
         \A m \in 1 .. Len(f) : f[m].own = Free, Copies(h, k, a \o f \o b)
  PROVE  Copies(h, k, a \o b)
<1>1. PICK e, q, r : e = a \o f /\ q = e \o b /\ r = a \o b
  OBVIOUS
<1>2. IsConcat(Blocks, a, f, e)
  BY <1>1, ConcatIs
<1>3. IsConcat(Blocks, e, b, q) /\ IsConcat(Blocks, a, b, r)
  <2>1. e \in Seq(Blocks)
    BY <1>2 DEF IsConcat
  <2> QED
    BY <1>1, <2>1, ConcatIs
<1>4. /\ Len(a) \in Nat /\ Len(b) \in Nat /\ Len(f) \in Nat
      /\ Len(q) = Len(a) + Len(f) + Len(b) /\ Len(r) = Len(a) + Len(b)
      /\ Len(e) = Len(a) + Len(f)
  BY <1>2, <1>3, HeapBlocks DEF IsConcat
<1>5. \A m \in 1 .. Len(a) : r[m] = a[m] /\ q[m] = a[m]
  <2> TAKE m \in 1 .. Len(a)
  <2>1. m \in 1 .. Len(e)
    BY <1>4
  <2>2. e[m] = a[m] /\ r[m] = a[m]
    BY <1>2, <1>3 DEF IsConcat
  <2>3. q[m] = e[m]
    BY <1>3, <2>1 DEF IsConcat
  <2> QED
    BY <2>2, <2>3
<1>6. \A m \in 1 .. Len(b) : r[Len(a) + m] = b[m] /\ q[Len(a) + Len(f) + m] = b[m]
  BY <1>3, <1>4 DEF IsConcat
<1>7. \A m \in 1 .. Len(f) : q[Len(a) + m] = f[m]
  <2> TAKE m \in 1 .. Len(f)
  <2>1. Len(a) + m \in 1 .. Len(e)
    BY <1>4
  <2>2. e[Len(a) + m] = f[m]
    BY <1>2 DEF IsConcat
  <2>3. q[Len(a) + m] = e[Len(a) + m]
    BY <1>3, <2>1 DEF IsConcat
  <2> QED
    BY <2>2, <2>3
<1> DEFINE P(m) == IF m <= Len(a) THEN m ELSE m + Len(f)
<1>8. \A m \in 1 .. Len(r) : P(m) \in 1 .. Len(q) /\ q[P(m)] = r[m]
  <2> TAKE m \in 1 .. Len(r)
  <2>1. CASE m <= Len(a)
    <3>1. m \in 1 .. Len(a) /\ m \in 1 .. Len(q) /\ P(m) = m
      BY <1>4, <2>1
    <3> QED
      BY <1>5, <3>1
  <2>2. CASE ~(m <= Len(a))
    <3>1. PICK l : l = m - Len(a)
      OBVIOUS
    <3>2. /\ l \in 1 .. Len(b) /\ m = Len(a) + l /\ P(m) = Len(a) + Len(f) + l
          /\ P(m) \in 1 .. Len(q)
      BY <1>4, <2>2, <3>1
    <3> QED
      BY <1>6, <3>2
  <2> QED
    BY <2>1, <2>2
<1>9. \A m \in 1 .. Len(q) : q[m].own \in Object => \E l \in 1 .. Len(r) : r[l] = q[m]
  <2>1. SUFFICES ASSUME NEW m \in 1 .. Len(q), q[m].own \in Object
                 PROVE  \E l \in 1 .. Len(r) : r[l] = q[m]
    OBVIOUS
  <2>2. CASE m <= Len(a)
    <3>1. m \in 1 .. Len(a) /\ m \in 1 .. Len(r)
      BY <1>4, <2>2
    <3> QED
      BY <1>5, <3>1
  <2>3. CASE m > Len(a) /\ m <= Len(a) + Len(f)
    <3>1. PICK l : l = m - Len(a)
      OBVIOUS
    <3>2. l \in 1 .. Len(f) /\ m = Len(a) + l
      BY <1>4, <2>3, <3>1
    <3>3. q[m].own = Free
      BY <1>7, <3>2
    <3> QED
      BY <2>1, <3>3, ConstantsOK
  <2>4. CASE m > Len(a) + Len(f)
    <3>1. PICK l : l = m - (Len(a) + Len(f))
      OBVIOUS
    <3>2. l \in 1 .. Len(b) /\ m = Len(a) + Len(f) + l /\ Len(a) + l \in 1 .. Len(r)
      BY <1>4, <2>4, <3>1
    <3> QED
      BY <1>6, <3>2
  <2> QED
    BY <1>4, <2>2, <2>3, <2>4
<1>10. Copies(h, k, q)
  BY <1>1
<1>11. \A m, l \in 1 .. Len(r) : P(m) = P(l) => m = l
  BY <1>4
<1> HIDE DEF P
<1>12. ASSUME NEW m \in 1 .. Len(r), r[m].own \in Object
       PROVE  \E i \in 1 .. k : h[i] = r[m]
  <2>1. PICK l \in 1 .. Len(q) : q[l] = r[m]
    BY <1>8
  <2>2. q[l].own \in Object
    BY <1>12, <2>1
  <2> QED
    BY ONLY <1>10, <2>1, <2>2 DEF Copies
<1>13. ASSUME NEW i \in 1 .. k, h[i].own \in Object
       PROVE  \E m \in 1 .. Len(r) : r[m] = h[i]
  <2>1. PICK m \in 1 .. Len(q) : q[m] = h[i]
    BY <1>10, <1>13 DEF Copies
  <2> QED
    BY <1>9, <1>13, <2>1
<1>14. ASSUME NEW m \in 1 .. Len(r), NEW l \in 1 .. Len(r),
              r[m].own = r[l].own, r[m].own \in Object
       PROVE  m = l
  <2>1. PICK x, y : x = P(m) /\ y = P(l)
    OBVIOUS
  <2>2. x \in 1 .. Len(q) /\ q[x] = r[m] /\ y \in 1 .. Len(q) /\ q[y] = r[l]
    BY <1>8, <2>1
  <2>3. x = y
    BY <1>10, <1>14, <2>2 DEF Copies
  <2> QED
    BY <1>11, <2>1, <2>3
<1> QED
  BY <1>1, <1>12, <1>13, <1>14 DEF Copies

\* What mcmgarb's walk is made of.
Walker == [done : Seq(Blocks), hole : Seq(Blocks), passed : Seq(Blocks)]
IsBubbled(h, stop, f) ==
  f = [k \in 0 .. Len(h) |->
         IF k = 0 THEN [done |-> <<>>, hole |-> <<>>, passed |-> <<>>]
         ELSE Bubble(f[k - 1], h[k], stop)]
(* The walk holds blocks.                                                  *)
LEMMA BubbleType ==
  ASSUME NEW w \in Walker, NEW b \in Blocks, NEW stop, Free \notin stop
  PROVE  Bubble(w, b, stop) \in Walker
<1>1. w.done \in Seq(Blocks) /\ w.hole \in Seq(Blocks) /\ w.passed \in Seq(Blocks)
  BY DEF Walker
<1>2. <<>> \in Seq(Blocks) /\ <<b>> \in Seq(Blocks)
  OBVIOUS
<1>3. Len(b.data) + (IF w.hole = <<>> THEN 0 ELSE Room(w.hole[1])) \in Nat
  <2>1. Len(b.data) \in Nat
    BY LenProperties DEF Blocks
  <2>2. CASE w.hole # <<>>
    <3>1. 1 \in 1 .. Len(w.hole)
      BY <1>1, <2>2, EmptySeq, LenProperties
    <3>2. Room(w.hole[1]) \in Nat
      BY <1>1, <3>1, HeapBlocks
    <3> QED
      BY <2>1, <2>2, <3>2
  <2> QED
    BY <2>1, <2>2
<1>4. FreeBlock(Len(b.data) + (IF w.hole = <<>> THEN 0 ELSE Room(w.hole[1]))) \in Blocks
  BY <1>3, FreeBlockIs
<1> DEFINE f == FreeBlock(Len(b.data) + (IF w.hole = <<>> THEN 0 ELSE Room(w.hole[1])))
<1>5. f \in Blocks
  BY <1>4
<1> HIDE DEF f
<1>6. <<f>> \in Seq(Blocks)
  BY <1>5
<1>7. /\ w.done \o w.passed \in Seq(Blocks)
      /\ w.done \o w.hole \o w.passed \o <<b>> \in Seq(Blocks)
      /\ Append(w.passed, b) \in Seq(Blocks)
  <2>1. w.done \o w.hole \in Seq(Blocks)
    BY <1>1, ConcatProperties
  <2>2. w.done \o w.hole \o w.passed \in Seq(Blocks)
    BY <1>1, <2>1, ConcatProperties
  <2> QED
    BY <1>1, <1>2, <2>2, ConcatProperties, AppendProperties
<1>8. CASE b.own = Free
  <2>1. Bubble(w, b, stop) = [done |-> w.done \o w.passed, passed |-> <<>>, hole |-> <<f>>]
    BY <1>8 DEF Bubble, f
  <2> QED
    BY <1>2, <1>6, <1>7, <2>1 DEF Walker
<1>9. CASE b.own # Free /\ b.own \in stop
  <2>1. Bubble(w, b, stop) =
          [done |-> w.done \o w.hole \o w.passed \o <<b>>, passed |-> <<>>, hole |-> <<>>]
    BY <1>9 DEF Bubble
  <2> QED
    BY <1>2, <1>7, <2>1 DEF Walker
<1>10. CASE b.own # Free /\ b.own \notin stop
  <2>1. Bubble(w, b, stop) =
          [done |-> w.done, passed |-> Append(w.passed, b), hole |-> w.hole]
    BY <1>10 DEF Bubble, Walker
  <2> QED
    BY <1>1, <1>7, <2>1 DEF Walker
<1> QED
  BY <1>8, <1>9, <1>10

(* The walk of mcmgarb, step by step.                                      *)
LEMMA BubbledIs ==
  ASSUME NEW h \in Seq(Blocks), NEW stop, Free \notin stop
  PROVE  /\ Bubbled(h, stop) \in [0 .. Len(h) -> Walker]
         /\ Bubbled(h, stop)[0] = [done |-> <<>>, hole |-> <<>>, passed |-> <<>>]
         /\ \A k \in 1 .. Len(h) :
              Bubbled(h, stop)[k] = Bubble(Bubbled(h, stop)[k - 1], h[k], stop)
<1>1. PICK n \in Nat : n = Len(h)
  BY HeapBlocks
<1>2. \A i \in 1 .. n : h[i] \in Blocks
  BY <1>1, HeapBlocks
<1> DEFINE base == [done |-> <<>>, hole |-> <<>>, passed |-> <<>>]
<1> DEFINE g == [p \in Walker \X (1 .. n) |-> Bubble(p[1], h[p[2]], stop)]
<1>3. base \in Walker
  BY EmptySeq DEF Walker
<1>4. g \in [Walker \X (1 .. n) -> Walker]
  <2>1. \A p \in Walker \X (1 .. n) : Bubble(p[1], h[p[2]], stop) \in Walker
    BY <1>2, BubbleType
  <2> QED
    BY <2>1
<1>5. PICK f : Walks(Walker, base, g, f, n)
  <2> HIDE DEF g, base
  <2> QED
    BY <1>1, <1>3, <1>4, WalkExists
<1>6. /\ f \in [0 .. n -> Walker] /\ f[0] = base
      /\ \A i \in 1 .. n : f[i] = Bubble(f[i - 1], h[i], stop)
  <2>1. f \in [0 .. n -> Walker] /\ f[0] = base
    BY <1>5 DEF Walks
  <2>2. ASSUME NEW i \in 1 .. n PROVE f[i] = Bubble(f[i - 1], h[i], stop)
    <3>1. f[i - 1] \in Walker
      BY <2>1
    <3>2. f[i] = g[<<f[i - 1], i>>]
      BY <1>5 DEF Walks
    <3> QED
      BY <3>1, <3>2
  <2> QED
    BY <2>1, <2>2
<1>7. IsBubbled(h, stop, f)
  <2>1. f = [k \in 0 .. n |-> IF k = 0 THEN base ELSE Bubble(f[k - 1], h[k], stop)]
    <3>1. \A k \in 0 .. n : f[k] = IF k = 0 THEN base ELSE Bubble(f[k - 1], h[k], stop)
      BY <1>6
    <3> QED
      BY <1>6, <3>1
  <2> QED
    BY <1>1, <2>1 DEF IsBubbled
<1>8. Bubbled(h, stop) = CHOOSE e : IsBubbled(h, stop, e)
  BY DEF Bubbled, IsBubbled
<1> DEFINE B == Bubbled(h, stop)
<1>9. IsBubbled(h, stop, B)
  BY <1>7, <1>8
<1> HIDE DEF B
<1>10. /\ DOMAIN B = 0 .. n /\ B = [k \in 0 .. n |-> B[k]] /\ B[0] = base
       /\ \A k \in 1 .. n : B[k] = Bubble(B[k - 1], h[k], stop)
  BY <1>1, <1>9 DEF IsBubbled
<1> DEFINE S == {k \in 0 .. n : B[k] \in Walker}
<1>11. 0 .. n \subseteq S
  <2>1. 0 \in S
    BY <1>1, <1>3, <1>10
  <2>2. ASSUME NEW k \in 1 .. n, k - 1 \in S PROVE k \in S
    <3>1. B[k - 1] \in Walker /\ h[k] \in Blocks /\ k \in 0 .. n
      BY <1>1, <1>2, <2>2
    <3>2. Bubble(B[k - 1], h[k], stop) \in Walker
      BY <3>1, BubbleType
    <3> QED
      BY <1>10, <3>1, <3>2
  <2> HIDE DEF S
  <2> QED
    BY <1>1, <2>1, <2>2, Upward
<1>12. \A k \in 0 .. n : B[k] \in Walker
  BY <1>11
<1>13. B \in [0 .. n -> Walker]
  BY <1>10, <1>12
<1> QED
  BY <1>1, <1>10, <1>13 DEF B

Line(w) == w.done \o w.hole \o w.passed
NoFree(q) == \A m \in 1 .. Len(q) : q[m].own # Free
NoFreeAtEnd(q) == Len(q) > 0 => q[Len(q)].own # Free
\* The blocks among the first k that stop the walk are where they were.
Stayed(h, stop, k, d) ==
  \A i \in 1 .. k : h[i].own \in stop =>
    \E m \in 1 .. Len(d) : d[m] = h[i] /\ Upto(d)[m] = Upto(h)[i]
BubbleOK(h, stop, k, w) ==
  /\ w \in Walker
  /\ w.hole = <<>> \/ (Len(w.hole) = 1 /\ w.hole[1].own = Free)
  /\ NoFree(w.passed) /\ NoGap(w.done) /\ NoFreeAtEnd(w.done)
  /\ Total(Line(w)) = Upto(h)[k] /\ Copies(h, k, Line(w))
  /\ Stayed(h, stop, k, w.done)
  /\ k > 0 /\ h[k].own \in stop =>
       w.hole = <<>> /\ w.passed = <<>> /\ Len(w.done) > 0 /\ w.done[Len(w.done)] = h[k]

(* A list that is prolonged: the beginning stays.                          *)
LEMMA Prolonged ==
  ASSUME NEW a \in Seq(Blocks), NEW b \in Seq(Blocks)
  PROVE  /\ a \o b \in Seq(Blocks) /\ Len(a \o b) = Len(a) + Len(b)
         /\ \A m \in 1 .. Len(a) :
              /\ m \in 1 .. Len(a \o b) /\ (a \o b)[m] = a[m]
              /\ Upto(a \o b)[m] = Upto(a)[m]
<1>1. PICK r : r = a \o b
  OBVIOUS
<1>2. IsConcat(Blocks, a, b, r)
  BY <1>1, ConcatIs
<1>3. r \in Seq(Blocks) /\ Len(r) = Len(a) + Len(b) /\ \A m \in 1 .. Len(a) : r[m] = a[m]
  BY <1>2 DEF IsConcat
<1>4. Len(a) \in Nat /\ Len(b) \in Nat
  BY HeapBlocks
<1>5. Len(a) <= Len(r)
  BY <1>3, <1>4
<1>6. \A m \in 0 .. Len(a) : Upto(r)[m] = Upto(a)[m]
  BY <1>3, <1>5, UptoBegins
<1>7. \A m \in 1 .. Len(a) : m \in 0 .. Len(a) /\ m \in 1 .. Len(r)
  BY <1>3, <1>4
<1> QED
  BY <1>1, <1>3, <1>6, <1>7

(* Blocks that stopped the walk stay when it goes on.                      *)
LEMMA StayedOn ==
  ASSUME NEW h \in Seq(Blocks), NEW stop, NEW k \in 1 .. Len(h),
         NEW a \in Seq(Blocks), NEW b \in Seq(Blocks), Stayed(h, stop, k - 1, a)
  PROVE  /\ Stayed(h, stop, k - 1, a \o b)
         /\ h[k].own \notin stop => Stayed(h, stop, k, a \o b)
<1>1. PICK r : r = a \o b
  OBVIOUS
<1>2. \A m \in 1 .. Len(a) : /\ m \in 1 .. Len(r) /\ r[m] = a[m]
                             /\ Upto(r)[m] = Upto(a)[m]
  BY <1>1, Prolonged
<1>3. ASSUME NEW i \in 1 .. k - 1, h[i].own \in stop
      PROVE  \E m \in 1 .. Len(r) : r[m] = h[i] /\ Upto(r)[m] = Upto(h)[i]
  <2>1. PICK m \in 1 .. Len(a) : a[m] = h[i] /\ Upto(a)[m] = Upto(h)[i]
    BY <1>3 DEF Stayed
  <2> QED
    BY <1>2, <2>1
<1>4. Len(h) \in Nat /\ \A i \in 1 .. k : i \in 1 .. k - 1 \/ i = k
  BY HeapBlocks
<1> QED
  BY <1>1, <1>3, <1>4 DEF Stayed

(* Without free blocks there is no gap.                                    *)
LEMMA NoFreeNoGap ==
  ASSUME NEW q \in Seq(Blocks), NoFree(q)
  PROVE  NoGap(q) /\ NoFreeAtEnd(q)
<1>1. Len(q) \in Nat
  BY HeapBlocks
<1>2. \A m \in 1 .. Len(q) - 1 : m \in 1 .. Len(q)
  BY <1>1
<1>3. Len(q) > 0 => Len(q) \in 1 .. Len(q)
  BY <1>1
<1> QED
  BY <1>2, <1>3 DEF NoFree, NoGap, NoFreeAtEnd

(* The blocks of two lists without gap, the second without free blocks.    *)
LEMMA NoFreeBehind ==
  ASSUME NEW a \in Seq(Blocks), NEW b \in Seq(Blocks), NoGap(a), NoFree(b)
  PROVE  /\ NoGap(a \o b) /\ (NoFreeAtEnd(a) \/ Len(b) > 0 => NoFreeAtEnd(a \o b))
<1>1. NoGap(b) /\ NoFreeAtEnd(b)
  BY NoFreeNoGap
<1>2. Len(a) \in Nat /\ Len(b) \in Nat
  BY HeapBlocks
<1>3. ~Meet(a, b)
  <2>1. Len(b) > 0 => 1 \in 1 .. Len(b)
    BY <1>2
  <2> QED
    BY <2>1 DEF Meet, NoFree
<1>4. NoGap(a \o b)
  BY <1>1, <1>3, NoGapConcat
<1>5. ASSUME NoFreeAtEnd(a) \/ Len(b) > 0 PROVE NoFreeAtEnd(a \o b)
  <2>1. PICK r : r = a \o b
    OBVIOUS
  <2>2. IsConcat(Blocks, a, b, r)
    BY <2>1, ConcatIs
  <2>3. Len(r) = Len(a) + Len(b)
    BY <2>2 DEF IsConcat
  <2>4. CASE Len(b) > 0
    <3>1. Len(b) \in 1 .. Len(b)
      BY <1>2, <2>4
    <3>2. r[Len(a) + Len(b)] = b[Len(b)] /\ b[Len(b)].own # Free
      BY <2>2, <3>1 DEF IsConcat, NoFree
    <3> QED
      BY <2>1, <2>3, <3>2 DEF NoFreeAtEnd
  <2>5. CASE Len(b) = 0 /\ Len(a) > 0
    <3>1. Len(a) \in 1 .. Len(a) /\ Len(r) = Len(a)
      BY <1>2, <2>3, <2>5
    <3>2. r[Len(a)] = a[Len(a)]
      BY <2>2, <3>1 DEF IsConcat
    <3> QED
      BY <1>5, <2>1, <2>5, <3>1, <3>2 DEF NoFreeAtEnd
  <2>6. CASE Len(b) = 0 /\ Len(a) = 0
    <3>1. ~(Len(r) > 0)
      BY <2>3, <2>6
    <3> QED
      BY <2>1, <3>1 DEF NoFreeAtEnd
  <2> QED
    BY <1>2, <2>4, <2>5, <2>6
<1> QED
  BY <1>4, <1>5

IsAssociative(a, b, c) == (a \o b) \o c = a \o (b \o c)
(* Lists put together in either order.                                     *)
LEMMA Associative ==
  ASSUME NEW a \in Seq(Blocks), NEW b \in Seq(Blocks), NEW c \in Seq(Blocks)
  PROVE  IsAssociative(a, b, c)
BY ConcatAssociative DEF IsAssociative

(* A list of one element.                                                  *)
LEMMA OneBlock ==
  ASSUME NEW b \in Blocks
  PROVE  \E o \in Seq(Blocks) : o = <<b>> /\ Len(o) = 1 /\ o[1] = b
<1>1. <<b>> \in Seq(Blocks) /\ Len(<<b>>) = 1 /\ <<b>>[1] = b
  OBVIOUS
<1> QED
  BY <1>1

(* The lists of a walk, one behind the other.                              *)
LEMMA LineIs ==
  ASSUME NEW a \in Seq(Blocks), NEW f \in Seq(Blocks), NEW b \in Seq(Blocks)
  PROVE  /\ a \o f \in Seq(Blocks) /\ a \o b \in Seq(Blocks) /\ a \o f \o b \in Seq(Blocks)
         /\ Total(a \o f \o b) = Total(a) + Total(f) + Total(b)
         /\ Total(a \o b) = Total(a) + Total(b)
         /\ Total(a) \in Nat /\ Total(f) \in Nat /\ Total(b) \in Nat
<1>1. a \o f \in Seq(Blocks) /\ a \o b \in Seq(Blocks)
  BY ConcatProperties
<1>2. (a \o f) \o b \in Seq(Blocks)
  BY <1>1, ConcatProperties
<1>3. Total((a \o f) \o b) = Total(a \o f) + Total(b)
  BY <1>1, TotalConcat
<1>4. Total(a \o f) = Total(a) + Total(f) /\ Total(a \o b) = Total(a) + Total(b)
  BY TotalConcat
<1>5. Total(a) \in Nat /\ Total(f) \in Nat /\ Total(b) \in Nat
  BY TotalConcat
<1> QED
  BY <1>1, <1>2, <1>3, <1>4, <1>5

(* The walk comes to a free block, which takes over the one moving up.     *)
LEMMA BubbleFree ==
  ASSUME NEW h \in Seq(Blocks), Distinct(h), NEW stop, Free \notin stop,
         NEW k \in 1 .. Len(h), NEW w, BubbleOK(h, stop, k - 1, w), h[k].own = Free
  PROVE  BubbleOK(h, stop, k, Bubble(w, h[k], stop))
<1>0. PICK d \in Seq(Blocks), u \in Seq(Blocks), p \in Seq(Blocks) :
        d = w.done /\ u = w.hole /\ p = w.passed
  BY DEF BubbleOK, Walker
<1>00. d \in Seq(Blocks) /\ u \in Seq(Blocks) /\ p \in Seq(Blocks)
  BY <1>0
<1> DEFINE n == Len(h[k].data) + (IF u = <<>> THEN 0 ELSE Room(u[1]))
           f == FreeBlock(n)
           v == Bubble(w, h[k], stop)
<1>1. /\ w \in Walker /\ h[k] \in Blocks /\ Len(h[k].data) \in Nat /\ h[k].own \notin stop
      /\ Room(h[k]) = Len(h[k].data) + Hdr /\ Room(h[k]) \in Nat /\ Hdr \in Nat
  BY <1>0, <1>00, HeapBlocks, ConstantsOK DEF BubbleOK, Walker, Room
<1>2. Total(u) = (IF u = <<>> THEN 0 ELSE Room(u[1])) /\ Total(u) \in Nat
  <2>1. CASE u = <<>>
    <3>1. Total(<<>>) = 0
      BY <1>0, <1>00, <1>1, TotalOne
    <3>2. Total(u) = 0
      BY <1>0, <1>00, <2>1, <3>1
    <3> QED
      BY <1>0, <1>00, <2>1, <3>2
  <2>2. CASE u # <<>>
    <3>1. Len(u) = 1
      BY <1>0, <1>00, <2>2 DEF BubbleOK
    <3>2. u = <<u[1]>> /\ u[1] \in Blocks
      BY <1>0, <1>00, <1>1, <3>1
    <3>3. Total(u) = Room(u[1])
      BY <1>0, <1>00, <3>2, TotalOne
    <3>4. Total(u) \in Nat
      BY <1>0, <1>00, <1>1, LineIs
    <3> QED
      BY <1>0, <1>00, <2>2, <3>3, <3>4
  <2> QED
    BY <1>0, <1>00, <2>1, <2>2
<1>3. f \in Blocks /\ f.own = Free /\ Room(f) = Room(h[k]) + Total(u)
  <2>1. n \in Nat /\ n = Len(h[k].data) + Total(u)
    BY <1>0, <1>00, <1>1, <1>2
  <2>2. f \in Blocks /\ f.own = Free /\ Room(f) = n + Hdr
    BY <1>0, <1>00, <2>1, FreeBlockIs
  <2> QED
    BY <1>0, <1>00, <1>1, <1>2, <2>1, <2>2
<1>4. v = [done |-> d \o p, passed |-> <<>>, hole |-> <<f>>]
  BY <1>0, <1>00 DEF Bubble
<1> HIDE DEF n, f
<1>5. v \in Walker
  BY <1>0, <1>00, <1>1, BubbleType
<1>6. PICK o \in Seq(Blocks) : o = <<f>> /\ Len(o) = 1 /\ o[1] = f
  BY <1>0, <1>00, <1>3, OneBlock
<1>7. v.done = d \o p /\ v.hole = o /\ v.passed = <<>> /\ v.passed \in Seq(Blocks)
  <2>1. v.done = d \o p /\ v.hole = <<f>> /\ v.passed = <<>>
    BY <1>4
  <2> QED
    BY <1>6, <2>1, EmptySeq
<1> HIDE DEF v
<1>8. v.hole = <<>> \/ (Len(v.hole) = 1 /\ v.hole[1].own = Free)
  BY <1>0, <1>00, <1>3, <1>6, <1>7
<1>9. NoFree(v.passed)
  BY <1>0, <1>00, <1>7, EmptySeq DEF NoFree
<1>10. NoGap(d \o p) /\ NoFreeAtEnd(d \o p)
  <2>1. NoGap(d) /\ NoFree(p) /\ NoFreeAtEnd(d)
    BY <1>0, <1>00 DEF BubbleOK
  <2> QED
    BY <1>0, <1>00, <1>1, <2>1, NoFreeBehind
<1>11. Line(v) = d \o p \o <<f>> /\ d \o p \in Seq(Blocks) /\ Line(w) = d \o u \o p
  <2>1. d \o p \in Seq(Blocks)
    BY <1>0, <1>00, <1>1, LineIs
  <2>2. d \o p \o o \in Seq(Blocks)
    BY <1>0, <1>00, <1>6, <2>1, ConcatProperties
  <2>3. Line(v) = (d \o p \o o) \o <<>>
    BY <1>0, <1>00, <1>7 DEF Line
  <2>4. (d \o p \o o) \o <<>> = d \o p \o o
    BY <1>0, <1>00, <2>2, ConcatEmptySeq
  <2> QED
    BY <1>0, <1>00, <1>6, <2>1, <2>3, <2>4 DEF Line
<1>12. Total(Line(v)) = Upto(h)[k]
  <2>1. Total(Line(v)) = Total(d) + Total(p) + Room(f)
    <3>1. Total(Line(v)) = Total(d \o p) + Total(<<f>>)
      BY <1>0, <1>00, <1>6, <1>11, TotalConcat
    <3>2. Total(d \o p) = Total(d) + Total(p)
      <4>1. d \in Seq(Blocks) /\ p \in Seq(Blocks)
        BY <1>0, <1>00, <1>1
      <4> QED
        BY ONLY <4>1, TotalConcat
    <3> QED
      BY <1>0, <1>00, <1>3, <3>1, <3>2, TotalOne
  <2>2. Total(Line(w)) = Total(d) + Total(u) + Total(p)
        /\ Total(d) \in Nat /\ Total(p) \in Nat
    BY <1>00, <1>1, <1>11, LineIs
  <2>3. Total(Line(w)) = Upto(h)[k - 1]
    BY <1>0, <1>00 DEF BubbleOK
  <2>4. Upto(h)[k] = Upto(h)[k - 1] + Room(h[k])
    BY <1>0, <1>00, HeapBlocks, UptoIs
  <2>5. PICK x, y, z, r : x = Total(d) /\ y = Total(u) /\ z = Total(p) /\ r = Room(h[k])
    OBVIOUS
  <2>6. x \in Nat /\ y \in Nat /\ z \in Nat /\ r \in Nat
    BY <1>0, <1>00, <1>1, <1>2, <2>2, <2>5
  <2>7. Total(Line(v)) = x + z + (r + y) /\ Upto(h)[k] = x + y + z + r
    BY <1>0, <1>00, <1>3, <2>1, <2>2, <2>3, <2>4, <2>5
  <2> QED
    BY <1>0, <1>00, <2>6, <2>7
<1>13. Copies(h, k, Line(v))
  <2>1. Copies(h, k - 1, d \o u \o p)
    BY <1>0, <1>00, <1>11 DEF BubbleOK
  <2>2. \A m \in 1 .. Len(u) : u[m].own = Free
    BY <1>0, <1>00, <1>1, EmptySeq DEF BubbleOK
  <2>3. Copies(h, k - 1, d \o p)
    <3>1. k - 1 \in 0 .. Len(h)
      BY <1>0, <1>00, HeapBlocks
    <3> QED
      BY <1>0, <1>00, <1>1, <2>1, <2>2, <3>1, CopiesWithout
  <2>4. Copies(h, k, (d \o p) \o o)
    <3>1. CopyStep(h, k, d \o p, o) /\ d \o p \in Seq(Blocks) /\ o \in Seq(Blocks)
      BY <1>3, <1>6, <1>11, <2>3 DEF CopyStep
    <3> QED
      BY <3>1, CopiesNext
  <2> QED
    BY <1>6, <1>11, <2>4
<1>14. Stayed(h, stop, k, v.done)
  <2>1. Stayed(h, stop, k - 1, d)
    BY <1>0, <1>00 DEF BubbleOK
  <2>2. Stayed(h, stop, k, d \o p)
    BY <1>0, <1>00, <1>1, <2>1, StayedOn
  <2> QED
    BY <1>0, <1>00, <1>7, <2>2
<1> QED
  BY <1>0, <1>00, <1>1, <1>5, <1>7, <1>8, <1>9, <1>10, <1>12, <1>13, <1>14 DEF BubbleOK, v

(* It comes to a block that stops it.                                      *)
LEMMA BubbleStop ==
  ASSUME NEW h \in Seq(Blocks), Distinct(h), NEW stop, Free \notin stop,
         NEW k \in 1 .. Len(h), NEW w, BubbleOK(h, stop, k - 1, w), h[k].own \in stop
  PROVE  BubbleOK(h, stop, k, Bubble(w, h[k], stop))
<1>0. PICK d \in Seq(Blocks), u \in Seq(Blocks), p \in Seq(Blocks) :
        d = w.done /\ u = w.hole /\ p = w.passed
  BY DEF BubbleOK, Walker
<1>00. d \in Seq(Blocks) /\ u \in Seq(Blocks) /\ p \in Seq(Blocks)
  BY <1>0
<1> DEFINE b == h[k]
           v == Bubble(w, b, stop)
<1>1. /\ w \in Walker /\ b \in Blocks /\ b.own # Free
  BY <1>0, <1>00, HeapBlocks DEF BubbleOK, Walker
<1>2. v = [done |-> Line(w) \o <<b>>, passed |-> <<>>, hole |-> <<>>]
  BY <1>0, <1>00, <1>1 DEF Bubble, Line
<1>3. v \in Walker
  BY <1>0, <1>00, <1>1, BubbleType
<1>4. PICK o \in Seq(Blocks) : o = <<b>> /\ Len(o) = 1 /\ o[1] = b
  BY <1>0, <1>00, <1>1, OneBlock
<1>5. PICK l \in Seq(Blocks) : l = Line(w)
  BY <1>0, <1>00, <1>1, LineIs DEF Line
<1>6. v.done = l \o o /\ v.hole = <<>> /\ v.passed = <<>> /\ v.done \in Seq(Blocks)
  BY <1>0, <1>00, <1>2, <1>3, <1>4, <1>5 DEF Walker
<1>7. Total(l) = Upto(h)[k - 1] /\ Copies(h, k - 1, l) /\ Stayed(h, stop, k - 1, d)
  BY <1>0, <1>00, <1>5 DEF BubbleOK
<1> HIDE DEF b, v
<1>8. Line(v) = l \o o
  <2>1. PICK e \in Seq(Blocks) : e = <<>>
    BY <1>0, <1>00, EmptySeq
  <2>2. (v.done \o <<>>) \o <<>> = v.done
    BY <1>0, <1>00, <1>6, ConcatEmptySeq
  <2> QED
    BY <1>0, <1>00, <1>6, <2>2 DEF Line
<1>9. NoFree(v.passed)
  BY <1>0, <1>00, <1>6, EmptySeq DEF NoFree
<1>10. NoGap(v.done) /\ NoFreeAtEnd(v.done)
  <2>1. NoGap(d) /\ NoFreeAtEnd(d) /\ NoFree(p) /\ l = d \o u \o p
    BY <1>0, <1>00, <1>5 DEF BubbleOK, Line
  <2>2. NoGap(d \o u) /\ d \o u \in Seq(Blocks)
    <3>1. d \o u \in Seq(Blocks)
      BY <1>0, <1>00, <1>1, ConcatProperties
    <3>2. Len(u) = 0 \/ (Len(u) = 1 /\ u[1].own = Free)
      BY <1>0, <1>00, EmptySeq DEF BubbleOK
    <3>3. NoGap(u)
      BY <1>0, <1>00, <3>2 DEF NoGap
    <3>4. ~Meet(d, u)
      BY <1>0, <1>00, <2>1 DEF Meet, NoFreeAtEnd
    <3> QED
      BY <1>0, <1>00, <1>1, <2>1, <3>1, <3>3, <3>4, NoGapConcat
  <2>3. NoGap(l)
    BY <1>0, <1>00, <1>1, <2>1, <2>2, NoFreeBehind
  <2>4. NoFree(o)
    BY <1>0, <1>00, <1>1, <1>4 DEF NoFree
  <2> QED
    <3>1. l \in Seq(Blocks) /\ o \in Seq(Blocks) /\ Len(o) > 0
      BY <1>4, <1>5
    <3>2. NoGap(l \o o) /\ NoFreeAtEnd(l \o o)
      BY <2>3, <2>4, <3>1, NoFreeBehind
    <3> QED
      BY <1>6, <3>2
<1>11. Total(l \o o) = Upto(h)[k]
  <2>1. Total(l \o o) = Total(l) + Room(b)
    <3>1. Total(l \o o) = Total(l) + Total(o)
      BY ONLY l \in Seq(Blocks), o \in Seq(Blocks), TotalConcat
    <3>2. Total(o) = Room(b)
      BY <1>0, <1>00, <1>1, <1>4, TotalOne
    <3> QED
      BY <3>1, <3>2
  <2>2. Upto(h)[k] = Upto(h)[k - 1] + Room(b)
    BY <1>0, <1>00, HeapBlocks, UptoIs DEF b
  <2> QED
    BY <1>0, <1>00, <1>7, <2>1, <2>2
<1>12. Copies(h, k, l \o o)
  <2>1. /\ l \in Seq(Blocks) /\ Copies(h, k - 1, l)
        /\ o \in Seq(Blocks) /\ Len(o) = 1 /\ o[1] = h[k]
    BY <1>4, <1>5, <1>7 DEF b
  <2> QED
    <3>1. CopyStep(h, k, l, o)
      BY <2>1 DEF CopyStep
    <3> QED
      BY <2>1, <3>1, CopiesNext
<1>13. Len(l \o o) = Len(l) + 1 /\ (l \o o)[Len(l) + 1] = b /\ Len(l) \in Nat
  <2>1. IsConcat(Blocks, l, o, l \o o)
    BY <1>0, <1>00, ConcatIs
  <2>2. 1 \in 1 .. Len(o) /\ Len(l) \in Nat
    BY <1>0, <1>00, <1>4, HeapBlocks
  <2> QED
    BY <1>0, <1>00, <1>4, <2>1, <2>2 DEF IsConcat
<1>14. Stayed(h, stop, k, v.done)
  <2>1. Stayed(h, stop, k - 1, l \o o)
    <3>1. l = d \o (u \o p) /\ u \o p \in Seq(Blocks)
      <4>1. u \o p \in Seq(Blocks) /\ (d \o u) \o p = d \o (u \o p)
        <5>1. u \o p \in Seq(Blocks)
          BY <1>00, ConcatProperties
        <5>2. (d \o u) \o p = d \o (u \o p)
          <6>1. IsAssociative(d, u, p)
            BY <1>00, Associative
          <6> QED
            BY <6>1 DEF IsAssociative
        <5> QED
          BY <5>1, <5>2
      <4> QED
        BY <1>0, <1>00, <1>5, <4>1 DEF Line
    <3>2. Stayed(h, stop, k - 1, l)
      BY <1>0, <1>00, <1>1, <1>7, <3>1, StayedOn
    <3> QED
      BY <1>0, <1>00, <3>2, StayedOn
  <2>2. Upto(l \o o)[Len(l) + 1] = Upto(h)[k]
    BY <1>0, <1>00, <1>11, <1>13 DEF Total
  <2>3. \A i \in 1 .. k : i \in 1 .. k - 1 \/ i = k
    BY <1>0, <1>00, HeapBlocks
  <2>4. Len(l) + 1 \in 1 .. Len(l \o o)
    BY <1>0, <1>00, <1>13
  <2> QED
    BY <1>0, <1>00, <1>6, <1>13, <2>1, <2>2, <2>3, <2>4 DEF Stayed, b
<1>15. v.hole = <<>> /\ v.passed = <<>> /\ Len(v.done) > 0 /\ v.done[Len(v.done)] = h[k]
  BY <1>0, <1>00, <1>6, <1>13 DEF b
<1> QED
  BY <1>0, <1>00, <1>3, <1>8, <1>9, <1>10, <1>11, <1>12, <1>14, <1>15 DEF BubbleOK, v, b

(* It passes a block.                                                      *)
LEMMA BubblePass ==
  ASSUME NEW h \in Seq(Blocks), Distinct(h), NEW stop, Free \notin stop,
         NEW k \in 1 .. Len(h), NEW w, BubbleOK(h, stop, k - 1, w),
         h[k].own \notin stop, h[k].own # Free
  PROVE  BubbleOK(h, stop, k, Bubble(w, h[k], stop))
<1>0. PICK d \in Seq(Blocks), u \in Seq(Blocks), p \in Seq(Blocks) :
        d = w.done /\ u = w.hole /\ p = w.passed
  BY DEF BubbleOK, Walker
<1>00. d \in Seq(Blocks) /\ u \in Seq(Blocks) /\ p \in Seq(Blocks)
  BY <1>0
<1> DEFINE b == h[k]
           v == Bubble(w, b, stop)
<1>1. /\ w \in Walker /\ b \in Blocks
  BY <1>0, <1>00, HeapBlocks DEF BubbleOK, Walker
<1>2. v = [done |-> d, passed |-> Append(p, b), hole |-> u]
  BY <1>0, <1>00, <1>1 DEF Bubble, Walker
<1>3. v \in Walker
  BY <1>0, <1>00, <1>1, BubbleType
<1>4. PICK o \in Seq(Blocks) : o = <<b>> /\ Len(o) = 1 /\ o[1] = b
  BY <1>0, <1>00, <1>1, OneBlock
<1>5. PICK l \in Seq(Blocks) : l = Line(w)
  BY <1>0, <1>00, <1>1, LineIs DEF Line
<1>6. v.done = d /\ v.hole = u /\ v.passed = p \o o /\ v.passed \in Seq(Blocks)
  BY <1>0, <1>00, <1>1, <1>2, <1>3, <1>4, AppendIsConcat DEF Walker
<1>7. Total(l) = Upto(h)[k - 1] /\ Copies(h, k - 1, l) /\ Stayed(h, stop, k - 1, d)
  BY <1>0, <1>00, <1>5 DEF BubbleOK
<1> HIDE DEF b, v
<1>8. Line(v) = l \o o
  <2>1. d \o u \in Seq(Blocks)
    BY <1>0, <1>00, <1>1, ConcatProperties
  <2>2. (d \o u) \o (p \o o) = ((d \o u) \o p) \o o
    <3>1. o \in Seq(Blocks) /\ p \in Seq(Blocks) /\ d \o u \in Seq(Blocks)
      BY <1>00, <1>4, <2>1
    <3>2. PICK e : e = d \o u
      OBVIOUS
    <3>3. ((e \o p) \o o) = e \o (p \o o)
      <4>1. e \in Seq(Blocks) /\ p \in Seq(Blocks) /\ o \in Seq(Blocks)
        BY <3>1, <3>2
      <4> QED
        <5>1. IsAssociative(e, p, o)
          BY <4>1, Associative
        <5> QED
          BY <5>1 DEF IsAssociative
    <3> QED
      BY <3>2, <3>3
  <2> QED
    BY <1>0, <1>00, <1>5, <1>6, <2>2 DEF Line
<1>9. NoFree(v.passed)
  <2>1. NoFree(p) /\ b.own # Free
    BY <1>0, <1>00 DEF BubbleOK, b
  <2>2. IsConcat(Blocks, p, o, p \o o)
        /\ \A m \in 1 .. Len(p \o o) :
             m \in 1 .. Len(p) \/ (m - Len(p) \in 1 .. Len(o) /\ Len(p) + (m - Len(p)) = m)
    BY <1>0, <1>00, <1>1, ConcatIs
  <2>3. ASSUME NEW m \in 1 .. Len(p \o o) PROVE (p \o o)[m].own # Free
    <3>1. CASE m \in 1 .. Len(p)
      BY <1>0, <1>00, <2>1, <2>2, <3>1 DEF IsConcat, NoFree
    <3>2. CASE m - Len(p) \in 1 .. Len(o) /\ Len(p) + (m - Len(p)) = m
      <4>1. m - Len(p) = 1
        BY <1>0, <1>00, <1>4, <3>2
      <4> QED
        BY <1>0, <1>00, <1>4, <2>1, <2>2, <3>2, <4>1 DEF IsConcat
    <3> QED
      BY <1>0, <1>00, <2>2, <3>1, <3>2
  <2> QED
    BY <1>0, <1>00, <1>6, <2>3 DEF NoFree
<1>11. Total(l \o o) = Upto(h)[k]
  <2>1. Total(l \o o) = Total(l) + Room(b)
    <3>1. Total(l \o o) = Total(l) + Total(o)
      BY ONLY l \in Seq(Blocks), o \in Seq(Blocks), TotalConcat
    <3>2. Total(o) = Room(b)
      BY <1>0, <1>00, <1>1, <1>4, TotalOne
    <3> QED
      BY <3>1, <3>2
  <2>2. Upto(h)[k] = Upto(h)[k - 1] + Room(b)
    BY <1>0, <1>00, HeapBlocks, UptoIs DEF b
  <2> QED
    BY <1>0, <1>00, <1>7, <2>1, <2>2
<1>12. Copies(h, k, l \o o)
  <2>1. /\ l \in Seq(Blocks) /\ Copies(h, k - 1, l)
        /\ o \in Seq(Blocks) /\ Len(o) = 1 /\ o[1] = h[k]
    BY <1>4, <1>5, <1>7 DEF b
  <2> QED
    <3>1. CopyStep(h, k, l, o)
      BY <2>1 DEF CopyStep
    <3> QED
      BY <2>1, <3>1, CopiesNext
<1>13. Stayed(h, stop, k, d)
  <2>1. \A i \in 1 .. k : i \in 1 .. k - 1 \/ i = k
    BY <1>0, <1>00, HeapBlocks
  <2> QED
    BY <1>0, <1>00, <1>7, <2>1 DEF Stayed
<1>14. NoGap(d) /\ NoFreeAtEnd(d)
       /\ (u = <<>> \/ (Len(u) = 1 /\ u[1].own = Free))
  BY <1>0, <1>00 DEF BubbleOK
<1> QED
  BY <1>0, <1>00, <1>3, <1>6, <1>8, <1>9, <1>11, <1>12, <1>13, <1>14 DEF BubbleOK, v, b

\* What a garbage collection of h, in which the blocks of stop stay, leaves.
Collected(h, stop, g) ==
  /\ Heap(g) /\ NoGap(g) /\ Total(g) = Total(h)
  /\ \A o \in Object : SameBlock(h, g, o)
  /\ Stayed(h, stop, Len(h), g)
(* Garbage collection keeps the objects' blocks, and the others in place.  *)
LEMMA Collecting ==
  ASSUME NEW h, Heap(h), Distinct(h), NEW stop, Free \notin stop, End \in stop
  PROVE  Collected(h, stop, Bubbled(h, stop)[Len(h)].done)
<1> DEFINE B == Bubbled(h, stop)
<1>1. h \in Seq(Blocks) /\ Len(h) \in Nat /\ Len(h) > 0 /\ h[Len(h)].own = End
  BY HeapBlocks DEF Heap
<1>2. /\ B \in [0 .. Len(h) -> Walker]
      /\ B[0] = [done |-> <<>>, hole |-> <<>>, passed |-> <<>>]
      /\ \A k \in 1 .. Len(h) : B[k] = Bubble(B[k - 1], h[k], stop)
  BY <1>1, BubbledIs
<1> HIDE DEF B
<1>3. BubbleOK(h, stop, 0, B[0])
  <2>1. PICK e \in Seq(Blocks) : e = <<>> /\ Len(e) = 0
    BY EmptySeq
  <2>2. B[0].done = e /\ B[0].hole = e /\ B[0].passed = e
    BY <1>2, <2>1
  <2>3. B[0] \in Walker
    BY <1>1, <1>2
  <2>4. NoFree(e) /\ NoGap(e) /\ NoFreeAtEnd(e)
    BY <2>1 DEF NoFree, NoGap, NoFreeAtEnd
  <2>5. Line(B[0]) = e
    <3>1. e \o e \o e = e
      <4>1. e \o e = e
        BY <2>1, ConcatEmptySeq
      <4> QED
        BY <4>1
    <3> QED
      BY <2>2, <3>1 DEF Line
  <2>6. Total(e) = 0 /\ Upto(h)[0] = 0
    <3>1. \E b : b \in Blocks
      BY <1>1, HeapBlocks
    <3> QED
      BY <1>1, <2>1, <3>1, TotalOne, HeapBlocks, UptoIs
  <2>7. Copies(h, 0, e) /\ Stayed(h, stop, 0, e)
    BY <2>1 DEF Copies, Stayed
  <2> QED
    BY <2>1, <2>2, <2>3, <2>4, <2>5, <2>6, <2>7 DEF BubbleOK
<1> DEFINE S == {k \in 0 .. Len(h) : BubbleOK(h, stop, k, B[k])}
<1>4. 0 .. Len(h) \subseteq S
  <2>1. 0 \in S
    BY <1>1, <1>3
  <2>2. ASSUME NEW k \in 1 .. Len(h), k - 1 \in S PROVE k \in S
    <3>1. BubbleOK(h, stop, k - 1, B[k - 1]) /\ k \in 0 .. Len(h)
      BY <1>1, <2>2
    <3>2. BubbleOK(h, stop, k, Bubble(B[k - 1], h[k], stop))
      BY <1>1, <3>1, BubbleFree, BubbleStop, BubblePass
    <3> QED
      BY <1>2, <3>1, <3>2
  <2> HIDE DEF S
  <2> QED
    BY <1>1, <2>1, <2>2, Upward
<1>5. BubbleOK(h, stop, Len(h), B[Len(h)])
  <2>1. Len(h) \in 0 .. Len(h)
    BY <1>1
  <2> QED
    BY <1>4, <2>1
<1>6. PICK w, g : w = B[Len(h)] /\ g = w.done
  OBVIOUS
<1>7. /\ w \in Walker /\ NoGap(g) /\ Stayed(h, stop, Len(h), g)
      /\ Total(Line(w)) = Upto(h)[Len(h)] /\ Copies(h, Len(h), Line(w))
      /\ w.hole = <<>> /\ w.passed = <<>> /\ Len(g) > 0 /\ g[Len(g)] = h[Len(h)]
  BY <1>1, <1>5, <1>6 DEF BubbleOK
<1>8. g \in Seq(Blocks)
  BY <1>6, <1>7 DEF Walker
<1>9. Line(w) = g
  <2>1. (g \o <<>>) \o <<>> = g
    BY <1>8, ConcatEmptySeq
  <2> QED
    BY <1>6, <1>7, <2>1 DEF Line
<1>10. Heap(g) /\ Total(g) = Total(h) /\ Copies(h, Len(h), g)
  BY <1>1, <1>7, <1>8, <1>9 DEF Heap, Total
<1>11. ASSUME NEW o \in Object
       PROVE  SameBlock(h, g, o)
  <2>1. ASSUME NEW k, Sits(h, o, k)
        PROVE  \E m : Sits(g, o, m) /\ g[m] = h[k]
    <3>1. k \in 1 .. Len(h) /\ h[k].own = o
      BY <2>1 DEF Sits
    <3>2. PICK m \in 1 .. Len(g) : g[m] = h[k]
      BY <1>10, <3>1 DEF Copies
    <3>3. \A l \in 1 .. Len(g) : g[l].own = o => l = m
      BY <1>10, <3>1, <3>2 DEF Copies
    <3> QED
      BY <3>1, <3>2, <3>3 DEF Sits
  <2>2. ASSUME Absent(h, o) PROVE Absent(g, o)
    BY <1>10, <2>2 DEF Absent, Copies
  <2> QED
    BY <2>1, <2>2 DEF SameBlock
<1>12. Collected(h, stop, g)
  BY <1>7, <1>10, <1>11 DEF Collected
<1> QED
  BY <1>6, <1>12 DEF B

(* Where an object is.                                                     *)
LEMMA PlaceIs ==
  ASSUME NEW h \in Seq(Blocks), NEW o, NEW i, Sits(h, o, i)
  PROVE  /\ Place(h, o) = Total(h) - Upto(h)[i - 1]
         /\ Upto(h)[i] = Upto(h)[i - 1] + Room(h[i])
         /\ Upto(h)[i] \in Nat /\ Upto(h)[i - 1] \in Nat /\ Room(h[i]) \in Nat
         /\ Total(h) \in Nat
<1>1. At(h, o) = i /\ i \in 1 .. Len(h)
  BY AtIs DEF Sits
<1>2. Len(h) \in Nat /\ \A k \in 1 .. Len(h) : Room(h[k]) \in Nat
  BY HeapBlocks
<1>3. Upto(h) \in [0 .. Len(h) -> Nat] /\ Upto(h)[i] = Upto(h)[i - 1] + Room(h[i])
  BY <1>1, <1>2, UptoIs
<1>4. i \in 0 .. Len(h) /\ i - 1 \in 0 .. Len(h) /\ Len(h) \in 0 .. Len(h)
  BY <1>1, <1>2
<1>5. Upto(h)[i] \in Nat /\ Upto(h)[i - 1] \in Nat /\ Upto(h)[Len(h)] \in Nat
  BY <1>3, <1>4
<1> QED
  BY <1>1, <1>2, <1>3, <1>5 DEF Place, Extent, Total

(* The places of the blocks that stopped the collection.                   *)
LEMMA CollectedPlaces ==
  ASSUME NEW h \in Seq(Blocks), NEW stop, NEW g, Collected(h, stop, g),
         NEW o \in Object \cap stop, NEW i, Sits(h, o, i)
  PROVE  Place(g, o) = Place(h, o)
<1>1. g \in Seq(Blocks) /\ Total(g) = Total(h) /\ i \in 1 .. Len(h) /\ h[i].own = o
  BY DEF Collected, Heap, Sits
<1>2. PICK m \in 1 .. Len(g) : g[m] = h[i] /\ Upto(g)[m] = Upto(h)[i]
  BY <1>1 DEF Collected, Stayed
<1>3. PICK l : Sits(g, o, l)
  BY DEF Collected, SameBlock
<1>4. l = m
  BY <1>1, <1>2, <1>3 DEF Sits
<1>5. /\ Place(g, o) = Total(g) - Upto(g)[m - 1] /\ Upto(g)[m] = Upto(g)[m - 1] + Room(g[m])
      /\ Upto(g)[m - 1] \in Nat /\ Room(g[m]) \in Nat
  BY <1>1, <1>3, <1>4, PlaceIs
<1>6. /\ Place(h, o) = Total(h) - Upto(h)[i - 1] /\ Upto(h)[i] = Upto(h)[i - 1] + Room(h[i])
      /\ Upto(h)[i - 1] \in Nat /\ Room(h[i]) \in Nat
  BY PlaceIs
<1>7. Upto(g)[m - 1] = Upto(h)[i - 1]
  <2>1. PICK x, y, r : x = Upto(g)[m - 1] /\ y = Upto(h)[i - 1] /\ r = Room(h[i])
    OBVIOUS
  <2>2. x \in Nat /\ y \in Nat /\ r \in Nat /\ x + r = y + r
    BY <1>2, <1>5, <1>6, <2>1
  <2>3. x = y
    BY <2>2
  <2> QED
    BY <2>1, <2>3
<1> QED
  BY <1>1, <1>5, <1>6, <1>7

\* Blocks i to j have been replaced by blocks that take as much.
Refilled(h, g, i, j, c) == Changed(h, g, i, j, c) /\ Extent(g, i, j + c) = Extent(h, i, j)
(* What one block takes, and two neighbours.                               *)
LEMMA ExtentIs ==
  ASSUME NEW h \in Seq(Blocks), NEW i \in 1 .. Len(h)
  PROVE  /\ Extent(h, i, i) = Room(h[i])
         /\ i < Len(h) => Extent(h, i, i + 1) = Room(h[i]) + Room(h[i + 1])
<1>1. Len(h) \in Nat /\ \A k \in 1 .. Len(h) : Room(h[k]) \in Nat
  BY HeapBlocks
<1>2. /\ Upto(h) \in [0 .. Len(h) -> Nat]
      /\ \A k \in 1 .. Len(h) : Upto(h)[k] = Upto(h)[k - 1] + Room(h[k])
  BY <1>1, UptoIs
<1>3. Upto(h)[i] = Upto(h)[i - 1] + Room(h[i]) /\ Upto(h)[i - 1] \in Nat /\ Room(h[i]) \in Nat
  BY <1>1, <1>2
<1>4. ASSUME i < Len(h)
      PROVE  Upto(h)[i + 1] = Upto(h)[i] + Room(h[i + 1]) /\ Room(h[i + 1]) \in Nat
  <2>1. i + 1 \in 1 .. Len(h) /\ i + 1 - 1 = i
    BY <1>1, <1>4
  <2> QED
    BY <1>1, <1>2, <2>1
<1> QED
  BY <1>3, <1>4 DEF Extent

(* Where blocks are replaced by as much, sums before and behind stay.      *)
LEMMA RefilledSums ==
  ASSUME NEW h \in Seq(Blocks), NEW g \in Seq(Blocks), NEW i, NEW j, NEW c,
         Refilled(h, g, i, j, c)
  PROVE  /\ \A k \in 0 .. i - 1 : Upto(g)[k] = Upto(h)[k]
         /\ \A k \in j .. Len(h) : Upto(g)[k + c] = Upto(h)[k]
         /\ Total(g) = Total(h)
<1>1. /\ Len(h) \in Nat /\ Len(g) \in Nat /\ i \in 1 .. Len(h) + 1 /\ j \in i - 1 .. Len(h)
      /\ c \in Int /\ i - 1 <= j + c /\ Len(g) = Len(h) + c
      /\ \A k \in 1 .. i - 1 : g[k] = h[k]
      /\ \A k \in j + 1 .. Len(h) : g[k + c] = h[k]
  BY HeapBlocks DEF Refilled, Changed
<1>2. Upto(h) \in [0 .. Len(h) -> Nat] /\ Upto(h)[0] = 0
  BY HeapBlocks, UptoIs
<1>3. Upto(g) \in [0 .. Len(g) -> Nat] /\ Upto(g)[0] = 0
  BY HeapBlocks, UptoIs
<1>4. ASSUME NEW k \in 0 .. i - 1
      PROVE  Upto(g)[k] = Upto(h)[k]
  <2>1. \A l \in 0 + 1 .. k : l \in 1 .. i - 1 /\ l + 0 = l
    BY <1>1
  <2>2. \A l \in 0 + 1 .. k : Room(g[l + 0]) = Room(h[l])
    BY <1>1, <2>1
  <2>3. 0 \in 0 .. Len(h) /\ k \in 0 .. Len(h) /\ 0 + 0 >= 0 /\ k + 0 <= Len(g)
        /\ k \in 0 .. Len(g) /\ k + 0 = k /\ 0 + 0 = 0
    BY <1>1
  <2>4. SameRooms(h, g, 0, k, 0)
    BY <2>2, <2>3 DEF SameRooms
  <2>5. SameSum(h, g, 0, k, 0)
    BY <2>4, UptoAgrees
  <2>6. Upto(g)[k] - 0 = Upto(h)[k] - 0
    BY <1>2, <1>3, <2>3, <2>5 DEF SameSum
  <2> QED
    BY <1>2, <1>3, <2>3, <2>6
<1>5. Upto(g)[j + c] = Upto(h)[j]
  <2>1. PICK x, y, z : x = Upto(g)[j + c] /\ y = Upto(h)[j] /\ z = Upto(h)[i - 1]
    OBVIOUS
  <2>2. i - 1 \in 0 .. i - 1 /\ i - 1 \in 0 .. Len(h) /\ j \in 0 .. Len(h) /\ j + c \in 0 .. Len(g)
    BY <1>1
  <2>3. x \in Nat /\ y \in Nat /\ z \in Nat
    BY <1>2, <1>3, <2>1, <2>2
  <2>4. Upto(g)[i - 1] = z
    BY <1>4, <2>1, <2>2
  <2>5. x - z = y - z
    BY <2>1, <2>4 DEF Refilled, Extent
  <2>6. x = y
    BY <2>3, <2>5
  <2> QED
    BY <2>1, <2>6
<1>6. ASSUME NEW k \in j .. Len(h)
      PROVE  Upto(g)[k + c] = Upto(h)[k]
  <2>1. \A l \in j + 1 .. k : l \in j + 1 .. Len(h)
    BY <1>1
  <2>2. \A l \in j + 1 .. k : Room(g[l + c]) = Room(h[l])
    BY <1>1, <2>1
  <2>3. /\ j \in 0 .. Len(h) /\ k \in j .. Len(h) /\ j + c >= 0 /\ k + c <= Len(g)
        /\ k \in 0 .. Len(h) /\ k + c \in 0 .. Len(g) /\ j + c \in 0 .. Len(g)
    BY <1>1
  <2>4. SameRooms(h, g, j, k, c)
    BY <1>1, <2>2, <2>3 DEF SameRooms
  <2>5. SameSum(h, g, j, k, c)
    BY <2>4, UptoAgrees
  <2>6. PICK x, y, z : x = Upto(g)[k + c] /\ y = Upto(h)[k] /\ z = Upto(h)[j]
    OBVIOUS
  <2>7. x \in Nat /\ y \in Nat /\ z \in Nat
    BY <1>2, <1>3, <2>3, <2>6
  <2>8. x - z = y - z
    BY <1>5, <2>5, <2>6 DEF SameSum
  <2>9. x = y
    BY <2>7, <2>8
  <2> QED
    BY <2>6, <2>9
<1>7. Total(g) = Total(h)
  <2>1. Len(h) \in j .. Len(h)
    BY <1>1
  <2>2. Upto(g)[Len(h) + c] = Upto(h)[Len(h)]
    BY <1>6, <2>1
  <2> QED
    BY <1>1, <2>2 DEF Total
<1> QED
  BY <1>4, <1>6, <1>7

(* Objects whose blocks are not among those replaced keep their places.    *)
LEMMA RefilledPlaces ==
  ASSUME NEW h \in Seq(Blocks), NEW g \in Seq(Blocks), NEW i, NEW j, NEW c,
         Refilled(h, g, i, j, c), NEW o, NEW k, Sits(h, o, k), NEW m, Sits(g, o, m),
         \/ k < i /\ m = k
         \/ k > j /\ m = k + c
         \/ k = i /\ m = i
  PROVE  Place(g, o) = Place(h, o)
<1>1. /\ Len(h) \in Nat /\ i \in 1 .. Len(h) + 1 /\ j \in i - 1 .. Len(h) /\ c \in Int
      /\ k \in 1 .. Len(h)
  BY HeapBlocks DEF Refilled, Changed, Sits
<1>2. Upto(g)[m - 1] = Upto(h)[k - 1]
  <2>1. CASE k < i /\ m = k
    <3>1. k - 1 \in 0 .. i - 1
      BY <1>1, <2>1
    <3> QED
      BY <2>1, <3>1, RefilledSums
  <2>2. CASE k = i /\ m = i
    <3>1. i - 1 \in 0 .. i - 1
      BY <1>1
    <3> QED
      BY <2>2, <3>1, RefilledSums
  <2>3. CASE k > j /\ m = k + c
    <3>1. k - 1 \in j .. Len(h) /\ k - 1 + c = m - 1
      BY <1>1, <2>3
    <3> QED
      BY <3>1, RefilledSums
  <2> QED
    BY <2>1, <2>2, <2>3
<1>3. Place(h, o) = Total(h) - Upto(h)[k - 1]
  BY PlaceIs
<1>4. Place(g, o) = Total(g) - Upto(g)[m - 1]
  BY PlaceIs
<1>5. Total(g) = Total(h)
  BY RefilledSums
<1> QED
  BY <1>2, <1>3, <1>4, <1>5

(* Objects that have no block among those replaced.                        *)
LEMMA OthersKeepPlaces ==
  ASSUME NEW h \in Seq(Blocks), NEW g \in Seq(Blocks), NEW i, NEW j, NEW c,
         Refilled(h, g, i, j, c), NEW o,
         \A k \in i .. j : h[k].own # o, \A k \in i .. j + c : g[k].own # o,
         NEW k, Sits(h, o, k)
  PROVE  Place(g, o) = Place(h, o)
<1>1. PICK m : m = IF k < i THEN k ELSE k + c
  OBVIOUS
<1>2. Sits(g, o, m)
  BY <1>1, OthersStay DEF Refilled
<1>3. k \in 1 .. Len(h) /\ h[k].own = o /\ Len(h) \in Nat
      /\ i \in 1 .. Len(h) + 1 /\ j \in i - 1 .. Len(h)
  BY HeapBlocks DEF Sits, Refilled, Changed
<1>4. k \in i .. j \/ k < i \/ k > j
  BY <1>3
<1>5. k > j => ~(k < i)
  BY <1>3
<1>6. k < i \/ k > j
  BY <1>3, <1>4
<1>7. (k < i /\ m = k) \/ (k > j /\ m = k + c)
  BY <1>1, <1>5, <1>6
<1> QED
  BY <1>2, <1>7, RefilledPlaces

------------------------------------------------------------------------------
(* The swap file.                                                          *)

SegsOK(q) ==
  /\ q \in Seq(Segments)
  /\ \A i \in 1 .. Len(q) : q[i].osz <= q[i].siz /\ q[i].ptr = SegEnd(q, i - 1)
(* A segment is where the one before ends.                                 *)
LEMMA SegIs ==
  ASSUME NEW q, SegsOK(q), NEW i \in 1 .. Len(q)
  PROVE  /\ q[i] \in Segments /\ q[i].ptr \in Nat /\ q[i].siz \in Nat /\ q[i].osz \in Nat
         /\ q[i].obj \in Object /\ q[i].use \in BOOLEAN /\ q[i].osz <= q[i].siz
         /\ q[i].ptr = SegEnd(q, i - 1) /\ SegEnd(q, i) = q[i].ptr + q[i].siz
<1>1. q[i] \in Segments
  BY ElementOfSeq DEF SegsOK
<1>2. i # 0 /\ q[i].osz <= q[i].siz /\ q[i].ptr = SegEnd(q, i - 1)
  BY LenProperties DEF SegsOK
<1> QED
  BY <1>1, <1>2 DEF Segments, SegEnd

(* The segments' ends ascend.                                              *)
LEMMA SegEnds ==
  ASSUME NEW q, SegsOK(q), NEW i \in 0 .. Len(q), NEW j \in i .. Len(q)
  PROVE  SegEnd(q, i) \in Nat /\ SegEnd(q, j) \in Nat /\ SegEnd(q, i) <= SegEnd(q, j)
<1>1. Len(q) \in Nat
  BY LenProperties DEF SegsOK
<1>2. SegEnd(q, i) \in Nat
  <2>1. CASE i = 0
    BY <2>1 DEF SegEnd
  <2>2. CASE i # 0
    <3>1. i \in 1 .. Len(q)
      BY <1>1, <2>2
    <3>2. SegEnd(q, i) = q[i].ptr + q[i].siz /\ q[i].ptr \in Nat /\ q[i].siz \in Nat
      BY <3>1, SegIs
    <3> QED
      BY <3>2
  <2> QED
    BY <2>1, <2>2
<1> DEFINE S == {m \in 0 .. j - i : SegEnd(q, i + m) \in Nat /\ SegEnd(q, i) <= SegEnd(q, i + m)}
<1>3. 0 \in S
  <2>1. i + 0 = i /\ 0 \in 0 .. j - i
    BY <1>1
  <2> QED
    BY <1>2, <2>1
<1>4. ASSUME NEW m \in 1 .. j - i, m - 1 \in S
      PROVE  m \in S
  <2>1. PICK k : k = i + m
    OBVIOUS
  <2>2. k \in 1 .. Len(q) /\ i + (m - 1) = k - 1 /\ m \in 0 .. j - i
    BY <1>1, <2>1
  <2>3. SegEnd(q, k - 1) \in Nat /\ SegEnd(q, i) <= SegEnd(q, k - 1)
    BY <1>4, <2>2
  <2>4. SegEnd(q, k) = SegEnd(q, k - 1) + q[k].siz /\ q[k].siz \in Nat
    BY <2>2, SegIs
  <2>5. SegEnd(q, k) \in Nat /\ SegEnd(q, i) <= SegEnd(q, k)
    BY <1>2, <2>3, <2>4
  <2> QED
    BY <2>1, <2>2, <2>5
<1>5. j - i \in 0 .. j - i /\ i + (j - i) = j /\ j - i \in Nat
  BY <1>1
<1>6. j - i \in S
  <2> HIDE DEF S
  <2>1. 0 .. j - i \subseteq S
    BY <1>3, <1>4, <1>5, Upward
  <2> QED
    BY <1>5, <2>1
<1> QED
  BY <1>2, <1>5, <1>6

SwapState == [seg : Seq(Segments), file : [1 .. Quota -> Value], top : Nat, max : Nat,
              loc : [Object -> Int]]
(* What a good state of the swapper says.                                  *)
LEMMA SwapIs ==
  ASSUME NEW s \in SwapState, NEW P, SwapOK(s, P)
  PROVE  /\ SegsOK(s.seg) /\ Len(s.seg) \in Nat /\ s.top <= Quota
         /\ \A i \in 0 .. Len(s.seg) : SegEnd(s.seg, i) \in Nat /\ SegEnd(s.seg, i) <= Quota
         /\ \A i \in 1 .. Len(s.seg) : s.seg[i].ptr \in Nat /\ s.seg[i].ptr + s.seg[i].siz <= Quota
<1>1. SegsOK(s.seg) /\ s.seg \in Seq(Segments)
  BY DEF SwapOK, SegsOK
<1>2. s.top \in Nat /\ s.max \in Nat /\ s.top + s.max = Quota /\ Quota \in Nat
      /\ s.top = SegEnd(s.seg, Len(s.seg))
  BY ConstantsOK DEF SwapOK
<1>3. Len(s.seg) \in Nat /\ s.top <= Quota
  BY <1>1, <1>2, LenProperties
<1>4. ASSUME NEW i \in 0 .. Len(s.seg)
      PROVE  SegEnd(s.seg, i) \in Nat /\ SegEnd(s.seg, i) <= Quota
  <2>1. Len(s.seg) \in i .. Len(s.seg)
    BY <1>3
  <2>2. SegEnd(s.seg, i) \in Nat /\ SegEnd(s.seg, i) <= SegEnd(s.seg, Len(s.seg))
    BY <1>1, <2>1, SegEnds
  <2> QED
    BY <1>2, <1>3, <2>2
<1>5. ASSUME NEW i \in 1 .. Len(s.seg)
      PROVE  s.seg[i].ptr \in Nat /\ s.seg[i].ptr + s.seg[i].siz <= Quota
  <2>1. i \in 0 .. Len(s.seg)
    BY <1>3
  <2> QED
    BY <1>1, <1>4, <2>1, SegIs
<1> QED
  BY <1>1, <1>3, <1>4, <1>5

\* After writing d at p, f has become g.
Written(f, p, d, g) ==
  /\ g \in [1 .. Quota -> Value]
  /\ \A k \in 1 .. Len(d) : g[p + k] = d[k]
  /\ \A k \in 1 .. Quota : k <= p \/ k > p + Len(d) => g[k] = f[k]
(* What is read back after writing.                                        *)
LEMMA WriteIs ==
  ASSUME NEW f \in [1 .. Quota -> Value], NEW p \in Nat, NEW d \in Seq(Value),
         p + Len(d) <= Quota
  PROVE  Written(f, p, d, WriteFile(f, p, d))
<1>1. Quota \in Nat /\ Len(d) \in Nat /\ \A k \in 1 .. Len(d) : d[k] \in Value
  BY ConstantsOK, LenProperties, ElementOfSeq
<1>2. PICK g, n : g = WriteFile(f, p, d) /\ n = Len(d)
  OBVIOUS
<1>3. g = [k \in 1 .. Quota |-> IF k \in (p + 1) .. (p + n) THEN d[k - p] ELSE f[k]]
  BY <1>2 DEF WriteFile
<1>4. \A k \in 1 .. Quota : k \in (p + 1) .. (p + n) => k - p \in 1 .. n
  BY <1>1, <1>2
<1>5. g \in [1 .. Quota -> Value]
  BY <1>1, <1>2, <1>3, <1>4
<1>6. ASSUME NEW k \in 1 .. n
      PROVE  g[p + k] = d[k]
  <2>1. PICK m : m = p + k
    OBVIOUS
  <2>2. m \in 1 .. Quota /\ m \in (p + 1) .. (p + n) /\ m - p = k
    BY <1>1, <1>2, <2>1
  <2>3. g[m] = d[m - p]
    BY <1>3, <2>2
  <2> QED
    BY <2>1, <2>2, <2>3
<1>7. ASSUME NEW k \in 1 .. Quota, k <= p \/ k > p + n
      PROVE  g[k] = f[k]
  <2>1. k \notin (p + 1) .. (p + n)
    BY <1>1, <1>2, <1>7
  <2> QED
    BY <1>3, <2>1
<1> QED
  BY <1>2, <1>5, <1>6, <1>7 DEF Written

(* The handles of objects that are swapped out change as they should.      *)
LEMMA RenumberIs ==
  ASSUME NEW l \in [Object -> Int], NEW o \in Object, NEW old \in Int, NEW new \in Int
  PROVE  /\ Renumber(l, o, old, new) \in [Object -> Int]
         /\ \A p \in Out :
              Renumber(l, o, old, new)[p] = IF p = o /\ l[o] = old THEN new ELSE l[p]
<1>1. \A p \in Out : p \in Object /\ flags[p] \cap {"dirty", "nodisc"} # {} /\ ~Present(p)
  BY DEF Out, SwappedOut, InSwapFile
<1>2. Renumber(l, o, old, new) \in [Object -> Int]
  BY DEF Renumber
<1>3. ASSUME NEW p \in Out
      PROVE  Renumber(l, o, old, new)[p] = IF p = o /\ l[o] = old THEN new ELSE l[p]
  <2>1. p \in Object /\ flags[p] \cap {"dirty", "nodisc"} # {} /\ ~Present(p)
    BY <1>1
  <2>2. CASE p = o
    <3>1. Renumber(l, o, old, new) = IF l[o] = old THEN [l EXCEPT ![o] = new] ELSE l
      BY <2>1, <2>2 DEF Renumber
    <3> QED
      BY <2>2, <3>1
  <2>3. CASE p # o
    BY <2>1, <2>3 DEF Renumber
  <2> QED
    BY <2>2, <2>3
<1> QED
  BY <1>2, <1>3

\* What mcscompact's walk is made of.
Movers == [out : Seq(Segments), file : [1 .. Quota -> Value], pos : Nat, loc : [Object -> Int]]
\* Segment m of those moved down.
MovedSeg(s, i, w, m) ==
  LET e == w.out[m]
  IN /\ e.use /\ e.osz = e.siz /\ e.ptr = SegEnd(w.out, m - 1) /\ e.ptr + e.siz <= w.pos
     /\ e.obj \in Out /\ s.loc[e.obj] <= i /\ w.loc[e.obj] = m
SameContents(s, r, o) ==
  LET d == s.seg[s.loc[o]]
      e == r.seg[r.loc[o]]
  IN e.osz = d.osz /\ \A k \in 1 .. d.osz : r.file[e.ptr + k] = s.file[d.ptr + k]
\* Object o's segment has been moved down.
MovedObj(s, w, o) ==
  /\ w.loc[o] \in 1 .. Len(w.out) /\ w.out[w.loc[o]].obj = o
  /\ w.out[w.loc[o]].osz = s.seg[s.loc[o]].osz
  /\ \A k \in 1 .. s.seg[s.loc[o]].osz :
       w.file[w.out[w.loc[o]].ptr + k] = s.file[s.seg[s.loc[o]].ptr + k]
MoveOK(s, i, w) ==
  /\ w \in Movers /\ Len(w.out) <= i
  /\ w.pos = SegEnd(w.out, Len(w.out)) /\ w.pos <= SegEnd(s.seg, i)
  /\ \A m \in 1 .. Len(w.out) : MovedSeg(s, i, w, m)
  /\ \A o \in Out : IF s.loc[o] <= i THEN MovedObj(s, w, o) ELSE w.loc[o] = s.loc[o]
  /\ \A k \in 1 .. Quota : k > SegEnd(s.seg, i) => w.file[k] = s.file[k]

(* A segment that is not in use is dropped.                                *)
LEMMA MoveDrops ==
  ASSUME NEW s \in SwapState, SwapOK(s, Out), NEW i \in 1 .. Len(s.seg), ~s.seg[i].use,
         NEW w, MoveOK(s, i - 1, w)
  PROVE  MoveOK(s, i, Move(s, w, i))
<1>1. /\ SegsOK(s.seg) /\ Len(s.seg) \in Nat
      /\ SegEnd(s.seg, i - 1) \in Nat /\ SegEnd(s.seg, i) \in Nat
      /\ SegEnd(s.seg, i - 1) <= SegEnd(s.seg, i)
  <2>1. SegsOK(s.seg) /\ Len(s.seg) \in Nat
    BY SwapIs
  <2>2. i - 1 \in 0 .. Len(s.seg) /\ i \in i - 1 .. Len(s.seg)
    BY <2>1
  <2> QED
    BY <2>1, <2>2, SegEnds
<1>2. s.seg[i].obj \in Object /\ i \in Int
  BY <1>1, SegIs
<1>3. /\ w \in Movers /\ w.out \in Seq(Segments) /\ Len(w.out) \in Nat
      /\ w.loc \in [Object -> Int] /\ w.pos \in Nat
  BY LenProperties DEF MoveOK, Movers
<1> DEFINE l == Renumber(w.loc, s.seg[i].obj, i, NoSeg)
           v == Move(s, w, i)
<1>4. v = [w EXCEPT !.loc = l]
  BY DEF Move
<1>5. NoSeg \in Int
  BY DEF NoSeg
<1>6. /\ l \in [Object -> Int]
      /\ \A p \in Out : l[p] = IF p = s.seg[i].obj /\ w.loc[s.seg[i].obj] = i
                               THEN NoSeg ELSE w.loc[p]
  BY <1>2, <1>3, <1>5, RenumberIs
<1> HIDE DEF l, v
<1>7. v \in Movers /\ v.out = w.out /\ v.file = w.file /\ v.pos = w.pos /\ v.loc = l
  BY <1>3, <1>4, <1>6 DEF Movers
<1>8. ASSUME NEW o \in Out
      PROVE  s.loc[o] \in Int /\ s.loc[o] # i /\ v.loc[o] = w.loc[o]
             /\ (s.loc[o] <= i => s.loc[o] <= i - 1)
  <2>1. s.loc[o] \in 1 .. Len(s.seg) /\ s.seg[s.loc[o]].use
    BY <1>8 DEF SwapOK
  <2>2. s.loc[o] # i
    BY <2>1
  <2>3. IF s.loc[o] <= i - 1 THEN MovedObj(s, w, o) ELSE w.loc[o] = s.loc[o]
    BY <1>8 DEF MoveOK
  <2>4. s.loc[o] <= i - 1 => w.loc[o] \in 1 .. Len(w.out) /\ Len(w.out) <= i - 1
    BY <2>3 DEF MovedObj, MoveOK
  <2>5. w.loc[o] # i
    BY <1>1, <1>3, <2>1, <2>2, <2>3, <2>4
  <2>6. l[o] = w.loc[o]
    BY <1>6, <1>8, <2>5
  <2> QED
    BY <1>1, <1>7, <2>1, <2>2, <2>6
<1>9. ASSUME NEW m \in 1 .. Len(v.out)
      PROVE  MovedSeg(s, i, v, m)
  <2>1. MovedSeg(s, i - 1, w, m)
    BY <1>7, <1>9 DEF MoveOK
  <2>2. w.out[m].obj \in Out /\ s.loc[w.out[m].obj] <= i - 1
    BY <2>1 DEF MovedSeg
  <2>3. v.loc[w.out[m].obj] = w.loc[w.out[m].obj] /\ s.loc[w.out[m].obj] <= i
    BY <1>1, <1>8, <2>2
  <2> QED
    BY <1>7, <2>1, <2>3 DEF MovedSeg
<1>10. ASSUME NEW o \in Out
       PROVE  IF s.loc[o] <= i THEN MovedObj(s, v, o) ELSE v.loc[o] = s.loc[o]
  <2>1. IF s.loc[o] <= i - 1 THEN MovedObj(s, w, o) ELSE w.loc[o] = s.loc[o]
    BY <1>10 DEF MoveOK
  <2>2. v.loc[o] = w.loc[o] /\ (s.loc[o] <= i <=> s.loc[o] <= i - 1)
    BY <1>1, <1>8, <1>10
  <2> QED
    BY <1>7, <2>1, <2>2 DEF MovedObj
<1>11. \A k \in 1 .. Quota : k > SegEnd(s.seg, i) => v.file[k] = s.file[k]
  <2>1. \A k \in 1 .. Quota : k > SegEnd(s.seg, i - 1) => w.file[k] = s.file[k]
    BY DEF MoveOK
  <2>2. \A k \in 1 .. Quota : k > SegEnd(s.seg, i) => k > SegEnd(s.seg, i - 1)
    <3> QED
      BY <1>1
  <2> QED
    BY <1>7, <2>1, <2>2
<1>12. Len(v.out) <= i /\ v.pos = SegEnd(v.out, Len(v.out)) /\ v.pos <= SegEnd(s.seg, i)
  <2>1. Len(w.out) <= i - 1 /\ w.pos = SegEnd(w.out, Len(w.out)) /\ w.pos <= SegEnd(s.seg, i - 1)
    BY DEF MoveOK
  <2> QED
    BY <1>1, <1>3, <1>7, <2>1
<1> QED
  BY <1>7, <1>9, <1>10, <1>11, <1>12 DEF MoveOK, v

(* A segment that is in use moves down, with what is in it.                *)
LEMMA MoveKeeps ==
  ASSUME NEW s \in SwapState, SwapOK(s, Out), NEW i \in 1 .. Len(s.seg), s.seg[i].use,
         NEW w, MoveOK(s, i - 1, w)
  PROVE  MoveOK(s, i, Move(s, w, i))
<1>1. /\ SegsOK(s.seg) /\ Len(s.seg) \in Nat /\ i - 1 \in 0 .. Len(s.seg) /\ i \in Nat
      /\ Quota \in Nat
  <2>1. SegsOK(s.seg) /\ Len(s.seg) \in Nat
    BY SwapIs
  <2> QED
    BY <2>1, ConstantsOK
<1>2. PICK d, e, t, n, p, ps : d = s.seg[i] /\ n = d.osz /\ p = d.ptr /\ t = d.siz
                           /\ ps = w.pos /\ e = [d EXCEPT !.ptr = ps, !.siz = n]
  OBVIOUS
<1>3. /\ d \in Segments /\ n \in Nat /\ p \in Nat /\ t \in Nat /\ n <= t
      /\ d.obj \in Object /\ p = SegEnd(s.seg, i - 1) /\ SegEnd(s.seg, i) = p + t
      /\ p + t <= Quota /\ d.use
  BY <1>1, <1>2, SegIs, SwapIs
<1>4. /\ w \in Movers /\ w.out \in Seq(Segments) /\ Len(w.out) \in Nat
      /\ w.loc \in [Object -> Int] /\ ps \in Nat /\ w.file \in [1 .. Quota -> Value]
  BY <1>2, LenProperties DEF MoveOK, Movers
<1>5. Len(w.out) <= i - 1 /\ ps = SegEnd(w.out, Len(w.out)) /\ ps <= p
  BY <1>2, <1>3 DEF MoveOK
<1>6. d.obj \in Out /\ s.loc[d.obj] = i
  BY <1>2, <1>3 DEF SwapOK
<1>7. w.loc[d.obj] = i
  <2>1. ~(i <= i - 1)
    BY <1>1
  <2> QED
    BY <1>6, <2>1 DEF MoveOK
<1> DEFINE new == Len(w.out) + 1
           l == IF new = i THEN w.loc ELSE Renumber(w.loc, d.obj, i, new)
           r == ReadFile(w.file, p, n)
           f == WriteFile(w.file, ps, r)
           v == Move(s, w, i)
<1>8. v = [out |-> Append(w.out, e), file |-> f, pos |-> ps + n, loc |-> l]
  BY <1>2, <1>3 DEF Move
<1>9. /\ l \in [Object -> Int] /\ l[d.obj] = new
      /\ \A o \in Out : o # d.obj => l[o] = w.loc[o]
  <2>1. CASE new = i
    BY <1>4, <1>7, <2>1
  <2>2. CASE new # i
    <3>1. new \in Int /\ i \in Int
      BY <1>1, <1>4
    <3>2. l = Renumber(w.loc, d.obj, i, new)
      BY <2>2
    <3> HIDE DEF l, new
    <3>3. PICK b \in [Object -> Int], x \in Object, j \in Int, k \in Int :
            b = w.loc /\ x = d.obj /\ j = i /\ k = new
      BY <1>3, <1>4, <3>1
    <3>4. /\ Renumber(b, x, j, k) \in [Object -> Int]
          /\ \A y \in Out : Renumber(b, x, j, k)[y] = IF y = x /\ b[x] = j THEN k ELSE b[y]
      BY ONLY RenumberIs
    <3>5. l = Renumber(b, x, j, k) /\ x \in Out /\ b[x] = j
      BY <1>6, <1>7, <3>2, <3>3
    <3>6. l \in [Object -> Int] /\ l[x] = k /\ \A y \in Out : y # x => l[y] = b[y]
      BY ONLY <3>4, <3>5
    <3> QED
      BY ONLY <3>3, <3>6
  <2> QED
    BY <2>1, <2>2
<1>10. /\ e \in Segments /\ e.ptr = ps /\ e.siz = n /\ e.osz = n /\ e.obj = d.obj /\ e.use
  BY <1>2, <1>3, <1>4 DEF Segments
<1>11. \A k \in 1 .. n : p + k \in 1 .. Quota /\ w.file[p + k] = s.file[p + k]
  <2> TAKE k \in 1 .. n
  <2>1. PICK m : m = p + k
    OBVIOUS
  <2>2. m \in 1 .. Quota /\ m > p
    <3>1. /\ n \in Nat /\ p \in Nat /\ t \in Nat /\ n <= t /\ p + t <= Quota
          /\ Quota \in Nat /\ k \in 1 .. n
      BY <1>1, <1>3
    <3> QED
      BY ONLY <2>1, <3>1
  <2>3. w.file[m] = s.file[m]
    <3>1. \A y \in 1 .. Quota : y > SegEnd(s.seg, i - 1) => w.file[y] = s.file[y]
      BY DEF MoveOK
    <3> QED
      BY <1>3, <2>2, <3>1
  <2> QED
    BY <2>1, <2>2, <2>3
<1>12. r \in Seq(Value) /\ Len(r) = n /\ \A k \in 1 .. n : r[k] = s.file[p + k]
  <2>1. \A k \in 1 .. n : r[k] = w.file[p + k] /\ w.file[p + k] \in Value
    BY <1>4, <1>11 DEF ReadFile
  <2>2. r \in [1 .. n -> Value]
    BY <2>1 DEF ReadFile
  <2> HIDE DEF r
  <2>3. r \in Seq(Value) /\ Len(r) = n
    BY <1>3, <2>2, FcnIsSeq
  <2> QED
    BY <1>11, <2>1, <2>3
<1>13. /\ f \in [1 .. Quota -> Value]
       /\ \A k \in 1 .. n : f[ps + k] = s.file[p + k]
       /\ \A k \in 1 .. Quota : k <= ps \/ k > ps + n => f[k] = w.file[k]
  <2>1. ps + Len(r) <= Quota
    BY <1>1, <1>3, <1>4, <1>5, <1>12
  <2> HIDE DEF r
  <2>2. Written(w.file, ps, r, f)
    BY <1>4, <1>12, <2>1, WriteIs
  <2> HIDE DEF f
  <2> QED
    BY <1>12, <2>2 DEF Written
<1>14. PICK q, a, j : q = Append(w.out, e) /\ a = w.out /\ j = Len(w.out) + 1
  OBVIOUS
<1>15. /\ q \in Seq(Segments) /\ Len(q) = j /\ q[j] = e /\ a \in Seq(Segments)
       /\ Len(a) \in Nat /\ j = Len(a) + 1 /\ j \in Nat /\ j <= i
       /\ \A m \in 1 .. Len(a) : q[m] = a[m]
  <2>1. a \in Seq(Segments) /\ q = Append(a, e) /\ Len(a) \in Nat /\ j = Len(a) + 1
    BY <1>4, <1>14
  <2>2. /\ q \in Seq(Segments) /\ Len(q) = Len(a) + 1 /\ q[Len(a) + 1] = e
        /\ \A m \in 1 .. Len(a) : q[m] = a[m]
    BY <1>10, <2>1, AppendProperties
  <2>3. j \in Nat /\ j <= i
    BY <1>1, <1>5, <1>14, <2>1
  <2> QED
    BY <2>1, <2>2, <2>3
<1>16. v.out = q /\ v.file = f /\ v.pos = ps + n /\ v.loc = l
  BY <1>8, <1>14
<1>17. v \in Movers
  <2>1. ps + n \in Nat /\ q \in Seq(Segments)
    BY <1>3, <1>4, <1>15
  <2>2. f \in [1 .. Quota -> Value] /\ l \in [Object -> Int]
    BY <1>9, <1>13
  <2>3. v = [out |-> q, file |-> f, pos |-> ps + n, loc |-> l]
    BY <1>8, <1>14
  <2> HIDE DEF v, f, l, r
  <2> QED
    BY ONLY <2>1, <2>2, <2>3 DEF Movers
<1>18. l[d.obj] = j
  BY <1>9, <1>14
<1> HIDE DEF new, l, r, f, v
<1>19. \A m \in 0 .. Len(a) : SegEnd(q, m) = SegEnd(a, m)
  <2> TAKE m \in 0 .. Len(a)
  <2>1. m = 0 \/ m \in 1 .. Len(a)
    BY <1>15
  <2> QED
    BY <1>15, <2>1 DEF SegEnd
<1>20. SegEnd(q, j) = ps + n
  <2>1. j # 0
    BY <1>15
  <2> QED
    BY <1>10, <1>15, <2>1 DEF SegEnd
<1>21. ASSUME NEW m \in 1 .. j
       PROVE  MovedSeg(s, i, v, m)
  <2>1. CASE m = j
    <3>1. j - 1 = Len(a) /\ Len(a) \in 0 .. Len(a)
      BY <1>15
    <3>2. e.ptr = SegEnd(q, j - 1)
      BY <1>5, <1>10, <1>14, <1>19, <3>1
    <3>3. e.ptr + e.siz <= ps + n /\ i <= i
      BY <1>1, <1>3, <1>4, <1>10
    <3> QED
      BY <1>6, <1>10, <1>15, <1>16, <1>18, <2>1, <3>2, <3>3 DEF MovedSeg
  <2>2. CASE m # j
    <3>1. m \in 1 .. Len(a) /\ m - 1 \in 0 .. Len(a)
      BY <1>15, <2>2
    <3>2. MovedSeg(s, i - 1, w, m) /\ q[m] = a[m]
      BY <1>14, <1>15, <3>1 DEF MoveOK
    <3>3. /\ a[m].use /\ a[m].osz = a[m].siz /\ a[m].ptr = SegEnd(a, m - 1)
          /\ a[m].ptr + a[m].siz <= ps /\ a[m].obj \in Out
          /\ s.loc[a[m].obj] <= i - 1 /\ w.loc[a[m].obj] = m
      BY <1>2, <1>14, <3>2 DEF MovedSeg
    <3>4. a[m].ptr \in Nat /\ a[m].siz \in Nat
      <4>1. a[m] \in Segments
        BY <1>15, <3>1, ElementOfSeq
      <4> QED
        BY <4>1 DEF Segments
    <3>5. s.loc[a[m].obj] \in Int
      BY <3>3 DEF SwapOK
    <3>6. a[m].obj # d.obj /\ s.loc[a[m].obj] <= i
      BY <1>1, <1>6, <3>3, <3>5
    <3>7. l[a[m].obj] = m
      BY <1>9, <3>3, <3>6
    <3>8. a[m].ptr = SegEnd(q, m - 1)
      BY <1>19, <3>1, <3>3
    <3>9. a[m].ptr + a[m].siz <= ps + n
      <4>1. PICK x, y : x = a[m].ptr /\ y = a[m].siz
        OBVIOUS
      <4>2. x \in Nat /\ y \in Nat /\ x + y <= ps /\ ps \in Nat /\ n \in Nat
        BY <1>3, <1>4, <3>3, <3>4, <4>1
      <4> QED
        BY ONLY <4>1, <4>2
    <3> QED
      BY <1>16, <3>2, <3>3, <3>6, <3>7, <3>8, <3>9 DEF MovedSeg
  <2> QED
    BY <2>1, <2>2
<1>22. ASSUME NEW o \in Out
       PROVE  IF s.loc[o] <= i THEN MovedObj(s, v, o) ELSE v.loc[o] = s.loc[o]
  <2>1. s.loc[o] \in 1 .. Len(s.seg) /\ s.seg[s.loc[o]].obj = o
    BY <1>22 DEF SwapOK
  <2>2. IF s.loc[o] <= i - 1 THEN MovedObj(s, w, o) ELSE w.loc[o] = s.loc[o]
    BY <1>22 DEF MoveOK
  <2>3. CASE s.loc[o] = i
    <3>1. o = d.obj /\ l[o] = j /\ i <= i
      BY <1>1, <1>2, <1>18, <2>1, <2>3
    <3>2. j \in 1 .. Len(q) /\ q[j] = e
      BY <1>15
    <3>3. MovedObj(s, v, o)
      BY <1>2, <1>10, <1>13, <1>16, <2>3, <3>1, <3>2 DEF MovedObj
    <3> QED
      BY <2>3, <3>1, <3>3
  <2>4. CASE s.loc[o] # i
    <3>1. o # d.obj /\ l[o] = w.loc[o] /\ (s.loc[o] <= i <=> s.loc[o] <= i - 1)
      BY <1>1, <1>6, <1>9, <1>22, <2>1, <2>4
    <3>2. CASE s.loc[o] <= i - 1
      <4>1. MovedObj(s, w, o)
        BY <2>2, <3>2
      <4>2. PICK m, z, b : m = w.loc[o] /\ z = a[m] /\ b = z.ptr
        OBVIOUS
      <4>3. /\ m \in 1 .. Len(a) /\ z.obj = o /\ z.osz = s.seg[s.loc[o]].osz
            /\ \A k \in 1 .. z.osz : w.file[b + k] = s.file[s.seg[s.loc[o]].ptr + k]
        BY <1>14, <4>1, <4>2 DEF MovedObj
      <4>4. z.osz = z.siz /\ b + z.siz <= ps
        <5>1. MovedSeg(s, i - 1, w, m)
          BY <1>14, <4>3 DEF MoveOK
        <5> QED
          BY <1>2, <1>14, <4>2, <5>1 DEF MovedSeg
      <4>5. b \in Nat /\ z.siz \in Nat
        <5>1. z \in Segments
          BY <1>15, <4>2, <4>3, ElementOfSeq
        <5> QED
          BY <4>2, <5>1 DEF Segments
      <4>6. \A k \in 1 .. z.osz : f[b + k] = w.file[b + k]
        <5> TAKE k \in 1 .. z.osz
        <5>1. PICK x, y : x = b + k /\ y = z.siz
          OBVIOUS
        <5>2. x \in 1 .. Quota /\ x <= ps
          <6>1. y \in Nat /\ k \in 1 .. y /\ b + y <= ps
            BY <4>4, <4>5, <5>1
          <6> QED
            BY <1>1, <1>3, <1>4, <1>5, <4>5, <5>1, <6>1
        <5> QED
          BY <1>13, <5>1, <5>2
      <4>7. q[m] = z /\ m \in 1 .. Len(q)
        BY <1>15, <4>2, <4>3
      <4>8. MovedObj(s, v, o)
        <5>1. PICK y, x : y = s.seg[s.loc[o]].osz /\ x = s.seg[s.loc[o]].ptr
          OBVIOUS
        <5>2. \A k \in 1 .. y : f[b + k] = s.file[x + k]
          BY ONLY <4>3, <4>6, <5>1
        <5>3. v.loc[o] = m /\ v.out = q /\ v.file = f
          BY <1>16, <3>1, <4>2
        <5>4. q[m] = z /\ z.ptr = b /\ z.osz = y /\ z.obj = o /\ m \in 1 .. Len(q)
          BY ONLY <4>2, <4>3, <4>7, <5>1
        <5> QED
          BY ONLY <5>1, <5>2, <5>3, <5>4 DEF MovedObj
      <4> QED
        BY <3>1, <3>2, <4>8
    <3>3. CASE ~(s.loc[o] <= i - 1)
      BY <1>16, <2>2, <3>1, <3>3
    <3> QED
      BY <3>2, <3>3
  <2> QED
    BY <2>3, <2>4
<1>23. ASSUME NEW k \in 1 .. Quota, k > SegEnd(s.seg, i)
       PROVE  v.file[k] = s.file[k]
  <2>1. k > ps + n /\ k > SegEnd(s.seg, i - 1)
    <3>1. PICK x, y : x = SegEnd(s.seg, i - 1) /\ y = SegEnd(s.seg, i)
      OBVIOUS
    <3>2. /\ x = p /\ y = p + t /\ ps <= p /\ n <= t /\ k > y
          /\ p \in Nat /\ t \in Nat /\ n \in Nat /\ ps \in Nat /\ k \in Int
      BY <1>1, <1>3, <1>4, <1>5, <1>23, <3>1
    <3> QED
      BY ONLY <3>1, <3>2
  <2>2. w.file[k] = s.file[k]
    BY <2>1 DEF MoveOK
  <2> QED
    BY <1>13, <1>16, <2>1, <2>2
<1>24. ps + n <= SegEnd(s.seg, i)
  BY <1>3, <1>4, <1>5
<1> QED
  BY <1>15, <1>16, <1>17, <1>20, <1>21, <1>22, <1>23, <1>24 DEF MoveOK, v

IsMoved(s, f) ==
  f = [i \in 0 .. Len(s.seg) |->
         IF i = 0 THEN [out |-> <<>>, file |-> s.file, pos |-> 0, loc |-> s.loc]
         ELSE Move(s, f[i - 1], i)]
(* Where mcscompact's walk ends.                                           *)
LEMMA MovedIs ==
  ASSUME NEW s \in SwapState, SwapOK(s, Out)
  PROVE  MoveOK(s, Len(s.seg), Moved(s)[Len(s.seg)])
<1> DEFINE base == [out |-> <<>>, file |-> s.file, pos |-> 0, loc |-> s.loc]
<1>1. PICK n \in Nat : n = Len(s.seg)
  BY SwapIs
<1>2. base \in Movers
  BY EmptySeq DEF Movers, SwapState
<1>3. MoveOK(s, 0, base)
  <2>1. PICK e \in Seq(Segments) : e = <<>> /\ Len(e) = 0
    BY EmptySeq
  <2>2. base.out = e /\ base.file = s.file /\ base.pos = 0 /\ base.loc = s.loc
    BY <2>1
  <2>3. SegEnd(s.seg, 0) = 0 /\ SegEnd(e, 0) = 0
    BY DEF SegEnd
  <2>4. \A o \in Out : ~(s.loc[o] <= 0)
    BY SwapIs DEF SwapOK
  <2> HIDE DEF base
  <2>5. \A m \in 1 .. Len(e) : MovedSeg(s, 0, base, m)
    BY <2>1
  <2> QED
    BY <1>2, <2>1, <2>2, <2>3, <2>4, <2>5 DEF MoveOK
<1>4. ASSUME NEW i \in 1 .. n, NEW w, MoveOK(s, i - 1, w)
      PROVE  MoveOK(s, i, Move(s, w, i)) /\ Move(s, w, i) \in Movers
  <2>1. s.seg[i].use \in BOOLEAN /\ i \in 1 .. Len(s.seg)
    BY <1>1, SegIs, SwapIs
  <2>2. MoveOK(s, i, Move(s, w, i))
    BY <1>4, <2>1, MoveDrops, MoveKeeps
  <2> QED
    BY <2>2 DEF MoveOK
<1> DEFINE g == [p \in Movers \X (1 .. n) |->
                   IF Move(s, p[1], p[2]) \in Movers THEN Move(s, p[1], p[2]) ELSE base]
<1>5. g \in [Movers \X (1 .. n) -> Movers]
  BY <1>2
<1>6. PICK f : Walks(Movers, base, g, f, n)
  <2> HIDE DEF g, base
  <2> QED
    BY <1>2, <1>5, WalkExists
<1>7. f \in [0 .. n -> Movers] /\ f[0] = base
  BY <1>6 DEF Walks
<1> HIDE DEF base
<1> DEFINE S == {i \in 0 .. n : MoveOK(s, i, f[i])}
<1>8. ASSUME NEW i \in 1 .. n, MoveOK(s, i - 1, f[i - 1])
      PROVE  f[i] = Move(s, f[i - 1], i)
  <2>1. Move(s, f[i - 1], i) \in Movers /\ f[i - 1] \in Movers
    BY <1>4, <1>8 DEF MoveOK
  <2>2. f[i] = g[<<f[i - 1], i>>]
    BY <1>6 DEF Walks
  <2> QED
    BY <2>1, <2>2
<1> HIDE DEF g
<1>9. 0 .. n \subseteq S
  <2>1. 0 \in S
    BY <1>3, <1>7
  <2>2. ASSUME NEW i \in 1 .. n, i - 1 \in S PROVE i \in S
    <3>1. MoveOK(s, i - 1, f[i - 1]) /\ i \in 0 .. n
      BY <2>2
    <3>2. MoveOK(s, i, Move(s, f[i - 1], i))
      BY <1>4, <3>1
    <3> QED
      BY <1>8, <3>1, <3>2
  <2> HIDE DEF S
  <2> QED
    BY <2>1, <2>2, Upward
<1>10. \A i \in 1 .. n : f[i] = Move(s, f[i - 1], i)
  <2> TAKE i \in 1 .. n
  <2>1. i - 1 \in S
    <3>1. i - 1 \in 0 .. n
      OBVIOUS
    <3> HIDE DEF S
    <3> QED
      BY <1>9, <3>1
  <2> QED
    BY <1>8, <2>1
<1>11. IsMoved(s, f)
  <2>1. \A i \in 0 .. n : f[i] = IF i = 0 THEN base ELSE Move(s, f[i - 1], i)
    BY <1>7, <1>10
  <2>2. f = [i \in 0 .. n |-> IF i = 0 THEN base ELSE Move(s, f[i - 1], i)]
    BY <1>7, <2>1
  <2> QED
    BY <1>1, <2>2 DEF IsMoved, base
<1>12. Moved(s) = CHOOSE e : IsMoved(s, e)
  BY DEF Moved, IsMoved
<1> DEFINE M == Moved(s)
<1>13. IsMoved(s, M)
  BY <1>11, <1>12
<1> HIDE DEF M
<1>14. M[0] = base /\ \A i \in 1 .. n : M[i] = Move(s, M[i - 1], i)
  <2>1. M = [i \in 0 .. n |-> IF i = 0 THEN base ELSE Move(s, M[i - 1], i)]
    BY <1>1, <1>13 DEF IsMoved, base
  <2>2. \A i \in 0 .. n : M[i] = IF i = 0 THEN base ELSE Move(s, M[i - 1], i)
    BY <2>1
  <2>3. 0 \in 0 .. n /\ \A i \in 1 .. n : i \in 0 .. n /\ i # 0
    OBVIOUS
  <2> QED
    BY <2>2, <2>3
<1> DEFINE T == {i \in 0 .. n : MoveOK(s, i, M[i])}
<1>15. 0 .. n \subseteq T
  <2>1. 0 \in T
    BY <1>3, <1>14
  <2>2. ASSUME NEW i \in 1 .. n, i - 1 \in T PROVE i \in T
    <3>1. MoveOK(s, i - 1, M[i - 1]) /\ i \in 0 .. n
      BY <2>2
    <3>2. MoveOK(s, i, Move(s, M[i - 1], i))
      BY <1>4, <3>1
    <3> QED
      BY <1>14, <3>1, <3>2
  <2> HIDE DEF T
  <2> QED
    BY <2>1, <2>2, Upward
<1>16. n \in T
  <2>1. n \in 0 .. n
    OBVIOUS
  <2> HIDE DEF T
  <2> QED
    BY <1>15, <2>1
<1> QED
  BY <1>1, <1>16 DEF M

(* What is in an object's segment.                                         *)
LEMMA SameStored ==
  ASSUME NEW s, NEW r, NEW o, SameContents(s, r, o)
  PROVE  Stored(r, o) = Stored(s, o)
BY DEF SameContents, Stored, ReadFile

(* A compacted swap file is as good, and what is in it is the same.        *)
LEMMA CompactIs ==
  ASSUME NEW s \in SwapState, SwapOK(s, Out)
  PROVE  /\ Compact(s) \in SwapState /\ SwapOK(Compact(s), Out)
         /\ \A o \in Out : SameContents(s, Compact(s), o)
<1>1. PICK w, n : n = Len(s.seg) /\ w = Moved(s)[n]
  OBVIOUS
<1>2. MoveOK(s, n, w)
  BY <1>1, MovedIs
<1>3. /\ w.out \in Seq(Segments) /\ w.file \in [1 .. Quota -> Value] /\ w.pos \in Nat
      /\ w.loc \in [Object -> Int] /\ Len(w.out) \in Nat
  BY <1>2, LenProperties DEF MoveOK, Movers
<1>4. s.top \in Nat /\ s.max \in Nat /\ s.top + s.max = Quota /\ s.top = SegEnd(s.seg, n)
      /\ n \in Nat
  BY <1>1, SwapIs DEF SwapOK, SwapState
<1>5. w.pos <= s.top /\ w.pos = SegEnd(w.out, Len(w.out))
  BY <1>2, <1>4 DEF MoveOK
<1> DEFINE c == Compact(s)
<1>6. c = [seg |-> w.out, file |-> w.file, top |-> w.pos,
           max |-> s.max + s.top - w.pos, loc |-> w.loc]
  BY <1>1 DEF Compact
<1>7. s.max + s.top - w.pos \in Nat /\ w.pos + (s.max + s.top - w.pos) = Quota
  BY <1>3, <1>4, <1>5
<1>8. c \in SwapState
  BY <1>3, <1>6, <1>7 DEF SwapState
<1> HIDE DEF c
<1>9. /\ c.seg = w.out /\ c.file = w.file /\ c.top = w.pos /\ c.loc = w.loc
      /\ c.top + c.max = Quota
  BY <1>6, <1>7
<1>10. ASSUME NEW o \in Out
       PROVE  MovedObj(s, w, o) /\ s.loc[o] <= n
  <2>1. s.loc[o] \in 1 .. n
    BY <1>1, <1>10 DEF SwapOK
  <2>2. s.loc[o] <= n
    BY <1>4, <2>1
  <2> QED
    BY <1>2, <1>10, <2>2 DEF MoveOK
<1>11. ASSUME NEW m \in 1 .. Len(w.out)
       PROVE  MovedSeg(s, n, w, m) /\ w.out[m].osz <= w.out[m].siz
  <2>1. MovedSeg(s, n, w, m)
    BY <1>2, <1>11 DEF MoveOK
  <2>2. w.out[m].siz \in Nat
    <3>1. w.out[m] \in Segments
      BY <1>3, <1>11, ElementOfSeq
    <3> QED
      BY <3>1 DEF Segments
  <2> QED
    BY <2>1, <2>2 DEF MovedSeg
<1>12. ASSUME NEW o \in Out
       PROVE  /\ c.loc[o] \in 1 .. Len(c.seg) /\ c.seg[c.loc[o]].use
              /\ c.seg[c.loc[o]].obj = o /\ SameContents(s, c, o)
  <2>1. MovedObj(s, w, o)
    BY <1>10, <1>12
  <2>2. w.loc[o] \in 1 .. Len(w.out) /\ w.out[w.loc[o]].obj = o
    BY ONLY <2>1 DEF MovedObj
  <2>3. w.out[w.loc[o]].use
    BY <1>11, <2>2 DEF MovedSeg
  <2>4. SameContents(s, c, o)
    BY ONLY <1>9, <2>1 DEF MovedObj, SameContents
  <2> QED
    BY ONLY <1>9, <2>2, <2>3, <2>4
<1>13. ASSUME NEW m \in 1 .. Len(c.seg)
       PROVE  /\ c.seg[m].obj \in Out /\ c.loc[c.seg[m].obj] = m
              /\ c.seg[m].osz <= c.seg[m].siz /\ c.seg[m].ptr = SegEnd(c.seg, m - 1)
  BY <1>9, <1>11, <1>13 DEF MovedSeg
<1>14. SwapOK(c, Out)
  BY <1>5, <1>8, <1>9, <1>12, <1>13 DEF SwapOK, SwapState
<1> QED
  BY <1>8, <1>12, <1>14 DEF c

\* The object o, with contents d, is out, and what others have in the file stays.
WentOut(s, o, d, r) ==
  /\ r \in SwapState /\ r.loc[o] # NoSeg
  /\ SwapOK(r, Out \cup {o}) /\ Stored(r, o) = d
  /\ \A p \in Out : Stored(r, p) = Stored(s, p)
\* There was no room for it.
StayedIn(s, o, r) ==
  /\ r \in SwapState /\ r.loc[o] = NoSeg /\ SwapOK(r, Out)
  /\ \A p \in Out : Stored(r, p) = Stored(s, p)

(* What a file and segment hold is read back.                              *)
LEMMA ReadIs ==
  ASSUME NEW d \in Seq(Value), NEW s, NEW o, s.seg[s.loc[o]].osz = Len(d),
         \A k \in 1 .. Len(d) : s.file[s.seg[s.loc[o]].ptr + k] = d[k]
  PROVE  Stored(s, o) = d
<1>1. PICK r, p, n : r = Stored(s, o) /\ p = s.seg[s.loc[o]].ptr /\ n = Len(d)
  OBVIOUS
<1>2. r = [k \in 1 .. n |-> s.file[p + k]]
  BY <1>1 DEF Stored, ReadFile
<1>3. r = [k \in 1 .. n |-> d[k]]
  BY <1>1, <1>2
<1>4. DOMAIN d = 1 .. n
  BY <1>1, LenProperties
<1>5. d = [k \in 1 .. n |-> d[k]]
  BY <1>4, SeqDef
<1> QED
  BY <1>1, <1>3, <1>5

(* A free segment takes the object.                                        *)
LEMMA IntoSegment ==
  ASSUME NEW s \in SwapState, SwapOK(s, Out), NEW o \in Object \ Out,
         NEW d \in Seq(Value), NEW i \in 1 .. Len(s.seg), ~s.seg[i].use,
         s.seg[i].siz >= Len(d)
  PROVE  WentOut(s, o, d,
           [s EXCEPT !.seg[i] = [@ EXCEPT !.use = TRUE, !.obj = o, !.osz = Len(d)],
                     !.file = WriteFile(@, s.seg[i].ptr, d), !.loc[o] = i])
<1> DEFINE r == [s EXCEPT !.seg[i] = [@ EXCEPT !.use = TRUE, !.obj = o, !.osz = Len(d)],
                     !.file = WriteFile(@, s.seg[i].ptr, d), !.loc[o] = i]
<1>1. PICK n, p, t, q, f : n = Len(d) /\ p = s.seg[i].ptr /\ t = s.seg[i].siz
                           /\ q = s.seg /\ f = WriteFile(s.file, p, d)
  OBVIOUS
<1>2. /\ SegsOK(q) /\ q \in Seq(Segments) /\ Len(q) \in Nat /\ q[i] \in Segments /\ n \in Nat
      /\ p \in Nat /\ t \in Nat /\ n <= t /\ p + t <= Quota /\ i \in 1 .. Len(q)
      /\ p = SegEnd(q, i - 1) /\ SegEnd(q, i) = p + t /\ i \in Nat
      /\ s.file \in [1 .. Quota -> Value] /\ s.loc \in [Object -> Int]
      /\ s.top \in Nat /\ s.max \in Nat /\ Quota \in Nat
  <2>1. SegsOK(q) /\ Len(q) \in Nat /\ i \in 1 .. Len(q)
    BY <1>1, SwapIs
  <2>2. /\ q[i] \in Segments /\ p \in Nat /\ t \in Nat /\ p = SegEnd(q, i - 1)
        /\ SegEnd(q, i) = p + t
    BY <1>1, <2>1, SegIs
  <2>3. p + t <= Quota
    BY <1>1, <2>1, SwapIs
  <2>4. n \in Nat
    BY <1>1, LenProperties
  <2> QED
    BY <1>1, <2>1, <2>2, <2>3, <2>4, ConstantsOK DEF SegsOK, SwapState
<1>3. PICK e, u : /\ e = [q[i] EXCEPT !.use = TRUE, !.obj = o, !.osz = n]
                  /\ u = [q EXCEPT ![i] = e]
  OBVIOUS
<1>4. /\ e \in Segments /\ e.ptr = p /\ e.siz = t /\ e.osz = n /\ e.obj = o /\ e.use
  BY <1>1, <1>2, <1>3 DEF Segments
<1>5. /\ u \in Seq(Segments) /\ Len(u) = Len(q) /\ u[i] = e
      /\ \A k \in 1 .. Len(q) : k # i => u[k] = q[k]
  <2>0. /\ q \in Seq(Segments) /\ i \in 1 .. Len(q) /\ e \in Segments
        /\ u = [q EXCEPT ![i] = e]
    BY <1>2, <1>3, <1>4
  <2>1. \A k \in 1 .. Len(q) : u[k] = IF k = i THEN e ELSE q[k]
    BY ONLY <2>0, ExceptSeq
  <2>2. u \in Seq(Segments) /\ Len(u) = Len(q)
    BY ONLY <2>0, ExceptSeq
  <2> QED
    BY <1>2, <2>1, <2>2
<1>6. Written(s.file, p, d, f)
  <2>1. p + Len(d) <= Quota
    BY <1>1, <1>2
  <2> QED
    BY <1>1, <1>2, <2>1, WriteIs
<1>7. r = [seg |-> u, file |-> f, top |-> s.top, max |-> s.max, loc |-> [s.loc EXCEPT ![o] = i]]
  <2>1. e = [s.seg[i] EXCEPT !.use = TRUE, !.obj = o, !.osz = Len(d)]
    BY <1>1, <1>3
  <2>2. r = [s EXCEPT !.seg[i] = e, !.file = f, !.loc[o] = i]
    BY <1>1, <2>1
  <2>3. u = [s.seg EXCEPT ![i] = e]
    BY <1>1, <1>3
  <2>4. PICK l : l = [s.loc EXCEPT ![o] = i]
    OBVIOUS
  <2>5. r = [s EXCEPT !.seg = u, !.file = f, !.loc = l]
    BY <2>2, <2>3, <2>4
  <2> HIDE DEF r
  <2>6. r = [seg |-> u, file |-> f, top |-> s.top, max |-> s.max, loc |-> l]
    BY <2>5 DEF SwapState
  <2> QED
    BY <2>4, <2>6
<1> HIDE DEF r
<1>8. /\ r.seg = u /\ r.file = f /\ r.top = s.top /\ r.max = s.max
      /\ r.loc[o] = i /\ r.loc \in [Object -> Int] /\ r \in SwapState
      /\ \A x \in Object : x # o => r.loc[x] = s.loc[x]
  <2>1. f \in [1 .. Quota -> Value] /\ i \in Int
    BY <1>2, <1>6 DEF Written
  <2> QED
    BY <1>2, <1>5, <1>7, <2>1 DEF SwapState
<1>9. \A m \in 0 .. Len(q) : SegEnd(u, m) = SegEnd(q, m)
  <2> TAKE m \in 0 .. Len(q)
  <2>1. m = 0 \/ m \in 1 .. Len(q)
    BY <1>2
  <2> QED
    BY <1>1, <1>4, <1>5, <2>1 DEF SegEnd
<1>10. ASSUME NEW x \in Out
       PROVE  /\ r.loc[x] = s.loc[x] /\ x # o /\ s.loc[x] \in 1 .. Len(q) /\ s.loc[x] # i
              /\ q[s.loc[x]].use /\ q[s.loc[x]].obj = x /\ u[s.loc[x]] = q[s.loc[x]]
  <2>1. s.loc[x] \in 1 .. Len(q) /\ q[s.loc[x]].use /\ q[s.loc[x]].obj = x
    BY <1>1, <1>10 DEF SwapOK
  <2>2. x \in Object /\ x # o
    BY <1>10 DEF Out
  <2>3. s.loc[x] # i
    BY <1>1, <2>1
  <2> QED
    BY <1>5, <1>8, <2>1, <2>2, <2>3
<1>11. ASSUME NEW x \in Out
       PROVE  Stored(r, x) = Stored(s, x)
  <2>1. PICK j, b, z : j = s.loc[x] /\ b = q[j].ptr /\ z = q[j].osz
    OBVIOUS
  <2>2. /\ j \in 1 .. Len(q) /\ j # i /\ u[j] = q[j] /\ r.loc[x] = j /\ b \in Nat /\ z \in Nat
        /\ b = SegEnd(q, j - 1) /\ q[j].siz \in Nat /\ z <= q[j].siz
        /\ SegEnd(q, j) = b + q[j].siz /\ b + q[j].siz <= Quota
    <3>1. j \in 1 .. Len(q) /\ j # i /\ u[j] = q[j] /\ r.loc[x] = j
      BY <1>10, <1>11, <2>1
    <3>2. /\ b \in Nat /\ z \in Nat /\ b = SegEnd(q, j - 1) /\ q[j].siz \in Nat
          /\ z <= q[j].siz /\ SegEnd(q, j) = b + q[j].siz
      BY <1>2, <2>1, <3>1, SegIs
    <3>3. b + q[j].siz <= Quota
      BY <1>1, <2>1, <3>1, SwapIs
    <3> QED
      BY <3>1, <3>2, <3>3
  <2>3. b + z <= p \/ b >= p + n
    <3>1. CASE j < i
      <4>1. j \in 0 .. Len(q) /\ i - 1 \in j .. Len(q)
        BY <1>2, <2>2, <3>1
      <4>2. SegEnd(q, j) <= SegEnd(q, i - 1)
        BY <1>2, <4>1, SegEnds
      <4>3. PICK y : y = q[j].siz
        OBVIOUS
      <4>4. b + y <= p /\ z <= y /\ y \in Nat
        BY ONLY <1>2, <2>2, <4>2, <4>3
      <4>5. b \in Nat /\ z \in Nat /\ p \in Nat
        BY <1>2, <2>2
      <4>6. b + z <= p
        BY ONLY <4>4, <4>5
      <4> QED
        BY <4>6
    <3>2. CASE j > i
      <4>1. i \in 0 .. Len(q) /\ j - 1 \in i .. Len(q)
        BY <1>2, <2>2, <3>2
      <4>2. SegEnd(q, i) <= SegEnd(q, j - 1)
        BY <1>2, <4>1, SegEnds
      <4>3. PICK y : y = SegEnd(q, i)
        OBVIOUS
      <4>4. y <= b
        BY <2>2, <4>2, <4>3
      <4>5. y = p + t /\ n <= t /\ p \in Nat /\ n \in Nat /\ t \in Nat
        BY <1>2, <4>3
      <4>6. b \in Nat
        BY <2>2
      <4> QED
        BY ONLY <4>4, <4>5, <4>6
    <3>3. j \in Nat /\ i \in Nat /\ j # i
      BY <1>2, <2>2
    <3> QED
      BY <3>1, <3>2, <3>3
  <2>4. \A k \in 1 .. z : f[b + k] = s.file[b + k]
    <3> TAKE k \in 1 .. z
    <3>1. PICK y : y = b + k
      OBVIOUS
    <3>2. y \in 1 .. Quota /\ (y <= p \/ y > p + n)
      <4>1. z <= q[j].siz /\ b + q[j].siz <= Quota /\ q[j].siz \in Nat /\ b \in Nat /\ z \in Nat
        BY <2>2
      <4>2. b + z <= Quota
        <5>1. PICK w : w = q[j].siz
          OBVIOUS
        <5>2. Quota \in Nat
          BY ConstantsOK
        <5> QED
          BY ONLY <4>1, <5>1, <5>2
      <4>3. Quota \in Nat /\ n \in Nat /\ p \in Nat
        BY <1>2
      <4>4. y \in 1 .. Quota
        BY ONLY <3>1, <4>1, <4>2, <4>3, k \in 1 .. z
      <4> QED
        BY ONLY <2>3, <3>1, <4>1, <4>3, <4>4, k \in 1 .. z
    <3> QED
      BY <1>1, <1>6, <3>1, <3>2 DEF Written
  <2>5. r.loc[x] = j /\ r.seg[j].ptr = b /\ r.seg[j].osz = z /\ r.file = f
    BY <1>8, <2>1, <2>2
  <2>6. Stored(r, x) = [k \in 1 .. z |-> f[b + k]]
    BY <2>5 DEF Stored, ReadFile
  <2>7. Stored(s, x) = [k \in 1 .. z |-> s.file[b + k]]
    BY <1>1, <2>1 DEF Stored, ReadFile
  <2> QED
    BY <2>4, <2>6, <2>7
<1>12. Stored(r, o) = d
  <2>1. r.seg[r.loc[o]] = e
    BY <1>5, <1>8
  <2>2. \A k \in 1 .. Len(d) : r.file[r.seg[r.loc[o]].ptr + k] = d[k]
    BY <1>4, <1>6, <1>8, <2>1 DEF Written
  <2> QED
    BY <1>1, <1>4, <2>1, <2>2, ReadIs
<1>13. SwapOK(r, Out \cup {o})
  <2>1. ASSUME NEW x \in Out \cup {o}
        PROVE  r.loc[x] \in 1 .. Len(u) /\ u[r.loc[x]].use /\ u[r.loc[x]].obj = x
    <3>1. CASE x = o
      BY <1>2, <1>4, <1>5, <1>8, <3>1
    <3>2. CASE x \in Out
      BY <1>5, <1>10, <3>2
    <3> QED
      BY <3>1, <3>2
  <2>2. ASSUME NEW m \in 1 .. Len(u), u[m].use
        PROVE  u[m].obj \in Out \cup {o} /\ r.loc[u[m].obj] = m
    <3>1. CASE m = i
      BY <1>4, <1>5, <1>8, <3>1
    <3>2. CASE m # i
      <4>1. q[m].use /\ u[m] = q[m] /\ m \in 1 .. Len(q)
        BY <1>5, <2>2, <3>2
      <4>2. q[m].obj \in Out /\ s.loc[q[m].obj] = m
        BY <1>1, <4>1 DEF SwapOK
      <4> QED
        BY <1>10, <4>1, <4>2
    <3> QED
      BY <3>1, <3>2
  <2>3. ASSUME NEW m \in 1 .. Len(u)
        PROVE  u[m].osz <= u[m].siz /\ u[m].ptr = SegEnd(u, m - 1)
    <3>1. m \in 1 .. Len(q) /\ m - 1 \in 0 .. Len(q)
      BY <1>2, <1>5
    <3>2. q[m].osz <= q[m].siz /\ q[m].ptr = SegEnd(q, m - 1)
      BY <1>2, <3>1, SegIs
    <3>3. u[m].ptr = q[m].ptr /\ u[m].osz <= u[m].siz
      BY <1>1, <1>2, <1>4, <1>5, <3>1, <3>2
    <3> QED
      BY <1>9, <3>1, <3>2, <3>3
  <2>4. s.top = SegEnd(u, Len(u)) /\ s.top + s.max = Quota
    <3>1. Len(q) \in 0 .. Len(q)
      BY <1>2
    <3> QED
      BY <1>1, <1>5, <1>9, <3>1 DEF SwapOK
  <2>5. u \in Seq(Segments) /\ f \in [1 .. Quota -> Value]
    BY <1>5, <1>6 DEF Written
  <2> QED
    BY <1>2, <1>8, <2>1, <2>2, <2>3, <2>4, <2>5 DEF SwapOK
<1>14. r.loc[o] # NoSeg
  BY <1>2, <1>8 DEF NoSeg
<1>15. WentOut(s, o, d, r)
  BY <1>8, <1>11, <1>12, <1>13, <1>14 DEF WentOut
<1> QED
  BY <1>15 DEF r

(* A new segment takes the object.                                         *)
LEMMA NewSegment ==
  ASSUME NEW s \in SwapState, SwapOK(s, Out), NEW o \in Object \ Out,
         NEW d \in Seq(Value), Len(d) <= s.max
  PROVE  WentOut(s, o, d,
           [s EXCEPT !.seg = Append(@, [ptr |-> s.top, siz |-> Len(d), osz |-> Len(d),
                                        obj |-> o, use |-> TRUE]),
                     !.file = WriteFile(@, s.top, d),
                     !.top = @ + Len(d), !.max = @ - Len(d), !.loc[o] = Len(s.seg) + 1])
<1> DEFINE r == [s EXCEPT !.seg = Append(@, [ptr |-> s.top, siz |-> Len(d), osz |-> Len(d),
                                             obj |-> o, use |-> TRUE]),
                     !.file = WriteFile(@, s.top, d),
                     !.top = @ + Len(d), !.max = @ - Len(d), !.loc[o] = Len(s.seg) + 1]
<1>1. PICK n, p, q, f, e, i, u, l :
        /\ n = Len(d) /\ p = s.top /\ q = s.seg /\ f = WriteFile(s.file, p, d)
        /\ e = [ptr |-> p, siz |-> n, osz |-> n, obj |-> o, use |-> TRUE]
        /\ i = Len(q) + 1 /\ u = Append(q, e) /\ l = [s.loc EXCEPT ![o] = i]
  OBVIOUS
<1>2. /\ SegsOK(q) /\ q \in Seq(Segments) /\ Len(q) \in Nat /\ n \in Nat /\ i \in Nat
      /\ p \in Nat /\ p = SegEnd(q, Len(q)) /\ s.max \in Nat /\ p + s.max = Quota
      /\ n <= s.max /\ s.file \in [1 .. Quota -> Value] /\ s.loc \in [Object -> Int]
      /\ Quota \in Nat
  <2>1. SegsOK(q) /\ Len(q) \in Nat
    BY <1>1, SwapIs
  <2>2. n \in Nat
    BY <1>1, LenProperties
  <2>3. p = SegEnd(q, Len(q)) /\ p + s.max = Quota
    BY <1>1 DEF SwapOK
  <2>4. q \in Seq(Segments) /\ n <= s.max /\ i = Len(q) + 1
    BY <1>1, <2>1 DEF SegsOK
  <2>5. /\ p \in Nat /\ s.max \in Nat /\ s.file \in [1 .. Quota -> Value]
        /\ s.loc \in [Object -> Int]
    BY <1>1 DEF SwapState
  <2> QED
    BY <1>1, <2>1, <2>2, <2>3, <2>4, <2>5, ConstantsOK
<1>3. e \in Segments /\ e.ptr = p /\ e.siz = n /\ e.osz = n /\ e.obj = o /\ e.use
  BY <1>1, <1>2 DEF Segments
<1>4. /\ u \in Seq(Segments) /\ Len(u) = i /\ u[i] = e
      /\ \A k \in 1 .. Len(q) : u[k] = q[k]
  <2>1. q \in Seq(Segments) /\ e \in Segments
    BY <1>2, <1>3
  <2>2. /\ Append(q, e) \in Seq(Segments) /\ Len(Append(q, e)) = Len(q) + 1
        /\ Append(q, e)[Len(q) + 1] = e
        /\ \A k \in 1 .. Len(q) : Append(q, e)[k] = q[k]
    BY <2>1, AppendProperties
  <2> QED
    BY <1>1, <2>2
<1>5. Written(s.file, p, d, f)
  <2>1. p + Len(d) <= Quota
    BY <1>1, <1>2
  <2> QED
    BY <1>1, <1>2, <2>1, WriteIs
<1>6. r = [s EXCEPT !.seg = u, !.file = f, !.top = p + n, !.max = s.max - n, !.loc = l]
  BY <1>1
<1> HIDE DEF r
<1>7. r = [seg |-> u, file |-> f, top |-> p + n, max |-> s.max - n, loc |-> l]
  BY <1>6 DEF SwapState
<1>8. /\ r.seg = u /\ r.file = f /\ r.top = p + n /\ r.max = s.max - n /\ r.loc = l
      /\ r.loc[o] = i /\ r \in SwapState
      /\ \A x \in Object : x # o => r.loc[x] = s.loc[x]
  <2>1. f \in [1 .. Quota -> Value] /\ i \in Int /\ s.max - n \in Nat /\ p + n \in Nat
    BY <1>2, <1>5 DEF Written
  <2>2. l \in [Object -> Int] /\ l[o] = i /\ \A x \in Object : x # o => l[x] = s.loc[x]
    BY <1>1, <1>2, <2>1
  <2> QED
    BY <1>4, <1>7, <2>1, <2>2 DEF SwapState
<1>9. ASSUME NEW m \in 0 .. Len(q) PROVE SegEnd(u, m) = SegEnd(q, m)
  <2>1. m = 0 \/ m \in 1 .. Len(q)
    BY <1>2
  <2> QED
    BY <1>4, <2>1 DEF SegEnd
<1>10. ASSUME NEW x \in Out
       PROVE  /\ r.loc[x] = s.loc[x] /\ s.loc[x] \in 1 .. Len(q) /\ x # o
              /\ q[s.loc[x]].use /\ q[s.loc[x]].obj = x /\ u[s.loc[x]] = q[s.loc[x]]
  <2>1. s.loc[x] \in 1 .. Len(q) /\ q[s.loc[x]].use /\ q[s.loc[x]].obj = x
    BY <1>1, <1>10 DEF SwapOK
  <2>2. x \in Object /\ x # o
    BY <1>10 DEF Out
  <2> QED
    BY <1>4, <1>8, <2>1, <2>2
<1>11. ASSUME NEW x \in Out
       PROVE  Stored(r, x) = Stored(s, x)
  <2>1. PICK j, b, z, y : j = s.loc[x] /\ b = q[j].ptr /\ z = q[j].osz /\ y = q[j].siz
    OBVIOUS
  <2>2. j \in 1 .. Len(q) /\ u[j] = q[j] /\ r.loc[x] = j
    BY <1>10, <1>11, <2>1
  <2>3. b \in Nat /\ z \in Nat /\ y \in Nat /\ z <= y /\ SegEnd(q, j) = b + y
    BY <1>2, <2>1, <2>2, SegIs
  <2>4. SegEnd(q, j) <= p
    <3>1. j \in 0 .. Len(q) /\ Len(q) \in j .. Len(q)
      BY <1>2, <2>2
    <3> QED
      BY <1>2, <3>1, SegEnds
  <2>5. b + y <= p
    BY <2>3, <2>4
  <2>6. ASSUME NEW k \in 1 .. z PROVE f[b + k] = s.file[b + k]
    <3>1. PICK a : a = b + k
      OBVIOUS
    <3>2. a <= p
      BY <1>2, <2>3, <2>5, <3>1
    <3>3. p <= Quota
      BY <1>2
    <3>4. a \in 1 .. Quota
      BY <1>2, <2>3, <3>1, <3>2, <3>3
    <3> QED
      BY <1>5, <3>1, <3>2, <3>4 DEF Written
  <2>7. r.loc[x] = j /\ r.seg[j].ptr = b /\ r.seg[j].osz = z /\ r.file = f
    BY <1>8, <2>1, <2>2
  <2>8. Stored(r, x) = [k \in 1 .. z |-> f[b + k]]
    BY <2>7 DEF Stored, ReadFile
  <2>9. Stored(s, x) = [k \in 1 .. z |-> s.file[b + k]]
    BY <1>1, <2>1 DEF Stored, ReadFile
  <2> QED
    BY <2>6, <2>8, <2>9
<1>12. Stored(r, o) = d
  <2>1. r.seg[r.loc[o]] = e
    BY <1>4, <1>8
  <2>2. \A k \in 1 .. Len(d) : r.file[r.seg[r.loc[o]].ptr + k] = d[k]
    BY <1>3, <1>5, <1>8, <2>1 DEF Written
  <2> QED
    BY <1>1, <1>3, <2>1, <2>2, ReadIs
<1>13. SwapOK(r, Out \cup {o})
  <2>1. ASSUME NEW x \in Out \cup {o}
        PROVE  r.loc[x] \in 1 .. Len(u) /\ u[r.loc[x]].use /\ u[r.loc[x]].obj = x
    <3>1. CASE x = o
      BY <1>1, <1>2, <1>3, <1>4, <1>8, <3>1
    <3>2. CASE x \in Out
      <4>1. 1 .. Len(q) \subseteq 1 .. Len(u)
        BY <1>1, <1>2, <1>4
      <4> QED
        BY <1>10, <3>2, <4>1
    <3> QED
      BY <3>1, <3>2
  <2>2. \A m \in 1 .. Len(u) : m = i \/ m \in 1 .. Len(q)
    BY <1>1, <1>2, <1>4
  <2>3. ASSUME NEW m \in 1 .. Len(u), u[m].use
        PROVE  u[m].obj \in Out \cup {o} /\ r.loc[u[m].obj] = m
    <3>1. CASE m = i
      BY <1>3, <1>4, <1>8, <3>1
    <3>2. CASE m \in 1 .. Len(q)
      <4>1. q[m].use /\ u[m] = q[m]
        BY <1>4, <2>3, <3>2
      <4>2. q[m].obj \in Out /\ s.loc[q[m].obj] = m
        BY <1>1, <3>2, <4>1 DEF SwapOK
      <4> QED
        BY <1>10, <4>1, <4>2
    <3> QED
      BY <2>2, <3>1, <3>2
  <2>4. ASSUME NEW m \in 1 .. Len(u)
        PROVE  u[m].osz <= u[m].siz /\ u[m].ptr = SegEnd(u, m - 1)
    <3>1. CASE m = i
      <4>1. m - 1 = Len(q) /\ m - 1 \in 0 .. Len(q)
        BY <1>1, <1>2, <3>1
      <4>2. SegEnd(u, m - 1) = p
        BY <1>2, <1>9, <4>1
      <4>3. n <= n
        BY <1>2
      <4> QED
        BY <1>3, <1>4, <3>1, <4>2, <4>3
    <3>2. CASE m \in 1 .. Len(q)
      <4>1. m - 1 \in 0 .. Len(q)
        BY <1>2, <3>2
      <4>2. q[m].osz <= q[m].siz /\ q[m].ptr = SegEnd(q, m - 1)
        BY <1>2, <3>2, SegIs
      <4> QED
        BY <1>4, <1>9, <3>2, <4>1, <4>2
    <3> QED
      BY <2>2, <3>1, <3>2
  <2>5. p + n = SegEnd(u, Len(u)) /\ p + n + (s.max - n) = Quota
    <3>1. SegEnd(u, i) = e.ptr + e.siz
      BY <1>1, <1>2, <1>4 DEF SegEnd
    <3> QED
      BY <1>2, <1>3, <1>4, <3>1
  <2>6. u \in Seq(Segments) /\ f \in [1 .. Quota -> Value]
    BY <1>4, <1>5 DEF Written
  <2>7. r.top \in Nat /\ r.max \in Nat /\ r.loc \in [Object -> Int]
    BY <1>8 DEF SwapState
  <2> QED
    BY <1>8, <2>1, <2>3, <2>4, <2>5, <2>6, <2>7 DEF SwapOK
<1>14. r.loc[o] # NoSeg
  BY <1>1, <1>2, <1>8 DEF NoSeg
<1>15. WentOut(s, o, d, r)
  BY <1>8, <1>11, <1>12, <1>13, <1>14 DEF WentOut
<1> QED
  BY <1>15 DEF r

\* In r the handle of o has become v; nobody's segment was concerned.
Handled(s, P, o, v, r) ==
  /\ r \in SwapState /\ SwapOK(r, P) /\ r.loc[o] = v
  /\ \A p \in P : Stored(r, p) = Stored(s, p)
(* The swap handle of an object that is not swapped out.                   *)
LEMMA HandleOK ==
  ASSUME NEW s \in SwapState, NEW P, P \subseteq Object, SwapOK(s, P), NEW o \in Object \ P,
         NEW v \in Int, NEW r, r = [s EXCEPT !.loc[o] = v]
  PROVE  Handled(s, P, o, v, r)
<1>1. PICK l : l = [s.loc EXCEPT ![o] = v]
  OBVIOUS
<1>2. r = [s EXCEPT !.loc = l]
  BY <1>1
<1>3. s.loc \in [Object -> Int]
  BY DEF SwapState
<1>4. l \in [Object -> Int] /\ l[o] = v /\ \A p \in P : p # o /\ p \in Object
  BY <1>1, <1>3
<1>5. \A p \in P : l[p] = s.loc[p]
  BY <1>1, <1>3, <1>4
<1>6. /\ r \in SwapState /\ r.seg = s.seg /\ r.file = s.file /\ r.top = s.top
      /\ r.max = s.max /\ r.loc = l
  BY <1>2, <1>4 DEF SwapState
<1>7. \A p \in P : Stored(r, p) = Stored(s, p)
  BY <1>5, <1>6 DEF Stored
<1>8. ASSUME NEW p \in P
      PROVE  l[p] \in 1 .. Len(s.seg) /\ s.seg[l[p]].use /\ s.seg[l[p]].obj = p
  <2>1. s.loc[p] \in 1 .. Len(s.seg) /\ s.seg[s.loc[p]].use /\ s.seg[s.loc[p]].obj = p
    BY <1>8 DEF SwapOK
  <2> QED
    BY <1>5, <2>1
<1>9. ASSUME NEW m \in 1 .. Len(s.seg), s.seg[m].use
      PROVE  s.seg[m].obj \in P /\ l[s.seg[m].obj] = m
  <2>1. s.seg[m].obj \in P /\ s.loc[s.seg[m].obj] = m
    BY <1>9 DEF SwapOK
  <2> QED
    BY <1>5, <2>1
<1>10. /\ s.seg \in Seq(Segments) /\ s.file \in [1 .. Quota -> Value]
       /\ s.top \in Nat /\ s.max \in Nat
       /\ \A m \in 1 .. Len(s.seg) :
            s.seg[m].osz <= s.seg[m].siz /\ s.seg[m].ptr = SegEnd(s.seg, m - 1)
       /\ s.top = SegEnd(s.seg, Len(s.seg)) /\ s.top + s.max = Quota
  BY DEF SwapOK
<1>11. SwapOK(r, P)
  <2>1. PICK q : q = s.seg
    OBVIOUS
  <2>2. \A p \in P : l[p] \in 1 .. Len(q) /\ q[l[p]].use /\ q[l[p]].obj = p
    BY <1>8, <2>1
  <2>3. \A m \in 1 .. Len(q) : q[m].use => q[m].obj \in P /\ l[q[m].obj] = m
    BY <1>9, <2>1
  <2>4. /\ q \in Seq(Segments)
        /\ \A m \in 1 .. Len(q) : q[m].osz <= q[m].siz /\ q[m].ptr = SegEnd(q, m - 1)
        /\ s.top = SegEnd(q, Len(q))
    BY <1>10, <2>1
  <2>5. /\ r.seg = q /\ r.loc = l /\ l \in [Object -> Int]
        /\ r.file \in [1 .. Quota -> Value] /\ r.top = s.top
        /\ r.top \in Nat /\ r.max \in Nat /\ r.top + r.max = Quota
    BY <1>4, <1>6, <1>10, <2>1
  <2> QED
    BY ONLY <2>2, <2>3, <2>4, <2>5 DEF SwapOK
<1> QED
  BY <1>4, <1>6, <1>7, <1>11 DEF Handled

\* In r object o's segment is free.
Released(s, P, o, r) ==
  /\ r \in SwapState /\ SwapOK(r, P \ {o})
  /\ \A p \in P \ {o} : Stored(r, p) = Stored(s, p)
Release(s, o) == [s EXCEPT !.seg[s.loc[o]].use = FALSE]
(* An object that was read back gives up its segment.                      *)
LEMMA ReleaseOK ==
  ASSUME NEW s \in SwapState, NEW P, P \subseteq Object, SwapOK(s, P), NEW o \in P,
         NEW r, r = Release(s, o)
  PROVE  Released(s, P, o, r)
<1>1. PICK q, i : q = s.seg /\ i = s.loc[o]
  OBVIOUS
<1>2. /\ q \in Seq(Segments) /\ i \in 1 .. Len(q) /\ q[i].use /\ q[i].obj = o
      /\ Len(q) \in Nat /\ q[i] \in Segments
  <2>1. q \in Seq(Segments) /\ i \in 1 .. Len(q) /\ q[i].use /\ q[i].obj = o
    BY <1>1 DEF SwapOK
  <2> QED
    BY <2>1, LenProperties, ElementOfSeq
<1>3. PICK e : e = [q[i] EXCEPT !.use = FALSE]
  OBVIOUS
<1>4. /\ e \in Segments /\ ~e.use /\ e.ptr = q[i].ptr /\ e.siz = q[i].siz
      /\ e.osz = q[i].osz
  BY <1>2, <1>3 DEF Segments
<1>5. PICK u : u = [q EXCEPT ![i] = e]
  OBVIOUS
<1>6. u \in Seq(Segments) /\ Len(u) = Len(q) /\ u[i] = e
  BY <1>2, <1>4, <1>5, ExceptSeq
<1>7. \A k \in 1 .. Len(q) : u[k] = IF k = i THEN e ELSE q[k]
  BY <1>2, <1>4, <1>5, ExceptSeq
<1>8. r = [s EXCEPT !.seg = u]
  BY <1>1, <1>3, <1>5 DEF Release
<1>9. /\ r \in SwapState /\ r.seg = u /\ r.file = s.file /\ r.top = s.top
      /\ r.max = s.max /\ r.loc = s.loc
  BY <1>6, <1>8 DEF SwapState
<1>10. \A k \in 1 .. Len(q) :
         u[k].ptr = q[k].ptr /\ u[k].siz = q[k].siz /\ u[k].osz = q[k].osz
  BY <1>4, <1>7
<1>11. ASSUME NEW p \in P
       PROVE  /\ s.loc[p] \in 1 .. Len(q) /\ q[s.loc[p]].use /\ q[s.loc[p]].obj = p
              /\ Stored(r, p) = Stored(s, p)
  <2>1. s.loc[p] \in 1 .. Len(q) /\ q[s.loc[p]].use /\ q[s.loc[p]].obj = p
    BY <1>1, <1>11 DEF SwapOK
  <2>2. Stored(r, p) = Stored(s, p)
    BY <1>1, <1>9, <1>10, <2>1 DEF Stored
  <2> QED
    BY <2>1, <2>2
<1>12. ASSUME NEW p \in P \ {o}
       PROVE  s.loc[p] \in 1 .. Len(u) /\ u[s.loc[p]].use /\ u[s.loc[p]].obj = p
  <2>1. s.loc[p] # i
    BY <1>2, <1>11, <1>12
  <2> QED
    BY <1>6, <1>7, <1>11, <1>12, <2>1
<1>13. ASSUME NEW m \in 1 .. Len(u), u[m].use
       PROVE  u[m].obj \in P \ {o} /\ s.loc[u[m].obj] = m
  <2>1. m # i /\ u[m] = q[m] /\ m \in 1 .. Len(q)
    BY <1>4, <1>6, <1>7, <1>13
  <2>2. q[m].obj \in P /\ s.loc[q[m].obj] = m
    BY <1>1, <1>13, <2>1 DEF SwapOK
  <2> QED
    BY <1>1, <2>1, <2>2
<1>14. ASSUME NEW m \in 0 .. Len(q) PROVE SegEnd(u, m) = SegEnd(q, m)
  <2>1. m = 0 \/ m \in 1 .. Len(q)
    BY <1>2
  <2> QED
    BY <1>10, <2>1 DEF SegEnd
<1>15. ASSUME NEW m \in 1 .. Len(u)
       PROVE  u[m].osz <= u[m].siz /\ u[m].ptr = SegEnd(u, m - 1)
  <2>1. m \in 1 .. Len(q) /\ m - 1 \in 0 .. Len(q)
    BY <1>2, <1>6
  <2>2. q[m].osz <= q[m].siz /\ q[m].ptr = SegEnd(q, m - 1)
    BY <1>1, <2>1 DEF SwapOK
  <2> QED
    BY <1>10, <1>14, <2>1, <2>2
<1>16. s.top = SegEnd(u, Len(u)) /\ s.top + s.max = Quota
  <2>1. Len(q) \in 0 .. Len(q)
    BY <1>2
  <2> QED
    BY <1>1, <1>6, <1>14, <2>1 DEF SwapOK
<1>17. s.file \in [1 .. Quota -> Value] /\ s.top \in Nat /\ s.max \in Nat
       /\ s.loc \in [Object -> Int]
  BY DEF SwapState
<1>18. SwapOK(r, P \ {o})
  BY ONLY <1>6, <1>9, <1>12, <1>13, <1>15, <1>16, <1>17 DEF SwapOK
<1> QED
  BY <1>9, <1>11, <1>18 DEF Released

(* mcsout of an object that has no segment: it goes out, or there was no room. *)
LEMMA SwapOutIs ==
  ASSUME NEW s \in SwapState, SwapOK(s, Out), NEW o \in Object \ Out,
         NEW d \in Seq(Value), NEW dirty
  PROVE  \/ WentOut(s, o, d, SwapOut(s, o, d, NoSeg, dirty))
         \/ StayedIn(s, o, SwapOut(s, o, d, NoSeg, dirty))
<1> DEFINE free == {i \in DOMAIN s.seg : ~s.seg[i].use /\ s.seg[i].siz >= Len(d)}
           best == {i \in free : \A j \in free : s.seg[i].siz <= s.seg[j].siz}
           c == IF Len(d) > s.max THEN Compact(s) ELSE s
           full == [c EXCEPT !.loc[o] = NoSeg]
           old == [s EXCEPT !.seg[Min(best)] = [@ EXCEPT !.use = TRUE, !.obj = o, !.osz = Len(d)],
                            !.file = WriteFile(@, s.seg[Min(best)].ptr, d),
                            !.loc[o] = Min(best)]
           new == [c EXCEPT !.seg = Append(@, [ptr |-> c.top, siz |-> Len(d), osz |-> Len(d),
                                               obj |-> o, use |-> TRUE]),
                            !.file = WriteFile(@, c.top, d),
                            !.top = @ + Len(d), !.max = @ - Len(d), !.loc[o] = Len(c.seg) + 1]
           r == SwapOut(s, o, d, NoSeg, dirty)
<1>1. r = IF best # {} THEN old ELSE IF Len(d) > c.max THEN full ELSE new
  BY DEF SwapOut
<1>2. Len(s.seg) \in Nat /\ DOMAIN s.seg = 1 .. Len(s.seg) /\ Len(d) \in Nat
  BY LenProperties DEF SwapState
<1>3. CASE best # {}
  <2>1. PICK i : i = Min(best)
    OBVIOUS
  <2>2. best \subseteq Nat
    BY <1>2
  <2>3. \E x \in best : \A y \in best : x <= y
    <3> HIDE DEF best
    <3> QED
      BY <1>3, <2>2, HasLeast
  <2>4. i \in best
    <3> HIDE DEF best
    <3> QED
      BY <2>1, <2>3 DEF Min
  <2>5. i \in 1 .. Len(s.seg) /\ ~s.seg[i].use /\ s.seg[i].siz >= Len(d)
    BY <1>2, <2>4
  <2>6. r = [s EXCEPT !.seg[i] = [@ EXCEPT !.use = TRUE, !.obj = o, !.osz = Len(d)],
                      !.file = WriteFile(@, s.seg[i].ptr, d), !.loc[o] = i]
    BY <1>1, <1>3, <2>1
  <2> HIDE DEF r, best, free, c, full, old, new
  <2>7. WentOut(s, o, d, [s EXCEPT
          !.seg[i] = [@ EXCEPT !.use = TRUE, !.obj = o, !.osz = Len(d)],
          !.file = WriteFile(@, s.seg[i].ptr, d), !.loc[o] = i])
    BY <2>5, IntoSegment
  <2>8. WentOut(s, o, d, r)
    BY <2>6, <2>7
  <2> QED
    BY <2>8 DEF r
<1>4. CASE best = {}
  <2>1. r = IF Len(d) > c.max THEN full ELSE new
    BY <1>1, <1>4
  <2>2. c \in SwapState /\ SwapOK(c, Out) /\ \A p \in Out : Stored(c, p) = Stored(s, p)
    <3>1. CASE Len(d) > s.max
      <4>1. c = Compact(s)
        BY <3>1
      <4> HIDE DEF c
      <4>2. c \in SwapState /\ SwapOK(c, Out) /\ \A p \in Out : SameContents(s, c, p)
        BY <4>1, CompactIs
      <4> QED
        BY <4>2, SameStored
    <3>2. CASE ~(Len(d) > s.max)
      <4>1. c = s
        BY <3>2
      <4> HIDE DEF c
      <4> QED
        BY <4>1
    <3> QED
      BY <3>1, <3>2
  <2> HIDE DEF c, r, best, free, old
  <2>3. CASE Len(d) > c.max
    <3>1. r = full
      BY <2>1, <2>3
    <3>2. NoSeg \in Int /\ Out \subseteq Object
      BY DEF NoSeg, Out
    <3>3. Handled(c, Out, o, NoSeg, r)
      BY <2>2, <3>1, <3>2, HandleOK
    <3>4. StayedIn(s, o, r)
      BY <2>2, <3>3 DEF StayedIn, Handled
    <3> QED
      BY <3>4 DEF r
  <2>4. CASE ~(Len(d) > c.max)
    <3>1. r = new
      BY <2>1, <2>4
    <3>2. Len(d) <= c.max
      <4>1. c.max \in Nat
        BY <2>2 DEF SwapState
      <4> QED
        BY <1>2, <2>4, <4>1
    <3>3. WentOut(c, o, d, new)
      BY <2>2, <3>2, NewSegment
    <3> HIDE DEF new
    <3>4. WentOut(s, o, d, new)
      BY <2>2, <3>3 DEF WentOut
    <3>5. WentOut(s, o, d, r)
      BY <3>1, <3>4
    <3> QED
      BY <3>5 DEF r
  <2> QED
    BY <2>3, <2>4
<1> QED
  BY <1>3, <1>4

------------------------------------------------------------------------------
(* What the steps do to the heap.                                          *)

\* Object o keeps its block and its place.
Undisturbed(h, g, o) ==
  SameBlock(h, g, o) /\ \A k : Sits(h, o, k) => Place(g, o) = Place(h, o)

(* From heap to heap.                                                      *)
LEMMA UndisturbedTwice ==
  ASSUME NEW f, NEW g, NEW h, NEW o, Undisturbed(f, g, o), Undisturbed(g, h, o)
  PROVE  Undisturbed(f, h, o)
<1>1. SameBlock(f, h, o)
  BY SameBlockTwice DEF Undisturbed
<1>2. ASSUME NEW k, Sits(f, o, k)
      PROVE  Place(h, o) = Place(f, o)
  <2>1. PICK l : Sits(g, o, l)
    BY <1>2 DEF SameBlock, Undisturbed
  <2>2. Place(h, o) = Place(g, o)
    BY <2>1 DEF Undisturbed
  <2>3. Place(g, o) = Place(f, o)
    BY <1>2 DEF Undisturbed
  <2> QED
    BY <2>2, <2>3
<1> QED
  BY <1>1, <1>2 DEF Undisturbed

(* The heap that stays as it is.                                           *)
LEMMA UndisturbedSelf ==
  ASSUME NEW h, NEW o
  PROVE  SameBlock(h, h, o) /\ Undisturbed(h, h, o)
BY DEF SameBlock, Undisturbed

(* Objects that have no block among those replaced.                        *)
LEMMA OthersUndisturbed ==
  ASSUME NEW h \in Seq(Blocks), NEW g \in Seq(Blocks), NEW i, NEW j, NEW c,
         Refilled(h, g, i, j, c), NEW o,
         \A k \in i .. j : h[k].own # o, \A k \in i .. j + c : g[k].own # o
  PROVE  Undisturbed(h, g, o)
<1>1. SameBlock(h, g, o)
  BY OthersStay DEF Refilled
<1>2. ASSUME NEW k, Sits(h, o, k)
      PROVE  Place(g, o) = Place(h, o)
  BY <1>2, OthersKeepPlaces
<1> QED
  BY <1>1, <1>2 DEF Undisturbed

(* mcmsplt leaves everybody where he is.                                   *)
LEMMA SplitUndisturbed ==
  ASSUME NEW h, Heap(h), NEW i \in 1 .. Len(h), h[i].own # End,
         NEW n \in Nat, n <= Len(h[i].data), NEW g, g = SplitAt(h, i, n)
  PROVE  /\ \E c : Refilled(h, g, i, i, c)
         /\ \A o \in Object : o # h[i].own => Undisturbed(h, g, o)
<1>1. /\ Heap(g) /\ i \in 1 .. Len(g) /\ g[i].own = h[i].own
      /\ \/ g = h /\ Changed(h, g, i, i, 0)
         \/ /\ Changed(h, g, i, i, 1) /\ g[i + 1].own = Free
            /\ Room(g[i]) + Room(g[i + 1]) = Room(h[i])
  BY SplitIs
<1>2. h \in Seq(Blocks) /\ g \in Seq(Blocks) /\ Len(h) \in Nat /\ Len(g) \in Nat
  BY <1>1, HeapBlocks DEF Heap
<1>3. CASE g = h /\ Changed(h, g, i, i, 0)
  <2>1. i + 0 = i
    BY <1>2
  <2>2. Refilled(h, g, i, i, 0)
    BY <1>3, <2>1 DEF Refilled
  <2> QED
    BY <1>3, <2>2, UndisturbedSelf
<1>4. CASE /\ Changed(h, g, i, i, 1) /\ g[i + 1].own = Free
           /\ Room(g[i]) + Room(g[i + 1]) = Room(h[i])
  <2>1. Len(g) = Len(h) + 1
    BY <1>4 DEF Changed
  <2>2. i \in 1 .. Len(g) /\ i < Len(g)
    BY <1>2, <2>1
  <2>3. Extent(h, i, i) = Room(h[i])
    BY <1>2, ExtentIs
  <2>6. Extent(g, i, i + 1) = Room(g[i]) + Room(g[i + 1])
    BY <1>2, <2>2, ExtentIs
  <2>4. Refilled(h, g, i, i, 1)
    BY <1>4, <2>3, <2>6 DEF Refilled
  <2>5. ASSUME NEW o \in Object, o # h[i].own
        PROVE  Undisturbed(h, g, o)
    <3>1. o # Free
      BY ConstantsOK
    <3>2. \A k \in i .. i : h[k].own # o
      BY <1>2, <2>5
    <3>3. \A k \in i .. i + 1 : g[k].own # o
      BY <1>1, <1>2, <1>4, <2>5, <3>1
    <3> QED
      BY <1>2, <2>4, <3>2, <3>3, OthersUndisturbed
  <2> QED
    BY <2>4, <2>5
<1> QED
  BY <1>1, <1>3, <1>4

\* Block b, of the same size, in the place of block i.
IsExchanged(h, g, i, b) ==
  /\ Heap(g) /\ g[i] = b /\ i \in 1 .. Len(g) /\ Len(g) = Len(h)
  /\ \A k \in 1 .. Len(h) : k # i => g[k] = h[k]
  /\ \A o \in Object \ {h[i].own, b.own} : Undisturbed(h, g, o)
  /\ \A o : Absent(h, o) /\ b.own = o => Sits(g, o, i)
  /\ \A o : Sits(h, o, i) /\ b.own = o =>
       Sits(g, o, i) /\ Place(g, o) = Place(h, o)
  /\ \A o : Sits(h, o, i) /\ b.own # o => Absent(g, o)
(* A block of the same size in the place of block i.                       *)
LEMMA ReplaceUndisturbed ==
  ASSUME NEW h, Heap(h), NEW i \in 1 .. Len(h), h[i].own # End,
         NEW b \in Blocks, b.own # End, Len(b.data) = Len(h[i].data),
         NEW g, g = [h EXCEPT ![i] = b]
  PROVE  IsExchanged(h, g, i, b)
<1>1. /\ Heap(g) /\ Len(g) = Len(h) /\ g[i] = b /\ Changed(h, g, i, i, 0)
      /\ \A k \in 1 .. Len(h) : k # i => g[k] = h[k]
      /\ \A o : Absent(h, o) /\ b.own = o => Sits(g, o, i)
      /\ \A o : Sits(h, o, i) /\ b.own = o => Sits(g, o, i)
      /\ \A o : Sits(h, o, i) /\ b.own # o => Absent(g, o)
  <2>1. IsReplaced(h, g, i, b)
    BY BlockReplaced
  <2> QED
    BY <2>1 DEF IsReplaced
<1>2. h \in Seq(Blocks) /\ g \in Seq(Blocks) /\ Len(h) \in Nat /\ i + 0 = i
  <2>1. h \in Seq(Blocks) /\ g \in Seq(Blocks)
    BY <1>1 DEF Heap
  <2>2. Len(h) \in Nat
    BY <2>1, LenProperties
  <2> QED
    BY ONLY <2>1, <2>2, i \in 1 .. Len(h)
<1>3. Refilled(h, g, i, i, 0)
  <2>1. Extent(h, i, i) = Room(h[i]) /\ Extent(g, i, i) = Room(g[i])
    BY <1>1, <1>2, ExtentIs
  <2>2. Room(g[i]) = Room(h[i])
    BY <1>1 DEF Room
  <2> QED
    BY <1>1, <1>2, <2>1, <2>2 DEF Refilled
<1>6. PICK z : z = 0 /\ Refilled(h, g, i, i, z)
  BY <1>3
<1>7. h \in Seq(Blocks) /\ g \in Seq(Blocks) /\ Refilled(h, g, i, i, z)
  BY <1>2, <1>6
<1>4. ASSUME NEW o \in Object \ {h[i].own, b.own}
      PROVE  Undisturbed(h, g, o)
  <2>1. \A k \in i .. i : h[k].own # o
    BY <1>2, <1>4
  <2>2. \A k \in i .. i + z : g[k].own # o
    BY <1>1, <1>2, <1>4, <1>6
  <2> QED
    BY ONLY <1>7, <2>1, <2>2, OthersUndisturbed
<1>5. ASSUME NEW o, Sits(h, o, i), b.own = o
      PROVE  Place(g, o) = Place(h, o)
  <2>1. Sits(g, o, i)
    BY <1>1, <1>5
  <2> QED
    BY ONLY <1>7, <1>5, <2>1, RefilledPlaces
<1> QED
  BY <1>1, <1>4, <1>5 DEF IsExchanged

\* Block b is put in the place of block i.
Put(h, i, b) == [h EXCEPT ![i] = b]

\* Object o has left memory, and nobody else is disturbed.
IsVacated(h, g, o) ==
  Heap(g) /\ Absent(g, o) /\ \A x \in Object \ {o} : Undisturbed(h, g, x)
(* An object leaves memory.                                                *)
LEMMA Vacated ==
  ASSUME NEW h, Heap(h), NEW o \in Object, NEW i, Sits(h, o, i),
         NEW g, g = Put(h, i, FreeBlock(Len(h[i].data)))
  PROVE  IsVacated(h, g, o)
<1>1. h \in Seq(Blocks) /\ i \in 1 .. Len(h) /\ h[i].own = o /\ o # End /\ o # Free /\ Free # End
      /\ Free \notin Object
  BY ConstantsOK DEF Heap, Sits
<1>2. Len(h[i].data) \in Nat
  BY <1>1, HeapBlocks
<1>3. PICK b : b = FreeBlock(Len(h[i].data))
  OBVIOUS
<1>4. b \in Blocks /\ b.own = Free /\ Len(b.data) = Len(h[i].data) /\ b.own # End
  BY <1>1, <1>2, <1>3, FreeBlockIs
<1>5. g = [h EXCEPT ![i] = b] /\ h[i].own # End
  BY <1>1, <1>3 DEF Put
<1>6. /\ Heap(g) /\ \A x \in Object \ {h[i].own, b.own} : Undisturbed(h, g, x)
      /\ \A x : Sits(h, x, i) /\ b.own # x => Absent(g, x)
  <2>1. IsExchanged(h, g, i, b)
    BY <1>1, <1>4, <1>5, ReplaceUndisturbed
  <2> QED
    BY <2>1 DEF IsExchanged
<1> QED
  BY <1>1, <1>4, <1>6 DEF IsVacated

\* Object o has the block b at i, and nobody else is disturbed.
IsTaken(h, g, o, i, b) ==
  /\ Heap(g) /\ Sits(g, o, i) /\ g[i] = b
  /\ \A x \in Object \ {o} : Undisturbed(h, g, x)
(* A free block is split and given to an object that has none.             *)
LEMMA Taken ==
  ASSUME NEW h, Heap(h), NEW i \in 1 .. Len(h), h[i].own = Free,
         NEW n \in Nat, n <= Len(h[i].data), NEW o \in Object, Absent(h, o),
         NEW s, s = SplitAt(h, i, n), NEW b \in Blocks, b.own = o,
         Len(b.data) = Len(s[i].data), NEW g, g = Put(s, i, b)
  PROVE  IsTaken(h, g, o, i, b)
<1>1. h[i].own # End /\ o # End /\ o # Free /\ Free \notin Object /\ Free # End
  BY ConstantsOK
<1>2. Heap(s) /\ i \in 1 .. Len(s) /\ s[i].own = Free
  BY SplitFree
<1>3. \A x \in Object : Undisturbed(h, s, x)
  <2>1. \A x \in Object : x # h[i].own => Undisturbed(h, s, x)
    BY <1>1, SplitUndisturbed
  <2> QED
    BY <1>1, <2>1
<1>4. Absent(s, o)
  BY <1>3 DEF Undisturbed, SameBlock
<1>5. s[i].own # End /\ b.own # End /\ g = [s EXCEPT ![i] = b]
  BY <1>1, <1>2 DEF Put
<1>6. /\ Heap(g) /\ g[i] = b /\ \A x \in Object \ {s[i].own, b.own} : Undisturbed(s, g, x)
      /\ \A x : Absent(s, x) /\ b.own = x => Sits(g, x, i)
  <2>1. IsExchanged(s, g, i, b)
    BY <1>2, <1>5, ReplaceUndisturbed
  <2> QED
    BY <2>1 DEF IsExchanged
<1>7. ASSUME NEW x \in Object \ {o}
      PROVE  Undisturbed(h, g, x)
  <2>1. Undisturbed(h, s, x) /\ Undisturbed(s, g, x)
    BY <1>1, <1>2, <1>3, <1>6
  <2> QED
    BY <2>1, UndisturbedTwice
<1> QED
  BY <1>4, <1>6, <1>7 DEF IsTaken

(* An object's cells are written.                                          *)
LEMMA Overwritten ==
  ASSUME NEW h, Heap(h), NEW o \in Object, NEW i, Sits(h, o, i),
         NEW b \in Blocks, b.own = o, Len(b.data) = Len(h[i].data),
         NEW g, g = Put(h, i, b)
  PROVE  IsTaken(h, g, o, i, b) /\ Place(g, o) = Place(h, o)
<1>1. h \in Seq(Blocks) /\ i \in 1 .. Len(h) /\ h[i].own = o /\ o # End
  BY ConstantsOK DEF Heap, Sits
<1>2. h[i] \in Blocks
  BY <1>1, ElementOfSeq
<1>4. b \in Blocks /\ b.own = o
  OBVIOUS
<1>5. g = [h EXCEPT ![i] = b] /\ h[i].own # End /\ b.own # End /\ Len(b.data) = Len(h[i].data)
  BY <1>1, <1>4 DEF Put
<1>6. /\ Heap(g) /\ g[i] = b /\ \A x \in Object \ {h[i].own, b.own} : Undisturbed(h, g, x)
      /\ \A x : Sits(h, x, i) /\ b.own = x => Sits(g, x, i) /\ Place(g, x) = Place(h, x)
  <2>1. IsExchanged(h, g, i, b)
    BY <1>1, <1>4, <1>5, ReplaceUndisturbed
  <2> QED
    BY <2>1 DEF IsExchanged
<1> QED
  BY <1>1, <1>4, <1>6 DEF IsTaken

(* mcmrealo splits the object's own block.                                 *)
LEMMA SplitOwn ==
  ASSUME NEW h, Heap(h), NEW o \in Object, NEW i, Sits(h, o, i),
         NEW n \in Nat, n <= Len(h[i].data), NEW g, g = SplitAt(h, i, n)
  PROVE  /\ IsTaken(h, g, o, i, g[i]) /\ n <= Len(g[i].data)
         /\ Len(g[i].data) <= Len(h[i].data)
         /\ \A k \in 1 .. Len(g[i].data) : g[i].data[k] = h[i].data[k]
<1>1. /\ h \in Seq(Blocks) /\ Len(h) \in Nat /\ i \in 1 .. Len(h) /\ h[i].own = o
      /\ o # End /\ o # Free
  BY ConstantsOK, HeapBlocks DEF Heap, Sits
<1>2. /\ Heap(g) /\ i \in 1 .. Len(g) /\ g[i].own = h[i].own
      /\ n <= Len(g[i].data) /\ Len(g[i].data) <= Len(h[i].data)
      /\ \A k \in 1 .. Len(g[i].data) : g[i].data[k] = h[i].data[k]
      /\ \/ g = h
         \/ Changed(h, g, i, i, 1) /\ g[i + 1].own = Free
  <2>1. i \in 1 .. Len(h) /\ h[i].own # End /\ n \in Nat /\ g = SplitAt(h, i, n)
    BY <1>1
  <2>2. n <= Len(h[i].data)
    OBVIOUS
  <2> QED
    BY ONLY Heap(h), <2>1, <2>2, SplitIs
<1>3. \A x \in Object \ {o} : Undisturbed(h, g, x)
  <2>1. \A x \in Object : x # h[i].own => Undisturbed(h, g, x)
    BY <1>1, SplitUndisturbed
  <2> QED
    BY <1>1, <2>1
<1>4. Sits(g, o, i)
  <2>1. CASE g = h
    BY <2>1
  <2>2. CASE Changed(h, g, i, i, 1) /\ g[i + 1].own = Free
    <3>1. ASSUME NEW j \in 1 .. Len(g), g[j].own = o
          PROVE  j = i
      <4>1. Len(g) = Len(h) + 1
        BY <2>2 DEF Changed
      <4>2. CASE j < i
        <5>1. j \in 1 .. i - 1 /\ j \in 1 .. Len(h)
          BY <1>1, <4>2
        <5>2. g[j] = h[j]
          BY <2>2, <5>1 DEF Changed
        <5> QED
          BY <3>1, <5>1, <5>2 DEF Sits
      <4>3. CASE j > i + 1
        <5>1. PICK k : k = j - 1
          OBVIOUS
        <5>2. k \in i + 1 .. Len(h) /\ k \in 1 .. Len(h) /\ k + 1 = j /\ k # i
          BY <1>1, <4>1, <4>3, <5>1
        <5>3. g[k + 1] = h[k]
          BY <2>2, <5>2 DEF Changed
        <5> QED
          BY <3>1, <5>2, <5>3 DEF Sits
      <4>4. j # i + 1
        BY <1>1, <2>2, <3>1
      <4> QED
        BY <1>1, <4>2, <4>3, <4>4
    <3> QED
      BY <1>1, <1>2, <3>1 DEF Sits
  <2> QED
    BY <1>2, <2>1, <2>2
<1> QED
  BY <1>2, <1>3, <1>4 DEF IsTaken

\* A chunk has been put before h.
IsGrown(h, g) ==
  /\ Heap(g) /\ (NoGap(h) => NoGap(g))
  /\ \A x \in Object : Undisturbed(h, g, x)
(* mcmhalo puts a chunk before the others.                                 *)
LEMMA Grown ==
  ASSUME NEW h, Heap(h), NEW n \in Nat,
         NEW g, g = <<FreeBlock(n), Block(End, <<>>)>> \o h
  PROVE  IsGrown(h, g)
<1>1. h \in Seq(Blocks) /\ Len(h) \in Nat /\ Len(h) > 0 /\ h[Len(h)].own = End
  BY HeapBlocks DEF Heap
<1>2. PICK e, f, t : e = Block(End, <<>>) /\ f = FreeBlock(n) /\ t = <<f, e>>
  OBVIOUS
<1>3. e \in Blocks /\ e.own = End /\ f \in Blocks /\ f.own = Free
  <2>1. <<>> \in Seq(Value)
    OBVIOUS
  <2> QED
    BY <1>2, <2>1, BlockIs, FreeBlockIs
<1>4. t \in Seq(Blocks) /\ Len(t) = 2 /\ t[1] = f /\ t[2] = e
  BY <1>2, <1>3
<1>5. g = t \o h
  BY <1>2
<1>6. IsConcat(Blocks, t, h, g)
  BY <1>1, <1>4, <1>5, ConcatIs
<1>7. /\ g \in Seq(Blocks) /\ Len(g) = Len(h) + 2 /\ g[1] = f /\ g[2] = e
      /\ \A k \in 1 .. Len(h) : g[k + 2] = h[k]
  <2>1. /\ g \in Seq(Blocks) /\ Len(g) = Len(t) + Len(h)
        /\ \A k \in 1 .. Len(t) : g[k] = t[k]
        /\ \A k \in 1 .. Len(h) : g[Len(t) + k] = h[k]
    BY <1>6 DEF IsConcat
  <2>2. \A k \in 1 .. Len(h) : Len(t) + k = k + 2
    BY <1>1, <1>4
  <2>3. 1 \in 1 .. Len(t) /\ 2 \in 1 .. Len(t)
    BY <1>4
  <2> QED
    BY <1>1, <1>4, <2>1, <2>2, <2>3
<1>8. Heap(g)
  <2>1. Len(h) \in 1 .. Len(h)
    BY <1>1
  <2>2. g[Len(h) + 2] = h[Len(h)]
    BY <1>7, <2>1
  <2> QED
    BY <1>1, <1>7, <2>2 DEF Heap
<1>9. NoGap(h) => NoGap(g)
  <2>1. NoGap(t) /\ ~Meet(t, h)
    BY <1>3, <1>4, ConstantsOK DEF NoGap, Meet
  <2> QED
    BY <1>1, <1>4, <1>5, <2>1, NoGapConcat
<1>10. \A m \in 1 .. Len(g) : m = 1 \/ m = 2 \/ (m - 2 \in 1 .. Len(h) /\ m - 2 + 2 = m)
  BY <1>1, <1>7
<1>11. \A k \in 1 .. Len(h) : k + 2 \in 1 .. Len(g)
  BY <1>1, <1>7
<1>12. ASSUME NEW x \in Object, NEW k, Sits(h, x, k)
       PROVE  Sits(g, x, k + 2) /\ g[k + 2] = h[k] /\ Place(g, x) = Place(h, x)
  <2>1. k \in 1 .. Len(h) /\ h[k].own = x /\ x # End /\ x # Free /\ g[k + 2] = h[k]
    BY <1>7, <1>12, ConstantsOK DEF Sits
  <2>2. ASSUME NEW m \in 1 .. Len(g), g[m].own = x
        PROVE  m = k + 2
    <3>1. m # 1 /\ m # 2
      BY <1>3, <1>7, <2>1, <2>2
    <3>2. m - 2 \in 1 .. Len(h) /\ m - 2 + 2 = m
      BY <1>10, <3>1
    <3>3. h[m - 2].own = x
      BY <1>7, <2>2, <3>2
    <3>4. m - 2 = k
      BY <1>12, <3>2, <3>3 DEF Sits
    <3> QED
      BY <3>4
  <2>3. Sits(g, x, k + 2)
    BY <1>11, <2>1, <2>2 DEF Sits
  <2>4. PICK a, b, c : a = k - 1 /\ b = Len(h) /\ c = 2
    OBVIOUS
  <2>5. SameRooms(h, g, a, b, c)
    <3>1. a \in 0 .. Len(h) /\ b \in a .. Len(h) /\ c \in Int /\ a + c >= 0 /\ b + c <= Len(g)
      BY <1>1, <1>7, <2>1, <2>4
    <3>2. \A m \in a + 1 .. b : m \in 1 .. Len(h)
      BY <1>1, <2>1, <2>4
    <3>3. \A m \in a + 1 .. b : g[m + c] = h[m]
      BY <1>7, <2>4, <3>2
    <3> QED
      BY <3>1, <3>3 DEF SameRooms
  <2>6. Upto(g)[b + c] - Upto(g)[a + c] = Upto(h)[b] - Upto(h)[a]
    <3>1. SameSum(h, g, a, b, c)
      BY <1>1, <1>7, <2>5, UptoAgrees
    <3> QED
      BY <3>1 DEF SameSum
  <2>7. b + c = Len(g) /\ a + c = k + 2 - 1 /\ b = Len(h) /\ a = k - 1
    BY <1>1, <1>7, <2>1, <2>4
  <2>8. Place(h, x) = Total(h) - Upto(h)[k - 1]
    BY <1>1, <1>12, PlaceIs
  <2>9. Place(g, x) = Total(g) - Upto(g)[k + 2 - 1]
    <3>1. PICK m : m = k + 2
      OBVIOUS
    <3>2. Sits(g, x, m) /\ g \in Seq(Blocks)
      BY <1>7, <2>3, <3>1
    <3>3. Place(g, x) = Total(g) - Upto(g)[m - 1]
      BY ONLY <3>2, PlaceIs
    <3>4. m - 1 = k + 2 - 1
      BY <1>1, <2>1, <3>1
    <3> QED
      BY ONLY <3>3, <3>4
  <2>10. Place(g, x) = Place(h, x)
    <3>1. Upto(g)[Len(g)] - Upto(g)[k + 2 - 1] = Upto(h)[Len(h)] - Upto(h)[k - 1]
      BY <2>6, <2>7
    <3> QED
      BY <2>8, <2>9, <3>1 DEF Total
  <2> QED
    BY <2>1, <2>3, <2>10
<1>13. ASSUME NEW x \in Object, Absent(h, x)
       PROVE  Absent(g, x)
  <2>1. ASSUME NEW m \in 1 .. Len(g), g[m].own = x
        PROVE  FALSE
    <3>1. m # 1 /\ m # 2
      BY <1>3, <1>7, <2>1, ConstantsOK
    <3>2. m - 2 \in 1 .. Len(h) /\ m - 2 + 2 = m
      BY <1>10, <3>1
    <3>3. h[m - 2].own = x
      BY <1>7, <2>1, <3>2
    <3> QED
      BY <1>13, <3>2, <3>3 DEF Absent
  <2> QED
    BY <2>1 DEF Absent
<1>14. \A x \in Object : Undisturbed(h, g, x)
  BY <1>12, <1>13 DEF Undisturbed, SameBlock
<1> QED
  BY <1>8, <1>9, <1>14 DEF IsGrown

(* mcmrealo moves an object to a free block.                               *)
LEMMA Relocated ==
  ASSUME NEW h, Heap(h), NEW i \in 1 .. Len(h), h[i].own = Free,
         NEW n \in Nat, n <= Len(h[i].data), NEW o \in Object, NEW k, Sits(h, o, k),
         NEW s, s = SplitAt(h, i, n), NEW j, j = At(s, o), NEW b \in Blocks, b.own = o,
         Len(b.data) = Len(s[i].data),
         NEW g, g = Put(Put(s, i, b), j, FreeBlock(Len(s[j].data)))
  PROVE  IsTaken(h, g, o, i, b) /\ s[j] = h[k]
<1>1. h[i].own # End /\ o # End /\ o # Free /\ Free \notin Object /\ Free # End
  BY ConstantsOK
<1>2. Heap(s) /\ i \in 1 .. Len(s) /\ s[i].own = Free /\ s \in Seq(Blocks)
  BY SplitFree DEF Heap
<1>3. \A x \in Object : Undisturbed(h, s, x)
  <2>1. \A x \in Object : x # h[i].own => Undisturbed(h, s, x)
    BY <1>1, SplitUndisturbed
  <2> QED
    BY <1>1, <2>1
<1>4. Sits(s, o, j) /\ s[j] = h[k]
  <2>1. PICK m : Sits(s, o, m) /\ s[m] = h[k]
    BY <1>3 DEF Undisturbed, SameBlock
  <2> QED
    BY <1>2, <2>1, AtIs
<1>5. j # i /\ j \in 1 .. Len(s)
  BY <1>1, <1>2, <1>4 DEF Sits
<1>6. PICK f : f = Put(s, j, FreeBlock(Len(s[j].data)))
  OBVIOUS
<1>7. Heap(f) /\ Absent(f, o) /\ \A x \in Object \ {o} : Undisturbed(s, f, x)
  <2>1. IsVacated(s, f, o)
    BY <1>2, <1>4, <1>6, Vacated
  <2> QED
    BY <2>1 DEF IsVacated
<1>8. f[i] = s[i] /\ i \in 1 .. Len(f) /\ g = [f EXCEPT ![i] = b]
  <2>1. DOMAIN s = 1 .. Len(s) /\ DOMAIN f = DOMAIN s
    BY <1>2, <1>6, LenProperties DEF Put
  <2>2. DOMAIN f = 1 .. Len(f)
    BY <1>7, LenProperties DEF Heap
  <2> QED
    BY <1>2, <1>5, <1>6, <2>1, <2>2 DEF Put
<1>9. /\ Heap(g) /\ g[i] = b /\ Sits(g, o, i)
      /\ \A x \in Object \ {f[i].own, b.own} : Undisturbed(f, g, x)
  <2>1. IsExchanged(f, g, i, b)
    <3>1. f[i].own # End /\ b.own # End /\ Len(b.data) = Len(f[i].data)
      BY <1>1, <1>2, <1>8
    <3> QED
      BY <1>7, <1>8, <3>1, ReplaceUndisturbed
  <2> QED
    BY <1>7, <2>1 DEF IsExchanged
<1>10. ASSUME NEW x \in Object \ {o}
       PROVE  Undisturbed(h, g, x)
  <2>1. Undisturbed(h, s, x) /\ Undisturbed(s, f, x) /\ Undisturbed(f, g, x)
    BY <1>1, <1>2, <1>3, <1>7, <1>8, <1>9
  <2> QED
    BY <2>1, UndisturbedTwice
<1> QED
  BY <1>4, <1>9, <1>10 DEF IsTaken

(* The object's block at i widened by the room of the block behind it, and  *)
(* the heap with the two joined.                                           *)
Widened(h, o, i) == Block(o, h[i].data \o Fill(Junk, Room(h[i + 1])))
Joined(h, o, i) ==
  SubSeq(h, 1, i - 1) \o <<Widened(h, o, i)>> \o SubSeq(h, i + 2, Len(h))

(* mcmrealo joins an object's block with the free block behind it.         *)
LEMMA Annexed ==
  ASSUME NEW h, Heap(h), NEW o \in Object, NEW i, Sits(h, o, i),
         i + 1 \in 1 .. Len(h), h[i + 1].own = Free,
         NEW b, b = Widened(h, o, i),
         NEW g, g = Joined(h, o, i)
  PROVE  /\ IsTaken(h, g, o, i, b)
         /\ Len(b.data) = Len(h[i].data) + Room(h[i + 1])
         /\ \A k \in 1 .. Len(h[i].data) : b.data[k] = h[i].data[k]
<1>1. /\ h \in Seq(Blocks) /\ Len(h) \in Nat /\ h[Len(h)].own = End /\ i \in 1 .. Len(h)
      /\ h[i].own = o /\ o # End /\ o # Free /\ h[i].data \in Seq(Value)
      /\ Len(h[i].data) \in Nat /\ Room(h[i + 1]) \in Nat /\ Free # End
  BY HeapBlocks, ConstantsOK DEF Heap, Sits
<1>2. PICK r, d, f, n : /\ r = Room(h[i + 1]) /\ d = h[i].data /\ f = Fill(Junk, r)
                        /\ n = Len(d)
  OBVIOUS
<1>3. /\ b \in Blocks /\ b.own = o /\ b.data = d \o f /\ Len(b.data) = n + r
      /\ \A k \in 1 .. n : b.data[k] = d[k]
  <2>1. f \in Seq(Value) /\ Len(f) = r
    <3>1. Junk \in Value
      BY DEF Value
    <3> QED
      BY <1>1, <1>2, <3>1, FillIs
  <2>2. /\ d \o f \in Seq(Value) /\ Len(d \o f) = n + r
        /\ \A k \in 1 .. n : (d \o f)[k] = d[k]
    <3>1. IsConcat(Value, d, f, d \o f)
      BY <1>1, <1>2, <2>1, ConcatIs
    <3> QED
      BY <1>2, <2>1, <3>1 DEF IsConcat
  <2>3. PICK e \in Seq(Value) : e = d \o f
    BY <2>2
  <2>4. b = Block(o, e)
    BY <1>2, <2>3 DEF Widened
  <2>5. o \in Object \cup {Free, End}
    OBVIOUS
  <2>6. b \in Blocks /\ b.own = o /\ b.data = e
    BY <2>4, <2>5, BlockIs
  <2> QED
    BY <2>2, <2>3, <2>6
<1>4. Room(b) = Room(h[i]) + Room(h[i + 1])
  <2>1. Room(b) = n + r + Hdr /\ Room(h[i]) = n + Hdr
    BY <1>2, <1>3 DEF Room
  <2> QED
    BY <1>1, <1>2, <2>1, ConstantsOK
<1>5. PICK t, j, c : t = <<b>> /\ j = i + 1 /\ c = i - 1 + Len(t) - j
  OBVIOUS
<1>6. t \in Seq(Blocks) /\ Len(t) = 1 /\ t[1] = b
  BY <1>3, <1>5
<1>7. /\ i \in 1 .. Len(h) + 1 /\ j \in i - 1 .. Len(h) /\ j + 1 = i + 2 /\ c = 0 - 1
      /\ i \in Nat /\ j # Len(h)
  BY <1>1, <1>5, <1>6
<1>8. g = Spliced(h, i, j, t)
  BY <1>5, <1>7 DEF Spliced, Joined
<1>9. IsSpliced(Blocks, h, i, j, t, g) /\ Changed(h, g, i, j, c)
  BY <1>1, <1>5, <1>6, <1>7, <1>8, SpliceChanges
<1>10. g \in Seq(Blocks) /\ Len(g) = Len(h) - 1 /\ g[i] = b
  <2>1. g[i - 1 + 1] = t[1] /\ g \in Seq(Blocks)
    <3>1. 1 \in 1 .. Len(t)
      BY <1>6
    <3> QED
      BY <1>9, <3>1 DEF IsSpliced
  <2>2. i - 1 + 1 = i
    BY <1>1
  <2>3. Len(g) = Len(h) + c
    BY <1>9 DEF Changed
  <2> QED
    <3>1. Len(h) + c = Len(h) - 1
      BY ONLY <1>1, <1>7
    <3> QED
      BY ONLY <1>6, <2>1, <2>2, <2>3, <3>1
<1>15. i + 1 < Len(h) /\ Len(g) \in Nat /\ i \in 1 .. Len(g)
  <2>1. PICK y, z \in Nat : z = Len(h) /\ y = Len(g)
    BY <1>1, <1>10, HeapBlocks
  <2>2. i \in Nat /\ i >= 1 /\ i + 1 <= z /\ i + 1 # z /\ y = z - 1
    BY ONLY <1>1, <1>5, <1>7, <1>10, <2>1
  <2>3. i + 1 < z /\ i <= y
    BY ONLY <2>1, <2>2
  <2> QED
    BY ONLY <2>1, <2>2, <2>3
<1>11. Heap(g)
  <2>1. Len(h) \in j + 1 .. Len(h) /\ Len(h) + c = Len(g) /\ Len(g) > 0
    BY ONLY <1>1, <1>5, <1>7, <1>10, <1>15
  <2>2. g[Len(h) + c] = h[Len(h)]
    BY <1>9, <2>1 DEF Changed
  <2> QED
    BY <1>1, <1>10, <2>1, <2>2 DEF Heap
<1>12. Refilled(h, g, i, j, c)
  <2>1. i < Len(h) /\ i \in 1 .. Len(g)
    BY ONLY <1>1, <1>7, <1>15
  <2>2. Extent(h, i, i + 1) = Room(h[i]) + Room(h[i + 1])
    BY <1>1, <2>1, ExtentIs
  <2>3. Extent(g, i, i) = Room(g[i])
    BY <1>10, <2>1, ExtentIs
  <2>4. j + c = i
    BY <1>1, <1>5, <1>7
  <2> QED
    BY <1>4, <1>5, <1>9, <1>10, <2>2, <2>3, <2>4 DEF Refilled
<1>13. ASSUME NEW x \in Object \ {o}
       PROVE  Undisturbed(h, g, x)
  <2>1. x # Free
    BY ConstantsOK
  <2>2. \A k \in i .. j : k = i \/ k = i + 1
    BY <1>1, <1>5
  <2>3. \A k \in i .. j : h[k].own # x
    BY <1>1, <2>1, <2>2
  <2>4. \A k \in i .. j + c : k = i
    BY <1>1, <1>5, <1>7
  <2>5. \A k \in i .. j + c : g[k].own # x
    BY <1>3, <1>10, <2>4
  <2> QED
    BY ONLY <1>1, <1>10, <1>12, <2>3, <2>5, OthersUndisturbed
<1>14. Sits(g, o, i)
  <2>1. ASSUME NEW m \in 1 .. Len(g), g[m].own = o
        PROVE  m = i
    <3>1. CASE m < i
      <4>1. m \in 1 .. i - 1 /\ m \in 1 .. Len(h)
        BY <1>1, <3>1
      <4>2. g[m] = h[m]
        BY <1>9, <4>1 DEF Changed
      <4> QED
        BY <2>1, <4>1, <4>2 DEF Sits
    <3>2. CASE m > i
      <4>1. PICK k : k = m + 1
        OBVIOUS
      <4>2. k \in j + 1 .. Len(h) /\ k + c = m /\ k \in 1 .. Len(h) /\ k # i
        BY ONLY <1>1, <1>5, <1>7, <1>10, <1>15, <3>2, <4>1, <2>1
      <4>3. g[k + c] = h[k]
        BY <1>9, <4>2 DEF Changed
      <4> QED
        BY <2>1, <4>2, <4>3 DEF Sits
    <3> QED
      BY <1>1, <3>1, <3>2
  <2>2. i \in 1 .. Len(g) /\ g[i].own = o
    BY <1>3, <1>10, <1>15
  <2> QED
    BY <2>1, <2>2 DEF Sits
<1> QED
  BY <1>2, <1>3, <1>10, <1>11, <1>13, <1>14 DEF IsTaken

------------------------------------------------------------------------------
(* The invariant is inductive.                                             *)

(* An object whose block, entry and contents a step leaves alone.          *)
LEMMA Stays ==
  ASSUME NEW o \in Object, HasBlock(o), KeptOK(o), SameBlock(heap, heap', o),
         flags'[o] = flags[o], siz'[o] = siz[o], kept'[o] = kept[o],
         o \in mapped' <=> o \in mapped,
         SwappedOut(o) => Stored(Swapper', o) = Stored(Swapper, o)
  PROVE  HasBlock(o)' /\ KeptOK(o)'
<1>1. Present(o)' = Present(o) /\ InSwapFile(o)' = InSwapFile(o)
  BY DEF Present, InSwapFile
<1>2. SwappedOut(o)' = SwappedOut(o) /\ Unwritten(o)' = Unwritten(o)
  BY <1>1 DEF SwappedOut, Unwritten
<1>3. HasBlock(o)'
  <2>1. CASE Present(o)
    <3>1. PICK i \in 1 .. Len(heap) : Sits(heap, o, i) /\ Len(heap[i].data) = siz[o]
      BY <2>1 DEF HasBlock
    <3>2. PICK m : Sits(heap', o, m) /\ heap'[m] = heap[i]
      BY <3>1 DEF SameBlock
    <3>3. m \in 1 .. Len(heap')
      BY <3>2 DEF Sits
    <3>4. Len(heap'[m].data) = siz'[o]
      BY <3>1, <3>2
    <3> QED
      BY <1>1, <2>1, <3>2, <3>3, <3>4 DEF HasBlock
  <2>2. CASE ~Present(o)
    BY <1>1, <2>2 DEF HasBlock, SameBlock
  <2> QED
    BY <2>1, <2>2
<1>4. ASSUME NEW m \in 1 .. Len(heap'), Sits(heap', o, m)
      PROVE  Begins(kept'[o], heap'[m].data)
  <2>1. CASE Present(o)
    <3>1. PICK i \in 1 .. Len(heap) : Sits(heap, o, i)
      BY <2>1 DEF HasBlock
    <3>2. PICK l : Sits(heap', o, l) /\ heap'[l] = heap[i]
      BY <3>1 DEF SameBlock
    <3>3. l = m
      BY <1>4, <3>2 DEF Sits
    <3>4. Begins(kept[o], heap[i].data)
      BY <3>1 DEF KeptOK
    <3> QED
      BY <3>2, <3>3, <3>4
  <2>2. CASE ~Present(o)
    BY <1>4, <2>2 DEF HasBlock, SameBlock, Absent, Sits
  <2> QED
    BY <2>1, <2>2
<1>5. KeptOK(o)'
  BY <1>1, <1>2, <1>4 DEF KeptOK
<1> QED
  BY <1>3, <1>5

(* A step that moves nothing: it changes locks, the LRU list and the call. *)
LEMMA Quiet ==
  ASSUME IInv, UNCHANGED <<heap, mapped, flags, siz, kept, swapVars>>, chunks' \in Nat,
         locks' \in [Object -> Nat],
         \A o \in Object : locks'[o] <= MaxLock[o] /\ (locks'[o] > 0 => Present(o)),
         LruOK', CallOK', GarbOK'
  PROVE  IInv'
<1> USE DEF IInv
<1>1. TypesOK'
  BY DEF TypesOK
<1>2. Swapper' = Swapper
  BY DEF Swapper, swapVars
<1>3. ASSUME NEW o \in Object
      PROVE  HasBlock(o)' /\ EntryOK(o)' /\ KeptOK(o)'
  <2>1. HasBlock(o) /\ EntryOK(o) /\ KeptOK(o)
    BY DEF ObjectsOK
  <2>2. SameBlock(heap, heap', o)
    BY UndisturbedSelf
  <2>3. HasBlock(o)' /\ KeptOK(o)'
    BY <1>2, <2>1, <2>2, Stays
  <2>4. EntryOK(o)'
    BY <2>1 DEF EntryOK, Present
  <2> QED
    BY <2>3, <2>4
<1>4. Out' = Out
  BY DEF Out, SwappedOut, Present, InSwapFile
<1>5. SwapperOK'
  BY <1>2, <1>4 DEF SwapperOK
<1> QED
  BY <1>1, <1>3, <1>5 DEF ObjectsOK

(* What mcmswap finds.                                                     *)
LEMMA VictimIs ==
  ASSUME LruOK, NEW o
  PROVE  /\ Victim = <<>> => \A x \in Range(lru) : locks[x] # 0
         /\ Victim = <<o>> => o \in Range(lru) /\ locks[o] = 0
<1> DEFINE loose == {x \in Range(lru) : locks[x] = 0}
           big == {x \in loose : siz[x] >= call.need}
           first(S) == lru[Min({i \in DOMAIN lru : lru[i] \in S})]
<1>1. Victim = IF loose = {} THEN <<>> ELSE IF big = {} THEN <<first(loose)>> ELSE <<first(big)>>
  BY DEF Victim
<1>2. ASSUME NEW S, S \subseteq Range(lru), S # {}
      PROVE  first(S) \in S
  <2> DEFINE I == {i \in DOMAIN lru : lru[i] \in S}
  <2>1. DOMAIN lru = 1 .. Len(lru) /\ Len(lru) \in Nat
    BY LenProperties DEF LruOK
  <2>2. I \subseteq Nat
    BY <2>1
  <2>3. I # {}
    BY <1>2 DEF Range
  <2>4. \E i \in I : \A j \in I : i <= j
    <3> HIDE DEF I
    <3> QED
      BY <2>2, <2>3, HasLeast
  <2>5. Min(I) \in I
    <3> HIDE DEF I
    <3> QED
      BY <2>4 DEF Min
  <2> QED
    BY <2>5
<1> HIDE DEF first
<1>3. Victim = <<>> => loose = {}
  BY <1>1
<1>4. Victim = <<o>> => o \in loose
  <2>1. ASSUME Victim = <<o>> PROVE loose # {}
    BY <1>1, <2>1
  <2>2. ASSUME loose # {} PROVE first(loose) \in loose
    BY <1>2, <2>2
  <2>3. ASSUME big # {} PROVE first(big) \in loose
    <3>1. big \subseteq Range(lru)
      OBVIOUS
    <3> QED
      BY <1>2, <2>3, <3>1
  <2>4. ASSUME Victim = <<o>> PROVE o = first(loose) \/ (big # {} /\ o = first(big))
    <3>1. Victim[1] = o
      BY <2>4
    <3> HIDE DEF loose, big
    <3> QED
      BY <1>1, <2>1, <2>4, <3>1
  <2> HIDE DEF loose, big
  <2> QED
    BY <2>1, <2>2, <2>3, <2>4
<1> QED
  BY <1>3, <1>4

(* The call that is over.                                                  *)
LEMMA IdleOK ==
  ASSUME call' = Idle
  PROVE  CallOK' /\ GarbOK'
BY DEF CallOK, GarbOK, Idle

(* A call that fails gives up the lock it took.                            *)
LEMMA FailsOK ==
  ASSUME IInv, call # Idle, Fails, UNCHANGED <<mapped, flags>>
  PROVE  /\ LruOK' /\ CallOK' /\ GarbOK' /\ locks' \in [Object -> Nat]
         /\ \A o \in Object : locks'[o] <= MaxLock[o] /\ (locks'[o] > 0 => Present(o))
<1> USE DEF IInv
<1>1. CallOK' /\ GarbOK'
  BY IdleOK DEF Fails
<1>2. /\ locks \in [Object -> Nat] /\ mapped \subseteq Object
      /\ \A o \in Object : locks[o] <= MaxLock[o] /\ (locks[o] > 0 => Present(o))
  BY DEF TypesOK, ObjectsOK, EntryOK
<1>3. \A o : Present(o)' = Present(o)
  BY DEF Present
<1>4. CASE call.mine
  <2>1. call.obj \in mapped /\ Present(call.obj) /\ call.obj \in Object
    BY <1>2, <1>4 DEF CallOK
  <2>2. PICK o \in Object : o = call.obj
    BY <2>1
  <2>3. locks' = [locks EXCEPT ![o] = 0] /\ lru' = Use(lru, o)
    BY <1>4, <2>2 DEF Fails
  <2>4. lru' \in Seq(Object) /\ IsInjective(lru') /\ Range(lru') = Range(lru) \cup {o}
    BY <2>3, UseIs DEF LruOK
  <2>5. \A x \in Object : locks'[x] = IF x = o THEN 0 ELSE locks[x]
    BY <1>2, <2>3
  <2>6. LruOK'
    BY <1>3, <2>1, <2>2, <2>4, <2>5 DEF LruOK
  <2>7. \A x \in Object : MaxLock[x] \in Nat
    BY ConstantsOK
  <2>8. locks' \in [Object -> Nat]
    BY <1>2, <2>3
  <2>9. \A x \in Object : locks'[x] <= MaxLock[x] /\ (locks'[x] > 0 => Present(x))
    BY <1>2, <2>5, <2>7
  <2> QED
    BY <1>1, <2>6, <2>8, <2>9
<1>5. CASE ~call.mine
  <2>1. locks' = locks /\ lru' = lru
    BY <1>5 DEF Fails
  <2>2. LruOK'
    BY <1>3, <2>1 DEF LruOK
  <2> QED
    BY <1>1, <1>2, <2>1, <2>2
<1> QED
  BY <1>4, <1>5 DEF CallOK

(* Locking and unlocking.                                                  *)
LEMMA LocksKeep ==
  ASSUME IInv, NEW o \in Object, Lock(o) \/ Unlock(o)
  PROVE  IInv'
<1> USE DEF IInv
<1>1. /\ locks \in [Object -> Nat] /\ MaxLock[o] \in Nat
      /\ \A x \in Object : locks[x] <= MaxLock[x] /\ (locks[x] > 0 => Present(x))
  BY ConstantsOK DEF TypesOK, ObjectsOK, EntryOK
<1>2. \A x : Present(x)' = Present(x)
  BY DEF Present, Lock, Unlock
<1>3. CallOK' /\ GarbOK'
  <2>1. call' = Idle
    BY DEF Lock, Unlock, Ready
  <2> QED
    BY <2>1, IdleOK
<1>4. CASE Lock(o)
  <2>1. PICK n : n = locks[o] + 1
    OBVIOUS
  <2>2. n \in Nat /\ n > 0 /\ n <= MaxLock[o] /\ Present(o) /\ locks' = [locks EXCEPT ![o] = n]
    BY <1>1, <1>4, <2>1 DEF Lock
  <2>3. locks' \in [Object -> Nat] /\ \A x \in Object : locks'[x] = IF x = o THEN n ELSE locks[x]
    BY <1>1, <2>2
  <2>4. LruOK'
    BY <1>2, <1>4, <2>2, <2>3 DEF LruOK, Lock
  <2>5. \A x \in Object : locks'[x] <= MaxLock[x] /\ (locks'[x] > 0 => Present(x))
    BY <1>1, <2>2, <2>3
  <2>6. UNCHANGED <<heap, mapped, flags, siz, kept, swapVars>> /\ chunks' \in Nat
    BY <1>4 DEF Lock, TypesOK
  <2> QED
    BY <1>3, <2>3, <2>4, <2>5, <2>6, Quiet
<1>5. CASE Unlock(o)
  <2>1. PICK n : n = locks[o] - 1
    OBVIOUS
  <2>2. n \in Nat /\ n <= MaxLock[o] /\ Present(o) /\ o \in mapped
        /\ locks' = [locks EXCEPT ![o] = n] /\ (locks[o] # 1 => n # 0)
    BY <1>1, <1>5, <2>1 DEF Unlock
  <2>3. locks' \in [Object -> Nat] /\ \A x \in Object : locks'[x] = IF x = o THEN n ELSE locks[x]
    BY <1>1, <2>2
  <2>4. LruOK'
    <3>1. CASE locks[o] = 1
      <4>1. lru' = Use(lru, o)
        BY <1>5, <3>1 DEF Unlock
      <4>2. lru' \in Seq(Object) /\ IsInjective(lru') /\ Range(lru') = Range(lru) \cup {o}
        BY <4>1, UseIs DEF LruOK
      <4>3. mapped' = mapped
        BY <1>5 DEF Unlock
      <4> QED
        BY <1>2, <2>2, <2>3, <4>2, <4>3 DEF LruOK
    <3>2. CASE locks[o] # 1
      BY <1>2, <1>5, <2>2, <2>3, <3>2 DEF LruOK, Unlock
    <3> QED
      BY <3>1, <3>2
  <2>5. \A x \in Object : locks'[x] <= MaxLock[x] /\ (locks'[x] > 0 => Present(x))
    BY <1>1, <2>2, <2>3
  <2>6. UNCHANGED <<heap, mapped, flags, siz, kept, swapVars>> /\ chunks' \in Nat
    BY <1>5 DEF Unlock, TypesOK
  <2> QED
    BY <1>3, <2>3, <2>4, <2>5, <2>6, Quiet
<1> QED
  BY <1>4, <1>5

Calls == [op : {"idle", "malo", "load", "realo"}, obj : Object \cup {Free},
          need : Nat, stage : Tries \cup {"idle", "resize"}, tot : Nat,
          size : Nat, mine : BOOLEAN]
(* A call starts.                                                          *)
LEMMA Starts ==
  ASSUME IInv, NEW o \in Object, NEW n \in Nat, n > 0,
         Allocate(o, n) \/ Load(o) \/ Reallocate(o, n) \/ ReallocateAbsent(o, n)
  PROVE  IInv'
<1> USE DEF IInv
<1>1. /\ locks \in [Object -> Nat] /\ MaxLock[o] \in Nat /\ MaxLock[o] > 0
      /\ siz \in [Object -> Nat] /\ siz[o] \in Nat
      /\ \A x \in Object : locks[x] <= MaxLock[x] /\ (locks[x] > 0 => Present(x))
  BY ConstantsOK DEF TypesOK, ObjectsOK, EntryOK
<1>2. UNCHANGED <<heap, mapped, flags, siz, kept, swapVars, chunks, lru>>
  BY DEF Allocate, Load, Reallocate, ReallocateAbsent, cacheVars
<1>3. (\A x : Present(x)' = Present(x)) /\ chunks' \in Nat
  BY <1>2 DEF Present, TypesOK
<1>4. CASE ~Reallocate(o, n)
  <2>1. locks' = locks
    BY <1>4 DEF Allocate, Load, ReallocateAbsent, cacheVars
  <2>2. LruOK'
    BY <1>2, <1>3, <2>1 DEF LruOK
  <2>3. \/ /\ o \notin mapped \cup Static
           /\ call' = [op |-> "malo", obj |-> o, need |-> n, stage |-> "first", tot |-> 0,
                       size |-> 0, mine |-> FALSE]
        \/ /\ o \in mapped /\ ~Present(o)
           /\ \E z \in Nat :
                call' = [op |-> "load", obj |-> o, need |-> siz[o], stage |-> "first",
                         tot |-> 0, size |-> z, mine |-> FALSE]
    <3>1. CASE Allocate(o, n)
      BY <3>1 DEF Allocate, Idle
    <3>2. CASE Load(o)
      <4>1. call' = [op |-> "load", obj |-> o, need |-> siz[o], stage |-> "first",
                     tot |-> 0, size |-> 0, mine |-> FALSE]
        BY <3>2 DEF Load, Idle
      <4> QED
        BY <3>2, <4>1 DEF Load
    <3>3. CASE ReallocateAbsent(o, n)
      <4>1. call' = [op |-> "load", obj |-> o, need |-> siz[o], stage |-> "first",
                     tot |-> 0, size |-> n, mine |-> FALSE]
        BY <3>3 DEF ReallocateAbsent, Idle
      <4> QED
        BY <3>3, <4>1 DEF ReallocateAbsent
    <3> QED
      BY <1>4, <3>1, <3>2, <3>3
  <2>4. call' \in Calls
    <3>1. CASE call' = [op |-> "malo", obj |-> o, need |-> n, stage |-> "first", tot |-> 0,
                        size |-> 0, mine |-> FALSE]
      BY <3>1 DEF Calls, Tries
    <3>2. ASSUME NEW z \in Nat,
                 call' = [op |-> "load", obj |-> o, need |-> siz[o], stage |-> "first",
                          tot |-> 0, size |-> z, mine |-> FALSE]
          PROVE  call' \in Calls
      BY <1>1, <3>2 DEF Calls, Tries
    <3> QED
      BY <2>3, <3>1, <3>2
  <2>5. CallOK' /\ GarbOK'
    <3>1. call'.stage = "first"
      BY <2>3
    <3>2. \/ /\ call'.op = "malo" /\ call'.obj \in Object \ (mapped' \cup Static)
             /\ call'.need > 0 /\ ~call'.mine /\ call'.stage \in Tries
          \/ /\ call'.op = "load" /\ call'.obj \in mapped' /\ ~Present(call'.obj)
             /\ call'.need = siz'[call'.obj] /\ ~call'.mine /\ call'.stage \in Tries
      BY <1>2, <2>3 DEF Tries
    <3> QED
      BY <1>3, <2>4, <3>1, <3>2 DEF CallOK, GarbOK, Calls
  <2> QED
    BY <1>1, <1>2, <1>3, <2>1, <2>2, <2>5, Quiet
<1>5. CASE Reallocate(o, n)
  <2>1. PICK l : l = IF locks[o] = 0 THEN 1 ELSE locks[o]
    OBVIOUS
  <2>2. l \in Nat /\ l > 0 /\ l <= MaxLock[o] /\ Present(o) /\ o \in mapped
    BY <1>1, <1>5, <2>1 DEF Reallocate
  <2>3. locks' = [locks EXCEPT ![o] = l]
    BY <1>5, <2>1 DEF Reallocate
  <2>4. locks' \in [Object -> Nat] /\ \A x \in Object : locks'[x] = IF x = o THEN l ELSE locks[x]
    BY <1>1, <2>2, <2>3
  <2>5. \A x \in Object : locks'[x] <= MaxLock[x] /\ (locks'[x] > 0 => Present(x))
    BY <1>1, <2>2, <2>4
  <2>6. LruOK'
    BY <1>1, <1>2, <1>3, <2>2, <2>4 DEF LruOK
  <2>7. call' = [op |-> "realo", obj |-> o, need |-> n, stage |-> "resize", tot |-> 0,
                 size |-> 0, mine |-> (locks[o] = 0)]
    BY <1>5 DEF Reallocate, Idle
  <2>8. call' \in Calls
    BY <2>7 DEF Calls
  <2>9. /\ call'.op = "realo" /\ call'.obj = o /\ call'.need = n /\ call'.stage = "resize"
        /\ locks'[o] = l
    BY <2>4, <2>7
  <2>10. CallOK' /\ GarbOK'
    BY <1>2, <1>3, <2>2, <2>8, <2>9 DEF CallOK, GarbOK, Calls
  <2> QED
    BY <1>2, <1>3, <2>4, <2>5, <2>6, <2>10, Quiet
<1> QED
  BY <1>4, <1>5

(* The steps of a call that move nothing.                                  *)
LEMMA QuietSteps ==
  ASSUME IInv, HeapRefused \/ NoMemory \/ SwapEnds \/ MustMove
  PROVE  IInv'
<1> USE DEF IInv
<1>1. /\ locks \in [Object -> Nat]
      /\ \A x \in Object : locks[x] <= MaxLock[x] /\ (locks[x] > 0 => Present(x))
  BY DEF TypesOK, ObjectsOK, EntryOK
<1>2. UNCHANGED <<heap, mapped, flags, siz, kept, swapVars>> /\ chunks' \in Nat
  BY DEF HeapRefused, NoMemory, SwapEnds, MustMove, cacheVars, TypesOK
<1>3. \A x : Present(x)' = Present(x)
  BY <1>2 DEF Present
<1>4. call # Idle
  BY DEF HeapRefused, NoMemory, NoFit, SwapEnds, MustMove, Trying, Resizing, Idle
<1>5. CASE Fails
  <2>1. /\ LruOK' /\ CallOK' /\ GarbOK' /\ locks' \in [Object -> Nat]
        /\ \A o \in Object : locks'[o] <= MaxLock[o] /\ (locks'[o] > 0 => Present(o))
    BY <1>2, <1>4, <1>5, FailsOK
  <2> QED
    BY <1>2, <2>1, Quiet
<1>6. CASE ~Fails
  <2>1. locks' = locks /\ lru' = lru
    BY <1>6 DEF HeapRefused, NoMemory, SwapEnds, MustMove, cacheVars
  <2>2. LruOK'
    BY <1>2, <1>3, <2>1 DEF LruOK
  <2>3. CASE HeapRefused
    <3>1. call' = call
      BY <2>3 DEF HeapRefused
    <3>2. CallOK'
      BY <1>2, <1>3, <2>1, <3>1 DEF CallOK
    <3>3. GarbOK'
      BY <1>2, <3>1 DEF GarbOK
    <3> QED
      BY <1>1, <1>2, <2>1, <2>2, <3>2, <3>3, Quiet
  <2>4. CASE SwapEnds
    <3>1. call' = [call EXCEPT !.stage = "third", !.tot = 0]
      BY <2>4 DEF SwapEnds
    <3>2. call \in Calls
      BY DEF CallOK, Calls
    <3>3. call' \in Calls /\ call'.stage = "third" /\ call'.op = call.op /\ call'.obj = call.obj
          /\ call'.need = call.need /\ call'.mine = call.mine
      BY <3>1, <3>2 DEF Calls, Tries
    <3>4. call.stage = "swap"
      BY <2>4 DEF SwapEnds
    <3>5. CallOK'
      BY <1>2, <1>3, <1>4, <2>1, <3>3, <3>4 DEF CallOK, Calls, Tries
    <3>6. GarbOK'
      BY <3>3 DEF GarbOK
    <3> QED
      BY <1>1, <1>2, <2>1, <2>2, <3>5, <3>6, Quiet
  <2>5. CASE MustMove
    <3>1. call' = [call EXCEPT !.stage = "first"] /\ locks[call.obj] = 1
          /\ call.stage = "resize" /\ call.need >= siz[call.obj]
      BY <1>6, <2>5 DEF MustMove, Resizing
    <3>2. call \in Calls
      BY DEF CallOK, Calls
    <3>3. call' \in Calls /\ call'.stage = "first" /\ call'.op = call.op /\ call'.obj = call.obj
          /\ call'.need = call.need /\ call'.mine = call.mine
      BY <3>1, <3>2 DEF Calls, Tries
    <3>4. /\ call.op = "realo" /\ call.obj \in mapped /\ Present(call.obj)
          /\ locks[call.obj] > 0 /\ call.need > 0
      BY <1>4, <3>1 DEF CallOK, Tries
    <3>5. CallOK'
      BY <1>2, <1>3, <2>1, <3>1, <3>3, <3>4 DEF CallOK, Calls, Tries
    <3>6. GarbOK'
      BY <3>3 DEF GarbOK
    <3> QED
      BY <1>1, <1>2, <2>1, <2>2, <3>5, <3>6, Quiet
  <2>6. ~NoMemory
    BY <1>6 DEF NoMemory
  <2> QED
    BY <2>3, <2>4, <2>5, <2>6
<1> QED
  BY <1>5, <1>6

\* Nothing that is said of object x in the invariant changes.
LeftAlone(x) ==
  /\ SameBlock(heap, heap', x) /\ flags'[x] = flags[x] /\ siz'[x] = siz[x]
  /\ kept'[x] = kept[x] /\ locks'[x] = locks[x] /\ (x \in mapped' <=> x \in mapped)
  /\ SwappedOut(x) => Stored(Swapper', x) = Stored(Swapper, x)
(* A step that changes one object.                                         *)
LEMMA OneChanges ==
  ASSUME ObjectsOK, NEW o \in Object, \A x \in Object \ {o} : LeftAlone(x),
         HasBlock(o)', EntryOK(o)', KeptOK(o)'
  PROVE  ObjectsOK'
<1>1. ASSUME NEW x \in Object \ {o}
      PROVE  HasBlock(x)' /\ EntryOK(x)' /\ KeptOK(x)'
  <2>1. HasBlock(x) /\ EntryOK(x) /\ KeptOK(x) /\ LeftAlone(x)
    BY DEF ObjectsOK
  <2>2. HasBlock(x)' /\ KeptOK(x)'
    BY <2>1, Stays DEF LeftAlone
  <2>3. EntryOK(x)'
    BY <2>1 DEF EntryOK, Present, LeftAlone
  <2> QED
    BY <2>2, <2>3
<1> QED
  BY <1>1 DEF ObjectsOK

(* The swapper's state.                                                    *)
LEMMA SwapperState ==
  ASSUME SwapperOK
  PROVE  Swapper \in SwapState
BY DEF SwapperOK, SwapOK, Swapper, SwapState

(* What is stored where.                                                   *)
LEMMA StoredIs ==
  ASSUME NEW o
  PROVE  Stored(Swapper, o) = ReadFile(file, seg[loc[o]].ptr, seg[loc[o]].osz)
BY DEF Stored, Swapper

(* A step that leaves the swapper and what is swapped out alone.           *)
LEMMA SameSwapper ==
  ASSUME SwapperOK, UNCHANGED swapVars, \A x \in Object : SwappedOut(x)' = SwappedOut(x)
  PROVE  SwapperOK' /\ Swapper' = Swapper
<1>1. Swapper' = Swapper
  BY DEF Swapper, swapVars
<1>2. Out' = Out
  BY DEF Out
<1> QED
  BY <1>1, <1>2 DEF SwapperOK

(* A step that sets the handle of an object that is not swapped out.       *)
LEMMA SetsHandle ==
  ASSUME SwapperOK, NEW o \in Object, ~SwappedOut(o), NEW v \in Int,
         UNCHANGED <<seg, file, top, max>>, loc' = [loc EXCEPT ![o] = v],
         \A x \in Object : SwappedOut(x)' = SwappedOut(x)
  PROVE  SwapperOK' /\ \A x \in Object : SwappedOut(x) => Stored(Swapper', x) = Stored(Swapper, x)
<1>1. Out' = Out /\ Out \subseteq Object /\ o \notin Out
  BY DEF Out
<1>2. Swapper' = [Swapper EXCEPT !.loc[o] = v]
  BY DEF Swapper
<1>3. Swapper \in SwapState /\ SwapOK(Swapper, Out)
  BY SwapperState DEF SwapperOK
<1>4. PICK s, r : s = Swapper /\ r = Swapper'
  OBVIOUS
<1>5. s \in SwapState /\ SwapOK(s, Out) /\ r = [s EXCEPT !.loc[o] = v]
  BY <1>2, <1>3, <1>4
<1>6. Handled(s, Out, o, v, r)
  BY <1>1, <1>5, HandleOK
<1> QED
  BY <1>1, <1>4, <1>6 DEF Handled, SwapperOK, Out

(* mcmrsrv.                                                                *)
LEMMA ReserveKeeps ==
  ASSUME IInv, NEW o \in Object, NEW n \in Nat, n > 0, Reserve(o, n)
  PROVE  IInv'
<1> USE DEF IInv
<1>1. /\ o \notin mapped /\ o \in Static /\ mapped' = mapped \cup {o}
      /\ flags' = [flags EXCEPT ![o] = {}] /\ siz' = [siz EXCEPT ![o] = n]
      /\ loc' = [loc EXCEPT ![o] = LoadHandle] /\ kept' = [kept EXCEPT ![o] = Original(o, n)]
      /\ UNCHANGED <<heap, chunks, locks, lru, seg, file, top, max>> /\ call' = Idle
  BY DEF Reserve, Ready
<1>2. TypesOK /\ HasBlock(o) /\ EntryOK(o) /\ KeptOK(o)
  BY DEF ObjectsOK
<1>3. flags[o] = {} /\ ~Present(o) /\ ~InSwapFile(o) /\ flags' = flags
  BY <1>1, <1>2 DEF EntryOK, Present, InSwapFile, TypesOK
<1>4. PICK d \in Seq(Value) : d = Original(o, n) /\ Len(d) = n /\ \A k \in 1 .. n : d[k] = <<o, 0>>
  <2>1. <<o, 0>> \in Value
    BY DEF Value
  <2> QED
    BY <2>1, FillIs DEF Original
<1>5. /\ kept' \in [Object -> Seq(Value)] /\ siz' \in [Object -> Nat]
      /\ kept'[o] = d /\ siz'[o] = n
      /\ \A x \in Object : x # o => kept'[x] = kept[x] /\ siz'[x] = siz[x]
  BY <1>1, <1>2, <1>4 DEF TypesOK
<1>6. TypesOK'
  BY <1>1, <1>2, <1>3, <1>5 DEF TypesOK
<1>7. \A x \in Object : SwappedOut(x)' = SwappedOut(x) /\ Present(x)' = Present(x)
  BY <1>1, <1>3 DEF SwappedOut, Present, InSwapFile
<1>8. SwapperOK' /\ \A x \in Object : SwappedOut(x) => Stored(Swapper', x) = Stored(Swapper, x)
  <2>1. ~SwappedOut(o) /\ LoadHandle \in Int
    BY <1>1 DEF SwappedOut, LoadHandle
  <2> QED
    BY <1>1, <1>7, <2>1, SetsHandle
<1>9. \A x \in Object \ {o} : LeftAlone(x)
  BY <1>1, <1>3, <1>5, <1>8, UndisturbedSelf DEF LeftAlone
<1>10. Absent(heap, o) /\ ~Present(o)' /\ ~InSwapFile(o)' /\ heap' = heap
  BY <1>1, <1>2, <1>3 DEF HasBlock, Present, InSwapFile
<1>11. HasBlock(o)'
  BY <1>10 DEF HasBlock
<1>12. EntryOK(o)'
  BY <1>1, <1>2, <1>3, <1>5 DEF EntryOK, Present
<1>13. Unwritten(o)' /\ o \in mapped'
  BY <1>1, <1>4, <1>5 DEF Unwritten
<1>14. KeptOK(o)'
  <2>1. \A i \in 1 .. Len(heap') : ~Sits(heap', o, i)
    BY <1>10 DEF Absent, Sits
  <2>2. ~SwappedOut(o)' /\ n <= n
    BY <1>10 DEF SwappedOut
  <2>3. \A i \in 1 .. Len(kept'[o]) : kept'[o][i] \in {<<o, v>> : v \in 0 .. 2}
    <3>1. <<o, 0>> \in {<<o, v>> : v \in 0 .. 2}
      OBVIOUS
    <3> QED
      BY ONLY <1>4, <1>5, <3>1
  <2> QED
    BY <1>4, <1>5, <1>13, <2>1, <2>2, <2>3 DEF KeptOK
<1>15. ObjectsOK'
  BY <1>9, <1>11, <1>12, <1>14, OneChanges
<1>16. LruOK'
  BY <1>1, <1>3, <1>7 DEF LruOK, Present
<1>17. CallOK' /\ GarbOK'
  BY <1>1, IdleOK
<1> QED
  BY <1>6, <1>8, <1>15, <1>16, <1>17

\* Everybody else keeps block and place.
OthersStayPut(o) == \A x \in Object \ {o} : Undisturbed(heap, heap', x)

(* An object in memory that is written, by the client or by objrevert.     *)
LEMMA Rewrites ==
  ASSUME IInv, NEW o \in mapped, Present(o), NEW d \in Seq(Value), Len(d) = siz[o],
         \A k \in 1 .. Len(d) : d[k] \in {<<o, v>> : v \in 0 .. 2},
         heap' = [heap EXCEPT ![At(heap, o)].data = d], kept' = [kept EXCEPT ![o] = d],
         flags' = [flags EXCEPT ![o] = @ \cup {"dirty"}],
         UNCHANGED <<chunks, mapped, locks, siz, swapVars>>
  PROVE  /\ TypesOK' /\ ObjectsOK' /\ SwapperOK' /\ OthersStayPut(o)
         /\ \A x \in Object : Present(x)' = Present(x)
         /\ Place(heap', o) = Place(heap, o)
<1> USE DEF IInv
<1>1. o \in Object /\ TypesOK /\ HasBlock(o) /\ EntryOK(o) /\ KeptOK(o)
  BY DEF ObjectsOK, TypesOK
<1>2. PICK i \in 1 .. Len(heap) : Sits(heap, o, i) /\ Len(heap[i].data) = siz[o]
  BY <1>1 DEF HasBlock
<1>3. Heap(heap) /\ heap \in Seq(Blocks) /\ At(heap, o) = i
  BY <1>1, <1>2, AtIs DEF TypesOK, Heap
<1>4. /\ IsTaken(heap, heap', o, i, heap'[i]) /\ heap'[i].data = d
      /\ Place(heap', o) = Place(heap, o)
  <2>1. heap' = [heap EXCEPT ![i].data = d]
    BY <1>3
  <2>2. d \in Seq(Value) /\ Len(d) = Len(heap[i].data)
    BY <1>2
  <2>3. PICK g, b : g = heap' /\ b = [heap[i] EXCEPT !.data = d]
    OBVIOUS
  <2>4. g = Put(heap, i, b)
    BY <2>1, <2>3 DEF Put
  <2>5. heap[i] \in Blocks /\ heap[i].own = o
    BY <1>2, <1>3 DEF Sits
  <2>6. b \in Blocks /\ b.own = o /\ b.data = d
    BY <2>2, <2>3, <2>5 DEF Blocks
  <2>7. IsTaken(heap, g, o, i, b) /\ Place(g, o) = Place(heap, o)
    BY ONLY <1>1, <1>2, <1>3, <2>2, <2>4, <2>6, Overwritten, o \in Object, i \in 1 .. Len(heap)
  <2>8. g[i] = b
    BY <2>7 DEF IsTaken
  <2> QED
    BY <2>3, <2>6, <2>7, <2>8
<1>5. Heap(heap') /\ Sits(heap', o, i) /\ OthersStayPut(o)
  BY <1>4 DEF IsTaken, OthersStayPut
<1>6. /\ flags[o] \in SUBSET Flag /\ flags \in [Object -> SUBSET Flag]
      /\ kept \in [Object -> Seq(Value)]
  BY <1>1 DEF TypesOK
<1>7. /\ flags' \in [Object -> SUBSET Flag] /\ flags'[o] = flags[o] \cup {"dirty"}
      /\ \A x \in Object : x # o => flags'[x] = flags[x]
  BY <1>1, <1>6 DEF Flag
<1>8. /\ kept' \in [Object -> Seq(Value)] /\ kept'[o] = d
      /\ \A x \in Object : x # o => kept'[x] = kept[x]
  BY <1>1, <1>6
<1>9. TypesOK'
  BY <1>1, <1>5, <1>7, <1>8 DEF TypesOK
<1>10. \A x \in Object : Present(x)' = Present(x)
  BY <1>7 DEF Present
<1>11. \A x \in Object : SwappedOut(x)' = SwappedOut(x)
  BY <1>1, <1>7, <1>10 DEF SwappedOut, InSwapFile
<1>12. SwapperOK' /\ Swapper' = Swapper
  BY <1>11, SameSwapper
<1>13. \A x \in Object \ {o} : LeftAlone(x)
  BY <1>5, <1>7, <1>8, <1>12 DEF LeftAlone, OthersStayPut, Undisturbed
<1>14. HasBlock(o)'
  <2>1. Present(o)' /\ i \in 1 .. Len(heap') /\ Len(heap'[i].data) = siz'[o]
    BY <1>1, <1>4, <1>5, <1>10 DEF Sits
  <2> QED
    BY <1>5, <2>1 DEF HasBlock
<1>15. EntryOK(o)'
  BY <1>1, <1>7, <1>10 DEF EntryOK
<1>16. KeptOK(o)'
  <2>1. Present(o)' /\ ~SwappedOut(o)' /\ "revrt" \notin flags'[o]
    BY <1>1, <1>7, <1>10 DEF SwappedOut, EntryOK
  <2>2. \A j \in 1 .. Len(heap') : Sits(heap', o, j) => j = i
    BY <1>5 DEF Sits
  <2>3. Len(d) \in Nat /\ Begins(d, d)
    BY DEF Begins
  <2>4. o \in mapped' /\ siz' = siz
    OBVIOUS
  <2>5. \A j \in 1 .. Len(heap') : Sits(heap', o, j) => Begins(kept'[o], heap'[j].data)
    BY <1>4, <1>8, <2>2, <2>3
  <2>6. Len(kept'[o]) <= siz'[o]
    BY <1>8, <2>3, <2>4
  <2>7. \A j \in 1 .. Len(kept'[o]) : kept'[o][j] \in {<<o, v>> : v \in 0 .. 2}
    BY <1>8
  <2> QED
    BY <2>1, <2>4, <2>5, <2>6, <2>7 DEF KeptOK
<1> QED
  BY <1>1, <1>4, <1>5, <1>9, <1>10, <1>12, <1>13, <1>14, <1>15, <1>16, OneChanges

\* n cells that are filled with version v of object o.
IsFilled(d, o, v, n) ==
  /\ d \in Seq(Value) /\ Len(d) = n
  /\ \A k \in 1 .. Len(d) : d[k] = <<o, v>> /\ d[k] \in {<<o, w>> : w \in 0 .. 2}
Filled(o, v, n) == Fill(<<o, v>>, n)
(* The object's version, and what it is filled with.                       *)
LEMMA FilledWith ==
  ASSUME NEW o \in Object, NEW v \in 0 .. 2, NEW n \in Nat, NEW d, d = Filled(o, v, n)
  PROVE  IsFilled(d, o, v, n)
<1>1. <<o, v>> \in Value /\ <<o, v>> \in {<<o, w>> : w \in 0 .. 2}
  BY DEF Value
<1>2. d \in Seq(Value) /\ Len(d) = n /\ \A k \in 1 .. n : d[k] = <<o, v>>
  BY <1>1, FillIs DEF Filled
<1> QED
  BY ONLY <1>1, <1>2 DEF IsFilled

(* mcmtch, after the client has written.                                   *)
LEMMA ModifyKeeps ==
  ASSUME IInv, NEW o \in Object, Modify(o)
  PROVE  IInv' /\ OthersStayPut(o) /\ Place(heap', o) = Place(heap, o)
<1> USE DEF IInv
<1> DEFINE version == IF kept[o] = <<>> THEN 0 ELSE (kept[o][1][2] + 1) % Versions[o]
           new == Fill(<<o, version>>, siz[o])
<1>1. /\ Ready /\ o \in mapped /\ locks[o] > 0
      /\ heap' = [heap EXCEPT ![At(heap, o)].data = new] /\ kept' = [kept EXCEPT ![o] = new]
      /\ flags' = [flags EXCEPT ![o] = @ \cup {"dirty"}]
      /\ UNCHANGED <<chunks, mapped, locks, siz, lru, swapVars, call>>
  BY DEF Modify
<1>2. TypesOK /\ EntryOK(o) /\ KeptOK(o)
  BY DEF ObjectsOK
<1>3. Present(o) /\ siz[o] \in Nat /\ kept[o] \in Seq(Value)
  BY <1>1, <1>2 DEF EntryOK, TypesOK
<1>4. version \in 0 .. 2
  <2>1. CASE kept[o] = <<>>
    BY <2>1
  <2>2. CASE kept[o] # <<>>
    <3>1. Len(kept[o]) \in Nat /\ Len(kept[o]) > 0
      BY <1>3, <2>2
    <3>2. kept[o][1] \in {<<o, v>> : v \in 0 .. 2}
      BY <1>2, <3>1 DEF KeptOK
    <3>3. PICK v \in 0 .. 2 : kept[o][1] = <<o, v>>
      BY <3>2
    <3>4. kept[o][1][2] = v
      BY <3>3
    <3>5. PICK m : m = Versions[o]
      OBVIOUS
    <3>6. m \in 1 .. 3
      BY <3>5, ConstantsOK
    <3>7. (v + 1) % m \in 0 .. 2
      <4>1. v + 1 \in Int /\ m \in {1, 2, 3}
        BY <3>6
      <4> QED
        BY <4>1
    <3> QED
      BY <2>2, <3>4, <3>5, <3>7
  <2> QED
    BY <2>1, <2>2
<1>5. /\ new \in Seq(Value) /\ Len(new) = siz[o]
      /\ \A k \in 1 .. Len(new) : new[k] \in {<<o, w>> : w \in 0 .. 2}
  <2>1. PICK v \in 0 .. 2, n \in Nat : v = version /\ n = siz[o]
    BY <1>3, <1>4
  <2>2. new = Fill(<<o, v>>, n)
    BY <2>1
  <2>3. PICK d : d = Fill(<<o, v>>, n)
    OBVIOUS
  <2>4. /\ d \in Seq(Value) /\ Len(d) = n
        /\ \A k \in 1 .. Len(d) : d[k] = <<o, v>> /\ d[k] \in {<<o, w>> : w \in 0 .. 2}
    <3>1. d = Filled(o, v, n)
      BY <2>3 DEF Filled
    <3>2. IsFilled(d, o, v, n)
      BY ONLY <3>1, o \in Object, v \in 0 .. 2, n \in Nat, FilledWith
    <3> QED
      BY ONLY <3>2 DEF IsFilled
  <2>5. new = d
    BY <2>2, <2>3
  <2> HIDE DEF new
  <2> QED
    BY <2>1, <2>4, <2>5
<1> HIDE DEF new, version
<1>6. PICK d \in Seq(Value) : /\ d = new /\ Len(d) = siz[o]
                              /\ \A k \in 1 .. Len(d) : d[k] \in {<<o, w>> : w \in 0 .. 2}
  BY <1>5
<1>7. /\ TypesOK' /\ ObjectsOK' /\ SwapperOK' /\ OthersStayPut(o)
      /\ \A x \in Object : Present(x)' = Present(x)
      /\ Place(heap', o) = Place(heap, o)
  <2>1. heap' = [heap EXCEPT ![At(heap, o)].data = d] /\ kept' = [kept EXCEPT ![o] = d]
    BY <1>1, <1>6
  <2>2. IInv /\ o \in mapped /\ Present(o)
    BY <1>1, <1>3
  <2>3. UNCHANGED <<chunks, mapped, locks, siz, swapVars>>
    BY <1>1
  <2> QED
    BY ONLY <1>1, <1>6, <2>1, <2>2, <2>3, Rewrites
<1>8. LruOK'
  <2>1. lru' = lru /\ locks' = locks /\ mapped' = mapped
    BY <1>1
  <2> QED
    <3>1. LruOK /\ \A x \in Object : Present(x)' = Present(x)
      BY <1>7
    <3>2. \A x \in Object : Present(x)' /\ locks'[x] = 0 => x \in Range(lru')
      BY ONLY <2>1, <3>1 DEF LruOK
    <3>3. Range(lru') \subseteq Object
      BY ONLY <2>1, <3>1 DEF LruOK, Range
    <3>4. \A x \in Range(lru') : x \in mapped' /\ Present(x)'
      BY ONLY <2>1, <3>1, <3>3 DEF LruOK
    <3> QED
      BY ONLY <2>1, <3>1, <3>2, <3>4 DEF LruOK
<1>9. CallOK' /\ GarbOK'
  BY <1>1, IdleOK DEF Ready
<1> QED
  BY <1>7, <1>8, <1>9

(* mcmrevert.                                                              *)
LEMMA RevertKeeps ==
  ASSUME IInv, NEW o \in Object, Revert(o)
  PROVE  IInv' /\ OthersStayPut(o) /\ (Present(o) => Place(heap', o) = Place(heap, o))
<1> USE DEF IInv
<1>1. /\ Ready /\ o \in mapped
      /\ kept' = [kept EXCEPT ![o] = Original(o, siz[o])]
      /\ UNCHANGED <<chunks, mapped, locks, siz, swapVars>> /\ call' = Idle
  BY DEF Revert, Ready
<1>2. TypesOK /\ HasBlock(o) /\ EntryOK(o) /\ KeptOK(o) /\ siz[o] \in Nat
  BY DEF ObjectsOK, TypesOK
<1>3. PICK d \in Seq(Value) :
        /\ d = Original(o, siz[o]) /\ Len(d) = siz[o]
        /\ \A k \in 1 .. Len(d) : d[k] = <<o, 0>> /\ d[k] \in {<<o, w>> : w \in 0 .. 2}
  <2>1. PICK v \in 0 .. 2, n \in Nat : v = 0 /\ n = siz[o]
    BY <1>2
  <2>2. PICK d : d = Fill(<<o, v>>, n)
    OBVIOUS
  <2>3. /\ d \in Seq(Value) /\ Len(d) = n
        /\ \A k \in 1 .. Len(d) : d[k] = <<o, v>> /\ d[k] \in {<<o, w>> : w \in 0 .. 2}
    <3>1. d = Filled(o, v, n)
      BY <2>2 DEF Filled
    <3>2. IsFilled(d, o, v, n)
      BY ONLY <3>1, o \in Object, v \in 0 .. 2, n \in Nat, FilledWith
    <3> QED
      BY ONLY <3>2 DEF IsFilled
  <2>4. d = Original(o, siz[o])
    BY <2>1, <2>2 DEF Original
  <2> QED
    BY <2>1, <2>3, <2>4
<1>4. CallOK' /\ GarbOK'
  BY <1>1, IdleOK
<1>5. CASE Present(o)
  <2>1. /\ heap' = [heap EXCEPT ![At(heap, o)].data = d] /\ kept' = [kept EXCEPT ![o] = d]
        /\ flags' = [flags EXCEPT ![o] = @ \cup {"dirty"}]
        /\ lru' = IF locks[o] = 0 THEN Use(lru, o) ELSE lru
    BY <1>1, <1>3, <1>5 DEF Revert
  <2>2. /\ TypesOK' /\ ObjectsOK' /\ SwapperOK' /\ OthersStayPut(o)
        /\ \A x \in Object : Present(x)' = Present(x)
        /\ Place(heap', o) = Place(heap, o)
    <3>1. IInv /\ o \in mapped /\ UNCHANGED <<chunks, mapped, locks, siz, swapVars>>
      BY <1>1
    <3> QED
      BY ONLY <1>3, <1>5, <2>1, <3>1, Rewrites
  <2>3. LruOK'
    <3>1. lru \in Seq(Object) /\ IsInjective(lru)
      BY DEF LruOK
    <3>2. /\ lru' \in Seq(Object) /\ IsInjective(lru')
          /\ Range(lru') = Range(lru) \/ Range(lru') = Range(lru) \cup {o}
      <4>1. PICK l, r : l = lru /\ r = lru'
        OBVIOUS
      <4>2. l \in Seq(Object) /\ IsInjective(l) /\ (r = l \/ r = Use(l, o))
        BY <2>1, <3>1, <4>1
      <4>3. /\ r \in Seq(Object) /\ IsInjective(r)
            /\ Range(r) = Range(l) \/ Range(r) = Range(l) \cup {o}
        BY <4>2, UseIs
      <4> QED
        BY <4>1, <4>3
    <3>3. LruOK /\ locks' = locks /\ mapped' = mapped /\ o \in mapped
      BY <1>1
    <3>4. Range(lru) \subseteq Object
      BY <3>1 DEF Range
    <3>5. \A x \in Object : Present(x)' /\ locks'[x] = 0 => x \in Range(lru')
      BY ONLY <2>2, <3>2, <3>3 DEF LruOK
    <3>6. \A x \in Range(lru') : x \in mapped' /\ Present(x)'
      BY ONLY <1>5, <2>2, <3>2, <3>3, <3>4, o \in Object DEF LruOK
    <3> QED
      BY ONLY <3>2, <3>5, <3>6 DEF LruOK
  <2> QED
    BY <1>4, <2>2, <2>3
<1>6. CASE ~Present(o)
  <2>1. /\ heap' = heap /\ lru' = lru /\ kept' = [kept EXCEPT ![o] = d]
        /\ flags' = [flags EXCEPT ![o] = @ \cup {"revrt"}]
    BY <1>1, <1>3, <1>6 DEF Revert
  <2>2. /\ kept' \in [Object -> Seq(Value)] /\ kept'[o] = d
        /\ \A x \in Object : x # o => kept'[x] = kept[x]
    BY <1>2, <2>1 DEF TypesOK
  <2>3. /\ flags' \in [Object -> SUBSET Flag] /\ flags'[o] = flags[o] \cup {"revrt"}
        /\ \A x \in Object : x # o => flags'[x] = flags[x]
    BY <1>2, <2>1 DEF TypesOK, Flag
  <2>4. TypesOK'
    BY <1>1, <1>2, <2>1, <2>2, <2>3 DEF TypesOK
  <2>5. \A x \in Object : Present(x)' = Present(x)
    BY <2>3 DEF Present
  <2>6. \A x \in Object : SwappedOut(x)' = SwappedOut(x)
    BY <1>1, <2>3, <2>5 DEF SwappedOut, InSwapFile
  <2>7. SwapperOK' /\ Swapper' = Swapper
    BY <1>1, <2>6, SameSwapper
  <2>8. OthersStayPut(o)
    BY <2>1, UndisturbedSelf DEF OthersStayPut
  <2>9. \A x \in Object \ {o} : LeftAlone(x)
    BY <1>1, <2>1, <2>2, <2>3, <2>7, <2>8 DEF LeftAlone, OthersStayPut, Undisturbed
  <2>10. Absent(heap, o) /\ ~Present(o)'
    BY <1>2, <1>6, <2>5 DEF HasBlock
  <2>11. HasBlock(o)'
    BY <2>1, <2>10 DEF HasBlock
  <2>12. EntryOK(o)'
    BY <1>1, <1>2, <1>6, <2>10 DEF EntryOK
  <2>13. Unwritten(o)'
    BY <1>3, <2>2 DEF Unwritten
  <2>14. KeptOK(o)'
    <3>1. "revrt" \in flags'[o] /\ o \in mapped' /\ siz' = siz
      BY <1>1, <2>3
    <3>2. \A i \in 1 .. Len(heap') : ~Sits(heap', o, i)
      BY <2>1, <2>10 DEF Absent, Sits
    <3>3. \A k \in 1 .. Len(kept'[o]) : kept'[o][k] \in {<<o, v>> : v \in 0 .. 2}
      BY ONLY <1>3, <2>2
    <3>4. Len(kept'[o]) <= siz'[o]
      BY <1>2, <1>3, <2>2, <3>1
    <3> QED
      BY <2>13, <3>1, <3>2, <3>3, <3>4 DEF KeptOK
  <2>15. ObjectsOK'
    BY <2>9, <2>11, <2>12, <2>14, OneChanges
  <2>16. LruOK'
    <3>1. LruOK /\ lru' = lru /\ locks' = locks /\ mapped' = mapped
      BY <1>1, <2>1
    <3>2. \A x \in Object : Present(x)' /\ locks'[x] = 0 => x \in Range(lru')
      BY ONLY <2>5, <3>1 DEF LruOK
    <3>3. Range(lru') \subseteq Object
      BY ONLY <3>1 DEF LruOK, Range
    <3>4. \A x \in Range(lru') : x \in mapped' /\ Present(x)'
      BY ONLY <2>5, <3>1, <3>3 DEF LruOK
    <3> QED
      BY ONLY <3>1, <3>2, <3>4 DEF LruOK
  <2> QED
    BY <1>4, <1>6, <2>4, <2>7, <2>8, <2>15, <2>16
<1> QED
  BY <1>5, <1>6

(* The blocks of objects in memory are told apart.                         *)
LEMMA BlocksDistinct ==
  ASSUME TypesOK, ObjectsOK
  PROVE  Distinct(heap)
<1>1. SUFFICES ASSUME NEW i \in 1 .. Len(heap), NEW j \in 1 .. Len(heap),
                      heap[i].own = heap[j].own, heap[i].own \in Object
               PROVE  i = j
  BY DEF Distinct
<1>2. PICK o \in Object : o = heap[i].own
  BY <1>1
<1>3. HasBlock(o)
  BY DEF ObjectsOK
<1>4. ~Absent(heap, o)
  BY <1>2 DEF Absent
<1>5. PICK k \in 1 .. Len(heap) : Sits(heap, o, k)
  BY <1>3, <1>4 DEF HasBlock
<1> QED
  BY <1>1, <1>2, <1>5 DEF Sits

(* A step that moves blocks, or makes room, and changes nothing else.      *)
LEMMA BlocksMove ==
  ASSUME IInv, Heap(heap'), \A x \in Object : SameBlock(heap, heap', x), chunks' \in Nat,
         UNCHANGED <<mapped, flags, locks, siz, lru, swapVars, kept>>
  PROVE  TypesOK' /\ ObjectsOK' /\ LruOK' /\ SwapperOK'
<1> USE DEF IInv
<1>1. TypesOK'
  BY DEF TypesOK
<1>2. \A x \in Object : SwappedOut(x)' = SwappedOut(x) /\ Present(x)' = Present(x)
  BY DEF SwappedOut, Present, InSwapFile
<1>3. SwapperOK' /\ Swapper' = Swapper
  BY <1>2, SameSwapper
<1>4. ASSUME NEW x \in Object
      PROVE  HasBlock(x)' /\ EntryOK(x)' /\ KeptOK(x)'
  <2>1. HasBlock(x) /\ EntryOK(x) /\ KeptOK(x)
    BY DEF ObjectsOK
  <2>2. /\ SameBlock(heap, heap', x) /\ flags'[x] = flags[x] /\ siz'[x] = siz[x]
        /\ kept'[x] = kept[x] /\ (x \in mapped' <=> x \in mapped)
        /\ SwappedOut(x) => Stored(Swapper', x) = Stored(Swapper, x)
    BY <1>3
  <2>3. HasBlock(x)' /\ KeptOK(x)'
    BY ONLY <2>1, <2>2, x \in Object, Stays
  <2>4. EntryOK(x)'
    BY <2>1, <1>2 DEF EntryOK
  <2> QED
    BY <2>3, <2>4
<1>5. LruOK'
  BY DEF LruOK, Present
<1> QED
  BY <1>1, <1>3, <1>4, <1>5 DEF ObjectsOK

(* mcmhalo.                                                                *)
LEMMA HeapGrowsKeeps ==
  ASSUME IInv, HeapGrows
  PROVE  IInv' /\ \A x \in Object : Undisturbed(heap, heap', x)
<1> USE DEF IInv
<1>1. PICK n \in Nat : n = Chunk - Hdr
  BY ConstantsOK
<1>2. heap' = <<FreeBlock(n), Block(End, <<>>)>> \o heap /\ chunks' \in Nat
  BY <1>1 DEF HeapGrows, TypesOK
<1>3. UNCHANGED <<mapped, flags, locks, siz, lru, swapVars, call, kept>>
  BY DEF HeapGrows
<1>4. IsGrown(heap, heap')
  <2>1. PICK h, g : h = heap /\ g = heap'
    OBVIOUS
  <2>2. Heap(h) /\ g = <<FreeBlock(n), Block(End, <<>>)>> \o h
    BY <1>2, <2>1 DEF TypesOK
  <2>3. IsGrown(h, g)
    BY ONLY <2>2, n \in Nat, Grown
  <2> QED
    BY <2>1, <2>3
<1>5. /\ Heap(heap') /\ (NoGap(heap) => NoGap(heap'))
      /\ \A x \in Object : Undisturbed(heap, heap', x)
  BY <1>4 DEF IsGrown
<1>6. \A x \in Object : SameBlock(heap, heap', x)
  BY <1>5 DEF Undisturbed
<1>7. TypesOK' /\ ObjectsOK' /\ LruOK' /\ SwapperOK'
  <2>1. IInv
    OBVIOUS
  <2> QED
    BY ONLY <2>1, <1>2, <1>3, <1>5, <1>6, BlocksMove
<1>8. CallOK'
  <2>1. CallOK
    OBVIOUS
  <2> QED
    BY <1>3, <2>1 DEF CallOK, Present, Idle
<1>9. GarbOK'
  BY <1>3, <1>5 DEF GarbOK
<1> QED
  BY <1>5, <1>7, <1>8, <1>9

(* mcmgarb.                                                                *)
LEMMA CollectGarbageKeeps ==
  ASSUME IInv, CollectGarbage
  PROVE  /\ IInv'
         /\ \A x \in Object : locks[x] > 0 => Place(heap', x) = Place(heap, x)
<1> USE DEF IInv
<1>1. /\ heap' = Bubbled(heap, Stops)[Len(heap)].done
      /\ call' = [call EXCEPT !.stage = "again"] /\ call.stage \in {"first", "third"}
      /\ UNCHANGED <<chunks, mapped, flags, locks, siz, lru, swapVars, kept>>
  BY DEF CollectGarbage, Garb
<1>2. Heap(heap) /\ Distinct(heap) /\ Free \notin Stops /\ End \in Stops
  BY BlocksDistinct, ConstantsOK DEF TypesOK, Stops
<1>3. Collected(heap, Stops, heap')
  BY <1>1, <1>2, Collecting
<1>4. Heap(heap') /\ NoGap(heap') /\ \A x \in Object : SameBlock(heap, heap', x)
  BY <1>3 DEF Collected
<1>5. TypesOK' /\ ObjectsOK' /\ LruOK' /\ SwapperOK'
  <2>1. IInv /\ chunks' \in Nat
    BY <1>1 DEF TypesOK
  <2> QED
    BY ONLY <1>1, <2>1, <1>4, BlocksMove
<1>6. CallOK'
  <2>1. CallOK /\ call # Idle
    BY <1>1 DEF Idle
  <2>2. /\ call' \in Calls /\ call'.stage = "again" /\ call'.op = call.op
        /\ call'.obj = call.obj /\ call'.need = call.need /\ call'.mine = call.mine
    BY <1>1, <2>1 DEF CallOK, Calls, Tries
  <2>3. \A x \in Object : Present(x)' = Present(x)
    BY <1>1 DEF Present
  <2>4. mapped' = mapped /\ siz' = siz /\ locks' = locks /\ mapped \subseteq Object
    BY <1>1 DEF TypesOK
  <2> QED
    BY ONLY <1>1, <2>1, <2>2, <2>3, <2>4 DEF CallOK, Calls, Tries
<1>7. GarbOK'
  BY <1>4 DEF GarbOK
<1>8. ASSUME NEW x \in Object, locks[x] > 0
      PROVE  Place(heap', x) = Place(heap, x)
  <2>1. HasBlock(x) /\ Present(x)
    BY <1>8 DEF ObjectsOK, EntryOK
  <2>2. PICK i : Sits(heap, x, i)
    BY <2>1 DEF HasBlock
  <2>3. x \in Object \cap Stops
    BY <1>8 DEF Stops
  <2> QED
    BY <1>2, <1>3, <2>2, <2>3, CollectedPlaces DEF Heap
<1> QED
  BY <1>5, <1>6, <1>7, <1>8

(* mcmfre of an object in memory.                                          *)
LEMMA FreeObjectKeeps ==
  ASSUME FreesPresent, IInv, NEW o \in Object, FreeObject(o)
  PROVE  IInv' /\ OthersStayPut(o) /\ locks[o] = 0
<1> USE DEF IInv
<1>1. /\ Ready /\ o \in mapped /\ Present(o) /\ locks[o] = 0
      /\ heap' = [heap EXCEPT ![At(heap, o)] = FreeBlock(Len(@.data))]
      /\ lru' = Unlink(lru, o) /\ flags' = [flags EXCEPT ![o] = {}]
      /\ mapped' = mapped \ {o} /\ kept' = [kept EXCEPT ![o] = <<>>]
      /\ siz' = [siz EXCEPT ![o] = 0] /\ loc' = [loc EXCEPT ![o] = NoSeg]
      /\ UNCHANGED <<chunks, locks, seg, file, top, max, call>>
  BY DEF FreeObject, FreesPresent
<1>2. TypesOK /\ HasBlock(o) /\ EntryOK(o)
  BY DEF ObjectsOK
<1>3. PICK i \in 1 .. Len(heap) : Sits(heap, o, i)
  BY <1>1, <1>2 DEF HasBlock
<1>4. IsVacated(heap, heap', o)
  <2>1. Heap(heap) /\ heap \in Seq(Blocks)
    BY <1>2 DEF TypesOK, Heap
  <2>2. At(heap, o) = i
    BY <1>3, <2>1, AtIs
  <2>3. heap' = Put(heap, i, FreeBlock(Len(heap[i].data)))
    BY <1>1, <2>2 DEF Put
  <2> QED
    BY <1>3, <2>1, <2>3, Vacated
<1>5. Heap(heap') /\ Absent(heap', o) /\ OthersStayPut(o)
  BY <1>4 DEF IsVacated, OthersStayPut
<1>6. /\ flags' \in [Object -> SUBSET Flag] /\ flags'[o] = {}
      /\ kept' \in [Object -> Seq(Value)] /\ kept'[o] = <<>>
      /\ siz' \in [Object -> Nat] /\ siz'[o] = 0
      /\ \A x \in Object : x # o => /\ flags'[x] = flags[x] /\ kept'[x] = kept[x]
                                    /\ siz'[x] = siz[x]
  BY <1>1, <1>2 DEF TypesOK
<1>7. TypesOK'
  BY <1>1, <1>2, <1>5, <1>6 DEF TypesOK
<1>8. ~Present(o)' /\ \A x \in Object \ {o} : Present(x)' = Present(x)
  BY <1>6 DEF Present
<1>9. /\ ~SwappedOut(o) /\ ~SwappedOut(o)'
      /\ \A x \in Object : SwappedOut(x)' = SwappedOut(x)
  BY <1>1, <1>6, <1>8 DEF SwappedOut, InSwapFile
<1>10. SwapperOK' /\ \A x \in Object : SwappedOut(x) => Stored(Swapper', x) = Stored(Swapper, x)
  <2>1. NoSeg \in Int
    BY DEF NoSeg
  <2> QED
    BY <1>1, <1>9, <2>1, SetsHandle
<1>11. \A x \in Object \ {o} : LeftAlone(x)
  BY <1>1, <1>5, <1>6, <1>10 DEF LeftAlone, OthersStayPut, Undisturbed
<1>12. HasBlock(o)'
  BY <1>5, <1>8 DEF HasBlock
<1>13. EntryOK(o)'
  BY <1>1, <1>2, <1>6, <1>8 DEF EntryOK
<1>14. KeptOK(o)'
  <2>1. \A j \in 1 .. Len(heap') : ~Sits(heap', o, j)
    BY <1>5 DEF Absent, Sits
  <2>2. Len(kept'[o]) = 0 /\ Unwritten(o)'
    BY <1>6 DEF Unwritten
  <2> QED
    BY <1>6, <1>9, <2>1, <2>2 DEF KeptOK
<1>15. ObjectsOK'
  BY <1>11, <1>12, <1>13, <1>14, OneChanges
<1>16. LruOK'
  <2>1. lru \in Seq(Object) /\ IsInjective(lru)
    BY DEF LruOK
  <2>2. /\ lru' \in Seq(Object) /\ IsInjective(lru') /\ Range(lru') = Range(lru) \ {o}
    BY <1>1, <2>1, UnlinkIs
  <2>3. LruOK /\ locks' = locks /\ mapped' = mapped \ {o} /\ Range(lru) \subseteq Object
    BY <1>1, <2>1 DEF Range
  <2>4. \A x \in Object : Present(x)' /\ locks'[x] = 0 => x \in Range(lru')
    BY ONLY <1>8, <2>2, <2>3 DEF LruOK
  <2>5. \A x \in Range(lru') : x \in mapped' /\ Present(x)'
    BY ONLY <1>8, <2>2, <2>3 DEF LruOK
  <2> QED
    BY ONLY <2>2, <2>4, <2>5 DEF LruOK
<1>17. CallOK' /\ GarbOK'
  BY <1>1, IdleOK DEF Ready
<1> QED
  BY <1>1, <1>5, <1>7, <1>10, <1>15, <1>16, <1>17

(* mcmswap has chosen the object: it is in memory, not the call's, and has *)
(* no segment of its own.                                                  *)
LEMMA VictimOK ==
  ASSUME IInv, NEW o \in Object, Swapping, Victim = <<o>>
  PROVE  /\ o \in mapped /\ Present(o) /\ locks[o] = 0 /\ o # call.obj /\ call # Idle
         /\ "nodisc" \in flags[o] /\ "revrt" \notin flags[o] /\ o \in Object \ Out
         /\ \E i \in 1 .. Len(heap) :
              /\ Sits(heap, o, i) /\ At(heap, o) = i /\ heap[i].data \in Seq(Value)
              /\ Begins(kept[o], heap[i].data)
              /\ \E dirty : AfterSwap(o) = SwapOut(Swapper, o, heap[i].data, NoSeg, dirty)
<1> USE DEF IInv
<1>1. o \in Range(lru) /\ locks[o] = 0
  BY VictimIs
<1>2. o \in mapped /\ Present(o)
  BY <1>1 DEF LruOK
<1>3. TypesOK /\ HasBlock(o) /\ EntryOK(o) /\ KeptOK(o)
  BY DEF ObjectsOK
<1>4. "nodisc" \in flags[o] /\ "revrt" \notin flags[o] /\ o \in Object \ Out
  BY <1>2, <1>3 DEF EntryOK, Out, SwappedOut
<1>5. call # Idle
  BY DEF Swapping, NoFit, Trying, Idle
<1>6. o # call.obj
  BY <1>1, <1>2, <1>5 DEF CallOK
<1>7. PICK i \in 1 .. Len(heap) : Sits(heap, o, i)
  BY <1>2, <1>3 DEF HasBlock
<1>8. At(heap, o) = i /\ heap[i].data \in Seq(Value)
  BY <1>3, <1>7, AtIs, HeapBlocks DEF TypesOK, Heap
<1>9. Begins(kept[o], heap[i].data)
  BY <1>3, <1>7 DEF KeptOK
<1>10. \E dirty : AfterSwap(o) = SwapOut(Swapper, o, heap[i].data, NoSeg, dirty)
  <2>1. AfterSwap(o) = SwapOut(Swapper, o, heap[i].data, NoSeg, "dirty" \in flags[o])
    BY <1>4, <1>8 DEF AfterSwap
  <2> QED
    BY <2>1
<1> QED
  BY <1>1, <1>2, <1>4, <1>5, <1>6, <1>7, <1>8, <1>9, <1>10

(* The swapper's variables take over a state.                              *)
LEMMA BecomesIs ==
  ASSUME NEW r \in SwapState, SwapperBecomes(r)
  PROVE  Swapper' = r
<1>1. r = [seg |-> r.seg, file |-> r.file, top |-> r.top, max |-> r.max, loc |-> r.loc]
  BY DEF SwapState
<1> QED
  BY <1>1 DEF SwapperBecomes, Swapper

(* mcmtoss.                                                                *)
LEMMA TossKeeps ==
  ASSUME IInv, NEW o \in Object, Toss(o)
  PROVE  IInv' /\ OthersStayPut(o) /\ locks[o] = 0
<1> USE DEF IInv
<1>1. /\ Swapping /\ Victim = <<o>> /\ AfterSwap(o).loc[o] # NoSeg
      /\ SwapperBecomes(AfterSwap(o))
      /\ heap' = [heap EXCEPT ![At(heap, o)] = FreeBlock(Len(@.data))]
      /\ flags' = [flags EXCEPT ![o] = @ \ {"pres"}] /\ lru' = Unlink(lru, o)
      /\ call' = [call EXCEPT !.stage = "swap", !.tot = @ + siz[o]]
      /\ UNCHANGED <<chunks, mapped, locks, siz, kept>>
  BY DEF Toss
<1>2. TypesOK /\ HasBlock(o) /\ EntryOK(o) /\ KeptOK(o)
  BY DEF ObjectsOK
<1>3. /\ o \in mapped /\ Present(o) /\ locks[o] = 0 /\ o # call.obj /\ call # Idle
      /\ "nodisc" \in flags[o] /\ "revrt" \notin flags[o] /\ o \in Object \ Out
  BY <1>1, VictimOK
<1>4. PICK i \in 1 .. Len(heap) :
        /\ Sits(heap, o, i) /\ At(heap, o) = i /\ heap[i].data \in Seq(Value)
        /\ Begins(kept[o], heap[i].data)
        /\ \E dirty : AfterSwap(o) = SwapOut(Swapper, o, heap[i].data, NoSeg, dirty)
  BY <1>1, VictimOK
<1>5. IsVacated(heap, heap', o)
  <2>1. Heap(heap)
    BY <1>2 DEF TypesOK
  <2>2. heap' = Put(heap, i, FreeBlock(Len(heap[i].data)))
    BY <1>1, <1>4 DEF Put
  <2> QED
    BY <1>4, <2>1, <2>2, Vacated
<1>6. Heap(heap') /\ Absent(heap', o) /\ OthersStayPut(o)
  BY <1>5 DEF IsVacated, OthersStayPut
<1>7. /\ flags' \in [Object -> SUBSET Flag] /\ flags'[o] = flags[o] \ {"pres"}
      /\ \A x \in Object : x # o => flags'[x] = flags[x]
  BY <1>1, <1>2 DEF TypesOK
<1>8. TypesOK'
  BY <1>1, <1>2, <1>6, <1>7 DEF TypesOK
<1>9. ~Present(o)' /\ InSwapFile(o)' /\ \A x \in Object \ {o} : Present(x)' = Present(x)
  BY <1>3, <1>7 DEF Present, InSwapFile
<1>10. SwappedOut(o)' /\ \A x \in Object \ {o} : SwappedOut(x)' = SwappedOut(x)
  BY <1>1, <1>3, <1>7, <1>9 DEF SwappedOut, InSwapFile
<1>11. Out' = Out \cup {o}
  BY <1>10 DEF Out
<1>12. PICK d, r, dirty : /\ d = heap[i].data /\ r = AfterSwap(o)
                           /\ r = SwapOut(Swapper, o, d, NoSeg, dirty)
  BY <1>4
<1>13. WentOut(Swapper, o, d, r)
  <2>1. Swapper \in SwapState /\ SwapOK(Swapper, Out)
    BY SwapperState DEF SwapperOK
  <2>2. PICK s \in SwapState : s = Swapper
    BY <2>1
  <2>3. /\ SwapOK(s, Out) /\ o \in Object \ Out /\ d \in Seq(Value)
        /\ r = SwapOut(s, o, d, NoSeg, dirty)
    BY <1>3, <1>4, <1>12, <2>1, <2>2
  <2>4. WentOut(s, o, d, r) \/ StayedIn(s, o, r)
    BY ONLY <2>3, s \in SwapState, SwapOutIs
  <2>5. r.loc[o] # NoSeg
    BY <1>1, <1>12
  <2> QED
    BY ONLY <2>2, <2>4, <2>5 DEF StayedIn
<1>14. /\ Swapper' = r /\ SwapOK(r, Out \cup {o}) /\ Stored(r, o) = d
       /\ \A p \in Out : Stored(r, p) = Stored(Swapper, p)
  <2>1. r \in SwapState /\ SwapperBecomes(r)
    BY <1>1, <1>12, <1>13 DEF WentOut
  <2>2. Swapper' = r
    BY ONLY <2>1, BecomesIs
  <2> QED
    BY <1>13, <2>2 DEF WentOut
<1>15. SwapperOK'
  BY <1>11, <1>14 DEF SwapperOK
<1>16. \A x \in Object \ {o} : LeftAlone(x)
  <2>1. \A x \in Object : SwappedOut(x) => Stored(Swapper', x) = Stored(Swapper, x)
    BY <1>14 DEF Out
  <2> QED
    BY <1>1, <1>6, <1>7, <2>1 DEF LeftAlone, OthersStayPut, Undisturbed
<1>17. HasBlock(o)'
  BY <1>6, <1>9 DEF HasBlock
<1>18. EntryOK(o)'
  BY <1>1, <1>2, <1>3, <1>9 DEF EntryOK
<1>19. KeptOK(o)'
  <2>1. \A j \in 1 .. Len(heap') : ~Sits(heap', o, j)
    BY <1>6 DEF Absent, Sits
  <2>2. Begins(kept'[o], Stored(Swapper', o))
    BY <1>1, <1>4, <1>12, <1>14
  <2>3. o \in mapped' /\ "revrt" \notin flags'[o] /\ InSwapFile(o)' /\ kept' = kept /\ siz' = siz
    BY <1>1, <1>3, <1>7, <1>9
  <2> QED
    BY <1>2, <2>1, <2>2, <2>3 DEF KeptOK
<1>20. ObjectsOK'
  BY <1>16, <1>17, <1>18, <1>19, OneChanges
<1>21. LruOK'
  <2>1. lru \in Seq(Object) /\ IsInjective(lru)
    BY DEF LruOK
  <2>2. /\ lru' \in Seq(Object) /\ IsInjective(lru') /\ Range(lru') = Range(lru) \ {o}
    BY <1>1, <2>1, UnlinkIs
  <2>3. LruOK /\ locks' = locks /\ mapped' = mapped /\ Range(lru) \subseteq Object
    BY <1>1, <2>1 DEF Range
  <2>4. \A x \in Object : Present(x)' /\ locks'[x] = 0 => x \in Range(lru')
    BY ONLY <1>9, <2>2, <2>3 DEF LruOK
  <2>5. \A x \in Range(lru') : x \in mapped' /\ Present(x)'
    BY ONLY <1>9, <2>2, <2>3 DEF LruOK
  <2> QED
    BY ONLY <2>2, <2>4, <2>5 DEF LruOK
<1>22. CallOK'
  <2>1. CallOK /\ call # Idle /\ siz[o] \in Nat /\ mapped \subseteq Object
    BY <1>2, <1>3 DEF TypesOK
  <2>2. /\ call' \in Calls /\ call'.stage = "swap" /\ call'.op = call.op
        /\ call'.obj = call.obj /\ call'.need = call.need /\ call'.mine = call.mine
    <3>1. call \in Calls
      BY <2>1 DEF CallOK, Calls, Tries
    <3>2. PICK c \in Calls, t \in Nat : c = call /\ t = call.tot + siz[o]
      BY <2>1, <3>1 DEF Calls
    <3>3. c \in Calls /\ call' = [c EXCEPT !.stage = "swap", !.tot = t]
      BY <1>1, <3>1, <3>2
    <3> QED
      BY ONLY <3>2, <3>3, t \in Nat DEF Calls, Tries
  <2>3. mapped' = mapped /\ siz' = siz /\ locks' = locks
    BY <1>1
  <2>4. call.stage # "resize"
    BY <1>1 DEF Swapping
  <2> QED
    BY ONLY <1>3, <1>9, <2>1, <2>2, <2>3, <2>4 DEF CallOK, Calls, Tries
<1>23. GarbOK'
  <2>1. call'.stage = "swap"
    BY <1>1 DEF CallOK
  <2> QED
    BY <2>1 DEF GarbOK
<1> QED
  BY <1>3, <1>6, <1>8, <1>15, <1>20, <1>21, <1>22, <1>23

(* ERR_SWAPBIG.                                                            *)
LEMMA SwapFullKeeps ==
  ASSUME IInv, NEW o \in Object, SwapFull(o)
  PROVE  IInv' /\ heap' = heap
<1> USE DEF IInv
<1>1. /\ Swapping /\ Victim = <<o>> /\ AfterSwap(o).loc[o] = NoSeg
      /\ SwapperBecomes(AfterSwap(o)) /\ Fails
      /\ UNCHANGED <<heap, chunks, mapped, flags, siz, kept>>
  BY DEF SwapFull
<1>2. o \in Object \ Out /\ call # Idle
  BY <1>1, VictimOK
<1>3. PICK i \in 1 .. Len(heap) :
        /\ heap[i].data \in Seq(Value)
        /\ \E dirty : AfterSwap(o) = SwapOut(Swapper, o, heap[i].data, NoSeg, dirty)
  BY <1>1, VictimOK
<1>4. PICK d, r, dirty : /\ d = heap[i].data /\ r = AfterSwap(o)
                          /\ r = SwapOut(Swapper, o, d, NoSeg, dirty)
  BY <1>3
<1>5. StayedIn(Swapper, o, r)
  <2>1. Swapper \in SwapState /\ SwapOK(Swapper, Out)
    BY SwapperState DEF SwapperOK
  <2>2. PICK s \in SwapState : s = Swapper
    BY <2>1
  <2>3. /\ SwapOK(s, Out) /\ o \in Object \ Out /\ d \in Seq(Value)
        /\ r = SwapOut(s, o, d, NoSeg, dirty)
    BY <1>2, <1>3, <1>4, <2>1, <2>2
  <2>4. WentOut(s, o, d, r) \/ StayedIn(s, o, r)
    BY ONLY <2>3, s \in SwapState, SwapOutIs
  <2>5. r.loc[o] = NoSeg
    BY <1>1, <1>4
  <2> QED
    BY ONLY <2>2, <2>4, <2>5 DEF WentOut
<1>6. Swapper' = r /\ SwapOK(r, Out) /\ \A p \in Out : Stored(r, p) = Stored(Swapper, p)
  <2>1. r \in SwapState /\ SwapperBecomes(r)
    BY <1>1, <1>4, <1>5 DEF StayedIn
  <2>2. Swapper' = r
    BY ONLY <2>1, BecomesIs
  <2> QED
    BY <1>5, <2>2 DEF StayedIn
<1>7. \A x \in Object : SwappedOut(x)' = SwappedOut(x) /\ Present(x)' = Present(x)
  BY <1>1 DEF SwappedOut, Present, InSwapFile
<1>8. SwapperOK'
  <2>1. Out' = Out
    BY <1>7 DEF Out
  <2> QED
    BY <1>6, <2>1 DEF SwapperOK
<1>9. /\ LruOK' /\ CallOK' /\ GarbOK' /\ locks' \in [Object -> Nat]
      /\ \A x \in Object : locks'[x] <= MaxLock[x] /\ (locks'[x] > 0 => Present(x))
  BY <1>1, <1>2, FailsOK
<1>10. TypesOK'
  BY <1>1, <1>9 DEF TypesOK
<1>11. ASSUME NEW x \in Object
       PROVE  HasBlock(x)' /\ EntryOK(x)' /\ KeptOK(x)'
  <2>1. HasBlock(x) /\ EntryOK(x) /\ KeptOK(x)
    BY DEF ObjectsOK
  <2>2. /\ SameBlock(heap, heap', x) /\ flags'[x] = flags[x] /\ siz'[x] = siz[x]
        /\ kept'[x] = kept[x] /\ (x \in mapped' <=> x \in mapped)
        /\ SwappedOut(x) => Stored(Swapper', x) = Stored(Swapper, x)
    BY <1>1, <1>6, UndisturbedSelf DEF Out
  <2>3. HasBlock(x)' /\ KeptOK(x)'
    BY ONLY <2>1, <2>2, x \in Object, Stays
  <2>4. EntryOK(x)'
    BY <1>1, <1>7, <1>9, <2>1 DEF EntryOK
  <2> QED
    BY <2>3, <2>4
<1> QED
  BY <1>1, <1>8, <1>9, <1>10, <1>11 DEF ObjectsOK

IsSet(f, o, v, g) == g = [f EXCEPT ![o] = v]
(* An object gets a block, or another one, and is locked.                  *)
LEMMA Settles ==
  ASSUME IInv, NEW o \in Object, NEW i, NEW b, IsTaken(heap, heap', o, i, b),
         Len(b.data) \in Nat, Len(b.data) > 0, IsSet(siz, o, Len(b.data), siz'),
         mapped' = mapped \cup {o},
         NEW fl \in SUBSET Flag, "pres" \in fl, "nodisc" \in fl, "revrt" \notin fl,
         IsSet(flags, o, fl, flags'),
         NEW m \in Nat, m > 0, m <= MaxLock[o], IsSet(locks, o, m, locks'),
         NEW k \in Seq(Value), Begins(k, b.data),
         \A j \in 1 .. Len(k) : k[j] \in {<<o, v>> : v \in 0 .. 2}, IsSet(kept, o, k, kept'),
         UNCHANGED <<chunks, lru>>, SwapperOK',
         \A x \in Object \ {o} : SwappedOut(x) => Stored(Swapper', x) = Stored(Swapper, x)
  PROVE  TypesOK' /\ ObjectsOK' /\ LruOK' /\ OthersStayPut(o)
<1> USE DEF IInv
<1>1. TypesOK
  OBVIOUS
<1>2. /\ siz' \in [Object -> Nat] /\ siz'[o] = Len(b.data)
      /\ \A x \in Object : x # o => siz'[x] = siz[x]
  BY <1>1 DEF TypesOK, IsSet
<1>3. /\ flags' \in [Object -> SUBSET Flag] /\ flags'[o] = fl
      /\ \A x \in Object : x # o => flags'[x] = flags[x]
  BY <1>1 DEF TypesOK, IsSet
<1>4. /\ locks' \in [Object -> Nat] /\ locks'[o] = m
      /\ \A x \in Object : x # o => locks'[x] = locks[x]
  BY <1>1 DEF TypesOK, IsSet
<1>5. /\ kept' \in [Object -> Seq(Value)] /\ kept'[o] = k
      /\ \A x \in Object : x # o => kept'[x] = kept[x]
  BY <1>1 DEF TypesOK, IsSet
<1>6. Heap(heap') /\ Sits(heap', o, i) /\ heap'[i] = b /\ OthersStayPut(o)
  BY DEF IsTaken, OthersStayPut
<1>7. TypesOK'
  BY <1>1, <1>2, <1>3, <1>4, <1>5, <1>6 DEF TypesOK
<1>8. Present(o)' /\ \A x \in Object \ {o} : Present(x)' = Present(x)
  BY <1>3 DEF Present
<1>9. \A x \in Object \ {o} : LeftAlone(x)
  BY <1>2, <1>3, <1>4, <1>5, <1>6 DEF LeftAlone, OthersStayPut, Undisturbed
<1>10. HasBlock(o)'
  BY <1>2, <1>6, <1>8 DEF HasBlock, Sits
<1>11. EntryOK(o)'
  <2>1. o \in mapped' /\ siz'[o] > 0 /\ locks'[o] <= MaxLock[o]
    BY <1>2, <1>4
  <2>2. "nodisc" \in flags'[o] /\ "revrt" \notin flags'[o]
    BY <1>3
  <2> QED
    BY ONLY <1>8, <2>1, <2>2 DEF EntryOK
<1>12. KeptOK(o)'
  <2>1. \A j \in 1 .. Len(heap') : Sits(heap', o, j) => j = i
    BY <1>6 DEF Sits
  <2>2. \A j \in 1 .. Len(heap') : Sits(heap', o, j) => Begins(kept'[o], heap'[j].data)
    BY <1>5, <1>6, <2>1
  <2>3. Len(kept'[o]) <= siz'[o]
    BY <1>2, <1>5 DEF Begins
  <2>4. \A j \in 1 .. Len(kept'[o]) : kept'[o][j] \in {<<o, v>> : v \in 0 .. 2}
    BY <1>5
  <2>5. o \in mapped' /\ ~SwappedOut(o)' /\ "revrt" \notin flags'[o]
    BY <1>3, <1>8 DEF SwappedOut
  <2> QED
    BY ONLY <1>8, <2>2, <2>3, <2>4, <2>5 DEF KeptOK
<1>13. ObjectsOK'
  BY <1>9, <1>10, <1>11, <1>12, OneChanges
<1>14. LruOK'
  <2>1. LruOK /\ lru' = lru /\ locks'[o] > 0
    BY <1>4
  <2>2. Range(lru) \subseteq Object
    BY <2>1 DEF LruOK, Range
  <2>3. mapped' = mapped \cup {o}
    OBVIOUS
  <2>4. \A x \in Object : Present(x)' /\ locks'[x] = 0 => x \in Range(lru')
    BY ONLY <1>4, <1>8, <2>1 DEF LruOK
  <2>5. \A x \in Range(lru') : x \in mapped' /\ Present(x)'
    BY ONLY <1>8, <2>1, <2>2, <2>3 DEF LruOK
  <2> QED
    BY ONLY <2>1, <2>4, <2>5 DEF LruOK
<1> QED
  BY <1>6, <1>7, <1>13, <1>14

(* mcmffb's choice.                                                        *)
LEMMA FitsIs ==
  ASSUME TypesOK, NEW n \in Nat, NEW i \in Fits(n)
  PROVE  i \in 1 .. Len(heap) /\ heap[i].own = Free /\ n <= Len(heap[i].data)
<1>1. DOMAIN heap = 1 .. Len(heap) /\ heap \in Seq(Blocks)
  BY HeapBlocks DEF TypesOK, Heap
<1>2. i \in DOMAIN heap /\ heap[i].own = Free /\ Len(heap[i].data) >= n
  BY DEF Fits
<1>3. Len(heap[i].data) \in Nat
  BY <1>1, <1>2, HeapBlocks
<1> QED
  BY <1>1, <1>2, <1>3

(* mcmalo0 gets a block.                                                   *)
LEMMA GrantNewKeeps ==
  ASSUME IInv, NEW i, GrantNew(i)
  PROVE  IInv' /\ OthersStayPut(call.obj) /\ locks[call.obj] = 0
<1> USE DEF IInv
<1>1. PICK o, h, n : o = call.obj /\ h = SplitAt(heap, i, n) /\ n = call.need
  OBVIOUS
<1>2. /\ call.op = "malo" /\ i \in Fits(n) /\ heap' = [h EXCEPT ![i].own = o]
      /\ mapped' = mapped \cup {o} /\ flags' = [flags EXCEPT ![o] = {"nodisc", "pres"}]
      /\ locks' = [locks EXCEPT ![o] = 1] /\ siz' = [siz EXCEPT ![o] = Len(h[i].data)]
      /\ loc' = [loc EXCEPT ![o] = NoSeg] /\ call' = Idle
      /\ UNCHANGED <<chunks, lru, seg, file, top, max, kept>>
  BY <1>1 DEF GrantNew
<1>3. o \in Object /\ o \notin mapped /\ n \in Nat /\ n > 0
  BY <1>1, <1>2 DEF CallOK, Idle
<1>4. TypesOK /\ HasBlock(o) /\ EntryOK(o) /\ KeptOK(o)
  BY <1>3 DEF ObjectsOK
<1>5. flags[o] = {} /\ ~Present(o) /\ locks[o] = 0 /\ kept[o] = <<>> /\ Absent(heap, o)
  BY <1>3, <1>4 DEF EntryOK, Present, KeptOK, HasBlock, TypesOK
<1>6. i \in 1 .. Len(heap) /\ heap[i].own = Free /\ n <= Len(heap[i].data) /\ Heap(heap)
  BY <1>2, <1>3, <1>4, FitsIs DEF TypesOK
<1>7. /\ Heap(h) /\ i \in 1 .. Len(h) /\ h[i].own = Free
      /\ n <= Len(h[i].data) /\ Len(h[i].data) \in Nat
  BY <1>1, <1>3, <1>6, SplitFree
<1>8. h[i] \in Blocks /\ h[i].data \in Seq(Value)
  BY <1>7, HeapBlocks DEF Heap
<1>9. PICK b : b = Block(o, h[i].data)
  OBVIOUS
<1>10. b \in Blocks /\ b.own = o /\ b.data = h[i].data
  BY <1>3, <1>8, <1>9, BlockIs
<1>11. heap' = Put(h, i, b)
  <2>1. [h[i] EXCEPT !.own = o] = b
    BY <1>8, <1>9 DEF Blocks, Block
  <2> QED
    BY <1>2, <2>1 DEF Put
<1>12. IsTaken(heap, heap', o, i, b)
  <2>1. Len(b.data) = Len(h[i].data)
    BY <1>10
  <2> QED
    BY ONLY <1>1, <1>3, <1>5, <1>6, <1>10, <1>11, <2>1, Taken
<1>13. \A x \in Object : SwappedOut(x)' = SwappedOut(x)
  <2>1. ~SwappedOut(o) /\ ~SwappedOut(o)'
    BY <1>2, <1>3, <1>4 DEF SwappedOut, Present, TypesOK
  <2>2. \A x \in Object : x # o => flags'[x] = flags[x]
    BY <1>2, <1>4 DEF TypesOK
  <2> QED
    BY <1>2, <2>1, <2>2 DEF SwappedOut, Present, InSwapFile
<1>14. SwapperOK' /\ \A x \in Object : SwappedOut(x) => Stored(Swapper', x) = Stored(Swapper, x)
  <2>1. NoSeg \in Int /\ ~SwappedOut(o)
    BY <1>3 DEF NoSeg, SwappedOut
  <2> QED
    BY <1>2, <1>3, <1>13, <2>1, SetsHandle
<1>15. TypesOK' /\ ObjectsOK' /\ LruOK' /\ OthersStayPut(o)
  <2>1. PICK fl, m, k : fl = {"nodisc", "pres"} /\ m = 1 /\ k = kept[o]
    OBVIOUS
  <2>2. fl \in SUBSET Flag /\ "pres" \in fl /\ "nodisc" \in fl /\ "revrt" \notin fl
    BY <2>1 DEF Flag
  <2>3. m \in Nat /\ m > 0 /\ m <= MaxLock[o]
    BY <1>3, <2>1, ConstantsOK
  <2>4. /\ k \in Seq(Value) /\ Begins(k, b.data)
        /\ \A j \in 1 .. Len(k) : k[j] \in {<<o, v>> : v \in 0 .. 2}
    BY <1>5, <1>7, <1>10, <2>1 DEF Begins
  <2>5. Len(b.data) \in Nat /\ Len(b.data) > 0 /\ IsSet(siz, o, Len(b.data), siz')
    BY <1>2, <1>3, <1>7, <1>10 DEF IsSet
  <2>6. IsSet(flags, o, fl, flags') /\ IsSet(locks, o, m, locks')
    BY <1>2, <2>1 DEF IsSet
  <2>7. IsSet(kept, o, k, kept')
    BY <1>2, <1>4, <2>1 DEF IsSet, TypesOK
  <2>8. IInv /\ mapped' = mapped \cup {o} /\ UNCHANGED <<chunks, lru>>
    BY <1>2
  <2>9. \A x \in Object \ {o} : SwappedOut(x) => Stored(Swapper', x) = Stored(Swapper, x)
    BY <1>14
  <2> QED
    BY ONLY <1>3, <1>12, <1>14, <2>2, <2>3, <2>4, <2>5, <2>6, <2>7, <2>8, <2>9, Settles
<1>16. CallOK' /\ GarbOK'
  BY <1>2, IdleOK
<1> QED
  BY <1>1, <1>5, <1>14, <1>15, <1>16

(* The lesser of two numbers.                                              *)
LEMMA MinIs ==
  ASSUME NEW a \in Nat, NEW b \in Nat
  PROVE  Min({a, b}) = IF a <= b THEN a ELSE b
<1>1. \E x \in {a, b} : \A y \in {a, b} : x <= y
  OBVIOUS
<1>2. Min({a, b}) \in {a, b} /\ \A y \in {a, b} : Min({a, b}) <= y
  BY <1>1 DEF Min
<1> QED
  BY <1>2

(* mcsin reads what mcsout wrote.                                          *)
LEMMA SwappedInIs ==
  ASSUME SwapperOK, NEW o \in Object, SwappedOut(o), NEW n \in Nat,
         NEW k \in Seq(Value), Begins(k, Stored(Swapper, o)), Len(k) <= n
  PROVE  SwappedIn(o, n) \in Seq(Value) /\ Len(SwappedIn(o, n)) = n /\ Begins(k, SwappedIn(o, n))
<1>1. Swapper \in SwapState /\ SwapOK(Swapper, Out) /\ o \in Out
  BY SwapperState DEF SwapperOK, Out
<1>2. PICK s, i, p, z : /\ s = Swapper /\ s \in SwapState
                        /\ i = loc[o] /\ p = seg[i].ptr /\ z = seg[i].osz
  BY <1>1
<1>3. s.seg = seg /\ s.file = file /\ s.loc = loc
  BY <1>2 DEF Swapper
<1>4. /\ i \in 1 .. Len(seg) /\ p \in Nat /\ z \in Nat /\ p + z <= Quota
      /\ file \in [1 .. Quota -> Value] /\ Quota \in Nat
  <2>1. SwapOK(s, Out)
    BY <1>1, <1>2
  <2>2. i \in 1 .. Len(seg) /\ file \in [1 .. Quota -> Value]
    BY <1>1, <1>2, <1>3, <2>1 DEF SwapOK
  <2>3. SegsOK(seg) /\ p + seg[i].siz <= Quota
    BY <1>2, <1>3, <2>1, <2>2, SwapIs
  <2>4. p \in Nat /\ z \in Nat /\ seg[i].siz \in Nat /\ z <= seg[i].siz
    BY <1>2, <2>2, <2>3, SegIs
  <2> QED
    BY <2>2, <2>3, <2>4, ConstantsOK
<1>5. PICK m : m = Min({z, n})
  OBVIOUS
<1>6. m \in Nat /\ m <= z /\ m <= n /\ (m = z \/ m = n)
  <2>1. m = IF z <= n THEN z ELSE n
    BY <1>4, <1>5, MinIs
  <2> QED
    BY <1>4, <2>1
<1>7. PICK d : d = ReadFile(file, p, m)
  OBVIOUS
<1>8. d \in [1 .. m -> Value] /\ \A j \in 1 .. m : d[j] = file[p + j]
  <2>1. \A j \in 1 .. m : p + j \in 1 .. Quota
    BY <1>4, <1>6
  <2>2. d = [j \in 1 .. m |-> file[p + j]]
    BY <1>7 DEF ReadFile
  <2> QED
    BY <1>4, <2>1, <2>2
<1>9. d \in Seq(Value) /\ Len(d) = m
  BY <1>6, <1>8, FcnIsSeq
<1>10. SwappedIn(o, n) = Cells(d, n)
  BY <1>2, <1>5, <1>7 DEF SwappedIn
<1>11. /\ Cells(d, n) \in Seq(Value) /\ Len(Cells(d, n)) = n
       /\ \A j \in 1 .. n : Cells(d, n)[j] = IF j <= Len(d) THEN d[j] ELSE Junk
  BY <1>9, CellsIs
<1>12. Len(k) \in Nat /\ Len(k) <= z /\ \A j \in 1 .. Len(k) : k[j] = file[p + j]
  <2>1. PICK q : q = Stored(Swapper, o)
    OBVIOUS
  <2>2. q = [j \in 1 .. z |-> file[p + j]]
    BY <1>2, <2>1, StoredIs DEF ReadFile
  <2>3. q \in [1 .. z -> Value]
    <3>1. \A j \in 1 .. z : p + j \in 1 .. Quota
      BY <1>4
    <3> QED
      BY <1>4, <2>2, <3>1
  <2>4. Len(q) = z
    BY <1>4, <2>3, FcnIsSeq
  <2>5. Len(k) \in Nat
    OBVIOUS
  <2>6. Len(k) <= z /\ \A j \in 1 .. Len(k) : k[j] = q[j]
    BY <2>1, <2>4 DEF Begins
  <2>7. \A j \in 1 .. Len(k) : j \in 1 .. z
    BY <1>4, <2>5, <2>6
  <2>8. \A j \in 1 .. z : q[j] = file[p + j]
    BY <2>2
  <2> QED
    BY ONLY <2>5, <2>6, <2>7, <2>8
<1>13. Begins(k, Cells(d, n))
  <2>1. Len(k) <= m
    BY <1>4, <1>6, <1>12
  <2>2. \A j \in 1 .. Len(k) : j \in 1 .. m /\ j \in 1 .. n
    BY <1>6, <1>12, <2>1
  <2> QED
    BY <1>6, <1>8, <1>9, <1>11, <1>12, <2>2 DEF Begins
<1> QED
  BY <1>10, <1>11, <1>13

(* mcmload gets a block.                                                   *)
LEMMA GrantLoadKeeps ==
  ASSUME IInv, NEW i, GrantLoad(i)
  PROVE  IInv' /\ OthersStayPut(call.obj) /\ locks[call.obj] = 0
<1> USE DEF IInv
<1>1. PICK o, h, z : o = call.obj /\ h = SplitAt(heap, i, z) /\ z = call.need
  OBVIOUS
<1>2. PICK n, d : /\ n = Len(h[i].data)
                  /\ d = IF InSwapFile(o) /\ "revrt" \notin flags[o]
                         THEN SwappedIn(o, n) ELSE Original(o, n)
  OBVIOUS
<1>3. PICK fl : fl = {"pres", "nodisc"} \cup (IF "revrt" \in flags[o] THEN {"dirty"} ELSE {})
  OBVIOUS
<1>4. /\ call.op = "load" /\ i \in Fits(z) /\ heap' = Put(h, i, Block(o, d))
      /\ seg' = (IF InSwapFile(o) THEN [seg EXCEPT ![loc[o]].use = FALSE] ELSE seg)
      /\ flags' = [flags EXCEPT ![o] = fl]
      /\ locks' = [locks EXCEPT ![o] = 1] /\ siz' = [siz EXCEPT ![o] = n]
      /\ UNCHANGED <<chunks, mapped, lru, file, top, max, loc, kept>>
  BY <1>1, <1>2, <1>3 DEF GrantLoad, Put
<1>5. /\ o \in Object /\ o \in mapped /\ ~Present(o) /\ z = siz[o] /\ z \in Nat /\ z > 0
  <2>1. o \in mapped /\ o \in Object /\ ~Present(o) /\ z = siz[o]
    BY <1>1, <1>4 DEF CallOK, Idle, TypesOK
  <2> QED
    BY <2>1 DEF ObjectsOK, EntryOK, TypesOK
<1>6. TypesOK /\ HasBlock(o) /\ EntryOK(o) /\ KeptOK(o)
  BY <1>5 DEF ObjectsOK
<1>7. locks[o] = 0 /\ Absent(heap, o)
  BY <1>5, <1>6 DEF EntryOK, HasBlock, TypesOK
<1>8. i \in 1 .. Len(heap) /\ heap[i].own = Free /\ z <= Len(heap[i].data) /\ Heap(heap)
  BY <1>4, <1>5, <1>6, FitsIs DEF TypesOK
<1>9. Heap(h) /\ i \in 1 .. Len(h) /\ h[i].own = Free /\ z <= n /\ n \in Nat
  BY <1>1, <1>2, <1>5, <1>8, SplitFree
<1>10. PICK k \in Seq(Value) : k = kept[o]
  BY <1>5, <1>6 DEF TypesOK
<1>11. Len(k) \in Nat /\ Len(k) <= n /\ \A j \in 1 .. Len(k) : k[j] \in {<<o, v>> : v \in 0 .. 2}
  <2>1. Len(k) <= z /\ Len(k) \in Nat
    BY <1>5, <1>6, <1>10 DEF KeptOK
  <2>2. \A j \in 1 .. Len(k) : k[j] \in {<<o, v>> : v \in 0 .. 2}
    BY <1>6, <1>10 DEF KeptOK
  <2> QED
    BY <1>5, <1>9, <2>1, <2>2
<1>12. d \in Seq(Value) /\ Len(d) = n /\ Begins(k, d)
  <2>1. CASE InSwapFile(o) /\ "revrt" \notin flags[o]
    <3>1. SwappedOut(o) /\ d = SwappedIn(o, n)
      BY <1>2, <1>5, <2>1 DEF SwappedOut
    <3>2. Begins(k, Stored(Swapper, o))
      BY <1>6, <1>10, <2>1, <3>1 DEF KeptOK
    <3> QED
      BY <1>5, <1>9, <1>11, <3>1, <3>2, SwappedInIs
  <2>2. CASE ~(InSwapFile(o) /\ "revrt" \notin flags[o])
    <3>1. Unwritten(o)
      BY <1>5, <1>6, <2>2 DEF KeptOK
    <3>2. PICK v \in 0 .. 2 : v = 0
      OBVIOUS
    <3>3. d = Fill(<<o, v>>, n)
      BY <1>2, <2>2, <3>2 DEF Original
    <3>4. /\ d \in Seq(Value) /\ Len(d) = n
          /\ \A j \in 1 .. Len(d) : d[j] = <<o, v>> /\ d[j] \in {<<o, w>> : w \in 0 .. 2}
      <4>1. o \in Object /\ n \in Nat
        BY <1>5, <1>9
      <4>2. d = Filled(o, v, n)
        BY <3>3 DEF Filled
      <4>3. IsFilled(d, o, v, n)
        BY ONLY <4>1, <4>2, v \in 0 .. 2, FilledWith
      <4> QED
        BY ONLY <4>3 DEF IsFilled
    <3>5. \A j \in 1 .. Len(k) : k[j] = <<o, v>>
      BY <1>10, <3>1, <3>2 DEF Unwritten
    <3>6. \A j \in 1 .. Len(k) : j \in 1 .. Len(d)
      BY <1>9, <1>11, <3>4
    <3> QED
      BY <1>11, <3>4, <3>5, <3>6 DEF Begins
  <2> QED
    BY <2>1, <2>2
<1>13. PICK b : b = Block(o, d)
  OBVIOUS
<1>14. b \in Blocks /\ b.own = o /\ b.data = d
  BY <1>5, <1>12, <1>13, BlockIs
<1>15. IsTaken(heap, heap', o, i, b)
  <2>1. Len(b.data) = Len(h[i].data) /\ heap' = Put(h, i, b)
    BY <1>2, <1>4, <1>12, <1>13, <1>14
  <2> QED
    BY ONLY <1>1, <1>5, <1>7, <1>8, <1>14, <2>1, Taken
<1>16. \A x \in Object \ {o} : SwappedOut(x)' = SwappedOut(x)
  <2>1. \A x \in Object : x # o => flags'[x] = flags[x]
    BY <1>4, <1>6 DEF TypesOK
  <2> QED
    BY <1>4, <2>1 DEF SwappedOut, Present, InSwapFile
<1>17. ~SwappedOut(o)'
  <2>1. "pres" \in flags'[o]
    BY <1>3, <1>4, <1>5, <1>6 DEF TypesOK
  <2> QED
    BY <2>1 DEF SwappedOut, Present
<1>18. Out' = Out \ {o}
  BY <1>16, <1>17 DEF Out
<1>19. /\ SwapperOK'
       /\ \A x \in Object \ {o} : SwappedOut(x) => Stored(Swapper', x) = Stored(Swapper, x)
  <2>1. Swapper \in SwapState /\ SwapOK(Swapper, Out)
    BY SwapperState DEF SwapperOK
  <2>2. CASE InSwapFile(o)
    <3>1. o \in Out /\ Out \subseteq Object
      BY <1>5, <2>2 DEF Out, SwappedOut
    <3>2. Swapper' = Release(Swapper, o)
      <4>1. PICK q : q = [seg EXCEPT ![loc[o]].use = FALSE]
        OBVIOUS
      <4>2. seg' = q /\ UNCHANGED <<file, top, max, loc>>
        BY <1>4, <2>2, <4>1
      <4>3. Swapper' = [Swapper EXCEPT !.seg = q]
        BY ONLY <4>2 DEF Swapper
      <4>4. Swapper.seg = seg /\ Swapper.loc = loc
        BY ONLY DEF Swapper
      <4> QED
        BY ONLY <4>1, <4>3, <4>4 DEF Release
    <3>3. Released(Swapper, Out, o, Swapper')
      BY ONLY <2>1, <3>1, <3>2, ReleaseOK
    <3>4. /\ SwapOK(Swapper', Out \ {o})
          /\ \A p \in Out \ {o} : Stored(Swapper', p) = Stored(Swapper, p)
      BY <3>3 DEF Released
    <3> QED
      BY <1>18, <3>4 DEF SwapperOK, Out
  <2>3. CASE ~InSwapFile(o)
    <3>1. Swapper' = Swapper
      BY <1>4, <2>3 DEF Swapper
    <3>2. o \notin Out
      BY <2>3 DEF Out, SwappedOut
    <3>3. Out' = Out
      BY <1>18, <3>2
    <3> QED
      BY <2>1, <3>1, <3>3 DEF SwapperOK
  <2> QED
    BY <2>2, <2>3
<1>20. TypesOK' /\ ObjectsOK' /\ LruOK' /\ OthersStayPut(o)
  <2>1. PICK m : m = 1
    OBVIOUS
  <2>2. fl \in SUBSET Flag /\ "pres" \in fl /\ "nodisc" \in fl /\ "revrt" \notin fl
    BY <1>3 DEF Flag
  <2>3. m \in Nat /\ m > 0 /\ m <= MaxLock[o]
    BY <1>5, <2>1, ConstantsOK
  <2>4. Begins(k, b.data) /\ \A j \in 1 .. Len(k) : k[j] \in {<<o, v>> : v \in 0 .. 2}
    BY <1>11, <1>12, <1>14
  <2>5. Len(b.data) \in Nat /\ Len(b.data) > 0 /\ IsSet(siz, o, Len(b.data), siz')
    <3>1. Len(b.data) = n /\ n > 0 /\ n \in Nat
      BY <1>5, <1>9, <1>12, <1>14
    <3> QED
      BY <1>4, <3>1 DEF IsSet
  <2>6. IsSet(flags, o, fl, flags') /\ IsSet(locks, o, m, locks')
    BY <1>4, <2>1 DEF IsSet
  <2>7. IsSet(kept, o, k, kept') /\ k \in Seq(Value)
    BY <1>4, <1>6, <1>10 DEF IsSet, TypesOK
  <2>8. IInv /\ mapped' = mapped \cup {o} /\ UNCHANGED <<chunks, lru>>
    BY <1>4, <1>5
  <2> QED
    BY ONLY <1>5, <1>15, <1>19, <2>2, <2>3, <2>4, <2>5, <2>6, <2>7, <2>8, Settles
<1>21. CallOK' /\ GarbOK'
  <2>1. CASE call.size = 0
    <3>1. call' = Idle
      BY <2>1 DEF GrantLoad
    <3> QED
      BY <3>1, IdleOK
  <2>2. CASE call.size # 0
    <3>1. PICK s : s = call.size
      OBVIOUS
    <3>2. call' = [Idle EXCEPT !.op = "realo", !.obj = o, !.need = s, !.stage = "resize",
                               !.mine = TRUE]
      BY <1>1, <2>2, <3>1 DEF GrantLoad
    <3>3. s \in Nat /\ s > 0
      BY <2>2, <3>1 DEF CallOK, Idle
    <3>4. /\ call' \in Calls /\ call'.op = "realo" /\ call'.obj = o /\ call'.need = s
          /\ call'.stage = "resize"
      BY <1>5, <3>2, <3>3 DEF Calls, Idle
    <3>5. o \in mapped' /\ Present(o)' /\ locks'[o] > 0
      <4>1. "pres" \in flags'[o] /\ locks'[o] = 1
        BY <1>3, <1>4, <1>5, <1>6 DEF TypesOK
      <4> QED
        BY <1>4, <1>5, <4>1 DEF Present
    <3>6. CallOK'
      BY ONLY <3>3, <3>4, <3>5 DEF CallOK, Calls
    <3> QED
      BY <3>4, <3>6 DEF GarbOK
  <2> QED
    BY <2>1, <2>2
<1> QED
  BY <1>1, <1>7, <1>19, <1>20, <1>21

(* mcmload cannot read the object.                                         *)
LEMMA LoadFailsKeeps ==
  ASSUME IInv, NEW i, LoadFails(i)
  PROVE  IInv' /\ \A x \in Object : Undisturbed(heap, heap', x)
<1> USE DEF IInv
<1>1. PICK o, h, z : o = call.obj /\ h = SplitAt(heap, i, z) /\ z = call.need
  OBVIOUS
<1>2. /\ call.op = "load" /\ i \in Fits(z) /\ heap' = h
      /\ siz' = [siz EXCEPT ![o] = Len(h[i].data)] /\ call' = Idle
      /\ UNCHANGED <<chunks, mapped, flags, locks, lru, swapVars, kept>>
  BY <1>1 DEF LoadFails
<1>3. /\ o \in Object /\ o \in mapped /\ ~Present(o) /\ z = siz[o] /\ z \in Nat /\ z > 0
  <2>1. o \in mapped /\ o \in Object /\ ~Present(o) /\ z = siz[o]
    BY <1>1, <1>2 DEF CallOK, Idle, TypesOK
  <2> QED
    BY <2>1 DEF ObjectsOK, EntryOK, TypesOK
<1>4. TypesOK /\ HasBlock(o) /\ EntryOK(o) /\ KeptOK(o)
  BY <1>3 DEF ObjectsOK
<1>5. i \in 1 .. Len(heap) /\ heap[i].own = Free /\ z <= Len(heap[i].data) /\ Heap(heap)
  BY <1>2, <1>3, <1>4, FitsIs DEF TypesOK
<1>6. Heap(h) /\ z <= Len(h[i].data) /\ Len(h[i].data) \in Nat
  BY <1>1, <1>3, <1>5, SplitFree
<1>7. \A x \in Object : Undisturbed(heap, heap', x)
  <2>1. heap[i].own # End /\ heap[i].own \notin Object
    BY <1>5, ConstantsOK
  <2>2. \A x \in Object : x # heap[i].own => Undisturbed(heap, h, x)
    BY ONLY <1>1, <1>3, <1>5, <2>1, SplitUndisturbed
  <2>3. heap' = h
    BY <1>2
  <2> QED
    BY ONLY <2>1, <2>2, <2>3
<1>8. /\ siz' \in [Object -> Nat] /\ siz'[o] = Len(h[i].data)
      /\ \A x \in Object : x # o => siz'[x] = siz[x]
  BY <1>2, <1>3, <1>4, <1>6 DEF TypesOK
<1>9. TypesOK'
  BY <1>2, <1>4, <1>6, <1>8 DEF TypesOK
<1>10. \A x \in Object : SwappedOut(x)' = SwappedOut(x) /\ Present(x)' = Present(x)
  BY <1>2 DEF SwappedOut, Present, InSwapFile
<1>11. SwapperOK' /\ Swapper' = Swapper
  BY <1>2, <1>10, SameSwapper
<1>12. \A x \in Object \ {o} : LeftAlone(x)
  BY <1>2, <1>7, <1>8, <1>11 DEF LeftAlone, Undisturbed
<1>13. Absent(heap', o)
  BY <1>3, <1>4, <1>7 DEF HasBlock, Undisturbed, SameBlock
<1>14. HasBlock(o)'
  BY <1>3, <1>10, <1>13 DEF HasBlock
<1>15. EntryOK(o)'
  <2>1. siz'[o] > 0
    BY <1>3, <1>6, <1>8
  <2> QED
    BY <1>2, <1>3, <1>4, <1>10, <2>1 DEF EntryOK
<1>16. KeptOK(o)'
  <2>1. \A j \in 1 .. Len(heap') : ~Sits(heap', o, j)
    BY <1>13 DEF Absent, Sits
  <2>2. kept' = kept /\ flags' = flags /\ mapped' = mapped
    BY <1>2
  <2>3. Len(kept[o]) <= siz[o] /\ Len(kept[o]) \in Nat
    BY <1>3, <1>4 DEF KeptOK, TypesOK
  <2>4. Len(kept'[o]) <= siz'[o]
    BY <1>3, <1>6, <1>8, <2>2, <2>3
  <2>5. Unwritten(o)' = Unwritten(o) /\ InSwapFile(o)' = InSwapFile(o)
    BY <2>2 DEF Unwritten, InSwapFile
  <2>6. \A j \in 1 .. Len(kept'[o]) : kept'[o][j] \in {<<o, v>> : v \in 0 .. 2}
    BY <1>4, <2>2 DEF KeptOK
  <2>7. "revrt" \in flags'[o] => Unwritten(o)'
    BY ONLY <1>4, <2>2, <2>5 DEF KeptOK
  <2>8. SwappedOut(o)' /\ "revrt" \notin flags'[o] => Begins(kept'[o], Stored(Swapper', o))
    BY ONLY <1>3, <1>4, <1>10, <1>11, <2>2 DEF KeptOK
  <2>9. ~Present(o)' /\ ~InSwapFile(o)' => Unwritten(o)'
    BY ONLY <1>3, <1>4, <1>10, <2>5 DEF KeptOK
  <2>10. o \in mapped'
    BY <1>2, <1>3
  <2> QED
    BY ONLY <2>1, <2>4, <2>6, <2>7, <2>8, <2>9, <2>10 DEF KeptOK
<1>17. ObjectsOK'
  BY <1>3, <1>12, <1>14, <1>15, <1>16, OneChanges
<1>18. LruOK'
  BY <1>2 DEF LruOK, Present
<1>19. CallOK' /\ GarbOK'
  BY <1>2, IdleOK
<1> QED
  BY <1>7, <1>9, <1>11, <1>17, <1>18, <1>19

(* The object that mcmrealo resizes.                                       *)
LEMMA ReallocatedIs ==
  ASSUME IInv, call.op = "realo"
  PROVE  /\ call.obj \in Object /\ call.obj \in mapped /\ Present(call.obj)
         /\ locks[call.obj] \in Nat /\ locks[call.obj] > 0
         /\ locks[call.obj] <= MaxLock[call.obj]
         /\ flags[call.obj] \in SUBSET Flag /\ "pres" \in flags[call.obj]
         /\ "nodisc" \in flags[call.obj] /\ "revrt" \notin flags[call.obj]
         /\ kept[call.obj] \in Seq(Value)
         /\ \A j \in 1 .. Len(kept[call.obj]) :
              kept[call.obj][j] \in {<<call.obj, v>> : v \in 0 .. 2}
         /\ call.need \in Nat /\ call.need > 0 /\ siz[call.obj] \in Nat /\ siz[call.obj] > 0
         /\ \E k \in 1 .. Len(heap) :
              /\ Sits(heap, call.obj, k) /\ Len(heap[k].data) = siz[call.obj]
              /\ heap[k].data \in Seq(Value) /\ Begins(kept[call.obj], heap[k].data)
<1> USE DEF IInv
<1>1. /\ call.obj \in mapped /\ Present(call.obj) /\ locks[call.obj] > 0
      /\ call.need > 0 /\ call.need \in Nat
  BY DEF CallOK, Idle
<1>2. PICK o \in Object : o = call.obj
  BY <1>1 DEF TypesOK
<1>3. TypesOK /\ HasBlock(o) /\ EntryOK(o) /\ KeptOK(o)
  BY DEF ObjectsOK
<1>4. /\ locks[o] \in Nat /\ flags[o] \in SUBSET Flag /\ kept[o] \in Seq(Value) /\ siz[o] \in Nat
      /\ heap \in Seq(Blocks)
  BY <1>3 DEF TypesOK, Heap
<1>5. /\ locks[o] <= MaxLock[o] /\ "pres" \in flags[o] /\ "nodisc" \in flags[o]
      /\ "revrt" \notin flags[o] /\ siz[o] > 0
  BY <1>1, <1>2, <1>3 DEF EntryOK, Present
<1>6. \A j \in 1 .. Len(kept[o]) : kept[o][j] \in {<<o, v>> : v \in 0 .. 2}
  BY <1>3 DEF KeptOK
<1>7. PICK k \in 1 .. Len(heap) : Sits(heap, o, k) /\ Len(heap[k].data) = siz[o]
  BY <1>1, <1>2, <1>3 DEF HasBlock
<1>8. heap[k].data \in Seq(Value) /\ Begins(kept[o], heap[k].data)
  BY <1>3, <1>4, <1>7, HeapBlocks DEF KeptOK
<1> QED
  BY <1>1, <1>2, <1>4, <1>5, <1>6, <1>7, <1>8

(* mcmrealo moves the object.                                              *)
LEMMA GrantMoveKeeps ==
  ASSUME IInv, NEW i, GrantMove(i)
  PROVE  IInv' /\ OthersStayPut(call.obj) /\ call.op = "realo"
<1> USE DEF IInv
<1>1. PICK o, h, z : o = call.obj /\ h = SplitAt(heap, i, z) /\ z = call.need
  OBVIOUS
<1>2. PICK j, n : j = At(h, o) /\ n = Len(h[i].data)
  OBVIOUS
<1>3. PICK d, b : d = Cells(h[j].data, n) /\ b = Block(o, d)
  OBVIOUS
<1>4. /\ call.op = "realo" /\ i \in Fits(z)
      /\ heap' = Put(Put(h, i, b), j, FreeBlock(Len(h[j].data)))
      /\ siz' = [siz EXCEPT ![o] = n] /\ call' = Idle
      /\ UNCHANGED <<chunks, mapped, flags, locks, lru, swapVars, kept>>
      /\ Trying
  BY <1>1, <1>2, <1>3 DEF GrantMove, Put
<1>5. /\ o \in Object /\ o \in mapped /\ Present(o) /\ locks[o] \in Nat /\ locks[o] > 0
      /\ locks[o] <= MaxLock[o] /\ flags[o] \in SUBSET Flag /\ "pres" \in flags[o]
      /\ "nodisc" \in flags[o] /\ "revrt" \notin flags[o] /\ kept[o] \in Seq(Value)
      /\ \A l \in 1 .. Len(kept[o]) : kept[o][l] \in {<<o, v>> : v \in 0 .. 2}
      /\ z \in Nat /\ z > 0 /\ siz[o] \in Nat
  BY <1>1, <1>4, ReallocatedIs
<1>6. PICK k \in 1 .. Len(heap) :
        /\ Sits(heap, o, k) /\ Len(heap[k].data) = siz[o]
        /\ heap[k].data \in Seq(Value) /\ Begins(kept[o], heap[k].data)
  BY <1>1, <1>4, ReallocatedIs
<1>7. siz[o] <= z
  BY <1>1, <1>4 DEF CallOK, Trying, Idle, Tries
<1>8. i \in 1 .. Len(heap) /\ heap[i].own = Free /\ z <= Len(heap[i].data) /\ Heap(heap)
  BY <1>4, <1>5, FitsIs DEF TypesOK
<1>9. Heap(h) /\ i \in 1 .. Len(h) /\ z <= n /\ n \in Nat
  BY <1>1, <1>2, <1>5, <1>8, SplitFree
<1>10. h[j] = heap[k]
  <2>1. o # Free /\ o # End /\ heap[i].own # End
    BY <1>5, <1>8, ConstantsOK
  <2>2. o # heap[i].own
    BY <1>8, <2>1
  <2>3. Undisturbed(heap, h, o)
    BY ONLY <1>1, <1>5, <1>8, <2>1, <2>2, SplitUndisturbed
  <2>4. PICK m : Sits(h, o, m) /\ h[m] = heap[k]
    BY <1>6, <2>3 DEF Undisturbed, SameBlock
  <2>5. h \in Seq(Blocks)
    BY <1>9 DEF Heap
  <2> QED
    BY <1>2, <2>4, <2>5, AtIs
<1>11. /\ d \in Seq(Value) /\ Len(d) = n
       /\ \A l \in 1 .. n : d[l] = IF l <= siz[o] THEN heap[k].data[l] ELSE Junk
  <2>1. PICK c \in Seq(Value) : c = heap[k].data
    BY <1>6
  <2>2. d = Cells(c, n) /\ Len(c) = siz[o]
    BY <1>3, <1>6, <1>10, <2>1
  <2>3. /\ d \in Seq(Value) /\ Len(d) = n
        /\ \A l \in 1 .. n : d[l] = IF l <= Len(c) THEN c[l] ELSE Junk
    BY ONLY <1>9, <2>2, c \in Seq(Value), CellsIs
  <2> QED
    BY <2>1, <2>2, <2>3
<1>12. b \in Blocks /\ b.own = o /\ b.data = d
  BY <1>3, <1>5, <1>11, BlockIs
<1>13. IsTaken(heap, heap', o, i, b)
  <2>1. Len(b.data) = Len(h[i].data)
    BY <1>2, <1>11, <1>12
  <2> QED
    BY ONLY <1>1, <1>2, <1>4, <1>5, <1>6, <1>8, <1>12, <2>1, Relocated
<1>14. Begins(kept[o], d)
  <2>1. /\ Len(kept[o]) \in Nat /\ Len(kept[o]) <= siz[o]
        /\ \A l \in 1 .. Len(kept[o]) : kept[o][l] = heap[k].data[l]
    BY <1>5, <1>6 DEF Begins
  <2>2. Len(kept[o]) <= n
    BY <1>5, <1>7, <1>9, <2>1
  <2>3. \A l \in 1 .. Len(kept[o]) : l \in 1 .. n /\ l <= siz[o]
    BY <1>5, <1>7, <1>9, <2>1
  <2> QED
    BY ONLY <1>11, <2>1, <2>2, <2>3 DEF Begins
<1>15. \A x \in Object : SwappedOut(x)' = SwappedOut(x)
  BY <1>4 DEF SwappedOut, Present, InSwapFile
<1>16. SwapperOK' /\ Swapper' = Swapper
  BY <1>4, <1>15, SameSwapper
<1>17. TypesOK' /\ ObjectsOK' /\ LruOK' /\ OthersStayPut(o)
  <2>1. PICK fl, m, l : fl = flags[o] /\ m = locks[o] /\ l = kept[o]
    OBVIOUS
  <2>2. fl \in SUBSET Flag /\ "pres" \in fl /\ "nodisc" \in fl /\ "revrt" \notin fl
    BY <1>5, <2>1
  <2>3. m \in Nat /\ m > 0 /\ m <= MaxLock[o]
    BY <1>5, <2>1
  <2>4. /\ Begins(l, b.data) /\ l \in Seq(Value)
        /\ \A y \in 1 .. Len(l) : l[y] \in {<<o, v>> : v \in 0 .. 2}
    BY <1>5, <1>12, <1>14, <2>1
  <2>5. Len(b.data) \in Nat /\ Len(b.data) > 0 /\ IsSet(siz, o, Len(b.data), siz')
    <3>1. Len(b.data) = n /\ n > 0 /\ n \in Nat
      BY <1>5, <1>9, <1>11, <1>12
    <3> QED
      BY <1>4, <3>1 DEF IsSet
  <2>6. IsSet(flags, o, fl, flags') /\ IsSet(locks, o, m, locks') /\ IsSet(kept, o, l, kept')
    BY <1>4, <1>5, <2>1 DEF IsSet, TypesOK
  <2>7. IInv /\ mapped' = mapped \cup {o} /\ UNCHANGED <<chunks, lru>>
    BY <1>4, <1>5
  <2>8. \A x \in Object \ {o} : SwappedOut(x) => Stored(Swapper', x) = Stored(Swapper, x)
    BY <1>16
  <2> QED
    BY ONLY <1>5, <1>13, <1>16, <2>2, <2>3, <2>4, <2>5, <2>6, <2>7, <2>8, Settles
<1>18. CallOK' /\ GarbOK'
  BY <1>4, IdleOK
<1> QED
  BY <1>1, <1>4, <1>16, <1>17, <1>18

Opening(k, n) == SubSeq(k, 1, n)
(* The beginning of a list.                                                *)
LEMMA Shortened ==
  ASSUME NEW k \in Seq(Value), NEW n \in Nat, NEW m, m = Min({Len(k), n}),
         NEW r, r = Opening(k, m)
  PROVE  /\ r \in Seq(Value) /\ Len(r) \in Nat /\ Len(r) <= n /\ Len(r) <= Len(k)
         /\ \A j \in 1 .. Len(r) : r[j] = k[j]
<1>1. Len(k) \in Nat
  OBVIOUS
<1>2. m \in Nat /\ m <= Len(k) /\ m <= n
  <2>1. m = IF Len(k) <= n THEN Len(k) ELSE n
    BY <1>1, MinIs
  <2> QED
    BY <1>1, <2>1
<1>4. r \in Seq(Value) /\ Len(r) = m /\ \A j \in 1 .. m : r[j] = k[j]
  <2>1. \A j \in 1 .. m : k[j] \in Value
    BY <1>1, <1>2, ElementOfSeq
  <2>2. /\ SubSeq(k, 1, m) \in Seq(Value) /\ Len(SubSeq(k, 1, m)) = m
        /\ \A j \in 1 .. m : SubSeq(k, 1, m)[j] = k[j]
    BY ONLY <1>2, <2>1, SubSeqProperties
  <2> QED
    BY <2>2 DEF Opening
<1> QED
  BY <1>2, <1>4

(* mcmrealo leaves the object where it is.                                 *)
LEMMA ResizedKeeps ==
  ASSUME IInv, Resizing, NEW h, Resized(h), NEW i, NEW b, IsTaken(heap, h, call.obj, i, b),
         Len(b.data) \in Nat, Len(b.data) > 0,
         \A j \in 1 .. Len(kept[call.obj]) :
           j <= Len(b.data) => kept[call.obj][j] = b.data[j]
  PROVE  IInv' /\ OthersStayPut(call.obj)
<1> USE DEF IInv
<1>1. call.op = "realo"
  BY DEF Resizing, CallOK, Idle, Tries
<1>2. PICK o : o = call.obj
  OBVIOUS
<1>3. /\ o \in Object /\ o \in mapped /\ Present(o) /\ locks[o] \in Nat /\ locks[o] > 0
      /\ locks[o] <= MaxLock[o] /\ flags[o] \in SUBSET Flag /\ "pres" \in flags[o]
      /\ "nodisc" \in flags[o] /\ "revrt" \notin flags[o] /\ kept[o] \in Seq(Value)
      /\ \A j \in 1 .. Len(kept[o]) : kept[o][j] \in {<<o, v>> : v \in 0 .. 2}
  BY <1>1, <1>2, ReallocatedIs
<1>4. At(h, o) = i /\ h[i] = b
  BY <1>2, AtIs DEF IsTaken, Heap
<1>5. PICK n \in Nat : n = Len(b.data)
  OBVIOUS
<1>6. PICK k, u, r : k = kept[o] /\ u = Min({Len(k), n}) /\ r = Opening(k, u)
  OBVIOUS
<1>7. /\ heap' = h /\ siz' = [siz EXCEPT ![o] = n] /\ kept' = [kept EXCEPT ![o] = r]
      /\ call' = Idle /\ UNCHANGED <<chunks, mapped, flags, locks, lru, swapVars>>
  BY <1>2, <1>4, <1>5, <1>6 DEF Resized, Opening
<1>8. /\ r \in Seq(Value) /\ Len(r) \in Nat /\ Len(r) <= n /\ Len(r) <= Len(k)
      /\ \A j \in 1 .. Len(r) : r[j] = k[j]
  <2>1. k \in Seq(Value) /\ u = Min({Len(k), n}) /\ r = Opening(k, u)
    BY <1>3, <1>6
  <2> QED
    BY ONLY <2>1, n \in Nat, Shortened
<1>9. Len(k) \in Nat /\ \A j \in 1 .. Len(k) : j <= n => k[j] = b.data[j]
  BY <1>2, <1>3, <1>5, <1>6
<1>10. Begins(r, b.data)
  <2>1. \A j \in 1 .. Len(r) : j \in 1 .. Len(k) /\ j <= n
    BY <1>8, <1>9
  <2> QED
    BY <1>5, <1>8, <1>9, <2>1 DEF Begins
<1>11. \A j \in 1 .. Len(r) : r[j] \in {<<o, v>> : v \in 0 .. 2}
  <2>1. \A j \in 1 .. Len(r) : j \in 1 .. Len(k)
    BY <1>8, <1>9
  <2> QED
    BY ONLY <1>3, <1>6, <1>8, <2>1
<1>12. \A x \in Object : SwappedOut(x)' = SwappedOut(x)
  BY <1>7 DEF SwappedOut, Present, InSwapFile
<1>13. SwapperOK' /\ Swapper' = Swapper
  BY <1>7, <1>12, SameSwapper
<1>14. TypesOK' /\ ObjectsOK' /\ LruOK' /\ OthersStayPut(o)
  <2>1. PICK fl, m : fl = flags[o] /\ m = locks[o]
    OBVIOUS
  <2>2. fl \in SUBSET Flag /\ "pres" \in fl /\ "nodisc" \in fl /\ "revrt" \notin fl
    BY <1>3, <2>1
  <2>3. m \in Nat /\ m > 0 /\ m <= MaxLock[o]
    BY <1>3, <2>1
  <2>4. Len(b.data) \in Nat /\ Len(b.data) > 0 /\ IsSet(siz, o, Len(b.data), siz')
    BY <1>5, <1>7 DEF IsSet
  <2>5. IsSet(flags, o, fl, flags') /\ IsSet(locks, o, m, locks') /\ IsSet(kept, o, r, kept')
    BY <1>7, <2>1 DEF IsSet, TypesOK
  <2>6. IInv /\ mapped' = mapped \cup {o} /\ UNCHANGED <<chunks, lru>>
    BY <1>3, <1>7
  <2>7. \A x \in Object \ {o} : SwappedOut(x) => Stored(Swapper', x) = Stored(Swapper, x)
    BY <1>13
  <2>8. IsTaken(heap, heap', o, i, b)
    BY <1>2, <1>7
  <2> QED
    BY ONLY <1>3, <1>8, <1>10, <1>11, <1>13, <2>2, <2>3, <2>4, <2>5, <2>6, <2>7, <2>8, Settles
<1>15. CallOK' /\ GarbOK'
  BY <1>7, IdleOK
<1> QED
  BY <1>2, <1>13, <1>14, <1>15

(* mcmrealo of fewer cells.                                                *)
LEMMA ShrinkKeeps ==
  ASSUME IInv, Shrink
  PROVE  IInv' /\ OthersStayPut(call.obj)
<1> USE DEF IInv
<1>1. call.op = "realo" /\ Resizing
  BY DEF Shrink, Resizing, CallOK, Idle, Tries
<1>2. PICK o, z : o = call.obj /\ z = call.need
  OBVIOUS
<1>3. o \in Object /\ kept[o] \in Seq(Value) /\ z \in Nat /\ z > 0 /\ siz[o] \in Nat /\ z < siz[o]
  BY <1>1, <1>2, ReallocatedIs DEF Shrink
<1>4. PICK i \in 1 .. Len(heap) :
        /\ Sits(heap, o, i) /\ Len(heap[i].data) = siz[o]
        /\ heap[i].data \in Seq(Value) /\ Begins(kept[o], heap[i].data)
  BY <1>1, <1>2, ReallocatedIs
<1>5. Heap(heap) /\ At(heap, o) = i
  BY <1>4, AtIs DEF TypesOK, Heap
<1>6. PICK g : g = SplitAt(heap, i, z)
  OBVIOUS
<1>7. Resized(g)
  BY <1>2, <1>5, <1>6 DEF Shrink
<1>8. /\ IsTaken(heap, g, o, i, g[i]) /\ z <= Len(g[i].data)
      /\ Len(g[i].data) <= Len(heap[i].data)
      /\ \A k \in 1 .. Len(g[i].data) : g[i].data[k] = heap[i].data[k]
  <2>1. z <= Len(heap[i].data)
    BY <1>3, <1>4
  <2> QED
    BY ONLY <1>3, <1>4, <1>5, <1>6, <2>1, SplitOwn
<1>9. Len(g[i].data) \in Nat /\ Len(g[i].data) > 0
  <2>1. g \in Seq(Blocks) /\ i \in 1 .. Len(g)
    BY <1>8 DEF IsTaken, Heap, Sits
  <2>2. Len(g[i].data) \in Nat
    BY <2>1, HeapBlocks
  <2> QED
    BY <1>3, <1>8, <2>2
<1>10. \A j \in 1 .. Len(kept[o]) : j <= Len(g[i].data) => kept[o][j] = g[i].data[j]
  <2>1. Len(kept[o]) \in Nat /\ \A j \in 1 .. Len(kept[o]) : kept[o][j] = heap[i].data[j]
    BY <1>3, <1>4 DEF Begins
  <2>2. \A j \in 1 .. Len(kept[o]) : j <= Len(g[i].data) => j \in 1 .. Len(g[i].data)
    BY <1>9, <2>1
  <2> QED
    BY ONLY <1>8, <2>1, <2>2
<1>11. PICK b : b = g[i]
  OBVIOUS
<1>12. /\ IsTaken(heap, g, call.obj, i, b) /\ Len(b.data) \in Nat /\ Len(b.data) > 0
       /\ \A j \in 1 .. Len(kept[call.obj]) :
            j <= Len(b.data) => kept[call.obj][j] = b.data[j]
  BY <1>2, <1>8, <1>9, <1>10, <1>11
<1>13. IInv
  OBVIOUS
<1> QED
  BY ONLY <1>1, <1>7, <1>12, <1>13, ResizedKeeps

(* mcmrealo takes the free block behind the object.                        *)
LEMMA AnnexKeeps ==
  ASSUME IInv, Annex
  PROVE  IInv' /\ OthersStayPut(call.obj)
<1> USE DEF IInv
<1>1. call.op = "realo" /\ Resizing
  BY DEF Annex, Resizing, CallOK, Idle, Tries
<1>2. PICK o, z : o = call.obj /\ z = call.need
  OBVIOUS
<1>3. o \in Object /\ kept[o] \in Seq(Value) /\ z \in Nat /\ z > 0 /\ siz[o] \in Nat /\ siz[o] > 0
  BY <1>1, <1>2, ReallocatedIs
<1>4. PICK i \in 1 .. Len(heap) :
        /\ Sits(heap, o, i) /\ Len(heap[i].data) = siz[o]
        /\ heap[i].data \in Seq(Value) /\ Begins(kept[o], heap[i].data)
  BY <1>1, <1>2, ReallocatedIs
<1>5. Heap(heap) /\ heap \in Seq(Blocks) /\ At(heap, o) = i
  BY <1>4, AtIs DEF TypesOK, Heap
<1>6. heap[i + 1].own = Free /\ Len(heap[i + 1].data) >= z - siz[o] /\ z >= siz[o]
  BY <1>2, <1>5 DEF Annex, CanAnnex
<1>7. i + 1 \in 1 .. Len(heap)
  <2>1. heap[i].own = o /\ o # End /\ heap[Len(heap)].own = End
    BY <1>3, <1>4, <1>5, ConstantsOK DEF Sits, Heap
  <2>2. Len(heap) \in Nat /\ i # Len(heap)
    BY <1>5, <2>1
  <2> QED
    BY <2>2
<1>8. PICK b, a : b = Widened(heap, o, i) /\ a = Joined(heap, o, i)
  OBVIOUS
<1>9. PICK g : g = SplitAt(a, i, z)
  OBVIOUS
<1>10. Resized(g)
  <2>1. Resized(SplitAt(Joined(heap, call.obj, At(heap, call.obj)), At(heap, call.obj), call.need))
    BY ONLY Annex DEF Annex, Joined, Widened
  <2>2. Joined(heap, o, i) = a
    BY ONLY <1>8
  <2> QED
    BY ONLY <1>2, <1>5, <1>9, <2>1, <2>2
<1>11. /\ IsTaken(heap, a, o, i, b) /\ Len(b.data) = Len(heap[i].data) + Room(heap[i + 1])
       /\ \A k \in 1 .. Len(heap[i].data) : b.data[k] = heap[i].data[k]
  <2>1. o \in Object /\ Heap(heap) /\ Sits(heap, o, i) /\ heap[i + 1].own = Free
    BY <1>3, <1>4, <1>5, <1>6
  <2> QED
    BY ONLY <1>7, <1>8, <2>1, Annexed
<1>12. /\ Heap(a) /\ Sits(a, o, i) /\ a[i] = b
       /\ \A x \in Object \ {o} : Undisturbed(heap, a, x)
  BY <1>11 DEF IsTaken
<1>13. Len(b.data) \in Nat /\ z <= Len(b.data) /\ siz[o] <= Len(b.data)
  <2>1. PICK l, r : l = Len(heap[i + 1].data) /\ r = Room(heap[i + 1])
    OBVIOUS
  <2>2. l \in Nat /\ r = l + Hdr /\ Hdr \in Nat
    BY <1>5, <1>7, <2>1, HeapBlocks, ConstantsOK DEF Room
  <2>3. Len(b.data) = siz[o] + r /\ l >= z - siz[o]
    BY <1>4, <1>6, <1>11, <2>1
  <2> QED
    BY <1>3, <2>2, <2>3
<1>14. /\ IsTaken(a, g, o, i, g[i]) /\ z <= Len(g[i].data)
       /\ Len(g[i].data) <= Len(a[i].data)
       /\ \A k \in 1 .. Len(g[i].data) : g[i].data[k] = a[i].data[k]
  <2>1. z <= Len(a[i].data)
    BY <1>12, <1>13
  <2> QED
    BY ONLY <1>3, <1>9, <1>12, <2>1, SplitOwn
<1>15. PICK c : c = g[i]
  OBVIOUS
<1>16. IsTaken(heap, g, o, i, c)
  <2>1. Heap(g) /\ Sits(g, o, i) /\ \A x \in Object \ {o} : Undisturbed(a, g, x)
    BY <1>14 DEF IsTaken
  <2>2. \A x \in Object \ {o} : Undisturbed(heap, g, x)
    BY <1>12, <2>1, UndisturbedTwice
  <2> QED
    BY <1>15, <2>1, <2>2 DEF IsTaken
<1>17. Len(c.data) \in Nat /\ Len(c.data) > 0 /\ z <= Len(c.data)
  <2>1. g \in Seq(Blocks) /\ i \in 1 .. Len(g)
    BY <1>14 DEF IsTaken, Heap, Sits
  <2>2. Len(g[i].data) \in Nat
    BY <2>1, HeapBlocks
  <2> QED
    BY <1>3, <1>14, <1>15, <2>2
<1>18. \A j \in 1 .. Len(kept[o]) : j <= Len(c.data) => kept[o][j] = c.data[j]
  <2>1. /\ Len(kept[o]) \in Nat /\ Len(kept[o]) <= siz[o]
        /\ \A j \in 1 .. Len(kept[o]) : kept[o][j] = heap[i].data[j]
    BY <1>3, <1>4 DEF Begins
  <2>2. \A j \in 1 .. Len(kept[o]) : j \in 1 .. Len(heap[i].data)
    BY <1>3, <1>4, <2>1
  <2>3. \A j \in 1 .. Len(kept[o]) : b.data[j] = kept[o][j]
    BY ONLY <1>11, <2>1, <2>2
  <2>4. \A j \in 1 .. Len(kept[o]) : j <= Len(c.data) => j \in 1 .. Len(g[i].data)
    BY <1>15, <1>17, <2>1
  <2> QED
    BY ONLY <1>12, <1>14, <1>15, <2>3, <2>4
<1>19. /\ IsTaken(heap, g, call.obj, i, c)
       /\ \A j \in 1 .. Len(kept[call.obj]) :
            j <= Len(c.data) => kept[call.obj][j] = c.data[j]
  BY <1>2, <1>16, <1>18
<1>20. IInv
  OBVIOUS
<1> QED
  BY ONLY <1>1, <1>10, <1>17, <1>19, <1>20, ResizedKeeps


------------------------------------------------------------------------------
(* The initial state, and every step.                                      *)

(* A cache starts with one free block in one chunk, and an empty file.     *)
LEMMA InitOK ==
  ASSUME Init
  PROVE  IInv
<1>1. /\ heap = <<FreeBlock(FirstChunk - Hdr), Block(End, <<>>)>>
      /\ chunks = Chunks /\ mapped = {} /\ flags = [o \in Object |-> {}]
      /\ locks = [o \in Object |-> 0] /\ siz = [o \in Object |-> 0]
      /\ loc = [o \in Object |-> NoSeg] /\ lru = <<>> /\ seg = <<>>
      /\ file = Fill(Junk, Quota) /\ top = 0 /\ max = Quota /\ call = Idle
      /\ kept = [o \in Object |-> <<>>]
  BY DEF Init
<1>2. PICK n \in Nat : n = FirstChunk - Hdr
  BY ConstantsOK
<1>3. PICK a, e : a = FreeBlock(n) /\ e = Block(End, <<>>)
  OBVIOUS
<1>4. a \in Blocks /\ a.own = Free /\ e \in Blocks /\ e.own = End
  <2>1. <<>> \in Seq(Value)
    OBVIOUS
  <2> QED
    BY <1>2, <1>3, <2>1, FreeBlockIs, BlockIs
<1>5. heap = <<a, e>>
  BY <1>1, <1>2, <1>3
<1>6. heap \in Seq(Blocks) /\ Len(heap) = 2 /\ heap[1] = a /\ heap[2] = e
  BY <1>4, <1>5
<1>7. \A k \in 1 .. Len(heap) : heap[k].own = Free \/ heap[k].own = End
  BY <1>4, <1>6
<1>8. TypesOK
  <2>1. Heap(heap)
    BY <1>4, <1>6 DEF Heap
  <2> QED
    BY <1>1, <2>1, ConstantsOK DEF TypesOK
<1>9. ASSUME NEW o \in Object
      PROVE  /\ flags[o] = {} /\ locks[o] = 0 /\ siz[o] = 0 /\ kept[o] = <<>> /\ loc[o] = NoSeg
             /\ ~Present(o) /\ o \notin mapped /\ Absent(heap, o)
  <2>1. flags[o] = {} /\ locks[o] = 0 /\ siz[o] = 0 /\ kept[o] = <<>> /\ loc[o] = NoSeg
    BY <1>1
  <2>2. Absent(heap, o)
    BY <1>7, ConstantsOK DEF Absent
  <2> QED
    BY <1>1, <2>1, <2>2 DEF Present
<1>10. ObjectsOK
  <2> SUFFICES ASSUME NEW o \in Object
               PROVE  HasBlock(o) /\ EntryOK(o) /\ KeptOK(o)
    BY DEF ObjectsOK
  <2>1. HasBlock(o)
    BY <1>9 DEF HasBlock
  <2>2. EntryOK(o)
    BY <1>9, ConstantsOK DEF EntryOK
  <2>3. KeptOK(o)
    <3>1. Len(kept[o]) = 0 /\ Unwritten(o)
      BY <1>9 DEF Unwritten
    <3>2. \A i \in 1 .. Len(heap) : ~Sits(heap, o, i)
      BY <1>9 DEF Sits, Absent
    <3> QED
      BY <1>9, <3>1, <3>2 DEF KeptOK, SwappedOut
  <2> QED
    BY <2>1, <2>2, <2>3
<1>11. LruOK
  <2>1. lru \in Seq(Object) /\ Range(lru) = {} /\ DOMAIN lru = {}
    BY <1>1 DEF Range
  <2> QED
    BY <1>9, <2>1 DEF LruOK, IsInjective
<1>12. CallOK
  BY <1>1 DEF CallOK, Idle
<1>13. SwapperOK
  <2>1. Out = {}
    BY <1>9 DEF Out, SwappedOut
  <2>2. file \in [1 .. Quota -> Value]
    BY <1>1, ConstantsOK DEF Fill, Value
  <2>3. /\ Swapper.seg = seg /\ Swapper.file = file /\ Swapper.top = top
        /\ Swapper.max = max /\ Swapper.loc = loc
    BY DEF Swapper
  <2>4. seg \in Seq(Segments) /\ Len(seg) = 0 /\ SegEnd(seg, Len(seg)) = 0
    BY <1>1 DEF SegEnd
  <2>5. loc \in [Object -> Int]
    BY <1>1 DEF NoSeg
  <2>6. SwapOK(Swapper, {})
    BY <1>1, <2>2, <2>3, <2>4, <2>5, ConstantsOK DEF SwapOK
  <2> QED
    BY <2>1, <2>6 DEF SwapperOK
<1>14. GarbOK
  BY <1>1 DEF GarbOK, Idle
<1> QED
  BY <1>8, <1>10, <1>11, <1>12, <1>13, <1>14 DEF IInv

\* What LockedStaysPut says of a step.
LockedStay ==
  heap' # heap => \A o \in Object :
    locks[o] > 0 /\ locks'[o] > 0 /\ ~(call.op = "realo" /\ call.obj = o)
    => Place(heap, o) = Place(heap', o)

(* A locked object whose block a step leaves alone stays in its place.     *)
LEMMA StaysInPlace ==
  ASSUME IInv, NEW o \in Object, locks[o] > 0, Undisturbed(heap, heap', o)
  PROVE  Place(heap, o) = Place(heap', o)
<1>1. HasBlock(o) /\ Present(o)
  BY DEF IInv, ObjectsOK, EntryOK
<1>2. PICK i \in 1 .. Len(heap) : Sits(heap, o, i)
  BY <1>1 DEF HasBlock
<1> QED
  BY <1>2 DEF Undisturbed

(* A step that leaves all blocks alone but that of an object nobody has    *)
(* locked, or that stays, or that is being resized.                        *)
LEMMA OneMoves ==
  ASSUME IInv, NEW o, OthersStayPut(o),
         o \in Object => \/ ~(locks[o] > 0) \/ Place(heap', o) = Place(heap, o)
                         \/ (call.op = "realo" /\ call.obj = o)
  PROVE  LockedStay
<1> SUFFICES ASSUME NEW x \in Object, locks[x] > 0, ~(call.op = "realo" /\ call.obj = x)
             PROVE  Place(heap, x) = Place(heap', x)
  BY DEF LockedStay
<1>1. CASE x = o
  BY <1>1
<1>2. CASE x # o
  <2>1. Undisturbed(heap, heap', x)
    BY <1>2 DEF OthersStayPut
  <2> QED
    BY <2>1, StaysInPlace
<1> QED
  BY <1>1, <1>2

(* Every step keeps the invariant, and the locked objects where they are.  *)
LEMMA NextKeeps ==
  ASSUME FreesPresent, IInv, Next
  PROVE  IInv' /\ LockedStay
<1>1. ASSUME NEW o \in Object, NEW n \in Size[o], Reserve(o, n) \/ Allocate(o, n)
      PROVE  IInv' /\ LockedStay
  <2>1. n \in Nat /\ n > 0
    BY ConstantsOK
  <2>2. heap' = heap
    BY <1>1 DEF Reserve, Allocate, cacheVars
  <2>3. IInv'
    BY ONLY IInv, <1>1, <2>1, ReserveKeeps, Starts
  <2> QED
    BY <2>2, <2>3 DEF LockedStay
<1>2. ASSUME NEW o \in Object, NEW n \in NewSize[o], Reallocate(o, n) \/ ReallocateAbsent(o, n)
      PROVE  IInv' /\ LockedStay
  <2>1. n \in Nat /\ n > 0
    BY ConstantsOK
  <2>2. heap' = heap
    BY <1>2 DEF Reallocate, ReallocateAbsent, cacheVars
  <2>3. IInv'
    BY ONLY IInv, <1>2, <2>1, Starts
  <2> QED
    BY <2>2, <2>3 DEF LockedStay
<1>3. ASSUME NEW o \in Object, Lock(o) \/ Unlock(o)
      PROVE  IInv' /\ LockedStay
  <2>1. heap' = heap
    BY <1>3 DEF Lock, Unlock
  <2>2. IInv'
    BY ONLY IInv, <1>3, LocksKeep
  <2> QED
    BY <2>1, <2>2 DEF LockedStay
<1>4. ASSUME NEW o \in Object, Load(o)
      PROVE  IInv' /\ LockedStay
  <2>1. heap' = heap
    BY <1>4 DEF Load, cacheVars
  <2>2. 1 \in Nat /\ 1 > 0
    OBVIOUS
  <2>3. IInv'
    BY ONLY IInv, <1>4, <2>2, Starts
  <2> QED
    BY <2>1, <2>3 DEF LockedStay
<1>5. ASSUME NEW o \in Object, Modify(o)
      PROVE  IInv' /\ LockedStay
  <2>1. IInv' /\ OthersStayPut(o) /\ Place(heap', o) = Place(heap, o)
    BY ONLY IInv, <1>5, ModifyKeeps
  <2> QED
    BY <2>1, OneMoves
<1>6. ASSUME NEW o \in Object, FreeObject(o)
      PROVE  IInv' /\ LockedStay
  <2>1. IInv' /\ OthersStayPut(o) /\ locks[o] = 0
    BY ONLY FreesPresent, IInv, <1>6, FreeObjectKeeps
  <2> QED
    BY <2>1, OneMoves
<1>7. ASSUME NEW o \in Object, Revert(o)
      PROVE  IInv' /\ LockedStay
  <2>1. IInv' /\ OthersStayPut(o) /\ (Present(o) => Place(heap', o) = Place(heap, o))
    BY ONLY IInv, <1>7, RevertKeeps
  <2>2. locks[o] > 0 => Present(o)
    BY DEF IInv, ObjectsOK, EntryOK
  <2> QED
    BY <2>1, <2>2, OneMoves
<1>8. ASSUME HeapRefused \/ NoMemory \/ SwapEnds \/ MustMove
      PROVE  IInv' /\ LockedStay
  <2>1. heap' = heap
    BY <1>8 DEF HeapRefused, NoMemory, SwapEnds, MustMove, cacheVars
  <2>2. IInv'
    BY ONLY IInv, <1>8, QuietSteps
  <2> QED
    BY <2>1, <2>2 DEF LockedStay
<1>9. ASSUME HeapGrows \/ \E i \in DOMAIN heap : LoadFails(i)
      PROVE  IInv' /\ LockedStay
  <2>1. IInv' /\ \A x \in Object : Undisturbed(heap, heap', x)
    BY ONLY IInv, <1>9, HeapGrowsKeeps, LoadFailsKeeps
  <2>2. \A x \in Object : locks[x] > 0 => Place(heap, x) = Place(heap', x)
    BY <2>1, StaysInPlace
  <2> QED
    BY <2>1, <2>2 DEF LockedStay
<1>10. ASSUME CollectGarbage
       PROVE  IInv' /\ LockedStay
  <2>1. IInv' /\ \A x \in Object : locks[x] > 0 => Place(heap', x) = Place(heap, x)
    BY ONLY IInv, <1>10, CollectGarbageKeeps
  <2> QED
    BY <2>1 DEF LockedStay
<1>11. ASSUME NEW o \in Object, Toss(o)
       PROVE  IInv' /\ LockedStay
  <2>1. IInv' /\ OthersStayPut(o) /\ locks[o] = 0
    BY ONLY IInv, <1>11, TossKeeps
  <2> QED
    BY <2>1, OneMoves
<1>12. ASSUME NEW o \in Object, SwapFull(o)
       PROVE  IInv' /\ LockedStay
  <2>1. IInv' /\ heap' = heap
    BY ONLY IInv, <1>12, SwapFullKeeps
  <2> QED
    BY <2>1 DEF LockedStay
<1>13. ASSUME NEW i, GrantNew(i) \/ GrantLoad(i)
       PROVE  IInv' /\ LockedStay
  <2>1. IInv' /\ OthersStayPut(call.obj) /\ locks[call.obj] = 0
    BY ONLY IInv, <1>13, GrantNewKeeps, GrantLoadKeeps
  <2>2. PICK o : o = call.obj
    OBVIOUS
  <2>3. ~(locks[o] > 0) /\ OthersStayPut(o)
    BY <2>1, <2>2
  <2> QED
    BY <2>1, <2>3, OneMoves
<1>14. ASSUME (\E i \in DOMAIN heap : GrantMove(i)) \/ Shrink \/ Annex
       PROVE  IInv' /\ LockedStay
  <2>1. IInv' /\ OthersStayPut(call.obj)
    BY ONLY IInv, <1>14, GrantMoveKeeps, ShrinkKeeps, AnnexKeeps
  <2>2. call.op = "realo"
    <3>1. ASSUME Resizing PROVE call.op = "realo"
      BY <3>1 DEF IInv, CallOK, Resizing, Idle, Tries
    <3> QED
      BY <1>14, <3>1 DEF Shrink, Annex, GrantMove
  <2>3. PICK o : o = call.obj
    OBVIOUS
  <2>4. OthersStayPut(o) /\ call.op = "realo" /\ call.obj = o
    BY <2>1, <2>2, <2>3
  <2> QED
    BY <2>1, <2>4, OneMoves
<1> QED
  BY <1>1, <1>2, <1>3, <1>4, <1>5, <1>6, <1>7, <1>8, <1>9, <1>10, <1>11, <1>12,
     <1>13, <1>14 DEF Next, Step

(* And so does a step that does nothing.                                   *)
LEMMA StutterKeeps ==
  ASSUME IInv, UNCHANGED vars
  PROVE  IInv'
<1>1. UNCHANGED <<heap, chunks, mapped, flags, locks, siz, lru, seg, file, top, max, loc,
                  call, kept>>
  BY DEF vars, cacheVars, swapVars
<1>2. TypesOK'
  BY <1>1 DEF IInv, TypesOK
<1>3. \A o \in Object : Present(o)' = Present(o) /\ InSwapFile(o)' = InSwapFile(o)
                        /\ SwappedOut(o)' = SwappedOut(o) /\ Unwritten(o)' = Unwritten(o)
  BY <1>1 DEF Present, InSwapFile, SwappedOut, Unwritten
<1>4. Swapper' = Swapper /\ Out' = Out
  BY <1>1, <1>3 DEF Swapper, Out
<1>5. ObjectsOK'
  <2> SUFFICES ASSUME NEW o \in Object
               PROVE  HasBlock(o)' /\ EntryOK(o)' /\ KeptOK(o)'
    BY DEF ObjectsOK
  <2>1. HasBlock(o) /\ EntryOK(o) /\ KeptOK(o)
    BY DEF IInv, ObjectsOK
  <2> QED
    BY <1>1, <1>3, <1>4, <2>1 DEF HasBlock, EntryOK, KeptOK
<1>6. LruOK'
  BY <1>1, <1>3 DEF IInv, LruOK, IsInjective, Range
<1>7. CallOK'
  BY <1>1 DEF IInv, CallOK, Present, Tries, Idle
<1>8. SwapperOK'
  BY <1>4 DEF IInv, SwapperOK
<1>9. GarbOK'
  BY <1>1 DEF IInv, GarbOK
<1> QED
  BY <1>2, <1>5, <1>6, <1>7, <1>8, <1>9 DEF IInv

(* The inductive invariant holds in every state that can be reached by a   *)
(* program that frees objects in memory only.                              *)
THEOREM Invariance == ASSUME FreesPresent PROVE Spec => []IInv
<1>1. Init => IInv
  BY InitOK
<1>2. IInv /\ [Next]_vars => IInv'
  <2>1. IInv /\ Next => IInv'
    BY NextKeeps
  <2>2. IInv /\ UNCHANGED vars => IInv'
    BY StutterKeeps
  <2> QED
    BY <2>1, <2>2
<1> QED
  BY <1>1, <1>2, PTL DEF Spec

------------------------------------------------------------------------------
(* The properties.                                                         *)

(* The invariant says that the types are right.                            *)
LEMMA TypesAreOK ==
  ASSUME IInv
  PROVE  TypeOK
<1>1. /\ heap \in Seq(Blocks) /\ DOMAIN heap = 1 .. Len(heap)
      /\ \A i \in 1 .. Len(heap) : /\ heap[i].own \in Object \cup {Free, End}
                                   /\ heap[i].data \in Seq(Value)
  BY HeapBlocks DEF IInv, TypesOK, Heap
<1>2. \A o \in Object : flags[o] \subseteq Flag /\ locks[o] \in Nat
  BY DEF IInv, TypesOK
<1>3. \A o \in Object : HasBlock(o) /\ EntryOK(o)
  BY DEF IInv, ObjectsOK
<1>4. \A o \in Object : locks[o] \in 0 .. MaxLock[o] /\ (o \notin mapped => flags[o] = {})
                        /\ (o \in mapped => siz[o] > 0)
  BY <1>2, <1>3, ConstantsOK DEF EntryOK
<1>5. mapped \subseteq Object
  BY DEF IInv, TypesOK
<1>6. ASSUME NEW o \in mapped, Present(o)
      PROVE  /\ Cardinality({i \in DOMAIN heap : heap[i].own = o}) = 1
             /\ siz[o] = Len(heap[At(heap, o)].data)
  <2>1. PICK i \in 1 .. Len(heap) : Sits(heap, o, i) /\ Len(heap[i].data) = siz[o]
    BY <1>3, <1>5, <1>6 DEF HasBlock
  <2>2. {j \in DOMAIN heap : heap[j].own = o} = {i}
    BY <1>1, <2>1 DEF Sits
  <2>3. At(heap, o) = i
    BY <1>1, <2>1, AtIs
  <2> QED
    BY <2>1, <2>2, <2>3, FS_Singleton
<1>7. ASSUME NEW i \in DOMAIN heap, heap[i].own \in Object
      PROVE  Present(heap[i].own)
  BY <1>1, <1>3, <1>7 DEF HasBlock, Absent
<1>8. file \in Seq(Value) /\ top \in 0 .. Quota /\ max \in 0 .. Quota
  <2>1. /\ Swapper.file = file /\ Swapper.top = top /\ Swapper.max = max
    BY DEF Swapper
  <2>2. file \in [1 .. Quota -> Value] /\ top \in Nat /\ max \in Nat /\ top + max = Quota
    BY <2>1 DEF IInv, SwapperOK, SwapOK
  <2>3. file \in Seq(Value)
    BY <2>2, ConstantsOK, FcnIsSeq
  <2> QED
    BY <2>2, <2>3
<1>9. \A i \in DOMAIN heap : heap[i].own \in Object \cup {Free, End}
                              /\ heap[i].data \in Seq(Value)
  BY <1>1
<1>10. \A o \in Object : flags[o] \subseteq Flag /\ (o \notin mapped => flags[o] = {})
  BY <1>2, <1>4
<1>11. \A o \in Object : locks[o] \in 0 .. MaxLock[o]
  BY <1>4
<1>12. \A o \in mapped : siz[o] > 0
  BY <1>4, <1>5
<1> QED
  BY ONLY <1>6, <1>7, <1>8, <1>9, <1>10, <1>11, <1>12 DEF TypeOK

(* Type correctness, the inductive invariant's first consequence; with it, *)
(* an object is in memory exactly if it has a block, of the size that its  *)
(* entry gives.  Shown for programs that free objects in memory only, since *)
(* the invariant is.                                                       *)
THEOREM TypeCorrect == ASSUME FreesPresent PROVE Spec => []TypeOK
<1>1. IInv => TypeOK
  BY TypesAreOK
<1> QED
  BY <1>1, Invariance, PTL

(* What begins with a list is that list, when it is cut to its length.     *)
LEMMA BeginsWith ==
  ASSUME NEW k \in Seq(Value), NEW d, Begins(k, d)
  PROVE  k = SubSeq(d, 1, Len(k))
<1>1. PICK n \in Nat : n = Len(k)
  BY LenProperties
<1>2. \A i \in 1 .. n : k[i] = d[i] /\ k[i] \in Value
  BY <1>1, ElementOfSeq DEF Begins
<1>3. /\ SubSeq(d, 1, n) \in Seq(Value)
      /\ Len(SubSeq(d, 1, n)) = IF 1 <= n THEN n - 1 + 1 ELSE 0
      /\ \A i \in 1 .. n - 1 + 1 : SubSeq(d, 1, n)[i] = d[1 + i - 1]
  <2>1. \A i \in 1 .. n : d[i] \in Value
    BY <1>2
  <2> QED
    BY <1>1, <2>1, SubSeqProperties
<1>4. PICK s : s = SubSeq(d, 1, n)
  OBVIOUS
<1>5. s \in Seq(Value) /\ Len(s) = n /\ \A i \in 1 .. n : s[i] = d[i]
  <2>1. ASSUME NEW i \in 1 .. n PROVE s[i] = d[i]
    <3>1. i \in 1 .. n - 1 + 1 /\ 1 + i - 1 = i
      BY <1>1
    <3> QED
      BY <1>3, <1>4, <3>1
  <2>2. (IF 1 <= n THEN n - 1 + 1 ELSE 0) = n
    BY <1>1
  <2> QED
    BY <1>3, <1>4, <2>1, <2>2
<1>6. s = k
  BY <1>1, <1>2, <1>5, SeqEqual
<1> QED
  BY <1>1, <1>4, <1>6

(* The invariant says where the contents of the objects are.               *)
LEMMA ContentsAreKept ==
  ASSUME IInv
  PROVE  ContentsKept
<1> DEFINE stored(o) == CASE Present(o) -> heap[At(heap, o)].data
                          [] SwappedOut(o) ->
                               ReadFile(file, seg[loc[o]].ptr, seg[loc[o]].osz)
                          [] OTHER -> Original(o, siz[o])
<1> SUFFICES ASSUME NEW o \in mapped, "revrt" \notin flags[o]
             PROVE  kept[o] = SubSeq(stored(o), 1, Len(kept[o]))
  BY DEF ContentsKept
<1> SUFFICES ASSUME NEW d, d = stored(o)
             PROVE  kept[o] = SubSeq(d, 1, Len(kept[o]))
  OBVIOUS
<1>1. o \in Object /\ kept[o] \in Seq(Value) /\ siz[o] \in Nat /\ heap \in Seq(Blocks)
  BY DEF IInv, TypesOK, Heap
<1>2. HasBlock(o) /\ KeptOK(o)
  BY <1>1 DEF IInv, ObjectsOK
<1>3. CASE Present(o)
  <2>1. PICK i \in 1 .. Len(heap) : Sits(heap, o, i)
    BY <1>2, <1>3 DEF HasBlock
  <2>2. Begins(kept[o], heap[i].data) /\ At(heap, o) = i
    BY <1>1, <1>2, <2>1, AtIs DEF KeptOK
  <2>3. d = heap[At(heap, o)].data
    BY <1>3 DEF SwappedOut
  <2>4. Begins(kept[o], d)
    BY <2>2, <2>3
  <2> QED
    BY <1>1, <2>4, BeginsWith
<1>4. CASE SwappedOut(o)
  <2>1. ~Present(o) /\ Begins(kept[o], Stored(Swapper, o))
    BY <1>2, <1>4 DEF KeptOK, SwappedOut
  <2>2. Begins(kept[o], ReadFile(file, seg[loc[o]].ptr, seg[loc[o]].osz))
    BY <2>1, StoredIs
  <2>3. d = ReadFile(file, seg[loc[o]].ptr, seg[loc[o]].osz)
    BY <1>4, <2>1
  <2>4. Begins(kept[o], d)
    BY <2>2, <2>3
  <2> QED
    BY <1>1, <2>4, BeginsWith
<1>5. CASE ~Present(o) /\ ~SwappedOut(o)
  <2>1. Unwritten(o) /\ Len(kept[o]) <= siz[o] /\ Len(kept[o]) \in Nat
    BY <1>1, <1>2, <1>5, LenProperties DEF KeptOK, SwappedOut
  <2>2. <<o, 0>> \in Value
    BY <1>1 DEF Value
  <2>3. PICK v \in Value, n \in Nat : v = <<o, 0>> /\ n = siz[o]
    BY <1>1, <2>2
  <2>4. d = Fill(v, n)
    BY <1>5, <2>3 DEF Original
  <2>5. Len(d) = n /\ \A k \in 1 .. n : d[k] = v
    BY <2>4, FillIs
  <2>6. Begins(kept[o], d)
    <3>1. \A k \in 1 .. Len(kept[o]) : kept[o][k] = v /\ k \in 1 .. n
      BY <1>1, <2>1, <2>3 DEF Unwritten
    <3>2. Len(kept[o]) <= Len(d) /\ \A k \in 1 .. Len(kept[o]) : kept[o][k] = d[k]
      BY ONLY <2>1, <2>3, <2>5, <3>1
    <3> QED
      BY ONLY <3>2 DEF Begins
  <2> QED
    BY <1>1, <2>6, BeginsWith
<1> QED
  BY <1>3, <1>4, <1>5

(* What the client last wrote into an object is where the cache says the   *)
(* object is, after any sequence of calls - moves, garbage collections,    *)
(* swaps, compactions of the swap file, loads that fail - of which none    *)
(* frees an object that is not in memory: mcmgfre would take the block it  *)
(* had once for its own.                                                   *)
THEOREM ContentsSafe == ASSUME FreesPresent PROVE Spec => []ContentsKept
<1>1. IInv => ContentsKept
  BY ContentsAreKept
<1> QED
  BY <1>1, Invariance, PTL

(* The segments in use are those of the objects swapped out, one behind    *)
(* the other, and with what is left they add up to the quota, if only      *)
(* objects in memory are freed; otherwise a segment may stay in use for    *)
(* nobody.                                                                 *)
THEOREM SwapFileIntact == ASSUME FreesPresent PROVE Spec => []SwapFileOK
<1>1. ASSUME IInv
      PROVE  SwapFileOK
  <2>1. /\ Swapper.seg = seg /\ Swapper.top = top /\ Swapper.max = max /\ Swapper.loc = loc
    BY DEF Swapper
  <2>2. SwapOK(Swapper, Out)
    BY <1>1 DEF IInv, SwapperOK
  <2>3. DOMAIN seg = 1 .. Len(seg)
    BY <2>1, <2>2, LenProperties DEF SwapOK
  <2>4. \A o \in Object : o \in Out <=> SwappedOut(o)
    BY DEF Out
  <2>5. \A o \in Out : loc[o] \in 1 .. Len(seg) /\ seg[loc[o]].use /\ seg[loc[o]].obj = o
    BY <2>1, <2>2 DEF SwapOK
  <2>6. \A i \in 1 .. Len(seg) :
          /\ seg[i].use => seg[i].obj \in Out /\ loc[seg[i].obj] = i
          /\ seg[i].osz <= seg[i].siz /\ seg[i].ptr = SegEnd(seg, i - 1)
    BY <2>1, <2>2 DEF SwapOK
  <2>7. top = SegEnd(seg, Len(seg)) /\ top + max = Quota
    BY <2>1, <2>2 DEF SwapOK
  <2>8. \A o \in Out : SwappedOut(o)
    BY DEF Out
  <2> QED
    BY <2>3, <2>4, <2>5, <2>6, <2>7, <2>8 DEF SwapFileOK
<1>2. IInv => SwapFileOK
  BY <1>1
<1> QED
  BY <1>2, Invariance, PTL

(* Objects in memory that nobody has locked are on the LRU list, once, and *)
(* nothing else is that is not in memory, if only objects in memory are    *)
(* freed.                                                                  *)
THEOREM UnlockedFound == ASSUME FreesPresent PROVE Spec => []LruFindsUnlocked
<1>1. IInv => LruFindsUnlocked
  BY DEF IInv, LruOK, LruFindsUnlocked
<1> QED
  BY <1>1, Invariance, PTL

(* No step moves a locked object, but the mcmrealo of that object, if only *)
(* objects in memory are freed.                                            *)
THEOREM LockedStays == ASSUME FreesPresent PROVE Spec => LockedStaysPut
<1>1. IInv /\ [Next]_vars => [LockedStay]_vars
  BY NextKeeps
<1> QED
  BY <1>1, Invariance, PTL DEF Spec, LockedStaysPut, LockedStay

(* When mcmffb finds nothing there is no free block that is big enough.    *)
LEMMA NothingFits ==
  ASSUME TypesOK, NEW n \in Nat, Fits(n) = {}, NEW i \in 1 .. Len(heap), heap[i].own = Free
  PROVE  Len(heap[i].data) < n
<1>1. /\ DOMAIN heap = 1 .. Len(heap) /\ Len(heap) \in Nat
      /\ \A k \in 1 .. Len(heap) : Len(heap[k].data) \in Nat
  BY HeapBlocks DEF TypesOK, Heap
<1>2. PICK f, m : f = [k \in 1 .. Len(heap) |-> Len(heap[k].data)] /\ m = Len(heap)
  OBVIOUS
<1>3. m \in Nat /\ f \in [1 .. m -> Nat] /\ \A k \in 1 .. m : f[k] = Len(heap[k].data)
  BY <1>1, <1>2
<1>4. PICK B : B = {k \in DOMAIN heap : heap[k].own = Free /\ Len(heap[k].data) >= n}
  OBVIOUS
<1>5. B \subseteq 1 .. m
  BY <1>1, <1>2, <1>4
<1>6. B = {}
  <2> SUFFICES ASSUME B # {}
               PROVE  FALSE
    OBVIOUS
  <2>1. PICK L : L = {f[k] : k \in B}
    OBVIOUS
  <2>2. L \subseteq Nat /\ L # {}
    BY <1>3, <1>5, <2>1
  <2>3. PICK x \in L : \A y \in L : x <= y
    BY <2>2, HasLeast
  <2>4. PICK k \in B : x = f[k]
    BY <2>1
  <2>5. \A j \in B : f[k] <= f[j]
    BY <2>1, <2>3, <2>4
  <2>6. \A j \in B : Len(heap[k].data) <= Len(heap[j].data)
    BY <1>3, <1>5, <2>5
  <2>7. k \in Fits(n)
    BY <1>4, <2>6 DEF Fits
  <2> QED
    BY <2>7
<1> QED
  BY <1>1, <1>4, <1>6

(* When mcmswap finds nothing either, what is not free is locked.          *)
LEMMA FullWhenNoMemory ==
  ASSUME IInv, NoMemory, NEW i \in DOMAIN heap, NEW j \in DOMAIN heap, i <= j,
         \A k \in i .. j : heap[k].own # End
                           /\ (heap[k].own # Free => locks[heap[k].own] = 0)
  PROVE  Extent(heap, i, j) - Hdr < call.need
<1>1. /\ heap \in Seq(Blocks) /\ DOMAIN heap = 1 .. Len(heap) /\ Len(heap) \in Nat
      /\ \A k \in 1 .. Len(heap) : heap[k].own \in Object \cup {Free, End}
  BY HeapBlocks DEF IInv, TypesOK, Heap
<1>2. Fits(call.need) = {} /\ call.stage = "again" /\ Victim = <<>> /\ call.need \in Nat
  BY DEF NoMemory, NoFit, IInv, CallOK
<1>3. \A o \in Range(lru) : locks[o] # 0
  BY <1>2, VictimIs DEF IInv
<1>4. ASSUME NEW k \in i .. j
      PROVE  heap[k].own = Free
  <2> SUFFICES ASSUME heap[k].own # Free
               PROVE  FALSE
    OBVIOUS
  <2>1. k \in 1 .. Len(heap)
    BY <1>1
  <2>2. PICK o \in Object : o = heap[k].own /\ locks[o] = 0
    BY <1>1, <2>1
  <2>3. Present(o)
    BY <2>1, <2>2 DEF IInv, ObjectsOK, HasBlock, Absent
  <2>4. o \in Range(lru)
    BY <2>2, <2>3 DEF IInv, LruOK
  <2> QED
    BY <1>3, <2>2, <2>4
<1>5. i = j
  <2> SUFFICES ASSUME i # j
               PROVE  FALSE
    OBVIOUS
  <2>1. i \in i .. j /\ i + 1 \in i .. j /\ i \in 1 .. Len(heap) - 1
    BY <1>1
  <2>2. heap[i].own = Free /\ heap[i + 1].own = Free
    BY <1>4, <2>1
  <2> QED
    BY <1>2, <2>1, <2>2 DEF IInv, GarbOK, NoGap
<1>6. i \in 1 .. Len(heap) /\ heap[i].own = Free /\ Extent(heap, i, i) = Room(heap[i])
  BY <1>1, <1>4, ExtentIs
<1>7. Len(heap[i].data) < call.need /\ Len(heap[i].data) \in Nat
  BY <1>1, <1>2, <1>6, NothingFits, HeapBlocks DEF IInv
<1>8. Extent(heap, i, j) = Len(heap[i].data) + Hdr
  BY <1>5, <1>6 DEF Room
<1> QED
  BY <1>2, <1>7, <1>8, ConstantsOK

(* When an allocation fails for want of memory, the locked objects leave   *)
(* no gap that is big enough, if only objects in memory have been freed.   *)
THEOREM OutOfMemoryOnlyWhenFull == ASSUME FreesPresent PROVE Spec => NoMemoryWhenFull
<1> DEFINE Full ==
      NoMemory => \A i, j \in DOMAIN heap :
        i <= j /\ (\A k \in i..j : heap[k].own # End
                                   /\ (heap[k].own # Free => locks[heap[k].own] = 0))
        => Extent(heap, i, j) - Hdr < call.need
<1>1. IInv => Full
  BY FullWhenNoMemory
<1>2. IInv /\ [Next]_vars => [Full]_vars
  BY <1>1
<1>3. Spec => [][Full]_vars
  <2> HIDE DEF Full
  <2> QED
    BY <1>2, Invariance, PTL DEF Spec
<1> QED
  BY <1>3 DEF NoMemoryWhenFull
=============================================================================
