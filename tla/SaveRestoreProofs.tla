-------------------------- MODULE SaveRestoreProofs --------------------------
(***************************************************************************)
(* Theorems about SaveRestore.                                             *)
(***************************************************************************)
EXTENDS SaveRestore, FiniteSetTheorems, SequenceTheorems, WellFoundedInduction, TLAPS

(* What is done in rounds.                                                 *)

LessThan == {p \in Nat \X Nat : p[1] < p[2]}
(* Every nonempty set of numbers has a least one.                          *)
LEMMA HasLeast ==
  ASSUME NEW S, S \subseteq Nat, S # {}
  PROVE  \E x \in S : \A y \in S : x <= y
<1>1. IsWellFoundedOn(LessThan, Nat)
  <2>1. LessThan = OpToRel(<, Nat)
    BY DEF LessThan, OpToRel
  <2> QED
    BY <2>1, NatLessThanWellFounded
<1>2. PICK x \in S : \A y \in S : ~(<<y, x>> \in LessThan)
  BY <1>1, WFMin
<1>3. ASSUME NEW y \in S, y < x PROVE FALSE
  <2>1. <<y, x>> \in LessThan
    BY <1>3 DEF LessThan
  <2> QED
    BY <1>2, <2>1
<1> QED
  BY <1>3

(* What holds of 0, and of every number when it holds of the one before,   *)
(* holds of all numbers up to n.                                           *)
LEMMA Upward ==
  ASSUME NEW n \in Nat, NEW S, 0 \in S, \A k \in 1 .. n : k - 1 \in S => k \in S
  PROVE  0 .. n \subseteq S
<1> DEFINE Bad == {k \in 0 .. n : k \notin S}
<1>1. ASSUME Bad # {} PROVE FALSE
  <2>1. Bad \subseteq Nat
    OBVIOUS
  <2>2. PICK k \in Bad : \A j \in Bad : k <= j
    <3> HIDE DEF Bad
    <3> QED
      BY <1>1, <2>1, HasLeast
  <2>3. k \in 1 .. n /\ k - 1 \in 0 .. n
    BY <2>2
  <2>4. k - 1 \in S
    BY <2>2, <2>3
  <2> QED
    BY <2>2, <2>3, <2>4
<1> QED
  BY <1>1

\* The walk f goes from base by the steps of g, m times.
Walks(A, base, g, f, m) ==
  /\ f \in [0 .. m -> A] /\ f[0] = base
  /\ \A i \in 1 .. m : f[i] = g[<<f[i - 1], i>>]
(* A walk that goes on from every state it can be in exists.               *)
LEMMA WalkExists ==
  ASSUME NEW A, NEW n \in Nat, NEW base \in A, NEW g \in [A \X (1 .. n) -> A]
  PROVE  \E f : Walks(A, base, g, f, n)
<1> DEFINE S == {m \in 0 .. n : \E f : Walks(A, base, g, f, m)}
<1>1. 0 \in S
  <2>1. PICK f : f = [i \in 0 .. 0 |-> base]
    OBVIOUS
  <2>2. f \in [0 .. 0 -> A] /\ f[0] = base
    BY <2>1
  <2>3. Walks(A, base, g, f, 0)
    BY <2>2 DEF Walks
  <2> QED
    BY <2>3
<1>2. ASSUME NEW k \in 1 .. n, k - 1 \in S
      PROVE  k \in S
  <2>1. PICK f : Walks(A, base, g, f, k - 1)
    BY <1>2
  <2>2. PICK e : e = [i \in 0 .. k |-> IF i = k THEN g[<<f[k - 1], k>>] ELSE f[i]]
    OBVIOUS
  <2>3. k - 1 \in 0 .. k - 1 /\ f[k - 1] \in A
    BY <2>1 DEF Walks
  <2>4. g[<<f[k - 1], k>>] \in A
    BY <2>3
  <2>5. e \in [0 .. k -> A] /\ e[0] = base
    BY <2>1, <2>2, <2>4 DEF Walks
  <2>6. ASSUME NEW i \in 1 .. k
        PROVE  e[i] = g[<<e[i - 1], i>>]
    <3>1. e[i - 1] = f[i - 1] /\ i - 1 \in 0 .. k - 1
      BY <2>2
    <3>2. CASE i = k
      <4>1. e[k] = g[<<f[k - 1], k>>] /\ e[k - 1] = f[k - 1]
        BY <2>2, <3>1, <3>2
      <4> QED
        BY <3>2, <4>1
    <3>3. CASE i # k
      <4>1. i \in 1 .. k - 1 /\ e[i] = f[i]
        BY <2>2, <3>3
      <4> QED
        BY <2>1, <3>1, <4>1 DEF Walks
    <3> QED
      BY <3>2, <3>3
  <2>7. Walks(A, base, g, e, k)
    BY <2>5, <2>6 DEF Walks
  <2> QED
    BY <2>7
<1>3. 0 .. n \subseteq S
  <2> HIDE DEF S
  <2> QED
    BY <1>1, <1>2, Upward
<1>4. n \in S
  BY <1>3
<1> QED
  BY <1>4

(* A function on an interval is a list.                                    *)
LEMMA FcnIsSeq ==
  ASSUME NEW S, NEW n \in Nat, NEW f \in [1 .. n -> S]
  PROVE  f \in Seq(S) /\ Len(f) = n
<1>1. f \in Seq(S)
  BY SeqDef
<1>2. DOMAIN f = 1 .. n /\ DOMAIN f = 1 .. Len(f) /\ Len(f) \in Nat
  BY <1>1, LenProperties
<1>3. Len(f) = n
  BY <1>2
<1> QED
  BY <1>1, <1>3

\* R is what can be reached from S over the references r.
IsReach(r, S, opaque, R) ==
  /\ R \subseteq Id /\ S \subseteq R
  /\ \A o \in R \ opaque : r[o] \in R \cup {Nil}
  /\ \A C \in SUBSET Id :
       S \subseteq C /\ (\A o \in C \ opaque : r[o] \in C \cup {Nil}) => R \subseteq C

Onward(r, opaque, A) == A \cup ({r[o] : o \in A \ opaque} \ {Nil})
Rounds(r, S, opaque, f) ==
  /\ f \in [0 .. MaxId -> SUBSET Id] /\ f[0] = S
  /\ \A k \in 1 .. MaxId : f[k] = Onward(r, opaque, f[k - 1])
IsFound(r, S, opaque, f) ==
  f = [n \in 0 .. MaxId |-> IF n = 0 THEN S ELSE f[n - 1] \cup ({r[o] : o \in f[n - 1] \ opaque} \ {Nil})]
(* The rounds in which objects are found.                                  *)
LEMMA FoundIs ==
  ASSUME NEW r \in [Id -> Id \cup {Nil}], NEW S \in SUBSET Id, NEW opaque
  PROVE  Rounds(r, S, opaque, Found(r, S, opaque))
<1>1. MaxId \in Nat
  BY SaveAssumption
<1> DEFINE g == [p \in (SUBSET Id) \X (1 .. MaxId) |-> Onward(r, opaque, p[1])]
<1>2. ASSUME NEW A \in SUBSET Id PROVE Onward(r, opaque, A) \in SUBSET Id
  BY DEF Onward
<1>3. g \in [(SUBSET Id) \X (1 .. MaxId) -> SUBSET Id]
  BY <1>2
<1>4. PICK f : Walks(SUBSET Id, S, g, f, MaxId)
  <2> HIDE DEF g
  <2> QED
    BY <1>1, <1>3, WalkExists
<1>5. f \in [0 .. MaxId -> SUBSET Id] /\ f[0] = S
  BY <1>4 DEF Walks
<1>6. ASSUME NEW i \in 1 .. MaxId PROVE f[i] = Onward(r, opaque, f[i - 1])
  <2>1. f[i - 1] \in SUBSET Id /\ f[i] = g[<<f[i - 1], i>>]
    <3> HIDE DEF g
    <3>1. i - 1 \in 0 .. MaxId
      BY <1>1
    <3> QED
      BY <1>4, <1>5, <3>1 DEF Walks
  <2> QED
    BY <2>1
<1>7. IsFound(r, S, opaque, f)
  <2>1. ASSUME NEW n \in 0 .. MaxId
        PROVE  f[n] = IF n = 0 THEN S ELSE f[n - 1] \cup ({r[o] : o \in f[n - 1] \ opaque} \ {Nil})
    BY <1>1, <1>5, <1>6 DEF Onward
  <2> QED
    BY <1>5, <2>1 DEF IsFound
<1>8. Found(r, S, opaque) = CHOOSE e : IsFound(r, S, opaque, e)
  BY DEF Found, IsFound
<1>9. IsFound(r, S, opaque, Found(r, S, opaque))
  BY <1>7, <1>8
<1>10. PICK h : h = Found(r, S, opaque)
  OBVIOUS
<1>11. /\ DOMAIN h = 0 .. MaxId /\ h = [n \in 0 .. MaxId |-> h[n]] /\ h[0] = S
       /\ \A k \in 1 .. MaxId : h[k] = Onward(r, opaque, h[k - 1])
  <2>1. h = [n \in 0 .. MaxId |->
               IF n = 0 THEN S ELSE h[n - 1] \cup ({r[o] : o \in h[n - 1] \ opaque} \ {Nil})]
    BY <1>9, <1>10 DEF IsFound
  <2>2. DOMAIN h = 0 .. MaxId /\ h = [n \in 0 .. MaxId |-> h[n]]
    BY <2>1
  <2>3. 0 \in 0 .. MaxId /\ \A k \in 1 .. MaxId : k \in 0 .. MaxId /\ k # 0
    BY <1>1
  <2>4. \A k \in 1 .. MaxId : h[k] = Onward(r, opaque, h[k - 1])
    BY <2>1, <2>3 DEF Onward
  <2>5. h[0] = S
    BY <2>1, <2>3
  <2> QED
    BY <2>2, <2>4, <2>5
<1> DEFINE T == {k \in 0 .. MaxId : h[k] \in SUBSET Id}
<1>12. 0 .. MaxId \subseteq T
  <2>1. 0 \in T
    BY <1>1, <1>11
  <2>2. ASSUME NEW k \in 1 .. MaxId, k - 1 \in T PROVE k \in T
    BY <1>2, <1>11, <2>2
  <2> HIDE DEF T
  <2> QED
    BY <1>1, <2>1, <2>2, Upward
<1>13. \A k \in 0 .. MaxId : h[k] \in SUBSET Id
  BY <1>12
<1>14. h \in [0 .. MaxId -> SUBSET Id]
  BY <1>11, <1>13
<1> QED
  BY <1>10, <1>11, <1>14 DEF Rounds

(* There are more rounds than objects, so all that can be reached is found. *)
LEMMA FoundReach ==
  ASSUME NEW r \in [Id -> Id \cup {Nil}], NEW S \in SUBSET Id, NEW opaque
  PROVE  IsReach(r, S, opaque, Found(r, S, opaque)[MaxId])
<1>1. MaxId \in Nat
  BY SaveAssumption
<1>2. PICK f : f = Found(r, S, opaque)
  OBVIOUS
<1>3. /\ f \in [0 .. MaxId -> SUBSET Id] /\ f[0] = S
      /\ \A k \in 1 .. MaxId : f[k] = Onward(r, opaque, f[k - 1])
  <2>1. Rounds(r, S, opaque, f)
    BY <1>2, FoundIs
  <2> QED
    BY <2>1 DEF Rounds
<1>4. IsFiniteSet(Id) /\ Cardinality(Id) = MaxId
  BY <1>1, FS_Interval DEF Id
<1>5. \A k \in 0 .. MaxId : IsFiniteSet(f[k]) /\ Cardinality(f[k]) \in 0 .. MaxId
  BY <1>1, <1>3, <1>4, FS_Subset, FS_CardinalityType
<1>6. \A k \in 1 .. MaxId : k - 1 \in 0 .. MaxId /\ f[k - 1] \subseteq f[k]
  BY <1>1, <1>3 DEF Onward
<1>7. S \subseteq f[MaxId]
  <2> DEFINE T == {k \in 0 .. MaxId : S \subseteq f[k]}
  <2>1. 0 \in T
    BY <1>1, <1>3
  <2>2. ASSUME NEW k \in 1 .. MaxId, k - 1 \in T PROVE k \in T
    BY <1>6, <2>2
  <2>3. 0 .. MaxId \subseteq T
    <3> HIDE DEF T
    <3> QED
      BY <1>1, <2>1, <2>2, Upward
  <2> QED
    BY <1>1, <2>3
<1>8. ASSUME NEW C \in SUBSET Id, S \subseteq C, \A o \in C \ opaque : r[o] \in C \cup {Nil}
      PROVE  f[MaxId] \subseteq C
  <2> DEFINE T == {k \in 0 .. MaxId : f[k] \subseteq C}
  <2>1. 0 \in T
    BY <1>1, <1>3, <1>8
  <2>2. ASSUME NEW k \in 1 .. MaxId, k - 1 \in T PROVE k \in T
    BY <1>3, <1>8, <2>2 DEF Onward
  <2>3. 0 .. MaxId \subseteq T
    <3> HIDE DEF T
    <3> QED
      BY <1>1, <2>1, <2>2, Upward
  <2> QED
    BY <1>1, <2>3
<1>9. \A o \in f[MaxId] \ opaque : r[o] \in f[MaxId] \cup {Nil}
  <2>1. CASE \E k \in 1 .. MaxId : f[k] = f[k - 1]
    <3>1. PICK k \in 1 .. MaxId : f[k] = f[k - 1]
      BY <2>1
    <3> DEFINE T == {j \in 0 .. MaxId : j >= k - 1 => f[j] = f[k - 1]}
    <3>2. 0 \in T
      BY <1>1, <3>1
    <3>3. ASSUME NEW j \in 1 .. MaxId, j - 1 \in T PROVE j \in T
      <4>1. CASE j = k
        BY <3>1, <4>1
      <4>2. CASE j > k
        BY <1>3, <3>1, <3>3, <4>2
      <4>3. CASE j < k
        <5>1. j >= k - 1 => j = k - 1
          BY <4>3
        <5> QED
          BY <5>1
      <4> QED
        BY <4>1, <4>2, <4>3
    <3>4. 0 .. MaxId \subseteq T
      <4> HIDE DEF T
      <4> QED
        BY <1>1, <3>2, <3>3, Upward
    <3>5. f[MaxId] = f[k - 1] /\ f[k - 1] = Onward(r, opaque, f[k - 1])
      BY <1>1, <1>3, <3>1, <3>4
    <3> QED
      BY <3>5 DEF Onward
  <2>2. CASE S = {}
    <3>1. f[MaxId] \subseteq {}
      BY <1>8, <2>2
    <3> QED
      BY <3>1
  <2>3. CASE S # {} /\ \A k \in 1 .. MaxId : f[k] # f[k - 1]
    <3> DEFINE T == {k \in 0 .. MaxId : Cardinality(f[k]) >= k + 1}
    <3>1. 0 \in T
      <4>1. IsFiniteSet(S) /\ Cardinality(S) \in Nat /\ Cardinality(S) # 0
        BY <1>3, <1>4, <2>3, FS_EmptySet, FS_Subset, FS_CardinalityType
      <4> QED
        BY <1>1, <1>3, <4>1
    <3>2. ASSUME NEW k \in 1 .. MaxId, k - 1 \in T PROVE k \in T
      <4>1. /\ IsFiniteSet(f[k]) /\ f[k - 1] \in SUBSET f[k] /\ f[k] # f[k - 1]
            /\ Cardinality(f[k]) \in Nat /\ Cardinality(f[k - 1]) \in Nat
            /\ Cardinality(f[k - 1]) >= k
        BY <1>5, <1>6, <2>3, <3>2
      <4>2. Cardinality(f[k - 1]) <= Cardinality(f[k]) /\ Cardinality(f[k]) # Cardinality(f[k - 1])
        BY <4>1, FS_Subset
      <4> QED
        BY <4>1, <4>2
    <3>3. 0 .. MaxId \subseteq T
      <4> HIDE DEF T
      <4> QED
        BY <1>1, <3>1, <3>2, Upward
    <3>4. Cardinality(f[MaxId]) >= MaxId + 1 /\ Cardinality(f[MaxId]) \in 0 .. MaxId
      BY <1>1, <1>5, <3>3
    <3> QED
      BY <1>1, <3>4
  <2> QED
    BY <2>1, <2>2, <2>3
<1>10. f[MaxId] \subseteq Id
  BY <1>1, <1>3
<1> QED
  BY <1>2, <1>7, <1>8, <1>9, <1>10 DEF IsReach

\* The members of S up to k.
UpTo(S, k) == {p \in S : p <= k}
(* How many members of S there are up to k.                                *)
LEMMA RankGrows ==
  ASSUME NEW S \in SUBSET Id
  PROVE  /\ IsFiniteSet(S) /\ Cardinality(S) \in Nat /\ UpTo(S, 0) = {} /\ UpTo(S, MaxId) = S
         /\ \A k \in Nat : Cardinality(UpTo(S, k)) \in 0 .. Cardinality(S)
         /\ \A k \in Nat : k - 1 \in Nat =>
              Cardinality(UpTo(S, k)) = Cardinality(UpTo(S, k - 1)) + (IF k \in S THEN 1 ELSE 0)
         /\ \A k, m \in Nat : k <= m => Cardinality(UpTo(S, k)) <= Cardinality(UpTo(S, m))
<1>1. MaxId \in Nat /\ IsFiniteSet(Id) /\ \A p \in S : p \in Nat /\ 1 <= p /\ p <= MaxId
  BY SaveAssumption, FS_Interval DEF Id
<1>2. IsFiniteSet(S) /\ Cardinality(S) \in Nat
  BY <1>1, FS_Subset, FS_CardinalityType
<1>3. UpTo(S, 0) = {} /\ UpTo(S, MaxId) = S
  <2>1. \A p \in S : ~(p <= 0) /\ p <= MaxId
    BY <1>1
  <2> QED
    BY <2>1 DEF UpTo
<1>4. \A k : IsFiniteSet(UpTo(S, k)) /\ Cardinality(UpTo(S, k)) \in 0 .. Cardinality(S)
  <2>1. \A k : UpTo(S, k) \in SUBSET S
    BY DEF UpTo
  <2> QED
    BY <1>2, <2>1, FS_Subset, FS_CardinalityType
<1>5. ASSUME NEW k \in Nat, k - 1 \in Nat
      PROVE  Cardinality(UpTo(S, k)) = Cardinality(UpTo(S, k - 1)) + (IF k \in S THEN 1 ELSE 0)
  <2>1. CASE k \in S
    <3>1. UpTo(S, k) = UpTo(S, k - 1) \cup {k} /\ k \notin UpTo(S, k - 1)
      <4>1. \A p \in S : p <= k <=> (p <= k - 1 \/ p = k)
        BY <1>1, <1>5
      <4>2. ~(k <= k - 1)
        BY <1>5
      <4> QED
        BY <2>1, <4>1, <4>2 DEF UpTo
    <3> QED
      BY <1>4, <2>1, <3>1, FS_AddElement
  <2>2. CASE k \notin S
    <3>1. UpTo(S, k) = UpTo(S, k - 1)
      <4>1. \A p \in S : p <= k <=> (p <= k - 1 \/ p = k)
        BY <1>1, <1>5
      <4> QED
        BY <2>2, <4>1 DEF UpTo
    <3> QED
      BY <1>4, <2>2, <3>1
  <2> QED
    BY <2>1, <2>2
<1>6. ASSUME NEW k \in Nat, NEW m \in Nat, k <= m
      PROVE  Cardinality(UpTo(S, k)) <= Cardinality(UpTo(S, m))
  <2>1. UpTo(S, k) \in SUBSET UpTo(S, m)
    <3>1. \A p \in S : p <= k => p <= m
      BY <1>1, <1>6
    <3> QED
      BY <3>1 DEF UpTo
  <2> QED
    BY <1>4, <2>1, FS_Subset
<1> QED
  BY <1>2, <1>3, <1>4, <1>5, <1>6

\* s has the members of S, each once.
Lists(s, S) ==
  /\ s \in Seq(S) /\ Len(s) = Cardinality(S)
  /\ \A o \in S : \E i \in 1 .. Len(s) : s[i] = o
  /\ \A i, j \in 1 .. Len(s) : s[i] = s[j] => i = j
(* A list of IDs in order.                                                 *)
LEMMA AscendingIs ==
  ASSUME NEW S \in SUBSET Id
  PROVE  /\ Lists(Ascending(S), S)
         /\ \A i, j \in 1 .. Len(Ascending(S)) : i < j => Ascending(S)[i] < Ascending(S)[j]
<1> DEFINE Rank(o) == Cardinality({p \in S : p <= o})
           c == Cardinality(S)
<1>1. MaxId \in Nat /\ c \in Nat
  BY RankGrows, SaveAssumption
<1>2. \A o \in S : o \in Nat /\ o - 1 \in Nat /\ Rank(o) = Cardinality(UpTo(S, o)) /\ Rank(o) \in 1 .. c
  <2>1. ASSUME NEW o \in S
        PROVE  o \in Nat /\ o - 1 \in Nat /\ Rank(o) = Cardinality(UpTo(S, o)) /\ Rank(o) \in 1 .. c
    <3>1. o \in Nat /\ o - 1 \in Nat /\ Rank(o) = Cardinality(UpTo(S, o))
      BY <1>1 DEF Id, UpTo
    <3>2. /\ Cardinality(UpTo(S, o)) = Cardinality(UpTo(S, o - 1)) + 1
          /\ Cardinality(UpTo(S, o - 1)) \in 0 .. c /\ Cardinality(UpTo(S, o)) \in 0 .. c
      BY <3>1, RankGrows
    <3> QED
      BY <1>1, <3>1, <3>2
  <2> QED
    BY <2>1
<1>3. ASSUME NEW o \in S, NEW p \in S, o < p PROVE Rank(o) < Rank(p)
  <2>1. Cardinality(UpTo(S, p)) = Cardinality(UpTo(S, p - 1)) + 1
    <3>1. p \in Nat /\ p - 1 \in Nat
      BY <1>2
    <3> QED
      BY <3>1, RankGrows
  <2>2. /\ Cardinality(UpTo(S, o)) <= Cardinality(UpTo(S, p - 1))
        /\ Cardinality(UpTo(S, o)) \in Nat /\ Cardinality(UpTo(S, p - 1)) \in Nat
    <3>1. o \in Nat /\ p - 1 \in Nat /\ o <= p - 1
      <4>1. o \in Nat /\ p \in Nat /\ p - 1 \in Nat
        BY <1>2
      <4> QED
        BY <1>3, <4>1
    <3>2. Cardinality(UpTo(S, o)) <= Cardinality(UpTo(S, p - 1))
      BY <3>1, RankGrows
    <3>3. Cardinality(UpTo(S, o)) \in 0 .. c /\ Cardinality(UpTo(S, p - 1)) \in 0 .. c
      BY <3>1, RankGrows
    <3> QED
      BY <1>1, <3>2, <3>3
  <2>3. Rank(o) = Cardinality(UpTo(S, o)) /\ Rank(p) = Cardinality(UpTo(S, p))
    BY <1>2
  <2> HIDE DEF Rank
  <2> QED
    BY <2>1, <2>2, <2>3
<1>4. ASSUME NEW i \in 1 .. c PROVE \E o \in S : Rank(o) = i
  <2> DEFINE T == {k \in 0 .. MaxId :
                     \A j \in 1 .. Cardinality(UpTo(S, k)) :
                       \E o \in S : Cardinality(UpTo(S, o)) = j}
  <2>1. 0 \in T
    <3>1. Cardinality(UpTo(S, 0)) = 0
      BY RankGrows, FS_EmptySet
    <3> QED
      BY <1>1, <3>1
  <2>2. ASSUME NEW k \in 1 .. MaxId, k - 1 \in T PROVE k \in T
    <3>1. /\ Cardinality(UpTo(S, k)) = Cardinality(UpTo(S, k - 1)) + (IF k \in S THEN 1 ELSE 0)
          /\ Cardinality(UpTo(S, k - 1)) \in 0 .. c /\ k \in Nat
      BY <1>1, RankGrows
    <3>2. ASSUME NEW j \in 1 .. Cardinality(UpTo(S, k))
          PROVE  \E o \in S : Cardinality(UpTo(S, o)) = j
      <4>1. CASE j \in 1 .. Cardinality(UpTo(S, k - 1))
        BY <2>2, <4>1
      <4>2. CASE ~(j \in 1 .. Cardinality(UpTo(S, k - 1)))
        <5>1. k \in S /\ j = Cardinality(UpTo(S, k))
          BY <1>1, <3>1, <3>2, <4>2
        <5> QED
          BY <5>1
      <4> QED
        BY <4>1, <4>2
    <3> QED
      BY <3>2
  <2>3. 0 .. MaxId \subseteq T
    <3> HIDE DEF T
    <3> QED
      BY <1>1, <2>1, <2>2, Upward
  <2>4. MaxId \in T /\ UpTo(S, MaxId) = S
    BY <1>1, <2>3, RankGrows
  <2>5. PICK o \in S : Cardinality(UpTo(S, o)) = i
    BY <2>4
  <2> QED
    BY <1>2, <2>5
<1>5. PICK s : s = Ascending(S)
  OBVIOUS
<1>6. s = [i \in 1 .. c |-> CHOOSE o \in S : Rank(o) = i]
  BY <1>5 DEF Ascending
<1>7. \A i \in 1 .. c : s[i] \in S /\ Rank(s[i]) = i
  <2> HIDE DEF Rank, c
  <2> QED
    BY <1>4, <1>6
<1>8. s \in [1 .. c -> S]
  BY <1>6, <1>7
<1>9. s \in Seq(S) /\ Len(s) = c
  <2> HIDE DEF c
  <2> QED
    BY <1>1, <1>8, FcnIsSeq
<1>10. \A o, p \in S : Rank(o) = Rank(p) => o = p
  <2>1. ASSUME NEW o \in S, NEW p \in S, Rank(o) = Rank(p), o # p PROVE FALSE
    <3>1. o < p \/ p < o
      BY <1>2, <2>1
    <3>2. Rank(o) \in Nat /\ Rank(p) \in Nat
      BY <1>2
    <3>3. ~(Rank(o) < Rank(p)) /\ ~(Rank(p) < Rank(o))
      BY <2>1, <3>2
    <3> QED
      BY <1>3, <3>1, <3>3
  <2> QED
    BY <2>1
<1>11. \A o \in S : \E i \in 1 .. c : s[i] = o
  <2>1. ASSUME NEW o \in S PROVE s[Rank(o)] = o
    <3>1. Rank(o) \in 1 .. c
      BY <1>2
    <3> HIDE DEF Rank
    <3> QED
      BY <1>7, <1>10, <3>1
  <2> QED
    BY <1>2, <2>1
<1>12. \A i, j \in 1 .. c : s[i] = s[j] => i = j
  BY <1>7
<1>13. ASSUME NEW i \in 1 .. c, NEW j \in 1 .. c, i < j PROVE s[i] < s[j]
  <2>1. s[i] \in S /\ s[j] \in S /\ s[i] # s[j] /\ ~(Rank(s[j]) < Rank(s[i]))
    BY <1>1, <1>7, <1>13
  <2>2. s[i] < s[j] \/ s[j] < s[i]
    BY <1>2, <2>1
  <2> QED
    BY <1>3, <2>1, <2>2
<1> QED
  BY <1>5, <1>9, <1>11, <1>12, <1>13 DEF Lists

(* And against it.                                                         *)
LEMMA DescendingIs ==
  ASSUME NEW S \in SUBSET Id
  PROVE  Lists(Descending(S), S)
<1>1. PICK c, s, d : c = Cardinality(S) /\ s = Ascending(S) /\ d = Descending(S)
  OBVIOUS
<1>2. /\ s \in Seq(S) /\ Len(s) = c /\ c \in Nat
      /\ \A o \in S : \E i \in 1 .. c : s[i] = o
      /\ \A i, j \in 1 .. c : s[i] = s[j] => i = j
  <2>1. Lists(s, S) /\ c \in Nat
    BY <1>1, AscendingIs, RankGrows
  <2> QED
    BY <1>1, <2>1 DEF Lists
<1>3. d = [i \in 1 .. c |-> s[c + 1 - i]]
  BY <1>1 DEF Descending
<1>4. \A i \in 1 .. c : c + 1 - i \in 1 .. c /\ s[c + 1 - i] \in S
  BY <1>2, ElementOfSeq
<1>5. d \in [1 .. c -> S]
  BY <1>3, <1>4
<1>6. d \in Seq(S) /\ Len(d) = c
  BY <1>2, <1>5, FcnIsSeq
<1>7. ASSUME NEW o \in S PROVE \E i \in 1 .. c : d[i] = o
  <2>1. PICK j \in 1 .. c : s[j] = o
    BY <1>2
  <2>2. c + 1 - j \in 1 .. c /\ c + 1 - (c + 1 - j) = j
    BY <1>2
  <2> QED
    BY <1>3, <2>1, <2>2
<1>8. ASSUME NEW i \in 1 .. c, NEW j \in 1 .. c, d[i] = d[j] PROVE i = j
  <2>1. c + 1 - i = c + 1 - j
    BY <1>2, <1>3, <1>4, <1>8
  <2> QED
    BY <1>2, <2>1
<1> QED
  BY <1>1, <1>6, <1>7, <1>8 DEF Lists

------------------------------------------------------------------------------
(* The inductive invariant.                                                *)

\* What the run save_restore, and all theorems but the lemmas on operators, assume:
\* the program saves only while the weak references that are saved lead to persistent
\* objects or to garbage.  The runs save_weak and save_words do without.
SavesInTime == SaveAnytime = FALSE

Ref == Id \cup {Nil}
TocEntries == [id : Id \ Root, transient : BOOLEAN]
Records == [id : Id, kind : Kinds, ref : Ref, weak : Ref, stray : BOOLEAN]

\* A saved game: closed under its references, all of it reachable from root objects.
GoodGame(g) ==
  /\ DOMAIN g.kind \subseteq Id /\ DOMAIN g.kind \cap Root = Root \ TransientRoot
  /\ DOMAIN g.ref = DOMAIN g.kind /\ DOMAIN g.weak = DOMAIN g.kind
  /\ \A o \in DOMAIN g.kind :
       /\ g.kind[o] \in Kinds /\ (o \in Root => g.kind[o] = RootKind[o])
       /\ g.ref[o] \in DOMAIN g.kind \cup Root \cup {Nil}
       /\ g.weak[o] \in DOMAIN g.kind \cup {Nil}
  /\ \A C \in SUBSET Id :
       /\ Root \subseteq C
       /\ \A o \in C \cap DOMAIN g.kind : g.ref[o] \in C \cup {Nil}
       => DOMAIN g.kind \subseteq C

\* Its table of contents: the dynamic objects in order, and transient ones.
GoodToc(c, g) ==
  /\ c \in Seq(TocEntries)
  /\ \A i, j \in 1 .. Len(c) : i < j => c[i].id < c[j].id
  /\ \A i \in 1 .. Len(c) : ~c[i].transient <=> c[i].id \in DOMAIN g.kind
  /\ \A o \in DOMAIN g.kind \ Root : \E i \in 1 .. Len(c) : c[i].id = o

\* A record says what its object is in the game, but for a reference to a transient
\* object.
GoodRecord(r, c, g) ==
  /\ r \in Records /\ ~r.stray /\ r.id \in DOMAIN g.kind
  /\ r.kind = g.kind[r.id] /\ r.weak = g.weak[r.id]
  /\ \/ r.ref = g.ref[r.id]
     \/ /\ g.ref[r.id] = Nil
        /\ \E i \in 1 .. Len(c) : c[i].id = r.ref /\ c[i].transient

\* An object without a record is a root object as it is in the image file.
GoodObjs(f) ==
  /\ f.objs \in Seq(Records)
  /\ \A i \in 1 .. Len(f.objs) : GoodRecord(f.objs[i], f.toc, f.game)
  /\ \A o \in DOMAIN f.game.kind :
       (\A i \in 1 .. Len(f.objs) : f.objs[i].id # o)
       => o \in Root /\ f.game.ref[o] = ImageRef[o] /\ f.game.weak[o] = Nil

FileOK == GoodGame(file.game) /\ GoodToc(file.toc, file.game) /\ GoodObjs(file)

\* Root objects are what they were, unless they have changed; free entries hold nothing,
\* and nothing refers to them.
TableOK ==
  /\ kind \in [Id -> Kinds \cup {"free"}] /\ \A o \in Root : kind[o] = RootKind[o]
  /\ free \in Seq(Id) /\ {free[i] : i \in 1 .. Len(free)} = Id \ Live
  /\ \A i, j \in 1 .. Len(free) : free[i] = free[j] => i = j
  /\ trans \subseteq Live /\ trans \cap Root = TransientRoot
  /\ stack \subseteq Live /\ changed \subseteq Root
  /\ ref \in [Id -> Ref] /\ weak \in [Id -> Ref]
  /\ \A o \in Id : ref[o] \in Live \cup {Nil} /\ weak[o] \in Live \cup {Nil}
  /\ \A o \in Id \ Live : ref[o] = Nil /\ weak[o] = Nil
  /\ \A o \in Root \ changed : ref[o] = ImageRef[o] /\ weak[o] = Nil

\* Objects that are not initialized and have not asked for it.
Forgotten == {o \in Live : kind[o] \in Initialized} \ (reg \cup ready)

Phases == {"run", "toc", "read", "init", "compare"}
Initializing == pc \in {"init", "compare"}

\* Who has been initialized, and who is waiting for it.
InitsOK ==
  /\ reg \subseteq Live /\ ready \subseteq Live /\ walked \subseteq Id
  /\ status \in [Id -> {"uninited", "progress", "inited"}]
  /\ inits \in [Id -> {0, 1}]
  /\ calls \in Seq(Id) /\ \A i \in 1 .. Len(calls) : calls[i] \in reg
  /\ \A i, j \in 1 .. Len(calls) : calls[i] = calls[j] => i = j
  /\ ~Initializing => calls = <<>>
  /\ pc = "run" /\ ~failed => reg \subseteq ready
  /\ pc \in {"run", "init", "compare"} => Forgotten = {}
  /\ Initializing =>
       /\ walked = {} => calls = <<>>
       /\ \A o \in reg :
            /\ status[o] = "progress" <=> \E i \in 1 .. Len(calls) : calls[i] = o
            /\ status[o] = "inited" => o \in ready
            /\ status[o] = "uninited" => inits[o] = 0 /\ o \notin walked
  /\ pc = "compare" => calls # <<>> /\ kind[Current] = "dict" /\ Satisfied(Current)

\* The new IDs given out so far.
FixupsOK ==
  /\ fixups \in Seq(Id \X Ref) /\ Len(fixups) <= Len(file.toc)
  /\ \A i \in 1 .. Len(fixups) :
       /\ fixups[i][1] = file.toc[i].id
       /\ IF file.toc[i].transient THEN fixups[i][2] = Nil
          ELSE fixups[i][2] \in Dynamic \ trans
  /\ \A i, j \in 1 .. Len(fixups) : fixups[i][2] = fixups[j][2] /\ fixups[i][2] # Nil => i = j

NewIds == {fixups[i][2] : i \in 1 .. Len(fixups)}
Unread == {todo[i].id : i \in 1 .. Len(todo)}

\* The object that was o when the game was saved is as it was.
Rebuilt(o) ==
  LET n == GetNewId(o)
      g == file.game
  IN /\ kind[n] = g.kind[o] /\ ref[n] = GetNewId(g.ref[o]) /\ weak[n] = GetNewId(g.weak[o])

\* How far a restore has come.
LoadOK ==
  /\ pc \in Phases /\ gc_on \in BOOLEAN /\ failed \in BOOLEAN
  /\ pc = "run" => gc_on
  /\ pc \in {"toc", "read"} =>
       /\ ~gc_on /\ target = file.game /\ FixupsOK /\ \A o \in Id : inits[o] = 0
  /\ pc = "toc" =>
       /\ todo \in Seq(TocEntries) /\ Len(fixups) + Len(todo) = Len(file.toc)
       /\ \A i \in 1 .. Len(todo) : todo[i] = file.toc[Len(fixups) + i]
       /\ \A o \in Root \ TransientRoot : ref[o] = ImageRef[o] /\ weak[o] = Nil
       /\ Forgotten \subseteq NewIds
  /\ pc = "read" =>
       /\ Len(fixups) = Len(file.toc) /\ todo \in Seq(Records)
       /\ \A i \in 1 .. Len(todo) : \E j \in 1 .. Len(file.objs) : todo[i] = file.objs[j]
       /\ \A o \in DOMAIN file.game.kind \ Unread : Rebuilt(o)
       /\ Forgotten \subseteq {GetNewId(o) : o \in Unread}

IInv == FileOK /\ TableOK /\ InitsOK /\ LoadOK /\ RestoredGame

------------------------------------------------------------------------------
(* What is reached, and what is garbage.                                   *)

(* What the assumptions say of the constants.                              *)
LEMMA ConstantsAre ==
  /\ MaxId \in Nat /\ IsFiniteSet(Id) /\ Root \subseteq Id /\ IsFiniteSet(Root)
  /\ Nil \notin Id /\ Nil \notin Root /\ "free" \notin Kinds /\ Initialized \subseteq Kinds
  /\ RootKind \in [Root -> Kinds] /\ ImageRef \in [Root -> Root \cup {Nil}]
  /\ TransientRoot \subseteq Root /\ "tads" \in Kinds /\ "tads" \in Initialized
  /\ "table" \notin Initialized
<1>1. MaxId \in Nat /\ RootKind \in Seq(Kinds) /\ Len(RootKind) <= MaxId
  BY SaveAssumption
<1>2. RootKind \in [Root -> Kinds] /\ Root = 1 .. Len(RootKind) /\ Len(RootKind) \in Nat
  BY <1>1, LenProperties DEF Root
<1>3. Root \subseteq Id
  BY <1>1, <1>2 DEF Id
<1>4. IsFiniteSet(Id)
  BY <1>1, FS_Interval DEF Id
<1>5. IsFiniteSet(Root)
  BY <1>3, <1>4, FS_Subset
<1>6. Nil \notin Id /\ Nil \notin Root
  BY <1>3 DEF Id, Nil
<1> QED
  BY <1>1, <1>2, <1>3, <1>4, <1>5, <1>6, SaveAssumption DEF Kinds, Initialized

(* What the types say of an entry.                                         *)
LEMMA EntryIs ==
  ASSUME TableOK
  PROVE  /\ Live \subseteq Id /\ Root \subseteq Live /\ trans \subseteq Live
         /\ \A o \in Id : kind[o] \in Kinds \cup {"free"} /\ (o \in Live <=> kind[o] # "free")
         /\ \A o \in Id : o \in Live <=> kind[o] \in Kinds
<1>1. \A o \in Root : o \in Id /\ kind[o] \in Kinds
  BY ConstantsAre DEF TableOK
<1> QED
  BY <1>1, ConstantsAre DEF TableOK, Live

(* Only objects that exist are reached from such objects.                  *)
LEMMA ReachIs ==
  ASSUME TableOK, NEW S \in SUBSET Live, NEW opaque
  PROVE  IsReach(ref, S, opaque, Reach(S, opaque)) /\ Reach(S, opaque) \subseteq Live
<1>1. ref \in [Id -> Id \cup {Nil}] /\ Live \in SUBSET Id /\ S \in SUBSET Id
  BY DEF TableOK, Ref, Live
<1>2. IsReach(ref, S, opaque, Reach(S, opaque))
  BY <1>1, FoundReach DEF Reach
<1>3. \A o \in Live : ref[o] \in Live \cup {Nil}
  BY <1>1 DEF TableOK
<1> QED
  BY <1>1, <1>2, <1>3 DEF IsReach

(* What is reached depends only on the references of what is reached.      *)
LEMMA ReachAgrees ==
  ASSUME NEW r, NEW q, NEW S, NEW a, NEW b, NEW T, NEW U,
         IsReach(r, S, a, T), IsReach(q, S, b, U),
         \A o \in T : q[o] = r[o], T \cap b = T \cap a
  PROVE  U = T
<1>1. U \subseteq T
  <2>1. \A o \in T \ b : q[o] \in T \cup {Nil}
    BY DEF IsReach
  <2> QED
    BY <2>1 DEF IsReach
<1>2. T \subseteq U
  <2>1. \A o \in U \ a : r[o] \in U \cup {Nil}
    BY <1>1 DEF IsReach
  <2> QED
    BY <2>1 DEF IsReach
<1> QED
  BY <1>1, <1>2

(* What a save traces.                                                     *)
LEMMA TracedIs ==
  ASSUME TableOK
  PROVE  /\ IsReach(ref, Root, trans, Traced) /\ Traced \subseteq Live
         /\ Persistent \subseteq Traced /\ Persistent \cap trans = {}
         /\ Persistent \cap Root = Root \ TransientRoot
         /\ \A o \in Persistent : ref[o] \in Traced \cup {Nil}
<1>1. IsReach(ref, Root, trans, Traced) /\ Traced \subseteq Live
  BY EntryIs, ReachIs DEF Traced
<1>2. Root \subseteq Traced /\ \A o \in Traced \ trans : ref[o] \in Traced \cup {Nil}
  BY <1>1 DEF IsReach
<1> QED
  BY <1>1, <1>2 DEF Persistent, TableOK

(* Garbage is what nothing else refers to.                                 *)
LEMMA GarbageIs ==
  ASSUME TableOK, InitsOK
  PROVE  /\ Garbage \subseteq Live /\ Garbage \cap (Root \cup stack) = {}
         /\ \A i \in 1 .. Len(calls) : calls[i] \in Live \ Garbage
         /\ \A o \in Live \ Garbage : ref[o] \in (Live \ Garbage) \cup {Nil}
         /\ Traced \subseteq Live \ Garbage
<1>1. /\ calls \in Seq(Id) /\ Len(calls) \in Nat /\ DOMAIN calls = 1 .. Len(calls)
      /\ \A i \in 1 .. Len(calls) : calls[i] \in Live
  BY LenProperties DEF InitsOK
<1>2. Roots \in SUBSET Live /\ Root \subseteq Roots /\ stack \subseteq Roots
      /\ \A i \in 1 .. Len(calls) : calls[i] \in Roots
  <2>1. Roots = Root \cup stack \cup {calls[i] : i \in 1 .. Len(calls)}
    BY <1>1 DEF Roots
  <2>2. Root \subseteq Live /\ stack \subseteq Live
    BY EntryIs DEF TableOK
  <2> QED
    BY <1>1, <2>1, <2>2
<1>3. PICK L : L = Reach(Roots, {})
  OBVIOUS
<1>4. IsReach(ref, Roots, {}, L) /\ L \subseteq Live
  BY <1>2, <1>3, ReachIs
<1>5. Roots \subseteq L /\ \A o \in L : ref[o] \in L \cup {Nil}
  BY <1>4 DEF IsReach
<1>6. Garbage = Live \ L /\ Live \ Garbage = L
  BY <1>3, <1>4 DEF Garbage
<1>7. Traced \subseteq L
  <2>1. L \in SUBSET Id /\ Root \subseteq L /\ \A o \in L \ trans : ref[o] \in L \cup {Nil}
    BY <1>2, <1>4, <1>5, EntryIs
  <2>2. IsReach(ref, Root, trans, Traced)
    BY TracedIs
  <2> QED
    BY <2>1, <2>2 DEF IsReach
<1> QED
  BY <1>2, <1>4, <1>5, <1>6, <1>7

\* The entries after a collection.
EntriesCollected ==
  /\ kind' = [o \in Id |-> IF o \in Garbage THEN "free" ELSE kind[o]]
  /\ free' = Descending(Garbage) \o free
  /\ trans' = trans \ Garbage
(* The entries a collection leaves.                                        *)
LEMMA CollectedEntries ==
  ASSUME TableOK, InitsOK, EntriesCollected
  PROVE  /\ kind' \in [Id -> Kinds \cup {"free"}] /\ \A o \in Root : kind'[o] = RootKind[o]
         /\ free' \in Seq(Id) /\ {free'[i] : i \in 1 .. Len(free')} = Id \ Live'
         /\ \A i, j \in 1 .. Len(free') : free'[i] = free'[j] => i = j
         /\ trans' \subseteq Live' /\ trans' \cap Root = TransientRoot
         /\ Live' = Live \ Garbage /\ \A o \in Live' : kind'[o] = kind[o]
<1>1. /\ Live \subseteq Id /\ Root \subseteq Live /\ trans \subseteq Live
      /\ Garbage \subseteq Live /\ Garbage \cap Root = {}
  BY EntryIs, GarbageIs
<1>2. /\ kind' \in [Id -> Kinds \cup {"free"}] /\ \A o \in Root : kind'[o] = RootKind[o]
      /\ \A o \in Id : kind'[o] = IF o \in Garbage THEN "free" ELSE kind[o]
  BY <1>1 DEF EntriesCollected, TableOK
<1>3. Live' = Live \ Garbage /\ \A o \in Live' : kind'[o] = kind[o]
  BY <1>1, <1>2 DEF Live
<1>4. PICK d, n, m : d = Descending(Garbage) /\ n = Len(d) /\ m = Len(free)
  OBVIOUS
<1>5. /\ d \in Seq(Garbage) /\ n \in Nat /\ \A o \in Garbage : \E i \in 1 .. n : d[i] = o
      /\ \A i, j \in 1 .. n : d[i] = d[j] => i = j
      /\ \A i \in 1 .. n : d[i] \in Garbage
  <2>1. Lists(d, Garbage) /\ Garbage \in SUBSET Id
    BY <1>1, <1>4, DescendingIs
  <2> QED
    BY <1>4, <2>1, LenProperties, ElementOfSeq DEF Lists
<1>6. /\ free \in Seq(Id) /\ m \in Nat /\ {free[i] : i \in 1 .. m} = Id \ Live
      /\ \A i, j \in 1 .. m : free[i] = free[j] => i = j
  BY <1>4, LenProperties DEF TableOK
<1>7. /\ free' \in Seq(Id) /\ Len(free') = n + m
      /\ \A i \in 1 .. n + m : free'[i] = IF i <= n THEN d[i] ELSE free[i - n]
  <2>1. d \in Seq(Id)
    BY <1>1, <1>5, SeqMonotonic
  <2> QED
    BY <1>4, <1>6, <2>1, ConcatProperties DEF EntriesCollected
<1>8. \A i \in 1 .. n + m : IF i <= n THEN i \in 1 .. n ELSE i - n \in 1 .. m
  BY <1>5, <1>6
<1>9. \A i \in 1 .. n + m : IF i <= n THEN free'[i] \in Garbage ELSE free'[i] \in Id \ Live
  BY <1>5, <1>6, <1>7, <1>8
<1>10. ASSUME NEW i \in 1 .. n + m, NEW j \in 1 .. n + m, free'[i] = free'[j] PROVE i = j
  <2>1. (i <= n) = (j <= n)
    BY <1>1, <1>9, <1>10
  <2>2. CASE i <= n
    BY <1>5, <1>7, <1>8, <1>10, <2>1, <2>2
  <2>3. CASE ~(i <= n)
    <3>1. i - n \in 1 .. m /\ j - n \in 1 .. m /\ free[i - n] = free[j - n]
      BY <1>7, <1>8, <1>10, <2>1, <2>3
    <3>2. i - n = j - n
      BY <1>6, <3>1
    <3> QED
      BY <1>5, <3>2
  <2> QED
    BY <2>2, <2>3
<1>11. {free'[i] : i \in 1 .. n + m} = Id \ Live'
  <2>1. ASSUME NEW i \in 1 .. n + m PROVE free'[i] \in Id \ Live'
    BY <1>1, <1>3, <1>9
  <2>2. ASSUME NEW o \in Id \ Live' PROVE \E i \in 1 .. n + m : free'[i] = o
    <3>1. CASE o \in Garbage
      <4>1. PICK i \in 1 .. n : d[i] = o
        BY <1>5, <3>1
      <4>2. i \in 1 .. n + m /\ i <= n
        BY <1>5, <1>6
      <4> QED
        BY <1>7, <4>1, <4>2
    <3>2. CASE o \notin Garbage
      <4>1. o \in Id \ Live
        BY <1>3, <2>2, <3>2
      <4>2. PICK i \in 1 .. m : free[i] = o
        BY <1>6, <4>1
      <4>3. PICK k : k = n + i
        OBVIOUS
      <4>4. n \in Nat /\ m \in Nat /\ i \in 1 .. m
        BY <1>5, <1>6
      <4>5. k \in 1 .. n + m /\ ~(k <= n) /\ k - n = i
        BY <4>3, <4>4
      <4>6. free'[k] = free[k - n]
        BY <1>7, <4>5
      <4> QED
        BY <4>2, <4>5, <4>6
    <3> QED
      BY <3>1, <3>2
  <2> QED
    BY <2>1, <2>2
<1>12. trans' \subseteq Live' /\ trans' \cap Root = TransientRoot
  BY <1>1, <1>3 DEF EntriesCollected, TableOK
<1> QED
  BY <1>2, <1>3, <1>7, <1>10, <1>11, <1>12

(* A collection leaves a good table, and the game the same.                *)
LEMMA Collected ==
  ASSUME TableOK, InitsOK, GcFull, UNCHANGED <<stack, changed>>
  PROVE  /\ TableOK' /\ Live' = Live \ Garbage /\ Persistent' = Persistent /\ Game' = Game
         /\ \A o \in Live' : kind'[o] = kind[o] /\ ref'[o] = ref[o]
         /\ reg' = reg \ Garbage /\ ready' = ready \ Garbage /\ Forgotten' \subseteq Forgotten
         /\ Lasting' = Lasting
         /\ \A o \in Live' : weak'[o] = IF weak[o] \in Garbage THEN Nil ELSE weak[o]
<1>1. /\ EntriesCollected
      /\ ref' = [o \in Id |-> IF o \in Garbage THEN Nil ELSE ref[o]]
      /\ weak' = [o \in Id |-> IF o \in Garbage \/ weak[o] \in Garbage THEN Nil ELSE weak[o]]
      /\ reg' = reg \ Garbage /\ ready' = ready \ Garbage
  BY DEF GcFull, DeleteEntries, EntriesCollected, Kept
<1>2. /\ kind' \in [Id -> Kinds \cup {"free"}] /\ \A o \in Root : kind'[o] = RootKind[o]
      /\ free' \in Seq(Id) /\ {free'[i] : i \in 1 .. Len(free')} = Id \ Live'
      /\ \A i, j \in 1 .. Len(free') : free'[i] = free'[j] => i = j
      /\ trans' \subseteq Live' /\ trans' \cap Root = TransientRoot
      /\ Live' = Live \ Garbage /\ \A o \in Live' : kind'[o] = kind[o]
  BY <1>1, CollectedEntries
<1>3. /\ Live \subseteq Id /\ Root \subseteq Live /\ Garbage \subseteq Live
      /\ Garbage \cap (Root \cup stack) = {} /\ Traced \subseteq Live \ Garbage
      /\ \A o \in Live \ Garbage : ref[o] \in (Live \ Garbage) \cup {Nil}
  BY EntryIs, GarbageIs
<1>4. /\ ref \in [Id -> Ref] /\ weak \in [Id -> Ref] /\ Nil \notin Id
      /\ \A o \in Id : ref[o] \in Live \cup {Nil} /\ weak[o] \in Live \cup {Nil}
      /\ \A o \in Id \ Live : ref[o] = Nil /\ weak[o] = Nil
      /\ \A o \in Root \ changed : ref[o] = ImageRef[o] /\ weak[o] = Nil
  BY ConstantsAre DEF TableOK
<1>5. /\ \A o \in Id : /\ ref'[o] = IF o \in Garbage THEN Nil ELSE ref[o]
                       /\ weak'[o] = IF o \in Garbage \/ weak[o] \in Garbage THEN Nil ELSE weak[o]
  BY <1>1
<1>6. ref' \in [Id -> Ref] /\ weak' \in [Id -> Ref]
  BY <1>1, <1>4 DEF Ref
<1>7. ASSUME NEW o \in Id
      PROVE  ref'[o] \in Live' \cup {Nil} /\ weak'[o] \in Live' \cup {Nil}
  <2>1. CASE o \in Live \ Garbage
    BY <1>2, <1>3, <1>4, <1>5, <2>1
  <2>2. CASE o \notin Live \ Garbage
    BY <1>2, <1>4, <1>5, <2>2
  <2> QED
    BY <2>1, <2>2
<1>8. \A o \in Id \ Live' : ref'[o] = Nil /\ weak'[o] = Nil
  BY <1>2, <1>4, <1>5
<1>9. \A o \in Root \ changed' : ref'[o] = ImageRef[o] /\ weak'[o] = Nil
  BY <1>3, <1>4, <1>5
<1>10. TableOK'
  <2>1. stack' \subseteq Live' /\ changed' \subseteq Root
    BY <1>2, <1>3 DEF TableOK
  <2> QED
    BY <1>2, <1>6, <1>7, <1>8, <1>9, <2>1 DEF TableOK
<1>11. Traced' = Traced
  <2>1. IsReach(ref, Root, trans, Traced)
    BY TracedIs
  <2>2. IsReach(ref', Root, trans', Traced')
    BY <1>3, <1>6, FoundReach DEF Traced, Reach, Ref
  <2>3. /\ \A o \in Traced : ref'[o] = ref[o]
        /\ Traced \cap trans' = Traced \cap trans
    BY <1>1, <1>3, <1>5 DEF EntriesCollected
  <2> QED
    BY <2>1, <2>2, <2>3, ReachAgrees
<1>12. Persistent' = Persistent /\ Lasting' = Lasting
  BY <1>1, <1>3, <1>11 DEF Persistent, Lasting, EntriesCollected
<1>13. Persistent \subseteq Live' /\ Garbage \cap (Persistent \cup Root) = {}
  BY <1>2, <1>3, TracedIs
<1>14. \A o \in Live' : /\ o \in Id /\ kind'[o] = kind[o] /\ ref'[o] = ref[o]
                        /\ weak'[o] = IF weak[o] \in Garbage THEN Nil ELSE weak[o]
  BY <1>2, <1>3, <1>5
<1>15. Game' = Game
  <2>1. \A o \in Persistent : /\ kind'[o] = kind[o] /\ ref'[o] = ref[o]
                              /\ weak'[o] = IF weak[o] \in Garbage THEN Nil ELSE weak[o]
    BY <1>13, <1>14
  <2>2. \A o \in Persistent : (IF Lasts(o, weak[o])' THEN weak'[o] ELSE Nil)
                              = (IF Lasts(o, weak[o]) THEN weak[o] ELSE Nil)
    BY <1>12, <1>13, <2>1 DEF Lasts
  <2>3. /\ [o \in Persistent |-> kind'[o]] = [o \in Persistent |-> kind[o]]
        /\ [o \in Persistent |-> IF ref'[o] \in Lasting THEN ref'[o] ELSE Nil]
           = [o \in Persistent |-> IF ref[o] \in Lasting THEN ref[o] ELSE Nil]
        /\ [o \in Persistent |-> IF Lasts(o, weak[o])' THEN weak'[o] ELSE Nil]
           = [o \in Persistent |-> IF Lasts(o, weak[o]) THEN weak[o] ELSE Nil]
    BY <2>1, <2>2
  <2> QED
    BY <1>12, <2>3 DEF Game
<1>16. Forgotten' \subseteq Forgotten
  BY <1>1, <1>2, <1>14 DEF Forgotten
<1> QED
  BY <1>1, <1>2, <1>10, <1>12, <1>14, <1>15, <1>16
------------------------------------------------------------------------------
(* Collecting and saving.                                                  *)

(* A file that is not written stays good.                                  *)
LEMMA SameFile ==
  ASSUME FileOK, UNCHANGED file
  PROVE  FileOK'
BY DEF FileOK

(* Initialization after a collection.                                      *)
LEMMA InitsCollected ==
  ASSUME TableOK, InitsOK, GcFull,
         UNCHANGED <<stack, changed, status, calls, walked, inits, failed, pc>>
  PROVE  InitsOK'
<1>1. /\ TableOK' /\ Live' = Live \ Garbage
      /\ \A o \in Live' : kind'[o] = kind[o] /\ ref'[o] = ref[o]
      /\ reg' = reg \ Garbage /\ ready' = ready \ Garbage /\ Forgotten' \subseteq Forgotten
  BY Collected
<1>2. \A i \in 1 .. Len(calls) : calls[i] \in Live \ Garbage
  BY GarbageIs
<1>3. reg' \subseteq Live' /\ ready' \subseteq Live' /\ walked' \subseteq Id
  BY <1>1 DEF InitsOK
<1>4. /\ calls' \in Seq(Id) /\ \A i \in 1 .. Len(calls') : calls'[i] \in reg'
      /\ \A i, j \in 1 .. Len(calls') : calls'[i] = calls'[j] => i = j
  BY <1>1, <1>2 DEF InitsOK
<1>5. /\ ~Initializing' => calls' = <<>>
      /\ pc' = "run" /\ ~failed' => reg' \subseteq ready'
      /\ pc' \in {"run", "init", "compare"} => Forgotten' = {}
  BY <1>1 DEF InitsOK, Initializing
<1>6. Initializing' =>
       /\ walked' = {} => calls' = <<>>
       /\ \A o \in reg' :
            /\ status'[o] = "progress" <=> \E i \in 1 .. Len(calls') : calls'[i] = o
            /\ status'[o] = "inited" => o \in ready'
            /\ status'[o] = "uninited" => inits'[o] = 0 /\ o \notin walked'
  BY <1>1 DEF InitsOK, Initializing
<1>7. ASSUME pc' = "compare"
      PROVE  calls' # <<>> /\ kind'[Current'] = "dict" /\ Satisfied(Current)'
  <2>1. calls # <<>> /\ kind[Current] = "dict" /\ Satisfied(Current)
    BY <1>7 DEF InitsOK
  <2>2. Current \in Live'
    <3>1. Len(calls) \in 1 .. Len(calls)
      BY <2>1, EmptySeq, LenProperties DEF InitsOK
    <3> QED
      BY <1>1, <1>2, <3>1 DEF Current
  <2>3. Current' = Current /\ kind'[Current] = kind[Current] /\ ref'[Current] = ref[Current]
    BY <1>1, <2>2 DEF Current
  <2>4. DependsOn(Current)' = DependsOn(Current)
    BY <2>3 DEF DependsOn
  <2> QED
    BY <1>1, <2>1, <2>3, <2>4 DEF Satisfied
<1>8. /\ status' \in [Id -> {"uninited", "progress", "inited"}]
      /\ inits' \in [Id -> {0, 1}]
  BY DEF InitsOK
<1> QED
  BY <1>3, <1>4, <1>5, <1>6, <1>7, <1>8 DEF InitsOK

(* A collection by an allocation.                                          *)
LEMMA CollectKeeps ==
  ASSUME IInv, Collect
  PROVE  IInv'
<1>1. TableOK /\ InitsOK /\ FileOK /\ LoadOK /\ RestoredGame
  BY DEF IInv
<1>2. GcFull /\ UNCHANGED <<changed, gc_on, stack, status, calls, walked, inits, file, pc,
                             loadVars, target, failed, countVars>>
  BY DEF Collect
<1>3. /\ TableOK' /\ Live' = Live \ Garbage /\ Persistent' = Persistent /\ Game' = Game
      /\ Lasting' = Lasting /\ Garbage \cap Persistent = {}
      /\ \A o \in Live' : weak'[o] = IF weak[o] \in Garbage THEN Nil ELSE weak[o]
  BY <1>1, <1>2, Collected, GarbageIs, TracedIs
<1>4. InitsOK'
  BY <1>1, <1>2, InitsCollected
<1>5. LoadOK'
  BY <1>1, <1>2 DEF LoadOK, Collect
<1>6. ASSUME pc' = "init", walked' = {}
      PROVE  /\ \A o \in Persistent' : weak'[o] \in Lasting' \cup {Nil}
             /\ SameGame(target', Game')
  <2>1. \A o \in Persistent : weak[o] \in Lasting \cup {Nil} /\ o \in Live'
    BY <1>1, <1>2, <1>3, <1>6, TracedIs DEF RestoredGame
  <2>2. SameGame(target, Game)
    BY <1>1, <1>2, <1>6 DEF RestoredGame
  <2> QED
    BY <1>2, <1>3, <2>1, <2>2
<1>7. RestoredGame'
  BY <1>6 DEF RestoredGame
<1> QED
  BY <1>1, <1>2, <1>3, <1>4, <1>5, <1>7, SameFile DEF IInv

(* The end of a load.                                                      *)
LEMMA LoadEndsKeeps ==
  ASSUME IInv, LoadEnds
  PROVE  IInv'
<1>1. TableOK /\ InitsOK /\ FileOK /\ LoadOK
  BY DEF IInv
<1>2. /\ GcFull /\ pc = "init" /\ calls = <<>> /\ reg \subseteq walked
      /\ pc' = "run" /\ gc_on' = TRUE
      /\ UNCHANGED <<changed, stack, status, calls, walked, inits, file, loadVars, target,
                     failed, countVars>>
  BY DEF LoadEnds
<1>3. /\ TableOK' /\ Live' = Live \ Garbage
      /\ reg' = reg \ Garbage /\ ready' = ready \ Garbage /\ Forgotten' \subseteq Forgotten
  BY <1>1, <1>2, Collected
<1>4. reg \subseteq ready
  <2>1. ASSUME NEW o \in reg PROVE o \in ready
    <3>1. status[o] # "uninited" /\ status[o] # "progress"
      BY <1>1, <1>2 DEF InitsOK, Initializing
    <3>2. status[o] \in {"uninited", "progress", "inited"}
      BY <1>1, EntryIs DEF InitsOK
    <3> QED
      BY <1>1, <1>2, <3>1, <3>2 DEF InitsOK, Initializing
  <2> QED
    BY <2>1
<1>5. InitsOK'
  <2>1. Forgotten = {} /\ ~Initializing'
    BY <1>1, <1>2 DEF InitsOK, Initializing
  <2>2. reg' \subseteq Live' /\ ready' \subseteq Live'
    BY <1>1, <1>3 DEF InitsOK
  <2>3. /\ Forgotten' = {} /\ reg' \subseteq ready' /\ Len(calls') = 0
    BY <1>2, <1>3, <1>4, <2>1
  <2>4. /\ status' \in [Id -> {"uninited", "progress", "inited"}] /\ walked' \subseteq Id
        /\ inits' \in [Id -> {0, 1}] /\ calls' \in Seq(Id)
    BY <1>1, <1>2 DEF InitsOK
  <2>5. /\ \A i \in 1 .. Len(calls') : calls'[i] \in reg'
        /\ \A i, j \in 1 .. Len(calls') : calls'[i] = calls'[j] => i = j
    BY <2>3
  <2> QED
    BY <1>2, <2>1, <2>2, <2>3, <2>4, <2>5 DEF InitsOK
<1>6. LoadOK' /\ RestoredGame'
  BY <1>1, <1>2 DEF LoadOK, RestoredGame, Phases
<1> QED
  BY <1>1, <1>2, <1>3, <1>5, <1>6, SameFile DEF IInv

(* A game is as good as what it is saved from.                             *)
LEMMA GameIsGood ==
  ASSUME TableOK, \A o \in Persistent : weak[o] \in Persistent \/ ~Lasts(o, weak[o])
  PROVE  GoodGame(Game) /\ DOMAIN Game.kind = Persistent
<1>1. PICK g : g = Game
  OBVIOUS
<1>2. /\ DOMAIN g.kind = Persistent /\ DOMAIN g.ref = Persistent /\ DOMAIN g.weak = Persistent
      /\ \A o \in Persistent :
           /\ g.kind[o] = kind[o]
           /\ g.ref[o] = IF ref[o] \in Lasting THEN ref[o] ELSE Nil
           /\ g.weak[o] = IF Lasts(o, weak[o]) THEN weak[o] ELSE Nil
  BY <1>1 DEF Game
<1>3. /\ IsReach(ref, Root, trans, Traced) /\ Traced \subseteq Live
      /\ Persistent = Traced \ trans /\ Persistent \subseteq Id
      /\ Persistent \cap Root = Root \ TransientRoot
      /\ \A o \in Persistent : ref[o] \in Traced \cup {Nil} /\ kind[o] \in Kinds
  <2>1. /\ IsReach(ref, Root, trans, Traced) /\ Traced \subseteq Live
        /\ Persistent \cap Root = Root \ TransientRoot
        /\ \A o \in Persistent : ref[o] \in Traced \cup {Nil}
    BY TracedIs
  <2> QED
    BY <2>1, EntryIs DEF Persistent
<1>4. ASSUME NEW o \in Persistent
      PROVE  /\ g.kind[o] \in Kinds /\ (o \in Root => g.kind[o] = RootKind[o])
             /\ g.ref[o] \in Persistent \cup Root \cup {Nil}
             /\ g.weak[o] \in Persistent \cup {Nil}
  BY <1>2, <1>3 DEF TableOK, Lasting
<1>5. ASSUME NEW C \in SUBSET Id, Root \subseteq C,
             \A o \in C \cap Persistent : g.ref[o] \in C \cup {Nil}
      PROVE  Persistent \subseteq C
  <2> DEFINE D == (C \cup trans) \cap Traced
  <2>1. D \in SUBSET Id /\ Root \subseteq D
    BY <1>3, <1>5 DEF IsReach
  <2>2. ASSUME NEW o \in D \ trans PROVE ref[o] \in D \cup {Nil}
    <3>1. o \in C \cap Persistent /\ ref[o] \in Traced \cup {Nil}
      BY <1>3, <2>2
    <3>2. CASE ref[o] \in Lasting
      BY <1>2, <1>5, <3>1, <3>2
    <3>3. CASE ref[o] \notin Lasting
      <4>1. ref[o] \in trans \cup {Nil}
        BY <1>3, <3>1, <3>3 DEF Lasting
      <4> QED
        BY <3>1, <4>1
    <3> QED
      BY <3>2, <3>3
  <2>3. Traced \subseteq D
    <3> HIDE DEF D
    <3> QED
      BY <1>3, <2>1, <2>2 DEF IsReach
  <2> QED
    BY <1>3, <2>3
<1>6. GoodGame(g)
  BY <1>2, <1>3, <1>4, <1>5 DEF GoodGame
<1> QED
  BY <1>1, <1>2, <1>6

(* The table of contents a save writes.                                    *)
LEMMA TocIsGood ==
  ASSUME TableOK, NEW g, DOMAIN g.kind = Persistent
  PROVE  /\ GoodToc(Toc, g)
         /\ \A o \in Traced \ Root : \E i \in 1 .. Len(Toc) :
              Toc[i].id = o /\ (Toc[i].transient <=> o \in trans)
<1>1. PICK T, ids, c, n : T = Traced \ Root /\ ids = Ascending(T) /\ c = Toc /\ n = Len(ids)
  OBVIOUS
<1>2. T \in SUBSET Id /\ Traced \subseteq Id /\ Persistent = Traced \ trans
  BY <1>1, TracedIs, EntryIs DEF Persistent
<1>3. /\ ids \in Seq(T) /\ n \in Nat /\ DOMAIN ids = 1 .. n /\ \A i \in 1 .. n : ids[i] \in T
      /\ \A o \in T : \E i \in 1 .. n : ids[i] = o
      /\ \A i, j \in 1 .. n : i < j => ids[i] < ids[j]
  <2>1. Lists(ids, T) /\ \A i, j \in 1 .. n : i < j => ids[i] < ids[j]
    BY <1>1, <1>2, AscendingIs
  <2>2. ids \in Seq(T) /\ \A o \in T : \E i \in 1 .. n : ids[i] = o
    BY <1>1, <2>1 DEF Lists
  <2>3. n \in Nat /\ DOMAIN ids = 1 .. n
    BY <1>1, <2>2, LenProperties
  <2>4. \A i \in 1 .. n : ids[i] \in T
    BY <1>1, <2>2, ElementOfSeq
  <2> QED
    BY <2>1, <2>2, <2>3, <2>4
<1>4. c = [i \in 1 .. n |-> [id |-> ids[i], transient |-> ids[i] \in trans]]
  BY <1>1, <1>3 DEF Toc
<1>5. \A i \in 1 .. n : /\ c[i] \in TocEntries /\ c[i].id = ids[i]
                        /\ (c[i].transient <=> ids[i] \in trans)
  <2>1. ASSUME NEW i \in 1 .. n
        PROVE  /\ c[i] \in TocEntries /\ c[i].id = ids[i]
               /\ (c[i].transient <=> ids[i] \in trans)
    <3>1. c[i] = [id |-> ids[i], transient |-> ids[i] \in trans] /\ ids[i] \in Id \ Root
      BY <1>1, <1>2, <1>3, <1>4
    <3>2. (ids[i] \in trans) \in BOOLEAN
      OBVIOUS
    <3>3. c[i].id = ids[i] /\ c[i].transient = (ids[i] \in trans)
      BY <3>1
    <3> QED
      BY <3>1, <3>2, <3>3 DEF TocEntries
  <2> QED
    BY <2>1
<1>6. c \in Seq(TocEntries) /\ Len(c) = n
  <2>1. c \in [1 .. n -> TocEntries]
    BY <1>4, <1>5
  <2> QED
    BY <1>3, <2>1, FcnIsSeq
<1>7. \A i \in 1 .. n : ~c[i].transient <=> c[i].id \in DOMAIN g.kind
  BY <1>1, <1>2, <1>3, <1>5
<1>8. \A i, j \in 1 .. n : i < j => c[i].id < c[j].id
  BY <1>3, <1>5
<1>9. \A o \in T : \E i \in 1 .. n : c[i].id = o /\ (c[i].transient <=> o \in trans)
  BY <1>3, <1>5
<1>10. \A o \in DOMAIN g.kind \ Root : \E i \in 1 .. n : c[i].id = o
  BY <1>1, <1>2, <1>9
<1>11. GoodToc(c, g)
  BY <1>6, <1>7, <1>8, <1>10 DEF GoodToc
<1> QED
  BY <1>1, <1>6, <1>9, <1>11

(* A record a save writes.                                                 *)
LEMMA RecordIsGood ==
  ASSUME TableOK, InitsOK, NEW o \in Persistent,
         weak[o] \in Persistent \cup Garbage \cup {Nil}
  PROVE  GoodRecord(Record(o, Kept(weak, Garbage)), Toc, Game)
<1>1. PICK r, w : w = Kept(weak, Garbage)[o] /\ r = Record(o, Kept(weak, Garbage))
  OBVIOUS
<1>2. /\ o \in Traced /\ o \in Id /\ o \in Live \ Garbage /\ kind[o] \in Kinds
      /\ ref[o] \in Traced \cup {Nil} /\ Persistent = Traced \ trans
      /\ Garbage \cap (Persistent \cup Root) = {} /\ Traced \subseteq Live
  BY TracedIs, GarbageIs, EntryIs DEF Persistent
<1>3. w = IF weak[o] \in Garbage THEN Nil ELSE weak[o]
  BY <1>1, <1>2 DEF Kept
<1>4. w \in Persistent \cup {Nil}
  BY <1>3
<1>5. /\ r.id = o /\ r.kind = kind[o] /\ r.ref = ref[o] /\ r.weak = w /\ ~r.stray
      /\ r \in Records
  <2>1. PICK drop : drop = (kind[o] = "dict" /\ w \notin Persistent)
    OBVIOUS
  <2>2. r = [id |-> o, kind |-> kind[o], ref |-> ref[o], weak |-> IF drop THEN Nil ELSE w,
             stray |-> drop /\ w # Nil]
    BY <1>1, <2>1 DEF Record
  <2>3. drop => w = Nil
    BY <1>4, <2>1
  <2>4. r = [id |-> o, kind |-> kind[o], ref |-> ref[o], weak |-> w, stray |-> FALSE]
    BY <2>2, <2>3
  <2>5. ref[o] \in Ref /\ w \in Ref
    BY <1>2, <1>4, EntryIs DEF Ref
  <2>6. r \in Records
    BY <1>2, <2>4, <2>5 DEF Records
  <2> QED
    BY <2>4, <2>6
<1>6. PICK g : g = Game
  OBVIOUS
<1>7. /\ g.kind[o] = kind[o] /\ g.ref[o] = IF ref[o] \in Lasting THEN ref[o] ELSE Nil
      /\ g.weak[o] = IF Lasts(o, weak[o]) THEN weak[o] ELSE Nil
      /\ DOMAIN g.kind = Persistent
  BY <1>6 DEF Game
<1>8. g.weak[o] = w
  <2>1. Nil \notin Persistent /\ Nil \notin Root
    BY <1>2, ConstantsAre, EntryIs
  <2> QED
    BY <1>2, <1>3, <1>7, <2>1 DEF Lasts
<1>9. r.ref = g.ref[o] \/ (g.ref[o] = Nil /\ \E i \in 1 .. Len(Toc) : Toc[i].id = r.ref /\ Toc[i].transient)
  <2>1. CASE ref[o] \in Lasting \cup {Nil}
    BY <1>5, <1>7, <2>1
  <2>2. CASE ref[o] \notin Lasting \cup {Nil}
    <3>1. ref[o] \in Traced \ Root /\ ref[o] \in trans /\ g.ref[o] = Nil
      BY <1>2, <1>7, <2>2 DEF Lasting
    <3>2. \E i \in 1 .. Len(Toc) : Toc[i].id = ref[o] /\ (Toc[i].transient <=> ref[o] \in trans)
      BY <1>7, <3>1, TocIsGood
    <3> QED
      BY <1>5, <3>1, <3>2
  <2> QED
    BY <2>1, <2>2
<1>10. GoodRecord(r, Toc, g)
  BY <1>5, <1>7, <1>8, <1>9 DEF GoodRecord
<1> QED
  BY <1>1, <1>6, <1>10

(* The file a save writes can be restored.                                 *)
LEMMA SaveKeeps ==
  ASSUME IInv, Save, SavesInTime
  PROVE  IInv'
<1>1. TableOK /\ InitsOK /\ LoadOK
  BY DEF IInv
<1>2. /\ GcFull /\ pc = "run" /\ \A o \in Saveable : weak[o] \in Persistent \cup Garbage \cup {Nil}
      /\ UNCHANGED <<changed, gc_on, stack, status, calls, walked, inits, pc, loadVars,
                     target, failed, work, loads>>
  BY DEF Save, SavesInTime
<1>3. PICK ids, n : ids = Ascending(Saveable) /\ n = Len(ids)
  OBVIOUS
<1>4. Saveable \in SUBSET Id /\ Saveable \subseteq Persistent /\ Persistent \subseteq Id
  BY <1>1, TracedIs, EntryIs DEF Saveable
<1>5. /\ n \in Nat /\ DOMAIN ids = 1 .. n /\ \A i \in 1 .. n : ids[i] \in Saveable
      /\ \A o \in Saveable : \E i \in 1 .. n : ids[i] = o
  <2>1. Lists(ids, Saveable)
    BY <1>3, <1>4, AscendingIs
  <2> QED
    BY <1>3, <2>1, LenProperties, ElementOfSeq DEF Lists
<1>6. PICK objs : objs = [i \in 1 .. n |-> Record(ids[i], Kept(weak, Garbage))]
  OBVIOUS
<1>7. file' = [toc |-> Toc, game |-> Game, objs |-> objs]
  BY <1>3, <1>5, <1>6 DEF Save
<1>8. \A o \in Persistent \ Saveable : o \in Root /\ ref[o] = ImageRef[o] /\ weak[o] = Nil
  BY <1>1 DEF Saveable, TableOK
<1>9. /\ Nil \notin Persistent /\ Garbage \cap (Persistent \cup Root) = {} /\ Nil \notin Root
  BY <1>1, <1>4, ConstantsAre, TracedIs, GarbageIs
<1>10. GoodGame(Game) /\ DOMAIN Game.kind = Persistent
  <2>1. ASSUME NEW o \in Persistent PROVE weak[o] \in Persistent \/ ~Lasts(o, weak[o])
    BY <1>2, <1>8, <1>9 DEF Lasts
  <2> QED
    BY <1>1, <2>1, GameIsGood
<1>11. GoodToc(Toc, Game)
  BY <1>1, <1>10, TocIsGood
<1>12. \A i \in 1 .. n : GoodRecord(objs[i], Toc, Game) /\ objs[i].id = ids[i]
  <2>1. ASSUME NEW i \in 1 .. n PROVE GoodRecord(objs[i], Toc, Game) /\ objs[i].id = ids[i]
    <3>1. PICK o : o = ids[i]
      OBVIOUS
    <3>2. o \in Persistent /\ weak[o] \in Persistent \cup Garbage \cup {Nil}
      BY <1>2, <1>4, <1>5, <3>1
    <3>3. GoodRecord(Record(o, Kept(weak, Garbage)), Toc, Game)
      BY <1>1, <3>2, RecordIsGood
    <3>4. Record(o, Kept(weak, Garbage)).id = o
      BY DEF Record
    <3> QED
      BY <1>6, <3>1, <3>3, <3>4
  <2> QED
    BY <2>1
<1>13. objs \in Seq(Records) /\ Len(objs) = n
  <2>1. \A i \in 1 .. n : objs[i] \in Records
    BY <1>12 DEF GoodRecord
  <2>2. objs \in [1 .. n -> Records]
    BY <1>6, <2>1
  <2> QED
    BY <1>5, <2>2, FcnIsSeq
<1>14. ASSUME NEW o \in Persistent, \A i \in 1 .. n : objs[i].id # o
       PROVE  o \in Root /\ Game.ref[o] = ImageRef[o] /\ Game.weak[o] = Nil
  <2>1. o \notin Saveable
    BY <1>5, <1>12, <1>14
  <2>2. o \in Root /\ ref[o] = ImageRef[o] /\ weak[o] = Nil
    BY <1>8, <2>1
  <2>3. ImageRef[o] \in Lasting \cup {Nil}
    BY <2>2, ConstantsAre DEF Lasting
  <2>4. /\ Game.ref[o] = IF ref[o] \in Lasting THEN ref[o] ELSE Nil
        /\ Game.weak[o] = IF Lasts(o, weak[o]) THEN weak[o] ELSE Nil
    BY DEF Game
  <2> QED
    BY <2>2, <2>3, <2>4
<1>15. FileOK'
  <2>1. file'.toc = Toc /\ file'.game = Game /\ file'.objs = objs
    BY <1>7
  <2>2. GoodObjs(file')
    BY <1>10, <1>12, <1>13, <1>14, <2>1 DEF GoodObjs
  <2> QED
    BY <1>10, <1>11, <2>1, <2>2 DEF FileOK
<1>16. TableOK' /\ InitsOK'
  BY <1>1, <1>2, Collected, InitsCollected
<1>17. LoadOK' /\ RestoredGame'
  BY <1>1, <1>2 DEF LoadOK, RestoredGame
<1> QED
  BY <1>15, <1>16, <1>17 DEF IInv

------------------------------------------------------------------------------
(* The program's steps.                                                    *)

(* The entry a new object gets is not in use.                              *)
LEMMA EntryTaken ==
  ASSUME TableOK, free # <<>>, NEW k \in Kinds,
         kind' = [kind EXCEPT ![Head(free)] = k], free' = Tail(free)
  PROVE  /\ Head(free) \in Id \ Live /\ Live' = Live \cup {Head(free)}
         /\ kind' \in [Id -> Kinds \cup {"free"}] /\ \A o \in Root : kind'[o] = RootKind[o]
         /\ kind'[Head(free)] = k /\ \A o \in Live : kind'[o] = kind[o]
         /\ free' \in Seq(Id) /\ {free'[i] : i \in 1 .. Len(free')} = Id \ Live'
         /\ \A i, j \in 1 .. Len(free') : free'[i] = free'[j] => i = j
<1>1. PICK h, m : h = Head(free) /\ m = Len(free)
  OBVIOUS
<1>2. /\ free \in Seq(Id) /\ {free[i] : i \in 1 .. m} = Id \ Live
      /\ \A i, j \in 1 .. m : free[i] = free[j] => i = j
  BY <1>1 DEF TableOK
<1>3. m \in Nat /\ m # 0
  BY <1>1, <1>2, EmptySeq, LenProperties
<1>4. /\ h = free[1] /\ free' \in Seq(Id) /\ Len(free') = m - 1
      /\ \A i \in 1 .. m - 1 : free'[i] = free[i + 1]
  BY <1>1, <1>2, HeadTailProperties
<1>5. h \in Id \ Live
  BY <1>2, <1>3, <1>4
<1>6. kind \in [Id -> Kinds \cup {"free"}] /\ Root \subseteq Live /\ \A o \in Root : kind[o] = RootKind[o]
  BY EntryIs DEF TableOK
<1>7. /\ kind' \in [Id -> Kinds \cup {"free"}] /\ kind'[h] = k
      /\ \A o \in Id : o # h => kind'[o] = kind[o]
  BY <1>1, <1>5, <1>6
<1>8. Live' = Live \cup {h}
  BY <1>5, <1>7, ConstantsAre DEF Live
<1>9. \A i \in 1 .. m - 1 : i \in 1 .. m /\ i + 1 \in 1 .. m /\ i + 1 # 1 /\ 1 \in 1 .. m
  BY <1>3
<1>10. {free'[i] : i \in 1 .. m - 1} = Id \ Live'
  <2>1. ASSUME NEW i \in 1 .. m - 1 PROVE free'[i] \in Id \ Live'
    <3>1. free'[i] = free[i + 1] /\ free[i + 1] \in Id \ Live
      BY <1>2, <1>4, <1>9
    <3>2. free[i + 1] # h
      BY <1>2, <1>4, <1>9
    <3> QED
      BY <1>8, <3>1, <3>2
  <2>2. ASSUME NEW o \in Id \ Live' PROVE \E i \in 1 .. m - 1 : free'[i] = o
    <3>1. o \in Id \ Live /\ o # h
      BY <1>8, <2>2
    <3>2. PICK j \in 1 .. m : free[j] = o
      BY <1>2, <3>1
    <3>3. j # 1
      BY <1>4, <3>1, <3>2
    <3>4. j - 1 \in 1 .. m - 1 /\ (j - 1) + 1 = j
      BY <1>3, <3>3
    <3>5. PICK i : i = j - 1
      OBVIOUS
    <3> QED
      BY <1>4, <3>2, <3>4, <3>5
  <2> QED
    BY <2>1, <2>2
<1>11. ASSUME NEW i \in 1 .. m - 1, NEW j \in 1 .. m - 1, free'[i] = free'[j] PROVE i = j
  <2>1. free[i + 1] = free[j + 1]
    BY <1>4, <1>11
  <2>2. i + 1 = j + 1
    BY <1>2, <1>9, <2>1
  <2> QED
    BY <1>3, <2>2
<1>12. \A o \in Live : o \in Id /\ o # h
  BY <1>5 DEF Live
<1> QED
  BY <1>1, <1>4, <1>5, <1>6, <1>7, <1>8, <1>10, <1>11, <1>12

(* Steps while no load is at work.                                         *)
LEMMA RunKeeps ==
  ASSUME IInv, pc = "run", TableOK', Live \subseteq Live', ready \subseteq ready',
         ready' \subseteq Live', Forgotten' = {},
         UNCHANGED <<pc, gc_on, failed, file, reg, status, calls, walked, inits>>
  PROVE  IInv'
<1>1. InitsOK /\ LoadOK /\ FileOK
  BY DEF IInv
<1>2. calls = <<>> /\ reg \subseteq Live
  BY <1>1 DEF InitsOK, Initializing
<1>3. InitsOK'
  <2>1. reg' \subseteq Live'
    BY <1>2
  <2> QED
    BY <1>1, <2>1 DEF InitsOK, Initializing
<1>4. LoadOK' /\ RestoredGame'
  BY <1>1 DEF LoadOK, RestoredGame
<1> QED
  BY <1>1, <1>3, <1>4, SameFile DEF IInv

(* A new object.                                                           *)
LEMMA CreateKeeps ==
  ASSUME IInv, NEW k \in NewKinds, NEW t \in BOOLEAN, Create(k, t)
  PROVE  IInv'
<1>1. TableOK /\ InitsOK
  BY DEF IInv
<1>2. PICK h : h = Head(free)
  OBVIOUS
<1>3. /\ pc = "run" /\ free # <<>> /\ free' = Tail(free)
      /\ kind' = [kind EXCEPT ![h] = k]
      /\ trans' = (IF t THEN trans \cup {h} ELSE trans) /\ stack' = stack \cup {h}
      /\ ready' = (IF k \in Initialized THEN ready \cup {h} ELSE ready)
      /\ UNCHANGED <<changed, ref, weak, pc, gc_on, failed, file, reg, status, calls, walked, inits>>
  BY <1>2 DEF Create, Works
<1>4. k \in Kinds
  BY SaveAssumption
<1>5. /\ h \in Id \ Live /\ Live' = Live \cup {h}
      /\ kind' \in [Id -> Kinds \cup {"free"}] /\ \A o \in Root : kind'[o] = RootKind[o]
      /\ kind'[h] = k /\ \A o \in Live : kind'[o] = kind[o]
      /\ free' \in Seq(Id) /\ {free'[i] : i \in 1 .. Len(free')} = Id \ Live'
      /\ \A i, j \in 1 .. Len(free') : free'[i] = free'[j] => i = j
  BY <1>1, <1>2, <1>3, <1>4, EntryTaken
<1>6. h \notin Root
  BY <1>1, <1>5, EntryIs
<1>7. trans' \subseteq Live' /\ trans' \cap Root = TransientRoot /\ stack' \subseteq Live'
  BY <1>1, <1>3, <1>5, <1>6 DEF TableOK
<1>8. /\ ref \in [Id -> Ref] /\ weak \in [Id -> Ref] /\ changed \subseteq Root
      /\ \A o \in Id : ref[o] \in Live \cup {Nil} /\ weak[o] \in Live \cup {Nil}
      /\ \A o \in Id \ Live : ref[o] = Nil /\ weak[o] = Nil
      /\ \A o \in Root \ changed : ref[o] = ImageRef[o] /\ weak[o] = Nil
  BY <1>1 DEF TableOK
<1>9. TableOK'
  BY <1>3, <1>5, <1>7, <1>8 DEF TableOK
<1>10. Forgotten = {} /\ ready \subseteq Live
  BY <1>1, <1>3 DEF InitsOK
<1>11. Forgotten' = {}
  BY <1>3, <1>5, <1>10 DEF Forgotten
<1> QED
  BY <1>3, <1>5, <1>9, <1>10, <1>11, RunKeeps

(* What the program can get at exists.                                     *)
LEMMA AccessibleIs ==
  ASSUME TableOK
  PROVE  Accessible \subseteq Live
<1>1. Root \cup stack \in SUBSET Live
  BY EntryIs DEF TableOK
<1>2. PICK A : A = Reach(Root \cup stack, {})
  OBVIOUS
<1>3. A \subseteq Live
  BY <1>1, <1>2, ReachIs
<1>4. PICK W : W = {weak[o] : o \in A} \ {Nil}
  OBVIOUS
<1>5. W \in SUBSET Live
  <2>1. \A o \in A : weak[o] \in Live \cup {Nil}
    BY <1>3, EntryIs DEF TableOK
  <2> QED
    BY <1>4, <2>1
<1>6. Reach(W, {}) \subseteq Live
  BY <1>5, ReachIs
<1> QED
  BY <1>2, <1>3, <1>4, <1>6 DEF Accessible

(* Storing a reference.                                                    *)
LEMMA SetKeeps ==
  ASSUME IInv, NEW o \in Accessible, NEW v \in Accessible \cup {Nil}, SetRef(o, v) \/ SetWeak(o, v)
  PROVE  IInv'
<1>1. TableOK /\ InitsOK
  BY DEF IInv
<1>2. /\ pc = "run" /\ changed' = (IF o \in Root THEN changed \cup {o} ELSE changed)
      /\ \/ ref' = [ref EXCEPT ![o] = v] /\ weak' = weak
         \/ weak' = [weak EXCEPT ![o] = v] /\ ref' = ref
      /\ UNCHANGED <<kind, free, trans, stack, ready, pc, gc_on, failed, file, reg, status,
                     calls, walked, inits>>
  BY DEF SetRef, SetWeak, Works
<1>3. o \in Live /\ v \in Live \cup {Nil} /\ Live \subseteq Id /\ Live' = Live
  BY <1>1, <1>2, AccessibleIs, EntryIs DEF Live
<1>4. /\ ref \in [Id -> Ref] /\ weak \in [Id -> Ref] /\ changed \subseteq Root
      /\ \A p \in Id : ref[p] \in Live \cup {Nil} /\ weak[p] \in Live \cup {Nil}
      /\ \A p \in Id \ Live : ref[p] = Nil /\ weak[p] = Nil
      /\ \A p \in Root \ changed : ref[p] = ImageRef[p] /\ weak[p] = Nil
  BY <1>1 DEF TableOK
<1>5. v \in Ref
  BY <1>3 DEF Ref
<1>6. /\ ref' \in [Id -> Ref] /\ weak' \in [Id -> Ref]
      /\ \A p \in Id : p # o => ref'[p] = ref[p] /\ weak'[p] = weak[p]
      /\ ref'[o] \in {v, ref[o]} /\ weak'[o] \in {v, weak[o]}
  <2>1. CASE ref' = [ref EXCEPT ![o] = v] /\ weak' = weak
    BY <1>3, <1>4, <1>5, <2>1
  <2>2. CASE weak' = [weak EXCEPT ![o] = v] /\ ref' = ref
    BY <1>3, <1>4, <1>5, <2>2
  <2> QED
    BY <1>2, <2>1, <2>2
<1>7. ASSUME NEW p \in Id
      PROVE  /\ ref'[p] \in Live \cup {Nil} /\ weak'[p] \in Live \cup {Nil}
             /\ p \notin Live => ref'[p] = Nil /\ weak'[p] = Nil
  BY <1>3, <1>4, <1>6
<1>8. ASSUME NEW p \in Root \ changed'
      PROVE  ref'[p] = ImageRef[p] /\ weak'[p] = Nil
  <2>1. p # o /\ p \notin changed /\ p \in Id
    BY <1>2, <1>8, ConstantsAre
  <2> QED
    BY <1>4, <1>6, <2>1
<1>9. TableOK'
  <2>1. changed' \subseteq Root
    BY <1>2, <1>4
  <2>2. /\ kind' \in [Id -> Kinds \cup {"free"}] /\ \A p \in Root : kind'[p] = RootKind[p]
        /\ free' \in Seq(Id) /\ {free'[i] : i \in 1 .. Len(free')} = Id \ Live'
        /\ \A i, j \in 1 .. Len(free') : free'[i] = free'[j] => i = j
        /\ trans' \subseteq Live' /\ trans' \cap Root = TransientRoot /\ stack' \subseteq Live'
    BY <1>1, <1>2, <1>3 DEF TableOK
  <2> QED
    BY <1>3, <1>6, <1>7, <1>8, <2>1, <2>2 DEF TableOK
<1>10. Forgotten' = Forgotten /\ Forgotten = {} /\ ready \subseteq Live
  BY <1>1, <1>2, <1>3 DEF Forgotten, InitsOK
<1> QED
  BY <1>2, <1>3, <1>9, <1>10, RunKeeps

(* Stack frames returning.                                                 *)
LEMMA ReleaseKeeps ==
  ASSUME IInv, NEW o \in stack, Release(o)
  PROVE  IInv'
<1>1. TableOK /\ InitsOK
  BY DEF IInv
<1>2. /\ pc = "run" /\ stack' \subseteq stack
      /\ UNCHANGED <<tableVars, pc, gc_on, failed, file, reg, status, ready, calls, walked, inits>>
  BY DEF Release, initVars
<1>3. Live' = Live /\ Forgotten' = Forgotten /\ Forgotten = {} /\ ready \subseteq Live
  BY <1>1, <1>2 DEF tableVars, Live, Forgotten, InitsOK
<1>4. TableOK'
  BY <1>1, <1>2, <1>3 DEF TableOK, tableVars
<1> QED
  BY <1>2, <1>3, <1>4, RunKeeps

------------------------------------------------------------------------------
(* Initializing.                                                           *)

(* A table that does not change.                                           *)
LEMMA SameTable ==
  ASSUME TableOK, UNCHANGED <<tableVars, stack>>
  PROVE  TableOK' /\ Live' = Live /\ \A o : DependsOn(o)' = DependsOn(o)
<1>1. Live' = Live
  BY DEF tableVars, Live
<1>2. TableOK'
  BY <1>1 DEF TableOK, tableVars
<1>3. \A o : DependsOn(o)' = DependsOn(o)
  BY DEF DependsOn, tableVars
<1> QED
  BY <1>1, <1>2, <1>3

(* A step that only runs initializers, after the first entry is come to.   *)
LEMMA InitStep ==
  ASSUME IInv, InitsOK', walked' # {}, pc' \in {"init", "compare"}, failed' = failed,
         UNCHANGED initFrame
  PROVE  IInv'
<1>1. UNCHANGED <<tableVars, stack, file, gc_on>>
  BY DEF initFrame, tableVars
<1>2. TableOK' /\ FileOK'
  BY <1>1, SameTable, SameFile DEF IInv
<1>3. LoadOK'
  BY <1>1 DEF IInv, LoadOK, Phases
<1>4. RestoredGame'
  BY DEF RestoredGame
<1> QED
  BY <1>2, <1>3, <1>4 DEF IInv

(* The initializer at work.                                                *)
LEMMA CurrentIs ==
  ASSUME InitsOK, calls # <<>>
  PROVE  /\ Initializing /\ walked # {} /\ Len(calls) \in Nat /\ Len(calls) >= 1
         /\ Len(calls) \in 1 .. Len(calls)
         /\ Current = calls[Len(calls)] /\ Current \in reg /\ status[Current] = "progress"
<1>1. calls \in Seq(Id) /\ Initializing /\ walked # {}
  BY DEF InitsOK
<1>2. Len(calls) \in Nat /\ Len(calls) # 0
  BY <1>1, EmptySeq
<1>3. Len(calls) \in 1 .. Len(calls) /\ Len(calls) >= 1
  BY <1>2
<1>4. Current = calls[Len(calls)]
  BY DEF Current
<1>5. Current \in reg
  BY <1>3, <1>4 DEF InitsOK
<1>6. status[Current] = "progress"
  BY <1>1, <1>3, <1>4, <1>5 DEF InitsOK
<1> QED
  BY <1>1, <1>2, <1>3, <1>4, <1>5, <1>6

(* Running an initializer.                                                 *)
LEMMA Begun ==
  ASSUME TableOK, InitsOK, pc = "init", NEW o \in reg, status[o] = "uninited", BeginInit(o),
         walked' # {}, walked' \in {walked, walked \cup {o}},
         UNCHANGED <<initFrame, ready, pc, failed>>
  PROVE  InitsOK'
<1>1. PICK n : n = Len(calls)
  OBVIOUS
<1>2. /\ reg \subseteq Live /\ ready \subseteq Live /\ walked \subseteq Id /\ Live \subseteq Id
      /\ status \in [Id -> {"uninited", "progress", "inited"}] /\ inits \in [Id -> {0, 1}]
      /\ calls \in Seq(Id) /\ Forgotten = {} /\ n \in Nat
      /\ \A i \in 1 .. n : calls[i] \in reg
      /\ \A i, j \in 1 .. n : calls[i] = calls[j] => i = j
      /\ \A p \in reg : /\ status[p] = "progress" <=> \E i \in 1 .. n : calls[i] = p
                        /\ status[p] = "inited" => p \in ready
                        /\ status[p] = "uninited" => inits[p] = 0 /\ p \notin walked
  BY <1>1, EntryIs, LenProperties DEF InitsOK, Initializing
<1>3. o \in Id /\ inits[o] = 0 /\ \A i \in 1 .. n : calls[i] # o
  BY <1>2
<1>4. /\ status' = [status EXCEPT ![o] = "progress"] /\ calls' = Append(calls, o)
      /\ inits' = [inits EXCEPT ![o] = @ + 1]
  BY DEF BeginInit
<1>5. /\ calls' \in Seq(Id) /\ Len(calls') = n + 1 /\ calls'[n + 1] = o
      /\ \A i \in 1 .. n : calls'[i] = calls[i]
  BY <1>1, <1>2, <1>3, <1>4, AppendProperties
<1>6. \A i \in 1 .. n + 1 : i \in 1 .. n \/ i = n + 1
  BY <1>2
<1>7. \A i \in 1 .. n + 1 : calls'[i] \in reg
  BY <1>2, <1>5, <1>6
<1>8. \A i, j \in 1 .. n + 1 : calls'[i] = calls'[j] => i = j
  BY <1>2, <1>3, <1>5, <1>6
<1>9. /\ status' \in [Id -> {"uninited", "progress", "inited"}] /\ inits' \in [Id -> {0, 1}]
      /\ status'[o] = "progress"
      /\ \A p \in Id : p # o => status'[p] = status[p] /\ inits'[p] = inits[p]
  <2>1. inits' = [inits EXCEPT ![o] = 1]
    BY <1>2, <1>3, <1>4
  <2> QED
    BY <1>2, <1>3, <1>4, <2>1
<1>10. ASSUME NEW p \in reg
       PROVE  /\ status'[p] = "progress" <=> \E i \in 1 .. n + 1 : calls'[i] = p
              /\ status'[p] = "inited" => p \in ready
              /\ status'[p] = "uninited" => inits'[p] = 0 /\ p \notin walked'
  <2>1. n + 1 \in 1 .. n + 1 /\ \A i \in 1 .. n : i \in 1 .. n + 1
    BY <1>2
  <2>2. CASE p = o
    BY <1>5, <1>9, <2>1, <2>2
  <2>3. CASE p # o
    <3>1. status'[p] = status[p] /\ inits'[p] = inits[p]
      BY <1>2, <1>9, <2>3
    <3>2. (\E i \in 1 .. n + 1 : calls'[i] = p) <=> (\E i \in 1 .. n : calls[i] = p)
      BY <1>5, <1>6, <2>1, <2>3
    <3>3. p \in walked' => p \in walked
      BY <2>3
    <3> QED
      BY <1>2, <3>1, <3>2, <3>3
  <2> QED
    BY <2>2, <2>3
<1>11. /\ UNCHANGED <<tableVars, stack, reg, ready, pc, failed>> /\ Live' = Live
  BY SameTable DEF initFrame, tableVars
<1>12. Forgotten' = {}
  BY <1>2, <1>11 DEF Forgotten, tableVars
<1>13. reg' \subseteq Live' /\ ready' \subseteq Live' /\ walked' \subseteq Id
  BY <1>2, <1>3, <1>11
<1>14. Initializing' /\ pc' = "init"
  BY <1>11 DEF Initializing
<1> QED
  BY <1>5, <1>7, <1>8, <1>9, <1>10, <1>11, <1>12, <1>13, <1>14 DEF InitsOK

(* do_all_post_load_init coming to an entry.                               *)
LEMMA WalkKeeps ==
  ASSUME IInv, NEW o \in reg, Walk(o)
  PROVE  IInv'
<1>1. TableOK /\ InitsOK
  BY DEF IInv
<1>2. /\ pc = "init" /\ walked' = walked \cup {o} /\ walked' # {} /\ o \notin walked
      /\ UNCHANGED <<initFrame, ready, pc, failed>>
  BY DEF Walk
<1>3. CASE status[o] = "uninited"
  <2>1. BeginInit(o)
    BY <1>3 DEF Walk
  <2>2. InitsOK'
    BY <1>1, <1>2, <1>3, <2>1, Begun
  <2> QED
    BY <1>2, <2>2, InitStep
<1>4. CASE status[o] # "uninited"
  <2>1. UNCHANGED <<status, calls, inits>>
    BY <1>4 DEF Walk
  <2>2. UNCHANGED <<tableVars, stack, reg, ready, pc, failed>> /\ Live' = Live
    BY <1>1, <1>2, SameTable DEF initFrame, tableVars
  <2>3. Forgotten' = Forgotten /\ Initializing /\ Initializing' /\ pc' = "init"
    BY <1>2, <2>2 DEF Forgotten, tableVars, Initializing
  <2>4. o \in Id /\ reg' = reg /\ walked' \subseteq Id
    BY <1>1, <1>2, <2>2, EntryIs DEF InitsOK
  <2>5. \A p \in reg : status[p] = "uninited" => inits[p] = 0 /\ p \notin walked'
    BY <1>1, <1>2, <1>4, <2>3 DEF InitsOK
  <2>6. /\ reg' \subseteq Live' /\ ready' \subseteq Live' /\ Forgotten' = {}
        /\ status' \in [Id -> {"uninited", "progress", "inited"}] /\ inits' \in [Id -> {0, 1}]
        /\ calls' \in Seq(Id) /\ \A i \in 1 .. Len(calls') : calls'[i] \in reg'
        /\ \A i, j \in 1 .. Len(calls') : calls'[i] = calls'[j] => i = j
    BY <1>1, <1>2, <2>1, <2>2, <2>3 DEF InitsOK
  <2>7. \A p \in reg' :
          /\ status'[p] = "progress" <=> \E i \in 1 .. Len(calls') : calls'[i] = p
          /\ status'[p] = "inited" => p \in ready'
          /\ status'[p] = "uninited" => inits'[p] = 0 /\ p \notin walked'
    BY <1>1, <2>1, <2>2, <2>3, <2>4, <2>5 DEF InitsOK
  <2>8. InitsOK'
    BY <1>2, <2>3, <2>4, <2>6, <2>7 DEF InitsOK
  <2> QED
    BY <1>2, <2>8, InitStep
<1> QED
  BY <1>3, <1>4

(* An initializer asking for another.                                      *)
LEMMA EnsureKeeps ==
  ASSUME IInv, Ensure
  PROVE  IInv'
<1>1. TableOK /\ InitsOK
  BY DEF IInv
<1>2. PICK d : d = DependsOn(Current)
  OBVIOUS
<1>3. /\ pc = "init" /\ calls # <<>> /\ ~Satisfied(Current) /\ status[d] = "uninited"
      /\ BeginInit(d) /\ UNCHANGED <<initFrame, ready, pc, failed, walked>>
  BY <1>2 DEF Ensure
<1>4. d \in reg
  BY <1>2, <1>3 DEF Satisfied
<1>5. walked' # {} /\ walked' = walked
  BY <1>1, <1>3, CurrentIs
<1>6. InitsOK'
  BY <1>1, <1>3, <1>4, <1>5, Begun
<1> QED
  BY <1>3, <1>5, <1>6, InitStep

(* Initializers that depend on each other: the load fails.                 *)
LEMMA CircularInitKeeps ==
  ASSUME IInv, CircularInit
  PROVE  IInv'
<1>1. TableOK /\ InitsOK /\ FileOK /\ LoadOK
  BY DEF IInv
<1>2. /\ pc = "init" /\ pc' = "run" /\ failed' = TRUE /\ calls' = <<>> /\ gc_on' = TRUE
      /\ UNCHANGED <<tableVars, stack, reg, status, ready, walked, inits, file>>
  BY DEF CircularInit
<1>3. TableOK' /\ Live' = Live /\ FileOK'
  BY <1>1, <1>2, SameTable, SameFile
<1>4. Forgotten' = {} /\ Len(calls') = 0 /\ calls' \in Seq(Id) /\ ~Initializing'
  BY <1>1, <1>2, <1>3 DEF InitsOK, Forgotten, tableVars, Initializing
<1>5. InitsOK'
  <2>1. /\ \A i \in 1 .. Len(calls') : calls'[i] \in reg'
        /\ \A i, j \in 1 .. Len(calls') : calls'[i] = calls'[j] => i = j
    BY <1>4
  <2>2. /\ reg' \subseteq Live' /\ ready' \subseteq Live' /\ walked' \subseteq Id
        /\ status' \in [Id -> {"uninited", "progress", "inited"}] /\ inits' \in [Id -> {0, 1}]
    BY <1>1, <1>2, <1>3 DEF InitsOK
  <2> QED
    BY <1>2, <1>4, <2>1, <2>2 DEF InitsOK
<1>6. LoadOK' /\ RestoredGame'
  BY <1>2 DEF LoadOK, RestoredGame, Phases
<1> QED
  BY <1>3, <1>5, <1>6 DEF IInv

(* A dictionary's initializer calling its comparator.                      *)
LEMMA CompareKeeps ==
  ASSUME IInv, Compare
  PROVE  IInv'
<1>1. TableOK /\ InitsOK
  BY DEF IInv
<1>2. /\ pc = "init" /\ calls # <<>> /\ Satisfied(Current) /\ pc' = "compare"
      /\ kind[Current] = "dict"
      /\ UNCHANGED <<initFrame, ready, status, calls, walked, inits, failed>>
  BY DEF Compare, CallsComparator
<1>3. UNCHANGED <<tableVars, stack, reg>>
  BY <1>2 DEF initFrame, tableVars
<1>4. Live' = Live /\ \A o : DependsOn(o)' = DependsOn(o)
  BY <1>1, <1>3, SameTable
<1>5. walked' # {}
  BY <1>1, <1>2, CurrentIs
<1>6. /\ Satisfied(Current)' /\ kind'[Current'] = "dict"
      /\ Forgotten' = Forgotten /\ Initializing' /\ Initializing
  <2>1. Current' = Current
    BY <1>2 DEF Current
  <2>2. DependsOn(Current)' = DependsOn(Current)
    BY <1>4, <2>1
  <2> QED
    BY <1>2, <1>3, <1>4, <2>1, <2>2 DEF Satisfied, Forgotten, tableVars, Initializing
<1>7. InitsOK'
  BY <1>1, <1>2, <1>3, <1>4, <1>6 DEF InitsOK
<1> QED
  BY <1>2, <1>5, <1>7, InitStep

(* An initializer returning.                                               *)
LEMMA EndInitKeeps ==
  ASSUME IInv, EndInit
  PROVE  IInv'
<1>1. TableOK /\ InitsOK
  BY DEF IInv
<1>2. PICK c, n, m : c = Current /\ n = Len(calls) /\ m = n - 1
  OBVIOUS
<1>3. /\ pc \in {"init", "compare"} /\ calls # <<>> /\ pc' = "init"
      /\ ready' = ready \cup {c} /\ status' = [status EXCEPT ![c] = "inited"]
      /\ calls' = SubSeq(calls, 1, m) /\ UNCHANGED <<initFrame, walked, inits, failed>>
  BY <1>1, <1>2 DEF EndInit, InitsOK
<1>4. /\ Initializing /\ walked # {} /\ n \in Nat /\ n >= 1 /\ n \in 1 .. n
      /\ c = calls[n] /\ c \in reg /\ status[c] = "progress"
  BY <1>1, <1>2, <1>3, CurrentIs
<1>5. /\ reg \subseteq Live /\ ready \subseteq Live /\ walked \subseteq Id /\ Live \subseteq Id
      /\ status \in [Id -> {"uninited", "progress", "inited"}] /\ inits \in [Id -> {0, 1}]
      /\ calls \in Seq(Id) /\ Forgotten = {}
      /\ \A i \in 1 .. n : calls[i] \in reg /\ calls[i] \in Id
      /\ \A i, j \in 1 .. n : calls[i] = calls[j] => i = j
      /\ \A p \in reg : /\ status[p] = "progress" <=> \E i \in 1 .. n : calls[i] = p
                        /\ status[p] = "inited" => p \in ready
                        /\ status[p] = "uninited" => inits[p] = 0 /\ p \notin walked
  BY <1>1, <1>2, <1>3, <1>4, EntryIs DEF InitsOK
<1>6. m \in Nat /\ \A i \in 1 .. m : i \in 1 .. n /\ i # n /\ 1 + i - 1 = i
  BY <1>2, <1>4
<1>7. \A i \in 1 .. n : i \in 1 .. m \/ i = n
  BY <1>2, <1>4
<1>8. calls' \in Seq(Id) /\ Len(calls') = m /\ \A i \in 1 .. m : calls'[i] = calls[i]
  <2>1. 1 \in Int /\ m \in Int /\ \A i \in 1 .. m : calls[i] \in Id
    BY <1>5, <1>6
  <2>2. /\ calls' \in Seq(Id) /\ Len(calls') = IF 1 <= m THEN m - 1 + 1 ELSE 0
        /\ \A i \in 1 .. m - 1 + 1 : calls'[i] = calls[1 + i - 1]
    BY <1>3, <2>1, SubSeqProperties
  <2>3. m - 1 + 1 = m /\ (IF 1 <= m THEN m - 1 + 1 ELSE 0) = m
    BY <1>6
  <2> QED
    BY <1>6, <2>2, <2>3
<1>9. /\ \A i \in 1 .. m : calls'[i] \in reg /\ calls'[i] # c
      /\ \A i, j \in 1 .. m : calls'[i] = calls'[j] => i = j
  <2>1. ASSUME NEW i \in 1 .. m PROVE calls'[i] \in reg /\ calls'[i] # c
    <3>1. i \in 1 .. n /\ i # n /\ n \in 1 .. n /\ calls'[i] = calls[i]
      BY <1>4, <1>6, <1>8
    <3> QED
      BY <1>4, <1>5, <3>1
  <2>2. ASSUME NEW i \in 1 .. m, NEW j \in 1 .. m, calls'[i] = calls'[j] PROVE i = j
    <3>1. i \in 1 .. n /\ j \in 1 .. n /\ calls[i] = calls[j]
      BY <1>6, <1>8, <2>2
    <3> QED
      BY <1>5, <3>1
  <2> QED
    BY <2>1, <2>2
<1>10. /\ status' \in [Id -> {"uninited", "progress", "inited"}] /\ status'[c] = "inited"
       /\ \A p \in Id : p # c => status'[p] = status[p]
  BY <1>3, <1>4, <1>5
<1>11. ASSUME NEW p \in reg
       PROVE  /\ status'[p] = "progress" <=> \E i \in 1 .. m : calls'[i] = p
              /\ status'[p] = "inited" => p \in ready'
              /\ status'[p] = "uninited" => inits[p] = 0 /\ p \notin walked
  <2>1. CASE p = c
    BY <1>3, <1>9, <1>10, <2>1
  <2>2. CASE p # c
    <3>1. status'[p] = status[p]
      BY <1>5, <1>10, <2>2
    <3>2. (\E i \in 1 .. m : calls'[i] = p) <=> (\E i \in 1 .. n : calls[i] = p)
      BY <1>4, <1>6, <1>7, <1>8, <2>2
    <3> QED
      BY <1>3, <1>5, <3>1, <3>2
  <2> QED
    BY <2>1, <2>2
<1>12. UNCHANGED <<tableVars, stack, reg>> /\ Live' = Live
  BY <1>1, <1>3, SameTable DEF initFrame, tableVars
<1>13. Forgotten' = {} /\ Initializing' /\ reg' \subseteq Live' /\ ready' \subseteq Live'
  BY <1>3, <1>4, <1>5, <1>12 DEF Forgotten, tableVars, Initializing
<1>14. InitsOK'
  BY <1>3, <1>4, <1>5, <1>8, <1>9, <1>10, <1>11, <1>12, <1>13 DEF InitsOK
<1> QED
  BY <1>3, <1>4, <1>14, InitStep

------------------------------------------------------------------------------
(* Restarting, and the beginning of a restore.                             *)

\* The entries without the dead ones.
EntriesLeft(dead) ==
  /\ kind' \in [Id -> Kinds \cup {"free"}] /\ \A o \in Root : kind'[o] = RootKind[o]
  /\ free' \in Seq(Id) /\ {free'[i] : i \in 1 .. Len(free')} = Id \ Live'
  /\ \A i, j \in 1 .. Len(free') : free'[i] = free'[j] => i = j
  /\ trans' \subseteq Live' /\ trans' \cap Root = TransientRoot
  /\ Live' = Live \ dead /\ stack' = stack /\ stack \cap dead = {} /\ dead \subseteq Id \ Root
  /\ \A o \in Live \ dead : ref[o] \in (Live \ dead) \cup {Nil}

\* What they refer to, when those of S go back to the image file's state.
ReferencesReset(S, dead) ==
  /\ ref' = [o \in Id |-> IF o \in dead THEN Nil ELSE IF o \in S THEN ImageRef[o] ELSE ref[o]]
  /\ weak' = [o \in Id |-> IF o \in S THEN Nil
                           ELSE IF o \in dead \/ weak[o] \in dead THEN Nil ELSE weak[o]]
  /\ changed' = StillChanged(S)

(* Root objects that go back to the image file's state.                    *)
LEMMA ResetEntries ==
  ASSUME TableOK, NEW S, S = Root \ trans, NEW dead, EntriesLeft(dead), ReferencesReset(S, dead)
  PROVE  /\ TableOK' /\ S = Root \ TransientRoot /\ S \subseteq Live'
         /\ \A o \in S : ref'[o] = ImageRef[o] /\ weak'[o] = Nil
<1>1. /\ ref \in [Id -> Ref] /\ weak \in [Id -> Ref] /\ Nil \notin Id /\ Root \subseteq Id
      /\ \A o \in Id : ref[o] \in Live \cup {Nil} /\ weak[o] \in Live \cup {Nil}
      /\ \A o \in Id \ Live : ref[o] = Nil /\ weak[o] = Nil
      /\ \A o \in Root \ changed : ref[o] = ImageRef[o] /\ weak[o] = Nil
      /\ changed \subseteq Root /\ stack \subseteq Live /\ trans \cap Root = TransientRoot
      /\ Live \subseteq Id /\ Root \subseteq Live /\ \A o \in Root : ImageRef[o] \in Root \cup {Nil}
  BY ConstantsAre, EntryIs DEF TableOK
<1> USE DEF EntriesLeft
<1>2. S = Root \ TransientRoot /\ S \subseteq Root /\ S \cap dead = {} /\ Root \subseteq Live'
  BY <1>1
<1>3. \A o \in Id :
        /\ ref'[o] = IF o \in dead THEN Nil ELSE IF o \in S THEN ImageRef[o] ELSE ref[o]
        /\ weak'[o] = IF o \in S THEN Nil ELSE IF o \in dead \/ weak[o] \in dead THEN Nil ELSE weak[o]
  BY DEF ReferencesReset
<1>4. \A o \in S : ref'[o] = ImageRef[o] /\ weak'[o] = Nil
  BY <1>1, <1>2, <1>3
<1>5. ASSUME NEW o \in Id
      PROVE  /\ ref'[o] \in Live' \cup {Nil} /\ weak'[o] \in Live' \cup {Nil}
             /\ o \notin Live' => ref'[o] = Nil /\ weak'[o] = Nil
  <2>1. CASE o \in S
    BY <1>1, <1>2, <1>4, <2>1
  <2>2. CASE o \in dead
    <3>1. ref'[o] = Nil /\ weak'[o] = Nil
      BY <1>2, <1>3, <2>2
    <3> QED
      BY <3>1
  <2>3. CASE o \notin S /\ o \notin dead
    <3>1. ref'[o] = ref[o] /\ weak'[o] = IF weak[o] \in dead THEN Nil ELSE weak[o]
      BY <1>3, <2>3
    <3>2. CASE o \in Live
      <4>1. o \in Live'
        BY <2>3, <3>2
      <4>2. ref'[o] \in Live' \cup {Nil}
        BY <2>3, <3>1, <3>2
      <4>3. weak'[o] \in Live' \cup {Nil}
        BY <1>1, <3>1
      <4> QED
        BY <4>1, <4>2, <4>3
    <3>3. CASE o \notin Live
      BY <1>1, <3>1, <3>3
    <3> QED
      BY <3>2, <3>3
  <2> QED
    BY <2>1, <2>2, <2>3
<1>6. Live' \subseteq Id
  BY <1>1
<1>7. ref' \in [Id -> Ref] /\ weak' \in [Id -> Ref]
  <2>1. \A o \in Id : ref'[o] \in Ref /\ weak'[o] \in Ref
    BY <1>5, <1>6 DEF Ref
  <2>2. \E f, g : ref' = [o \in Id |-> f[o]] /\ weak' = [o \in Id |-> g[o]]
    <3>1. ref' = [o \in Id |-> ref'[o]] /\ weak' = [o \in Id |-> weak'[o]]
      BY DEF ReferencesReset
    <3> QED
      BY <3>1
  <2> QED
    BY <2>1, <2>2
<1>8. ASSUME NEW o \in Root \ changed'
      PROVE  ref'[o] = ImageRef[o] /\ weak'[o] = Nil
  <2>1. CASE o \in S
    BY <1>4, <2>1
  <2>2. CASE o \notin S
    <3>1. o \notin changed /\ o \notin dead /\ o \in Id
      BY <1>1, <1>8, <2>2 DEF StillChanged, ReferencesReset
    <3>2. ref[o] = ImageRef[o] /\ weak[o] = Nil
      BY <1>1, <1>8, <3>1
    <3>3. ref'[o] = ref[o] /\ weak'[o] \in {Nil, weak[o]}
      BY <1>3, <2>2, <3>1
    <3> QED
      BY <3>2, <3>3
  <2> QED
    BY <2>1, <2>2
<1>9. changed' \subseteq Root /\ stack' \subseteq Live'
  BY <1>1 DEF StillChanged, ReferencesReset
<1>10. TableOK'
  BY <1>5, <1>7, <1>8, <1>9 DEF TableOK
<1> QED
  BY <1>2, <1>4, <1>10

(* Who has to be initialized after it.                                     *)
LEMMA ResetInits ==
  ASSUME TableOK, InitsOK, pc = "run", NEW S, NEW dead,
         Live' = Live \ dead, S \subseteq Live', \A o \in Live' : kind'[o] = kind[o],
         reg' = (reg \ dead) \cup {o \in S : kind[o] \in Initialized},
         ready' = (ready \ dead) \ S, UNCHANGED calls,
         inits' = [o \in Id |-> 0]
  PROVE  /\ Forgotten' = {} /\ reg' \subseteq Live' /\ ready' \subseteq Live' /\ calls' = <<>>
         /\ Len(calls') = 0 /\ calls' \in Seq(Id)
         /\ inits' \in [Id -> {0, 1}] /\ \A o \in Id : inits'[o] = 0
<1>1. Forgotten = {} /\ reg \subseteq Live /\ ready \subseteq Live /\ calls = <<>>
  BY DEF InitsOK, Initializing
<1>2. Forgotten' = {}
  BY <1>1 DEF Forgotten
<1> QED
  BY <1>1, <1>2

(* Restarting.                                                             *)
LEMMA RestartKeeps ==
  ASSUME IInv, Restart
  PROVE  IInv'
<1>1. TableOK /\ InitsOK /\ FileOK /\ LoadOK
  BY DEF IInv
<1>2. PICK S, dead : S = Root \ trans /\ dead = Garbage
  OBVIOUS
<1>3. /\ pc = "run" /\ inits' = [o \in Id |-> 0] /\ failed' = FALSE
      /\ kind' = [o \in Id |-> IF o \in dead THEN "free" ELSE kind[o]]
      /\ free' = Descending(dead) \o free /\ trans' = trans \ dead
      /\ ref' = [o \in Id |-> IF o \in dead THEN Nil ELSE IF o \in S THEN ImageRef[o] ELSE ref[o]]
      /\ weak' = [o \in Id |-> IF o \in S THEN Nil ELSE Kept(weak, dead)[o]]
      /\ changed' = StillChanged(S)
      /\ reg' = (reg \ dead) \cup {o \in S : kind[o] \in Initialized}
      /\ ready' = (ready \ dead) \ S
      /\ status' = [o \in Id |-> IF o \in reg' THEN "uninited" ELSE status[o]]
      /\ target' = ImageGame /\ pc' = "init" /\ walked' = {}
      /\ UNCHANGED <<gc_on, stack, calls, file>>
  BY <1>2 DEF Restart, Loads
<1>4. EntriesCollected
  BY <1>2, <1>3 DEF EntriesCollected
<1>5. /\ kind' \in [Id -> Kinds \cup {"free"}] /\ \A o \in Root : kind'[o] = RootKind[o]
      /\ free' \in Seq(Id) /\ {free'[i] : i \in 1 .. Len(free')} = Id \ Live'
      /\ \A i, j \in 1 .. Len(free') : free'[i] = free'[j] => i = j
      /\ trans' \subseteq Live' /\ trans' \cap Root = TransientRoot
      /\ Live' = Live \ dead /\ \A o \in Live' : kind'[o] = kind[o]
  BY <1>1, <1>2, <1>4, CollectedEntries
<1>6. /\ dead \subseteq Id \ Root /\ stack \cap dead = {}
      /\ \A o \in Live \ dead : ref[o] \in (Live \ dead) \cup {Nil}
  BY <1>1, <1>2, GarbageIs, EntryIs
<1>7. weak' = [o \in Id |-> IF o \in S THEN Nil
                            ELSE IF o \in dead \/ weak[o] \in dead THEN Nil ELSE weak[o]]
  BY <1>3 DEF Kept
<1>8. /\ TableOK' /\ S = Root \ TransientRoot /\ S \subseteq Live'
      /\ \A o \in S : ref'[o] = ImageRef[o] /\ weak'[o] = Nil
  <2>1. EntriesLeft(dead)
    BY <1>3, <1>5, <1>6 DEF EntriesLeft
  <2>2. ReferencesReset(S, dead)
    BY <1>3, <1>7 DEF ReferencesReset
  <2> QED
    BY <1>1, <1>2, <2>1, <2>2, ResetEntries
<1>9. /\ Forgotten' = {} /\ reg' \subseteq Live' /\ ready' \subseteq Live' /\ calls' = <<>>
      /\ Len(calls') = 0 /\ calls' \in Seq(Id)
      /\ inits' \in [Id -> {0, 1}] /\ \A o \in Id : inits'[o] = 0
  BY <1>1, <1>3, <1>5, <1>8, ResetInits
<1>10. InitsOK'
  <2>1. /\ status' \in [Id -> {"uninited", "progress", "inited"}]
        /\ \A o \in reg' : o \in Id /\ status'[o] = "uninited"
    BY <1>1, <1>3, <1>5, <1>9, EntryIs DEF InitsOK
  <2>2. ~\E i \in 1 .. Len(calls') : TRUE
    BY <1>9
  <2>3. Initializing' /\ pc' # "run" /\ pc' # "compare"
    BY <1>3 DEF Initializing
  <2> QED
    BY <1>3, <1>9, <2>1, <2>2, <2>3 DEF InitsOK
<1>11. LoadOK'
  BY <1>1, <1>3 DEF LoadOK, Phases
<1>12. RestoredGame'
  <2>1. Traced' = Root
    <3>1. IsReach(ref', Root, trans', Traced')
      BY <1>8, TracedIs, EntryIs, FoundReach, ConstantsAre DEF Traced, Reach, TableOK, Ref
    <3>2. \A o \in Root \ trans' : ref'[o] \in Root \cup {Nil}
      BY <1>5, <1>8, ConstantsAre
    <3> QED
      BY <3>1, <3>2, ConstantsAre DEF IsReach
  <2>2. Persistent' = S /\ Lasting' = Root
    BY <1>5, <1>8, <2>1 DEF Persistent, Lasting
  <2>3. \A o \in S : /\ kind'[o] = RootKind[o]
                     /\ (IF ref'[o] \in Root THEN ref'[o] ELSE Nil) = ImageRef[o]
                     /\ (IF Lasts(o, weak[o])' THEN weak'[o] ELSE Nil) = Nil
    BY <1>5, <1>8, ConstantsAre
  <2>4. Game' = ImageGame
    <3>1. Game' = [kind |-> [o \in S |-> kind'[o]],
                   ref |-> [o \in S |-> IF ref'[o] \in Root THEN ref'[o] ELSE Nil],
                   weak |-> [o \in S |-> IF Lasts(o, weak[o])' THEN weak'[o] ELSE Nil]]
      BY <2>2 DEF Game
    <3>2. /\ [o \in S |-> kind'[o]] = [o \in S |-> RootKind[o]]
          /\ [o \in S |-> IF ref'[o] \in Root THEN ref'[o] ELSE Nil] = [o \in S |-> ImageRef[o]]
          /\ [o \in S |-> IF Lasts(o, weak[o])' THEN weak'[o] ELSE Nil] = [o \in S |-> Nil]
      BY <2>3
    <3>3. ImageGame = [kind |-> [o \in S |-> RootKind[o]],
                       ref |-> [o \in S |-> ImageRef[o]], weak |-> [o \in S |-> Nil]]
      BY <1>8 DEF ImageGame
    <3> QED
      BY <3>1, <3>2, <3>3
  <2>5. SameGame(ImageGame, ImageGame)
    <3>1. PICK g : g = ImageGame
      OBVIOUS
    <3>2. DOMAIN g.kind = S /\ \A o \in S : g.ref[o] \in Root \cup {Nil} /\ g.weak[o] = Nil
      BY <1>8, <3>1, ConstantsAre DEF ImageGame
    <3>3. S \ Root = {}
      BY <1>8
    <3>4. PICK f : f = [o \in {} |-> o]
      OBVIOUS
    <3>5. f \in [S \ Root -> S \ Root] /\ \A x, y \in S \ Root : f[x] = f[y] => x = y
      BY <3>3, <3>4
    <3>6. \A o \in S : o \in Root \cup {Nil}
      BY <1>8
    <3>7. SameGame(g, g)
      BY <3>2, <3>5, <3>6 DEF SameGame
    <3> QED
      BY <3>1, <3>7
  <2>6. \A o \in Persistent' : weak'[o] \in Lasting' \cup {Nil}
    BY <1>8, <2>2
  <2> QED
    BY <1>3, <2>4, <2>5, <2>6 DEF RestoredGame
<1> QED
  BY <1>1, <1>3, <1>8, <1>10, <1>11, <1>12, SameFile DEF IInv

(* Beginning to restore.                                                   *)
LEMMA RestoreKeeps ==
  ASSUME IInv, Restore
  PROVE  IInv'
<1>1. TableOK /\ InitsOK /\ FileOK /\ LoadOK
  BY DEF IInv
<1>2. PICK S : S = Root \ trans
  OBVIOUS
<1>3. /\ pc = "run" /\ inits' = [o \in Id |-> 0] /\ failed' = FALSE /\ gc_on' = FALSE
      /\ ref' = [o \in Id |-> IF o \in S THEN ImageRef[o] ELSE ref[o]]
      /\ weak' = [o \in Id |-> IF o \in S THEN Nil ELSE weak[o]]
      /\ changed' = StillChanged(S)
      /\ reg' = reg \cup {o \in S : kind[o] \in Initialized} /\ ready' = ready \ S
      /\ target' = file.game /\ pc' = "toc" /\ todo' = file.toc /\ fixups' = <<>>
      /\ UNCHANGED <<kind, free, trans, stack, status, calls, walked, file>>
  BY <1>2 DEF Restore, Loads, ResetToImage
<1>4. PICK dead : dead = {}
  OBVIOUS
<1>5. Live' = Live /\ Live \ dead = Live /\ reg \ dead = reg /\ ready \ dead = ready
  BY <1>3, <1>4 DEF Live
<1>6. /\ kind' \in [Id -> Kinds \cup {"free"}] /\ \A o \in Root : kind'[o] = RootKind[o]
      /\ free' \in Seq(Id) /\ {free'[i] : i \in 1 .. Len(free')} = Id \ Live'
      /\ \A i, j \in 1 .. Len(free') : free'[i] = free'[j] => i = j
      /\ trans' \subseteq Live' /\ trans' \cap Root = TransientRoot
      /\ \A o \in Live \ dead : ref[o] \in (Live \ dead) \cup {Nil}
  <2>1. /\ kind \in [Id -> Kinds \cup {"free"}] /\ \A o \in Root : kind[o] = RootKind[o]
        /\ free \in Seq(Id) /\ {free[i] : i \in 1 .. Len(free)} = Id \ Live
        /\ \A i, j \in 1 .. Len(free) : free[i] = free[j] => i = j
        /\ trans \subseteq Live /\ trans \cap Root = TransientRoot
    BY <1>1 DEF TableOK
  <2>2. \A o \in Live : ref[o] \in Live \cup {Nil}
    BY <1>1, EntryIs DEF TableOK
  <2> QED
    BY <1>3, <1>5, <2>1, <2>2
<1>7. /\ ref' = [o \in Id |-> IF o \in dead THEN Nil ELSE IF o \in S THEN ImageRef[o] ELSE ref[o]]
      /\ weak' = [o \in Id |-> IF o \in S THEN Nil
                               ELSE IF o \in dead \/ weak[o] \in dead THEN Nil ELSE weak[o]]
  BY <1>3, <1>4
<1>8. /\ TableOK' /\ S = Root \ TransientRoot /\ S \subseteq Live'
      /\ \A o \in S : ref'[o] = ImageRef[o] /\ weak'[o] = Nil
  <2>1. EntriesLeft(dead)
    BY <1>3, <1>4, <1>5, <1>6 DEF EntriesLeft
  <2>2. ReferencesReset(S, dead)
    BY <1>3, <1>7 DEF ReferencesReset
  <2> QED
    BY <1>1, <1>2, <2>1, <2>2, ResetEntries
<1>9. /\ Forgotten' = {} /\ reg' \subseteq Live' /\ ready' \subseteq Live' /\ calls' = <<>>
      /\ Len(calls') = 0 /\ calls' \in Seq(Id)
      /\ inits' \in [Id -> {0, 1}] /\ \A o \in Id : inits'[o] = 0
  <2>1. Live' = Live \ dead /\ \A o \in Live' : kind'[o] = kind[o]
    BY <1>3, <1>5
  <2>2. reg' = (reg \ dead) \cup {o \in S : kind[o] \in Initialized} /\ ready' = (ready \ dead) \ S
    BY <1>3, <1>5
  <2> QED
    BY <1>1, <1>3, <1>8, <2>1, <2>2, ResetInits
<1>10. InitsOK'
  <2>1. ~\E i \in 1 .. Len(calls') : TRUE
    BY <1>9
  <2>2. ~Initializing' /\ pc' # "run" /\ pc' # "compare" /\ pc' # "init"
    BY <1>3 DEF Initializing
  <2>3. status' \in [Id -> {"uninited", "progress", "inited"}] /\ walked' \subseteq Id
    BY <1>1, <1>3 DEF InitsOK
  <2> QED
    BY <1>9, <2>1, <2>2, <2>3 DEF InitsOK
<1>11. Len(fixups') = 0 /\ fixups' \in Seq(Id \X Ref)
  BY <1>3
<1>12. file.toc \in Seq(TocEntries) /\ Len(file.toc) \in Nat
  BY <1>1, LenProperties DEF FileOK, GoodToc
<1>13. FixupsOK'
  BY <1>3, <1>11, <1>12 DEF FixupsOK
<1>14. Len(fixups') + Len(todo') = Len(file'.toc)
       /\ \A i \in 1 .. Len(todo') : todo'[i] = file'.toc[Len(fixups') + i]
  BY <1>3, <1>11, <1>12
<1>15. LoadOK'
  BY <1>3, <1>8, <1>9, <1>12, <1>13, <1>14 DEF LoadOK, Phases
<1>16. RestoredGame'
  BY <1>3 DEF RestoredGame
<1> QED
  BY <1>1, <1>3, <1>8, <1>10, <1>15, <1>16, SameFile DEF IInv

------------------------------------------------------------------------------
(* Reading a saved state file.                                             *)

(* While a file is read, nothing is said of who has been initialized, but  *)
(* for what is not ready and has not asked.                                *)
LEMMA InitsRead ==
  ASSUME InitsOK, pc' \in {"toc", "read"}, pc = pc' \/ (pc = "toc" /\ pc' = "read"),
         reg' \subseteq Live', ready' \subseteq Live', reg \subseteq reg',
         UNCHANGED <<status, calls, walked, inits, failed>>
  PROVE  InitsOK'
<1>1. ~Initializing /\ ~Initializing' /\ pc' # "run" /\ calls = <<>> /\ pc' # "init" /\ pc' # "compare"
  BY DEF InitsOK, Initializing
<1>2. /\ \A i \in 1 .. Len(calls') : calls'[i] \in reg'
      /\ \A i, j \in 1 .. Len(calls') : calls'[i] = calls'[j] => i = j
      /\ walked' \subseteq Id /\ status' \in [Id -> {"uninited", "progress", "inited"}]
      /\ inits' \in [Id -> {0, 1}] /\ calls' \in Seq(Id) /\ calls' = <<>>
  BY <1>1 DEF InitsOK
<1> QED
  BY <1>1, <1>2 DEF InitsOK

(* What a restore knows of the next entry of the table of contents.        *)
LEMMA NextEntry ==
  ASSUME IInv, pc = "toc", todo # <<>>, NEW n, n = Len(fixups)
  PROVE  /\ n \in Nat /\ n + 1 \in 1 .. Len(file.toc) /\ n + 1 <= Len(file.toc)
         /\ Head(todo) = file.toc[n + 1] /\ Head(todo) \in TocEntries
         /\ Tail(todo) \in Seq(TocEntries) /\ n + 1 + Len(Tail(todo)) = Len(file.toc)
         /\ \A i \in 1 .. Len(Tail(todo)) : Tail(todo)[i] = file.toc[n + 1 + i]
         /\ fixups \in Seq(Id \X Ref)
<1>1. /\ todo \in Seq(TocEntries) /\ n + Len(todo) = Len(file.toc)
      /\ \A i \in 1 .. Len(todo) : todo[i] = file.toc[n + i]
      /\ fixups \in Seq(Id \X Ref) /\ file.toc \in Seq(TocEntries)
  BY DEF IInv, LoadOK, FixupsOK, FileOK, GoodToc
<1>2. PICK m, t, k : m = Len(todo) /\ t = Tail(todo) /\ k = Len(file.toc)
  OBVIOUS
<1>3. /\ n \in Nat /\ m \in Nat /\ m # 0 /\ k \in Nat /\ t \in Seq(TocEntries) /\ Len(t) = m - 1
      /\ \A i \in 1 .. m - 1 : t[i] = todo[i + 1]
      /\ Head(todo) \in TocEntries /\ Head(todo) = todo[1]
  BY <1>1, <1>2, EmptySeq, LenProperties, HeadTailProperties
<1>4. n + m = k
  BY <1>1, <1>2
<1>5. n + 1 \in 1 .. k /\ n + 1 <= k /\ n + 1 + (m - 1) = k /\ 1 \in 1 .. m
  <2>1. n \in Nat /\ m \in Nat /\ m # 0 /\ n + m = k
    BY <1>3, <1>4
  <2> QED
    BY <2>1
<1>6. ASSUME NEW i \in 1 .. m - 1 PROVE t[i] = file.toc[n + 1 + i]
  <2>1. i + 1 \in 1 .. m /\ n + (i + 1) = n + 1 + i
    BY <1>3
  <2>2. todo[i + 1] = file.toc[n + (i + 1)]
    BY <1>1, <1>2, <2>1
  <2> QED
    BY <1>3, <2>1, <2>2
<1> QED
  BY <1>1, <1>2, <1>3, <1>5, <1>6

(* A new fixup.                                                            *)
LEMMA FixupAdded ==
  ASSUME FixupsOK, NEW n, n = Len(fixups), n + 1 <= Len(file.toc), NEW e \in TocEntries,
         e = file.toc[n + 1], NEW v \in Ref, fixups' = Append(fixups, <<e.id, v>>),
         IF e.transient THEN v = Nil ELSE v \in Dynamic' \ trans',
         \A i \in 1 .. n : v = Nil \/ fixups[i][2] # v,
         Dynamic \subseteq Dynamic', UNCHANGED <<trans, file>>
  PROVE  FixupsOK' /\ Len(fixups') = n + 1 /\ NewIds' = NewIds \cup {v}
<1>1. /\ fixups \in Seq(Id \X Ref) /\ <<e.id, v>> \in Id \X Ref /\ n \in Nat
  BY LenProperties DEF FixupsOK, TocEntries
<1>2. /\ fixups' \in Seq(Id \X Ref) /\ Len(fixups') = n + 1
      /\ \A i \in 1 .. n : fixups'[i] = fixups[i]
      /\ fixups'[n + 1] = <<e.id, v>>
  BY <1>1, AppendProperties
<1>3. \A i \in 1 .. n + 1 : i \in 1 .. n \/ i = n + 1
  BY <1>1
<1>4. fixups'[n + 1][1] = e.id /\ fixups'[n + 1][2] = v
  BY <1>2
<1>5. \A i \in 1 .. n :
        /\ fixups'[i][1] = file.toc[i].id
        /\ IF file.toc[i].transient THEN fixups'[i][2] = Nil ELSE fixups'[i][2] \in Dynamic' \ trans'
  BY <1>2 DEF FixupsOK
<1>6. \A i \in 1 .. n + 1 :
        /\ fixups'[i][1] = file.toc[i].id
        /\ IF file.toc[i].transient THEN fixups'[i][2] = Nil ELSE fixups'[i][2] \in Dynamic' \ trans'
  BY <1>3, <1>4, <1>5
<1>7. \A i, j \in 1 .. n : fixups'[i][2] = fixups'[j][2] /\ fixups'[i][2] # Nil => i = j
  BY <1>2 DEF FixupsOK
<1>8. \A i, j \in 1 .. n + 1 : fixups'[i][2] = fixups'[j][2] /\ fixups'[i][2] # Nil => i = j
  BY <1>2, <1>3, <1>4, <1>7
<1>9. FixupsOK'
  BY <1>2, <1>6, <1>8 DEF FixupsOK
<1>10. NewIds' = NewIds \cup {v}
  <2>1. n + 1 \in 1 .. n + 1 /\ \A i \in 1 .. n : i \in 1 .. n + 1
    BY <1>1
  <2>2. \A i \in 1 .. n : fixups'[i][2] = fixups[i][2]
    BY <1>2
  <2>3. {fixups'[i][2] : i \in 1 .. n + 1} = {fixups[i][2] : i \in 1 .. n} \cup {v}
    BY <1>3, <1>4, <2>1, <2>2
  <2> QED
    BY <1>2, <2>3 DEF NewIds
<1> QED
  BY <1>2, <1>9, <1>10

(* Reading an entry of the table of contents.                              *)
LEMMA ReadTocEntryKeeps ==
  ASSUME IInv, ReadTocEntry
  PROVE  IInv'
<1>1. TableOK /\ InitsOK /\ FileOK /\ LoadOK
  BY DEF IInv
<1>2. PICK n, e, h : n = Len(fixups) /\ e = Head(todo) /\ h = Head(free)
  OBVIOUS
<1>3. /\ pc = "toc" /\ todo # <<>> /\ todo' = Tail(todo)
      /\ UNCHANGED <<trans, changed, ref, weak, gc_on, stack, initVars, file, pc, target, failed>>
  BY DEF ReadTocEntry
<1>4. /\ n \in Nat /\ n + 1 <= Len(file.toc) /\ e = file.toc[n + 1] /\ e \in TocEntries
      /\ todo' \in Seq(TocEntries) /\ n + 1 + Len(todo') = Len(file.toc)
      /\ \A i \in 1 .. Len(todo') : todo'[i] = file.toc[n + 1 + i]
  BY <1>2, <1>3, NextEntry
<1>5. /\ ~gc_on /\ target = file.game /\ FixupsOK /\ \A o \in Id : inits[o] = 0
      /\ \A o \in Root \ TransientRoot : ref[o] = ImageRef[o] /\ weak[o] = Nil
      /\ Forgotten \subseteq NewIds
  BY <1>1, <1>3 DEF LoadOK
<1>6. /\ \E v \in Ref : /\ fixups' = Append(fixups, <<e.id, v>>)
                        /\ IF e.transient THEN v = Nil ELSE v \in Dynamic' \ trans'
                        /\ \A i \in 1 .. n : v = Nil \/ fixups[i][2] # v
                        /\ Forgotten' \subseteq Forgotten \cup {v}
      /\ TableOK' /\ Live \subseteq Live'
  <2>1. CASE e.transient
    <3>1. fixups' = Append(fixups, <<e.id, Nil>>) /\ UNCHANGED <<kind, free>>
      BY <1>2, <2>1 DEF ReadTocEntry
    <3>2. TableOK' /\ Live' = Live
      BY <1>1, <1>3, <3>1, SameTable DEF tableVars
    <3>3. Forgotten' = Forgotten
      BY <1>3, <3>1, <3>2 DEF Forgotten, initVars
    <3> QED
      BY <2>1, <3>1, <3>2, <3>3 DEF Ref
  <2>2. CASE ~e.transient
    <3>1. /\ free # <<>> /\ fixups' = Append(fixups, <<e.id, h>>)
          /\ kind' = [kind EXCEPT ![h] = "tads"] /\ free' = Tail(free)
      BY <1>2, <2>2 DEF ReadTocEntry
    <3>2. /\ h \in Id \ Live /\ Live' = Live \cup {h}
          /\ kind' \in [Id -> Kinds \cup {"free"}] /\ \A o \in Root : kind'[o] = RootKind[o]
          /\ \A o \in Live : kind'[o] = kind[o]
          /\ free' \in Seq(Id) /\ {free'[i] : i \in 1 .. Len(free')} = Id \ Live'
          /\ \A i, j \in 1 .. Len(free') : free'[i] = free'[j] => i = j
      BY <1>1, <1>2, <3>1, EntryTaken, ConstantsAre
    <3>3. /\ ref \in [Id -> Ref] /\ weak \in [Id -> Ref] /\ changed \subseteq Root
          /\ trans \subseteq Live /\ trans \cap Root = TransientRoot /\ stack \subseteq Live
          /\ \A o \in Id : ref[o] \in Live \cup {Nil} /\ weak[o] \in Live \cup {Nil}
          /\ \A o \in Id \ Live : ref[o] = Nil /\ weak[o] = Nil
          /\ \A o \in Root \ changed : ref[o] = ImageRef[o] /\ weak[o] = Nil
      BY <1>1 DEF TableOK
    <3>4. TableOK'
      BY <1>3, <3>2, <3>3 DEF TableOK
    <3>5. h \in Dynamic' \ trans' /\ h \in Ref
      BY <1>1, <1>3, <3>2, <3>3, EntryIs DEF Dynamic, Ref
    <3>6. \A i \in 1 .. n : fixups[i][2] # h
      <4>1. ASSUME NEW i \in 1 .. n PROVE fixups[i][2] # h
        <5>1. fixups[i][2] = Nil \/ fixups[i][2] \in Dynamic
          BY <1>2, <1>5 DEF FixupsOK
        <5> QED
          BY <3>2, <5>1, ConstantsAre DEF Dynamic
      <4> QED
        BY <4>1
    <3>7. Forgotten' \subseteq Forgotten \cup {h}
      BY <1>3, <3>2 DEF Forgotten, initVars
    <3> QED
      BY <2>2, <3>1, <3>2, <3>4, <3>5, <3>6, <3>7
  <2> QED
    BY <2>1, <2>2
<1>7. PICK v \in Ref : /\ fixups' = Append(fixups, <<e.id, v>>)
                       /\ IF e.transient THEN v = Nil ELSE v \in Dynamic' \ trans'
                       /\ \A i \in 1 .. n : v = Nil \/ fixups[i][2] # v
                       /\ Forgotten' \subseteq Forgotten \cup {v}
  BY <1>6
<1>8. FixupsOK' /\ Len(fixups') = n + 1 /\ NewIds' = NewIds \cup {v}
  <2>1. Dynamic \subseteq Dynamic' /\ UNCHANGED <<trans, file>>
    BY <1>3, <1>6 DEF Dynamic
  <2> QED
    BY <1>2, <1>4, <1>5, <1>7, <2>1, FixupAdded
<1>9. InitsOK'
  <2>1. reg' \subseteq Live' /\ ready' \subseteq Live' /\ reg \subseteq reg'
    BY <1>1, <1>3, <1>6 DEF InitsOK, initVars
  <2> QED
    BY <1>1, <1>3, <2>1, InitsRead DEF initVars
<1>10. LoadOK'
  BY <1>1, <1>3, <1>4, <1>5, <1>7, <1>8 DEF LoadOK, initVars
<1>11. RestoredGame'
  BY <1>3 DEF RestoredGame
<1> QED
  BY <1>1, <1>3, <1>6, <1>9, <1>10, <1>11, SameFile DEF IInv

(* What get_new_id returns when the table of contents has been read.       *)
LEMMA NewIdIs ==
  ASSUME TableOK, FileOK, FixupsOK, Len(fixups) = Len(file.toc)
  PROVE  /\ \A o \in Root \cup {Nil} : GetNewId(o) = o
         /\ \A i \in 1 .. Len(file.toc) : GetNewId(file.toc[i].id) = fixups[i][2]
         /\ \A i \in 1 .. Len(file.toc) : file.toc[i].id \in Id \ Root
         /\ \A o \in DOMAIN file.game.kind \ Root : GetNewId(o) \in Dynamic \ trans
         /\ \A o, p \in DOMAIN file.game.kind : GetNewId(o) = GetNewId(p) => o = p
         /\ \A o \in DOMAIN file.game.kind \cup Root \cup {Nil} : GetNewId(o) \in Live \cup {Nil}
         /\ \A o \in DOMAIN file.game.kind : GetNewId(o) \in Live \ trans
<1>1. PICK n, P : n = Len(file.toc) /\ P = DOMAIN file.game.kind
  OBVIOUS
<1>2. /\ file.toc \in Seq(TocEntries) /\ n \in Nat /\ \A i \in 1 .. n : file.toc[i] \in TocEntries
      /\ \A i, j \in 1 .. n : i < j => file.toc[i].id < file.toc[j].id
      /\ \A i \in 1 .. n : ~file.toc[i].transient <=> file.toc[i].id \in P
      /\ \A o \in P \ Root : \E i \in 1 .. n : file.toc[i].id = o
      /\ P \subseteq Id /\ P \cap Root = Root \ TransientRoot
  <2>1. GoodToc(file.toc, file.game)
    BY DEF FileOK
  <2>2. file.toc \in Seq(TocEntries)
    BY <2>1 DEF GoodToc
  <2>3. n \in Nat /\ \A i \in 1 .. n : file.toc[i] \in TocEntries
    BY <1>1, <2>2, LenProperties, ElementOfSeq
  <2>4. P \subseteq Id /\ P \cap Root = Root \ TransientRoot
    BY <1>1 DEF FileOK, GoodGame
  <2> QED
    BY <1>1, <2>1, <2>2, <2>3, <2>4 DEF GoodToc
<1>3. /\ DOMAIN fixups = 1 .. n
      /\ \A i \in 1 .. n : fixups[i][1] = file.toc[i].id
      /\ \A i \in 1 .. n : IF file.toc[i].transient THEN fixups[i][2] = Nil
                           ELSE fixups[i][2] \in Dynamic \ trans
      /\ \A i, j \in 1 .. n : fixups[i][2] = fixups[j][2] /\ fixups[i][2] # Nil => i = j
  BY <1>1, LenProperties DEF FixupsOK
<1>4. \A o \in Root \cup {Nil} : GetNewId(o) = o
  BY DEF GetNewId
<1>5. \A i \in 1 .. n : file.toc[i].id \in Id \ Root
  BY <1>2 DEF TocEntries
<1>6. \A i, j \in 1 .. n : file.toc[i].id = file.toc[j].id => i = j
  <2>1. ASSUME NEW i \in 1 .. n, NEW j \in 1 .. n, i < j PROVE file.toc[i].id # file.toc[j].id
    <3>1. /\ file.toc[i].id < file.toc[j].id
          /\ file.toc[i].id \in Nat /\ file.toc[j].id \in Nat
      BY <1>2, <1>5, <2>1, ConstantsAre DEF Id
    <3> QED
      BY <3>1
  <2> QED
    BY <1>2, <2>1
<1>7. ASSUME NEW i \in 1 .. n PROVE GetNewId(file.toc[i].id) = fixups[i][2]
  <2>1. PICK o : o = file.toc[i].id
    OBVIOUS
  <2>2. o \notin Root \cup {Nil}
    BY <1>5, <2>1, ConstantsAre
  <2>3. {j \in DOMAIN fixups : fixups[j][1] = o} = {i}
    BY <1>3, <1>6, <2>1
  <2>4. GetNewId(o) = fixups[CHOOSE j \in {i} : TRUE][2]
    BY <2>2, <2>3 DEF GetNewId
  <2> QED
    BY <2>1, <2>4
<1>8. ASSUME NEW o \in P \ Root
      PROVE  \E i \in 1 .. n : /\ file.toc[i].id = o /\ GetNewId(o) = fixups[i][2]
                               /\ fixups[i][2] \in Dynamic \ trans
  BY <1>2, <1>3, <1>7
<1>9. \A o \in P \ Root : GetNewId(o) \in Dynamic \ trans
  BY <1>8
<1>10. ASSUME NEW o \in P, NEW p \in P, GetNewId(o) = GetNewId(p) PROVE o = p
  <2>1. \A q \in P : GetNewId(q) \in Root <=> q \in Root
    BY <1>4, <1>9 DEF Dynamic
  <2>2. CASE o \in Root
    BY <1>4, <1>10, <2>1, <2>2
  <2>3. CASE o \notin Root
    <3>1. o \in P \ Root /\ p \in P \ Root
      BY <1>10, <2>1, <2>3
    <3>2. PICK i \in 1 .. n : /\ file.toc[i].id = o /\ GetNewId(o) = fixups[i][2]
                              /\ fixups[i][2] \in Dynamic \ trans
      BY <1>8, <3>1
    <3>3. PICK j \in 1 .. n : file.toc[j].id = p /\ GetNewId(p) = fixups[j][2]
      BY <1>8, <3>1
    <3>4. fixups[i][2] # Nil
      BY <3>2, ConstantsAre, EntryIs DEF Dynamic
    <3>5. i = j
      BY <1>3, <1>10, <3>2, <3>3, <3>4
    <3> QED
      BY <3>2, <3>3, <3>5
  <2> QED
    BY <2>2, <2>3
<1>11. \A o \in P \cup Root \cup {Nil} : GetNewId(o) \in Live \cup {Nil}
  BY <1>4, <1>9, EntryIs DEF Dynamic
<1>12. \A o \in P : GetNewId(o) \in Live \ trans
  <2>1. ASSUME NEW o \in P PROVE GetNewId(o) \in Live \ trans
    <3>1. CASE o \in Root
      BY <1>2, <1>4, <3>1, EntryIs DEF TableOK
    <3>2. CASE o \notin Root
      BY <1>9, <3>2 DEF Dynamic
    <3> QED
      BY <3>1, <3>2
  <2> QED
    BY <2>1
<1> QED
  BY <1>1, <1>4, <1>5, <1>7, <1>9, <1>10, <1>11, <1>12

(* When all new IDs are given out.                                         *)
LEMMA TocReadKeeps ==
  ASSUME IInv, TocRead
  PROVE  IInv'
<1>1. TableOK /\ InitsOK /\ FileOK /\ LoadOK
  BY DEF IInv
<1>2. /\ pc = "toc" /\ todo = <<>> /\ pc' = "read" /\ todo' = file.objs
      /\ UNCHANGED <<tableVars, gc_on, stack, initVars, file, fixups, target, failed>>
  BY DEF TocRead
<1>3. /\ ~gc_on /\ target = file.game /\ FixupsOK /\ \A o \in Id : inits[o] = 0
      /\ Len(fixups) + Len(todo) = Len(file.toc)
      /\ \A o \in Root \ TransientRoot : ref[o] = ImageRef[o] /\ weak[o] = Nil
      /\ Forgotten \subseteq NewIds
  BY <1>1, <1>2 DEF LoadOK
<1>4. Len(fixups) = Len(file.toc)
  <2>1. Len(todo) = 0 /\ Len(fixups) \in Nat
    BY <1>2, <1>3, LenProperties DEF FixupsOK
  <2> QED
    BY <1>3, <2>1
<1>5. TableOK' /\ Live' = Live
  BY <1>1, <1>2, SameTable
<1>6. PICK g, P : g = file.game /\ P = DOMAIN g.kind
  OBVIOUS
<1>7. /\ \A o \in Root \cup {Nil} : GetNewId(o) = o
      /\ \A i \in 1 .. Len(file.toc) : GetNewId(file.toc[i].id) = fixups[i][2]
      /\ \A i \in 1 .. Len(file.toc) : file.toc[i].id \in Id \ Root
  BY <1>1, <1>3, <1>4, NewIdIs
<1>8. /\ file.objs \in Seq(Records)
      /\ \A o \in P : (\A i \in 1 .. Len(file.objs) : file.objs[i].id # o)
                      => o \in Root /\ g.ref[o] = ImageRef[o] /\ g.weak[o] = Nil
  BY <1>1, <1>6 DEF FileOK, GoodObjs
<1>9. /\ P \subseteq Id /\ P \cap Root = Root \ TransientRoot
      /\ \A o \in P : o \in Root => g.kind[o] = RootKind[o]
      /\ \A i \in 1 .. Len(file.toc) : ~file.toc[i].transient <=> file.toc[i].id \in P
  BY <1>1, <1>6 DEF FileOK, GoodGame, GoodToc
<1>10. PICK U : U = {file.objs[i].id : i \in 1 .. Len(file.objs)}
  OBVIOUS
<1>11. Unread' = U
  BY <1>2, <1>10 DEF Unread
<1>12. \A o : GetNewId(o)' = GetNewId(o)
  BY <1>2 DEF GetNewId
<1>13. ASSUME NEW o \in P \ U PROVE Rebuilt(o)'
  <2>1. o \in Root /\ g.ref[o] = ImageRef[o] /\ g.weak[o] = Nil
    BY <1>8, <1>10
  <2>2. /\ o \in Root \ TransientRoot /\ kind[o] = RootKind[o] /\ g.kind[o] = RootKind[o]
        /\ ref[o] = ImageRef[o] /\ weak[o] = Nil
    BY <1>1, <1>3, <1>9, <2>1 DEF TableOK
  <2>3. GetNewId(o) = o /\ GetNewId(g.ref[o]) = ref[o] /\ GetNewId(g.weak[o]) = weak[o]
    BY <1>7, <2>1, <2>2, ConstantsAre
  <2>4. kind' = kind /\ ref' = ref /\ weak' = weak /\ file'.game = g
    BY <1>2, <1>6 DEF tableVars
  <2> QED
    BY <1>12, <2>2, <2>3, <2>4 DEF Rebuilt
<1>14. ASSUME NEW f \in Forgotten PROVE \E o \in U : GetNewId(o) = f
  <2>1. PICK i \in 1 .. Len(file.toc) : f = fixups[i][2]
    BY <1>3, <1>4 DEF NewIds
  <2>2. f # Nil
    BY <1>1, EntryIs, ConstantsAre DEF Forgotten
  <2>3. ~file.toc[i].transient
    BY <1>3, <1>4, <2>1, <2>2 DEF FixupsOK
  <2>4. file.toc[i].id \in P \ Root
    BY <1>7, <1>9, <2>3
  <2>5. file.toc[i].id \in U
    BY <1>8, <1>10, <2>4
  <2> QED
    BY <1>7, <2>1, <2>5
<1>15. Forgotten' \subseteq {GetNewId(o)' : o \in U}
  <2>1. Forgotten' = Forgotten
    BY <1>2, <1>5 DEF Forgotten, tableVars, initVars
  <2> QED
    BY <1>12, <1>14, <2>1
<1>16. FixupsOK'
  BY <1>2, <1>3, <1>5 DEF FixupsOK, tableVars, Dynamic
<1>17. InitsOK'
  <2>1. reg' \subseteq Live' /\ ready' \subseteq Live' /\ reg \subseteq reg'
    BY <1>1, <1>2, <1>5 DEF InitsOK, initVars
  <2> QED
    BY <1>1, <1>2, <2>1, InitsRead DEF initVars
<1>18. LoadOK'
  <2>1. \A o \in DOMAIN file'.game.kind \ Unread' : Rebuilt(o)'
    BY <1>2, <1>6, <1>11, <1>13
  <2>2. Forgotten' \subseteq {GetNewId(o)' : o \in Unread'}
    BY <1>11, <1>15
  <2>3. /\ pc' \in Phases /\ gc_on' \in BOOLEAN /\ failed' \in BOOLEAN /\ pc' # "run" /\ pc' # "toc"
        /\ ~gc_on' /\ target' = file'.game /\ \A o \in Id : inits'[o] = 0
        /\ Len(fixups') = Len(file'.toc) /\ todo' \in Seq(Records)
    BY <1>1, <1>2, <1>3, <1>4, <1>8 DEF LoadOK, Phases, initVars
  <2>4. \A i \in 1 .. Len(todo') : \E j \in 1 .. Len(file'.objs) : todo'[i] = file'.objs[j]
    BY <1>2
  <2> QED
    BY <1>16, <2>1, <2>2, <2>3, <2>4 DEF LoadOK
<1>19. RestoredGame'
  BY <1>2 DEF RestoredGame
<1> QED
  BY <1>1, <1>2, <1>5, <1>17, <1>18, <1>19, SameFile DEF IInv

(* What a restore knows of the next record.                                *)
LEMMA NextRecord ==
  ASSUME IInv, pc = "read", todo # <<>>
  PROVE  /\ GoodRecord(Head(todo), file.toc, file.game) /\ Tail(todo) \in Seq(Records)
         /\ \A i \in 1 .. Len(Tail(todo)) : \E j \in 1 .. Len(file.objs) : Tail(todo)[i] = file.objs[j]
         /\ Unread = {Head(todo).id} \cup {Tail(todo)[i].id : i \in 1 .. Len(Tail(todo))}
<1>1. /\ todo \in Seq(Records)
      /\ \A i \in 1 .. Len(todo) : \E j \in 1 .. Len(file.objs) : todo[i] = file.objs[j]
      /\ \A i \in 1 .. Len(file.objs) : GoodRecord(file.objs[i], file.toc, file.game)
  BY DEF IInv, LoadOK, FileOK, GoodObjs
<1>2. PICK m, t : m = Len(todo) /\ t = Tail(todo)
  OBVIOUS
<1>3. /\ m \in Nat /\ m # 0 /\ t \in Seq(Records) /\ Len(t) = m - 1
      /\ \A i \in 1 .. m - 1 : t[i] = todo[i + 1]
      /\ Head(todo) = todo[1]
  BY <1>1, <1>2, EmptySeq, LenProperties, HeadTailProperties
<1>4. 1 \in 1 .. m /\ \A i \in 1 .. m - 1 : i + 1 \in 1 .. m
  BY <1>3
<1>5. GoodRecord(Head(todo), file.toc, file.game)
  BY <1>1, <1>2, <1>3, <1>4
<1>6. \A i \in 1 .. m - 1 : \E j \in 1 .. Len(file.objs) : t[i] = file.objs[j]
  BY <1>1, <1>2, <1>3, <1>4
<1>7. {todo[i].id : i \in 1 .. m} = {todo[1].id} \cup {t[i].id : i \in 1 .. m - 1}
  <2>1. ASSUME NEW i \in 1 .. m PROVE i = 1 \/ \E j \in 1 .. m - 1 : todo[i] = t[j]
    <3>1. CASE i # 1
      <4>1. i - 1 \in 1 .. m - 1 /\ (i - 1) + 1 = i
        BY <1>3, <3>1
      <4>2. PICK j : j = i - 1
        OBVIOUS
      <4> QED
        BY <1>3, <4>1, <4>2
    <3> QED
      BY <3>1
  <2>2. ASSUME NEW i \in 1 .. m PROVE todo[i].id \in {todo[1].id} \cup {t[j].id : j \in 1 .. m - 1}
    BY <2>1
  <2>3. ASSUME NEW i \in 1 .. m - 1 PROVE \E j \in 1 .. m : t[i].id = todo[j].id
    BY <1>3, <1>4
  <2>4. \E j \in 1 .. m : todo[1].id = todo[j].id
    BY <1>4
  <2> QED
    BY <2>2, <2>3, <2>4
<1> QED
  BY <1>2, <1>3, <1>5, <1>6, <1>7 DEF Unread

(* Reading a record.                                                       *)
LEMMA ReadObjectKeeps ==
  ASSUME IInv, ReadObject
  PROVE  IInv'
<1>1. TableOK /\ InitsOK /\ FileOK /\ LoadOK
  BY DEF IInv
<1>2. PICK r, n, g, P : /\ r = Head(todo) /\ n = GetNewId(r.id)
                        /\ g = file.game /\ P = DOMAIN g.kind
  OBVIOUS
<1>3. /\ pc = "read" /\ todo # <<>> /\ todo' = Tail(todo)
      /\ kind' = [kind EXCEPT ![n] = r.kind]
      /\ ref' = [ref EXCEPT ![n] = GetNewId(r.ref)]
      /\ weak' = [weak EXCEPT ![n] = GetNewId(r.weak)]
      /\ changed' = (IF n \in Root THEN changed \cup {n} ELSE changed)
      /\ reg' = reg \cup Requests(n, r.kind) /\ ready' = ready \ {n}
      /\ UNCHANGED <<free, trans, gc_on, stack, status, calls, walked, inits, file, pc, fixups,
                     target, failed>>
  BY <1>2 DEF ReadObject
<1>4. /\ ~gc_on /\ target = file.game /\ FixupsOK /\ \A o \in Id : inits[o] = 0
      /\ Len(fixups) = Len(file.toc)
      /\ \A o \in P \ Unread : Rebuilt(o)
      /\ Forgotten \subseteq {GetNewId(o) : o \in Unread}
  BY <1>1, <1>2, <1>3 DEF LoadOK
<1>5. /\ GoodRecord(r, file.toc, g) /\ todo' \in Seq(Records)
      /\ \A i \in 1 .. Len(todo') : \E j \in 1 .. Len(file.objs) : todo'[i] = file.objs[j]
      /\ Unread = {r.id} \cup Unread'
  BY <1>2, <1>3, NextRecord DEF Unread
<1>6. /\ \A o \in Root \cup {Nil} : GetNewId(o) = o
      /\ \A i \in 1 .. Len(file.toc) : GetNewId(file.toc[i].id) = fixups[i][2]
      /\ \A o \in P \ Root : GetNewId(o) \in Dynamic \ trans
      /\ \A o, p \in P : GetNewId(o) = GetNewId(p) => o = p
      /\ \A o \in P \cup Root \cup {Nil} : GetNewId(o) \in Live \cup {Nil}
      /\ \A o \in P : GetNewId(o) \in Live \ trans
  BY <1>1, <1>2, <1>4, NewIdIs
<1>7. /\ r.id \in P /\ r.kind = g.kind[r.id] /\ r.weak = g.weak[r.id] /\ r.kind \in Kinds
      /\ \/ r.ref = g.ref[r.id]
         \/ /\ g.ref[r.id] = Nil
            /\ \E i \in 1 .. Len(file.toc) : file.toc[i].id = r.ref /\ file.toc[i].transient
  BY <1>2, <1>5 DEF GoodRecord, Records
<1>8. /\ g.ref[r.id] \in P \cup Root \cup {Nil} /\ g.weak[r.id] \in P \cup {Nil}
      /\ r.id \in Root => g.kind[r.id] = RootKind[r.id]
  BY <1>1, <1>2, <1>7 DEF FileOK, GoodGame
<1>9. GetNewId(r.ref) = GetNewId(g.ref[r.id])
  <2>1. CASE r.ref = g.ref[r.id]
    BY <2>1
  <2>2. CASE r.ref # g.ref[r.id]
    <3>1. PICK i \in 1 .. Len(file.toc) : file.toc[i].id = r.ref /\ file.toc[i].transient
      BY <1>7, <2>2
    <3>2. fixups[i][2] = Nil
      BY <1>4, <3>1 DEF FixupsOK
    <3>3. GetNewId(r.ref) = Nil
      BY <1>6, <3>1, <3>2
    <3> QED
      BY <1>6, <1>7, <2>2, <3>3
  <2> QED
    BY <2>1, <2>2
<1>10. PICK v, w : v = GetNewId(g.ref[r.id]) /\ w = GetNewId(g.weak[r.id])
  OBVIOUS
<1>11. /\ n \in Live /\ n \in Id /\ v \in Live \cup {Nil} /\ w \in Live \cup {Nil}
       /\ v \in Ref /\ w \in Ref /\ Live \subseteq Id
       /\ n \in Root => r.kind = RootKind[n]
  <2>1. n \in Live /\ v \in Live \cup {Nil} /\ w \in Live \cup {Nil} /\ Live \subseteq Id
    BY <1>1, <1>2, <1>6, <1>7, <1>8, <1>10, EntryIs, ConstantsAre
  <2>2. n \in Root => r.id = n
    BY <1>2, <1>6, <1>7 DEF Dynamic
  <2> QED
    BY <1>7, <1>8, <2>1, <2>2 DEF Ref
<1>12. /\ kind \in [Id -> Kinds \cup {"free"}] /\ \A o \in Root : kind[o] = RootKind[o]
       /\ ref \in [Id -> Ref] /\ weak \in [Id -> Ref] /\ changed \subseteq Root
       /\ \A o \in Id : ref[o] \in Live \cup {Nil} /\ weak[o] \in Live \cup {Nil}
       /\ \A o \in Id \ Live : ref[o] = Nil /\ weak[o] = Nil
       /\ \A o \in Root \ changed : ref[o] = ImageRef[o] /\ weak[o] = Nil
  BY <1>1 DEF TableOK
<1>13. /\ kind'[n] = r.kind /\ ref'[n] = v /\ weak'[n] = w
       /\ \A o \in Id : o # n => kind'[o] = kind[o] /\ ref'[o] = ref[o] /\ weak'[o] = weak[o]
       /\ kind' \in [Id -> Kinds \cup {"free"}] /\ ref' \in [Id -> Ref] /\ weak' \in [Id -> Ref]
  BY <1>3, <1>7, <1>9, <1>10, <1>11, <1>12
<1>14. Live' = Live
  BY <1>7, <1>11, <1>13, ConstantsAre DEF Live
<1>15. TableOK'
  <2>1. \A o \in Root : kind'[o] = RootKind[o]
    BY <1>11, <1>12, <1>13, ConstantsAre
  <2>2. \A o \in Id : ref'[o] \in Live' \cup {Nil} /\ weak'[o] \in Live' \cup {Nil}
    BY <1>11, <1>12, <1>13, <1>14
  <2>3. \A o \in Id \ Live' : ref'[o] = Nil /\ weak'[o] = Nil
    BY <1>11, <1>12, <1>13, <1>14
  <2>4. \A o \in Root \ changed' : ref'[o] = ImageRef[o] /\ weak'[o] = Nil
    <3>1. ASSUME NEW o \in Root \ changed' PROVE ref'[o] = ImageRef[o] /\ weak'[o] = Nil
      <4>1. o # n /\ o \notin changed /\ o \in Id
        BY <1>3, <3>1, ConstantsAre
      <4> QED
        BY <1>12, <1>13, <3>1, <4>1
    <3> QED
      BY <3>1
  <2>5. /\ free' \in Seq(Id) /\ {free'[i] : i \in 1 .. Len(free')} = Id \ Live'
        /\ \A i, j \in 1 .. Len(free') : free'[i] = free'[j] => i = j
        /\ trans' \subseteq Live' /\ trans' \cap Root = TransientRoot
        /\ stack' \subseteq Live' /\ changed' \subseteq Root
    BY <1>1, <1>3, <1>14 DEF TableOK
  <2> QED
    BY <1>13, <2>1, <2>2, <2>3, <2>4, <2>5 DEF TableOK
<1>16. InitsOK'
  <2>1. reg' \subseteq Live' /\ ready' \subseteq Live' /\ reg \subseteq reg'
    BY <1>1, <1>3, <1>11, <1>14 DEF InitsOK, Requests
  <2> QED
    BY <1>1, <1>3, <2>1, InitsRead
<1>17. \A o : GetNewId(o)' = GetNewId(o)
  BY <1>3 DEF GetNewId
<1>18. ASSUME NEW o \in P \ Unread' PROVE Rebuilt(o)'
  <2>1. CASE o = r.id
    <3>1. kind'[n] = g.kind[o] /\ ref'[n] = GetNewId(g.ref[o]) /\ weak'[n] = GetNewId(g.weak[o])
      BY <1>7, <1>10, <1>13, <2>1
    <3> QED
      BY <1>2, <1>3, <1>17, <2>1, <3>1 DEF Rebuilt
  <2>2. CASE o # r.id
    <3>1. PICK m : m = GetNewId(o)
      OBVIOUS
    <3>2. m # n /\ m \in Id
      BY <1>2, <1>6, <1>7, <1>11, <2>2, <3>1
    <3>3. kind[m] = g.kind[o] /\ ref[m] = GetNewId(g.ref[o]) /\ weak[m] = GetNewId(g.weak[o])
      BY <1>2, <1>4, <1>5, <2>2, <3>1 DEF Rebuilt
    <3>4. kind'[m] = g.kind[o] /\ ref'[m] = GetNewId(g.ref[o]) /\ weak'[m] = GetNewId(g.weak[o])
      BY <1>13, <3>2, <3>3
    <3> QED
      BY <1>2, <1>3, <1>17, <3>1, <3>4 DEF Rebuilt
  <2> QED
    BY <2>1, <2>2
<1>19. ASSUME NEW f \in Forgotten' PROVE \E o \in Unread' : GetNewId(o) = f
  <2>1. f \in Live' /\ kind'[f] \in Initialized /\ f \notin reg' /\ f \notin ready'
    BY DEF Forgotten
  <2>2. f # n
    BY <1>3, <1>13, <2>1 DEF Requests
  <2>3. f \in Forgotten
    BY <1>3, <1>11, <1>13, <1>14, <2>1, <2>2 DEF Forgotten
  <2>4. PICK o \in Unread : f = GetNewId(o)
    BY <1>4, <2>3
  <2> QED
    BY <1>2, <1>5, <2>2, <2>4
<1>20. FixupsOK'
  BY <1>3, <1>4, <1>14 DEF FixupsOK, Dynamic
<1>21. LoadOK'
  <2>1. \A o \in DOMAIN file'.game.kind \ Unread' : Rebuilt(o)'
    BY <1>2, <1>3, <1>18
  <2>2. Forgotten' \subseteq {GetNewId(o)' : o \in Unread'}
    BY <1>17, <1>19
  <2>3. /\ pc' \in Phases /\ gc_on' \in BOOLEAN /\ failed' \in BOOLEAN /\ pc' # "run" /\ pc' # "toc"
        /\ ~gc_on' /\ target' = file'.game /\ \A o \in Id : inits'[o] = 0
        /\ Len(fixups') = Len(file'.toc) /\ todo' \in Seq(Records)
    BY <1>1, <1>3, <1>4, <1>5 DEF LoadOK, Phases
  <2>4. \A i \in 1 .. Len(todo') : \E j \in 1 .. Len(file'.objs) : todo'[i] = file'.objs[j]
    BY <1>3, <1>5
  <2> QED
    BY <1>20, <2>1, <2>2, <2>3, <2>4 DEF LoadOK
<1>22. RestoredGame'
  BY <1>3 DEF RestoredGame
<1> QED
  BY <1>1, <1>3, <1>15, <1>16, <1>21, <1>22, SameFile DEF IInv

(* When all records are read, the persistent objects are those of the      *)
(* saved game under their new IDs.                                         *)
LEMMA PersistentRead ==
  ASSUME IInv, pc = "read", todo = <<>>, NEW g, g = file.game, NEW P, P = DOMAIN g.kind
  PROVE  /\ Persistent = {GetNewId(o) : o \in P} /\ \A o \in P : Rebuilt(o)
         /\ Forgotten = {}
<1>1. TableOK /\ FileOK /\ LoadOK
  BY DEF IInv
<1>2. Unread = {}
  BY DEF Unread
<1>3. /\ FixupsOK /\ Len(fixups) = Len(file.toc) /\ \A o \in P : Rebuilt(o)
      /\ Forgotten = {}
  BY <1>1, <1>2 DEF LoadOK
<1>4. /\ \A o \in Root \cup {Nil} : GetNewId(o) = o
      /\ \A o \in P \cup Root \cup {Nil} : GetNewId(o) \in Live \cup {Nil}
      /\ \A o \in P : GetNewId(o) \in Live \ trans
  BY <1>1, <1>3, NewIdIs
<1>5. /\ P \subseteq Id /\ P \cap Root = Root \ TransientRoot
      /\ \A o \in P : g.ref[o] \in P \cup Root \cup {Nil}
      /\ \A C \in SUBSET Id :
           /\ Root \subseteq C
           /\ \A o \in C \cap P : g.ref[o] \in C \cup {Nil}
           => P \subseteq C
  BY <1>1 DEF FileOK, GoodGame
<1>6. /\ IsReach(ref, Root, trans, Traced) /\ Traced \subseteq Live /\ Live \subseteq Id
      /\ Root \subseteq Live /\ trans \cap Root = TransientRoot /\ Nil \notin Id
  BY <1>1, TracedIs, EntryIs, ConstantsAre DEF TableOK
<1>7. \A o \in P : ref[GetNewId(o)] = GetNewId(g.ref[o])
  BY <1>3 DEF Rebuilt
<1>8. PICK new : new = [o \in P \cup Root \cup {Nil} |-> GetNewId(o)]
  OBVIOUS
<1>9. /\ \A o \in Root \cup {Nil} : new[o] = o
      /\ \A o \in P \cup Root \cup {Nil} : new[o] \in Live \cup {Nil}
      /\ \A o \in P : new[o] \in Live /\ new[o] \notin trans /\ ref[new[o]] = new[g.ref[o]]
      /\ {GetNewId(o) : o \in P} = {new[o] : o \in P}
  <2>1. \A o \in P \cup Root \cup {Nil} : new[o] = GetNewId(o)
    BY <1>8
  <2>2. {GetNewId(o) : o \in P} = {new[o] : o \in P}
    BY <2>1
  <2>3. ASSUME NEW o \in P PROVE new[o] \in Live /\ new[o] \notin trans /\ ref[new[o]] = new[g.ref[o]]
    BY <1>4, <1>5, <1>7, <2>1
  <2> QED
    BY <1>4, <2>1, <2>2, <2>3
<1>10. PICK N : N = Root \cup {new[o] : o \in P}
  OBVIOUS
<1>11. Traced \subseteq N
  <2>1. N \in SUBSET Id /\ Root \subseteq N
    BY <1>6, <1>9, <1>10
  <2>2. ASSUME NEW x \in N \ trans PROVE ref[x] \in N \cup {Nil}
    <3>1. \E o \in P : x = new[o]
      <4>1. CASE x \in Root
        BY <1>5, <1>6, <1>9, <2>2, <4>1
      <4>2. CASE x \notin Root
        BY <1>10, <4>2
      <4> QED
        BY <4>1, <4>2
    <3>2. PICK o \in P : x = new[o]
      BY <3>1
    <3>3. g.ref[o] \in P \cup Root \cup {Nil} /\ ref[x] = new[g.ref[o]]
      BY <1>5, <1>9, <3>2
    <3>4. CASE g.ref[o] \in P
      BY <1>10, <3>3, <3>4
    <3>5. CASE g.ref[o] \in Root \cup {Nil}
      BY <1>9, <1>10, <3>3, <3>5
    <3> QED
      BY <3>3, <3>4, <3>5
  <2> QED
    BY <1>6, <2>1, <2>2 DEF IsReach
<1>12. PICK C : C = Root \cup {o \in P : new[o] \in Traced}
  OBVIOUS
<1>13. P \subseteq C
  <2>1. C \in SUBSET Id /\ Root \subseteq C
    BY <1>5, <1>6, <1>12
  <2>2. ASSUME NEW o \in C \cap P PROVE g.ref[o] \in C \cup {Nil}
    <3>1. new[o] \in Traced
      BY <1>6, <1>9, <1>12 DEF IsReach
    <3>2. new[g.ref[o]] \in Traced \cup {Nil}
      BY <1>6, <1>9, <2>2, <3>1 DEF IsReach
    <3>3. g.ref[o] \in P \cup Root \cup {Nil}
      BY <1>5, <2>2
    <3>4. CASE g.ref[o] \in P
      <4>1. new[g.ref[o]] # Nil
        BY <1>6, <1>9, <3>4
      <4> QED
        BY <1>12, <3>2, <3>4, <4>1
    <3>5. CASE g.ref[o] \in Root \cup {Nil}
      BY <1>12, <3>5
    <3> QED
      BY <3>3, <3>4, <3>5
  <2> QED
    BY <1>5, <2>1, <2>2
<1>14. \A o \in P : new[o] \in Traced
  BY <1>6, <1>9, <1>12, <1>13 DEF IsReach
<1>15. Persistent = {new[o] : o \in P}
  <2>1. ASSUME NEW x \in Persistent PROVE \E o \in P : x = new[o]
    <3>1. x \in N /\ x \notin trans
      BY <1>11 DEF Persistent
    <3> QED
      BY <1>5, <1>6, <1>9, <1>10, <3>1
  <2>2. ASSUME NEW o \in P PROVE new[o] \in Persistent
    BY <1>9, <1>14 DEF Persistent
  <2> QED
    BY <2>1, <2>2
<1> QED
  BY <1>3, <1>9, <1>15

(* When all records are read, the saved game is restored.                  *)
LEMMA GameRead ==
  ASSUME IInv, pc = "read", todo = <<>>
  PROVE  SameGame(file.game, Game) /\ \A o \in Persistent : weak[o] \in Lasting \cup {Nil}
<1>1. PICK g, P, h, Q : g = file.game /\ P = DOMAIN g.kind /\ h = Game /\ Q = Persistent
  OBVIOUS
<1>2. TableOK /\ FileOK /\ LoadOK
  BY DEF IInv
<1>3. Q = {GetNewId(o) : o \in P} /\ \A o \in P : Rebuilt(o)
  BY <1>1, PersistentRead
<1>4. FixupsOK /\ Len(fixups) = Len(file.toc)
  BY <1>2 DEF LoadOK
<1>5. /\ \A o \in Root \cup {Nil} : GetNewId(o) = o
      /\ \A o \in P \ Root : GetNewId(o) \in Dynamic
      /\ \A o, p \in P : GetNewId(o) = GetNewId(p) => o = p
  BY <1>1, <1>2, <1>4, NewIdIs
<1>6. /\ P \subseteq Id
      /\ \A o \in P : g.ref[o] \in P \cup Root \cup {Nil} /\ g.weak[o] \in P \cup {Nil}
  BY <1>1, <1>2 DEF FileOK, GoodGame
<1>7. PICK new : new = [o \in P \cup Root \cup {Nil} |-> GetNewId(o)]
  OBVIOUS
<1>8. /\ \A o \in Root \cup {Nil} : new[o] = o
      /\ \A o \in P \ Root : new[o] \notin Root
      /\ \A o, p \in P : new[o] = new[p] => o = p
      /\ Q = {new[o] : o \in P}
  BY <1>3, <1>5, <1>7 DEF Dynamic
<1>9. \A o \in P : /\ kind[new[o]] = g.kind[o] /\ ref[new[o]] = new[g.ref[o]]
                   /\ weak[new[o]] = new[g.weak[o]]
  <2>1. ASSUME NEW o \in P
        PROVE  /\ kind[new[o]] = g.kind[o] /\ ref[new[o]] = new[g.ref[o]]
               /\ weak[new[o]] = new[g.weak[o]]
    <3>1. Rebuilt(o) /\ new[o] = GetNewId(o)
      BY <1>3, <1>7
    <3>2. new[g.ref[o]] = GetNewId(g.ref[o]) /\ new[g.weak[o]] = GetNewId(g.weak[o])
      BY <1>6, <1>7
    <3> QED
      BY <1>1, <3>1, <3>2 DEF Rebuilt
  <2> QED
    BY <2>1
<1>10. /\ DOMAIN h.kind = Q
       /\ \A x \in Q : /\ h.kind[x] = kind[x]
                       /\ h.ref[x] = IF ref[x] \in Q \cup Root THEN ref[x] ELSE Nil
                       /\ h.weak[x] = IF Lasts(x, weak[x]) THEN weak[x] ELSE Nil
  BY <1>1 DEF Game, Lasting
<1>11. ASSUME NEW o \in P
       PROVE  /\ new[o] \in Q /\ ref[new[o]] \in Q \cup Root \cup {Nil}
              /\ weak[new[o]] \in Q \cup {Nil}
              /\ h.kind[new[o]] = g.kind[o] /\ h.ref[new[o]] = new[g.ref[o]]
              /\ h.weak[new[o]] = new[g.weak[o]]
  <2>1. new[o] \in Q
    BY <1>8
  <2>2. ref[new[o]] \in Q \cup Root \cup {Nil}
    BY <1>6, <1>8, <1>9
  <2>3. weak[new[o]] \in Q \cup {Nil}
    BY <1>6, <1>8, <1>9
  <2>4. h.kind[new[o]] = g.kind[o]
    BY <1>9, <1>10, <2>1
  <2>5. h.ref[new[o]] = new[g.ref[o]]
    BY <1>9, <1>10, <2>1, <2>2
  <2>6. h.weak[new[o]] = new[g.weak[o]]
    BY <1>1, <1>9, <1>10, <2>1, <2>3 DEF Lasts
  <2> QED
    BY <2>1, <2>2, <2>3, <2>4, <2>5, <2>6
<1>12. \A x \in Q : weak[x] \in Lasting \cup {Nil}
  BY <1>1, <1>8, <1>11 DEF Lasting
<1>13. Cardinality(P) = Cardinality(Q)
  <2>1. IsFiniteSet(P)
    BY <1>6, ConstantsAre, FS_Subset
  <2>2. PICK b : b = [o \in P |-> new[o]]
    OBVIOUS
  <2>3. b \in Bijection(P, Q)
    <3>1. b \in [P -> Q] /\ \A x \in Q : \E o \in P : b[o] = x
      BY <1>8, <2>2
    <3>2. \A o, p \in P : b[o] = b[p] => o = p
      BY <1>8, <2>2
    <3> QED
      BY <3>1, <3>2 DEF Bijection, Injection, Surjection, IsInjective
  <2>4. ExistsBijection(P, Q)
    BY <2>3 DEF ExistsBijection
  <2> QED
    BY <2>1, <2>4, FS_Bijection
<1>14. PICK f : f = [o \in P \ Root |-> new[o]]
  OBVIOUS
<1>15. /\ f \in [P \ Root -> Q \ Root] /\ \A x, y \in P \ Root : f[x] = f[y] => x = y
  BY <1>8, <1>14
<1>16. \A o \in P \cup Root \cup {Nil} : (IF o \in Root \cup {Nil} THEN o ELSE f[o]) = new[o]
  BY <1>8, <1>14
<1>17. SameGame(g, h)
  <2> DEFINE name(e, o) == IF o \in Root \cup {Nil} THEN o ELSE e[o]
  <2>1. \A o \in P : /\ name(f, o) \in Q
                     /\ h.kind[name(f, o)] = g.kind[o]
                     /\ h.ref[name(f, o)] = name(f, g.ref[o])
                     /\ h.weak[name(f, o)] = name(f, g.weak[o])
    <3>1. ASSUME NEW o \in P
          PROVE  /\ name(f, o) = new[o] /\ name(f, g.ref[o]) = new[g.ref[o]]
                 /\ name(f, g.weak[o]) = new[g.weak[o]]
      BY <1>6, <1>16
    <3> HIDE DEF name
    <3> QED
      BY <1>11, <3>1
  <2> QED
    BY <1>1, <1>10, <1>13, <1>15, <2>1 DEF SameGame
<1> QED
  BY <1>1, <1>12, <1>17

(* Beginning to initialize.                                                *)
LEMMA ObjectsReadKeeps ==
  ASSUME IInv, ObjectsRead
  PROVE  IInv'
<1>1. TableOK /\ InitsOK /\ FileOK /\ LoadOK
  BY DEF IInv
<1>2. /\ pc = "read" /\ todo = <<>> /\ pc' = "init" /\ walked' = {}
      /\ status' = [o \in Id |-> IF o \in reg THEN "uninited" ELSE status[o]]
      /\ UNCHANGED <<tableVars, gc_on, stack, reg, ready, calls, inits, file, target, failed>>
  BY DEF ObjectsRead
<1>3. TableOK' /\ Live' = Live
  BY <1>1, <1>2, SameTable
<1>4. target = file.game /\ \A o \in Id : inits[o] = 0
  BY <1>1, <1>2 DEF LoadOK
<1>5. Forgotten = {}
  BY <1>2, PersistentRead
<1>6. InitsOK'
  <2>1. Forgotten' = {} /\ reg' \subseteq Live' /\ ready' \subseteq Live' /\ Live \subseteq Id
    BY <1>1, <1>2, <1>3, <1>5, EntryIs DEF Forgotten, tableVars, InitsOK
  <2>2. calls' = <<>> /\ Len(calls') = 0 /\ calls' \in Seq(Id) /\ inits' \in [Id -> {0, 1}]
    BY <1>1, <1>2 DEF InitsOK, Initializing
  <2>3. /\ status' \in [Id -> {"uninited", "progress", "inited"}]
        /\ \A o \in reg' : status'[o] = "uninited" /\ inits'[o] = 0
    BY <1>1, <1>2, <1>3, <1>4, <2>1 DEF InitsOK
  <2>4. ~\E i \in 1 .. Len(calls') : TRUE
    BY <2>2
  <2>5. Initializing' /\ pc' # "run" /\ pc' # "compare"
    BY <1>2 DEF Initializing
  <2> QED
    BY <1>2, <2>1, <2>2, <2>3, <2>4, <2>5 DEF InitsOK
<1>7. LoadOK'
  BY <1>1, <1>2 DEF LoadOK, Phases
<1>8. RestoredGame'
  <2>1. Traced' = Traced /\ trans' = trans /\ kind' = kind /\ ref' = ref /\ weak' = weak
    BY <1>2 DEF tableVars, Traced, Reach
  <2>2. Persistent' = Persistent
    BY <2>1 DEF Persistent
  <2>3. Lasting' = Lasting
    BY <2>2 DEF Lasting
  <2>4. Game' = Game
    BY <2>1, <2>2, <2>3 DEF Game, Lasts
  <2>5. SameGame(target, Game) /\ \A o \in Persistent : weak[o] \in Lasting \cup {Nil}
    BY <1>2, <1>4, GameRead
  <2> QED
    BY <1>2, <2>1, <2>2, <2>3, <2>4, <2>5 DEF RestoredGame
<1> QED
  BY <1>1, <1>2, <1>3, <1>6, <1>7, <1>8, SameFile DEF IInv

------------------------------------------------------------------------------
(* The invariant.                                                          *)

(* When the program starts, the image file is loaded.                      *)
LEMMA InitInvariant ==
  ASSUME Init
  PROVE  IInv
<1>1. PICK n, m : n = Len(RootKind) /\ m = MaxId - n
  OBVIOUS
<1>2. n \in Nat /\ m \in Nat /\ Root = 1 .. n /\ Id = 1 .. MaxId /\ MaxId = n + m
  BY <1>1, SaveAssumption, LenProperties DEF Root, Id
<1>3. Live = Root
  <2>1. \A o \in Root : kind[o] = RootKind[o] /\ RootKind[o] # "free" /\ o \in Id
    BY ConstantsAre DEF Init
  <2>2. \A o \in Id \ Root : kind[o] = "free"
    BY DEF Init
  <2> QED
    BY <2>1, <2>2 DEF Live
<1>4. /\ \A i \in 1 .. m : free[i] = n + i
      /\ free \in Seq(Id) /\ Len(free) = m
  <2>1. free = [i \in 1 .. m |-> n + i]
    BY <1>1 DEF Init
  <2>2. \A i \in 1 .. m : n + i \in Id
    BY <1>2
  <2>3. free \in [1 .. m -> Id]
    BY <2>1, <2>2
  <2> QED
    BY <1>2, <2>1, <2>3, FcnIsSeq
<1>5. {free[i] : i \in 1 .. m} = Id \ Live
  <2>1. \A i \in 1 .. m : n + i \in Id /\ n + i \notin Root
    BY <1>2
  <2>2. ASSUME NEW o \in Id \ Root PROVE \E i \in 1 .. m : free[i] = o
    <3>1. o - n \in 1 .. m /\ n + (o - n) = o
      BY <1>2
    <3>2. PICK i : i = o - n
      OBVIOUS
    <3> QED
      BY <1>4, <3>1, <3>2
  <2> QED
    BY <1>3, <1>4, <2>1, <2>2
<1>6. \A i, j \in 1 .. m : free[i] = free[j] => i = j
  BY <1>2, <1>4
<1>7. TableOK
  <2>1. kind \in [Id -> Kinds \cup {"free"}] /\ \A o \in Root : kind[o] = RootKind[o]
    BY ConstantsAre DEF Init
  <2>2. /\ ref = [o \in Id |-> IF o \in Root THEN ImageRef[o] ELSE Nil]
        /\ weak = [o \in Id |-> Nil]
    BY DEF Init
  <2>3. \A o \in Id : /\ ref[o] \in Root \cup {Nil} /\ weak[o] = Nil
                      /\ o \in Root => ref[o] = ImageRef[o]
                      /\ o \notin Root => ref[o] = Nil
    BY <2>2, ConstantsAre
  <2>4. ref \in [Id -> Ref] /\ weak \in [Id -> Ref]
    BY <2>2, <2>3, ConstantsAre DEF Ref
  <2>5. trans = TransientRoot /\ TransientRoot \subseteq Root /\ stack = {} /\ changed = {}
    BY ConstantsAre DEF Init
  <2>6. Root \subseteq Id
    BY ConstantsAre
  <2>7. /\ \A o \in Id : ref[o] \in Live \cup {Nil} /\ weak[o] \in Live \cup {Nil}
        /\ \A o \in Id \ Live : ref[o] = Nil /\ weak[o] = Nil
        /\ \A o \in Root \ changed : ref[o] = ImageRef[o] /\ weak[o] = Nil
    BY <1>3, <2>3, <2>6
  <2>8. /\ trans \subseteq Live /\ trans \cap Root = TransientRoot
        /\ stack \subseteq Live /\ changed \subseteq Root
    BY <1>3, <2>5
  <2> QED
    BY <1>4, <1>5, <1>6, <2>1, <2>4, <2>7, <2>8 DEF TableOK
<1>8. PICK g, P : g = ImageGame /\ P = Root \ TransientRoot
  OBVIOUS
<1>9. /\ DOMAIN g.kind = P /\ DOMAIN g.ref = P /\ DOMAIN g.weak = P
      /\ \A o \in P : g.kind[o] = RootKind[o] /\ g.ref[o] = ImageRef[o] /\ g.weak[o] = Nil
  BY <1>8 DEF ImageGame
<1>10. GoodGame(g)
  <2>1. \A o \in P : o \in Root /\ o \in Id /\ RootKind[o] \in Kinds /\ ImageRef[o] \in Root \cup {Nil}
    BY <1>8, ConstantsAre
  <2>2. P \subseteq Id /\ P \cap Root = Root \ TransientRoot
    BY <1>8, <2>1
  <2> QED
    BY <1>8, <1>9, <2>1, <2>2 DEF GoodGame
<1>11. FileOK
  <2>1. file.toc = <<>> /\ file.objs = <<>> /\ file.game = g
    BY <1>8 DEF Init
  <2>2. Len(file.toc) = 0 /\ Len(file.objs) = 0
    BY <2>1
  <2>3. file.toc \in Seq(TocEntries) /\ file.objs \in Seq(Records)
    BY <2>1
  <2>4. GoodToc(file.toc, file.game)
    BY <1>8, <1>9, <2>1, <2>2, <2>3 DEF GoodToc
  <2>5. GoodObjs(file)
    BY <1>8, <1>9, <2>1, <2>2, <2>3 DEF GoodObjs
  <2> QED
    BY <1>10, <2>1, <2>4, <2>5 DEF FileOK
<1>12. InitsOK
  <2>1. /\ reg = {o \in Root : RootKind[o] \in Initialized} /\ ready = reg
        /\ status = [o \in Id |-> IF o \in reg THEN "inited" ELSE "uninited"]
        /\ inits = [o \in Id |-> 0] /\ calls = <<>> /\ walked = {} /\ pc = "run" /\ failed = FALSE
    BY DEF Init
  <2>2. Forgotten = {}
    BY <1>3, <1>7, <2>1 DEF Forgotten, TableOK
  <2>3. Len(calls) = 0 /\ calls \in Seq(Id) /\ ~Initializing
    BY <2>1 DEF Initializing
  <2>4. reg \subseteq Live /\ ready \subseteq Live
    BY <1>3, <2>1
  <2>5. status \in [Id -> {"uninited", "progress", "inited"}] /\ inits \in [Id -> {0, 1}]
    BY <2>1
  <2> QED
    BY <2>1, <2>2, <2>3, <2>4, <2>5 DEF InitsOK
<1>13. LoadOK /\ RestoredGame
  BY DEF Init, LoadOK, RestoredGame, Phases
<1> QED
  BY <1>7, <1>11, <1>12, <1>13 DEF IInv

(* Steps that change nothing.                                              *)
LEMMA StutterKeeps ==
  ASSUME IInv, UNCHANGED vars
  PROVE  IInv'
<1>1. /\ UNCHANGED <<kind, free, trans, changed, ref, weak>> /\ UNCHANGED tableVars
      /\ UNCHANGED <<reg, status, ready, calls, walked, inits, gc_on, stack, file, pc, target, failed>>
      /\ UNCHANGED <<todo, fixups>>
  BY DEF vars, tableVars, initVars, loadVars
<1>2. TableOK' /\ FileOK' /\ Live' = Live /\ \A o : DependsOn(o)' = DependsOn(o)
  BY <1>1, SameTable, SameFile DEF IInv
<1>3. InitsOK'
  <2>1. Current' = Current /\ Forgotten' = Forgotten /\ Initializing' = Initializing
    BY <1>1, <1>2 DEF Current, Forgotten, Initializing
  <2>2. Satisfied(Current)' = Satisfied(Current)
    BY <1>1, <1>2, <2>1 DEF Satisfied
  <2> QED
    BY <1>1, <1>2, <2>1, <2>2 DEF IInv, InitsOK
<1>4. LoadOK'
  <2>1. FixupsOK' = FixupsOK /\ NewIds' = NewIds /\ Unread' = Unread
    BY <1>1, <1>2 DEF FixupsOK, NewIds, Unread, Dynamic
  <2>2. \A o : GetNewId(o)' = GetNewId(o)
    BY <1>1 DEF GetNewId
  <2>3. \A o : Rebuilt(o)' = Rebuilt(o)
    BY <1>1, <2>2 DEF Rebuilt
  <2>4. Forgotten' = Forgotten
    BY <1>1, <1>2 DEF Forgotten
  <2> QED
    BY <1>1, <2>1, <2>2, <2>3, <2>4 DEF IInv, LoadOK
<1>5. RestoredGame'
  <2>1. Traced' = Traced
    BY <1>1 DEF Traced, Reach
  <2>2. Persistent' = Persistent /\ Lasting' = Lasting
    BY <1>1, <2>1 DEF Persistent, Lasting
  <2>3. Game' = Game
    BY <1>1, <2>2 DEF Game, Lasts
  <2> QED
    BY <1>1, <2>2, <2>3 DEF IInv, RestoredGame
<1> QED
  BY <1>2, <1>3, <1>4, <1>5 DEF IInv

(* No step violates it.                                                    *)
LEMMA InvariantNext ==
  ASSUME SavesInTime, IInv, [Next]_vars
  PROVE  IInv'
<1>1. CASE \E k \in NewKinds, t \in BOOLEAN : Create(k, t)
  BY <1>1, CreateKeeps
<1>2. CASE \E o \in Accessible, v \in Accessible \cup {Nil} : SetRef(o, v) \/ SetWeak(o, v)
  BY <1>2, SetKeeps
<1>3. CASE \E o \in stack : Release(o)
  BY <1>3, ReleaseKeeps
<1>4. CASE Collect
  BY <1>4, CollectKeeps
<1>5. CASE Save
  BY <1>5, SaveKeeps
<1>6. CASE Restore
  BY <1>6, RestoreKeeps
<1>7. CASE ReadTocEntry
  BY <1>7, ReadTocEntryKeeps
<1>8. CASE TocRead
  BY <1>8, TocReadKeeps
<1>9. CASE ReadObject
  BY <1>9, ReadObjectKeeps
<1>10. CASE ObjectsRead
  BY <1>10, ObjectsReadKeeps
<1>11. CASE Restart
  BY <1>11, RestartKeeps
<1>12. CASE \E o \in reg : Walk(o)
  BY <1>12, WalkKeeps
<1>13. CASE Ensure
  BY <1>13, EnsureKeeps
<1>14. CASE CircularInit
  BY <1>14, CircularInitKeeps
<1>15. CASE Compare
  BY <1>15, CompareKeeps
<1>16. CASE EndInit
  BY <1>16, EndInitKeeps
<1>17. CASE LoadEnds
  BY <1>17, LoadEndsKeeps
<1>18. CASE UNCHANGED vars
  BY <1>18, StutterKeeps
<1> QED
  BY <1>1, <1>2, <1>3, <1>4, <1>5, <1>6, <1>7, <1>8, <1>9, <1>10, <1>11, <1>12, <1>13, <1>14,
     <1>15, <1>16, <1>17, <1>18 DEF Next

(* The invariant always holds of a program that saves only what it can     *)
(* restore (CVmSaveFile, CVmObjTable::save and restore).                   *)
THEOREM Invariance == ASSUME SavesInTime PROVE Spec => []IInv
<1>1. IInv /\ [Next]_vars => IInv'
  BY InvariantNext
<1> QED
  BY <1>1, InitInvariant, PTL DEF Spec

(* Every variable has its type: the free list is the free entries, each    *)
(* once, and no list, stack slot or initializer holds a free entry.        *)
THEOREM TypeCorrect == ASSUME SavesInTime PROVE Spec => []TypeOK
<1>1. ASSUME IInv PROVE TypeOK
  <2>1. TableOK /\ InitsOK /\ LoadOK
    BY <1>1 DEF IInv
  <2>2. DOMAIN free = 1 .. Len(free) /\ calls \in Seq(Id) /\ DOMAIN calls = 1 .. Len(calls)
    BY <2>1, LenProperties DEF TableOK, InitsOK
  <2>3. {free[i] : i \in DOMAIN free} = Id \ Live /\ IsInjective(free)
    BY <2>1, <2>2 DEF TableOK, IsInjective
  <2>4. calls \in Seq(Live) /\ IsInjective(calls)
    <3>1. Len(calls) \in Nat /\ calls \in [1 .. Len(calls) -> Id]
      BY <2>2, LenProperties
    <3>2. \A i \in 1 .. Len(calls) : calls[i] \in Live
      BY <2>1 DEF InitsOK
    <3>3. calls \in [1 .. Len(calls) -> Live]
      BY <3>1, <3>2
    <3>4. calls \in Seq(Live)
      BY <3>1, <3>3, FcnIsSeq
    <3> QED
      BY <2>1, <2>2, <3>4 DEF InitsOK, IsInjective
  <2>5. Root \subseteq Live
    BY <2>1, EntryIs
  <2>6. /\ kind \in [Id -> Kinds \cup {"free"}]
        /\ trans \subseteq Live /\ stack \subseteq Live /\ changed \subseteq Root
        /\ ref \in [Id -> Id \cup {Nil}] /\ weak \in [Id -> Id \cup {Nil}]
    BY <2>1 DEF TableOK, Ref
  <2>7. /\ reg \subseteq Live /\ ready \subseteq Live
        /\ status \in [Id -> {"uninited", "progress", "inited"}]
    BY <2>1 DEF InitsOK
  <2>8. /\ pc \in {"run", "toc", "read", "init", "compare"}
        /\ gc_on \in BOOLEAN /\ failed \in BOOLEAN
        /\ (pc = "run") => gc_on
    BY <2>1 DEF LoadOK, Phases
  <2> QED
    BY <2>3, <2>4, <2>5, <2>6, <2>7, <2>8 DEF TypeOK
<1> QED
  BY <1>1, Invariance, PTL

(* What a restore or a restart has rebuilt when it begins to initialize is *)
(* the game that was saved, or the image file's, under other IDs (CVmFixup *)
(* get_new_id, CVmObjTable::restore, rebuild_image).                       *)
THEOREM GameRestored == ASSUME SavesInTime PROVE Spec => []RestoredGame
<1>1. IInv => RestoredGame
  BY DEF IInv
<1> QED
  BY <1>1, Invariance, PTL

(* A file the program saved can be read: every ID in it that is not an     *)
(* image file object's is in the table of contents, whose search therefore *)
(* ends (CVmObjFixup::find_entry), and there is no stray text.  The latter *)
(* needs SavesInTime: the run save_words shows a program that saves while  *)
(* a dictionary has a word for an object that is not persistent.           *)
THEOREM FilesReadable == ASSUME SavesInTime PROVE Spec => []FileReadable
<1>1. ASSUME IInv PROVE FileReadable
  <2>1. SUFFICES ASSUME pc = "read", todo # <<>> PROVE ReadsWell(Head(todo))
    BY DEF FileReadable
  <2>2. PICK r, g, P, n : r = Head(todo) /\ g = file.game /\ P = DOMAIN g.kind /\ n = Len(file.toc)
    OBVIOUS
  <2>3. GoodRecord(r, file.toc, g)
    BY <1>1, <2>1, <2>2, NextRecord
  <2>4. TableOK /\ FileOK /\ FixupsOK /\ Len(fixups) = n /\ n \in Nat
    BY <1>1, <2>1, <2>2, LenProperties DEF IInv, LoadOK, FileOK, GoodToc
  <2>5. /\ ~r.stray /\ r.id \in P /\ r.weak = g.weak[r.id]
        /\ \/ r.ref = g.ref[r.id]
           \/ \E i \in 1 .. n : file.toc[i].id = r.ref
    BY <2>2, <2>3 DEF GoodRecord
  <2>6. /\ g.ref[r.id] \in P \cup Root \cup {Nil} /\ g.weak[r.id] \in P \cup {Nil}
        /\ \A o \in P \ Root : \E i \in 1 .. n : file.toc[i].id = o
        /\ \A i, j \in 1 .. n : i < j => file.toc[i].id < file.toc[j].id
    BY <2>2, <2>4, <2>5 DEF FileOK, GoodGame, GoodToc
  <2>7. ASSUME NEW v \in {r.ref, r.weak} \ (Root \cup {Nil}) PROVE Searchable(v)
    <3>1. PICK i \in 1 .. n : file.toc[i].id = v
      BY <2>5, <2>6
    <3>2. n >= 1 /\ 1 \in 1 .. n /\ (1 = i \/ 1 < i)
      BY <2>4
    <3>3. fixups[1][1] = file.toc[1].id /\ fixups # <<>>
      BY <2>4, <3>2 DEF FixupsOK
    <3>4. file.toc[1].id \in Nat /\ v \in Nat
      BY <2>2, <2>4, <3>1, <3>2, NewIdIs, ConstantsAre DEF Id
    <3>5. file.toc[1].id = v \/ file.toc[1].id < v
      BY <2>6, <3>1, <3>2
    <3> QED
      BY <3>3, <3>4, <3>5 DEF Searchable
  <2> QED
    BY <2>2, <2>5, <2>7 DEF ReadsWell
<1> QED
  BY <1>1, Invariance, PTL

(* No object, running initializer or stack slot refers to an entry that is *)
(* free once all objects of a file are read (CVmObjTable::gc_pass_finish,  *)
(* remove_stale_weak_refs, CVmObjFixup::get_new_id).                       *)
THEOREM NoDangling == ASSUME SavesInTime PROVE Spec => []NoDanglingRef
<1>1. ASSUME IInv PROVE NoDanglingRef
  <2>1. TableOK /\ InitsOK
    BY <1>1 DEF IInv
  <2>2. DOMAIN calls = 1 .. Len(calls)
    BY <2>1, LenProperties DEF InitsOK
  <2>3. \A i \in 1 .. Len(calls) : calls[i] \in Live
    BY <2>1 DEF InitsOK
  <2>4. \A o \in Live : {ref[o], weak[o]} \subseteq Live \cup {Nil}
    BY <2>1, EntryIs DEF TableOK
  <2> QED
    BY <2>1, <2>2, <2>3, <2>4 DEF NoDanglingRef, TableOK
<1> QED
  BY <1>1, Invariance, PTL

(* A comparator is initialized when a dictionary's initializer calls it,   *)
(* in whatever order the hash table gives the entries                      *)
(* (CVmObjDict::post_load_init, ensure_post_load_init).                    *)
THEOREM ComparatorsReady == ASSUME SavesInTime PROVE Spec => []ComparatorReady
<1>1. ASSUME IInv PROVE ComparatorReady
  <2>1. SUFFICES ASSUME pc = "compare", ref[Current] \in reg PROVE ref[Current] \in ready
    BY DEF ComparatorReady
  <2>2. InitsOK /\ Initializing
    BY <1>1, <2>1 DEF IInv, Initializing
  <2>3. kind[Current] = "dict" /\ Satisfied(Current)
    BY <2>1, <2>2 DEF InitsOK
  <2>4. status[ref[Current]] = "inited"
    BY <2>1, <2>3 DEF Satisfied, DependsOn
  <2> QED
    BY <2>1, <2>2, <2>4 DEF InitsOK
<1> QED
  BY <1>1, Invariance, PTL

(* Post-load initialization happens at most once per object and load,      *)
(* although initializers start each other, and a load without an error     *)
(* leaves no object uninitialized (do_all_post_load_init,                  *)
(* ensure_post_load_init).                                                 *)
THEOREM InitializedOnce == ASSUME SavesInTime PROVE Spec => []InitOnce
<1>1. ASSUME IInv PROVE InitOnce
  <2>1. InitsOK
    BY <1>1 DEF IInv
  <2>2. \A o \in Id : inits[o] <= 1
    <3>1. \A o \in Id : inits[o] \in {0, 1}
      BY <2>1 DEF InitsOK
    <3> QED
      BY <3>1
  <2>3. pc = "run" /\ ~failed => {o \in Live : kind[o] \in Initialized} \subseteq ready
    BY <2>1 DEF InitsOK, Forgotten
  <2> QED
    BY <2>2, <2>3 DEF InitOnce
<1> QED
  BY <1>1, Invariance, PTL

=============================================================================
