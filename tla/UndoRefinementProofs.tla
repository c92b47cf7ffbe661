------------------------ MODULE UndoRefinementProofs ------------------------
(***************************************************************************)
(* UndoLog implements UndoSpec: every step of the undo manager is a step   *)
(* on a stack of snapshots, or is not seen by the program.  The stack is   *)
(* the links in use in the order of the array, so first links are counted; *)
(* then every method of the undo manager is a step on the counted links,   *)
(* and UndoRestores says that what undo yields is what was saved.          *)
(***************************************************************************)
EXTENDS UndoRefinement, UndoRestoreProofs, SequenceTheorems

------------------------------------------------------------------------------
(* Links as a sequence.                                                    *)

\* The links S of the log u are finitely many and one behind the other.
Ordered(u, S) ==
  /\ IsFiniteSet(S)
  /\ \A s \in S : ~Before(u, s, s)
  /\ \A s, t \in S : s # t => Before(u, s, t) \/ Before(u, t, s)
  /\ \A r, s, t \in S : Before(u, r, s) /\ Before(u, s, t) => Before(u, r, t)

Pos(u, S, s) == Cardinality({t \in S : Before(u, t, s)})
SnapIn(g, s) ==
  [o \in g[s].objs |->
     [val |-> g[s].val[o], mod |-> {p \in Prop : <<o, p>> \in g[s].mod},
      changed |-> o \in g[s].obj_mod]]
NthIn(u, S, n) == CHOOSE s \in S : Pos(u, S, s) = n - 1
Stack(u, S, g) == [n \in 1 .. Cardinality(S) |-> SnapIn(g, NthIn(u, S, n))]

(* The positions of the links are 0 up to one less than their number, each *)
(* taken once.                                                             *)
LEMMA PosOK ==
  ASSUME NEW u, NEW S, Ordered(u, S)
  PROVE  /\ Cardinality(S) \in Nat
         /\ \A s \in S : Pos(u, S, s) \in Nat /\ Pos(u, S, s) < Cardinality(S)
         /\ \A s, t \in S : Pos(u, S, s) = Pos(u, S, t) => s = t
         /\ \A n \in 1 .. Cardinality(S) : \E s \in S : Pos(u, S, s) = n - 1
<1> DEFINE Front(s) == {t \in S : Before(u, t, s)}
<1>1. IsFiniteSet(S) /\ Cardinality(S) \in Nat
  BY FS_CardinalityType DEF Ordered
<1>2. \A s : /\ IsFiniteSet(Front(s)) /\ Cardinality(Front(s)) \in Nat
             /\ Pos(u, S, s) = Cardinality(Front(s))
  <2>1. ASSUME NEW s
        PROVE  IsFiniteSet(Front(s)) /\ Cardinality(Front(s)) \in Nat
    BY <1>1, FS_Subset, FS_CardinalityType
  <2> QED
    BY <2>1 DEF Pos
<1>3. ASSUME NEW s \in S, NEW T, T \subseteq S, Front(s) \subseteq T, s \in T
      PROVE  Cardinality(Front(s)) < Cardinality(T)
  <2>1. s \notin Front(s)
    BY DEF Ordered
  <2>2. Cardinality(Front(s) \cup {s}) = Cardinality(Front(s)) + 1
    BY <1>2, <2>1, FS_AddElement
  <2>3. IsFiniteSet(T) /\ Cardinality(T) \in Nat
    BY <1>1, <1>3, FS_Subset, FS_CardinalityType
  <2>4. Front(s) \cup {s} \in SUBSET T
    BY <1>3
  <2>5. Cardinality(Front(s) \cup {s}) <= Cardinality(T)
    BY <2>3, <2>4, FS_Subset
  <2> HIDE DEF Front
  <2> QED
    BY <1>2, <2>2, <2>3, <2>5
<1>4. \A s \in S : Cardinality(Front(s)) < Cardinality(S)
  BY <1>3
<1>5. ASSUME NEW s \in S, NEW t \in S, Cardinality(Front(s)) = Cardinality(Front(t))
      PROVE  s = t
  <2> SUFFICES ASSUME s # t PROVE FALSE
    OBVIOUS
  <2>1. \A r1, r2 \in S : Before(u, r1, r2) => Cardinality(Front(r1)) < Cardinality(Front(r2))
    <3> TAKE r1, r2 \in S
    <3> HAVE Before(u, r1, r2)
    <3>1. Front(r1) \subseteq Front(r2) /\ r1 \in Front(r2) /\ Front(r2) \subseteq S
      BY DEF Ordered
    <3> QED
      BY <1>3, <3>1
  <2>2. Before(u, s, t) \/ Before(u, t, s)
    BY DEF Ordered
  <2>3. Cardinality(Front(s)) \in Nat /\ Cardinality(Front(t)) \in Nat
    BY <1>2
  <2> HIDE DEF Front
  <2> QED
    BY <1>5, <2>1, <2>2, <2>3
<1>6. \A n \in 1 .. Cardinality(S) : \E s \in S : Pos(u, S, s) = n - 1
  <2> DEFINE f == [s \in S |-> Pos(u, S, s) + 1]
             T == 1 .. Cardinality(S)
  <2>1. IsFiniteSet(T) /\ Cardinality(T) = Cardinality(S)
    BY <1>1, FS_Interval
  <2>2. \A s \in S : Pos(u, S, s) + 1 \in T
    <3> HIDE DEF Front
    <3> QED
      BY <1>1, <1>2, <1>4
  <2>3. f \in [S -> T]
    BY <2>2
  <2>4. \A s, t \in S : f[s] = f[t] => s = t
    <3> TAKE s, t \in S
    <3> HAVE f[s] = f[t]
    <3>1. Pos(u, S, s) = Pos(u, S, t)
      <4>1. Pos(u, S, s) \in Nat /\ Pos(u, S, t) \in Nat
        BY <1>2
      <4>2. Pos(u, S, s) + 1 = Pos(u, S, t) + 1
        OBVIOUS
      <4> QED
        BY <4>1, <4>2
    <3> QED
      BY <1>2, <1>5, <3>1
  <2>5. f \in Injection(S, T)
    BY <2>3, <2>4 DEF Injection, IsInjective
  <2>6. f \in Surjection(S, T)
    <3> HIDE DEF f, T
    <3> QED
      BY <2>1, <2>5, FS_Injection
  <2>7. ASSUME NEW n \in T
        PROVE  \E s \in S : Pos(u, S, s) = n - 1
    <3>1. PICK s \in S : f[s] = n
      BY <2>6 DEF Surjection
    <3>2. Pos(u, S, s) + 1 = n /\ Pos(u, S, s) \in Nat
      BY <1>2, <3>1
    <3>3. Pos(u, S, s) = n - 1
      BY <3>2
    <3> QED
      BY <3>3
  <2> QED
    BY <2>7
<1> HIDE DEF Front
<1> QED
  BY <1>1, <1>2, <1>4, <1>5, <1>6

(* The snapshot of a link is at its position.                              *)
LEMMA StackAt ==
  ASSUME NEW u, NEW S, NEW g, Ordered(u, S)
  PROVE  /\ DOMAIN Stack(u, S, g) = 1 .. Cardinality(S) /\ Cardinality(S) \in Nat
         /\ Len(Stack(u, S, g)) = Cardinality(S)
         /\ \A n \in 1 .. Cardinality(S) :
              \E s \in S : Pos(u, S, s) = n - 1 /\ Stack(u, S, g)[n] = SnapIn(g, s)
         /\ \A s \in S : /\ Pos(u, S, s) + 1 \in 1 .. Cardinality(S)
                         /\ Stack(u, S, g)[Pos(u, S, s) + 1] = SnapIn(g, s)
<1>1. /\ Cardinality(S) \in Nat
      /\ \A s \in S : Pos(u, S, s) \in Nat /\ Pos(u, S, s) < Cardinality(S)
      /\ \A s, t \in S : Pos(u, S, s) = Pos(u, S, t) => s = t
      /\ \A n \in 1 .. Cardinality(S) : \E s \in S : Pos(u, S, s) = n - 1
  BY PosOK
<1>2. DOMAIN Stack(u, S, g) = 1 .. Cardinality(S)
  BY DEF Stack
<1>3. Len(Stack(u, S, g)) = Cardinality(S)
  BY <1>1, <1>2
<1>4. \A n \in 1 .. Cardinality(S) :
        NthIn(u, S, n) \in S /\ Pos(u, S, NthIn(u, S, n)) = n - 1
  BY <1>1 DEF NthIn
<1>5. \A n \in 1 .. Cardinality(S) : Stack(u, S, g)[n] = SnapIn(g, NthIn(u, S, n))
  BY DEF Stack
<1>6. ASSUME NEW s \in S
      PROVE  /\ Pos(u, S, s) + 1 \in 1 .. Cardinality(S)
             /\ Stack(u, S, g)[Pos(u, S, s) + 1] = SnapIn(g, s)
  <2>1. PICK n : n = Pos(u, S, s) + 1
    OBVIOUS
  <2>2. n \in 1 .. Cardinality(S) /\ n - 1 = Pos(u, S, s)
    BY <1>1, <2>1
  <2>3. NthIn(u, S, n) = s
    BY <1>1, <1>4, <2>2
  <2> QED
    BY <1>5, <2>1, <2>2, <2>3
<1> QED
  BY <1>1, <1>2, <1>3, <1>4, <1>5, <1>6

\* T are the last of the links S, in the same order, in the log w.
Top(u, S, w, T) ==
  /\ T \subseteq S
  /\ \A s, t \in T : Before(w, s, t) <=> Before(u, s, t)
  /\ \A s \in T, t \in S : Before(u, s, t) => t \in T

(* The last of the last are the last.                                      *)
LEMMA TopTwice ==
  ASSUME NEW u, NEW S, NEW w, NEW T, NEW x, NEW R, Top(u, S, w, T), Top(w, T, x, R)
  PROVE  Top(u, S, x, R)
<1>1. R \subseteq T /\ T \subseteq S
  BY DEF Top
<1>2. ASSUME NEW s \in R, NEW t \in S, Before(u, s, t)
      PROVE  t \in R
  <2>1. t \in T
    BY <1>1, <1>2 DEF Top
  <2>2. Before(w, s, t)
    BY <1>1, <1>2, <2>1 DEF Top
  <2> QED
    BY <2>1, <2>2 DEF Top
<1> QED
  BY <1>1, <1>2 DEF Top

(* Losing old savepoints takes snapshots from the bottom of the stack.     *)
LEMMA StackTop ==
  ASSUME NEW u, NEW S, NEW w, NEW T, NEW g, NEW h, Ordered(u, S), Top(u, S, w, T),
         \A s \in T : h[s] = g[s]
  PROVE  Stack(w, T, h) \in Promise!Suffixes(Stack(u, S, g))
<1>1. IsFiniteSet(S) /\ T \subseteq S
  BY DEF Ordered, Top
<1>2. IsFiniteSet(T) /\ Cardinality(T) <= Cardinality(S)
  BY <1>1, FS_Subset
<1>3. Cardinality(S) \in Nat /\ Cardinality(T) \in Nat
  BY <1>1, <1>2, FS_CardinalityType
<1>4. Ordered(w, T)
  BY <1>1, <1>2 DEF Ordered, Top
<1>5. PICK k : k = Cardinality(S) - Cardinality(T)
  OBVIOUS
<1>6. k \in Nat /\ Cardinality(S) = k + Cardinality(T)
  BY <1>2, <1>3, <1>5
<1>7. ASSUME NEW s \in T
      PROVE  Pos(u, S, s) = k + Pos(w, T, s)
  <2> DEFINE A == {t \in S : Before(u, t, s)}
             B == {t \in T : Before(w, t, s)}
  <2>1. S \ T \subseteq A
    <3>1. ASSUME NEW t \in S \ T
          PROVE  Before(u, t, s)
      <4>1. ~Before(u, s, t) /\ s # t /\ s \in S
        BY <1>1 DEF Top
      <4> QED
        BY <4>1 DEF Ordered
    <3> QED
      BY <3>1
  <2>2. A = (S \ T) \cup B /\ (S \ T) \cap B = {}
    BY <1>1, <2>1 DEF Top
  <2>3. IsFiniteSet(S \ T) /\ IsFiniteSet(B)
    BY <1>1, <1>2, FS_Subset
  <2>4. Cardinality(S \ T) = k
    <3>1. S \cap T = T
      BY <1>1
    <3>2. Cardinality(S \ T) = Cardinality(S) - Cardinality(S \cap T)
      BY <1>1, FS_Difference
    <3> QED
      BY <1>5, <3>1, <3>2
  <2>5. Cardinality(A) = Cardinality(S \ T) + Cardinality(B)
    <3>1. Cardinality((S \ T) \cup B) =
            Cardinality(S \ T) + Cardinality(B) - Cardinality((S \ T) \cap B)
      BY <2>3, FS_Union
    <3>2. Cardinality(B) \in Nat
      BY <2>3, FS_CardinalityType
    <3>3. Cardinality((S \ T) \cap B) = 0
      BY <2>2, FS_EmptySet
    <3> HIDE DEF A, B
    <3> QED
      BY <1>6, <2>2, <2>4, <3>1, <3>2, <3>3
  <2>6. Pos(u, S, s) = Cardinality(A) /\ Pos(w, T, s) = Cardinality(B)
    BY DEF Pos
  <2> HIDE DEF A, B
  <2> QED
    BY <2>4, <2>5, <2>6
<1>8. PICK q, r : q = Stack(u, S, g) /\ r = Stack(w, T, h)
  OBVIOUS
<1>9. /\ DOMAIN q = 1 .. Cardinality(S) /\ Len(q) = Cardinality(S)
      /\ \A s \in S : q[Pos(u, S, s) + 1] = SnapIn(g, s)
  BY <1>8, StackAt
<1>10. /\ DOMAIN r = 1 .. Cardinality(T) /\ r = [n \in 1 .. Cardinality(T) |-> r[n]]
       /\ \A n \in 1 .. Cardinality(T) :
            \E s \in T : Pos(w, T, s) = n - 1 /\ r[n] = SnapIn(h, s)
  <2>1. r = [n \in 1 .. Cardinality(T) |-> r[n]]
    BY <1>8 DEF Stack
  <2>2. /\ DOMAIN Stack(w, T, h) = 1 .. Cardinality(T)
        /\ \A n \in 1 .. Cardinality(T) :
             \E s \in T : Pos(w, T, s) = n - 1 /\ Stack(w, T, h)[n] = SnapIn(h, s)
    BY <1>4, StackAt
  <2> QED
    BY <1>8, <2>1, <2>2
<1>11. ASSUME NEW n \in 1 .. Cardinality(T)
       PROVE  r[n] = q[k + n] /\ k + n \in 1 .. Cardinality(S)
  <2>1. PICK s \in T : Pos(w, T, s) = n - 1 /\ r[n] = SnapIn(h, s)
    BY <1>10
  <2>2. SnapIn(h, s) = SnapIn(g, s)
    BY DEF SnapIn
  <2>3. q[Pos(u, S, s) + 1] = SnapIn(g, s)
    BY <1>1, <1>9
  <2>4. Pos(u, S, s) + 1 = k + n /\ k + n \in 1 .. Cardinality(S)
    BY <1>3, <1>6, <1>7, <2>1
  <2> QED
    BY <2>1, <2>2, <2>3, <2>4
<1>12. r = SubSeq(q, k + 1, Len(q))
  <2> DEFINE V == {q[n] : n \in 1 .. Cardinality(S)}
             m == SubSeq(q, k + 1, Len(q))
  <2>1. \A i \in k + 1 .. Len(q) : q[i] \in V
    BY <1>6, <1>9
  <2>2. k + 1 \in Int /\ Len(q) \in Int /\ Len(q) - (k + 1) + 1 = Cardinality(T)
    BY <1>3, <1>6, <1>9
  <2>3. /\ m \in Seq(V)
        /\ Len(m) = IF k + 1 <= Len(q) THEN Len(q) - (k + 1) + 1 ELSE 0
        /\ \A i \in 1 .. Len(q) - (k + 1) + 1 : m[i] = q[k + 1 + i - 1]
    <3> HIDE DEF V
    <3> QED
      BY <2>1, <2>2, SubSeqProperties
  <2>4. Len(m) = Cardinality(T)
    BY <1>3, <1>6, <1>9, <2>3
  <2>5. m = [n \in 1 .. Cardinality(T) |-> m[n]]
    <3>1. m \in [1 .. Len(m) -> V]
      BY <2>3, LenProperties
    <3> QED
      BY <2>4, <3>1
  <2>6. \A n \in 1 .. Cardinality(T) : m[n] = r[n]
    <3> TAKE n \in 1 .. Cardinality(T)
    <3>1. k + 1 + n - 1 = k + n
      BY <1>3, <1>6
    <3>2. m[n] = q[k + 1 + n - 1]
      BY <2>2, <2>3
    <3> QED
      BY <1>11, <3>1, <3>2
  <2> HIDE DEF m
  <2>7. [n \in 1 .. Cardinality(T) |-> m[n]] = [n \in 1 .. Cardinality(T) |-> r[n]]
    BY <2>6
  <2> QED
    BY <1>10, <2>5, <2>7 DEF m
<1>13. k + 1 \in 1 .. Len(q) + 1
  BY <1>3, <1>6, <1>9
<1> QED
  BY <1>8, <1>12, <1>13 DEF Promise!Suffixes

\* c is the last of the links S; T are the others.
IsLast(u, S, c, T) ==
  c \in S /\ T = S \ {c} /\ \A s \in T : Before(u, s, c)

(* The last link has the snapshot on the top of the stack.                 *)
LEMMA StackAppend ==
  ASSUME NEW u, NEW S, NEW g, Ordered(u, S), NEW c, NEW T, IsLast(u, S, c, T)
  PROVE  /\ Cardinality(T) = Cardinality(S) - 1
         /\ Stack(u, S, g) = Append(Stack(u, T, g), SnapIn(g, c))
         /\ Len(Stack(u, S, g)) = Cardinality(S)
         /\ Stack(u, S, g)[Cardinality(S)] = SnapIn(g, c)
         /\ SubSeq(Stack(u, S, g), 1, Cardinality(S) - 1) = Stack(u, T, g)
<1> USE DEF IsLast
<1>1. /\ IsFiniteSet(S) /\ Cardinality(S) \in Nat /\ IsFiniteSet(T)
      /\ Cardinality(T) = Cardinality(S) - 1 /\ Cardinality(T) \in Nat
  BY FS_RemoveElement, FS_CardinalityType DEF Ordered
<1>2. Ordered(u, T)
  BY <1>1 DEF Ordered
<1>3. \A s \in T : Pos(u, T, s) = Pos(u, S, s)
  <2> TAKE s \in T
  <2>1. ~Before(u, c, s)
    BY DEF Ordered
  <2>2. {t \in T : Before(u, t, s)} = {t \in S : Before(u, t, s)}
    BY <2>1
  <2> QED
    BY <2>2 DEF Pos
<1>4. Pos(u, S, c) = Cardinality(T)
  <2>1. {t \in S : Before(u, t, c)} = T
    BY DEF Ordered
  <2> QED
    BY <2>1 DEF Pos
<1>5. PICK q, r : q = Stack(u, S, g) /\ r = Stack(u, T, g)
  OBVIOUS
<1>6. PICK n : n = Cardinality(T)
  OBVIOUS
<1>7. n \in Nat /\ Cardinality(S) = n + 1
  BY <1>1, <1>6
<1>8. /\ DOMAIN q = 1 .. n + 1 /\ Len(q) = n + 1 /\ q = [i \in 1 .. n + 1 |-> q[i]]
      /\ \A s \in S : q[Pos(u, S, s) + 1] = SnapIn(g, s)
  <2>1. q = [i \in 1 .. n + 1 |-> q[i]]
    BY <1>5, <1>7 DEF Stack
  <2> QED
    BY <1>5, <1>7, <2>1, StackAt
<1>9. /\ DOMAIN r = 1 .. n /\ Len(r) = n /\ r = [i \in 1 .. n |-> r[i]]
      /\ \A i \in 1 .. n : \E s \in T : Pos(u, T, s) = i - 1 /\ r[i] = SnapIn(g, s)
  <2>1. r = [i \in 1 .. n |-> r[i]]
    BY <1>5, <1>6 DEF Stack
  <2>2. DOMAIN r = 1 .. n /\ Len(r) = n
    BY <1>7, <2>1
  <2>3. \A i \in 1 .. n : \E s \in T : Pos(u, T, s) = i - 1 /\ r[i] = SnapIn(g, s)
    BY <1>2, <1>5, <1>6, StackAt
  <2> QED
    BY <2>1, <2>2, <2>3
<1>10. q[n + 1] = SnapIn(g, c)
  BY <1>4, <1>6, <1>8
<1>11. ASSUME NEW i \in 1 .. n
       PROVE  q[i] = r[i]
  <2>1. PICK s \in T : Pos(u, T, s) = i - 1 /\ r[i] = SnapIn(g, s)
    BY <1>9
  <2>2. s \in S /\ Pos(u, S, s) + 1 = i
    <3>1. Pos(u, S, s) = i - 1
      BY <1>3, <2>1
    <3> QED
      BY <1>7, <3>1
  <2> QED
    BY <1>8, <2>1, <2>2
<1>12. PICK V : V = {q[i] : i \in 1 .. n + 1}
  OBVIOUS
<1>13. q \in Seq(V) /\ r \in Seq(V) /\ SnapIn(g, c) \in V
  <2>1. n + 1 \in 1 .. n + 1 /\ n + 1 \in Nat
    BY <1>7
  <2>2. \A i \in 1 .. n : i \in 1 .. n + 1
    BY <1>7
  <2>3. q \in [1 .. n + 1 -> V]
    BY <1>8, <1>12
  <2>4. r \in [1 .. n -> V]
    BY <1>9, <1>11, <1>12, <2>2
  <2>5. q \in Seq(V)
    BY <2>1, <2>3, SeqDef
  <2>6. r \in Seq(V)
    BY <1>7, <2>4, SeqDef
  <2>7. SnapIn(g, c) \in V
    BY <1>10, <1>12, <2>1
  <2> QED
    BY <2>5, <2>6, <2>7
<1>14. q = Append(r, SnapIn(g, c))
  <2> DEFINE a == Append(r, SnapIn(g, c))
  <2>1. /\ a \in Seq(V) /\ Len(a) = Len(r) + 1
        /\ \A i \in 1 .. Len(r) : a[i] = r[i]
        /\ a[Len(r) + 1] = SnapIn(g, c)
    BY <1>13, AppendProperties
  <2>2. \A i \in 1 .. n + 1 : i \in 1 .. n \/ i = n + 1
    BY <1>7
  <2>3. Len(q) = Len(a) /\ \A i \in 1 .. Len(q) : q[i] = a[i]
    <3> HIDE DEF a
    <3> QED
      BY <1>8, <1>9, <1>10, <1>11, <2>1, <2>2
  <2> HIDE DEF a
  <2>4. q = a
    BY <1>13, <2>1, <2>3, SeqEqual
  <2> QED
    BY <2>4 DEF a
<1>15. SubSeq(q, 1, n) = r
  <2> DEFINE m == SubSeq(q, 1, n)
  <2>1. \A i \in 1 .. n : q[i] \in V
    BY <1>7, <1>12
  <2>2. /\ m \in Seq(V) /\ Len(m) = IF 1 <= n THEN n - 1 + 1 ELSE 0
        /\ \A i \in 1 .. n - 1 + 1 : m[i] = q[1 + i - 1]
    BY <1>7, <2>1, SubSeqProperties
  <2>3. Len(m) = n
    BY <1>7, <2>2
  <2>4. \A i \in 1 .. n : m[i] = r[i]
    <3> TAKE i \in 1 .. n
    <3>1. 1 + i - 1 = i /\ i \in 1 .. n - 1 + 1
      BY <1>7
    <3> HIDE DEF m
    <3> QED
      BY <1>11, <2>2, <3>1
  <2> HIDE DEF m
  <2>5. m = r
    BY <1>9, <1>13, <2>2, <2>3, <2>4, SeqEqual
  <2> QED
    BY <2>5 DEF m
<1> QED
  BY <1>1, <1>5, <1>6, <1>7, <1>8, <1>10, <1>14, <1>15
------------------------------------------------------------------------------
(* The methods of the undo manager, as steps on the links.                 *)

Links(u) == LiveLinks(u, u.next_free)

(* The links in use are ordered; the current savepoint's is the last.      *)
LEMMA LinksOrdered ==
  ASSUME NEW u \in Undo, NEW e \in Slot, ChainOK(u, e)
  PROVE  /\ Ordered(u, LiveLinks(u, e)) /\ u.savept_cnt = Cardinality(LiveLinks(u, e))
         /\ u.savept_cnt = 0 => LiveLinks(u, e) = {}
         /\ u.savept_cnt # 0 => /\ u.cur_first \in LiveLinks(u, e)
                                /\ \A s \in LiveLinks(u, e) \ {u.cur_first} :
                                     Before(u, s, u.cur_first)
<1> DEFINE L == LiveLinks(u, e)
           c == u.cur_first
<1>1. L \subseteq Live(u, e) /\ IsFiniteSet(L)
  BY LinksFinite
<1>2. Ordered(u, L)
  <2> HIDE DEF L
  <2> QED
    BY <1>1, LiveOrder DEF Ordered
<1>3. u.savept_cnt = Cardinality(L) /\ (u.savept_cnt = 0 => L = {})
      /\ (u.savept_cnt # 0 => c \in L)
  BY ChainEnds DEF ChainOK
<1>4. ASSUME u.savept_cnt # 0, NEW s \in L \ {c}
      PROVE  Before(u, s, c)
  <2>1. IsNextLink(u, L, c, NoRec)
    BY <1>3, <1>4 DEF ChainOK
  <2>2. ~Before(u, c, s)
    BY <2>1 DEF IsNextLink
  <2> QED
    BY <1>2, <1>3, <1>4, <2>2 DEF Ordered
<1> QED
  BY <1>2, <1>3, <1>4

(* drop_oldest_savept and alloc_rec lose old savepoints.                   *)
LEMMA DropTop ==
  ASSUME NEW u, GoodUndo(u), u.savept_cnt # 0
  PROVE  Top(u, Links(u), DropOldest(u), Links(DropOldest(u)))
<1>1. PICK d : d = DropOldest(u)
  OBVIOUS
<1>2. Suffix(d, u, u.next_free)
  <2>1. u \in Undo /\ u.next_free \in Slot /\ ChainOK(u, u.next_free)
    BY DEF GoodUndo, Undo
  <2> QED
    BY <1>1, <2>1, DropOldestOK
<1> QED
  BY <1>1, <1>2 DEF Suffix, Top, Links, LiveLinks

(* alloc_rec drops a savepoint when it must.                               *)
LEMMA RoomTop ==
  ASSUME NEW u, GoodUndo(u), ~AllocFails(u)
  PROVE  Top(u, Links(u), WithRoom(u), Links(WithRoom(u)))
<1>1. CASE HasRoom(u)
  BY <1>1 DEF WithRoom, Top
<1>2. CASE ~HasRoom(u)
  BY <1>2, DropTop DEF WithRoom, HasRoom
<1> QED
  BY <1>1, <1>2

(* So does adding a record, which is not a link itself.                    *)
LEMMA AddRecordTop ==
  ASSUME NEW u, GoodUndo(u), NEW o, NEW p, NEW old, Rec(o, p, old) \in Content
  PROVE  Top(u, Links(u), AddRecord(u, o, p, old), Links(AddRecord(u, o, p, old)))
<1>1. CASE u.savept_cnt = 0 \/ ~InUndo(o)
  BY <1>1 DEF AddRecord, Top
<1>2. CASE u.savept_cnt # 0 /\ InUndo(o) /\ AllocFails(u)
  BY <1>2, DropTop DEF AddRecord
<1>3. CASE u.savept_cnt # 0 /\ InUndo(o) /\ ~AllocFails(u)
  <2>1. PICK a, r, b : a = WithRoom(u) /\ r = Rec(o, p, old) /\ b = AddRec(a, r)
    OBVIOUS
  <2>2. AddRecord(u, o, p, old) = b /\ r \in Content /\ r.kind = "rec"
    BY <1>3, <2>1 DEF AddRecord, Rec
  <2>3. GoodUndo(a) /\ HasRoom(a) /\ a.savept_cnt # 0 /\ Top(u, Links(u), a, Links(a))
    BY <1>3, <2>1, WithRoomOK, RoomTop
  <2>4. PICK n : n = a.next_free
    OBVIOUS
  <2>5. /\ a \in Undo /\ n \in Slot /\ ChainOK(a, n)
        /\ b.rec_arr = [a.rec_arr EXCEPT ![n] = r] /\ b.oldest_first = a.oldest_first
    BY <2>1, <2>3, <2>4 DEF GoodUndo, AddRec, Undo
  <2>6. Live(b, b.next_free) = Live(a, n) \cup {n}
    BY <2>1, <2>2, <2>3, <2>4, <2>5, AddRecOK
  <2>7. n \notin Live(a, n)
    BY <2>1, <2>2, <2>3, <2>4, AddRecGrown
  <2>8. b.rec_arr[n] = r /\ \A s \in Live(a, n) : b.rec_arr[s] = a.rec_arr[s]
    BY <2>5, <2>7 DEF Live, Undo
  <2>9. Links(b) = Links(a)
    BY <2>2, <2>4, <2>6, <2>7, <2>8 DEF Links, LiveLinks
  <2>10. \A s, t : Before(b, s, t) <=> Before(a, s, t)
    BY <2>5 DEF Before
  <2>11. Top(a, Links(a), b, Links(b))
    BY <2>9, <2>10 DEF Top
  <2> QED
    BY <2>2, <2>3, <2>11, TopTwice
<1> QED
  BY <1>1, <1>2, <1>3

(* create_savept loses old savepoints and puts a new one on top.           *)
LEMMA CreateSaveptTop ==
  ASSUME NEW u, GoodUndo(u), ~AllocFails(u)
  PROVE  LET b == CreateSavept(u) IN Top(u, Links(u), b, Links(b) \ {b.cur_first})
<1>1. PICK a, l, b, n : /\ a = WithRoom(u) /\ l = AddLink(a) /\ b = CreateSavept(u)
                        /\ n = a.next_free
  OBVIOUS
<1>2. /\ GoodUndo(a) /\ HasRoom(a) /\ Top(u, Links(u), a, Links(a))
      /\ a \in Undo /\ n \in Slot /\ ChainOK(a, n) /\ a.savept_cnt \in Nat
  BY <1>1, WithRoomOK, RoomTop DEF GoodUndo, Undo
<1>3. /\ Grown(a, n, l, l.next_free, {n}) /\ l.cur_first = n
      /\ l \in Undo /\ ChainOK(l, l.next_free) /\ l.savept_cnt = a.savept_cnt + 1
      /\ l.next_free \in Slot
  BY <1>1, <1>2, LinkGrown DEF Undo
<1>4. Links(l) \ {n} = Links(a)
  <2>1. Links(l) \ {n} \subseteq Links(a)
    BY <1>1, <1>3 DEF Grown, Links, LiveLinks
  <2>2. /\ IsFiniteSet(Links(a)) /\ Cardinality(Links(a)) = a.savept_cnt
        /\ IsFiniteSet(Links(l)) /\ Cardinality(Links(l)) = a.savept_cnt + 1
        /\ n \in Links(l)
    <3>1. l.savept_cnt # 0
      BY <1>2, <1>3
    <3> QED
      BY <1>1, <1>2, <1>3, <3>1, LinksOrdered DEF Ordered, Links
  <2>3. Cardinality(Links(l) \ {n}) = a.savept_cnt
    <3>1. Cardinality(Links(l) \ {n}) = Cardinality(Links(l)) - 1
      BY <2>2, FS_RemoveElement
    <3> QED
      BY <1>2, <2>2, <3>1
  <2> QED
    BY <2>1, <2>2, <2>3, FS_Subset
<1>5. Top(a, Links(a), l, Links(l) \ {n})
  BY <1>1, <1>3, <1>4 DEF Top, Grown, Links, LiveLinks
<1>6. Top(u, Links(u), l, Links(l) \ {n})
  BY <1>2, <1>5, TopTwice
<1>7. CASE a.savept_cnt # MaxSavepts
  <2>1. b = l
    BY <1>1, <1>7 DEF CreateSavept
  <2> QED
    BY <1>1, <1>3, <1>6, <2>1
<1>8. CASE a.savept_cnt = MaxSavepts
  <2>1. b = DropOldest(l)
    BY <1>1, <1>8 DEF CreateSavept
  <2>2. l.savept_cnt # 0
    BY <1>2, <1>3
  <2>3. /\ Suffix(b, l, l.next_free) /\ b.savept_cnt = l.savept_cnt - 1
        /\ b.savept_cnt # 0 => b.cur_first = l.cur_first
    BY <1>3, <2>1, <2>2, DropOldestOK
  <2>4. b.cur_first = n /\ b.next_free = l.next_free
    BY <1>2, <1>3, <1>8, <2>3, SizeAssumption DEF Suffix
  <2>5. Top(l, Links(l) \ {n}, b, Links(b) \ {n})
    <3>1. \A s \in Links(l) \ {n} : ~Before(l, n, s)
      <4>1. \A s \in Links(l) \ {n} : Before(l, s, n)
        BY <1>3, <2>2, LinksOrdered DEF Links
      <4>2. Ordered(l, Links(l)) /\ n \in Links(l)
        BY <1>3, <2>2, LinksOrdered DEF Links
      <4> QED
        BY <4>1, <4>2 DEF Ordered
    <3> QED
      BY <2>3, <2>4, <3>1 DEF Suffix, Top, Links, LiveLinks
  <2>6. Top(u, Links(u), b, Links(b) \ {n})
    BY <1>6, <2>5, TopTwice
  <2> QED
    BY <1>1, <2>4, <2>6
<1> QED
  BY <1>7, <1>8
------------------------------------------------------------------------------
(* The mapping, before and after a step.                                   *)

(* The stack of snapshots is the stack of the links.                       *)
LEMMA SnapStackIs ==
  /\ SnapStack = Stack(undo, Stacked, snap)
  /\ SnapStack' = Stack(undo', Stacked', snap')
<1>1. SnapStack = Stack(undo, Stacked, snap)
  BY DEF SnapStack, Stack, NthLink, NthIn, Pos, SnapState, SnapIn
<1>2. SnapStack' = Stack(undo', Stacked', snap')
  BY DEF SnapStack, Stack, NthLink, NthIn, Pos, SnapState, SnapIn
<1> QED
  BY <1>1, <1>2

(* While the program runs it holds the savepoints there are.               *)
LEMMA StackedNow ==
  ASSUME IInv
  PROVE  /\ Ordered(undo, LiveLinks(undo, End)) /\ Ordered(undo, Stacked)
         /\ undo.savept_cnt = Cardinality(LiveLinks(undo, End))
         /\ meta = NoRec => Stacked = Links(undo) /\ LiveLinks(undo, End) = Links(undo)
         /\ meta # NoRec => Stacked = LiveLinks(undo, End) \ {undo.cur_first}
         /\ undo.savept_cnt # 0 =>
              /\ undo.cur_first \in LiveLinks(undo, End)
              /\ \A s \in LiveLinks(undo, End) \ {undo.cur_first} :
                   Before(undo, s, undo.cur_first)
<1>1. undo \in Undo /\ End \in Slot /\ ChainOK(undo, End)
  BY LogNow
<1>2. PICK L : L = LiveLinks(undo, End)
  OBVIOUS
<1>3. /\ Ordered(undo, L) /\ undo.savept_cnt = Cardinality(L)
      /\ undo.savept_cnt # 0 => /\ undo.cur_first \in L
                                /\ \A s \in L \ {undo.cur_first} :
                                     Before(undo, s, undo.cur_first)
  BY <1>1, <1>2, LinksOrdered
<1>4. /\ meta = NoRec => Stacked = L /\ L = Links(undo)
      /\ meta # NoRec => Stacked = L \ {undo.cur_first}
  BY <1>2 DEF Stacked, Links, End
<1>5. Ordered(undo, Stacked)
  <2>1. Stacked \subseteq L
    BY <1>4
  <2>2. IsFiniteSet(Stacked)
    BY <1>3, <2>1, FS_Subset DEF Ordered
  <2> QED
    BY <1>3, <2>1, <2>2 DEF Ordered
<1> QED
  BY <1>2, <1>3, <1>4, <1>5

(* The state of an object that a step leaves alone.                        *)
LEMMA StateKept ==
  ASSUME meta = NoRec, meta' = NoRec, NEW o \in Obj, val'[o] = val[o],
         \A p \in Prop : <<o, p>> \in mod' <=> <<o, p>> \in mod,
         o \in obj_mod' <=> o \in obj_mod
  PROVE  ObjStates'[o] = ObjStates[o]
<1>1. {p \in Prop : <<o, p>> \in mod'} = {p \in Prop : <<o, p>> \in mod}
  OBVIOUS
<1>2. (o \in obj_mod') = (o \in obj_mod)
  OBVIOUS
<1>3. ObjState(o)' = ObjState(o)
  BY <1>1, <1>2 DEF ObjState
<1> QED
  BY <1>3 DEF ObjStates

(* The program keeps its snapshots, apart from old ones.                   *)
LEMMA StackLoses ==
  ASSUME IInv, IInv', meta = NoRec, meta' = NoRec,
         Top(undo, Links(undo), undo', Links(undo')),
         \A s \in Links(undo') : snap'[s] = snap[s]
  PROVE  SnapStack' \in Promise!Suffixes(SnapStack)
<1>1. Ordered(undo, Links(undo)) /\ Stacked = Links(undo) /\ Stacked' = Links(undo')
  BY StackedNow DEF Stacked, Links, End
<1>2. Stack(undo', Links(undo'), snap') \in
        Promise!Suffixes(Stack(undo, Links(undo), snap))
  BY <1>1, StackTop
<1> QED
  BY <1>1, <1>2, SnapStackIs

(* Without savepoints there are no snapshots.                              *)
LEMMA NoStack ==
  ASSUME IInv', undo'.savept_cnt = 0
  PROVE  SnapStack' = <<>>
<1>1. Live(undo', End') = {}
  BY DEF Live
<1>2. Stacked' = {}
  BY <1>1 DEF Stacked, LiveLinks
<1>3. Cardinality(Stacked') = 0
  BY <1>2, FS_EmptySet
<1>4. 1 .. 0 = {}
  OBVIOUS
<1> QED
  BY <1>3, <1>4, SnapStackIs DEF Stack
------------------------------------------------------------------------------
(* The actions.                                                            *)

(* savepoint() forgets old snapshots, or all of them, and takes a new one. *)
LEMMA SavepointRefines ==
  ASSUME IInv, IInv', Savepoint
  PROVE  Promise!Savepoint
<1>1. /\ meta = NoRec /\ meta' = NoRec /\ GoodUndo(undo) /\ undo' = CreateSavept(undo)
      /\ UNCHANGED <<inuse, val, mod, obj_mod>>
  BY LogNow DEF Savepoint
<1>2. inuse' = inuse /\ ObjStates' = ObjStates
  BY <1>1 DEF ObjStates, ObjState
<1>3. CASE AllocFails(undo)
  <2>1. undo'.savept_cnt = 0
    <3>1. undo' = DropOldest(undo) /\ undo.savept_cnt # 0 /\ undo.savept_cnt <= 1
          /\ undo.savept_cnt \in Nat
      BY <1>1, <1>3 DEF CreateSavept, AllocFails, HasRoom, GoodUndo, Undo
    <3>2. undo'.savept_cnt = undo.savept_cnt - 1
      BY <1>1, <3>1, DropGrown
    <3> QED
      BY <3>1, <3>2
  <2>2. SnapStack' = <<>>
    BY <2>1, NoStack
  <2> QED
    BY <1>2, <2>2 DEF Promise!Savepoint
<1>4. CASE ~AllocFails(undo)
  <2>1. PICK c : c = undo'.cur_first
    OBVIOUS
  <2>2. PICK L : L = Links(undo')
    OBVIOUS
  <2>3. /\ GoodUndo(undo') /\ undo'.savept_cnt # 0 /\ undo'.next_free \in Slot
        /\ undo' \in Undo /\ ChainOK(undo', undo'.next_free)
    BY <1>1, <1>4, CreateSaveptOK, SaveptGrown DEF GoodUndo, Undo
  <2>4. /\ Ordered(undo', L) /\ Cardinality(L) = undo'.savept_cnt /\ c \in L
        /\ \A s \in L \ {c} : Before(undo', s, c)
    BY <2>1, <2>2, <2>3, LinksOrdered DEF Links
  <2>5. Stacked' = L
    BY <1>1, <2>2 DEF Stacked, Links, End
  <2>6. Ordered(undo, Links(undo)) /\ Stacked = Links(undo)
    BY <1>1, StackedNow
  <2>7. Top(undo, Links(undo), undo', L \ {c})
    BY <1>1, <1>4, <2>1, <2>2, CreateSaveptTop
  <2>8. L \subseteq Slot
    BY <2>2 DEF Links, LiveLinks, Live
  <2>9. /\ snap'[c] = Snapshot(undo'.cur_savept)
        /\ \A s \in L \ {c} : snap'[s] = snap[s]
    <3>1. snap' = [snap EXCEPT ![c] = Snapshot(undo'.cur_savept)]
      BY <1>4, <2>1 DEF Savepoint
    <3>2. DOMAIN snap = Slot
      BY DEF IInv, TypeOK
    <3> QED
      BY <2>4, <2>8, <3>1, <3>2
  <2>10. PICK q : q = Stack(undo', L \ {c}, snap')
    OBVIOUS
  <2>11. q \in Promise!Suffixes(SnapStack)
    BY <2>6, <2>7, <2>9, <2>10, StackTop, SnapStackIs
  <2>12. SnapStack' = Append(q, SnapIn(snap', c)) /\ Cardinality(L \ {c}) = Cardinality(L) - 1
    <3>1. PICK w, g, T : w = undo' /\ g = snap' /\ T = L \ {c}
      OBVIOUS
    <3>2. Ordered(w, L) /\ IsLast(w, L, c, T)
      BY <2>4, <3>1 DEF IsLast
    <3>3. /\ Cardinality(T) = Cardinality(L) - 1
          /\ Stack(w, L, g) = Append(Stack(w, T, g), SnapIn(g, c))
      BY <3>2, StackAppend
    <3> QED
      BY <2>5, <2>10, <3>1, <3>3, SnapStackIs
  <2>13. Len(q) < MaxSavepts
    <3>1. Ordered(undo', L \ {c})
      <4>1. IsFiniteSet(L \ {c})
        BY <2>4, FS_RemoveElement DEF Ordered
      <4> QED
        BY <2>4, <4>1 DEF Ordered
    <3>2. Len(q) = Cardinality(L \ {c})
      BY <2>10, <3>1, StackAt
    <3>3. undo'.savept_cnt \in Nat /\ undo'.savept_cnt <= MaxSavepts
      BY <2>3 DEF GoodUndo, Undo
    <3> QED
      BY <2>4, <2>12, <3>2, <3>3, SizeAssumption
  <2>14. SnapIn(snap', c) = [o \in inuse \ TransientObj |-> ObjStates[o]]
    <3>1. inuse \subseteq Obj
      BY DEF IInv, TypeOK
    <3>2. /\ snap'[c].objs = inuse \ TransientObj /\ snap'[c].val = val
          /\ snap'[c].mod = mod /\ snap'[c].obj_mod = obj_mod
      BY <2>9 DEF Snapshot
    <3>3. \A o \in inuse \ TransientObj :
            ObjStates[o] = [val |-> val[o], mod |-> {p \in Prop : <<o, p>> \in mod},
                            changed |-> o \in obj_mod]
      BY <1>1, <3>1 DEF ObjStates, ObjState
    <3> QED
      BY <3>2, <3>3 DEF SnapIn
  <2> QED
    BY <1>2, <2>11, <2>12, <2>13, <2>14 DEF Promise!Savepoint
<1> QED
  BY <1>3, <1>4

(* When undo_to_savept begins, what it will do is already decided.         *)
LEMMA UndoBeginRefines ==
  ASSUME IInv, UInv, UndoBegin
  PROVE  Promise!Undo
<1>1. PICK c, L : c = undo.cur_first /\ L = LiveLinks(undo, End)
  OBVIOUS
<1>2. /\ meta = NoRec /\ undo.savept_cnt # 0 /\ meta' = undo.next_free
      /\ UNCHANGED <<undo, inuse, val, mod, obj_mod, snap>>
  BY DEF UndoBegin, objVars
<1>3. meta' # NoRec /\ End' = End
  <2>1. undo.next_free \in Slot
    BY LogNow DEF Undo
  <2> QED
    BY <1>2, <2>1 DEF End, Slot, NoRec
<1>4. /\ Ordered(undo, L) /\ Stacked = L /\ Cardinality(L) = undo.savept_cnt
      /\ c \in L /\ \A s \in L \ {c} : Before(undo, s, c)
  BY <1>1, <1>2, StackedNow
<1>5. Stacked' = L \ {c}
  BY <1>1, <1>2, <1>3 DEF Stacked
<1>6. PICK n : n = Cardinality(L)
  OBVIOUS
<1>7. /\ Len(SnapStack) = n /\ SnapStack[n] = SnapIn(snap, c)
      /\ SnapStack' = SubSeq(SnapStack, 1, n - 1)
  <2>1. PICK w, g, T : w = undo /\ g = snap /\ T = L \ {c}
    OBVIOUS
  <2>2. Ordered(w, L) /\ IsLast(w, L, c, T)
    BY <1>4, <2>1 DEF IsLast
  <2>3. /\ Len(Stack(w, L, g)) = Cardinality(L)
        /\ Stack(w, L, g)[Cardinality(L)] = SnapIn(g, c)
        /\ SubSeq(Stack(w, L, g), 1, Cardinality(L) - 1) = Stack(w, T, g)
    BY <2>2, StackAppend
  <2> QED
    BY <1>2, <1>4, <1>5, <1>6, <2>1, <2>3, SnapStackIs
<1>8. SnapStack # <<>>
  BY <1>2, <1>4, <1>6, <1>7
<1>9. \A o, p : /\ RolledVal(c, o, p)' = RolledVal(c, o, p)
                /\ RolledMod(c, o, p)' <=> RolledMod(c, o, p)
                /\ RolledObjMod(c, o)' <=> RolledObjMod(c, o)
                /\ RecsAfter(c, o, p)' = RecsAfter(c, o, p)
  <2>1. LiveNow' = LiveNow
    BY <1>2, <1>3 DEF LiveNow
  <2>2. \A o, p : RecsAfter(c, o, p)' = RecsAfter(c, o, p)
    BY <1>2, <2>1 DEF RecsAfter
  <2>3. \A o, p : RolledVal(c, o, p)' = RolledVal(c, o, p)
    BY <1>2, <2>2, RolledValIn
  <2> QED
    BY <1>2, <2>2, <2>3 DEF RolledMod, RolledObjMod
<1>10. \A o \in Obj :
         ObjStates'[o] = [val |-> [p \in Prop |-> RolledVal(c, o, p)],
                          mod |-> {p \in Prop : RolledMod(c, o, p)},
                          changed |-> RolledObjMod(c, o)]
  <2> TAKE o \in Obj
  <2>1. [p \in Prop |-> RolledVal(c, o, p)'] = [p \in Prop |-> RolledVal(c, o, p)]
    BY <1>9
  <2>2. {p \in Prop : RolledMod(c, o, p)'} = {p \in Prop : RolledMod(c, o, p)}
    BY <1>9
  <2>3. RolledObjMod(c, o)' = RolledObjMod(c, o)
    BY <1>9 DEF RolledObjMod
  <2>4. ObjState(o)' = [val |-> [p \in Prop |-> RolledVal(c, o, p)'],
                       mod |-> {p \in Prop : RolledMod(c, o, p)'},
                       changed |-> RolledObjMod(c, o)']
    BY <1>1, <1>2, <1>3 DEF ObjState
  <2> QED
    BY <2>1, <2>2, <2>3, <2>4 DEF ObjStates
<1>11. ASSUME NEW o \in snap[c].objs
       PROVE  ObjStates'[o] = SnapIn(snap, c)[o]
  <2>1. RestoredAt(c, o) /\ o \in Obj
    BY <1>1, <1>4, RestoresAt DEF UInv, SavesOK, IInv, TypeOK
  <2>2. snap[c].val[o] = [p \in Prop |-> snap[c].val[o][p]]
    <3>1. c \in Slot
      BY <1>1, <1>4 DEF LiveLinks, Live
    <3>2. snap[c].val \in [Obj -> [Prop -> RefVal]]
      BY <3>1 DEF IInv, TypeOK, Snap
    <3> QED
      BY <2>1, <3>2
  <2>3. [p \in Prop |-> RolledVal(c, o, p)] = snap[c].val[o]
    BY <2>1, <2>2 DEF RestoredAt
  <2>4. {p \in Prop : RolledMod(c, o, p)} = {p \in Prop : <<o, p>> \in snap[c].mod}
    BY <2>1 DEF RestoredAt
  <2>5. RolledObjMod(c, o) = (o \in snap[c].obj_mod)
    BY <2>1 DEF RestoredAt, RolledObjMod
  <2>6. SnapIn(snap, c)[o] = [val |-> snap[c].val[o],
                              mod |-> {p \in Prop : <<o, p>> \in snap[c].mod},
                              changed |-> o \in snap[c].obj_mod]
    BY DEF SnapIn
  <2> QED
    BY <1>10, <2>1, <2>3, <2>4, <2>5, <2>6
<1>12. ASSUME NEW o \in Obj, o \notin inuse \ TransientObj
       PROVE  ObjStates'[o] = ObjStates[o]
  <2>1. \A p : RecsAfter(c, o, p) = {}
    <3>1. \A t \in LiveNow : undo.rec_arr[t].kind = "rec" => undo.rec_arr[t].obj # o
      BY <1>12, ObjAssumption DEF UInv, OwnersOK, LiveRecs, Owner
    <3> QED
      BY <3>1 DEF RecsAfter
  <2>2. \A p : /\ RolledVal(c, o, p) = val[o][p]
               /\ RolledMod(c, o, p) <=> <<o, p>> \in mod
               /\ RolledObjMod(c, o) = (o \in obj_mod)
    BY <2>1 DEF RolledVal, RolledMod, RolledObjMod
  <2>3. val[o] = [p \in Prop |-> val[o][p]]
    BY DEF IInv, TypeOK
  <2>4. /\ [p \in Prop |-> RolledVal(c, o, p)] = val[o]
        /\ {p \in Prop : RolledMod(c, o, p)} = {p \in Prop : <<o, p>> \in mod}
    BY <2>2, <2>3
  <2>5. ObjStates[o] = [val |-> val[o], mod |-> {p \in Prop : <<o, p>> \in mod},
                        changed |-> o \in obj_mod]
    BY <1>2 DEF ObjStates, ObjState
  <2> QED
    BY <1>10, <2>2, <2>4, <2>5
<1>13. DOMAIN SnapIn(snap, c) = snap[c].objs
  BY DEF SnapIn
<1> QED
  BY <1>2, <1>7, <1>8, <1>11, <1>12, <1>13 DEF Promise!Undo, Promise!SameExcept

(* The program sees nothing of a step of the walk.                         *)
LEMMA UndoStepRefines ==
  ASSUME IInv, UInv, UndoStep
  PROVE  UNCHANGED <<inuse, ObjStates, SnapStack>>
<1>1. PICK c : c = undo.cur_first
  OBVIOUS
<1>2. /\ undo' = undo /\ meta # NoRec /\ meta' # NoRec /\ UNCHANGED <<inuse, snap>>
      /\ LiveLinks(undo', End') = LiveLinks(undo, End)
  <2>1. PICK x : x = Dec(meta)
    OBVIOUS
  <2> QED
    BY <2>1, WalkBack DEF UndoStep
<1>3. Stacked' = Stacked
  BY <1>2 DEF Stacked
<1>4. SnapStack' = SnapStack
  BY <1>2, <1>3, SnapStackIs
<1>5. c \in LiveLinks(undo, End)
  BY <1>1, <1>2, StackedNow, LogNow
<1>6. ASSUME NEW o \in Obj
      PROVE  ObjState(o)' = ObjState(o)
  <2>1. /\ \A p \in Prop : /\ RolledVal(c, o, p)' = RolledVal(c, o, p)
                           /\ RolledMod(c, o, p)' <=> RolledMod(c, o, p)
        /\ RolledObjMod(c, o)' <=> RolledObjMod(c, o)
    BY <1>5, WalkRolled
  <2>2. [p \in Prop |-> RolledVal(c, o, p)]' = [p \in Prop |-> RolledVal(c, o, p)]
    BY <2>1
  <2>3. {p \in Prop : RolledMod(c, o, p)}' = {p \in Prop : RolledMod(c, o, p)}
    BY <2>1
  <2>4. RolledObjMod(c, o)' = RolledObjMod(c, o)
    BY <2>1 DEF RolledObjMod
  <2> QED
    BY <1>1, <1>2, <2>2, <2>3, <2>4 DEF ObjState
<1>7. ObjStates' = ObjStates
  BY <1>6 DEF ObjStates
<1> QED
  BY <1>2, <1>4, <1>7

(* Two orders of the same links agree, and so do the stacks, link by link. *)
LEMMA StackBoth ==
  ASSUME NEW u, NEW w, NEW S, NEW g, NEW h, Ordered(u, S), Ordered(w, S),
         \A s, t \in S : Before(w, s, t) <=> Before(u, s, t)
  PROVE  /\ Cardinality(S) \in Nat
         /\ Stack(u, S, g) = [n \in 1 .. Cardinality(S) |-> Stack(u, S, g)[n]]
         /\ Stack(w, S, h) = [n \in 1 .. Cardinality(S) |-> Stack(w, S, h)[n]]
         /\ \A n \in 1 .. Cardinality(S) : \E s \in S :
              Stack(u, S, g)[n] = SnapIn(g, s) /\ Stack(w, S, h)[n] = SnapIn(h, s)
<1>1. /\ Cardinality(S) \in Nat
      /\ \A n \in 1 .. Cardinality(S) :
           \E s \in S : Pos(u, S, s) = n - 1 /\ Stack(u, S, g)[n] = SnapIn(g, s)
  <2>1. Cardinality(S) \in Nat
    BY StackAt
  <2>2. ASSUME NEW n \in 1 .. Cardinality(S)
        PROVE  \E s \in S : Pos(u, S, s) = n - 1 /\ Stack(u, S, g)[n] = SnapIn(g, s)
    <3>1. NthIn(u, S, n) \in S /\ Pos(u, S, NthIn(u, S, n)) = n - 1
      BY PosOK DEF NthIn
    <3>2. Stack(u, S, g)[n] = SnapIn(g, NthIn(u, S, n))
      BY DEF Stack
    <3> QED
      BY <3>1, <3>2
  <2> QED
    BY <2>1, <2>2
<1>2. \A s \in S : Stack(w, S, h)[Pos(w, S, s) + 1] = SnapIn(h, s)
  BY StackAt
<1>3. ASSUME NEW s \in S
      PROVE  Pos(w, S, s) = Pos(u, S, s)
  <2>1. {t \in S : Before(w, t, s)} = {t \in S : Before(u, t, s)}
    OBVIOUS
  <2> QED
    BY <2>1 DEF Pos
<1>4. ASSUME NEW n \in 1 .. Cardinality(S)
      PROVE  \E s \in S : Stack(u, S, g)[n] = SnapIn(g, s) /\ Stack(w, S, h)[n] = SnapIn(h, s)
  <2>1. PICK s \in S : Pos(u, S, s) = n - 1 /\ Stack(u, S, g)[n] = SnapIn(g, s)
    BY <1>1
  <2>2. Pos(w, S, s) + 1 = n
    <3>1. Pos(w, S, s) = n - 1 /\ n \in Int
      BY <1>1, <1>3, <2>1
    <3> QED
      BY <3>1
  <2>3. Stack(w, S, h)[n] = SnapIn(h, s)
    BY <1>2, <2>2
  <2> QED
    BY <2>1, <2>3
<1>5. /\ Stack(u, S, g) = [n \in 1 .. Cardinality(S) |-> Stack(u, S, g)[n]]
      /\ Stack(w, S, h) = [n \in 1 .. Cardinality(S) |-> Stack(w, S, h)[n]]
  BY DEF Stack
<1> QED
  BY <1>1, <1>4, <1>5

(* Behind the slot before the end there is nothing.                        *)
LEMMA LastLive ==
  ASSUME NEW u \in Undo, NEW e \in Slot, ChainOK(u, e), u.savept_cnt # 0,
         NEW t \in Live(u, e)
  PROVE  ~Before(u, Dec(e), t)
<1>1. PICK f, a, b, n : /\ f = u.oldest_first /\ a = Off(f, Dec(e)) /\ b = Off(f, t)
                        /\ n = Size(f, e)
  OBVIOUS
<1>2. f \in Slot /\ t \in Slot /\ b < n
  BY <1>1, ChainEnds DEF Live
<1>3. a = n - 1 /\ b \in 0 .. RecArrSize - 1 /\ n \in 1 .. RecArrSize
  BY <1>1, <1>2, OffDec, OffRange
<1>4. b \in Int /\ n \in Int
  BY <1>3, SizeAssumption
<1>5. ~(a < b)
  BY <1>2, <1>3, <1>4
<1> QED
  BY <1>1, <1>5 DEF Before

(* The end of the walk drops the savepoint that is already off the stack.  *)
LEMMA UndoFinishRefines ==
  ASSUME IInv, IInv', UInv, UndoFinish
  PROVE  inuse' = inuse /\ ObjStates' = ObjStates /\ SnapStack' = SnapStack
<1>1. /\ undo \in Undo /\ meta \in Slot /\ End = meta /\ ChainOK(undo, meta)
      /\ undo.savept_cnt # 0 /\ Dec(meta) = undo.cur_first /\ undo.savept_cnt \in Nat
      /\ undo' = PopSavept(undo) /\ meta' = NoRec /\ meta # NoRec
      /\ UNCHANGED <<inuse, val, mod, obj_mod, snap>>
  BY LogNow DEF UndoFinish, Undo
<1>2. PICK c, L, M, w, p : /\ c = undo.cur_first /\ L = LiveLinks(undo, End)
                           /\ M = Links(undo') /\ w = undo'
                           /\ p = undo.rec_arr[c].prev_first
  OBVIOUS
<1>3. /\ w \in Undo /\ w.next_free \in Slot /\ ChainOK(w, w.next_free)
      /\ w.savept_cnt = undo.savept_cnt - 1
      /\ Grown(undo, meta, w, w.next_free, {}) /\ w.cur_first = p
      /\ p = NoRec => w.oldest_first = NoRec
  BY <1>1, <1>2, PopSaveptOK, PopGrown DEF PopSavept, Undo
<1>4. /\ Ordered(undo, L) /\ Cardinality(L) = undo.savept_cnt /\ c \in L
      /\ \A s \in L \ {c} : Before(undo, s, c)
      /\ Stacked = L \ {c} /\ Stacked' = M
  BY <1>1, <1>2, StackedNow DEF Stacked, Links, End
<1>5. /\ Ordered(w, M) /\ Cardinality(M) = w.savept_cnt
      /\ w.savept_cnt = 0 => M = {}
      /\ w.savept_cnt # 0 => p \in M /\ \A s \in M \ {p} : Before(w, s, p)
  BY <1>2, <1>3, LinksOrdered DEF Links
<1>6. /\ M \subseteq L
      /\ \A s, t \in M : Before(w, s, t) <=> Before(undo, s, t)
  BY <1>1, <1>2, <1>3 DEF Grown, Links, LiveLinks
<1>7. c \notin M
  <2> SUFFICES ASSUME c \in M PROVE FALSE
    OBVIOUS
  <2>1. p \in M /\ (c # p => Before(w, c, p))
    BY <1>5
  <2>2. IsPrevLink(undo, L, c, p)
    BY <1>1, <1>2, <1>4 DEF ChainOK
  <2>3. p # NoRec
    <3>1. M \subseteq Slot
      BY <1>2 DEF Links, LiveLinks, Live
    <3> QED
      BY <2>1, <3>1 DEF Slot, NoRec
  <2>4. Before(undo, p, c)
    BY <2>2, <2>3 DEF IsPrevLink
  <2>5. c # p /\ Before(undo, c, p)
    BY <1>4, <1>6, <2>1, <2>4 DEF Ordered
  <2> QED
    BY <1>4, <1>6, <2>1, <2>4, <2>5 DEF Ordered
<1>8. M = L \ {c}
  <2>1. IsFiniteSet(L) /\ IsFiniteSet(L \ {c})
        /\ Cardinality(L \ {c}) = Cardinality(L) - 1
    BY <1>4, FS_RemoveElement DEF Ordered
  <2>2. M \in SUBSET (L \ {c}) /\ Cardinality(M) = Cardinality(L \ {c})
    BY <1>3, <1>4, <1>5, <1>6, <1>7, <2>1
  <2> QED
    BY <2>1, <2>2, FS_Subset
<1>9. SnapStack' = SnapStack
  <2>1. Ordered(undo, M)
    BY <1>4, <1>8, StackedNow
  <2>2. PICK u, g, q, r : /\ u = undo /\ g = snap
                          /\ q = Stack(u, M, g) /\ r = Stack(w, M, g)
    OBVIOUS
  <2>3. /\ q = [n \in 1 .. Cardinality(M) |-> q[n]]
        /\ r = [n \in 1 .. Cardinality(M) |-> r[n]]
        /\ \A n \in 1 .. Cardinality(M) : \E s \in M :
             q[n] = SnapIn(g, s) /\ r[n] = SnapIn(g, s)
    <3>1. Ordered(u, M) /\ \A s, t \in M : Before(w, s, t) <=> Before(u, s, t)
      BY <1>6, <2>1, <2>2
    <3> QED
      BY <1>5, <2>2, <3>1, StackBoth
  <2>4. \A n \in 1 .. Cardinality(M) : q[n] = r[n]
    BY <2>3
  <2>5. [n \in 1 .. Cardinality(M) |-> q[n]] = [n \in 1 .. Cardinality(M) |-> r[n]]
    BY <2>4
  <2>6. q = r
    BY <2>3, <2>5
  <2> QED
    BY <1>1, <1>2, <1>4, <1>8, <2>2, <2>6, SnapStackIs
<1>10. ASSUME NEW o \in Obj
       PROVE  ObjState(o)' = ObjState(o)
  <2>1. \A q : RecsAfter(c, o, q) = {}
    BY <1>1, <1>2, LastLive DEF RecsAfter, LiveNow
  <2>2. \A q : /\ RolledVal(c, o, q) = val[o][q]
               /\ RolledMod(c, o, q) <=> <<o, q>> \in mod
               /\ RolledObjMod(c, o) = (o \in obj_mod)
    BY <2>1 DEF RolledVal, RolledMod, RolledObjMod
  <2>3. val[o] = [q \in Prop |-> val[o][q]]
    BY DEF IInv, TypeOK
  <2>4. /\ [q \in Prop |-> RolledVal(c, o, q)] = val[o]
        /\ {q \in Prop : RolledMod(c, o, q)} = {q \in Prop : <<o, q>> \in mod}
    BY <2>2, <2>3
  <2>5. ObjState(o) = [val |-> val[o], mod |-> {q \in Prop : <<o, q>> \in mod},
                       changed |-> o \in obj_mod]
    BY <1>1, <1>2, <2>2, <2>4 DEF ObjState
  <2>6. ObjState(o)' = [val |-> val[o], mod |-> {q \in Prop : <<o, q>> \in mod},
                        changed |-> o \in obj_mod]
    BY <1>1 DEF ObjState
  <2> QED
    BY <2>5, <2>6
<1>11. ObjStates' = ObjStates
  BY <1>10 DEF ObjStates
<1> QED
  BY <1>1, <1>9, <1>11

(* A property that is set changes one object; recording it may push old    *)
(* snapshots out.                                                          *)
LEMMA SetPropRefines ==
  ASSUME IInv, IInv', UInv, NEW o \in Obj, NEW p \in Prop, NEW v \in Obj \cup {Nil},
         SetProp(o, p, v)
  PROVE  Promise!Change
<1> DEFINE old == val[o][p]
           fresh == <<o, p>> \notin prop_undo
           u1 == IF fresh THEN AddRecord(undo, o, p, old) ELSE undo
           u2 == IF fresh /\ <<o, p>> \notin mod /\ old # Absent
                 THEN AddRecord(u1, o, p, Blank) ELSE u1
           u3 == IF o \notin obj_mod
                 THEN AddRecord(u2, o, InvalidProp, Unmod) ELSE u2
<1>1. /\ GoodUndo(undo) /\ TypeOK /\ undo' = u3
      /\ meta = NoRec /\ meta' = NoRec /\ UNCHANGED <<inuse, snap>> /\ o \in inuse
      /\ \A x \in Obj : x # o => val'[x] = val[x]
      /\ mod' = mod \cup {<<o, p>>} /\ obj_mod' = obj_mod \cup {o}
  <2>1. undo' = u3
    BY DEF SetProp
  <2>2. GoodUndo(undo) /\ TypeOK
    BY NotWalking DEF IInv, SetProp
  <2> QED
    BY <2>1, <2>2, SetPropObjects
<1>2. /\ Rec(o, p, old) \in Content /\ Rec(o, p, Blank) \in Content
      /\ Rec(o, InvalidProp, Unmod) \in Content
  BY <1>1 DEF TypeOK, Rec, Content, RefVal
<1>3. \A u : Top(u, Links(u), u, Links(u))
  BY DEF Top
<1>4. PICK a, b, d, e : a = undo /\ b = u1 /\ d = u2 /\ e = u3
  OBVIOUS
<1>5. GoodUndo(b) /\ Top(a, Links(a), b, Links(b))
  <2>1. b = AddRecord(a, o, p, old) \/ b = a
    BY <1>4
  <2> QED
    BY <1>1, <1>2, <1>3, <1>4, <2>1, AddRecordOK, AddRecordTop
<1>6. GoodUndo(d) /\ Top(b, Links(b), d, Links(d))
  <2>1. d = AddRecord(b, o, p, Blank) \/ d = b
    BY <1>4
  <2> QED
    BY <1>2, <1>3, <1>5, <2>1, AddRecordOK, AddRecordTop
<1>7. Top(d, Links(d), e, Links(e))
  <2>1. e = AddRecord(d, o, InvalidProp, Unmod) \/ e = d
    BY <1>4
  <2> QED
    BY <1>2, <1>3, <1>6, <2>1, AddRecordTop
<1> HIDE DEF u1, u2, u3, old, fresh
<1>8. Top(a, Links(a), e, Links(e))
  <2>1. Top(a, Links(a), d, Links(d))
    BY <1>5, <1>6, TopTwice
  <2> QED
    BY <1>7, <2>1, TopTwice
<1>9. SnapStack' \in Promise!Suffixes(SnapStack)
  BY <1>1, <1>4, <1>8, StackLoses
<1>10. ASSUME NEW x \in Obj, x # o
       PROVE  ObjStates'[x] = ObjStates[x]
  BY <1>1, <1>10, StateKept
<1> QED
  BY <1>1, <1>9, <1>10 DEF Promise!Change, Promise!SameExcept

(* A new object leaves the others and the snapshots alone.                 *)
LEMMA CreateRefines ==
  ASSUME IInv, NEW o \in Obj, Create(o)
  PROVE  Promise!Create
<1>1. /\ meta = NoRec /\ meta' = NoRec /\ undo' = undo /\ snap' = snap
      /\ o \notin inuse /\ inuse' = inuse \cup {o}
      /\ val' = [val EXCEPT ![o] = [p \in Prop |-> Absent]]
      /\ UNCHANGED <<mod, obj_mod>>
  BY DEF Create
<1>2. ASSUME NEW x \in Obj, x # o
      PROVE  ObjStates'[x] = ObjStates[x]
  <2>1. val'[x] = val[x]
    BY <1>1, <1>2 DEF IInv, TypeOK
  <2> QED
    BY <1>1, <2>1, StateKept
<1>3. SnapStack' = SnapStack
  <2>1. Stacked' = Stacked
    BY <1>1 DEF Stacked, End
  <2> QED
    BY <1>1, <2>1, SnapStackIs
<1> QED
  BY <1>1, <1>2, <1>3 DEF Promise!Create, Promise!SameExcept

(* A collection takes the objects it frees out of every snapshot.          *)
LEMMA CollectRefines ==
  ASSUME IInv, IInv', Collect
  PROVE  Promise!Collect
<1>1. /\ TypeOK /\ meta = NoRec /\ meta' = NoRec /\ GoodUndo(undo) /\ End = undo.next_free
      /\ End' = undo'.next_free
  BY LogNow DEF Collect, IInv, End
<1>2. PICK G : G = Garbage
  OBVIOUS
<1>3. /\ inuse' = inuse \ G /\ G \subseteq inuse /\ inuse \subseteq Obj
      /\ mod' = {m \in mod : m[1] \notin G} /\ obj_mod' = obj_mod \ G
      /\ \A o \in Obj \ G : val'[o] = val[o]
  BY <1>1, <1>2 DEF Collect, Garbage, TypeOK
<1>4. ASSUME NEW o \in Obj, o \notin G
      PROVE  ObjStates'[o] = ObjStates[o]
  <2>1. \A p \in Prop : <<o, p>> \in mod' <=> <<o, p>> \in mod
    BY <1>3, <1>4
  <2> QED
    BY <1>1, <1>3, <1>4, <2>1, StateKept
<1>5. inuse \ inuse' = G
  BY <1>3
<1>6. \A s \in Slot : /\ snap'[s].objs = snap[s].objs \ G
                      /\ snap'[s].val = snap[s].val /\ snap'[s].mod = snap[s].mod
                      /\ snap'[s].obj_mod = snap[s].obj_mod
  <2>1. snap' = [s \in Slot |-> [snap[s] EXCEPT !.objs = snap[s].objs \ G]]
    BY <1>2 DEF Collect
  <2>2. \A s \in Slot : snap[s] \in Snap
    BY <1>1 DEF TypeOK
  <2> QED
    BY <2>1, <2>2 DEF Snap
<1>7. /\ Live(undo', undo'.next_free) = Live(undo, undo.next_free)
      /\ \A s, t : Before(undo', s, t) <=> Before(undo, s, t)
      /\ \A s \in Live(undo, undo.next_free) :
           undo'.rec_arr[s].kind = undo.rec_arr[s].kind
  <2>1. undo' = EraseOwners(undo, G)
    BY <1>2 DEF Collect
  <2>2. /\ undo'.oldest_first = undo.oldest_first /\ undo'.next_free = undo.next_free
        /\ undo'.savept_cnt = undo.savept_cnt
    BY <2>1 DEF EraseOwners
  <2>3. \A s \in Live(undo, undo.next_free) :
          undo'.rec_arr[s].kind = undo.rec_arr[s].kind
    BY <2>1 DEF EraseOwners, Rec, Live
  <2> QED
    BY <2>2, <2>3 DEF Live, Before
<1>8. Links(undo') = Links(undo) /\ Links(undo) \subseteq Slot
  BY <1>7 DEF Links, LiveLinks, Live
<1>9. PICK u, w, g, h, L, q, r :
        /\ u = undo /\ w = undo' /\ g = snap /\ h = snap' /\ L = Links(undo)
        /\ q = Stack(u, L, g) /\ r = Stack(w, L, h)
  OBVIOUS
<1>10. Ordered(u, L) /\ Ordered(w, L) /\ SnapStack = q /\ SnapStack' = r
  <2>1. Ordered(u, L) /\ SnapStack = q
    BY <1>1, <1>9, StackedNow, SnapStackIs
  <2>2. Stacked' = L
    BY <1>1, <1>8, <1>9 DEF Stacked, Links
  <2>3. Ordered(w, L)
    BY <1>7, <1>9, <2>1 DEF Ordered
  <2> QED
    BY <1>9, <2>1, <2>2, <2>3, SnapStackIs
<1>11. PICK n : n = Cardinality(L)
  OBVIOUS
<1>12. /\ q = [i \in 1 .. n |-> q[i]] /\ r = [i \in 1 .. n |-> r[i]]
       /\ \A i \in 1 .. n : \E s \in L : q[i] = SnapIn(g, s) /\ r[i] = SnapIn(h, s)
  <2>1. \A s, t \in L : Before(w, s, t) <=> Before(u, s, t)
    BY <1>7, <1>9
  <2> QED
    BY <1>9, <1>10, <1>11, <2>1, StackBoth
<1>13. ASSUME NEW s \in L
       PROVE  SnapIn(h, s) = [o \in DOMAIN SnapIn(g, s) \ G |-> SnapIn(g, s)[o]]
  <2>1. /\ h[s].objs = g[s].objs \ G /\ h[s].val = g[s].val /\ h[s].mod = g[s].mod
        /\ h[s].obj_mod = g[s].obj_mod
    BY <1>6, <1>8, <1>9
  <2>2. DOMAIN SnapIn(g, s) = g[s].objs
    BY DEF SnapIn
  <2>3. \A o \in g[s].objs :
          SnapIn(g, s)[o] = [val |-> g[s].val[o], mod |-> {p \in Prop : <<o, p>> \in g[s].mod},
                             changed |-> o \in g[s].obj_mod]
    BY DEF SnapIn
  <2>4. SnapIn(h, s) =
          [o \in g[s].objs \ G |->
             [val |-> g[s].val[o], mod |-> {p \in Prop : <<o, p>> \in g[s].mod},
              changed |-> o \in g[s].obj_mod]]
    BY <2>1 DEF SnapIn
  <2> QED
    BY <2>2, <2>3, <2>4
<1>14. r = Promise!Without(q, G)
  <2>1. DOMAIN q = 1 .. n
    BY <1>12
  <2>2. \A i \in 1 .. n : r[i] = [o \in DOMAIN q[i] \ G |-> q[i][o]]
    <3> TAKE i \in 1 .. n
    <3>1. PICK s \in L : q[i] = SnapIn(g, s) /\ r[i] = SnapIn(h, s)
      BY <1>12
    <3> QED
      BY <1>13, <3>1
  <2>3. [i \in 1 .. n |-> r[i]] = [i \in 1 .. n |-> [o \in DOMAIN q[i] \ G |-> q[i][o]]]
    BY <2>2
  <2> QED
    BY <1>12, <2>1, <2>3 DEF Promise!Without
<1> QED
  BY <1>3, <1>4, <1>5, <1>10, <1>14 DEF Promise!Collect, Promise!SameExcept

(* RESTART forgets the snapshots and changes the objects of the image.     *)
LEMMA ResetRefines ==
  ASSUME IInv, IInv', UInv, ResetToImage
  PROVE  Promise!Reset
<1> DEFINE reset == RootObj \ TransientObj
<1>1. /\ meta = NoRec /\ meta' = NoRec /\ undo' = DropUndo(undo) /\ inuse' = inuse
      /\ \A o \in Obj \ reset : val'[o] = val[o]
      /\ mod' = {m \in mod : m[1] \notin reset} /\ obj_mod' = obj_mod \ reset
  BY DEF ResetToImage
<1>2. SnapStack' = <<>>
  <2>1. undo'.savept_cnt = 0
    BY <1>1 DEF DropUndo
  <2> QED
    BY <2>1, NoStack
<1>3. reset \subseteq inuse \ TransientObj
  BY DEF UInv, ObjectsOK
<1> HIDE DEF reset
<1>4. ASSUME NEW o \in Obj, o \notin inuse \ TransientObj
      PROVE  ObjStates'[o] = ObjStates[o]
  <2>1. o \notin reset
    BY <1>3, <1>4
  <2>2. \A p \in Prop : <<o, p>> \in mod' <=> <<o, p>> \in mod
    BY <1>1, <2>1
  <2> QED
    BY <1>1, <2>1, <2>2, StateKept
<1> QED
  BY <1>1, <1>2, <1>4 DEF Promise!Reset, Promise!SameExcept

(* What the program does with its references is not seen.                  *)
LEMMA QuietRefines ==
  ASSUME UNCHANGED <<undo, meta, inuse, val, mod, obj_mod, snap>>
  PROVE  inuse' = inuse /\ ObjStates' = ObjStates /\ SnapStack' = SnapStack
<1>1. End' = End /\ LiveNow' = LiveNow /\ Stacked' = Stacked
  BY DEF End, LiveNow, Stacked
<1>2. PICK c : c = undo.cur_first
  OBVIOUS
<1>3. \A o, p : RecsAfter(c, o, p)' = RecsAfter(c, o, p)
  BY <1>1 DEF RecsAfter
<1>4. \A o, p : RolledVal(c, o, p)' = RolledVal(c, o, p)
  BY <1>3, RolledValIn
<1>5. \A o, p : RolledMod(c, o, p)' <=> RolledMod(c, o, p)
  BY <1>3 DEF RolledMod
<1>6. \A o : RolledObjMod(c, o)' = RolledObjMod(c, o)
  BY <1>3 DEF RolledObjMod
<1>7. ASSUME NEW o \in Obj
      PROVE  ObjState(o)' = ObjState(o)
  <2>1. [p \in Prop |-> RolledVal(c, o, p)'] = [p \in Prop |-> RolledVal(c, o, p)]
    BY <1>4
  <2>2. {p \in Prop : RolledMod(c, o, p)'} = {p \in Prop : RolledMod(c, o, p)}
    BY <1>5
  <2> QED
    BY <1>2, <1>6, <2>1, <2>2 DEF ObjState
<1>8. ObjStates' = ObjStates
  BY <1>7 DEF ObjStates
<1> QED
  BY <1>1, <1>8, SnapStackIs

(* Every step is a step of the snapshot stack, or is not seen.             *)
LEMMA StepRefines ==
  ASSUME IInv, IInv', UInv, [Next]_vars
  PROVE  [Promise!Next]_(Promise!absVars)
<1> USE DEF Promise!absVars
<1>1. CASE UNCHANGED vars
  BY <1>1, QuietRefines DEF vars, objVars
<1>2. CASE Savepoint
  BY <1>2, SavepointRefines DEF Promise!Next
<1>3. CASE UndoBegin
  BY <1>3, UndoBeginRefines DEF Promise!Next
<1>4. CASE UndoStep
  BY <1>4, UndoStepRefines
<1>5. CASE UndoFinish
  BY <1>5, UndoFinishRefines
<1>6. CASE \E o \in Obj, p \in Prop, v \in Obj \cup {Nil} : SetProp(o, p, v)
  BY <1>6, SetPropRefines DEF Promise!Next
<1>7. CASE \E o \in Obj \ RootObj : Create(o)
  BY <1>7, CreateRefines DEF Promise!Next
<1>8. CASE \E o \in Obj : Release(o)
  BY <1>8, QuietRefines DEF Release
<1>9. CASE Collect
  BY <1>9, CollectRefines DEF Promise!Next
<1>10. CASE ResetToImage
  BY <1>10, ResetRefines DEF Promise!Next
<1> QED
  BY <1>1, <1>2, <1>3, <1>4, <1>5, <1>6, <1>7, <1>8, <1>9, <1>10 DEF Next

(* The VM starts without snapshots.                                        *)
LEMMA InitRefines == Init => Promise!Init
<1> SUFFICES ASSUME Init PROVE Promise!Init
  OBVIOUS
<1>1. Stacked = {} /\ inuse \subseteq Obj
  <2>1. undo.savept_cnt = 0 /\ inuse = RootObj
    BY DEF Init
  <2>2. Live(undo, End) = {}
    BY <2>1 DEF Live
  <2> QED
    BY <2>1, <2>2, ObjAssumption DEF Stacked, LiveLinks
<1>2. SnapStack = <<>>
  <2>1. Cardinality(Stacked) = 0 /\ 1 .. 0 = {}
    BY <1>1, FS_EmptySet
  <2> QED
    BY <2>1 DEF SnapStack
<1> QED
  BY <1>1, <1>2 DEF Promise!Init
------------------------------------------------------------------------------
(* Seen from the program, the circular array, its links, the dropped       *)
(* savepoints, the walk of undo and the collector's dealings with the log  *)
(* are a bounded stack of snapshots: undo takes the last one off and puts  *)
(* every object it has back to exactly what it was, and nothing else in    *)
(* the system changes a snapshot.                                          *)
THEOREM Implements == Spec => ImplementsSnapshotStack
<1>1. Init => Promise!Init
  BY InitRefines
<1>2. IInv /\ IInv' /\ UInv /\ [Next]_vars => [Promise!Next]_(Promise!absVars)
  BY StepRefines
<1> QED
  BY Invariance, RecordsKept, <1>1, <1>2, PTL DEF Spec, ImplementsSnapshotStack, Promise!Spec
=============================================================================
