----------------------------- MODULE ObjGCProofs -----------------------------
(***************************************************************************)
(* Theorems about ObjGC for every size of the object table: a collection   *)
(* in which no finalizer collects again, and a program whose saves do not  *)
(* fail, leave no dangling reference, keep the lists apart, and leave the  *)
(* conditions the next pass relies on.                                     *)
(*                                                                         *)
(* The inductive invariant IInv says what the marks and the lists mean in  *)
(* each phase; the marks change their meaning at the scan position of the  *)
(* sweep (Kept).                                                           *)
(***************************************************************************)
EXTENDS ObjGC, SequenceTheorems, WellFoundedInduction, TLAPS

------------------------------------------------------------------------------
(* Numbers.                                                                *)

(* Object IDs are positive numbers, and NoObj is not one.                  *)
LEMMA ObjNumbers ==
  /\ Obj \subseteq Nat /\ NoObj \notin Obj /\ NoObj = 0
  /\ \A o \in Obj : o \in 1 .. NumObj
  /\ NumObj \in Nat
BY TableAssumption DEF Obj, NoObj

LessThan == {p \in Nat \X Nat : p[1] < p[2]}
(* The order of the numbers is well-founded.                               *)
LEMMA LessThanWellFounded == IsWellFoundedOn(LessThan, Nat)
<1>1. LessThan = OpToRel(<, Nat)
  BY DEF LessThan, OpToRel
<1> QED
  BY <1>1, NatLessThanWellFounded

(* Every nonempty set of numbers has a least one ...                       *)
LEMMA HasMin ==
  ASSUME NEW S, S \subseteq Nat, S # {}
  PROVE  \E x \in S : \A y \in S : x <= y
<1>1. PICK x \in S : \A y \in S : ~ (<<y, x>> \in LessThan)
  BY LessThanWellFounded, WFMin
<1>2. ASSUME NEW y \in S, y < x PROVE FALSE
  <2>1. <<y, x>> \in LessThan
    BY <1>2 DEF LessThan
  <2> QED
    BY <1>1, <2>1
<1> QED
  BY <1>2

(* ... and every nonempty set of object IDs a greatest one, which MaxOf is. *)
LEMMA MaxOfObj ==
  ASSUME NEW S, S \subseteq Obj, S # {}
  PROVE  /\ MaxOf(S) \in S
         /\ \A y \in S : y <= MaxOf(S)
<1> DEFINE T == {n \in Nat : \E x \in S : n = NumObj - x}
<1>1. T \subseteq Nat /\ T # {}
  <2>1. PICK x \in S : TRUE
    OBVIOUS
  <2>2. NumObj - x \in Nat
    BY ObjNumbers
  <2> QED
    BY <2>2
<1>2. PICK m \in T : \A n \in T : m <= n
  BY <1>1, HasMin
<1>3. PICK x \in S : m = NumObj - x
  BY <1>2
<1>4. ASSUME NEW y \in S PROVE y <= x
  <2>1. NumObj - y \in T
    BY ObjNumbers
  <2> QED
    BY <1>2, <1>3, <2>1, ObjNumbers
<1> QED
  BY <1>3, <1>4 DEF MaxOf
------------------------------------------------------------------------------
(* Sets reached by following a field.                                      *)

(* Followed(f, S) holds S and what its members refer to ...                *)
LEMMA FollowedClosed ==
  ASSUME NEW f \in [Obj -> ObjOrNone], NEW S \in SUBSET Obj
  PROVE  /\ S \subseteq Followed(f, S)
         /\ Followed(f, S) \subseteq Obj
         /\ \A x \in Followed(f, S) : f[x] \in Followed(f, S) \cup {NoObj}
BY DEF Followed, ObjOrNone

(* ... and is the least such set.                                          *)
LEMMA FollowedLeast ==
  ASSUME NEW f, NEW S, NEW C \in SUBSET Obj,
         S \subseteq C, \A x \in C : f[x] \in C \cup {NoObj}
  PROVE  Followed(f, S) \subseteq C
BY DEF Followed

(* It depends only on the fields of its members.                           *)
LEMMA FollowedFrame ==
  ASSUME NEW f \in [Obj -> ObjOrNone], NEW g \in [Obj -> ObjOrNone],
         NEW S \in SUBSET Obj, \A x \in Followed(f, S) : g[x] = f[x]
  PROVE  Followed(g, S) = Followed(f, S)
<1>1. Followed(g, S) \subseteq Followed(f, S)
  BY FollowedClosed, FollowedLeast
<1>2. Followed(f, S) \subseteq Followed(f, S) \cap Followed(g, S)
  <2> DEFINE C == Followed(f, S) \cap Followed(g, S)
  <2>1. C \in SUBSET Obj /\ S \subseteq C
    BY FollowedClosed
  <2>2. \A x \in C : f[x] \in C \cup {NoObj}
    BY FollowedClosed
  <2> HIDE DEF C
  <2>3. Followed(f, S) \subseteq C
    BY <2>1, <2>2, FollowedLeast
  <2> QED
    BY <2>3 DEF C
<1> QED
  BY <1>1, <1>2

(* More to start from reaches more.                                        *)
LEMMA FollowedMonotone ==
  ASSUME NEW f \in [Obj -> ObjOrNone], NEW S \in SUBSET Obj, NEW T \in SUBSET Obj,
         S \subseteq Followed(f, T)
  PROVE  Followed(f, S) \subseteq Followed(f, T)
BY FollowedClosed, FollowedLeast
------------------------------------------------------------------------------
(* Lists.                                                                  *)

\* Listed and HasEnd with the link field as a parameter.
Chain(f, h) == Followed(f, {h} \ {NoObj})
Ends(f, h) == h # NoObj => \E o \in Chain(f, h) : f[o] = NoObj
Acyclic(f, h) == \A x \in Chain(f, h) : x \notin Chain(f, f[x])

(* The properties of ObjGC are about these lists.                          *)
LEMMA ListedIsChain ==
  ASSUME NEW h
  PROVE  /\ Listed(h) = Chain(next_obj, h)
         /\ HasEnd(h) <=> Ends(next_obj, h)
BY DEF Listed, HasEnd, Chain, Ends

(* An empty list has no members.                                           *)
LEMMA ChainEmpty == ASSUME NEW f PROVE Chain(f, NoObj) = {} /\ Ends(f, NoObj)
<1>1. Followed(f, {}) \subseteq {}
  BY FollowedLeast
<1> QED
  BY <1>1 DEF Chain, Ends

(* A list is its head and the list behind it.                              *)
LEMMA ChainHead ==
  ASSUME NEW f \in [Obj -> ObjOrNone], NEW h \in Obj
  PROVE  Chain(f, h) = {h} \cup Chain(f, f[h])
<1>0. h # NoObj /\ {f[h]} \ {NoObj} \in SUBSET Obj
  BY ObjNumbers DEF ObjOrNone
<1>1. {h} \cup Chain(f, f[h]) \subseteq Chain(f, h)
  <2>1. h \in Chain(f, h) /\ {f[h]} \ {NoObj} \subseteq Chain(f, h)
    BY <1>0, FollowedClosed DEF Chain
  <2> QED
    BY <1>0, <2>1, FollowedMonotone DEF Chain
<1>2. Chain(f, h) \subseteq {h} \cup Chain(f, f[h])
  <2> DEFINE C == {h} \cup Chain(f, f[h])
  <2>1. C \in SUBSET Obj /\ {h} \ {NoObj} \subseteq C
    BY <1>0, FollowedClosed DEF Chain
  <2>2. \A x \in C : f[x] \in C \cup {NoObj}
    BY <1>0, FollowedClosed DEF Chain
  <2> HIDE DEF C
  <2>3. Chain(f, h) \subseteq C
    BY <2>1, <2>2, FollowedLeast DEF Chain
  <2> QED
    BY <2>3 DEF C
<1> QED
  BY <1>1, <1>2

(* A list is a set of objects, with its head, that the links stay in.      *)
LEMMA ChainClosed ==
  ASSUME NEW f \in [Obj -> ObjOrNone], NEW h \in ObjOrNone
  PROVE  /\ Chain(f, h) \subseteq Obj
         /\ h \in Chain(f, h) \cup {NoObj}
         /\ \A x \in Chain(f, h) : f[x] \in Chain(f, h) \cup {NoObj}
BY ObjNumbers, FollowedClosed DEF Chain, ObjOrNone

(* A list depends only on the links of its members.                        *)
LEMMA ChainFrame ==
  ASSUME NEW f \in [Obj -> ObjOrNone], NEW g \in [Obj -> ObjOrNone],
         NEW h \in ObjOrNone, \A x \in Chain(f, h) : g[x] = f[x]
  PROVE  Chain(g, h) = Chain(f, h) /\ (Ends(f, h) => Ends(g, h))
<1>1. Chain(g, h) = Chain(f, h)
  BY FollowedFrame DEF Chain, ObjOrNone
<1> QED
  BY <1>1 DEF Ends

(* Taking the head leaves a list with an end.                              *)
LEMMA ChainPop ==
  ASSUME NEW f \in [Obj -> ObjOrNone], NEW h \in Obj, Ends(f, h)
  PROVE  Ends(f, f[h])
<1>1. h # NoObj
  BY ObjNumbers
<1>2. PICK o \in Chain(f, h) : f[o] = NoObj
  BY <1>1 DEF Ends
<1>3. CASE o = h
  BY <1>2, <1>3 DEF Ends
<1>4. CASE o # h
  BY <1>2, <1>4, ChainHead DEF Ends
<1> QED
  BY <1>3, <1>4

(* Pushing a set of objects that are not in the list, lowest ID first.     *)
LEMMA ChainPush ==
  ASSUME NEW f \in [Obj -> ObjOrNone], NEW g \in [Obj -> ObjOrNone],
         NEW h \in ObjOrNone, NEW new \in SUBSET Obj,
         new \cap Chain(f, h) = {},
         \A x \in Obj : g[x] = IF x \in new THEN PushedLink(new, h, x) ELSE f[x]
  PROVE  /\ PushedHead(new, h) \in ObjOrNone
         /\ Chain(g, PushedHead(new, h)) = new \cup Chain(f, h)
         /\ Ends(f, h) => Ends(g, PushedHead(new, h))
<1> DEFINE H == PushedHead(new, h)
<1>0. \A x \in new : x \in Int
  BY ObjNumbers
<1>1. \A x \in Chain(f, h) : g[x] = f[x]
  BY ChainClosed
<1>2. Chain(g, h) = Chain(f, h)
  BY <1>1, ChainFrame
<1>3. CASE new = {}
  <2>1. H = h
    BY <1>3 DEF PushedHead
  <2> QED
    BY <1>1, <1>2, <1>3, <2>1, ChainFrame
<1>4. CASE new # {}
  <2>1. H = MaxOf(new) /\ H \in new /\ \A y \in new : y <= H
    BY <1>4, MaxOfObj DEF PushedHead
  <2>2. H \in ObjOrNone /\ H # NoObj
    BY <2>1, ObjNumbers DEF ObjOrNone
  <2>3. PICK low \in new : \A y \in new : low <= y
    BY <1>4, HasMin, ObjNumbers
  <2>4. g[low] = h
    <3>1. {y \in new : y < low} = {}
      BY <2>3, <1>0
    <3> QED
      BY <3>1 DEF PushedLink
  <2>5. Chain(g, H) \subseteq new \cup Chain(f, h)
    <3> DEFINE C == new \cup Chain(f, h)
    <3>1. C \in SUBSET Obj /\ {H} \ {NoObj} \subseteq C
      BY <2>1, ChainClosed
    <3>2. \A x \in C : g[x] \in C \cup {NoObj}
      <4>1. ASSUME NEW x \in new PROVE g[x] \in C \cup {NoObj}
        <5> DEFINE below == {y \in new : y < x}
        <5>1. CASE below = {}
          BY <5>1, ChainClosed DEF PushedLink
        <5>2. CASE below # {}
          <6>1. MaxOf(below) \in below
            BY <5>2, MaxOfObj
          <6>2. g[x] = MaxOf(below)
            BY <5>2 DEF PushedLink
          <6> QED
            BY <6>1, <6>2
        <5> QED
          BY <5>1, <5>2
      <4>2. ASSUME NEW x \in Chain(f, h) PROVE g[x] \in C \cup {NoObj}
        BY <1>1, ChainClosed
      <4> QED
        BY <4>1, <4>2
    <3> HIDE DEF C
    <3>3. Chain(g, H) \subseteq C
      BY <3>1, <3>2, FollowedLeast DEF Chain
    <3> QED
      BY <3>3 DEF C
  <2>6. new \subseteq Chain(g, H)
    <3> DEFINE B == {x \in new : x \notin Chain(g, H)}
               m == MaxOf(B)
               U == {y \in new : m < y}
    <3> SUFFICES ASSUME B # {} PROVE FALSE
      OBVIOUS
    <3>1. m \in B /\ \A y \in B : y <= m
      BY MaxOfObj
    <3>2. H \in Chain(g, H)
      BY <2>2, ChainClosed
    <3>3. H \in U
      BY <2>1, <3>1, <3>2, <1>0
    <3>4. PICK y \in U : \A z \in U : y <= z
      BY <3>3, HasMin, ObjNumbers
    <3>5. y \in Chain(g, H)
      BY <3>1, <3>4, <1>0
    <3> DEFINE below == {x \in new : x < y}
    <3>6. m \in below
      BY <3>1, <3>4
    <3>7. MaxOf(below) \in below /\ m <= MaxOf(below)
      BY <3>6, MaxOfObj
    <3>8. MaxOf(below) = m
      <4>1. MaxOf(below) \notin U
        BY <3>4, <3>7, <1>0
      <4> QED
        BY <3>1, <3>7, <4>1, <1>0
    <3>9. g[y] = m
      BY <3>4, <3>6, <3>8 DEF PushedLink
    <3>10. m \in Chain(g, H) \cup {NoObj}
      BY <2>2, <3>5, <3>9, ChainClosed
    <3> QED
      BY <3>1, <3>10, ObjNumbers
  <2>7. Chain(f, h) \subseteq Chain(g, H)
    <3>1. {h} \ {NoObj} \subseteq Chain(g, H)
      BY <2>2, <2>3, <2>4, <2>6, ChainClosed
    <3>2. {h} \ {NoObj} \in SUBSET Obj /\ {H} \ {NoObj} \in SUBSET Obj
      BY <2>2 DEF ObjOrNone
    <3>3. Chain(g, h) \subseteq Chain(g, H)
      BY <3>1, <3>2, FollowedMonotone DEF Chain
    <3> QED
      BY <1>2, <3>3
  <2>8. Ends(f, h) => Ends(g, H)
    <3>1. CASE h = NoObj
      BY <2>3, <2>4, <2>6, <3>1 DEF Ends
    <3>2. CASE h # NoObj
      BY <1>1, <2>7, <3>2 DEF Ends
    <3> QED
      BY <3>1, <3>2
  <2> QED
    BY <2>2, <2>5, <2>6, <2>7, <2>8
<1> QED
  BY <1>3, <1>4

(* Pushing one object keeps a list without cycles free of them.            *)
LEMMA ChainPushOne ==
  ASSUME NEW f \in [Obj -> ObjOrNone], NEW h \in ObjOrNone, NEW o \in Obj,
         o \notin Chain(f, h)
  PROVE  LET g == [f EXCEPT ![o] = h] IN
         /\ g \in [Obj -> ObjOrNone]
         /\ Chain(g, o) = {o} \cup Chain(f, h)
         /\ Ends(f, h) => Ends(g, o)
         /\ Acyclic(f, h) => Acyclic(g, o)
<1> DEFINE g == [f EXCEPT ![o] = h]
<1>1. g \in [Obj -> ObjOrNone] /\ g[o] = h
  OBVIOUS
<1>2. \A x \in Chain(f, h) : g[x] = f[x]
  BY ChainClosed
<1>3. Chain(g, h) = Chain(f, h) /\ (Ends(f, h) => Ends(g, h))
  BY <1>1, <1>2, ChainFrame
<1>4. Chain(g, o) = {o} \cup Chain(g, h)
  BY <1>1, ChainHead
<1>5. Ends(f, h) => Ends(g, o)
  <2>1. CASE h = NoObj
    BY <1>1, <1>4, <2>1 DEF Ends
  <2>2. CASE h # NoObj
    BY <1>3, <1>4, <2>2 DEF Ends
  <2> QED
    BY <2>1, <2>2
<1>6. ASSUME Acyclic(f, h), NEW x \in Chain(g, o) PROVE x \notin Chain(g, g[x])
  <2>1. CASE x = o
    BY <1>1, <1>3, <2>1
  <2>2. CASE x \in Chain(f, h)
    <3>1. f[x] \in ObjOrNone /\ g[x] = f[x] /\ {f[x]} \ {NoObj} \subseteq Chain(f, h)
      BY <1>2, <2>2, ChainClosed
    <3>2. Chain(f, f[x]) \subseteq Chain(f, h)
      <4>1. {f[x]} \ {NoObj} \in SUBSET Obj /\ {h} \ {NoObj} \in SUBSET Obj
        BY <3>1 DEF ObjOrNone
      <4> QED
        BY <3>1, <4>1, FollowedMonotone DEF Chain
    <3>3. Chain(g, f[x]) = Chain(f, f[x])
      <4>1. \A y \in Chain(f, f[x]) : g[y] = f[y]
        BY <1>2, <3>2
      <4> HIDE DEF g
      <4> QED
        BY <1>1, <3>1, <4>1, ChainFrame
    <3> QED
      BY <1>6, <2>2, <3>1, <3>3 DEF Acyclic
  <2> QED
    BY <1>3, <1>4, <2>1, <2>2
<1>7. Acyclic(f, h) => Acyclic(g, o)
  BY <1>6 DEF Acyclic
<1> QED
  BY <1>1, <1>3, <1>4, <1>5, <1>7

(* Taking the head of a list without cycles takes it out of the list.      *)
LEMMA ChainPopAcyclic ==
  ASSUME NEW f \in [Obj -> ObjOrNone], NEW h \in Obj, Acyclic(f, h)
  PROVE  /\ Chain(f, f[h]) = Chain(f, h) \ {h}
         /\ Acyclic(f, f[h])
BY ChainHead DEF Acyclic
------------------------------------------------------------------------------
(* The work queue.                                                         *)

Queue == [reach : [Obj -> UNREACHABLE .. REACHABLE], next : [Obj -> ObjOrNone],
          head : ObjOrNone]

(* The helper of the lists' heads and links stays within the objects.      *)
LEMMA PushedType ==
  ASSUME NEW h \in ObjOrNone, NEW new \in SUBSET Obj
  PROVE  /\ PushedHead(new, h) \in ObjOrNone
         /\ \A o \in Obj : PushedLink(new, h, o) \in ObjOrNone
<1>1. PushedHead(new, h) \in ObjOrNone
  BY MaxOfObj DEF PushedHead, ObjOrNone
<1>2. ASSUME NEW o \in Obj PROVE PushedLink(new, h, o) \in ObjOrNone
  <2> DEFINE below == {x \in new : x < o}
  <2>1. below # {} => MaxOf(below) \in Obj
    BY MaxOfObj
  <2>2. PushedLink(new, h, o) = IF below = {} THEN h ELSE MaxOf(below)
    BY DEF PushedLink
  <2> QED
    BY <2>1, <2>2 DEF ObjOrNone
<1> QED
  BY <1>1, <1>2

(* add_to_gc_queue raises marks, never lowers one, and queues the objects  *)
(* of S that were not marked and can have references.                      *)
LEMMA AddToGcQueueFacts ==
  ASSUME NEW q \in Queue, NEW S \in SUBSET Obj, NEW state \in UNREACHABLE .. REACHABLE
  PROVE  LET a == AddToGcQueue(q, S, state)
             new == {o \in S \ NoRefs : q.reach[o] = UNREACHABLE} IN
         /\ a \in Queue
         /\ \A o \in Obj : a.reach[o] = IF o \in S /\ state > q.reach[o]
                                        THEN state ELSE q.reach[o]
         /\ \A o \in Obj \ new : a.next[o] = q.next[o]
         /\ new \cap Chain(q.next, q.head) = {} =>
              /\ Chain(a.next, a.head) = new \cup Chain(q.next, q.head)
              /\ Ends(q.next, q.head) => Ends(a.next, a.head)
<1> DEFINE a == AddToGcQueue(q, S, state)
           new == {o \in S \ NoRefs : q.reach[o] = UNREACHABLE}
<1>1. /\ q.reach \in [Obj -> UNREACHABLE .. REACHABLE]
      /\ q.next \in [Obj -> ObjOrNone] /\ q.head \in ObjOrNone
  BY DEF Queue
<1>2. /\ a.reach = [o \in Obj |-> IF o \in S /\ state > q.reach[o] THEN state ELSE q.reach[o]]
      /\ a.next = [o \in Obj |-> IF o \in new THEN PushedLink(new, q.head, o) ELSE q.next[o]]
      /\ a.head = PushedHead(new, q.head)
      /\ a = [reach |-> a.reach, next |-> a.next, head |-> a.head]
  BY DEF AddToGcQueue
<1>3. new \in SUBSET Obj
  OBVIOUS
<1>4. a.reach \in [Obj -> UNREACHABLE .. REACHABLE]
  BY <1>1, <1>2
<1>5. a.next \in [Obj -> ObjOrNone] /\ a.head \in ObjOrNone
  BY <1>1, <1>2, <1>3, PushedType
<1>6. a \in Queue
  BY <1>2, <1>4, <1>5 DEF Queue
<1>7. \A o \in Obj : a.reach[o] = IF o \in S /\ state > q.reach[o]
                                  THEN state ELSE q.reach[o]
  BY <1>2
<1>8. \A o \in Obj : a.next[o] = IF o \in new THEN PushedLink(new, q.head, o) ELSE q.next[o]
  BY <1>2
<1> HIDE DEF a, new
<1>9. new \cap Chain(q.next, q.head) = {} =>
        /\ Chain(a.next, a.head) = new \cup Chain(q.next, q.head)
        /\ Ends(q.next, q.head) => Ends(a.next, a.head)
  BY <1>1, <1>2, <1>3, <1>5, <1>8, ChainPush
<1>10. \A o \in Obj \ new : a.next[o] = q.next[o]
  BY <1>8
<1> QED
  BY <1>6, <1>7, <1>9, <1>10 DEF a, new

InitMark(o) == IF o \in RootObj THEN REACHABLE ELSE UNREACHABLE

(* gc_set_init_conditions clears the mark, and marks and queues root       *)
(* objects again.                                                          *)
LEMMA InitConditionsFacts ==
  ASSUME NEW q \in Queue, NEW o \in Obj
  PROVE  LET a == GcSetInitConditions(q, o) IN
         /\ a \in Queue
         /\ a.reach[o] = InitMark(o)
         /\ \A x \in Obj \ {o} : a.reach[x] = q.reach[x] /\ a.next[x] = q.next[x]
         /\ o \notin RootObj \ NoRefs => a.next = q.next /\ a.head = q.head
         /\ o \in RootObj \ NoRefs /\ o \notin Chain(q.next, q.head) =>
              /\ Chain(a.next, a.head) = {o} \cup Chain(q.next, q.head)
              /\ Ends(q.next, q.head) => Ends(a.next, a.head)
<1> DEFINE a == GcSetInitConditions(q, o)
           c == [q EXCEPT !.reach[o] = UNREACHABLE]
<1>1. /\ q.reach \in [Obj -> UNREACHABLE .. REACHABLE]
      /\ q.next \in [Obj -> ObjOrNone] /\ q.head \in ObjOrNone
      /\ q = [reach |-> q.reach, next |-> q.next, head |-> q.head]
  BY DEF Queue
<1>2. UNREACHABLE \in UNREACHABLE .. REACHABLE /\ REACHABLE \in UNREACHABLE .. REACHABLE
      /\ REACHABLE > UNREACHABLE
  BY DEF UNREACHABLE, REACHABLE
<1>3. c.reach = [q.reach EXCEPT ![o] = UNREACHABLE] /\ c.next = q.next /\ c.head = q.head
  BY <1>1
<1>4. c.reach \in [Obj -> UNREACHABLE .. REACHABLE]
  BY <1>1, <1>2, <1>3
<1>5. c = [reach |-> c.reach, next |-> c.next, head |-> c.head]
  BY <1>1, <1>3
<1>6. c \in Queue
  BY <1>1, <1>3, <1>4, <1>5 DEF Queue
<1>7. c.reach[o] = UNREACHABLE /\ \A x \in Obj \ {o} : c.reach[x] = q.reach[x]
  BY <1>1, <1>3
<1>8. CASE o \notin RootObj
  <2>1. a = c
    BY <1>8 DEF GcSetInitConditions
  <2> HIDE DEF a, c
  <2> QED
    BY <1>3, <1>6, <1>7, <1>8, <2>1 DEF InitMark, a
<1>9. CASE o \in RootObj
  <2>1. a = AddToGcQueue(c, {o}, REACHABLE)
    BY <1>9 DEF GcSetInitConditions
  <2> DEFINE new == {x \in {o} \ NoRefs : c.reach[x] = UNREACHABLE}
  <2>2. new = {o} \ NoRefs
    BY <1>7
  <2> HIDE DEF a, c
  <2>3. /\ a \in Queue
        /\ \A x \in Obj : a.reach[x] = IF x \in {o} /\ REACHABLE > c.reach[x]
                                       THEN REACHABLE ELSE c.reach[x]
        /\ \A x \in Obj \ new : a.next[x] = c.next[x]
        /\ new \cap Chain(c.next, c.head) = {} =>
              /\ Chain(a.next, a.head) = new \cup Chain(c.next, c.head)
              /\ Ends(c.next, c.head) => Ends(a.next, a.head)
    <3>1. {o} \in SUBSET Obj
      OBVIOUS
    <3> QED
      BY ONLY <1>2, <1>6, <2>1, <3>1, AddToGcQueueFacts
  <2>4. a.reach[o] = REACHABLE /\ \A x \in Obj \ {o} : a.reach[x] = q.reach[x]
    BY <1>2, <1>7, <2>3
  <2>5. \A x \in Obj \ {o} : a.next[x] = q.next[x]
    BY <1>3, <2>2, <2>3
  <2>6. o \in NoRefs => a.next = q.next /\ a.head = q.head
    <3> SUFFICES ASSUME o \in NoRefs PROVE a.next = q.next /\ a.head = q.head
      OBVIOUS
    <3>1. new = {}
      BY <2>2
    <3>2. a.next \in [Obj -> ObjOrNone] /\ \A x \in Obj : a.next[x] = q.next[x]
      BY <1>3, <2>3, <3>1 DEF Queue
    <3>3. a.next = q.next
      BY <1>1, <3>2
    <3>4. a.head = PushedHead(new, c.head)
      BY <2>1 DEF AddToGcQueue
    <3> QED
      BY <1>3, <3>1, <3>3, <3>4 DEF PushedHead
  <2>7. o \notin NoRefs /\ o \notin Chain(q.next, q.head) =>
              /\ Chain(a.next, a.head) = {o} \cup Chain(q.next, q.head)
              /\ Ends(q.next, q.head) => Ends(a.next, a.head)
    BY <1>3, <2>2, <2>3
  <2> QED
    BY <1>9, <2>3, <2>4, <2>5, <2>6, <2>7 DEF InitMark, a
<1> QED
  BY <1>8, <1>9
------------------------------------------------------------------------------
(* Types.                                                                  *)

(* What the collector does with its queue keeps the types.                 *)
LEMMA GcQueueType == TypeOK => GcQueue \in Queue
BY DEF TypeOK, GcQueue, Queue, ObjOrNone

(* A queue of the right type is one to assign.                             *)
LEMMA BecomesType ==
  ASSUME NEW q \in Queue, BecomesGcQueue(q)
  PROVE  /\ reach' \in [Obj -> UNREACHABLE .. REACHABLE]
         /\ next_obj' \in [Obj -> ObjOrNone]
         /\ gc_queue_head' \in ObjOrNone
BY DEF Queue, BecomesGcQueue

(* What the collector starts from are objects.                             *)
LEMMA RootsType == TypeOK => GcRoots \in SUBSET Obj /\ InFrames \in SUBSET Obj
<1> SUFFICES ASSUME TypeOK PROVE GcRoots \in SUBSET Obj /\ InFrames \in SUBSET Obj
  OBVIOUS
<1>1. InFrames \in SUBSET Obj
  BY DEF TypeOK, InFrames
<1>2. UndoRefs \in SUBSET Obj
  BY DEF TypeOK, UndoRefs, ObjOrNone
<1>3. stack \in SUBSET Obj
  BY DEF TypeOK
<1> QED
  BY <1>1, <1>2, <1>3 DEF GcRoots

(* A table just loaded is well-typed.                                      *)
LEMMA InitType == Init => TypeOK
<1> SUFFICES ASSUME Init PROVE TypeOK
  OBVIOUS
<1>1. RootObj \in SUBSET Obj /\ Dynamic \subseteq Obj
  BY TableAssumption DEF RootObj, Obj, Dynamic
<1>2. REACHABLE \in UNREACHABLE .. REACHABLE /\ UNREACHABLE \in UNREACHABLE .. REACHABLE
  BY DEF UNREACHABLE, REACHABLE
<1> DEFINE q == [reach |-> [o \in Obj |-> UNREACHABLE],
                 next |-> [o \in Obj |-> IF o > NumRoot + 1 THEN o - 1 ELSE NoObj],
                 head |-> NoObj]
<1>3. q \in Queue
  <2>1. [o \in Obj |-> IF o > NumRoot + 1 THEN o - 1 ELSE NoObj] \in [Obj -> ObjOrNone]
    BY TableAssumption DEF Obj, ObjOrNone, NoObj
  <2> QED
    BY <1>2, <2>1 DEF Queue, ObjOrNone
<1> HIDE DEF q
<1>4. AddToGcQueue(q, RootObj, REACHABLE) \in Queue
  BY <1>1, <1>2, <1>3, AddToGcQueueFacts
<1>6. reach = AddToGcQueue(q, RootObj, REACHABLE).reach
      /\ next_obj = AddToGcQueue(q, RootObj, REACHABLE).next
      /\ gc_queue_head = AddToGcQueue(q, RootObj, REACHABLE).head
  BY DEF Init, q
<1>7. reach \in [Obj -> UNREACHABLE .. REACHABLE] /\ next_obj \in [Obj -> ObjOrNone]
      /\ gc_queue_head \in ObjOrNone
  BY <1>4, <1>6 DEF Queue
<1>8. fin \in [Obj -> UNFINALIZABLE .. FINALIZED]
  BY DEF Init, UNFINALIZABLE, FINALIZED
<1>9. prev_free \in [Obj -> ObjOrNone]
  <2>1. \A o \in Obj : (IF o \in Dynamic /\ o < NumObj THEN o + 1 ELSE NoObj) \in ObjOrNone
    BY TableAssumption DEF Obj, ObjOrNone, NoObj
  <2> QED
    BY <2>1 DEF Init
<1>10. first_free \in ObjOrNone
  BY TableAssumption DEF Init, ObjOrNone, Obj, NoObj, Dynamic
<1>11. /\ free \subseteq Obj
       /\ finalize_queue_head \in ObjOrNone
       /\ strong \in [Obj -> ObjOrNone]
       /\ weak \in [Obj -> ObjOrNone]
       /\ stack \subseteq Obj
       /\ undo_rec \in [owner : ObjOrNone, oldval : ObjOrNone]
       /\ calls \in [Obj -> 0 .. 2]
  BY <1>1 DEF Init, NoUndo, ObjOrNone
<1>12. /\ pc = "run" /\ scan = 1 /\ frames = <<>> /\ saving = FALSE
       /\ scan \in 1 .. NumObj + 1
  BY TableAssumption DEF Init
<1>13. /\ frames \in Seq(Obj) /\ saving \in BOOLEAN
       /\ pc \in {"run", "trace", "ftrace", "sweep", "finalize", "savetrace", "save"}
       /\ scan \in 1 .. NumObj + 1
  <2>1. frames \in Seq(Obj)
    BY <1>12
  <2> QED
    BY <1>12, <2>1
<1> QED
  BY <1>7, <1>8, <1>9, <1>10, <1>11, <1>13 DEF TypeOK

\* The types the collector's queue has a share in, and the others.
QueueType ==
  /\ reach \in [Obj -> UNREACHABLE .. REACHABLE]
  /\ next_obj \in [Obj -> ObjOrNone]
  /\ gc_queue_head \in ObjOrNone
TableType ==
  /\ free \subseteq Obj
  /\ fin \in [Obj -> UNFINALIZABLE .. FINALIZED]
  /\ prev_free \in [Obj -> ObjOrNone]
  /\ first_free \in ObjOrNone
  /\ finalize_queue_head \in ObjOrNone
StoreType ==
  /\ strong \in [Obj -> ObjOrNone]
  /\ weak \in [Obj -> ObjOrNone]
  /\ stack \subseteq Obj
  /\ undo_rec \in [owner : ObjOrNone, oldval : ObjOrNone]
ControlType ==
  /\ pc \in {"run", "trace", "ftrace", "sweep", "finalize", "savetrace", "save"}
  /\ scan \in 1 .. NumObj + 1
  /\ frames \in Seq(Obj)
  /\ saving \in BOOLEAN
  /\ calls \in [Obj -> 0 .. 2]

(* The four parts the type invariant is proved in, now ...                 *)
LEMMA TypeParts == TypeOK <=> QueueType /\ TableType /\ StoreType /\ ControlType
BY DEF TypeOK, QueueType, TableType, StoreType, ControlType
(* ... and in the next state.                                              *)
LEMMA TypePartsNext ==
  TypeOK' <=> QueueType' /\ TableType' /\ StoreType' /\ ControlType'
BY DEF TypeOK, QueueType, TableType, StoreType, ControlType

(* The program keeps the types, ...                                        *)
LEMMA ProgramType == TypeOK /\ Program => TypeOK'
<1> SUFFICES ASSUME QueueType, TableType, StoreType, ControlType, Program
             PROVE  QueueType' /\ TableType' /\ StoreType' /\ ControlType'
  BY TypeParts, TypePartsNext
<1>1. NoObj \in ObjOrNone /\ Obj \subseteq ObjOrNone /\ \A v \in ObjOrNone : v \in Obj \/ v = NoObj
  BY DEF ObjOrNone
<1>2. /\ UNREACHABLE \in UNREACHABLE .. REACHABLE
      /\ UNFINALIZABLE \in UNFINALIZABLE .. FINALIZED
  BY DEF UNREACHABLE, REACHABLE, UNFINALIZABLE, FINALIZED
<1>3. CASE AllocObj
  <2>1. first_free \in Obj
    BY <1>3 DEF AllocObj, TableType, ObjOrNone
  <2>2. QueueType'
    BY <1>2, <1>3, <2>1 DEF AllocObj, QueueType
  <2>3. TableType'
    BY <1>2, <1>3, <2>1 DEF AllocObj, Unlink, TableType, QueueType
  <2>4. StoreType'
    BY <1>1, <1>3, <2>1 DEF AllocObj, StoreType
  <2>5. ControlType'
    BY <1>3, <2>1 DEF AllocObj, ControlType, ctlVars
  <2> QED
    BY <2>2, <2>3, <2>4, <2>5
<1>4. ASSUME NEW o \in Obj, NEW v \in ObjOrNone, SetStrong(o, v)
      PROVE  QueueType' /\ TableType' /\ StoreType' /\ ControlType'
  <2>1. strong[o] \in ObjOrNone
    BY DEF StoreType
  <2>2. undo_rec' \in [owner : ObjOrNone, oldval : ObjOrNone]
    BY <1>1, <1>4, <2>1 DEF SetStrong, StoreType
  <2>3. StoreType'
    BY <1>4, <2>2 DEF SetStrong, StoreType
  <2> QED
    BY <1>4, <2>3 DEF SetStrong, QueueType, TableType, ControlType, tabVars, ctlVars
<1>5. ASSUME NEW o \in Obj, NEW v \in ObjOrNone, SetWeak(o, v)
      PROVE  QueueType' /\ TableType' /\ StoreType' /\ ControlType'
  BY <1>5 DEF SetWeak, QueueType, TableType, StoreType, ControlType, tabVars, ctlVars
<1>6. ASSUME NEW o \in Obj, Release(o)
      PROVE  QueueType' /\ TableType' /\ StoreType' /\ ControlType'
  BY <1>6 DEF Release, QueueType, TableType, StoreType, ControlType, tabVars, ctlVars
<1>7. CASE ApplyUndo
  <2>1. strong' \in [Obj -> ObjOrNone]
    BY <1>7 DEF ApplyUndo, StoreType
  <2>2. undo_rec' \in [owner : ObjOrNone, oldval : ObjOrNone]
    BY <1>1, <1>7 DEF ApplyUndo, NoUndo
  <2> QED
    BY <1>7, <2>1, <2>2
       DEF ApplyUndo, QueueType, TableType, StoreType, ControlType, tabVars, ctlVars
<1> QED
  BY <1>3, <1>4, <1>5, <1>6, <1>7 DEF Program

(* ... the collector does, ...                                             *)
LEMMA CollectorType ==
  TypeOK /\ (Collector \/ GcBegin \/ SaveBegin \/ FinalizerReturns) => TypeOK'
<1> SUFFICES ASSUME TypeOK, QueueType, TableType, StoreType, ControlType,
                    Collector \/ GcBegin \/ SaveBegin \/ FinalizerReturns
             PROVE  QueueType' /\ TableType' /\ StoreType' /\ ControlType'
  BY TypeParts, TypePartsNext
<1>1. NoObj \in ObjOrNone /\ Obj \subseteq ObjOrNone
  BY DEF ObjOrNone
<1>2. /\ UNREACHABLE \in UNREACHABLE .. REACHABLE
      /\ F_REACHABLE \in UNREACHABLE .. REACHABLE
      /\ REACHABLE \in UNREACHABLE .. REACHABLE
      /\ FINALIZABLE \in UNFINALIZABLE .. FINALIZED
      /\ FINALIZED \in UNFINALIZABLE .. FINALIZED
  BY DEF UNREACHABLE, F_REACHABLE, REACHABLE, UNFINALIZABLE, FINALIZABLE, FINALIZED
<1>3. GcQueue \in Queue /\ GcRoots \in SUBSET Obj
  BY GcQueueType, RootsType
<1>4. ASSUME NEW q \in Queue, BecomesGcQueue(q) PROVE QueueType'
  BY <1>4, BecomesType DEF QueueType
<1>5. 1 \in 1 .. NumObj + 1 /\ (scan <= NumObj => scan + 1 \in 1 .. NumObj + 1 /\ scan \in Obj)
  BY TableAssumption DEF ControlType, Obj
<1>6. CASE PassInit /\ saving' \in BOOLEAN
  <2>1. QueueType'
    BY <1>2, <1>3, <1>4, <1>6, AddToGcQueueFacts DEF PassInit
  <2> QED
    BY <1>6, <2>1 DEF PassInit, TableType, StoreType, ControlType, freeVars, objVars
<1>7. CASE TraceOne
  <2>1. gc_queue_head \in Obj
    BY <1>7 DEF TraceOne, QueueType, ObjOrNone
  <2>2. [GcQueue EXCEPT !.head = next_obj[gc_queue_head]] \in Queue
    BY <1>3, <2>1 DEF Queue, QueueType
  <2>3. StrongRefs(gc_queue_head) \in SUBSET Obj /\ {} \in SUBSET Obj
    BY <2>1 DEF StrongRefs, StoreType, ObjOrNone
  <2>4. reach[gc_queue_head] \in UNREACHABLE .. REACHABLE
    BY <2>1 DEF QueueType
  <2> DEFINE refs == IF pc = "savetrace" /\ gc_queue_head \in TransientObj
                     THEN {} ELSE StrongRefs(gc_queue_head)
             a == AddToGcQueue([GcQueue EXCEPT !.head = next_obj[gc_queue_head]],
                               refs, reach[gc_queue_head])
  <2>5. refs \in SUBSET Obj
    BY <2>3
  <2>6. a \in Queue
    BY <2>2, <2>4, <2>5, AddToGcQueueFacts
  <2>7. QueueType'
    BY <1>4, <1>7, <2>6 DEF TraceOne
  <2> QED
    BY <1>7, <2>7 DEF TraceOne, TableType, StoreType, ControlType, freeVars, objVars, ctlVars
<1>8. CASE Classify
  <2>1. fin' \in [Obj -> UNFINALIZABLE .. FINALIZED]
    BY <1>2, <1>8 DEF Classify, TableType
  <2>2. {o \in Dynamic \ free : fin'[o] = FINALIZABLE} \in SUBSET Obj
    BY DEF Dynamic
  <2>3. QueueType'
    BY <1>2, <1>3, <1>4, <1>8, <2>2, AddToGcQueueFacts DEF Classify
  <2> QED
    BY <1>8, <2>1, <2>3 DEF Classify, TableType, StoreType, ControlType, freeVars, objVars
<1>9. CASE SweepBegin
  BY <1>5, <1>9 DEF SweepBegin, QueueType, TableType, StoreType, ControlType, tabVars, objVars
<1>10. CASE SweepOne
  <2>1. scan \in Obj
    BY <1>5, <1>10 DEF SweepOne
  <2>2. CASE scan \in free
    BY <1>5, <1>10, <2>2
       DEF SweepOne, QueueType, TableType, StoreType, ControlType, tabVars
  <2>3. CASE scan \notin free /\ DeleteEntry(scan) /\ fin' = fin
    <3>1. QueueType' /\ TableType'
      BY <1>1, <2>1, <2>3 DEF DeleteEntry, QueueType, TableType
    <3>2. StoreType'
      BY <1>1, <1>10, <2>1, <2>3 DEF DeleteEntry, SweepOne, StoreType
    <3> QED
      BY <1>5, <1>10, <3>1, <3>2 DEF SweepOne, ControlType
  <2>4. CASE scan \notin free /\ KeepEntry(scan) /\ fin' = fin
    <3> DEFINE q == [reach |-> IF fin[scan] = FINALIZABLE
                               THEN [reach EXCEPT ![scan] = F_REACHABLE] ELSE reach,
                     next  |-> IF fin[scan] = FINALIZABLE
                               THEN [next_obj EXCEPT ![scan] = finalize_queue_head]
                               ELSE next_obj,
                     head  |-> gc_queue_head]
    <3>1. q \in Queue
      <4>1. [reach EXCEPT ![scan] = F_REACHABLE] \in [Obj -> UNREACHABLE .. REACHABLE]
        BY <1>2 DEF QueueType
      <4>2. [next_obj EXCEPT ![scan] = finalize_queue_head] \in [Obj -> ObjOrNone]
        BY DEF QueueType, TableType
      <4> QED
        BY <4>1, <4>2 DEF Queue, QueueType
    <3>2. GcSetInitConditions(q, scan) \in Queue
      BY <2>1, <3>1, InitConditionsFacts
    <3>3. BecomesGcQueue(GcSetInitConditions(q, scan))
      BY <2>4 DEF KeepEntry
    <3>4. QueueType'
      BY <1>4, <3>2, <3>3
    <3>5. TableType'
      BY <1>1, <2>1, <2>4 DEF KeepEntry, TableType, freeVars
    <3>6. StoreType'
      BY <1>1, <1>10, <2>1, <2>4 DEF KeepEntry, SweepOne, StoreType
    <3> QED
      BY <1>5, <1>10, <3>4, <3>5, <3>6 DEF SweepOne, ControlType
  <2> QED
    BY <1>10, <2>1, <2>2, <2>3, <2>4 DEF SweepOne
<1>11. CASE CleanUndo
  <2>1. undo_rec' \in [owner : ObjOrNone, oldval : ObjOrNone]
    BY <1>1, <1>11 DEF CleanUndo, StoreType
  <2> QED
    BY <1>5, <1>11, <2>1
       DEF CleanUndo, QueueType, TableType, StoreType, ControlType, tabVars
<1>12. CASE RunFinalizer
  <2>1. finalize_queue_head \in Obj
    BY <1>12 DEF RunFinalizer, TableType, ObjOrNone
  <2>2. QueueType' /\ TableType'
    BY <1>2, <1>12, <2>1 DEF RunFinalizer, QueueType, TableType, freeVars
  <2>3. ControlType'
    <3>1. frames' \in Seq(Obj)
      BY <1>12, <2>1 DEF RunFinalizer, ControlType
    <3>2. calls' \in [Obj -> 0 .. 2]
      BY <1>12, <2>1 DEF RunFinalizer, ControlType
    <3> QED
      BY <1>12, <3>1, <3>2 DEF RunFinalizer, ControlType
  <2> QED
    BY <1>12, <2>2, <2>3 DEF RunFinalizer, StoreType, objVars
<1>13. CASE FinalizerReturns
  <2>1. frames' \in Seq(Obj)
    BY <1>13 DEF FinalizerReturns, ControlType
  <2> QED
    BY <1>13, <2>1
       DEF FinalizerReturns, QueueType, TableType, StoreType, ControlType, tabVars, objVars
<1>14. CASE GcEnd
  <2>1. QueueType'
    <3>1. CASE saving /\ frames = <<>>
      <4>1. PICK globals \in SUBSET stack :
                   BecomesGcQueue(AddToGcQueue(GcQueue, globals, REACHABLE))
        BY <1>14, <3>1 DEF GcEnd
      <4>2. globals \in SUBSET Obj
        BY DEF StoreType
      <4> QED
        BY <1>2, <1>3, <1>4, <4>1, <4>2, AddToGcQueueFacts
    <3>2. CASE ~(saving /\ frames = <<>>)
      BY <1>14, <3>2 DEF GcEnd, QueueType, listVars
    <3> QED
      BY <3>1, <3>2
  <2> QED
    BY <1>14, <2>1 DEF GcEnd, TableType, StoreType, ControlType, freeVars, objVars
<1>15. CASE SaveScanBegin
  BY <1>5, <1>15
     DEF SaveScanBegin, QueueType, TableType, StoreType, ControlType, tabVars, objVars
<1>16. CASE SaveOne
  <2>1. scan \in Obj
    BY <1>5, <1>16 DEF SaveOne
  <2>2. QueueType'
    BY <1>3, <1>4, <1>16, <2>1, InitConditionsFacts DEF SaveOne
  <2> QED
    BY <1>5, <1>16, <2>2 DEF SaveOne, TableType, StoreType, ControlType, freeVars, objVars
<1>17. CASE SaveEnd
  BY <1>5, <1>17 DEF SaveEnd, QueueType, TableType, StoreType, ControlType, tabVars, objVars
<1> QED
  <2>1. CASE GcBegin
    BY <1>6, <2>1 DEF GcBegin, ControlType
  <2>2. CASE SaveBegin
    BY <1>6, <2>2 DEF SaveBegin
  <2> QED
    BY <1>7, <1>8, <1>9, <1>10, <1>11, <1>12, <1>13, <1>14, <1>15, <1>16, <1>17,
       <2>1, <2>2 DEF Collector

(* ... and so does every step.                                             *)
LEMMA TypeNext == TypeOK /\ [Next]_vars => TypeOK'
<1>1. TypeOK /\ UNCHANGED vars => TypeOK'
  BY DEF TypeOK, vars, tabVars, objVars, ctlVars
<1> QED
  BY <1>1, ProgramType, CollectorType DEF Next
------------------------------------------------------------------------------
(* The inductive invariant.                                                *)

\* The assumption the properties need: gc_nested and gc_save_fails are the runs
\* without it.
NoNestingNoFailure == MaxNested = 0 /\ WriteMayFail = FALSE

Marked(o) == reach[o] # UNREACHABLE
Tracing == pc \in {"trace", "ftrace", "savetrace"}
Scanning == pc \in {"sweep", "save"}

WorkQueue == Chain(next_obj, gc_queue_head)
FinalizeQueue == Chain(next_obj, finalize_queue_head)

\* Objects that wait for their finalizer.
Pending == {o \in Obj \ free : fin[o] = FINALIZABLE}

\* Where finalizers may be running, and in which states objects may wait for them.
Control ==
  /\ pc # "run" => frames = <<>>
  /\ Len(frames) <= 1
  /\ pc \notin {"run", "sweep", "finalize"} => finalize_queue_head = NoObj
  /\ pc = "run" /\ frames = <<>> => finalize_queue_head = NoObj

\* What the fields of objects that cannot have references hold, the owner of a record
\* that marks nothing, and the state of root objects.
References ==
  /\ \A o \in NoRefs : strong[o] = NoObj
  /\ \A o \in Obj \ WeakHolders : weak[o] = NoObj
  /\ undo_rec.owner \notin NoRefs
  /\ \A o \in RootObj : fin[o] = UNFINALIZABLE

FreeChain ==
  /\ Ends(next_obj, first_free)
  /\ Chain(next_obj, first_free) = free
  /\ first_free # NoObj => prev_free[first_free] = NoObj
  /\ \A o \in free : next_obj[o] # NoObj => prev_free[next_obj[o]] = o

\* The finalizer queue is the set of waiting objects, as far as the sweep has got.
FinalizeChain ==
  /\ Ends(next_obj, finalize_queue_head)
  /\ Acyclic(next_obj, finalize_queue_head)
  /\ pc = "sweep" => FinalizeQueue = {o \in Pending : o < scan}
  /\ pc \notin {"ftrace", "sweep"} => FinalizeQueue = Pending

\* The work queue holds marked objects while tracing and root objects otherwise.
WorkChain ==
  /\ Ends(next_obj, gc_queue_head)
  /\ WorkQueue \cap (free \cup NoRefs) = {}
  /\ Tracing => \A o \in WorkQueue : Marked(o)
  /\ Scanning => WorkQueue = {o \in RootObj \ NoRefs : o < scan}
  /\ pc \in {"run", "finalize"} => WorkQueue = RootObj \ NoRefs

\* Marks outside a pass, and behind the scan.
MarksOK ==
  /\ pc \in {"run", "finalize"} => \A o \in Obj \ free : reach[o] = InitMark(o)
  /\ Scanning => \A o \in Obj \ free : o < scan => reach[o] = InitMark(o)

\* While tracing for a collection: the roots are marked, and what a marked object
\* refers to is marked already or will be, when the object is taken from the queue.
\* Everything marked can be reached from the roots.
TraceOK ==
  pc \in {"trace", "ftrace"} =>
    /\ \A o \in RootObj \cup GcRoots : Marked(o)
    /\ \A o \in Obj \ free :
         Marked(o) /\ o \notin WorkQueue /\ strong[o] # NoObj => Marked(strong[o])
    /\ \A o \in Obj \ free : Marked(o) => o \in Reach(RootObj \cup GcRoots \cup Pending)
    /\ pc = "trace" => \A o \in Obj \ free : reach[o] # F_REACHABLE
    /\ pc = "ftrace" => \A o \in Obj \ free : fin[o] # FINALIZED => Marked(o)

\* The objects the sweep has kept or will keep.
Kept == {o \in Obj \ free : o < scan \/ Marked(o)}

SweepOK ==
  pc = "sweep" =>
    /\ RootObj \cup GcRoots \subseteq Kept
    /\ \A o \in Obj \ free : fin[o] # FINALIZED => o \in Kept
    /\ \A o \in Kept : strong[o] # NoObj => strong[o] \in Kept
    /\ \A o \in Kept : o < scan /\ weak[o] # NoObj => weak[o] \in Kept
    /\ Kept \subseteq Reach(RootObj \cup GcRoots \cup Pending)

\* Finalizer calls and finalization states agree.
CallsOK ==
  /\ \A o \in Finalizable \ free : calls[o] = IF fin[o] = FINALIZED THEN 1 ELSE 0
  /\ \A o \in Finalizable : calls[o] # 2

Lists == FreeChain /\ FinalizeChain /\ WorkChain
Phases == MarksOK /\ TraceOK /\ SweepOK /\ CallsOK
Safe == NoDanglingRef /\ WeakRefsValid
IInv == TypeOK /\ Control /\ References /\ Lists /\ Phases /\ Safe
------------------------------------------------------------------------------
(* Values of the marks and states, and where the roots live.               *)

(* The numbers behind the names of marks and states.                       *)
LEMMA Values ==
  /\ UNREACHABLE = 0 /\ F_REACHABLE = 1 /\ REACHABLE = 2
  /\ UNFINALIZABLE = 0 /\ FINALIZABLE = 1 /\ FINALIZED = 2
BY DEF UNREACHABLE, F_REACHABLE, REACHABLE, UNFINALIZABLE, FINALIZABLE, FINALIZED

(* Root objects, and the classes of objects, are objects of the table.     *)
LEMMA RootsAreObjects ==
  /\ RootObj \subseteq Obj /\ Dynamic = Obj \ RootObj
  /\ NoRefs \subseteq Obj /\ Finalizable \subseteq Dynamic
  /\ NoObj \notin NoRefs
BY TableAssumption, ObjNumbers DEF RootObj, Obj, Dynamic

(* The lists after a step that leaves their members' links alone.          *)
LEMMA FreeFrame ==
  ASSUME TypeOK, TypeOK', FreeChain,
         free' = free, first_free' = first_free, prev_free' = prev_free,
         \A x \in free : next_obj'[x] = next_obj[x]
  PROVE  FreeChain'
<1>1. next_obj \in [Obj -> ObjOrNone] /\ next_obj' \in [Obj -> ObjOrNone]
      /\ first_free \in ObjOrNone
  BY DEF TypeOK
<1>2. Chain(next_obj, first_free) = free /\ Ends(next_obj, first_free)
  BY DEF FreeChain
<1>3. Chain(next_obj', first_free) = free /\ Ends(next_obj', first_free)
  BY <1>1, <1>2, ChainFrame
<1> QED
  BY <1>3 DEF FreeChain

(* The same for the finalizer queue, which must also stay free of cycles,  *)
LEMMA FinalizeFrame ==
  ASSUME TypeOK, TypeOK', FinalizeChain, finalize_queue_head' = finalize_queue_head,
         \A x \in FinalizeQueue : next_obj'[x] = next_obj[x]
  PROVE  /\ FinalizeQueue' = FinalizeQueue
         /\ Ends(next_obj', finalize_queue_head)
         /\ Acyclic(next_obj', finalize_queue_head)
<1> DEFINE f == next_obj
           g == next_obj'
           h == finalize_queue_head
<1>1. f \in [Obj -> ObjOrNone] /\ g \in [Obj -> ObjOrNone] /\ h \in ObjOrNone
  BY DEF TypeOK
<1>2. Chain(g, h) = Chain(f, h) /\ Ends(g, h)
  BY <1>1, ChainFrame DEF FinalizeChain, FinalizeQueue
<1>3. ASSUME NEW x \in Chain(g, h) PROVE x \notin Chain(g, g[x])
  <2>1. x \in Chain(f, h) /\ g[x] = f[x] /\ f[x] \in Chain(f, h) \cup {NoObj}
    BY <1>1, <1>2, <1>3, ChainClosed DEF FinalizeQueue
  <2>2. f[x] \in ObjOrNone
    BY <1>1, <2>1, ChainClosed DEF ObjOrNone
  <2>3. {f[x]} \ {NoObj} \in SUBSET Obj /\ {h} \ {NoObj} \in SUBSET Obj
        /\ {f[x]} \ {NoObj} \subseteq Chain(f, h)
    BY <1>1, <2>1, <2>2 DEF ObjOrNone
  <2>4. Chain(f, f[x]) \subseteq Chain(f, h)
    BY <1>1, <2>3, FollowedMonotone DEF Chain
  <2>5. \A y \in Chain(f, f[x]) : g[y] = f[y]
    BY <2>4 DEF FinalizeQueue
  <2> HIDE DEF f, g, h
  <2>6. Chain(g, f[x]) = Chain(f, f[x])
    BY <1>1, <2>2, <2>5, ChainFrame
  <2> QED
    BY <2>1, <2>6 DEF Acyclic, FinalizeChain, f, g, h
<1> QED
  BY <1>2, <1>3 DEF Acyclic, FinalizeQueue

(* Nobody waits when the queue's head is empty.                            *)
LEMMA FinalizeEmpty ==
  ASSUME TypeOK
  PROVE  /\ FinalizeQueue = {} <=> finalize_queue_head = NoObj
         /\ \A f : Chain(f, NoObj) = {} /\ Ends(f, NoObj) /\ Acyclic(f, NoObj)
<1>1. \A f : Chain(f, NoObj) = {} /\ Ends(f, NoObj) /\ Acyclic(f, NoObj)
  BY ChainEmpty DEF Acyclic
<1>2. next_obj \in [Obj -> ObjOrNone] /\ finalize_queue_head \in ObjOrNone
  BY DEF TypeOK
<1>3. finalize_queue_head \in FinalizeQueue \cup {NoObj}
  BY <1>2, ChainClosed DEF FinalizeQueue
<1> QED
  BY <1>1, <1>3 DEF FinalizeQueue

(* The same for the work queue.                                            *)
LEMMA WorkFrame ==
  ASSUME TypeOK, TypeOK', WorkChain, gc_queue_head' = gc_queue_head,
         \A x \in WorkQueue : next_obj'[x] = next_obj[x]
  PROVE  WorkQueue' = WorkQueue /\ Ends(next_obj', gc_queue_head)
BY ChainFrame DEF TypeOK, WorkChain, WorkQueue

(* A work queue without a head has nothing in it.                          *)
LEMMA WorkEmpty ==
  ASSUME gc_queue_head = NoObj
  PROVE  WorkQueue = {}
BY ChainEmpty DEF WorkQueue
------------------------------------------------------------------------------
(* The initial state.                                                      *)

(* The free list is built from the lowest ID to the highest.               *)
LEMMA InitFreeChain == Init => FreeChain
<1> SUFFICES ASSUME Init PROVE FreeChain
  OBVIOUS
<1>1. TypeOK
  BY InitType
<1> DEFINE q == [reach |-> [o \in Obj |-> UNREACHABLE],
                 next |-> [o \in Obj |-> IF o > NumRoot + 1 THEN o - 1 ELSE NoObj],
                 head |-> NoObj]
<1>2. \A o \in Dynamic : next_obj[o] = IF o > NumRoot + 1 THEN o - 1 ELSE NoObj
  <2>1. next_obj = [o \in Obj |-> IF o \in {x \in RootObj \ NoRefs : q.reach[x] = UNREACHABLE}
                       THEN PushedLink({x \in RootObj \ NoRefs : q.reach[x] = UNREACHABLE}, q.head, o)
                       ELSE q.next[o]]
    BY DEF Init, AddToGcQueue
  <2> QED
    BY <2>1, RootsAreObjects
<1>3. /\ \A o : o \in Dynamic <=> o \in Int /\ NumRoot < o /\ o <= NumObj
      /\ NumRoot \in Nat /\ NumObj \in Nat /\ NumRoot <= NumObj
  BY TableAssumption DEF Dynamic, RootObj, Obj
<1>4. CASE Dynamic = {}
  <2>1. first_free = NoObj /\ free = {}
    BY <1>4 DEF Init
  <2> QED
    BY <2>1, ChainEmpty DEF FreeChain
<1>5. CASE Dynamic # {}
  <2>1. first_free = NumObj /\ free = Dynamic /\ NumObj \in Dynamic
    BY <1>3, <1>5 DEF Init
  <2>2. next_obj \in [Obj -> ObjOrNone] /\ first_free \in ObjOrNone /\ first_free # NoObj
    BY <1>1, <1>3, <2>1 DEF TypeOK, NoObj
  <2>3. Chain(next_obj, first_free) \subseteq Dynamic
    <3>1. Dynamic \in SUBSET Obj /\ {first_free} \ {NoObj} \subseteq Dynamic
      BY <2>1, RootsAreObjects
    <3>2. \A x \in Dynamic : next_obj[x] \in Dynamic \cup {NoObj}
      BY <1>2, <1>3
    <3> QED
      BY <3>1, <3>2, FollowedLeast DEF Chain
  <2>4. Dynamic \subseteq Chain(next_obj, first_free)
    <3> DEFINE B == Dynamic \ Chain(next_obj, first_free)
               m == MaxOf(B)
    <3> SUFFICES ASSUME B # {} PROVE FALSE
      OBVIOUS
    <3>1. m \in B /\ \A y \in B : y <= m
      BY MaxOfObj, RootsAreObjects
    <3>2. m # NumObj
      BY <2>1, <2>2, <3>1, ChainClosed
    <3>3. m + 1 \in Dynamic /\ m + 1 > NumRoot + 1
      BY <1>3, <3>1, <3>2
    <3>4. m + 1 \in Chain(next_obj, first_free)
      BY <1>3, <3>1, <3>3
    <3>5. next_obj[m + 1] = m
      BY <1>2, <1>3, <3>1, <3>3
    <3>6. m \in Chain(next_obj, first_free) \cup {NoObj}
      BY <2>2, <3>4, <3>5, ChainClosed
    <3> QED
      BY <1>3, <3>1, <3>6 DEF NoObj
  <2>5. Ends(next_obj, first_free)
    <3>1. NumRoot + 1 \in Dynamic /\ next_obj[NumRoot + 1] = NoObj
      BY <1>2, <1>3, <2>1
    <3> QED
      BY <2>4, <3>1 DEF Ends
  <2>6. prev_free[first_free] = NoObj
    BY <1>3, <2>1, RootsAreObjects DEF Init
  <2>7. ASSUME NEW o \in free, next_obj[o] # NoObj PROVE prev_free[next_obj[o]] = o
    <3>1. o > NumRoot + 1 /\ next_obj[o] = o - 1
      BY <1>2, <2>1, <2>7
    <3>2. o - 1 \in Dynamic /\ o - 1 < NumObj /\ (o - 1) + 1 = o
      BY <1>3, <2>1, <3>1
    <3>3. prev_free[o - 1] = (o - 1) + 1
      BY <3>2, RootsAreObjects DEF Init
    <3> QED
      BY <3>1, <3>2, <3>3
  <2> QED
    BY <2>1, <2>3, <2>4, <2>5, <2>6, <2>7 DEF FreeChain
<1> QED
  BY <1>4, <1>5

(* The invariant holds of a table just loaded.                             *)
LEMMA InitInvariant == Init => IInv
<1> SUFFICES ASSUME Init PROVE IInv
  OBVIOUS
<1>1. TypeOK /\ FreeChain
  BY InitType, InitFreeChain
<1> DEFINE q == [reach |-> [o \in Obj |-> UNREACHABLE],
                 next |-> [o \in Obj |-> IF o > NumRoot + 1 THEN o - 1 ELSE NoObj],
                 head |-> NoObj]
           a == AddToGcQueue(q, RootObj, REACHABLE)
           new == {o \in RootObj \ NoRefs : q.reach[o] = UNREACHABLE}
<1>2. RootObj \in SUBSET Obj /\ REACHABLE \in UNREACHABLE .. REACHABLE
  BY RootsAreObjects, Values
<1>3. q \in Queue
  <2>1. [o \in Obj |-> IF o > NumRoot + 1 THEN o - 1 ELSE NoObj] \in [Obj -> ObjOrNone]
    BY TableAssumption DEF Obj, ObjOrNone, NoObj
  <2> QED
    BY <2>1, Values DEF Queue, ObjOrNone
<1>4. reach = a.reach /\ next_obj = a.next /\ gc_queue_head = a.head
  BY DEF Init
<1>5. /\ \A o \in Obj : q.reach[o] = UNREACHABLE
      /\ Chain(q.next, q.head) = {} /\ Ends(q.next, q.head)
      /\ new = RootObj \ NoRefs
  BY <1>2, ChainEmpty
<1> HIDE DEF q
<1>6. /\ \A o \in Obj : a.reach[o] = IF o \in RootObj /\ REACHABLE > q.reach[o]
                                     THEN REACHABLE ELSE q.reach[o]
      /\ Chain(a.next, a.head) = new
      /\ Ends(a.next, a.head)
  <2>1. a = AddToGcQueue(q, RootObj, REACHABLE)
    OBVIOUS
  <2> HIDE DEF a
  <2>2. /\ \A o \in Obj : a.reach[o] = IF o \in RootObj /\ REACHABLE > q.reach[o]
                                       THEN REACHABLE ELSE q.reach[o]
        /\ new \cap Chain(q.next, q.head) = {} =>
              /\ Chain(a.next, a.head) = new \cup Chain(q.next, q.head)
              /\ Ends(q.next, q.head) => Ends(a.next, a.head)
    BY ONLY <1>2, <1>3, <2>1, AddToGcQueueFacts
  <2> QED
    BY <1>5, <2>2
<1>7. \A o \in Obj : reach[o] = InitMark(o)
  BY <1>4, <1>5, <1>6, Values DEF InitMark
<1>8. /\ free = Dynamic /\ finalize_queue_head = NoObj /\ stack = {}
      /\ undo_rec = NoUndo /\ pc = "run" /\ frames = <<>>
      /\ \A o \in Obj : strong[o] = NoObj /\ weak[o] = NoObj
      /\ \A o \in Obj : fin[o] = IF o \in RootObj THEN UNFINALIZABLE ELSE FINALIZED
  BY DEF Init
<1>9. Control
  BY <1>8 DEF Control
<1>10. References
  BY <1>8, RootsAreObjects DEF References, NoUndo
<1>11. FinalizeChain
  <2>1. Pending = {}
    BY <1>8, RootsAreObjects, Values DEF Pending
  <2> QED
    BY <1>1, <1>8, <2>1, FinalizeEmpty DEF FinalizeChain, FinalizeQueue
<1>12. WorkChain
  BY <1>4, <1>5, <1>6, <1>8, RootsAreObjects DEF WorkChain, WorkQueue, Tracing, Scanning
<1>13. Phases
  <2>1. \A o \in Finalizable : calls[o] = 0 /\ o \in free
    BY <1>8, RootsAreObjects DEF Init
  <2> QED
    BY <1>7, <1>8, <2>1 DEF Phases, MarksOK, TraceOK, SweepOK, CallsOK, Scanning
<1>14. Safe
  <2>1. InFrames = {} /\ UndoRefs = {}
    BY <1>8, ObjNumbers DEF InFrames, UndoRefs, NoUndo
  <2>2. NoObj \notin free
    BY <1>8, ObjNumbers, RootsAreObjects
  <2> QED
    BY <1>8, <2>1, <2>2, RootsAreObjects DEF Safe, NoDanglingRef, WeakRefsValid, NoUndo
<1> QED
  BY <1>1, <1>9, <1>10, <1>11, <1>12, <1>13, <1>14 DEF IInv, Lists
------------------------------------------------------------------------------
(* Steps of the running program.                                           *)

(* The program cannot get hold of a free entry.                            *)
LEMMA AccessibleIsAllocated ==
  ASSUME TypeOK, Safe, pc = "run"
  PROVE  Accessible \subseteq Obj \ free
<1> DEFINE C == Obj \ free
<1>1. C \in SUBSET Obj /\ RootObj \cup stack \cup InFrames \subseteq C
  BY RootsAreObjects, RootsType DEF TypeOK, Safe, NoDanglingRef
<1>2. \A x \in C : ({strong[x], weak[x]} \ {NoObj}) \subseteq C
  BY DEF TypeOK, Safe, NoDanglingRef, WeakRefsValid, ObjOrNone
<1> HIDE DEF C
<1>3. Accessible \subseteq C
  BY <1>1, <1>2 DEF Accessible
<1> QED
  BY <1>3 DEF C

(* A step that leaves the table alone keeps what is said of the table.     *)
LEMMA StoreStep ==
  ASSUME IInv, TypeOK', pc = "run", UNCHANGED <<tabVars, ctlVars, calls>>,
         References', Safe'
  PROVE  IInv'
<1>1. UNCHANGED <<free, reach, fin, next_obj, prev_free, first_free, gc_queue_head,
                  finalize_queue_head, pc, scan, frames, saving, calls>>
  BY DEF tabVars, ctlVars
<1>2. Control'
  BY <1>1 DEF IInv, Control
<1>3. Lists'
  <2>1. WorkQueue' = WorkQueue /\ FinalizeQueue' = FinalizeQueue /\ Pending' = Pending
    BY <1>1 DEF WorkQueue, FinalizeQueue, Pending
  <2> QED
    BY <1>1, <2>1
       DEF IInv, Lists, FreeChain, FinalizeChain, WorkChain, Tracing, Scanning
<1>4. Phases'
  BY <1>1 DEF IInv, Phases, MarksOK, TraceOK, SweepOK, CallsOK, Scanning
<1> QED
  BY <1>2, <1>3, <1>4 DEF IInv

(* A property is set to something the program holds, so it is allocated;   *)
(* the undo record, if one is made, has an owner that is in use.           *)
LEMMA SetStrongInvariant ==
  ASSUME IInv, TypeOK', NEW o \in Obj, NEW v \in ObjOrNone, SetStrong(o, v)
  PROVE  IInv'
<1>1. pc = "run" /\ UNCHANGED <<tabVars, weak, stack, ctlVars, calls>>
  BY DEF SetStrong, Running
<1>2. TypeOK /\ References /\ Safe
  BY DEF IInv
<1>3. o \notin free /\ o \notin NoRefs /\ v \notin free
  <2>1. NoObj \notin free
    BY <1>2, ObjNumbers DEF TypeOK
  <2>2. Accessible \subseteq Obj \ free
    BY <1>1, <1>2, AccessibleIsAllocated
  <2> QED
    BY <2>1, <2>2 DEF SetStrong
<1>4. /\ free' = free /\ fin' = fin /\ pc' = pc /\ frames' = frames /\ stack' = stack
      /\ weak' = weak
  BY <1>1 DEF tabVars, ctlVars
<1>5. \A x \in Obj : strong'[x] = IF x = o THEN v ELSE strong[x]
  BY <1>2 DEF SetStrong, TypeOK
<1>6. undo_rec' = undo_rec \/ undo_rec' = [owner |-> o, oldval |-> strong[o]]
  BY DEF SetStrong
<1>7. strong[o] \notin free
  BY <1>1, <1>2, <1>3 DEF Safe, NoDanglingRef
<1>8. UndoRefs' \cap free = {}
  BY <1>2, <1>6, <1>7 DEF Safe, NoDanglingRef, UndoRefs
<1>9. undo_rec'.owner \notin NoRefs /\ undo_rec'.owner \notin free
  BY <1>1, <1>2, <1>3, <1>6 DEF References, Safe, WeakRefsValid
<1>10. References'
  BY <1>2, <1>3, <1>4, <1>5, <1>9, RootsAreObjects DEF References
<1>11. Safe'
  BY <1>1, <1>2, <1>3, <1>4, <1>5, <1>8, <1>9
     DEF Safe, NoDanglingRef, WeakRefsValid, InFrames
<1> QED
  BY <1>1, <1>10, <1>11, StoreStep

(* The same for weak references.                                           *)
LEMMA SetWeakInvariant ==
  ASSUME IInv, TypeOK', NEW o \in Obj, NEW v \in ObjOrNone, SetWeak(o, v)
  PROVE  IInv'
<1>1. pc = "run" /\ UNCHANGED <<tabVars, strong, stack, undo_rec, ctlVars, calls>>
  BY DEF SetWeak, Running
<1>2. TypeOK /\ References /\ Safe
  BY DEF IInv
<1>3. o \in WeakHolders /\ v \notin free
  BY <1>1, <1>2, AccessibleIsAllocated, ObjNumbers DEF SetWeak, TypeOK
<1>4. /\ free' = free /\ fin' = fin /\ pc' = pc /\ frames' = frames /\ stack' = stack
      /\ strong' = strong /\ undo_rec' = undo_rec
  BY <1>1 DEF tabVars, ctlVars
<1>5. \A x \in Obj : weak'[x] = IF x = o THEN v ELSE weak[x]
  BY <1>2 DEF SetWeak, TypeOK
<1>6. References'
  BY <1>2, <1>3, <1>4, <1>5 DEF References
<1>7. Safe'
  BY <1>1, <1>2, <1>3, <1>4, <1>5
     DEF Safe, NoDanglingRef, WeakRefsValid, InFrames, UndoRefs
<1> QED
  BY <1>1, <1>6, <1>7, StoreStep

(* Fewer roots need less.                                                  *)
LEMMA ReleaseInvariant ==
  ASSUME IInv, TypeOK', NEW o \in Obj, Release(o)
  PROVE  IInv'
<1>1. pc = "run" /\ UNCHANGED <<tabVars, strong, weak, undo_rec, ctlVars, calls>>
  BY DEF Release, Running
<1>2. References /\ Safe
  BY DEF IInv
<1>3. /\ free' = free /\ fin' = fin /\ pc' = pc /\ frames' = frames
      /\ stack' \subseteq stack
  BY <1>1 DEF tabVars, ctlVars, Release
<1>4. References'
  BY <1>1, <1>2, <1>3 DEF References
<1>5. Safe'
  BY <1>1, <1>2, <1>3 DEF Safe, NoDanglingRef, WeakRefsValid, InFrames, UndoRefs
<1> QED
  BY <1>1, <1>4, <1>5, StoreStep

(* The old value put back was kept by the undo manager's marks.            *)
LEMMA ApplyUndoInvariant ==
  ASSUME IInv, TypeOK', ApplyUndo
  PROVE  IInv'
<1>1. pc = "run" /\ UNCHANGED <<tabVars, weak, stack, ctlVars, calls>>
  BY DEF ApplyUndo, Running
<1>2. TypeOK /\ References /\ Safe
  BY DEF IInv
<1>3. /\ free' = free /\ fin' = fin /\ pc' = pc /\ frames' = frames /\ stack' = stack
      /\ weak' = weak /\ undo_rec' = NoUndo
  BY <1>1 DEF tabVars, ctlVars, ApplyUndo
<1>4. \A x \in Obj : strong'[x] = IF x = undo_rec.owner THEN undo_rec.oldval ELSE strong[x]
  BY <1>2, ObjNumbers DEF ApplyUndo, TypeOK
<1>5. undo_rec.owner \in Obj => undo_rec.oldval \notin free
  <2>1. undo_rec.owner \in Obj => undo_rec.oldval \in UndoRefs \cup {NoObj}
    BY <1>2 DEF References, UndoRefs
  <2>2. NoObj \notin free
    BY <1>2, ObjNumbers DEF TypeOK
  <2> QED
    BY <1>2, <2>1, <2>2 DEF Safe, NoDanglingRef
<1>6. UndoRefs' = {} /\ undo_rec'.owner = NoObj
  BY <1>3, ObjNumbers, RootsAreObjects DEF UndoRefs, NoUndo
<1>7. References'
  BY <1>2, <1>3, <1>4, <1>6, RootsAreObjects DEF References
<1>8. NoObj \notin free
  BY <1>2, ObjNumbers DEF TypeOK
<1>9. Safe'
  BY <1>1, <1>2, <1>3, <1>4, <1>5, <1>6, <1>8
     DEF Safe, NoDanglingRef, WeakRefsValid, InFrames
<1> QED
  BY <1>1, <1>7, <1>9, StoreStep

(* alloc_obj takes the first free entry: the rest is still the free list,  *)
(* with agreeing back pointers, and nothing refers to the entry.           *)
LEMMA AllocObjInvariant ==
  ASSUME IInv, TypeOK', AllocObj
  PROVE  IInv'
<1> DEFINE o == first_free
<1>1. /\ pc = "run" /\ o # NoObj
      /\ first_free' = next_obj[o] /\ free' = free \ {o}
      /\ stack' = stack \cup {o}
      /\ UNCHANGED <<next_obj, gc_queue_head, finalize_queue_head, undo_rec,
                     pc, scan, frames, saving>>
  BY DEF AllocObj, Running, Unlink, ctlVars
<1>2. TypeOK /\ Control /\ References /\ Lists /\ Phases /\ Safe
  BY DEF IInv
<1>3. /\ next_obj \in [Obj -> ObjOrNone] /\ o \in Obj /\ free \subseteq Obj
      /\ first_free \in ObjOrNone
  BY <1>1, <1>2 DEF TypeOK, ObjOrNone
<1>4. o \in free /\ free = Chain(next_obj, o) /\ Ends(next_obj, o)
  BY <1>1, <1>2, <1>3, ChainClosed DEF Lists, FreeChain
<1>5. \A x \in Obj :
        /\ reach'[x] = IF x = o THEN UNREACHABLE ELSE reach[x]
        /\ fin'[x] = IF x = o THEN UNFINALIZABLE ELSE fin[x]
        /\ strong'[x] = IF x = o THEN NoObj ELSE strong[x]
        /\ weak'[x] = IF x = o THEN NoObj ELSE weak[x]
        /\ calls'[x] = IF x = o THEN 0 ELSE calls[x]
        /\ prev_free'[x] = IF x = next_obj[o] THEN prev_free[o] ELSE prev_free[x]
  BY <1>2 DEF AllocObj, Unlink, TypeOK
<1>6. o \notin RootObj /\ NoObj \notin free
  BY <1>2, <1>3, <1>4, ObjNumbers DEF Safe, NoDanglingRef
<1>7. Pending' = Pending
  BY <1>1, <1>5, <1>4, Values DEF Pending
<1>8. FreeChain'
  <2>1. free = {o} \cup Chain(next_obj, next_obj[o])
    BY <1>3, <1>4, ChainHead
  <2>2. \A x \in free : next_obj[x] # NoObj => prev_free[next_obj[x]] = x
    BY <1>2 DEF Lists, FreeChain
  <2>3. prev_free[o] = NoObj
    BY <1>1, <1>2 DEF Lists, FreeChain
  <2>4. \A x \in free : next_obj[x] # o
    BY <1>1, <1>6, <2>2, <2>3, ObjNumbers
  <2>5. Chain(next_obj, next_obj[o]) \subseteq free \ {o}
    <3> DEFINE C == free \ {o}
    <3>1. \A x \in free : next_obj[x] \in free \cup {NoObj}
      BY <1>3, <1>4, ChainClosed
    <3>2. C \in SUBSET Obj /\ {next_obj[o]} \ {NoObj} \subseteq C
      BY <1>3, <1>4, <2>4, <3>1
    <3>3. \A x \in C : next_obj[x] \in C \cup {NoObj}
      BY <2>4, <3>1
    <3> HIDE DEF C
    <3>4. Chain(next_obj, next_obj[o]) \subseteq C
      BY <3>2, <3>3, FollowedLeast DEF Chain
    <3> QED
      BY <3>4 DEF C
  <2>6. Chain(next_obj, next_obj[o]) = free \ {o}
    BY <2>1, <2>5
  <2>7. Ends(next_obj, next_obj[o])
    BY <1>3, <1>4, ChainPop
  <2>8. next_obj[o] \in ObjOrNone
    BY <1>3
  <2>9. next_obj[o] # NoObj => prev_free'[next_obj[o]] = NoObj
    BY <1>5, <2>3, <2>8 DEF ObjOrNone
  <2>10. ASSUME NEW x \in free \ {o}, next_obj[x] # NoObj
         PROVE  prev_free'[next_obj[x]] = x
    <3>1. next_obj[x] \in Obj
      BY <1>3, <2>10 DEF ObjOrNone
    <3>2. next_obj[x] # next_obj[o]
      <4>1. next_obj[o] = next_obj[x] => prev_free[next_obj[x]] = o
        BY <1>4, <2>2, <2>10
      <4> QED
        BY <2>2, <2>10, <4>1
    <3> QED
      BY <1>5, <2>2, <2>10, <3>1, <3>2
  <2> QED
    BY <1>1, <2>6, <2>7, <2>9, <2>10 DEF FreeChain
<1>9. Control'
  BY <1>1, <1>2 DEF Control
<1>10. References'
  BY <1>1, <1>2, <1>5, <1>6, RootsAreObjects DEF References
<1>11. FinalizeChain' /\ WorkChain'
  <2>1. WorkQueue' = WorkQueue /\ FinalizeQueue' = FinalizeQueue
    BY <1>1 DEF WorkQueue, FinalizeQueue
  <2> QED
    BY <1>1, <1>2, <1>7, <2>1 DEF Lists, FinalizeChain, WorkChain, Tracing, Scanning
<1>12. Phases'
  <2>1. MarksOK'
    BY <1>1, <1>2, <1>3, <1>5, <1>6 DEF Phases, MarksOK, InitMark, Scanning
  <2>2. CallsOK'
    BY <1>1, <1>2, <1>3, <1>5, Values, RootsAreObjects DEF Phases, CallsOK
  <2> QED
    BY <1>1, <2>1, <2>2 DEF Phases, TraceOK, SweepOK
<1>13. Safe'
  <2>1. (RootObj \cup stack \cup InFrames \cup UndoRefs)' \cap free' = {}
    BY <1>1, <1>2, <1>6 DEF Safe, NoDanglingRef, InFrames, UndoRefs
  <2>2. \A x \in Obj \ free' : strong'[x] \notin free' /\ weak'[x] \notin free'
    BY <1>1, <1>2, <1>5, <1>6 DEF Safe, NoDanglingRef, WeakRefsValid
  <2>3. undo_rec'.owner \notin free'
    BY <1>1, <1>2 DEF Safe, WeakRefsValid
  <2> QED
    BY <2>1, <2>2, <2>3 DEF Safe, NoDanglingRef, WeakRefsValid
<1> QED
  BY <1>8, <1>9, <1>10, <1>11, <1>12, <1>13 DEF IInv, Lists

(* The program keeps the invariant.                                        *)
LEMMA ProgramInvariant == IInv /\ Program => IInv'
<1> SUFFICES ASSUME IInv, Program PROVE IInv'
  OBVIOUS
<1>1. TypeOK'
  BY ProgramType DEF IInv
<1> QED
  BY <1>1, AllocObjInvariant, SetStrongInvariant, SetWeakInvariant, ReleaseInvariant,
     ApplyUndoInvariant DEF Program
------------------------------------------------------------------------------
(* Steps of the collector: tracing.                                        *)

(* What is behind the head of the queue is marked, queued and not free.    *)
LEMMA Enqueued ==
  ASSUME TypeOK, NEW S \in SUBSET Obj, NEW state \in F_REACHABLE .. REACHABLE,
         NEW h \in ObjOrNone, Ends(next_obj, h),
         BecomesGcQueue(AddToGcQueue([GcQueue EXCEPT !.head = h], S, state)),
         \A o \in Chain(next_obj, h) : Marked(o)
  PROVE  LET new == {o \in S \ NoRefs : ~ Marked(o)} IN
         /\ \A o \in Obj : reach'[o] = IF o \in S /\ state > reach[o]
                                       THEN state ELSE reach[o]
         /\ \A o \in Obj : Marked(o)' <=> Marked(o) \/ o \in S
         /\ \A o \in Obj \ new : next_obj'[o] = next_obj[o]
         /\ WorkQueue' = new \cup Chain(next_obj, h)
         /\ Ends(next_obj', gc_queue_head')
<1> DEFINE q == [GcQueue EXCEPT !.head = h]
           a == AddToGcQueue(q, S, state)
           new == {o \in S \ NoRefs : q.reach[o] = UNREACHABLE}
<1>1. q.reach = reach /\ q.next = next_obj /\ q.head = h
  BY DEF GcQueue
<1>2. q \in Queue
  BY GcQueueType, <1>1 DEF Queue, GcQueue
<1>3. state \in UNREACHABLE .. REACHABLE
  BY Values
<1>4. new = {o \in S \ NoRefs : ~ Marked(o)}
  BY <1>1 DEF Marked
<1>5. new \cap Chain(q.next, q.head) = {}
  BY <1>1, <1>4
<1>6. a.reach = reach' /\ a.next = next_obj' /\ a.head = gc_queue_head'
  BY DEF BecomesGcQueue
<1>7. a = AddToGcQueue(q, S, state)
  OBVIOUS
<1> HIDE DEF a, q
<1>8. /\ \A o \in Obj : a.reach[o] = IF o \in S /\ state > q.reach[o]
                                     THEN state ELSE q.reach[o]
      /\ \A o \in Obj \ new : a.next[o] = q.next[o]
      /\ new \cap Chain(q.next, q.head) = {} =>
           /\ Chain(a.next, a.head) = new \cup Chain(q.next, q.head)
           /\ Ends(q.next, q.head) => Ends(a.next, a.head)
  BY ONLY <1>2, <1>3, <1>7, S \in SUBSET Obj, AddToGcQueueFacts
<1>9. \A o \in Obj : reach'[o] = IF o \in S /\ state > reach[o] THEN state ELSE reach[o]
  BY <1>1, <1>6, <1>8
<1>10. \A o \in Obj : Marked(o)' <=> Marked(o) \/ o \in S
  BY <1>9, Values DEF Marked, TypeOK
<1> HIDE DEF new
<1> QED
  BY <1>1, <1>4, <1>5, <1>6, <1>8, <1>9, <1>10 DEF WorkQueue

(* A step that leaves the objects alone outside the sweep.                 *)
LEMMA ObjFrame ==
  ASSUME References, Safe, pc # "sweep", UNCHANGED <<free, objVars, frames>>,
         \A o \in RootObj : fin'[o] = fin[o]
  PROVE  References' /\ Safe' /\ GcRoots' = GcRoots
<1>1. UNCHANGED <<strong, weak, stack, undo_rec, free, frames>>
  BY DEF objVars
<1>2. InFrames' = InFrames /\ UndoRefs' = UndoRefs
  BY <1>1 DEF InFrames, UndoRefs
<1> QED
  BY <1>1, <1>2 DEF References, Safe, NoDanglingRef, WeakRefsValid, GcRoots

(* While a collection traces nobody is in the finalizer queue.             *)
LEMMA FinalizeChainEmpty ==
  ASSUME TypeOK', finalize_queue_head' = NoObj, pc' # "sweep",
         pc' # "ftrace" => Pending' = {}
  PROVE  FinalizeChain'
<1>1. FinalizeQueue' = {} /\ Ends(next_obj', NoObj) /\ Acyclic(next_obj', NoObj)
  BY ChainEmpty DEF FinalizeQueue, Acyclic
<1> QED
  BY <1>1 DEF FinalizeChain

(* Nobody waits for a finalizer when that queue is empty.                  *)
LEMMA NonePending ==
  ASSUME TypeOK, FinalizeChain, pc \notin {"ftrace", "sweep"},
         finalize_queue_head = NoObj
  PROVE  Pending = {}
BY FinalizeEmpty DEF FinalizeChain

(* gc_pass_init marks and queues the roots.                                *)
LEMMA PassInitInvariant ==
  ASSUME IInv, TypeOK', PassInit, frames = <<>>
  PROVE  IInv'
<1>1. /\ pc = "run" /\ pc' = "trace"
      /\ BecomesGcQueue(AddToGcQueue(GcQueue, GcRoots, REACHABLE))
      /\ UNCHANGED <<free, prev_free, first_free, fin, finalize_queue_head, objVars,
                     scan, frames, calls>>
  BY DEF PassInit, Running, freeVars
<1>2. /\ TypeOK /\ Control /\ References /\ Lists /\ Phases /\ Safe
      /\ GcRoots \in SUBSET Obj /\ RootObj \subseteq Obj
  BY RootsType, RootsAreObjects DEF IInv
<1>3. finalize_queue_head = NoObj /\ Pending = {} /\ Pending' = {}
  <2>1. finalize_queue_head = NoObj
    BY <1>1, <1>2 DEF Control
  <2>2. Pending = {}
    BY <1>1, <1>2, <2>1, NonePending DEF Lists
  <2> QED
    BY <1>1, <2>1, <2>2 DEF Pending
<1>4. GcRoots \cap free = {} /\ RootObj \cap free = {}
  BY <1>2 DEF Safe, NoDanglingRef, GcRoots
<1>5. /\ WorkQueue = RootObj \ NoRefs
      /\ \A o \in Obj \ free : Marked(o) <=> o \in RootObj
  BY <1>1, <1>2, Values DEF Lists, WorkChain, Phases, MarksOK, InitMark, Marked
<1> DEFINE new == {o \in GcRoots \ NoRefs : ~ Marked(o)}
<1>6. /\ \A o \in Obj : Marked(o)' <=> Marked(o) \/ o \in GcRoots
      /\ \A o \in Obj : reach'[o] \in {reach[o], REACHABLE}
      /\ \A o \in Obj \ new : next_obj'[o] = next_obj[o]
      /\ WorkQueue' = new \cup WorkQueue
      /\ Ends(next_obj', gc_queue_head')
  <2>1. [GcQueue EXCEPT !.head = gc_queue_head] = GcQueue
    BY DEF GcQueue
  <2>2. gc_queue_head \in ObjOrNone /\ REACHABLE \in F_REACHABLE .. REACHABLE
    BY <1>2, Values DEF TypeOK
  <2>3. Ends(next_obj, gc_queue_head) /\ WorkQueue = Chain(next_obj, gc_queue_head)
    BY <1>2 DEF Lists, WorkChain, WorkQueue
  <2>4. \A o \in Chain(next_obj, gc_queue_head) : Marked(o)
    BY <1>2, <1>4, <1>5, <2>3
  <2> QED
    BY <1>1, <1>2, <2>1, <2>2, <2>3, <2>4, Enqueued
<1>7. References' /\ Safe' /\ GcRoots' = GcRoots
  BY <1>1, <1>2, ObjFrame
<1>8. Control'
  BY <1>1, <1>2, <1>3 DEF Control
<1>9. FreeChain'
  BY <1>1, <1>2, <1>4, <1>6, FreeFrame DEF Lists, TypeOK
<1>10. FinalizeChain'
  BY <1>1, <1>3, FinalizeChainEmpty
<1>11. WorkChain'
  BY <1>1, <1>2, <1>4, <1>5, <1>6 DEF WorkChain, Tracing, Scanning
<1>12. TraceOK'
  <2>1. \A o \in RootObj \cup GcRoots' : Marked(o)'
    BY <1>2, <1>4, <1>5, <1>6, <1>7
  <2>2. ASSUME NEW o \in Obj \ free', Marked(o)', o \notin WorkQueue', strong'[o] # NoObj
        PROVE  Marked(strong[o])'
    BY <1>1, <1>2, <1>5, <1>6, <2>2 DEF References, objVars
  <2>3. ASSUME NEW o \in Obj \ free', Marked(o)'
        PROVE  o \in Reach(RootObj \cup GcRoots \cup Pending)'
    <3>1. o \in RootObj \cup GcRoots
      BY <1>1, <1>5, <1>6, <2>3
    <3>2. strong' \in [Obj -> ObjOrNone] /\ RootObj \cup GcRoots \in SUBSET Obj
      BY <1>2 DEF TypeOK
    <3>3. (RootObj \cup GcRoots \cup Pending)' = RootObj \cup GcRoots
      BY <1>3, <1>7
    <3> QED
      BY <3>1, <3>2, <3>3, FollowedClosed DEF Reach
  <2>4. \A o \in Obj \ free : reach'[o] # F_REACHABLE
    BY <1>1, <1>2, <1>6, Values DEF Phases, MarksOK, InitMark
  <2> QED
    BY <1>1, <2>1, <2>2, <2>3, <2>4 DEF TraceOK
<1>13. Phases'
  BY <1>1, <1>2, <1>12 DEF Phases, MarksOK, SweepOK, CallsOK, Scanning
<1> QED
  BY <1>7, <1>8, <1>9, <1>10, <1>11, <1>13 DEF IInv, Lists

(* gc_pass_continue: an object taken from the queue has its reference      *)
(* marked.                                                                 *)
LEMMA TraceOneInvariant ==
  ASSUME IInv, TypeOK', TraceOne
  PROVE  IInv'
<1> DEFINE cur == gc_queue_head
           h == next_obj[cur]
           refs == IF pc = "savetrace" /\ cur \in TransientObj THEN {} ELSE StrongRefs(cur)
           new == {o \in refs \ NoRefs : ~ Marked(o)}
<1>1. /\ pc \in {"trace", "ftrace", "savetrace"} /\ cur # NoObj
      /\ BecomesGcQueue(AddToGcQueue([GcQueue EXCEPT !.head = h], refs, reach[cur]))
      /\ UNCHANGED <<free, prev_free, first_free, fin, finalize_queue_head, objVars,
                     pc, scan, frames, saving, calls>>
  BY DEF TraceOne, freeVars, ctlVars
<1>2. /\ TypeOK /\ Control /\ References /\ Lists /\ Phases /\ Safe
      /\ GcRoots \in SUBSET Obj /\ RootObj \subseteq Obj
  BY RootsType, RootsAreObjects DEF IInv
<1>3. /\ next_obj \in [Obj -> ObjOrNone] /\ cur \in Obj /\ h \in ObjOrNone
      /\ strong \in [Obj -> ObjOrNone] /\ free \subseteq Obj
  BY <1>1, <1>2 DEF TypeOK, ObjOrNone
<1>4. /\ WorkQueue = {cur} \cup Chain(next_obj, h) /\ WorkQueue \subseteq Obj
      /\ Ends(next_obj, h)
  BY <1>2, <1>3, ChainHead, ChainPop, ChainClosed DEF Lists, WorkChain, WorkQueue
<1>5. /\ \A o \in WorkQueue : Marked(o)
      /\ WorkQueue \cap (free \cup NoRefs) = {}
  BY <1>1, <1>2 DEF Lists, WorkChain, Tracing
<1>6. refs \in SUBSET Obj /\ refs \cap free = {} /\ refs \subseteq {strong[cur]}
  BY <1>1, <1>2, <1>3, <1>4, <1>5 DEF StrongRefs, ObjOrNone, Safe, NoDanglingRef
<1>7. /\ \A o \in Obj : Marked(o)' <=> Marked(o) \/ o \in refs
      /\ \A o \in Obj : reach'[o] \in {reach[o], reach[cur]}
      /\ \A o \in Obj \ new : next_obj'[o] = next_obj[o]
      /\ WorkQueue' = new \cup Chain(next_obj, h)
      /\ Ends(next_obj', gc_queue_head')
  <2>1. reach[cur] \in F_REACHABLE .. REACHABLE
    BY <1>2, <1>3, <1>4, <1>5, Values DEF TypeOK, Marked
  <2>2. \A o \in Chain(next_obj, h) : Marked(o)
    BY <1>4, <1>5
  <2> HIDE DEF h, refs
  <2>3. /\ \A o \in Obj : reach'[o] = IF o \in refs /\ reach[cur] > reach[o]
                                       THEN reach[cur] ELSE reach[o]
        /\ \A o \in Obj : Marked(o)' <=> Marked(o) \/ o \in refs
        /\ \A o \in Obj \ new : next_obj'[o] = next_obj[o]
        /\ WorkQueue' = new \cup Chain(next_obj, h)
        /\ Ends(next_obj', gc_queue_head')
    BY <1>1, <1>2, <1>3, <1>4, <1>6, <2>1, <2>2, Enqueued
  <2> QED
    BY <2>3
<1> HIDE DEF h
<1>8. References' /\ Safe' /\ GcRoots' = GcRoots
  BY <1>1, <1>2, ObjFrame
<1>9. Control'
  BY <1>1, <1>2 DEF Control
<1>10. FreeChain'
  BY <1>1, <1>2, <1>3, <1>6, <1>7, FreeFrame DEF Lists
<1>11. FinalizeChain'
  <2>1. finalize_queue_head = NoObj
    BY <1>1, <1>2 DEF Control
  <2>2. pc # "ftrace" => Pending' = {}
    BY <1>1, <1>2, <2>1, NonePending DEF Lists, Pending
  <2> QED
    BY <1>1, <2>1, <2>2, FinalizeChainEmpty
<1>12. WorkChain'
  BY <1>1, <1>3, <1>4, <1>5, <1>6, <1>7 DEF WorkChain, Tracing, Scanning
<1>13. TraceOK'
  <2> SUFFICES ASSUME pc \in {"trace", "ftrace"} PROVE TraceOK'
    BY <1>1 DEF TraceOK
  <2>0. TraceOK /\ pc' = pc
    BY <1>1, <1>2 DEF Phases
  <2>1. \A o \in RootObj \cup GcRoots' : Marked(o)'
    BY <1>2, <1>7, <1>8, <2>0 DEF TraceOK
  <2>2. ASSUME NEW o \in Obj \ free, Marked(o)', o \notin WorkQueue', strong[o] # NoObj
        PROVE  Marked(strong[o])'
    <3>0. strong[o] \in Obj
      BY <1>3, <2>2 DEF ObjOrNone
    <3>1. CASE o = cur
      BY <1>1, <1>7, <2>2, <3>0, <3>1 DEF StrongRefs, objVars
    <3>2. CASE o # cur /\ Marked(o)
      BY <1>1, <1>4, <1>7, <2>0, <2>2, <3>0, <3>2 DEF TraceOK, objVars
    <3>3. CASE ~ Marked(o)
      BY <1>2, <1>7, <2>2, <3>3 DEF References
    <3> QED
      BY <3>1, <3>2, <3>3
  <2> DEFINE R == Reach(RootObj \cup GcRoots \cup Pending)
  <2>3. ASSUME NEW o \in Obj \ free, Marked(o)' PROVE o \in R
    <3>1. (RootObj \cup GcRoots \cup Pending) \in SUBSET Obj
      BY <1>2 DEF Pending
    <3>2. \A x \in R : strong[x] \in R \cup {NoObj}
      BY <1>3, <3>1, FollowedClosed DEF Reach
    <3>3. cur \in R
      BY <1>3, <1>4, <1>5, <2>0 DEF TraceOK
    <3>4. CASE Marked(o)
      BY <2>0, <2>3, <3>4 DEF TraceOK
    <3>5. CASE ~ Marked(o)
      BY <1>6, <1>7, <2>3, <3>2, <3>3, <3>5, ObjNumbers
    <3> QED
      BY <3>4, <3>5
  <2>4. R' = R
    BY <1>1, <1>8 DEF Reach, Pending, objVars
  <2>5. pc = "ftrace" => \A o \in Obj \ free : fin'[o] # FINALIZED => Marked(o)'
    BY <1>1, <1>7, <2>0 DEF TraceOK
  <2> HIDE DEF R
  <2>6. strong' = strong /\ free' = free
    BY <1>1 DEF objVars
  <2>7. pc = "trace" => \A o \in Obj \ free : reach'[o] # F_REACHABLE
    BY <1>3, <1>4, <1>5, <1>7, <2>0 DEF TraceOK
  <2> QED
    BY <2>0, <2>1, <2>2, <2>3, <2>4, <2>5, <2>6, <2>7 DEF TraceOK, R
<1>14. Phases'
  BY <1>1, <1>2, <1>13 DEF Phases, MarksOK, SweepOK, CallsOK, Scanning
<1> QED
  BY <1>8, <1>9, <1>10, <1>11, <1>12, <1>14 DEF IInv, Lists

(* The first scan of gc_pass_finish marks what waits for a finalizer.      *)
LEMMA ClassifyInvariant ==
  ASSUME IInv, TypeOK', Classify
  PROVE  IInv'
<1> DEFINE newly == {o \in Dynamic \ free : reach[o] # REACHABLE /\ fin[o] = UNFINALIZABLE}
           S == {o \in Dynamic \ free : fin'[o] = FINALIZABLE}
           new == {o \in S \ NoRefs : ~ Marked(o)}
<1>1. /\ pc = "trace" /\ pc' = "ftrace" /\ gc_queue_head = NoObj
      /\ BecomesGcQueue(AddToGcQueue(GcQueue, S, F_REACHABLE))
      /\ UNCHANGED <<free, prev_free, first_free, finalize_queue_head, objVars,
                     scan, frames, saving, calls>>
  BY DEF Classify, freeVars
<1>2. /\ TypeOK /\ Control /\ References /\ Lists /\ Phases /\ Safe /\ TraceOK
      /\ GcRoots \in SUBSET Obj /\ RootObj \subseteq Obj /\ S \in SUBSET Obj
  BY RootsType, RootsAreObjects DEF IInv, Phases
<1>3. finalize_queue_head = NoObj /\ Pending = {} /\ WorkQueue = {}
  BY <1>1, <1>2, NonePending, WorkEmpty DEF Control, Lists
<1>4. \A o \in Obj : fin'[o] = IF o \notin newly THEN fin[o]
                               ELSE IF o \in Finalizable THEN FINALIZABLE ELSE FINALIZED
  BY DEF Classify
<1>5. /\ \A o \in Obj : Marked(o)' <=> Marked(o) \/ o \in S
      /\ \A o \in Obj \ new : next_obj'[o] = next_obj[o]
      /\ WorkQueue' = new
      /\ Ends(next_obj', gc_queue_head')
  <2>1. [GcQueue EXCEPT !.head = gc_queue_head] = GcQueue
    BY DEF GcQueue
  <2>2. gc_queue_head \in ObjOrNone /\ F_REACHABLE \in F_REACHABLE .. REACHABLE
    BY <1>2, Values DEF TypeOK
  <2>3. Ends(next_obj, gc_queue_head) /\ Chain(next_obj, gc_queue_head) = {}
    BY <1>1, ChainEmpty
  <2> HIDE DEF S
  <2>4. /\ \A o \in Obj : Marked(o)' <=> Marked(o) \/ o \in S
        /\ \A o \in Obj \ new : next_obj'[o] = next_obj[o]
        /\ WorkQueue' = new \cup Chain(next_obj, gc_queue_head)
        /\ Ends(next_obj', gc_queue_head')
    BY <1>1, <1>2, <2>1, <2>2, <2>3, Enqueued
  <2> QED
    BY <2>3, <2>4
<1>6. RootObj \cap Dynamic = {} /\ Obj = RootObj \cup Dynamic /\ RootObj \cap free = {}
      /\ GcRoots \cap free = {}
  BY <1>2, RootsAreObjects DEF Safe, NoDanglingRef, GcRoots
<1>7. Pending' = S
  BY <1>1, <1>2, <1>4, <1>6, Values DEF Pending, References
<1>8. References' /\ Safe' /\ GcRoots' = GcRoots
  BY <1>1, <1>2, <1>4, <1>6, ObjFrame
<1>9. Control'
  BY <1>1, <1>2, <1>3 DEF Control
<1>10. FreeChain'
  BY <1>1, <1>2, <1>5, FreeFrame DEF Lists, TypeOK
<1>11. FinalizeChain'
  BY <1>1, <1>3, FinalizeChainEmpty
<1>12. WorkChain'
  BY <1>1, <1>2, <1>5 DEF WorkChain, Tracing, Scanning
<1>13. TraceOK'
  <2>1. \A o \in RootObj \cup GcRoots' : Marked(o)'
    BY <1>1, <1>2, <1>5, <1>8 DEF TraceOK
  <2>2. ASSUME NEW o \in Obj \ free, Marked(o)', o \notin WorkQueue', strong[o] # NoObj
        PROVE  Marked(strong[o])'
    <3>1. strong[o] \in Obj
      BY <1>2, <2>2 DEF TypeOK, ObjOrNone
    <3>2. CASE Marked(o)
      BY <1>1, <1>2, <1>3, <1>5, <2>2, <3>1, <3>2 DEF TraceOK, objVars
    <3>3. CASE ~ Marked(o)
      BY <1>2, <1>5, <2>2, <3>3 DEF References
    <3> QED
      BY <3>2, <3>3
  <2>3. ASSUME NEW o \in Obj \ free, Marked(o)'
        PROVE  o \in Reach(RootObj \cup GcRoots \cup S)
    <3> DEFINE T == RootObj \cup GcRoots
               U == RootObj \cup GcRoots \cup S
    <3>1. strong \in [Obj -> ObjOrNone] /\ T \in SUBSET Obj /\ U \in SUBSET Obj /\ T \subseteq U
      BY <1>2 DEF TypeOK
    <3>2. CASE Marked(o)
      <4>1. o \in Followed(strong, T)
        BY <1>1, <1>2, <1>3, <2>3, <3>2 DEF TraceOK, Reach
      <4> HIDE DEF T, U
      <4>2. Followed(strong, T) \subseteq Followed(strong, U)
        BY <3>1, FollowedClosed, FollowedMonotone
      <4> QED
        BY <4>1, <4>2 DEF Reach, U
    <3>3. CASE ~ Marked(o)
      <4>1. o \in U
        BY <1>5, <2>3, <3>3
      <4> HIDE DEF U
      <4> QED
        BY <3>1, <4>1, FollowedClosed DEF Reach, U
    <3> QED
      BY <3>2, <3>3
  <2>4. ASSUME NEW o \in Obj \ free, fin'[o] # FINALIZED PROVE Marked(o)'
    <3>1. CASE o \in RootObj
      BY <1>1, <1>2, <1>5, <3>1 DEF TraceOK
    <3>2. CASE o \in Dynamic /\ fin'[o] = FINALIZABLE
      BY <1>5, <2>4, <3>2
    <3>3. CASE o \in Dynamic /\ fin'[o] # FINALIZABLE
      <4>1. fin[o] = UNFINALIZABLE /\ o \notin newly
        BY <1>2, <1>4, <2>4, <3>3, Values DEF TypeOK
      <4>2. reach[o] = REACHABLE
        BY <2>4, <3>3, <4>1
      <4> QED
        BY <1>5, <4>2, Values DEF Marked
    <3> QED
      BY <1>6, <3>1, <3>2, <3>3
  <2>5. strong' = strong /\ free' = free
    BY <1>1 DEF objVars
  <2>6. Reach(RootObj \cup GcRoots \cup Pending)' = Reach(RootObj \cup GcRoots \cup S)
    BY <1>7, <1>8, <2>5 DEF Reach
  <2> QED
    BY <1>1, <2>1, <2>2, <2>3, <2>4, <2>5, <2>6 DEF TraceOK
<1>14. CallsOK'
  BY <1>1, <1>2, <1>4, Values, RootsAreObjects DEF Phases, CallsOK
<1>15. Phases'
  BY <1>1, <1>2, <1>13, <1>14 DEF Phases, MarksOK, SweepOK, Scanning
<1> QED
  BY <1>8, <1>9, <1>10, <1>11, <1>12, <1>15 DEF IInv, Lists

(* Everything reachable or waiting is marked: the sweep keeps just that.   *)
LEMMA SweepBeginInvariant ==
  ASSUME IInv, TypeOK', SweepBegin
  PROVE  IInv'
<1>1. /\ pc = "ftrace" /\ pc' = "sweep" /\ gc_queue_head = NoObj /\ scan' = 1
      /\ UNCHANGED <<free, reach, fin, next_obj, prev_free, first_free, gc_queue_head,
                     finalize_queue_head, strong, weak, stack, undo_rec, frames, saving,
                     calls>>
  BY DEF SweepBegin, tabVars, objVars
<1>2. /\ TypeOK /\ Control /\ References /\ Lists /\ Phases /\ Safe /\ TraceOK
      /\ GcRoots \in SUBSET Obj /\ RootObj \subseteq Obj
  BY RootsType, RootsAreObjects DEF IInv, Phases
<1>3. finalize_queue_head = NoObj /\ WorkQueue = {} /\ FinalizeQueue = {}
  BY <1>1, <1>2, FinalizeEmpty, WorkEmpty DEF Control
<1>4. \A o \in Obj : ~ (o < 1)
  BY ObjNumbers
<1>5. GcRoots' = GcRoots /\ Pending' = Pending
      /\ WorkQueue' = WorkQueue /\ FinalizeQueue' = FinalizeQueue
  BY <1>1 DEF GcRoots, InFrames, UndoRefs, Pending, WorkQueue, FinalizeQueue
<1>6. Kept' = {o \in Obj \ free : Marked(o)}
  BY <1>1, <1>4 DEF Kept, Marked
<1>7. Control' /\ References'
  BY <1>1, <1>2 DEF Control, References
<1>8. Lists'
  <2>1. {o \in Pending : o < 1} = {} /\ {o \in RootObj \ NoRefs : o < 1} = {}
    BY <1>2, <1>4 DEF Pending
  <2> QED
    BY <1>1, <1>2, <1>3, <1>5, <2>1
       DEF Lists, FreeChain, FinalizeChain, WorkChain, Tracing, Scanning
<1>9. SweepOK'
  <2>1. RootObj \cup GcRoots \subseteq Kept'
    BY <1>1, <1>2, <1>6 DEF TraceOK, Safe, NoDanglingRef, GcRoots
  <2>2. \A o \in Obj \ free : fin[o] # FINALIZED => o \in Kept'
    BY <1>1, <1>2, <1>6 DEF TraceOK
  <2>3. ASSUME NEW o \in Kept', strong[o] # NoObj PROVE strong[o] \in Kept'
    <3>1. o \in Obj \ free /\ Marked(o) /\ strong[o] \in Obj
      BY <1>2, <1>6, <2>3 DEF TypeOK, ObjOrNone
    <3>2. strong[o] \notin free
      BY <1>1, <1>2, <3>1 DEF Safe, NoDanglingRef
    <3> QED
      BY <1>1, <1>2, <1>3, <1>6, <2>3, <3>1, <3>2 DEF TraceOK
  <2>4. \A o \in Kept' : ~ (o < scan')
    BY <1>1, <1>4, <1>6
  <2>5. Kept' \subseteq Reach(RootObj \cup GcRoots \cup Pending)
    BY <1>1, <1>2, <1>6 DEF TraceOK
  <2>6. Reach(RootObj \cup GcRoots \cup Pending)' = Reach(RootObj \cup GcRoots \cup Pending)
    BY <1>1, <1>5 DEF Reach
  <2> QED
    BY <1>1, <1>5, <2>1, <2>2, <2>3, <2>4, <2>5, <2>6 DEF SweepOK
<1>10. Phases'
  BY <1>1, <1>2, <1>4, <1>9 DEF Phases, MarksOK, TraceOK, CallsOK, Scanning
<1>11. Safe'
  <2>1. InFrames' = InFrames /\ UndoRefs' = UndoRefs
    BY <1>1 DEF InFrames, UndoRefs
  <2> QED
    BY <1>1, <1>2, <2>1 DEF Safe, NoDanglingRef, WeakRefsValid
<1> QED
  BY <1>7, <1>8, <1>10, <1>11 DEF IInv
------------------------------------------------------------------------------
(* Steps of the collector: the sweep.                                      *)

\* What holds at the scan position of a sweep.
SweepState ==
  /\ IInv /\ TypeOK' /\ pc = "sweep" /\ scan \in Obj
  /\ pc' = "sweep" /\ scan' = scan + 1
  /\ UNCHANGED <<fin, stack, undo_rec, frames, saving, calls>>

(* What the cases of one entry have in common.                             *)
LEMMA SweepStateFacts ==
  ASSUME SweepState
  PROVE  /\ TypeOK /\ Control /\ References /\ FreeChain /\ FinalizeChain /\ WorkChain
         /\ MarksOK /\ SweepOK /\ CallsOK /\ Safe
         /\ \A x \in Obj : (x < scan' <=> x < scan \/ x = scan) /\ ~ (scan < scan)
         /\ WorkQueue = {o \in RootObj \ NoRefs : o < scan}
         /\ FinalizeQueue = {o \in Pending : o < scan}
         /\ GcRoots' = GcRoots /\ GcRoots \in SUBSET Obj
         /\ RootObj \subseteq Obj /\ Control'
<1>1. IInv /\ scan' = scan + 1 /\ scan \in Obj
  BY DEF SweepState
<1>2. \A x \in Obj : (x < scan' <=> x < scan \/ x = scan) /\ ~ (scan < scan)
  BY <1>1, ObjNumbers
<1>3. GcRoots' = GcRoots
  BY DEF SweepState, GcRoots, InFrames, UndoRefs
<1>4. Control'
  BY <1>1 DEF SweepState, IInv, Control
<1> QED
  BY <1>1, <1>2, <1>3, <1>4, RootsType, RootsAreObjects
     DEF SweepState, IInv, Lists, Phases, FinalizeChain, WorkChain, Scanning

(* A sweep step that leaves the set of kept objects, their references and   *)
(* what waits alone leaves the reachable objects alone.                    *)
LEMMA SweepReach ==
  ASSUME SweepState, \A x \in Kept : strong'[x] = strong[x], Pending' = Pending
  PROVE  Reach(RootObj \cup GcRoots \cup Pending)' = Reach(RootObj \cup GcRoots \cup Pending)
<1> DEFINE S == RootObj \cup GcRoots \cup Pending
<1>1. TypeOK /\ SweepOK /\ pc = "sweep" /\ GcRoots' = GcRoots
      /\ GcRoots \in SUBSET Obj /\ RootObj \subseteq Obj
  BY SweepStateFacts DEF SweepState
<1>2. strong \in [Obj -> ObjOrNone] /\ strong' \in [Obj -> ObjOrNone]
  BY <1>1 DEF SweepState, TypeOK
<1>3. S \in SUBSET Obj /\ Kept \in SUBSET Obj
  BY <1>1 DEF Pending, Kept
<1>4. S \subseteq Kept
  BY <1>1, Values DEF SweepOK, Pending
<1>5. \A x \in Kept : strong[x] \in Kept \cup {NoObj}
  BY <1>1 DEF SweepOK
<1>6. S' = S
  BY <1>1
<1> HIDE DEF S
<1>7. Followed(strong, S) \subseteq Kept
  BY <1>3, <1>4, <1>5, FollowedLeast
<1>8. Followed(strong', S) = Followed(strong, S)
  BY <1>2, <1>3, <1>7, FollowedFrame
<1> QED
  BY <1>6, <1>8 DEF S, Reach

(* A free entry.                                                           *)
LEMMA SweepFreeInvariant ==
  ASSUME SweepState, scan \in free, UNCHANGED <<tabVars, strong, weak>>
  PROVE  IInv'
<1>1. UNCHANGED <<free, reach, next_obj, prev_free, first_free, gc_queue_head,
                  finalize_queue_head, fin, stack, undo_rec, frames, saving, calls>>
      /\ pc' = "sweep" /\ pc = "sweep" /\ scan \in Obj
  BY DEF SweepState, tabVars
<1>2. Pending' = Pending /\ WorkQueue' = WorkQueue /\ FinalizeQueue' = FinalizeQueue
  BY <1>1 DEF Pending, WorkQueue, FinalizeQueue
<1>3. Kept' = Kept
  BY <1>1, SweepStateFacts DEF Kept, Marked
<1>4. scan \notin RootObj
  BY SweepStateFacts DEF Safe, NoDanglingRef
<1>5. Lists'
  <2>1. {o \in Pending : o < scan'} = {o \in Pending : o < scan}
    BY SweepStateFacts DEF Pending
  <2>2. {o \in RootObj \ NoRefs : o < scan'} = {o \in RootObj \ NoRefs : o < scan}
    BY <1>4, SweepStateFacts
  <2> QED
    BY <1>1, <1>2, <2>1, <2>2, SweepStateFacts
       DEF Lists, FreeChain, FinalizeChain, WorkChain, Tracing, Scanning
<1>6. Phases'
  <2>1. SweepOK'
    <3>1. Reach(RootObj \cup GcRoots \cup Pending)' = Reach(RootObj \cup GcRoots \cup Pending)
      BY <1>2, SweepReach
    <3>2. \A x \in Kept : x < scan' => x < scan
      BY SweepStateFacts DEF Kept
    <3> QED
      BY <1>1, <1>3, <3>1, <3>2, SweepStateFacts DEF SweepOK
  <2>2. MarksOK'
    BY <1>1, SweepStateFacts DEF MarksOK, Scanning
  <2> QED
    BY <1>1, <2>1, <2>2, SweepStateFacts DEF Phases, TraceOK, CallsOK
<1>7. References' /\ Safe'
  <2>1. InFrames' = InFrames /\ UndoRefs' = UndoRefs
    BY <1>1 DEF InFrames, UndoRefs
  <2> QED
    BY <1>1, <2>1, SweepStateFacts DEF References, Safe, NoDanglingRef, WeakRefsValid
<1> QED
  BY <1>5, <1>6, <1>7, SweepStateFacts DEF SweepState, IInv

(* delete_entry: nothing that stays refers to the entry.                   *)
LEMMA SweepDeleteInvariant ==
  ASSUME SweepState, scan \notin free, IsDeletable(scan), DeleteEntry(scan)
  PROVE  IInv'
<1>1. /\ pc' = "sweep" /\ pc = "sweep" /\ scan \in Obj
      /\ free' = free \cup {scan} /\ first_free' = scan
      /\ next_obj' = [next_obj EXCEPT ![scan] = first_free]
      /\ UNCHANGED <<reach, gc_queue_head, finalize_queue_head, fin, stack, undo_rec,
                     frames, saving, calls>>
  BY DEF SweepState, DeleteEntry
<1>2. TypeOK /\ TypeOK'
  BY SweepStateFacts DEF SweepState
<1>3. /\ \A x \in Obj : strong'[x] = IF x = scan THEN NoObj ELSE strong[x]
      /\ \A x \in Obj : weak'[x] = IF x = scan THEN NoObj ELSE weak[x]
      /\ \A x \in Obj : next_obj'[x] = IF x = scan THEN first_free ELSE next_obj[x]
      /\ \A x \in Obj : prev_free'[x] = IF x = scan THEN NoObj
                                        ELSE IF x = first_free THEN scan ELSE prev_free[x]
  BY <1>2 DEF DeleteEntry, TypeOK
<1>4. scan \notin Kept /\ fin[scan] = FINALIZED
  BY SweepStateFacts DEF IsDeletable, Kept, Marked
<1>5. scan \notin RootObj /\ scan \notin Pending
  BY <1>1, <1>4, Values, SweepStateFacts DEF SweepOK, Pending
<1>6. Kept' = Kept /\ Pending' = Pending
  <2>1. Kept' = Kept
    BY <1>1, <1>4, SweepStateFacts DEF Kept, Marked
  <2> QED
    BY <1>1, <1>5, <2>1 DEF Pending
<1>7. FreeChain'
  <2>1. next_obj \in [Obj -> ObjOrNone] /\ first_free \in ObjOrNone /\ free \subseteq Obj
    BY <1>2 DEF TypeOK
  <2>2. Chain(next_obj, first_free) = free /\ Ends(next_obj, first_free)
    BY SweepStateFacts DEF FreeChain
  <2>3. Chain(next_obj', scan) = free' /\ Ends(next_obj', scan)
    <3> DEFINE g == [next_obj EXCEPT ![scan] = first_free]
    <3>1. scan \in Obj /\ scan \notin Chain(next_obj, first_free)
      BY <1>1, <2>2
    <3>2. /\ Chain(g, scan) = {scan} \cup Chain(next_obj, first_free)
          /\ Ends(next_obj, first_free) => Ends(g, scan)
      BY ONLY <2>1, <3>1, ChainPushOne
    <3> QED
      BY <1>1, <2>2, <3>2
  <2>4. prev_free'[scan] = NoObj
    BY <1>1, <1>3
  <2>5. ASSUME NEW x \in free', next_obj'[x] # NoObj PROVE prev_free'[next_obj'[x]] = x
    <3>1. CASE x = scan
      <4>1. first_free \in Obj /\ first_free # scan
        BY <1>1, <1>3, <2>1, <2>2, <2>5, <3>1, ChainClosed DEF ObjOrNone
      <4> QED
        BY <1>1, <1>3, <3>1, <4>1
    <3>2. CASE x # scan
      <4>1. x \in free /\ next_obj'[x] = next_obj[x] /\ next_obj[x] \in free
        BY <1>1, <1>3, <2>1, <2>2, <2>5, <3>2, ChainClosed
      <4>2. prev_free[next_obj[x]] = x
        BY <2>5, <4>1, SweepStateFacts DEF FreeChain
      <4>3. next_obj[x] # first_free
        BY <2>1, <2>5, <4>1, <4>2, ObjNumbers, SweepStateFacts DEF FreeChain
      <4> QED
        BY <1>3, <2>1, <4>1, <4>2, <4>3
    <3> QED
      BY <3>1, <3>2
  <2> QED
    BY <1>1, <2>3, <2>4, <2>5 DEF FreeChain
<1>8. FinalizeChain'
  <2>1. \A x \in FinalizeQueue : x \in Obj /\ x # scan
    BY SweepStateFacts DEF Pending
  <2>2. \A x \in FinalizeQueue : next_obj'[x] = next_obj[x]
    BY <1>3, <2>1
  <2>3. /\ FinalizeQueue' = FinalizeQueue
        /\ Ends(next_obj', finalize_queue_head) /\ Acyclic(next_obj', finalize_queue_head)
    BY <1>1, <1>2, <2>2, FinalizeFrame, SweepStateFacts
  <2>4. {o \in Pending : o < scan'} = {o \in Pending : o < scan}
    BY <1>5, SweepStateFacts DEF Pending
  <2> QED
    BY <1>1, <1>6, <2>3, <2>4, SweepStateFacts DEF FinalizeChain
<1>9. WorkChain'
  <2>1. \A x \in WorkQueue : x \in Obj /\ x # scan
    BY SweepStateFacts
  <2>2. WorkQueue' = WorkQueue /\ Ends(next_obj', gc_queue_head)
    BY <1>1, <1>2, <1>3, <2>1, WorkFrame, SweepStateFacts
  <2>3. {o \in RootObj \ NoRefs : o < scan'} = {o \in RootObj \ NoRefs : o < scan}
    BY <1>5, SweepStateFacts
  <2> QED
    BY <1>1, <2>1, <2>2, <2>3, SweepStateFacts DEF WorkChain, Tracing, Scanning
<1>10. SweepOK'
  <2>1. Reach(RootObj \cup GcRoots \cup Pending)' = Reach(RootObj \cup GcRoots \cup Pending)
    <3>1. \A x \in Kept : strong'[x] = strong[x]
      BY <1>3, <1>4 DEF Kept
    <3> QED
      BY <1>6, <3>1, SweepReach
  <2>2. \A x \in Kept : /\ strong'[x] = strong[x] /\ weak'[x] = weak[x]
                        /\ x < scan' => x < scan
    BY <1>3, <1>4, SweepStateFacts DEF Kept
  <2> QED
    BY <1>1, <1>6, <2>1, <2>2, SweepStateFacts DEF SweepOK
<1>11. Phases'
  <2>1. MarksOK'
    BY <1>1, SweepStateFacts DEF MarksOK, Scanning
  <2>2. CallsOK'
    BY <1>1, SweepStateFacts DEF CallsOK
  <2> QED
    BY <1>1, <1>10, <2>1, <2>2 DEF Phases, TraceOK
<1>12. References'
  BY <1>1, <1>3, SweepStateFacts, RootsAreObjects DEF References
<1>13. Safe'
  <2>1. InFrames' = InFrames /\ UndoRefs' = UndoRefs
    BY <1>1 DEF InFrames, UndoRefs
  <2>2. (RootObj \cup stack \cup InFrames \cup UndoRefs) \cap free' = {}
    <3>1. RootObj \cup GcRoots \subseteq Kept /\ Kept \cap free = {}
      BY <1>1, SweepStateFacts DEF SweepOK, Kept
    <3> QED
      BY <1>1, <1>4, <3>1 DEF GcRoots
  <2> QED
    BY <1>1, <2>1, <2>2 DEF Safe, NoDanglingRef, WeakRefsValid
<1> QED
  BY <1>2, <1>7, <1>8, <1>9, <1>11, <1>12, <1>13, SweepStateFacts DEF IInv, Lists

(* An entry that stays: it is in the finalizer queue if it waits for its    *)
(* finalizer, in the work queue if it is a root object, never in both.     *)
LEMMA SweepKeepInvariant ==
  ASSUME SweepState, scan \notin free, ~ IsDeletable(scan), KeepEntry(scan)
  PROVE  IInv'
<1> DEFINE pending == fin[scan] = FINALIZABLE
           q == [reach |-> IF pending THEN [reach EXCEPT ![scan] = F_REACHABLE] ELSE reach,
                 next  |-> IF pending THEN [next_obj EXCEPT ![scan] = finalize_queue_head]
                           ELSE next_obj,
                 head  |-> gc_queue_head]
           a == GcSetInitConditions(q, scan)
<1>1. /\ pc' = "sweep" /\ pc = "sweep" /\ scan \in Obj
      /\ finalize_queue_head' = IF pending THEN scan ELSE finalize_queue_head
      /\ UNCHANGED <<free, prev_free, first_free, fin, strong, stack, undo_rec,
                     frames, saving, calls>>
  BY DEF SweepState, KeepEntry, freeVars
<1>2. TypeOK /\ TypeOK'
  BY SweepStateFacts DEF SweepState
<1>3. /\ next_obj \in [Obj -> ObjOrNone] /\ next_obj' \in [Obj -> ObjOrNone]
      /\ first_free \in ObjOrNone /\ gc_queue_head \in ObjOrNone
      /\ finalize_queue_head \in ObjOrNone
      /\ reach \in [Obj -> UNREACHABLE .. REACHABLE]
  BY <1>2 DEF TypeOK
<1>4. /\ q.reach = IF pending THEN [reach EXCEPT ![scan] = F_REACHABLE] ELSE reach
      /\ q.next = IF pending THEN [next_obj EXCEPT ![scan] = finalize_queue_head]
                  ELSE next_obj
      /\ q.head = gc_queue_head
  OBVIOUS
<1>5. q \in Queue
  <2>1. F_REACHABLE \in UNREACHABLE .. REACHABLE
    BY Values
  <2>2. q.reach \in [Obj -> UNREACHABLE .. REACHABLE]
    BY <1>3, <1>4, <2>1
  <2>3. q.next \in [Obj -> ObjOrNone]
    BY <1>3, <1>4
  <2> QED
    BY <1>3, <1>4, <2>2, <2>3 DEF Queue
<1>6. reach' = a.reach /\ next_obj' = a.next /\ gc_queue_head' = a.head
  BY DEF KeepEntry, BecomesGcQueue
<1>7. a = GcSetInitConditions(q, scan)
  OBVIOUS
<1> HIDE DEF q, a
<1>8. /\ a.reach[scan] = InitMark(scan)
      /\ \A x \in Obj \ {scan} : a.reach[x] = q.reach[x] /\ a.next[x] = q.next[x]
      /\ scan \notin RootObj \ NoRefs => a.next = q.next /\ a.head = q.head
      /\ scan \in RootObj \ NoRefs /\ scan \notin Chain(q.next, q.head) =>
           /\ Chain(a.next, a.head) = {scan} \cup Chain(q.next, q.head)
           /\ Ends(q.next, q.head) => Ends(a.next, a.head)
  BY ONLY <1>1, <1>5, <1>7, InitConditionsFacts
<1>9. /\ reach'[scan] = InitMark(scan)
      /\ \A x \in Obj \ {scan} : reach'[x] = reach[x] /\ next_obj'[x] = next_obj[x]
  BY <1>1, <1>3, <1>4, <1>6, <1>8
<1>10. scan \in Kept
  BY <1>1, SweepStateFacts DEF IsDeletable, SweepOK, Kept, Marked
<1>11. pending => scan \notin RootObj
  BY SweepStateFacts, Values DEF References
<1>12. Kept' = Kept /\ Pending' = Pending
  <2>1. Pending' = Pending
    BY <1>1 DEF Pending
  <2>2. \A x \in Obj \ {scan} : Marked(x)' <=> Marked(x)
    BY <1>9 DEF Marked
  <2>3. \A x \in Obj \ free : (x < scan' \/ Marked(x)') <=> x \in Kept
    BY <1>1, <1>10, <2>2, SweepStateFacts DEF Kept
  <2>4. Kept' = {x \in Obj \ free : x < scan' \/ Marked(x)'}
    BY <1>1 DEF Kept
  <2>5. Kept = {x \in Obj \ free : x \in Kept}
    BY DEF Kept
  <2> QED
    BY <2>1, <2>3, <2>4, <2>5
<1>13. FreeChain'
  <2>1. \A x \in free : next_obj'[x] = next_obj[x]
    BY <1>2, <1>9 DEF TypeOK
  <2> QED
    BY <1>1, <1>2, <2>1, FreeFrame, SweepStateFacts
<1>14. \A x \in FinalizeQueue \cup WorkQueue : x \in Obj \ {scan}
  BY SweepStateFacts DEF Pending
<1>15. FinalizeChain'
  <2>1. CASE pending
    <3> DEFINE g == [next_obj EXCEPT ![scan] = finalize_queue_head]
    <3>1. next_obj' = g
      BY <1>4, <1>6, <1>8, <1>11, <2>1
    <3>2. scan \notin Chain(next_obj, finalize_queue_head)
      BY <1>14 DEF FinalizeQueue
    <3>3. /\ Chain(g, scan) = {scan} \cup Chain(next_obj, finalize_queue_head)
          /\ Ends(next_obj, finalize_queue_head) => Ends(g, scan)
          /\ Acyclic(next_obj, finalize_queue_head) => Acyclic(g, scan)
      BY ONLY <1>1, <1>3, <3>2, ChainPushOne
    <3> HIDE DEF g
    <3>4. FinalizeQueue' = {scan} \cup FinalizeQueue
          /\ Ends(next_obj', scan) /\ Acyclic(next_obj', scan)
      BY <1>1, <2>1, <3>1, <3>3, SweepStateFacts DEF FinalizeQueue, FinalizeChain
    <3>5. {o \in Pending : o < scan'} = {scan} \cup {o \in Pending : o < scan}
      BY <1>1, <2>1, SweepStateFacts DEF Pending
    <3> QED
      BY <1>1, <1>12, <2>1, <3>4, <3>5, SweepStateFacts DEF FinalizeChain
  <2>2. CASE ~ pending
    <3>1. \A x \in FinalizeQueue : next_obj'[x] = next_obj[x]
      BY <1>9, <1>14
    <3>2. /\ FinalizeQueue' = FinalizeQueue
          /\ Ends(next_obj', finalize_queue_head) /\ Acyclic(next_obj', finalize_queue_head)
      BY <1>1, <1>2, <2>2, <3>1, FinalizeFrame, SweepStateFacts
    <3>3. {o \in Pending : o < scan'} = {o \in Pending : o < scan}
      BY <2>2, SweepStateFacts DEF Pending
    <3> QED
      BY <1>1, <1>12, <2>2, <3>2, <3>3, SweepStateFacts DEF FinalizeChain
  <2> QED
    BY <2>1, <2>2
<1>16. WorkChain'
  <2>0. WorkQueue = Chain(next_obj, gc_queue_head) /\ Ends(next_obj, gc_queue_head)
    BY SweepStateFacts DEF WorkQueue, WorkChain
  <2>1. CASE scan \in RootObj \ NoRefs
    <3>1. q.next = next_obj
      BY <1>4, <1>11, <2>1
    <3>2. scan \notin Chain(q.next, q.head)
      BY <1>4, <1>14, <2>0, <3>1
    <3>3. WorkQueue' = {scan} \cup WorkQueue /\ Ends(next_obj', gc_queue_head')
      BY <1>4, <1>6, <1>8, <2>0, <2>1, <3>1, <3>2 DEF WorkQueue
    <3>4. {o \in RootObj \ NoRefs : o < scan'}
            = {scan} \cup {o \in RootObj \ NoRefs : o < scan}
      BY <2>1, SweepStateFacts
    <3> QED
      BY <1>1, <2>1, <3>3, <3>4, SweepStateFacts DEF WorkChain, Tracing, Scanning
  <2>2. CASE scan \notin RootObj \ NoRefs
    <3>1. gc_queue_head' = gc_queue_head
      BY <1>4, <1>6, <1>8, <2>2
    <3>2. \A x \in WorkQueue : next_obj'[x] = next_obj[x]
      BY <1>9, <1>14
    <3>3. WorkQueue' = WorkQueue /\ Ends(next_obj', gc_queue_head')
      BY <1>2, <3>1, <3>2, WorkFrame, SweepStateFacts
    <3>4. {o \in RootObj \ NoRefs : o < scan'} = {o \in RootObj \ NoRefs : o < scan}
      BY <2>2, SweepStateFacts
    <3> QED
      BY <1>1, <3>3, <3>4, SweepStateFacts DEF WorkChain, Tracing, Scanning
  <2> QED
    BY <2>1, <2>2
<1>17. /\ \A x \in Obj \ {scan} : weak'[x] = weak[x]
       /\ weak'[scan] \in {weak[scan], NoObj}
       /\ scan \in WeakHolders /\ weak'[scan] # NoObj => ~ IsObjDeletable(weak[scan])
  BY <1>1, <1>2 DEF KeepEntry, TypeOK
<1>18. References'
  BY <1>1, <1>17, SweepStateFacts DEF References
<1>19. SweepOK'
  <2>1. Reach(RootObj \cup GcRoots \cup Pending)' = Reach(RootObj \cup GcRoots \cup Pending)
    BY <1>1, <1>12, SweepReach
  <2>2. ASSUME NEW x \in Kept, x < scan', weak'[x] # NoObj PROVE weak'[x] \in Kept
    <3>1. CASE x # scan
      BY <1>1, <1>17, <2>2, <3>1, SweepStateFacts DEF SweepOK, Kept
    <3>2. CASE x = scan
      <4>1. scan \in WeakHolders
        BY <1>1, <1>17, <2>2, <3>2, SweepStateFacts, ObjNumbers DEF References
      <4>2. weak[scan] \in Obj /\ weak'[scan] = weak[scan] /\ ~ IsObjDeletable(weak[scan])
        BY <1>1, <1>2, <1>17, <2>2, <3>2, <4>1 DEF TypeOK, ObjOrNone
      <4>3. weak[scan] \in Obj \ free
            /\ (Marked(weak[scan]) \/ fin[weak[scan]] # FINALIZED)
        BY <4>2, ObjNumbers DEF IsObjDeletable, IsDeletable, Marked
      <4> QED
        BY <1>1, <3>2, <4>2, <4>3, SweepStateFacts DEF SweepOK, Kept
    <3> QED
      BY <3>1, <3>2
  <2> QED
    BY <1>1, <1>12, <2>1, <2>2, SweepStateFacts DEF SweepOK
<1>20. Phases'
  <2>1. MarksOK'
    BY <1>1, <1>9, SweepStateFacts DEF MarksOK, Scanning, InitMark
  <2>2. CallsOK'
    BY <1>1, SweepStateFacts DEF CallsOK
  <2> QED
    BY <1>1, <1>19, <2>1, <2>2 DEF Phases, TraceOK
<1>21. Safe'
  <2>1. InFrames' = InFrames /\ UndoRefs' = UndoRefs
    BY <1>1 DEF InFrames, UndoRefs
  <2> QED
    BY <1>1, <2>1, SweepStateFacts DEF Safe, NoDanglingRef, WeakRefsValid
<1> QED
  BY <1>2, <1>13, <1>15, <1>16, <1>18, <1>20, <1>21, SweepStateFacts DEF IInv, Lists

(* One entry of the second scan.                                           *)
LEMMA SweepOneInvariant ==
  ASSUME IInv, TypeOK', SweepOne
  PROVE  IInv'
<1>1. SweepState
  <2>1. scan \in 1 .. NumObj + 1 /\ scan <= NumObj
    BY DEF IInv, TypeOK, SweepOne
  <2>2. scan \in Obj
    BY <2>1, ObjNumbers DEF Obj
  <2>3. fin' = fin
    BY DEF SweepOne, tabVars
  <2> QED
    BY <2>2, <2>3 DEF SweepState, SweepOne
<1> QED
  BY <1>1, SweepFreeInvariant, SweepDeleteInvariant, SweepKeepInvariant DEF SweepOne

(* At the end of the table everything allocated was kept.                  *)
LEMMA CleanUndoInvariant ==
  ASSUME IInv, TypeOK', CleanUndo
  PROVE  IInv'
<1>1. /\ pc = "sweep" /\ pc' = "finalize" /\ scan = NumObj + 1
      /\ UNCHANGED <<free, reach, fin, next_obj, prev_free, first_free, gc_queue_head,
                     finalize_queue_head, strong, weak, stack, frames, saving, calls>>
  BY DEF CleanUndo, tabVars
<1>2. TypeOK /\ Control /\ References /\ Lists /\ Phases /\ Safe /\ SweepOK
  BY DEF IInv, Phases
<1>3. \A x \in Obj : x < scan
  BY <1>1, ObjNumbers
<1>4. Kept = Obj \ free
  BY <1>3 DEF Kept
<1>5. undo_rec'.owner \in {undo_rec.owner, NoObj} /\ undo_rec'.oldval = undo_rec.oldval
      /\ undo_rec'.owner \notin free
  <2>1. undo_rec \in [owner : ObjOrNone, oldval : ObjOrNone] /\ free \subseteq Obj
    BY <1>2 DEF TypeOK
  <2>2. CASE IsObjDeletable(undo_rec.owner)
    BY <2>1, <2>2, ObjNumbers DEF CleanUndo
  <2>3. CASE ~ IsObjDeletable(undo_rec.owner)
    BY <2>1, <2>3, ObjNumbers DEF CleanUndo, IsObjDeletable, IsDeletable
  <2> QED
    BY <2>2, <2>3
<1>6. UndoRefs' \subseteq UndoRefs /\ InFrames' = InFrames
  BY <1>1, <1>5, ObjNumbers DEF UndoRefs, InFrames
<1>7. Control'
  BY <1>1, <1>2 DEF Control
<1>8. References'
  BY <1>1, <1>2, <1>5, RootsAreObjects DEF References
<1>9. Lists'
  <2>1. WorkQueue' = WorkQueue /\ FinalizeQueue' = FinalizeQueue /\ Pending' = Pending
    BY <1>1 DEF WorkQueue, FinalizeQueue, Pending
  <2>2. FinalizeQueue = Pending /\ WorkQueue = RootObj \ NoRefs
    BY <1>1, <1>2, <1>3, RootsAreObjects
       DEF Lists, FinalizeChain, WorkChain, Scanning, Pending
  <2> QED
    BY <1>1, <1>2, <2>1, <2>2
       DEF Lists, FreeChain, FinalizeChain, WorkChain, Tracing, Scanning
<1>10. Phases'
  BY <1>1, <1>2, <1>3
     DEF Phases, MarksOK, TraceOK, SweepOK, CallsOK, Scanning
<1>11. Safe'
  <2>1. NoObj \notin free
    BY <1>2, ObjNumbers DEF TypeOK
  <2>2. \A o \in Obj \ free : strong[o] \notin free /\ weak[o] \notin free
    BY <1>1, <1>2, <1>3, <1>4, <2>1 DEF SweepOK
  <2> QED
    BY <1>1, <1>2, <1>5, <1>6, <2>2 DEF Safe, NoDanglingRef, WeakRefsValid
<1> QED
  BY <1>7, <1>8, <1>9, <1>10, <1>11 DEF IInv
------------------------------------------------------------------------------
(* Steps of the collector: finalizers, and the end of the pass.            *)

(* run_finalizers takes the head of its queue, whose finalizer has not     *)
(* been called.                                                            *)
LEMMA RunFinalizerInvariant ==
  ASSUME IInv, TypeOK', RunFinalizer
  PROVE  IInv'
<1> DEFINE o == finalize_queue_head
<1>1. /\ pc = "finalize" /\ pc' = "run" /\ o # NoObj
      /\ finalize_queue_head' = next_obj[o]
      /\ frames' = Append(frames, o)
      /\ UNCHANGED <<free, prev_free, first_free, next_obj, gc_queue_head, strong, weak,
                     stack, undo_rec, scan, saving>>
  BY DEF RunFinalizer, freeVars, objVars
<1>2. /\ TypeOK /\ Control /\ References /\ FreeChain /\ FinalizeChain /\ WorkChain
      /\ MarksOK /\ CallsOK /\ Safe
  BY DEF IInv, Lists, Phases
<1>3. next_obj \in [Obj -> ObjOrNone] /\ o \in Obj
  BY <1>1, <1>2 DEF TypeOK, ObjOrNone
<1>4. \A x \in Obj :
        /\ fin'[x] = IF x = o THEN FINALIZED ELSE fin[x]
        /\ reach'[x] = IF x = o THEN UNREACHABLE ELSE reach[x]
        /\ calls'[x] = IF x # o THEN calls[x] ELSE IF calls[x] = 0 THEN 1 ELSE 2
  BY <1>2 DEF RunFinalizer, TypeOK
<1>5. FinalizeQueue = Pending /\ o \in Pending
  <2>1. FinalizeQueue = Pending
    BY <1>1, <1>2 DEF FinalizeChain
  <2>2. o \in ObjOrNone
    BY <1>3 DEF ObjOrNone
  <2>3. o \in Chain(next_obj, o) \cup {NoObj}
    BY <1>3, <2>2, ChainClosed
  <2> QED
    BY <1>1, <2>1, <2>3 DEF FinalizeQueue
<1>6. o \notin RootObj /\ o \notin free /\ fin[o] = FINALIZABLE
  BY <1>2, <1>5, Values DEF References, Pending
<1>7. frames = <<>> /\ frames' = <<o>>
  BY <1>1, <1>2 DEF Control
<1>8. Pending' = Pending \ {o}
  BY <1>1, <1>4, <1>6, Values DEF Pending
<1>9. Control'
  BY <1>1, <1>7 DEF Control
<1>10. References'
  BY <1>1, <1>2, <1>4, <1>6, RootsAreObjects DEF References
<1>11. FreeChain'
  BY <1>1, <1>2 DEF FreeChain
<1>12. FinalizeChain'
  <2>1. Chain(next_obj, o) = Pending /\ Ends(next_obj, o) /\ Acyclic(next_obj, o)
    BY <1>2, <1>5 DEF FinalizeChain, FinalizeQueue
  <2>2. /\ Chain(next_obj, next_obj[o]) = Pending \ {o}
        /\ Ends(next_obj, next_obj[o]) /\ Acyclic(next_obj, next_obj[o])
    BY <1>3, <2>1, ChainPop, ChainPopAcyclic
  <2> QED
    BY <1>1, <1>8, <2>2 DEF FinalizeChain, FinalizeQueue
<1>13. WorkChain'
  <2>1. WorkQueue' = WorkQueue
    BY <1>1 DEF WorkQueue
  <2> QED
    BY <1>1, <1>2, <2>1 DEF WorkChain, Tracing, Scanning
<1>14. Phases'
  <2>1. MarksOK'
    BY <1>1, <1>2, <1>4, <1>6 DEF MarksOK, InitMark, Scanning
  <2>2. CallsOK'
    BY <1>1, <1>2, <1>4, <1>6, Values, RootsAreObjects DEF CallsOK
  <2> QED
    BY <1>1, <2>1, <2>2 DEF Phases, TraceOK, SweepOK
<1>15. Safe'
  <2>1. InFrames' = {o}
    BY <1>7 DEF InFrames
  <2>2. UndoRefs' = UndoRefs
    BY <1>1 DEF UndoRefs
  <2> QED
    BY <1>1, <1>2, <1>6, <2>1, <2>2 DEF Safe, NoDanglingRef, WeakRefsValid
<1> QED
  BY <1>9, <1>10, <1>11, <1>12, <1>13, <1>14, <1>15 DEF IInv, Lists

(* The finalizer returns to the collector.                                 *)
LEMMA FinalizerReturnsInvariant ==
  ASSUME IInv, TypeOK', FinalizerReturns
  PROVE  IInv'
<1>1. /\ pc = "run" /\ pc' = "finalize" /\ frames # <<>>
      /\ frames' = SubSeq(frames, 1, Len(frames) - 1)
      /\ UNCHANGED <<free, reach, fin, next_obj, prev_free, first_free, gc_queue_head,
                     finalize_queue_head, strong, weak, stack, undo_rec, scan, saving,
                     calls>>
  BY DEF FinalizerReturns, Running, tabVars, objVars
<1>2. TypeOK /\ Control /\ References /\ Lists /\ Phases /\ Safe
  BY DEF IInv
<1>3. frames' = <<>>
  <2>1. frames \in Seq(Obj) /\ Len(frames) <= 1
    BY <1>2 DEF TypeOK, Control
  <2>2. Len(frames) = 1
    <3>1. frames # <<>>
      BY <1>1
    <3>2. Len(frames) \in Nat \ {0}
      BY ONLY <2>1, <3>1, EmptySeq
    <3>3. \A n \in Nat \ {0} : n <= 1 => n = 1
      OBVIOUS
    <3> QED
      BY ONLY <2>1, <3>2, <3>3
  <2>3. Len(frames') = 0 /\ frames' \in Seq(Obj)
    BY <1>1, <2>1, <2>2 DEF TypeOK
  <2> QED
    BY <2>3
<1>4. Control' /\ References'
  BY <1>1, <1>2, <1>3 DEF Control, References
<1>5. Lists'
  <2>1. WorkQueue' = WorkQueue /\ FinalizeQueue' = FinalizeQueue /\ Pending' = Pending
    BY <1>1 DEF WorkQueue, FinalizeQueue, Pending
  <2> QED
    BY <1>1, <1>2, <2>1
       DEF Lists, FreeChain, FinalizeChain, WorkChain, Tracing, Scanning
<1>6. Phases'
  BY <1>1, <1>2 DEF Phases, MarksOK, TraceOK, SweepOK, CallsOK, Scanning
<1>7. Safe'
  <2>1. InFrames' = {} /\ UndoRefs' = UndoRefs
    BY <1>1, <1>3 DEF InFrames, UndoRefs
  <2> QED
    BY <1>1, <1>2, <2>1 DEF Safe, NoDanglingRef, WeakRefsValid
<1> QED
  BY <1>4, <1>5, <1>6, <1>7 DEF IInv

(* The pass returns; save() marks what it will write.                      *)
LEMMA GcEndInvariant ==
  ASSUME IInv, TypeOK', GcEnd
  PROVE  IInv'
<1>1. /\ pc = "finalize" /\ finalize_queue_head = NoObj
      /\ UNCHANGED <<free, prev_free, first_free, fin, finalize_queue_head, objVars,
                     scan, frames, saving, calls>>
  BY DEF GcEnd, freeVars
<1>2. /\ TypeOK /\ Control /\ References /\ FreeChain /\ FinalizeChain /\ WorkChain
      /\ MarksOK /\ CallsOK /\ Safe
  BY DEF IInv, Lists, Phases
<1>3. Pending = {} /\ Pending' = {}
  BY <1>1, <1>2, NonePending DEF Pending
<1>4. References' /\ Safe'
  BY <1>1, <1>2, ObjFrame
<1>5. frames = <<>> /\ WorkQueue = RootObj \ NoRefs
  BY <1>1, <1>2 DEF Control, WorkChain
<1>6. CASE saving
  <2>1. pc' = "savetrace"
    BY <1>5, <1>6 DEF GcEnd
  <2>2. PICK globals \in SUBSET stack :
               BecomesGcQueue(AddToGcQueue(GcQueue, globals, REACHABLE))
    BY <1>5, <1>6 DEF GcEnd
  <2>3. globals \in SUBSET Obj /\ globals \cap free = {} /\ RootObj \cap free = {}
    BY <1>2 DEF TypeOK, Safe, NoDanglingRef
  <2> DEFINE new == {o \in globals \ NoRefs : ~ Marked(o)}
  <2>4. \A o \in WorkQueue : Marked(o)
    BY <1>1, <1>2, <1>5, <2>3, RootsAreObjects, Values DEF MarksOK, InitMark, Marked
  <2>5. /\ \A o \in Obj : Marked(o)' <=> Marked(o) \/ o \in globals
        /\ \A o \in Obj \ new : next_obj'[o] = next_obj[o]
        /\ WorkQueue' = new \cup WorkQueue
        /\ Ends(next_obj', gc_queue_head')
    <3>1. [GcQueue EXCEPT !.head = gc_queue_head] = GcQueue
      BY DEF GcQueue
    <3>2. gc_queue_head \in ObjOrNone /\ REACHABLE \in F_REACHABLE .. REACHABLE
      BY <1>2, Values DEF TypeOK
    <3>3. Ends(next_obj, gc_queue_head) /\ WorkQueue = Chain(next_obj, gc_queue_head)
      BY <1>2 DEF WorkChain, WorkQueue
    <3> QED
      BY <1>2, <2>2, <2>3, <2>4, <3>1, <3>2, <3>3, Enqueued
  <2>6. FreeChain'
    BY <1>1, <1>2, <2>3, <2>5, FreeFrame DEF TypeOK
  <2>7. FinalizeChain'
    BY <1>1, <1>3, <2>1, FinalizeChainEmpty
  <2>8. WorkChain'
    BY <1>1, <1>2, <1>5, <2>1, <2>3, <2>4, <2>5, RootsAreObjects
       DEF WorkChain, Tracing, Scanning
  <2>9. Control'
    BY <1>1, <1>5, <2>1 DEF Control
  <2>10. Phases'
    BY <1>1, <1>2, <2>1 DEF Phases, MarksOK, TraceOK, SweepOK, CallsOK, Scanning
  <2> QED
    BY <1>4, <2>6, <2>7, <2>8, <2>9, <2>10 DEF IInv, Lists
<1>7. CASE ~ saving
  <2>1. pc' = "run" /\ UNCHANGED <<reach, next_obj, gc_queue_head>>
    BY <1>7 DEF GcEnd, listVars
  <2>2. WorkQueue' = WorkQueue
    BY <2>1 DEF WorkQueue
  <2>3. FreeChain' /\ WorkChain'
    BY <1>1, <1>2, <2>1, <2>2 DEF FreeChain, WorkChain, Tracing, Scanning
  <2>4. FinalizeChain'
    BY <1>1, <1>3, <2>1, FinalizeChainEmpty
  <2>5. Control'
    BY <1>1, <1>5, <2>1 DEF Control
  <2>6. Phases'
    BY <1>1, <1>2, <2>1 DEF Phases, MarksOK, TraceOK, SweepOK, CallsOK, Scanning
  <2> QED
    BY <1>4, <2>3, <2>4, <2>5, <2>6 DEF IInv, Lists
<1> QED
  BY <1>6, <1>7
------------------------------------------------------------------------------
(* Steps of save().                                                        *)

(* Everything to be written is marked.                                     *)
LEMMA SaveScanBeginInvariant ==
  ASSUME IInv, TypeOK', SaveScanBegin
  PROVE  IInv'
<1>1. /\ pc = "savetrace" /\ pc' = "save" /\ gc_queue_head = NoObj /\ scan' = 1
      /\ UNCHANGED <<free, reach, fin, next_obj, prev_free, first_free, gc_queue_head,
                     finalize_queue_head, objVars, frames, saving, calls>>
  BY DEF SaveScanBegin, tabVars
<1>2. TypeOK /\ Control /\ References /\ Lists /\ Phases /\ Safe
  BY DEF IInv
<1>3. finalize_queue_head = NoObj /\ WorkQueue = {}
  BY <1>1, <1>2, WorkEmpty DEF Control
<1>4. \A o \in Obj : ~ (o < 1)
  BY ObjNumbers
<1>5. References' /\ Safe'
  BY <1>1, <1>2, ObjFrame
<1>6. Lists'
  <2>1. WorkQueue' = WorkQueue /\ FinalizeQueue' = FinalizeQueue /\ Pending' = Pending
    BY <1>1 DEF WorkQueue, FinalizeQueue, Pending
  <2>2. {o \in RootObj \ NoRefs : o < 1} = {}
    BY <1>4, RootsAreObjects
  <2> QED
    BY <1>1, <1>2, <1>3, <2>1, <2>2
       DEF Lists, FreeChain, FinalizeChain, WorkChain, Tracing, Scanning
<1>7. Control' /\ Phases'
  BY <1>1, <1>2, <1>4 DEF Control, Phases, MarksOK, TraceOK, SweepOK, CallsOK, Scanning
<1> QED
  BY <1>5, <1>6, <1>7 DEF IInv

(* gc_set_init_conditions on one entry of the table.                       *)
LEMMA SaveOneInvariant ==
  ASSUME IInv, TypeOK', SaveOne
  PROVE  IInv'
<1> DEFINE a == GcSetInitConditions(GcQueue, scan)
<1>1. /\ pc = "save" /\ pc' = "save" /\ scan <= NumObj /\ scan' = scan + 1
      /\ UNCHANGED <<free, prev_free, first_free, fin, finalize_queue_head, objVars,
                     frames, saving, calls>>
  BY DEF SaveOne, freeVars
<1>2. /\ TypeOK /\ Control /\ References /\ FreeChain /\ FinalizeChain /\ WorkChain
      /\ MarksOK /\ CallsOK /\ Safe
  BY DEF IInv, Lists, Phases
<1>3. scan \in Obj
  <2>1. scan \in 1 .. NumObj + 1
    BY <1>2 DEF TypeOK
  <2> QED
    BY <1>1, <2>1, ObjNumbers DEF Obj
<1>4. \A x \in Obj : (x < scan' <=> x < scan \/ x = scan) /\ ~ (scan < scan)
  BY <1>1, <1>3, ObjNumbers
<1>5. GcQueue \in Queue /\ GcQueue.reach = reach /\ GcQueue.next = next_obj
      /\ GcQueue.head = gc_queue_head
  BY <1>2, GcQueueType DEF GcQueue
<1>6. reach' = a.reach /\ next_obj' = a.next /\ gc_queue_head' = a.head
      /\ a = GcSetInitConditions(GcQueue, scan)
  BY DEF SaveOne, BecomesGcQueue
<1> HIDE DEF a
<1>7. /\ reach'[scan] = InitMark(scan)
      /\ \A x \in Obj \ {scan} : reach'[x] = reach[x] /\ next_obj'[x] = next_obj[x]
      /\ scan \notin RootObj \ NoRefs => next_obj' = next_obj /\ gc_queue_head' = gc_queue_head
      /\ scan \in RootObj \ NoRefs /\ scan \notin Chain(next_obj, gc_queue_head) =>
           /\ Chain(next_obj', gc_queue_head') = {scan} \cup Chain(next_obj, gc_queue_head)
           /\ Ends(next_obj, gc_queue_head) => Ends(next_obj', gc_queue_head')
  BY ONLY <1>3, <1>5, <1>6, InitConditionsFacts
<1>8. /\ WorkQueue = {o \in RootObj \ NoRefs : o < scan}
      /\ WorkQueue = Chain(next_obj, gc_queue_head) /\ Ends(next_obj, gc_queue_head)
  BY <1>1, <1>2 DEF WorkChain, WorkQueue, Scanning
<1>9. scan \notin WorkQueue
  BY <1>3, <1>4, <1>8
<1>10. RootObj \cap free = {} /\ RootObj \subseteq Obj /\ free \subseteq Obj
  BY <1>2, RootsAreObjects DEF Safe, NoDanglingRef, TypeOK
<1>11. FreeChain'
  <2>1. \A x \in free : next_obj'[x] = next_obj[x]
    BY <1>7, <1>10
  <2> QED
    BY <1>1, <1>2, <2>1, FreeFrame
<1>12. FinalizeChain'
  <2>1. finalize_queue_head = NoObj
    BY <1>1, <1>2 DEF Control
  <2>2. Pending' = {}
    BY <1>1, <1>2, <2>1, NonePending DEF Pending
  <2> QED
    BY <1>1, <2>1, <2>2, FinalizeChainEmpty
<1>13. WorkChain'
  <2>1. WorkQueue' = {o \in RootObj \ NoRefs : o < scan'} /\ Ends(next_obj', gc_queue_head')
    <3>1. CASE scan \in RootObj \ NoRefs
      <4>1. WorkQueue' = {scan} \cup WorkQueue /\ Ends(next_obj', gc_queue_head')
        BY <1>7, <1>8, <1>9, <3>1 DEF WorkQueue
      <4> QED
        BY <1>4, <1>8, <1>10, <3>1, <4>1
    <3>2. CASE scan \notin RootObj \ NoRefs
      <4>1. WorkQueue' = WorkQueue /\ Ends(next_obj', gc_queue_head')
        BY <1>7, <1>8, <3>2 DEF WorkQueue
      <4> QED
        BY <1>4, <1>8, <1>10, <3>2, <4>1
    <3> QED
      BY <3>1, <3>2
  <2> QED
    BY <1>1, <1>10, <2>1 DEF WorkChain, Tracing, Scanning
<1>14. References' /\ Safe'
  BY <1>1, <1>2, ObjFrame
<1>15. Control'
  BY <1>1, <1>2 DEF Control
<1>16. Phases'
  <2>1. MarksOK'
    BY <1>1, <1>2, <1>4, <1>7 DEF MarksOK, InitMark, Scanning
  <2> QED
    BY <1>1, <1>2, <2>1 DEF Phases, TraceOK, SweepOK, CallsOK
<1> QED
  BY <1>11, <1>12, <1>13, <1>14, <1>15, <1>16 DEF IInv, Lists

(* A save that has come to the end of the table has restored all marks.    *)
LEMMA SaveEndInvariant ==
  ASSUME IInv, TypeOK', SaveEnd, NoNestingNoFailure
  PROVE  IInv'
<1>1. /\ pc = "save" /\ pc' = "run" /\ scan = NumObj + 1
      /\ UNCHANGED <<free, reach, fin, next_obj, prev_free, first_free, gc_queue_head,
                     finalize_queue_head, objVars, frames, calls>>
  BY DEF SaveEnd, NoNestingNoFailure, tabVars
<1>2. TypeOK /\ Control /\ References /\ Lists /\ Phases /\ Safe
  BY DEF IInv
<1>3. \A x \in Obj : x < scan
  BY <1>1, ObjNumbers
<1>4. References' /\ Safe'
  BY <1>1, <1>2, ObjFrame
<1>5. Lists'
  <2>1. WorkQueue' = WorkQueue /\ FinalizeQueue' = FinalizeQueue /\ Pending' = Pending
    BY <1>1 DEF WorkQueue, FinalizeQueue, Pending
  <2>2. WorkQueue = RootObj \ NoRefs
    BY <1>1, <1>2, <1>3, RootsAreObjects DEF Lists, WorkChain, Scanning
  <2> QED
    BY <1>1, <1>2, <2>1, <2>2
       DEF Lists, FreeChain, FinalizeChain, WorkChain, Tracing, Scanning
<1>6. Control' /\ Phases'
  BY <1>1, <1>2, <1>3 DEF Control, Phases, MarksOK, TraceOK, SweepOK, CallsOK, Scanning
<1> QED
  BY <1>4, <1>5, <1>6 DEF IInv
------------------------------------------------------------------------------
(* The invariant.                                                          *)

(* Every step of the collector keeps it.                                   *)
LEMMA CollectorInvariant ==
  ASSUME IInv, NoNestingNoFailure, Collector \/ GcBegin \/ SaveBegin \/ FinalizerReturns
  PROVE  IInv'
<1>1. TypeOK'
  BY CollectorType DEF IInv
<1>2. CASE GcBegin
  <2>1. PassInit /\ Len(frames) <= 0 /\ frames \in Seq(Obj)
    BY <1>2 DEF GcBegin, NoNestingNoFailure, IInv, TypeOK
  <2>2. frames = <<>>
    <3>1. frames # <<>> => Len(frames) \in Nat \ {0}
      BY ONLY <2>1, EmptySeq
    <3>2. \A n \in Nat \ {0} : ~ (n <= 0)
      OBVIOUS
    <3> QED
      BY ONLY <2>1, <3>1, <3>2
  <2> QED
    BY <1>1, <2>1, <2>2, PassInitInvariant
<1>3. CASE SaveBegin
  BY <1>1, <1>3, PassInitInvariant DEF SaveBegin
<1> QED
  BY <1>1, <1>2, <1>3, TraceOneInvariant, ClassifyInvariant, SweepBeginInvariant,
     SweepOneInvariant, CleanUndoInvariant, RunFinalizerInvariant,
     FinalizerReturnsInvariant, GcEndInvariant, SaveScanBeginInvariant,
     SaveOneInvariant, SaveEndInvariant DEF Collector

(* Every step keeps the invariant.                                         *)
LEMMA InvariantNext == IInv /\ NoNestingNoFailure /\ [Next]_vars => IInv'
<1>1. ASSUME IInv, UNCHANGED vars PROVE IInv'
  <2>1. UNCHANGED <<free, reach, fin, next_obj, prev_free, first_free, gc_queue_head,
                    finalize_queue_head, strong, weak, stack, undo_rec, pc, scan, frames,
                    saving, calls>>
    BY <1>1 DEF vars, tabVars, objVars, ctlVars
  <2>2. /\ WorkQueue' = WorkQueue /\ FinalizeQueue' = FinalizeQueue /\ Pending' = Pending
        /\ Kept' = Kept /\ InFrames' = InFrames /\ UndoRefs' = UndoRefs
        /\ Tracing' = Tracing /\ Scanning' = Scanning
    BY <2>1 DEF WorkQueue, FinalizeQueue, Pending, Kept, InFrames, UndoRefs, Marked,
                Tracing, Scanning
  <2>3. GcRoots' = GcRoots
    BY <2>1, <2>2 DEF GcRoots
  <2>4. Reach(RootObj \cup GcRoots \cup Pending)' = Reach(RootObj \cup GcRoots \cup Pending)
    BY <2>1, <2>2, <2>3 DEF Reach
  <2>5. TypeOK' /\ Control' /\ References' /\ Safe'
    BY <1>1, <2>1, <2>2
       DEF IInv, TypeOK, Control, References, Safe, NoDanglingRef, WeakRefsValid
  <2>6. Lists'
    BY <1>1, <2>1, <2>2 DEF IInv, Lists, FreeChain, FinalizeChain, WorkChain, Marked
  <2>7. Phases'
    BY <1>1, <2>1, <2>2, <2>3, <2>4
       DEF IInv, Phases, MarksOK, TraceOK, SweepOK, CallsOK, Marked
  <2> QED
    BY <2>5, <2>6, <2>7 DEF IInv
<1> QED
  BY <1>1, ProgramInvariant, CollectorInvariant DEF Next

(* What the fields of the table may hold, whatever finalizers and writes   *)
(* do.                                                                     *)
THEOREM TypeCorrect == Spec => []TypeOK
BY InitType, TypeNext, PTL DEF Spec

(* The inductive invariant holds when finalizers do not collect and writes *)
(* do not fail.                                                            *)
THEOREM Invariance == ASSUME NoNestingNoFailure PROVE Spec => []IInv
<1>1. IInv /\ [Next]_vars => IInv'
  BY InvariantNext
<1> QED
  BY <1>1, InitInvariant, PTL DEF Spec

(* The free list is the set of free entries, with back pointers that agree *)
(* (alloc_obj_with_id).                                                    *)
THEOREM FreeListCorrect == ASSUME NoNestingNoFailure PROVE Spec => []FreeListOK
<1>1. IInv => FreeListOK
  BY ListedIsChain DEF IInv, Lists, FreeChain, FreeListOK
<1> QED
  BY <1>1, Invariance, PTL

(* An entry is in at most one of the lists that share next_obj_            *)
(* (add_to_gc_queue, add_to_finalize_queue, delete_entry).                 *)
THEOREM QueuesDisjoint == ASSUME NoNestingNoFailure PROVE Spec => []OneQueue
<1>1. ASSUME IInv PROVE OneQueue
  <2>1. TypeOK /\ Control /\ References /\ FinalizeChain /\ WorkChain /\ Safe
    BY <1>1 DEF IInv, Lists
  <2>2. FinalizeQueue \subseteq Pending
    <3>1. CASE pc = "ftrace"
      BY <2>1, <3>1, FinalizeEmpty DEF Control
    <3>2. CASE pc # "ftrace"
      BY <2>1, <3>2 DEF FinalizeChain
    <3> QED
      BY <3>1, <3>2
  <2>3. RootObj \cap Pending = {} /\ Pending \cap free = {}
    BY <2>1, Values DEF References, Pending
  <2>4. WorkQueue \cap FinalizeQueue = {}
    <3>1. CASE Tracing
      BY <2>1, <3>1, FinalizeEmpty DEF Control, Tracing
    <3>2. CASE ~ Tracing
      <4>1. WorkQueue \subseteq RootObj
        BY <2>1, <3>2 DEF TypeOK, WorkChain, Tracing, Scanning
      <4> QED
        BY <2>2, <2>3, <4>1
    <3> QED
      BY <3>1, <3>2
  <2>5. /\ Listed(gc_queue_head) = WorkQueue /\ HasEnd(gc_queue_head)
        /\ Listed(finalize_queue_head) = FinalizeQueue /\ HasEnd(finalize_queue_head)
    BY <2>1, ListedIsChain DEF WorkQueue, FinalizeQueue, WorkChain, FinalizeChain
  <2> QED
    BY <2>1, <2>2, <2>3, <2>4, <2>5 DEF OneQueue, WorkChain
<1> QED
  BY <1>1, Invariance, PTL

(* The collector frees nothing that can still be used (gc_pass_finish).    *)
THEOREM NoDangling == ASSUME NoNestingNoFailure PROVE Spec => []NoDanglingRef
<1>1. IInv => NoDanglingRef
  BY DEF IInv, Safe
<1> QED
  BY <1>1, Invariance, PTL

(* Weak references and owners of undo records never lead to a free entry   *)
(* outside the sweep (remove_stale_weak_refs, gc_remove_stale_weak_refs).  *)
THEOREM WeakRefsCorrect == ASSUME NoNestingNoFailure PROVE Spec => []WeakRefsValid
<1>1. IInv => WeakRefsValid
  BY DEF IInv, Safe
<1> QED
  BY <1>1, Invariance, PTL

(* Whenever the program runs the marks and the work queue are what         *)
(* gc_pass_init relies on.                                                 *)
THEOREM AlwaysReady == ASSUME NoNestingNoFailure PROVE Spec => []ReadyForPass
<1>1. ASSUME IInv PROVE ReadyForPass
  <2>1. WorkChain /\ MarksOK
    BY <1>1 DEF IInv, Lists, Phases
  <2>2. Listed(gc_queue_head) = WorkQueue /\ HasEnd(gc_queue_head)
    BY <2>1, ListedIsChain DEF WorkQueue, WorkChain
  <2> QED
    BY <2>1, <2>2 DEF ReadyForPass, Running, WorkChain, MarksOK, InitMark
<1> QED
  BY <1>1, Invariance, PTL

(* A sweep that has come to the end of the table has left no garbage       *)
(* (gc_pass_finish).                                                       *)
THEOREM NoGarbageLeft == ASSUME NoNestingNoFailure PROVE Spec => []PassCollects
<1>1. ASSUME IInv, pc = "sweep", scan = NumObj + 1
      PROVE  Obj \ free \subseteq
               Reach(RootObj \cup GcRoots \cup {o \in Obj : fin[o] = FINALIZABLE})
  <2> DEFINE S == RootObj \cup GcRoots \cup Pending
             T == RootObj \cup GcRoots \cup {o \in Obj : fin[o] = FINALIZABLE}
  <2>1. TypeOK /\ SweepOK /\ GcRoots \in SUBSET Obj /\ RootObj \subseteq Obj
    BY <1>1, RootsType, RootsAreObjects DEF IInv, Phases
  <2>2. strong \in [Obj -> ObjOrNone] /\ S \in SUBSET Obj /\ T \in SUBSET Obj
        /\ S \subseteq T
    BY <2>1 DEF TypeOK, Pending
  <2>3. \A x \in Obj : x < scan
    BY <1>1, ObjNumbers
  <2>4. Obj \ free \subseteq Followed(strong, S)
    BY <1>1, <2>1, <2>3 DEF SweepOK, Kept, Reach
  <2> HIDE DEF S, T
  <2>5. Followed(strong, S) \subseteq Followed(strong, T)
    BY <2>2, FollowedClosed, FollowedMonotone
  <2> QED
    BY <2>4, <2>5 DEF Reach, T
<1>2. IInv => PassCollects
  BY <1>1 DEF PassCollects
<1> QED
  BY <1>2, Invariance, PTL
------------------------------------------------------------------------------
(* Finalizers.                                                             *)

(* Only the first scan makes objects finalizable, ...                      *)
LEMMA OnlyClassifyMakesFinalizable ==
  ASSUME TypeOK, [Next]_vars, NEW o \in Obj,
         fin'[o] = FINALIZABLE, fin[o] # FINALIZABLE
  PROVE  Classify
<1>1. fin' # fin
  OBVIOUS
<1>2. CASE AllocObj
  BY <1>2, Values DEF AllocObj, TypeOK
<1>3. CASE RunFinalizer
  BY <1>3, Values DEF RunFinalizer, TypeOK
<1>4. ~ (Program /\ ~ AllocObj)
  BY <1>1 DEF Program, SetStrong, SetWeak, Release, ApplyUndo, tabVars
<1>5. ~ GcBegin /\ ~ SaveBegin /\ ~ FinalizerReturns /\ ~ UNCHANGED vars
  BY <1>1 DEF GcBegin, SaveBegin, PassInit, FinalizerReturns, vars, tabVars
<1>6. ~ (Collector /\ ~ RunFinalizer /\ ~ Classify)
  BY <1>1 DEF Collector, TraceOne, SweepBegin, SweepOne, CleanUndo, GcEnd,
              SaveScanBegin, SaveOne, SaveEnd, tabVars
<1> QED
  BY <1>2, <1>3, <1>4, <1>5, <1>6 DEF Next

(* ... and only the sweep frees an entry.                                  *)
LEMMA OnlySweepFrees ==
  ASSUME [Next]_vars, NEW o, o \in free' \ free
  PROVE  o = scan /\ IsDeletable(o)
<1>1. free' # free
  OBVIOUS
<1>2. ~ Program
  BY <1>1 DEF Program, AllocObj, SetStrong, SetWeak, Release, ApplyUndo, tabVars
<1>3. ~ GcBegin /\ ~ SaveBegin /\ ~ FinalizerReturns /\ ~ UNCHANGED vars
  BY <1>1 DEF GcBegin, SaveBegin, PassInit, FinalizerReturns, vars, tabVars, freeVars
<1>4. ~ (Collector /\ ~ SweepOne)
  BY <1>1 DEF Collector, TraceOne, Classify, SweepBegin, CleanUndo, RunFinalizer, GcEnd,
              SaveScanBegin, SaveOne, SaveEnd, tabVars, freeVars
<1>5. SweepOne
  BY <1>2, <1>3, <1>4 DEF Next
<1> QED
  BY <1>5 DEF SweepOne, DeleteEntry, KeepEntry, freeVars, tabVars

(* When the work queue runs empty everything reachable is marked.          *)
LEMMA TracedAll ==
  ASSUME IInv, pc = "trace", gc_queue_head = NoObj
  PROVE  \A o \in Reach(RootObj \cup GcRoots) : o \notin free /\ reach[o] = REACHABLE
<1> DEFINE S == RootObj \cup GcRoots
           C == {o \in Obj \ free : Marked(o)}
<1>1. TypeOK /\ TraceOK /\ Safe /\ WorkQueue = {}
      /\ GcRoots \in SUBSET Obj /\ RootObj \subseteq Obj
  BY RootsType, RootsAreObjects, WorkEmpty DEF IInv, Phases
<1>2. C \in SUBSET Obj /\ S \subseteq C
  BY <1>1 DEF TraceOK, Safe, NoDanglingRef, GcRoots
<1>3. \A x \in C : strong[x] \in C \cup {NoObj}
  BY <1>1 DEF TypeOK, ObjOrNone, TraceOK, Safe, NoDanglingRef
<1>4. \A o \in C : o \notin free /\ reach[o] = REACHABLE
  BY <1>1, Values DEF TypeOK, TraceOK, Marked
<1> HIDE DEF S, C
<1>5. Followed(strong, S) \subseteq C
  BY <1>2, <1>3, FollowedLeast
<1> QED
  BY <1>4, <1>5 DEF Reach, S

(* Only unreachable objects become finalizable, a finalizer is called at   *)
(* most once, and an object is deleted only after the call                 *)
(* (gc_pass_finish, run_finalizers).                                       *)
THEOREM FinalizersCorrect ==
  ASSUME NoNestingNoFailure PROVE Spec => FinalizedOnceThenDeleted
<1> DEFINE A(o) == /\ fin'[o] = FINALIZABLE /\ fin[o] # FINALIZABLE =>
                        o \notin Reach(RootObj \cup GcRoots)
                   /\ calls'[o] # 2
                   /\ o \in free' \ free => calls[o] = 1
<1>1. ASSUME IInv, IInv', [Next]_vars, NEW o \in Finalizable PROVE A(o)
  <2>1. o \in Obj /\ TypeOK /\ CallsOK /\ CallsOK'
    BY <1>1, RootsAreObjects DEF IInv, Phases
  <2>2. ASSUME fin'[o] = FINALIZABLE, fin[o] # FINALIZABLE
        PROVE  o \notin Reach(RootObj \cup GcRoots)
    <3>1. Classify
      BY <1>1, <2>1, <2>2, OnlyClassifyMakesFinalizable
    <3>2. pc = "trace" /\ gc_queue_head = NoObj /\ reach[o] # REACHABLE
      BY <2>1, <2>2, <3>1 DEF Classify
    <3> QED
      BY <1>1, <3>2, TracedAll
  <2>3. calls'[o] # 2
    BY <2>1 DEF CallsOK
  <2>4. ASSUME o \in free' \ free PROVE calls[o] = 1
    <3>1. IsDeletable(o)
      BY <1>1, <2>4, OnlySweepFrees
    <3> QED
      BY <2>1, <2>4, <3>1 DEF IsDeletable, CallsOK
  <2> QED
    BY <2>2, <2>3, <2>4
<1>2. ASSUME IInv, IInv', [Next]_vars PROVE [\A o \in Finalizable : A(o)]_vars
  BY <1>1, <1>2
<1> QED
  BY <1>2, Invariance, PTL DEF Spec, FinalizedOnceThenDeleted
=============================================================================
