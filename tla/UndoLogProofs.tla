---------------------------- MODULE UndoLogProofs ----------------------------
(***************************************************************************)
(* Proofs about UndoLog.  The inductive invariant is the type invariant    *)
(* and ChainOK: the links among the slots in use are exactly the chain.    *)
(* The operators on the array are treated first, one lemma each, then the  *)
(* actions.                                                                *)
(***************************************************************************)
EXTENDS UndoLog, FiniteSetTheorems, TLAPS

------------------------------------------------------------------------------
(* Arithmetic on the circular array.                                       *)

(* Distances from the first slot lie within the array, and the live part   *)
(* holds between one slot and all of them.                                 *)
LEMMA OffRange ==
  ASSUME NEW f \in Slot, NEW s \in Slot
  PROVE  /\ Off(f, s) \in 0 .. RecArrSize - 1
         /\ Size(f, s) \in 1 .. RecArrSize
         /\ Off(f, s) = 0 <=> s = f
         /\ Inc(s) \in Slot /\ Dec(s) \in Slot
BY SizeAssumption DEF Slot, Off, Size, Inc, Dec

(* A slot is identified by its distance.                                   *)
LEMMA OffInjective ==
  ASSUME NEW f \in Slot, NEW s \in Slot, NEW t \in Slot, Off(f, s) = Off(f, t)
  PROVE  s = t
BY SizeAssumption DEF Slot, Off

(* Taking the slot at the end puts it behind all the others, one further.  *)
LEMMA OffAppend ==
  ASSUME NEW f \in Slot, NEW e \in Slot, e # f
  PROVE  Off(f, e) = Size(f, e) /\ Size(f, Inc(e)) = Size(f, e) + 1
BY SizeAssumption DEF Slot, Off, Size, Inc

(* An array that starts at its free slot holds one slot after taking it.   *)
LEMMA OffFirst ==
  ASSUME NEW e \in Slot
  PROVE  Size(e, Inc(e)) = 1
BY SizeAssumption DEF Slot, Size, Inc

(* Stepping the end back gives up the slot that was farthest.              *)
LEMMA OffDec ==
  ASSUME NEW f \in Slot, NEW e \in Slot
  PROVE  /\ Off(f, Dec(e)) = Size(f, e) - 1
         /\ Dec(e) # f => Size(f, Dec(e)) = Size(f, e) - 1
BY SizeAssumption DEF Slot, Off, Size, Dec

(* Moving the first slot forward to g shortens every distance by g's.      *)
LEMMA OffShift ==
  ASSUME NEW f \in Slot, NEW g \in Slot, NEW e \in Slot, NEW s \in Slot,
         Off(f, g) < Size(f, e)
  PROVE  /\ Size(g, e) = Size(f, e) - Off(f, g)
         /\ Off(f, s) >= Off(f, g) => Off(g, s) = Off(f, s) - Off(f, g)
         /\ Off(f, s) < Off(f, g) => Off(g, s) >= Size(g, e)
BY SizeAssumption DEF Slot, Off, Size
------------------------------------------------------------------------------
(* The chain of links.                                                     *)

(* What kind of slot it is decides which fields it has.                    *)
LEMMA SlotKinds ==
  ASSUME NEW u \in Undo, NEW s \in Slot
  PROVE  /\ u.rec_arr[s].kind = "link" =>
              /\ u.rec_arr[s].prev_first \in SlotOrNone
              /\ u.rec_arr[s].next_first \in SlotOrNone
              /\ u.rec_arr[s] = Link(u.rec_arr[s].prev_first, u.rec_arr[s].next_first)
         /\ u.rec_arr[s].kind = "rec" =>
              /\ u.rec_arr[s].obj \in Obj \cup {InvalidObj}
              /\ u.rec_arr[s].prop \in Prop \cup {InvalidProp}
              /\ u.rec_arr[s].prop # InvalidProp => u.rec_arr[s].oldval \in RefVal
         /\ u.rec_arr[s].kind \in {"free", "link", "rec"}
         /\ u.rec_arr[s].kind = "free" <=> u.rec_arr[s] = Free
BY DEF Undo, Content, Free, Link

(* The live links are a finite set of slots.                               *)
LEMMA LinksFinite ==
  ASSUME NEW u \in Undo, NEW e \in Slot
  PROVE  /\ LiveLinks(u, e) \subseteq Live(u, e)
         /\ Live(u, e) \subseteq Slot
         /\ IsFiniteSet(Slot) /\ IsFiniteSet(LiveLinks(u, e))
<1>1. IsFiniteSet(Slot)
  BY FS_Interval, SizeAssumption DEF Slot
<1>2. LiveLinks(u, e) \subseteq Live(u, e) /\ Live(u, e) \subseteq Slot
  BY DEF LiveLinks, Live
<1>3. QED BY <1>1, <1>2, FS_Subset

(* A chain has an oldest and a current savepoint if it has any.            *)
LEMMA ChainEnds ==
  ASSUME NEW u \in Undo, NEW e \in Slot, ChainOK(u, e)
  PROVE  /\ u.savept_cnt = 0 => /\ u.oldest_first = NoRec /\ u.cur_first = NoRec
                                /\ Live(u, e) = {} /\ LiveLinks(u, e) = {}
         /\ u.savept_cnt # 0 => /\ u.oldest_first \in LiveLinks(u, e)
                                /\ u.cur_first \in LiveLinks(u, e)
                                /\ u.oldest_first \in Slot /\ u.cur_first \in Slot
<1>1. u.savept_cnt # 0 => /\ u.oldest_first \in LiveLinks(u, e)
                          /\ u.cur_first \in LiveLinks(u, e)
  BY DEF ChainOK
<1>2. QED BY <1>1, LinksFinite DEF ChainOK, Live, LiveLinks

(* d has forgotten some of the oldest slots of u and nothing else.         *)
Suffix(d, u, e) ==
  /\ d.next_free = u.next_free
  /\ Live(d, e) \subseteq Live(u, e)
  /\ \A s \in Live(d, e) :
       /\ d.rec_arr[s].kind = u.rec_arr[s].kind
       /\ u.rec_arr[s].kind = "rec" => d.rec_arr[s] = u.rec_arr[s]
       /\ \A t \in Live(u, e) : Before(u, s, t) => t \in Live(d, e)
       /\ \A t \in Live(d, e) : Before(d, s, t) <=> Before(u, s, t)

(* Dropping the oldest savepoint leaves a good chain without its link, and *)
(* the free slot is no longer the first one: alloc_rec has room again.     *)
LEMMA DropOldestOK ==
  ASSUME NEW u \in Undo, NEW e \in Slot, ChainOK(u, e), u.savept_cnt # 0,
         NEW d, d = DropOldest(u)
  PROVE  /\ d \in Undo /\ ChainOK(d, e)
         /\ d.savept_cnt = u.savept_cnt - 1
         /\ Suffix(d, u, e)
         /\ d.savept_cnt # 0 =>
              /\ d.oldest_first # e
              /\ d.cur_first = u.cur_first
              /\ d.oldest_first = u.rec_arr[u.oldest_first].next_first
<1> DEFINE f == u.oldest_first
           g == u.rec_arr[f].next_first
           L == LiveLinks(u, e)
<1>1. /\ f \in L /\ f \in Slot /\ u.cur_first \in L /\ u.cur_first \in Slot
      /\ u.rec_arr[f].kind = "link" /\ g \in SlotOrNone
      /\ IsNextLink(u, L, f, g)
      /\ f = u.cur_first <=> g = NoRec
      /\ u.savept_cnt = Cardinality(L) /\ IsFiniteSet(L)
  BY ChainEnds, LinksFinite, SlotKinds DEF ChainOK, LiveLinks
<1>2. f # NoRec /\ NoRec \notin Slot
  BY <1>1 DEF Slot, NoRec
<1>3. \A s \in L : s # f => Before(u, f, s)
  BY <1>1, OffRange, LinksFinite DEF Before
<1>4. CASE g = NoRec
  <2>1. L = {f}
    BY <1>1, <1>3, <1>4 DEF IsNextLink
  <2>2. u.savept_cnt = 1
    BY <1>1, <2>1, FS_Singleton
  <2>3. d = [rec_arr |-> u.rec_arr, cur_first |-> NoRec, oldest_first |-> NoRec,
             next_free |-> u.next_free, savept_cnt |-> u.savept_cnt - 1,
             cur_savept |-> u.cur_savept]
    BY <1>1, <1>2, <1>4 DEF DropOldest
  <2>4. d \in Undo /\ d.savept_cnt = 0 /\ d.next_free = u.next_free
        /\ d.oldest_first = NoRec /\ d.cur_first = NoRec
    <3>1. NoRec \in SlotOrNone
      BY DEF SlotOrNone
    <3>2. QED BY <2>2, <2>3, <3>1 DEF Undo
  <2>5. Live(d, e) = {} /\ LiveLinks(d, e) = {}
    BY <2>4 DEF Live, LiveLinks
  <2>6. ChainOK(d, e)
    BY <2>4, <2>5, FS_EmptySet DEF ChainOK
  <2>7. QED
    BY <2>2, <2>4, <2>5, <2>6 DEF Suffix
<1>5. CASE g # NoRec
  <2>1. /\ g \in L /\ g \in Slot /\ g # f /\ 0 < Off(f, g)
        /\ \A t \in L : Before(u, f, t) => ~Before(u, t, g)
        /\ Off(f, g) < Size(f, e)
        /\ u.rec_arr[g].kind = "link"
        /\ u.savept_cnt # 0
    <3>1. g \in L /\ Before(u, f, g) /\ g \in Slot
          /\ \A t \in L : Before(u, f, t) => ~Before(u, t, g)
      BY <1>1, <1>5, LinksFinite DEF IsNextLink
    <3>2. 0 < Off(f, g) /\ g # f
      BY <1>1, <3>1, OffRange DEF Before
    <3>3. QED BY <3>1, <3>2 DEF LiveLinks, Live
  <2>2. d = [rec_arr |-> SetPrev(u.rec_arr, g, NoRec), cur_first |-> u.cur_first,
             oldest_first |-> g, next_free |-> u.next_free,
             savept_cnt |-> u.savept_cnt - 1, cur_savept |-> u.cur_savept]
    BY <1>1, <1>2, <1>5 DEF DropOldest
  <2>3. /\ L \ {f} # {} /\ IsFiniteSet(L \ {f})
        /\ u.savept_cnt - 1 = Cardinality(L \ {f})
        /\ u.savept_cnt - 1 # 0 /\ u.savept_cnt - 1 \in Nat
    <3>1. g \in L \ {f}
      BY <2>1
    <3>2. IsFiniteSet(L \ {f}) /\ Cardinality(L \ {f}) = Cardinality(L) - 1
      BY <1>1, FS_RemoveElement
    <3>3. Cardinality(L \ {f}) # 0 /\ Cardinality(L \ {f}) \in Nat
      BY <3>1, <3>2, FS_EmptySet, FS_CardinalityType
    <3>4. QED BY <1>1, <3>1, <3>2, <3>3
  <2>4. u.rec_arr[g].next_first \in SlotOrNone /\ NoRec \in SlotOrNone
    BY <2>1, SlotKinds DEF SlotOrNone
  <2>5. Link(NoRec, u.rec_arr[g].next_first) \in Content
    BY <2>4 DEF Link, Content
  <2>6. /\ d.rec_arr = [u.rec_arr EXCEPT ![g] = Link(NoRec, u.rec_arr[g].next_first)]
        /\ d.savept_cnt = u.savept_cnt - 1 /\ d.oldest_first = g
        /\ d.cur_first = u.cur_first /\ d.next_free = u.next_free
        /\ d \in Undo
    <3>1. g \in SlotOrNone
      BY <2>1 DEF SlotOrNone
    <3>2. SetPrev(u.rec_arr, g, NoRec)
            = [u.rec_arr EXCEPT ![g] = Link(NoRec, u.rec_arr[g].next_first)]
      BY DEF SetPrev
    <3>3. SetPrev(u.rec_arr, g, NoRec) \in [Slot -> Content]
      BY <2>1, <2>5, <3>2 DEF Undo
    <3>4. QED BY <2>2, <2>3, <3>1, <3>2, <3>3 DEF Undo
  <2>7. /\ \A s \in Slot : s # g => d.rec_arr[s] = u.rec_arr[s]
        /\ d.rec_arr[g].kind = "link" /\ d.rec_arr[g].prev_first = NoRec
        /\ d.rec_arr[g].next_first = u.rec_arr[g].next_first
    BY <2>1, <2>6 DEF Undo, Link
  <2>8. \A s \in Slot : s \in Live(d, e) <=> s \in Live(u, e) /\ Off(f, s) >= Off(f, g)
    <3> SUFFICES ASSUME NEW s \in Slot
                 PROVE  s \in Live(d, e) <=> s \in Live(u, e) /\ Off(f, s) >= Off(f, g)
      OBVIOUS
    <3>1. /\ Off(f, s) \in Nat /\ Off(f, g) \in Nat /\ Off(g, s) \in Nat
          /\ Size(f, e) \in Nat /\ Size(g, e) \in Nat
      BY <1>1, <2>1, OffRange
    <3>2. /\ Size(g, e) = Size(f, e) - Off(f, g)
          /\ Off(f, s) >= Off(f, g) => Off(g, s) = Off(f, s) - Off(f, g)
          /\ Off(f, s) < Off(f, g) => Off(g, s) >= Size(g, e)
      BY <1>1, <2>1, OffShift
    <3>3. s \in Live(d, e) <=> Off(g, s) < Size(g, e)
      BY <2>3, <2>6 DEF Live
    <3>4. s \in Live(u, e) <=> Off(f, s) < Size(f, e)
      BY <2>1 DEF Live
    <3>5. QED BY <3>1, <3>2, <3>3, <3>4
  <2>9. \A s, t \in Live(d, e) : Before(d, s, t) <=> Before(u, s, t)
    <3> SUFFICES ASSUME NEW s \in Live(d, e), NEW t \in Live(d, e)
                 PROVE  Before(d, s, t) <=> Before(u, s, t)
      OBVIOUS
    <3>1. s \in Slot /\ t \in Slot /\ Off(f, s) >= Off(f, g) /\ Off(f, t) >= Off(f, g)
      BY <2>8 DEF Live
    <3>2. /\ Off(f, s) \in Nat /\ Off(f, t) \in Nat /\ Off(f, g) \in Nat
      BY <1>1, <2>1, <3>1, OffRange
    <3>3. /\ Off(g, s) = Off(f, s) - Off(f, g)
          /\ Off(g, t) = Off(f, t) - Off(f, g)
      BY <1>1, <2>1, <3>1, OffShift
    <3>4. QED BY <2>6, <3>2, <3>3 DEF Before
  <2>10. LiveLinks(d, e) = L \ {f}
    <3>1. ASSUME NEW s \in L, s # f PROVE s \in LiveLinks(d, e)
      <4>1. s \in Slot /\ s \in Live(u, e) /\ u.rec_arr[s].kind = "link"
        BY <3>1, LinksFinite DEF LiveLinks
      <4>2. Off(f, s) >= Off(f, g)
        BY <1>1, <1>3, <2>1, <3>1, <4>1, OffRange DEF Before
      <4>3. s \in Live(d, e) /\ d.rec_arr[s].kind = "link"
        BY <2>7, <2>8, <4>1, <4>2
      <4>4. QED BY <4>3 DEF LiveLinks
    <3>2. ASSUME NEW s \in LiveLinks(d, e) PROVE s \in L /\ s # f
      <4>1. s \in Slot /\ s \in Live(d, e) /\ d.rec_arr[s].kind = "link"
        BY <2>6, LinksFinite DEF LiveLinks
      <4>2. s \in Live(u, e) /\ Off(f, s) >= Off(f, g) /\ u.rec_arr[s].kind = "link"
        BY <2>1, <2>7, <2>8, <4>1
      <4>3. s # f
        BY <1>1, <2>1, <4>2, OffRange
      <4>4. QED BY <4>2, <4>3 DEF LiveLinks
    <3>3. QED BY <3>1, <3>2
  <2>11. d.oldest_first # e
    <3>1. Size(g, e) = Size(f, e) - Off(f, g) /\ Size(f, e) \in 1 .. RecArrSize
      BY <1>1, <2>1, OffShift, OffRange
    <3>2. Off(f, g) \in Nat /\ Size(g, e) # RecArrSize
      BY <1>1, <2>1, <3>1, OffRange, SizeAssumption
    <3>3. Size(e, e) = RecArrSize
      BY SizeAssumption DEF Size, Slot
    <3>4. g # e
      BY <3>2, <3>3
    <3>5. QED BY <2>6, <3>4
  <2>12. Suffix(d, u, e)
    <3>1. Live(d, e) \subseteq Live(u, e) /\ Live(d, e) \subseteq Slot
          /\ Live(u, e) \subseteq Slot
      BY <2>6, <2>8, LinksFinite
    <3>2. ASSUME NEW s \in Live(d, e)
          PROVE  /\ d.rec_arr[s].kind = u.rec_arr[s].kind
                 /\ u.rec_arr[s].kind = "rec" => d.rec_arr[s] = u.rec_arr[s]
      BY <2>1, <2>7, <3>1, <3>2
    <3>3. ASSUME NEW s \in Live(d, e), NEW t \in Live(u, e), Before(u, s, t)
          PROVE  t \in Live(d, e)
      <4>1. Off(f, s) < Off(f, t) /\ Off(f, s) >= Off(f, g)
            /\ s \in Slot /\ t \in Slot
        BY <2>8, <3>1, <3>3 DEF Before
      <4>2. Off(f, t) >= Off(f, g)
        BY <1>1, <2>1, <4>1, OffRange
      <4>3. QED BY <2>8, <3>3, <4>1, <4>2
    <3>4. QED BY <2>6, <2>9, <3>1, <3>2, <3>3 DEF Suffix
  <2>13. \A s \in LiveLinks(d, e) :
           /\ IsNextLink(d, LiveLinks(d, e), s, d.rec_arr[s].next_first)
           /\ IsPrevLink(d, LiveLinks(d, e), s, d.rec_arr[s].prev_first)
           /\ s = d.cur_first <=> d.rec_arr[s].next_first = NoRec
    <3> DEFINE M == L \ {f}
    <3>1. /\ M \subseteq Slot /\ M \subseteq Live(d, e) /\ M = LiveLinks(d, e)
          /\ \A s \in M : s # f /\ s \in L
          /\ f \in L
      BY <1>1, <2>6, <2>10, LinksFinite
    <3>2. \A s, t \in M : Before(d, s, t) <=> Before(u, s, t)
      BY <2>9, <3>1
    <3>3. \A s \in L : ~Before(u, s, f)
      BY <1>1, OffRange, LinksFinite DEF Before
    <3>4. \A s \in L : /\ IsNextLink(u, L, s, u.rec_arr[s].next_first)
                       /\ IsPrevLink(u, L, s, u.rec_arr[s].prev_first)
                       /\ s = u.cur_first <=> u.rec_arr[s].next_first = NoRec
      BY DEF ChainOK
    <3> SUFFICES ASSUME NEW s \in M
                 PROVE  /\ IsNextLink(d, M, s, d.rec_arr[s].next_first)
                        /\ IsPrevLink(d, M, s, d.rec_arr[s].prev_first)
                        /\ s = d.cur_first <=> d.rec_arr[s].next_first = NoRec
      BY <3>1
    <3>5. s \in Slot /\ s \in L /\ d.rec_arr[s].next_first = u.rec_arr[s].next_first
      BY <2>7, <3>1
    <3>6. IsNextLink(d, M, s, d.rec_arr[s].next_first)
      <4>1. {t \in M : Before(d, s, t)} = {t \in L : Before(u, s, t)}
        BY <3>2, <3>3, <3>5
      <4>2. IsNextLink(u, L, s, u.rec_arr[s].next_first)
        BY <3>4, <3>5
      <4>3. CASE u.rec_arr[s].next_first = NoRec
        BY <3>5, <4>1, <4>2, <4>3 DEF IsNextLink
      <4>4. CASE u.rec_arr[s].next_first # NoRec
        <5>1. /\ u.rec_arr[s].next_first \in {t \in M : Before(d, s, t)}
              /\ \A t \in {q \in M : Before(d, s, q)} : ~Before(u, t, u.rec_arr[s].next_first)
          BY <4>1, <4>2, <4>4 DEF IsNextLink
        <5>2. \A t \in {q \in M : Before(d, s, q)} : ~Before(d, t, u.rec_arr[s].next_first)
          BY <3>2, <5>1
        <5>3. QED BY <3>5, <4>4, <5>1, <5>2 DEF IsNextLink
      <4>5. QED BY <4>3, <4>4
    <3>7. IsPrevLink(d, M, s, d.rec_arr[s].prev_first)
      <4>1. CASE s = g
        <5>1. \A t \in M : ~Before(d, t, s)
          BY <1>3, <2>1, <3>1, <3>2, <3>5, <4>1
        <5>2. QED BY <2>7, <4>1, <5>1 DEF IsPrevLink
      <4>2. CASE s # g
        <5> DEFINE p == u.rec_arr[s].prev_first
        <5>1. d.rec_arr[s].prev_first = p
          BY <2>7, <3>5, <4>2
        <5>2. Before(u, g, s)
          <6>1. /\ Off(f, s) \in Nat /\ Off(f, g) \in Nat /\ Off(f, s) # Off(f, g)
            BY <1>1, <2>1, <3>5, <4>2, OffRange, OffInjective
          <6>2. Off(f, s) >= Off(f, g)
            BY <2>8, <3>1, <3>5
          <6>3. QED BY <6>1, <6>2 DEF Before
        <5>3. IsPrevLink(u, L, s, p)
          BY <3>4, <3>5
        <5>4. /\ p # NoRec /\ p \in L /\ Before(u, p, s)
              /\ \A t \in L : Before(u, t, s) => ~Before(u, p, t)
          BY <2>1, <5>2, <5>3 DEF IsPrevLink
        <5>5. p # f /\ p \in M
          BY <1>3, <2>1, <5>2, <5>4
        <5>6. Before(d, p, s) /\ \A t \in M : Before(d, t, s) => ~Before(d, p, t)
          BY <3>1, <3>2, <5>4, <5>5
        <5>7. QED BY <5>1, <5>4, <5>5, <5>6 DEF IsPrevLink
      <4>3. QED BY <4>1, <4>2
    <3>8. s = d.cur_first <=> d.rec_arr[s].next_first = NoRec
      BY <2>6, <3>4, <3>5
    <3>9. QED BY <3>6, <3>7, <3>8
  <2>14. ChainOK(d, e)
    <3>1. d.savept_cnt = Cardinality(LiveLinks(d, e)) /\ d.savept_cnt # 0
      BY <2>3, <2>6, <2>10
    <3>2. d.oldest_first \in LiveLinks(d, e) /\ d.cur_first \in LiveLinks(d, e)
      <4>1. u.cur_first # f
        BY <1>1, <1>5
      <4>2. QED BY <1>1, <2>1, <2>6, <2>10, <4>1
    <3>3. \A s \in Live(d, e) : d.rec_arr[s] # Free
      <4>1. \A s \in Live(d, e) :
              s \in Slot /\ u.rec_arr[s] # Free /\ d.rec_arr[s].kind = u.rec_arr[s].kind
        BY <2>6, <2>12, LinksFinite DEF ChainOK, Suffix
      <4>2. QED BY <2>6, <4>1, SlotKinds
    <3>4. QED BY <2>13, <3>1, <3>2, <3>3 DEF ChainOK
  <2>15. QED BY <2>3, <2>6, <2>11, <2>12, <2>14
<1>6. QED BY <1>4, <1>5

(* Dropping the oldest savepoint of several always makes room, so that the *)
(* retry loop of alloc_rec runs at most once, as AllocFails and WithRoom   *)
(* take for granted.                                                       *)
THEOREM OneDropMakesRoom ==
  ASSUME NEW u \in Undo, ChainOK(u, u.next_free), ~HasRoom(u), ~AllocFails(u)
  PROVE  HasRoom(WithRoom(u))
<1>1. u.savept_cnt \in Nat /\ u.savept_cnt # 0 /\ u.savept_cnt # 1 /\ u.next_free \in Slot
  BY DEF HasRoom, AllocFails, Undo
<1>2. DropOldest(u).oldest_first # u.next_free /\ DropOldest(u).next_free = u.next_free
  BY <1>1, DropOldestOK DEF Suffix
<1>3. QED BY <1>2 DEF WithRoom, HasRoom

(* If the links are the same, and nothing live is free, the chain is good. *)
LEMMA ChainFrame ==
  ASSUME NEW u \in Undo, NEW e \in Slot, ChainOK(u, e),
         NEW v \in Undo, NEW x \in Slot,
         v.oldest_first = u.oldest_first, v.cur_first = u.cur_first,
         v.savept_cnt = u.savept_cnt,
         LiveLinks(v, x) = LiveLinks(u, e),
         \A s \in LiveLinks(u, e) : v.rec_arr[s] = u.rec_arr[s],
         \A s \in Live(v, x) : v.rec_arr[s] # Free
  PROVE  ChainOK(v, x)
<1> DEFINE L == LiveLinks(u, e)
<1>1. \A s, t : Before(v, s, t) <=> Before(u, s, t)
  BY DEF Before
<1>2. \A s, n : IsNextLink(v, L, s, n) <=> IsNextLink(u, L, s, n)
  BY <1>1 DEF IsNextLink
<1>3. \A s, n : IsPrevLink(v, L, s, n) <=> IsPrevLink(u, L, s, n)
  BY <1>1 DEF IsPrevLink
<1>4. \A s \in L : /\ IsNextLink(v, L, s, v.rec_arr[s].next_first)
                   /\ IsPrevLink(v, L, s, v.rec_arr[s].prev_first)
                   /\ s = v.cur_first <=> v.rec_arr[s].next_first = NoRec
  BY <1>2, <1>3 DEF ChainOK
<1>5. QED BY <1>4 DEF ChainOK

(* Taking the free slot, when there is room, adds it at the end and moves  *)
(* no other.                                                               *)
LEMMA TakeSlot ==
  ASSUME NEW u \in Undo, ChainOK(u, u.next_free), HasRoom(u), u.savept_cnt # 0,
         NEW a, a.oldest_first = u.oldest_first, a.next_free = Inc(u.next_free),
         a.savept_cnt # 0
  PROVE  /\ u.next_free \in Slot /\ u.next_free \notin Live(u, u.next_free)
         /\ Live(a, a.next_free) = Live(u, u.next_free) \cup {u.next_free}
         /\ \A s \in Live(u, u.next_free) : /\ Before(u, s, u.next_free)
                                            /\ ~Before(u, u.next_free, s)
         /\ ~Before(u, u.next_free, u.next_free)
<1> DEFINE f == u.oldest_first
           n == u.next_free
<1>1. f \in Slot /\ n \in Slot /\ n # f
  BY ChainEnds DEF Undo, HasRoom
<1>2. Off(f, n) = Size(f, n) /\ Size(f, Inc(n)) = Size(f, n) + 1
  BY <1>1, OffAppend
<1>3. \A s \in Slot : Off(f, s) \in Nat /\ (Off(f, s) = Off(f, n) => s = n)
  BY <1>1, OffRange, OffInjective
<1>4. \A s \in Slot : s \in Live(u, n) <=> Off(f, s) < Off(f, n)
  BY <1>2 DEF Live
<1>5. \A s \in Slot : s \in Live(a, Inc(n)) <=> Off(f, s) < Off(f, n) + 1
  BY <1>2 DEF Live
<1>6. Live(u, n) \subseteq Slot /\ Live(a, Inc(n)) \subseteq Slot
  BY DEF Live
<1>7. Live(a, Inc(n)) = Live(u, n) \cup {n}
  <2>1. \A s \in Slot : Off(f, s) < Off(f, n) + 1 <=> Off(f, s) < Off(f, n) \/ s = n
    BY <1>1, <1>3
  <2>2. QED BY <1>1, <1>4, <1>5, <1>6, <2>1
<1>8. n \notin Live(u, n) /\ ~Before(u, n, n)
  BY <1>1, <1>3, <1>4 DEF Before
<1>9. \A s \in Live(u, n) : Before(u, s, n) /\ ~Before(u, n, s)
  BY <1>1, <1>3, <1>4, <1>6 DEF Before
<1>10. QED BY <1>1, <1>7, <1>8, <1>9

(* A new record goes to the end of the live slots; the chain stays.        *)
LEMMA AddRecOK ==
  ASSUME NEW u \in Undo, ChainOK(u, u.next_free), HasRoom(u), u.savept_cnt # 0,
         NEW r \in Content, r.kind = "rec"
  PROVE  LET a == AddRec(u, r) IN
         /\ a \in Undo /\ ChainOK(a, a.next_free) /\ a.savept_cnt = u.savept_cnt
         /\ Live(a, a.next_free) = Live(u, u.next_free) \cup {u.next_free}
<1> DEFINE a == AddRec(u, r)
           n == u.next_free
<1>1. /\ a.rec_arr = [u.rec_arr EXCEPT ![n] = r] /\ a.cur_first = u.cur_first
      /\ a.oldest_first = u.oldest_first /\ a.next_free = Inc(n)
      /\ a.savept_cnt = u.savept_cnt /\ a.cur_savept = u.cur_savept
  BY DEF AddRec
<1>2. n \in Slot /\ Inc(n) \in Slot
  BY OffRange DEF Undo
<1>3. a \in Undo
  <2>1. [u.rec_arr EXCEPT ![n] = r] \in [Slot -> Content]
    BY <1>2 DEF Undo
  <2>2. QED BY <1>2, <2>1 DEF AddRec, Undo
<1>4. /\ n \notin Live(u, n)
      /\ Live(a, Inc(n)) = Live(u, n) \cup {n}
  BY <1>1, TakeSlot
<1>5. a.rec_arr[n] = r /\ \A s \in Live(u, n) : a.rec_arr[s] = u.rec_arr[s]
  BY <1>1, <1>2, <1>4, LinksFinite DEF Undo
<1>6. LiveLinks(a, Inc(n)) = LiveLinks(u, n)
  BY <1>4, <1>5 DEF LiveLinks
<1>7. \A s \in Live(a, Inc(n)) : a.rec_arr[s] # Free
  BY <1>4, <1>5 DEF ChainOK, Free
<1>8. \A s \in LiveLinks(u, n) : a.rec_arr[s] = u.rec_arr[s]
  BY <1>5 DEF LiveLinks
<1>9. ChainOK(a, Inc(n))
  <2> HIDE DEF a
  <2>1. n \in Slot
    BY <1>2
  <2>2. a.oldest_first = u.oldest_first /\ a.cur_first = u.cur_first
        /\ a.savept_cnt = u.savept_cnt
    BY <1>1
  <2>3. a \in Undo /\ Inc(n) \in Slot
    BY <1>2, <1>3
  <2>4. ChainOK(u, n)
    OBVIOUS
  <2> HIDE DEF n
  <2>5. QED BY <1>6, <1>7, <1>8, <2>1, <2>2, <2>3, <2>4, ChainFrame
<1>10. QED BY <1>1, <1>3, <1>4, <1>9

(* The walk: the slot before the end is the current link or a record, and  *)
(* giving up the record keeps the chain.                                   *)
LEMMA StepBackOK ==
  ASSUME NEW u \in Undo, NEW e \in Slot, ChainOK(u, e), u.savept_cnt # 0,
         Dec(e) # u.cur_first
  PROVE  /\ Dec(e) \in Live(u, e) /\ u.rec_arr[Dec(e)].kind = "rec"
         /\ Live(u, Dec(e)) = Live(u, e) \ {Dec(e)}
         /\ ChainOK(u, Dec(e))
<1> DEFINE f == u.oldest_first
           c == u.cur_first
           x == Dec(e)
           L == LiveLinks(u, e)
<1>1. /\ f \in Slot /\ c \in Slot /\ f \in L /\ c \in L /\ x \in Slot
      /\ u.rec_arr[f].kind = "link"
  BY ChainEnds, OffRange DEF LiveLinks
<1>2. Off(f, x) = Size(f, e) - 1 /\ Size(f, e) \in Nat
      /\ (x # f => Size(f, x) = Size(f, e) - 1)
  <2>1. Off(f, x) = Size(f, e) - 1 /\ (x # f => Size(f, x) = Size(f, e) - 1)
    BY <1>1, OffDec, Zenon
  <2>2. Size(f, e) \in 1 .. RecArrSize
    BY <1>1, OffRange
  <2>3. QED BY <2>1, <2>2, SizeAssumption
<1>3. \A s \in Slot : Off(f, s) \in Nat /\ (Off(f, s) = Off(f, x) => s = x)
  BY <1>1, OffRange, OffInjective
<1>4. x \in Live(u, e)
  <2>1. Off(f, x) < Size(f, e)
    BY <1>2
  <2>2. QED BY <1>1, <2>1 DEF Live
<1>5. x \notin L
  <2> SUFFICES ASSUME x \in L PROVE FALSE
    OBVIOUS
  <2>1. c \in Live(u, e) /\ Off(f, c) < Size(f, e)
    BY <1>1 DEF LiveLinks, Live
  <2>2. Off(f, c) # Off(f, x)
    BY <1>1, <1>3
  <2>3. Before(u, c, x)
    BY <1>1, <1>2, <1>3, <2>1, <2>2 DEF Before
  <2>4. IsNextLink(u, L, c, NoRec)
    BY <1>1 DEF ChainOK
  <2>5. QED BY <2>3, <2>4 DEF IsNextLink
<1>6. u.rec_arr[x].kind = "rec"
  <2>1. u.rec_arr[x].kind # "link"
    BY <1>4, <1>5 DEF LiveLinks
  <2>2. u.rec_arr[x] # Free
    BY <1>4 DEF ChainOK
  <2>3. QED BY <1>1, <2>1, <2>2, SlotKinds
<1>7. x # f
  BY <1>1, <1>6
<1>8. Live(u, x) = Live(u, e) \ {x}
  <2>1. \A s \in Slot : s \in Live(u, e) <=> Off(f, s) < Size(f, e)
    BY DEF Live
  <2>2. \A s \in Slot : s \in Live(u, x) <=> Off(f, s) < Size(f, e) - 1
    BY <1>2, <1>7 DEF Live
  <2>3. \A s \in Slot : Off(f, s) < Size(f, e) - 1 <=> Off(f, s) < Size(f, e) /\ s # x
    BY <1>1, <1>2, <1>3
  <2>4. Live(u, e) \subseteq Slot /\ Live(u, x) \subseteq Slot
    BY DEF Live
  <2>5. QED BY <2>1, <2>2, <2>3, <2>4
<1>9. LiveLinks(u, x) = L
  BY <1>5, <1>8 DEF LiveLinks
<1>10. ChainOK(u, x)
  <2>1. \A s \in Live(u, x) : u.rec_arr[s] # Free
    BY <1>8 DEF ChainOK
  <2> HIDE DEF x
  <2>2. QED BY <1>1, <1>9, <2>1, ChainFrame
<1>11. QED BY <1>4, <1>6, <1>8, <1>10

(* Erasing owners leaves every slot what it was but for the owner.         *)
LEMMA EraseOwnersOK ==
  ASSUME NEW u \in Undo, ChainOK(u, u.next_free), NEW D \in SUBSET Obj
  PROVE  LET v == EraseOwners(u, D) IN
         /\ v \in Undo /\ ChainOK(v, v.next_free)
         /\ v.savept_cnt = u.savept_cnt /\ v.next_free = u.next_free
         /\ Live(v, v.next_free) = Live(u, u.next_free)
<1> DEFINE v == EraseOwners(u, D)
           n == u.next_free
<1>1. /\ v.cur_first = u.cur_first /\ v.oldest_first = u.oldest_first
      /\ v.next_free = n /\ v.savept_cnt = u.savept_cnt /\ v.cur_savept = u.cur_savept
  BY DEF EraseOwners
<1>2. \A s \in Slot : v.rec_arr[s] =
        IF s \in Live(u, n) /\ u.rec_arr[s].kind = "rec" /\ u.rec_arr[s].obj \in D
        THEN Rec(InvalidObj, u.rec_arr[s].prop, u.rec_arr[s].oldval)
        ELSE u.rec_arr[s]
  BY DEF EraseOwners
<1>3. ASSUME NEW s \in Slot, u.rec_arr[s].kind = "rec"
      PROVE  Rec(InvalidObj, u.rec_arr[s].prop, u.rec_arr[s].oldval) \in Content
  <2>1. u.rec_arr[s] \in Content
    BY DEF Undo
  <2>2. CASE u.rec_arr[s].prop = InvalidProp
    <3>1. u.rec_arr[s].oldval = Unmod
      BY <1>3, <2>1, <2>2, ObjAssumption DEF Content, Free
    <3>2. QED BY <2>2, <3>1 DEF Content, Rec
  <2>3. CASE u.rec_arr[s].prop # InvalidProp
    <3>1. u.rec_arr[s].prop \in Prop /\ u.rec_arr[s].oldval \in RefVal
      BY <1>3, <2>1, <2>3 DEF Content, Free
    <3>2. QED BY <3>1 DEF Content, Rec
  <2>4. QED BY <2>2, <2>3
<1>4. v.rec_arr \in [Slot -> Content]
  <2>1. \A s \in Slot : v.rec_arr[s] \in Content
    BY <1>2, <1>3 DEF Undo
  <2>2. v.rec_arr = [s \in Slot |-> v.rec_arr[s]]
    BY DEF EraseOwners
  <2>3. QED BY <2>1, <2>2
<1>5. v \in Undo
  <2>1. u.cur_first \in SlotOrNone /\ u.oldest_first \in SlotOrNone /\ u.next_free \in Slot
        /\ u.savept_cnt \in Nat /\ u.cur_savept \in 0 .. SaveptMax
    BY DEF Undo
  <2>2. QED BY <1>4, <2>1 DEF EraseOwners, Undo
<1>6. Live(v, n) = Live(u, n) /\ n \in Slot /\ Live(u, n) \subseteq Slot
  BY <1>1 DEF Live, Undo
<1>7. \A s \in Slot : /\ v.rec_arr[s].kind = u.rec_arr[s].kind
                      /\ u.rec_arr[s].kind = "link" => v.rec_arr[s] = u.rec_arr[s]
  <2> HIDE DEF v
  <2>1. \A p, w : Rec(InvalidObj, p, w).kind = "rec"
    BY DEF Rec
  <2>2. QED BY <1>2, <2>1
<1>8. LiveLinks(v, n) = LiveLinks(u, n)
  BY <1>6, <1>7 DEF LiveLinks
<1>9. \A s \in LiveLinks(u, n) : v.rec_arr[s] = u.rec_arr[s]
  BY <1>6, <1>7 DEF LiveLinks
<1>10. \A s \in Live(v, n) : v.rec_arr[s] # Free
  BY <1>5, <1>6, <1>7, SlotKinds DEF ChainOK
<1>11. ChainOK(v, n)
  <2>1. ChainOK(u, n)
    OBVIOUS
  <2> HIDE DEF v, n
  <2>2. QED BY <1>1, <1>5, <1>6, <1>8, <1>9, <1>10, <2>1, ChainFrame
<1>12. QED BY <1>1, <1>5, <1>6, <1>11

(* A new link goes to the end of the slots, behind the current one.        *)
LEMMA AddLinkOK ==
  ASSUME NEW u \in Undo, ChainOK(u, u.next_free), HasRoom(u)
  PROVE  LET a == AddLink(u) IN
         /\ a \in Undo /\ ChainOK(a, a.next_free)
         /\ a.savept_cnt = u.savept_cnt + 1
         /\ a.cur_first = u.next_free
<1> DEFINE a == AddLink(u)
           n == u.next_free
           c == u.cur_first
           L == LiveLinks(u, n)
           fwd == IF c = NoRec THEN u.rec_arr ELSE SetNext(u.rec_arr, c, n)
<1>1. /\ a.rec_arr = [fwd EXCEPT ![n] = Link(c, NoRec)]
      /\ a.cur_first = n
      /\ a.oldest_first = IF u.oldest_first = NoRec THEN n ELSE u.oldest_first
      /\ a.next_free = Inc(n)
      /\ a.savept_cnt = u.savept_cnt + 1
      /\ a.cur_savept = IF u.cur_savept = SaveptMax THEN 0 ELSE u.cur_savept + 1
  BY DEF AddLink
<1>2. n \in Slot /\ Inc(n) \in Slot /\ c \in SlotOrNone /\ u.savept_cnt \in Nat
      /\ NoRec \notin Slot /\ NoRec \in SlotOrNone /\ n \in SlotOrNone
  BY OffRange DEF Undo, SlotOrNone, Slot, NoRec
<1>3. fwd \in [Slot -> Content]
  <2>1. CASE c = NoRec
    BY <2>1 DEF Undo
  <2>2. CASE c # NoRec
    <3>1. c \in Slot /\ u.rec_arr[c].kind = "link"
      BY <1>2, <2>2, ChainEnds DEF LiveLinks
    <3>2. Link(u.rec_arr[c].prev_first, n) \in Content
      BY <1>2, <3>1, SlotKinds DEF Content, Link
    <3>3. SetNext(u.rec_arr, c, n) \in [Slot -> Content]
      BY <3>1, <3>2 DEF SetNext, Undo
    <3>4. QED BY <2>2, <3>3
  <2>3. QED BY <2>1, <2>2
<1>4. a \in Undo
  <2>1. Link(c, NoRec) \in Content
    BY <1>2 DEF Content, Link
  <2>2. a.rec_arr \in [Slot -> Content]
    BY <1>1, <1>2, <1>3, <2>1
  <2>3. a.cur_savept \in 0 .. SaveptMax /\ a.oldest_first \in SlotOrNone
    BY <1>1, <1>2, SizeAssumption DEF Undo
  <2>4. a.savept_cnt \in Nat
    BY <1>1, <1>2
  <2>5. QED BY <1>1, <1>2, <2>2, <2>3, <2>4 DEF Undo, AddLink
<1>5. /\ a.rec_arr[n] = Link(c, NoRec)
      /\ c # NoRec /\ c # n => a.rec_arr[c] = Link(u.rec_arr[c].prev_first, n)
      /\ \A s \in Slot : s # n /\ s # c => a.rec_arr[s] = u.rec_arr[s]
  <2>1. \A s \in Slot : s # n => a.rec_arr[s] = fwd[s]
    BY <1>1, <1>2, <1>3
  <2>2. a.rec_arr[n] = Link(c, NoRec)
    BY <1>1, <1>2, <1>3
  <2>3. c # NoRec => fwd[c] = Link(u.rec_arr[c].prev_first, n)
    BY <1>2 DEF SetNext, SlotOrNone, Undo
  <2>4. \A s \in Slot : s # c => fwd[s] = u.rec_arr[s]
    BY DEF SetNext, Undo
  <2>5. c # NoRec => c \in Slot
    BY <1>2 DEF SlotOrNone
  <2>6. QED BY <2>1, <2>2, <2>3, <2>4, <2>5
<1>6. CASE u.savept_cnt = 0
  <2>1. c = NoRec /\ u.oldest_first = NoRec
    BY <1>2, <1>6, ChainEnds
  <2>2. a.oldest_first = n /\ a.savept_cnt = 1
    BY <1>1, <1>6, <2>1
  <2>3. Live(a, Inc(n)) = {n}
    <3>1. \A s \in Slot : Off(n, s) < 1 <=> s = n
      BY <1>2, OffRange
    <3>2. Size(n, Inc(n)) = 1
      BY <1>2, OffFirst
    <3>3. QED BY <1>2, <2>2, <3>1, <3>2 DEF Live
  <2>4. LiveLinks(a, Inc(n)) = {n}
    BY <1>5, <2>3 DEF LiveLinks, Link
  <2>5. Cardinality({n}) = 1
    BY FS_Singleton
  <2>6. ~Before(a, n, n)
    BY <1>2, <2>2, OffRange DEF Before
  <2>7. a.rec_arr[n].next_first = NoRec /\ a.rec_arr[n].prev_first = NoRec
        /\ a.rec_arr[n] # Free
    BY <1>5, <2>1 DEF Link, Free
  <2>8. IsNextLink(a, {n}, n, NoRec) /\ IsPrevLink(a, {n}, n, NoRec)
    BY <2>6 DEF IsNextLink, IsPrevLink
  <2>9. ChainOK(a, Inc(n))
    <3> HIDE DEF a, n
    <3>1. QED BY <1>1, <2>2, <2>3, <2>4, <2>5, <2>7, <2>8 DEF ChainOK
  <2>10. QED BY <1>1, <1>4, <2>9
<1>7. CASE u.savept_cnt # 0
  <2>1. /\ c \in L /\ c \in Slot /\ c # NoRec /\ c \in Live(u, n) /\ u.rec_arr[c].kind = "link"
        /\ u.oldest_first \in L /\ u.oldest_first \in Slot /\ u.oldest_first # NoRec
    BY <1>2, <1>7, ChainEnds DEF LiveLinks
  <2>2. a.oldest_first = u.oldest_first /\ a.savept_cnt # 0
    BY <1>1, <1>2, <2>1
  <2>3. /\ n \notin Live(u, n)
        /\ Live(a, Inc(n)) = Live(u, n) \cup {n}
        /\ \A s \in Live(u, n) : Before(u, s, n) /\ ~Before(u, n, s)
        /\ ~Before(u, n, n)
    BY <1>1, <1>7, <2>2, TakeSlot
  <2>4. c # n /\ n \notin L /\ L \subseteq Live(u, n) /\ Live(u, n) \subseteq Slot
    BY <2>1, <2>3 DEF LiveLinks, Live
  <2>5. \A s, t : Before(a, s, t) <=> Before(u, s, t)
    BY <2>2 DEF Before
  <2>6. \A s \in L : /\ a.rec_arr[s].kind = "link"
                     /\ a.rec_arr[s].prev_first = u.rec_arr[s].prev_first
                     /\ s # c => a.rec_arr[s].next_first = u.rec_arr[s].next_first
    <3>1. a.rec_arr[c].kind = "link" /\ a.rec_arr[c].prev_first = u.rec_arr[c].prev_first
      BY <1>5, <2>1, <2>4 DEF Link
    <3>2. \A s \in L : u.rec_arr[s].kind = "link" /\ s \in Slot /\ s # n
      BY <2>4 DEF LiveLinks
    <3>3. \A s \in L : s # c => a.rec_arr[s] = u.rec_arr[s]
      BY <1>5, <3>2
    <3>4. QED BY <3>1, <3>2, <3>3
  <2>7. /\ a.rec_arr[n].kind = "link" /\ a.rec_arr[n].prev_first = c
        /\ a.rec_arr[n].next_first = NoRec /\ a.rec_arr[c].next_first = n
    BY <1>5, <2>1, <2>4 DEF Link
  <2>8. LiveLinks(a, Inc(n)) = L \cup {n}
    <3>1. \A s \in Live(u, n) : a.rec_arr[s].kind = "link" <=> u.rec_arr[s].kind = "link"
      <4>1. \A s \in Live(u, n) : s # c => a.rec_arr[s] = u.rec_arr[s]
        BY <1>5, <2>3, <2>4
      <4>2. QED BY <2>1, <2>6, <4>1
    <3> HIDE DEF a
    <3>2. QED BY <2>3, <2>7, <3>1 DEF LiveLinks
  <2>9. a.savept_cnt = Cardinality(L \cup {n})
    <3>1. IsFiniteSet(L) /\ u.savept_cnt = Cardinality(L)
      BY <1>2, LinksFinite DEF ChainOK
    <3>2. Cardinality(L \cup {n}) = Cardinality(L) + 1
      BY <2>4, <3>1, FS_AddElement
    <3>3. QED BY <1>1, <3>1, <3>2
  <2>10. \A s \in L : /\ IsNextLink(u, L, s, u.rec_arr[s].next_first)
                      /\ IsPrevLink(u, L, s, u.rec_arr[s].prev_first)
                      /\ s = c <=> u.rec_arr[s].next_first = NoRec
    BY DEF ChainOK
  <2>11. \A s \in L : IsNextLink(a, L \cup {n}, s, a.rec_arr[s].next_first)
    <3> SUFFICES ASSUME NEW s \in L
                 PROVE  IsNextLink(a, L \cup {n}, s, a.rec_arr[s].next_first)
      OBVIOUS
    <3>1. s \in Live(u, n) /\ Before(u, s, n)
      BY <2>3, <2>4
    <3>2. CASE s = c
      <4>1. \A t \in L : ~Before(u, s, t)
        BY <2>10, <3>2 DEF IsNextLink
      <4>2. {t \in L \cup {n} : Before(a, s, t)} = {n}
        BY <2>5, <3>1, <4>1
      <4>3. n # NoRec /\ ~Before(a, n, n)
        BY <1>2, <2>3, <2>5
      <4>4. QED BY <2>7, <3>2, <4>2, <4>3 DEF IsNextLink
    <3>3. CASE s # c
      <4> DEFINE x == u.rec_arr[s].next_first
      <4>1. a.rec_arr[s].next_first = x /\ x # NoRec
        BY <2>6, <2>10, <3>3
      <4>2. x \in L /\ Before(u, s, x) /\ \A t \in L : Before(u, s, t) => ~Before(u, t, x)
        BY <2>10, <4>1 DEF IsNextLink
      <4>3. ~Before(u, n, x)
        BY <2>3, <2>4, <4>2
      <4>4. QED BY <2>5, <4>1, <4>2, <4>3 DEF IsNextLink
    <3>4. QED BY <3>2, <3>3
  <2>12. \A s \in L : IsPrevLink(a, L \cup {n}, s, a.rec_arr[s].prev_first)
    <3> SUFFICES ASSUME NEW s \in L
                 PROVE  IsPrevLink(a, L \cup {n}, s, a.rec_arr[s].prev_first)
      OBVIOUS
    <3>1. {t \in L \cup {n} : Before(a, t, s)} = {t \in L : Before(u, t, s)}
      BY <2>3, <2>4, <2>5
    <3>2. \A t, x : Before(a, x, t) <=> Before(u, x, t)
      BY <2>5
    <3>3. IsPrevLink(u, L, s, u.rec_arr[s].prev_first)
      BY <2>10
    <3>4. a.rec_arr[s].prev_first = u.rec_arr[s].prev_first
      BY <2>6
    <3> HIDE DEF a, L
    <3>5. QED BY <3>1, <3>2, <3>3, <3>4 DEF IsPrevLink
  <2>13. IsNextLink(a, L \cup {n}, n, NoRec)
    BY <2>3, <2>4, <2>5 DEF IsNextLink
  <2>14. IsPrevLink(a, L \cup {n}, n, c)
    <3>1. \A t \in L : ~Before(u, c, t)
      BY <2>1, <2>10 DEF IsNextLink
    <3>2. {t \in L \cup {n} : Before(a, t, n)} = L
      BY <2>3, <2>4, <2>5
    <3>3. QED BY <2>1, <2>5, <3>1, <3>2 DEF IsPrevLink
  <2>15. \A s \in L : a.rec_arr[s].next_first # NoRec
    BY <1>2, <2>6, <2>7, <2>10
  <2>16. \A s \in Live(a, Inc(n)) : a.rec_arr[s] # Free
    <3>1. \A s \in Live(u, n) : s # c => a.rec_arr[s] = u.rec_arr[s]
      BY <1>5, <2>3, <2>4
    <3>2. QED BY <2>1, <2>3, <2>6, <2>7, <3>1 DEF ChainOK, Free
  <2>17. ChainOK(a, Inc(n))
    <3> HIDE DEF a, n, c, L
    <3>1. a.oldest_first \in L \cup {n} /\ a.cur_first \in L \cup {n} /\ a.cur_first = n
      BY <1>1, <2>1, <2>2
    <3>2. QED BY <2>2, <2>4, <2>7, <2>8, <2>9, <2>11, <2>12, <2>13, <2>14, <2>15, <2>16, <3>1
          DEF ChainOK
  <2>18. QED BY <1>1, <1>4, <2>17
<1>8. QED BY <1>6, <1>7

(* Popping the current savepoint, when the walk has come back to its link, *)
(* gives up that link and leaves the chain before it.                      *)
LEMMA PopSaveptOK ==
  ASSUME NEW u \in Undo, NEW e \in Slot, ChainOK(u, e), u.savept_cnt # 0,
         Dec(e) = u.cur_first
  PROVE  LET d == PopSavept(u) IN
         /\ d \in Undo /\ ChainOK(d, d.next_free)
         /\ d.savept_cnt = u.savept_cnt - 1
<1> DEFINE d == PopSavept(u)
           c == u.cur_first
           p == u.rec_arr[c].prev_first
           f == u.oldest_first
           L == LiveLinks(u, e)
<1>1. /\ c \in L /\ c \in Slot /\ u.rec_arr[c].kind = "link" /\ p \in SlotOrNone
      /\ f \in L /\ f \in Slot
      /\ IsPrevLink(u, L, c, p) /\ IsNextLink(u, L, c, NoRec)
      /\ u.savept_cnt = Cardinality(L) /\ IsFiniteSet(L)
  <2>1. c \in L /\ c \in Slot /\ f \in L /\ f \in Slot /\ u.rec_arr[c].kind = "link"
    BY ChainEnds DEF LiveLinks
  <2>2. p \in SlotOrNone
    BY <2>1, SlotKinds
  <2>3. IsPrevLink(u, L, c, p) /\ IsNextLink(u, L, c, NoRec) /\ u.savept_cnt = Cardinality(L)
    BY <2>1 DEF ChainOK
  <2>4. QED BY <2>1, <2>2, <2>3, LinksFinite
<1>2. /\ d.rec_arr = IF p = NoRec THEN u.rec_arr ELSE SetNext(u.rec_arr, p, NoRec)
      /\ d.cur_first = p
      /\ d.oldest_first = IF p = NoRec THEN NoRec ELSE f
      /\ d.next_free = c
      /\ d.savept_cnt = u.savept_cnt - 1
  BY DEF PopSavept
<1>3. d.cur_savept \in 0 .. SaveptMax
  <2>1. (u.cur_savept - 1) % (SaveptMax + 1) \in 0 .. SaveptMax
    <3>1. SaveptMax + 1 \in Nat \ {0} /\ u.cur_savept - 1 \in Int /\ SaveptMax \in Nat
      BY SizeAssumption DEF Undo
    <3>2. QED BY <3>1
  <2>2. QED BY <2>1, SizeAssumption DEF PopSavept
<1>4. u.savept_cnt - 1 \in Nat
  BY DEF Undo
<1>5. NoRec \notin Slot /\ NoRec \in SlotOrNone
  BY DEF Slot, NoRec, SlotOrNone
<1>6. \A s \in L : /\ IsNextLink(u, L, s, u.rec_arr[s].next_first)
                   /\ IsPrevLink(u, L, s, u.rec_arr[s].prev_first)
                   /\ s = c <=> u.rec_arr[s].next_first = NoRec
  BY DEF ChainOK
<1>7. L \subseteq Slot
  BY LinksFinite
<1>8. \A s, t \in L : s # t => Before(u, s, t) \/ Before(u, t, s)
  <2>1. \A s, t \in L : Off(f, s) \in Nat /\ Off(f, t) \in Nat /\ (Off(f, s) = Off(f, t) => s = t)
    BY <1>1, <1>7, OffRange, OffInjective
  <2>2. QED BY <2>1 DEF Before
<1>9. \A s \in L : s # c => Before(u, s, c)
  BY <1>1, <1>8 DEF IsNextLink
<1>10. CASE p = NoRec
  <2>1. L = {c}
    BY <1>1, <1>9, <1>10 DEF IsPrevLink
  <2>2. u.savept_cnt = 1 /\ d.savept_cnt = 0
    BY <1>1, <1>2, <2>1, FS_Singleton
  <2>3. d \in Undo
    BY <1>1, <1>2, <1>3, <1>5, <1>10, <2>2 DEF Undo, PopSavept
  <2>4. Live(d, c) = {} /\ LiveLinks(d, c) = {}
    BY <2>2 DEF Live, LiveLinks
  <2>5. ChainOK(d, c)
    <3> HIDE DEF d, c
    <3>1. QED BY <1>2, <1>10, <2>2, <2>4, FS_EmptySet DEF ChainOK
  <2>6. QED BY <1>2, <2>3, <2>5
<1>11. CASE p # NoRec
  <2>1. /\ p \in L /\ p \in Slot /\ p # c /\ Before(u, p, c)
        /\ \A t \in L : Before(u, t, c) => ~Before(u, p, t)
        /\ u.rec_arr[p].kind = "link"
    <3>1. /\ p \in L /\ Before(u, p, c)
          /\ \A t \in L : Before(u, t, c) => ~Before(u, p, t)
      BY <1>1, <1>11 DEF IsPrevLink
    <3>2. p # c
      BY <1>1, <3>1, OffRange DEF Before
    <3>3. QED BY <1>7, <3>1, <3>2 DEF LiveLinks
  <2>2. /\ d.rec_arr[p] = Link(u.rec_arr[p].prev_first, NoRec)
        /\ \A s \in Slot : s # p => d.rec_arr[s] = u.rec_arr[s]
        /\ d.rec_arr \in [Slot -> Content]
    <3>1. Link(u.rec_arr[p].prev_first, NoRec) \in Content
      BY <1>5, <2>1, SlotKinds DEF Content, Link
    <3>2. d.rec_arr = [u.rec_arr EXCEPT ![p] = Link(u.rec_arr[p].prev_first, NoRec)]
      BY <1>2, <1>11 DEF SetNext
    <3>3. QED BY <2>1, <3>1, <3>2 DEF Undo
  <2>3. d \in Undo /\ d.oldest_first = f
    <3>1. c \in Slot /\ p \in SlotOrNone /\ f \in SlotOrNone /\ d.oldest_first = f
      BY <1>1, <1>2, <1>11 DEF SlotOrNone
    <3>2. d = [rec_arr |-> d.rec_arr, cur_first |-> d.cur_first,
               oldest_first |-> d.oldest_first, next_free |-> d.next_free,
               savept_cnt |-> d.savept_cnt, cur_savept |-> d.cur_savept]
      BY DEF PopSavept
    <3> HIDE DEF d
    <3>3. QED BY <1>2, <1>3, <1>4, <2>2, <3>1, <3>2 DEF Undo
  <2>4. IsFiniteSet(L \ {c}) /\ d.savept_cnt = Cardinality(L \ {c}) /\ d.savept_cnt # 0
    <3>1. IsFiniteSet(L \ {c}) /\ Cardinality(L \ {c}) = Cardinality(L) - 1
      BY <1>1, FS_RemoveElement
    <3>2. Cardinality(L \ {c}) # 0
      BY <2>1, <3>1, FS_EmptySet
    <3>3. QED BY <1>1, <1>2, <3>1, <3>2
  <2>5. Live(d, c) = Live(u, e) \ {c}
    <3>1. Off(f, c) = Size(f, e) - 1 /\ (c # f => Size(f, c) = Size(f, e) - 1)
      BY <1>1, OffDec, Zenon
    <3>2. c # f
      BY <1>1, <2>1, OffRange DEF Before
    <3>3. \A s \in Slot : Off(f, s) \in Nat /\ (Off(f, s) = Off(f, c) => s = c)
      BY <1>1, OffRange, OffInjective
    <3>4. Size(f, e) \in 1 .. RecArrSize
      BY <1>1, OffRange
    <3>5. \A s \in Slot : s \in Live(u, e) <=> Off(f, s) < Size(f, e)
      BY DEF Live
    <3>6. \A s \in Slot : s \in Live(d, c) <=> Off(f, s) < Size(f, e) - 1
      BY <2>3, <2>4, <3>1, <3>2 DEF Live
    <3>7. \A s \in Slot : Off(f, s) < Size(f, e) - 1 <=> Off(f, s) < Size(f, e) /\ s # c
      BY <1>1, <3>1, <3>3, <3>4, SizeAssumption
    <3>8. Live(u, e) \subseteq Slot /\ Live(d, c) \subseteq Slot
      BY DEF Live
    <3>9. QED BY <3>5, <3>6, <3>7, <3>8
  <2>6. \A s \in Slot :
          /\ d.rec_arr[s].kind = u.rec_arr[s].kind
          /\ u.rec_arr[s].kind = "link" => d.rec_arr[s].prev_first = u.rec_arr[s].prev_first
          /\ s # p => d.rec_arr[s].next_first = u.rec_arr[s].next_first
    BY <2>1, <2>2 DEF Link
  <2>7. LiveLinks(d, c) = L \ {c}
    <3> HIDE DEF d, c
    <3>1. Live(u, e) \subseteq Slot
      BY DEF Live
    <3>2. QED BY <2>5, <2>6, <3>1 DEF LiveLinks
  <2>8. \A s, t : Before(d, s, t) <=> Before(u, s, t)
    BY <2>3 DEF Before
  <2> DEFINE M == L \ {c}
  <2>9. \A s \in M : IsNextLink(d, M, s, d.rec_arr[s].next_first)
    <3> SUFFICES ASSUME NEW s \in M
                 PROVE  IsNextLink(d, M, s, d.rec_arr[s].next_first)
      OBVIOUS
    <3>1. s \in L /\ s # c /\ s \in Slot /\ Before(u, s, c)
      BY <1>7, <1>9
    <3>2. CASE s = p
      <4>1. \A t \in M : ~Before(d, p, t)
        BY <1>9, <2>1, <2>8
      <4>2. d.rec_arr[s].next_first = NoRec
        BY <2>2, <3>2 DEF Link
      <4>3. QED BY <3>2, <4>1, <4>2 DEF IsNextLink
    <3>3. CASE s # p
      <4> DEFINE x == u.rec_arr[s].next_first
      <4>1. d.rec_arr[s].next_first = x /\ x # NoRec
        BY <1>6, <2>6, <3>1, <3>3
      <4>2. x \in L /\ Before(u, s, x) /\ \A t \in L : Before(u, s, t) => ~Before(u, t, x)
        BY <1>6, <3>1, <4>1 DEF IsNextLink
      <4>3. Before(u, s, p)
        BY <1>8, <2>1, <3>1, <3>3
      <4>4. x # c
        BY <2>1, <4>2, <4>3
      <4>5. QED BY <2>8, <4>1, <4>2, <4>4 DEF IsNextLink
    <3>4. QED BY <3>2, <3>3
  <2>10. \A s \in M : IsPrevLink(d, M, s, d.rec_arr[s].prev_first)
    <3> SUFFICES ASSUME NEW s \in M
                 PROVE  IsPrevLink(d, M, s, d.rec_arr[s].prev_first)
      OBVIOUS
    <3>1. s \in L /\ s \in Slot /\ ~Before(u, c, s) /\ u.rec_arr[s].kind = "link"
      BY <1>1, <1>7 DEF IsNextLink, LiveLinks
    <3>2. {t \in M : Before(d, t, s)} = {t \in L : Before(u, t, s)}
      BY <2>8, <3>1
    <3>3. IsPrevLink(u, L, s, u.rec_arr[s].prev_first)
      BY <1>6, <3>1
    <3>4. d.rec_arr[s].prev_first = u.rec_arr[s].prev_first
      BY <2>6, <3>1
    <3> HIDE DEF d, L, M
    <3>5. QED BY <2>8, <3>2, <3>3, <3>4 DEF IsPrevLink
  <2>11. \A s \in M : s = p <=> d.rec_arr[s].next_first = NoRec
    BY <1>6, <1>7, <2>1, <2>2, <2>6 DEF Link
  <2>12. \A s \in Live(d, c) : d.rec_arr[s] # Free
    <3>1. \A s \in Live(d, c) : s \in Slot /\ u.rec_arr[s] # Free
      BY <2>5 DEF ChainOK, Live
    <3>2. QED BY <2>3, <2>6, <3>1, SlotKinds
  <2>13. ChainOK(d, c)
    <3>1. c # f /\ f \in M /\ p \in M
      BY <1>1, <2>1, OffRange DEF Before
    <3> HIDE DEF d, c, p, f, L
    <3>2. QED BY <1>2, <2>3, <2>4, <2>7, <2>9, <2>10, <2>11, <2>12, <3>1 DEF ChainOK
  <2>14. QED BY <1>2, <2>3, <2>13
<1>12. QED BY <1>10, <1>11

(* Dropping the oldest savepoint, from the point of view of the callers.   *)
LEMMA DropSound ==
  ASSUME NEW u \in Undo, ChainOK(u, u.next_free), u.savept_cnt # 0
  PROVE  LET d == DropOldest(u) IN
         /\ d \in Undo /\ ChainOK(d, d.next_free)
         /\ d.savept_cnt = u.savept_cnt - 1
         /\ d.savept_cnt # 0 => d.cur_first = u.cur_first
<1>1. u.next_free \in Slot
  BY DEF Undo
<1>2. QED BY <1>1, DropOldestOK DEF Suffix

(* create_savept and add_new_record keep the chain and the limit.          *)
GoodUndo(u) == u \in Undo /\ ChainOK(u, u.next_free) /\ u.savept_cnt <= MaxSavepts

LEMMA WithRoomOK ==
  ASSUME NEW u, GoodUndo(u), ~AllocFails(u)
  PROVE  /\ GoodUndo(WithRoom(u)) /\ HasRoom(WithRoom(u))
         /\ u.savept_cnt # 0 => WithRoom(u).savept_cnt # 0
<1>1. CASE HasRoom(u)
  BY <1>1 DEF WithRoom
<1>2. CASE ~HasRoom(u)
  <2>1. u.savept_cnt \in Nat /\ u.savept_cnt # 0 /\ ~(u.savept_cnt <= 1)
        /\ u \in Undo /\ ChainOK(u, u.next_free) /\ u.savept_cnt <= MaxSavepts
    BY <1>2 DEF HasRoom, AllocFails, Undo, GoodUndo
  <2>2. WithRoom(u) = DropOldest(u)
    BY <1>2 DEF WithRoom
  <2>3. HasRoom(WithRoom(u))
    BY <1>2, <2>1, OneDropMakesRoom
  <2>4. /\ DropOldest(u) \in Undo /\ ChainOK(DropOldest(u), DropOldest(u).next_free)
        /\ DropOldest(u).savept_cnt = u.savept_cnt - 1
    BY <2>1, DropSound
  <2>5. u.savept_cnt - 1 <= MaxSavepts /\ u.savept_cnt - 1 # 0
    BY <2>1, SizeAssumption
  <2>6. QED BY <2>2, <2>3, <2>4, <2>5 DEF GoodUndo
<1>3. QED BY <1>1, <1>2

LEMMA CreateSaveptOK ==
  ASSUME NEW u, GoodUndo(u)
  PROVE  /\ GoodUndo(CreateSavept(u))
         /\ ~AllocFails(u) => CreateSavept(u).cur_first \in Slot
<1>1. CASE AllocFails(u)
  <2>1. u.savept_cnt \in Nat /\ u.savept_cnt # 0 /\ u \in Undo /\ ChainOK(u, u.next_free)
        /\ u.savept_cnt <= MaxSavepts
    BY <1>1 DEF HasRoom, AllocFails, Undo, GoodUndo
  <2>2. u.savept_cnt - 1 <= MaxSavepts
    BY <2>1, SizeAssumption
  <2>3. GoodUndo(DropOldest(u))
    BY <2>1, <2>2, DropSound DEF GoodUndo
  <2>4. QED BY <1>1, <2>3 DEF CreateSavept
<1>2. CASE ~AllocFails(u)
  <2> DEFINE a == WithRoom(u)
             b == AddLink(a)
             d == DropOldest(b)
  <2>1. GoodUndo(a) /\ HasRoom(a) /\ a.savept_cnt \in Nat /\ a.savept_cnt <= MaxSavepts
    BY <1>2, WithRoomOK DEF GoodUndo, Undo
  <2>2. /\ b \in Undo /\ ChainOK(b, b.next_free) /\ b.savept_cnt = a.savept_cnt + 1
        /\ b.cur_first \in Slot
    BY <2>1, AddLinkOK DEF GoodUndo, Undo
  <2>3. CASE a.savept_cnt = MaxSavepts
    <3>1. b.savept_cnt # 0 /\ b.savept_cnt - 1 = MaxSavepts /\ MaxSavepts # 0
      BY <2>1, <2>2, <2>3, SizeAssumption
    <3>2. /\ d \in Undo /\ ChainOK(d, d.next_free) /\ d.savept_cnt = MaxSavepts
          /\ d.cur_first = b.cur_first
      BY <2>2, <3>1, DropSound
    <3>3. MaxSavepts <= MaxSavepts
      BY SizeAssumption
    <3>4. CreateSavept(u) = d
      BY <1>2, <2>3 DEF CreateSavept
    <3>5. QED BY <2>2, <3>2, <3>3, <3>4 DEF GoodUndo
  <2>4. CASE a.savept_cnt # MaxSavepts
    <3>1. b.savept_cnt <= MaxSavepts
      BY <2>1, <2>2, <2>4, SizeAssumption
    <3>2. CreateSavept(u) = b
      BY <1>2, <2>4 DEF CreateSavept
    <3>3. QED BY <2>2, <3>1, <3>2 DEF GoodUndo
  <2>5. QED BY <2>3, <2>4
<1>3. QED BY <1>1, <1>2

LEMMA AddRecordOK ==
  ASSUME NEW u, GoodUndo(u), NEW o, NEW p, NEW old, Rec(o, p, old) \in Content
  PROVE  GoodUndo(AddRecord(u, o, p, old))
<1>1. CASE u.savept_cnt = 0 \/ ~InUndo(o)
  BY <1>1 DEF AddRecord
<1>2. CASE ~(u.savept_cnt = 0 \/ ~InUndo(o)) /\ AllocFails(u)
  <2>1. u.savept_cnt \in Nat /\ u.savept_cnt # 0 /\ u \in Undo /\ ChainOK(u, u.next_free)
        /\ u.savept_cnt <= MaxSavepts
    BY <1>2 DEF Undo, GoodUndo
  <2>2. u.savept_cnt - 1 <= MaxSavepts
    BY <2>1, SizeAssumption
  <2>3. GoodUndo(DropOldest(u))
    BY <2>1, <2>2, DropSound DEF GoodUndo
  <2>4. QED BY <1>2, <2>3 DEF AddRecord
<1>3. CASE ~(u.savept_cnt = 0 \/ ~InUndo(o)) /\ ~AllocFails(u)
  <2> DEFINE a == WithRoom(u)
             r == Rec(o, p, old)
  <2>1. GoodUndo(a) /\ HasRoom(a) /\ a.savept_cnt # 0
    BY <1>3, WithRoomOK
  <2>2. r.kind = "rec" /\ r \in Content
    BY DEF Rec
  <2> HIDE DEF r
  <2>3. GoodUndo(AddRec(a, r))
    BY <2>1, <2>2, AddRecOK DEF GoodUndo
  <2>4. AddRecord(u, o, p, old) = AddRec(a, r)
    BY <1>3 DEF AddRecord, r
  <2>5. QED BY <2>3, <2>4
<1>4. QED BY <1>1, <1>2, <1>3

LEMMA DropUndoOK ==
  ASSUME NEW u, u \in Undo
  PROVE  GoodUndo(DropUndo(u))
<1> DEFINE d == DropUndo(u)
<1>1. d.savept_cnt = 0 /\ d.oldest_first = NoRec /\ d.cur_first = NoRec
  BY DEF DropUndo
<1>2. d \in Undo /\ d.savept_cnt <= MaxSavepts
  BY SizeAssumption DEF DropUndo, Undo, Slot, SlotOrNone
<1>3. Live(d, d.next_free) = {} /\ LiveLinks(d, d.next_free) = {}
  BY <1>1 DEF Live, LiveLinks
<1>4. ChainOK(d, d.next_free)
  <2> HIDE DEF d
  <2>1. QED BY <1>1, <1>3, FS_EmptySet DEF ChainOK
<1>5. QED BY <1>2, <1>4 DEF GoodUndo
------------------------------------------------------------------------------
(* The inductive invariant, and the actions one by one.                    *)

(* During a walk there is a savepoint to walk back to.                     *)
IInv ==
  /\ TypeOK
  /\ ChainMatchesSlots
  /\ meta # NoRec => undo.savept_cnt # 0

LEMMA NotWalking ==
  ASSUME TypeOK, meta = NoRec
  PROVE  ChainMatchesSlots <=> GoodUndo(undo)
BY DEF ChainMatchesSlots, GoodUndo, TypeOK, End

LEMMA InitIInv == Init => IInv
<1> SUFFICES ASSUME Init PROVE IInv
  OBVIOUS
<1>1. undo \in Undo
  BY SizeAssumption DEF Init, Undo, Content, Slot, SlotOrNone
<1>2. NoSnap \in Snap
  BY SizeAssumption DEF NoSnap, Snap, RefVal
<1>3. val \in [Obj -> [Prop -> RefVal]]
  <2>1. \A o \in Obj : Loaded(o) \in [Prop -> RefVal]
    BY ObjAssumption DEF Loaded, RefVal
  <2>2. QED BY <2>1 DEF Init
<1>4. TypeOK
  BY <1>1, <1>2, <1>3, ObjAssumption DEF Init, TypeOK, SlotOrNone
<1>5. undo.savept_cnt = 0 /\ undo.oldest_first = NoRec /\ undo.cur_first = NoRec /\ meta = NoRec
  BY DEF Init
<1>6. Live(undo, undo.next_free) = {} /\ LiveLinks(undo, undo.next_free) = {}
  BY <1>5 DEF Live, LiveLinks
<1>7. ChainOK(undo, undo.next_free) /\ undo.savept_cnt <= MaxSavepts
  BY <1>5, <1>6, FS_EmptySet, SizeAssumption DEF ChainOK
<1>8. QED BY <1>1, <1>4, <1>5, <1>7, NotWalking DEF IInv, GoodUndo

(* A step that leaves the array to itself leaves it good.                  *)
LEMMA QuietStep ==
  ASSUME IInv, TypeOK', UNCHANGED <<undo, meta>>
  PROVE  IInv'
BY DEF IInv, ChainMatchesSlots, End

(* A step of the program that leaves the array good keeps the invariant.   *)
LEMMA ProgramStep ==
  ASSUME TypeOK', meta' = NoRec, GoodUndo(undo')
  PROVE  IInv'
BY DEF IInv, ChainMatchesSlots, End, GoodUndo

LEMMA SavepointIInv == IInv /\ Savepoint => IInv'
<1> SUFFICES ASSUME IInv, Savepoint PROVE IInv'
  OBVIOUS
<1>1. GoodUndo(undo) /\ meta = NoRec /\ TypeOK
  BY NotWalking DEF IInv, Savepoint
<1>2. GoodUndo(undo') /\ (~AllocFails(undo) => undo'.cur_first \in Slot)
  BY <1>1, CreateSaveptOK DEF Savepoint
<1>3. snap' \in [Slot -> Snap]
  <2>1. CASE AllocFails(undo)
    BY <1>1, <2>1 DEF Savepoint, TypeOK
  <2>2. CASE ~AllocFails(undo)
    <3>1. undo'.cur_savept \in 0 .. SaveptMax
      BY <1>2 DEF GoodUndo, Undo
    <3>2. Snapshot(undo'.cur_savept) \in Snap
      BY <1>1, <3>1 DEF TypeOK, Snapshot, Snap
    <3>3. snap' = [snap EXCEPT ![undo'.cur_first] = Snapshot(undo'.cur_savept)]
      BY <2>2 DEF Savepoint
    <3>4. QED BY <1>1, <1>2, <2>2, <3>2, <3>3 DEF TypeOK
  <2>3. QED BY <2>1, <2>2
<1>4. TypeOK'
  BY <1>1, <1>2, <1>3 DEF Savepoint, TypeOK, GoodUndo
<1>5. QED BY <1>1, <1>2, <1>4, ProgramStep DEF Savepoint

LEMMA UndoBeginIInv == IInv /\ UndoBegin => IInv'
<1> SUFFICES ASSUME IInv, UndoBegin PROVE IInv'
  OBVIOUS
<1>1. meta' = undo.next_free /\ undo' = undo /\ meta = NoRec /\ undo.next_free \in Slot
  BY DEF UndoBegin, IInv, TypeOK, Undo
<1>2. TypeOK'
  BY <1>1 DEF IInv, TypeOK, UndoBegin, objVars, SlotOrNone
<1>3. End' = End
  BY <1>1 DEF End
<1>4. QED BY <1>1, <1>2, <1>3 DEF IInv, ChainMatchesSlots, UndoBegin

LEMMA UndoStepIInv == IInv /\ UndoStep => IInv'
<1> SUFFICES ASSUME IInv, UndoStep PROVE IInv'
  OBVIOUS
<1>1. /\ meta \in Slot /\ End = meta /\ meta' = Dec(meta) /\ undo' = undo
      /\ undo \in Undo /\ undo.savept_cnt # 0 /\ Dec(meta) # undo.cur_first
      /\ ChainOK(undo, meta) /\ undo.savept_cnt <= MaxSavepts
  BY DEF UndoStep, IInv, TypeOK, SlotOrNone, End, ChainMatchesSlots
<1>2. Dec(meta) \in Slot /\ Dec(meta) # NoRec
  <2>1. Dec(meta) \in Slot
    BY <1>1, OffRange
  <2>2. QED BY <2>1 DEF Slot, NoRec
<1>3. undo.rec_arr[Dec(meta)].kind = "rec" /\ ChainOK(undo, Dec(meta))
  BY <1>1, StepBackOK
<1> DEFINE r == undo.rec_arr[Dec(meta)]
<1>4. /\ r.obj \in Obj \cup {InvalidObj} /\ r.prop \in Prop \cup {InvalidProp}
      /\ r.prop # InvalidProp => r.oldval \in RefVal
  BY <1>1, <1>2, <1>3, SlotKinds
<1>5. Apply(r)
  BY DEF UndoStep
<1>6. /\ val' \in [Obj -> [Prop -> RefVal]]
      /\ mod' \in SUBSET (Obj \X Prop) /\ prop_undo' \in SUBSET (Obj \X Prop)
      /\ obj_mod' \in SUBSET Obj
      /\ added' \in [Obj -> Seq(Prop)]
  <2> HIDE DEF r
  <2>1. /\ val \in [Obj -> [Prop -> RefVal]]
        /\ mod \in SUBSET (Obj \X Prop) /\ prop_undo \in SUBSET (Obj \X Prop)
        /\ obj_mod \in SUBSET Obj
        /\ added \in [Obj -> Seq(Prop)]
    BY DEF IInv, TypeOK
  <2>2. CASE r.obj = InvalidObj
    BY <1>5, <2>1, <2>2 DEF Apply
  <2>3. CASE r.obj # InvalidObj /\ r.prop = InvalidProp
    BY <1>5, <2>1, <2>3 DEF Apply
  <2>4. CASE r.obj # InvalidObj /\ r.prop # InvalidProp
    <3>1. val' = [val EXCEPT ![r.obj][r.prop] = r.oldval]
      BY <1>5, <2>4 DEF Apply
    <3>2. val' \in [Obj -> [Prop -> RefVal]]
      BY <1>4, <2>1, <2>4, <3>1
    <3>3. mod' \subseteq mod /\ prop_undo' \subseteq prop_undo /\ obj_mod' = obj_mod
      BY <1>5, <2>4 DEF Apply
    <3>4. added' \in [Obj -> Seq(Prop)]
      <4>1. CASE r.oldval = Absent
        <5>1. r.obj \in Obj /\ added[r.obj] \in Seq(Prop)
          BY <1>4, <2>1, <2>4
        <5>2. DropEntry(added[r.obj]) \in Seq(Prop)
          BY <5>1 DEF DropEntry
        <5>3. added' = [added EXCEPT ![r.obj] = DropEntry(added[r.obj])]
          BY <1>5, <2>4, <4>1 DEF Apply
        <5>4. QED BY <2>1, <5>1, <5>2, <5>3
      <4>2. CASE r.oldval # Absent
        BY <1>5, <2>1, <2>4, <4>2 DEF Apply
      <4>3. QED BY <4>1, <4>2
    <3>5. QED BY <2>1, <3>2, <3>3, <3>4
  <2>5. QED BY <2>2, <2>3, <2>4
<1>7. TypeOK'
  BY <1>1, <1>2, <1>6 DEF IInv, TypeOK, UndoStep, SlotOrNone
<1>8. End' = Dec(meta)
  BY <1>1, <1>2 DEF End
<1>9. QED BY <1>1, <1>3, <1>7, <1>8 DEF IInv, ChainMatchesSlots

LEMMA UndoFinishIInv == IInv /\ UndoFinish => IInv'
<1> SUFFICES ASSUME IInv, UndoFinish PROVE IInv'
  OBVIOUS
<1>1. /\ meta \in Slot /\ undo' = PopSavept(undo) /\ meta' = NoRec
      /\ undo \in Undo /\ undo.savept_cnt # 0 /\ Dec(meta) = undo.cur_first
      /\ ChainOK(undo, meta) /\ undo.savept_cnt <= MaxSavepts
  BY DEF UndoFinish, IInv, TypeOK, SlotOrNone, End, ChainMatchesSlots
<1>2. /\ undo' \in Undo /\ ChainOK(undo', undo'.next_free)
      /\ undo'.savept_cnt = undo.savept_cnt - 1
  BY <1>1, PopSaveptOK
<1>3. undo'.savept_cnt <= MaxSavepts
  BY <1>1, <1>2, SizeAssumption DEF Undo
<1>4. TypeOK'
  BY <1>1, <1>2 DEF IInv, TypeOK, UndoFinish, SlotOrNone
<1>5. QED BY <1>1, <1>2, <1>3, <1>4, ProgramStep DEF GoodUndo

LEMMA SetPropIInv ==
  ASSUME IInv, NEW o \in Obj, NEW p \in Prop, NEW v \in Obj \cup {Nil}, SetProp(o, p, v)
  PROVE  IInv'
<1> DEFINE old == val[o][p]
           fresh == <<o, p>> \notin prop_undo
           u1 == IF fresh THEN AddRecord(undo, o, p, old) ELSE undo
           u2 == IF fresh /\ <<o, p>> \notin mod /\ old # Absent
                 THEN AddRecord(u1, o, p, Blank) ELSE u1
           u3 == IF o \notin obj_mod
                 THEN AddRecord(u2, o, InvalidProp, Unmod) ELSE u2
<1>1. GoodUndo(undo) /\ meta = NoRec /\ meta' = NoRec /\ TypeOK
  BY NotWalking DEF IInv, SetProp
<1>2. /\ Rec(o, p, old) \in Content /\ Rec(o, p, Blank) \in Content
      /\ Rec(o, InvalidProp, Unmod) \in Content
  BY <1>1 DEF TypeOK, Rec, Content, RefVal
<1>3. GoodUndo(u1)
  BY <1>1, <1>2, AddRecordOK
<1>4. GoodUndo(u2)
  <2> HIDE DEF u1
  <2>1. QED BY <1>2, <1>3, AddRecordOK
<1>5. GoodUndo(u3)
  <2> HIDE DEF u2
  <2>1. QED BY <1>2, <1>4, AddRecordOK
<1>6. undo' = u3
  BY DEF SetProp
<1>7. TypeOK'
  <2>1. v \in RefVal
    BY DEF RefVal
  <2>2. val' \in [Obj -> [Prop -> RefVal]]
    BY <1>1, <2>1 DEF SetProp, TypeOK
  <2>3. undo' \in Undo
    BY <1>5, <1>6 DEF GoodUndo
  <2>4. mod' \in SUBSET (Obj \X Prop) /\ prop_undo' \in SUBSET (Obj \X Prop)
        /\ obj_mod' \in SUBSET Obj
    BY <1>1 DEF SetProp, TypeOK
  <2>5. QED BY <1>1, <2>2, <2>3, <2>4 DEF SetProp, TypeOK
<1>8. QED BY <1>1, <1>5, <1>6, <1>7, ProgramStep

LEMMA CreateIInv ==
  ASSUME IInv, NEW o \in Obj, Create(o)
  PROVE  IInv'
<1>1. val' \in [Obj -> [Prop -> RefVal]]
  BY DEF IInv, TypeOK, Create, RefVal
<1>2. TypeOK'
  BY <1>1 DEF IInv, TypeOK, Create
<1>3. QED BY <1>2, QuietStep DEF Create

LEMMA ReleaseIInv ==
  ASSUME IInv, NEW o \in Obj, Release(o)
  PROVE  IInv'
<1>1. TypeOK'
  BY DEF IInv, TypeOK, Release
<1>2. QED BY <1>1, QuietStep DEF Release

LEMMA CollectIInv == IInv /\ Collect => IInv'
<1> SUFFICES ASSUME IInv, Collect PROVE IInv'
  OBVIOUS
<1>1. GoodUndo(undo) /\ meta = NoRec /\ meta' = NoRec /\ TypeOK
  BY NotWalking DEF IInv, Collect
<1>2. Garbage \in SUBSET Obj
  BY <1>1 DEF Garbage, TypeOK
<1>3. GoodUndo(undo')
  BY <1>1, <1>2, EraseOwnersOK DEF Collect, GoodUndo
<1>4. val' \in [Obj -> [Prop -> RefVal]]
  BY <1>1 DEF Collect, TypeOK, RefVal
<1>5. snap' \in [Slot -> Snap]
  <2>1. \A s \in Slot : snap[s] \in Snap
    BY <1>1 DEF TypeOK
  <2>2. \A s \in Slot : [snap[s] EXCEPT !.objs = snap[s].objs \ Garbage] \in Snap
    BY <2>1 DEF Snap
  <2>3. snap' = [s \in Slot |-> [snap[s] EXCEPT !.objs = snap[s].objs \ Garbage]]
    BY DEF Collect
  <2>4. QED BY <2>2, <2>3
<1>6. /\ inuse' \in SUBSET Obj /\ in_undo' \in SUBSET Obj /\ obj_mod' \in SUBSET Obj
      /\ mod' \in SUBSET (Obj \X Prop) /\ prop_undo' \in SUBSET (Obj \X Prop)
      /\ held' \in SUBSET Obj
  BY <1>1 DEF Collect, TypeOK
<1>7. TypeOK'
  <2>1. added' \in [Obj -> Seq(Prop)]
    BY <1>1 DEF Collect, TypeOK
  <2>2. QED BY <1>1, <1>3, <1>4, <1>5, <1>6, <2>1 DEF TypeOK, GoodUndo, SlotOrNone
<1>8. QED BY <1>1, <1>3, <1>7, ProgramStep

LEMMA ResetIInv == IInv /\ ResetToImage => IInv'
<1> SUFFICES ASSUME IInv, ResetToImage PROVE IInv'
  OBVIOUS
<1>1. meta' = NoRec /\ TypeOK /\ undo \in Undo
  BY DEF IInv, ResetToImage, TypeOK
<1>2. GoodUndo(undo')
  BY <1>1, DropUndoOK DEF ResetToImage
<1>3. val' \in [Obj -> [Prop -> RefVal]]
  <2>1. \A o \in RootObj : ImageVal[o] \in [Prop -> RefVal]
    BY ObjAssumption DEF RefVal
  <2>2. QED BY <1>1, <2>1 DEF ResetToImage, TypeOK
<1>4. /\ obj_mod' \in SUBSET Obj
      /\ mod' \in SUBSET (Obj \X Prop) /\ prop_undo' \in SUBSET (Obj \X Prop)
  BY <1>1 DEF ResetToImage, TypeOK
<1>5. TypeOK'
  BY <1>1, <1>2, <1>3, <1>4 DEF ResetToImage, TypeOK, GoodUndo, SlotOrNone
<1>6. QED BY <1>1, <1>2, <1>5, ProgramStep

LEMMA NextIInv == IInv /\ [Next]_vars => IInv'
<1> SUFFICES ASSUME IInv, [Next]_vars PROVE IInv'
  OBVIOUS
<1>1. CASE UNCHANGED vars
  BY <1>1 DEF vars, objVars, IInv, TypeOK, ChainMatchesSlots, End
<1>2. CASE Savepoint
  BY <1>2, SavepointIInv
<1>3. CASE UndoBegin
  BY <1>3, UndoBeginIInv
<1>4. CASE UndoStep
  BY <1>4, UndoStepIInv
<1>5. CASE UndoFinish
  BY <1>5, UndoFinishIInv
<1>6. CASE \E o \in Obj, p \in Prop, v \in Obj \cup {Nil} : SetProp(o, p, v)
  BY <1>6, SetPropIInv
<1>7. CASE \E o \in Obj \ RootObj : Create(o)
  BY <1>7, CreateIInv
<1>8. CASE \E o \in Obj : Release(o)
  BY <1>8, ReleaseIInv
<1>9. CASE Collect
  BY <1>9, CollectIInv
<1>10. CASE ResetToImage
  BY <1>10, ResetIInv
<1>11. QED
  BY <1>1, <1>2, <1>3, <1>4, <1>5, <1>6, <1>7, <1>8, <1>9, <1>10 DEF Next

THEOREM Invariance == Spec => []IInv
<1>1. Init => IInv
  BY InitIInv
<1>2. IInv /\ [Next]_vars => IInv'
  BY NextIInv
<1>3. QED BY <1>1, <1>2, PTL DEF Spec
------------------------------------------------------------------------------
(* Every field of CVmUndo and of the objects keeps its type; in particular *)
(* the free slot and every pointer of the chain stay within the array.     *)
THEOREM TypeCorrect == Spec => []TypeOK
<1>1. IInv => TypeOK
  BY DEF IInv
<1>2. QED BY <1>1, Invariance, PTL

(* The chain visits exactly the links among the slots in use, in order and *)
(* both ways, however savepoints, records, undos and dropped savepoints    *)
(* follow each other around the circular array.                            *)
THEOREM ChainSafe == Spec => []ChainMatchesSlots
<1>1. IInv => ChainMatchesSlots
  BY DEF IInv
<1>2. QED BY <1>1, Invariance, PTL
=============================================================================
