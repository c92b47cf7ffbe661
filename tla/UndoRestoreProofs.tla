-------------------------- MODULE UndoRestoreProofs --------------------------
(***************************************************************************)
(* Undo restores: proofs about what the records of UndoLog are worth.      *)
(* UndoLogProofs shows that the slots in use are a good chain; here a      *)
(* savepoint's records are shown to be complete and their order right, and *)
(* the objects they speak of to exist.  None of this can be had alone:     *)
(* that an old value is a good reference needs the collector, which traces *)
(* modified properties only, which needs the "modified" flags restored.    *)
(***************************************************************************)
EXTENDS UndoLogProofs, WellFoundedInduction

------------------------------------------------------------------------------
(* The invariant.                                                          *)

LiveRecs ==
  {t \in LiveNow : undo.rec_arr[t].kind = "rec" /\ undo.rec_arr[t].obj # InvalidObj}
Owner(t) == undo.rec_arr[t].obj
PropOf(t) == undo.rec_arr[t].prop
OldVal(t) == undo.rec_arr[t].oldval
Later(t) ==
  {t2 \in LiveRecs : /\ Owner(t2) = Owner(t) /\ PropOf(t2) = PropOf(t)
                     /\ Before(undo, t, t2)}

\* References go to objects that exist; a property that is not flagged as modified
\* has a value of the image file, which is why the collector need not trace it.
ObjectsOK ==
  /\ RootObj \subseteq inuse /\ held \subseteq inuse
  /\ \A o \in inuse, p \in Prop : val[o][p] \in Obj =>
       val[o][p] \in inuse /\ (val[o][p] \in RootObj \/ <<o, p>> \in mod)
  /\ \A o \in Obj, p \in Prop : <<o, p>> \in mod =>
       o \in inuse /\ val[o][p] \notin {Absent, Blank}
  /\ meta = NoRec => prop_undo \subseteq mod

\* The array of an object's properties holds each once, and they have values.
EntriesOK ==
  \A o \in Obj :
    /\ o \notin inuse => added[o] = <<>>
    /\ \A i \in DOMAIN added[o] : val[o][added[o][i]] # Absent
    /\ \A i, j \in DOMAIN added[o] : added[o][i] = added[o][j] => i = j

\* The owners of the records exist and take part in undo.
OwnersOK ==
  \A t \in LiveRecs : /\ Owner(t) \in inuse /\ Owner(t) \in in_undo
                      /\ Owner(t) \notin TransientObj
                      /\ OldVal(t) \in Obj => OldVal(t) \in inuse

\* Putting a record back finds the property there; what is put back is a value of
\* the image file unless the property stays flagged.
ValuesOK ==
  \A t \in LiveRecs : PropOf(t) # InvalidProp =>
    /\ val[Owner(t)][PropOf(t)] # Absent
    /\ \A t2 \in Later(t) : OldVal(t2) # Absent
    /\ OldVal(t) \in Obj \ RootObj =>
         /\ <<Owner(t), PropOf(t)>> \in mod
         /\ \A t2 \in Later(t) : OldVal(t2) # Blank

\* The properties an undo will take away are at the end of the object's array, in the
\* order of their records.
AddedLast(t) ==
  \E i \in DOMAIN added[Owner(t)] :
    /\ added[Owner(t)][i] = PropOf(t)
    /\ \A j \in DOMAIN added[Owner(t)] : j > i =>
         \E t2 \in LiveRecs :
           /\ Owner(t2) = Owner(t) /\ PropOf(t2) = added[Owner(t)][j]
           /\ OldVal(t2) = Absent /\ Before(undo, t, t2)
AddedOK == \A t \in LiveRecs : OldVal(t) = Absent => AddedLast(t)

\* The objects of a savepoint exist and can be recorded, and whatever has been
\* changed since the current savepoint has its record.
SavesOK ==
  /\ \A s \in LiveLinks(undo, End) : \A o \in snap[s].objs :
       o \in inuse /\ o \notin TransientObj /\ (meta = NoRec => o \in in_undo)
  /\ meta = NoRec /\ undo.savept_cnt # 0 =>
       \A o \in Obj, p \in Prop : <<o, p>> \in prop_undo /\ InUndo(o) =>
         RecsAfter(undo.cur_first, o, p) # {}

UInv ==
  /\ ObjectsOK /\ EntriesOK /\ OwnersOK /\ ValuesOK /\ AddedOK
  /\ SavesOK /\ UndoRestores

------------------------------------------------------------------------------
(* What happens to the array, seen from the records.                       *)

(* The live slots are totally ordered.                                     *)
LEMMA LiveOrder ==
  ASSUME NEW u \in Undo, NEW e \in Slot, ChainOK(u, e),
         NEW s \in Live(u, e), NEW t \in Live(u, e)
  PROVE  /\ ~Before(u, s, s)
         /\ Before(u, s, t) => ~Before(u, t, s)
         /\ s # t => Before(u, s, t) \/ Before(u, t, s)
         /\ \A r \in Live(u, e) : Before(u, s, t) /\ Before(u, t, r) => Before(u, s, r)
<1>1. /\ u.oldest_first \in Slot /\ Live(u, e) \subseteq Slot
  BY ChainEnds, LinksFinite DEF Live
<1>2. \A r \in Slot : Off(u.oldest_first, r) \in Nat
  BY <1>1, OffRange
<1>3. s # t => Off(u.oldest_first, s) # Off(u.oldest_first, t)
  BY <1>1, OffInjective
<1>4. QED BY <1>1, <1>2, <1>3 DEF Before

(* The log w, f has the slots N and otherwise only slots of the log u, e,  *)
(* which hold the same records in the same order; what it has lost of      *)
(* records is at the beginning.                                            *)
Grown(u, e, w, f, N) ==
  /\ N \subseteq Live(w, f) /\ Live(w, f) \ N \subseteq Live(u, e)
  /\ \A s \in Live(w, f) \ N :
       /\ w.rec_arr[s].kind = u.rec_arr[s].kind
       /\ u.rec_arr[s].kind = "rec" => w.rec_arr[s] = u.rec_arr[s]
       /\ \A t \in Live(u, e) : Before(u, s, t) /\ u.rec_arr[t].kind = "rec" =>
            t \in Live(w, f) \ N
       /\ \A t \in Live(w, f) \ N : Before(w, s, t) <=> Before(u, s, t)
       /\ \A t \in N : Before(w, s, t) /\ ~Before(w, t, s)

(* Losing old slots and then getting new ones, or the other way around.    *)
LEMMA GrownTwice ==
  ASSUME NEW u, NEW e, NEW w, NEW f, NEW x, NEW g, NEW N, NEW M,
         Grown(u, e, w, f, N), Grown(w, f, x, g, M), N \subseteq Live(x, g) \ M
  PROVE  Grown(u, e, x, g, N \cup M)
<1> DEFINE K == Live(x, g) \ (N \cup M)
<1>1. /\ K \subseteq Live(w, f) \ N /\ K \subseteq Live(x, g) \ M
      /\ Live(x, g) \ M \subseteq Live(w, f) /\ N \cup M \subseteq Live(x, g)
      /\ N \subseteq Live(w, f) /\ Live(w, f) \ N \subseteq Live(u, e)
  BY DEF Grown
<1>2. ASSUME NEW s \in K
      PROVE  /\ x.rec_arr[s].kind = u.rec_arr[s].kind
             /\ u.rec_arr[s].kind = "rec" => x.rec_arr[s] = u.rec_arr[s]
  <2>1. /\ x.rec_arr[s].kind = w.rec_arr[s].kind
        /\ w.rec_arr[s].kind = "rec" => x.rec_arr[s] = w.rec_arr[s]
    BY <1>1 DEF Grown
  <2>2. /\ w.rec_arr[s].kind = u.rec_arr[s].kind
        /\ u.rec_arr[s].kind = "rec" => w.rec_arr[s] = u.rec_arr[s]
    BY <1>1 DEF Grown
  <2>3. QED BY <2>1, <2>2
<1>3. ASSUME NEW s \in K, NEW t \in Live(u, e), Before(u, s, t), u.rec_arr[t].kind = "rec"
      PROVE  t \in K
  <2>1. t \in Live(w, f) \ N
    BY <1>1, <1>3 DEF Grown
  <2>2. Before(w, s, t) /\ w.rec_arr[t].kind = "rec"
    BY <1>1, <1>3, <2>1 DEF Grown
  <2>3. t \in Live(x, g) \ M
    BY <1>1, <2>1, <2>2 DEF Grown
  <2>4. QED BY <2>1, <2>3
<1>4. ASSUME NEW s \in K, NEW t \in K
      PROVE  Before(x, s, t) <=> Before(u, s, t)
  <2>1. Before(x, s, t) <=> Before(w, s, t)
    BY <1>1 DEF Grown
  <2>2. Before(w, s, t) <=> Before(u, s, t)
    BY <1>1 DEF Grown
  <2>3. QED BY <2>1, <2>2
<1>5. ASSUME NEW s \in K, NEW t \in N \cup M
      PROVE  Before(x, s, t) /\ ~Before(x, t, s)
  <2>1. CASE t \in M
    BY <1>1, <2>1 DEF Grown
  <2>2. CASE t \in N
    <3>1. Before(w, s, t) /\ ~Before(w, t, s)
      BY <1>1, <2>2 DEF Grown
    <3>2. t \in Live(x, g) \ M
      BY <2>2
    <3>3. (Before(x, s, t) <=> Before(w, s, t)) /\ (Before(x, t, s) <=> Before(w, t, s))
      BY <1>1, <3>2 DEF Grown
    <3>4. QED BY <3>1, <3>3
  <2>3. QED BY <2>1, <2>2
<1>6. K \subseteq Live(u, e)
  BY <1>1
<1>7. QED
  BY <1>1, <1>2, <1>3, <1>4, <1>5, <1>6 DEF Grown

(* Dropping the oldest savepoint.                                          *)
LEMMA DropGrown ==
  ASSUME NEW u, GoodUndo(u), u.savept_cnt # 0
  PROVE  LET d == DropOldest(u) IN
         /\ Grown(u, u.next_free, d, d.next_free, {})
         /\ d.next_free = u.next_free
         /\ d.savept_cnt = u.savept_cnt - 1
         /\ d.savept_cnt # 0 => d.cur_first = u.cur_first
<1> DEFINE d == DropOldest(u)
<1>1. u \in Undo /\ u.next_free \in Slot /\ ChainOK(u, u.next_free)
  BY DEF GoodUndo, Undo
<1>2. /\ Suffix(d, u, u.next_free) /\ d.savept_cnt = u.savept_cnt - 1
      /\ d.savept_cnt # 0 => d.cur_first = u.cur_first
  BY <1>1, DropOldestOK
<1>3. Live(d, u.next_free) \ {} = Live(d, u.next_free)
  OBVIOUS
<1>4. d.next_free = u.next_free
  BY <1>2 DEF Suffix
<1>5. Grown(u, u.next_free, d, u.next_free, {})
  BY <1>2, <1>3 DEF Suffix, Grown
<1>6. QED BY <1>2, <1>4, <1>5

(* Making room.                                                            *)
LEMMA RoomGrown ==
  ASSUME NEW u, GoodUndo(u), ~AllocFails(u)
  PROVE  LET a == WithRoom(u) IN
         /\ GoodUndo(a) /\ HasRoom(a) /\ a.next_free = u.next_free
         /\ Grown(u, u.next_free, a, a.next_free, {})
         /\ u.savept_cnt # 0 => a.savept_cnt # 0 /\ a.cur_first = u.cur_first
         /\ u.savept_cnt = 0 => a.savept_cnt = 0
<1> DEFINE a == WithRoom(u)
<1>1. GoodUndo(a) /\ HasRoom(a) /\ (u.savept_cnt # 0 => a.savept_cnt # 0)
  BY WithRoomOK
<1>2. CASE HasRoom(u)
  <2>1. a = u
    BY <1>2 DEF WithRoom
  <2>2. Grown(u, u.next_free, u, u.next_free, {})
    BY DEF Grown
  <2>3. QED BY <1>1, <2>1, <2>2
<1>3. CASE ~HasRoom(u)
  <2>1. a = DropOldest(u) /\ u.savept_cnt # 0
    BY <1>3 DEF WithRoom, HasRoom
  <2>2. /\ Grown(u, u.next_free, DropOldest(u), DropOldest(u).next_free, {})
        /\ DropOldest(u).next_free = u.next_free
        /\ DropOldest(u).savept_cnt # 0 => DropOldest(u).cur_first = u.cur_first
    BY <2>1, DropGrown
  <2>3. QED BY <1>1, <2>1, <2>2
<1>4. QED BY <1>2, <1>3

(* Taking the free slot for r.                                             *)
LEMMA AddRecGrown ==
  ASSUME NEW u, GoodUndo(u), HasRoom(u), u.savept_cnt # 0,
         NEW r \in Content, r.kind = "rec"
  PROVE  LET b == AddRec(u, r) IN
         /\ Grown(u, u.next_free, b, b.next_free, {u.next_free})
         /\ b.rec_arr[u.next_free] = r /\ b.cur_first = u.cur_first
         /\ GoodUndo(b) /\ b.savept_cnt # 0 /\ u.next_free \notin Live(u, u.next_free)
<1> DEFINE b == AddRec(u, r)
           n == u.next_free
<1>1. /\ b.rec_arr = [u.rec_arr EXCEPT ![n] = r] /\ b.oldest_first = u.oldest_first
      /\ b.cur_first = u.cur_first /\ b.next_free = Inc(n) /\ b.savept_cnt = u.savept_cnt
  BY DEF AddRec
<1>2. u \in Undo /\ ChainOK(u, n) /\ n \in Slot /\ u.savept_cnt <= MaxSavepts
  BY DEF GoodUndo, Undo
<1>3. GoodUndo(b)
  BY <1>1, <1>2, AddRecOK DEF GoodUndo
<1>4. /\ n \notin Live(u, n) /\ Live(b, b.next_free) = Live(u, n) \cup {n}
      /\ \A s \in Live(u, n) : Before(u, s, n) /\ ~Before(u, n, s)
  BY <1>1, <1>2, TakeSlot
<1>5. b.rec_arr[n] = r /\ \A s \in Live(u, n) : b.rec_arr[s] = u.rec_arr[s]
  BY <1>1, <1>2, <1>4, LinksFinite DEF Undo
<1>6. \A s, t : Before(b, s, t) <=> Before(u, s, t)
  BY <1>1 DEF Before
<1>7. Live(b, b.next_free) \ {n} = Live(u, n)
  BY <1>4
<1>8. Grown(u, n, b, b.next_free, {n})
  BY <1>4, <1>5, <1>6, <1>7 DEF Grown
<1>9. QED BY <1>1, <1>3, <1>4, <1>5, <1>8

(* A good log with a savepoint has its current link live.                  *)
LEMMA CurrentLive ==
  ASSUME NEW u, GoodUndo(u), u.savept_cnt # 0
  PROVE  u.cur_first \in Live(u, u.next_free) /\ u.rec_arr[u.cur_first].kind = "link"
<1>1. u \in Undo /\ ChainOK(u, u.next_free) /\ u.next_free \in Slot
  BY DEF GoodUndo, Undo
<1>2. QED BY <1>1, ChainEnds DEF LiveLinks

(* w comes from u by records only: N, all of the current savepoint.        *)
Recorded(u, w, N) ==
  /\ GoodUndo(w) /\ w.savept_cnt # 0 /\ w.cur_first = u.cur_first
  /\ Grown(u, u.next_free, w, w.next_free, N)
  /\ w.cur_first \in Live(w, w.next_free) \ N
  /\ \A t \in N : w.rec_arr[t].kind = "rec"

(* add_new_record: one record more, behind the others, or nothing is left. *)
LEMMA RecordMore ==
  ASSUME NEW u, NEW w, NEW N, Recorded(u, w, N),
         NEW o, NEW p, NEW old, Rec(o, p, old) \in Content, InUndo(o),
         NEW x, x = AddRecord(w, o, p, old), x.savept_cnt # 0
  PROVE  \E n : /\ Recorded(u, x, N \cup {n}) /\ n \notin N
                /\ x.rec_arr[n] = Rec(o, p, old)
                /\ \A t \in N : /\ x.rec_arr[t] = w.rec_arr[t]
                                /\ Before(x, t, n) /\ ~Before(x, n, t)
                                /\ \A s \in N : Before(x, s, t) <=> Before(w, s, t)
<1> DEFINE r == Rec(o, p, old)
           a == WithRoom(w)
           n == w.next_free
<1>1. GoodUndo(w) /\ w.savept_cnt # 0 /\ w.savept_cnt \in Nat
  BY DEF Recorded, GoodUndo, Undo
<1>2. ~AllocFails(w)
  <2> SUFFICES ASSUME AllocFails(w) PROVE FALSE
    OBVIOUS
  <2>1. x = DropOldest(w) /\ w.savept_cnt <= 1
    BY <1>1 DEF AddRecord, AllocFails
  <2>2. x.savept_cnt = w.savept_cnt - 1
    BY <1>1, <2>1, DropGrown
  <2>3. QED BY <1>1, <2>1, <2>2
<1>3. x = AddRec(a, r)
  BY <1>1, <1>2 DEF AddRecord
<1>4. /\ GoodUndo(a) /\ HasRoom(a) /\ a.next_free = n /\ Grown(w, n, a, n, {})
      /\ a.savept_cnt # 0 /\ a.cur_first = w.cur_first
  BY <1>1, <1>2, RoomGrown
<1>5. r \in Content /\ r.kind = "rec"
  BY DEF Rec
<1> HIDE DEF r, a
<1>6. /\ Grown(a, n, x, x.next_free, {n}) /\ x.rec_arr[n] = r
      /\ x.cur_first = w.cur_first /\ GoodUndo(x) /\ n \notin Live(a, n)
  <2>1. /\ Grown(a, a.next_free, AddRec(a, r), AddRec(a, r).next_free, {a.next_free})
        /\ AddRec(a, r).rec_arr[a.next_free] = r
        /\ AddRec(a, r).cur_first = a.cur_first /\ GoodUndo(AddRec(a, r))
        /\ a.next_free \notin Live(a, a.next_free)
    BY <1>4, <1>5, AddRecGrown
  <2>2. QED BY <1>3, <1>4, <2>1
<1>7. n \in Live(x, x.next_free)
  BY <1>6 DEF Grown
<1>8. Grown(w, n, x, x.next_free, {n})
  <2>1. Grown(w, n, x, x.next_free, {} \cup {n})
    BY <1>4, <1>6, GrownTwice
  <2>2. QED BY <2>1
<1>9. x.cur_first \in Live(x, x.next_free) \ {n}
  <2>1. x.cur_first \in Live(x, x.next_free) /\ x.rec_arr[x.cur_first].kind = "link"
    BY <1>6, CurrentLive
  <2>2. QED BY <1>5, <1>6, <2>1
<1>10. ASSUME NEW t \in N
       PROVE  t \in Live(x, x.next_free) \ {n}
  <2>1. /\ Before(w, x.cur_first, t) /\ t \in Live(w, n) /\ w.rec_arr[t].kind = "rec"
    BY <1>6, <1>10 DEF Recorded, Grown
  <2>2. QED BY <1>8, <1>9, <2>1 DEF Grown
<1>11. Grown(u, u.next_free, x, x.next_free, N \cup {n})
  BY <1>8, <1>10, GrownTwice DEF Recorded
<1>12. \A t \in N : /\ x.rec_arr[t] = w.rec_arr[t]
                    /\ Before(x, t, n) /\ ~Before(x, n, t)
                    /\ \A s \in N : Before(x, s, t) <=> Before(w, s, t)
  BY <1>8, <1>10 DEF Grown, Recorded
<1>13. x.cur_first \notin N
  BY <1>6 DEF Recorded
<1>14. Recorded(u, x, N \cup {n})
  BY <1>5, <1>6, <1>9, <1>11, <1>12, <1>13 DEF Recorded
<1>15. n \notin N
  BY <1>10
<1>16. QED BY <1>6, <1>12, <1>14, <1>15 DEF r

(* create_savept's link goes behind everything else.                       *)
LEMMA LinkGrown ==
  ASSUME NEW u, GoodUndo(u), HasRoom(u)
  PROVE  LET b == AddLink(u) IN
         /\ Grown(u, u.next_free, b, b.next_free, {u.next_free})
         /\ b.cur_first = u.next_free
         /\ b \in Undo /\ ChainOK(b, b.next_free) /\ b.savept_cnt = u.savept_cnt + 1
<1> DEFINE b == AddLink(u)
           n == u.next_free
           c == u.cur_first
           fwd == IF c = NoRec THEN u.rec_arr ELSE SetNext(u.rec_arr, c, n)
<1>1. u \in Undo /\ ChainOK(u, n) /\ n \in Slot /\ u.savept_cnt \in Nat
  BY DEF GoodUndo, Undo
<1>2. /\ b.rec_arr = [fwd EXCEPT ![n] = Link(c, NoRec)]
      /\ b.oldest_first = IF u.oldest_first = NoRec THEN n ELSE u.oldest_first
      /\ b.next_free = Inc(n)
  BY DEF AddLink
<1>3. /\ b \in Undo /\ ChainOK(b, b.next_free) /\ b.savept_cnt = u.savept_cnt + 1
      /\ b.cur_first = n
  BY <1>1, AddLinkOK
<1>4. b.savept_cnt # 0
  BY <1>1, <1>3
<1>5. n \in Live(b, b.next_free)
  <2>1. b.next_free \in Slot
    BY <1>3 DEF Undo
  <2>2. QED BY <1>3, <1>4, <2>1, ChainEnds DEF LiveLinks
<1>6. CASE u.savept_cnt = 0
  <2>1. u.oldest_first = NoRec /\ Live(u, n) = {}
    BY <1>1, <1>6, ChainEnds
  <2>2. \A s \in Live(b, b.next_free) : s = n
    <3>1. b.oldest_first = n
      BY <1>2, <2>1
    <3>2. Size(n, Inc(n)) = 1
      BY <1>1, OffFirst
    <3>3. \A s \in Slot : Off(n, s) < 1 => s = n
      BY <1>1, OffRange
    <3>4. QED BY <1>2, <1>4, <3>1, <3>2, <3>3 DEF Live
  <2>3. Live(b, b.next_free) \ {n} = {}
    BY <2>2
  <2>4. Grown(u, n, b, b.next_free, {n})
    BY <1>5, <2>3 DEF Grown
  <2>5. QED BY <1>3, <2>4
<1>7. CASE u.savept_cnt # 0
  <2>1. /\ c \in Slot /\ c # NoRec /\ c \in Live(u, n) /\ u.rec_arr[c].kind = "link"
        /\ u.oldest_first # NoRec
    <3>1. c \in Slot /\ c \in LiveLinks(u, n) /\ u.oldest_first \in Slot
      BY <1>1, <1>7, ChainEnds
    <3>2. QED BY <3>1 DEF LiveLinks, Slot, NoRec
  <2>2. b.oldest_first = u.oldest_first
    BY <1>2, <2>1
  <2>3. /\ n \notin Live(u, n) /\ Live(b, b.next_free) = Live(u, n) \cup {n}
        /\ \A s \in Live(u, n) : Before(u, s, n) /\ ~Before(u, n, s)
    BY <1>1, <1>2, <1>4, <1>7, <2>2, TakeSlot
  <2>4. \A s, t : Before(b, s, t) <=> Before(u, s, t)
    BY <2>2 DEF Before
  <2>5. \A s \in Live(u, n) : /\ b.rec_arr[s].kind = u.rec_arr[s].kind
                              /\ u.rec_arr[s].kind = "rec" => b.rec_arr[s] = u.rec_arr[s]
    <3>1. fwd = SetNext(u.rec_arr, c, n) /\ u.rec_arr \in [Slot -> Content]
      BY <1>1, <2>1 DEF Undo
    <3>2. \A s \in Slot : fwd[s] = IF s = c THEN Link(u.rec_arr[c].prev_first, n)
                                            ELSE u.rec_arr[s]
      BY <2>1, <3>1 DEF SetNext
    <3>3. \A s \in Live(u, n) : s \in Slot /\ s # n
      BY <2>3 DEF Live
    <3>4. \A s \in Live(u, n) : b.rec_arr[s] = fwd[s]
      <4>1. DOMAIN fwd = Slot
        BY <3>1 DEF SetNext
      <4>2. QED BY <1>2, <3>3, <4>1
    <3>5. Link(u.rec_arr[c].prev_first, n).kind = "link"
      BY DEF Link
    <3>6. QED BY <2>1, <3>2, <3>3, <3>4, <3>5
  <2>6. Live(b, b.next_free) \ {n} = Live(u, n)
    BY <2>3
  <2>7. Grown(u, n, b, b.next_free, {n})
    BY <2>3, <2>4, <2>5, <2>6 DEF Grown
  <2>8. QED BY <1>3, <2>7
<1>8. QED BY <1>6, <1>7

(* The savepoint() built-in: one link more, which is the current one.      *)
LEMMA SaveptGrown ==
  ASSUME NEW u, GoodUndo(u), ~AllocFails(u)
  PROVE  LET b == CreateSavept(u) IN
         /\ Grown(u, u.next_free, b, b.next_free, {b.cur_first})
         /\ b.savept_cnt # 0
<1> DEFINE a == WithRoom(u)
           l == AddLink(a)
           b == CreateSavept(u)
<1>1. /\ GoodUndo(a) /\ HasRoom(a) /\ a.next_free = u.next_free
      /\ Grown(u, u.next_free, a, a.next_free, {})
      /\ a.savept_cnt \in Nat
  BY RoomGrown DEF GoodUndo, Undo
<1>2. /\ Grown(a, a.next_free, l, l.next_free, {a.next_free})
      /\ l.cur_first = a.next_free
      /\ l \in Undo /\ ChainOK(l, l.next_free) /\ l.savept_cnt = a.savept_cnt + 1
  BY <1>1, LinkGrown
<1>3. b = IF a.savept_cnt = MaxSavepts THEN DropOldest(l) ELSE l
  BY DEF CreateSavept
<1> HIDE DEF a, l, b
<1>4. Grown(u, u.next_free, l, l.next_free, {l.cur_first})
  <2>1. Grown(u, u.next_free, l, l.next_free, {} \cup {a.next_free})
    BY <1>1, <1>2, GrownTwice
  <2>2. {} \cup {a.next_free} = {l.cur_first}
    BY <1>2
  <2>3. QED BY <2>1, <2>2
<1>5. l.savept_cnt # 0 /\ l.next_free \in Slot
  BY <1>1, <1>2 DEF Undo
<1>6. CASE a.savept_cnt # MaxSavepts
  <2>1. b = l
    BY <1>3, <1>6
  <2>2. Grown(u, u.next_free, b, b.next_free, {b.cur_first}) /\ b.savept_cnt # 0
    BY <1>4, <1>5, <2>1
  <2>3. QED BY <2>2 DEF b
<1>7. CASE a.savept_cnt = MaxSavepts
  <2>1. b = DropOldest(l)
    BY <1>3, <1>7
  <2>2. /\ b \in Undo /\ ChainOK(b, l.next_free) /\ b.savept_cnt = l.savept_cnt - 1
        /\ Suffix(b, l, l.next_free) /\ (b.savept_cnt # 0 => b.cur_first = l.cur_first)
    BY <1>2, <1>5, <2>1, DropOldestOK
  <2>3. b.savept_cnt # 0 /\ b.next_free = l.next_free
    BY <1>1, <1>2, <1>7, <2>2, SizeAssumption DEF Suffix
  <2>4. Live(b, l.next_free) \ {} = Live(b, l.next_free)
    OBVIOUS
  <2>5. Grown(l, l.next_free, b, b.next_free, {})
    BY <2>2, <2>3, <2>4 DEF Suffix, Grown
  <2>6. b.cur_first \in Live(b, b.next_free) \ {}
    BY <1>5, <2>2, <2>3, ChainEnds DEF LiveLinks
  <2>7. Grown(u, u.next_free, b, b.next_free, {l.cur_first} \cup {})
    BY <1>4, <2>2, <2>3, <2>5, <2>6, GrownTwice
  <2>8. {l.cur_first} \cup {} = {b.cur_first}
    BY <2>2, <2>3
  <2>9. Grown(u, u.next_free, b, b.next_free, {b.cur_first}) /\ b.savept_cnt # 0
    BY <2>3, <2>7, <2>8
  <2>10. QED BY <2>9 DEF b
<1>8. QED BY <1>6, <1>7

(* The last part of undo_to_savept loses the link of the savepoint.        *)
LEMMA PopGrown ==
  ASSUME NEW u \in Undo, NEW e \in Slot, ChainOK(u, e), u.savept_cnt # 0,
         Dec(e) = u.cur_first
  PROVE  LET d == PopSavept(u) IN Grown(u, e, d, d.next_free, {})
<1> DEFINE d == PopSavept(u)
           c == u.cur_first
           f == u.oldest_first
           p == u.rec_arr[c].prev_first
<1>1. /\ c \in Slot /\ f \in Slot /\ c \in LiveLinks(u, e) /\ f \in LiveLinks(u, e)
      /\ u.rec_arr[c].kind = "link" /\ c \in Live(u, e)
  BY ChainEnds DEF LiveLinks
<1>2. /\ d.rec_arr = IF p = NoRec THEN u.rec_arr ELSE SetNext(u.rec_arr, p, NoRec)
      /\ d.oldest_first = IF p = NoRec THEN NoRec ELSE f
      /\ d.next_free = c /\ d.savept_cnt = u.savept_cnt - 1
  BY DEF PopSavept
<1>3. IsPrevLink(u, LiveLinks(u, e), c, p)
  BY <1>1 DEF ChainOK
<1>4. CASE d.savept_cnt = 0
  <2>1. Live(d, d.next_free) = {}
    BY <1>4 DEF Live
  <2>2. QED BY <2>1 DEF Grown
<1>5. CASE d.savept_cnt # 0
  <2>1. p # NoRec
    <3> SUFFICES ASSUME p = NoRec PROVE FALSE
      OBVIOUS
    <3>1. d.oldest_first = NoRec /\ d.next_free \in Slot
      BY <1>1, <1>2
    <3>2. d \in Undo /\ ChainOK(d, d.next_free)
      BY PopSaveptOK
    <3>3. d.oldest_first \in Slot
      BY <1>5, <3>1, <3>2, ChainEnds
    <3>4. QED BY <3>1, <3>3 DEF Slot, NoRec
  <2>2. /\ p \in LiveLinks(u, e) /\ Before(u, p, c) /\ p \in Slot
        /\ u.rec_arr[p].kind = "link"
    <3>1. p \in LiveLinks(u, e) /\ Before(u, p, c)
      BY <1>3, <2>1 DEF IsPrevLink
    <3>2. QED BY <3>1 DEF LiveLinks, Live
  <2>3. d.oldest_first = f /\ d.rec_arr = SetNext(u.rec_arr, p, NoRec)
    BY <1>2, <2>1
  <2>4. c # f
    <3>1. \A s \in Slot : Off(f, s) \in Nat /\ Off(f, f) = 0
      BY <1>1, OffRange
    <3>2. QED BY <1>1, <2>2, <3>1 DEF Before
  <2>5. Live(d, d.next_free) \subseteq Live(u, e) \ {c}
    <3>1. Size(f, c) = Size(f, e) - 1 /\ Off(f, c) = Size(f, e) - 1
      BY <1>1, <2>4, OffDec
    <3>2. Size(f, e) \in Nat /\ \A s \in Slot : Off(f, s) \in Nat
      <4>1. Size(f, e) \in 1 .. RecArrSize
        BY <1>1, OffRange
      <4>2. \A s \in Slot : Off(f, s) \in 0 .. RecArrSize - 1
        BY <1>1, OffRange
      <4>3. QED BY <4>1, <4>2, SizeAssumption
    <3>3. \A s \in Slot : s \in Live(d, c) => Off(f, s) < Size(f, e) - 1
      BY <2>3, <3>1 DEF Live
    <3>4. QED BY <1>2, <3>1, <3>2, <3>3 DEF Live
  <2>6. ASSUME NEW s \in Live(u, e), s # c
        PROVE  s \in Live(d, d.next_free)
    <3>1. Size(f, c) = Size(f, e) - 1 /\ Off(f, c) = Size(f, e) - 1
      BY <1>1, <2>4, OffDec
    <3>2. /\ s \in Slot /\ Off(f, s) < Size(f, e) /\ Off(f, s) # Off(f, c)
          /\ Off(f, s) \in Nat
      <4>1. s \in Slot /\ Off(f, s) < Size(f, e)
        BY <2>6 DEF Live
      <4>2. QED BY <1>1, <2>6, <4>1, OffInjective, OffRange
    <3>3. Off(f, s) < Size(f, e) - 1
      <4>1. Size(f, e) \in 1 .. RecArrSize
        BY <1>1, OffRange
      <4>2. QED BY <3>1, <3>2, <4>1, SizeAssumption
    <3>4. QED BY <1>2, <1>5, <2>3, <3>1, <3>2, <3>3 DEF Live
  <2>7. Live(d, d.next_free) \ {} = Live(u, e) \ {c}
    BY <2>5, <2>6
  <2>8. \A s \in Slot : d.rec_arr[s] = IF s = p THEN Link(u.rec_arr[p].prev_first, NoRec)
                                                ELSE u.rec_arr[s]
    BY <2>2, <2>3 DEF SetNext, Undo
  <2>9. \A s \in Live(u, e) : /\ d.rec_arr[s].kind = u.rec_arr[s].kind
                              /\ u.rec_arr[s].kind = "rec" => d.rec_arr[s] = u.rec_arr[s]
    <3>1. Link(u.rec_arr[p].prev_first, NoRec).kind = "link"
      BY DEF Link
    <3>2. Live(u, e) \subseteq Slot
      BY DEF Live
    <3>3. QED BY <2>2, <2>8, <3>1, <3>2
  <2>10. \A s, t : Before(d, s, t) <=> Before(u, s, t)
    BY <2>3 DEF Before
  <2> HIDE DEF d
  <2>11. Grown(u, e, d, d.next_free, {})
    BY <1>1, <2>7, <2>9, <2>10 DEF Grown
  <2>12. QED BY <2>11 DEF d
<1>6. QED BY <1>4, <1>5

(* Of some live slots one is the oldest.                                   *)
LEMMA FirstExists ==
  ASSUME NEW u \in Undo, NEW e \in Slot, ChainOK(u, e),
         NEW R, R \subseteq Live(u, e), R # {}
  PROVE  \E t \in R : \A t2 \in R : ~Before(u, t2, t)
<1> DEFINE f == u.oldest_first
           Less == {ss \in Nat \X Nat : ss[1] < ss[2]}
           T == {Off(f, t) : t \in R}
<1>1. f \in Slot /\ Live(u, e) \subseteq Slot
  <2>1. u.savept_cnt # 0
    BY DEF Live
  <2>2. QED BY <2>1, ChainEnds DEF Live
<1>2. \A t \in R : Off(f, t) \in Nat
  BY <1>1, OffRange
<1>3. T \subseteq Nat /\ T # {}
  BY <1>2
<1>4. IsWellFoundedOn(Less, Nat)
  BY NatLessThanWellFounded DEF OpToRel
<1>5. PICK x \in T : \A y \in T : ~(<<y, x>> \in Less)
  <2> HIDE DEF Less, T
  <2>1. QED BY <1>3, <1>4, WFMin
<1>6. PICK t \in R : x = Off(f, t)
  BY <1>5
<1>7. \A t2 \in R : ~(Off(f, t2) < Off(f, t))
  BY <1>2, <1>5, <1>6
<1>8. QED BY <1>7 DEF Before
------------------------------------------------------------------------------
(* What the properties say about slots that stay.                          *)

(* The array while the walk is on, and when it is not.                     *)
LEMMA LogNow ==
  ASSUME IInv
  PROVE  /\ undo \in Undo /\ End \in Slot /\ ChainOK(undo, End)
         /\ meta = NoRec => End = undo.next_free /\ GoodUndo(undo)
         /\ meta # NoRec => meta \in Slot /\ End = meta /\ undo.savept_cnt # 0
BY DEF IInv, TypeOK, ChainMatchesSlots, End, GoodUndo, Undo, SlotOrNone

(* Slots that stay keep their records and their order.                     *)
LEMMA RecsKept ==
  ASSUME NEW N, Grown(undo, End, undo', End', N)
  PROVE  /\ \A t \in LiveRecs' \ N :
              /\ t \in LiveRecs /\ undo'.rec_arr[t] = undo.rec_arr[t]
              /\ \A t2 \in LiveRecs : Before(undo, t, t2) => t2 \in LiveRecs' \ N
              /\ \A t2 \in LiveRecs' \ N : Before(undo', t, t2) <=> Before(undo, t, t2)
              /\ \A t2 \in N : ~Before(undo', t2, t) /\ Before(undo', t, t2)
         /\ \A s \in LiveLinks(undo', End') \ N : s \in LiveLinks(undo, End)
<1>1. LiveNow' = Live(undo', End') /\ LiveNow = Live(undo, End)
  BY DEF LiveNow
<1>2. QED BY <1>1 DEF Grown, LiveRecs, LiveLinks

(* The records behind a savepoint that stays.                              *)
LEMMA RecsAfterGrown ==
  ASSUME NEW N, Grown(undo, End, undo', End', N),
         NEW s \in Live(undo', End') \ N, NEW o, NEW p
  PROVE  RecsAfter(s, o, p)' =
           RecsAfter(s, o, p) \cup
             {t \in N : /\ undo'.rec_arr[t].kind = "rec"
                        /\ undo'.rec_arr[t].obj = o /\ undo'.rec_arr[t].prop = p}
<1> DEFINE K == Live(undo', End') \ N
           Mine == {t \in N : /\ undo'.rec_arr[t].kind = "rec"
                              /\ undo'.rec_arr[t].obj = o /\ undo'.rec_arr[t].prop = p}
<1>1. /\ s \in Live(undo, End) /\ K \subseteq Live(undo, End) /\ N \subseteq Live(undo', End')
      /\ \A t \in K : /\ undo'.rec_arr[t].kind = undo.rec_arr[t].kind
                      /\ undo.rec_arr[t].kind = "rec" => undo'.rec_arr[t] = undo.rec_arr[t]
                      /\ Before(undo', s, t) <=> Before(undo, s, t)
      /\ \A t \in Live(undo, End) : Before(undo, s, t) /\ undo.rec_arr[t].kind = "rec" =>
           t \in K
      /\ \A t \in N : Before(undo', s, t)
  BY DEF Grown
<1>2. RecsAfter(s, o, p) = {t \in Live(undo, End) :
        /\ Before(undo, s, t) /\ undo.rec_arr[t].kind = "rec"
        /\ undo.rec_arr[t].obj = o /\ undo.rec_arr[t].prop = p}
  BY DEF RecsAfter, LiveNow
<1>3. RecsAfter(s, o, p)' = {t \in Live(undo', End') :
        /\ Before(undo', s, t) /\ undo'.rec_arr[t].kind = "rec"
        /\ undo'.rec_arr[t].obj = o /\ undo'.rec_arr[t].prop = p}
  BY DEF RecsAfter, LiveNow
<1>4. ASSUME NEW t
      PROVE  t \in RecsAfter(s, o, p)' <=> t \in RecsAfter(s, o, p) \/ t \in Mine
  <2>1. CASE t \in K
    BY <1>1, <1>2, <1>3, <2>1
  <2>2. CASE t \notin K
    <3>1. t \notin RecsAfter(s, o, p)
      BY <1>1, <1>2, <2>2
    <3>2. t \in Live(undo', End') <=> t \in N
      BY <1>1, <2>2
    <3>3. QED BY <1>1, <1>3, <3>1, <3>2
  <2>3. QED BY <2>1, <2>2
<1>5. QED BY <1>4

(* The oldest of the records R in a given log.                             *)
OldestIn(u, R) == CHOOSE t \in {t1 \in R : \A t2 \in R : ~Before(u, t2, t1)} : TRUE

(* What a property rolls back to, before and after a step.                 *)
LEMMA RolledValIn ==
  ASSUME NEW s, NEW o, NEW p
  PROVE  /\ RolledVal(s, o, p) =
              IF RecsAfter(s, o, p) = {} THEN val[o][p]
              ELSE undo.rec_arr[OldestIn(undo, RecsAfter(s, o, p))].oldval
         /\ RolledVal(s, o, p)' =
              IF RecsAfter(s, o, p)' = {} THEN val'[o][p]
              ELSE undo'.rec_arr[OldestIn(undo', RecsAfter(s, o, p)')].oldval
BY DEF RolledVal, Oldest, First, OldestIn

(* New records do not change which is the oldest.                          *)
LEMMA OldestGrown ==
  ASSUME IInv, NEW N, Grown(undo, End, undo', End', N),
         NEW R, R \subseteq Live(undo', End') \ N, R # {}, NEW M, M \subseteq N
  PROVE  OldestIn(undo', R \cup M) = OldestIn(undo, R) /\ OldestIn(undo, R) \in R
<1> DEFINE K == Live(undo', End') \ N
           F == {t \in R : \A t2 \in R : ~Before(undo, t2, t)}
           G == {t \in R \cup M : \A t2 \in R \cup M : ~Before(undo', t2, t)}
<1>1. /\ \A s, t \in K : Before(undo', s, t) <=> Before(undo, s, t)
      /\ \A s \in K, t \in N : Before(undo', s, t) /\ ~Before(undo', t, s)
      /\ K \subseteq Live(undo, End)
  BY DEF Grown
<1>2. PICK r \in R : TRUE
  OBVIOUS
<1>3. G = F
  BY <1>1, <1>2
<1>4. F # {}
  BY <1>1, LogNow, FirstExists
<1>5. OldestIn(undo, R) = (CHOOSE t \in F : TRUE)
  BY DEF OldestIn
<1>6. OldestIn(undo', R \cup M) = (CHOOSE t \in G : TRUE)
  BY DEF OldestIn
<1>7. (CHOOSE t \in F : TRUE) \in F
  BY <1>4
<1>8. QED BY <1>3, <1>5, <1>6, <1>7

(* What rolling back to a savepoint gives an object.                       *)
RestoredAt(s, o) ==
  /\ \A p \in Prop : /\ RolledVal(s, o, p) = snap[s].val[o][p]
                     /\ RolledMod(s, o, p) <=> <<o, p>> \in snap[s].mod
  /\ RolledObjMod(s, o) <=> o \in snap[s].obj_mod

(* A property with records rolls back to the same whatever comes after.    *)
LEMMA RolledRecorded ==
  ASSUME IInv, NEW N, Grown(undo, End, undo', End', N),
         NEW s \in Live(undo', End') \ N, NEW o, NEW p, RecsAfter(s, o, p) # {}
  PROVE  RolledVal(s, o, p)' = RolledVal(s, o, p)
<1> DEFINE R == RecsAfter(s, o, p)
           M == {t \in N : /\ undo'.rec_arr[t].kind = "rec"
                           /\ undo'.rec_arr[t].obj = o /\ undo'.rec_arr[t].prop = p}
<1>1. RecsAfter(s, o, p)' = R \cup M
  BY RecsAfterGrown
<1>2. \A t \in R : /\ t \in Live(undo', End') \ N
                   /\ undo'.rec_arr[t] = undo.rec_arr[t]
  BY DEF RecsAfter, LiveNow, Grown
<1>3. M \subseteq N /\ R \subseteq Live(undo', End') \ N
  BY <1>2
<1>4. OldestIn(undo', R \cup M) = OldestIn(undo, R) /\ OldestIn(undo, R) \in R
  <2> HIDE DEF R, M
  <2>1. QED BY <1>3, OldestGrown DEF R
<1>5. RolledVal(s, o, p)' = undo'.rec_arr[OldestIn(undo', R \cup M)].oldval
  <2>1. RolledVal(s, o, p)' =
          IF RecsAfter(s, o, p)' = {} THEN val'[o][p]
          ELSE undo'.rec_arr[OldestIn(undo', RecsAfter(s, o, p)')].oldval
    BY RolledValIn
  <2>2. RecsAfter(s, o, p)' # {}
    BY <1>1
  <2>3. QED BY <1>1, <2>1, <2>2
<1>6. RolledVal(s, o, p) = undo.rec_arr[OldestIn(undo, R)].oldval
  BY RolledValIn
<1>7. QED BY <1>2, <1>4, <1>5, <1>6

(* Without new records of a property it rolls back to the same.            *)
LEMMA RolledSame ==
  ASSUME IInv, NEW N, Grown(undo, End, undo', End', N),
         NEW s \in Live(undo', End') \ N, NEW o, NEW p,
         \A t \in N : ~(/\ undo'.rec_arr[t].kind = "rec"
                        /\ undo'.rec_arr[t].obj = o /\ undo'.rec_arr[t].prop = p)
  PROVE  /\ RecsAfter(s, o, p)' = RecsAfter(s, o, p)
         /\ \A t \in RecsAfter(s, o, p) : undo'.rec_arr[t] = undo.rec_arr[t]
         /\ val'[o][p] = val[o][p] => RolledVal(s, o, p)' = RolledVal(s, o, p)
<1>1. RecsAfter(s, o, p)' = RecsAfter(s, o, p)
  <2> DEFINE M == {t \in N : /\ undo'.rec_arr[t].kind = "rec"
                             /\ undo'.rec_arr[t].obj = o /\ undo'.rec_arr[t].prop = p}
  <2>1. RecsAfter(s, o, p)' = RecsAfter(s, o, p) \cup M
    BY RecsAfterGrown
  <2>2. M = {}
    OBVIOUS
  <2> HIDE DEF M
  <2>3. QED BY <2>1, <2>2
<1>2. \A t \in RecsAfter(s, o, p) : undo'.rec_arr[t] = undo.rec_arr[t]
  BY DEF RecsAfter, LiveNow, Grown
<1>3. CASE RecsAfter(s, o, p) # {}
  BY <1>1, <1>2, <1>3, RolledRecorded
<1>4. CASE RecsAfter(s, o, p) = {}
  <2>1. RolledVal(s, o, p) = val[o][p]
    BY <1>4 DEF RolledVal
  <2>2. RolledVal(s, o, p)' = val'[o][p]
    BY <1>1, <1>4 DEF RolledVal
  <2>3. QED BY <1>1, <1>2, <2>1, <2>2
<1>5. QED BY <1>3, <1>4

(* An object that neither changes nor gets records is restored as before.  *)
LEMMA RestoredSame ==
  ASSUME IInv, NEW N, Grown(undo, End, undo', End', N),
         NEW s \in Live(undo', End') \ N, NEW o, snap'[s].val[o] = snap[s].val[o],
         snap'[s].mod = snap[s].mod, snap'[s].obj_mod = snap[s].obj_mod,
         \A t \in N : ~(undo'.rec_arr[t].kind = "rec" /\ undo'.rec_arr[t].obj = o),
         val'[o] = val[o], \A p \in Prop : <<o, p>> \in mod' <=> <<o, p>> \in mod,
         o \in obj_mod' <=> o \in obj_mod,
         RestoredAt(s, o)
  PROVE  RestoredAt(s, o)'
<1>1. \A p : /\ RecsAfter(s, o, p)' = RecsAfter(s, o, p)
             /\ \A t \in RecsAfter(s, o, p) : undo'.rec_arr[t] = undo.rec_arr[t]
             /\ RolledVal(s, o, p)' = RolledVal(s, o, p)
  BY RolledSame
<1>2. \A p \in Prop : RolledMod(s, o, p)' <=> RolledMod(s, o, p)
  BY <1>1 DEF RolledMod
<1>3. RolledObjMod(s, o)' <=> RolledObjMod(s, o)
  BY <1>1 DEF RolledObjMod
<1>4. QED BY <1>1, <1>2, <1>3 DEF RestoredAt

(* UndoRestores says so of every savepoint and every object it saw.        *)
LEMMA RestoresAt ==
  /\ UndoRestores <=>
       \A s \in LiveLinks(undo, End) : \A o \in snap[s].objs : RestoredAt(s, o)
  /\ UndoRestores' <=>
       \A s \in LiveLinks(undo', End') : \A o \in snap'[s].objs : RestoredAt(s, o)'
BY DEF UndoRestores, RestoredAt
------------------------------------------------------------------------------
(* Steps that leave the records alone.                                     *)

(* The array, the objects that exist and the objects' state are unchanged. *)
LEMMA RecordsQuiet ==
  ASSUME IInv, UInv, NEW N, Grown(undo, End, undo', End', N),
         \A t \in N : undo'.rec_arr[t].kind # "rec",
         UNCHANGED <<inuse, val, added, mod, obj_mod>>,
         in_undo' = in_undo \/ in_undo' = inuse
  PROVE  /\ EntriesOK' /\ OwnersOK' /\ ValuesOK' /\ AddedOK'
         /\ \A s \in LiveLinks(undo', End') \ N : \A o \in snap[s].objs :
              snap'[s] = snap[s] => RestoredAt(s, o)'
<1>1. EntriesOK'
  BY DEF UInv, EntriesOK
<1>2. \A t \in LiveRecs' : t \notin N
  BY DEF LiveRecs
<1>3. /\ \A t \in LiveRecs' :
           /\ t \in LiveRecs /\ undo'.rec_arr[t] = undo.rec_arr[t]
           /\ \A t2 \in LiveRecs : Before(undo, t, t2) => t2 \in LiveRecs'
           /\ \A t2 \in LiveRecs' : Before(undo', t, t2) <=> Before(undo, t, t2)
      /\ \A s \in LiveLinks(undo', End') \ N : s \in LiveLinks(undo, End)
  BY <1>2, RecsKept
<1>4. OwnersOK'
  BY <1>3 DEF UInv, OwnersOK, Owner, OldVal
<1>5. \A t \in LiveRecs' : \A t2 \in Later(t)' : t2 \in Later(t) /\ OldVal(t2)' = OldVal(t2)
  BY <1>3 DEF Later, Owner, PropOf, OldVal
<1>6. \A t \in LiveRecs' : /\ Owner(t)' = Owner(t) /\ PropOf(t)' = PropOf(t)
                           /\ OldVal(t)' = OldVal(t)
  BY <1>3 DEF Owner, PropOf, OldVal
<1>7. ValuesOK'
  BY <1>3, <1>5, <1>6 DEF UInv, ValuesOK
<1>8. ASSUME NEW t \in LiveRecs', OldVal(t)' = Absent
      PROVE  AddedLast(t)'
  <2>1. AddedLast(t)
    BY <1>3, <1>6, <1>8 DEF UInv, AddedOK
  <2>2. PICK i \in DOMAIN added[Owner(t)] :
          /\ added[Owner(t)][i] = PropOf(t)
          /\ \A j \in DOMAIN added[Owner(t)] : j > i =>
               \E t2 \in LiveRecs :
                 /\ Owner(t2) = Owner(t) /\ PropOf(t2) = added[Owner(t)][j]
                 /\ OldVal(t2) = Absent /\ Before(undo, t, t2)
    BY <2>1 DEF AddedLast
  <2>3. ASSUME NEW j \in DOMAIN added[Owner(t)], j > i
        PROVE  \E t2 \in LiveRecs' :
                 /\ Owner(t2)' = Owner(t)' /\ PropOf(t2)' = added[Owner(t)][j]
                 /\ OldVal(t2)' = Absent /\ Before(undo', t, t2)
    <3>1. PICK t2 \in LiveRecs :
            /\ Owner(t2) = Owner(t) /\ PropOf(t2) = added[Owner(t)][j]
            /\ OldVal(t2) = Absent /\ Before(undo, t, t2)
      BY <2>2, <2>3
    <3>2. t2 \in LiveRecs' /\ Before(undo', t, t2)
      BY <1>3, <3>1
    <3>3. QED BY <1>6, <3>1, <3>2
  <2>4. QED BY <1>6, <2>2, <2>3 DEF AddedLast
<1>9. AddedOK'
  BY <1>8 DEF AddedOK
<1>10. ASSUME NEW s \in LiveLinks(undo', End') \ N, NEW o \in snap[s].objs, snap'[s] = snap[s]
       PROVE  RestoredAt(s, o)'
  <2>1. RestoredAt(s, o)
    BY <1>3, RestoresAt DEF UInv
  <2>2. s \in Live(undo', End') \ N
    BY DEF LiveLinks
  <2>3. QED BY <1>10, <2>1, <2>2, RestoredSame
<1>11. QED BY <1>1, <1>4, <1>7, <1>9, <1>10

(* With no savepoint there is nothing to keep for undo.                    *)
LEMMA EmptyLog ==
  ASSUME undo'.savept_cnt = 0
  PROVE  OwnersOK' /\ ValuesOK' /\ AddedOK' /\ SavesOK' /\ UndoRestores'
<1>1. LiveNow' = {} /\ Live(undo', End') = {}
  BY DEF LiveNow, Live
<1>2. LiveRecs' = {} /\ LiveLinks(undo', End') = {}
  BY <1>1 DEF LiveRecs, LiveLinks
<1>3. OwnersOK' /\ ValuesOK' /\ AddedOK'
  BY <1>2 DEF OwnersOK, ValuesOK, AddedOK
<1>4. SavesOK'
  BY <1>2 DEF SavesOK
<1>5. UndoRestores'
  BY <1>2 DEF UndoRestores
<1>6. QED BY <1>3, <1>4, <1>5

(* Entering undo_to_savept, and the program dropping a reference.          *)
LEMMA QuietUInv ==
  ASSUME IInv, UInv,
         UNCHANGED <<undo, inuse, in_undo, val, added, mod, prop_undo, obj_mod, snap>>,
         held' \subseteq held, End' = End, meta' = NoRec => meta = NoRec
  PROVE  UInv'
<1>1. Grown(undo, End, undo', End', {})
  BY DEF Grown
<1>2. /\ EntriesOK' /\ OwnersOK' /\ ValuesOK' /\ AddedOK'
      /\ \A s \in LiveLinks(undo', End') \ {} : \A o \in snap[s].objs :
           snap'[s] = snap[s] => RestoredAt(s, o)'
  BY <1>1, RecordsQuiet
<1>3. ObjectsOK'
  BY DEF UInv, ObjectsOK
<1>4. LiveLinks(undo', End') = LiveLinks(undo, End)
  OBVIOUS
<1>5. SavesOK'
  <2>1. LiveNow' = LiveNow
    BY DEF LiveNow
  <2>2. QED BY <1>4, <2>1 DEF UInv, SavesOK, RecsAfter, InUndo, Before
<1>6. UndoRestores'
  <2>1. \A s \in LiveLinks(undo', End') : \A o \in snap'[s].objs : RestoredAt(s, o)'
    BY <1>2
  <2>2. QED BY <2>1, RestoresAt
<1>7. QED BY <1>2, <1>3, <1>5, <1>6 DEF UInv

(* A new savepoint: its records are none, and the objects are as it saw    *)
(* them; every object that exists can be recorded again.                   *)
LEMMA SavepointUInv ==
  ASSUME IInv, UInv, Savepoint
  PROVE  UInv'
<1>1. /\ GoodUndo(undo) /\ meta = NoRec /\ meta' = NoRec /\ End = undo.next_free
      /\ End' = undo'.next_free /\ TypeOK
  BY LogNow DEF Savepoint, End, IInv
<1>2. /\ UNCHANGED <<inuse, val, added, mod, obj_mod, held>>
      /\ undo' = CreateSavept(undo)
  BY DEF Savepoint
<1>3. CASE AllocFails(undo)
  <2>1. undo'.savept_cnt = 0
    <3>1. undo' = DropOldest(undo) /\ undo.savept_cnt # 0 /\ undo.savept_cnt <= 1
          /\ undo.savept_cnt \in Nat
      BY <1>1, <1>2, <1>3 DEF CreateSavept, AllocFails, HasRoom, GoodUndo, Undo
    <3>2. undo'.savept_cnt = undo.savept_cnt - 1
      BY <1>1, <3>1, DropGrown
    <3>3. QED BY <3>1, <3>2
  <2>2. OwnersOK' /\ ValuesOK' /\ AddedOK' /\ SavesOK' /\ UndoRestores'
    BY <2>1, EmptyLog
  <2>3. prop_undo' = prop_undo
    BY <1>3 DEF Savepoint
  <2>4. ObjectsOK' /\ EntriesOK'
    BY <1>1, <1>2, <2>3 DEF UInv, ObjectsOK, EntriesOK
  <2>5. QED BY <2>2, <2>4 DEF UInv
<1>4. CASE ~AllocFails(undo)
  <2>0. PICK c : c = undo'.cur_first
    OBVIOUS
  <2>1. /\ in_undo' = inuse /\ prop_undo' = {}
        /\ snap' = [snap EXCEPT ![c] = Snapshot(undo'.cur_savept)]
    BY <1>4, <2>0 DEF Savepoint
  <2>2. Grown(undo, End, undo', End', {c}) /\ undo'.savept_cnt # 0 /\ GoodUndo(undo')
    BY <1>1, <1>2, <1>4, <2>0, SaveptGrown, CreateSaveptOK
  <2>3. c \in Live(undo', End') /\ undo'.rec_arr[c].kind = "link" /\ c \in Slot
    <3>1. c \in Live(undo', End') /\ undo'.rec_arr[c].kind = "link"
      BY <1>1, <2>0, <2>2, CurrentLive
    <3>2. QED BY <3>1 DEF Live
  <2>4. \A s \in Slot : s # c => snap'[s] = snap[s]
    BY <1>1, <2>1 DEF TypeOK
  <2>5. snap'[c] = Snapshot(undo'.cur_savept)
    BY <1>1, <2>1, <2>3 DEF TypeOK
  <2>6. /\ EntriesOK' /\ OwnersOK' /\ ValuesOK' /\ AddedOK'
        /\ \A s \in LiveLinks(undo', End') \ {c} : \A o \in snap[s].objs :
             snap'[s] = snap[s] => RestoredAt(s, o)'
    <3>1. \A t \in {c} : undo'.rec_arr[t].kind # "rec"
      BY <2>3
    <3>2. in_undo' = in_undo \/ in_undo' = inuse
      BY <2>1
    <3>3. QED BY <1>2, <2>2, <3>1, <3>2, RecordsQuiet
  <2>7. ObjectsOK'
    BY <1>2, <2>1 DEF UInv, ObjectsOK
  <2>8. /\ \A s \in LiveLinks(undo', End') \ {c} : s \in LiveLinks(undo, End)
        /\ LiveLinks(undo', End') \subseteq Slot
    BY <2>2, RecsKept DEF LiveLinks, Live
  <2>9. SavesOK'
    <3>1. ASSUME NEW s \in LiveLinks(undo', End'), NEW o \in snap'[s].objs
          PROVE  o \in inuse /\ o \notin TransientObj
      <4>1. CASE s = c
        BY <2>5, <3>1, <4>1 DEF Snapshot
      <4>2. CASE s # c
        BY <2>4, <2>8, <3>1, <4>2 DEF UInv, SavesOK
      <4>3. QED BY <4>1, <4>2
    <3>2. QED BY <1>2, <2>1, <3>1 DEF SavesOK
  <2>10. ASSUME NEW o \in snap'[c].objs
         PROVE  RestoredAt(c, o)'
    <3>1. \A p : RecsAfter(c, o, p)' = {}
      <4>1. \A t \in Live(undo', End') : ~Before(undo', c, t)
        BY <1>1, <2>2, <2>3, LiveOrder DEF Grown, GoodUndo, Undo
      <4>2. QED BY <4>1 DEF RecsAfter, LiveNow
    <3>2. \A p : RolledVal(c, o, p)' = val'[o][p]
      BY <3>1, RolledValIn
    <3>3. \A p : RolledMod(c, o, p)' <=> <<o, p>> \in mod'
      BY <3>1 DEF RolledMod
    <3>4. RolledObjMod(c, o)' <=> o \in obj_mod'
      BY <3>1 DEF RolledObjMod
    <3>5. snap'[c].val = val /\ snap'[c].mod = mod /\ snap'[c].obj_mod = obj_mod
      BY <2>5 DEF Snapshot
    <3>6. QED BY <1>2, <3>2, <3>3, <3>4, <3>5 DEF RestoredAt
  <2>11. UndoRestores'
    <3>1. \A s \in LiveLinks(undo', End') : \A o \in snap'[s].objs : RestoredAt(s, o)'
      BY <2>4, <2>6, <2>8, <2>10
    <3>2. QED BY <3>1, RestoresAt
  <2>12. QED BY <2>6, <2>7, <2>9, <2>11 DEF UInv
<1>5. QED BY <1>3, <1>4

(* The end of the walk: the current savepoint, its records all put back,   *)
(* is given up.                                                            *)
LEMMA UndoFinishUInv ==
  ASSUME IInv, UInv, UndoFinish
  PROVE  UInv'
<1>1. /\ undo \in Undo /\ meta \in Slot /\ End = meta /\ ChainOK(undo, meta)
      /\ undo.savept_cnt # 0 /\ Dec(meta) = undo.cur_first
      /\ undo' = PopSavept(undo) /\ meta' = NoRec /\ End' = undo'.next_free
      /\ in_undo' = inuse /\ prop_undo' = {}
      /\ UNCHANGED <<inuse, val, added, mod, obj_mod, held, snap>>
  BY LogNow DEF UndoFinish, End
<1>2. Grown(undo, End, undo', End', {})
  BY <1>1, PopGrown
<1>3. /\ EntriesOK' /\ OwnersOK' /\ ValuesOK' /\ AddedOK'
      /\ \A s \in LiveLinks(undo', End') \ {} : \A o \in snap[s].objs :
           snap'[s] = snap[s] => RestoredAt(s, o)'
  BY <1>1, <1>2, RecordsQuiet
<1>4. ObjectsOK'
  BY <1>1 DEF UInv, ObjectsOK
<1>5. \A s \in LiveLinks(undo', End') \ {} : s \in LiveLinks(undo, End)
  BY <1>2, RecsKept
<1>6. SavesOK'
  <2>1. \A s \in LiveLinks(undo', End') : \A o \in snap'[s].objs :
          o \in inuse' /\ o \notin TransientObj /\ o \in in_undo'
    BY <1>1, <1>5 DEF UInv, SavesOK
  <2>2. QED BY <1>1, <2>1 DEF SavesOK
<1>7. UndoRestores'
  <2>1. \A s \in LiveLinks(undo', End') : \A o \in snap'[s].objs : RestoredAt(s, o)'
    BY <1>1, <1>3
  <2>2. QED BY <2>1, RestoresAt
<1>8. QED BY <1>3, <1>4, <1>6, <1>7 DEF UInv

(* A new object has no properties, no records, and no savepoint saw it.    *)
LEMMA CreateUInv ==
  ASSUME IInv, UInv, NEW n \in Obj, Create(n)
  PROVE  UInv'
<1>1. /\ n \notin inuse /\ meta = NoRec /\ meta' = NoRec /\ TypeOK
      /\ inuse' = inuse \cup {n} /\ in_undo' = in_undo \ {n} /\ held' = held \cup {n}
      /\ UNCHANGED <<undo, added, mod, prop_undo, obj_mod, snap>> /\ End' = End
  BY DEF Create, IInv, End
<1>2. /\ \A o \in Obj : o # n => val'[o] = val[o]
      /\ \A p \in Prop : val'[n][p] = Absent
  BY <1>1 DEF Create, TypeOK
<1>3. Absent \notin Obj
  BY ObjAssumption
<1>4. ObjectsOK'
  <2>1. \A o \in inuse', p \in Prop : val'[o][p] \in Obj =>
          val'[o][p] \in inuse' /\ (val'[o][p] \in RootObj \/ <<o, p>> \in mod')
    BY <1>1, <1>2, <1>3 DEF UInv, ObjectsOK, TypeOK
  <2>2. \A o \in Obj, p \in Prop : <<o, p>> \in mod' =>
          o \in inuse' /\ val'[o][p] \notin {Absent, Blank}
    BY <1>1, <1>2 DEF UInv, ObjectsOK
  <2>3. QED BY <1>1, <2>1, <2>2 DEF UInv, ObjectsOK
<1>5. EntriesOK'
  <2>1. \A o \in Obj \ {n} : val'[o] = val[o]
    BY <1>2
  <2>2. DOMAIN added[n] = {}
    <3>1. added[n] = <<>>
      BY <1>1 DEF UInv, EntriesOK
    <3>2. QED BY <3>1
  <2>3. QED BY <1>1, <2>1, <2>2 DEF UInv, EntriesOK
<1>6. /\ LiveRecs' = LiveRecs
      /\ \A t : /\ Owner(t)' = Owner(t) /\ PropOf(t)' = PropOf(t) /\ OldVal(t)' = OldVal(t)
                /\ Later(t)' = Later(t)
      /\ \A t \in LiveRecs : Owner(t) \in Obj \ {n} /\ val'[Owner(t)] = val[Owner(t)]
  <2>1. LiveRecs' = LiveRecs
    BY <1>1 DEF LiveRecs, LiveNow
  <2>2. \A t \in LiveRecs : Owner(t) \in Obj \ {n}
    BY <1>1 DEF UInv, OwnersOK, TypeOK
  <2>3. \A t \in LiveRecs : val'[Owner(t)] = val[Owner(t)]
    BY <1>2, <2>2
  <2>4. QED BY <1>1, <2>1, <2>2, <2>3 DEF Owner, PropOf, OldVal, Later
<1>7. OwnersOK'
  BY <1>1, <1>6 DEF UInv, OwnersOK
<1>8. ValuesOK'
  BY <1>1, <1>6 DEF UInv, ValuesOK
<1>9. AddedOK'
  <2>1. \A t \in LiveRecs : AddedLast(t)' <=> AddedLast(t)
    BY <1>1, <1>6 DEF AddedLast
  <2>2. QED BY <1>6, <2>1 DEF UInv, AddedOK
<1>10. SavesOK'
  <2>1. LiveNow' = LiveNow /\ LiveLinks(undo', End') = LiveLinks(undo, End)
    BY <1>1 DEF LiveNow
  <2>2. \A o : InUndo(o)' => InUndo(o)
    BY <1>1 DEF InUndo
  <2>3. \A s \in LiveLinks(undo, End) : \A o \in snap[s].objs :
          o \in inuse' /\ o \notin TransientObj /\ o \in in_undo'
    BY <1>1 DEF UInv, SavesOK
  <2>4. QED BY <1>1, <2>1, <2>2, <2>3 DEF UInv, SavesOK, RecsAfter, Before
<1>11. UndoRestores'
  <2>1. Grown(undo, End, undo', End', {}) /\ LiveLinks(undo', End') = LiveLinks(undo, End)
    BY <1>1 DEF Grown
  <2>2. ASSUME NEW s \in LiveLinks(undo, End), NEW o \in snap[s].objs
        PROVE  RestoredAt(s, o)'
    <3>1. RestoredAt(s, o) /\ s \in Live(undo', End') \ {}
      BY <1>1, RestoresAt DEF UInv, LiveLinks
    <3>2. o \in Obj /\ o # n
      BY <1>1 DEF UInv, SavesOK, TypeOK
    <3>3. QED BY <1>1, <1>2, <2>1, <3>1, <3>2, RestoredSame
  <2>3. QED BY <1>1, <2>1, <2>2, RestoresAt
<1>12. QED BY <1>4, <1>5, <1>7, <1>8, <1>9, <1>10, <1>11 DEF UInv

(* RESTART forgets all undo.                                               *)
LEMMA ResetUInv ==
  ASSUME IInv, UInv, ResetToImage
  PROVE  UInv'
<1> DEFINE reset == RootObj \ TransientObj
<1>1. /\ undo'.savept_cnt = 0 /\ TypeOK /\ meta = NoRec /\ meta' = NoRec
      /\ inuse' = inuse /\ held' = held
      /\ mod' = {m \in mod : m[1] \notin reset}
      /\ prop_undo' = {m \in prop_undo : m[1] \notin reset}
  BY DEF ResetToImage, DropUndo, IInv
<1>2. /\ \A o \in Obj \cap reset : val'[o] = ImageVal[o] /\ added'[o] = <<>>
      /\ \A o \in Obj \ reset : val'[o] = val[o] /\ added'[o] = added[o]
  BY DEF ResetToImage
<1>3. OwnersOK' /\ ValuesOK' /\ AddedOK' /\ SavesOK' /\ UndoRestores'
  BY <1>1, EmptyLog
<1>4. \A o \in reset, p \in Prop : ImageVal[o][p] \in RootObj \cup {Nil, Absent}
  BY ObjAssumption
<1>5. ObjectsOK'
  <2>1. ASSUME NEW o \in inuse, NEW p \in Prop, val'[o][p] \in Obj
        PROVE  val'[o][p] \in inuse /\ (val'[o][p] \in RootObj \/ <<o, p>> \in mod')
    <3>1. o \in Obj
      BY <1>1 DEF TypeOK
    <3>2. CASE o \in reset
      BY <1>2, <1>4, <2>1, <3>1, <3>2, ObjAssumption DEF UInv, ObjectsOK
    <3>3. CASE o \notin reset
      <4>1. val'[o][p] = val[o][p]
        BY <1>2, <3>1, <3>3
      <4>2. QED BY <1>1, <2>1, <3>3, <4>1 DEF UInv, ObjectsOK
    <3>4. QED BY <3>2, <3>3
  <2>2. ASSUME NEW o \in Obj, NEW p \in Prop, <<o, p>> \in mod'
        PROVE  o \in inuse /\ val'[o][p] \notin {Absent, Blank}
    <3>1. <<o, p>> \in mod /\ o \notin reset
      BY <1>1, <2>2
    <3>2. QED BY <1>2, <3>1 DEF UInv, ObjectsOK
  <2>3. prop_undo' \subseteq mod'
    BY <1>1 DEF UInv, ObjectsOK
  <2>4. QED BY <1>1, <2>1, <2>2, <2>3 DEF UInv, ObjectsOK
<1>6. EntriesOK'
  <2>1. ASSUME NEW o \in Obj
        PROVE  /\ o \notin inuse => added'[o] = <<>>
               /\ \A i \in DOMAIN added'[o] : val'[o][added'[o][i]] # Absent
               /\ \A i, j \in DOMAIN added'[o] : added'[o][i] = added'[o][j] => i = j
    <3>1. CASE o \in reset
      <4>1. added'[o] = <<>> /\ DOMAIN <<>> = {}
        BY <1>2, <3>1
      <4>2. QED BY <4>1
    <3>2. CASE o \notin reset
      <4>1. added'[o] = added[o] /\ val'[o] = val[o]
        BY <1>2, <3>2
      <4>2. QED BY <4>1 DEF UInv, EntriesOK
    <3>3. QED BY <3>1, <3>2
  <2>2. QED BY <1>1, <2>1 DEF EntriesOK
<1>7. QED BY <1>3, <1>5, <1>6 DEF UInv

(* What the collector reaches contains its roots and is closed.            *)
LEMMA ReachOK ==
  ASSUME NEW S, S \subseteq Obj
  PROVE  S \subseteq Reach(S) /\ Reach(S) \subseteq Obj /\ Closed(Reach(S))
<1>1. S \subseteq Reach(S) /\ Reach(S) \subseteq Obj
  BY DEF Reach
<1>2. ASSUME NEW o \in Reach(S), NEW r \in Refs(o)
      PROVE  r \in Reach(S)
  <2>1. r \in Obj
    BY <1>2 DEF Refs
  <2>2. \A C \in SUBSET Obj : S \subseteq C /\ Closed(C) => r \in C
    BY <1>2 DEF Reach, Closed
  <2>3. QED BY <2>1, <2>2 DEF Reach
<1>3. QED BY <1>1, <1>2 DEF Closed

(* A collection keeps what the program and the undo list refer to; the     *)
(* records of the objects it frees lose their owners.                      *)
LEMMA CollectUInv ==
  ASSUME IInv, UInv, Collect
  PROVE  UInv'
<1> DEFINE S == RootObj \cup held \cup UndoRefs
<1>1. /\ TypeOK /\ meta = NoRec /\ meta' = NoRec /\ GoodUndo(undo) /\ End = undo.next_free
      /\ undo \in Undo
  BY LogNow DEF Collect, IInv
<1>2. PICK G : G = Garbage
  OBVIOUS
<1>3. /\ inuse' = inuse \ G /\ in_undo' = in_undo \ G
      /\ mod' = {m \in mod : m[1] \notin G}
      /\ prop_undo' = {m \in prop_undo : m[1] \notin G}
      /\ obj_mod' = obj_mod \ G /\ held' = held
  BY <1>2 DEF Collect
<1>4. /\ \A o \in Obj \cap G : (\A p \in Prop : val'[o][p] = Absent) /\ added'[o] = <<>>
      /\ \A o \in Obj \ G : val'[o] = val[o] /\ added'[o] = added[o]
  BY <1>2 DEF Collect
<1>5. \A s \in Slot : /\ snap'[s].objs = snap[s].objs \ G
                      /\ snap'[s].val = snap[s].val /\ snap'[s].mod = snap[s].mod
                      /\ snap'[s].obj_mod = snap[s].obj_mod
  <2>1. snap' = [s \in Slot |-> [snap[s] EXCEPT !.objs = snap[s].objs \ G]]
    BY <1>2 DEF Collect
  <2>2. \A s \in Slot : snap[s] \in Snap
    BY <1>1 DEF TypeOK
  <2>3. QED BY <2>1, <2>2 DEF Snap
<1>6. /\ G \subseteq inuse /\ G \subseteq Obj /\ S \subseteq inuse /\ S \cap G = {}
      /\ \A o \in inuse \ G : Refs(o) \cap G = {}
  <2>1. S \subseteq inuse /\ inuse \subseteq Obj
    BY <1>1 DEF UInv, ObjectsOK, OwnersOK, UndoRefs, LiveRecs, Owner, OldVal, TypeOK
  <2>2. G = inuse \ Reach(S)
    BY <1>2 DEF Garbage
  <2> HIDE DEF S
  <2>3. S \subseteq Reach(S) /\ Closed(Reach(S))
    BY <2>1, ReachOK
  <2>4. QED BY <2>1, <2>2, <2>3 DEF Closed
<1>7. /\ undo'.oldest_first = undo.oldest_first /\ undo'.next_free = undo.next_free
      /\ undo'.savept_cnt = undo.savept_cnt /\ undo'.cur_first = undo.cur_first
      /\ End' = End /\ Live(undo', End') = Live(undo, End) /\ LiveNow' = LiveNow
      /\ \A s, t : Before(undo', s, t) <=> Before(undo, s, t)
  <2>1. /\ undo'.oldest_first = undo.oldest_first /\ undo'.next_free = undo.next_free
        /\ undo'.savept_cnt = undo.savept_cnt /\ undo'.cur_first = undo.cur_first
    BY DEF Collect, EraseOwners
  <2>2. End' = End
    BY <1>1, <2>1 DEF End
  <2>3. QED BY <2>1, <2>2 DEF Live, LiveNow, Before
<1>8. ASSUME NEW s \in Live(undo, End)
      PROVE  undo'.rec_arr[s] = IF undo.rec_arr[s].kind = "rec" /\ undo.rec_arr[s].obj \in G
                                THEN Rec(InvalidObj, undo.rec_arr[s].prop,
                                         undo.rec_arr[s].oldval)
                                ELSE undo.rec_arr[s]
  <2>1. undo' = EraseOwners(undo, G) /\ s \in Slot /\ s \in Live(undo, undo.next_free)
    BY <1>1, <1>2 DEF Collect, Live
  <2>2. QED BY <2>1 DEF EraseOwners
<1>9. \A s \in Live(undo, End) :
        /\ undo'.rec_arr[s].kind = undo.rec_arr[s].kind
        /\ undo'.rec_arr[s].kind = "rec" /\ undo'.rec_arr[s].obj # InvalidObj =>
             undo.rec_arr[s].obj \notin G
        /\ undo.rec_arr[s].kind # "rec" \/ undo.rec_arr[s].obj \notin G =>
             undo'.rec_arr[s] = undo.rec_arr[s]
  <2>1. \A p, v : Rec(InvalidObj, p, v).kind = "rec" /\ Rec(InvalidObj, p, v).obj = InvalidObj
    BY DEF Rec
  <2>2. QED BY <1>8, <2>1
<1> HIDE DEF S
<1>10. /\ LiveLinks(undo', End') = LiveLinks(undo, End)
       /\ LiveLinks(undo, End) \subseteq Slot
  BY <1>7, <1>9 DEF LiveLinks, Live
<1>11. \A t \in LiveRecs' : /\ t \in LiveRecs /\ undo'.rec_arr[t] = undo.rec_arr[t]
                            /\ Owner(t) \notin G /\ Owner(t) \in Obj
  <2>1. \A t \in LiveRecs' : /\ t \in LiveRecs /\ undo'.rec_arr[t] = undo.rec_arr[t]
                             /\ Owner(t) \notin G
    BY <1>7, <1>9 DEF LiveRecs, Owner, LiveNow
  <2>2. \A t \in LiveRecs : Owner(t) \in Obj
    BY <1>1 DEF UInv, OwnersOK, TypeOK
  <2>3. QED BY <2>1, <2>2
<1>12. \A t \in LiveRecs : Owner(t) \notin G =>
         t \in LiveRecs' /\ undo'.rec_arr[t] = undo.rec_arr[t]
  BY <1>7, <1>9 DEF LiveRecs, Owner, LiveNow
<1>13. /\ \A t \in LiveRecs' : /\ Owner(t)' = Owner(t) /\ PropOf(t)' = PropOf(t)
                               /\ OldVal(t)' = OldVal(t)
                               /\ Later(t)' \subseteq Later(t)
                               /\ \A t2 \in Later(t)' : OldVal(t2)' = OldVal(t2)
  BY <1>7, <1>11 DEF Owner, PropOf, OldVal, Later
<1>14. ObjectsOK'
  <2>1. RootObj \subseteq inuse' /\ held' \subseteq inuse'
    BY <1>3, <1>6 DEF UInv, ObjectsOK, S
  <2>2. ASSUME NEW o \in inuse', NEW p \in Prop, val'[o][p] \in Obj
        PROVE  val'[o][p] \in inuse' /\ (val'[o][p] \in RootObj \/ <<o, p>> \in mod')
    <3>1. o \in inuse /\ o \notin G /\ o \in Obj /\ val'[o][p] = val[o][p]
      BY <1>1, <1>3, <1>4, <2>2 DEF TypeOK
    <3>2. val[o][p] \in inuse /\ (val[o][p] \in RootObj \/ <<o, p>> \in mod)
      BY <2>2, <3>1 DEF UInv, ObjectsOK
    <3>3. CASE val[o][p] \in RootObj
      BY <2>1, <3>1, <3>3
    <3>4. CASE <<o, p>> \in mod
      <4>1. val[o][p] \in Refs(o)
        BY <2>2, <3>1, <3>4 DEF Refs
      <4>2. val[o][p] \notin G
        BY <1>6, <3>1, <4>1
      <4>3. <<o, p>> \in mod'
        BY <1>3, <3>1, <3>4
      <4>4. QED BY <1>3, <3>1, <3>2, <4>2, <4>3
    <3>5. QED BY <3>2, <3>3, <3>4
  <2>3. ASSUME NEW o \in Obj, NEW p \in Prop, <<o, p>> \in mod'
        PROVE  o \in inuse' /\ val'[o][p] \notin {Absent, Blank}
    <3>1. <<o, p>> \in mod /\ o \notin G
      BY <1>3, <2>3
    <3>2. QED BY <1>3, <1>4, <3>1 DEF UInv, ObjectsOK
  <2>4. prop_undo' \subseteq mod'
    BY <1>1, <1>3 DEF UInv, ObjectsOK
  <2>5. QED BY <2>1, <2>2, <2>3, <2>4 DEF ObjectsOK
<1>15. EntriesOK'
  <2>1. ASSUME NEW o \in Obj
        PROVE  /\ o \notin inuse' => added'[o] = <<>>
               /\ \A i \in DOMAIN added'[o] : val'[o][added'[o][i]] # Absent
               /\ \A i, j \in DOMAIN added'[o] : added'[o][i] = added'[o][j] => i = j
    <3>1. CASE o \in G
      <4>1. added'[o] = <<>> /\ DOMAIN <<>> = {}
        BY <1>4, <3>1
      <4>2. QED BY <4>1
    <3>2. CASE o \notin G
      <4>1. added'[o] = added[o] /\ val'[o] = val[o]
        BY <1>4, <3>2
      <4>2. QED BY <1>3, <3>2, <4>1 DEF UInv, EntriesOK
    <3>3. QED BY <3>1, <3>2
  <2>2. QED BY <2>1 DEF EntriesOK
<1>16. OwnersOK'
  <2>1. ASSUME NEW t \in LiveRecs'
        PROVE  /\ Owner(t) \in inuse' /\ Owner(t) \in in_undo' /\ Owner(t) \notin TransientObj
               /\ OldVal(t) \in Obj => OldVal(t) \in inuse'
    <3>1. /\ Owner(t) \in inuse' /\ Owner(t) \in in_undo' /\ Owner(t) \notin TransientObj
      BY <1>3, <1>11 DEF UInv, OwnersOK
    <3>2. OldVal(t) \in Obj => OldVal(t) \in S
      BY <1>11 DEF S, UndoRefs, LiveRecs, OldVal
    <3>3. QED BY <1>3, <1>6, <3>1, <3>2
  <2>2. QED BY <1>13, <2>1 DEF OwnersOK
<1>17. ValuesOK'
  <2>1. ASSUME NEW t \in LiveRecs', PropOf(t) # InvalidProp
        PROVE  /\ val'[Owner(t)][PropOf(t)] # Absent
               /\ \A t2 \in Later(t)' : OldVal(t2) # Absent
               /\ OldVal(t) \in Obj \ RootObj =>
                    /\ <<Owner(t), PropOf(t)>> \in mod'
                    /\ \A t2 \in Later(t)' : OldVal(t2) # Blank
    <3>1. val'[Owner(t)] = val[Owner(t)]
      BY <1>4, <1>11
    <3>2. <<Owner(t), PropOf(t)>> \in mod => <<Owner(t), PropOf(t)>> \in mod'
      BY <1>3, <1>11
    <3>3. QED BY <1>11, <1>13, <2>1, <3>1, <3>2 DEF UInv, ValuesOK
  <2>2. QED BY <1>13, <2>1 DEF ValuesOK
<1>18. AddedOK'
  <2>1. ASSUME NEW t \in LiveRecs', OldVal(t)' = Absent
        PROVE  AddedLast(t)'
    <3>1. AddedLast(t)
      BY <1>11, <1>13, <2>1 DEF UInv, AddedOK
    <3>2. added'[Owner(t)] = added[Owner(t)]
      BY <1>4, <1>11
    <3>3. PICK i \in DOMAIN added[Owner(t)] :
            /\ added[Owner(t)][i] = PropOf(t)
            /\ \A j \in DOMAIN added[Owner(t)] : j > i =>
                 \E t2 \in LiveRecs :
                   /\ Owner(t2) = Owner(t) /\ PropOf(t2) = added[Owner(t)][j]
                   /\ OldVal(t2) = Absent /\ Before(undo, t, t2)
      BY <3>1 DEF AddedLast
    <3>4. ASSUME NEW j \in DOMAIN added[Owner(t)], j > i
          PROVE  \E t2 \in LiveRecs' :
                   /\ Owner(t2)' = Owner(t) /\ PropOf(t2)' = added[Owner(t)][j]
                   /\ OldVal(t2)' = Absent /\ Before(undo', t, t2)
      <4>1. PICK t2 \in LiveRecs :
              /\ Owner(t2) = Owner(t) /\ PropOf(t2) = added[Owner(t)][j]
              /\ OldVal(t2) = Absent /\ Before(undo, t, t2)
        BY <3>3, <3>4
      <4>2. t2 \in LiveRecs'
        BY <1>11, <1>12, <4>1
      <4>3. QED BY <1>7, <1>13, <4>1, <4>2
    <3>5. QED BY <1>13, <3>2, <3>3, <3>4 DEF AddedLast
  <2>2. QED BY <2>1 DEF AddedOK
<1>19. ASSUME NEW s, NEW o \in Obj \ G, NEW p
       PROVE  /\ RecsAfter(s, o, p)' = RecsAfter(s, o, p)
              /\ \A t \in RecsAfter(s, o, p) : undo'.rec_arr[t] = undo.rec_arr[t]
              /\ RolledVal(s, o, p)' = RolledVal(s, o, p)
  <2>1. o # InvalidObj
    BY ObjAssumption
  <2>2. RecsAfter(s, o, p)' = RecsAfter(s, o, p)
    <3>1. \A t \in LiveNow : undo.rec_arr[t].kind = "rec" /\ undo.rec_arr[t].obj = o =>
             undo'.rec_arr[t] = undo.rec_arr[t]
      BY <1>9, <2>1 DEF LiveNow
    <3>2. \A t \in LiveNow : undo'.rec_arr[t].kind = "rec" /\ undo'.rec_arr[t].obj = o =>
             undo'.rec_arr[t] = undo.rec_arr[t]
      BY <1>9, <2>1 DEF LiveNow
    <3>3. QED BY <1>7, <3>1, <3>2 DEF RecsAfter
  <2>3. \A t \in RecsAfter(s, o, p) : undo'.rec_arr[t] = undo.rec_arr[t]
    BY <1>9, <2>1 DEF RecsAfter, LiveNow
  <2>4. \A R : OldestIn(undo', R) = OldestIn(undo, R)
    BY <1>7 DEF OldestIn
  <2>5. RecsAfter(s, o, p) # {} => OldestIn(undo, RecsAfter(s, o, p)) \in RecsAfter(s, o, p)
    <3> SUFFICES ASSUME RecsAfter(s, o, p) # {}
                 PROVE  OldestIn(undo, RecsAfter(s, o, p)) \in RecsAfter(s, o, p)
      OBVIOUS
    <3>1. RecsAfter(s, o, p) \subseteq Live(undo, End)
      BY DEF RecsAfter, LiveNow
    <3>2. \E t \in RecsAfter(s, o, p) : \A t2 \in RecsAfter(s, o, p) : ~Before(undo, t2, t)
      BY <3>1, LogNow, FirstExists
    <3>3. QED BY <3>2 DEF OldestIn
  <2>6. val'[o] = val[o]
    BY <1>4
  <2>7. QED BY <2>2, <2>3, <2>4, <2>5, <2>6, RolledValIn
<1>20. SavesOK'
  <2>1. \A s \in LiveLinks(undo', End') : \A o \in snap'[s].objs :
          o \in inuse' /\ o \notin TransientObj /\ o \in in_undo'
    BY <1>1, <1>3, <1>5, <1>10 DEF UInv, SavesOK
  <2>2. PICK c : c = undo.cur_first /\ c = undo'.cur_first
    BY <1>7
  <2>3. ASSUME undo.savept_cnt # 0, NEW o \in Obj, NEW p \in Prop, <<o, p>> \in prop_undo',
               InUndo(o)'
        PROVE  RecsAfter(c, o, p)' # {}
    <3>1. <<o, p>> \in prop_undo /\ InUndo(o) /\ o \notin G
      BY <1>3, <2>3 DEF InUndo
    <3>2. RecsAfter(c, o, p) # {}
      BY <1>1, <2>2, <2>3, <3>1 DEF UInv, SavesOK
    <3>3. QED BY <1>19, <3>1, <3>2
  <2>4. QED BY <1>7, <2>1, <2>2, <2>3 DEF SavesOK
<1>21. UndoRestores'
  <2>1. ASSUME NEW s \in LiveLinks(undo, End), NEW o \in snap[s].objs \ G
        PROVE  RestoredAt(s, o)'
    <3>1. RestoredAt(s, o) /\ s \in Slot
      BY <1>10, RestoresAt DEF UInv
    <3>2. o \in Obj
      BY <1>1 DEF UInv, SavesOK, TypeOK
    <3>3. \A p : /\ RecsAfter(s, o, p)' = RecsAfter(s, o, p)
                 /\ \A t \in RecsAfter(s, o, p) : undo'.rec_arr[t] = undo.rec_arr[t]
                 /\ RolledVal(s, o, p)' = RolledVal(s, o, p)
      BY <1>19, <3>2
    <3>4. (o \in obj_mod' <=> o \in obj_mod) /\ \A p : <<o, p>> \in mod' <=> <<o, p>> \in mod
      BY <1>3
    <3>5. \A p : RolledMod(s, o, p)' <=> RolledMod(s, o, p)
      BY <3>3, <3>4 DEF RolledMod
    <3>6. RolledObjMod(s, o)' <=> RolledObjMod(s, o)
      BY <3>3, <3>4 DEF RolledObjMod
    <3>7. QED BY <1>5, <3>1, <3>3, <3>5, <3>6 DEF RestoredAt
  <2>2. QED BY <1>5, <1>10, <2>1, RestoresAt
<1>22. QED
  BY <1>14, <1>15, <1>16, <1>17, <1>18, <1>20, <1>21 DEF UInv
------------------------------------------------------------------------------
(* One step of the backward walk.                                          *)

(* The record the walk comes to is behind all others in use.               *)
LEMMA LastSlot ==
  ASSUME IInv, meta # NoRec, Dec(meta) # undo.cur_first, NEW x, x = Dec(meta)
  PROVE  /\ x \in Slot /\ x \in LiveNow /\ undo.rec_arr[x].kind = "rec"
         /\ Live(undo, x) = LiveNow \ {x}
         /\ \A t \in LiveNow \ {x} : Before(undo, t, x) /\ ~Before(undo, x, t)
         /\ ~Before(undo, x, x)
<1>1. /\ undo \in Undo /\ End = meta /\ meta \in Slot /\ ChainOK(undo, meta)
      /\ undo.savept_cnt # 0 /\ Dec(meta) # undo.cur_first
      /\ LiveNow = Live(undo, meta)
  BY LogNow DEF LiveNow
<1>2. /\ x \in Live(undo, meta) /\ undo.rec_arr[x].kind = "rec"
      /\ Live(undo, x) = Live(undo, meta) \ {x}
  BY <1>1, StepBackOK
<1>3. x \in Slot
  BY <1>2 DEF Live
<1>4. ASSUME NEW t \in LiveNow \ {x}
      PROVE  Before(undo, t, x) /\ ~Before(undo, x, t)
  <2> DEFINE f == undo.oldest_first
  <2>1. f \in Slot /\ t \in Slot /\ Off(f, t) < Size(f, meta)
    BY <1>1, ChainEnds DEF Live
  <2>2. Off(f, x) = Size(f, meta) - 1
    BY <1>1, <2>1, OffDec
  <2>3. Off(f, t) # Off(f, x)
    BY <1>3, <2>1, OffInjective
  <2>4. Off(f, t) \in Nat /\ Size(f, meta) \in Nat
    <3>1. Off(f, t) \in 0 .. RecArrSize - 1 /\ Size(f, meta) \in 1 .. RecArrSize
      BY <1>1, <2>1, OffRange
    <3>2. QED BY <3>1, SizeAssumption
  <2>5. Off(f, t) < Off(f, x) /\ ~(Off(f, x) < Off(f, t))
    <3> HIDE DEF f
    <3>1. QED BY <2>1, <2>2, <2>3, <2>4
  <2>6. QED BY <2>5 DEF Before
<1>5. ~Before(undo, x, x)
  BY <1>1, <1>2, LiveOrder
<1>6. QED BY <1>1, <1>2, <1>3, <1>4, <1>5

(* The step consumes that slot.                                            *)
LEMMA WalkBack ==
  ASSUME IInv, UInv, UndoStep, NEW x, x = Dec(meta)
  PROVE  /\ x \in LiveNow /\ undo.rec_arr[x].kind = "rec"
         /\ undo' = undo /\ meta' # NoRec /\ UNCHANGED <<inuse, in_undo, held, snap>>
         /\ LiveNow' = LiveNow \ {x} /\ LiveRecs' = LiveRecs \ {x}
         /\ LiveLinks(undo', End') = LiveLinks(undo, End)
         /\ \A t \in LiveNow \ {x} : Before(undo, t, x) /\ ~Before(undo, x, t)
         /\ \A s, o, p : RecsAfter(s, o, p)' = RecsAfter(s, o, p) \ {x}
         /\ \A t : /\ Owner(t)' = Owner(t) /\ PropOf(t)' = PropOf(t)
                   /\ OldVal(t)' = OldVal(t) /\ Later(t)' = Later(t) \ {x}
         /\ Apply(undo.rec_arr[x])
<1>1. /\ meta # NoRec /\ Dec(meta) # undo.cur_first
      /\ undo' = undo /\ meta' = x /\ Apply(undo.rec_arr[x])
      /\ UNCHANGED <<inuse, in_undo, held, snap>>
  BY DEF UndoStep
<1>2. /\ x \in Slot /\ x \in LiveNow /\ undo.rec_arr[x].kind = "rec"
      /\ Live(undo, x) = LiveNow \ {x}
      /\ \A t \in LiveNow \ {x} : Before(undo, t, x) /\ ~Before(undo, x, t)
  BY <1>1, LastSlot
<1>3. meta' # NoRec /\ End' = x
  <2>1. x # NoRec
    BY <1>2 DEF Slot, NoRec
  <2>2. QED BY <1>1, <2>1 DEF End
<1>4. LiveNow' = LiveNow \ {x}
  BY <1>1, <1>2, <1>3 DEF LiveNow
<1>5. LiveRecs' = LiveRecs \ {x}
  BY <1>1, <1>4 DEF LiveRecs
<1>6. LiveLinks(undo', End') = LiveLinks(undo, End)
  <2>1. Live(undo', End') = Live(undo, End) \ {x}
    BY <1>4 DEF LiveNow
  <2>2. QED BY <1>1, <1>2, <2>1 DEF LiveLinks
<1>7. \A s, o, p : RecsAfter(s, o, p)' = RecsAfter(s, o, p) \ {x}
  BY <1>1, <1>4 DEF RecsAfter, Before
<1>8. \A t : /\ Owner(t)' = Owner(t) /\ PropOf(t)' = PropOf(t)
             /\ OldVal(t)' = OldVal(t) /\ Later(t)' = Later(t) \ {x}
  BY <1>1, <1>5 DEF Owner, PropOf, OldVal, Later, Before
<1>9. QED
  BY <1>1, <1>2, <1>3, <1>4, <1>5, <1>6, <1>7, <1>8

(* A property without the record put back rolls back to the same.          *)
LEMMA RolledUntouched ==
  ASSUME IInv, UInv, UndoStep, NEW s, NEW o, NEW p,
         Dec(meta) \notin RecsAfter(s, o, p)
  PROVE  /\ RecsAfter(s, o, p)' = RecsAfter(s, o, p)
         /\ val'[o][p] = val[o][p] => RolledVal(s, o, p)' = RolledVal(s, o, p)
         /\ (<<o, p>> \in mod' <=> <<o, p>> \in mod) =>
              (RolledMod(s, o, p)' <=> RolledMod(s, o, p))
<1>1. RecsAfter(s, o, p)' = RecsAfter(s, o, p) /\ undo' = undo
  BY WalkBack
<1>2. val'[o][p] = val[o][p] => RolledVal(s, o, p)' = RolledVal(s, o, p)
  BY <1>1, RolledValIn
<1>3. (<<o, p>> \in mod' <=> <<o, p>> \in mod) =>
        (RolledMod(s, o, p)' <=> RolledMod(s, o, p))
  BY <1>1 DEF RolledMod
<1>4. QED BY <1>1, <1>2, <1>3

(* Putting back the last of a property's records.                          *)
LEMMA RolledLast ==
  ASSUME IInv, UInv, UndoStep, NEW x, x = Dec(meta),
         NEW s, NEW o, NEW p, x \in RecsAfter(s, o, p),
         val'[o][p] = undo.rec_arr[x].oldval,
         <<o, p>> \in mod' <=>
           <<o, p>> \in mod /\ undo.rec_arr[x].oldval \notin {Absent, Blank}
  PROVE  /\ RolledVal(s, o, p)' = RolledVal(s, o, p)
         /\ RolledMod(s, o, p)' <=> RolledMod(s, o, p)
<1>1. /\ undo' = undo /\ RecsAfter(s, o, p)' = RecsAfter(s, o, p) \ {x}
      /\ \A t \in RecsAfter(s, o, p) \ {x} : Before(undo, t, x) /\ ~Before(undo, x, t)
      /\ x \in LiveNow /\ RecsAfter(s, o, p) \subseteq Live(undo, End)
  BY WalkBack DEF RecsAfter, LiveNow
<1>2. PICK R : R = RecsAfter(s, o, p)
  OBVIOUS
<1>3. RolledVal(s, o, p) = undo.rec_arr[OldestIn(undo, R)].oldval
  BY <1>2, RolledValIn
<1>4. RolledMod(s, o, p)' <=> RolledMod(s, o, p)
  BY <1>1 DEF RolledMod
<1>5. CASE R = {x}
  <2>1. RecsAfter(s, o, p)' = {}
    BY <1>1, <1>2, <1>5
  <2>2. RolledVal(s, o, p)' = undo.rec_arr[x].oldval
    BY <2>1, RolledValIn
  <2>3. OldestIn(undo, R) = x
    <3>1. \E t \in R : \A t2 \in R : ~Before(undo, t2, t)
      BY <1>1, <1>2, LogNow, FirstExists
    <3>2. OldestIn(undo, R) \in R
      BY <3>1 DEF OldestIn
    <3>3. QED BY <1>5, <3>2
  <2>4. QED BY <1>3, <1>4, <2>2, <2>3
<1>6. CASE R # {x}
  <2>1. PICK r \in R \ {x} : Before(undo, r, x)
    BY <1>1, <1>2, <1>6
  <2>2. {t1 \in R : \A t2 \in R : ~Before(undo, t2, t1)} =
        {t1 \in R \ {x} : \A t2 \in R \ {x} : ~Before(undo, t2, t1)}
    BY <1>1, <1>2, <2>1
  <2>3. OldestIn(undo, R) = OldestIn(undo, R \ {x})
    BY <2>2 DEF OldestIn
  <2>4. RolledVal(s, o, p)' = undo.rec_arr[OldestIn(undo, R \ {x})].oldval
    <3>1. RecsAfter(s, o, p)' = R \ {x} /\ R \ {x} # {}
      BY <1>1, <1>2, <2>1
    <3>2. RolledVal(s, o, p)' =
            IF RecsAfter(s, o, p)' = {} THEN val'[o][p]
            ELSE undo'.rec_arr[OldestIn(undo', RecsAfter(s, o, p)')].oldval
      BY RolledValIn
    <3>3. QED BY <1>1, <3>1, <3>2
  <2>5. QED BY <1>3, <1>4, <2>3, <2>4
<1>7. QED BY <1>5, <1>6

(* A step of the walk puts back what every savepoint counts on: rolled     *)
(* back to any of them, an object is the same before and after the step.   *)
LEMMA WalkRolled ==
  ASSUME IInv, UInv, UndoStep, NEW s \in LiveLinks(undo, End), NEW o \in Obj
  PROVE  /\ \A p \in Prop : /\ RolledVal(s, o, p)' = RolledVal(s, o, p)
                            /\ RolledMod(s, o, p)' <=> RolledMod(s, o, p)
         /\ RolledObjMod(s, o)' <=> RolledObjMod(s, o)
<1>1. PICK x, r : x = Dec(meta) /\ r = undo.rec_arr[x]
  OBVIOUS
<1>2. /\ undo' = undo /\ x \in LiveNow /\ r.kind = "rec" /\ Apply(r)
      /\ \A t \in LiveNow \ {x} : Before(undo, t, x) /\ ~Before(undo, x, t)
      /\ o # InvalidObj /\ \A p \in Prop : p # InvalidProp
      /\ s \in LiveNow \ {x}
  <2>1. /\ undo' = undo /\ x \in LiveNow /\ r.kind = "rec" /\ Apply(r)
        /\ \A t \in LiveNow \ {x} : Before(undo, t, x) /\ ~Before(undo, x, t)
    BY <1>1, WalkBack
  <2>2. o # InvalidObj /\ \A p \in Prop : p # InvalidProp
    BY ObjAssumption
  <2>3. s \in LiveNow \ {x}
    BY <1>1, <2>1 DEF LiveLinks, LiveNow
  <2>4. QED BY <2>1, <2>2, <2>3
<1>3. \A p : x \in RecsAfter(s, o, p) <=> r.obj = o /\ r.prop = p
  BY <1>1, <1>2 DEF RecsAfter
<1>4. CASE r.obj = InvalidObj
  <2>1. UNCHANGED <<val, added, mod, prop_undo, obj_mod>>
    BY <1>2, <1>4 DEF Apply
  <2>2. \A p : x \notin RecsAfter(s, o, p)
    BY <1>2, <1>3, <1>4
  <2>3. \A p : /\ RecsAfter(s, o, p)' = RecsAfter(s, o, p)
               /\ RolledVal(s, o, p)' = RolledVal(s, o, p)
               /\ RolledMod(s, o, p)' <=> RolledMod(s, o, p)
    BY <1>1, <2>1, <2>2, RolledUntouched
  <2>4. QED BY <2>1, <2>3 DEF RolledObjMod
<1>5. CASE r.obj # InvalidObj /\ r.prop = InvalidProp
  <2>1. UNCHANGED <<val, added, mod, prop_undo>> /\ obj_mod' = obj_mod \ {r.obj}
    BY <1>2, <1>5 DEF Apply
  <2>2. \A p \in Prop : x \notin RecsAfter(s, o, p)
    BY <1>2, <1>3, <1>5
  <2>3. \A p \in Prop : /\ RolledVal(s, o, p)' = RolledVal(s, o, p)
                        /\ RolledMod(s, o, p)' <=> RolledMod(s, o, p)
    BY <1>1, <2>1, <2>2, RolledUntouched
  <2>4. CASE o = r.obj
    <3>1. RecsAfter(s, o, InvalidProp) # {}
      BY <1>3, <1>5, <2>4
    <3>2. QED BY <2>1, <2>3, <2>4, <3>1 DEF RolledObjMod
  <2>5. CASE o # r.obj
    <3>1. x \notin RecsAfter(s, o, InvalidProp)
      BY <1>3, <2>5
    <3>2. RecsAfter(s, o, InvalidProp)' = RecsAfter(s, o, InvalidProp)
      BY <1>1, <3>1, RolledUntouched
    <3>3. QED BY <2>1, <2>3, <2>5, <3>2 DEF RolledObjMod
  <2>6. QED BY <2>4, <2>5
<1>6. CASE r.obj # InvalidObj /\ r.prop # InvalidProp
  <2>1. /\ val' = [val EXCEPT ![r.obj][r.prop] = r.oldval] /\ obj_mod' = obj_mod
        /\ mod' = IF r.oldval \in {Absent, Blank} THEN mod \ {<<r.obj, r.prop>>} ELSE mod
    BY <1>2, <1>6 DEF Apply
  <2>2. ASSUME NEW p \in Prop
        PROVE  /\ RolledVal(s, o, p)' = RolledVal(s, o, p)
               /\ RolledMod(s, o, p)' <=> RolledMod(s, o, p)
    <3>0. val \in [Obj -> [Prop -> RefVal]]
      BY DEF IInv, TypeOK
    <3>1. CASE r.obj = o /\ r.prop = p
      <4>1. /\ val'[o][p] = r.oldval
            /\ <<o, p>> \in mod' <=> <<o, p>> \in mod /\ r.oldval \notin {Absent, Blank}
        BY <2>1, <3>0, <3>1
      <4>2. x \in RecsAfter(s, o, p)
        BY <1>3, <3>1
      <4>3. QED BY <1>1, <4>1, <4>2, RolledLast
    <3>2. CASE ~(r.obj = o /\ r.prop = p)
      <4>1. val'[o][p] = val[o][p]
        BY <2>1, <3>0, <3>2
      <4>2. <<o, p>> \in mod' <=> <<o, p>> \in mod
        BY <2>1, <3>2
      <4>3. x \notin RecsAfter(s, o, p)
        BY <1>3, <3>2
      <4>4. QED BY <1>1, <4>1, <4>2, <4>3, RolledUntouched
    <3>3. QED BY <3>1, <3>2
  <2>3. x \notin RecsAfter(s, o, InvalidProp)
    BY <1>3, <1>6
  <2>4. RecsAfter(s, o, InvalidProp)' = RecsAfter(s, o, InvalidProp)
    BY <1>1, <2>3, RolledUntouched
  <2>5. QED BY <2>1, <2>2, <2>4 DEF RolledObjMod
<1>7. QED BY <1>4, <1>5, <1>6

(* So the walk keeps the promise of every savepoint.                       *)
LEMMA WalkRestores ==
  ASSUME IInv, UInv, UndoStep
  PROVE  UndoRestores'
<1>1. /\ snap' = snap /\ LiveLinks(undo', End') = LiveLinks(undo, End)
  BY WalkBack
<1>2. ASSUME NEW s \in LiveLinks(undo, End), NEW o \in snap[s].objs
      PROVE  RestoredAt(s, o)'
  <2>1. RestoredAt(s, o) /\ o \in Obj
    BY RestoresAt DEF UInv, SavesOK, IInv, TypeOK
  <2>2. QED BY <1>1, <2>1, WalkRolled DEF RestoredAt
<1>3. QED BY <1>1, <1>2, RestoresAt

(* Putting back a record of a deleted object does nothing.                 *)
LEMMA WalkNoOwner ==
  ASSUME IInv, UInv, UndoStep, undo.rec_arr[Dec(meta)].obj = InvalidObj
  PROVE  UInv'
<1>1. PICK x : x = Dec(meta)
  OBVIOUS
<1>2. /\ undo' = undo /\ meta' # NoRec /\ UNCHANGED <<inuse, in_undo, held, snap>>
      /\ LiveRecs' = LiveRecs \ {x}
      /\ LiveLinks(undo', End') = LiveLinks(undo, End)
      /\ \A t : /\ Owner(t)' = Owner(t) /\ PropOf(t)' = PropOf(t)
                /\ OldVal(t)' = OldVal(t) /\ Later(t)' = Later(t) \ {x}
      /\ Apply(undo.rec_arr[x])
  BY <1>1, WalkBack
<1>3. UNCHANGED <<val, added, mod, prop_undo, obj_mod>>
  BY <1>1, <1>2 DEF Apply
<1>4. x \notin LiveRecs /\ LiveRecs' = LiveRecs
  BY <1>1, <1>2 DEF LiveRecs
<1>5. ObjectsOK' /\ EntriesOK' /\ SavesOK'
  BY <1>2, <1>3 DEF UInv, ObjectsOK, EntriesOK, SavesOK
<1>6. OwnersOK' /\ ValuesOK'
  BY <1>2, <1>3, <1>4 DEF UInv, OwnersOK, ValuesOK
<1>7. AddedOK'
  <2>1. \A t \in LiveRecs : AddedLast(t)' <=> AddedLast(t)
    BY <1>2, <1>3, <1>4 DEF AddedLast
  <2>2. QED BY <1>2, <1>4, <2>1 DEF UInv, AddedOK
<1>8. UndoRestores'
  BY WalkRestores
<1>9. QED BY <1>5, <1>6, <1>7, <1>8 DEF UInv

(* Putting back that an object was not modified.                           *)
LEMMA WalkObject ==
  ASSUME IInv, UInv, UndoStep, undo.rec_arr[Dec(meta)].obj # InvalidObj,
         undo.rec_arr[Dec(meta)].prop = InvalidProp
  PROVE  UInv'
<1>1. PICK x : x = Dec(meta)
  OBVIOUS
<1>2. /\ undo' = undo /\ meta' # NoRec /\ UNCHANGED <<inuse, in_undo, held, snap>>
      /\ LiveRecs' = LiveRecs \ {x} /\ LiveNow' = LiveNow \ {x} /\ x \in LiveNow
      /\ LiveLinks(undo', End') = LiveLinks(undo, End)
      /\ \A t : /\ Owner(t)' = Owner(t) /\ PropOf(t)' = PropOf(t)
                /\ OldVal(t)' = OldVal(t) /\ Later(t)' = Later(t) \ {x}
      /\ \A t \in LiveNow \ {x} : Before(undo, t, x) /\ ~Before(undo, x, t)
      /\ undo.rec_arr[x].kind = "rec" /\ Apply(undo.rec_arr[x])
  BY <1>1, WalkBack
<1>3. /\ UNCHANGED <<val, added, mod, prop_undo>>
      /\ obj_mod' = obj_mod \ {undo.rec_arr[x].obj}
  BY <1>1, <1>2 DEF Apply
<1>4. ObjectsOK' /\ EntriesOK' /\ SavesOK'
  BY <1>2, <1>3 DEF UInv, ObjectsOK, EntriesOK, SavesOK
<1>5. OwnersOK' /\ ValuesOK'
  BY <1>2, <1>3 DEF UInv, OwnersOK, ValuesOK
<1>6. ASSUME NEW t \in LiveRecs', OldVal(t)' = Absent
      PROVE  AddedLast(t)'
  <2>1. AddedLast(t) /\ t \in LiveRecs
    BY <1>2, <1>6 DEF UInv, AddedOK
  <2>2. \A j \in DOMAIN added[Owner(t)] : added[Owner(t)][j] \in Prop
    <3>1. Owner(t) \in Obj
      BY <2>1 DEF UInv, OwnersOK, IInv, TypeOK
    <3>2. QED BY <3>1 DEF IInv, TypeOK
  <2>3. \A j \in DOMAIN added[Owner(t)] : PropOf(x) # added[Owner(t)][j]
    BY <1>1, <2>2, ObjAssumption DEF PropOf
  <2>4. QED BY <1>2, <1>3, <2>1, <2>3 DEF AddedLast
<1>7. AddedOK'
  BY <1>6 DEF AddedOK
<1>8. UndoRestores'
  BY WalkRestores
<1>9. QED BY <1>4, <1>5, <1>7, <1>8 DEF UInv

(* When the last record of an object says that a property was added, the   *)
(* property is the last of the object's array, and found only there.       *)
LEMMA AddedIsLast ==
  ASSUME IInv, UInv, NEW x \in LiveRecs, OldVal(x) = Absent,
         \A t \in LiveRecs : ~Before(undo, x, t)
  PROVE  LET a == added[Owner(x)] IN
         /\ a \in Seq(Prop) /\ Len(a) \in Nat \ {0} /\ DOMAIN a = 1 .. Len(a)
         /\ a[Len(a)] = PropOf(x)
         /\ DropEntry(a) \in Seq(Prop) /\ DOMAIN DropEntry(a) = 1 .. Len(a) - 1
         /\ \A i \in 1 .. Len(a) - 1 : DropEntry(a)[i] = a[i] /\ a[i] # PropOf(x)
<1> DEFINE a == added[Owner(x)]
<1>1. Owner(x) \in Obj /\ a \in Seq(Prop)
  BY DEF UInv, OwnersOK, IInv, TypeOK
<1>2. PICK i \in DOMAIN a : /\ a[i] = PropOf(x)
                            /\ \A j \in DOMAIN a : ~(j > i)
  BY DEF UInv, AddedOK, AddedLast
<1>3. \A j, k \in DOMAIN a : a[j] = a[k] => j = k
  BY <1>1 DEF UInv, EntriesOK
<1> HIDE DEF a
<1>4. Len(a) \in Nat \ {0} /\ DOMAIN a = 1 .. Len(a) /\ i = Len(a)
  <2>1. Len(a) \in Nat /\ DOMAIN a = 1 .. Len(a)
    BY <1>1
  <2>2. i \in 1 .. Len(a)
    BY <1>2, <2>1
  <2>3. Len(a) \in DOMAIN a
    BY <2>1, <2>2
  <2>4. ~(Len(a) > i)
    BY <1>2, <2>3
  <2>5. QED BY <2>1, <2>2, <2>4
<1>5. /\ DropEntry(a) \in Seq(Prop) /\ DOMAIN DropEntry(a) = 1 .. Len(a) - 1
      /\ \A j \in 1 .. Len(a) - 1 : DropEntry(a)[j] = a[j]
  <2>1. DropEntry(a) = [j \in 1 .. Len(a) - 1 |-> a[j]]
    BY <1>1, <1>4 DEF DropEntry
  <2>2. DropEntry(a) \in Seq(Prop)
    BY <1>1, <1>4 DEF DropEntry
  <2>3. QED BY <2>1, <2>2
<1>6. \A j \in 1 .. Len(a) - 1 : a[j] # PropOf(x)
  <2>0. \A k \in Nat : \A j \in 1 .. k - 1 : j \in 1 .. k /\ j # k
    OBVIOUS
  <2>1. \A j \in 1 .. Len(a) - 1 : j \in DOMAIN a /\ j # Len(a)
    <3>1. PICK k \in Nat : k = Len(a) /\ DOMAIN a = 1 .. k
      BY <1>4
    <3>2. QED BY <2>0, <3>1
  <2>2. QED BY <1>2, <1>3, <1>4, <2>1
<1>7. QED BY <1>1, <1>2, <1>4, <1>5, <1>6 DEF a

(* Putting back a property.                                                *)
LEMMA WalkProperty ==
  ASSUME IInv, UInv, UndoStep, undo.rec_arr[Dec(meta)].obj # InvalidObj,
         undo.rec_arr[Dec(meta)].prop # InvalidProp
  PROVE  UInv'
<1>1. PICK x : x = Dec(meta)
  OBVIOUS
<1>2. PICK o0, p0, v0 : o0 = Owner(x) /\ p0 = PropOf(x) /\ v0 = OldVal(x)
  OBVIOUS
<1>3. /\ undo' = undo /\ meta' # NoRec /\ UNCHANGED <<inuse, in_undo, held, snap>>
      /\ LiveRecs' = LiveRecs \ {x} /\ LiveNow' = LiveNow \ {x} /\ x \in LiveNow
      /\ LiveLinks(undo', End') = LiveLinks(undo, End)
      /\ \A t : /\ Owner(t)' = Owner(t) /\ PropOf(t)' = PropOf(t)
                /\ OldVal(t)' = OldVal(t) /\ Later(t)' = Later(t) \ {x}
      /\ \A t \in LiveNow \ {x} : Before(undo, t, x) /\ ~Before(undo, x, t)
      /\ undo.rec_arr[x].kind = "rec" /\ Apply(undo.rec_arr[x])
  BY <1>1, WalkBack
<1>4. /\ x \in LiveRecs /\ o0 \in Obj /\ o0 \in inuse /\ p0 \in Prop /\ v0 \in RefVal
      /\ undo.rec_arr[x].obj = o0 /\ undo.rec_arr[x].prop = p0
      /\ undo.rec_arr[x].oldval = v0 /\ TypeOK
  <2>1. x \in LiveRecs /\ TypeOK /\ x \in Slot /\ undo \in Undo
    BY <1>1, <1>3, LogNow DEF LiveRecs, IInv, LiveNow, Live
  <2>2. o0 \in inuse /\ o0 \in Obj
    BY <1>2, <2>1 DEF UInv, OwnersOK, TypeOK
  <2>3. p0 \in Prop /\ v0 \in RefVal
    BY <1>1, <1>2, <1>3, <2>1, SlotKinds DEF PropOf, OldVal
  <2>4. QED BY <1>2, <2>1, <2>2, <2>3 DEF Owner, PropOf, OldVal
<1>5. /\ val' = [val EXCEPT ![o0][p0] = v0]
      /\ added' = IF v0 = Absent THEN [added EXCEPT ![o0] = DropEntry(added[o0])] ELSE added
      /\ mod' = IF v0 \in {Absent, Blank} THEN mod \ {<<o0, p0>>} ELSE mod
      /\ obj_mod' = obj_mod
  BY <1>1, <1>3, <1>4 DEF Apply
<1>6. /\ val'[o0][p0] = v0
      /\ \A o \in Obj, p \in Prop : <<o, p>> # <<o0, p0>> => val'[o][p] = val[o][p]
      /\ \A o \in Obj : o # o0 => val'[o] = val[o]
  BY <1>4, <1>5 DEF TypeOK
<1>7. /\ mod' \subseteq mod
      /\ \A k : k # <<o0, p0>> => (k \in mod' <=> k \in mod)
      /\ <<o0, p0>> \in mod' <=> <<o0, p0>> \in mod /\ v0 \notin {Absent, Blank}
  BY <1>5
<1>8. /\ v0 \in Obj => v0 \in inuse
      /\ v0 \in Obj \ RootObj => <<o0, p0>> \in mod'
  <2>1. {Absent, Blank} \cap Obj = {}
    BY ObjAssumption
  <2>2. v0 \in Obj \ RootObj => <<o0, p0>> \in mod
    BY <1>1, <1>2, <1>4 DEF UInv, ValuesOK
  <2>3. v0 \in Obj => v0 \in inuse
    BY <1>2, <1>4 DEF UInv, OwnersOK
  <2>4. QED BY <1>7, <2>1, <2>2, <2>3
<1>9. ObjectsOK'
  <2>1. ASSUME NEW o \in inuse, NEW p \in Prop, val'[o][p] \in Obj
        PROVE  val'[o][p] \in inuse /\ (val'[o][p] \in RootObj \/ <<o, p>> \in mod')
    <3>1. CASE <<o, p>> = <<o0, p0>>
      BY <1>6, <1>8, <2>1, <3>1
    <3>2. CASE <<o, p>> # <<o0, p0>>
      <4>1. val'[o][p] = val[o][p] /\ (<<o, p>> \in mod' <=> <<o, p>> \in mod)
        BY <1>4, <1>6, <1>7, <3>2 DEF TypeOK
      <4>2. QED BY <2>1, <4>1 DEF UInv, ObjectsOK
    <3>3. QED BY <3>1, <3>2
  <2>2. ASSUME NEW o \in Obj, NEW p \in Prop, <<o, p>> \in mod'
        PROVE  o \in inuse /\ val'[o][p] \notin {Absent, Blank}
    <3>1. <<o, p>> \in mod
      BY <1>7, <2>2
    <3>2. CASE <<o, p>> = <<o0, p0>>
      BY <1>4, <1>6, <1>7, <2>2, <3>2
    <3>3. CASE <<o, p>> # <<o0, p0>>
      BY <1>6, <3>1, <3>3 DEF UInv, ObjectsOK
    <3>4. QED BY <3>2, <3>3
  <2>3. QED BY <1>3, <2>1, <2>2 DEF UInv, ObjectsOK
<1>10. ASSUME v0 = Absent
       PROVE  LET a == added[o0] IN
              /\ a \in Seq(Prop) /\ Len(a) \in Nat \ {0} /\ DOMAIN a = 1 .. Len(a)
              /\ a[Len(a)] = p0
              /\ DropEntry(a) \in Seq(Prop) /\ DOMAIN DropEntry(a) = 1 .. Len(a) - 1
              /\ \A i \in 1 .. Len(a) - 1 : DropEntry(a)[i] = a[i] /\ a[i] # p0
  <2>1. \A t \in LiveRecs : ~Before(undo, x, t)
    <3>1. LiveRecs \subseteq LiveNow
      BY DEF LiveRecs
    <3>2. ~Before(undo, x, x)
      BY <1>3, LogNow, LiveOrder DEF LiveNow
    <3>3. QED BY <1>3, <3>1, <3>2
  <2>2. QED BY <1>2, <1>4, <1>10, <2>1, AddedIsLast
<1>11. /\ \A o \in Obj : o # o0 \/ v0 # Absent => added'[o] = added[o]
       /\ v0 = Absent => added'[o0] = DropEntry(added[o0])
  BY <1>4, <1>5 DEF TypeOK
<1>12. EntriesOK'
  <2>1. ASSUME NEW o \in Obj
        PROVE  /\ o \notin inuse => added'[o] = <<>>
               /\ \A i \in DOMAIN added'[o] : val'[o][added'[o][i]] # Absent
               /\ \A i, j \in DOMAIN added'[o] : added'[o][i] = added'[o][j] => i = j
    <3>1. /\ o \notin inuse => added[o] = <<>>
          /\ \A i \in DOMAIN added[o] : val[o][added[o][i]] # Absent
          /\ \A i, j \in DOMAIN added[o] : added[o][i] = added[o][j] => i = j
      BY DEF UInv, EntriesOK
    <3>2. \A i \in DOMAIN added[o] : added[o][i] \in Prop
      BY <1>4 DEF TypeOK
    <3>3. CASE o # o0 \/ v0 # Absent
      <4>1. added'[o] = added[o]
        BY <1>11, <3>3
      <4>2. \A i \in DOMAIN added[o] : val'[o][added[o][i]] # Absent
        BY <1>6, <3>1, <3>2, <3>3
      <4>3. QED BY <3>1, <4>1, <4>2
    <3>4. CASE o = o0 /\ v0 = Absent
      <4>1. added'[o] = DropEntry(added[o0])
        BY <1>11, <3>4
      <4>2. \A i \in DOMAIN DropEntry(added[o0]) :
              /\ i \in DOMAIN added[o0] /\ added[o0][i] # p0
              /\ DropEntry(added[o0])[i] = added[o0][i]
        BY <1>10, <3>4
      <4>3. \A i \in DOMAIN DropEntry(added[o0]) : val'[o][added[o0][i]] # Absent
        BY <1>6, <3>1, <3>2, <3>4, <4>2
      <4>4. QED BY <1>4, <3>1, <3>4, <4>1, <4>2, <4>3
    <3>5. QED BY <3>3, <3>4
  <2>2. QED BY <1>3, <2>1 DEF EntriesOK
<1>13. OwnersOK' /\ SavesOK'
  BY <1>3 DEF UInv, OwnersOK, SavesOK
<1>14. \A t \in LiveRecs' : /\ t \in LiveRecs /\ t # x /\ Before(undo, t, x)
                            /\ Owner(t) \in Obj
  <2>1. LiveRecs \subseteq LiveNow
    BY DEF LiveRecs
  <2>2. \A t \in LiveRecs : Owner(t) \in Obj
    BY <1>4 DEF UInv, OwnersOK, TypeOK
  <2>3. QED BY <1>3, <2>1, <2>2
<1>15. \A t \in LiveRecs' : Owner(t) = o0 /\ PropOf(t) = p0 => x \in Later(t)
  BY <1>2, <1>4, <1>14 DEF Later
<1>16. ValuesOK'
  <2>1. ASSUME NEW t \in LiveRecs', PropOf(t) # InvalidProp
        PROVE  /\ val'[Owner(t)][PropOf(t)] # Absent
               /\ OldVal(t) \in Obj \ RootObj => <<Owner(t), PropOf(t)>> \in mod'
    <3>1. /\ val[Owner(t)][PropOf(t)] # Absent
          /\ \A t2 \in Later(t) : OldVal(t2) # Absent
          /\ OldVal(t) \in Obj \ RootObj =>
               /\ <<Owner(t), PropOf(t)>> \in mod
               /\ \A t2 \in Later(t) : OldVal(t2) # Blank
      BY <1>14, <2>1 DEF UInv, ValuesOK
    <3>2. CASE Owner(t) = o0 /\ PropOf(t) = p0
      BY <1>2, <1>6, <1>7, <1>15, <3>1, <3>2
    <3>3. CASE ~(Owner(t) = o0 /\ PropOf(t) = p0)
      <4>1. <<Owner(t), PropOf(t)>> # <<o0, p0>> /\ Owner(t) \in Obj
        BY <1>14, <3>3
      <4>2. PropOf(t) \in Prop
        <5>1. t \in Slot /\ undo.rec_arr[t].kind = "rec" /\ undo \in Undo
          BY <1>14, LogNow DEF LiveRecs, LiveNow, Live
        <5>2. QED BY <2>1, <5>1, SlotKinds DEF PropOf
      <4>3. QED BY <1>6, <1>7, <3>1, <4>1, <4>2
    <3>4. QED BY <3>2, <3>3
  <2>2. QED BY <1>3, <2>1 DEF UInv, ValuesOK
<1>17. ASSUME NEW t \in LiveRecs', OldVal(t)' = Absent
       PROVE  AddedLast(t)'
  <2>1. AddedLast(t) /\ t \in LiveRecs /\ t # x /\ OldVal(t) = Absent /\ Owner(t) \in Obj
    BY <1>3, <1>14, <1>17 DEF UInv, AddedOK
  <2>2. PICK i \in DOMAIN added[Owner(t)] :
          /\ added[Owner(t)][i] = PropOf(t)
          /\ \A j \in DOMAIN added[Owner(t)] : j > i =>
               \E t2 \in LiveRecs :
                 /\ Owner(t2) = Owner(t) /\ PropOf(t2) = added[Owner(t)][j]
                 /\ OldVal(t2) = Absent /\ Before(undo, t, t2)
    BY <2>1 DEF AddedLast
  <2>3. CASE Owner(t) # o0 \/ v0 # Absent
    <3>1. added'[Owner(t)] = added[Owner(t)]
      BY <1>11, <2>1, <2>3
    <3>2. \A t2 \in LiveRecs : Owner(t2) = Owner(t) /\ OldVal(t2) = Absent => t2 # x
      BY <1>2, <2>3
    <3>3. QED BY <1>3, <2>2, <3>1, <3>2 DEF AddedLast
  <2>4. CASE Owner(t) = o0 /\ v0 = Absent
    <3> DEFINE a == added[o0]
               b == DropEntry(a)
    <3>1. added'[o0] = b
      BY <1>11, <2>4
    <3>2. /\ Len(a) \in Nat \ {0} /\ DOMAIN a = 1 .. Len(a) /\ a[Len(a)] = p0
          /\ DOMAIN b = 1 .. Len(a) - 1 /\ a \in Seq(Prop)
          /\ \A j \in 1 .. Len(a) - 1 : b[j] = a[j] /\ a[j] # p0
      BY <1>10, <2>4
    <3>3. i \in DOMAIN a /\ a[i] = PropOf(t) /\ PropOf(t) \in Prop
      BY <2>2, <2>4, <3>2
    <3>4. PropOf(t) # p0
      <4> SUFFICES ASSUME PropOf(t) = p0 PROVE FALSE
        OBVIOUS
      <4>1. x \in Later(t) /\ PropOf(t) # InvalidProp
        BY <1>15, <2>4, <3>3, ObjAssumption
      <4>2. OldVal(x) # Absent
        BY <2>1, <4>1 DEF UInv, ValuesOK
      <4>3. QED BY <1>2, <2>4, <4>2
    <3> HIDE DEF a, b
    <3>5. i \in DOMAIN b /\ b[i] = PropOf(t)
      BY <3>2, <3>3, <3>4
    <3>6. ASSUME NEW j \in DOMAIN b, j > i
          PROVE  \E t2 \in LiveRecs' :
                   /\ Owner(t2) = Owner(t) /\ PropOf(t2) = b[j]
                   /\ OldVal(t2) = Absent /\ Before(undo, t, t2)
      <4>1. j \in DOMAIN a /\ a[j] # p0 /\ b[j] = a[j]
        BY <3>2, <3>6
      <4>2. PICK t2 \in LiveRecs :
              /\ Owner(t2) = Owner(t) /\ PropOf(t2) = a[j]
              /\ OldVal(t2) = Absent /\ Before(undo, t, t2)
        BY <2>2, <2>4, <3>6, <4>1 DEF a
      <4>3. t2 # x
        BY <1>2, <4>1, <4>2
      <4>4. QED BY <1>3, <4>1, <4>2, <4>3
    <3>7. QED BY <1>3, <2>4, <3>1, <3>5, <3>6 DEF AddedLast
  <2>5. QED BY <2>3, <2>4
<1>18. AddedOK'
  BY <1>17 DEF AddedOK
<1>19. UndoRestores'
  BY WalkRestores
<1>20. QED BY <1>9, <1>12, <1>13, <1>16, <1>18, <1>19 DEF UInv

(* Every step of the walk.                                                 *)
LEMMA UndoStepUInv ==
  ASSUME IInv, UInv, UndoStep
  PROVE  UInv'
BY WalkNoOwner, WalkObject, WalkProperty
------------------------------------------------------------------------------
(* Setting a property.                                                     *)

(* Records are not added without a savepoint, nor lost by adding others.   *)
LEMMA CountGone ==
  ASSUME NEW u, NEW o, NEW p, NEW old, u.savept_cnt = 0
  PROVE  AddRecord(u, o, p, old) = u
BY DEF AddRecord

(* The records N that w has more than undo, when o.p is set from old: in f *)
(* the property's value, in b that it was unmodified, in m the object.     *)
SetRecs(w, N, o, p, old, f, b, m) ==
  /\ Recorded(undo, w, N)
  /\ \A t \in N : \/ f /\ w.rec_arr[t] = Rec(o, p, old)
                  \/ b /\ w.rec_arr[t] = Rec(o, p, Blank)
                  \/ m /\ w.rec_arr[t] = Rec(o, InvalidProp, Unmod)
  /\ f => \E n \in N : /\ w.rec_arr[n] = Rec(o, p, old)
                       /\ \A t \in N : ~Before(w, t, n)
                       /\ \A t \in N \ {n} :
                            \/ b /\ w.rec_arr[t] = Rec(o, p, Blank)
                            \/ m /\ w.rec_arr[t] = Rec(o, InvalidProp, Unmod)
  /\ b => \E n \in N : w.rec_arr[n] = Rec(o, p, Blank)
  /\ m => \E n \in N : w.rec_arr[n] = Rec(o, InvalidProp, Unmod)

(* The three records of set_prop, those that are made.                     *)
LEMMA SetPropRecords ==
  ASSUME IInv, NEW o \in Obj, NEW p \in Prop, NEW v, SetProp(o, p, v), InUndo(o),
         undo'.savept_cnt # 0
  PROVE  \E N : SetRecs(undo', N, o, p, val[o][p], <<o, p>> \notin prop_undo,
                        /\ <<o, p>> \notin prop_undo /\ <<o, p>> \notin mod
                        /\ val[o][p] # Absent,
                        o \notin obj_mod)
<1> DEFINE old == val[o][p]
           f == <<o, p>> \notin prop_undo
           b == f /\ <<o, p>> \notin mod /\ old # Absent
           m == o \notin obj_mod
           u1 == IF f THEN AddRecord(undo, o, p, old) ELSE undo
           u2 == IF b THEN AddRecord(u1, o, p, Blank) ELSE u1
           u3 == IF m THEN AddRecord(u2, o, InvalidProp, Unmod) ELSE u2
<1>1. undo' = u3 /\ meta = NoRec /\ TypeOK /\ GoodUndo(undo)
  BY LogNow DEF SetProp, IInv
<1>2. /\ Rec(o, p, old) \in Content /\ Rec(o, p, Blank) \in Content
      /\ Rec(o, InvalidProp, Unmod) \in Content
  BY <1>1 DEF TypeOK, Rec, Content, RefVal
<1>3. undo.savept_cnt # 0 /\ u1.savept_cnt # 0 /\ u2.savept_cnt # 0 /\ u3.savept_cnt # 0
  <2>1. u3.savept_cnt # 0
    BY <1>1
  <2>2. u2.savept_cnt # 0
    <3> HIDE DEF u2
    <3>1. QED BY <2>1, CountGone
  <2>3. u1.savept_cnt # 0
    <3> HIDE DEF u1
    <3>1. QED BY <2>2, CountGone
  <2>4. undo.savept_cnt # 0
    BY <2>3, CountGone
  <2>5. QED BY <2>1, <2>2, <2>3, <2>4
<1>4. Recorded(undo, undo, {})
  <2>1. Live(undo, undo.next_free) \ {} = Live(undo, undo.next_free)
    OBVIOUS
  <2>2. Grown(undo, undo.next_free, undo, undo.next_free, {})
    BY <2>1 DEF Grown
  <2>3. QED BY <1>1, <1>3, <2>1, <2>2, CurrentLive DEF Recorded
<1> HIDE DEF u1, u2, u3, old, f, b, m
<1>5. \E N : SetRecs(u1, N, o, p, old, f, FALSE, FALSE)
  <2>1. CASE f
    <3>1. u1 = AddRecord(undo, o, p, old)
      BY <2>1 DEF u1
    <3>2. PICK n : Recorded(undo, u1, {} \cup {n}) /\ u1.rec_arr[n] = Rec(o, p, old)
      <4>1. Rec(o, p, old) \in Content /\ u1.savept_cnt # 0
        BY <1>2, <1>3
      <4>2. PICK u, y, E : u = undo /\ y = u1 /\ E = {}
        OBVIOUS
      <4>3. /\ Recorded(u, u, E) /\ y = AddRecord(u, o, p, old) /\ y.savept_cnt # 0
            /\ Rec(o, p, old) \in Content
        BY <1>4, <3>1, <4>1, <4>2
      <4>4. \E n : Recorded(u, y, E \cup {n}) /\ y.rec_arr[n] = Rec(o, p, old)
        BY <4>3, RecordMore
      <4>5. QED BY <4>2, <4>4
    <3>3. {} \cup {n} = {n}
      OBVIOUS
    <3>4. ~Before(u1, n, n)
      <4>1. n \in Live(u1, u1.next_free) /\ GoodUndo(u1)
        BY <3>2 DEF Recorded, Grown
      <4>2. QED BY <4>1, LiveOrder DEF GoodUndo, Undo
    <3>5. SetRecs(u1, {n}, o, p, old, f, FALSE, FALSE)
      BY <2>1, <3>2, <3>3, <3>4 DEF SetRecs
    <3>6. QED BY <3>5
  <2>2. CASE ~f
    <3>1. u1 = undo
      BY <2>2 DEF u1
    <3>2. SetRecs(undo, {}, o, p, old, f, FALSE, FALSE)
      BY <1>4, <2>2 DEF SetRecs
    <3>3. QED BY <3>1, <3>2
  <2>3. QED BY <2>1, <2>2
<1>6. \E N : SetRecs(u2, N, o, p, old, f, b, FALSE)
  <2>1. PICK N : SetRecs(u1, N, o, p, old, f, FALSE, FALSE)
    BY <1>5
  <2>2. CASE b
    <3>1. u2 = AddRecord(u1, o, p, Blank)
      BY <2>2 DEF u2
    <3>2. Recorded(undo, u1, N)
      BY <2>1 DEF SetRecs
    <3>3. PICK n : /\ Recorded(undo, u2, N \cup {n}) /\ n \notin N
                   /\ u2.rec_arr[n] = Rec(o, p, Blank)
                   /\ \A t \in N : /\ u2.rec_arr[t] = u1.rec_arr[t]
                                   /\ Before(u2, t, n) /\ ~Before(u2, n, t)
                                   /\ \A s \in N : Before(u2, s, t) <=> Before(u1, s, t)
      <4>1. Rec(o, p, Blank) \in Content /\ u2.savept_cnt # 0
        BY <1>2, <1>3
      <4>2. PICK x, y : x = u1 /\ y = u2
        OBVIOUS
      <4>3. QED BY <3>1, <3>2, <4>1, <4>2, RecordMore, SMTT(40)
    <3>4. SetRecs(u2, N \cup {n}, o, p, old, f, b, FALSE)
      BY <2>1, <2>2, <3>3 DEF SetRecs
    <3>5. QED BY <3>4
  <2>3. CASE ~b
    <3>1. u2 = u1
      BY <2>3 DEF u2
    <3>2. SetRecs(u2, N, o, p, old, f, b, FALSE)
      BY <2>1, <2>3, <3>1 DEF SetRecs
    <3>3. QED BY <3>2
  <2>4. QED BY <2>2, <2>3
<1>7. \E N : SetRecs(u3, N, o, p, old, f, b, m)
  <2>1. PICK N : SetRecs(u2, N, o, p, old, f, b, FALSE)
    BY <1>6
  <2>2. CASE m
    <3>1. u3 = AddRecord(u2, o, InvalidProp, Unmod)
      BY <2>2 DEF u3
    <3>2. Recorded(undo, u2, N)
      BY <2>1 DEF SetRecs
    <3>3. PICK n : /\ Recorded(undo, u3, N \cup {n}) /\ n \notin N
                   /\ u3.rec_arr[n] = Rec(o, InvalidProp, Unmod)
                   /\ \A t \in N : /\ u3.rec_arr[t] = u2.rec_arr[t]
                                   /\ Before(u3, t, n) /\ ~Before(u3, n, t)
                                   /\ \A s \in N : Before(u3, s, t) <=> Before(u2, s, t)
      <4>1. Rec(o, InvalidProp, Unmod) \in Content /\ u3.savept_cnt # 0
        BY <1>2, <1>3
      <4>2. PICK x, y : x = u2 /\ y = u3
        OBVIOUS
      <4>3. QED BY <3>1, <3>2, <4>1, <4>2, RecordMore
    <3>4. SetRecs(u3, N \cup {n}, o, p, old, f, b, m)
      BY <2>1, <2>2, <3>3 DEF SetRecs
    <3>5. QED BY <3>4
  <2>3. CASE ~m
    <3>1. u3 = u2
      BY <2>3 DEF u3
    <3>2. SetRecs(u3, N, o, p, old, f, b, m)
      BY <2>1, <2>3, <3>1 DEF SetRecs
    <3>3. QED BY <3>2
  <2>4. QED BY <2>2, <2>3
<1>8. QED BY <1>1, <1>7 DEF old, f, b, m

(* The objects after set_prop, whatever was recorded.                      *)
LEMMA SetPropObjects ==
  ASSUME IInv, UInv, NEW o0 \in Obj, NEW p0 \in Prop, NEW v \in Obj \cup {Nil},
         SetProp(o0, p0, v)
  PROVE  /\ o0 \in inuse /\ (v \in Obj => v \in inuse)
         /\ v \notin {Absent, Blank} /\ val'[o0][p0] = v
         /\ \A o \in Obj, p \in Prop : <<o, p>> # <<o0, p0>> => val'[o][p] = val[o][p]
         /\ \A o \in Obj : o # o0 => val'[o] = val[o] /\ added'[o] = added[o]
         /\ val[o0][p0] # Absent => added'[o0] = added[o0]
         /\ val[o0][p0] = Absent => added'[o0] = Append(added[o0], p0)
         /\ mod' = mod \cup {<<o0, p0>>} /\ prop_undo' = prop_undo \cup {<<o0, p0>>}
         /\ obj_mod' = obj_mod \cup {o0} /\ meta = NoRec /\ meta' = NoRec
         /\ UNCHANGED <<inuse, in_undo, held, snap>>
         /\ ObjectsOK' /\ EntriesOK'
<1>1. /\ meta = NoRec /\ meta' = NoRec /\ TypeOK
      /\ val' = [val EXCEPT ![o0][p0] = v]
      /\ added' = IF val[o0][p0] = Absent
                  THEN [added EXCEPT ![o0] = Append(added[o0], p0)] ELSE added
      /\ mod' = mod \cup {<<o0, p0>>} /\ prop_undo' = prop_undo \cup {<<o0, p0>>}
      /\ obj_mod' = obj_mod \cup {o0}
      /\ UNCHANGED <<inuse, in_undo, held, snap>>
  BY DEF SetProp, IInv
<1>2. Accessible \subseteq inuse
  <2>1. /\ inuse \in SUBSET Obj /\ RootObj \cup held \subseteq inuse
        /\ \A x \in inuse : \A p \in Prop : val[x][p] \in Obj => val[x][p] \in inuse
    BY <1>1 DEF TypeOK, UInv, ObjectsOK
  <2>2. QED BY <2>1 DEF Accessible
<1>3. o0 \in inuse /\ (v \in Obj => v \in inuse)
  <2>1. o0 \in Accessible /\ v \in Accessible \cup {Nil}
    BY DEF SetProp
  <2>2. Nil \notin Obj
    BY ObjAssumption
  <2>3. QED BY <1>2, <2>1, <2>2
<1>4. v \notin {Absent, Blank}
  BY ObjAssumption DEF Nil, Absent, Blank
<1>5. /\ val'[o0][p0] = v
      /\ \A o \in Obj, p \in Prop : <<o, p>> # <<o0, p0>> => val'[o][p] = val[o][p]
      /\ \A o \in Obj : o # o0 => val'[o] = val[o] /\ added'[o] = added[o]
      /\ val[o0][p0] # Absent => added'[o0] = added[o0]
      /\ val[o0][p0] = Absent => added'[o0] = Append(added[o0], p0)
  BY <1>1 DEF TypeOK
<1>6. ObjectsOK'
  <2>1. ASSUME NEW o \in inuse, NEW p \in Prop, val'[o][p] \in Obj
        PROVE  val'[o][p] \in inuse /\ (val'[o][p] \in RootObj \/ <<o, p>> \in mod')
    <3>1. CASE <<o, p>> = <<o0, p0>>
      BY <1>1, <1>3, <1>5, <2>1, <3>1
    <3>2. CASE <<o, p>> # <<o0, p0>>
      <4>1. val'[o][p] = val[o][p]
        BY <1>1, <1>5, <3>2 DEF TypeOK
      <4>2. QED BY <1>1, <2>1, <4>1 DEF UInv, ObjectsOK
    <3>3. QED BY <3>1, <3>2
  <2>2. ASSUME NEW o \in Obj, NEW p \in Prop, <<o, p>> \in mod'
        PROVE  o \in inuse /\ val'[o][p] \notin {Absent, Blank}
    <3>1. CASE <<o, p>> = <<o0, p0>>
      BY <1>3, <1>4, <1>5, <3>1
    <3>2. CASE <<o, p>> # <<o0, p0>>
      BY <1>1, <1>5, <2>2, <3>2 DEF UInv, ObjectsOK
    <3>3. QED BY <3>1, <3>2
  <2>3. prop_undo' \subseteq mod'
    BY <1>1 DEF UInv, ObjectsOK
  <2>4. QED BY <1>1, <2>1, <2>2, <2>3 DEF UInv, ObjectsOK
<1>7. EntriesOK'
  <2>1. ASSUME NEW o \in Obj
        PROVE  /\ o \notin inuse => added'[o] = <<>>
               /\ \A i \in DOMAIN added'[o] : val'[o][added'[o][i]] # Absent
               /\ \A i, j \in DOMAIN added'[o] : added'[o][i] = added'[o][j] => i = j
    <3>1. /\ o \notin inuse => added[o] = <<>>
          /\ \A i \in DOMAIN added[o] : val[o][added[o][i]] # Absent
          /\ \A i, j \in DOMAIN added[o] : added[o][i] = added[o][j] => i = j
      BY DEF UInv, EntriesOK
    <3>2. added[o] \in Seq(Prop)
      BY <1>1 DEF TypeOK
    <3>3. \A i \in DOMAIN added[o] : val'[o][added[o][i]] # Absent
      BY <1>4, <1>5, <3>1, <3>2
    <3>4. CASE o # o0 \/ val[o0][p0] # Absent
      BY <1>5, <3>1, <3>3, <3>4
    <3>5. CASE o = o0 /\ val[o0][p0] = Absent
      <4> DEFINE a == added[o]
                 n == Len(a)
      <4>1. added'[o] = Append(a, p0)
        BY <1>5, <3>5
      <4> HIDE DEF a
      <4>2. a \in Seq(Prop) /\ n \in Nat /\ DOMAIN a = 1 .. n
        BY <3>2 DEF a
      <4>3. /\ DOMAIN Append(a, p0) = 1 .. n + 1 /\ Append(a, p0)[n + 1] = p0
            /\ \A i \in 1 .. n : Append(a, p0)[i] = a[i]
        BY <4>2
      <4>4. \A i \in 1 .. n : a[i] # p0 /\ val'[o][a[i]] # Absent
        BY <3>1, <3>3, <3>5, <4>2 DEF a
      <4>5. \A i, j \in 1 .. n : a[i] = a[j] => i = j
        BY <3>1, <4>2 DEF a
      <4>6. \A i \in 1 .. n + 1 : i \in 1 .. n \/ i = n + 1
        BY <4>2
      <4> HIDE DEF n
      <4>7. \A i \in 1 .. n + 1 : val'[o][Append(a, p0)[i]] # Absent
        BY <1>4, <1>5, <3>5, <4>3, <4>4, <4>6
      <4>8. \A i, j \in 1 .. n + 1 : Append(a, p0)[i] = Append(a, p0)[j] => i = j
        BY <4>3, <4>4, <4>5, <4>6
      <4>9. PICK b : b = Append(a, p0) /\ b = added'[o]
        BY <4>1
      <4>10. /\ DOMAIN b = 1 .. n + 1
             /\ \A i \in DOMAIN b : val'[o][b[i]] # Absent
             /\ \A i, j \in DOMAIN b : b[i] = b[j] => i = j
        BY <4>3, <4>7, <4>8, <4>9
      <4>11. o \in inuse
        BY <1>3, <3>5
      <4>12. QED BY <4>9, <4>10, <4>11
    <3>6. QED BY <3>4, <3>5
  <2>2. QED BY <1>1, <2>1 DEF EntriesOK
<1>8. QED BY <1>1, <1>3, <1>4, <1>5, <1>6, <1>7

(* set_prop on an object that takes no part in undo.                       *)
LEMMA SetPropAside ==
  ASSUME IInv, UInv, NEW o0 \in Obj, NEW p0 \in Prop, NEW v \in Obj \cup {Nil},
         SetProp(o0, p0, v), ~InUndo(o0)
  PROVE  UInv'
<1>1. /\ \A o \in Obj : o # o0 => val'[o] = val[o] /\ added'[o] = added[o]
      /\ mod' = mod \cup {<<o0, p0>>} /\ prop_undo' = prop_undo \cup {<<o0, p0>>}
      /\ obj_mod' = obj_mod \cup {o0} /\ meta = NoRec /\ meta' = NoRec
      /\ UNCHANGED <<inuse, in_undo, held, snap>>
      /\ ObjectsOK' /\ EntriesOK'
  BY SetPropObjects
<1>2. undo' = undo /\ End' = End
  <2>1. \A u, p, old : AddRecord(u, o0, p, old) = u
    BY DEF AddRecord
  <2>2. undo' = undo
    BY <2>1 DEF SetProp
  <2>3. QED BY <1>1, <2>2 DEF End
<1>3. /\ LiveRecs' = LiveRecs
      /\ \A t : /\ Owner(t)' = Owner(t) /\ PropOf(t)' = PropOf(t) /\ OldVal(t)' = OldVal(t)
                /\ Later(t)' = Later(t)
      /\ \A t \in LiveRecs : /\ Owner(t) \in Obj /\ Owner(t) # o0
                             /\ val'[Owner(t)] = val[Owner(t)]
                             /\ added'[Owner(t)] = added[Owner(t)]
  <2>1. LiveRecs' = LiveRecs
    BY <1>2 DEF LiveRecs, LiveNow
  <2>2. \A t \in LiveRecs : Owner(t) \in Obj /\ Owner(t) # o0
    BY DEF UInv, OwnersOK, IInv, TypeOK, InUndo
  <2>3. QED BY <1>1, <1>2, <2>1, <2>2 DEF Owner, PropOf, OldVal, Later
<1>4. OwnersOK' /\ ValuesOK'
  BY <1>1, <1>3 DEF UInv, OwnersOK, ValuesOK
<1>5. AddedOK'
  <2>1. \A t \in LiveRecs : AddedLast(t)' <=> AddedLast(t)
    BY <1>2, <1>3 DEF AddedLast
  <2>2. QED BY <1>3, <2>1 DEF UInv, AddedOK
<1>6. SavesOK'
  <2>1. LiveNow' = LiveNow /\ LiveLinks(undo', End') = LiveLinks(undo, End)
    BY <1>2 DEF LiveNow
  <2>2. \A o, p : <<o, p>> \in prop_undo' /\ InUndo(o)' => <<o, p>> \in prop_undo /\ InUndo(o)
    BY <1>1 DEF InUndo
  <2>3. QED BY <1>1, <1>2, <2>1, <2>2 DEF UInv, SavesOK, RecsAfter, Before
<1>7. UndoRestores'
  <2>1. Grown(undo, End, undo', End', {}) /\ LiveLinks(undo', End') = LiveLinks(undo, End)
    BY <1>2 DEF Grown
  <2>2. ASSUME NEW s \in LiveLinks(undo, End), NEW o \in snap[s].objs
        PROVE  RestoredAt(s, o)'
    <3>1. RestoredAt(s, o) /\ s \in Live(undo', End') \ {}
      BY <1>2, RestoresAt DEF UInv, LiveLinks
    <3>2. o \in Obj /\ o # o0
      BY <1>1 DEF UInv, SavesOK, IInv, TypeOK, InUndo
    <3>3. QED BY <1>1, <2>1, <3>1, <3>2, RestoredSame
  <2>3. QED BY <1>1, <2>1, <2>2, RestoresAt
<1>8. QED BY <1>1, <1>4, <1>5, <1>6, <1>7 DEF UInv

(* A later link has fewer records behind it.                               *)
LEMMA CurrentIsLast ==
  ASSUME IInv, undo.savept_cnt # 0, NEW s \in LiveLinks(undo, End), NEW o, NEW p
  PROVE  RecsAfter(undo.cur_first, o, p) \subseteq RecsAfter(s, o, p)
<1> DEFINE c == undo.cur_first
           L == LiveLinks(undo, End)
<1>1. undo \in Undo /\ End \in Slot /\ ChainOK(undo, End)
  BY LogNow
<1>2. /\ c \in L /\ undo.rec_arr[c].next_first = NoRec
      /\ IsNextLink(undo, L, c, undo.rec_arr[c].next_first)
  BY <1>1 DEF ChainOK
<1>3. ~Before(undo, c, s)
  BY <1>2 DEF IsNextLink
<1>4. L \subseteq Live(undo, End)
  BY DEF LiveLinks
<1>5. s = c \/ Before(undo, s, c)
  BY <1>1, <1>2, <1>3, <1>4, LiveOrder
<1>6. ASSUME NEW t \in RecsAfter(c, o, p)
      PROVE  t \in RecsAfter(s, o, p)
  <2>1. t \in Live(undo, End) /\ Before(undo, c, t)
    BY DEF RecsAfter, LiveNow
  <2>2. Before(undo, s, t)
    BY <1>1, <1>2, <1>4, <1>5, <2>1, LiveOrder
  <2>3. QED BY <2>2 DEF RecsAfter
<1>7. QED BY <1>6

(* What the records N of set_prop are, in the words of the properties.     *)
SetFacts(N, o0, p0, old) ==
  LET key == <<o0, p0>> IN
  /\ Grown(undo, End, undo', End', N) /\ N \subseteq LiveRecs'
  /\ undo'.cur_first = undo.cur_first /\ undo.cur_first \in Live(undo', End') \ N
  /\ undo.savept_cnt # 0
  /\ \A t \in N :
       /\ undo'.rec_arr[t].kind = "rec" /\ undo'.rec_arr[t].obj = o0
       /\ \/ /\ undo'.rec_arr[t].prop = p0 /\ undo'.rec_arr[t].oldval \in {old, Blank}
             /\ key \notin prop_undo
          \/ /\ undo'.rec_arr[t].prop = InvalidProp /\ undo'.rec_arr[t].oldval = Unmod
             /\ o0 \notin obj_mod
  /\ key \notin prop_undo => \E n \in N :
       /\ undo'.rec_arr[n].prop = p0 /\ undo'.rec_arr[n].oldval = old
       /\ \A t \in N : ~Before(undo', t, n)
       /\ \A t \in N \ {n} : /\ Before(undo', n, t)
                             /\ undo'.rec_arr[t].prop = p0 =>
                                  /\ undo'.rec_arr[t].oldval = Blank
                                  /\ key \notin mod /\ old # Absent
  /\ key \notin prop_undo /\ key \notin mod /\ old # Absent =>
       \E n \in N : undo'.rec_arr[n].prop = p0 /\ undo'.rec_arr[n].oldval = Blank
  /\ o0 \notin obj_mod => \E n \in N : undo'.rec_arr[n].prop = InvalidProp

(* They are so.                                                            *)
LEMMA SetFactsHold ==
  ASSUME IInv, NEW o0 \in Obj, NEW p0 \in Prop, NEW v, SetProp(o0, p0, v), InUndo(o0),
         undo'.savept_cnt # 0, NEW old, old = val[o0][p0]
  PROVE  \E N : SetFacts(N, o0, p0, old)
<1>1. PICK N : SetRecs(undo', N, o0, p0, old, <<o0, p0>> \notin prop_undo,
                       /\ <<o0, p0>> \notin prop_undo /\ <<o0, p0>> \notin mod
                       /\ old # Absent,
                       o0 \notin obj_mod)
  BY SetPropRecords
<1>2. \A q, w : /\ Rec(o0, q, w).kind = "rec" /\ Rec(o0, q, w).obj = o0
                /\ Rec(o0, q, w).prop = q /\ Rec(o0, q, w).oldval = w
  BY DEF Rec
<1>3. /\ meta = NoRec /\ meta' = NoRec /\ End = undo.next_free /\ End' = undo'.next_free
      /\ o0 # InvalidObj /\ p0 # InvalidProp
  BY ObjAssumption DEF SetProp, End
<1>4. Recorded(undo, undo', N)
  BY <1>1 DEF SetRecs
<1>5. /\ Grown(undo, End, undo', End', N)
      /\ undo'.cur_first = undo.cur_first /\ undo.cur_first \in Live(undo', End') \ N
      /\ GoodUndo(undo')
  BY <1>3, <1>4 DEF Recorded
<1>6. undo.savept_cnt # 0
  BY <1>5 DEF Grown, Live
<1>7. \A t \in N :
       /\ undo'.rec_arr[t].kind = "rec" /\ undo'.rec_arr[t].obj = o0
       /\ \/ /\ undo'.rec_arr[t].prop = p0 /\ undo'.rec_arr[t].oldval \in {old, Blank}
             /\ <<o0, p0>> \notin prop_undo
          \/ /\ undo'.rec_arr[t].prop = InvalidProp /\ undo'.rec_arr[t].oldval = Unmod
             /\ o0 \notin obj_mod
  <2>1. \A t \in N : \/ undo'.rec_arr[t] = Rec(o0, p0, old) /\ <<o0, p0>> \notin prop_undo
                     \/ undo'.rec_arr[t] = Rec(o0, p0, Blank) /\ <<o0, p0>> \notin prop_undo
                     \/ undo'.rec_arr[t] = Rec(o0, InvalidProp, Unmod) /\ o0 \notin obj_mod
    BY <1>1 DEF SetRecs
  <2>2. QED BY <1>2, <2>1
<1>8. N \subseteq Live(undo', End') /\ N \subseteq LiveRecs'
  <2>1. N \subseteq Live(undo', End')
    BY <1>5 DEF Grown
  <2>2. QED BY <1>3, <1>7, <2>1 DEF LiveRecs, LiveNow
<1>9. ASSUME <<o0, p0>> \notin prop_undo
       PROVE  \E n \in N :
                /\ undo'.rec_arr[n].prop = p0 /\ undo'.rec_arr[n].oldval = old
                /\ \A t \in N : ~Before(undo', t, n)
                /\ \A t \in N \ {n} : /\ Before(undo', n, t)
                                      /\ undo'.rec_arr[t].prop = p0 =>
                                           /\ undo'.rec_arr[t].oldval = Blank
                                           /\ <<o0, p0>> \notin mod /\ old # Absent
  <2>1. PICK n \in N :
          /\ undo'.rec_arr[n] = Rec(o0, p0, old)
          /\ \A t \in N : ~Before(undo', t, n)
          /\ \A t \in N \ {n} :
               \/ /\ <<o0, p0>> \notin mod /\ old # Absent
                  /\ undo'.rec_arr[t] = Rec(o0, p0, Blank)
               \/ undo'.rec_arr[t] = Rec(o0, InvalidProp, Unmod)
    BY <1>1, <1>9 DEF SetRecs
  <2>2. \A t \in N \ {n} : Before(undo', n, t)
    <3>1. undo' \in Undo /\ ChainOK(undo', End') /\ End' \in Slot
      BY <1>3, <1>5 DEF GoodUndo, Undo
    <3>2. QED BY <1>8, <2>1, <3>1, LiveOrder
  <2>3. QED BY <1>2, <1>3, <2>1, <2>2
<1>10. <<o0, p0>> \notin prop_undo /\ <<o0, p0>> \notin mod /\ old # Absent =>
         \E n \in N : undo'.rec_arr[n].prop = p0 /\ undo'.rec_arr[n].oldval = Blank
  <2>1. <<o0, p0>> \notin prop_undo /\ <<o0, p0>> \notin mod /\ old # Absent =>
          \E n \in N : undo'.rec_arr[n] = Rec(o0, p0, Blank)
    BY <1>1 DEF SetRecs
  <2>2. QED BY <1>2, <2>1
<1>11. o0 \notin obj_mod => \E n \in N : undo'.rec_arr[n].prop = InvalidProp
  <2>1. o0 \notin obj_mod => \E n \in N : undo'.rec_arr[n] = Rec(o0, InvalidProp, Unmod)
    BY <1>1 DEF SetRecs
  <2>2. QED BY <1>2, <2>1
<1>12. QED
  BY <1>5, <1>6, <1>7, <1>8, <1>9, <1>10, <1>11 DEF SetFacts

(* set_prop, recorded.                                                     *)
LEMMA SetPropRecorded ==
  ASSUME IInv, UInv, NEW o0 \in Obj, NEW p0 \in Prop, NEW v \in Obj \cup {Nil},
         SetProp(o0, p0, v), InUndo(o0), undo'.savept_cnt # 0
  PROVE  UInv'
<1>1. /\ o0 \in inuse /\ (v \in Obj => v \in inuse)
      /\ v \notin {Absent, Blank} /\ val'[o0][p0] = v
      /\ \A o \in Obj, p \in Prop : <<o, p>> # <<o0, p0>> => val'[o][p] = val[o][p]
      /\ \A o \in Obj : o # o0 => val'[o] = val[o] /\ added'[o] = added[o]
      /\ val[o0][p0] # Absent => added'[o0] = added[o0]
      /\ val[o0][p0] = Absent => added'[o0] = Append(added[o0], p0)
      /\ mod' = mod \cup {<<o0, p0>>} /\ prop_undo' = prop_undo \cup {<<o0, p0>>}
      /\ obj_mod' = obj_mod \cup {o0} /\ meta = NoRec /\ meta' = NoRec
      /\ UNCHANGED <<inuse, in_undo, held, snap>>
      /\ ObjectsOK' /\ EntriesOK'
  BY SetPropObjects
<1>2. PICK old, key : old = val[o0][p0] /\ key = <<o0, p0>>
  OBVIOUS
<1>3. PICK N : SetFacts(N, o0, p0, old)
  BY <1>2, SetFactsHold
<1>4. PICK R : R = undo'.rec_arr
  OBVIOUS
<1>5. /\ Grown(undo, End, undo', End', N) /\ N \subseteq LiveRecs'
      /\ undo'.cur_first = undo.cur_first /\ undo.cur_first \in Live(undo', End') \ N
      /\ undo.savept_cnt # 0
      /\ \A t \in N : /\ R[t].kind = "rec" /\ R[t].obj = o0
                      /\ \/ /\ R[t].prop = p0 /\ R[t].oldval \in {old, Blank}
                            /\ key \notin prop_undo
                         \/ /\ R[t].prop = InvalidProp /\ R[t].oldval = Unmod
                            /\ o0 \notin obj_mod
      /\ key \notin prop_undo /\ key \notin mod /\ old # Absent =>
           \E n \in N : R[n].prop = p0 /\ R[n].oldval = Blank
      /\ o0 \notin obj_mod => \E n \in N : R[n].prop = InvalidProp
  BY <1>2, <1>3, <1>4 DEF SetFacts
<1>6. key \notin prop_undo => \E n \in N :
        /\ R[n].prop = p0 /\ R[n].oldval = old
        /\ \A t \in N : ~Before(undo', t, n)
        /\ \A t \in N \ {n} : /\ Before(undo', n, t)
                              /\ R[t].prop = p0 =>
                                   R[t].oldval = Blank /\ key \notin mod /\ old # Absent
  BY <1>2, <1>3, <1>4 DEF SetFacts
<1>7. /\ TypeOK /\ p0 # InvalidProp /\ Unmod # Absent /\ Blank # Absent
      /\ {Absent, Blank, Unmod} \cap Obj = {}
  BY ObjAssumption DEF IInv, Unmod, Absent, Blank
<1>8. /\ old \in Obj => old \in inuse /\ (old \in RootObj \/ key \in mod)
      /\ key \in mod => old \notin {Absent, Blank}
      /\ key \in prop_undo => key \in mod
  BY <1>1, <1>2 DEF UInv, ObjectsOK
<1>9. /\ \A t \in LiveRecs' \ N :
           /\ t \in LiveRecs /\ R[t] = undo.rec_arr[t]
           /\ \A t2 \in LiveRecs : Before(undo, t, t2) => t2 \in LiveRecs' \ N
           /\ \A t2 \in LiveRecs' \ N : Before(undo', t, t2) <=> Before(undo, t, t2)
           /\ \A t2 \in N : ~Before(undo', t2, t) /\ Before(undo', t, t2)
      /\ \A s \in LiveLinks(undo', End') \ N : s \in LiveLinks(undo, End)
  BY <1>4, <1>5, RecsKept
<1>10. /\ \A t : /\ Owner(t)' = R[t].obj /\ PropOf(t)' = R[t].prop
                 /\ OldVal(t)' = R[t].oldval
       /\ \A t \in LiveRecs' \ N : /\ Owner(t) = R[t].obj /\ PropOf(t) = R[t].prop
                                   /\ OldVal(t) = R[t].oldval
       /\ \A t : Later(t)' = {t2 \in LiveRecs' : /\ R[t2].obj = R[t].obj
                                                 /\ R[t2].prop = R[t].prop
                                                 /\ Before(undo', t, t2)}
  BY <1>4, <1>9 DEF Owner, PropOf, OldVal, Later
<1>11. OwnersOK'
  <2>1. ASSUME NEW t \in LiveRecs'
        PROVE  /\ R[t].obj \in inuse /\ R[t].obj \in in_undo /\ R[t].obj \notin TransientObj
               /\ R[t].oldval \in Obj => R[t].oldval \in inuse
    <3>1. CASE t \in N
      BY <1>1, <1>5, <1>7, <1>8, <3>1 DEF InUndo
    <3>2. CASE t \notin N
      <4>1. t \in LiveRecs /\ Owner(t) = R[t].obj /\ OldVal(t) = R[t].oldval
        BY <1>9, <1>10, <2>1, <3>2
      <4>2. QED BY <4>1 DEF UInv, OwnersOK
    <3>3. QED BY <3>1, <3>2
  <2>2. QED BY <1>1, <1>10, <2>1 DEF OwnersOK
<1>12. ASSUME NEW t \in LiveRecs' \ N, NEW t2 \in Later(t)', t2 \notin N
       PROVE  t2 \in Later(t) /\ OldVal(t2) = R[t2].oldval
  BY <1>9, <1>10, <1>12 DEF Later
<1>13. ASSUME NEW t \in N, NEW t2 \in Later(t)', PropOf(t)' # InvalidProp
       PROVE  /\ R[t2].oldval = Blank /\ key \notin mod /\ old # Absent
  <2>1. t2 \in N
    BY <1>9, <1>10, <1>13
  <2>2. R[t].prop = p0 /\ R[t2].prop = p0 /\ key \notin prop_undo
    BY <1>5, <1>10, <1>13
  <2>3. PICK n \in N :
          /\ \A x \in N : ~Before(undo', x, n)
          /\ \A x \in N \ {n} : R[x].prop = p0 =>
               R[x].oldval = Blank /\ key \notin mod /\ old # Absent
    BY <1>6, <2>2
  <2>4. t2 # n
    BY <1>10, <1>13, <2>3
  <2>5. QED BY <2>1, <2>2, <2>3, <2>4
<1>14. ValuesOK'
  <2>1. ASSUME NEW t \in LiveRecs', R[t].prop # InvalidProp
        PROVE  /\ val'[R[t].obj][R[t].prop] # Absent
               /\ \A t2 \in Later(t)' : R[t2].oldval # Absent
               /\ R[t].oldval \in Obj \ RootObj =>
                    /\ <<R[t].obj, R[t].prop>> \in mod'
                    /\ \A t2 \in Later(t)' : R[t2].oldval # Blank
    <3>1. CASE t \in N
      <4>1. R[t].obj = o0 /\ R[t].prop = p0 /\ R[t].oldval \in {old, Blank}
        BY <1>5, <2>1, <3>1
      <4>2. val'[R[t].obj][R[t].prop] # Absent /\ <<R[t].obj, R[t].prop>> \in mod'
        BY <1>1, <4>1
      <4>3. \A t2 \in Later(t)' : R[t2].oldval = Blank /\ key \notin mod
        BY <1>10, <1>13, <2>1, <3>1
      <4>4. R[t].oldval \in Obj \ RootObj => key \in mod
        BY <1>7, <1>8, <4>1
      <4>5. QED BY <1>7, <4>2, <4>3, <4>4
    <3>2. CASE t \notin N
      <4>1. /\ t \in LiveRecs /\ R[t] = undo.rec_arr[t]
            /\ Owner(t) = R[t].obj /\ PropOf(t) = R[t].prop /\ OldVal(t) = R[t].oldval
        BY <1>9, <1>10, <2>1, <3>2
      <4>2. /\ val[R[t].obj][R[t].prop] # Absent
            /\ \A t2 \in Later(t) : OldVal(t2) # Absent
            /\ R[t].oldval \in Obj \ RootObj =>
                 /\ <<R[t].obj, R[t].prop>> \in mod
                 /\ \A t2 \in Later(t) : OldVal(t2) # Blank
        BY <2>1, <4>1 DEF UInv, ValuesOK
      <4>3. R[t].obj \in Obj /\ R[t].prop \in Prop
        <5>1. t \in Slot /\ undo.rec_arr[t].kind = "rec" /\ undo \in Undo
          BY <4>1, LogNow DEF LiveRecs, LiveNow, Live
        <5>2. Owner(t) \in Obj
          BY <1>7, <4>1 DEF UInv, OwnersOK, TypeOK
        <5>3. QED BY <2>1, <4>1, <5>1, <5>2, SlotKinds
      <4>4. val'[R[t].obj][R[t].prop] # Absent
        BY <1>1, <4>2, <4>3
      <4>5. ASSUME NEW t2 \in Later(t)', t2 \in N
            PROVE  /\ <<R[t].obj, R[t].prop>> = key /\ R[t2].oldval \in {old, Blank}
                   /\ key \notin prop_undo
        BY <1>2, <1>5, <1>10, <2>1, <4>5
      <4>6. \A t2 \in Later(t)' : t2 \in N => R[t2].oldval # Absent
        BY <1>2, <1>7, <4>2, <4>3, <4>5
      <4>7. \A t2 \in Later(t)' : t2 \in N /\ <<R[t].obj, R[t].prop>> \in mod =>
              R[t2].oldval # Blank
        <5>1. ASSUME NEW t2 \in Later(t)', t2 \in N, <<R[t].obj, R[t].prop>> \in mod
              PROVE  R[t2].oldval # Blank
          <6>1. key \in mod /\ key \notin prop_undo /\ old # Blank /\ R[t2].prop = p0
            BY <1>8, <1>10, <4>5, <5>1, <1>2
          <6>2. PICK n \in N : /\ R[n].oldval = old
                               /\ \A x \in N \ {n} : R[x].prop = p0 => key \notin mod
            BY <1>6, <6>1
          <6>3. QED BY <5>1, <6>1, <6>2
        <5>2. QED BY <5>1
      <4>8. QED BY <1>1, <1>12, <3>2, <4>2, <4>4, <4>6, <4>7
    <3>3. QED BY <3>1, <3>2
  <2>2. QED BY <1>10, <2>1 DEF ValuesOK
<1>15. ASSUME NEW t \in LiveRecs', OldVal(t)' = Absent
       PROVE  AddedLast(t)'
  <2> DEFINE a == added[o0]
             n == Len(a)
  <2>1. a \in Seq(Prop) /\ n \in Nat /\ DOMAIN a = 1 .. n
    BY <1>7 DEF TypeOK
  <2>2. old = Absent => /\ DOMAIN added'[o0] = 1 .. n + 1 /\ added'[o0][n + 1] = p0
                        /\ \A i \in 1 .. n : added'[o0][i] = a[i]
    <3>1. old = Absent => added'[o0] = Append(a, p0)
      BY <1>1, <1>2
    <3> HIDE DEF a
    <3>2. QED BY <2>1, <3>1
  <2>3. CASE t \in N
    <3>1. R[t].obj = o0 /\ R[t].prop = p0 /\ old = Absent
      BY <1>5, <1>7, <1>10, <1>15, <2>3
    <3>2. n + 1 \in 1 .. n + 1 /\ \A j \in 1 .. n + 1 : ~(j > n + 1)
      BY <2>1
    <3> HIDE DEF n, a
    <3>3. QED BY <1>10, <2>2, <3>1, <3>2 DEF AddedLast
  <2>4. CASE t \notin N
    <3>1. /\ t \in LiveRecs /\ Owner(t) = R[t].obj /\ PropOf(t) = R[t].prop
          /\ OldVal(t) = Absent /\ Owner(t) \in Obj
      <4>1. /\ t \in LiveRecs /\ Owner(t) = R[t].obj /\ PropOf(t) = R[t].prop
            /\ OldVal(t) = Absent
        BY <1>9, <1>10, <1>15, <2>4
      <4>2. QED BY <1>7, <4>1 DEF UInv, OwnersOK, TypeOK
    <3>2. PICK i \in DOMAIN added[Owner(t)] :
            /\ added[Owner(t)][i] = PropOf(t)
            /\ \A j \in DOMAIN added[Owner(t)] : j > i =>
                 \E t2 \in LiveRecs :
                   /\ Owner(t2) = Owner(t) /\ PropOf(t2) = added[Owner(t)][j]
                   /\ OldVal(t2) = Absent /\ Before(undo, t, t2)
      BY <3>1 DEF UInv, AddedOK, AddedLast
    <3>3. ASSUME NEW j \in DOMAIN added[Owner(t)], j > i
          PROVE  \E t2 \in LiveRecs' :
                   /\ R[t2].obj = R[t].obj /\ R[t2].prop = added[Owner(t)][j]
                   /\ R[t2].oldval = Absent /\ Before(undo', t, t2)
      <4>1. PICK t2 \in LiveRecs :
              /\ Owner(t2) = Owner(t) /\ PropOf(t2) = added[Owner(t)][j]
              /\ OldVal(t2) = Absent /\ Before(undo, t, t2)
        BY <3>2, <3>3
      <4>2. t2 \in LiveRecs' \ N /\ Before(undo', t, t2)
        BY <1>9, <2>4, <4>1
      <4>3. QED BY <1>10, <3>1, <4>1, <4>2
    <3>4. CASE Owner(t) # o0 \/ old # Absent
      <4>1. added'[Owner(t)] = added[Owner(t)]
        BY <1>1, <1>2, <3>1, <3>4
      <4>2. QED BY <1>10, <3>1, <3>2, <3>3, <4>1 DEF AddedLast
    <3>5. CASE Owner(t) = o0 /\ old = Absent
      <4>1. key \notin prop_undo
        BY <1>8, <3>5
      <4>2. PICK m \in N : R[m].prop = p0 /\ R[m].oldval = old
        BY <1>6, <4>1
      <4>3. /\ m \in LiveRecs' /\ R[m].obj = R[t].obj /\ R[m].oldval = Absent
            /\ Before(undo', t, m)
        BY <1>5, <1>9, <2>4, <3>1, <3>5, <4>2
      <4>4. /\ i \in 1 .. n /\ i \in 1 .. n + 1
            /\ \A j \in 1 .. n + 1 : j \in 1 .. n \/ j = n + 1
        BY <2>1, <3>2, <3>5
      <4> HIDE DEF n
      <4>5. added'[o0][i] = R[t].prop
        BY <2>2, <3>1, <3>2, <3>5, <4>4
      <4>6. ASSUME NEW j \in 1 .. n + 1, j > i
            PROVE  \E t2 \in LiveRecs' :
                     /\ R[t2].obj = R[t].obj /\ R[t2].prop = added'[o0][j]
                     /\ R[t2].oldval = Absent /\ Before(undo', t, t2)
        <5>1. CASE j = n + 1
          BY <2>2, <3>5, <4>2, <4>3, <5>1
        <5>2. CASE j \in 1 .. n
          BY <2>1, <2>2, <3>3, <3>5, <4>6, <5>2
        <5>3. QED BY <4>4, <5>1, <5>2
      <4>7. R[t].obj = o0
        BY <3>1, <3>5
      <4> HIDE DEF a
      <4>8. DOMAIN added'[o0] = 1 .. n + 1
        BY <2>2, <3>5
      <4>9. Owner(t)' = o0 /\ PropOf(t)' = R[t].prop
        BY <1>10, <4>7
      <4>10. \E k \in DOMAIN added'[o0] :
               /\ added'[o0][k] = PropOf(t)'
               /\ \A j \in DOMAIN added'[o0] : j > k =>
                    \E t2 \in LiveRecs' :
                      /\ Owner(t2)' = o0 /\ PropOf(t2)' = added'[o0][j]
                      /\ OldVal(t2)' = Absent /\ Before(undo', t, t2)
        BY <1>10, <4>4, <4>5, <4>6, <4>7, <4>8, <4>9
      <4>11. QED BY <4>9, <4>10 DEF AddedLast
    <3>6. QED BY <3>4, <3>5
  <2>5. QED BY <2>3, <2>4
<1>16. AddedOK'
  BY <1>15 DEF AddedOK
<1>17. ASSUME NEW s \in Live(undo', End') \ N, NEW o, NEW p
       PROVE  RecsAfter(s, o, p)' = RecsAfter(s, o, p) \cup
                {t \in N : R[t].obj = o /\ R[t].prop = p}
  <2>1. RecsAfter(s, o, p)' =
          RecsAfter(s, o, p) \cup
            {t \in N : /\ undo'.rec_arr[t].kind = "rec"
                       /\ undo'.rec_arr[t].obj = o /\ undo'.rec_arr[t].prop = p}
    BY <1>5, RecsAfterGrown
  <2>2. QED BY <1>4, <1>5, <2>1
<1>18. SavesOK'
  <2>1. \A s \in LiveLinks(undo', End') : \A o \in snap'[s].objs :
          o \in inuse' /\ o \notin TransientObj /\ o \in in_undo'
    <3>1. \A s \in LiveLinks(undo', End') : s \notin N
      BY <1>4, <1>5 DEF LiveLinks
    <3>2. QED BY <1>1, <1>9, <3>1 DEF UInv, SavesOK
  <2>2. PICK c : c = undo.cur_first /\ c = undo'.cur_first
    BY <1>5
  <2>3. ASSUME NEW o \in Obj, NEW p \in Prop, <<o, p>> \in prop_undo', InUndo(o)'
        PROVE  RecsAfter(c, o, p)' # {}
    <3>1. RecsAfter(c, o, p)' = RecsAfter(c, o, p) \cup
            {t \in N : R[t].obj = o /\ R[t].prop = p}
      BY <1>5, <1>17, <2>2
    <3>2. CASE <<o, p>> \in prop_undo
      BY <1>1, <1>5, <2>2, <2>3, <3>1, <3>2 DEF UInv, SavesOK, InUndo
    <3>3. CASE <<o, p>> \notin prop_undo
      <4>1. o = o0 /\ p = p0
        BY <1>1, <2>3, <3>3
      <4>2. key \notin prop_undo
        BY <1>2, <3>3, <4>1
      <4>3. PICK n \in N : R[n].prop = p0
        BY <1>6, <4>2
      <4>4. QED BY <1>5, <3>1, <4>1, <4>3
    <3>4. QED BY <3>2, <3>3
  <2>4. QED BY <1>1, <2>1, <2>2, <2>3 DEF SavesOK
<1>19. ASSUME NEW s \in LiveLinks(undo, End), s \in Live(undo', End') \ N
       PROVE  /\ RolledVal(s, o0, p0)' = RolledVal(s, o0, p0)
              /\ RolledMod(s, o0, p0)' <=> RolledMod(s, o0, p0)
  <2> DEFINE M == {t \in N : R[t].prop = p0}
  <2>1. RecsAfter(s, o0, p0)' = RecsAfter(s, o0, p0) \cup M
    BY <1>5, <1>17, <1>19
  <2>2. \A t \in RecsAfter(s, o0, p0) : R[t] = undo.rec_arr[t] /\ t \notin N
    BY <1>4, <1>5, <1>19 DEF RecsAfter, LiveNow, Grown
  <2>3. RolledMod(s, o0, p0)' <=>
          \A t \in RecsAfter(s, o0, p0) \cup M : R[t].oldval \notin {Absent, Blank}
    BY <1>1, <1>4, <2>1 DEF RolledMod
  <2>4. RolledMod(s, o0, p0) <=>
          /\ key \in mod
          /\ \A t \in RecsAfter(s, o0, p0) : R[t].oldval \notin {Absent, Blank}
    BY <1>2, <2>2 DEF RolledMod
  <2>5. CASE key \in prop_undo
    <3>1. M = {} /\ key \in mod
      BY <1>5, <1>7, <1>8, <2>5
    <3>2. RecsAfter(s, o0, p0) # {}
      <4>1. RecsAfter(undo.cur_first, o0, p0) # {}
        BY <1>1, <1>2, <1>5, <2>5 DEF UInv, SavesOK
      <4>2. QED BY <1>5, <4>1, CurrentIsLast
    <3>3. RolledVal(s, o0, p0)' = RolledVal(s, o0, p0)
      BY <1>5, <1>19, <3>2, RolledRecorded
    <3>4. QED BY <2>3, <2>4, <3>1, <3>3
  <2>6. CASE key \notin prop_undo
    <3>1. PICK n \in N :
            /\ R[n].prop = p0 /\ R[n].oldval = old
            /\ \A t \in N : ~Before(undo', t, n)
            /\ \A t \in N \ {n} : /\ Before(undo', n, t)
                                  /\ R[t].prop = p0 =>
                                       R[t].oldval = Blank /\ key \notin mod /\ old # Absent
      BY <1>6, <2>6
    <3>2. n \in M
      BY <3>1
    <3>3. (\A t \in M : R[t].oldval \notin {Absent, Blank}) <=> key \in mod
      <4>1. CASE key \in mod
        BY <1>8, <3>1, <4>1
      <4>2. CASE key \notin mod
        <5>1. CASE old = Absent
          BY <3>1, <3>2, <4>2, <5>1
        <5>2. CASE old # Absent
          <6>1. PICK m \in N : R[m].prop = p0 /\ R[m].oldval = Blank
            BY <1>5, <2>6, <4>2, <5>2
          <6>2. QED BY <4>2, <6>1
        <5>3. QED BY <5>1, <5>2
      <4>3. QED BY <4>1, <4>2
    <3>4. RolledMod(s, o0, p0)' <=> RolledMod(s, o0, p0)
      <4> HIDE DEF M
      <4>1. QED BY <2>3, <2>4, <3>3
    <3>5. CASE RecsAfter(s, o0, p0) # {}
      <4>1. RolledVal(s, o0, p0)' = RolledVal(s, o0, p0)
        BY <1>5, <1>19, <3>5, RolledRecorded
      <4>2. QED BY <3>4, <4>1
    <3>6. CASE RecsAfter(s, o0, p0) = {}
      <4>1. RolledVal(s, o0, p0) = old
        BY <1>2, <3>6, RolledValIn
      <4>2. RecsAfter(s, o0, p0)' = M
        BY <2>1, <3>6
      <4>3. {t1 \in M : \A t2 \in M : ~Before(undo', t2, t1)} = {n}
        BY <3>1, <3>2
      <4> HIDE DEF M
      <4>4. OldestIn(undo', M) = n
        BY <4>3 DEF OldestIn
      <4>5. RolledVal(s, o0, p0)' =
              IF RecsAfter(s, o0, p0)' = {} THEN val'[o0][p0]
              ELSE undo'.rec_arr[OldestIn(undo', RecsAfter(s, o0, p0)')].oldval
        BY RolledValIn
      <4>6. RolledVal(s, o0, p0)' = old
        BY <1>4, <3>1, <3>2, <4>2, <4>4, <4>5
      <4>7. QED BY <3>4, <4>1, <4>6
    <3>7. QED BY <3>5, <3>6
  <2>7. QED BY <2>5, <2>6
<1>20. ASSUME NEW s \in LiveLinks(undo', End'), NEW o \in snap'[s].objs
       PROVE  RestoredAt(s, o)'
  <2>1. s \notin N
    BY <1>4, <1>5 DEF LiveLinks
  <2>2. /\ s \in LiveLinks(undo, End) /\ s \in Live(undo', End') \ N
        /\ snap' = snap /\ o \in snap[s].objs
    BY <1>1, <1>9, <2>1 DEF LiveLinks
  <2>3. RestoredAt(s, o) /\ o \in Obj
    BY <2>2, <1>7, RestoresAt DEF UInv, SavesOK, TypeOK
  <2>4. CASE o # o0
    <3>1. \A t \in N : ~(undo'.rec_arr[t].kind = "rec" /\ undo'.rec_arr[t].obj = o)
      BY <1>4, <1>5, <2>4
    <3>2. /\ val'[o] = val[o] /\ (o \in obj_mod' <=> o \in obj_mod)
          /\ \A p \in Prop : <<o, p>> \in mod' <=> <<o, p>> \in mod
      BY <1>1, <2>3, <2>4
    <3>3. QED BY <1>5, <2>2, <2>3, <3>1, <3>2, RestoredSame
  <2>5. CASE o = o0
    <3>1. ASSUME NEW p \in Prop
          PROVE  /\ RolledVal(s, o0, p)' = RolledVal(s, o0, p)
                 /\ RolledMod(s, o0, p)' <=> RolledMod(s, o0, p)
      <4>1. CASE p = p0
        BY <1>19, <2>2, <4>1
      <4>2. CASE p # p0
        <5>1. /\ \A t \in N : ~(/\ undo'.rec_arr[t].kind = "rec"
                                /\ undo'.rec_arr[t].obj = o0 /\ undo'.rec_arr[t].prop = p)
          BY <1>4, <1>5, <4>2, ObjAssumption
        <5>2. val'[o0][p] = val[o0][p] /\ (<<o0, p>> \in mod' <=> <<o0, p>> \in mod)
          BY <1>1, <4>2
        <5>3. /\ RecsAfter(s, o0, p)' = RecsAfter(s, o0, p)
              /\ \A t \in RecsAfter(s, o0, p) : undo'.rec_arr[t] = undo.rec_arr[t]
              /\ RolledVal(s, o0, p)' = RolledVal(s, o0, p)
          BY <1>5, <2>2, <5>1, <5>2, RolledSame
        <5>4. QED BY <5>2, <5>3 DEF RolledMod
      <4>3. QED BY <4>1, <4>2
    <3>2. RolledObjMod(s, o0)' <=> RolledObjMod(s, o0)
      <4>1. RecsAfter(s, o0, InvalidProp)' = RecsAfter(s, o0, InvalidProp) \cup
              {t \in N : R[t].obj = o0 /\ R[t].prop = InvalidProp}
        BY <1>17, <2>2
      <4>2. CASE o0 \in obj_mod
        <5>1. {t \in N : R[t].obj = o0 /\ R[t].prop = InvalidProp} = {}
          BY <1>5, <1>7, <4>2
        <5>2. RecsAfter(s, o0, InvalidProp)' = RecsAfter(s, o0, InvalidProp)
          BY <4>1, <5>1
        <5>3. QED BY <1>1, <4>2, <5>2 DEF RolledObjMod
      <4>3. CASE o0 \notin obj_mod
        <5>1. RecsAfter(s, o0, InvalidProp)' # {}
          BY <1>5, <4>1, <4>3
        <5>2. QED BY <4>3, <5>1 DEF RolledObjMod
      <4>4. QED BY <4>2, <4>3
    <3>3. QED BY <2>2, <2>3, <2>5, <3>1, <3>2 DEF RestoredAt
  <2>6. QED BY <2>4, <2>5
<1>21. UndoRestores'
  BY <1>20, RestoresAt
<1>22. QED
  BY <1>1, <1>11, <1>14, <1>16, <1>18, <1>21 DEF UInv

(* Setting a property, in every case.                                      *)
LEMMA SetPropUInv ==
  ASSUME IInv, UInv, NEW o0 \in Obj, NEW p0 \in Prop, NEW v \in Obj \cup {Nil},
         SetProp(o0, p0, v)
  PROVE  UInv'
<1>1. CASE undo'.savept_cnt = 0
  <2>1. OwnersOK' /\ ValuesOK' /\ AddedOK' /\ SavesOK' /\ UndoRestores'
    BY <1>1, EmptyLog
  <2>2. ObjectsOK' /\ EntriesOK'
    BY SetPropObjects
  <2>3. QED BY <2>1, <2>2 DEF UInv
<1>2. CASE undo'.savept_cnt # 0
  BY <1>2, SetPropAside, SetPropRecorded
<1>3. QED BY <1>1, <1>2
------------------------------------------------------------------------------
(* The theorems.                                                           *)

(* At the start there are no records and the program is the image's.       *)
LEMMA InitUInv == Init => UInv
<1> SUFFICES ASSUME Init PROVE UInv
  OBVIOUS
<1>1. LiveNow = {} /\ LiveRecs = {} /\ LiveLinks(undo, End) = {}
  BY DEF Init, LiveNow, LiveRecs, LiveLinks, Live
<1>2. OwnersOK /\ ValuesOK /\ AddedOK
  BY <1>1 DEF OwnersOK, ValuesOK, AddedOK
<1>3. SavesOK /\ UndoRestores
  BY <1>1 DEF SavesOK, UndoRestores, Init
<1>4. ObjectsOK
  <2>1. inuse = RootObj /\ held = {} /\ mod = {} /\ prop_undo = {}
    BY DEF Init
  <2>2. \A o \in RootObj : val[o] = ImageVal[o]
    BY ObjAssumption DEF Init, Loaded
  <2>3. \A o \in RootObj, p \in Prop : ImageVal[o][p] \in RootObj \cup {Nil, Absent}
    BY ObjAssumption
  <2>4. QED BY <2>1, <2>2, <2>3, ObjAssumption DEF ObjectsOK
<1>5. EntriesOK
  <2>1. \A o \in Obj : added[o] = <<>>
    BY DEF Init
  <2>2. \A o \in Obj : DOMAIN added[o] = {}
    BY <2>1
  <2>3. QED BY <2>1, <2>2 DEF EntriesOK
<1>6. QED BY <1>2, <1>3, <1>4, <1>5 DEF UInv

(* Every step keeps all of it; the chain of the log is given.              *)
LEMMA NextUInv == IInv /\ UInv /\ [Next]_vars => UInv'
<1> SUFFICES ASSUME IInv, UInv, [Next]_vars PROVE UInv'
  OBVIOUS
<1>1. CASE UNCHANGED vars
  BY <1>1, QuietUInv DEF vars, objVars, End
<1>2. CASE Savepoint
  BY <1>2, SavepointUInv
<1>3. CASE UndoBegin
  <2>1. meta' # NoRec /\ meta = NoRec /\ meta' = undo.next_free
    BY <1>3, LogNow DEF UndoBegin, Undo, Slot, NoRec
  <2>2. End' = End
    BY <2>1 DEF End
  <2>3. QED BY <1>3, <2>1, <2>2, QuietUInv DEF UndoBegin, objVars
<1>4. CASE UndoStep
  BY <1>4, UndoStepUInv
<1>5. CASE UndoFinish
  BY <1>5, UndoFinishUInv
<1>6. CASE \E o \in Obj, p \in Prop, v \in Obj \cup {Nil} : SetProp(o, p, v)
  BY <1>6, SetPropUInv
<1>7. CASE \E o \in Obj \ RootObj : Create(o)
  BY <1>7, CreateUInv
<1>8. CASE \E o \in Obj : Release(o)
  <2>1. PICK o \in Obj : Release(o)
    BY <1>8
  <2>2. End' = End
    BY <2>1 DEF End, Release
  <2>3. QED BY <2>1, <2>2, QuietUInv DEF Release
<1>9. CASE Collect
  BY <1>9, CollectUInv
<1>10. CASE ResetToImage
  BY <1>10, ResetUInv
<1>11. QED
  BY <1>1, <1>2, <1>3, <1>4, <1>5, <1>6, <1>7, <1>8, <1>9, <1>10 DEF Next

(* Everything the collector, the property setter and undo rely on, at any  *)
(* moment of any execution: references to objects that exist, values that  *)
(* only a "modified" flag lets the collector see, arrays of properties in  *)
(* the order of their records, complete and ordered records.               *)
THEOREM RecordsKept == Spec => []UInv
<1>1. Init => UInv
  BY InitUInv
<1>2. IInv /\ UInv /\ [Next]_vars => UInv'
  BY NextUInv
<1>3. QED BY <1>1, <1>2, Invariance, PTL DEF Spec

(* For every savepoint kept, at every moment and in the middle of an undo, *)
(* putting its records back gives each object the values and the flags the *)
(* savepoint saw.                                                          *)
THEOREM UndoIsExact == Spec => []UndoRestores
<1>1. UInv => UndoRestores
  BY DEF UInv
<1>2. QED BY <1>1, RecordsKept, PTL

(* No property, no reference the program holds and no old value that an    *)
(* undo would put back refers to a deleted object.                         *)
THEOREM ReferencesLive == Spec => []NoDanglingRef
<1>1. UInv => NoDanglingRef
  BY DEF UInv, ObjectsOK, OwnersOK, NoDanglingRef, UndoRefs, LiveRecs, Owner, OldVal
<1>2. QED BY <1>1, RecordsKept, PTL

(* apply_undo's assertions hold: the record's owner exists, its property   *)
(* has an entry, and an added property is the last of the array.           *)
THEOREM WalkAsserts == Spec => []WalkAssertionsHold
<1>1. IInv /\ UInv => WalkAssertionsHold
  <2> SUFFICES ASSUME IInv, UInv, meta # NoRec, Dec(meta) # undo.cur_first,
                      undo.rec_arr[Dec(meta)].obj # InvalidObj
               PROVE  LET r == undo.rec_arr[Dec(meta)] IN
                      /\ r.obj \in inuse
                      /\ r.prop # InvalidProp => val[r.obj][r.prop] # Absent
                      /\ r.oldval = Absent =>
                           /\ added[r.obj] # <<>>
                           /\ added[r.obj][Len(added[r.obj])] = r.prop
    BY DEF WalkAssertionsHold
  <2>1. PICK x : x = Dec(meta)
    OBVIOUS
  <2>2. /\ x \in LiveNow /\ undo.rec_arr[x].kind = "rec" /\ ~Before(undo, x, x)
        /\ \A t \in LiveNow \ {x} : ~Before(undo, x, t)
    BY <2>1, LastSlot
  <2>3. x \in LiveRecs /\ \A t \in LiveRecs : ~Before(undo, x, t)
    BY <2>1, <2>2 DEF LiveRecs
  <2>4. /\ Owner(x) \in inuse
        /\ PropOf(x) # InvalidProp => val[Owner(x)][PropOf(x)] # Absent
    BY <2>3 DEF UInv, OwnersOK, ValuesOK
  <2>5. ASSUME OldVal(x) = Absent
        PROVE  added[Owner(x)] # <<>> /\ added[Owner(x)][Len(added[Owner(x)])] = PropOf(x)
    <3>1. /\ added[Owner(x)][Len(added[Owner(x)])] = PropOf(x)
          /\ Len(added[Owner(x)]) \in Nat \ {0}
      BY <2>3, <2>5, AddedIsLast
    <3>2. Len(<<>>) = 0
      OBVIOUS
    <3>3. QED BY <3>1, <3>2
  <2>6. QED BY <2>1, <2>4, <2>5 DEF Owner, PropOf, OldVal
<1>2. QED BY <1>1, Invariance, RecordsKept, PTL
=============================================================================
