------------------------------- MODULE UndoLog -------------------------------
(***************************************************************************)
(* The undo manager of the T3 virtual machine (tads3/vmundo.cpp) together  *)
(* with its clients: the per-object undo flags of the object table         *)
(* (vmobj.cpp), the property setter of TadsObject (vmtobj.cpp), and the    *)
(* two calls the garbage collector makes into the undo list.               *)
(*                                                                         *)
(* CVmUndo keeps a fixed circular array of slots.  A slot holds either the *)
(* link that starts a savepoint or one "old value" record.  Undoing walks  *)
(* backwards from the newest record to the link of the current savepoint   *)
(* and puts every old value back; the walk is modelled one record a step.  *)
(***************************************************************************)
EXTENDS Integers, FiniteSets, Sequences

CONSTANTS
  RecArrSize,   (* rec_arr_size_: number of slots in the array             *)
  MaxSavepts,   (* max_savepts_: savepoints kept at a time                 *)
  SaveptMax,    (* VM_SAVEPT_MAX: the largest savepoint number             *)
  Obj,          (* object IDs                                              *)
  RootObj,      (* the objects of the image file: the root set             *)
  TransientObj, (* objects created transient: they take no part in undo    *)
  Prop,         (* property IDs                                            *)
  ImageVal      (* property values of the root objects in the image file   *)

\* Values a property can have.  A property an object does not have is Absent;
\* Blank is a VM_EMPTY value sitting in an entry that exists.
Nil == "nil"
Absent == "absent"     \* VM_EMPTY with intval 0: "the property was added"
Blank == "blank"       \* VM_EMPTY with intval 1: "the entry was not modified"
Unmod == "unmod"       \* VM_INT 1 under VM_INVALID_PROP: "object not modified"
InvalidObj == "invalid_obj"
InvalidProp == "invalid_prop"

ASSUME SizeAssumption ==
  /\ RecArrSize \in Nat \ {0}
  /\ MaxSavepts \in Nat \ {0}
  /\ SaveptMax \in Nat \ {0}

ASSUME ObjAssumption ==
  /\ IsFiniteSet(Obj)
  /\ RootObj \subseteq Obj
  /\ TransientObj \subseteq Obj
  /\ {Nil, Absent, Blank, Unmod, InvalidObj} \cap Obj = {}
  /\ InvalidProp \notin Prop
  /\ ImageVal \in [RootObj -> [Prop -> RootObj \cup {Nil, Absent}]]

VARIABLES
  undo,      \* the fields of CVmUndo
  meta,      \* undo_to_savept's pointer into the array; NoRec outside it
  inuse,     \* objects whose table entry is not free
  in_undo,   \* objects with in_undo_ set
  val,       \* property values of each object
  added,     \* properties each object got since loading, in entry order
  mod,       \* <<object, property>> pairs with VMTO_PROP_MOD set
  prop_undo, \* <<object, property>> pairs with VMTO_PROP_UNDO set
  obj_mod,   \* objects with VMTO_OBJ_MOD set
  held,      \* objects the VM stack, R0 and global variables refer to
  snap       \* history: what each savepoint saw, indexed by its link slot

objVars == <<inuse, in_undo, val, added, mod, prop_undo, obj_mod, held>>
vars == <<undo, meta, objVars, snap>>
------------------------------------------------------------------------------
\* The array.

Slot == 0 .. RecArrSize - 1
NoRec == -1
SlotOrNone == Slot \cup {NoRec}

\* Definitions marked "mutant" are deliberately wrong variants of the definition
\* that follows, used to see that the properties can fail.
IncNoWrap(s) == s + 1                       \* mutant of Inc
Inc(s) == IF s + 1 = RecArrSize THEN 0 ELSE s + 1
Dec(s) == IF s = 0 THEN RecArrSize - 1 ELSE s - 1

Free == [kind |-> "free"]
Link(prev, next) == [kind |-> "link", prev_first |-> prev, next_first |-> next]
Rec(o, p, v) == [kind |-> "rec", obj |-> o, prop |-> p, oldval |-> v]

\* The slots in use run from the oldest link up to the slot before "end"; a full
\* array has end = oldest_first.  Off is a slot's distance from the first one.
Off(first, s) == IF s >= first THEN s - first ELSE s - first + RecArrSize
Size(first, end) == IF end > first THEN end - first ELSE end - first + RecArrSize
Live(u, end) ==
  IF u.savept_cnt = 0 THEN {}
  ELSE {s \in Slot : Off(u.oldest_first, s) < Size(u.oldest_first, end)}
LiveLinks(u, end) == {s \in Live(u, end) : u.rec_arr[s].kind = "link"}
Before(u, s, t) == Off(u.oldest_first, s) < Off(u.oldest_first, t)

\* The slots in use now.  During the backward walk the slots from meta on have
\* been consumed.
End == IF meta = NoRec THEN undo.next_free ELSE meta
LiveNow == Live(undo, End)
------------------------------------------------------------------------------
\* CVmUndo.

\* Assignments to the two fields of a link.
SetPrev(arr, s, prev) == [arr EXCEPT ![s] = Link(prev, arr[s].next_first)]
SetNext(arr, s, next) == [arr EXCEPT ![s] = Link(arr[s].prev_first, next)]

\* drop_oldest_savept.  (discard_undo has nothing to do for a TadsObject.)
DropOldest(u) ==
  IF u.savept_cnt = 0 THEN u
  ELSE LET next == IF u.oldest_first = NoRec THEN NoRec
                   ELSE u.rec_arr[u.oldest_first].next_first
       IN  [rec_arr      |-> IF next = NoRec THEN u.rec_arr
                             ELSE SetPrev(u.rec_arr, next, NoRec),
            cur_first    |-> IF next = NoRec THEN NoRec ELSE u.cur_first,
            oldest_first |-> next,
            next_free    |-> u.next_free,
            savept_cnt   |-> u.savept_cnt - 1,
            cur_savept   |-> u.cur_savept]

\* mutant of DropUndo: only the savepoint number is reset
DropUndoNumber(u) ==
  [rec_arr |-> u.rec_arr, cur_first |-> u.cur_first, oldest_first |-> u.oldest_first,
   next_free |-> u.next_free, savept_cnt |-> u.savept_cnt, cur_savept |-> 0]

\* drop_undo
DropUndo(u) ==
  [rec_arr |-> u.rec_arr, cur_first |-> NoRec, oldest_first |-> NoRec,
   next_free |-> 0, savept_cnt |-> 0, cur_savept |-> 0]

\* alloc_rec takes next_free when HasRoom; otherwise it drops the oldest
\* savepoint and, unless that was the last one, tries again.  Dropping one of
\* several savepoints always makes room (theorem OneDropMakesRoom), so the
\* retry loop runs at most once.
HasRoom(u) == u.savept_cnt = 0 \/ u.next_free # u.oldest_first
AllocFails(u) == ~HasRoom(u) /\ u.savept_cnt <= 1
WithRoom(u) == IF HasRoom(u) THEN u ELSE DropOldest(u)

\* mutant of AddLink: the savepoint before is not told of the new one
AddLinkUnlinked(u) ==
  [rec_arr      |-> [u.rec_arr EXCEPT ![u.next_free] = Link(u.cur_first, NoRec)],
   cur_first    |-> u.next_free,
   oldest_first |-> IF u.oldest_first = NoRec THEN u.next_free ELSE u.oldest_first,
   next_free    |-> Inc(u.next_free),
   savept_cnt   |-> u.savept_cnt + 1,
   cur_savept   |-> IF u.cur_savept = SaveptMax THEN 0 ELSE u.cur_savept + 1]

\* create_savept.  With max_savepts_ savepoints already, the oldest is dropped
\* once the new link is in place.
AddLink(u) ==
  LET rec == u.next_free
      fwd == IF u.cur_first = NoRec THEN u.rec_arr
             ELSE SetNext(u.rec_arr, u.cur_first, rec)
  IN  [rec_arr      |-> [fwd EXCEPT ![rec] = Link(u.cur_first, NoRec)],
       cur_first    |-> rec,
       oldest_first |-> IF u.oldest_first = NoRec THEN rec ELSE u.oldest_first,
       next_free    |-> Inc(rec),
       savept_cnt   |-> u.savept_cnt + 1,
       cur_savept   |-> IF u.cur_savept = SaveptMax THEN 0 ELSE u.cur_savept + 1]

\* mutant of CreateSavept: one savepoint too many is kept
CreateSaveptOver(u) ==
  IF AllocFails(u) THEN DropOldest(u)
  ELSE LET room == WithRoom(u) IN
       IF room.savept_cnt > MaxSavepts THEN DropOldest(AddLink(room)) ELSE AddLink(room)

CreateSavept(u) ==
  IF AllocFails(u) THEN DropOldest(u)
  ELSE LET room == WithRoom(u) IN
       IF room.savept_cnt = MaxSavepts THEN DropOldest(AddLink(room)) ELSE AddLink(room)

\* is_obj_in_undo
InUndo(o) == o \in in_undo /\ o \notin TransientObj

\* add_new_record and add_new_record_prop_key
AddRec(u, r) ==
  [rec_arr      |-> [u.rec_arr EXCEPT ![u.next_free] = r],
   cur_first    |-> u.cur_first,
   oldest_first |-> u.oldest_first,
   next_free    |-> Inc(u.next_free),
   savept_cnt   |-> u.savept_cnt,
   cur_savept   |-> u.cur_savept]

\* mutant of AddRecord: a savepoint that cannot be kept complete is kept
AddRecordOrSkip(u, o, p, old) ==
  IF u.savept_cnt = 0 \/ ~InUndo(o) \/ AllocFails(u) THEN u
  ELSE AddRec(WithRoom(u), Rec(o, p, old))

AddRecord(u, o, p, old) ==
  IF u.savept_cnt = 0 \/ ~InUndo(o) THEN u
  ELSE IF AllocFails(u) THEN DropOldest(u)
  ELSE AddRec(WithRoom(u), Rec(o, p, old))

\* The last part of undo_to_savept: pop the current savepoint.
PopSavept(u) ==
  LET prev == u.rec_arr[u.cur_first].prev_first
      less == (u.cur_savept - 1) % (SaveptMax + 1)
  IN  [rec_arr      |-> IF prev = NoRec THEN u.rec_arr
                        ELSE SetNext(u.rec_arr, prev, NoRec),
       cur_first    |-> prev,
       oldest_first |-> IF prev = NoRec THEN NoRec ELSE u.oldest_first,
       next_free    |-> u.cur_first,
       savept_cnt   |-> u.savept_cnt - 1,
       cur_savept   |-> IF less = 0 THEN SaveptMax ELSE less]
------------------------------------------------------------------------------
\* What the garbage collector can reach.

\* CVmObjTads::mark_refs: only modified properties are traced.
Refs(o) == {val[o][p] : p \in {q \in Prop : <<o, q>> \in mod}} \cap Obj
Closed(S) == \A o \in S : Refs(o) \subseteq S
Reach(S) == {o \in Obj : \A C \in SUBSET Obj : S \subseteq C /\ Closed(C) => o \in C}

\* mutant of UndoRefs: marks the owners of the records and not their values
UndoOwners ==
  {undo.rec_arr[s].obj : s \in {t \in LiveNow : undo.rec_arr[t].kind = "rec"}} \cap Obj

\* gc_mark_refs: the old values of records that still have an owner.
UndoRefs ==
  {undo.rec_arr[s].oldval :
     s \in {t \in LiveNow : /\ undo.rec_arr[t].kind = "rec"
                            /\ undo.rec_arr[t].obj # InvalidObj}} \cap Obj

\* What the running program can name: it sees image values too.
Accessible ==
  {o \in Obj : \A C \in SUBSET Obj :
     (/\ RootObj \cup held \subseteq C
      /\ \A x \in C : \A p \in Prop : val[x][p] \in Obj => val[x][p] \in C)
     => o \in C}
------------------------------------------------------------------------------
\* A savepoint's view of the objects that take part in undo.
Snapshot(id) ==
  [objs |-> inuse \ TransientObj, val |-> val, mod |-> mod,
   obj_mod |-> obj_mod, id |-> id]

NoSnap == [objs |-> {}, val |-> [o \in Obj |-> [p \in Prop |-> Absent]],
           mod |-> {}, obj_mod |-> {}, id |-> 0]

Loaded(o) == IF o \in RootObj THEN ImageVal[o] ELSE [p \in Prop |-> Absent]

\* The VM has loaded the image and run no code yet.
Init ==
  /\ undo = [rec_arr |-> [s \in Slot |-> Free], cur_first |-> NoRec,
             oldest_first |-> NoRec, next_free |-> 0,
             savept_cnt |-> 0, cur_savept |-> 0]
  /\ meta = NoRec
  /\ inuse = RootObj
  /\ in_undo = {}
  /\ val = [o \in Obj |-> Loaded(o)]
  /\ added = [o \in Obj |-> <<>>]
  /\ mod = {} /\ prop_undo = {} /\ obj_mod = {}
  /\ held = {}
  /\ snap = [s \in Slot |-> NoSnap]

\* The savepoint() built-in.  notify_new_savept is reached only when a link
\* could be allocated.
Savepoint ==
  /\ meta = NoRec
  /\ undo' = CreateSavept(undo)
  /\ IF AllocFails(undo)
     THEN UNCHANGED <<in_undo, prop_undo, snap>>
     ELSE /\ in_undo' = inuse
          /\ prop_undo' = {}
          /\ snap' = [snap EXCEPT ![undo'.cur_first] = Snapshot(undo'.cur_savept)]
  /\ UNCHANGED <<meta, inuse, val, added, mod, obj_mod, held>>

\* The undo() built-in with a savepoint to go back to: enter undo_to_savept.
UndoBegin ==
  /\ meta = NoRec
  /\ undo.savept_cnt # 0
  /\ meta' = undo.next_free
  /\ UNCHANGED <<undo, objVars, snap>>

\* CVmObjTable::apply_undo and CVmObjTads::apply_undo on one record.  Undoing the
\* addition of a property gives up the last entry of the object's array.
DropEntry(entries) == SubSeq(entries, 1, Len(entries) - 1)
Apply(r) ==
  LET key == <<r.obj, r.prop>> IN
  CASE r.obj = InvalidObj ->
         UNCHANGED <<val, added, mod, prop_undo, obj_mod>>
    [] r.obj # InvalidObj /\ r.prop = InvalidProp ->
         /\ obj_mod' = obj_mod \ {r.obj}
         /\ UNCHANGED <<val, added, mod, prop_undo>>
    [] r.obj # InvalidObj /\ r.prop # InvalidProp ->
         /\ val' = [val EXCEPT ![r.obj][r.prop] = r.oldval]
         /\ added' = IF r.oldval = Absent
                     THEN [added EXCEPT ![r.obj] = DropEntry(added[r.obj])] ELSE added
         /\ mod' = IF r.oldval \in {Absent, Blank} THEN mod \ {key} ELSE mod
         /\ prop_undo' = IF r.oldval = Absent THEN prop_undo \ {key} ELSE prop_undo
         /\ UNCHANGED obj_mod

\* mutant of UndoStep: the walk does not move on from an object-level record
UndoStepNoMove ==
  /\ meta # NoRec
  /\ Dec(meta) # undo.cur_first
  /\ meta' = IF undo.rec_arr[Dec(meta)].prop = InvalidProp THEN meta ELSE Dec(meta)
  /\ Apply(undo.rec_arr[Dec(meta)])
  /\ UNCHANGED <<undo, inuse, in_undo, held, snap>>

UndoStep ==
  /\ meta # NoRec
  /\ Dec(meta) # undo.cur_first
  /\ meta' = Dec(meta)
  /\ Apply(undo.rec_arr[Dec(meta)])
  /\ UNCHANGED <<undo, inuse, in_undo, held, snap>>

UndoFinish ==
  /\ meta # NoRec
  /\ Dec(meta) = undo.cur_first
  /\ meta' = NoRec
  /\ undo' = PopSavept(undo)
  /\ in_undo' = inuse
  /\ prop_undo' = {}
  /\ UNCHANGED <<inuse, val, added, mod, obj_mod, held, snap>>

\* CVmObjTads::set_prop, with mark_modified at its end.
SetProp(o, p, v) ==
  /\ meta = NoRec
  /\ o \in Accessible
  /\ v \in Accessible \cup {Nil}
  /\ LET old == val[o][p]
         fresh == <<o, p>> \notin prop_undo
         u1 == IF fresh THEN AddRecord(undo, o, p, old) ELSE undo
         u2 == IF fresh /\ <<o, p>> \notin mod /\ old # Absent
               THEN AddRecord(u1, o, p, Blank) ELSE u1
         u3 == IF o \notin obj_mod
               THEN AddRecord(u2, o, InvalidProp, Unmod) ELSE u2
     IN  undo' = u3
  /\ val' = [val EXCEPT ![o][p] = v]
  /\ added' = IF val[o][p] = Absent
              THEN [added EXCEPT ![o] = Append(added[o], p)] ELSE added
  /\ mod' = mod \cup {<<o, p>>}
  /\ prop_undo' = prop_undo \cup {<<o, p>>}
  /\ obj_mod' = obj_mod \cup {o}
  /\ UNCHANGED <<meta, inuse, in_undo, held, snap>>

\* A new object: alloc_obj and init_entry_for_alloc.  The caller has the
\* reference on its stack.  (The collection alloc_obj may run first is Collect.)
Create(o) ==
  /\ meta = NoRec
  /\ o \notin inuse
  /\ inuse' = inuse \cup {o}
  /\ in_undo' = in_undo \ {o}
  /\ val' = [val EXCEPT ![o] = [p \in Prop |-> Absent]]
  /\ held' = held \cup {o}
  /\ UNCHANGED <<undo, meta, added, mod, prop_undo, obj_mod, snap>>

\* The program drops the last stack reference to an object.
Release(o) ==
  /\ meta = NoRec
  /\ o \in held
  /\ held' = held \ {o}
  /\ UNCHANGED <<undo, meta, inuse, in_undo, val, added, mod, prop_undo, obj_mod, snap>>

\* gc_remove_stale_weak_refs: records of a deleted owner lose their owner.
EraseOwners(u, D) ==
  [rec_arr      |-> [s \in Slot |->
                       IF /\ s \in Live(u, u.next_free)
                          /\ u.rec_arr[s].kind = "rec"
                          /\ u.rec_arr[s].obj \in D
                       THEN Rec(InvalidObj, u.rec_arr[s].prop, u.rec_arr[s].oldval)
                       ELSE u.rec_arr[s]],
   cur_first    |-> u.cur_first,
   oldest_first |-> u.oldest_first,
   next_free    |-> u.next_free,
   savept_cnt   |-> u.savept_cnt,
   cur_savept   |-> u.cur_savept]

\* A complete collection: the undo list is a root, its records' owners are not.
Garbage == inuse \ Reach(RootObj \cup held \cup UndoRefs)
Collect ==
  /\ meta = NoRec
  /\ Garbage # {}
  /\ inuse' = inuse \ Garbage
  /\ in_undo' = in_undo \ Garbage
  /\ val' = [o \in Obj |-> IF o \in Garbage THEN [p \in Prop |-> Absent] ELSE val[o]]
  /\ added' = [o \in Obj |-> IF o \in Garbage THEN <<>> ELSE added[o]]
  /\ mod' = {m \in mod : m[1] \notin Garbage}
  /\ prop_undo' = {m \in prop_undo : m[1] \notin Garbage}
  /\ obj_mod' = obj_mod \ Garbage
  /\ undo' = EraseOwners(undo, Garbage)
  /\ snap' = [s \in Slot |-> [snap[s] EXCEPT !.objs = @ \ Garbage]]
  /\ UNCHANGED <<meta, held>>

\* reset_to_image (RESTART, and the first half of RESTORE).
ResetToImage ==
  LET reset == RootObj \ TransientObj IN
  /\ meta = NoRec
  /\ undo' = DropUndo(undo)
  /\ val' = [o \in Obj |-> IF o \in reset THEN ImageVal[o] ELSE val[o]]
  /\ added' = [o \in Obj |-> IF o \in reset THEN <<>> ELSE added[o]]
  /\ mod' = {m \in mod : m[1] \notin reset}
  /\ prop_undo' = {m \in prop_undo : m[1] \notin reset}
  /\ obj_mod' = obj_mod \ reset
  /\ UNCHANGED <<meta, inuse, in_undo, held, snap>>

Walk == UndoStep \/ UndoFinish

Next ==
  \/ Savepoint
  \/ UndoBegin
  \/ UndoStep
  \/ UndoFinish
  \/ \E o \in Obj, p \in Prop, v \in Obj \cup {Nil} : SetProp(o, p, v)
  \/ \E o \in Obj \ RootObj : Create(o)
  \/ \E o \in Obj : Release(o)
  \/ Collect
  \/ ResetToImage

Spec == Init /\ [][Next]_vars

\* The walk is a loop of one call: once entered it runs.
FairSpec == Spec /\ WF_vars(Walk)
------------------------------------------------------------------------------
\* Properties.

RefVal == Obj \cup {Nil, Absent, Blank}
Content ==
  {Free}
  \cup [kind : {"link"}, prev_first : SlotOrNone, next_first : SlotOrNone]
  \cup [kind : {"rec"}, obj : Obj \cup {InvalidObj}, prop : Prop, oldval : RefVal]
  \cup [kind : {"rec"}, obj : Obj \cup {InvalidObj}, prop : {InvalidProp}, oldval : {Unmod}]
Undo == [rec_arr : [Slot -> Content], cur_first : SlotOrNone,
         oldest_first : SlotOrNone, next_free : Slot,
         savept_cnt : Nat, cur_savept : 0 .. SaveptMax]
Snap == [objs : SUBSET Obj, val : [Obj -> [Prop -> RefVal]],
         mod : SUBSET (Obj \X Prop), obj_mod : SUBSET Obj, id : 0 .. SaveptMax]

\* The fields of CVmUndo and of the objects stay within their types.
TypeOK ==
  /\ undo \in Undo
  /\ meta \in SlotOrNone
  /\ inuse \in SUBSET Obj
  /\ in_undo \in SUBSET Obj
  /\ val \in [Obj -> [Prop -> RefVal]]
  /\ added \in [Obj -> Seq(Prop)]
  /\ mod \in SUBSET (Obj \X Prop)
  /\ prop_undo \in SUBSET (Obj \X Prop)
  /\ obj_mod \in SUBSET Obj
  /\ held \in SUBSET Obj
  /\ snap \in [Slot -> Snap]

\* A slot is an untagged union, and every walk over the array (undo_to_savept,
\* gc_mark_refs, drop_oldest_savept) tells links from records only by following
\* the chain of links.  So the chain must visit exactly the links among the slots
\* in use, in array order and in both directions, with as many savepoints as
\* savept_cnt_ says and never more than max_savepts_.
IsNextLink(u, L, s, n) ==
  LET later == {t \in L : Before(u, s, t)} IN
  IF n = NoRec THEN later = {}
  ELSE n \in later /\ \A t \in later : ~Before(u, t, n)
IsPrevLink(u, L, s, n) ==
  LET earlier == {t \in L : Before(u, t, s)} IN
  IF n = NoRec THEN earlier = {}
  ELSE n \in earlier /\ \A t \in earlier : ~Before(u, n, t)

ChainOK(u, end) ==
  LET L == LiveLinks(u, end) IN
  /\ u.savept_cnt = Cardinality(L)
  /\ IF u.savept_cnt = 0 THEN u.oldest_first = NoRec /\ u.cur_first = NoRec
     ELSE u.oldest_first \in L /\ u.cur_first \in L
  /\ \A s \in Live(u, end) : u.rec_arr[s] # Free
  /\ \A s \in L : /\ IsNextLink(u, L, s, u.rec_arr[s].next_first)
                  /\ IsPrevLink(u, L, s, u.rec_arr[s].prev_first)
                  /\ s = u.cur_first <=> u.rec_arr[s].next_first = NoRec

ChainMatchesSlots == ChainOK(undo, End) /\ undo.savept_cnt <= MaxSavepts

\* What an object would be after the records behind link s were put back: the
\* oldest of the records of a property decides its value.
RecsAfter(s, o, p) ==
  {t \in LiveNow : /\ Before(undo, s, t)
                   /\ undo.rec_arr[t].kind = "rec"
                   /\ undo.rec_arr[t].obj = o
                   /\ undo.rec_arr[t].prop = p}
First(R) == {t \in R : \A t2 \in R : ~Before(undo, t2, t)}
Oldest(R) == CHOOSE t \in First(R) : TRUE
RolledVal(s, o, p) ==
  LET R == RecsAfter(s, o, p) IN
  IF R = {} THEN val[o][p] ELSE undo.rec_arr[Oldest(R)].oldval
RolledMod(s, o, p) ==
  /\ <<o, p>> \in mod
  /\ \A t \in RecsAfter(s, o, p) : undo.rec_arr[t].oldval \notin {Absent, Blank}
RolledObjMod(s, o) == o \in obj_mod /\ RecsAfter(s, o, InvalidProp) = {}

\* Undo restores.  For every savepoint still kept, at every moment and also in
\* the middle of an undo, rolling the records back to it gives each object that
\* existed then, still exists and is not transient exactly the property values and
\* "modified" flags it had, although set_prop records only the first change of a
\* property in a savepoint, the two flags have records of their own, savepoints
\* are dropped when the array fills, and the collector erases records.
UndoRestores ==
  \A s \in LiveLinks(undo, End) : \A o \in snap[s].objs :
    /\ \A p \in Prop :
         /\ RolledVal(s, o, p) = snap[s].val[o][p]
         /\ RolledMod(s, o, p) <=> <<o, p>> \in snap[s].mod
    /\ RolledObjMod(s, o) <=> o \in snap[s].obj_mod

\* CVmObjTads::apply_undo asserts that a record's property has an entry, and, when
\* it undoes an addition, that the entry is the last one of the array; and the undo
\* manager calls the record's owner without asking whether it is still there.  The
\* next record of a walk always finds all three so.
WalkAssertionsHold ==
  meta # NoRec /\ Dec(meta) # undo.cur_first =>
    LET r == undo.rec_arr[Dec(meta)] IN
    r.obj # InvalidObj =>
      /\ r.obj \in inuse
      /\ r.prop # InvalidProp => val[r.obj][r.prop] # Absent
      /\ r.oldval = Absent =>
           /\ added[r.obj] # <<>>
           /\ added[r.obj][Len(added[r.obj])] = r.prop

\* No reference to a deleted object, neither in a property nor in an old value
\* that an undo would put back: the collector must treat old values as roots,
\* although it holds their owners only weakly and does not trace properties that
\* are unmodified since loading.
NoDanglingRef ==
  /\ held \subseteq inuse
  /\ \A o \in inuse, p \in Prop : val[o][p] \in Obj => val[o][p] \in inuse
  /\ UndoRefs \subseteq inuse

\* undo_to_savept's walk ends: going backwards it always meets the link it stops at.
UndoTerminates == meta # NoRec ~> meta = NoRec
=============================================================================
