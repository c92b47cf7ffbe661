-------------------------------- MODULE ObjGC --------------------------------
(***************************************************************************)
(* The object table of the T3 virtual machine and its garbage collector    *)
(* (CVmObjTable: tads3/vmobj.cpp, vmobj.h).                                *)
(*                                                                         *)
(* UndoLog takes a collection as one step.  Here it is taken apart: the    *)
(* three lists that share the field next_obj_ (free list, work queue and   *)
(* finalizer queue), tracing one object a step, sweeping one entry a step, *)
(* finalizers that run as program code before the pass has returned, and   *)
(* saving, which borrows the collector's marks.                            *)
(***************************************************************************)
EXTENDS Integers, FiniteSets, Sequences

CONSTANTS
  NumObj,        (* entries of the object table, numbered from 1            *)
  NumRoot,       (* entries loaded from the image file: 1 .. NumRoot        *)
  Finalizable,   (* objects whose class defines a finalizer                 *)
  NoRefs,        (* objects that cannot have references (can_have_refs_)    *)
  WeakHolders,   (* objects that can have weak ones (can_have_weak_refs_)   *)
  TransientObj,  (* transient objects                                       *)
  MaxNested,     (* bound: collections that may run inside finalizers       *)
  WriteMayFail   (* whether writing the saved state file may fail           *)

Obj == 1 .. NumObj
RootObj == 1 .. NumRoot
Dynamic == Obj \ RootObj
NoObj == 0                             \* VM_INVALID_OBJ
ObjOrNone == Obj \cup {NoObj}

\* Reachability and finalization states.
UNREACHABLE == 0
F_REACHABLE == 1
REACHABLE == 2
UNFINALIZABLE == 0
FINALIZABLE == 1
FINALIZED == 2

ASSUME TableAssumption ==
  /\ NumObj \in Nat /\ NumRoot \in 0 .. NumObj
  /\ Finalizable \subseteq Dynamic
  /\ NoRefs \subseteq Obj /\ WeakHolders \subseteq Obj /\ TransientObj \subseteq Obj
  /\ MaxNested \in Nat
  /\ WriteMayFail \in BOOLEAN

VARIABLES
  \* the table
  free,           \* entries with free_ set
  reach,          \* reachable_ of each entry
  fin,            \* finalize_state_ of each entry
  next_obj,       \* next_obj_ of each entry: the link of whatever list it is in
  prev_free,      \* prev_free_ of each entry, meaningful in the free list only
  first_free, gc_queue_head, finalize_queue_head,
  \* the objects
  strong,         \* the object each object refers to, if any
  weak,           \* the object each object refers to weakly, if any
  stack,          \* the objects the VM stack, R0 and the globals refer to
  undo_rec,       \* one undo record, standing for CVmUndo's list: owner, old value
  \* control
  pc,             \* what the VM is doing
  scan,           \* the entry a loop over the table has come to
  frames,         \* the objects whose finalizers are running, innermost last
  saving,         \* the collection running was started by save()
  calls           \* history: finalizer calls of each object (2: more than one)

tabVars == <<free, reach, fin, next_obj, prev_free,
             first_free, gc_queue_head, finalize_queue_head>>
listVars == <<reach, next_obj, gc_queue_head>>
freeVars == <<free, prev_free, first_free>>
objVars == <<strong, weak, stack, undo_rec>>
ctlVars == <<pc, scan, frames, saving>>
vars == <<tabVars, objVars, ctlVars, calls>>

MaxOf(S) == CHOOSE x \in S : \A y \in S : y <= x
InFrames == {frames[i] : i \in DOMAIN frames}
------------------------------------------------------------------------------
\* The collector's work queue.

\* is_deletable
IsDeletable(o) ==
  o \in free \/ (reach[o] = UNREACHABLE /\ fin[o] = FINALIZED)

\* mutant of IsObjDeletable: an entry deleted earlier in the scan is not recognised
IsObjDeletableUnswept(v) == v # NoObj /\ v \notin free /\ IsDeletable(v)

\* is_obj_deletable: what remove_stale_weak_refs and the undo manager forget.
IsObjDeletable(v) == v # NoObj /\ IsDeletable(v)

\* What pushing the objects of new on a list with this head, lowest ID first, leaves
\* in the links of those objects and in the head.
PushedLink(new, head, o) ==
  LET below == {x \in new : x < o} IN IF below = {} THEN head ELSE MaxOf(below)
PushedHead(new, head) == IF new = {} THEN head ELSE MaxOf(new)

\* mutant of AddToGcQueue: the states are combined with "|="
AddToGcQueueOr(q, S, state) ==
  LET new == {o \in S \ NoRefs : q.reach[o] = UNREACHABLE} IN
  [reach |-> [o \in Obj |->
                IF o \notin S \/ q.reach[o] = state THEN q.reach[o]
                ELSE q.reach[o] + state],
   next  |-> [o \in Obj |->
                IF o \in new THEN PushedLink(new, q.head, o) ELSE q.next[o]],
   head  |-> PushedHead(new, q.head)]

\* add_to_gc_queue, called for each object of S in the order of their IDs: queue
\* the unreached ones that can have references, and never lower a state.
AddToGcQueue(q, S, state) ==
  LET new == {o \in S \ NoRefs : q.reach[o] = UNREACHABLE} IN
  [reach |-> [o \in Obj |->
                IF o \in S /\ state > q.reach[o] THEN state ELSE q.reach[o]],
   next  |-> [o \in Obj |->
                IF o \in new THEN PushedLink(new, q.head, o) ELSE q.next[o]],
   head  |-> PushedHead(new, q.head)]

GcQueue == [reach |-> reach, next |-> next_obj, head |-> gc_queue_head]
BecomesGcQueue(q) ==
  reach' = q.reach /\ next_obj' = q.next /\ gc_queue_head' = q.head

\* mutant of GcSetInitConditions: every object is queued for the next pass
InitConditionsQueueAll(q, o) ==
  AddToGcQueue([q EXCEPT !.reach[o] = UNREACHABLE], {o}, REACHABLE)

\* gc_set_init_conditions
GcSetInitConditions(q, o) ==
  LET clear == [q EXCEPT !.reach[o] = UNREACHABLE] IN
  IF o \in RootObj THEN AddToGcQueue(clear, {o}, REACHABLE) ELSE clear

\* gc_mark_refs of the undo manager: an old value is kept while the record has an
\* owner that can have references.
UndoRefs ==
  IF undo_rec.owner \in Obj \ NoRefs THEN {undo_rec.oldval} \ {NoObj} ELSE {}

\* mutant of GcRoots: the undo records are forgotten
GcRootsNoUndo == stack \cup InFrames

\* What gc_pass_init queues besides the root objects, which are in the queue
\* already: stack, imports and globals, undo.
GcRoots == stack \cup InFrames \cup UndoRefs

StrongRefs(o) == {strong[o]} \ {NoObj}

\* The objects that following the field f from S leads to: the smallest set with S
\* in it that f does not leave.
Followed(f, S) ==
  {o \in Obj : \A C \in SUBSET Obj :
     S \subseteq C /\ (\A x \in C : f[x] \in C \cup {NoObj}) => o \in C}

Reach(S) == Followed(strong, S)

\* What the running program can get hold of: weak references can be read too.
Accessible ==
  {o \in Obj : \A C \in SUBSET Obj :
     (/\ RootObj \cup stack \cup InFrames \subseteq C
      /\ \A x \in C : ({strong[x], weak[x]} \ {NoObj}) \subseteq C) => o \in C}
------------------------------------------------------------------------------
NoUndo == [owner |-> NoObj, oldval |-> NoObj]

\* The image file is loaded into the first page of the table: the free list was
\* built from the lowest ID to the highest, then alloc_obj_with_id took the root
\* objects out of it and queued them.
Init ==
  /\ free = Dynamic
  /\ fin = [o \in Obj |-> IF o \in RootObj THEN UNFINALIZABLE ELSE FINALIZED]
  /\ LET q == AddToGcQueue([reach |-> [o \in Obj |-> UNREACHABLE],
                            next |-> [o \in Obj |->
                                        IF o > NumRoot + 1 THEN o - 1 ELSE NoObj],
                            head |-> NoObj],
                           RootObj, REACHABLE)
     IN  reach = q.reach /\ next_obj = q.next /\ gc_queue_head = q.head
  /\ prev_free = [o \in Obj |-> IF o \in Dynamic /\ o < NumObj THEN o + 1 ELSE NoObj]
  /\ first_free = IF Dynamic = {} THEN NoObj ELSE NumObj
  /\ finalize_queue_head = NoObj
  /\ strong = [o \in Obj |-> NoObj]
  /\ weak = [o \in Obj |-> NoObj]
  /\ stack = {}
  /\ undo_rec = NoUndo
  /\ pc = "run" /\ scan = 1 /\ frames = <<>> /\ saving = FALSE
  /\ calls = [o \in Obj |-> 0]
------------------------------------------------------------------------------
\* The program, in the main line or in a finalizer.

Running == pc = "run"

\* mutant of Unlink: the next entry keeps its back pointer
UnlinkOneWay(o) ==
  /\ first_free' = next_obj[o]
  /\ prev_free' = prev_free

\* Take the first entry out of the free list.
Unlink(o) ==
  /\ first_free' = next_obj[o]
  /\ prev_free' = [p \in Obj |-> IF p = next_obj[o] THEN prev_free[o] ELSE prev_free[p]]

\* alloc_obj with init_entry_for_alloc (the pass it may run first is GcBegin).  The
\* bound is one page: an empty free list allocates nothing.
AllocObj ==
  LET o == first_free IN
  /\ Running
  /\ o # NoObj
  /\ Unlink(o)
  /\ free' = free \ {o}
  /\ reach' = [reach EXCEPT ![o] = UNREACHABLE]
  /\ fin' = [fin EXCEPT ![o] = UNFINALIZABLE]
  /\ strong' = [strong EXCEPT ![o] = NoObj]
  /\ weak' = [weak EXCEPT ![o] = NoObj]
  /\ calls' = [calls EXCEPT ![o] = 0]
  /\ stack' = stack \cup {o}
  /\ UNCHANGED <<next_obj, gc_queue_head, finalize_queue_head, undo_rec, ctlVars>>

\* An assignment to a property.  Whether it leaves an undo record is up to UndoLog;
\* for a transient object it never does.
SetStrong(o, v) ==
  /\ Running
  /\ o \in Accessible \ NoRefs
  /\ v \in Accessible \cup {NoObj}
  /\ strong[o] # v
  /\ strong' = [strong EXCEPT ![o] = v]
  /\ undo_rec' \in {undo_rec} \cup
       (IF undo_rec = NoUndo /\ o \notin TransientObj
        THEN {[owner |-> o, oldval |-> strong[o]]} ELSE {})
  /\ UNCHANGED <<tabVars, weak, stack, ctlVars, calls>>

SetWeak(o, v) ==
  /\ Running
  /\ o \in Accessible \cap WeakHolders
  /\ v \in Accessible \cup {NoObj}
  /\ weak[o] # v
  /\ weak' = [weak EXCEPT ![o] = v]
  /\ UNCHANGED <<tabVars, strong, stack, undo_rec, ctlVars, calls>>

\* A function returns, a local variable is overwritten.
Release(o) ==
  /\ Running
  /\ o \in stack
  /\ stack' = stack \ {o}
  /\ UNCHANGED <<tabVars, strong, weak, undo_rec, ctlVars, calls>>

\* Going back to the savepoint puts the old value back.
ApplyUndo ==
  /\ Running
  /\ undo_rec # NoUndo
  /\ strong' = IF undo_rec.owner = NoObj THEN strong
               ELSE [strong EXCEPT ![undo_rec.owner] = undo_rec.oldval]
  /\ undo_rec' = NoUndo
  /\ UNCHANGED <<tabVars, weak, stack, ctlVars, calls>>

Program ==
  \/ AllocObj
  \/ \E o \in Obj, v \in ObjOrNone : SetStrong(o, v)
  \/ \E o \in Obj, v \in ObjOrNone : SetWeak(o, v)
  \/ \E o \in Obj : Release(o)
  \/ ApplyUndo
------------------------------------------------------------------------------
\* A collection: gc_full, gc_before_alloc.

\* gc_pass_init
PassInit ==
  /\ Running
  /\ BecomesGcQueue(AddToGcQueue(GcQueue, GcRoots, REACHABLE))
  /\ pc' = "trace"
  /\ UNCHANGED <<freeVars, fin, finalize_queue_head, objVars, scan, frames, calls>>

GcBegin ==
  /\ PassInit
  /\ Len(frames) <= MaxNested
  /\ UNCHANGED saving

\* gc_pass_continue on one object: take it from the queue, mark its references.
\* Saving does not trace transient objects.
TraceOne ==
  LET cur == gc_queue_head
      refs == IF pc = "savetrace" /\ cur \in TransientObj THEN {} ELSE StrongRefs(cur)
  IN
  /\ pc \in {"trace", "ftrace", "savetrace"}
  /\ cur # NoObj
  /\ BecomesGcQueue(AddToGcQueue([GcQueue EXCEPT !.head = next_obj[cur]],
                                 refs, reach[cur]))
  /\ UNCHANGED <<freeVars, fin, finalize_queue_head, objVars, ctlVars, calls>>

\* The first scan of gc_pass_finish: newly unreachable objects become finalizable,
\* or finalized if they have no finalizer; everything finalizable is queued.
Classify ==
  LET newly == {o \in Dynamic \ free : reach[o] # REACHABLE /\ fin[o] = UNFINALIZABLE}
  IN
  /\ pc = "trace"
  /\ gc_queue_head = NoObj
  /\ fin' = [o \in Obj |->
               IF o \notin newly THEN fin[o]
               ELSE IF o \in Finalizable THEN FINALIZABLE ELSE FINALIZED]
  /\ BecomesGcQueue(AddToGcQueue(GcQueue,
                       {o \in Dynamic \ free : fin'[o] = FINALIZABLE}, F_REACHABLE))
  /\ pc' = "ftrace"
  /\ UNCHANGED <<freeVars, finalize_queue_head, objVars, scan, frames, saving, calls>>

SweepBegin ==
  /\ pc = "ftrace"
  /\ gc_queue_head = NoObj
  /\ pc' = "sweep"
  /\ scan' = 1
  /\ UNCHANGED <<tabVars, objVars, frames, saving, calls>>

\* delete_entry
DeleteEntry(o) ==
  /\ free' = free \cup {o}
  /\ next_obj' = [next_obj EXCEPT ![o] = first_free]
  /\ prev_free' = [p \in Obj |-> IF p = o THEN NoObj
                                 ELSE IF p = first_free THEN o ELSE prev_free[p]]
  /\ first_free' = o
  /\ strong' = [strong EXCEPT ![o] = NoObj]
  /\ weak' = [weak EXCEPT ![o] = NoObj]
  /\ UNCHANGED <<reach, gc_queue_head, finalize_queue_head>>

\* mutant of KeepEntry: the marks of objects without references are not cleared
KeepEntryMarked(o) ==
  LET pending == fin[o] = FINALIZABLE
      q == [reach |-> IF pending THEN [reach EXCEPT ![o] = F_REACHABLE] ELSE reach,
            next  |-> IF pending THEN [next_obj EXCEPT ![o] = finalize_queue_head]
                      ELSE next_obj,
            head  |-> gc_queue_head]
  IN
  /\ weak' = [weak EXCEPT ![o] = IF o \in WeakHolders /\ IsObjDeletable(@) THEN NoObj ELSE @]
  /\ finalize_queue_head' = IF pending THEN o ELSE finalize_queue_head
  /\ BecomesGcQueue(IF o \in NoRefs THEN q ELSE GcSetInitConditions(q, o))
  /\ UNCHANGED <<freeVars, strong>>

\* An entry that stays: remove_stale_weak_refs, add_to_finalize_queue and
\* gc_set_init_conditions.
KeepEntry(o) ==
  LET pending == fin[o] = FINALIZABLE
      q == [reach |-> IF pending THEN [reach EXCEPT ![o] = F_REACHABLE] ELSE reach,
            next  |-> IF pending THEN [next_obj EXCEPT ![o] = finalize_queue_head]
                      ELSE next_obj,
            head  |-> gc_queue_head]
  IN
  /\ weak' = [weak EXCEPT ![o] = IF o \in WeakHolders /\ IsObjDeletable(@) THEN NoObj ELSE @]
  /\ finalize_queue_head' = IF pending THEN o ELSE finalize_queue_head
  /\ BecomesGcQueue(GcSetInitConditions(q, o))
  /\ UNCHANGED <<freeVars, strong>>

\* One entry of the second scan.
SweepOne ==
  /\ pc = "sweep"
  /\ scan <= NumObj
  /\ scan' = scan + 1
  /\ IF scan \in free THEN UNCHANGED <<tabVars, strong, weak>>
     ELSE /\ IF IsDeletable(scan) THEN DeleteEntry(scan) ELSE KeepEntry(scan)
          /\ UNCHANGED fin
  /\ UNCHANGED <<stack, undo_rec, pc, frames, saving, calls>>

\* gc_remove_stale_weak_refs of the undo manager, after the scan.
CleanUndo ==
  /\ pc = "sweep"
  /\ scan = NumObj + 1
  /\ undo_rec' = IF IsObjDeletable(undo_rec.owner)
                 THEN [undo_rec EXCEPT !.owner = NoObj] ELSE undo_rec
  /\ pc' = "finalize"
  /\ scan' = 1
  /\ UNCHANGED <<tabVars, strong, weak, stack, frames, saving, calls>>

\* mutant of RunFinalizer: the object stays finalizable
RunFinalizerAgain ==
  LET o == finalize_queue_head IN
  /\ pc = "finalize"
  /\ o # NoObj
  /\ finalize_queue_head' = next_obj[o]
  /\ reach' = [reach EXCEPT ![o] = UNREACHABLE]
  /\ frames' = Append(frames, o)
  /\ calls' = [calls EXCEPT ![o] = IF @ = 0 THEN 1 ELSE 2]
  /\ pc' = "run"
  /\ UNCHANGED <<freeVars, fin, next_obj, gc_queue_head, objVars, scan, saving>>

\* mutant of RunFinalizer: the object stays in the queue
RunFinalizerQueued ==
  LET o == finalize_queue_head IN
  /\ pc = "finalize"
  /\ o # NoObj
  /\ fin' = [fin EXCEPT ![o] = FINALIZED]
  /\ reach' = [reach EXCEPT ![o] = UNREACHABLE]
  /\ frames' = Append(frames, o)
  /\ calls' = [calls EXCEPT ![o] = IF @ = 0 THEN 1 ELSE 2]
  /\ pc' = "run"
  /\ UNCHANGED <<freeVars, next_obj, gc_queue_head, finalize_queue_head, objVars,
                 scan, saving>>

\* One turn of run_finalizers: the finalizer is program code, with the object on
\* the stack.
RunFinalizer ==
  LET o == finalize_queue_head IN
  /\ pc = "finalize"
  /\ o # NoObj
  /\ finalize_queue_head' = next_obj[o]
  /\ fin' = [fin EXCEPT ![o] = FINALIZED]
  /\ reach' = [reach EXCEPT ![o] = UNREACHABLE]
  /\ frames' = Append(frames, o)
  /\ calls' = [calls EXCEPT ![o] = IF @ = 0 THEN 1 ELSE 2]
  /\ pc' = "run"
  /\ UNCHANGED <<freeVars, next_obj, gc_queue_head, objVars, scan, saving>>

\* invoke_finalizer returns; exceptions end here too.
FinalizerReturns ==
  /\ Running
  /\ frames # <<>>
  /\ frames' = SubSeq(frames, 1, Len(frames) - 1)
  /\ pc' = "finalize"
  /\ UNCHANGED <<tabVars, objVars, scan, saving, calls>>

\* The finalizer queue is empty: the pass returns to whoever started it.  save()
\* goes on by marking what it will write: imports and globals (a part of what stack
\* stands for) besides the root objects in the queue.
GcEnd ==
  /\ pc = "finalize"
  /\ finalize_queue_head = NoObj
  /\ IF saving /\ frames = <<>>
     THEN /\ pc' = "savetrace"
          /\ \E globals \in SUBSET stack :
               BecomesGcQueue(AddToGcQueue(GcQueue, globals, REACHABLE))
     ELSE pc' = "run" /\ UNCHANGED listVars
  /\ UNCHANGED <<freeVars, fin, finalize_queue_head, objVars, scan, frames, saving, calls>>
------------------------------------------------------------------------------
\* CVmObjTable::save, called from the main line of the program.

\* It collects first.  (Bound: a finalizer does not save.)
SaveBegin ==
  /\ PassInit
  /\ frames = <<>>
  /\ saving' = TRUE

\* Everything to be written is marked (TraceOne): write the table of contents.
SaveScanBegin ==
  /\ pc = "savetrace"
  /\ gc_queue_head = NoObj
  /\ pc' = "save"
  /\ scan' = 1
  /\ UNCHANGED <<tabVars, objVars, frames, saving, calls>>

\* mutant of SaveOne: entries that are not saved keep their marks
SaveOneSaved ==
  /\ pc = "save"
  /\ scan <= NumObj
  /\ BecomesGcQueue(IF scan \in TransientObj THEN GcQueue
                    ELSE GcSetInitConditions(GcQueue, scan))
  /\ scan' = scan + 1
  /\ UNCHANGED <<freeVars, fin, finalize_queue_head, objVars, pc, frames, saving, calls>>

\* Write one object and restore the initial conditions of its entry.
SaveOne ==
  /\ pc = "save"
  /\ scan <= NumObj
  /\ BecomesGcQueue(GcSetInitConditions(GcQueue, scan))
  /\ scan' = scan + 1
  /\ UNCHANGED <<freeVars, fin, finalize_queue_head, objVars, pc, frames, saving, calls>>

\* save() returns, or a write throws VMERR_WRITE_FILE and the program catches it.
SaveEnd ==
  /\ pc = "save"
  /\ WriteMayFail \/ scan = NumObj + 1
  /\ pc' = "run"
  /\ saving' = FALSE
  /\ scan' = 1
  /\ UNCHANGED <<tabVars, objVars, frames, calls>>
------------------------------------------------------------------------------
Collector ==
  \/ TraceOne
  \/ Classify
  \/ SweepBegin
  \/ SweepOne
  \/ CleanUndo
  \/ RunFinalizer
  \/ GcEnd
  \/ SaveScanBegin
  \/ SaveOne
  \/ SaveEnd

Next ==
  \/ Program
  \/ GcBegin
  \/ SaveBegin
  \/ Collector
  \/ FinalizerReturns

Spec == Init /\ [][Next]_vars

\* The collector is a loop of one call, and finalizers return.
FairSpec == Spec /\ WF_vars(Collector) /\ WF_vars(FinalizerReturns)
------------------------------------------------------------------------------
\* Properties.

\* The fields of the table stay within their types.
TypeOK ==
  /\ free \subseteq Obj
  /\ reach \in [Obj -> UNREACHABLE .. REACHABLE]
  /\ fin \in [Obj -> UNFINALIZABLE .. FINALIZED]
  /\ next_obj \in [Obj -> ObjOrNone]
  /\ prev_free \in [Obj -> ObjOrNone]
  /\ {first_free, gc_queue_head, finalize_queue_head} \subseteq ObjOrNone
  /\ strong \in [Obj -> ObjOrNone]
  /\ weak \in [Obj -> ObjOrNone]
  /\ stack \subseteq Obj
  /\ undo_rec \in [owner : ObjOrNone, oldval : ObjOrNone]
  /\ pc \in {"run", "trace", "ftrace", "sweep", "finalize", "savetrace", "save"}
  /\ scan \in 1 .. NumObj + 1
  /\ frames \in Seq(Obj)
  /\ saving \in BOOLEAN
  /\ calls \in [Obj -> 0 .. 2]

\* The objects of the list that starts at head, and that it has an end.
Listed(head) == Followed(next_obj, {head} \ {NoObj})
HasEnd(head) == head # NoObj => \E o \in Listed(head) : next_obj[o] = NoObj

\* The free list holds the free entries, each once, and its back pointers, which
\* alloc_obj_with_id relies on to take an entry out of the middle, agree with it.
FreeListOK ==
  /\ HasEnd(first_free)
  /\ Listed(first_free) = free
  /\ first_free # NoObj => prev_free[first_free] = NoObj
  /\ \A o \in free : next_obj[o] # NoObj => prev_free[next_obj[o]] = o

\* "An object can only be in one queue - it can't be in both the finalizer queue
\* and the main gc work queue" (add_to_finalize_queue): the lists share the field
\* next_obj_.
OneQueue ==
  /\ HasEnd(gc_queue_head) /\ HasEnd(finalize_queue_head)
  /\ Listed(gc_queue_head) \cap Listed(finalize_queue_head) = {}
  /\ free \cap (Listed(gc_queue_head) \cup Listed(finalize_queue_head)) = {}

\* The collector frees no root object and nothing that the stack, a running finalizer,
\* an undo record or an object that stays still refers to.
NoDanglingRef ==
  /\ (RootObj \cup stack \cup InFrames \cup UndoRefs) \cap free = {}
  /\ pc # "sweep" => \A o \in Obj \ free : strong[o] \notin free

\* A weak reference and the owner of an undo record are forgotten before the program
\* or the undo walk can follow them to an entry that was deleted.
WeakRefsValid ==
  pc # "sweep" =>
    /\ \A o \in Obj \ free : weak[o] \notin free
    /\ undo_rec.owner \notin free

\* "all objects except root set objects are marked as unreferenced, and all root
\* set objects are marked as referenced; all root set objects are in the GC work
\* queue" (gc_pass_init) whenever the program runs and may start a collection.
ReadyForPass ==
  Running =>
    /\ \A o \in Obj \ free : reach[o] = IF o \in RootObj THEN REACHABLE ELSE UNREACHABLE
    /\ Listed(gc_queue_head) = RootObj \ NoRefs
    /\ HasEnd(gc_queue_head)

\* A pass leaves no garbage: after the sweep every object is reachable, or waits
\* for its finalizer, or is reachable from one that does.
PassCollects ==
  pc = "sweep" /\ scan = NumObj + 1 =>
    Obj \ free \subseteq
      Reach(RootObj \cup GcRoots \cup {o \in Obj : fin[o] = FINALIZABLE})

\* Finalizers: only an object that cannot be reached is made finalizable, its
\* finalizer is called at most once, and it is not deleted before the call.
FinalizedOnceThenDeleted ==
  [][\A o \in Finalizable :
       /\ fin'[o] = FINALIZABLE /\ fin[o] # FINALIZABLE =>
            o \notin Reach(RootObj \cup GcRoots)
       /\ calls'[o] # 2
       /\ o \in free' \ free => calls[o] = 1]_vars

\* A collection ends if the finalizers return.
Idle == Running /\ frames = <<>>
PassEnds == ~Idle ~> Idle
=============================================================================
