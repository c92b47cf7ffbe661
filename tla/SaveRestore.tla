---------------------------- MODULE SaveRestore ----------------------------
(* Saving, restoring and restarting (tads3/vmsave.cpp, vmobj.cpp), and the *)
(* post-load initialization that ends a restore and a restart.             *)
(*                                                                         *)
(* A dynamic object gets a new ID when it is restored, so every reference  *)
(* in the file goes through a table of fixups.  The old session's objects  *)
(* are still in the table then; the collector is off until the restored    *)
(* state is complete.  Initializers run in the order of a hash table, ask  *)
(* for those they depend on, and may call the program.                     *)
(*                                                                         *)
(* ObjGC takes a collection and a save apart; here each is one step.       *)
EXTENDS Integers, FiniteSets, Sequences, Functions

CONSTANTS
  MaxId,        \* entries of the object table (bound)
  RootKind,     \* the metaclasses of the image file's objects: a sequence
  TransientRoot,\* those of them that are transient
  ImageRef,     \* what they refer to in the image file
  NewKinds,     \* the metaclasses the program makes instances of
  SaveAnytime,  \* FALSE: the program only saves when what it holds weakly is persistent
  MaxDynamic,   \* bound on the dynamic objects there are when the program makes one
  MaxWork,      \* bound on the program's steps
  MaxSaves,     \* bound on the number of saves
  MaxLoads      \* bound on the number of restores and restarts

Id == 1 .. MaxId
Root == DOMAIN RootKind
Nil == 0                        \* VM_INVALID_OBJ, and nil in a data holder

\* TadsObject, with a property; Dictionary, with a comparator and a word, which
\* refers weakly to an object; WeakRefLookupTable, with a key and a weak value.
Kinds == {"tads", "dict", "table"}
\* The metaclasses that request post-load initialization.
Initialized == {"tads", "dict"}

ASSUME SaveAssumption ==
  /\ MaxId \in Nat /\ MaxDynamic \in Nat /\ MaxWork \in Nat /\ MaxSaves \in Nat /\ MaxLoads \in Nat
  /\ RootKind \in Seq(Kinds) /\ Len(RootKind) <= MaxId
  /\ TransientRoot \subseteq Root /\ ImageRef \in [Root -> Root \cup {Nil}]
  /\ NewKinds \subseteq Kinds /\ SaveAnytime \in BOOLEAN

VARIABLES
  \* the object table
  kind,         \* the metaclass of each entry, or "free"
  free,         \* the free list, first_free_ first
  trans,        \* transient_
  changed,      \* root objects with is_changed_since_load()
  ref, weak,    \* the strong and the weak reference of each object
  gc_on,        \* gc_enabled_
  stack,        \* what the VM stack refers to
  \* post_load_init_table_
  reg,          \* its entries
  status,       \* their status
  ready,        \* objects whose pointers to other objects are cached
  calls,        \* the initializers running, innermost last
  \* the saved state file, and the operation at work
  file,
  pc,           \* "run", "toc", "read", "init" (do_all_post_load_init), "compare"
                \* (a comparator's method)
  todo,         \* the entries or records of the file still to read
  fixups,       \* CVmObjFixup: <<old, new>>, in the order of the old IDs
  walked,       \* the entries do_all_post_load_init has come to
  \* history and bounds
  target,       \* the game the file, or the load in progress, should give
  inits,        \* how often each object was initialized in this load
  failed,       \* the last load ended in an error
  work, saves, loads

tableVars == <<kind, free, trans, changed, ref, weak>>
initVars == <<reg, status, ready, calls, walked, inits>>
loadVars == <<todo, fixups>>
countVars == <<work, saves, loads>>
vars == <<tableVars, gc_on, stack, initVars, file, pc, loadVars, target, failed, countVars>>

Live == {o \in Id : kind[o] # "free"}
Dynamic == Live \ Root

\* What can be reached from S over the references r, not looking into the objects
\* of opaque: what is found in n rounds.
Found(r, S, opaque) ==
  LET R[n \in 0 .. MaxId] ==
        IF n = 0 THEN S
        ELSE R[n - 1] \cup ({r[o] : o \in R[n - 1] \ opaque} \ {Nil})
  IN R
Reach(S, opaque) == Found(ref, S, opaque)[MaxId]

\* The IDs of S in their order, and against it.
Ascending(S) ==
  [i \in 1 .. Cardinality(S) |-> CHOOSE o \in S : Cardinality({p \in S : p <= o}) = i]
Descending(S) ==
  [i \in 1 .. Cardinality(S) |-> Ascending(S)[Cardinality(S) + 1 - i]]

-----------------------------------------------------------------------------
(* What a saved game should be                                             *)

\* What save() traces: the root set, not through transient objects.
Traced == Reach(Root, trans)

\* The objects of the saved game; is_persistent().
Persistent == Traced \ trans

\* What a restored object can refer to: those, and any object of the image file.
Lasting == Persistent \cup Root

\* A dictionary only keeps the words of objects that are in the saved game.
Lasts(o, v) == v \in Persistent \/ (v \in Root /\ kind[o] # "dict")

Game ==
  [kind |-> [o \in Persistent |-> kind[o]],
   ref |-> [o \in Persistent |-> IF ref[o] \in Lasting THEN ref[o] ELSE Nil],
   weak |-> [o \in Persistent |-> IF Lasts(o, weak[o]) THEN weak[o] ELSE Nil]]

ImageGame ==
  LET P == Root \ TransientRoot IN
  [kind |-> [o \in P |-> RootKind[o]],
   ref |-> [o \in P |-> ImageRef[o]], weak |-> [o \in P |-> Nil]]

\* The same but for the IDs of the dynamic objects.
SameGame(g, h) ==
  LET A == DOMAIN g.kind
      B == DOMAIN h.kind
      name(f, o) == IF o \in Root \cup {Nil} THEN o ELSE f[o]
  IN /\ Cardinality(A) = Cardinality(B)
     /\ \E f \in [A \ Root -> B \ Root] :
          /\ \A x, y \in A \ Root : f[x] = f[y] => x = y
          /\ \A o \in A :
               /\ name(f, o) \in B
               /\ h.kind[name(f, o)] = g.kind[o]
               /\ h.ref[name(f, o)] = name(f, g.ref[o])
               /\ h.weak[name(f, o)] = name(f, g.weak[o])

-----------------------------------------------------------------------------
Init ==
  /\ kind = [o \in Id |-> IF o \in Root THEN RootKind[o] ELSE "free"]
  /\ free = [i \in 1 .. MaxId - Len(RootKind) |-> Len(RootKind) + i]
  /\ trans = TransientRoot
  /\ changed = {}
  /\ ref = [o \in Id |-> IF o \in Root THEN ImageRef[o] ELSE Nil]
  /\ weak = [o \in Id |-> Nil]
  /\ gc_on = TRUE
  /\ stack = {}
  /\ reg = {o \in Root : RootKind[o] \in Initialized}
  /\ status = [o \in Id |-> IF o \in reg THEN "inited" ELSE "uninited"]
  /\ ready = {o \in Root : RootKind[o] \in Initialized}
  /\ calls = <<>>
  /\ file = [toc |-> <<>>, objs |-> <<>>, game |-> ImageGame]
  /\ pc = "run"
  /\ todo = <<>> /\ fixups = <<>> /\ walked = {}
  /\ target = ImageGame
  /\ inits = [o \in Id |-> 0]
  /\ failed = FALSE
  /\ work = 0 /\ saves = 0 /\ loads = 0

-----------------------------------------------------------------------------
(* The program                                                             *)

\* What the program can get at: weakly held objects can be looked up.
Accessible ==
  LET A == Reach(Root \cup stack, {}) IN
  A \cup Reach({weak[o] : o \in A} \ {Nil}, {})

Works ==
  /\ pc = "run" /\ work < MaxWork
  /\ work' = work + 1
  /\ UNCHANGED <<reg, status, calls, walked, inits, gc_on, file, pc, loadVars, target, failed,
                 saves, loads>>

\* A new object, left on the stack; it has what it caches from the start.
Create(k, t) ==
  /\ Works /\ free # <<>> /\ Cardinality(Dynamic) < MaxDynamic
  /\ LET o == Head(free) IN
     /\ kind' = [kind EXCEPT ![o] = k]
     /\ trans' = IF t THEN trans \cup {o} ELSE trans
     /\ stack' = stack \cup {o}
     /\ ready' = IF k \in Initialized THEN ready \cup {o} ELSE ready
  /\ free' = Tail(free)
  /\ UNCHANGED <<changed, ref, weak>>

\* Setting a property, a comparator or a key.
SetRef(o, v) ==
  /\ Works
  /\ ref[o] # v
  /\ ref' = [ref EXCEPT ![o] = v]
  /\ changed' = IF o \in Root THEN changed \cup {o} ELSE changed
  /\ UNCHANGED <<kind, free, trans, weak, stack, ready>>

\* Adding a word, or a value to a table of weak references.
SetWeak(o, v) ==
  /\ Works
  /\ kind[o] \in {"dict", "table"} /\ weak[o] # v
  /\ weak' = [weak EXCEPT ![o] = v]
  /\ changed' = IF o \in Root THEN changed \cup {o} ELSE changed
  /\ UNCHANGED <<kind, free, trans, ref, stack, ready>>

\* The stack frames that referred to the object return.
Release(o) ==
  /\ pc = "run" /\ o \in stack
  /\ stack' = stack \ {o}
  /\ UNCHANGED <<tableVars, initVars, gc_on, file, pc, loadVars, target, failed, countVars>>

-----------------------------------------------------------------------------
(* Collecting                                                              *)

\* The root set and the stack, where call_post_load_init pushes its object.
Roots == Root \cup stack \cup {calls[i] : i \in DOMAIN calls}

Garbage == Live \ Reach(Roots, {})

\* mutant of Kept: weak references to what was deleted stay
KeptStale(r, dead) == [o \in Id |-> IF o \in dead THEN Nil ELSE r[o]]

\* remove_stale_weak_refs
Kept(r, dead) == [o \in Id |-> IF o \in dead \/ r[o] \in dead THEN Nil ELSE r[o]]

\* Each dead entry, in the order of the IDs, goes to the head of the free list, and
\* delete_entry takes it out of the table of initializers.
DeleteEntries(dead) ==
  /\ kind' = [o \in Id |-> IF o \in dead THEN "free" ELSE kind[o]]
  /\ free' = Descending(dead) \o free
  /\ trans' = trans \ dead
  /\ ref' = [o \in Id |-> IF o \in dead THEN Nil ELSE ref[o]]
  /\ weak' = Kept(weak, dead)
  /\ reg' = reg \ dead
  /\ ready' = ready \ dead

GcFull == DeleteEntries(Garbage)

\* alloc_check_gc: any allocation may start a collection while it is enabled.
Collect ==
  /\ gc_on
  /\ pc \in {"run", "toc", "read", "compare"} \/ (pc = "init" /\ walked = {})
  /\ Garbage # {}
  /\ GcFull
  /\ UNCHANGED <<changed, gc_on, stack, status, calls, walked, inits, file, pc,
                 loadVars, target, failed, countVars>>

-----------------------------------------------------------------------------
(* save()                                                                  *)

\* mutant of Toc: transient objects, which are not saved, are left out
TocPersistent ==
  LET ids == Ascending(Persistent \ Root) IN
  [i \in DOMAIN ids |-> [id |-> ids[i], transient |-> FALSE]]

\* The table of contents: the dynamic objects traced, in the order of their IDs.
Toc ==
  LET ids == Ascending(Traced \ Root) IN
  [i \in DOMAIN ids |-> [id |-> ids[i], transient |-> ids[i] \in trans]]

\* is_saveable(): a table always says that it has changed.
Saveable == {o \in Persistent : o \in Root => o \in changed \/ kind[o] = "table"}

\* What save_to_file writes: a table writes its value as it is; a dictionary leaves
\* out the words without a persistent object - after it has written their text.
Record(o, w) ==
  LET drop == kind[o] = "dict" /\ w[o] \notin Persistent IN
  [id |-> o, kind |-> kind[o], ref |-> ref[o],
   weak |-> IF drop THEN Nil ELSE w[o],
   stray |-> drop /\ w[o] # Nil]

Save ==
  /\ pc = "run" /\ saves < MaxSaves
  /\ \/ SaveAnytime
     \/ \A o \in Saveable : weak[o] \in Persistent \cup Garbage \cup {Nil}
  /\ GcFull
  /\ LET ids == Ascending(Saveable) IN
     file' = [toc |-> Toc, game |-> Game,
              objs |-> [i \in DOMAIN ids |-> Record(ids[i], Kept(weak, Garbage))]]
  /\ saves' = saves + 1
  /\ UNCHANGED <<changed, gc_on, stack, status, calls, walked, inits, pc, loadVars,
                 target, failed, work, loads>>

-----------------------------------------------------------------------------
(* restore()                                                               *)

\* Only a TadsObject forgets that it has changed; modified_ of a dictionary stays.
StillChanged(S) == {o \in changed : o \in S => kind[o] # "tads"}

\* reset_to_image: the non-transient root objects go back to the image file's state
\* and ask for initialization.
ResetToImage(S) ==
  /\ ref' = [o \in Id |-> IF o \in S THEN ImageRef[o] ELSE ref[o]]
  /\ weak' = [o \in Id |-> IF o \in S THEN Nil ELSE weak[o]]
  /\ changed' = StillChanged(S)
  /\ reg' = reg \cup {o \in S : kind[o] \in Initialized}
  /\ ready' = ready \ S

Loads ==
  /\ pc = "run" /\ loads < MaxLoads
  /\ loads' = loads + 1
  /\ inits' = [o \in Id |-> 0]
  /\ failed' = FALSE

\* mutant of Restore: the root objects are left as they are
RestoreOver ==
  /\ Loads /\ saves > 0
  /\ Cardinality({i \in DOMAIN file.toc : ~file.toc[i].transient}) <= Len(free)
  /\ gc_on' = FALSE
  /\ ResetToImage({})
  /\ target' = file.game
  /\ pc' = "toc" /\ todo' = file.toc /\ fixups' = <<>>
  /\ UNCHANGED <<kind, free, trans, stack, status, calls, walked, file, work, saves>>

\* The file is a state this program saved: its checksum and timestamp are right.
Restore ==
  /\ Loads /\ saves > 0
  /\ Cardinality({i \in DOMAIN file.toc : ~file.toc[i].transient}) <= Len(free)
  /\ gc_on' = FALSE
  /\ ResetToImage(Root \ trans)
  /\ target' = file.game
  /\ pc' = "toc" /\ todo' = file.toc /\ fixups' = <<>>
  /\ UNCHANGED <<kind, free, trans, stack, status, calls, walked, file, work, saves>>

\* An entry of the table of contents: a new ID, or none for a transient object.  The
\* entry allocated holds no object before its record is read.
ReadTocEntry ==
  /\ pc = "toc" /\ todo # <<>>
  /\ LET e == Head(todo) IN
     IF e.transient
     THEN /\ fixups' = Append(fixups, <<e.id, Nil>>)
          /\ UNCHANGED <<kind, free>>
     ELSE /\ free # <<>>
          /\ fixups' = Append(fixups, <<e.id, Head(free)>>)
          /\ kind' = [kind EXCEPT ![Head(free)] = "tads"]
          /\ free' = Tail(free)
  /\ todo' = Tail(todo)
  /\ UNCHANGED <<trans, changed, ref, weak, gc_on, stack, initVars, file, pc, target,
                 failed, countVars>>

TocRead ==
  /\ pc = "toc" /\ todo = <<>>
  /\ pc' = "read" /\ todo' = file.objs
  /\ UNCHANGED <<tableVars, gc_on, stack, initVars, file, fixups, target, failed, countVars>>

\* find_entry's search has no end for an ID below the first entry: hi wraps around.
Searchable(old) == fixups # <<>> /\ old >= fixups[1][1]

\* get_new_id: an ID that is not in the table is taken to need no mapping.
GetNewId(old) ==
  IF old \in Root \cup {Nil} THEN old
  ELSE LET at == {i \in DOMAIN fixups : fixups[i][1] = old} IN
       IF at = {} THEN old ELSE fixups[CHOOSE i \in at : TRUE][2]

\* Otherwise what is read next is undefined: the model stops there.
ReadsWell(r) ==
  /\ ~r.stray
  /\ \A v \in {r.ref, r.weak} \ (Root \cup {Nil}) : Searchable(v)

\* restore_from_file ends with request_post_load_init
Requests(o, k) == IF k \in Initialized THEN {o} ELSE {}

\* A record: create_for_restore and restore_from_file.
ReadObject ==
  /\ pc = "read" /\ todo # <<>> /\ ReadsWell(Head(todo))
  /\ LET r == Head(todo)
         o == GetNewId(r.id)
     IN /\ kind' = [kind EXCEPT ![o] = r.kind]
        /\ ref' = [ref EXCEPT ![o] = GetNewId(r.ref)]
        /\ weak' = [weak EXCEPT ![o] = GetNewId(r.weak)]
        /\ changed' = IF o \in Root THEN changed \cup {o} ELSE changed
        /\ reg' = reg \cup Requests(o, r.kind)
        /\ ready' = ready \ {o}
  /\ todo' = Tail(todo)
  /\ UNCHANGED <<free, trans, gc_on, stack, status, calls, walked, inits, file, pc,
                 fixups, target, failed, countVars>>

\* mutant of ObjectsRead: the entries keep the status of the load before
ObjectsReadUnmarked ==
  /\ pc = "read" /\ todo = <<>>
  /\ pc' = "init"
  /\ walked' = {}
  /\ fixups' = <<>>
  /\ UNCHANGED <<tableVars, gc_on, stack, reg, status, ready, calls, inits, file, todo,
                 target, failed, countVars>>

\* do_all_post_load_init begins by marking every entry uninitialized.
ObjectsRead ==
  /\ pc = "read" /\ todo = <<>>
  /\ pc' = "init"
  /\ status' = [o \in Id |-> IF o \in reg THEN "uninited" ELSE status[o]]
  /\ walked' = {}
  /\ fixups' = <<>>
  /\ UNCHANGED <<tableVars, gc_on, stack, reg, ready, calls, inits, file, todo, target,
                 failed, countVars>>

-----------------------------------------------------------------------------
(* reset(): restarting the program                                         *)

\* A collection, then reset_to_image with the collector disabled, then enabled again.
Restart ==
  /\ Loads
  /\ LET dead == Garbage
         S == Root \ trans
     IN /\ kind' = [o \in Id |-> IF o \in dead THEN "free" ELSE kind[o]]
        /\ free' = Descending(dead) \o free
        /\ trans' = trans \ dead
        /\ ref' = [o \in Id |-> IF o \in dead THEN Nil
                                ELSE IF o \in S THEN ImageRef[o] ELSE ref[o]]
        /\ weak' = [o \in Id |-> IF o \in S THEN Nil ELSE Kept(weak, dead)[o]]
        /\ changed' = StillChanged(S)
        /\ reg' = (reg \ dead) \cup {o \in S : kind[o] \in Initialized}
        /\ ready' = (ready \ dead) \ S
  /\ status' = [o \in Id |-> IF o \in reg' THEN "uninited" ELSE status[o]]
  /\ target' = ImageGame
  /\ pc' = "init" /\ walked' = {}
  /\ UNCHANGED <<gc_on, stack, calls, file, loadVars, work, saves>>

-----------------------------------------------------------------------------
(* Post-load initialization                                                *)

initFrame == <<kind, free, trans, changed, ref, weak, gc_on, stack, reg, file, loadVars,
               target, countVars>>

\* call_post_load_init on an entry that is not initialized yet: its object is pushed.
BeginInit(o) ==
  /\ status' = [status EXCEPT ![o] = "progress"]
  /\ calls' = Append(calls, o)
  /\ inits' = [inits EXCEPT ![o] = @ + 1]

\* do_all_post_load_init comes to an entry.
Walk(o) ==
  /\ pc = "init" /\ calls = <<>> /\ o \in reg \ walked
  /\ walked' = walked \cup {o}
  /\ IF status[o] = "uninited" THEN BeginInit(o)
     ELSE UNCHANGED <<status, calls, inits>>
  /\ UNCHANGED <<initFrame, ready, pc, failed>>

Current == calls[Len(calls)]

\* mutant of DependsOn: the comparator is not initialized first
DependsOnNothing(o) == Nil

\* The object whose initialization post_load_init(o) asks for: CVmObjDict, its
\* comparator.  CVmObjTads looks at the table only.
DependsOn(o) == IF kind[o] = "dict" THEN ref[o] ELSE Nil

\* The initializer is done with what it depends on: ensure_post_load_init finds no
\* entry, or one that is initialized.
Satisfied(o) == DependsOn(o) \notin {d \in reg : status[d] # "inited"}

\* mutant of Ensure: an initializer in progress is started again
EnsureAgain ==
  /\ pc = "init" /\ calls # <<>> /\ ~Satisfied(Current)
  /\ BeginInit(DependsOn(Current))
  /\ UNCHANGED <<initFrame, ready, pc, failed, walked>>

\* ensure_post_load_init finds an entry that is not initialized.
Ensure ==
  /\ pc = "init" /\ calls # <<>> /\ ~Satisfied(Current)
  /\ status[DependsOn(Current)] = "uninited"
  /\ BeginInit(DependsOn(Current))
  /\ UNCHANGED <<initFrame, ready, pc, failed, walked>>

\* err_throw(VMERR_CIRCULAR_INIT): restore() catches it, enables the collector and
\* throws it again; reset() has enabled the collector already.
CircularInit ==
  /\ pc = "init" /\ calls # <<>> /\ ~Satisfied(Current)
  /\ status[DependsOn(Current)] = "progress"
  /\ pc' = "run" /\ failed' = TRUE
  /\ calls' = <<>> /\ gc_on' = TRUE
  /\ UNCHANGED <<tableVars, stack, reg, status, ready, walked, inits, file, loadVars,
                 target, countVars>>

\* A dictionary with words moves them to a new hash table: it calls the comparator.
CallsComparator(o) == kind[o] = "dict" /\ ref[o] # Nil /\ weak[o] # Nil

Compare ==
  /\ pc = "init" /\ calls # <<>> /\ Satisfied(Current) /\ CallsComparator(Current)
  /\ pc' = "compare"
  /\ UNCHANGED <<initFrame, ready, status, calls, walked, inits, failed>>

\* post_load_init returns: the entry is initialized and its object is popped.
EndInit ==
  /\ \/ pc = "init" /\ calls # <<>> /\ Satisfied(Current) /\ ~CallsComparator(Current)
     \/ pc = "compare"
  /\ pc' = "init"
  /\ ready' = ready \cup {Current}
  /\ status' = [status EXCEPT ![Current] = "inited"]
  /\ calls' = SubSeq(calls, 1, Len(calls) - 1)
  /\ UNCHANGED <<initFrame, walked, inits, failed>>

\* Every entry has been initialized: enable the collector and collect.
LoadEnds ==
  /\ pc = "init" /\ calls = <<>> /\ reg \subseteq walked
  /\ pc' = "run" /\ gc_on' = TRUE
  /\ GcFull
  /\ UNCHANGED <<changed, stack, status, calls, walked, inits, file, loadVars, target,
                 failed, countVars>>

-----------------------------------------------------------------------------
Next ==
  \/ \E k \in NewKinds, t \in BOOLEAN : Create(k, t)
  \/ \E o \in Accessible, v \in Accessible \cup {Nil} : SetRef(o, v) \/ SetWeak(o, v)
  \/ \E o \in stack : Release(o)
  \/ Collect
  \/ Save
  \/ Restore \/ ReadTocEntry \/ TocRead \/ ReadObject \/ ObjectsRead
  \/ Restart
  \/ \E o \in reg : Walk(o)
  \/ Ensure \/ CircularInit \/ Compare \/ EndInit \/ LoadEnds

Spec == Init /\ [][Next]_vars

-----------------------------------------------------------------------------
(* Properties                                                              *)

\* The types of the variables.
TypeOK ==
  /\ kind \in [Id -> Kinds \cup {"free"}]
  /\ {free[i] : i \in DOMAIN free} = Id \ Live /\ IsInjective(free)
  /\ Root \subseteq Live
  /\ trans \subseteq Live /\ stack \subseteq Live /\ changed \subseteq Root
  /\ ref \in [Id -> Id \cup {Nil}] /\ weak \in [Id -> Id \cup {Nil}]
  /\ reg \subseteq Live /\ ready \subseteq Live
  /\ status \in [Id -> {"uninited", "progress", "inited"}]
  /\ calls \in Seq(Live) /\ IsInjective(calls)
  /\ pc \in {"run", "toc", "read", "init", "compare"}
  /\ gc_on \in BOOLEAN /\ failed \in BOOLEAN
  /\ (pc = "run") => gc_on

\* What restore() and reset() have rebuilt when they begin to initialize is the game
\* that was saved, or the image file's: the same objects under other IDs, references
\* to transient objects gone, and none to an object of the session before.
RestoredGame ==
  pc = "init" /\ walked = {} =>
    /\ \A o \in Persistent : weak[o] \in Lasting \cup {Nil}
    /\ SameGame(target, Game)

\* A file save() wrote can be read: there is no stray text, which would be read as the
\* next record or as the exports behind the objects, and get_new_id is never asked for
\* an ID that its binary search has no end for.
FileReadable == pc = "read" /\ todo # <<>> => ReadsWell(Head(todo))

\* No object, running initializer or stack slot refers to a deleted object, once all
\* objects are read: the IDs a restore has given out are in use until then, whatever
\* an allocation collects.
NoDanglingRef ==
  pc \in {"run", "init", "compare"} =>
    /\ \A o \in Live : {ref[o], weak[o]} \subseteq Live \cup {Nil}
    /\ stack \subseteq Live /\ \A i \in DOMAIN calls : calls[i] \in Live

\* A comparator is initialized when a dictionary's initializer calls it.
ComparatorReady ==
  pc = "compare" /\ ref[Current] \in reg => ref[Current] \in ready

\* Post-load initialization happens once per object and load (vmobj.h:2173), whoever
\* asked for it first, and a load that ends without an error leaves no object whose
\* pointers are not cached.
InitOnce ==
  /\ \A o \in Id : inits[o] <= 1
  /\ pc = "run" /\ ~failed => {o \in Live : kind[o] \in Initialized} \subseteq ready
=============================================================================
