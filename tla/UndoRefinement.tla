--------------------------- MODULE UndoRefinement ---------------------------
(* The circular array of UndoLog implements the snapshot stack of UndoSpec. *)
EXTENDS UndoLog

\* An undo takes effect when the walk starts: from then on the objects are what
\* the remaining records make of them, and the savepoint is off the stack.
ObjState(o) ==
  IF meta = NoRec
  THEN [val |-> val[o], mod |-> {p \in Prop : <<o, p>> \in mod},
        changed |-> o \in obj_mod]
  ELSE [val |-> [p \in Prop |-> RolledVal(undo.cur_first, o, p)],
        mod |-> {p \in Prop : RolledMod(undo.cur_first, o, p)},
        changed |-> RolledObjMod(undo.cur_first, o)]
ObjStates == [o \in Obj |-> ObjState(o)]

SnapState(s) ==
  [o \in snap[s].objs |->
     [val |-> snap[s].val[o], mod |-> {p \in Prop : <<o, p>> \in snap[s].mod},
      changed |-> o \in snap[s].obj_mod]]

Stacked == LiveLinks(undo, End) \ (IF meta = NoRec THEN {} ELSE {undo.cur_first})
NthLink(n) ==
  CHOOSE s \in Stacked : Cardinality({t \in Stacked : Before(undo, t, s)}) = n - 1
SnapStack == [n \in 1 .. Cardinality(Stacked) |-> SnapState(NthLink(n))]

Promise == INSTANCE UndoSpec WITH
  Object <- Obj, Transient <- TransientObj, Limit <- MaxSavepts,
  live <- inuse, st <- ObjStates, saved <- SnapStack

\* Seen from the program, the undo log behaves like a stack of snapshots.
ImplementsSnapshotStack == Promise!Spec
=============================================================================
