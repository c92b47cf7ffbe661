------------------------------ MODULE UndoSpec ------------------------------
(***************************************************************************)
(* What the undo facility promises to the program, without its data        *)
(* structures: a stack of snapshots of the persistent objects.  Old        *)
(* snapshots may be forgotten at any time something is recorded, always    *)
(* from the bottom of the stack; undoing puts every object of the top      *)
(* snapshot that still exists back to exactly the state it had.            *)
(***************************************************************************)
EXTENDS Naturals, Sequences

CONSTANTS
  Object,        (* object IDs                                             *)
  Transient,     (* objects outside undo                                   *)
  Limit          (* most snapshots kept                                    *)

VARIABLES
  live,          (* the objects that exist                                 *)
  st,            (* st[o]: the state of object o                           *)
  saved          (* the snapshots, oldest first: functions on objects      *)

absVars == <<live, st, saved>>

Suffixes(q) == {SubSeq(q, k, Len(q)) : k \in 1 .. Len(q) + 1}
SameExcept(S) == \A o \in Object \ S : st'[o] = st[o]
Without(q, D) ==
  [i \in DOMAIN q |-> [o \in DOMAIN q[i] \ D |-> q[i][o]]]

Init == saved = <<>> /\ live \subseteq Object

\* A savepoint that finds no room forgets everything and is not created.
Savepoint ==
  /\ UNCHANGED <<live, st>>
  /\ \/ /\ saved' = <<>>
     \/ \E q \in Suffixes(saved) :
          /\ Len(q) < Limit
          /\ saved' = Append(q, [o \in live \ Transient |-> st[o]])

Undo ==
  /\ saved # <<>>
  /\ saved' = SubSeq(saved, 1, Len(saved) - 1)
  /\ \A o \in DOMAIN saved[Len(saved)] : st'[o] = saved[Len(saved)][o]
  /\ SameExcept(live \ Transient)
  /\ UNCHANGED live

\* One object changes; recording that may push old snapshots out.
Change ==
  /\ saved' \in Suffixes(saved)
  /\ \E o \in live : SameExcept({o})
  /\ UNCHANGED live

Create ==
  /\ \E o \in Object \ live : live' = live \cup {o} /\ SameExcept({o})
  /\ UNCHANGED saved

\* Garbage disappears, from the snapshots too.
Collect ==
  /\ live' \subseteq live
  /\ SameExcept(live \ live')
  /\ saved' = Without(saved, live \ live')

Reset == saved' = <<>> /\ UNCHANGED live /\ SameExcept(live \ Transient)

Next == Savepoint \/ Undo \/ Change \/ Create \/ Collect \/ Reset

Spec == Init /\ [][Next]_absVars
=============================================================================
