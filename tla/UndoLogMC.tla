------------------------------ MODULE UndoLogMC ------------------------------
(* Instances of UndoLog for TLC.                                           *)
EXTENDS UndoRefinement, TLC

CONSTANTS root, a, p1, p2, p3

\* The image gives the root object a property p1 and not p2.
MCImageVal == [o \in RootObj |-> [p \in Prop |-> IF p = p1 THEN root ELSE Absent]]

\* Slots outside the live part of the array are never read again, neither is the
\* history kept for them, and nothing at all reads cur_savept_: states that differ
\* only there are the same.
LiveView ==
  <<[undo EXCEPT !.rec_arr = [s \in LiveNow |-> @[s]], !.cur_savept = 0],
    meta, objVars, [s \in LiveLinks(undo, End) |-> [snap[s] EXCEPT !.id = 0]]>>
=============================================================================
