------------------------------- MODULE ObjGCMC -------------------------------
(* Instances of ObjGC for TLC.                                             *)
EXTENDS ObjGC

\* next_obj_ of an entry that is in no list is never read again.
ListView ==
  LET heads == {first_free, gc_queue_head, finalize_queue_head}
      upto[n \in 0 .. NumObj] ==
        IF n = 0 THEN heads \ {NoObj}
        ELSE upto[n - 1] \cup ({next_obj[o] : o \in upto[n - 1]} \ {NoObj})
      inList == free \cup upto[NumObj]
  IN <<[o \in Obj |-> IF o \in inList THEN next_obj[o] ELSE NoObj],
       free, reach, fin, prev_free, first_free, gc_queue_head, finalize_queue_head,
       objVars, ctlVars, calls>>
=============================================================================
