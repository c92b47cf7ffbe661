--------------------------- MODULE SaveRestoreMC ---------------------------
(* Instances of SaveRestore for TLC.                                       *)
EXTENDS SaveRestore, TLC

MCRootKind == <<"tads", "dict">>
MCImageRef == <<0, 1>>

\* Nobody reads the status of an entry, or the history of a load, between loads.
LoadView ==
  <<tableVars, gc_on, stack, reg, ready, calls, file, pc, loadVars, failed, countVars,
    IF pc = "run" THEN <<>> ELSE <<status, walked, inits, target>> >>

MCRootKindTable == <<"table", "tads">>
MCImageRefTable == <<0, 0>>
=============================================================================
