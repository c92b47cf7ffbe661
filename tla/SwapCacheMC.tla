---------------------------- MODULE SwapCacheMC ----------------------------
(* Instances of SwapCache for TLC.                                         *)
EXTENDS SwapCache, TLC

CONSTANTS o1, o2, o3

\* Nobody reads a cell of the swap file that is in no segment in use, how much
\* was written into a segment that is not, or the swap handle of an object in
\* memory, which is flagged NODISC: states that differ only there are the same.
CodeView ==
  <<cacheVars, call, kept, top, max,
    [i \in DOMAIN seg |-> IF seg[i].use THEN <<seg[i], ReadFile(file, seg[i].ptr, seg[i].osz)>>
                          ELSE [seg[i] EXCEPT !.osz = 0]],
    [o \in Object |-> IF Present(o) THEN NoSeg ELSE loc[o]]>>

MCMaxLock == [o \in Object |-> IF o = o2 THEN 2 ELSE 1]

MCNewSize == [o \in Object |-> IF o = o2 THEN {1, 2} ELSE {}]

MCVersions == [o \in Object |-> IF o = o1 THEN 2 ELSE 1]

MCSize == [o \in Object |-> CASE o = o1 -> {1} [] o = o2 -> {1} [] OTHER -> {2}]
=============================================================================
