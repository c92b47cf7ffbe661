----------------------------- MODULE OsEventMC -----------------------------
(* Instances of OsEvent for TLC.                                           *)
EXTENDS OsEvent, TLC

CONSTANTS msg, quit, t1, t2, s1

\* A message event and a manual-reset quit event, as TadsMessage and
\* TadsMessageQueue wait for them.
MCWaitList == {<<msg, quit>>}

\* One signal makes a manual-reset event as much up as two.
MCMaxCount == [e \in Event |-> IF e = msg THEN 2 ELSE 1]
=============================================================================
