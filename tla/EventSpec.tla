----------------------------- MODULE EventSpec -----------------------------
(* What the event objects of osifcnet.h promise to the threads that use    *)
(* them: a signal is counted, a wait ends with an event that is counted at *)
(* that moment, or with a timeout, and an auto-reset event that ends a     *)
(* wait is taken from the count.                                           *)
EXTENDS Integers, Sequences

CONSTANTS Caller,     \* the threads
          Object,     \* the event objects
          Manual,     \* the events that stay signaled until they are reset
          Timeout     \* the result of a wait that timed out

VARIABLES count,      \* count[e]: signals not yet consumed
          waiting,    \* waiting[t]: the events t waits for, {} if it does not
          result      \* result[t]: what the last wait or test of t returned

specVars == <<count, waiting, result>>

Taken(e) == IF e \in Manual THEN count ELSE [count EXCEPT ![e] = @ - 1]

Init ==
  /\ count = [e \in Object |-> 0]
  /\ waiting = [t \in Caller |-> {}]
  /\ result = [t \in Caller |-> Timeout]

Signal(e) ==
  /\ count' = [count EXCEPT ![e] = @ + 1]
  /\ UNCHANGED <<waiting, result>>

Reset(e) ==
  /\ e \in Manual
  /\ count' = [count EXCEPT ![e] = 0]
  /\ UNCHANGED <<waiting, result>>

Wait(t) ==
  /\ waiting[t] = {}
  /\ \E S \in (SUBSET Object) \ {{}} : waiting' = [waiting EXCEPT ![t] = S]
  /\ UNCHANGED <<count, result>>

\* A wait never ends with an event that is not counted.
Fire(t, e) ==
  /\ e \in waiting[t]
  /\ count[e] > 0
  /\ count' = Taken(e)
  /\ waiting' = [waiting EXCEPT ![t] = {}]
  /\ result' = [result EXCEPT ![t] = e]

Expire(t) ==
  /\ waiting[t] # {}
  /\ waiting' = [waiting EXCEPT ![t] = {}]
  /\ result' = [result EXCEPT ![t] = Timeout]
  /\ UNCHANGED count

Test(t, e) ==
  /\ waiting[t] = {}
  /\ IF count[e] > 0
     THEN /\ count' = Taken(e)
          /\ result' = [result EXCEPT ![t] = e]
     ELSE /\ result' = [result EXCEPT ![t] = Timeout]
          /\ UNCHANGED count
  /\ UNCHANGED waiting

Next ==
  \/ \E e \in Object : Signal(e) \/ Reset(e)
  \/ \E t \in Caller : Wait(t) \/ Expire(t)
  \/ \E t \in Caller, e \in Object : Fire(t, e) \/ Test(t, e)

Spec == Init /\ [][Next]_specVars
=============================================================================
