--------------------------- MODULE OsEventProofs ---------------------------
(* Proofs about OsEvent.  Each part of the invariant says what one group   *)
(* of variables means in each phase of a call; together they are           *)
(* inductive.                                                              *)
EXTENDS OsEvent, FiniteSetTheorems, TLAPS

-----------------------------------------------------------------------------
(* The invariant                                                           *)

\* What a waiter's local variables are in each phase of its call.
CallOK ==
  \A t \in Waiter :
    /\ (pc[t] = "run") => objs[t] = <<>>
    /\ pc[t] # "run" => idx[t] \in DOMAIN objs[t]
    /\ InMulti(t) => objs[t] \in WaitList
    /\ pc[t] \in {"wait", "blocked"} => \E e \in WaitOne : objs[t] = <<e>>
    /\ pc[t] \in {"groupwait", "asleep", "late"} => idx[t] = 1

\* A signaler holds the mutex of its event until it has notified everybody.
SignalOK ==
  /\ \A s \in Signaler :
       /\ sig[s] = Idle => todo[s] = {} /\ s \notin waking
       /\ s \in waking => todo[s] = {}
       /\ sig[s] # Idle /\ s \notin waking => mutex[sig[s]] = s
  /\ \A e \in Event : mutex[e] # NoThread => sig[mutex[e]] = e /\ mutex[e] \notin waking

\* The subscribers of an event are the calls between subscribing and unsubscribing,
\* and a signal is passed on to subscribers only.
SubsOK ==
  /\ \A e \in Event, t \in Waiter :
       t \in subs[e] <=> \E i \in Subscribed(t) : objs[t][i] = e
  /\ \A s \in Signaler : sig[s] # Idle => todo[s] \subseteq subs[sig[s]]

IInv == TypeOK /\ CallOK /\ SignalOK /\ SubsOK /\ NoLostSignal

-----------------------------------------------------------------------------
(* A waiter's list                                                         *)

(* Every list of a call is a sequence of different events, and the index   *)
(* is in it.                                                               *)
LEMMA ListOK ==
  ASSUME TypeOK, CallOK, NEW t \in Waiter, pc[t] # "run"
  PROVE  /\ objs[t] \in Seq(Event)
         /\ Len(objs[t]) \in Nat
         /\ DOMAIN objs[t] = 1 .. Len(objs[t])
         /\ idx[t] \in Nat /\ idx[t] >= 1 /\ idx[t] <= Len(objs[t])
         /\ Obj(t) \in Event
         /\ \A i \in DOMAIN objs[t] : objs[t][i] \in Event
         /\ \A i, j \in DOMAIN objs[t] : objs[t][i] = objs[t][j] => i = j
<1>1. CASE InMulti(t)
  BY <1>1, EventAssumption DEF TypeOK, CallOK, IsInjective, Obj
<1>2. CASE pc[t] \in {"wait", "blocked"}
  <2>1. PICK e \in WaitOne : objs[t] = <<e>>
    BY <1>2 DEF CallOK
  <2>2. e \in Event
    BY EventAssumption
  <2> QED
    BY <2>1, <2>2 DEF TypeOK, CallOK, Obj
<1> QED
  BY <1>1, <1>2 DEF TypeOK, Phase, InMulti

(* Counting a signal, and consuming one, keep the counts in their bounds.   *)
LEMMA CountOK ==
  ASSUME TypeOK, NEW e \in Event
  PROVE  /\ cnt[e] > 0 =>
              /\ Consume(e) \in [Event -> Nat]
              /\ \A f \in Event : Consume(e)[f] <= cnt[f]
              /\ \A f \in Event : Consume(e)[f] <= MaxCount[f]
         /\ cnt[e] < MaxCount[e] =>
              /\ [cnt EXCEPT ![e] = @ + 1] \in [Event -> Nat]
              /\ \A f \in Event : [cnt EXCEPT ![e] = @ + 1][f] <= MaxCount[f]
<1>1. \A f \in Event : cnt[f] \in Nat /\ MaxCount[f] \in Nat /\ cnt[f] <= MaxCount[f]
  BY EventAssumption DEF TypeOK
<1>2. cnt \in [Event -> Nat]
  BY DEF TypeOK
<1>3. cnt[e] > 0 => cnt[e] - 1 \in Nat
  BY <1>1
<1> QED
  BY <1>1, <1>2, <1>3 DEF Consume

(* Going on to the next object keeps the index in the list.                *)
LEMMA AdvanceOK ==
  ASSUME TypeOK, CallOK, NEW t \in Waiter, pc[t] # "run", NEW p \in Phase, Advance(t, p)
  PROVE  /\ pc' \in [Waiter -> Phase] /\ idx' \in [Waiter -> Nat]
         /\ \A u \in Waiter \ {t} : pc'[u] = pc[u] /\ idx'[u] = idx[u]
         /\ idx'[t] \in DOMAIN objs[t]
         /\ \/ pc'[t] = pc[t] /\ idx[t] < Len(objs[t]) /\ idx'[t] = idx[t] + 1
            \/ pc'[t] = p /\ idx[t] = Len(objs[t]) /\ idx'[t] = 1
<1>1. /\ idx[t] \in Nat /\ Len(objs[t]) \in Nat /\ DOMAIN objs[t] = 1 .. Len(objs[t])
      /\ idx[t] >= 1 /\ idx[t] <= Len(objs[t])
  BY ListOK
<1>2. pc \in [Waiter -> Phase] /\ idx \in [Waiter -> Nat]
  BY DEF TypeOK
<1>3. CASE idx[t] < Len(objs[t])
  BY <1>1, <1>2, <1>3 DEF Advance
<1>4. CASE ~(idx[t] < Len(objs[t]))
  BY <1>1, <1>2, <1>4 DEF Advance
<1> QED
  BY <1>3, <1>4

(* A step of one waiter leaves the calls of the others alone.              *)
LEMMA OneCall ==
  ASSUME CallOK, NEW t \in Waiter,
         \A u \in Waiter \ {t} : pc'[u] = pc[u] /\ objs'[u] = objs[u] /\ idx'[u] = idx[u],
         (pc[t] = "run")' => objs'[t] = <<>>,
         pc'[t] # "run" => idx'[t] \in DOMAIN objs'[t],
         InMulti(t)' => objs'[t] \in WaitList,
         pc'[t] \in {"wait", "blocked"} => \E e \in WaitOne : objs'[t] = <<e>>,
         pc'[t] \in {"groupwait", "asleep", "late"} => idx'[t] = 1
  PROVE  CallOK'
BY DEF CallOK, InMulti

-----------------------------------------------------------------------------
(* Types and calls                                                         *)

(* The initial state satisfies the invariant.                              *)
LEMMA InitOK == Init => IInv
BY EventAssumption DEF Init, IInv, TypeOK, CallOK, SignalOK, SubsOK, NoLostSignal, Phase,
  InMulti, Subscribed, Passed

(* Every step keeps the types and what the local variables are.            *)
LEMMA CallStep ==
  ASSUME TypeOK, CallOK, [Next]_vars
  PROVE  TypeOK' /\ CallOK'
<1> USE EventAssumption DEF eventVars, waiterVars, signalVars
<1>1. ASSUME NEW s \in Signaler, SignalSub(s)
      PROVE  TypeOK' /\ CallOK'
  BY <1>1 DEF TypeOK, CallOK, SignalSub, Phase, InMulti
<1>2. ASSUME NEW s \in Signaler, SignalUnlock(s)
      PROVE  TypeOK' /\ CallOK'
  BY <1>2 DEF TypeOK, CallOK, SignalUnlock, Phase, InMulti
<1>3. ASSUME NEW s \in Signaler, CondSignal(s)
      PROVE  TypeOK' /\ CallOK'
  <2>1. CASE UNCHANGED pc
    BY <1>3, <2>1 DEF TypeOK, CallOK, CondSignal, InMulti
  <2>2. ASSUME NEW t \in Blocked(sig[s]), pc' = [pc EXCEPT ![t] = "wait"]
        PROVE  TypeOK' /\ CallOK'
    BY <1>3, <2>2 DEF TypeOK, CallOK, CondSignal, Phase, InMulti, Blocked
  <2> QED
    BY <1>3, <2>1, <2>2 DEF CondSignal
<1>4. ASSUME NEW s \in Signaler, NEW e \in Event, SignalLock(s, e)
      PROVE  TypeOK' /\ CallOK'
  BY <1>4, CountOK DEF TypeOK, CallOK, SignalLock, Phase, InMulti, Free
<1>5. ASSUME NEW s \in Signaler, NEW e \in Event, Reset(s, e)
      PROVE  TypeOK' /\ CallOK'
  BY <1>5 DEF TypeOK, CallOK, Reset, Phase, InMulti, Free
<1>6. ASSUME NEW t \in Waiter, EvtWait(t)
      PROVE  TypeOK' /\ CallOK'
  <2> pc[t] # "run"
    BY <1>6 DEF EvtWait
  <2>0. Obj(t) \in Event /\ cnt[Obj(t)] \in Nat
    BY ListOK DEF TypeOK
  <2>1. CASE cnt[Obj(t)] <= 0
    <3>1. pc' = [pc EXCEPT ![t] = "blocked"] /\ pc[t] = "wait"
          /\ UNCHANGED <<cnt, objs, idx, timed, ret, mutex, subs, group, signalVars>>
      BY <1>6, <2>1 DEF EvtWait
    <3>2. TypeOK'
      BY <3>1 DEF TypeOK, Phase
    <3>3. CallOK'
      BY <3>1 DEF TypeOK, CallOK, InMulti
    <3> QED
      BY <3>2, <3>3
  <2>2. CASE cnt[Obj(t)] > 0
    <3>1. Obj(t) \in Event /\ cnt[Obj(t)] \in Nat
      BY <2>0
    <3>2. cnt' = Consume(Obj(t)) /\ Finish(t, Obj(t)) /\ UNCHANGED <<mutex, subs, group, signalVars>>
      BY <1>6, <2>2, <3>1 DEF EvtWait
    <3>3. cnt' \in [Event -> Nat] /\ \A f \in Event : cnt'[f] <= MaxCount[f]
      BY <2>2, <3>1, <3>2, CountOK
    <3> QED
      BY <3>1, <3>2, <3>3 DEF TypeOK, CallOK, Finish, Phase, InMulti
  <2> QED
    BY <2>0, <2>1, <2>2
<1>7. ASSUME NEW t \in Waiter, EvtTimeout(t)
      PROVE  TypeOK' /\ CallOK'
  BY <1>7 DEF TypeOK, CallOK, EvtTimeout, Finish, Phase, InMulti, Free
<1>8. ASSUME NEW t \in Waiter, Spurious(t)
      PROVE  TypeOK' /\ CallOK'
  BY <1>8 DEF TypeOK, CallOK, Spurious, Phase, InMulti
<1>9. ASSUME NEW t \in Waiter, NEW e \in Event, EvtTest(t, e)
      PROVE  TypeOK' /\ CallOK'
  <2>1. cnt' \in [Event -> Nat] /\ \A f \in Event : cnt'[f] <= MaxCount[f]
    BY <1>9, CountOK DEF EvtTest, TypeOK
  <2>2. ret' \in [Waiter -> Event \cup {Idle}]
    BY <1>9 DEF EvtTest, TypeOK
  <2>3. TypeOK'
    BY <1>9, <2>1, <2>2 DEF TypeOK, EvtTest
  <2>4. CallOK'
    BY <1>9 DEF CallOK, EvtTest, InMulti
  <2> QED
    BY <2>3, <2>4
<1>10. ASSUME NEW t \in Waiter, NEW e \in WaitOne, NEW tm \in BOOLEAN, Wait(t, e, tm)
       PROVE  TypeOK' /\ CallOK'
  <2>1. 1 \in DOMAIN <<e>>
    OBVIOUS
  <2> QED
    BY <1>10, <2>1 DEF TypeOK, CallOK, Wait, Call, Phase, InMulti
<1>11. ASSUME NEW t \in Waiter, NEW L \in WaitList, NEW tm \in BOOLEAN, MultiWait(t, L, tm)
       PROVE  TypeOK' /\ CallOK'
  <2>1. 1 \in DOMAIN L
    OBVIOUS
  <2> QED
    BY <1>11, <2>1 DEF TypeOK, CallOK, MultiWait, Call, Phase, InMulti
<1>12. ASSUME NEW t \in Waiter, Subscribe(t)
       PROVE  TypeOK' /\ CallOK'
  <2> pc[t] # "run"
    BY <1>12 DEF Subscribe
  <2>1. /\ Obj(t) \in Event /\ objs[t] \in WaitList
        /\ pc' \in [Waiter -> Phase] /\ idx' \in [Waiter -> Nat]
        /\ \A u \in Waiter \ {t} : pc'[u] = pc[u] /\ idx'[u] = idx[u]
        /\ idx'[t] \in DOMAIN objs[t]
        /\ pc'[t] = "subscribe" \/ (pc'[t] = "scan" /\ idx'[t] = 1)
    BY <1>12, ListOK, AdvanceOK DEF CallOK, Subscribe, Phase, InMulti
  <2> QED
    BY <1>12, <2>1 DEF TypeOK, CallOK, Subscribe, InMulti
<1>13. ASSUME NEW t \in Waiter, Scan(t)
       PROVE  TypeOK' /\ CallOK'
  <2> pc[t] # "run"
    BY <1>13 DEF Scan
  <2>1. Obj(t) \in Event /\ objs[t] \in WaitList /\ DOMAIN objs[t] = 1 .. Len(objs[t])
        /\ Len(objs[t]) \in Nat /\ 1 \in DOMAIN objs[t]
    BY <1>13, ListOK DEF CallOK, Scan, InMulti
  <2>2. CASE cnt[Obj(t)] > 0
    <3>1. cnt' \in [Event -> Nat] /\ \A f \in Event : cnt'[f] <= MaxCount[f]
      BY <1>13, <2>1, <2>2, CountOK DEF Scan
    <3>2. /\ pc' = [pc EXCEPT ![t] = "unsubscribe"] /\ idx' = [idx EXCEPT ![t] = 1]
          /\ ret' = [ret EXCEPT ![t] = Obj(t)]
          /\ UNCHANGED <<objs, mutex, subs, group, timed, signalVars>>
      BY <1>13, <2>2 DEF Scan
    <3>3. TypeOK'
      BY <2>1, <3>1, <3>2 DEF TypeOK, Phase
    <3>4. CallOK'
      BY <2>1, <3>2, OneCall DEF TypeOK, InMulti
    <3> QED
      BY <3>3, <3>4
  <2>3. CASE ~(cnt[Obj(t)] > 0)
    <3>1. /\ pc' \in [Waiter -> Phase] /\ idx' \in [Waiter -> Nat]
          /\ \A u \in Waiter \ {t} : pc'[u] = pc[u] /\ idx'[u] = idx[u]
          /\ idx'[t] \in DOMAIN objs[t]
          /\ pc'[t] = "scan" \/ (pc'[t] = "groupwait" /\ idx'[t] = 1)
      BY <1>13, <2>3, AdvanceOK DEF Scan, Phase
    <3> QED
      BY <1>13, <2>1, <2>3, <3>1 DEF TypeOK, CallOK, Scan, InMulti
  <2> QED
    BY <2>2, <2>3
<1>14. ASSUME NEW t \in Waiter, GroupWait(t)
       PROVE  TypeOK' /\ CallOK'
  <2>1. CASE group[t] > 0
    <3>1. group[t] - 1 \in Nat
      BY <2>1 DEF TypeOK
    <3>2. group' \in [Waiter -> Nat] /\ pc' = [pc EXCEPT ![t] = "scan"]
          /\ UNCHANGED <<eventVars, objs, idx, timed, ret, signalVars>>
      BY <1>14, <2>1, <3>1 DEF TypeOK, GroupWait
    <3>3. TypeOK'
      BY <3>2 DEF TypeOK, Phase
    <3>4. CallOK'
      BY <1>14, <2>1 DEF TypeOK, CallOK, GroupWait, InMulti
    <3> QED
      BY <3>3, <3>4
  <2>2. CASE ~(group[t] > 0)
    BY <1>14, <2>2 DEF TypeOK, CallOK, GroupWait, Phase, InMulti
  <2> QED
    BY <2>1, <2>2
<1>15. ASSUME NEW t \in Waiter, GroupTimeout(t) \/ GroupLate(t)
       PROVE  TypeOK' /\ CallOK'
  <2>1. CASE GroupTimeout(t)
    <3>1. CASE t \in Interrupted
      BY <1>15, <2>1, <3>1 DEF TypeOK, CallOK, GroupTimeout, Phase, InMulti
    <3>2. CASE t \notin Interrupted
      BY <1>15, <2>1, <3>2 DEF TypeOK, CallOK, GroupTimeout, Phase, InMulti
    <3> QED
      BY <3>1, <3>2
  <2>2. CASE GroupLate(t)
    BY <2>2 DEF TypeOK, CallOK, GroupLate, Phase, InMulti
  <2> QED
    BY <1>15, <2>1, <2>2
<1>16. ASSUME NEW t \in Waiter, Unsubscribe(t)
       PROVE  TypeOK' /\ CallOK'
  <2> pc[t] # "run"
    BY <1>16 DEF Unsubscribe
  <2>1. Obj(t) \in Event /\ objs[t] \in WaitList
    BY <1>16, ListOK DEF CallOK, Unsubscribe, InMulti
  <2>2. CASE idx[t] < Len(objs[t])
    <3>1. /\ pc' \in [Waiter -> Phase] /\ idx' \in [Waiter -> Nat]
          /\ \A u \in Waiter \ {t} : pc'[u] = pc[u] /\ idx'[u] = idx[u]
          /\ idx'[t] \in DOMAIN objs[t] /\ pc'[t] = pc[t]
      BY <1>16, <2>2, ListOK, AdvanceOK DEF Unsubscribe, Phase
    <3>2. TypeOK'
      BY <1>16, <2>1, <2>2, <3>1 DEF TypeOK, Unsubscribe
    <3>3. objs' = objs /\ pc[t] = "unsubscribe"
      BY <1>16, <2>2 DEF Unsubscribe
    <3>4. CallOK'
      BY <2>1, <3>1, <3>3, OneCall DEF InMulti
    <3> QED
      BY <3>2, <3>4
  <2>3. CASE ~(idx[t] < Len(objs[t]))
    <3>1. Finish(t, ret[t])
      BY <1>16, <2>3 DEF Unsubscribe
    <3>2. TypeOK'
      BY <1>16, <2>1, <3>1 DEF TypeOK, Unsubscribe, Finish, Phase
    <3>3. CallOK'
      BY <3>1 DEF TypeOK, CallOK, Finish, InMulti
    <3> QED
      BY <3>2, <3>3
  <2> QED
    BY <2>2, <2>3
<1>17. CASE UNCHANGED vars
  BY <1>17 DEF vars, TypeOK, CallOK, Phase, InMulti
<1> QED
  BY <1>1, <1>2, <1>3, <1>4, <1>5, <1>6, <1>7, <1>8, <1>9, <1>10, <1>11, <1>12, <1>13,
     <1>14, <1>15, <1>16, <1>17 DEF Next, SignalStep, Proceed, Expire

-----------------------------------------------------------------------------
(* Mutexes and subscribers                                                 *)

(* Every step keeps what a signaler in a call is holding.                  *)
LEMMA SignalerStep ==
  ASSUME TypeOK, SignalOK, [Next]_vars
  PROVE  SignalOK'
<1> USE EventAssumption DEF eventVars, waiterVars, signalVars
<1>1. ASSUME NEW s \in Signaler, SignalSub(s)
      PROVE  SignalOK'
  BY <1>1 DEF TypeOK, SignalOK, SignalSub
<1>2. ASSUME NEW s \in Signaler, SignalUnlock(s)
      PROVE  SignalOK'
  BY <1>2 DEF TypeOK, SignalOK, SignalUnlock
<1>3. ASSUME NEW s \in Signaler, CondSignal(s)
      PROVE  SignalOK'
  BY <1>3 DEF TypeOK, SignalOK, CondSignal
<1>4. ASSUME NEW s \in Signaler, NEW e \in Event, SignalLock(s, e)
      PROVE  SignalOK'
  BY <1>4 DEF TypeOK, SignalOK, SignalLock, Free
<1>5. CASE UNCHANGED <<mutex, signalVars>>
  BY <1>5 DEF SignalOK
<1>6. ASSUME NEW s \in Signaler, NEW e \in Event, Reset(s, e)
      PROVE  UNCHANGED <<mutex, signalVars>>
  BY <1>6 DEF Reset
<1>7. ASSUME NEW t \in Waiter, Proceed(t) \/ Expire(t) \/ Spurious(t)
      PROVE  UNCHANGED <<mutex, signalVars>>
  BY <1>7 DEF Proceed, EvtWait, Subscribe, Scan, GroupWait, Unsubscribe, Expire,
    EvtTimeout, GroupTimeout, GroupLate, Spurious
<1>8. ASSUME NEW t \in Waiter, NEW e \in Event, EvtTest(t, e)
      PROVE  UNCHANGED <<mutex, signalVars>>
  BY <1>8 DEF EvtTest
<1>9. ASSUME NEW t \in Waiter, NEW tm \in BOOLEAN,
             \/ \E e \in WaitOne : Wait(t, e, tm)
             \/ \E L \in WaitList : MultiWait(t, L, tm)
      PROVE  UNCHANGED <<mutex, signalVars>>
  BY <1>9 DEF Wait, MultiWait, Call
<1> QED
  BY <1>1, <1>2, <1>3, <1>4, <1>5, <1>6, <1>7, <1>8, <1>9 DEF Next, SignalStep, vars

(* While a signaler passes a signal on, nobody else gets the mutex of its  *)
(* event: its subscribers stay.                                            *)
LEMMA Holding ==
  ASSUME TypeOK, SignalOK, NEW s \in Signaler, NEW t \in todo[s]
  PROVE  sig[s] \in Event /\ mutex[sig[s]] = s /\ ~Free(sig[s]) /\ t \in Waiter
BY EventAssumption DEF TypeOK, SignalOK, Free

(* When one waiter moves, its own subscriptions are all there is to check. *)
LEMMA OneSubscriber ==
  ASSUME SubsOK, NEW t \in Waiter,
         \A u \in Waiter \ {t} : pc'[u] = pc[u] /\ objs'[u] = objs[u] /\ idx'[u] = idx[u],
         \A e \in Event : \A u \in Waiter \ {t} : u \in subs'[e] <=> u \in subs[e],
         \A e \in Event :
           t \in subs'[e] <=> \E i \in Subscribed(t)' : objs'[t][i] = e
  PROVE  \A e \in Event, u \in Waiter :
           u \in subs'[e] <=> \E i \in Subscribed(u)' : objs'[u][i] = e
BY DEF SubsOK, Subscribed, InMulti

(* The steps that touch no list of subscribers: the waiter that moves, if  *)
(* any, is subscribed to what it was subscribed to.                        *)
LEMMA SameSubscribers ==
  ASSUME TypeOK, CallOK, SubsOK, UNCHANGED subs, NEW t \in Waiter,
         \A u \in Waiter \ {t} : pc'[u] = pc[u] /\ objs'[u] = objs[u] /\ idx'[u] = idx[u],
         \A e \in Event : (\E i \in Subscribed(t)' : objs'[t][i] = e)
                             <=> (\E i \in Subscribed(t) : objs[t][i] = e)
  PROVE  \A e \in Event, u \in Waiter :
           u \in subs'[e] <=> \E i \in Subscribed(u)' : objs'[u][i] = e
BY OneSubscriber DEF SubsOK

(* Every step keeps the subscribers of each event: they are the calls that *)
(* have subscribed to it and not unsubscribed.                             *)
LEMMA SubsStep ==
  ASSUME TypeOK, CallOK, SignalOK, SubsOK, [Next]_vars
  PROVE  \A e \in Event, u \in Waiter :
           u \in subs'[e] <=> \E i \in Subscribed(u)' : objs'[u][i] = e
<1> USE EventAssumption DEF eventVars, waiterVars, signalVars
<1> DEFINE On(u, e) == \E i \in Subscribed(u) : objs[u][i] = e
           Goal == \A e \in Event, u \in Waiter : u \in subs'[e] <=> On(u, e)'
<1>1. CASE UNCHANGED <<pc, objs, idx, subs>>
  BY <1>1 DEF SubsOK, Subscribed, InMulti
<1>2. ASSUME NEW s \in Signaler, SignalSub(s)
      PROVE  Goal
  <2>1. PICK t \in todo[s] : pc' = [pc EXCEPT ![t] = IF @ = "asleep" THEN "groupwait" ELSE @]
    BY <1>2 DEF SignalSub
  <2>2. t \in Waiter /\ UNCHANGED <<objs, idx, subs>>
    BY <1>2 DEF SignalSub, TypeOK
  <2>3. \A u \in Waiter \ {t} : pc'[u] = pc[u]
    BY <2>1, <2>2 DEF TypeOK
  <2>4. Subscribed(t)' = Subscribed(t)
    <3>1. CASE pc[t] = "asleep"
      <4>1. pc'[t] = "groupwait"
        BY <2>1, <2>2, <3>1 DEF TypeOK
      <4> QED
        BY <2>2, <3>1, <4>1 DEF Subscribed, InMulti
    <3>2. CASE pc[t] # "asleep"
      <4>1. pc'[t] = pc[t]
        BY <2>1, <2>2, <3>2 DEF TypeOK
      <4> QED
        BY <2>2, <4>1 DEF Subscribed, InMulti
    <3> QED
      BY <3>1, <3>2
  <2> QED
    BY <2>2, <2>3, <2>4, SameSubscribers
<1>3. ASSUME NEW s \in Signaler, CondSignal(s)
      PROVE  Goal
  <2>1. CASE UNCHANGED pc
    BY <1>1, <1>3, <2>1 DEF CondSignal
  <2>2. ASSUME NEW t \in Blocked(sig[s]), pc' = [pc EXCEPT ![t] = "wait"]
        PROVE  Goal
    <3>1. t \in Waiter /\ pc[t] = "blocked" /\ UNCHANGED <<objs, idx, subs>>
      BY <1>3, <2>2 DEF CondSignal, Blocked
    <3>2. pc'[t] = "wait" /\ \A u \in Waiter \ {t} : pc'[u] = pc[u]
      BY <2>2, <3>1 DEF TypeOK
    <3>3. Subscribed(t)' = {} /\ Subscribed(t) = {}
      BY <3>1, <3>2 DEF Subscribed, InMulti
    <3> QED
      BY <3>1, <3>2, <3>3, SameSubscribers
  <2> QED
    BY <1>3, <2>1, <2>2 DEF CondSignal
<1>4. ASSUME NEW s \in Signaler, SignalUnlock(s)
      PROVE  Goal
  BY <1>1, <1>4 DEF SignalUnlock
<1>5. ASSUME NEW s \in Signaler, NEW e \in Event, SignalLock(s, e) \/ Reset(s, e)
      PROVE  Goal
  BY <1>1, <1>5 DEF SignalLock, Reset
<1>6. ASSUME NEW t \in Waiter, EvtWait(t)
      PROVE  Goal
  <2>1. /\ pc[t] = "wait" /\ pc'[t] \in {"blocked", "run"} /\ UNCHANGED subs
        /\ \A u \in Waiter \ {t} : pc'[u] = pc[u] /\ objs'[u] = objs[u] /\ idx'[u] = idx[u]
    BY <1>6 DEF EvtWait, Finish, TypeOK
  <2>2. Subscribed(t)' = {} /\ Subscribed(t) = {}
    BY <2>1 DEF Subscribed, InMulti
  <2> QED
    BY <2>1, <2>2, SameSubscribers
<1>7. ASSUME NEW t \in Waiter, EvtTimeout(t)
      PROVE  Goal
  BY <1>7, SameSubscribers DEF EvtTimeout, Finish, TypeOK, Subscribed, InMulti
<1>8. ASSUME NEW t \in Waiter, Spurious(t)
      PROVE  Goal
  <2>1. /\ UNCHANGED <<objs, idx, subs>> /\ \A u \in Waiter \ {t} : pc'[u] = pc[u]
        /\ \/ pc[t] = "blocked" /\ pc'[t] = "wait"
           \/ pc[t] = "asleep" /\ pc'[t] = "groupwait"
    BY <1>8 DEF Spurious, TypeOK
  <2>2. Subscribed(t)' = Subscribed(t)
    BY <2>1 DEF Subscribed, InMulti
  <2> QED
    BY <2>1, <2>2, SameSubscribers
<1>9. ASSUME NEW t \in Waiter, NEW e \in Event, EvtTest(t, e)
      PROVE  Goal
  BY <1>1, <1>9 DEF EvtTest
<1>10. ASSUME NEW t \in Waiter, NEW e \in WaitOne, NEW tm \in BOOLEAN, Wait(t, e, tm)
       PROVE  Goal
  BY <1>10, SameSubscribers DEF Wait, Call, TypeOK, Subscribed, InMulti
<1>11. ASSUME NEW t \in Waiter, NEW L \in WaitList, NEW tm \in BOOLEAN, MultiWait(t, L, tm)
       PROVE  Goal
  <2>1. /\ pc' = [pc EXCEPT ![t] = "subscribe"] /\ objs' = [objs EXCEPT ![t] = L]
        /\ idx' = [idx EXCEPT ![t] = 1] /\ pc[t] = "run" /\ UNCHANGED subs
    BY <1>11 DEF MultiWait, Call
  <2>2. Subscribed(t)' = {}
    BY <2>1 DEF TypeOK, Subscribed
  <2>3. Subscribed(t) = {}
    BY <2>1 DEF Subscribed, InMulti
  <2> QED
    BY <2>1, <2>2, <2>3, SameSubscribers DEF TypeOK
<1>12. ASSUME NEW t \in Waiter, GroupWait(t) \/ GroupTimeout(t) \/ GroupLate(t)
       PROVE  Goal
  <2>1. /\ pc[t] \in {"groupwait", "asleep", "late"}
        /\ pc'[t] \in {"asleep", "late", "scan", "unsubscribe"}
        /\ \A u \in Waiter \ {t} : pc'[u] = pc[u]
        /\ UNCHANGED <<objs, idx, subs>>
    BY <1>12 DEF GroupWait, GroupTimeout, GroupLate, TypeOK
  <2>2. idx[t] = 1 /\ DOMAIN objs[t] = 1 .. Len(objs[t]) /\ Len(objs[t]) \in Nat
    BY <2>1, ListOK DEF CallOK
  <2>3. Subscribed(t) = DOMAIN objs[t]
    BY <2>1 DEF Subscribed, InMulti
  <2>4. Subscribed(t)' = DOMAIN objs[t]
    BY <2>1, <2>2 DEF Subscribed, InMulti
  <2> QED
    BY <2>1, <2>3, <2>4, SameSubscribers
<1>13. ASSUME NEW t \in Waiter, Scan(t)
       PROVE  Goal
  <2>1. pc[t] = "scan" /\ UNCHANGED <<objs, subs>> /\ DOMAIN objs[t] = 1 .. Len(objs[t])
        /\ Subscribed(t) = DOMAIN objs[t] /\ Len(objs[t]) \in Nat
    BY <1>13, ListOK DEF Scan, Subscribed, InMulti
  <2>2. CASE cnt[Obj(t)] > 0
    <3>1. pc' = [pc EXCEPT ![t] = "unsubscribe"] /\ idx' = [idx EXCEPT ![t] = 1]
      BY <1>13, <2>2 DEF Scan
    <3>2. Subscribed(t)' = DOMAIN objs[t]
      BY <2>1, <3>1 DEF Subscribed, TypeOK
    <3> QED
      BY <2>1, <3>1, <3>2, SameSubscribers DEF TypeOK
  <2>3. CASE ~(cnt[Obj(t)] > 0)
    <3>1. /\ \A u \in Waiter \ {t} : pc'[u] = pc[u] /\ idx'[u] = idx[u]
          /\ pc'[t] \in {"scan", "groupwait"}
      BY <1>13, <2>1, <2>3, AdvanceOK DEF Scan, Phase
    <3>2. Subscribed(t)' = DOMAIN objs[t]
      BY <2>1, <3>1 DEF Subscribed, InMulti
    <3> QED
      BY <2>1, <3>1, <3>2, SameSubscribers
  <2> QED
    BY <2>2, <2>3
<1>14. ASSUME NEW t \in Waiter, Subscribe(t)
       PROVE  Goal
  <2>1. /\ pc[t] = "subscribe" /\ UNCHANGED objs /\ Obj(t) \in Event
        /\ DOMAIN objs[t] = 1 .. Len(objs[t]) /\ Len(objs[t]) \in Nat /\ idx[t] \in 1 .. Len(objs[t])
        /\ subs' = [subs EXCEPT ![Obj(t)] = @ \cup {t}]
    BY <1>14, ListOK DEF Subscribe
  <2>2. Subscribed(t) = {i \in DOMAIN objs[t] : i < idx[t]}
    BY <2>1 DEF Subscribed
  <2>3. /\ \A u \in Waiter \ {t} : pc'[u] = pc[u] /\ idx'[u] = idx[u]
        /\ \/ pc'[t] = "subscribe" /\ idx'[t] = idx[t] + 1
           \/ pc'[t] = "scan" /\ idx[t] = Len(objs[t])
    BY <1>14, <2>1, AdvanceOK DEF Subscribe, Phase
  <2>4. Subscribed(t)' = Subscribed(t) \cup {idx[t]}
    <3>1. CASE pc'[t] = "subscribe" /\ idx'[t] = idx[t] + 1
      <4>1. Subscribed(t)' = {i \in DOMAIN objs[t] : i < idx[t] + 1}
        BY <2>1, <3>1 DEF Subscribed
      <4> QED
        BY <2>1, <2>2, <4>1
    <3>2. CASE pc'[t] = "scan" /\ idx[t] = Len(objs[t])
      <4>1. Subscribed(t)' = DOMAIN objs[t]
        BY <2>1, <3>2 DEF Subscribed, InMulti
      <4> QED
        BY <2>1, <2>2, <3>2, <4>1
    <3> QED
      BY <2>3, <3>1, <3>2
  <2>5. \A e \in Event : /\ t \in subs'[e] <=> (t \in subs[e] \/ e = Obj(t))
                         /\ \A u \in Waiter \ {t} : u \in subs'[e] <=> u \in subs[e]
    BY <2>1 DEF TypeOK
  <2>6. \A e \in Event : On(t, e)' <=> (On(t, e) \/ e = Obj(t))
    BY <2>1, <2>4 DEF Obj
  <2>7. \A e \in Event : t \in subs[e] <=> On(t, e)
    BY DEF SubsOK
  <2> QED
    BY <2>1, <2>3, <2>5, <2>6, <2>7, OneSubscriber
<1>15. ASSUME NEW t \in Waiter, Unsubscribe(t)
       PROVE  Goal
  <2>1. /\ pc[t] = "unsubscribe" /\ Obj(t) \in Event
        /\ DOMAIN objs[t] = 1 .. Len(objs[t]) /\ Len(objs[t]) \in Nat /\ idx[t] \in 1 .. Len(objs[t])
        /\ \A i, j \in DOMAIN objs[t] : objs[t][i] = objs[t][j] => i = j
        /\ subs' = [subs EXCEPT ![Obj(t)] = @ \ {t}]
    BY <1>15, ListOK DEF Unsubscribe
  <2>2. Subscribed(t) = {i \in DOMAIN objs[t] : i >= idx[t]}
    BY <2>1 DEF Subscribed
  <2>3. \A e \in Event : /\ t \in subs'[e] <=> (t \in subs[e] /\ e # Obj(t))
                         /\ \A u \in Waiter \ {t} : u \in subs'[e] <=> u \in subs[e]
    BY <2>1 DEF TypeOK
  <2>4. \A e \in Event : t \in subs[e] <=> On(t, e)
    BY DEF SubsOK
  <2>5. /\ \A u \in Waiter \ {t} : pc'[u] = pc[u] /\ objs'[u] = objs[u] /\ idx'[u] = idx[u]
        /\ \A e \in Event : On(t, e)' <=> (On(t, e) /\ e # Obj(t))
    <3>1. CASE idx[t] < Len(objs[t])
      <4>1. /\ \A u \in Waiter \ {t} : pc'[u] = pc[u] /\ idx'[u] = idx[u]
            /\ objs' = objs /\ pc'[t] = "unsubscribe" /\ idx'[t] = idx[t] + 1
        BY <1>15, <2>1, <3>1, AdvanceOK DEF Unsubscribe, Phase
      <4>2. Subscribed(t)' = {i \in DOMAIN objs[t] : i >= idx[t] + 1}
        BY <4>1 DEF Subscribed
      <4>3. Subscribed(t)' = Subscribed(t) \ {idx[t]}
        BY <2>1, <2>2, <4>2
      <4> QED
        BY <2>1, <2>2, <4>1, <4>3 DEF Obj
    <3>2. CASE ~(idx[t] < Len(objs[t]))
      <4>1. Finish(t, ret[t])
        BY <1>15, <3>2 DEF Unsubscribe
      <4>2. Subscribed(t)' = {}
        BY <4>1 DEF Finish, TypeOK, Subscribed, InMulti
      <4>3. Subscribed(t) = {idx[t]}
        BY <2>1, <2>2, <3>2
      <4> QED
        BY <4>1, <4>2, <4>3 DEF Finish, TypeOK, Obj
    <3> QED
      BY <3>1, <3>2
  <2> QED
    BY <2>3, <2>4, <2>5, OneSubscriber
<1> QED
  BY <1>1, <1>2, <1>3, <1>4, <1>5, <1>6, <1>7, <1>8, <1>9, <1>10, <1>11, <1>12, <1>13,
     <1>14, <1>15 DEF Next, SignalStep, Proceed, Expire, vars

(* Whoever a signal is still to be passed on to has not unsubscribed.      *)
LEMMA TodoStep ==
  ASSUME TypeOK, CallOK, SignalOK, SubsOK, [Next]_vars, NEW s \in Signaler, sig'[s] # Idle
  PROVE  todo'[s] \subseteq subs'[sig'[s]]
<1> USE EventAssumption DEF eventVars, waiterVars, signalVars
<1>1. CASE UNCHANGED <<sig, todo, subs>>
  BY <1>1 DEF SubsOK
<1>2. ASSUME NEW r \in Signaler, SignalSub(r)
      PROVE  todo'[s] \subseteq subs'[sig'[s]]
  BY <1>2 DEF SignalSub, SubsOK, TypeOK
<1>3. ASSUME NEW r \in Signaler, CondSignal(r)
      PROVE  todo'[s] \subseteq subs'[sig'[s]]
  BY <1>3 DEF CondSignal, SubsOK, TypeOK
<1>4. ASSUME NEW r \in Signaler, NEW e \in Event, SignalLock(r, e)
      PROVE  todo'[s] \subseteq subs'[sig'[s]]
  BY <1>4 DEF SignalLock, SubsOK, TypeOK
<1>5. ASSUME NEW r \in Signaler,
             SignalUnlock(r) \/ \E e \in Event : Reset(r, e)
      PROVE  UNCHANGED <<sig, todo, subs>>
  BY <1>5 DEF SignalUnlock, Reset
<1>6. ASSUME NEW t \in Waiter,
             EvtWait(t) \/ Scan(t) \/ GroupWait(t) \/ Expire(t) \/ Spurious(t)
      PROVE  UNCHANGED <<sig, todo, subs>>
  BY <1>6 DEF EvtWait, Scan, GroupWait, Expire, EvtTimeout, GroupTimeout,
    GroupLate, Spurious
<1>7. ASSUME NEW t \in Waiter, NEW e \in Event, EvtTest(t, e)
      PROVE  UNCHANGED <<sig, todo, subs>>
  BY <1>7 DEF EvtTest
<1>8. ASSUME NEW t \in Waiter, NEW tm \in BOOLEAN,
             \/ \E e \in WaitOne : Wait(t, e, tm)
             \/ \E L \in WaitList : MultiWait(t, L, tm)
      PROVE  UNCHANGED <<sig, todo, subs>>
  BY <1>8 DEF Wait, MultiWait, Call
<1>9. ASSUME NEW t \in Waiter, Subscribe(t)
      PROVE  todo'[s] \subseteq subs'[sig'[s]]
  BY <1>9, ListOK DEF Subscribe, SubsOK, TypeOK
<1>10. ASSUME NEW t \in Waiter, Unsubscribe(t)
       PROVE  todo'[s] \subseteq subs'[sig'[s]]
  <2>1. pc[t] # "run" /\ Free(Obj(t)) /\ subs' = [subs EXCEPT ![Obj(t)] = @ \ {t}]
        /\ UNCHANGED <<sig, todo>>
    BY <1>10 DEF Unsubscribe
  <2>2. CASE todo[s] = {}
    BY <2>1, <2>2
  <2>3. CASE todo[s] # {}
    <3>1. sig[s] \in Event /\ sig[s] # Obj(t)
      BY <2>1, <2>3, Holding
    <3> QED
      BY <2>1, <3>1, ListOK DEF SubsOK, TypeOK
  <2> QED
    BY <2>2, <2>3
<1>11. ASSUME NEW r \in Signaler, SignalStep(r)
       PROVE  todo'[s] \subseteq subs'[sig'[s]]
  BY <1>1, <1>2, <1>3, <1>5, <1>11 DEF SignalStep
<1>12. ASSUME NEW t \in Waiter, Proceed(t) \/ Expire(t) \/ Spurious(t)
       PROVE  todo'[s] \subseteq subs'[sig'[s]]
  BY <1>1, <1>6, <1>9, <1>10, <1>12 DEF Proceed
<1>13. CASE UNCHANGED vars
  BY <1>1, <1>13 DEF vars
<1> QED
  BY <1>1, <1>4, <1>5, <1>7, <1>8, <1>11, <1>12, <1>13 DEF Next

-----------------------------------------------------------------------------
(* Signals and waits for several events                                    *)

(* When one waiter moves and no count rises, only the events this waiter   *)
(* has passed need to be looked at.                                        *)
LEMMA OnePassed ==
  ASSUME TypeOK, NoLostSignal, NEW t \in Waiter, UNCHANGED <<sig, todo>>,
         \A u \in Waiter \ {t} : /\ pc'[u] = pc[u] /\ objs'[u] = objs[u]
                                 /\ idx'[u] = idx[u] /\ group'[u] = group[u],
         \A e \in Event : cnt'[e] > 0 => cnt[e] > 0,
         \A u \in Waiter : Passed(u) \subseteq Event,
         \A e \in Passed(t)' :
           cnt'[e] > 0 => \/ group'[t] > 0 /\ pc'[t] # "asleep"
                          \/ Coming(t, e)
  PROVE  NoLostSignal'
BY DEF NoLostSignal, Passed, Coming

(* The events a thread has passed are events of its list.                  *)
LEMMA PassedOK ==
  ASSUME TypeOK, CallOK, NEW t \in Waiter
  PROVE  Passed(t) \subseteq Event
<1>1. CASE pc[t] = "run"
  BY <1>1 DEF Passed
<1>2. CASE pc[t] # "run"
  BY <1>2, ListOK DEF Passed, ToSet
<1> QED
  BY <1>1, <1>2

(* No step loses a signal.                                                 *)
LEMMA LostStep ==
  ASSUME IInv, [Next]_vars
  PROVE  NoLostSignal'
<1> USE EventAssumption DEF eventVars, waiterVars, signalVars
<1>a. TypeOK /\ CallOK /\ SignalOK /\ SubsOK /\ NoLostSignal
  BY DEF IInv
<1>b. \A u \in Waiter : Passed(u) \subseteq Event
  BY <1>a, PassedOK
<1>1. CASE UNCHANGED <<cnt, group, pc, objs, idx, sig, todo>>
  BY <1>1, <1>a DEF NoLostSignal, Passed, Coming
<1>2. ASSUME NEW s \in Signaler, SignalSub(s)
      PROVE  NoLostSignal'
  <2>1. PICK t \in todo[s] :
          /\ group' = [group EXCEPT ![t] = @ + 1]
          /\ pc' = [pc EXCEPT ![t] = IF @ = "asleep" THEN "groupwait" ELSE @]
          /\ todo' = [todo EXCEPT ![s] = @ \ {t}]
    BY <1>2 DEF SignalSub
  <2>2. t \in Waiter /\ UNCHANGED <<cnt, objs, idx, sig>>
    BY <1>2, <1>a DEF SignalSub, TypeOK
  <2>3. group'[t] > 0 /\ pc'[t] # "asleep"
    BY <1>a, <2>1, <2>2 DEF TypeOK
  <2>4. ASSUME NEW u \in Waiter \ {t}
        PROVE  pc'[u] = pc[u] /\ group'[u] = group[u]
               /\ \A e \in Event : Coming(u, e)' <=> Coming(u, e)
    BY <1>a, <2>1, <2>2 DEF TypeOK, Coming
  <2>5. \A u \in Waiter \ {t} : Passed(u)' = Passed(u)
    BY <2>2, <2>4 DEF Passed
  <2> QED
    BY <1>a, <1>b, <2>2, <2>3, <2>4, <2>5 DEF NoLostSignal
<1>3. ASSUME NEW s \in Signaler, SignalUnlock(s)
      PROVE  NoLostSignal'
  BY <1>1, <1>3 DEF SignalUnlock
<1>4. ASSUME NEW s \in Signaler, CondSignal(s)
      PROVE  NoLostSignal'
  <2>1. \A u \in Waiter : \/ Passed(u)' = Passed(u) /\ pc'[u] = pc[u]
                          \/ Passed(u)' = {}
    BY <1>a, <1>4 DEF CondSignal, Blocked, Passed, TypeOK
  <2>2. todo[s] = {} /\ sig' = [sig EXCEPT ![s] = Idle] /\ UNCHANGED <<cnt, group, todo>>
    BY <1>a, <1>4 DEF CondSignal, SignalOK
  <2>3. \A u \in Waiter, e \in Event : Coming(u, e) => Coming(u, e)'
    BY <1>a, <2>2 DEF TypeOK, Coming
  <2> QED
    BY <1>a, <1>b, <2>1, <2>2, <2>3 DEF NoLostSignal
<1>5. ASSUME NEW s \in Signaler, NEW e \in Event, SignalLock(s, e)
      PROVE  NoLostSignal'
  <2>1. /\ sig[s] = Idle /\ sig' = [sig EXCEPT ![s] = e] /\ todo' = [todo EXCEPT ![s] = subs[e]]
        /\ cnt' = [cnt EXCEPT ![e] = @ + 1] /\ UNCHANGED <<group, pc, objs, idx>>
    BY <1>5 DEF SignalLock
  <2>2. \A u \in Waiter : Passed(u)' = Passed(u)
    BY <2>1 DEF Passed
  <2>3. \A u \in Waiter, f \in Event : Coming(u, f) => Coming(u, f)'
    BY <1>a, <2>1 DEF Coming, TypeOK, SignalOK
  <2>4. \A u \in Waiter : e \in Passed(u) => Coming(u, e)'
    <3> SUFFICES ASSUME NEW u \in Waiter, e \in Passed(u)
                 PROVE  Coming(u, e)'
      OBVIOUS
    <3>1. pc[u] \in {"scan", "groupwait", "asleep", "late"}
      BY DEF Passed
    <3>2. DOMAIN objs[u] = 1 .. Len(objs[u]) /\ Len(objs[u]) \in Nat
          /\ idx[u] \in 1 .. Len(objs[u])
      BY <1>a, <3>1, ListOK
    <3>3. Subscribed(u) = DOMAIN objs[u]
      BY <3>1 DEF Subscribed, InMulti
    <3>4. \E i \in DOMAIN objs[u] : objs[u][i] = e
      BY <3>1, <3>2 DEF Passed, ToSet
    <3>5. u \in subs[e]
      BY <1>a, <3>3, <3>4 DEF SubsOK
    <3> QED
      BY <1>a, <2>1, <3>5 DEF Coming, TypeOK
  <2>5. \A f \in Event \ {e} : cnt'[f] = cnt[f]
    BY <1>a, <2>1 DEF TypeOK
  <2> QED
    BY <1>a, <1>b, <2>1, <2>2, <2>3, <2>4, <2>5 DEF NoLostSignal
<1>6. ASSUME NEW s \in Signaler, NEW e \in Event, Reset(s, e)
      PROVE  NoLostSignal'
  <2>1. cnt' = [cnt EXCEPT ![e] = 0] /\ UNCHANGED <<group, pc, objs, idx, sig, todo>>
    BY <1>6 DEF Reset
  <2>2. \A f \in Event : cnt'[f] > 0 => cnt[f] > 0
    BY <1>a, <2>1 DEF TypeOK
  <2> QED
    BY <1>a, <1>b, <2>1, <2>2 DEF NoLostSignal, Passed, Coming
<1>c. \A e \in Event : cnt[e] > 0 => \A f \in Event : Consume(e)[f] > 0 => cnt[f] > 0
  BY <1>a DEF TypeOK, Consume
<1>7. ASSUME NEW t \in Waiter, EvtWait(t)
      PROVE  NoLostSignal'
  <2>1. /\ pc[t] = "wait" /\ pc'[t] \in {"blocked", "run"} /\ UNCHANGED <<group, sig, todo>>
        /\ \A u \in Waiter \ {t} : pc'[u] = pc[u] /\ objs'[u] = objs[u] /\ idx'[u] = idx[u]
    BY <1>a, <1>7 DEF EvtWait, Finish, TypeOK
  <2>2. Obj(t) \in Event /\ cnt[Obj(t)] \in Nat
    BY <1>a, <2>1, ListOK DEF TypeOK
  <2>3. \A f \in Event : cnt'[f] > 0 => cnt[f] > 0
    BY <1>7, <1>c, <2>2 DEF EvtWait
  <2>4. Passed(t)' = {}
    BY <2>1 DEF Passed
  <2> QED
    BY <1>a, <1>b, <2>1, <2>3, <2>4, OnePassed
<1>8. ASSUME NEW t \in Waiter, EvtTimeout(t)
      PROVE  NoLostSignal'
  <2>1. /\ pc'[t] = "run" /\ UNCHANGED <<cnt, group, sig, todo>>
        /\ \A u \in Waiter \ {t} : pc'[u] = pc[u] /\ objs'[u] = objs[u] /\ idx'[u] = idx[u]
    BY <1>a, <1>8 DEF EvtTimeout, Finish, TypeOK
  <2>2. Passed(t)' = {}
    BY <2>1 DEF Passed
  <2> QED
    BY <1>a, <1>b, <2>1, <2>2, OnePassed
<1>9. ASSUME NEW t \in Waiter, Spurious(t)
      PROVE  NoLostSignal'
  <2>1. /\ UNCHANGED <<cnt, group, objs, idx, sig, todo>>
        /\ \A u \in Waiter \ {t} : pc'[u] = pc[u]
        /\ \/ pc[t] = "blocked" /\ pc'[t] = "wait"
           \/ pc[t] = "asleep" /\ pc'[t] = "groupwait"
    BY <1>a, <1>9 DEF Spurious, TypeOK
  <2>2. CASE pc[t] = "blocked" /\ pc'[t] = "wait"
    <3>1. Passed(t)' = {}
      BY <2>2 DEF Passed
    <3> QED
      BY <1>a, <1>b, <2>1, <3>1, OnePassed
  <2>3. CASE pc[t] = "asleep" /\ pc'[t] = "groupwait"
    <3>1. Passed(t)' = Passed(t)
      BY <2>1, <2>3 DEF Passed
    <3>2. \A e \in Passed(t) : cnt[e] > 0 => Coming(t, e)
      BY <1>a, <2>3 DEF NoLostSignal
    <3> QED
      BY <1>a, <1>b, <2>1, <3>1, <3>2, OnePassed
  <2> QED
    BY <2>1, <2>2, <2>3
<1>10. ASSUME NEW t \in Waiter, NEW e \in Event, EvtTest(t, e)
       PROVE  NoLostSignal'
  <2>1. pc[t] = "run" /\ UNCHANGED <<pc, objs, idx, group, sig, todo>>
    BY <1>10 DEF EvtTest
  <2>2. \A f \in Event : cnt'[f] > 0 => cnt[f] > 0
    BY <1>10, <1>c DEF EvtTest
  <2>3. Passed(t)' = {}
    BY <2>1 DEF Passed
  <2> QED
    BY <1>a, <1>b, <2>1, <2>2, <2>3, OnePassed
<1>11. ASSUME NEW t \in Waiter, NEW tm \in BOOLEAN,
              \/ \E e \in WaitOne : Wait(t, e, tm)
              \/ \E L \in WaitList : MultiWait(t, L, tm)
       PROVE  NoLostSignal'
  <2>1. /\ pc'[t] \in {"wait", "subscribe"} /\ UNCHANGED <<cnt, sig, todo>>
        /\ \A u \in Waiter \ {t} : /\ pc'[u] = pc[u] /\ objs'[u] = objs[u]
                                   /\ idx'[u] = idx[u] /\ group'[u] = group[u]
    BY <1>a, <1>11 DEF Wait, MultiWait, Call, TypeOK
  <2>2. Passed(t)' = {}
    BY <2>1 DEF Passed
  <2> QED
    BY <1>a, <1>b, <2>1, <2>2, OnePassed
<1>12. ASSUME NEW t \in Waiter, GroupTimeout(t) \/ Unsubscribe(t)
       PROVE  NoLostSignal'
  <2>1. /\ pc'[t] \in {"run", "unsubscribe"} /\ UNCHANGED <<cnt, group, sig, todo>>
        /\ \A u \in Waiter \ {t} : pc'[u] = pc[u] /\ objs'[u] = objs[u] /\ idx'[u] = idx[u]
    BY <1>a, <1>12 DEF GroupTimeout, Unsubscribe, Advance, Finish, TypeOK
  <2>2. Passed(t)' = {}
    BY <2>1 DEF Passed
  <2> QED
    BY <1>a, <1>b, <2>1, <2>2, OnePassed
<1>13. ASSUME NEW t \in Waiter, Subscribe(t)
       PROVE  NoLostSignal'
  <2>1. /\ pc[t] = "subscribe" /\ UNCHANGED <<cnt, objs, group, sig, todo>>
        /\ Advance(t, "scan")
    BY <1>13 DEF Subscribe
  <2>2. /\ \A u \in Waiter \ {t} : pc'[u] = pc[u] /\ idx'[u] = idx[u]
        /\ pc'[t] = "subscribe" \/ (pc'[t] = "scan" /\ idx'[t] = 1)
    BY <1>a, <2>1, AdvanceOK DEF Phase
  <2>3. Passed(t)' = {}
    BY <2>2 DEF Passed
  <2> QED
    BY <1>a, <1>b, <2>1, <2>2, <2>3, OnePassed
<1>14. ASSUME NEW t \in Waiter, GroupWait(t)
       PROVE  NoLostSignal'
  <2>1. /\ pc[t] = "groupwait" /\ idx[t] = 1 /\ UNCHANGED <<cnt, objs, idx, sig, todo>>
        /\ \A u \in Waiter \ {t} : pc'[u] = pc[u] /\ group'[u] = group[u]
    BY <1>a, <1>14 DEF GroupWait, CallOK, TypeOK
  <2>2. CASE group[t] > 0
    <3>1. pc'[t] = "scan"
      BY <1>a, <1>14, <2>2 DEF GroupWait, TypeOK
    <3>2. Passed(t)' = {}
      BY <2>1, <3>1 DEF Passed
    <3> QED
      BY <1>a, <1>b, <2>1, <3>2, OnePassed
  <2>3. CASE ~(group[t] > 0)
    <3>1. pc'[t] = "asleep"
      BY <1>a, <1>14, <2>3 DEF GroupWait, TypeOK
    <3>2. Passed(t)' = Passed(t)
      BY <2>1, <3>1 DEF Passed
    <3>3. \A e \in Passed(t) : cnt[e] > 0 => Coming(t, e)
      BY <1>a, <2>3 DEF NoLostSignal
    <3> QED
      BY <1>a, <1>b, <2>1, <3>2, <3>3, OnePassed
  <2> QED
    BY <2>2, <2>3
<1>15. ASSUME NEW t \in Waiter, GroupLate(t)
       PROVE  NoLostSignal'
  <2>1. /\ pc[t] = "asleep" /\ pc'[t] = "late"
        /\ UNCHANGED <<cnt, group, objs, idx, sig, todo>>
        /\ \A u \in Waiter \ {t} : pc'[u] = pc[u]
    BY <1>a, <1>15 DEF GroupLate, TypeOK
  <2>2. Passed(t)' = Passed(t)
    BY <2>1 DEF Passed
  <2>3. \A e \in Passed(t) : cnt[e] > 0 => Coming(t, e)
    BY <1>a, <2>1 DEF NoLostSignal
  <2> QED
    BY <1>a, <1>b, <2>1, <2>2, <2>3, OnePassed
<1>16. ASSUME NEW t \in Waiter, Scan(t)
       PROVE  NoLostSignal'
  <2>1. /\ pc[t] = "scan" /\ UNCHANGED <<objs, group, sig, todo>> /\ Obj(t) \in Event
        /\ DOMAIN objs[t] = 1 .. Len(objs[t]) /\ Len(objs[t]) \in Nat
        /\ idx[t] \in 1 .. Len(objs[t])
    BY <1>a, <1>16, ListOK DEF Scan
  <2>2. CASE cnt[Obj(t)] > 0
    <3>1. pc' = [pc EXCEPT ![t] = "unsubscribe"] /\ idx' = [idx EXCEPT ![t] = 1]
          /\ cnt' = Consume(Obj(t))
      BY <1>16, <2>2 DEF Scan
    <3>2. \A f \in Event : cnt'[f] > 0 => cnt[f] > 0
      BY <1>c, <2>1, <2>2, <3>1
    <3>3. \A u \in Waiter \ {t} : pc'[u] = pc[u] /\ idx'[u] = idx[u]
      BY <1>a, <3>1 DEF TypeOK
    <3>4. Passed(t)' = {}
      BY <1>a, <3>1 DEF Passed, TypeOK
    <3> QED
      BY <1>a, <1>b, <2>1, <3>2, <3>3, <3>4, OnePassed
  <2>3. CASE ~(cnt[Obj(t)] > 0)
    <3>1. Advance(t, "groupwait") /\ UNCHANGED cnt
      BY <1>16, <2>3 DEF Scan
    <3>2. /\ \A u \in Waiter \ {t} : pc'[u] = pc[u] /\ idx'[u] = idx[u]
          /\ \/ pc'[t] = "scan" /\ idx'[t] = idx[t] + 1
             \/ pc'[t] = "groupwait" /\ idx[t] = Len(objs[t])
      BY <1>a, <2>1, <3>1, AdvanceOK DEF Phase
    <3>3. Passed(t)' = Passed(t) \cup {Obj(t)}
      <4>1. Passed(t) = {objs[t][i] : i \in 1 .. idx[t] - 1}
        BY <2>1 DEF Passed
      <4>2. Passed(t)' = {objs[t][i] : i \in 1 .. idx[t]}
        <5>1. CASE pc'[t] = "scan" /\ idx'[t] = idx[t] + 1
          <6>1. Passed(t)' = {objs[t][i] : i \in 1 .. idx[t] + 1 - 1}
            BY <2>1, <5>1 DEF Passed
          <6>2. idx[t] + 1 - 1 = idx[t]
            BY <2>1
          <6> QED
            BY <6>1, <6>2
        <5>2. CASE pc'[t] = "groupwait" /\ idx[t] = Len(objs[t])
          BY <2>1, <5>2 DEF Passed, ToSet
        <5> QED
          BY <3>2, <5>1, <5>2
      <4>3. 1 .. idx[t] = (1 .. idx[t] - 1) \cup {idx[t]}
        BY <2>1
      <4> QED
        BY <4>1, <4>2, <4>3 DEF Obj
    <3>4. \A e \in Passed(t) : cnt[e] > 0 => group[t] > 0 \/ Coming(t, e)
      BY <1>a, <1>b DEF NoLostSignal
    <3>5. pc'[t] # "asleep"
      BY <3>2
    <3> QED
      BY <1>a, <1>b, <2>1, <2>3, <3>1, <3>2, <3>3, <3>4, <3>5, OnePassed
  <2> QED
    BY <2>2, <2>3
<1> QED
  BY <1>1, <1>2, <1>3, <1>4, <1>5, <1>6, <1>7, <1>8, <1>9, <1>10, <1>11, <1>12, <1>13,
     <1>14, <1>15, <1>16 DEF Next, SignalStep, Proceed, Expire, IInv, vars

-----------------------------------------------------------------------------
(* The invariant and what follows                                          *)

(* IInv is inductive.                                                      *)
LEMMA StepOK == IInv /\ [Next]_vars => IInv'
<1> SUFFICES ASSUME IInv, [Next]_vars
             PROVE  IInv'
  OBVIOUS
<1>1. TypeOK' /\ CallOK'
  BY CallStep DEF IInv
<1>2. SignalOK'
  BY SignalerStep DEF IInv
<1>3. \A e \in Event, u \in Waiter :
        u \in subs'[e] <=> \E i \in Subscribed(u)' : objs'[u][i] = e
  BY SubsStep DEF IInv
<1>4. \A s \in Signaler : sig'[s] # Idle => todo'[s] \subseteq subs'[sig'[s]]
  BY TodoStep DEF IInv
<1>5. NoLostSignal'
  BY LostStep
<1> QED
  BY <1>1, <1>2, <1>3, <1>4, <1>5 DEF IInv, SubsOK

(* The invariant holds in every reachable state.                           *)
THEOREM Invariance == Spec => []IInv
BY InitOK, StepOK, PTL DEF Spec

(* The variables of the events and of every wait stay within their types.  *)
THEOREM TypeCorrect == Spec => []TypeOK
<1>1. IInv => TypeOK
  BY DEF IInv
<1> QED
  BY Invariance, <1>1, PTL

(* multi_wait never sleeps through a signal, whatever the threads do       *)
(* between its test of an event and the end of its wait.                   *)
THEOREM SignalsKept == Spec => []NoLostSignal
<1>1. IInv => NoLostSignal
  BY DEF IInv
<1> QED
  BY Invariance, <1>1, PTL

(* No event has a link to the group event of a call that is over, and no   *)
(* signal is on its way to one.                                            *)
THEOREM GroupEventsAlive == Spec => []GroupEventAlive
<1>1. IInv => GroupEventAlive
  <2> SUFFICES ASSUME IInv
               PROVE  GroupEventAlive
    OBVIOUS
  <2>1. \A e \in Event : subs[e] \subseteq Waiter
    BY DEF IInv, TypeOK
  <2>2. \A s \in Signaler : \A t \in todo[s] :
          sig[s] \in Event /\ t \in Waiter /\ t \in subs[sig[s]]
    BY EventAssumption, Holding DEF IInv, SubsOK
  <2> QED
    BY <2>1, <2>2 DEF IInv, SubsOK, GroupEventAlive
<1> QED
  BY Invariance, <1>1, PTL

-----------------------------------------------------------------------------
(* Threads asleep on an auto-reset event                                   *)

\* The signals under way, and the threads awake, that EnoughWakeups counts.
Signaling(e) == {s \in Signaler : sig[s] = e}
Awake(e) == {t \in Waiter : pc[t] = "wait" /\ objs[t] = <<e>>}
Woken(e) == Blocked(e) # {} => cnt[e] <= Cardinality(Signaling(e)) + Cardinality(Awake(e))

(* Both sets are finite, so their sizes are numbers.                       *)
LEMMA Sizes ==
  ASSUME NEW e
  PROVE  /\ IsFiniteSet(Signaling(e)) /\ Cardinality(Signaling(e)) \in Nat
         /\ IsFiniteSet(Awake(e)) /\ Cardinality(Awake(e)) \in Nat
<1>1. Signaling(e) \subseteq Signaler /\ Awake(e) \subseteq Waiter
  BY DEF Signaling, Awake
<1> QED
  BY <1>1, EventAssumption, FS_Subset, FS_CardinalityType

(* The same holds of them in the next state.                               *)
LEMMA NextSizes ==
  ASSUME NEW e
  PROVE  /\ IsFiniteSet(Signaling(e)') /\ Cardinality(Signaling(e)') \in Nat
         /\ IsFiniteSet(Awake(e)') /\ Cardinality(Awake(e)') \in Nat
<1>1. Signaling(e)' \subseteq Signaler /\ Awake(e)' \subseteq Waiter
  BY DEF Signaling, Awake
<1> QED
  BY <1>1, EventAssumption, FS_Subset, FS_CardinalityType

(* A step that takes no signaler away and puts nobody to sleep while the   *)
(* event is up leaves enough wake-ups.                                     *)
LEMMA StillWoken ==
  ASSUME TypeOK, TypeOK', NEW e \in Event, Woken(e),
         cnt'[e] <= cnt[e], Signaling(e) \subseteq Signaling(e)', Awake(e) \subseteq Awake(e)',
         Blocked(e)' # {} => Blocked(e) # {} \/ cnt'[e] = 0
  PROVE  Woken(e)'
<1>1. /\ Cardinality(Signaling(e)) <= Cardinality(Signaling(e)')
      /\ Cardinality(Awake(e)) <= Cardinality(Awake(e)')
  BY NextSizes, FS_Subset
<1>2. cnt[e] \in Nat /\ cnt'[e] \in Nat
  BY DEF TypeOK
<1> QED
  BY <1>1, <1>2, Sizes, NextSizes DEF Woken

(* A step that changes no count and none of the three sets.                *)
LEMMA SameWoken ==
  ASSUME UNCHANGED <<cnt, sig, pc, objs>>, NEW e, Woken(e)
  PROVE  Woken(e)'
BY DEF Woken, Blocked, Signaling, Awake

(* A step of a waiter other than evt_wait.                                 *)
LEMMA WaiterWoken ==
  ASSUME TypeOK, TypeOK', NEW e \in Event, Woken(e), NEW t \in Waiter, UNCHANGED sig,
         \A u \in Waiter \ {t} : pc'[u] = pc[u] /\ objs'[u] = objs[u],
         pc[t] # "wait", pc'[t] # "blocked", cnt'[e] <= cnt[e]
  PROVE  Woken(e)'
<1>1. Signaling(e)' = Signaling(e) /\ Awake(e) \subseteq Awake(e)' /\ Blocked(e)' \subseteq Blocked(e)
  BY DEF Signaling, Awake, Blocked
<1> QED
  BY <1>1, StillWoken

(* Every step leaves enough wake-ups.                                      *)
LEMMA WokenStep ==
  ASSUME IInv, IInv', [Next]_vars, NEW e \in Event \ ManualReset, Woken(e)
  PROVE  Woken(e)'
<1> USE EventAssumption DEF eventVars, waiterVars, signalVars
<1>a. TypeOK /\ CallOK /\ SignalOK /\ TypeOK'
  BY DEF IInv
<1>b. cnt[e] \in Nat /\ \A f \in Event : cnt[f] > 0 => Consume(f)[e] <= cnt[e]
  BY <1>a DEF TypeOK, Consume
<1>1. CASE UNCHANGED vars
  BY <1>1, SameWoken DEF vars
<1>2. ASSUME NEW s \in Signaler, SignalSub(s)
      PROVE  Woken(e)'
  <2>1. UNCHANGED <<cnt, sig, objs>>
        /\ \A u \in Waiter : pc[u] \in {"wait", "blocked"} \/ pc'[u] \in {"wait", "blocked"}
                               => pc'[u] = pc[u]
    BY <1>a, <1>2 DEF SignalSub, TypeOK
  <2>2. Signaling(e)' = Signaling(e) /\ Awake(e)' = Awake(e) /\ Blocked(e)' = Blocked(e)
    BY <2>1 DEF Signaling, Awake, Blocked
  <2> QED
    BY <1>a, <1>b, <2>1, <2>2, StillWoken
<1>3. ASSUME NEW s \in Signaler, SignalUnlock(s)
      PROVE  Woken(e)'
  BY <1>3, SameWoken DEF SignalUnlock
<1>4. ASSUME NEW s \in Signaler, NEW f \in Event, SignalLock(s, f)
      PROVE  Woken(e)'
  <2>1. /\ sig[s] = Idle /\ sig' = [sig EXCEPT ![s] = f] /\ UNCHANGED <<pc, objs>>
        /\ cnt' = [cnt EXCEPT ![f] = @ + 1]
    BY <1>4 DEF SignalLock
  <2>2. Awake(e)' = Awake(e) /\ Blocked(e)' = Blocked(e)
    BY <2>1 DEF Awake, Blocked
  <2>3. CASE f = e
    <3>1. s \notin Signaling(e) /\ Signaling(e)' = Signaling(e) \cup {s}
      BY <1>a, <2>1, <2>3 DEF Signaling, TypeOK
    <3>2. Cardinality(Signaling(e)') = Cardinality(Signaling(e)) + 1
      BY <3>1, Sizes, FS_AddElement
    <3>3. cnt'[e] = cnt[e] + 1
      BY <1>a, <2>1, <2>3 DEF TypeOK
    <3> QED
      BY <1>b, <2>2, <3>2, <3>3, Sizes DEF Woken
  <2>4. CASE f # e
    <3>1. Signaling(e)' = Signaling(e) /\ cnt'[e] = cnt[e]
      BY <1>a, <2>1, <2>4 DEF Signaling, TypeOK
    <3> QED
      BY <1>a, <1>b, <2>2, <3>1, StillWoken
  <2> QED
    BY <2>3, <2>4
<1>5. ASSUME NEW s \in Signaler, NEW f \in Event, Reset(s, f)
      PROVE  Woken(e)'
  <2>1. cnt'[e] = cnt[e] /\ UNCHANGED <<sig, pc, objs>>
    BY <1>a, <1>5 DEF Reset, TypeOK
  <2> QED
    BY <2>1 DEF Woken, Blocked, Signaling, Awake
<1>6. ASSUME NEW s \in Signaler, CondSignal(s)
      PROVE  Woken(e)'
  <2>1. s \in waking /\ sig' = [sig EXCEPT ![s] = Idle] /\ UNCHANGED <<cnt, objs>>
        /\ sig[s] \in Event
    BY <1>a, <1>6 DEF CondSignal, SignalOK, TypeOK
  <2>2. CASE sig[s] # e
    <3>1. Signaling(e)' = Signaling(e)
      BY <1>a, <2>1, <2>2 DEF Signaling, TypeOK
    <3>2. Awake(e) \subseteq Awake(e)' /\ Blocked(e)' \subseteq Blocked(e)
      BY <1>a, <1>6, <2>1 DEF CondSignal, Awake, Blocked, TypeOK
    <3> QED
      BY <1>a, <1>b, <2>1, <3>1, <3>2, StillWoken
  <2>3. CASE sig[s] = e /\ Blocked(e) = {}
    <3>1. Blocked(e)' = {}
      BY <1>6, <2>1, <2>3 DEF CondSignal, Blocked
    <3> QED
      BY <3>1 DEF Woken
  <2>4. CASE sig[s] = e /\ Blocked(e) # {}
    <3>1. PICK t \in Blocked(e) : pc' = [pc EXCEPT ![t] = "wait"]
      BY <1>6, <2>4 DEF CondSignal
    <3>2. t \in Waiter /\ t \notin Awake(e) /\ Awake(e)' = Awake(e) \cup {t}
      BY <1>a, <2>1, <3>1 DEF Blocked, Awake, TypeOK
    <3>3. Cardinality(Awake(e)') = Cardinality(Awake(e)) + 1
      BY <3>2, Sizes, FS_AddElement
    <3>4. s \in Signaling(e) /\ Signaling(e)' = Signaling(e) \ {s}
      BY <1>a, <2>1, <2>4 DEF Signaling, TypeOK
    <3>5. Cardinality(Signaling(e)') = Cardinality(Signaling(e)) - 1
      BY <3>4, Sizes, FS_RemoveElement
    <3> QED
      BY <1>b, <2>1, <2>4, <3>3, <3>5, Sizes DEF Woken
  <2> QED
    BY <2>2, <2>3, <2>4
<1>7. ASSUME NEW t \in Waiter, EvtWait(t)
      PROVE  Woken(e)'
  <2>1. pc[t] = "wait" /\ objs[t] = <<Obj(t)>> /\ Obj(t) \in Event /\ cnt[Obj(t)] \in Nat
        /\ UNCHANGED sig
        /\ \A u \in Waiter \ {t} : pc'[u] = pc[u] /\ objs'[u] = objs[u]
    <3>1. pc[t] = "wait" /\ UNCHANGED sig
          /\ \A u \in Waiter \ {t} : pc'[u] = pc[u] /\ objs'[u] = objs[u]
      BY <1>a, <1>7 DEF EvtWait, Finish, TypeOK
    <3>2. Obj(t) \in Event /\ cnt[Obj(t)] \in Nat
      BY <1>a, <3>1, ListOK DEF TypeOK
    <3>3. PICK f \in WaitOne : objs[t] = <<f>>
      BY <1>a, <3>1 DEF CallOK
    <3>4. idx[t] = 1
      BY <1>a, <3>1, <3>3 DEF CallOK
    <3> QED
      BY <3>1, <3>2, <3>3, <3>4 DEF Obj
  <2>2. Signaling(e)' = Signaling(e)
    BY <2>1 DEF Signaling
  <2>3. CASE cnt[Obj(t)] <= 0
    <3>1. pc' = [pc EXCEPT ![t] = "blocked"] /\ UNCHANGED <<cnt, objs>> /\ cnt[Obj(t)] = 0
      BY <1>7, <2>1, <2>3 DEF EvtWait
    <3>2. CASE Obj(t) = e
      BY <3>1, <3>2, Sizes, NextSizes DEF Woken
    <3>3. CASE Obj(t) # e
      <4>1. objs[t] # <<e>>
        BY <2>1, <3>3
      <4>2. Awake(e)' = Awake(e) /\ Blocked(e)' = Blocked(e)
        BY <1>a, <2>1, <3>1, <4>1 DEF Awake, Blocked, TypeOK
      <4> QED
        BY <1>a, <1>b, <2>2, <3>1, <4>2, StillWoken
    <3> QED
      BY <3>2, <3>3
  <2>4. CASE ~(cnt[Obj(t)] <= 0)
    <3>1. cnt[Obj(t)] > 0 /\ cnt' = Consume(Obj(t)) /\ pc'[t] = "run"
      BY <1>a, <1>7, <2>1, <2>4 DEF EvtWait, Finish, TypeOK
    <3>2. Blocked(e)' = Blocked(e)
      BY <2>1, <3>1 DEF Blocked
    <3>3. CASE Obj(t) = e
      <4>1. t \in Awake(e) /\ Awake(e)' = Awake(e) \ {t}
        BY <2>1, <3>1, <3>3 DEF Awake
      <4>2. Cardinality(Awake(e)') = Cardinality(Awake(e)) - 1
        BY <4>1, Sizes, FS_RemoveElement
      <4>3. cnt'[e] = cnt[e] - 1
        BY <1>a, <3>1, <3>3 DEF Consume, TypeOK
      <4> QED
        BY <1>b, <2>2, <3>2, <4>2, <4>3, Sizes DEF Woken
    <3>4. CASE Obj(t) # e
      <4>1. objs[t] # <<e>>
        BY <2>1, <3>4
      <4>2. Awake(e)' = Awake(e)
        BY <2>1, <3>1, <4>1 DEF Awake
      <4> QED
        BY <1>a, <1>b, <2>1, <2>2, <3>1, <3>2, <4>2, StillWoken
    <3> QED
      BY <3>3, <3>4
  <2> QED
    BY <2>3, <2>4
<1>8. ASSUME NEW t \in Waiter,
             Subscribe(t) \/ GroupWait(t) \/ Unsubscribe(t) \/ Expire(t) \/ Spurious(t)
      PROVE  Woken(e)'
  <2>1. UNCHANGED <<cnt, sig>> /\ pc[t] # "wait" /\ pc'[t] # "blocked"
        /\ \A u \in Waiter \ {t} : pc'[u] = pc[u] /\ objs'[u] = objs[u]
    <3>1. CASE Subscribe(t)
      BY <1>a, <3>1 DEF Subscribe, Advance, TypeOK
    <3>2. CASE Unsubscribe(t)
      BY <1>a, <3>2 DEF Unsubscribe, Advance, Finish, TypeOK
    <3>3. CASE GroupWait(t) \/ Spurious(t)
      BY <1>a, <3>3 DEF GroupWait, Spurious, TypeOK
    <3>4. CASE Expire(t)
      BY <1>a, <3>4 DEF Expire, EvtTimeout, GroupTimeout, GroupLate, Finish, TypeOK
    <3> QED
      BY <1>8, <3>1, <3>2, <3>3, <3>4
  <2> QED
    BY <1>a, <1>b, <2>1, WaiterWoken
<1>9. ASSUME NEW t \in Waiter, Scan(t)
      PROVE  Woken(e)'
  <2>1. UNCHANGED sig /\ pc[t] # "wait" /\ pc'[t] # "blocked"
        /\ \A u \in Waiter \ {t} : pc'[u] = pc[u] /\ objs'[u] = objs[u]
    BY <1>a, <1>9 DEF Scan, Advance, TypeOK
  <2>2. Obj(t) \in Event
    BY <1>9, <1>a, ListOK DEF Scan
  <2>3. cnt'[e] <= cnt[e]
    BY <1>b, <1>9, <2>2 DEF Scan
  <2> QED
    BY <1>a, <2>1, <2>3, WaiterWoken
<1>10. ASSUME NEW t \in Waiter, NEW f \in Event, EvtTest(t, f)
       PROVE  Woken(e)'
  <2>1. UNCHANGED <<sig, pc, objs>> /\ pc[t] = "run"
    BY <1>10 DEF EvtTest
  <2>2. cnt'[e] <= cnt[e]
    BY <1>b, <1>10 DEF EvtTest
  <2> QED
    BY <1>a, <2>1, <2>2, WaiterWoken
<1>11. ASSUME NEW t \in Waiter, NEW tm \in BOOLEAN,
              \/ \E f \in WaitOne : Wait(t, f, tm)
              \/ \E L \in WaitList : MultiWait(t, L, tm)
       PROVE  Woken(e)'
  <2>1. UNCHANGED <<cnt, sig>> /\ pc[t] # "wait" /\ pc'[t] # "blocked"
        /\ \A u \in Waiter \ {t} : pc'[u] = pc[u] /\ objs'[u] = objs[u]
    BY <1>a, <1>11 DEF Wait, MultiWait, Call, TypeOK
  <2> QED
    BY <1>a, <1>b, <2>1, WaiterWoken
<1>12. ASSUME NEW t \in Waiter, Proceed(t) \/ Expire(t) \/ Spurious(t)
       PROVE  Woken(e)'
  BY <1>7, <1>8, <1>9, <1>12 DEF Proceed
<1>13. ASSUME NEW s \in Signaler, SignalStep(s)
       PROVE  Woken(e)'
  BY <1>2, <1>3, <1>6, <1>13 DEF SignalStep
<1> QED
  BY <1>1, <1>4, <1>5, <1>10, <1>11, <1>12, <1>13 DEF Next

(* As long as a thread sleeps on an auto-reset event that is up, as many   *)
(* wake-ups are on their way as there are signals to consume.              *)
THEOREM WakeupsSuffice == Spec => []EnoughWakeups
<1>1. Init => EnoughWakeups
  BY EventAssumption DEF Init, EnoughWakeups, Blocked
<1>2. IInv /\ IInv' /\ EnoughWakeups /\ [Next]_vars => EnoughWakeups'
  BY WokenStep DEF EnoughWakeups, Woken, Signaling, Awake
<1> QED
  BY Invariance, <1>1, <1>2, PTL DEF Spec

-----------------------------------------------------------------------------
(* The events keep what EventSpec promises                                 *)

\* The events each thread waits for, as its callers see it: what EventSpec
\* calls waiting.
Quiet(t) == pc[t] \in {"run", "unsubscribe"}
Waits == [t \in Waiter |-> IF Quiet(t) THEN {} ELSE ToSet(objs[t])]

(* A step that begins and ends no wait is a stutter, if it changes neither *)
(* counts nor results.                                                     *)
LEMMA StutterOK ==
  ASSUME UNCHANGED <<cnt, ret>>,
         \A u \in Waiter : /\ Quiet(u)' <=> Quiet(u)
                           /\ ~Quiet(u) => objs'[u] = objs[u]
  PROVE  UNCHANGED Abstract!specVars
<1>1. Waits' = Waits
  BY DEF Waits, ToSet
<1> QED
  BY <1>1 DEF Abstract!specVars, Waits, Quiet

(* When one thread moves, the waits of the others go on.                   *)
LEMMA OthersWait ==
  ASSUME NEW t \in Waiter,
         \A u \in Waiter \ {t} : pc'[u] = pc[u] /\ objs'[u] = objs[u]
  PROVE  /\ Quiet(t)' => Waits' = [Waits EXCEPT ![t] = {}]
         /\ ~Quiet(t)' => Waits' = [Waits EXCEPT ![t] = ToSet(objs'[t])]
BY DEF Waits, Quiet, ToSet

(* A thread in a wait waits for its present object, among others.          *)
LEMMA PresentObject ==
  ASSUME TypeOK, CallOK, NEW t \in Waiter, ~Quiet(t)
  PROVE  Waits[t] = ToSet(objs[t]) /\ Obj(t) \in Waits[t] /\ Obj(t) \in Event
<1>1. Obj(t) \in Event /\ idx[t] \in DOMAIN objs[t]
  BY ListOK DEF CallOK, Quiet
<1> QED
  BY <1>1 DEF Waits, ToSet, Obj

(* Every step of the events is a step of EventSpec or a stutter.           *)
LEMMA StepRefines ==
  ASSUME IInv, [Next]_vars
  PROVE  [Abstract!Next]_(Abstract!specVars)
<1> USE EventAssumption DEF eventVars, waiterVars, signalVars
<1>a. TypeOK /\ CallOK
  BY DEF IInv
<1>1. CASE UNCHANGED vars
  BY <1>1, StutterOK DEF vars, Quiet
<1>2. ASSUME NEW s \in Signaler, NEW e \in Event, SignalLock(s, e)
      PROVE  Abstract!Signal(e)
  BY <1>2 DEF SignalLock, Abstract!Signal
<1>3. ASSUME NEW s \in Signaler, NEW e \in Event, Reset(s, e)
      PROVE  Abstract!Reset(e)
  BY <1>3 DEF Reset, Abstract!Reset
<1>4. ASSUME NEW s \in Signaler, SignalStep(s)
      PROVE  UNCHANGED Abstract!specVars
  <2>1. CASE SignalSub(s) \/ SignalUnlock(s)
    BY <1>a, <2>1, StutterOK DEF SignalSub, SignalUnlock, Quiet, TypeOK
  <2>2. CASE CondSignal(s)
    BY <1>a, <2>2, StutterOK DEF CondSignal, Blocked, Quiet, TypeOK
  <2> QED
    BY <1>4, <2>1, <2>2 DEF SignalStep
<1>5. ASSUME NEW t \in Waiter, NEW e \in Event, EvtTest(t, e)
      PROVE  Abstract!Test(t, e)
  <2>1. Waits[t] = {} /\ Waits' = Waits
    BY <1>5 DEF EvtTest, Waits, Quiet
  <2> QED
    BY <1>5, <2>1 DEF EvtTest, Waits, Quiet, Consume, Abstract!Test, Abstract!Taken
<1>6. ASSUME NEW t \in Waiter, NEW tm \in BOOLEAN,
             \/ \E e \in WaitOne : Wait(t, e, tm)
             \/ \E L \in WaitList : MultiWait(t, L, tm)
      PROVE  Abstract!Wait(t)
  <2>1. PICK L : /\ L \in Seq(Event) /\ L # <<>>
                 /\ Call(t, "wait", L, tm) \/ Call(t, "subscribe", L, tm)
    <3>1. ASSUME NEW e \in WaitOne, Wait(t, e, tm)
          PROVE  <<e>> \in Seq(Event) /\ <<e>> # <<>> /\ Call(t, "wait", <<e>>, tm)
      BY <3>1 DEF Wait
    <3>2. ASSUME NEW L \in WaitList, MultiWait(t, L, tm)
          PROVE  L \in Seq(Event) /\ L # <<>> /\ Call(t, "subscribe", L, tm)
      BY <3>2 DEF MultiWait
    <3> QED
      BY <1>6, <3>1, <3>2
  <2>2. Quiet(t) /\ ~Quiet(t)' /\ objs'[t] = L /\ UNCHANGED <<cnt, ret>>
        /\ \A u \in Waiter \ {t} : pc'[u] = pc[u] /\ objs'[u] = objs[u]
    BY <1>a, <2>1 DEF Call, Quiet, TypeOK
  <2>3. Waits' = [Waits EXCEPT ![t] = ToSet(L)] /\ Waits[t] = {}
    BY <2>2, OthersWait DEF Waits
  <2>4. ToSet(L) \in (SUBSET Event) \ {{}}
    <3>1. Len(L) \in Nat \ {0} /\ DOMAIN L = 1 .. Len(L)
      BY <2>1
    <3>2. \A i \in DOMAIN L : L[i] \in Event
      BY <2>1
    <3>3. L[1] \in ToSet(L)
      BY <3>1 DEF ToSet
    <3>4. ToSet(L) \subseteq Event
      BY <3>2 DEF ToSet
    <3>5. ToSet(L) # {}
      BY <3>3
    <3> QED
      BY <3>4, <3>5
  <2> QED
    BY <2>2, <2>3, <2>4 DEF Waits, Quiet, Abstract!Wait
<1>7. ASSUME NEW t \in Waiter, Subscribe(t) \/ GroupWait(t) \/ Unsubscribe(t) \/ Spurious(t)
      PROVE  UNCHANGED Abstract!specVars
  <2>1. CASE Subscribe(t)
    BY <1>a, <2>1, StutterOK DEF Subscribe, Advance, Quiet, TypeOK
  <2>2. CASE GroupWait(t) \/ Spurious(t)
    BY <1>a, <2>2, StutterOK DEF GroupWait, Spurious, Quiet, TypeOK
  <2>3. CASE Unsubscribe(t)
    BY <1>a, <2>3, StutterOK DEF Unsubscribe, Advance, Finish, Quiet, TypeOK
  <2> QED
    BY <1>7, <2>1, <2>2, <2>3
<1>8. ASSUME NEW t \in Waiter, EvtWait(t) \/ Scan(t)
      PROVE  (\E e \in Event : Abstract!Fire(t, e)) \/ UNCHANGED Abstract!specVars
  <2>1. ~Quiet(t)
    BY <1>8 DEF EvtWait, Scan, Quiet
  <2>2. CASE cnt[Obj(t)] <= 0
    <3>1. cnt[Obj(t)] \in Nat
      BY <1>a, <2>1, PresentObject DEF TypeOK
    <3> QED
      BY <1>a, <1>8, <2>2, <3>1, StutterOK DEF EvtWait, Scan, Advance, Quiet, TypeOK
  <2>3. CASE ~(cnt[Obj(t)] <= 0)
    <3>0. cnt[Obj(t)] \in Nat
      BY <1>a, <2>1, PresentObject DEF TypeOK
    <3>1. cnt[Obj(t)] > 0
      BY <2>3, <3>0
    <3>2. Quiet(t)' /\ cnt' = Consume(Obj(t)) /\ ret' = [ret EXCEPT ![t] = Obj(t)]
          /\ \A u \in Waiter \ {t} : pc'[u] = pc[u] /\ objs'[u] = objs[u]
      BY <1>a, <1>8, <2>3, <3>1 DEF EvtWait, Scan, Finish, Quiet, TypeOK
    <3>3. Waits' = [Waits EXCEPT ![t] = {}]
      BY <3>2, OthersWait
    <3>4. Obj(t) \in Event /\ Obj(t) \in Waits[t]
      BY <1>a, <2>1, PresentObject
    <3>5. PICK e \in Event : e = Obj(t)
      BY <3>4
    <3>6. Abstract!Fire(t, e)
      BY <3>1, <3>2, <3>3, <3>4, <3>5
      DEF Waits, Quiet, Consume, Abstract!Fire, Abstract!Taken
    <3> QED
      BY <3>6
  <2> QED
    BY <2>2, <2>3
<1>9. ASSUME NEW t \in Waiter, EvtTimeout(t) \/ GroupTimeout(t)
      PROVE  Abstract!Expire(t)
  <2>1. ~Quiet(t) /\ Quiet(t)' /\ UNCHANGED cnt /\ ret' = [ret EXCEPT ![t] = Idle]
        /\ \A u \in Waiter \ {t} : pc'[u] = pc[u] /\ objs'[u] = objs[u]
    BY <1>a, <1>9 DEF EvtTimeout, GroupTimeout, Finish, Quiet, TypeOK
  <2>2. Waits' = [Waits EXCEPT ![t] = {}]
    BY <2>1, OthersWait
  <2>3. Waits[t] # {}
    BY <1>a, <2>1, PresentObject
  <2> QED
    BY <2>1, <2>2, <2>3 DEF Waits, Quiet, Abstract!Expire
<1>10. ASSUME NEW t \in Waiter, Proceed(t)
       PROVE  (\E e \in Event : Abstract!Fire(t, e)) \/ UNCHANGED Abstract!specVars
  BY <1>7, <1>8, <1>10 DEF Proceed
<1>11. ASSUME NEW t \in Waiter, GroupLate(t)
       PROVE  UNCHANGED Abstract!specVars
  <2>1. /\ ~Quiet(t) /\ ~Quiet(t)' /\ UNCHANGED <<cnt, ret, objs>>
        /\ \A u \in Waiter \ {t} : pc'[u] = pc[u] /\ objs'[u] = objs[u]
    BY <1>a, <1>11 DEF GroupLate, Quiet, TypeOK
  <2> QED
    BY <2>1 DEF Waits, Quiet, Abstract!specVars
<1> QED
  BY <1>1, <1>2, <1>3, <1>4, <1>5, <1>6, <1>7, <1>9, <1>10, <1>11
  DEF Next, Expire, Abstract!Next

(* The events implement EventSpec: a wait ends with an event that is up at *)
(* that moment, or with a timeout, and an auto-reset event that ends a     *)
(* wait is taken from its count.                                           *)
THEOREM Implements == Spec => ImplementsEvents
<1>1. Init => Abstract!Init
  BY DEF Init, Abstract!Init
<1>2. IInv /\ [Next]_vars => [Abstract!Next]_(Abstract!specVars)
  BY StepRefines
<1> QED
  BY Invariance, <1>1, <1>2, PTL DEF Spec, ImplementsEvents, Abstract!Spec
=============================================================================
