------------------------------ MODULE OsEvent ------------------------------
(* Event objects on POSIX threads (tads3/unix/osnetunix.h, osnetunix.cpp): *)
(* a count under a mutex, a condition variable for threads that wait for   *)
(* one event, and subscribers - the group events of threads that wait for  *)
(* several - that every signal passes on to.                               *)
(*                                                                         *)
(* A step is what a thread does under one lock of an event's mutex, except *)
(* in signal(), which keeps the mutex while it signals each subscriber and *)
(* sets the condition after it has let go.  A group event has one waiter,  *)
(* the thread on whose stack it lives, and no subscribers; it is named by  *)
(* that thread, and signaling it is one step.                              *)
EXTENDS Integers, Sequences, SequencesExt, FiniteSets

CONSTANTS
  Event,          \* the event objects
  ManualReset,    \* those made with manual_reset = TRUE
  Waiter,         \* the threads that wait
  Signaler,       \* the threads that signal and reset
  WaitList,       \* the lists of events multi_wait is called with
  WaitOne,        \* the events waited for with OS_Waitable::wait
  Interrupted,    \* threads whose errno was left at EINTR by an earlier call
  MaxCount,       \* bound on the signal count of each event
  MaxGroup,       \* no signal starts while a group event it goes to has this count
  Idle, NoThread  \* no event; no thread

ASSUME EventAssumption ==
  /\ ManualReset \subseteq Event /\ WaitOne \subseteq Event
  /\ \A L \in WaitList : L \in Seq(Event) /\ L # <<>> /\ IsInjective(L)
  /\ Interrupted \subseteq Waiter
  /\ Waiter \cap Signaler = {} /\ IsFiniteSet(Waiter) /\ IsFiniteSet(Signaler)
  /\ MaxCount \in [Event -> Nat \ {0}] /\ MaxGroup \in Nat \ {0}
  /\ Idle \notin Event /\ NoThread \notin Signaler

\* Where a waiter is.  The return value of a wait is an event, or Idle for
\* OSWAIT_TIMEOUT; test() returns one or the other as well.
Phase == {"run",        \* not in a call
          "wait",       \* evt_wait: about to look at the count
          "blocked",    \* evt_wait: asleep in pthread_cond_wait
          "subscribe", "scan",      \* multi_wait
          "groupwait", "asleep",    \* multi_wait: group_evt.evt_wait
          "late",       \* the same, in its loop after the deadline
          "unsubscribe"}

VARIABLES
  cnt,      \* the signal counts
  mutex,    \* the signaler that holds the event's mutex, or NoThread
  subs,     \* sub_head ... sub_tail, as a set: whose group events are subscribed
  group,    \* the signal count of each waiter's group_evt
  pc, objs, idx, timed, ret,      \* a waiter's call: phase, list, i, timeout, value
  sig,      \* the event a signaler is in signal() of, or Idle
  todo,     \* the subscribers it has yet to pass the signal to
  waking    \* signalers between pthread_mutex_unlock and pthread_cond_signal

eventVars == <<cnt, mutex, subs>>
waiterVars == <<pc, objs, idx, timed, ret>>
signalVars == <<sig, todo, waking>>
vars == <<eventVars, group, waiterVars, signalVars>>

Free(e) == mutex[e] = NoThread
Obj(t) == objs[t][idx[t]]

Init ==
  /\ cnt = [e \in Event |-> 0]
  /\ mutex = [e \in Event |-> NoThread]
  /\ subs = [e \in Event |-> {}]
  /\ group = [t \in Waiter |-> 0]
  /\ pc = [t \in Waiter |-> "run"]
  /\ objs = [t \in Waiter |-> <<>>]
  /\ idx = [t \in Waiter |-> 0]
  /\ timed = [t \in Waiter |-> FALSE]
  /\ ret = [t \in Waiter |-> Idle]
  /\ sig = [s \in Signaler |-> Idle]
  /\ todo = [s \in Signaler |-> {}]
  /\ waking = {}

-----------------------------------------------------------------------------
(* signal() and reset()                                                    *)

SignalLock(s, e) ==
  /\ sig[s] = Idle /\ Free(e)
  /\ cnt[e] < MaxCount[e] /\ \A t \in subs[e] : group[t] < MaxGroup
  /\ sig' = [sig EXCEPT ![s] = e]
  /\ mutex' = [mutex EXCEPT ![e] = s]
  /\ cnt' = [cnt EXCEPT ![e] = @ + 1]
  /\ todo' = [todo EXCEPT ![s] = subs[e]]
  /\ UNCHANGED <<subs, group, waiterVars, waking>>

\* One call of s->e->signal(): it counts, and wakes the thread if it sleeps.
SignalSub(s) ==
  /\ \E t \in todo[s] :
       /\ group' = [group EXCEPT ![t] = @ + 1]
       /\ pc' = [pc EXCEPT ![t] = IF @ = "asleep" THEN "groupwait" ELSE @]
       /\ todo' = [todo EXCEPT ![s] = @ \ {t}]
  /\ UNCHANGED <<eventVars, objs, idx, timed, ret, sig, waking>>

SignalUnlock(s) ==
  /\ sig[s] # Idle /\ todo[s] = {} /\ s \notin waking
  /\ mutex' = [mutex EXCEPT ![sig[s]] = NoThread]
  /\ waking' = waking \cup {s}
  /\ UNCHANGED <<cnt, subs, group, waiterVars, sig, todo>>

\* Threads asleep in evt_wait of this event.
Blocked(e) == {t \in Waiter : pc[t] = "blocked" /\ objs[t] = <<e>>}

\* mutant of CondSignal: the condition is not set at all.
CondSignalNone(s) ==
  /\ s \in waking
  /\ waking' = waking \ {s}
  /\ sig' = [sig EXCEPT ![s] = Idle]
  /\ UNCHANGED <<eventVars, group, waiterVars, todo>>

\* pthread_cond_signal wakes one thread, whatever kind of event it is.
CondSignal(s) ==
  /\ s \in waking
  /\ \/ Blocked(sig[s]) = {} /\ UNCHANGED pc
     \/ \E t \in Blocked(sig[s]) : pc' = [pc EXCEPT ![t] = "wait"]
  /\ waking' = waking \ {s}
  /\ sig' = [sig EXCEPT ![s] = Idle]
  /\ UNCHANGED <<eventVars, group, objs, idx, timed, ret, todo>>

Reset(s, e) ==
  /\ sig[s] = Idle /\ Free(e) /\ e \in ManualReset /\ cnt[e] > 0
  /\ cnt' = [cnt EXCEPT ![e] = 0]
  /\ UNCHANGED <<mutex, subs, group, waiterVars, signalVars>>

-----------------------------------------------------------------------------
(* wait(), test()                                                          *)

Consume(e) == IF e \in ManualReset THEN cnt ELSE [cnt EXCEPT ![e] = @ - 1]

Call(t, where, L, tm) ==
  /\ pc[t] = "run"
  /\ pc' = [pc EXCEPT ![t] = where]
  /\ objs' = [objs EXCEPT ![t] = L]
  /\ idx' = [idx EXCEPT ![t] = 1]
  /\ timed' = [timed EXCEPT ![t] = tm]
  /\ UNCHANGED <<eventVars, ret, signalVars>>

\* The local variables of a finished call are gone.
Finish(t, r) ==
  /\ pc' = [pc EXCEPT ![t] = "run"]
  /\ objs' = [objs EXCEPT ![t] = <<>>]
  /\ idx' = [idx EXCEPT ![t] = 0]
  /\ timed' = [timed EXCEPT ![t] = FALSE]
  /\ ret' = [ret EXCEPT ![t] = r]

Wait(t, e, tm) == Call(t, "wait", <<e>>, tm) /\ UNCHANGED group

EvtWait(t) ==
  /\ pc[t] = "wait" /\ Free(Obj(t))
  /\ IF cnt[Obj(t)] <= 0
     THEN /\ pc' = [pc EXCEPT ![t] = "blocked"]
          /\ UNCHANGED <<cnt, objs, idx, timed, ret>>
     ELSE cnt' = Consume(Obj(t)) /\ Finish(t, Obj(t))
  /\ UNCHANGED <<mutex, subs, group, signalVars>>

\* The deadline has passed.  A thread whose errno happens to be EINTR stays in
\* the loop - the pthread functions do not set errno - until the count is up,
\* and then still reports the timeout.
EvtTimeout(t) ==
  /\ pc[t] = "blocked" /\ timed[t] /\ Free(Obj(t))
  /\ t \in Interrupted => cnt[Obj(t)] > 0
  /\ Finish(t, Idle)
  /\ UNCHANGED <<eventVars, group, signalVars>>

\* A condition wait may also end for no reason.
Spurious(t) ==
  /\ pc[t] \in {"blocked", "asleep"}
  /\ pc' = [pc EXCEPT ![t] = IF @ = "blocked" THEN "wait" ELSE "groupwait"]
  /\ UNCHANGED <<eventVars, group, objs, idx, timed, ret, signalVars>>

\* mutant of EvtTest: an event counts as up from zero on.
EvtTestFromZero(t, e) ==
  /\ pc[t] = "run" /\ Free(e)
  /\ cnt' = Consume(e) /\ ret' = [ret EXCEPT ![t] = e]
  /\ UNCHANGED <<mutex, subs, group, pc, objs, idx, timed, signalVars>>

EvtTest(t, e) ==
  /\ pc[t] = "run" /\ Free(e)
  /\ IF cnt[e] > 0 THEN cnt' = Consume(e) /\ ret' = [ret EXCEPT ![t] = e]
                   ELSE UNCHANGED cnt /\ ret' = [ret EXCEPT ![t] = Idle]
  /\ UNCHANGED <<mutex, subs, group, pc, objs, idx, timed, signalVars>>

-----------------------------------------------------------------------------
(* multi_wait()                                                            *)

\* The group event is made on the stack, with a count of zero.
MultiWait(t, L, tm) ==
  /\ Call(t, "subscribe", L, tm)
  /\ group' = [group EXCEPT ![t] = 0]

\* idx goes on to the next object, or back to the first in the next phase.
Advance(t, where) ==
  IF idx[t] < Len(objs[t])
  THEN /\ idx' = [idx EXCEPT ![t] = @ + 1]
       /\ UNCHANGED pc
  ELSE /\ idx' = [idx EXCEPT ![t] = 1]
       /\ pc' = [pc EXCEPT ![t] = where]

Subscribe(t) ==
  /\ pc[t] = "subscribe" /\ Free(Obj(t))
  /\ subs' = [subs EXCEPT ![Obj(t)] = @ \cup {t}]
  /\ Advance(t, "scan")
  /\ UNCHANGED <<cnt, mutex, group, objs, timed, ret, signalVars>>

\* mutant of Scan: an event found up is not consumed.
ScanKeep(t) ==
  /\ pc[t] = "scan" /\ Free(Obj(t))
  /\ IF cnt[Obj(t)] > 0
     THEN /\ ret' = [ret EXCEPT ![t] = Obj(t)]
          /\ idx' = [idx EXCEPT ![t] = 1]
          /\ pc' = [pc EXCEPT ![t] = "unsubscribe"]
     ELSE Advance(t, "groupwait") /\ UNCHANGED ret
  /\ UNCHANGED <<eventVars, group, objs, timed, signalVars>>

\* Each object is tested in turn; the first that is up wins, and is consumed.
Scan(t) ==
  /\ pc[t] = "scan" /\ Free(Obj(t))
  /\ IF cnt[Obj(t)] > 0
     THEN /\ cnt' = Consume(Obj(t))
          /\ ret' = [ret EXCEPT ![t] = Obj(t)]
          /\ idx' = [idx EXCEPT ![t] = 1]
          /\ pc' = [pc EXCEPT ![t] = "unsubscribe"]
     ELSE Advance(t, "groupwait") /\ UNCHANGED <<cnt, ret>>
  /\ UNCHANGED <<mutex, subs, group, objs, timed, signalVars>>

\* mutant of GroupWait: the group event is cleared before it is waited for.
GroupWaitCleared(t) ==
  /\ pc[t] = "groupwait"
  /\ group' = [group EXCEPT ![t] = 0]
  /\ pc' = [pc EXCEPT ![t] = "asleep"]
  /\ UNCHANGED <<eventVars, objs, idx, timed, ret, signalVars>>

\* The group event is auto-reset: one signal of it is consumed.
GroupWait(t) ==
  /\ pc[t] = "groupwait"
  /\ IF group[t] > 0
     THEN /\ group' = [group EXCEPT ![t] = @ - 1]
          /\ pc' = [pc EXCEPT ![t] = "scan"]
     ELSE /\ pc' = [pc EXCEPT ![t] = "asleep"]
          /\ UNCHANGED group
  /\ UNCHANGED <<eventVars, objs, idx, timed, ret, signalVars>>

\* mutant of GroupTimeout: after a timeout the events are looked at once more,
\* and the wait goes on with the deadline that has passed.
GroupTimeoutRescan(t) ==
  /\ timed[t]
  /\ IF t \in Interrupted THEN pc[t] = "late" /\ group[t] > 0 ELSE pc[t] = "asleep"
  /\ pc' = [pc EXCEPT ![t] = "scan"]
  /\ UNCHANGED <<eventVars, group, objs, idx, timed, ret, signalVars>>

\* The deadline has passed, and the wait reports the timeout ...
GroupTimeout(t) ==
  /\ timed[t]
  /\ IF t \in Interrupted THEN pc[t] = "late" /\ group[t] > 0 ELSE pc[t] = "asleep"
  /\ pc' = [pc EXCEPT ![t] = "unsubscribe"]
  /\ ret' = [ret EXCEPT ![t] = Idle]
  /\ UNCHANGED <<eventVars, group, objs, idx, timed, signalVars>>

\* ... but a thread whose errno is EINTR goes round in the loop of the timed wait
\* until the group event is up, which it then leaves unconsumed.
GroupLate(t) ==
  /\ pc[t] = "asleep" /\ timed[t] /\ t \in Interrupted
  /\ pc' = [pc EXCEPT ![t] = "late"]
  /\ UNCHANGED <<eventVars, group, objs, idx, timed, ret, signalVars>>

\* mutant of Unsubscribe: only the last object is unsubscribed from.
UnsubscribeLast(t) ==
  /\ pc[t] = "unsubscribe" /\ Free(Obj(t))
  /\ subs' = [subs EXCEPT ![Last(objs[t])] = @ \ {t}]
  /\ Finish(t, ret[t])
  /\ UNCHANGED <<cnt, mutex, group, signalVars>>

Unsubscribe(t) ==
  /\ pc[t] = "unsubscribe" /\ Free(Obj(t))
  /\ subs' = [subs EXCEPT ![Obj(t)] = @ \ {t}]
  /\ IF idx[t] < Len(objs[t])
     THEN Advance(t, "run") /\ UNCHANGED <<objs, timed, ret>>
     ELSE Finish(t, ret[t])
  /\ UNCHANGED <<cnt, mutex, group, signalVars>>

-----------------------------------------------------------------------------
\* What a thread in the middle of a call does next, timeouts apart.
Proceed(t) ==
  EvtWait(t) \/ Subscribe(t) \/ Scan(t) \/ GroupWait(t) \/ Unsubscribe(t)
Expire(t) == EvtTimeout(t) \/ GroupTimeout(t) \/ GroupLate(t)
SignalStep(s) == SignalSub(s) \/ SignalUnlock(s) \/ CondSignal(s)

Next ==
  \/ \E s \in Signaler : SignalStep(s)
  \/ \E s \in Signaler, e \in Event : SignalLock(s, e) \/ Reset(s, e)
  \/ \E t \in Waiter : Proceed(t) \/ Expire(t) \/ Spurious(t)
  \/ \E t \in Waiter, e \in Event : EvtTest(t, e)
  \/ \E t \in Waiter, tm \in BOOLEAN :
       \/ \E e \in WaitOne : Wait(t, e, tm)
       \/ \E L \in WaitList : MultiWait(t, L, tm)

Spec == Init /\ [][Next]_vars

\* The scheduler runs every thread that can run, a thread that wants a mutex
\* which keeps becoming free gets it, and time passes.
Fairness ==
  /\ \A t \in Waiter : SF_vars(Proceed(t)) /\ SF_vars(Expire(t))
  /\ \A s \in Signaler : WF_vars(SignalStep(s))

FairSpec == Spec /\ Fairness

-----------------------------------------------------------------------------
\* The types of the variables.
TypeOK ==
  /\ cnt \in [Event -> Nat] /\ \A e \in Event : cnt[e] <= MaxCount[e]
  /\ mutex \in [Event -> Signaler \cup {NoThread}]
  /\ subs \in [Event -> SUBSET Waiter]
  /\ group \in [Waiter -> Nat]
  /\ pc \in [Waiter -> Phase]
  /\ objs \in [Waiter -> WaitList \cup {<<e>> : e \in WaitOne} \cup {<<>>}]
  /\ idx \in [Waiter -> Nat]
  /\ timed \in [Waiter -> BOOLEAN]
  /\ ret \in [Waiter -> Event \cup {Idle}]
  /\ sig \in [Signaler -> Event \cup {Idle}]
  /\ todo \in [Signaler -> SUBSET Waiter]
  /\ waking \in SUBSET Signaler

InMulti(t) ==
  pc[t] \in {"subscribe", "scan", "groupwait", "asleep", "late", "unsubscribe"}
Subscribed(t) ==
  {i \in DOMAIN objs[t] :
     CASE pc[t] = "subscribe" -> i < idx[t]
       [] pc[t] = "unsubscribe" -> i >= idx[t]
       [] OTHER -> InMulti(t)}

\* The signal s passes on has not reached t yet.
Coming(t, e) == \E s \in Signaler : sig[s] = e /\ t \in todo[s]

\* The events t has found down since it last consumed from its group event.
Passed(t) ==
  CASE pc[t] = "scan" -> {objs[t][i] : i \in 1 .. idx[t] - 1}
    [] pc[t] \in {"groupwait", "asleep", "late"} -> ToSet(objs[t])
    [] OTHER -> {}

\* multi_wait never sleeps through a signal: between the test of an event and
\* the end of the wait, whoever raises the event also raises the group event,
\* or is still holding the event's mutex on the way to it (multi_wait
\* subscribes before it tests; signal notifies under the mutex).
NoLostSignal ==
  \A t \in Waiter : \A e \in Passed(t) :
    cnt[e] > 0 => \/ group[t] > 0 /\ pc[t] # "asleep"
                  \/ Coming(t, e)

\* Threads that sleep on an auto-reset event while it is up will be woken: for
\* every signal left there is a wake-up under way or a thread already awake
\* (evt_wait tests the count in a loop; the condition is set after the count).
EnoughWakeups ==
  \A e \in Event \ ManualReset :
    Blocked(e) # {} =>
      cnt[e] <= Cardinality({s \in Signaler : sig[s] = e})
                + Cardinality({t \in Waiter : pc[t] = "wait" /\ objs[t] = <<e>>})

\* Group events live on the stack of multi_wait: a link to one, or a signal on
\* its way to one, exists only while that call is between its subscribing and
\* its unsubscribing of that very event.
GroupEventAlive ==
  /\ \A e \in Event : \A t \in subs[e] :
       \E i \in Subscribed(t) : objs[t][i] = e
  /\ \A s \in Signaler : \A t \in todo[s] :
       \E i \in Subscribed(t) : objs[t][i] = sig[s]

\* A wait with a timeout ends, unless its events go on being signaled: while its
\* group event is up multi_wait does not look at the time.  A wait for events of
\* which one stays up ends, except for threads that sleep on a manual-reset event
\* with OS_Waitable::wait, of which signal() wakes only one.
WaitEnds ==
  \A t \in Waiter :
    /\ t \notin Interrupted =>
         ((pc[t] # "run" /\ timed[t])
            ~> (pc[t] = "run" \/ \E s \in Signaler : sig[s] \in ToSet(objs[t])))
    /\ \A e \in Event :
         (/\ e \in ToSet(objs[t]) /\ cnt[e] > 0
          /\ InMulti(t) \/ e \notin ManualReset)
           ~> (pc[t] = "run" \/ cnt[e] = 0)

\* Seen from its callers: the result of multi_wait is given when the event that
\* fired is consumed, and unsubscribing is no longer part of the wait.
Abstract == INSTANCE EventSpec WITH
  Caller <- Waiter, Object <- Event, Manual <- ManualReset, Timeout <- Idle,
  count <- cnt,
  waiting <- [t \in Waiter |-> IF pc[t] \in {"run", "unsubscribe"} THEN {}
                               ELSE ToSet(objs[t])],
  result <- ret

\* The event objects keep what EventSpec promises of them.
ImplementsEvents == Abstract!Spec
=============================================================================
