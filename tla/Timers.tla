-------------------------------- MODULE Timers -------------------------------
(***************************************************************************)
(* The timers of a worker: event/ngx_event_timer.[ch], their use by        *)
(* ngx_process_events_and_timers(), and the comparison of                  *)
(* ngx_rbtree_insert_timer_value().                                        *)
(*                                                                         *)
(* ngx_current_msec and the keys are unsigned and wrap; the comparisons    *)
(* subtract them as signed numbers.  time is the time that                 *)
(* ngx_current_msec stands for, without the wrap; due is when an event     *)
(* asked to be woken, without the wrap.  Both are history: the code only   *)
(* has time % Modulus and key.  The tree is the sequence of its nodes in   *)
(* order; where a node is inserted is decided by comparisons with its two  *)
(* neighbours, which every search path visits, and these fix the place     *)
(* whatever the shape of the tree.                                         *)
(***************************************************************************)
EXTENDS Integers, Sequences, FiniteSets, SequencesExt

CONSTANTS
  Events,     \* ngx_event_t's that may have a timer
  Half,       \* 2^31 or 2^63: milliseconds have one bit more
  LazyDelay,  \* NGX_TIMER_LAZY_DELAY
  Delays,     \* the timeouts handlers ask for
  MaxStep,    \* the longest time from one ngx_time_update() to the next
  Starts,     \* when the worker starts
  Span        \* bound: how long a behaviour lasts

ASSUME TimersAssumption ==
  /\ IsFiniteSet(Events)
  /\ Half \in Nat \ {0} /\ LazyDelay \in Nat \ {0} /\ MaxStep \in Nat
  /\ Delays \subseteq Nat /\ Starts \subseteq Nat /\ Span \in Nat
  \* "spread in small range, usually several minutes"
  /\ \A d \in Delays \cup {0} : d + LazyDelay + MaxStep < Half

VARIABLES
  time,    \* ngx_current_msec, unwrapped
  start,   \* when this behaviour began
  tree,    \* the events of ngx_event_timer_rbtree, in order
  key,     \* ev->timer.key
  due,     \* history: when the event last asked to be woken
  timer,   \* what ngx_event_find_timer() returned, while waiting
  pc,      \* "find", "wait", "expire", "handler" or "posted"
  ub,      \* history: a signed subtraction overflowed
  fired    \* history: how late (early if < 0) the event was whose handler runs

vars == <<time, start, tree, key, due, timer, pc, ub, fired>>

Modulus  == 2 * Half
Infinite == -1                    \* NGX_TIMER_INFINITE
Wrap(n)  == n % Modulus
Msec     == Wrap(time)            \* ngx_current_msec
TimerSet == ToSet(tree)           \* ev->timer_set

\* (ngx_msec_int_t) of an unsigned value
Signed(n) == IF n >= Half THEN n - Modulus ELSE n
\* ngx_abs() of (ngx_msec_int_t) (a - b): an unsigned subtraction, which wraps
AbsDiff(a, b) == LET d == Signed(Wrap(a - b)) IN IF d < 0 THEN -d ELSE d

\* (ngx_msec_int_t) a - (ngx_msec_int_t) b.  The result may not fit; then it
\* either wraps, or the compiler has turned the comparison of the difference
\* with 0 into a comparison of a with b.
Overflows(a, b) == Signed(a) - Signed(b) \notin (-Half)..(Half - 1)
Differences(a, b) ==
  LET exact == Signed(a) - Signed(b)
  IN IF Overflows(a, b) THEN {exact, Signed(Wrap(a - b))} ELSE {exact}

Init ==
  /\ time \in Starts /\ start = time
  /\ tree = <<>>
  /\ key = [e \in Events |-> 0] /\ due = [e \in Events |-> 0]
  /\ timer = Infinite /\ pc = "find" /\ ub = FALSE /\ fired = 0

-----------------------------------------------------------------------------
\* ngx_rbtree_insert_timer_value(): between i nodes that are not after the
\* new one and the rest, which are.
GoesAt(t, e, k, i) ==
  /\ i > 0 => \E d \in Differences(k, key[t[i]]) : d >= 0
  /\ i < Len(t) => \E d \in Differences(k, key[t[i + 1]]) : d < 0
InsertOverflows(t, k) == \E i \in DOMAIN t : Overflows(k, key[t[i]])

\* ngx_rbtree_delete() keeps the order of the others.
Delete(t, e) ==
  IF e \in ToSet(t) THEN RemoveAt(t, CHOOSE i \in DOMAIN t : t[i] = e) ELSE t

\* ngx_event_add_timer() in a handler or, after the timers, in a posted
\* event.  A difference of less than LazyDelay keeps the old key.
\* Faulty variant: the difference is that of the new key and the present.
KeepsOldFromNow(e, k) == e \in TimerSet /\ AbsDiff(k, Msec) < LazyDelay
KeepsOld(e, k) == e \in TimerSet /\ AbsDiff(k, key[e]) < LazyDelay
AddTimer(e, d) ==
  /\ pc \in {"handler", "posted"}
  /\ due' = [due EXCEPT ![e] = time + d]
  /\ LET k == Wrap(Msec + d)
         t == Delete(tree, e)
     IN IF KeepsOld(e, k) THEN UNCHANGED <<tree, key, ub>>
        ELSE /\ key' = [key EXCEPT ![e] = k]
             /\ \E i \in 0..Len(t) : /\ GoesAt(t, e, k, i)
                                     /\ tree' = InsertAt(t, i + 1, e)
             /\ ub' = (ub \/ InsertOverflows(t, k))
  /\ UNCHANGED <<time, start, timer, pc, fired>>

\* The key of an event without a timer is not looked at any more.
Forget(e) == key' = [key EXCEPT ![e] = 0] /\ due' = [due EXCEPT ![e] = 0]

\* ngx_event_del_timer()
DelTimer(e) ==
  /\ pc \in {"handler", "posted"} /\ e \in TimerSet
  /\ tree' = Delete(tree, e)
  /\ Forget(e)
  /\ UNCHANGED <<time, start, timer, pc, ub, fired>>

-----------------------------------------------------------------------------
\* ngx_event_find_timer(): the leftmost node.
MinKey == key[Head(tree)]
FindTimer ==
  /\ pc = "find"
  /\ IF tree = <<>> THEN timer' = Infinite /\ UNCHANGED ub
     ELSE /\ \E d \in Differences(MinKey, Msec) :
               timer' = IF d > 0 THEN d ELSE 0
          /\ ub' = (ub \/ Overflows(MinKey, Msec))
  /\ pc' = "wait"
  /\ UNCHANGED <<time, start, tree, key, due, fired>>

\* ngx_process_events() with NGX_UPDATE_TIME: returns for an event, or when
\* the timer is over, and perhaps later.  Timers only expire if the
\* millisecond has changed.
Wait(d) ==
  /\ pc = "wait" /\ time + d <= start + Span
  /\ time' = time + d /\ timer' = Infinite
  /\ pc' = IF d = 0 THEN "posted" ELSE "expire"
  /\ UNCHANGED <<start, tree, key, due, ub, fired>>

\* Faulty variant: "<" for "<=".
ExpiredStrict(e) == {d < 0 : d \in Differences(key[e], Msec)}
\* One turn of the loop in ngx_event_expire_timers().
Expired(e) == {d <= 0 : d \in Differences(key[e], Msec)}
Expire ==
  /\ pc = "expire" /\ tree # <<>> /\ TRUE \in Expired(Head(tree))
  /\ tree' = Tail(tree)
  /\ fired' = time - due[Head(tree)]
  /\ ub' = (ub \/ Overflows(key[Head(tree)], Msec))
  /\ Forget(Head(tree))
  /\ pc' = "handler"
  /\ UNCHANGED <<time, start, timer>>
HandlerReturn ==
  /\ pc = "handler" /\ pc' = "expire" /\ fired' = 0
  /\ UNCHANGED <<time, start, tree, key, due, timer, ub>>
ExpireDone ==
  /\ pc = "expire" /\ (tree # <<>> => FALSE \in Expired(Head(tree)))
  /\ ub' = (ub \/ (tree # <<>> /\ Overflows(key[Head(tree)], Msec)))
  /\ pc' = "posted"
  /\ UNCHANGED <<time, start, tree, key, due, timer, fired>>
PostedDone ==
  /\ pc = "posted" /\ pc' = "find"
  /\ UNCHANGED <<time, start, tree, key, due, timer, ub, fired>>

Next ==
  \/ \E e \in Events, d \in Delays : AddTimer(e, d)
  \/ \E e \in Events : DelTimer(e)
  \/ FindTimer \/ \E d \in 0..MaxStep : Wait(d)
  \/ Expire \/ HandlerReturn \/ ExpireDone \/ PostedDone

Spec == Init /\ [][Next]_vars

-----------------------------------------------------------------------------
\* The timers have their types, and no event is in the tree twice.
TypeOK ==
  /\ time \in Nat /\ start \in Starts
  /\ tree \in Seq(Events) /\ IsInjective(tree)
  /\ key \in [Events -> 0..(Modulus - 1)] /\ due \in [Events -> Nat]
  /\ timer \in Nat \cup {Infinite}
  /\ pc \in {"find", "wait", "expire", "handler", "posted"}
  /\ ub \in BOOLEAN /\ fired \in Int

\* A set timer's key is within NGX_TIMER_LAZY_DELAY of when the event last
\* asked to be woken, however often it was added again, and across the wrap.
\* The state has its type.
KeyNearDue ==
  TypeOK /\ \A e \in TimerSet : AbsDiff(key[e], Wrap(due[e])) < LazyDelay

\* ngx_rbtree.c: "The comparison takes into account that overflow": the first
\* node of the tree is the one that is due first, up to the lazy delay, when
\* the milliseconds wrap.  A signed overflow is excluded.
FirstIsEarliest ==
  ~ub /\ tree # <<>> =>
    \A e \in TimerSet : due[Head(tree)] < due[e] + 2 * LazyDelay - 1

\* No event fires before it is due, up to the lazy delay.
NotEarly == ~ub => fired > -LazyDelay

\* The worker never sleeps past a timer: what it passes to epoll_wait() ends
\* no later than every event is due, up to the lazy delay.
NotOverslept ==
  ~ub /\ pc = "wait" =>
    \A e \in TimerSet :
      timer # Infinite /\ (timer = 0 \/ time + timer < due[e] + LazyDelay)

\* Timers on time, whatever lazy updates (ngx_event_add_timer() keeps an old
\* key that is close) and the wrap of the milliseconds do to the keys: the keys
\* are close to what was asked for, the tree is led by the event due first, no
\* event fires early and the worker does not sleep past one.
TimersOnTime == KeyNearDue /\ FirstIsEarliest /\ NotEarly /\ NotOverslept

\* When the expired timers have been run, no overdue one is left behind.
NoneOverdue ==
  [][pc = "expire" /\ pc' = "posted" /\ ~ub' =>
       \A e \in TimerSet : due[e] + LazyDelay > time + 1]_vars
==============================================================================
