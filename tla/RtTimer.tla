------------------------------- MODULE RtTimer -------------------------------
(***************************************************************************)
(* The kernel's timers (rt_thread/timer.c with rt_tick_increase of         *)
(* clock.c): one list sorted by timeout_tick (RT_TIMER_SKIP_LIST_LEVEL is  *)
(* 1), where a tick that wraps is compared by unsigned subtraction.        *)
(*                                                                         *)
(* Every timer here is the timer of a thread.  The kernel starts and stops *)
(* them with interrupts off (thread.c, ipc.c), so each call is one step;   *)
(* their timeout function, rt_thread_timeout, touches no timer.            *)
(* rt_timer_check runs with interrupts off, one step per timer.            *)
(***************************************************************************)
EXTENDS TickClock, SequencesExt

CONSTANTS
  Timer,
  Periodic,    \* the timers with RT_TIMER_FLAG_PERIODIC
  Time         \* the times timers are started with

Half == (TickMod - 1) \div 2      \* RT_TICK_MAX / 2

\* What RT_ASSERT asks in rt_timer_start, which is compiled to nothing here.
ASSUME TimeAssumption == Time \subseteq 0..Half - 1 /\ Half > 1
ASSUME PeriodicAssumption == Periodic \subseteq Timer

VARIABLES
  list,         \* rt_timer_list
  timeout,      \* timeout_tick of each timer
  init_tick,
  activated,    \* the timers with RT_TIMER_FLAG_ACTIVATED
  checking,     \* SysTick_Handler is in rt_timer_check
  started       \* history: the timers of the list in the order of their starts

vars == <<tick, list, timeout, init_tick, activated, checking, started>>

Init ==
  /\ tick = FirstTick
  /\ list = <<>> /\ started = <<>> /\ activated = {}
  /\ timeout = [t \in Timer |-> 0] /\ init_tick = [t \in Timer |-> 0]
  /\ checking = FALSE

-----------------------------------------------------------------------------
\* Unsigned differences below Half count as "not earlier".
Later_Unwrapped(a, b) == a > b    \* mutant: the ticks are compared themselves
Later(a, b) == Elapsed(a, b) \in 1..Half - 1

\* Where rt_timer_start stops: in front of the first timer that ends later.
Place_BeforeEqual(l, x) ==        \* mutant: equal timeouts stop the walk too
  LET i == SelectInSeq(l, LAMBDA u : timeout[u] = x \/ Later(timeout[u], x))
  IN IF i = 0 THEN Len(l) + 1 ELSE i
Place(l, x) ==
  LET i == SelectInSeq(l, LAMBDA u : Later(timeout[u], x))
  IN IF i = 0 THEN Len(l) + 1 ELSE i

\* rt_timer_start.  Mutant: the timer is not taken out of the list first.
Start_KeepsOld(t, n) ==
  LET x == Advance(tick, n) IN
  /\ list' = InsertAt(list, Place(list, x), t)
  /\ timeout' = [timeout EXCEPT ![t] = x]
  /\ activated' = activated \cup {t}
  /\ started' = Append(RemoveFirst(started, t), t)
Start(t, n) ==
  LET l == RemoveFirst(list, t)
      x == Advance(tick, n)
  IN /\ list' = InsertAt(l, Place(l, x), t)
     /\ timeout' = [timeout EXCEPT ![t] = x]
     /\ activated' = activated \cup {t}
     /\ started' = Append(RemoveFirst(started, t), t)

\* rt_timer_control(SET_TIME) and rt_timer_start, as in rt_thread_sleep.
SetAndStart(t, n) ==
  /\ ~ checking
  /\ t \in Periodic => n > 0
  /\ init_tick' = [init_tick EXCEPT ![t] = n]
  /\ Start(t, n)
  /\ UNCHANGED <<tick, checking>>

\* rt_timer_stop, which fails when the timer is not activated, and
\* rt_timer_detach, which does not look.
rt_timer_stop(t) ==
  /\ ~ checking /\ t \in activated
  /\ list' = RemoveFirst(list, t) /\ started' = RemoveFirst(started, t)
  /\ activated' = activated \ {t}
  /\ UNCHANGED <<tick, timeout, init_tick, checking>>

\* SysTick_Handler and rt_tick_increase up to rt_timer_check; the time slice
\* of the running thread, which it counts down there, concerns no timer.
rt_tick_increase ==
  /\ ~ checking
  /\ tick' = Advance(tick, 1) /\ checking' = TRUE
  /\ UNCHANGED <<list, timeout, init_tick, activated, started>>

\* The head's time has come.
Due_Strictly(t) == Elapsed(tick, timeout[t]) \in 1..Half - 1    \* mutant
Due(t) == Elapsed(tick, timeout[t]) < Half

\* One turn of rt_timer_check's loop: out of the list, the timeout function,
\* and a periodic timer is started once more with the present tick.
CheckOne ==
  /\ checking /\ list # <<>> /\ Due(Head(list))
  /\ LET t == Head(list) IN
     IF t \in Periodic /\ t \in activated
     THEN Start(t, init_tick[t])
     ELSE /\ list' = Tail(list) /\ started' = RemoveFirst(started, t)
          /\ activated' = activated \ {t}
          /\ UNCHANGED timeout
  /\ UNCHANGED <<tick, init_tick, checking>>

CheckDone ==
  /\ checking
  /\ list # <<>> => ~ Due(Head(list))
  /\ checking' = FALSE
  /\ UNCHANGED <<tick, list, timeout, init_tick, activated, started>>

Next ==
  \/ \E t \in Timer, n \in Time : SetAndStart(t, n)
  \/ \E t \in Timer : rt_timer_stop(t)
  \/ rt_tick_increase \/ CheckOne \/ CheckDone

\* The tick interrupt comes for ever, and rt_timer_check is not interrupted.
Spec ==
  /\ Init /\ [][Next]_vars
  /\ WF_vars(rt_tick_increase \/ CheckOne \/ CheckDone)

-----------------------------------------------------------------------------
(* Properties.                                                             *)

TypeOK ==
  /\ tick \in TickValue
  /\ timeout \in [Timer -> TickValue]
  /\ init_tick \in [Timer -> Time \cup {0}]
  /\ activated \subseteq Timer /\ checking \in BOOLEAN
  /\ list \in Seq(Timer) /\ IsInjective(list) /\ ToSet(list) = activated

\* Ticks left, from the unsigned difference: late by one tick at the most.
Left(t) ==
  LET d == Elapsed(timeout[t], tick) IN IF d = TickMod - 1 THEN -1 ELSE d

\* The list is in the order of the ticks left although the comparison of
\* rt_timer_start wraps, and no timer is passed over: it is late only while
\* the tick interrupt is still calling timers.
SortedAndPunctual ==
  /\ \A i, j \in DOMAIN list : i < j => Left(list[i]) <= Left(list[j])
  /\ \A i \in DOMAIN list : Left(list[i]) < Half /\ (~ checking => Left(list[i]) >= 0)

Service == INSTANCE TimerService WITH
  running <- started, left <- [t \in ToSet(list) |-> Left(t)],
  period <- [t \in Periodic |-> init_tick[t]], serving <- checking

\* Each tick interrupt calls exactly the timers whose time has come, the one
\* that was to end first before the others and equal ones in the order of
\* their starts, and each timer that is not stopped is called in the end.
CallsInOrder == Service!ServiceSpec
=============================================================================
