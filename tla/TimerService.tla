---------------------------- MODULE TimerService ----------------------------
(***************************************************************************)
(* What the kernel's timers promise (rt_thread/timer.c), without the tick  *)
(* that wraps and without a list: each running timer has a number of ticks *)
(* left, and each tick interrupt calls the timers whose time has come, in  *)
(* the order of their times and then of their starts.  RtTimer shows that  *)
(* the sorted list implements this.                                        *)
(***************************************************************************)
EXTENDS Integers, SequencesExt

CONSTANTS
  Timer,
  Periodic,    \* the timers with RT_TIMER_FLAG_PERIODIC
  Time         \* the times timers are started with

VARIABLES
  running,     \* the running timers in the order of their starts
  left,        \* ticks left, of each running timer
  period,      \* what each periodic timer was started with last
  serving      \* the tick interrupt is calling timers

serviceVars == <<running, left, period, serving>>

Restriction(f, S) == [t \in S |-> f[t]]

ServiceInit ==
  /\ running = <<>> /\ left = [t \in {} |-> 0]
  /\ period = [t \in Periodic |-> 0]
  /\ serving = FALSE

\* A timer that runs already is started afresh.  A time of 0 ends at the next
\* tick, like 1, but before it.
Begin(t, n) ==
  /\ ~ serving
  /\ t \in Periodic => n > 0
  /\ running' = Append(RemoveFirst(running, t), t)
  /\ left' = [u \in DOMAIN left \cup {t} |-> IF u = t THEN n ELSE left[u]]
  /\ period' = [u \in Periodic |-> IF u = t THEN n ELSE period[u]]
  /\ UNCHANGED serving

Cancel(t) ==
  /\ ~ serving /\ t \in DOMAIN left
  /\ running' = RemoveFirst(running, t)
  /\ left' = Restriction(left, DOMAIN left \ {t})
  /\ UNCHANGED <<period, serving>>

Elapse ==
  /\ ~ serving
  /\ left' = [t \in DOMAIN left |-> left[t] - 1]
  /\ serving' = TRUE
  /\ UNCHANGED <<running, period>>

Over(t) == t \in DOMAIN left /\ left[t] <= 0
StartedBefore(t, u) ==
  \E i, j \in DOMAIN running : i < j /\ running[i] = t /\ running[j] = u
NextToCall(t) ==
  /\ Over(t)
  /\ \A u \in Timer \ {t} :
       Over(u) => left[t] < left[u] \/ (left[t] = left[u] /\ StartedBefore(t, u))

Call(t) ==
  /\ serving /\ NextToCall(t)
  /\ IF t \in Periodic
     THEN /\ running' = Append(RemoveFirst(running, t), t)
          /\ left' = [left EXCEPT ![t] = period[t]]
     ELSE /\ running' = RemoveFirst(running, t)
          /\ left' = Restriction(left, DOMAIN left \ {t})
  /\ UNCHANGED <<period, serving>>

Served ==
  /\ serving /\ \A t \in Timer : ~ Over(t)
  /\ serving' = FALSE
  /\ UNCHANGED <<running, left, period>>

ServiceNext ==
  \/ \E t \in Timer, n \in Time : Begin(t, n)
  \/ \E t \in Timer : Cancel(t) \/ Call(t)
  \/ Elapse \/ Served

ServiceSteps == ServiceInit /\ [][ServiceNext]_serviceVars

\* Time goes on, and an interrupt comes to its end.
ServiceSpec ==
  /\ ServiceSteps
  /\ WF_serviceVars(Elapse \/ Served \/ \E t \in Timer : Call(t))
=============================================================================
