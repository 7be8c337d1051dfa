------------------------------ MODULE RtThreads ------------------------------
(***************************************************************************)
(* The kernel's threads and its scheduler (rt_thread/scheduler.c, thread.c,*)
(* the rest of rt_tick_increase in clock.c, and the switch of              *)
(* context_rvds.S).  One processor: the code of a thread, a handler, or    *)
(* PendSV.  A masked section is one step; between two of them the tick may *)
(* come, and any other interrupt.  The threads' timers are those of        *)
(* TimerService.                                                           *)
(*                                                                         *)
(* rt_current_thread changes in rt_schedule, the processor changes in      *)
(* PendSV, once every handler has returned.                                *)
(***************************************************************************)
EXTENDS Integers, SequencesExt

CONSTANTS
  Thread, Idle,
  Boot,        \* the threads started before the scheduler, in that order
  priority,    \* a smaller number is a higher priority
  init_tick,   \* the time slices
  Mortal,      \* the threads whose entry function returns, as main's does
  Time,        \* the delays and waiting times
  MaxNest      \* bound on nested critical sections

ASSUME ThreadAssumption ==
  /\ priority \in [Thread -> Nat] /\ init_tick \in [Thread -> Nat \ {0}]
  /\ Boot \in Seq(Thread) /\ Idle \in ToSet(Boot) /\ IsInjective(Boot)
  /\ \A t \in Thread \ {Idle} : priority[t] < priority[Idle]
ASSUME BoundsAssumption == Mortal \subseteq Thread \ {Idle} /\ Time \subseteq Nat \ {0} /\ MaxNest \in Nat

VARIABLES
  stat, error,
  ready,       \* rt_thread_priority_table
  suspended,   \* the list a suspended thread's tlist is in: a semaphore's
  remaining,   \* remaining_tick
  lock,        \* rt_scheduler_lock_nest
  current,     \* rt_current_thread
  cpu,         \* the thread whose registers the processor holds
  pending,     \* <<from, to>> while rt_thread_switch_interrupt_flag is set
  at,          \* where each thread is
  starting,    \* whom it is starting, Idle for nobody
  systick,     \* where SysTick_Handler is
  isr,         \* another handler has yet to call rt_schedule
  running, left, period, serving    \* the threads' timers

Timers == INSTANCE TimerService WITH Timer <- Thread, Periodic <- {}

queues == <<stat, error, ready, suspended>>
switch == <<current, pending>>
timers == <<running, left, period, serving>>

Priority == {priority[t] : t \in Thread}
At == {"app", "insert", "resched", "sleep", "slept", "take", "took", "exit", "gone"}

\* The first thread of the highest priority that has any.
HeadOfHighest(q) ==
  Head(q[CHOOSE p \in Priority : q[p] # <<>> /\ \A r \in Priority : q[r] # <<>> => p <= r])

-----------------------------------------------------------------------------
\* rt_schedule_insert_thread, rt_schedule_remove_thread.
Inserted_First(q, t) == [q EXCEPT ![priority[t]] = <<t>> \o @]    \* mutant
Inserted(q, t) == [q EXCEPT ![priority[t]] = Append(@, t)]
Removed(q, t)  == [q EXCEPT ![priority[t]] = RemoveFirst(@, t)]

\* One thread of a list after the other.
InsertedAll(q, list) ==
  LET after[i \in 0..Len(list)] ==
        IF i = 0 THEN q ELSE Inserted(after[i - 1], list[i])
  IN after[Len(list)]

\* rt_hw_context_switch and rt_hw_context_switch_interrupt: a switch that is
\* pending keeps the thread it comes from.
Switch_FromLatest(to) == pending' = <<current, to>>               \* mutant
Switch(to) == pending' = IF pending = <<>> THEN <<current, to>> ELSE <<pending[1], to>>

\* rt_schedule, with the ready queues q.
rt_schedule(q) ==
  IF lock = 0 /\ HeadOfHighest(q) # current
  THEN current' = HeadOfHighest(q) /\ Switch(HeadOfHighest(q))
  ELSE UNCHANGED switch

\* rt_timer_stop of several threads.
StopTimers(S) ==
  /\ running' = SelectSeq(running, LAMBDA t : t \notin S)
  /\ left' = [t \in DOMAIN left \ S |-> left[t]]
  /\ UNCHANGED <<period, serving>>

\* rt_thread_resume, masked by its caller: out of the list it waits in.
\* Mutant: the timer goes on.
Resume_TimerRuns(t) ==
  /\ suspended' = RemoveFirst(suspended, t)
  /\ stat' = [stat EXCEPT ![t] = "READY"]
  /\ ready' = Inserted(ready, t)
  /\ UNCHANGED timers
Resume(t) ==
  /\ suspended' = RemoveFirst(suspended, t)
  /\ stat' = [stat EXCEPT ![t] = "READY"]
  /\ ready' = Inserted(ready, t)
  /\ StopTimers({t})

\* The end of rt_thread_yield's masked section, which asks for a schedule.
MayYield(t) == stat[t] = "READY" /\ Len(ready[priority[t]]) > 1
ToTheTail(t) == ready' = Inserted(Removed(ready, t), t)

-----------------------------------------------------------------------------
ThreadsInit ==
  /\ stat = [t \in Thread |-> IF t \in ToSet(Boot) THEN "READY" ELSE "INIT"]
  /\ error = [t \in Thread |-> "EOK"]
  /\ ready = InsertedAll([p \in Priority |-> <<>>], Boot)
  /\ suspended = <<>>
  /\ remaining = init_tick
  /\ lock = 0 /\ pending = <<>>
  /\ current = HeadOfHighest(ready) /\ cpu = current
  /\ at = [t \in Thread |-> "app"] /\ starting = [t \in Thread |-> Idle]
  /\ systick = "off" /\ isr = "off"
  /\ Timers!ServiceInit

-----------------------------------------------------------------------------
(* The code of threads.                                                    *)

Runs(t) == cpu = t /\ pending = <<>> /\ systick = "off" /\ isr = "off"
InApp(t) == Runs(t) /\ at[t] = "app" /\ t # Idle
Goto(t, place) == at' = [at EXCEPT ![t] = place]

rt_enter_critical(t) ==
  /\ InApp(t) /\ lock < MaxNest
  /\ lock' = lock + 1
  /\ UNCHANGED <<queues, remaining, switch, cpu, at, starting, systick, isr, timers>>

\* Interrupts come back on before the schedule.  Mutant: no schedule.
rt_exit_critical_Silent(t) ==
  /\ InApp(t) /\ lock > 0
  /\ lock' = lock - 1
  /\ UNCHANGED <<queues, remaining, switch, cpu, at, starting, systick, isr, timers>>
rt_exit_critical(t) ==
  /\ InApp(t) /\ lock > 0
  /\ lock' = lock - 1
  /\ Goto(t, IF lock = 1 THEN "resched" ELSE "app")
  /\ UNCHANGED <<queues, remaining, switch, cpu, starting, systick, isr, timers>>

rt_thread_yield(t) ==
  /\ InApp(t) /\ MayYield(t)
  /\ ToTheTail(t) /\ Goto(t, "resched")
  /\ UNCHANGED <<stat, error, suspended, remaining, lock, switch, cpu, starting, systick, isr, timers>>

\* A thread that blocks holds no lock, which its caller must see to.
rt_thread_sleep(t, n) ==
  /\ InApp(t) /\ lock = 0
  /\ stat' = [stat EXCEPT ![t] = "SUSPEND"] /\ ready' = Removed(ready, t)
  /\ Timers!Begin(t, n) /\ Goto(t, "sleep")
  /\ UNCHANGED <<error, suspended, remaining, lock, switch, cpu, starting, systick, isr>>

\* rt_thread_startup: the new thread is made SUSPENDed and resumed; between
\* the two masked sections of rt_thread_resume it is in no list.
rt_thread_startup(t, u) ==
  /\ InApp(t) /\ stat[u] = "INIT"
  /\ stat' = [stat EXCEPT ![u] = "SUSPEND"]
  /\ starting' = [starting EXCEPT ![t] = u] /\ Goto(t, "insert")
  /\ UNCHANGED <<error, ready, suspended, remaining, lock, switch, cpu, systick, isr, timers>>

InsertStarted(t) ==
  /\ Runs(t) /\ at[t] = "insert"
  /\ stat' = [stat EXCEPT ![starting[t]] = "READY"]
  /\ ready' = Inserted(ready, starting[t])
  /\ starting' = [starting EXCEPT ![t] = Idle] /\ Goto(t, "resched")
  /\ UNCHANGED <<error, suspended, remaining, lock, switch, cpu, systick, isr, timers>>

rt_thread_exit(t) ==
  /\ InApp(t) /\ lock = 0 /\ t \in Mortal
  /\ stat' = [stat EXCEPT ![t] = "CLOSE"] /\ ready' = Removed(ready, t)
  /\ StopTimers({t}) /\ Goto(t, "exit")
  /\ UNCHANGED <<error, suspended, remaining, lock, switch, cpu, starting, systick, isr>>

\* The call of rt_schedule after a masked section, and where it returns to.
After == [resched |-> "app", sleep |-> "slept", take |-> "took", exit |-> "gone"]
Reschedule(t) ==
  /\ Runs(t) /\ at[t] \in DOMAIN After
  /\ rt_schedule(ready) /\ Goto(t, After[at[t]])
  /\ UNCHANGED <<queues, remaining, lock, cpu, starting, systick, isr, timers>>

\* The end of rt_thread_sleep.
WakeUp(t) ==
  /\ Runs(t) /\ at[t] = "slept"
  /\ error' = [error EXCEPT ![t] = IF @ = "ETIMEOUT" THEN "EOK" ELSE @]
  /\ Goto(t, "app")
  /\ UNCHANGED <<stat, ready, suspended, remaining, lock, switch, cpu, starting, systick, isr, timers>>

-----------------------------------------------------------------------------
(* Handlers.                                                               *)

\* SysTick_Handler has the priority of PendSV, which goes first if both wait.
\* From here on a device's handler may come before each of its steps, and may
\* leave a switch pending.
SysTick_Handler ==
  /\ systick = "off" /\ isr = "off" /\ pending = <<>>
  /\ systick' = "tick"
  /\ UNCHANGED <<queues, remaining, lock, switch, cpu, at, starting, isr, timers>>

\* The time slice of rt_current_thread, be the switch to it still pending.
\* Mutant: a slice that nobody takes over is not renewed.
ChargeSlice_NotRenewed ==
  /\ systick = "tick" /\ isr = "off"
  /\ IF remaining[current] > 1 \/ ~ MayYield(current)
     THEN remaining' = [remaining EXCEPT ![current] = @ - 1] /\ systick' = "check"
     ELSE remaining' = [remaining EXCEPT ![current] = init_tick[current]] /\ systick' = "yield"
  /\ UNCHANGED <<queues, lock, switch, cpu, at, starting, isr, timers>>
ChargeSlice ==
  /\ systick = "tick" /\ isr = "off"
  /\ IF remaining[current] > 1
     THEN remaining' = [remaining EXCEPT ![current] = @ - 1] /\ systick' = "check"
     ELSE remaining' = [remaining EXCEPT ![current] = init_tick[current]] /\ systick' = "yield"
  /\ UNCHANGED <<queues, lock, switch, cpu, at, starting, isr, timers>>

\* rt_thread_yield, which reads rt_current_thread once more.
TickYield ==
  /\ systick = "yield" /\ isr = "off"
  /\ IF MayYield(current)
     THEN ToTheTail(current) /\ systick' = "switch"
     ELSE systick' = "check" /\ UNCHANGED ready
  /\ UNCHANGED <<stat, error, suspended, remaining, lock, switch, cpu, at, starting, isr, timers>>

TickSwitch ==
  /\ systick = "switch" /\ isr = "off"
  /\ rt_schedule(ready) /\ systick' = "check"
  /\ UNCHANGED <<queues, remaining, lock, cpu, at, starting, isr, timers>>

\* rt_timer_check begins; it is masked to its end.
TickCheck ==
  /\ systick = "check" /\ isr = "off"
  /\ Timers!Elapse
  /\ UNCHANGED <<queues, remaining, lock, switch, cpu, at, starting, systick, isr>>

\* rt_thread_timeout.  Mutant: the thread stays in the list it waited in.
rt_thread_timeout_StaysWaiting(t) ==
  /\ Timers!Call(t)
  /\ error' = [error EXCEPT ![t] = "ETIMEOUT"]
  /\ stat' = [stat EXCEPT ![t] = "READY"]
  /\ ready' = Inserted(ready, t)
  /\ rt_schedule(ready')
  /\ UNCHANGED <<suspended, remaining, lock, cpu, at, starting, systick, isr>>
rt_thread_timeout(t) ==
  /\ Timers!Call(t)
  /\ error' = [error EXCEPT ![t] = "ETIMEOUT"]
  /\ stat' = [stat EXCEPT ![t] = "READY"]
  /\ suspended' = RemoveFirst(suspended, t) /\ ready' = Inserted(ready, t)
  /\ rt_schedule(ready')
  /\ UNCHANGED <<remaining, lock, cpu, at, starting, systick, isr>>

TickEnd ==
  /\ systick = "check" /\ Timers!Served
  /\ systick' = "off"
  /\ UNCHANGED <<queues, remaining, lock, switch, cpu, at, starting, isr>>

\* When every handler has returned: the registers are saved into the one
\* thread's stack and loaded from the other's.
PendSV_Handler ==
  /\ pending # <<>> /\ systick = "off" /\ isr = "off"
  /\ cpu' = pending[2] /\ pending' = <<>>
  /\ UNCHANGED <<queues, remaining, lock, current, at, starting, systick, isr, timers>>

\* What a thread does in the kernel once it has called it.
InKernel(t) == InsertStarted(t) \/ Reschedule(t) \/ WakeUp(t)

Ticks ==
  \/ SysTick_Handler \/ ChargeSlice \/ TickYield \/ TickSwitch \/ TickCheck \/ TickEnd
  \/ \E t \in Thread : rt_thread_timeout(t)

ThreadsNext ==
  \/ \E t \in Thread :
       \/ rt_enter_critical(t) \/ rt_exit_critical(t) \/ rt_thread_yield(t)
       \/ \E n \in Time : rt_thread_sleep(t, n)
       \/ \E u \in Thread : rt_thread_startup(t, u)
       \/ rt_thread_exit(t) \/ InKernel(t)
  \/ Ticks \/ PendSV_Handler
=============================================================================
