----------------------------- MODULE RtSemaphore -----------------------------
(***************************************************************************)
(* A semaphore (the RT_USING_SEMAPHORE part of rt_thread/ipc.c) on top of  *)
(* RtThreads.  A thread that waits may be woken by a release of another    *)
(* thread or of an interrupt handler, by its timer, or by a reset.         *)
(***************************************************************************)
EXTENDS RtThreads

CONSTANTS
  MaxValue,    \* the largest value: 65535 in the code
  SemInit,     \* the value it is initialised with
  ByPriority   \* RT_IPC_FLAG_PRIO, the wrapper's default, not RT_IPC_FLAG_FIFO

ASSUME SemAssumption == MaxValue \in Nat /\ SemInit \in 0..MaxValue /\ ByPriority \in BOOLEAN

VARIABLES
  value,
  granted      \* history: the threads a release has woken

sem  == <<value, granted>>
vars == <<queues, remaining, lock, switch, cpu, at, starting, systick, isr, timers, sem>>

Forever == -1

Init == ThreadsInit /\ value = SemInit /\ granted = {}

-----------------------------------------------------------------------------
\* rt_ipc_list_suspend: behind the threads of the same or a higher priority,
\* or behind all.
Enqueued(t) ==
  LET i == SelectInSeq(suspended, LAMBDA u : ByPriority /\ priority[t] < priority[u])
  IN IF i = 0 THEN Append(suspended, t) ELSE InsertAt(suspended, i, t)

rt_sem_take(t, n) ==
  /\ InApp(t)
  /\ IF value > 0
     THEN /\ value' = value - 1
          /\ UNCHANGED <<queues, at, timers>>
     ELSE /\ lock = 0
          /\ error' = [error EXCEPT ![t] = "EOK"]
          /\ stat' = [stat EXCEPT ![t] = "SUSPEND"] /\ ready' = Removed(ready, t)
          /\ suspended' = Enqueued(t)
          /\ IF n = Forever THEN StopTimers({t}) ELSE Timers!Begin(t, n)
          /\ Goto(t, "take")
          /\ UNCHANGED value
  /\ UNCHANGED <<remaining, lock, switch, cpu, starting, systick, isr, granted>>

\* Back in rt_sem_take, which returns thread->error.  The code leaves it set
\* for nobody to read; here it is forgotten.
Taken(t) ==
  /\ Runs(t) /\ at[t] = "took"
  /\ Goto(t, "app") /\ granted' = granted \ {t}
  /\ error' = [error EXCEPT ![t] = "EOK"]
  /\ UNCHANGED <<stat, ready, suspended, remaining, lock, switch, cpu, starting, systick, isr, timers, value>>

\* The masked section of rt_sem_release: the first waiter or the value, which
\* wraps.
Release ==
  IF suspended # <<>>
  THEN /\ Resume(Head(suspended)) /\ granted' = granted \cup {Head(suspended)}
       /\ UNCHANGED value
  ELSE /\ value' = IF value = MaxValue THEN 0 ELSE value + 1
       /\ UNCHANGED <<stat, ready, suspended, timers, granted>>

rt_sem_release(t) ==
  /\ InApp(t) /\ Release
  /\ Goto(t, IF suspended # <<>> THEN "resched" ELSE "app")
  /\ UNCHANGED <<error, remaining, lock, switch, cpu, starting, systick, isr>>

\* rt_sem_release in an interrupt handler, which may preempt SysTick_Handler.
IsrRelease ==
  /\ isr = "off" /\ ~ serving /\ Release
  /\ isr' = IF suspended # <<>> THEN "resched" ELSE "off"
  /\ UNCHANGED <<error, remaining, lock, switch, cpu, at, starting, systick>>
IsrSchedule ==
  /\ isr = "resched"
  /\ rt_schedule(ready) /\ isr' = "off"
  /\ UNCHANGED <<queues, remaining, lock, cpu, at, starting, systick, timers, sem>>

\* rt_sem_control(RT_IPC_CMD_RESET): rt_ipc_list_resume_all wakes the waiters
\* in their order, with an error.
rt_sem_control(t, v) ==
  LET woken == ToSet(suspended) IN
  /\ InApp(t)
  /\ error' = [u \in Thread |-> IF u \in woken THEN "ERROR" ELSE error[u]]
  /\ stat' = [u \in Thread |-> IF u \in woken THEN "READY" ELSE stat[u]]
  /\ ready' = InsertedAll(ready, suspended)
  /\ suspended' = <<>> /\ StopTimers(woken)
  /\ value' = v /\ Goto(t, "resched")
  /\ UNCHANGED <<remaining, lock, switch, cpu, starting, systick, isr, granted>>

Next ==
  \/ ThreadsNext /\ UNCHANGED sem
  \/ \E t \in Thread :
       \/ \E n \in Time \cup {Forever} : rt_sem_take(t, n)
       \/ \E v \in 0..MaxValue : rt_sem_control(t, v)
       \/ rt_sem_release(t) \/ Taken(t)
  \/ IsrRelease \/ IsrSchedule

\* The tick comes for ever; handlers, PendSV and what a thread does in the
\* kernel come to their ends however often they are interrupted, and so do
\* critical sections.  What a thread does outside is up to it.
KernelStep == \E t \in Thread : (InKernel(t) /\ UNCHANGED sem) \/ Taken(t)
Leave(n) == lock = n /\ \E t \in Thread : rt_exit_critical(t) /\ UNCHANGED sem
Spec ==
  /\ Init /\ [][Next]_vars
  /\ SF_vars(Ticks /\ UNCHANGED sem) /\ WF_vars(IsrSchedule)
  /\ SF_vars(PendSV_Handler /\ UNCHANGED sem)
  /\ SF_vars(KernelStep)
  /\ \A n \in 1..MaxNest : SF_vars(Leave(n))

-----------------------------------------------------------------------------
(* Properties.                                                             *)

TypeOK ==
  /\ stat \in [Thread -> {"INIT", "READY", "SUSPEND", "CLOSE"}]
  /\ error \in [Thread -> {"EOK", "ETIMEOUT", "ERROR"}]
  /\ \A p \in Priority : ready[p] \in Seq({t \in Thread : priority[t] = p})
  /\ suspended \in Seq(Thread) /\ value \in 0..MaxValue
  /\ \A t \in Thread : remaining[t] \in 1..init_tick[t]
  /\ lock \in 0..MaxNest /\ {current, cpu} \subseteq Thread
  /\ pending \in {<<>>} \cup Thread \X Thread
  /\ at \in [Thread -> At] /\ starting \in [Thread -> Thread]
  /\ systick \in {"off", "tick", "yield", "switch", "check"} /\ isr \in {"off", "resched"}
  /\ granted \subseteq Thread

\* Nobody owes a call of rt_schedule.
Settled ==
  /\ lock = 0 /\ systick # "switch" /\ isr = "off"
  /\ at[cpu] \notin DOMAIN After

\* No wake-up is lost: whenever the scheduler is unlocked and nobody is about
\* to call it, rt_current_thread is the first ready thread of the highest
\* priority, also when an interrupt woke a thread inside a critical section or
\* between the end of a masked section and its rt_schedule.  A pending switch
\* saves the registers into the thread they belong to.
RunsTheHighest ==
  /\ Settled => current = HeadOfHighest(ready)
  /\ IF pending = <<>> THEN cpu = current ELSE pending = <<cpu, current>>

\* Each thread is in exactly the queue its state names, and a suspended one
\* has somebody to wake it: its timer, a release, or the thread starting it.
EachInOneQueue ==
  \A t \in Thread :
    /\ \A p \in Priority : IsInjective(ready[p])
    /\ IsInjective(suspended)
    /\ (stat[t] = "READY") = (t \in ToSet(ready[priority[t]]))
    /\ t \in ToSet(suspended) =>
         stat[t] = "SUSPEND" /\ at[t] \in {"take", "took"}
    /\ stat[t] = "SUSPEND" =>
         \/ t \in DOMAIN left \/ t \in ToSet(suspended)
         \/ \E u \in Thread : starting[u] = t /\ at[u] = "insert"
    /\ t \in DOMAIN left => stat[t] = "SUSPEND"

\* A timeout, a release and a reset may come in any order; rt_sem_take returns
\* EOK exactly to the threads a release has chosen, so no release is
\* lost or used twice while somebody waits, and no token is left then.
TokensAgree ==
  /\ value > 0 => suspended = <<>>
  /\ \A t \in Thread : at[t] \in {"take", "took"} /\ stat[t] = "READY" =>
       ((error[t] = "EOK") = (t \in granted))
  /\ granted \subseteq {t \in Thread : at[t] \in {"take", "took"} /\ stat[t] = "READY"}

\* A ready thread of the highest priority gets the processor, whatever its
\* equals do: their time slices end, and so do their critical sections.  There
\* is one way round it: a handler that preempts SysTick_Handler makes the
\* thread rt_current_thread, and the tick then charges that thread and sends it
\* to the tail before the switch to it is done, be its own slice untouched.
\* This may happen again and again, but the thread has had its turn then.
Top == {t \in Thread : \A u \in Thread : priority[t] <= priority[u]}
SentBack(t) == current = t /\ cpu # t /\ systick \in {"tick", "yield"}
EachGetsItsTurn ==
  \A t \in Top : stat[t] = "READY" ~> cpu = t \/ SentBack(t)
=============================================================================
