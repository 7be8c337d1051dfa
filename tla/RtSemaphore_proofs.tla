------------------------- MODULE RtSemaphore_proofs --------------------------
(***************************************************************************)
(* For any threads, priorities and time slices, any nesting of critical    *)
(* sections and any use of the semaphore, by threads and handlers: the     *)
(* scheduler loses no wake-up, every thread is in the queue its state      *)
(* names, and every token goes to one taker.                               *)
(***************************************************************************)
EXTENDS RtSemaphore, ListLemmas

-----------------------------------------------------------------------------
(* The inductive invariant.  A thread that owes a call of rt_schedule may  *)
(* be switched away from before it makes it; but whoever asked for that    *)
(* switch has made the choice afresh, and nobody undoes it unasked.        *)

\* Where the threads are, and how deep the lock is nested.
Types == at \in [Thread -> At] /\ lock \in Nat

\* RunsTheHighest also holds while a switch is pending, whatever the thread
\* that still has the processor owes.
Chosen ==
  /\ lock = 0 /\ systick # "switch" /\ isr = "off"
  /\ pending = <<>> => at[cpu] \notin DOMAIN After
  => current = HeadOfHighest(ready)

\* A pending switch is from the thread that has the processor to the chosen one.
SwitchAgrees == IF pending = <<>> THEN cpu = current ELSE pending = <<cpu, current>>

\* The inductive invariant of the dispatching.
IInv == Types /\ Chosen /\ SwitchAgrees

\* From where a thread goes on to call rt_schedule.
LEMMA Debts == DOMAIN After = {"resched", "sleep", "take", "exit"}
BY DEF After

\* While somebody owes a call of rt_schedule, or the scheduler is locked,
\* nothing is claimed of the choice.
LEMMA Owed ==
  ASSUME IInv, Types', SwitchAgrees',
         \/ lock' # 0 \/ systick' = "switch" \/ isr' # "off"
         \/ pending' = <<>> /\ at'[cpu'] \in DOMAIN After
  PROVE  IInv'
BY DEF IInv, Chosen

\* A step that leaves the choice and what it depends on alone.
LEMMA Untouched ==
  ASSUME IInv, Types', UNCHANGED <<ready, current, pending, cpu, lock>>,
         systick' # "switch" => systick # "switch", isr' = "off" => isr = "off",
         at'[cpu] \notin DOMAIN After => at[cpu] \notin DOMAIN After
  PROVE  IInv'
BY DEF IInv, Chosen, SwitchAgrees, HeadOfHighest

\* rt_schedule makes the choice, unless it is locked out.
LEMMA Schedules ==
  ASSUME IInv, Types', rt_schedule(ready'), UNCHANGED <<cpu, lock>>
  PROVE  IInv'
<1>1. SwitchAgrees'
  BY DEF IInv, SwitchAgrees, rt_schedule, Switch, switch
<1>2. lock = 0 => current' = HeadOfHighest(ready')
  BY DEF rt_schedule, switch
<1>3. Chosen'
  BY <1>2 DEF Chosen, HeadOfHighest
<1> QED BY <1>1, <1>3 DEF IInv

\* The invariant holds initially.
LEMMA InitIInv == Init => IInv
BY DEF Init, ThreadsInit, IInv, Types, Chosen, SwitchAgrees, At

-----------------------------------------------------------------------------
(* Threads.                                                                *)

\* The masked section of a call that ends in rt_schedule.
LEMMA Leaves ==
  ASSUME IInv, NEW t \in Thread, Runs(t), NEW place \in DOMAIN After, Goto(t, place),
         UNCHANGED <<current, pending, cpu>>, lock' \in Nat
  PROVE  IInv'
<1>1. Types' /\ at'[cpu'] \in DOMAIN After
  BY Debts DEF IInv, Types, Goto, Runs, At
<1>2. SwitchAgrees' /\ pending' = <<>>
  BY DEF IInv, SwitchAgrees, Runs
<1> QED BY <1>1, <1>2, Owed

\* A call that does not touch the ready queues, from one place that owes
\* nothing to another.
LEMMA Stays ==
  ASSUME IInv, NEW t \in Thread, Runs(t), at[t] \notin DOMAIN After,
         at' = at \/ Goto(t, "app") \/ Goto(t, "insert"),
         UNCHANGED <<ready, current, pending, cpu, lock, systick, isr>>
  PROVE  IInv'
<1>1. Types'
  BY DEF IInv, Types, Goto, At
<1>2. cpu = t
  BY DEF Runs
<1> QED BY <1>1, <1>2, Untouched

\* Entering the critical section keeps it,
LEMMA EnterIInv == ASSUME IInv, NEW t \in Thread, rt_enter_critical(t) PROVE IInv'
<1>1. Types' /\ lock' # 0
  BY DEF IInv, Types, rt_enter_critical
<1>2. SwitchAgrees'
  BY DEF IInv, SwitchAgrees, rt_enter_critical, switch
<1> QED BY <1>1, <1>2, Owed

\* leaving it,
LEMMA ExitIInv == ASSUME IInv, NEW t \in Thread, rt_exit_critical(t) PROVE IInv'
<1>1. lock \in Nat \ {0} /\ lock' = lock - 1
  BY DEF IInv, Types, rt_exit_critical
<1>2. CASE lock = 1
  BY <1>1, <1>2, Debts, Leaves DEF rt_exit_critical, InApp, switch
<1>3. CASE lock # 1
  <2>1. Types' /\ lock' # 0
    BY <1>1, <1>3 DEF IInv, Types, rt_exit_critical, Goto, At
  <2>2. SwitchAgrees'
    BY DEF IInv, SwitchAgrees, rt_exit_critical, switch
  <2> QED BY <2>1, <2>2, Owed
<1> QED BY <1>2, <1>3

\* a call of rt_schedule,
LEMMA RescheduleIInv == ASSUME IInv, NEW t \in Thread, Reschedule(t) PROVE IInv'
<1>1. Types'
  BY Debts DEF IInv, Types, Reschedule, Goto, After, At
<1>2. rt_schedule(ready') /\ UNCHANGED <<cpu, lock>>
  BY DEF Reschedule, queues
<1> QED BY <1>1, <1>2, Schedules

\* the calls of a thread,
LEMMA ThreadIInv ==
  ASSUME IInv, NEW t \in Thread,
         \/ rt_enter_critical(t) \/ rt_exit_critical(t) \/ rt_thread_yield(t)
         \/ \E n \in Time : rt_thread_sleep(t, n)
         \/ \E u \in Thread : rt_thread_startup(t, u)
         \/ rt_thread_exit(t) \/ InKernel(t)
  PROVE  IInv'
<1>1. CASE rt_enter_critical(t)
  BY <1>1, EnterIInv
<1>2. CASE rt_exit_critical(t)
  BY <1>2, ExitIInv
<1>3. CASE rt_thread_yield(t)
  BY <1>3, Debts, Leaves DEF rt_thread_yield, InApp, switch, IInv, Types
<1>4. ASSUME NEW n \in Time, rt_thread_sleep(t, n) PROVE IInv'
  BY <1>4, Debts, Leaves DEF rt_thread_sleep, InApp, switch, IInv, Types
<1>5. ASSUME NEW u \in Thread, rt_thread_startup(t, u) PROVE IInv'
  BY <1>5, Debts, Stays DEF rt_thread_startup, InApp, switch
<1>6. CASE rt_thread_exit(t)
  BY <1>6, Debts, Leaves DEF rt_thread_exit, InApp, switch, IInv, Types
<1>7. CASE InsertStarted(t)
  BY <1>7, Debts, Leaves DEF InsertStarted, switch, IInv, Types
<1>8. CASE Reschedule(t)
  BY <1>8, RescheduleIInv
<1>9. CASE WakeUp(t)
  BY <1>9, Debts, Stays DEF WakeUp, switch
<1> QED BY <1>1, <1>2, <1>3, <1>4, <1>5, <1>6, <1>7, <1>8, <1>9 DEF InKernel

\* those on the semaphore,
LEMMA SemaphoreIInv ==
  ASSUME IInv, NEW t \in Thread,
         \/ \E n \in Time \cup {Forever} : rt_sem_take(t, n)
         \/ \E v \in 0..MaxValue : rt_sem_control(t, v)
         \/ rt_sem_release(t) \/ Taken(t)
  PROVE  IInv'
<1>1. ASSUME NEW n \in Time \cup {Forever}, rt_sem_take(t, n) PROVE IInv'
  <2>1. Runs(t) /\ at[t] = "app" /\ UNCHANGED <<current, pending, cpu, lock, systick, isr>>
    BY <1>1 DEF rt_sem_take, InApp, switch
  <2>2. CASE value > 0
    BY <1>1, <2>1, <2>2, Debts, Stays DEF rt_sem_take, queues
  <2>3. CASE ~ (value > 0)
    BY <1>1, <2>1, <2>3, Debts, Leaves DEF rt_sem_take, IInv, Types
  <2> QED BY <2>2, <2>3
<1>2. ASSUME NEW v \in 0..MaxValue, rt_sem_control(t, v) PROVE IInv'
  BY <1>2, Debts, Leaves DEF rt_sem_control, InApp, switch, IInv, Types
<1>3. CASE rt_sem_release(t)
  <2>1. Runs(t) /\ at[t] = "app" /\ UNCHANGED <<current, pending, cpu, lock, systick, isr>>
    BY <1>3 DEF rt_sem_release, InApp, switch
  <2>2. CASE suspended # <<>>
    BY <1>3, <2>1, <2>2, Debts, Leaves DEF rt_sem_release, IInv, Types
  <2>3. CASE suspended = <<>>
    BY <1>3, <2>1, <2>3, Debts, Stays DEF rt_sem_release, Release
  <2> QED BY <2>2, <2>3
<1>4. CASE Taken(t)
  BY <1>4, Debts, Stays DEF Taken, switch
<1> QED BY <1>1, <1>2, <1>3, <1>4

-----------------------------------------------------------------------------
(* Handlers.                                                               *)

\* the tick,
LEMMA TickIInv == ASSUME IInv, Ticks PROVE IInv'
<1>1. CASE SysTick_Handler \/ ChargeSlice
  BY <1>1, Untouched DEF SysTick_Handler, ChargeSlice, queues, switch, IInv, Types
<1>2. CASE TickYield
  <2>1. /\ Types' /\ UNCHANGED <<current, pending, cpu, lock, isr, at>>
        /\ systick' = "switch" \/ (UNCHANGED ready /\ systick = "yield" /\ systick' = "check")
    BY <1>2 DEF TickYield, switch, IInv, Types
  <2>2. CASE systick' = "switch"
    BY <2>1, <2>2, Owed DEF IInv, SwitchAgrees
  <2>3. CASE systick' # "switch"
    BY <2>1, <2>3, Untouched
  <2> QED BY <2>2, <2>3
<1>6. CASE TickSwitch
  BY <1>6, Schedules DEF TickSwitch, queues, IInv, Types
<1>3. CASE TickCheck
  BY <1>3, Untouched DEF TickCheck, queues, switch, IInv, Types
<1>4. CASE TickEnd
  BY <1>4, Untouched DEF TickEnd, queues, switch, IInv, Types
<1>5. ASSUME NEW t \in Thread, rt_thread_timeout(t) PROVE IInv'
  BY <1>5, Schedules DEF rt_thread_timeout, IInv, Types
<1> QED BY <1>1, <1>2, <1>3, <1>4, <1>5, <1>6 DEF Ticks

\* an interrupt that releases,
LEMMA IsrIInv == ASSUME IInv, IsrRelease \/ IsrSchedule PROVE IInv'
<1>1. CASE IsrRelease
  <2>1. Types' /\ isr = "off" /\ UNCHANGED <<current, pending, cpu, lock, systick, at>>
    BY <1>1 DEF IsrRelease, switch, IInv, Types
  <2>2. CASE suspended # <<>>
    BY <1>1, <2>1, <2>2, Owed DEF IsrRelease, IInv, SwitchAgrees
  <2>3. CASE suspended = <<>>
    BY <1>1, <2>1, <2>3, Untouched DEF IsrRelease, Release
  <2> QED BY <2>2, <2>3
<1>2. CASE IsrSchedule
  BY <1>2, Schedules DEF IsrSchedule, queues, IInv, Types
<1> QED BY <1>1, <1>2

\* and the switch itself.
LEMMA PendSVIInv == ASSUME IInv, PendSV_Handler PROVE IInv'
<1>1. /\ Types' /\ pending # <<>> /\ systick = "off" /\ isr = "off"
      /\ pending' = <<>> /\ cpu' = pending[2] /\ UNCHANGED <<ready, current, lock>>
  BY DEF PendSV_Handler, queues, IInv, Types
<1>2. cpu' = current
  BY <1>1 DEF IInv, SwitchAgrees
<1>3. lock = 0 => current = HeadOfHighest(ready)
  BY <1>1 DEF IInv, Chosen
<1>4. Chosen' /\ SwitchAgrees'
  BY <1>1, <1>2, <1>3 DEF Chosen, SwitchAgrees, HeadOfHighest
<1> QED BY <1>1, <1>4 DEF IInv

\* So every step keeps it.
LEMMA NextIInv == IInv /\ [Next]_vars => IInv'
<1> SUFFICES ASSUME IInv, [Next]_vars PROVE IInv'
  OBVIOUS
<1>1. CASE UNCHANGED vars
  BY <1>1, Untouched DEF vars, queues, switch, IInv, Types
<1>2. CASE Ticks
  BY <1>2, TickIInv
<1>3. CASE PendSV_Handler
  BY <1>3, PendSVIInv
<1>4. CASE IsrRelease \/ IsrSchedule
  BY <1>4, IsrIInv
<1> QED BY <1>1, <1>2, <1>3, <1>4, ThreadIInv, SemaphoreIInv DEF Next, ThreadsNext

\* The invariant of the dispatching holds throughout.
THEOREM Inductive == Spec => []IInv
BY InitIInv, NextIInv, PTL DEF Spec

-----------------------------------------------------------------------------
\* Whenever the scheduler is unlocked and nobody owes a call of rt_schedule,
\* rt_current_thread is the first ready thread of the highest priority; and
\* the processor's registers are its own or will be after PendSV, which saves
\* them into the stack of the thread that has them.
THEOREM HighestRuns == Spec => []RunsTheHighest
<1>1. IInv => RunsTheHighest
  BY DEF IInv, Chosen, SwitchAgrees, RunsTheHighest, Settled
<1> QED BY <1>1, Inductive, PTL

-----------------------------------------------------------------------------
(* The queues.  Lists says what they hold; each operation on them keeps it. *)

\* The ready queues q hold the threads R, each once and in the queue of its
\* priority.
Lists(q, R) ==
  /\ q \in [Priority -> Seq(Thread)]
  /\ \A p \in Priority : IsInjective(q[p]) /\ ToSet(q[p]) = {t \in R : priority[t] = p}

\* Before anything is started; a thread made ready; one that leaves; one that
\* goes behind its equals.
LEMMA EmptyLists == Lists([p \in Priority |-> <<>>], {})
BY EmptySeq DEF Lists, IsInjective, ToSet

\* A thread made ready joins the end of its queue.
LEMMA InsertedLists ==
  ASSUME NEW q, NEW R \in SUBSET Thread, Lists(q, R), NEW t \in Thread \ R
  PROVE  Lists(Inserted(q, t), R \cup {t})
<1> DEFINE r == Inserted(q, t)
           pt == priority[t]
<1>1. pt \in Priority /\ q[pt] \in Seq(Thread) /\ t \notin ToSet(q[pt])
  BY ThreadAssumption DEF Priority, Lists
<1>2. /\ r \in [Priority -> Seq(Thread)]
      /\ IsInjective(r[pt]) /\ ToSet(r[pt]) = ToSet(q[pt]) \cup {t}
      /\ \A p \in Priority \ {pt} : r[p] = q[p]
  <2>1. Append(q[pt], t) \in Seq(Thread) /\ IsInjective(Append(q[pt], t))
        /\ ToSet(Append(q[pt], t)) = ToSet(q[pt]) \cup {t}
    BY <1>1, AppendMembers DEF Lists
  <2> QED BY <1>1, <2>1 DEF Lists, Inserted
<1> QED BY <1>1, <1>2 DEF Lists

\* One that leaves is in no queue.
LEMMA RemovedLists ==
  ASSUME NEW q, NEW R \in SUBSET Thread, Lists(q, R), NEW t \in Thread
  PROVE  Lists(Removed(q, t), R \ {t})
<1> DEFINE r == Removed(q, t)
           pt == priority[t]
<1>1. pt \in Priority /\ q[pt] \in Seq(Thread) /\ IsInjective(q[pt])
  BY ThreadAssumption DEF Priority, Lists
<1>2. /\ r \in [Priority -> Seq(Thread)]
      /\ IsInjective(r[pt]) /\ ToSet(r[pt]) = ToSet(q[pt]) \ {t}
      /\ \A p \in Priority \ {pt} : r[p] = q[p]
  <2>1. RemoveFirst(q[pt], t) \in Seq(Thread) /\ IsInjective(RemoveFirst(q[pt], t))
        /\ ToSet(RemoveFirst(q[pt], t)) = ToSet(q[pt]) \ {t}
    BY <1>1, RemovedMembers
  <2> QED BY <1>1, <2>1 DEF Lists, Removed
<1>3. ASSUME NEW p \in Priority
      PROVE  IsInjective(r[p]) /\ ToSet(r[p]) = {u \in R \ {t} : priority[u] = p}
  <2>1. CASE p = pt
    BY <1>2, <2>1 DEF Lists
  <2>2. CASE p # pt
    BY <1>2, <2>2 DEF Lists
  <2> QED BY <2>1, <2>2
<1> QED BY <1>2, <1>3 DEF Lists

\* One that yields goes behind its equals.
LEMMA TailLists ==
  ASSUME NEW q, NEW R \in SUBSET Thread, Lists(q, R), NEW t \in R
  PROVE  Lists(Inserted(Removed(q, t), t), R)
<1>1. Lists(Removed(q, t), R \ {t})
  BY RemovedLists
<1>2. Lists(Inserted(Removed(q, t), t), (R \ {t}) \cup {t})
  BY <1>1, InsertedLists
<1>3. (R \ {t}) \cup {t} = R
  OBVIOUS
<1> QED BY <1>2, <1>3

\* The loop that inserts one thread after the other.
LEMMA LoopInserts ==
  ASSUME NEW q, NEW list, Len(list) \in Nat
  PROVE  \E f : /\ f[0] = q /\ \A i \in 1..Len(list) : f[i] = Inserted(f[i - 1], list[i])
                /\ InsertedAll(q, list) = f[Len(list)]
<1> DEFINE P(m) == \E f : f = [i \in 0..m |-> IF i = 0 THEN q ELSE Inserted(f[i - 1], list[i])]
           S == {m \in Nat : ~ P(m)}
<1>1. ASSUME S # {} PROVE FALSE
  <2>1. PICK m \in S : \A k \in S : m <= k
    <3> HIDE DEF P
    <3> QED BY <1>1, Least
  <2>2. m # 0
    <3>1. P(0)
      <4> DEFINE f == [i \in 0..0 |-> q]
      <4>1. f = [i \in 0..0 |-> IF i = 0 THEN q ELSE Inserted(f[i - 1], list[i])]
        OBVIOUS
      <4> QED BY <4>1
    <3> QED BY <2>1, <3>1
  <2>3. m \in Nat /\ m - 1 \in Nat /\ P(m - 1)
    <3> HIDE DEF P
    <3> QED BY <2>1, <2>2
  <2>4. PICK g : g = [i \in 0..m - 1 |-> IF i = 0 THEN q ELSE Inserted(g[i - 1], list[i])]
    BY <2>3
  <2> DEFINE f == [i \in 0..m |-> IF i < m THEN g[i] ELSE Inserted(g[m - 1], list[m])]
  <2>5. ASSUME NEW i \in 0..m
        PROVE  f[i] = IF i = 0 THEN q ELSE Inserted(f[i - 1], list[i])
    <3>1. CASE i = m
      <4>1. f[i] = Inserted(g[m - 1], list[m]) /\ f[i - 1] = g[m - 1]
        BY <2>3, <3>1
      <4> QED BY <2>2, <3>1, <4>1
    <3>2. CASE i # m
      <4>1. i \in 0..m - 1 /\ f[i] = g[i] /\ (i # 0 => f[i - 1] = g[i - 1])
        BY <2>3, <3>2
      <4>2. g[i] = IF i = 0 THEN q ELSE Inserted(g[i - 1], list[i])
        BY <2>4, <4>1
      <4> QED BY <4>1, <4>2
    <3> QED BY <3>1, <3>2
  <2>6. f = [i \in 0..m |-> IF i = 0 THEN q ELSE Inserted(f[i - 1], list[i])]
    BY <2>5, Zenon
  <2> QED BY <2>1, <2>6
<1>2. P(Len(list))
  <2> HIDE DEF P
  <2> QED BY <1>1
<1> DEFINE f == CHOOSE f : f = [i \in 0..Len(list) |-> IF i = 0 THEN q ELSE Inserted(f[i - 1], list[i])]
<1>3. f = [i \in 0..Len(list) |-> IF i = 0 THEN q ELSE Inserted(f[i - 1], list[i])]
  BY <1>2, Zenon
<1>4. InsertedAll(q, list) = f[Len(list)]
  BY Zenon DEF InsertedAll
<1> HIDE DEF f
<1>5. f[0] = q /\ \A i \in 1..Len(list) : f[i] = Inserted(f[i - 1], list[i])
  BY <1>3
<1> QED BY <1>4, <1>5

\* All of a list become ready, once each.
LEMMA InsertedAllLists ==
  ASSUME NEW q, NEW R \in SUBSET Thread, Lists(q, R),
         NEW list \in Seq(Thread), IsInjective(list), ToSet(list) \cap R = {}
  PROVE  Lists(InsertedAll(q, list), R \cup ToSet(list))
<1> DEFINE n == Len(list)
<1>1. n \in Nat /\ DOMAIN list = 1..n /\ \A i \in 1..n : list[i] \in Thread
  BY LenProperties
<1>2. PICK f : /\ f[0] = q /\ \A i \in 1..n : f[i] = Inserted(f[i - 1], list[i])
               /\ InsertedAll(q, list) = f[n]
  BY <1>1, LoopInserts, Zenon
<1> DEFINE Upto(i) == R \cup {list[j] : j \in 1..i}
           P(i) == Lists(f[i], Upto(i))
           S == {i \in Nat : i <= n /\ ~ P(i)}
<1>3. SUFFICES ASSUME S # {} PROVE FALSE
  <2>1. P(n)
    <3> HIDE DEF P
    <3> QED BY <1>1, <1>3
  <2>2. Upto(n) = R \cup ToSet(list)
    BY <1>1 DEF ToSet
  <2> QED BY <1>2, <2>1, <2>2
<1>4. PICK m \in S : \A k \in S : m <= k
  BY <1>3, Least
<1>5. m # 0
  <2>1. Upto(0) = R
    OBVIOUS
  <2> QED BY <1>2, <1>4, <2>1
<1>6. m \in 1..n /\ m - 1 \in 0..n /\ P(m - 1)
  <2> HIDE DEF P
  <2> QED BY <1>1, <1>4, <1>5
<1>7. list[m] \in Thread \ Upto(m - 1) /\ Upto(m - 1) \in SUBSET Thread
  BY <1>1, <1>6 DEF ToSet, IsInjective
<1>8. Lists(Inserted(f[m - 1], list[m]), Upto(m - 1) \cup {list[m]})
  BY <1>6, <1>7, InsertedLists
<1>9. Upto(m - 1) \cup {list[m]} = Upto(m)
  BY <1>6
<1> QED BY <1>2, <1>4, <1>6, <1>8, <1>9

\* The thread rt_schedule chooses is ready.
LEMMA ChosenIsReady ==
  ASSUME NEW q, NEW R \in SUBSET Thread, Lists(q, R), Idle \in R
  PROVE  HeadOfHighest(q) \in R
<1> DEFINE Used == {p \in Priority : q[p] # <<>>}
<1>1. Priority \in SUBSET Nat
  BY ThreadAssumption DEF Priority
<1>2. priority[Idle] \in Used
  <2>1. Idle \in ToSet(q[priority[Idle]]) /\ priority[Idle] \in Priority
    BY DEF Lists, Priority
  <2>2. q[priority[Idle]] # <<>>
    BY <2>1 DEF ToSet
  <2> QED BY <2>1, <2>2
<1>3. \E p \in Used : \A r \in Used : p <= r
  BY <1>1, <1>2, Least
<1> DEFINE top == CHOOSE p \in Priority : q[p] # <<>> /\ \A r \in Priority : q[r] # <<>> => p <= r
<1>4. top \in Priority /\ q[top] # <<>>
  <2>1. \E p \in Priority : q[p] # <<>> /\ \A r \in Priority : q[r] # <<>> => p <= r
    BY <1>3
  <2> QED BY <2>1, Zenon
<1>5. HeadOfHighest(q) = Head(q[top])
  BY Zenon DEF HeadOfHighest
<1> HIDE DEF top
<1>6. q[top] \in Seq(Thread) /\ ToSet(q[top]) \subseteq R
  BY <1>4 DEF Lists
<1>7. Len(q[top]) \in Nat \ {0} /\ Head(q[top]) = q[top][1]
  BY <1>4, <1>6, EmptySeq
<1>8. Head(q[top]) \in ToSet(q[top])
  BY <1>6, <1>7, Members
<1> QED BY <1>5, <1>6, <1>8

\* rt_ipc_list_suspend puts the thread somewhere into the list.
LEMMA EnqueuedMembers ==
  ASSUME NEW t \in Thread, suspended \in Seq(Thread), IsInjective(suspended), t \notin ToSet(suspended)
  PROVE  /\ Enqueued(t) \in Seq(Thread) /\ IsInjective(Enqueued(t))
         /\ ToSet(Enqueued(t)) = ToSet(suspended) \cup {t}
<1> DEFINE I == {j \in 1..Len(suspended) : ByPriority /\ priority[t] < priority[suspended[j]]}
           i == SelectInSeq(suspended, LAMBDA u : ByPriority /\ priority[t] < priority[u])
<1>1. i = IF I # {} THEN Min(I) ELSE 0
  BY Zenon DEF SelectInSeq
<1>2. Enqueued(t) = IF i = 0 THEN Append(suspended, t) ELSE InsertAt(suspended, i, t)
  BY Zenon DEF Enqueued
<1> HIDE DEF i
<1>3. i # 0 => i \in 1..Len(suspended) + 1
  <2>1. I \in SUBSET Nat /\ Len(suspended) \in Nat
    BY LenProperties
  <2>2. I # {} => Min(I) \in I
    BY <2>1, MinIsLeast
  <2> QED BY <1>1, <2>1, <2>2
<1>4. CASE i = 0
  BY <1>2, <1>4, AppendMembers
<1>5. CASE i # 0
  BY <1>2, <1>3, <1>5, InsertedMembers
<1> QED BY <1>4, <1>5

-----------------------------------------------------------------------------
(* The inductive invariant of the queues: what the state of each thread says *)
(* about the lists it is in, about where its code is, and about who is to    *)
(* wake it.  That a suspended thread is in a list is not inductive without   *)
(* the places: rt_thread_startup leaves its thread in none for a moment,     *)
(* rt_sem_take has put its thread in both the semaphore's and the timers',   *)
(* and a thread that has suspended itself still has the processor.           *)

\* rt_thread_startup has resumed t, and not yet put it into a queue.
BeingStarted(t) == \E u \in Thread : at[u] = "insert" /\ starting[u] = t
\* The threads that can run.
Ready == {t \in Thread : stat[t] = "READY"}
\* Within rt_sem_take, and on the way to blocking or ending.
Waiting == {"take", "took"}
Leaving == {"sleep", "take", "exit"}

\* The types; remaining has its own below, pending follows from SwitchAgrees.
QTypes ==
  /\ stat \in [Thread -> {"INIT", "READY", "SUSPEND", "CLOSE"}]
  /\ error \in [Thread -> {"EOK", "ETIMEOUT", "ERROR"}]
  /\ at \in [Thread -> At] /\ starting \in [Thread -> Thread]
  /\ value \in 0..MaxValue /\ lock \in 0..MaxNest
  /\ current \in Thread /\ cpu \in Thread
  /\ systick \in {"off", "tick", "yield", "switch", "check"} /\ isr \in {"off", "resched"}

\* Exactly the READY threads are in the ready queues.
ReadyLists == Lists(ready, Ready)

\* Who waits in the semaphore's list has been given no result yet, and there
\* is no token for it.
Waiters ==
  /\ suspended \in Seq(Thread) /\ IsInjective(suspended)
  /\ \A t \in ToSet(suspended) : stat[t] = "SUSPEND" /\ at[t] \in Waiting /\ error[t] = "EOK"
  /\ value > 0 => suspended = <<>>

\* A timer that runs is that of a suspended thread, and a suspended thread
\* has somebody to wake it.
Sleepers ==
  /\ DOMAIN left \subseteq Thread
  /\ \A t \in DOMAIN left : stat[t] = "SUSPEND"
  /\ \A t \in Thread : stat[t] = "SUSPEND" =>
       t \in DOMAIN left \/ t \in ToSet(suspended) \/ BeingStarted(t)

\* Where a thread that is not READY can be in its code.
Places == \A t \in Thread :
  /\ stat[t] = "INIT" => at[t] = "app"
  /\ stat[t] = "SUSPEND" => at[t] \in Waiting \cup {"sleep", "slept"} \/ BeingStarted(t)

\* A thread being started waits for nothing else, and one thread starts it.
Starts ==
  /\ \A t \in Thread : at[t] = "insert" =>
       stat[starting[t]] = "SUSPEND" /\ at[starting[t]] = "app" /\ starting[t] \notin DOMAIN left
  /\ \A t, u \in Thread : at[t] = "insert" /\ at[u] = "insert" /\ starting[t] = starting[u] => t = u

\* The processor is with a ready thread, or with one on its way to the call of
\* rt_schedule with which it blocks or ends; nobody switches while locked.
Dispatch ==
  /\ stat[Idle] = "READY"
  /\ pending # <<>> => lock = 0 /\ stat[current] = "READY"
  /\ at[cpu] \in Leaving => lock = 0
  /\ pending = <<>> /\ at[cpu] \notin Leaving \cup {"gone"} => stat[cpu] = "READY"

\* Of the takers that have been woken, error is EOK for those a release chose.
Tokens ==
  /\ granted \subseteq {t \in Thread : at[t] \in Waiting /\ stat[t] = "READY"}
  /\ \A t \in Thread : at[t] \in Waiting /\ stat[t] = "READY" => (error[t] = "EOK" <=> t \in granted)

\* The inductive invariant of the queues.
QInv == QTypes /\ ReadyLists /\ Waiters /\ Sleepers /\ Places /\ Starts /\ Dispatch /\ Tokens

\* The idle thread is started with the others, and never blocks.
LEMMA IdleIsThread == Idle \in Thread
BY ThreadAssumption, Members

\* What the calls of the timers do to the set of those that run.
LEMMA Begins ==
  ASSUME NEW t \in Thread, NEW n, Timers!Begin(t, n)
  PROVE  DOMAIN left' = DOMAIN left \cup {t}
BY DEF Timers!Begin

\* rt_timer_stop takes timers away,
LEMMA Stops ==
  ASSUME NEW S, StopTimers(S)
  PROVE  DOMAIN left' = DOMAIN left \ S
BY DEF StopTimers

\* so does a timeout,
LEMMA Calls ==
  ASSUME NEW t \in Thread, Timers!Call(t)
  PROVE  t \in DOMAIN left /\ DOMAIN left' = DOMAIN left \ {t}
BY DEF Timers!Call, Timers!NextToCall, Timers!Over, Timers!Restriction

\* and a tick alone does not.
LEMMA Elapses ==
  ASSUME Timers!Elapse
  PROVE  DOMAIN left' = DOMAIN left
BY DEF Timers!Elapse

\* The thread that runs.
LEMMA Running ==
  ASSUME QInv, NEW t \in Thread, Runs(t)
  PROVE  /\ cpu = t /\ pending = <<>> /\ isr = "off" /\ systick = "off"
         /\ at[t] \in Leaving => lock = 0
         /\ at[t] \notin Leaving \cup {"gone"} => stat[t] = "READY"
BY DEF QInv, Dispatch, Runs

\* The queues of the next state.
LEMMA ReadyNow == ASSUME Lists(ready', Ready') PROVE ReadyLists'
BY DEF ReadyLists, Lists

\* A list without members is the empty one.
LEMMA NoneLeft ==
  ASSUME NEW s \in Seq(Thread), ToSet(s) = {} PROVE s = <<>>
<1>1. Len(s) \in Nat /\ ~ \E i \in 1..Len(s) : TRUE
  BY Members, LenProperties
<1> QED BY <1>1, EmptySeq

\* The threads being started stay the same.
LEMMA StillStarted ==
  ASSUME QTypes, UNCHANGED starting, \A t \in Thread : at'[t] = "insert" <=> at[t] = "insert"
  PROVE  \A t \in Thread : BeingStarted(t)' <=> BeingStarted(t)
BY DEF BeingStarted, QTypes

\* What rt_schedule does.
LEMMA Dispatches ==
  ASSUME QTypes, NEW q, NEW R \in SUBSET Thread, Lists(q, R), Idle \in R, rt_schedule(q)
  PROVE  /\ current' \in Thread
         /\ \/ UNCHANGED <<current, pending>> /\ (lock = 0 => current \in R)
            \/ lock = 0 /\ current' \in R /\ pending' # <<>>
<1>1. HeadOfHighest(q) \in R
  BY ChosenIsReady
<1>2. pending' # <<>> \/ UNCHANGED switch
  BY DEF rt_schedule, Switch
<1>3. CASE lock = 0 /\ HeadOfHighest(q) # current
  <2>1. current' = HeadOfHighest(q) /\ Switch(HeadOfHighest(q))
    BY <1>3 DEF rt_schedule
  <2>2. pending' # <<>>
    BY <2>1 DEF Switch
  <2> QED BY <1>1, <1>3, <2>1, <2>2
<1>4. CASE ~ (lock = 0 /\ HeadOfHighest(q) # current)
  BY <1>1, <1>4 DEF rt_schedule, switch, QTypes
<1> QED BY <1>3, <1>4

\* Steps of the scheduler and of the tick, which leave the threads' states and
\* lists alone, but for the order of equals.
LEMMA Quiet ==
  ASSUME QInv, QTypes', ReadyLists', Dispatch', DOMAIN left' = DOMAIN left,
         UNCHANGED <<stat, error, suspended, at, starting, granted>>,
         value' > 0 => value > 0
  PROVE  QInv'
<1>1. \A t \in Thread : BeingStarted(t)' <=> BeingStarted(t)
  BY StillStarted DEF QInv
<1>2. Waiters'
  BY DEF QInv, Waiters
<1>3. Sleepers'
  BY <1>1 DEF QInv, Sleepers
<1>4. Places'
  BY <1>1 DEF QInv, Places
<1>5. Starts'
  BY DEF QInv, Starts
<1>6. Tokens'
  BY DEF QInv, Tokens
<1> QED BY <1>2, <1>3, <1>4, <1>5, <1>6 DEF QInv

\* A thread goes on in its code.
LEMMA GoesOn ==
  ASSUME QInv, QTypes', ReadyLists', Dispatch', NEW t \in Thread, NEW place \in At,
         at' = [at EXCEPT ![t] = place], at[t] # "insert", place # "insert",
         place \in Waiting <=> at[t] \in Waiting,
         \/ stat[t] \in {"READY", "CLOSE"}
         \/ at[t] # "app" /\ place \in Waiting \cup {"sleep", "slept"} /\ stat[t] # "INIT", \A u \in Thread \ {t} : error'[u] = error[u],
         error'[t] = error[t] \/ at[t] \notin Waiting,
         UNCHANGED <<stat, suspended, left, starting, value, granted>>
  PROVE  QInv'
<1> USE DEF QInv
<1>1. \A u \in Thread : BeingStarted(u)' <=> BeingStarted(u)
  BY StillStarted DEF QTypes
<1>2. Waiters'
  BY Members DEF Waiters, QTypes
<1>3. Sleepers'
  BY <1>1 DEF Sleepers
<1>4. Places'
  BY <1>1 DEF Places, QTypes
<1>5. Starts'
  <2>1. ~ \E u \in Thread : at[u] = "insert" /\ starting[u] = t
    BY DEF Starts, QTypes
  <2> QED BY <2>1 DEF Starts, QTypes
<1>6. Tokens'
  BY DEF Tokens, QTypes
<1> QED BY <1>2, <1>3, <1>4, <1>5, <1>6

\* The list of the ready threads is as it was, or equals have changed places.
LEMMA SameLists ==
  ASSUME QInv, UNCHANGED stat,
         ready' = ready \/ \E t \in Ready : ready' = Inserted(Removed(ready, t), t)
  PROVE  ReadyLists'
<1>1. Ready' = Ready /\ Lists(ready, Ready) /\ Ready \in SUBSET Thread
  BY DEF Ready, QInv, ReadyLists
<1>2. Lists(ready', Ready)
  BY <1>1, TailLists
<1> QED BY <1>1, <1>2, ReadyNow

\* A call of rt_schedule by the tick or by another handler.
LEMMA ScheduleQuiet ==
  ASSUME QInv, QTypes', rt_schedule(ready),
         UNCHANGED <<queues, lock, cpu, at, starting, timers, sem>>
  PROVE  QInv'
<1>1. /\ current' \in Thread
      /\ \/ UNCHANGED <<current, pending>>
         \/ lock = 0 /\ current' \in Ready /\ pending' # <<>>
  <2>1. Ready \in SUBSET Thread /\ Idle \in Ready
    BY IdleIsThread DEF QInv, Dispatch, Ready
  <2> QED BY <2>1, Dispatches DEF QInv, ReadyLists
<1>2. Dispatch'
  BY <1>1 DEF QInv, Dispatch, queues, Ready, QTypes
<1>3. ReadyLists'
  BY SameLists DEF queues
<1> QED BY <1>2, <1>3, Quiet DEF queues, timers, sem

\* The time slice, its yield, and rt_timer_check around the calls.
LEMMA TickQInv ==
  ASSUME QInv, IInv, UNCHANGED sem, SysTick_Handler \/ ChargeSlice \/ TickYield \/ TickSwitch \/ TickCheck \/ TickEnd
  PROVE  QInv'
<1>1. CASE SysTick_Handler \/ ChargeSlice
  <2>1. /\ UNCHANGED <<ready, stat, error, suspended, lock, current, pending, cpu, at, starting, isr, left, value, granted>>
        /\ systick' \in {"tick", "yield", "check"}
    BY <1>1 DEF SysTick_Handler, ChargeSlice, queues, switch, timers, sem
  <2>2. QTypes' /\ Dispatch' /\ ReadyLists'
    BY <2>1, SameLists DEF QInv, QTypes, Dispatch
  <2> QED BY <2>1, <2>2, Quiet
<1>4. CASE TickYield
  <2>1. /\ UNCHANGED <<stat, error, suspended, lock, current, pending, cpu, at, starting, isr, left, value, granted>>
        /\ systick' \in {"switch", "check"}
        /\ ready' = ready \/ (stat[current] = "READY" /\ ready' = Inserted(Removed(ready, current), current))
    BY <1>4 DEF TickYield, MayYield, ToTheTail, switch, timers, sem
  <2>2. QTypes' /\ Dispatch'
    BY <2>1 DEF QInv, QTypes, Dispatch
  <2>3. ReadyLists'
    BY <2>1, SameLists DEF QInv, QTypes, Ready
  <2> QED BY <2>1, <2>2, <2>3, Quiet
<1>2. CASE TickSwitch
  <2>1. QTypes'
    <3>1. Ready \in SUBSET Thread /\ Idle \in Ready
      BY IdleIsThread DEF QInv, Dispatch, Ready
    <3>2. current' \in Thread
      BY <1>2, <3>1, Dispatches DEF QInv, ReadyLists, TickSwitch
    <3> QED BY <1>2, <3>2 DEF QInv, QTypes, TickSwitch, queues, sem
  <2> QED BY <1>2, <2>1, ScheduleQuiet DEF TickSwitch
<1>3. CASE TickCheck \/ TickEnd
  <2>1. /\ UNCHANGED <<ready, stat, error, suspended, lock, current, pending, cpu, at, starting, isr, value, granted>>
        /\ systick' \in {"off", systick}
    BY <1>3 DEF TickCheck, TickEnd, queues, switch, sem
  <2>2. DOMAIN left' = DOMAIN left
    BY <1>3, Elapses DEF TickCheck, TickEnd, Timers!Served
  <2>3. QTypes' /\ Dispatch'
    BY <2>1 DEF QInv, QTypes, Dispatch
  <2>4. ReadyLists'
    BY <2>1, SameLists
  <2> QED BY <2>1, <2>2, <2>3, <2>4, Quiet
<1> QED BY <1>1, <1>2, <1>3, <1>4

\* The processor goes to the thread that was chosen.
LEMMA PendSVQInv ==
  ASSUME QInv, IInv, UNCHANGED sem, PendSV_Handler
  PROVE  QInv'
<1>1. /\ UNCHANGED <<ready, stat, error, suspended, lock, current, at, starting, systick, isr, left, value, granted>>
      /\ pending # <<>> /\ pending' = <<>> /\ cpu' = pending[2]
  BY DEF PendSV_Handler, queues, timers, sem
<1>2. cpu' = current
  BY <1>1 DEF IInv, SwitchAgrees
<1>3. QTypes' /\ Dispatch'
  BY <1>1, <1>2 DEF QInv, QTypes, Dispatch
<1>4. ReadyLists'
  BY <1>1, SameLists
<1> QED BY <1>1, <1>3, <1>4, Quiet

\* The interrupt's rt_schedule keeps the invariant.
LEMMA IsrScheduleQInv ==
  ASSUME QInv, IInv, IsrSchedule
  PROVE  QInv'
<1>1. QTypes'
  <2>1. Ready \in SUBSET Thread /\ Idle \in Ready
    BY IdleIsThread DEF QInv, Dispatch, Ready
  <2>2. current' \in Thread
    BY <2>1, Dispatches DEF QInv, ReadyLists, IsrSchedule
  <2> QED BY <2>2 DEF QInv, QTypes, IsrSchedule, queues, sem
<1> QED BY <1>1, ScheduleQuiet DEF IsrSchedule

\* Nesting and unnesting the lock keep it.
LEMMA CriticalQInv ==
  ASSUME QInv, UNCHANGED sem, NEW t \in Thread, rt_enter_critical(t) \/ rt_exit_critical(t)
  PROVE  QInv'
<1>1. /\ Runs(t) /\ at[t] = "app"
      /\ UNCHANGED <<stat, error, ready, suspended, current, pending, cpu, starting, systick, isr, left, value, granted>>
  BY DEF rt_enter_critical, rt_exit_critical, InApp, queues, switch, timers, sem
<1>2. stat[t] = "READY" /\ cpu = t /\ pending = <<>>
  BY <1>1, Running DEF Leaving
<1>3. ReadyLists'
  BY <1>1, SameLists
<1>4. CASE rt_enter_critical(t)
  <2>1. at' = at /\ lock' \in 0..MaxNest
    BY <1>4, BoundsAssumption DEF rt_enter_critical, QInv, QTypes
  <2>2. QTypes' /\ Dispatch'
    BY <1>1, <1>2, <2>1 DEF QInv, QTypes, Dispatch, Leaving
  <2> QED BY <1>1, <1>3, <2>1, <2>2, Quiet
<1>5. CASE rt_exit_critical(t)
  <2> DEFINE place == IF lock = 1 THEN "resched" ELSE "app"
  <2>1. at' = [at EXCEPT ![t] = place] /\ lock' \in 0..MaxNest /\ place \in {"resched", "app"}
    BY <1>5, BoundsAssumption DEF rt_exit_critical, QInv, QTypes, Goto
  <2> HIDE DEF place
  <2>2. QTypes' /\ Dispatch'
    BY <1>1, <1>2, <2>1 DEF QInv, QTypes, Dispatch, Leaving, At
  <2> QED BY <1>1, <1>2, <1>3, <2>1, <2>2, GoesOn DEF At, Waiting
<1> QED BY <1>4, <1>5

\* rt_thread_yield keeps it.
LEMMA YieldQInv ==
  ASSUME QInv, UNCHANGED sem, NEW t \in Thread, rt_thread_yield(t)
  PROVE  QInv'
<1>1. /\ Runs(t) /\ at[t] = "app" /\ stat[t] = "READY" /\ at' = [at EXCEPT ![t] = "resched"]
      /\ ready' = Inserted(Removed(ready, t), t)
      /\ UNCHANGED <<stat, error, suspended, lock, current, pending, cpu, starting, systick, isr, left, value, granted>>
  BY DEF rt_thread_yield, InApp, MayYield, ToTheTail, Goto, switch, timers, sem
<1>2. cpu = t
  BY <1>1 DEF Runs
<1>3. ReadyLists'
  BY <1>1, SameLists DEF Ready
<1>4. QTypes' /\ Dispatch'
  BY <1>1, <1>2 DEF QInv, QTypes, Dispatch, Leaving, At
<1> QED BY <1>1, <1>3, <1>4, GoesOn DEF At, Waiting

\* So does the way out of rt_thread_sleep.
LEMMA WakeUpQInv ==
  ASSUME QInv, UNCHANGED sem, NEW t \in Thread, WakeUp(t)
  PROVE  QInv'
<1>1. /\ Runs(t) /\ at[t] = "slept" /\ at' = [at EXCEPT ![t] = "app"]
      /\ error' = [error EXCEPT ![t] = IF @ = "ETIMEOUT" THEN "EOK" ELSE @]
      /\ UNCHANGED <<stat, ready, suspended, lock, current, pending, cpu, starting, systick, isr, left, value, granted>>
  BY DEF WakeUp, Goto, switch, timers, sem
<1>2. stat[t] = "READY" /\ cpu = t
  BY <1>1, Running DEF Leaving
<1>3. ReadyLists'
  BY <1>1, SameLists
<1>4. QTypes' /\ Dispatch'
  BY <1>1, <1>2 DEF QInv, QTypes, Dispatch, Leaving, At
<1>5. error' \in [Thread -> {"EOK", "ETIMEOUT", "ERROR"}] /\ \A u \in Thread \ {t} : error'[u] = error[u]
  BY <1>1 DEF QInv, QTypes
<1> QED BY <1>1, <1>2, <1>3, <1>4, <1>5, GoesOn DEF At, Waiting

\* A thread that is about to block, or to end, and is switched away from here
\* or was before; woken meanwhile, it goes on.
LEMMA RescheduleQInv ==
  ASSUME QInv, IInv, UNCHANGED sem, NEW t \in Thread, Reschedule(t)
  PROVE  QInv'
<1>1. /\ Runs(t) /\ at[t] \in DOMAIN After /\ at' = [at EXCEPT ![t] = After[at[t]]] /\ rt_schedule(ready)
      /\ UNCHANGED <<stat, error, ready, suspended, lock, cpu, starting, systick, isr, left, value, granted>>
  BY DEF Reschedule, Goto, queues, timers, sem
<1>2. cpu = t /\ current = t /\ pending = <<>> /\ (at[t] \in Leaving => lock = 0) /\ (at[t] = "resched" => stat[t] = "READY")
  BY <1>1, Running DEF Leaving, IInv, SwitchAgrees
<1>3. /\ current' \in Thread
      /\ \/ UNCHANGED <<current, pending>> /\ (lock = 0 => current \in Ready)
         \/ lock = 0 /\ current' \in Ready /\ pending' # <<>>
  <2>1. Ready \in SUBSET Thread /\ Idle \in Ready
    BY IdleIsThread DEF QInv, Dispatch, Ready
  <2> QED BY <1>1, <2>1, Dispatches DEF QInv, ReadyLists
<1>4. /\ at[t] \in {"resched", "sleep", "take", "exit"}
      /\ (at[t] = "resched" => After[at[t]] = "app") /\ (at[t] = "sleep" => After[at[t]] = "slept")
      /\ (at[t] = "take" => After[at[t]] = "took") /\ (at[t] = "exit" => After[at[t]] = "gone")
  BY <1>1 DEF After
<1>5. QTypes' /\ Dispatch'
  BY <1>1, <1>2, <1>3, <1>4 DEF QInv, QTypes, Dispatch, Leaving, At, Ready
<1>6. ReadyLists'
  BY <1>1, SameLists
<1>7. \/ stat[t] \in {"READY", "CLOSE"}
      \/ at[t] # "app" /\ After[at[t]] \in Waiting \cup {"sleep", "slept"} /\ stat[t] # "INIT"
  <2>1. CASE at[t] = "exit"
    BY <2>1 DEF QInv, Places, QTypes, Starts, BeingStarted, Waiting
  <2>2. CASE at[t] # "exit"
    BY <1>1, <1>2, <1>4, <2>2 DEF QInv, Places, QTypes, Waiting
  <2> QED BY <2>1, <2>2
<1> QED BY <1>1, <1>4, <1>5, <1>6, <1>7, GoesOn DEF At, Waiting

\* A thread blocks, for some time, in the semaphore's list, or both.
LEMMA BlockQInv ==
  ASSUME QInv, NEW t \in Thread, Runs(t), at[t] = "app", t # Idle, lock = 0, NEW place,
         stat' = [stat EXCEPT ![t] = "SUSPEND"], ready' = Removed(ready, t), Goto(t, place),
         UNCHANGED <<lock, switch, cpu, starting, systick, isr, granted, value>>,
         \/ /\ place = "sleep" /\ UNCHANGED <<suspended, error>>
            /\ DOMAIN left' = DOMAIN left \cup {t}
         \/ /\ place = "take" /\ value = 0
            /\ suspended' = Enqueued(t) /\ error' = [error EXCEPT ![t] = "EOK"]
            /\ DOMAIN left' \in {DOMAIN left \ {t}, DOMAIN left \cup {t}}
  PROVE  QInv'
<1> USE DEF QInv
<1>1. /\ stat[t] = "READY" /\ cpu = t /\ pending = <<>>
      /\ UNCHANGED <<starting, lock, current, pending, cpu, value, granted, systick, isr>>
      /\ at' = [at EXCEPT ![t] = place] /\ place \in {"sleep", "take"}
  BY Running DEF switch, Leaving, Goto
<1>2. /\ suspended' \in Seq(Thread) /\ IsInjective(suspended')
      /\ ToSet(suspended') = IF place = "take" THEN ToSet(suspended) \cup {t} ELSE ToSet(suspended)
      /\ value > 0 => suspended' = <<>>
  <2>1. t \notin ToSet(suspended)
    BY <1>1 DEF Waiters
  <2>2. CASE place = "sleep"
    BY <2>2 DEF Waiters
  <2>3. CASE place = "take"
    BY <2>1, <2>3, EnqueuedMembers DEF Waiters
  <2> QED BY <1>1, <2>2, <2>3
<1>3. error' \in [Thread -> {"EOK", "ETIMEOUT", "ERROR"}] /\ (\A u \in Thread \ {t} : error'[u] = error[u])
      /\ (place = "take" => error'[t] = "EOK")
  BY DEF QTypes
<1>4. \A u \in Thread \ {t} : u \in DOMAIN left' <=> u \in DOMAIN left
  OBVIOUS
<1>5. DOMAIN left' \subseteq Thread /\ (place = "sleep" => t \in DOMAIN left')
  BY DEF Sleepers
<1>6. QTypes'
  BY <1>1, <1>3 DEF QTypes, At
<1>7. ReadyLists'
  <2>1. Ready' = Ready \ {t}
    BY <1>1 DEF Ready, QTypes
  <2>2. Lists(Removed(ready, t), Ready \ {t})
    BY RemovedLists DEF ReadyLists, Ready
  <2> QED BY <2>1, <2>2, ReadyNow
<1>8. Waiters'
  <2>1. t \notin ToSet(suspended) /\ ToSet(suspended) \subseteq Thread
    BY <1>1, Members DEF Waiters
  <2>2. ASSUME NEW u \in ToSet(suspended')
        PROVE  stat'[u] = "SUSPEND" /\ at'[u] \in Waiting /\ error'[u] = "EOK"
    BY <1>1, <1>2, <1>3, <2>1 DEF Waiters, QTypes, Waiting
  <2> QED BY <1>1, <1>2, <2>2 DEF Waiters
<1>9. \A u \in Thread : BeingStarted(u)' <=> BeingStarted(u)
  BY <1>1, StillStarted DEF QTypes
<1>10. Sleepers'
  BY <1>1, <1>2, <1>4, <1>5, <1>9 DEF Sleepers, QTypes
<1>11. Places'
  BY <1>1, <1>9 DEF Places, QTypes, Waiting
<1>12. Starts'
  BY <1>1, <1>4 DEF Starts, QTypes
<1>13. Dispatch'
  BY <1>1, IdleIsThread DEF Dispatch, QTypes, Leaving
<1>14. Tokens'
  BY <1>1, <1>3 DEF Tokens, QTypes, Waiting
<1> QED BY <1>6, <1>7, <1>8, <1>10, <1>11, <1>12, <1>13, <1>14

\* The calls that block.
LEMMA SleepQInv ==
  ASSUME QInv, UNCHANGED sem, NEW t \in Thread, NEW n \in Time, rt_thread_sleep(t, n)
  PROVE  QInv'
<1>1. DOMAIN left' = DOMAIN left \cup {t}
  BY Begins DEF rt_thread_sleep
<1> QED BY <1>1, BlockQInv DEF rt_thread_sleep, InApp, sem

\* rt_sem_take keeps it, with and without a token.
LEMMA TakeQInv ==
  ASSUME QInv, NEW t \in Thread, NEW n \in Time \cup {Forever}, rt_sem_take(t, n)
  PROVE  QInv'
<1>1. CASE value > 0
  <2>1. /\ UNCHANGED <<stat, error, ready, suspended, at, lock, switch, cpu, starting, systick, isr, left, granted>>
        /\ value' = value - 1
    BY <1>1 DEF rt_sem_take, queues, timers
  <2>2. QTypes' /\ Dispatch'
    BY <1>1, <2>1, SemAssumption DEF QInv, QTypes, Dispatch, switch
  <2>3. ReadyLists'
    BY <2>1, SameLists
  <2>4. value' > 0 => value > 0
    BY <1>1
  <2> QED BY <2>1, <2>2, <2>3, <2>4, Quiet
<1>2. CASE ~ (value > 0)
  <2>1. /\ Runs(t) /\ at[t] = "app" /\ t # Idle /\ lock = 0
        /\ stat' = [stat EXCEPT ![t] = "SUSPEND"] /\ ready' = Removed(ready, t) /\ Goto(t, "take")
        /\ suspended' = Enqueued(t) /\ error' = [error EXCEPT ![t] = "EOK"]
        /\ IF n = Forever THEN StopTimers({t}) ELSE Timers!Begin(t, n)
        /\ UNCHANGED <<lock, switch, cpu, starting, systick, isr, granted, value>>
    BY <1>2 DEF rt_sem_take, InApp
  <2>2. DOMAIN left' \in {DOMAIN left \ {t}, DOMAIN left \cup {t}}
    BY <2>1, Stops, Begins
  <2>3. value = 0
    BY <1>2, SemAssumption DEF QInv, QTypes
  <2> QED BY <2>1, <2>2, <2>3, BlockQInv
<1> QED BY <1>1, <1>2

\* A taker leaves with its result.
LEMMA TakenQInv ==
  ASSUME QInv, NEW t \in Thread, Taken(t)
  PROVE  QInv'
<1> USE DEF QInv
<1>1. /\ Runs(t) /\ at[t] = "took" /\ at' = [at EXCEPT ![t] = "app"]
      /\ granted' = granted \ {t} /\ error' = [error EXCEPT ![t] = "EOK"]
      /\ UNCHANGED <<stat, ready, suspended, lock, current, pending, cpu, starting, systick, isr, left, value>>
  BY DEF Taken, Goto, switch, timers
<1>2. stat[t] = "READY" /\ cpu = t
  BY <1>1, Running DEF Leaving
<1>3. QTypes' /\ Dispatch'
  BY <1>1, <1>2 DEF QTypes, Dispatch, Leaving, At
<1>4. ReadyLists'
  BY <1>1, SameLists
<1>5. Waiters'
  <2>1. t \notin ToSet(suspended)
    BY <1>2 DEF Waiters
  <2> QED BY <1>1, <2>1 DEF Waiters, QTypes
<1>6. \A u \in Thread : BeingStarted(u)' <=> BeingStarted(u)
  BY <1>1, StillStarted DEF QTypes
<1>7. Sleepers' /\ Places'
  BY <1>1, <1>2, <1>6 DEF Sleepers, Places, QTypes
<1>8. Starts'
  BY <1>1, <1>2 DEF Starts, QTypes
<1>9. Tokens'
  BY <1>1, <1>2 DEF Tokens, QTypes, Waiting
<1> QED BY <1>3, <1>4, <1>5, <1>7, <1>8, <1>9

\* A thread ends; it is in no list and has no timer.
LEMMA ExitThreadQInv ==
  ASSUME QInv, UNCHANGED sem, NEW t \in Thread, rt_thread_exit(t)
  PROVE  QInv'
<1> USE DEF QInv
<1>1. /\ Runs(t) /\ at[t] = "app" /\ at' = [at EXCEPT ![t] = "exit"] /\ t # Idle /\ lock = 0
      /\ stat' = [stat EXCEPT ![t] = "CLOSE"] /\ ready' = Removed(ready, t)
      /\ UNCHANGED <<error, suspended, lock, current, pending, cpu, starting, systick, isr, value, granted>>
  BY DEF rt_thread_exit, InApp, Goto, switch, sem
<1>2. stat[t] = "READY" /\ cpu = t /\ pending = <<>>
  BY <1>1, Running DEF Leaving
<1>3. DOMAIN left' = DOMAIN left \ {t}
  BY Stops DEF rt_thread_exit
<1>4. QTypes' /\ Dispatch'
  BY <1>1, <1>2, IdleIsThread DEF QTypes, Dispatch, Leaving, At
<1>5. ReadyLists'
  <2>1. Ready' = Ready \ {t}
    BY <1>1 DEF Ready, QTypes
  <2>2. Lists(Removed(ready, t), Ready \ {t})
    BY RemovedLists DEF ReadyLists, Ready
  <2> QED BY <1>1, <2>1, <2>2, ReadyNow
<1>6. Waiters'
  <2>1. t \notin ToSet(suspended)
    BY <1>2 DEF Waiters
  <2> QED BY <1>1, <2>1 DEF Waiters, QTypes
<1>7. \A u \in Thread : BeingStarted(u)' <=> BeingStarted(u)
  BY <1>1, StillStarted DEF QTypes
<1>8. Sleepers' /\ Places'
  BY <1>1, <1>2, <1>3, <1>7 DEF Sleepers, Places, QTypes
<1>9. Starts'
  BY <1>1, <1>2, <1>3 DEF Starts, QTypes
<1>10. Tokens'
  BY <1>1, <1>2 DEF Tokens, QTypes, Waiting
<1> QED BY <1>4, <1>5, <1>6, <1>8, <1>9, <1>10

\* The two halves of rt_thread_startup.
LEMMA StartupQInv ==
  ASSUME QInv, UNCHANGED sem, NEW t \in Thread, NEW u \in Thread, rt_thread_startup(t, u)
  PROVE  QInv'
<1> USE DEF QInv
<1>1. /\ Runs(t) /\ at[t] = "app" /\ at' = [at EXCEPT ![t] = "insert"] /\ stat[u] = "INIT"
      /\ stat' = [stat EXCEPT ![u] = "SUSPEND"] /\ starting' = [starting EXCEPT ![t] = u]
      /\ UNCHANGED <<error, ready, suspended, lock, current, pending, cpu, systick, isr, left, value, granted>>
  BY DEF rt_thread_startup, InApp, Goto, switch, timers, sem
<1>2. /\ stat[t] = "READY" /\ cpu = t /\ at[u] = "app" /\ u # t /\ u # Idle
      /\ u \notin ToSet(suspended) /\ u \notin DOMAIN left
  BY <1>1, Running DEF Leaving, Places, Dispatch, Waiters, Sleepers
<1>3. QTypes' /\ Dispatch'
  BY <1>1, <1>2, IdleIsThread DEF QTypes, Dispatch, Leaving, At
<1>4. ReadyLists'
  <2>1. Ready' = Ready
    BY <1>1 DEF Ready, QTypes
  <2> QED BY <1>1, <2>1, ReadyNow DEF ReadyLists
<1>5. Waiters'
  <2>1. t \notin ToSet(suspended)
    BY <1>2 DEF Waiters
  <2> QED BY <1>1, <1>2, <2>1 DEF Waiters, QTypes
<1>6. \A w \in Thread : BeingStarted(w)' <=> BeingStarted(w) \/ w = u
  BY <1>1 DEF BeingStarted, QTypes
<1>7. Sleepers' /\ Places'
  BY <1>1, <1>2, <1>6 DEF Sleepers, Places, QTypes
<1>8. Starts'
  BY <1>1, <1>2 DEF Starts, QTypes
<1>9. Tokens'
  BY <1>1, <1>2 DEF Tokens, QTypes, Waiting
<1> QED BY <1>3, <1>4, <1>5, <1>7, <1>8, <1>9

\* So does the insertion with which a thread is started.
LEMMA InsertQInv ==
  ASSUME QInv, UNCHANGED sem, NEW t \in Thread, InsertStarted(t)
  PROVE  QInv'
<1> USE DEF QInv
<1> DEFINE u == starting[t]
<1>1. /\ Runs(t) /\ at[t] = "insert" /\ at' = [at EXCEPT ![t] = "resched"]
      /\ stat' = [stat EXCEPT ![u] = "READY"] /\ starting' = [starting EXCEPT ![t] = Idle]
      /\ ready' = Inserted(ready, u)
      /\ UNCHANGED <<error, suspended, lock, current, pending, cpu, systick, isr, left, value, granted>>
  BY DEF InsertStarted, Goto, switch, timers, sem
<1>2. /\ stat[t] = "READY" /\ cpu = t /\ u \in Thread /\ u # t /\ stat[u] = "SUSPEND" /\ at[u] = "app"
      /\ u \notin ToSet(suspended) /\ u \notin DOMAIN left
      /\ \A w \in Thread \ {t} : at[w] = "insert" => starting[w] # u
  BY <1>1, Running DEF Leaving, Starts, Waiters, Waiting, QTypes
<1> HIDE DEF u
<1>3. QTypes' /\ Dispatch'
  BY <1>1, <1>2, IdleIsThread DEF QTypes, Dispatch, Leaving, At
<1>4. ReadyLists'
  <2>1. Ready' = Ready \cup {u} /\ u \in Thread \ Ready
    BY <1>1, <1>2 DEF Ready, QTypes
  <2>2. Lists(Inserted(ready, u), Ready \cup {u})
    BY <2>1, InsertedLists DEF ReadyLists, Ready
  <2> QED BY <1>1, <2>1, <2>2, ReadyNow
<1>5. Waiters'
  <2>1. t \notin ToSet(suspended)
    BY <1>2 DEF Waiters
  <2> QED BY <1>1, <1>2, <2>1 DEF Waiters, QTypes
<1>6. \A w \in Thread : BeingStarted(w)' <=> BeingStarted(w) /\ w # u
  BY <1>1, <1>2 DEF BeingStarted, QTypes, u
<1>7. Sleepers' /\ Places'
  BY <1>1, <1>2, <1>6 DEF Sleepers, Places, QTypes
<1>8. Starts'
  BY <1>1, <1>2, IdleIsThread DEF Starts, QTypes
<1>9. Tokens'
  BY <1>1, <1>2 DEF Tokens, QTypes, Waiting
<1> QED BY <1>3, <1>4, <1>5, <1>7, <1>8, <1>9

\* rt_thread_timeout: out of the lists it waits in, and ready.
LEMMA TimeoutQInv ==
  ASSUME QInv, UNCHANGED sem, NEW t \in Thread, rt_thread_timeout(t)
  PROVE  QInv'
<1> USE DEF QInv
<1>1. /\ error' = [error EXCEPT ![t] = "ETIMEOUT"] /\ stat' = [stat EXCEPT ![t] = "READY"]
      /\ suspended' = RemoveFirst(suspended, t) /\ ready' = Inserted(ready, t) /\ rt_schedule(Inserted(ready, t))
      /\ UNCHANGED <<lock, cpu, at, starting, systick, isr, value, granted>>
  BY DEF rt_thread_timeout, sem
<1>2. t \in DOMAIN left /\ DOMAIN left' = DOMAIN left \ {t} /\ stat[t] = "SUSPEND"
  BY Calls DEF rt_thread_timeout, Sleepers
<1>3. /\ suspended' \in Seq(Thread) /\ IsInjective(suspended') /\ ToSet(suspended') = ToSet(suspended) \ {t}
      /\ value > 0 => suspended' = <<>>
  <2>1. suspended' \in Seq(Thread) /\ IsInjective(suspended') /\ ToSet(suspended') = ToSet(suspended) \ {t}
    BY <1>1, RemovedMembers DEF Waiters
  <2>2. suspended = <<>> => ToSet(suspended) = {}
    BY DEF ToSet
  <2>3. value > 0 => ToSet(suspended') = {}
    BY <2>1, <2>2 DEF Waiters
  <2> QED BY <2>1, <2>3, NoneLeft
<1>4. Ready' = Ready \cup {t} /\ t \in Thread \ Ready /\ Lists(Inserted(ready, t), Ready \cup {t})
  <2>1. Ready' = Ready \cup {t} /\ t \in Thread \ Ready
    BY <1>1, <1>2 DEF Ready, QTypes
  <2> QED BY <2>1, InsertedLists DEF ReadyLists, Ready
<1>5. /\ current' \in Thread
      /\ \/ UNCHANGED <<current, pending>>
         \/ lock = 0 /\ current' \in Ready \cup {t} /\ pending' # <<>>
  <2>1. Ready \cup {t} \in SUBSET Thread /\ Idle \in Ready \cup {t}
    BY IdleIsThread DEF Dispatch, Ready
  <2> QED BY <1>1, <1>4, <2>1, Dispatches
<1>6. QTypes'
  BY <1>1, <1>5 DEF QTypes
<1>7. Dispatch'
  BY <1>1, <1>5, IdleIsThread DEF QTypes, Dispatch, Ready
<1>8. ReadyLists'
  BY <1>1, <1>4, ReadyNow
<1>9. Waiters'
  BY <1>1, <1>3 DEF Waiters, QTypes
<1>10. \A u \in Thread : BeingStarted(u)' <=> BeingStarted(u)
  BY <1>1, StillStarted
<1>11. Sleepers' /\ Places'
  BY <1>1, <1>2, <1>3, <1>10 DEF Sleepers, Places, QTypes
<1>12. Starts'
  BY <1>1, <1>2 DEF Starts, QTypes
<1>13. Tokens'
  BY <1>1, <1>2 DEF Tokens, QTypes
<1> QED BY <1>6, <1>7, <1>8, <1>9, <1>11, <1>12, <1>13

\* A release: the first waiter gets the token, or the value does.
LEMMA ReleaseQInv ==
  ASSUME QInv, Release,
         \/ at' = at
         \/ \E t \in Thread, place \in {"app", "resched"} : InApp(t) /\ at' = [at EXCEPT ![t] = place],
         isr' \in {"off", "resched"},
         UNCHANGED <<error, lock, switch, cpu, starting, systick>>
  PROVE  QInv'
<1> USE DEF QInv
<1> DEFINE Moved == \A u \in Thread : at'[u] = at[u] \/ (at[u] = "app" /\ at'[u] = "resched" /\ stat[u] = "READY")
<1>1. at' \in [Thread -> At] /\ Moved
  <2>1. CASE at' = at
    BY <2>1 DEF QTypes
  <2>2. ASSUME NEW t \in Thread, NEW place \in {"app", "resched"}, InApp(t), at' = [at EXCEPT ![t] = place]
        PROVE  at' \in [Thread -> At] /\ Moved
    <3>1. at[t] = "app" /\ stat[t] = "READY"
      BY <2>2, Running DEF InApp, Leaving
    <3> QED BY <2>2, <3>1 DEF QTypes, At
  <2> QED BY <2>1, <2>2
<1>2. \A u \in Thread : BeingStarted(u)' <=> BeingStarted(u)
  BY <1>1, StillStarted
<1>3. CASE suspended = <<>>
  <2>1. UNCHANGED <<stat, ready, suspended, left, granted, current, pending>> /\ value' \in 0..MaxValue
    BY <1>3, SemAssumption DEF Release, timers, QTypes, switch
  <2>2. QTypes' /\ Dispatch'
    BY <1>1, <2>1 DEF QTypes, Dispatch, Leaving
  <2>3. ReadyLists'
    BY <2>1, SameLists
  <2>4. Waiters'
    BY <1>1, <1>3, <2>1 DEF Waiters, QTypes, ToSet
  <2>5. Sleepers' /\ Places'
    BY <1>1, <1>2, <2>1 DEF Sleepers, Places, QTypes
  <2>6. Starts'
    BY <1>1, <2>1 DEF Starts, QTypes
  <2>7. Tokens'
    BY <1>1, <2>1 DEF Tokens, QTypes, Waiting
  <2> QED BY <2>2, <2>3, <2>4, <2>5, <2>6, <2>7
<1>4. CASE suspended # <<>>
  <2> DEFINE h == Head(suspended)
  <2>1. /\ suspended' = RemoveFirst(suspended, h) /\ stat' = [stat EXCEPT ![h] = "READY"]
        /\ ready' = Inserted(ready, h) /\ DOMAIN left' = DOMAIN left \ {h}
        /\ granted' = granted \cup {h} /\ UNCHANGED <<value, current, pending>>
    BY <1>4, Stops DEF Release, Resume, switch
  <2>2. h \in ToSet(suspended)
    <3>1. Len(suspended) \in Nat \ {0} /\ h = suspended[1]
      BY <1>4, EmptySeq, LenProperties DEF Waiters
    <3> QED BY <3>1, Members DEF Waiters
  <2> HIDE DEF h
  <2>3. h \in Thread /\ stat[h] = "SUSPEND" /\ at[h] \in Waiting /\ error[h] = "EOK" /\ value = 0 /\ at'[h] = at[h]
    BY <1>1, <1>4, <2>2, Members DEF Waiters, QTypes, Waiting
  <2>4. suspended' \in Seq(Thread) /\ IsInjective(suspended') /\ ToSet(suspended') = ToSet(suspended) \ {h}
    BY <2>1, RemovedMembers DEF Waiters
  <2>5. QTypes' /\ Dispatch'
    BY <1>1, <2>1, <2>3 DEF QTypes, Dispatch, Leaving
  <2>6. ReadyLists'
    <3>1. Ready' = Ready \cup {h} /\ h \in Thread \ Ready
      BY <2>1, <2>3 DEF Ready, QTypes
    <3>2. Lists(Inserted(ready, h), Ready \cup {h})
      BY <3>1, InsertedLists DEF ReadyLists, Ready
    <3> QED BY <2>1, <3>1, <3>2, ReadyNow
  <2>7. Waiters'
    BY <1>1, <2>1, <2>3, <2>4, Members DEF Waiters, QTypes, Waiting
  <2>8. Sleepers' /\ Places'
    BY <1>1, <1>2, <2>1, <2>3, <2>4 DEF Sleepers, Places, QTypes
  <2>9. Starts'
    BY <1>1, <2>1, <2>3 DEF Starts, QTypes, Waiting
  <2>10. Tokens'
    BY <1>1, <2>1, <2>3 DEF Tokens, QTypes, Waiting
  <2> QED BY <2>5, <2>6, <2>7, <2>8, <2>9, <2>10
<1> QED BY <1>3, <1>4

\* A reset wakes all who wait, with an error.
LEMMA ControlQInv ==
  ASSUME QInv, NEW t \in Thread, NEW v \in 0..MaxValue, rt_sem_control(t, v)
  PROVE  QInv'
<1> USE DEF QInv
<1> DEFINE W == ToSet(suspended)
<1>1. /\ Runs(t) /\ at[t] = "app" /\ at' = [at EXCEPT ![t] = "resched"]
      /\ error' = [u \in Thread |-> IF u \in W THEN "ERROR" ELSE error[u]]
      /\ stat' = [u \in Thread |-> IF u \in W THEN "READY" ELSE stat[u]]
      /\ ready' = InsertedAll(ready, suspended) /\ suspended' = <<>> /\ value' = v
      /\ UNCHANGED <<lock, current, pending, cpu, starting, systick, isr, granted>>
  BY DEF rt_sem_control, InApp, Goto, switch
<1>2. DOMAIN left' = DOMAIN left \ W
  BY Stops DEF rt_sem_control
<1>3. /\ stat[t] = "READY" /\ cpu = t /\ t \notin W /\ W \subseteq Thread
      /\ \A u \in W : stat[u] = "SUSPEND" /\ at[u] \in Waiting
  BY <1>1, Running, Members DEF Leaving, Waiters
<1>4. ReadyLists'
  <2>1. Ready' = Ready \cup W /\ W \cap Ready = {}
    BY <1>1, <1>3 DEF Ready, QTypes
  <2>2. Lists(InsertedAll(ready, suspended), Ready \cup W)
    <3>1. Ready \in SUBSET Thread
      BY DEF Ready
    <3> QED BY <2>1, <3>1, InsertedAllLists DEF ReadyLists, Waiters
  <2> QED BY <1>1, <2>1, <2>2, ReadyNow
<1> HIDE DEF W
<1>5. QTypes' /\ Dispatch'
  BY <1>1, <1>3, IdleIsThread DEF QTypes, Dispatch, Leaving, At
<1>6. Waiters'
  <2>1. ToSet(<<>>) = {} /\ IsInjective(<<>>)
    BY DEF ToSet, IsInjective
  <2>2. ToSet(suspended') = {} /\ suspended' \in Seq(Thread) /\ IsInjective(suspended')
    BY <1>1, <2>1, EmptySeq
  <2> QED BY <1>1, <2>2 DEF Waiters
<1>7. \A u \in Thread : BeingStarted(u)' <=> BeingStarted(u)
  BY <1>1, StillStarted DEF QTypes
<1>8. Sleepers'
  BY <1>1, <1>2, <1>3, <1>7 DEF Sleepers, QTypes, W
<1>9. Places'
  BY <1>1, <1>3, <1>7 DEF Places, QTypes
<1>10. Starts'
  BY <1>1, <1>2, <1>3 DEF Starts, QTypes, Waiting
<1>11. Tokens'
  BY <1>1, <1>3 DEF Tokens, QTypes, Waiting
<1> QED BY <1>4, <1>5, <1>6, <1>8, <1>9, <1>10, <1>11

-----------------------------------------------------------------------------
(* All steps.                                                              *)

\* The threads started before the scheduler are the ready ones.
LEMMA InitQInv == Init => QInv
<1> SUFFICES ASSUME Init PROVE QInv
  OBVIOUS
<1> USE DEF Init, ThreadsInit
<1>1. /\ Boot \in Seq(Thread) /\ IsInjective(Boot) /\ ToSet(Boot) \subseteq Thread /\ Idle \in ToSet(Boot)
      /\ Ready = ToSet(Boot) /\ DOMAIN left = {}
  BY ThreadAssumption, Members DEF Ready, Timers!ServiceInit
<1>2. ReadyLists
  <2>1. Lists(InsertedAll([p \in Priority |-> <<>>], Boot), {} \cup ToSet(Boot))
    BY <1>1, EmptyLists, InsertedAllLists
  <2> QED BY <1>1, <2>1 DEF ReadyLists
<1>3. current \in Ready
  BY <1>1, <1>2, ChosenIsReady DEF ReadyLists
<1>4. QTypes
  BY <1>1, <1>3, SemAssumption, BoundsAssumption DEF QTypes, At
<1>5. Waiters
  BY EmptySeq DEF Waiters, ToSet, IsInjective
<1>6. Sleepers /\ Places /\ Starts /\ Tokens
  BY <1>1 DEF Sleepers, Places, Starts, Tokens, Waiting
<1>7. Dispatch
  BY <1>1, <1>3 DEF Dispatch, Leaving, Ready
<1> QED BY <1>2, <1>4, <1>5, <1>6, <1>7 DEF QInv

\* All steps of threads, of the tick and of the switch do.
LEMMA ThreadsQInv ==
  ASSUME QInv, IInv, ThreadsNext, UNCHANGED sem
  PROVE  QInv'
<1>1. ASSUME NEW t \in Thread, rt_enter_critical(t) \/ rt_exit_critical(t) PROVE QInv'
  BY <1>1, CriticalQInv
<1>2. ASSUME NEW t \in Thread, rt_thread_yield(t) PROVE QInv'
  BY <1>2, YieldQInv
<1>3. ASSUME NEW t \in Thread, NEW n \in Time, rt_thread_sleep(t, n) PROVE QInv'
  BY <1>3, SleepQInv
<1>4. ASSUME NEW t \in Thread, NEW u \in Thread, rt_thread_startup(t, u) PROVE QInv'
  BY <1>4, StartupQInv
<1>5. ASSUME NEW t \in Thread, rt_thread_exit(t) PROVE QInv'
  BY <1>5, ExitThreadQInv
<1>6. ASSUME NEW t \in Thread, InKernel(t) PROVE QInv'
  BY <1>6, InsertQInv, RescheduleQInv, WakeUpQInv DEF InKernel
<1>7. CASE Ticks
  BY <1>7, TickQInv, TimeoutQInv DEF Ticks
<1>8. CASE PendSV_Handler
  BY <1>8, PendSVQInv
<1> QED BY <1>1, <1>2, <1>3, <1>4, <1>5, <1>6, <1>7, <1>8 DEF ThreadsNext

\* Every step does.
LEMMA NextQInv == QInv /\ IInv /\ [Next]_vars => QInv'
<1> SUFFICES ASSUME QInv, IInv, [Next]_vars PROVE QInv'
  OBVIOUS
<1>1. CASE UNCHANGED vars
  <2>1. /\ UNCHANGED <<stat, error, ready, suspended, lock, current, pending, cpu, at, starting, systick, isr, left, value, granted>>
    BY <1>1 DEF vars, queues, switch, timers, sem
  <2>2. QTypes' /\ Dispatch' /\ ReadyLists'
    BY <2>1, SameLists DEF QInv, QTypes, Dispatch
  <2> QED BY <2>1, <2>2, Quiet
<1>2. CASE ThreadsNext /\ UNCHANGED sem
  BY <1>2, ThreadsQInv
<1>3. ASSUME NEW t \in Thread, NEW n \in Time \cup {Forever}, rt_sem_take(t, n) PROVE QInv'
  BY <1>3, TakeQInv
<1>4. ASSUME NEW t \in Thread, NEW v \in 0..MaxValue, rt_sem_control(t, v) PROVE QInv'
  BY <1>4, ControlQInv
<1>5. ASSUME NEW t \in Thread, rt_sem_release(t) PROVE QInv'
  <2> DEFINE place == IF suspended # <<>> THEN "resched" ELSE "app"
  <2>1. place \in {"app", "resched"} /\ at' = [at EXCEPT ![t] = place] /\ InApp(t) /\ Release
        /\ UNCHANGED <<error, lock, switch, cpu, starting, systick, isr>>
    BY <1>5 DEF rt_sem_release, Goto
  <2> QED BY <2>1, ReleaseQInv DEF QInv, QTypes
<1>6. ASSUME NEW t \in Thread, Taken(t) PROVE QInv'
  BY <1>6, TakenQInv
<1>7. CASE IsrRelease
  BY <1>7, ReleaseQInv DEF IsrRelease
<1>8. CASE IsrSchedule
  BY <1>8, IsrScheduleQInv
<1> QED BY <1>1, <1>2, <1>3, <1>4, <1>5, <1>6, <1>7, <1>8 DEF Next

\* The lists, the states and the places agree at all times.
THEOREM QueuesInductive == Spec => []QInv
BY InitQInv, NextQInv, Inductive, PTL DEF Spec

\* Each thread is in exactly the queue its state names, at most once, and a
\* suspended one has somebody to wake it: its timer, a release, or the thread
\* that is starting it; whatever releases, timeouts and resets interleave.
THEOREM InOneQueue == Spec => []EachInOneQueue
<1>1. QInv => EachInOneQueue
  <2> SUFFICES ASSUME QInv, NEW t \in Thread
               PROVE  /\ \A p \in Priority : IsInjective(ready[p])
                      /\ IsInjective(suspended)
                      /\ (stat[t] = "READY") = (t \in ToSet(ready[priority[t]]))
                      /\ t \in ToSet(suspended) => stat[t] = "SUSPEND" /\ at[t] \in {"take", "took"}
                      /\ stat[t] = "SUSPEND" =>
                           \/ t \in DOMAIN left \/ t \in ToSet(suspended)
                           \/ \E u \in Thread : starting[u] = t /\ at[u] = "insert"
                      /\ t \in DOMAIN left => stat[t] = "SUSPEND"
    BY DEF EachInOneQueue
  <2>1. t \in Ready <=> t \in ToSet(ready[priority[t]])
    BY DEF QInv, ReadyLists, Lists, Priority, Ready
  <2>2. (stat[t] = "READY") = (t \in ToSet(ready[priority[t]]))
    BY <2>1 DEF Ready
  <2>3. \A p \in Priority : IsInjective(ready[p])
    BY DEF QInv, ReadyLists, Lists
  <2> QED BY <2>2, <2>3 DEF QInv, Waiters, Sleepers, Waiting, BeingStarted
<1> QED BY <1>1, QueuesInductive, PTL

\* rt_sem_take returns EOK to exactly the threads a release has chosen, and no
\* token is left while somebody waits.
THEOREM TokensCounted == Spec => []TokensAgree
<1>1. QInv => TokensAgree
  BY DEF QInv, Tokens, Waiters, TokensAgree, Waiting
<1> QED BY <1>1, QueuesInductive, PTL

\* A time slice is renewed when it is used up, before it can wrap.
Slices ==
  (\A t \in Thread : remaining[t] \in 1..init_tick[t]) /\ remaining \in [Thread -> Nat]

\* Only the tick counts it down.
LEMMA SlicesHold ==
  ASSUME Slices, QTypes, [Next]_vars
  PROVE  Slices'
<1> USE DEF Slices
<1>1. CASE ChargeSlice
  <2>1. current \in Thread /\ init_tick \in [Thread -> Nat \ {0}]
    BY ThreadAssumption DEF QTypes
  <2>2. \/ remaining[current] > 1 /\ remaining' = [remaining EXCEPT ![current] = @ - 1]
        \/ remaining' = [remaining EXCEPT ![current] = init_tick[current]]
    BY <1>1 DEF ChargeSlice
  <2> QED BY <2>1, <2>2
<1>2. CASE ~ ChargeSlice
  <2>1. UNCHANGED remaining
    BY <1>2 DEF Next, ThreadsNext, Ticks, InKernel, vars,
       rt_enter_critical, rt_exit_critical, rt_thread_yield, rt_thread_sleep, rt_thread_startup, rt_thread_exit,
       InsertStarted, Reschedule, WakeUp, SysTick_Handler, TickYield, TickSwitch, TickCheck, TickEnd, rt_thread_timeout, PendSV_Handler,
       rt_sem_take, rt_sem_control, rt_sem_release, Taken, IsrRelease, IsrSchedule
  <2> QED BY <2>1
<1> QED BY <1>1, <1>2

\* Each variable keeps its type: the ready queues hold threads of their own
\* priority only, a slice is never 0, and lock never negative.
THEOREM TypesOK == Spec => []TypeOK
<1>1. Init => Slices
  BY ThreadAssumption DEF Init, ThreadsInit, Slices
<1>2. Slices /\ QInv /\ [Next]_vars => Slices'
  BY SlicesHold DEF QInv
<1>3. Slices /\ QInv /\ IInv => TypeOK
  <2> SUFFICES ASSUME Slices, QInv, IInv PROVE TypeOK
    OBVIOUS
  <2>1. ASSUME NEW p \in Priority PROVE ready[p] \in Seq({t \in Thread : priority[t] = p})
    <3>1. ready[p] \in Seq(Thread) /\ ToSet(ready[p]) = {t \in Ready : priority[t] = p}
      BY DEF QInv, ReadyLists, Lists
    <3>2. \A i \in 1..Len(ready[p]) : ready[p][i] \in {t \in Thread : priority[t] = p}
      BY <3>1, Members DEF Ready
    <3> QED BY <3>1, <3>2, LenProperties, SeqDef
  <2>2. pending \in {<<>>} \cup Thread \X Thread
    BY DEF IInv, SwitchAgrees, QInv, QTypes
  <2> QED BY <2>1, <2>2 DEF TypeOK, Slices, QInv, QTypes, Waiters, Tokens
<1> QED BY <1>1, <1>2, <1>3, QueuesInductive, Inductive, PTL DEF Spec
=============================================================================
