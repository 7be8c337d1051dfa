--------------------------- MODULE RtTimer_proofs ----------------------------
(***************************************************************************)
(* For any timers, times below half the tick's range, and any width of the *)
(* tick: the kernel's sorted list of timers keeps the order of the times   *)
(* although the ticks it compares wrap, and implements what TimerService   *)
(* promises, where time is only counted down.                              *)
(***************************************************************************)
EXTENDS RtTimer, ListLemmas

-----------------------------------------------------------------------------
(* The comparisons, in terms of the ticks left.                            *)

\* The tick and the timeouts are of rt_tick_t.
TickTypes == tick \in TickValue /\ timeout \in [Timer -> TickValue]

\* Half of the tick's range.
LEMMA Halves ==
  Half \in Nat /\ Half > 1 /\ 2 * Half <= TickMod - 1 /\ TickMod \in Nat
BY TickModAssumption, TimeAssumption DEF Half

\* A timer ends at the tick it was set for.
LEMMA EndsAt ==
  ASSUME tick \in TickValue, NEW n \in 0..Half - 1
  PROVE  /\ Advance(tick, n) \in TickValue
         /\ Elapsed(Advance(tick, n), tick) = n /\ n # TickMod - 1
BY Halves DEF TickValue, Advance, Elapsed

\* rt_timer_start's comparison finds the timers that end later.
LEMMA LaterIsMore ==
  ASSUME TickTypes, NEW t \in Timer, Left(t) \in -1..Half - 1, NEW n \in 0..Half - 1
  PROVE  Later(timeout[t], Advance(tick, n)) <=> Left(t) > n
<1> DEFINE x == Advance(tick, n)
           e == timeout[t]
<1>1. e \in 0..TickMod - 1 /\ tick \in 0..TickMod - 1
  BY DEF TickTypes, TickValue
<1>2. x = IF tick + n < TickMod THEN tick + n ELSE tick + n - TickMod
  BY DEF Advance
<1>3. Later(e, x) <=> Elapsed(e, x) \in 1..Half - 1
  BY DEF Later
<1>4. Elapsed(e, x) = IF x <= e THEN e - x ELSE e - x + TickMod
  BY DEF Elapsed
<1>5. Left(t) = LET d == IF tick <= e THEN e - tick ELSE e - tick + TickMod
                IN IF d = TickMod - 1 THEN -1 ELSE d
  BY DEF Left, Elapsed
<1> HIDE DEF x, e
<1> QED BY <1>1, <1>2, <1>3, <1>4, <1>5, Halves DEF x, e

\* rt_timer_check's comparison finds those whose time has come.
LEMMA DueIsOver ==
  ASSUME TickTypes, NEW t \in Timer, Left(t) \in -1..Half - 1
  PROVE  Due(t) <=> Left(t) <= 0
<1>1. timeout[t] \in 0..TickMod - 1 /\ tick \in 0..TickMod - 1
  BY DEF TickTypes, TickValue
<1> QED BY <1>1, Halves DEF Due, Left, Elapsed

\* A tick takes one from each.
LEMMA TickTakesOne ==
  ASSUME TickTypes, NEW t \in Timer, Left(t) \in 0..Half - 1,
         tick' = Advance(tick, 1), timeout' = timeout
  PROVE  Left(t)' = Left(t) - 1
<1>1. timeout[t] \in 0..TickMod - 1 /\ tick \in 0..TickMod - 1
  BY DEF TickTypes, TickValue
<1> QED BY <1>1, Halves DEF Left, Elapsed, Advance

-----------------------------------------------------------------------------
(* The inductive invariant: the list and the history hold the activated    *)
(* timers; the timers that run have a time left that the comparisons       *)
(* understand; and of two timers in the list, the first ends first or was  *)
(* started first.                                                          *)

\* The list and the history hold the activated timers, each once.
Held ==
  /\ list \in Seq(Timer) /\ IsInjective(list) /\ ToSet(list) = activated
  /\ started \in Seq(Timer) /\ IsInjective(started) /\ ToSet(started) = activated
  /\ activated \subseteq Timer

\* Only while a tick is checked may a timer be over.
Near == \A t \in activated : Left(t) \in -1..Half - 1 /\ (~ checking => Left(t) >= 0)

\* Of two timers in a list, the first ends no later.
InOrder(l) == \A t, u \in Timer : Before(l, t, u) => Left(t) <= Left(u)
\* Of those that end together, the first was started first.
Sorted ==
  /\ InOrder(list)
  /\ \A t, u \in Timer : Before(list, t, u) /\ Left(t) = Left(u) => Before(started, t, u)

\* The remaining types.
Set == init_tick \in [Timer -> Time \cup {0}] /\ checking \in BOOLEAN

\* The inductive invariant.
IInv == TickTypes /\ Held /\ Near /\ Sorted /\ Set

\* The place where rt_timer_start stops parts the list.
LEMMA PlaceParts ==
  ASSUME TickTypes, NEW l \in Seq(Timer), InOrder(l),
         \A u \in ToSet(l) : Left(u) \in -1..Half - 1,
         NEW n \in 0..Half - 1, NEW k, k = Place(l, Advance(tick, n))
  PROVE  /\ k \in 1..Len(l) + 1
         /\ \A i \in 1..Len(l) : IF i < k THEN Left(l[i]) <= n ELSE Left(l[i]) > n
<1> DEFINE I == {j \in 1..Len(l) : Later(timeout[l[j]], Advance(tick, n))}
           i == SelectInSeq(l, LAMBDA u : Later(timeout[u], Advance(tick, n)))
<1>1. i = IF I # {} THEN Min(I) ELSE 0
  BY Zenon DEF SelectInSeq
<1>2. k = IF i = 0 THEN Len(l) + 1 ELSE i
  BY Zenon DEF Place
<1> HIDE DEF i
<1>3. Len(l) \in Nat /\ DOMAIN l = 1..Len(l) /\ \A j \in 1..Len(l) : l[j] \in Timer /\ l[j] \in ToSet(l)
  BY LenProperties, ElementOfSeq DEF ToSet
<1>4. \A j \in 1..Len(l) : j \in I <=> Left(l[j]) > n
  BY <1>3, LaterIsMore
<1>5. \A j \in 1..Len(l) : Left(l[j]) \in Int
  BY <1>3
<1> HIDE DEF I
<1>6. CASE I = {}
  BY <1>1, <1>2, <1>3, <1>4, <1>5, <1>6
<1>7. CASE I # {}
  <2>1. I \in SUBSET Nat /\ I \subseteq 1..Len(l)
    BY <1>3 DEF I
  <2>2. Min(I) \in I /\ \A j \in I : Min(I) <= j
    BY <1>7, <2>1, MinIsLeast
  <2>3. k = Min(I) /\ k \in 1..Len(l)
    BY <1>1, <1>2, <1>7, <2>1, <2>2
  <2>4. Left(l[k]) > n
    BY <1>4, <2>2, <2>3
  <2>5. ASSUME NEW j \in 1..Len(l)
        PROVE  IF j < k THEN Left(l[j]) <= n ELSE Left(l[j]) > n
    <3>1. CASE j < k
      <4>1. j \notin I
        BY <1>3, <2>2, <2>3, <3>1
      <4> QED BY <1>4, <1>5, <3>1, <4>1
    <3>2. CASE j = k
      BY <2>3, <2>4, <3>2
    <3>3. CASE j > k
      <4>1. Before(l, l[k], l[j])
        BY <1>3, <2>3, <3>3 DEF Before
      <4>2. Left(l[k]) <= Left(l[j])
        BY <1>3, <2>3, <4>1 DEF InOrder
      <4> QED BY <1>5, <2>3, <2>4, <3>3, <4>2
    <3> QED BY <1>3, <2>3, <3>1, <3>2, <3>3
  <2> QED BY <1>3, <2>3, <2>5
<1> QED BY <1>6, <1>7

\* Starting a timer, whether it runs or not, puts it behind all that end
\* before it or with it, and changes the time of no other.
LEMMA StartKeeps ==
  ASSUME IInv, NEW t \in Timer, NEW n \in 0..Half - 1, Start(t, n), UNCHANGED <<tick, checking>>
  PROVE  /\ TickTypes' /\ Held' /\ Near' /\ Sorted'
         /\ activated' = activated \cup {t} /\ started' = Append(RemoveFirst(started, t), t)
         /\ Left(t)' = n /\ \A u \in activated \ {t} : Left(u)' = Left(u)
<1> DEFINE l == RemoveFirst(list, t)
           o == RemoveFirst(started, t)
           x == Advance(tick, n)
           k == Place(l, x)
<1>1. /\ list' = InsertAt(l, k, t) /\ timeout' = [timeout EXCEPT ![t] = x]
      /\ activated' = activated \cup {t} /\ started' = Append(o, t)
  BY DEF Start
<1>2. /\ l \in Seq(Timer) /\ IsInjective(l) /\ ToSet(l) = activated \ {t}
      /\ o \in Seq(Timer) /\ IsInjective(o) /\ ToSet(o) = activated \ {t}
  BY RemovedMembers DEF IInv, Held
<1>3. TickTypes' /\ Left(t)' = n /\ \A u \in Timer \ {t} : Left(u)' = Left(u)
  <2>1. x \in TickValue /\ Elapsed(x, tick) = n /\ n # TickMod - 1
    BY EndsAt DEF IInv, TickTypes
  <2> HIDE DEF x
  <2>2. TickTypes' /\ timeout'[t] = x /\ \A u \in Timer \ {t} : timeout'[u] = timeout[u]
    BY <1>1, <2>1 DEF IInv, TickTypes
  <2> QED BY <2>1, <2>2 DEF Left, Elapsed
<1>4. \A a, b : Before(l, a, b) <=> Before(list, a, b) /\ a # t /\ b # t
  BY RemovedBefore DEF IInv, Held
<1>5. /\ k \in 1..Len(l) + 1
      /\ \A i \in 1..Len(l) : IF i < k THEN Left(l[i]) <= n ELSE Left(l[i]) > n
  <2>1. InOrder(l)
    BY <1>4 DEF IInv, Sorted, InOrder
  <2>2. \A u \in ToSet(l) : Left(u) \in -1..Half - 1
    BY <1>2 DEF IInv, Near
  <2> HIDE DEF l
  <2> QED BY <1>2, <2>1, <2>2, PlaceParts DEF IInv
<1> HIDE DEF l, o, x, k
<1>6. Held'
  <2>1. list' \in Seq(Timer) /\ IsInjective(list') /\ ToSet(list') = activated'
    BY <1>1, <1>2, <1>5, InsertedMembers
  <2>2. started' \in Seq(Timer) /\ IsInjective(started') /\ ToSet(started') = activated'
    BY <1>1, <1>2, AppendMembers
  <2> QED BY <1>1, <2>1, <2>2 DEF IInv, Held
<1>7. Near'
  BY <1>1, <1>3, Halves DEF IInv, Near, Held
<1>8. Sorted'
  <2> SUFFICES ASSUME NEW a \in Timer, NEW b \in Timer, Before(list', a, b)
               PROVE  Left(a)' <= Left(b)' /\ (Left(a)' = Left(b)' => Before(started', a, b))
    BY DEF Sorted, InOrder, Before
  <2>1. \/ Before(l, a, b)
        \/ a = t /\ \E j \in 1..Len(l) : k <= j /\ l[j] = b
        \/ b = t /\ \E i \in 1..Len(l) : i < k /\ l[i] = a
    BY <1>1, <1>2, <1>5, InsertedBefore
  <2>2. \A i \in 1..Len(l) : l[i] \in activated \ {t} /\ Left(l[i]) \in Int
    <3>1. \A i \in 1..Len(l) : l[i] \in ToSet(l)
      BY <1>2, Members
    <3> QED BY <1>2, <3>1 DEF IInv, Near
  <2>3. CASE Before(l, a, b)
    <3>1. a # t /\ b # t /\ Before(list, a, b)
      BY <1>4, <2>3
    <3>2. Left(a) <= Left(b) /\ (Left(a) = Left(b) => Before(started, a, b))
      BY <3>1 DEF IInv, Sorted, InOrder
    <3>3. Before(started, a, b) => Before(o, a, b)
      BY <3>1, RemovedBefore DEF IInv, Held, o
    <3>4. Before(o, a, b) => Before(started', a, b)
      BY <1>1, <1>2, AppendBefore
    <3> QED BY <1>3, <3>1, <3>2, <3>3, <3>4
  <2>4. CASE a = t /\ \E j \in 1..Len(l) : k <= j /\ l[j] = b
    <3>1. Left(b) > n /\ b # t /\ Left(b) \in Int
      BY <1>2, <1>5, <2>2, <2>4, LenProperties
    <3> QED BY <1>3, <2>4, <3>1
  <2>5. CASE b = t /\ \E i \in 1..Len(l) : i < k /\ l[i] = a
    <3>1. Left(a) <= n /\ a \in activated \ {t} /\ Left(a) \in Int
      BY <1>5, <2>2, <2>5
    <3>2. Before(started', a, t)
      BY <1>1, <1>2, <3>1, AppendBefore
    <3> QED BY <1>3, <2>5, <3>1, <3>2
  <2> QED BY <2>1, <2>3, <2>4, <2>5
<1> QED BY <1>1, <1>3, <1>6, <1>7, <1>8 DEF o, IInv, Held

\* Without a step of the list, or of a timer, the order is as it was.
LEMMA Unchanged ==
  ASSUME IInv, UNCHANGED <<tick, timeout, list, activated, started>>,
         \A t \in activated : ~ checking' => Left(t) >= 0
  PROVE  TickTypes' /\ Held' /\ Near' /\ Sorted' /\ \A t \in Timer : Left(t)' = Left(t)
<1>1. \A t \in Timer : Left(t)' = Left(t)
  BY DEF Left
<1>2. TickTypes' /\ Held'
  BY DEF IInv, TickTypes, Held
<1>3. Near'
  BY <1>1 DEF IInv, Near, Held
<1>4. Sorted'
  BY <1>1 DEF IInv, Sorted, InOrder
<1> QED BY <1>1, <1>2, <1>3, <1>4

\* Stopping a timer keeps the order of the others.
LEMMA StopKeeps ==
  ASSUME IInv, NEW t \in Timer, UNCHANGED <<tick, timeout, checking>>,
         list' = RemoveFirst(list, t), started' = RemoveFirst(started, t), activated' = activated \ {t}
  PROVE  TickTypes' /\ Held' /\ Near' /\ Sorted' /\ \A u \in Timer : Left(u)' = Left(u)
<1>1. \A u \in Timer : Left(u)' = Left(u)
  BY DEF Left
<1>2. TickTypes'
  BY DEF IInv, TickTypes
<1>3. Held'
  BY RemovedMembers DEF IInv, Held
<1>4. Near'
  BY <1>1 DEF IInv, Near, Held
<1>5. Sorted'
  <2>1. \A a, b : Before(list', a, b) <=> Before(list, a, b) /\ a # t /\ b # t
    BY RemovedBefore DEF IInv, Held
  <2>2. \A a, b : Before(started', a, b) <=> Before(started, a, b) /\ a # t /\ b # t
    BY RemovedBefore DEF IInv, Held
  <2> QED BY <1>1, <2>1, <2>2 DEF IInv, Sorted, InOrder, Before
<1> QED BY <1>1, <1>2, <1>3, <1>4, <1>5

\* The head of the list, when rt_timer_check looks at it.
LEMMA HeadIsFirst ==
  ASSUME IInv, list # <<>>
  PROVE  /\ Head(list) \in activated
         /\ \A u \in activated \ {Head(list)} : Before(list, Head(list), u)
         /\ Due(Head(list)) <=> Left(Head(list)) <= 0
<1>1. Len(list) \in Nat \ {0} /\ Head(list) = list[1] /\ DOMAIN list = 1..Len(list)
  BY EmptySeq, LenProperties DEF IInv, Held
<1>2. Head(list) \in activated
  BY <1>1, Members DEF IInv, Held
<1>3. ASSUME NEW u \in activated \ {Head(list)} PROVE Before(list, Head(list), u)
  <2>1. PICK i \in 1..Len(list) : list[i] = u
    BY Members DEF IInv, Held
  <2>2. 1 < i
    BY <1>1, <2>1
  <2> QED BY <1>1, <2>1, <2>2 DEF Before
<1>4. Due(Head(list)) <=> Left(Head(list)) <= 0
  BY <1>2, DueIsOver DEF IInv, Near, Held
<1> QED BY <1>2, <1>3, <1>4

-----------------------------------------------------------------------------
(* TimerService's operators, which are those of this module.               *)

\* Taking a timer out of the history.
LEMMA SameRemoval == \A s, e : Service!RemoveFirst(s, e) = RemoveFirst(s, e)
BY Zenon DEF Service!RemoveFirst, RemoveFirst, Service!SelectInSeq, SelectInSeq,
             Service!RemoveAt, RemoveAt, Service!Min, Min

\* Having been started before another.
LEMMA SameOrder == \A t, u : Service!StartedBefore(t, u) <=> Before(started, t, u)
BY DEF Service!StartedBefore, Before

-----------------------------------------------------------------------------
(* Each step keeps the invariant and is one of TimerService.               *)

\* rt_timer_start is the service's Begin,
LEMMA BeginStep ==
  ASSUME IInv, NEW t \in Timer, NEW n \in Time, SetAndStart(t, n)
  PROVE  IInv' /\ Service!Begin(t, n)
<1>1. /\ ~ checking /\ (t \in Periodic => n > 0) /\ Start(t, n) /\ UNCHANGED <<tick, checking>>
      /\ init_tick' = [init_tick EXCEPT ![t] = n] /\ n \in 0..Half - 1
  BY TimeAssumption DEF SetAndStart
<1>2. /\ TickTypes' /\ Held' /\ Near' /\ Sorted'
      /\ activated' = activated \cup {t} /\ started' = Append(RemoveFirst(started, t), t)
      /\ Left(t)' = n /\ \A u \in activated \ {t} : Left(u)' = Left(u)
  BY <1>1, StartKeeps
<1>3. Set'
  BY <1>1 DEF IInv, Set
<1>4. ToSet(list) = activated /\ ToSet(list') = activated'
  BY <1>2 DEF IInv, Held
<1>5. [u \in ToSet(list') |-> Left(u)'] =
        [u \in ToSet(list) \cup {t} |-> IF u = t THEN n ELSE [w \in ToSet(list) |-> Left(w)][u]]
  BY <1>2, <1>4
<1>6. [u \in Periodic |-> init_tick'[u]] =
        [u \in Periodic |-> IF u = t THEN n ELSE [w \in Periodic |-> init_tick[w]][u]]
  BY <1>1, PeriodicAssumption DEF IInv, Set
<1>7. Service!Begin(t, n)
  BY <1>1, <1>2, <1>5, <1>6, SameRemoval DEF Service!Begin
<1> QED BY <1>2, <1>3, <1>7 DEF IInv

\* rt_timer_stop its Cancel,
LEMMA CancelStep ==
  ASSUME IInv, NEW t \in Timer, rt_timer_stop(t)
  PROVE  IInv' /\ Service!Cancel(t)
<1>1. /\ ~ checking /\ t \in activated /\ list' = RemoveFirst(list, t) /\ started' = RemoveFirst(started, t)
      /\ activated' = activated \ {t} /\ UNCHANGED <<tick, timeout, init_tick, checking>>
  BY DEF rt_timer_stop
<1>2. TickTypes' /\ Held' /\ Near' /\ Sorted' /\ \A u \in Timer : Left(u)' = Left(u)
  BY <1>1, StopKeeps
<1>3. Set'
  BY <1>1 DEF IInv, Set
<1>4. ToSet(list) = activated /\ ToSet(list') = activated' /\ activated \subseteq Timer
  BY <1>2 DEF IInv, Held
<1>5. [u \in ToSet(list') |-> Left(u)'] = [u \in ToSet(list) \ {t} |-> [w \in ToSet(list) |-> Left(w)][u]]
  BY <1>1, <1>2, <1>4
<1>6. Service!Cancel(t)
  BY <1>1, <1>4, <1>5, SameRemoval DEF Service!Cancel, Service!Restriction
<1> QED BY <1>2, <1>3, <1>6 DEF IInv

\* a tick its Elapse,
LEMMA ElapseStep ==
  ASSUME IInv, rt_tick_increase
  PROVE  IInv' /\ Service!Elapse
<1>1. /\ ~ checking /\ checking' = TRUE /\ tick' = Advance(tick, 1)
      /\ UNCHANGED <<list, timeout, init_tick, activated, started>>
  BY DEF rt_tick_increase
<1>2. \A u \in activated : Left(u)' = Left(u) - 1 /\ Left(u) \in 0..Half - 1
  <2> SUFFICES ASSUME NEW u \in activated PROVE Left(u)' = Left(u) - 1 /\ Left(u) \in 0..Half - 1
    OBVIOUS
  <2>1. Left(u) \in 0..Half - 1 /\ u \in Timer
    BY <1>1 DEF IInv, Near, Held
  <2> QED BY <1>1, <2>1, TickTakesOne DEF IInv
<1>3. TickTypes' /\ Set' /\ Held'
  <2>1. tick' \in TickValue
    BY <1>1, EndsAt, Halves DEF IInv, TickTypes
  <2> QED BY <1>1, <2>1 DEF IInv, TickTypes, Set, Held
<1>4. Near'
  BY <1>1, <1>2, Halves DEF IInv, Near
<1>5. Sorted'
  <2>1. \A t, u \in Timer : Before(list, t, u) => t \in activated /\ u \in activated
    BY BeforeMembers DEF IInv, Held
  <2> QED BY <1>1, <1>2, <2>1 DEF IInv, Sorted, InOrder
<1>6. [u \in ToSet(list') |-> Left(u)'] =
        [t \in ToSet(list) |-> [w \in ToSet(list) |-> Left(w)][t] - 1]
  BY <1>1, <1>2 DEF IInv, Held
<1>7. Service!Elapse
  BY <1>1, <1>6 DEF Service!Elapse
<1> QED BY <1>3, <1>4, <1>5, <1>7 DEF IInv

\* a call of a timeout function its Call,
LEMMA CallStep ==
  ASSUME IInv, CheckOne
  PROVE  IInv' /\ \E t \in Timer : Service!Call(t)
<1>1. checking /\ list # <<>> /\ Due(Head(list)) /\ UNCHANGED <<tick, init_tick, checking>>
  BY DEF CheckOne
<1>2. PICK t \in Timer :
        /\ t = Head(list) /\ t \in activated /\ Left(t) <= 0
        /\ \A u \in activated \ {t} : Before(list, t, u)
  BY <1>1, HeadIsFirst DEF IInv, Held
<1>3. \/ t \in Periodic /\ Start(t, init_tick[t])
      \/ /\ t \notin Periodic /\ list' = Tail(list) /\ started' = RemoveFirst(started, t)
         /\ activated' = activated \ {t} /\ UNCHANGED timeout
  BY <1>2 DEF CheckOne
<1>4. Tail(list) = RemoveFirst(list, t)
  BY <1>1, <1>2, TailIsRemoved DEF IInv, Held
<1>5. Set'
  BY <1>1 DEF IInv, Set
<1>6. ToSet(list) = activated /\ activated \subseteq Timer
  BY DEF IInv, Held
<1>7. Service!NextToCall(t)
  <2>1. \A u \in Timer \ {t} : u \in activated => Left(t) < Left(u) \/ (Left(t) = Left(u) /\ Before(started, t, u))
    <3> SUFFICES ASSUME NEW u \in activated \ {t}
                 PROVE  Left(t) < Left(u) \/ (Left(t) = Left(u) /\ Before(started, t, u))
      OBVIOUS
    <3>1. Left(t) \in Int /\ Left(u) \in Int
      BY <1>2 DEF IInv, Near
    <3>2. Left(t) <= Left(u) /\ (Left(t) = Left(u) => Before(started, t, u))
      BY <1>2, <1>6 DEF IInv, Sorted, InOrder
    <3> QED BY <3>1, <3>2
  <2> QED BY <1>2, <1>6, <2>1, SameOrder DEF Service!NextToCall, Service!Over
<1>8. CASE t \in Periodic /\ Start(t, init_tick[t])
  <2>1. PICK n \in 0..Half - 1 : n = init_tick[t]
    <3>1. init_tick[t] \in Time \cup {0}
      BY DEF IInv, Set
    <3>2. Time \subseteq 0..Half - 1
      BY TimeAssumption
    <3>3. 0 \in 0..Half - 1
      BY Halves
    <3> QED BY <3>1, <3>2, <3>3, Zenon
  <2>2. /\ TickTypes' /\ Held' /\ Near' /\ Sorted'
        /\ activated' = activated \cup {t} /\ started' = Append(RemoveFirst(started, t), t)
        /\ Left(t)' = n /\ \A u \in activated \ {t} : Left(u)' = Left(u)
    BY <1>1, <1>2, <1>8, <2>1, StartKeeps
  <2>3. ToSet(list') = activated
    BY <1>2, <2>2 DEF Held
  <2>4. [u \in ToSet(list') |-> Left(u)'] =
          [[w \in ToSet(list) |-> Left(w)] EXCEPT ![t] = [w \in Periodic |-> init_tick[w]][t]]
    BY <1>2, <1>6, <1>8, <2>1, <2>2, <2>3
  <2>5. Service!Call(t)
    BY <1>1, <1>7, <1>8, <2>2, <2>4, SameRemoval DEF Service!Call
  <2> QED BY <1>2, <1>5, <2>2, <2>5 DEF IInv
<1>9. CASE /\ t \notin Periodic /\ list' = Tail(list) /\ started' = RemoveFirst(started, t)
           /\ activated' = activated \ {t} /\ UNCHANGED timeout
  <2>1. TickTypes' /\ Held' /\ Near' /\ Sorted' /\ \A u \in Timer : Left(u)' = Left(u)
    BY <1>1, <1>2, <1>4, <1>9, StopKeeps
  <2>2. ToSet(list') = activated'
    BY <2>1 DEF Held
  <2>3. [u \in ToSet(list') |-> Left(u)'] = [u \in ToSet(list) \ {t} |-> [w \in ToSet(list) |-> Left(w)][u]]
    BY <1>6, <1>9, <2>1, <2>2
  <2>4. Service!Call(t)
    BY <1>1, <1>7, <1>9, <2>3, SameRemoval DEF Service!Call, Service!Restriction
  <2> QED BY <1>2, <1>5, <2>1, <2>4 DEF IInv
<1> QED BY <1>3, <1>8, <1>9

\* and the end of the check changes nothing it speaks of.
LEMMA ServedStep ==
  ASSUME IInv, CheckDone
  PROVE  IInv' /\ Service!Served
<1>1. /\ checking /\ (list # <<>> => ~ Due(Head(list))) /\ checking' = FALSE
      /\ UNCHANGED <<tick, list, timeout, init_tick, activated, started>>
  BY DEF CheckDone
<1>2. \A u \in activated : Left(u) > 0 /\ Left(u) \in Int
  <2> SUFFICES ASSUME NEW u \in activated PROVE Left(u) > 0 /\ Left(u) \in Int
    OBVIOUS
  <2>1. list # <<>>
    BY DEF IInv, Held, ToSet
  <2>2. /\ Head(list) \in activated /\ Left(Head(list)) > 0 /\ Left(Head(list)) \in Int
        /\ (u # Head(list) => Before(list, Head(list), u))
    BY <1>1, <2>1, HeadIsFirst DEF IInv, Near
  <2>3. u # Head(list) => Left(Head(list)) <= Left(u)
    BY <2>2 DEF IInv, Sorted, InOrder, Held
  <2> QED BY <2>2, <2>3 DEF IInv, Near
<1>3. TickTypes' /\ Held' /\ Near' /\ Sorted' /\ \A t \in Timer : Left(t)' = Left(t)
  BY <1>1, <1>2, Unchanged
<1>4. Set'
  BY <1>1 DEF IInv, Set
<1>5. [u \in ToSet(list') |-> Left(u)'] = [u \in ToSet(list) |-> Left(u)]
  BY <1>1, <1>3 DEF IInv, Held
<1>6. Service!Served
  BY <1>1, <1>2, <1>5 DEF Service!Served, Service!Over, IInv, Held
<1> QED BY <1>3, <1>4, <1>6 DEF IInv

\* The initial states are initial ones of the service.
LEMMA InitStep == Init => IInv /\ Service!ServiceInit
<1> SUFFICES ASSUME Init PROVE IInv /\ Service!ServiceInit
  OBVIOUS
<1>1. ToSet(<<>>) = {} /\ IsInjective(<<>>) /\ \A a, b : ~ Before(<<>>, a, b)
  BY DEF ToSet, IsInjective, Before
<1>2. TickTypes /\ Held /\ Near /\ Sorted /\ Set
  <2>1. TickTypes
    BY FirstTickAssumption, TickModAssumption DEF Init, TickTypes, TickValue
  <2>2. Set
    BY DEF Init, Set
  <2>3. Held
    BY <1>1, EmptySeq DEF Init, Held
  <2>4. Near /\ Sorted
    BY <1>1 DEF Init, Near, Sorted, InOrder
  <2> QED BY <2>1, <2>2, <2>3, <2>4
<1>3. [t \in ToSet(list) |-> Left(t)] = [t \in {} |-> 0]
  BY <1>1 DEF Init
<1>4. [t \in Periodic |-> init_tick[t]] = [t \in Periodic |-> 0]
  BY PeriodicAssumption DEF Init
<1> QED BY <1>2, <1>3, <1>4 DEF IInv, Service!ServiceInit, Init

\* Every step is one of the service, or none.
LEMMA NextStep == IInv /\ [Next]_vars => IInv' /\ [Service!ServiceNext]_(Service!serviceVars)
<1> SUFFICES ASSUME IInv, [Next]_vars PROVE IInv' /\ [Service!ServiceNext]_(Service!serviceVars)
  OBVIOUS
<1>1. CASE UNCHANGED vars
  <2>1. TickTypes' /\ Held' /\ Near' /\ Sorted' /\ \A t \in Timer : Left(t)' = Left(t)
    BY <1>1, Unchanged DEF vars, IInv, Near
  <2>2. Set'
    BY <1>1 DEF vars, IInv, Set
  <2>3. UNCHANGED Service!serviceVars
    BY <1>1, <2>1 DEF vars, Service!serviceVars, IInv, Held
  <2> QED BY <2>1, <2>2, <2>3 DEF IInv
<1>2. ASSUME NEW t \in Timer, NEW n \in Time, SetAndStart(t, n)
      PROVE  IInv' /\ Service!ServiceNext
  BY <1>2, BeginStep DEF Service!ServiceNext
<1>3. ASSUME NEW t \in Timer, rt_timer_stop(t)
      PROVE  IInv' /\ Service!ServiceNext
  BY <1>3, CancelStep DEF Service!ServiceNext
<1>4. CASE rt_tick_increase
  BY <1>4, ElapseStep DEF Service!ServiceNext
<1>5. CASE CheckOne
  BY <1>5, CallStep DEF Service!ServiceNext
<1>6. CASE CheckDone
  BY <1>6, ServedStep DEF Service!ServiceNext
<1> QED BY <1>1, <1>2, <1>3, <1>4, <1>5, <1>6 DEF Next

-----------------------------------------------------------------------------
\* The invariant holds at all times.
THEOREM Inductive == Spec => []IInv
BY InitStep, NextStep, PTL DEF Spec

\* The list and the activated flags agree, and no tick leaves its width.
THEOREM TypeCorrect == Spec => []TypeOK
<1>1. IInv => TypeOK
  BY DEF IInv, TickTypes, Held, Set, TypeOK
<1> QED BY <1>1, Inductive, PTL

\* The list is in the order of the times left although the ticks it compares
\* wrap, and no timer is passed over.
THEOREM ListSorted == Spec => []SortedAndPunctual
<1>1. IInv => SortedAndPunctual
  <2> SUFFICES ASSUME IInv PROVE SortedAndPunctual
    OBVIOUS
  <2>1. DOMAIN list = 1..Len(list) /\ \A i \in 1..Len(list) : list[i] \in activated /\ list[i] \in Timer
    <3>1. \A i \in 1..Len(list) : list[i] \in ToSet(list)
      BY Members DEF IInv, Held
    <3> QED BY <3>1, LenProperties DEF IInv, Held
  <2>2. ASSUME NEW i \in DOMAIN list, NEW j \in DOMAIN list, i < j
        PROVE  Left(list[i]) <= Left(list[j])
    <3>1. Before(list, list[i], list[j])
      BY <2>2 DEF Before
    <3> QED BY <2>1, <3>1 DEF IInv, Sorted, InOrder
  <2>3. ASSUME NEW i \in DOMAIN list
        PROVE  Left(list[i]) < Half /\ (~ checking => Left(list[i]) >= 0)
    BY <2>1, Halves DEF IInv, Near
  <2> QED BY <2>2, <2>3 DEF SortedAndPunctual
<1> QED BY <1>1, Inductive, PTL

\* The sorted list with its wrapping tick implements the service: each tick
\* interrupt calls exactly the timers whose time has come, the one that was to
\* end first before the others, and equal ones in the order of their starts.
THEOREM ImplementsService == Spec => Service!ServiceSteps
BY InitStep, NextStep, Inductive, PTL DEF Spec, Service!ServiceSteps
=============================================================================
