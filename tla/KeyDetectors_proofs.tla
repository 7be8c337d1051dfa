------------------------- MODULE KeyDetectors_proofs -------------------------
(***************************************************************************)
(* For every clock, window, interval between updates, set of keys and set  *)
(* of counts that the assumptions allow, however often the clock wraps     *)
(* around: the rapid-tap event is neither on without reason nor off in     *)
(* spite of one, the sequence event is on only after its sequence and is   *)
(* on after every sequence that began when nothing was under way, and the  *)
(* detectors that share one walk of DeviceRC::Update do not disturb each   *)
(* other: what one of them does in the list is what it does alone.         *)
(***************************************************************************)
EXTENDS KeyDetectors, SequenceTheorems, TLAPS

-----------------------------------------------------------------------------
(* What the wrapping tick measures, for every width.                       *)

\* A time that has passed is measured, wrapped or not, if it is shorter than
\* the clock's round.
LEMMA ElapsedAdvance ==
  ASSUME NEW t \in TickValue, NEW s \in TickValue, NEW d \in Nat,
         Elapsed(t, s) + d < TickMod
  PROVE  Elapsed(Advance(t, d), s) = Elapsed(t, s) + d
BY TickModAssumption DEF TickValue, Elapsed, Advance

\* The tick stays one.
LEMMA AdvanceType ==
  ASSUME NEW t \in TickValue, NEW d \in Nat, d <= TickMod
  PROVE  Advance(t, d) \in TickValue
BY TickModAssumption DEF TickValue, Advance

\* No time has passed since now.
LEMMA ElapsedNow ==
  ASSUME NEW t \in TickValue
  PROVE  Elapsed(t, t) = 0
BY TickModAssumption DEF TickValue, Elapsed

-----------------------------------------------------------------------------
(* The rapid-tap detector.                                                 *)

(* The inductive invariant.                                                *)

\* Within the window the clock tells the time since the last tap ...
Measured == age <= TapMaxTick => Elapsed(tick, lastTap) = age
\* ... and beyond it, where the clock may tell anything, nothing is left of
\* the run.
Forgotten == age = Long => counter = 0 /\ ~rush
\* What was counted happened.
Counted == counter <= run
\* A rush was asked for and made.
Deserved == rush => run >= asked
\* As long as the count asked for stays, the counter is the run's length until
\* the event comes on, and then stays where it is.
Exact ==
  ~reset /\ age <= TapMaxTick =>
    \/ rush /\ counter >= min - 1 /\ run >= min
    \/ ~rush /\ counter = run /\ run < min

\* The inductive invariant of RapidTap.
IInv == TapTypeOK /\ Measured /\ Forgotten /\ Counted /\ Deserved /\ Exact

\* The invariant holds initially.
LEMMA InitIInv == TapInit => IInv
<1> SUFFICES ASSUME TapInit PROVE IInv
  OBVIOUS
<1>1. TapTypeOK
  <2>1. rush \in BOOLEAN /\ reset \in BOOLEAN
    BY Zenon DEF TapInit
  <2>2. tick \in TickValue /\ lastTap \in TickValue
    BY TickModAssumption, FirstTickAssumption DEF TapInit, TickValue
  <2>3. counter \in Nat /\ min \in Counts /\ asked \in Counts
    BY DEF TapInit
  <2>4. age \in 0..Long /\ run \in 0..RunCap
    BY TapAssumption DEF TapInit, Long
  <2> QED BY <2>1, <2>2, <2>3, <2>4 DEF TapTypeOK
<1>2. age > TapMaxTick /\ run = 0 /\ counter = 0
  BY TapAssumption DEF TapInit, Long
<1>3. ~rush
  BY Zenon DEF TapInit
<1>4. Measured /\ Counted /\ ~(age <= TapMaxTick)
  <2>1. age = TapMaxTick + 1
    BY DEF TapInit, Long
  <2> QED BY <1>2, <2>1, TapAssumption DEF Measured, Counted
<1> QED BY <1>1, <1>2, <1>3, <1>4, Zenon DEF IInv, Forgotten, Deserved, Exact

\* The two ways an update can find the last tap: recent, and then the clock
\* decides rightly whether it is too old; or too old already, with nothing to
\* reset.
LEMMA Decides ==
  ASSUME IInv, NEW d \in 1..MaxGap, age <= TapMaxTick
  PROVE  TapExpired(Advance(tick, d)) <=> age + d > TapMaxTick
<1>1. age + d < TickMod
  BY TapAssumption, TickModAssumption DEF IInv, TapTypeOK, Long
<1>2. Elapsed(Advance(tick, d), lastTap) = age + d
  BY <1>1, ElapsedAdvance, TapAssumption DEF IInv, TapTypeOK, Measured
<1> QED BY <1>2 DEF TapExpired

\* Update keeps it,
LEMMA UpdateIInv ==
  ASSUME IInv, NEW d \in 1..MaxGap, NEW released \in BOOLEAN, TapUpdate(d, released)
  PROVE  IInv'
<1> DEFINE now  == Advance(tick, d)
           over == TapExpired(now)
           old  == IF over THEN 0 ELSE counter
           gone == age + d > TapMaxTick
<1>1. d \in Nat /\ d > 0 /\ d <= TickMod /\ TapMaxTick \in Nat /\ age \in Nat
  BY TapAssumption, TickModAssumption DEF IInv, TapTypeOK, Long
<1>2. now \in TickValue
  BY <1>1, AdvanceType DEF IInv, TapTypeOK
<1>3. /\ old \in Nat /\ old <= run /\ old <= counter
      /\ ~over => old = counter
      /\ gone => old = 0
      /\ age <= TapMaxTick => (over <=> gone)
  <2>1. counter \in Nat /\ run \in Nat /\ counter <= run
    BY TapAssumption DEF IInv, TapTypeOK, Counted
  <2>2. CASE age <= TapMaxTick
    BY <2>1, <2>2, Decides
  <2>3. CASE age = Long
    BY <2>1, <2>3, <1>1 DEF IInv, Forgotten, Long
  <2> QED BY <2>2, <2>3, <1>1 DEF IInv, TapTypeOK, Long
<1>a. TapMaxTick \in Nat /\ RunCap \in Nat \ {0} /\ run \in 0..RunCap /\ age \in 0..Long
      /\ min \in Nat /\ min <= RunCap /\ asked \in Nat /\ counter \in Nat
  BY TapAssumption DEF IInv, TapTypeOK
<1>4. CASE released
  <2>1. /\ tick' = now /\ lastTap' = now /\ age' = 0 /\ asked' = min
        /\ Tap(old) /\ min' = min /\ reset' = reset
        /\ run' = IF gone THEN 1 ELSE IF run < RunCap THEN run + 1 ELSE run
    BY <1>4, Zenon DEF TapUpdate
  <2>2. \/ old < min - 1 /\ counter' = old + 1 /\ ~rush' /\ rush' = FALSE
        \/ ~(old < min - 1) /\ counter' = old /\ rush' /\ rush' = TRUE
    BY <2>1, Zenon DEF Tap
  <2> HIDE DEF now, over, old, gone
  <2>3. /\ run' \in 1..RunCap
        /\ old + 1 <= run' \/ run' = RunCap
        /\ gone => run' = 1
    BY <1>a, <1>3, <2>1
  <2>4. TapTypeOK'
    <3>1. counter' \in Nat
      BY <1>3, <2>2
    <3>2. rush' \in BOOLEAN
      BY <2>2, Zenon
    <3>3. age' \in 0..Long
      BY <1>a, <2>1 DEF Long
    <3> QED BY <1>2, <2>1, <2>3, <3>1, <3>2, <3>3 DEF IInv, TapTypeOK
  <2>5. Measured'
    BY <1>2, <2>1, ElapsedNow DEF Measured
  <2>6. Forgotten'
    BY <1>a, <2>1 DEF Forgotten, Long
  <2>7. Counted'
    BY <1>a, <1>3, <2>2, <2>3 DEF Counted
  <2>8. Deserved'
    BY <1>a, <1>3, <2>1, <2>2, <2>3 DEF Deserved
  <2>9. Exact'
    <3>1. CASE gone
      <4>1. old = 0 /\ run' = 1
        BY <1>3, <2>3, <3>1
      <4> QED BY <1>a, <2>1, <2>2, <4>1 DEF Exact
    <3>2. CASE ~gone /\ ~reset
      <4>1. age <= TapMaxTick /\ old = counter
        BY <1>a, <1>3, <3>2 DEF gone
      <4>2. run' = IF run < RunCap THEN run + 1 ELSE run
        BY <2>1, <3>2
      <4>3. \/ rush /\ counter >= min - 1 /\ run >= min
            \/ ~rush /\ counter = run /\ run < min
        BY <3>2, <4>1 DEF IInv, Exact
      <4> QED BY <1>a, <2>1, <2>2, <4>1, <4>2, <4>3 DEF Exact
    <3>3. CASE reset
      BY <2>1, <3>3 DEF Exact
    <3> QED BY <3>1, <3>2, <3>3
  <2> QED BY <2>4, <2>5, <2>6, <2>7, <2>8, <2>9 DEF IInv
<1>5. CASE ~released
  <2>1. /\ tick' = now /\ lastTap' = lastTap /\ counter' = old
        /\ rush' = (rush /\ ~over)
        /\ age' = IF gone THEN Long ELSE age + d
        /\ run' = run /\ asked' = asked /\ min' = min /\ reset' = reset
    BY <1>5, Zenon DEF TapUpdate
  <2>2. /\ rush' \in BOOLEAN
        /\ rush' <=> (rush /\ ~over)
    BY <2>1, Zenon
  <2>3. TapTypeOK'
    <3>1. age' \in 0..Long
      BY <1>1, <1>a, <2>1 DEF Long
    <3> HIDE DEF now, over, old, gone
    <3> QED BY <1>2, <1>3, <2>1, <2>2, <3>1 DEF IInv, TapTypeOK
  <2>4. Measured'
    <3>1. CASE gone
      BY <1>1, <2>1, <3>1 DEF Measured, Long
    <3>2. CASE ~gone
      <4>1. age <= TapMaxTick /\ age + d < TickMod
        BY <1>1, <3>2, TapAssumption, TickModAssumption
      <4>2. Elapsed(now, lastTap) = age + d
        BY <1>1, <4>1, ElapsedAdvance DEF IInv, TapTypeOK, Measured
      <4> QED BY <2>1, <3>2, <4>2 DEF Measured
    <3> QED BY <3>1, <3>2
  <2>5. ~gone => age' = age + d /\ age' <= TapMaxTick /\ age <= TapMaxTick
    BY <1>1, <1>a, <2>1
  <2>6. gone => age' = Long /\ ~(age' <= TapMaxTick)
    BY <1>a, <2>1 DEF Long
  <2>7. gone => old = 0 /\ ~rush'
    <3>1. age <= TapMaxTick \/ age = Long
      BY <1>a DEF Long
    <3>2. age = Long => ~rush
      BY DEF IInv, Forgotten
    <3> HIDE DEF now, over, old, gone
    <3> QED BY <1>3, <2>2, <3>1, <3>2, Zenon
  <2>8. ~gone => old = counter /\ (rush' <=> rush)
    <3> HIDE DEF now, over, old, gone
    <3> QED BY <1>3, <2>2, <2>5, Zenon
  <2> HIDE DEF now, over, old, gone
  <2>9. Forgotten'
    <3>1. ~gone => age' # Long
      BY <1>a, <2>5 DEF Long
    <3> QED BY <2>1, <2>7, <3>1, Zenon DEF Forgotten
  <2>10. Counted'
    BY <1>3, <2>1 DEF Counted
  <2>11. Deserved'
    BY <2>1, <2>2, Zenon DEF IInv, Deserved
  <2>12. Exact'
    <3>1. CASE gone
      BY <2>6, <3>1, Zenon DEF Exact
    <3>2. CASE ~gone
      <4>1. counter' = counter /\ (rush' <=> rush) /\ run' = run
            /\ min' = min /\ reset' = reset
        BY <2>1, <2>8, <3>2, Zenon
      <4> QED BY <2>5, <3>2, <4>1, Zenon DEF IInv, Exact
    <3> QED BY <3>1, <3>2
  <2> QED BY <2>3, <2>4, <2>9, <2>10, <2>11, <2>12 DEF IInv
<1> QED BY <1>4, <1>5

\* SetMinActiveCount does,
LEMMA SetIInv ==
  ASSUME IInv, NEW n \in Counts, SetMinActiveCount(n)
  PROVE  IInv'
BY DEF SetMinActiveCount, IInv, TapTypeOK, Measured, Forgotten, Counted, Deserved, Exact

\* and so every step.
LEMMA NextIInv == IInv /\ [TapNext]_tapVars => IInv'
<1> SUFFICES ASSUME IInv, [TapNext]_tapVars PROVE IInv'
  OBVIOUS
<1>1. ASSUME NEW n \in Counts, SetMinActiveCount(n) PROVE IInv'
  BY <1>1, SetIInv
<1>2. ASSUME NEW d \in 1..MaxGap, NEW released \in BOOLEAN, TapUpdate(d, released)
      PROVE  IInv'
  BY <1>2, UpdateIInv
<1>3. CASE UNCHANGED tapVars
  BY <1>3 DEF tapVars, detector, truth, IInv, TapTypeOK, Measured, Forgotten, Counted,
              Deserved, Exact
<1> QED BY <1>1, <1>2, <1>3 DEF TapNext

\* RapidTap's invariant holds throughout.
THEOREM Inductive == TapSpec => []IInv
BY InitIInv, NextIInv, PTL DEF TapSpec

-----------------------------------------------------------------------------
\* The types of RapidTapDector's fields, for every history of updates and calls.
THEOREM TypeCorrect == TapSpec => []TapTypeOK
<1>1. IInv => TapTypeOK
  BY DEF IInv
<1> QED BY <1>1, Inductive, PTL

\* The rapid-tap event is on only after a run of taps as long as asked for, no
\* two of them further apart than m_MaxTick, and no longer than that after it.
THEOREM NeverWithoutReason == TapSpec => []NoFalseRush
<1>1. IInv => NoFalseRush
  BY TapAssumption DEF IInv, TapTypeOK, Forgotten, Deserved, NoFalseRush, Long
<1> QED BY <1>1, Inductive, PTL

\* The rapid-tap event is on after every such run.
THEOREM AlwaysWithReason == TapSpec => []NoMissedRush
<1>1. IInv => NoMissedRush
  BY TapAssumption DEF IInv, TapTypeOK, Exact, NoMissedRush
<1> QED BY <1>1, Inductive, PTL

-----------------------------------------------------------------------------
(* The sequence detector.                                                  *)

(* The inductive invariant: what the few fields of the detector remember   *)
(* of the history.                                                         *)

\* The updates at which the first n targets were released in time.
Chain(n, pos) ==
  /\ pos \in [1..n -> DOMAIN log]
  /\ \A k \in 1..n : Target[k] \in log[pos[k]].keys
  /\ \A k \in 1..n - 1 : pos[k] < pos[k + 1] /\ Within(pos[k], pos[k + 1], SeqMaxTick)

\* Since the update i the last key has always been released recently.
KeptSince(i) ==
  \A j \in i..Len(log) : \E h \in i..j :
    LastKey \in log[h].keys /\ Within(h, j, ActiveTimeout)

\* The clock tells the time since the update i.
Measures(i) == Elapsed(tick, lastSeq) = Now - log[i].at

\* Part of the sequence has been typed, each key in time after the one before.
UnderWay ==
  ~ cheat /\ currentSeq > 0 =>
    \E pos : /\ Chain(currentSeq, pos) /\ Measures(pos[currentSeq])
             /\ Elapsed(tick, lastSeq) <= SeqMaxTick

\* All of it has, and the last key has been kept going since.
Complete ==
  cheat =>
    /\ currentSeq = KeyCount - 1
    /\ \E pos : Chain(KeyCount, pos) /\ KeptSince(pos[KeyCount])
         /\ \E h \in pos[KeyCount]..Len(log) :
              /\ LastKey \in log[h].keys /\ Measures(h)
              /\ Elapsed(tick, lastSeq) <= ActiveTimeout

\* The inductive invariant of KeySequence.
SeqIInv == SeqTypeOK /\ UnderWay /\ Complete

\* The ranges of the constants.
LEMMA Constants ==
  /\ KeyCount \in Nat \ {0} /\ SeqMaxTick \in Nat /\ ActiveTimeout \in Nat
  /\ \A d \in Gaps : /\ d \in Nat \ {0} /\ d <= TickMod
                     /\ d + SeqMaxTick < TickMod /\ d + ActiveTimeout < TickMod
  /\ TickMod \in Nat \ {0}
<1>1. KeyCount \in Nat \ {0}
  BY SequenceAssumption DEF KeyCount
<1>2. SeqMaxTick \in Nat /\ ActiveTimeout \in Nat
  BY SequenceAssumption
<1>3. \A d \in Gaps : d \in Nat \ {0} /\ d + SeqMaxTick < TickMod /\ d + ActiveTimeout < TickMod
  BY SequenceAssumption
<1> QED BY <1>1, <1>2, <1>3, TickModAssumption

\* The invariant holds initially.
LEMMA InitSeqIInv == SeqInit => SeqIInv
<1> SUFFICES ASSUME SeqInit PROVE SeqIInv
  OBVIOUS
<1>1. ~ cheat /\ cheat \in BOOLEAN
  BY Zenon DEF SeqInit
<1>2. SeqTypeOK
  BY <1>1, Constants, FirstTickAssumption DEF SeqInit, SeqTypeOK, TickValue
<1>3. UnderWay
  BY DEF SeqInit, UnderWay
<1>4. Complete
  BY <1>1, Zenon DEF Complete
<1> QED BY <1>2, <1>3, <1>4 DEF SeqIInv

-----------------------------------------------------------------------------
(* One more update.                                                        *)

\* What an update does to the log.
LEMMA Logged ==
  ASSUME SeqTypeOK, NEW d \in Gaps, NEW keys \in SUBSET Key, SeqUpdate(d, keys)
  PROVE  /\ Len(log) \in Nat /\ Len(log') = Len(log) + 1 /\ DOMAIN log' = 1..Len(log) + 1
         /\ DOMAIN log = 1..Len(log)
         /\ \A i \in 1..Len(log) : log'[i] = log[i] /\ log[i].at \in Nat
         /\ log'[Len(log) + 1].keys = keys
         /\ log'[Len(log) + 1].at = Now + d /\ Now' = Now + d /\ Now \in Nat
         /\ log' \in Seq([at : Nat, keys : SUBSET Key, idle : BOOLEAN])
<1> DEFINE Entry == [at : Nat, keys : SUBSET Key, idle : BOOLEAN]
<1>1. PICK idle \in BOOLEAN : log' = Append(log, [at |-> Now + d, keys |-> keys, idle |-> idle])
  BY Zenon DEF SeqUpdate
<1>2. log \in Seq(Entry) /\ Len(log) \in Nat
  BY DEF SeqTypeOK
<1>7. \A i \in 1..Len(log) : log[i] \in Entry
  <2> HIDE DEF Entry
  <2> QED BY <1>2
<1>3. Now \in Nat
  <2>1. CASE log = <<>>
    BY <2>1 DEF Now
  <2>2. CASE log # <<>>
    <3>1. Len(log) \in 1..Len(log)
      BY <1>2, <2>2
    <3>2. log[Len(log)] \in Entry
      BY <1>7, <3>1
    <3> QED BY <2>2, <3>2 DEF Now, Last
  <2> QED BY <2>1, <2>2
<1>4. [at |-> Now + d, keys |-> keys, idle |-> idle] \in Entry
  BY <1>3, Constants
<1>5. /\ log' \in Seq(Entry) /\ Len(log') = Len(log) + 1 /\ log' # <<>>
      /\ \A i \in 1..Len(log) : log'[i] = log[i]
      /\ log'[Len(log) + 1] = [at |-> Now + d, keys |-> keys, idle |-> idle]
  <2> HIDE DEF Now
  <2> QED BY <1>1, <1>2, <1>4
<1>6. Now' = Now + d
  BY <1>5 DEF Now, Last
<1> HIDE DEF Entry
<1>8. DOMAIN log = 1..Len(log) /\ DOMAIN log' = 1..Len(log) + 1
  BY <1>2, <1>5
<1>9. \A i \in 1..Len(log) : log[i].at \in Nat
  BY <1>7 DEF Entry
<1> QED BY <1>2, <1>3, <1>5, <1>6, <1>8, <1>9 DEF Entry

\* A chain stays one.
LEMMA ChainStays ==
  ASSUME SeqTypeOK, NEW d \in Gaps, NEW keys \in SUBSET Key, SeqUpdate(d, keys),
         NEW n \in Nat, NEW pos, Chain(n, pos)
  PROVE  Chain(n, pos)'
<1>1. pos \in [1..n -> 1..Len(log)] /\ \A i \in 1..Len(log) : log'[i] = log[i]
  BY Logged DEF Chain
<1>2. pos \in [1..n -> DOMAIN log']
  BY <1>1, Logged
<1>3. \A k \in 1..n : Target[k] \in log'[pos[k]].keys
  BY <1>1 DEF Chain
<1>4. ASSUME NEW k \in 1..n - 1
      PROVE  pos[k] < pos[k + 1] /\ Within(pos[k], pos[k + 1], SeqMaxTick)'
  <2>1. k \in 1..n /\ k + 1 \in 1..n
    OBVIOUS
  <2>2. log'[pos[k]] = log[pos[k]] /\ log'[pos[k + 1]] = log[pos[k + 1]]
    BY <1>1, <2>1
  <2> QED BY <2>2 DEF Chain, Within
<1> QED BY <1>2, <1>3, <1>4 DEF Chain

\* The new update prolongs a chain if it is in time.
LEMMA ChainGrows ==
  ASSUME SeqTypeOK, NEW d \in Gaps, NEW keys \in SUBSET Key, SeqUpdate(d, keys),
         NEW n \in Nat, NEW pos, Chain(n, pos), Target[n + 1] \in keys,
         n > 0 => (Now + d) - log[pos[n]].at <= SeqMaxTick,
         NEW N, N = Len(log) + 1
  PROVE  \E p : Chain(n + 1, p)' /\ p[n + 1] = N
<1>0. PICK p : p = [k \in 1..n + 1 |-> IF k <= n THEN pos[k] ELSE N]
  BY Zenon
<1>1. p[n + 1] = N /\ \A k \in 1..n : p[k] = pos[k]
  BY <1>0
<1>2. \A k \in 1..n : pos[k] \in 1..Len(log)
  BY Logged DEF Chain
<1>3. /\ Len(log) \in Nat /\ DOMAIN log' = 1..N
      /\ \A i \in 1..Len(log) : log'[i] = log[i]
  BY Logged
<1>4. log'[N].keys = keys /\ log'[N].at = Now + d
  BY Logged
<1>5. p \in [1..n + 1 -> DOMAIN log']
  BY <1>0, <1>2, <1>3
<1>6. \A k \in 1..n + 1 : Target[k] \in log'[p[k]].keys
  <2>1. ASSUME NEW k \in 1..n PROVE Target[k] \in log'[p[k]].keys
    <3>1. log'[p[k]] = log[pos[k]]
      BY <1>1, <1>2, <1>3
    <3> QED BY <3>1 DEF Chain
  <2>2. Target[n + 1] \in log'[p[n + 1]].keys
    BY <1>1, <1>4
  <2> QED BY <2>1, <2>2
<1>7. ASSUME NEW k \in 1..n
      PROVE  p[k] < p[k + 1] /\ Within(p[k], p[k + 1], SeqMaxTick)'
  <2>1. p[k] = pos[k] /\ pos[k] \in 1..Len(log) /\ log'[p[k]] = log[pos[k]]
    BY <1>1, <1>2, <1>3
  <2>2. CASE k < n
    <3>1. k \in 1..n - 1 /\ k + 1 \in 1..n
      BY <2>2
    <3>2. pos[k] < pos[k + 1] /\ Within(pos[k], pos[k + 1], SeqMaxTick)
      BY <3>1 DEF Chain
    <3>3. p[k + 1] = pos[k + 1] /\ log'[p[k + 1]] = log[pos[k + 1]]
      BY <1>1, <1>2, <1>3, <3>1
    <3> QED BY <2>1, <3>2, <3>3 DEF Within
  <2>3. CASE k = n
    <3>1. p[k + 1] = N /\ pos[k] < N /\ log'[p[k + 1]].at = Now + d
      BY <1>1, <1>3, <1>4, <2>1, <2>3
    <3>2. (Now + d) - log[pos[k]].at <= SeqMaxTick
      BY <2>3
    <3>3. log'[p[k]].at = log[pos[k]].at
      BY <2>1
    <3>4. p[k] < p[k + 1] /\ p[k] <= p[k + 1]
      BY <1>3, <2>1, <3>1
    <3>5. log'[p[k + 1]].at - log'[p[k]].at = (Now + d) - log[pos[k]].at
      BY <3>1, <3>3, Zenon
    <3> QED BY <3>2, <3>4, <3>5 DEF Within
  <2> QED BY <2>2, <2>3
<1>8. Chain(n + 1, p)'
  <2>1. (n + 1) - 1 = n
    OBVIOUS
  <2>2. \A k \in 1..(n + 1) - 1 : p[k] < p[k + 1] /\ Within(p[k], p[k + 1], SeqMaxTick)'
    BY <1>7, <2>1, Zenon
  <2> QED BY <1>5, <1>6, <2>2, Zenon DEF Chain
<1> QED BY <1>1, <1>8, Zenon

\* What counts from the new update on.
LEMMA FromNow ==
  ASSUME SeqTypeOK, NEW d \in Gaps, NEW keys \in SUBSET Key, SeqUpdate(d, keys),
         lastSeq' = tick', NEW N, N = Len(log) + 1
  PROVE  /\ Measures(N)' /\ Elapsed(tick', lastSeq') = 0
         /\ N \in N..Len(log') /\ log'[N].keys = keys
         /\ LastKey \in keys => KeptSince(N)'
<1>1. tick' \in TickValue
  BY Constants, AdvanceType DEF SeqTypeOK, SeqUpdate
<1>2. Elapsed(tick', lastSeq') = 0
  BY <1>1, ElapsedNow
<1>3. /\ N \in Nat /\ Len(log') = N /\ log'[N].keys = keys /\ log'[N].at = Now + d
      /\ Now' = Now + d /\ Now \in Nat
  BY Logged
<1>4. Now' - log'[N].at = 0 /\ log'[N].at \in Nat
  BY <1>3, Constants
<1>5. Measures(N)'
  BY <1>2, <1>4 DEF Measures
<1>6. ASSUME LastKey \in keys, NEW j \in N..Len(log')
      PROVE  \E h \in N..j : LastKey \in log'[h].keys /\ Within(h, j, ActiveTimeout)'
  <2>1. j = N /\ N \in N..j /\ N <= N
    BY <1>3
  <2>2. Within(N, j, ActiveTimeout)'
    <3>1. log'[N].at - log'[N].at <= ActiveTimeout
      BY <1>4, Constants
    <3> QED BY <2>1, <3>1 DEF Within
  <2>3. LastKey \in log'[N].keys
    BY <1>3, <1>6
  <2> QED BY <2>1, <2>2, <2>3, Zenon
<1>7. LastKey' = LastKey
  OBVIOUS
<1>8. LastKey \in keys => KeptSince(N)'
  BY <1>6, <1>7, Zenon DEF KeptSince
<1> QED BY <1>2, <1>3, <1>5, <1>8

\* What was kept until now is kept now, if the last key is released now or was
\* released at the update h, lately.
LEMMA KeptOn ==
  ASSUME SeqTypeOK, NEW d \in Gaps, NEW keys \in SUBSET Key, SeqUpdate(d, keys),
         NEW i \in 1..Len(log), KeptSince(i), NEW h \in i..Len(log) + 1,
         LastKey \in log'[h].keys, (Now + d) - log'[h].at <= ActiveTimeout
  PROVE  KeptSince(i)'
<1>1. /\ Len(log) \in Nat /\ Len(log') = Len(log) + 1
      /\ log'[Len(log) + 1].at = Now + d
      /\ \A k \in 1..Len(log) : log'[k] = log[k]
  BY Logged
<1>2. ASSUME NEW j \in i..Len(log')
      PROVE  \E g \in i..j : LastKey \in log'[g].keys /\ Within(g, j, ActiveTimeout)'
  <2>1. CASE j \in i..Len(log)
    <3>1. PICK g \in i..j : LastKey \in log[g].keys /\ Within(g, j, ActiveTimeout)
      BY <2>1 DEF KeptSince
    <3>2. log'[g] = log[g] /\ log'[j] = log[j]
      BY <1>1, <2>1
    <3>3. LastKey \in log'[g].keys /\ Within(g, j, ActiveTimeout)'
      BY <3>1, <3>2 DEF Within
    <3> QED BY <3>3, Zenon
  <2>2. CASE j = Len(log) + 1
    <3>1. h \in i..j /\ h <= j /\ log'[j].at = Now + d
      BY <1>1, <2>2
    <3>2. log'[j].at - log'[h].at = (Now + d) - log'[h].at
      BY <3>1, Zenon
    <3>3. Within(h, j, ActiveTimeout)'
      BY <3>1, <3>2 DEF Within
    <3> QED BY <3>1, <3>3, Zenon
  <2> QED BY <1>1, <2>1, <2>2
<1> QED BY <1>2, Zenon DEF KeptSince

\* What is measured is a number.
LEMMA TimeType ==
  ASSUME NEW t \in TickValue, NEW u \in TickValue
  PROVE  Elapsed(t, u) \in Nat
BY TickModAssumption DEF TickValue, Elapsed

\* The two limits are measured rightly as long as they were kept so far.
LEMMA TimePasses ==
  ASSUME SeqTypeOK, NEW d \in Gaps, NEW keys \in SUBSET Key, SeqUpdate(d, keys),
         NEW i \in 1..Len(log), Measures(i),
         Elapsed(tick, lastSeq) <= SeqMaxTick \/ Elapsed(tick, lastSeq) <= ActiveTimeout
  PROVE  /\ Elapsed(tick', lastSeq) = (Now + d) - log[i].at
         /\ lastSeq' = lastSeq => Measures(i)'
<1>1. Elapsed(tick, lastSeq) \in Nat
  BY TickModAssumption DEF SeqTypeOK, TickValue, Elapsed
<1>2. Elapsed(tick, lastSeq) + d < TickMod
  BY <1>1, Constants
<1>3. Elapsed(tick', lastSeq) = Elapsed(tick, lastSeq) + d
  BY <1>2, ElapsedAdvance, Constants DEF SeqTypeOK, SeqUpdate
<1>4. /\ log'[i] = log[i] /\ Now' = Now + d
      /\ log[i].at \in Nat /\ Now \in Nat /\ d \in Nat
  BY Logged, Constants
<1> DEFINE since == log[i].at
           now   == Now
<1>5. Elapsed(tick', lastSeq) = (Now + d) - log[i].at
  <2>1. Elapsed(tick, lastSeq) = now - since /\ now \in Nat /\ since \in Nat /\ d \in Nat
    BY <1>4 DEF Measures
  <2>2. ASSUME NEW x \in Nat, NEW y \in Nat PROVE (x - y) + d = (x + d) - y
    BY <1>4
  <2> HIDE DEF now, since
  <2>3. Elapsed(tick', lastSeq) = (now + d) - since
    BY <1>3, <2>1, <2>2, Zenon
  <2> QED BY <2>3 DEF now, since
<1>6. lastSeq' = lastSeq => Measures(i)'
  BY <1>4, <1>5 DEF Measures
<1> QED BY <1>5, <1>6

\* Update keeps it,
LEMMA UpdateSeqIInv ==
  ASSUME SeqIInv, NEW d \in Gaps, NEW keys \in SUBSET Key, SeqUpdate(d, keys)
  PROVE  SeqIInv'
<1>1. SeqTypeOK /\ UnderWay /\ Complete
  BY DEF SeqIInv
<1>2. /\ currentSeq \in 0..KeyCount - 1 /\ cheat \in BOOLEAN
      /\ tick' \in TickValue /\ lastSeq \in TickValue
  BY <1>1, Constants, AdvanceType DEF SeqTypeOK, SeqUpdate
<1>3. PICK over : over = SeqExpired(Elapsed(tick', lastSeq))
  BY Zenon
<1>4. PICK s : s = IF over THEN 0 ELSE currentSeq
  BY Zenon
<1>5. PICK on \in BOOLEAN : on <=> cheat /\ ~ over
  BY Zenon
<1>6. PICK N : N = Len(log) + 1
  BY Zenon
<1>7. IF Target[s + 1] \in keys
      THEN lastSeq' = tick' /\ Matched(s)
      ELSE lastSeq' = lastSeq /\ currentSeq' = s /\ (cheat' <=> on) /\ cheat' \in BOOLEAN
  <2>1. tick' = Advance(tick, d)
    BY Zenon DEF SeqUpdate
  <2>2. IF Target[s + 1] \in keys
        THEN lastSeq' = tick' /\ Matched(s)
        ELSE lastSeq' = lastSeq /\ currentSeq' = s /\ cheat' = (cheat /\ ~ over)
    BY <1>3, <1>4, <2>1, Zenon DEF SeqUpdate
  <2> QED BY <1>5, <2>2, Zenon
<1>8. s \in 0..KeyCount - 1 /\ s \in Nat
  BY <1>2, <1>4, Constants
<1>9. SeqTypeOK'
  <2>1. cheat' \in BOOLEAN
    BY <1>7, Zenon DEF Matched
  <2>2. currentSeq' \in 0..KeyCount - 1 /\ lastSeq' \in TickValue
    BY <1>2, <1>7, <1>8, Constants DEF Matched
  <2>3. log' \in Seq([at : Nat, keys : SUBSET Key, idle : BOOLEAN])
    BY <1>1, Logged
  <2>4. (0..KeyCount - 1)' = 0..KeyCount - 1 /\ (TickValue)' = TickValue
    BY DEF TickValue, KeyCount
  <2> QED BY <1>2, <2>1, <2>2, <2>3, Zenon DEF SeqTypeOK
\* What was under way is still in time.
<1>10. ASSUME ~ cheat, s > 0
       PROVE  \E pos : /\ Chain(s, pos) /\ Chain(s, pos)'
                       /\ (Now + d) - log[pos[s]].at <= SeqMaxTick
                       /\ Elapsed(tick', lastSeq) <= SeqMaxTick
                       /\ lastSeq' = lastSeq => Measures(pos[s])'
  <2>1. s = currentSeq /\ ~ over
    BY <1>4, <1>8, <1>10
  <2>2. PICK pos : /\ Chain(s, pos) /\ Measures(pos[s])
                   /\ Elapsed(tick, lastSeq) <= SeqMaxTick
    BY <1>1, <1>10, <2>1 DEF UnderWay
  <2>3. pos[s] \in 1..Len(log)
    <3>1. s \in 1..s
      BY <1>8, <1>10
    <3>2. pos \in [1..s -> DOMAIN log] /\ DOMAIN log = 1..Len(log)
      BY <1>1, <2>2, Logged DEF Chain
    <3> QED BY <3>1, <3>2
  <2>4. Elapsed(tick', lastSeq) = (Now + d) - log[pos[s]].at
        /\ (lastSeq' = lastSeq => Measures(pos[s])')
    BY <1>1, <2>2, <2>3, TimePasses
  <2>5. Elapsed(tick', lastSeq) <= SeqMaxTick
    <3>1. Elapsed(tick', lastSeq) \in Nat
      BY <1>2, TimeType
    <3>2. ~ (Elapsed(tick', lastSeq) > SeqMaxTick)
      BY <1>3, <1>10, <2>1, Zenon DEF SeqExpired
    <3> QED BY <3>1, <3>2, Constants
  <2>6. Chain(s, pos)'
    BY <1>1, <1>8, <2>2, ChainStays
  <2> QED BY <2>2, <2>4, <2>5, <2>6
\* What is on was kept until now.
<1>11. ASSUME on
       PROVE  /\ s = KeyCount - 1
              /\ \E pos : /\ Chain(KeyCount, pos)' /\ pos[KeyCount] \in 1..Len(log)
                          /\ KeptSince(pos[KeyCount])
                          /\ \E h \in pos[KeyCount]..Len(log) :
                               /\ LastKey \in log[h].keys
                               /\ (Now + d) - log[h].at <= ActiveTimeout
                               /\ Elapsed(tick', lastSeq) <= ActiveTimeout
                               /\ lastSeq' = lastSeq => Measures(h)'
  <2>1. cheat /\ ~ over /\ s = currentSeq
    BY <1>4, <1>5, <1>11
  <2>2. PICK pos : /\ currentSeq = KeyCount - 1
                   /\ Chain(KeyCount, pos) /\ KeptSince(pos[KeyCount])
                   /\ \E h \in pos[KeyCount]..Len(log) :
                        /\ LastKey \in log[h].keys /\ Measures(h)
                        /\ Elapsed(tick, lastSeq) <= ActiveTimeout
    BY <1>1, <2>1 DEF Complete
  <2>3. PICK h \in pos[KeyCount]..Len(log) :
           /\ LastKey \in log[h].keys /\ Measures(h)
           /\ Elapsed(tick, lastSeq) <= ActiveTimeout
    BY <2>2
  <2>4. pos[KeyCount] \in 1..Len(log) /\ Len(log) \in Nat
    <3>1. KeyCount \in 1..KeyCount
      BY Constants
    <3>2. /\ pos \in [1..KeyCount -> DOMAIN log] /\ DOMAIN log = 1..Len(log)
          /\ Len(log) \in Nat
      BY <1>1, <2>2, Logged DEF Chain
    <3> QED BY <3>1, <3>2
  <2>5. h \in 1..Len(log)
    BY <2>3, <2>4
  <2>6. Elapsed(tick', lastSeq) = (Now + d) - log[h].at /\ (lastSeq' = lastSeq => Measures(h)')
    BY <1>1, <2>3, <2>5, TimePasses
  <2>7. Elapsed(tick', lastSeq) <= ActiveTimeout
    <3>1. Elapsed(tick', lastSeq) \in Nat
      BY <1>2, TimeType
    <3>2. ~ (Elapsed(tick', lastSeq) > ActiveTimeout)
      BY <1>3, <2>1, Zenon DEF SeqExpired
    <3> QED BY <3>1, <3>2, Constants
  <2>8. Chain(KeyCount, pos)'
    BY <1>1, <2>2, ChainStays, Constants
  <2>9. (Now + d) - log[h].at <= ActiveTimeout
    BY <2>6, <2>7
  <2> QED BY <2>1, <2>2, <2>3, <2>4, <2>6, <2>7, <2>8, <2>9
\* If nothing was on, a chain ends in the new update.
<1>12. ASSUME ~ on, Target[s + 1] \in keys
       PROVE  \E p : Chain(s + 1, p)' /\ p[s + 1] = N
  <2>1. CASE s = 0
    <3>1. Chain(0, <<>>)
      BY DEF Chain
    <3>2. Target[0 + 1] \in keys /\ ~ (0 > 0) /\ 0 \in Nat
      BY <1>12, <2>1
    <3>3. \E p : Chain(0 + 1, p)' /\ p[0 + 1] = N
      BY <1>1, <1>6, <3>1, <3>2, ChainGrows
    <3> QED BY <2>1, <3>3, Zenon
  <2>2. CASE s > 0
    <3>1. ~ cheat
      BY <1>2, <1>4, <1>5, <1>8, <1>12, <2>2
    <3>2. PICK pos : Chain(s, pos) /\ (Now + d) - log[pos[s]].at <= SeqMaxTick
      BY <1>10, <2>2, <3>1, Zenon
    <3> QED BY <1>1, <1>6, <1>8, <1>12, <3>2, ChainGrows
  <2> QED BY <1>8, <2>1, <2>2
<1>13. CASE Target[s + 1] \in keys
  <2>1. lastSeq' = tick' /\ Matched(s)
    BY <1>7, <1>13
  <2>2. /\ Measures(N)' /\ Elapsed(tick', lastSeq') = 0
        /\ N \in N..Len(log') /\ log'[N].keys = keys
        /\ LastKey \in keys => KeptSince(N)'
    BY <1>1, <1>6, <2>1, FromNow
  <2>3. ASSUME s = KeyCount - 1 PROVE currentSeq' = s /\ cheat' /\ LastKey \in keys
    <3>1. ~ (s < KeyCount - 1) /\ s + 1 = KeyCount
      BY <2>3, Constants
    <3> QED BY <1>13, <2>1, <3>1, Zenon DEF Matched, LastKey
  <2>4. LastKey' = LastKey /\ KeyCount' = KeyCount
    OBVIOUS
  <2>5. CASE s < KeyCount - 1
    <3>1. currentSeq' = s + 1 /\ ~ cheat'
      BY <2>1, <2>5, Zenon DEF Matched
    <3>2. ~ on
      BY <1>8, <1>11, <2>5, Constants
    <3>3. PICK p : Chain(s + 1, p)' /\ p[s + 1] = N
      BY <1>12, <1>13, <3>2
    <3>4. Elapsed(tick', lastSeq') <= SeqMaxTick
      BY <2>2, Constants
    <3>5. UnderWay'
      BY <2>2, <3>1, <3>3, <3>4, Zenon DEF UnderWay
    <3>6. Complete'
      BY <3>1, Zenon DEF Complete
    <3> QED BY <1>9, <3>5, <3>6 DEF SeqIInv
  <2>6. CASE s = KeyCount - 1 /\ ~ on
    <3>1. currentSeq' = KeyCount - 1 /\ cheat' /\ LastKey \in keys /\ s + 1 = KeyCount
      BY <2>3, <2>6, Constants
    <3>2. PICK p : Chain(KeyCount, p)' /\ p[KeyCount] = N
      BY <1>12, <1>13, <2>6, <3>1, Zenon
    <3>3. Elapsed(tick', lastSeq') <= ActiveTimeout
      BY <2>2, Constants
    <3>4. Complete'
      BY <2>2, <2>4, <3>1, <3>2, <3>3, Zenon DEF Complete
    <3>5. UnderWay'
      BY <3>1, Zenon DEF UnderWay
    <3> QED BY <1>9, <3>4, <3>5 DEF SeqIInv
  <2>7. CASE on
    <3>1. PICK pos : /\ s = KeyCount - 1
                     /\ Chain(KeyCount, pos)' /\ pos[KeyCount] \in 1..Len(log)
                     /\ KeptSince(pos[KeyCount])
      BY <1>11, <2>7, Zenon
    <3>2. currentSeq' = KeyCount - 1 /\ cheat' /\ LastKey \in keys
      BY <2>3, <3>1
    <3>3. /\ N \in pos[KeyCount]..Len(log) + 1 /\ N \in pos[KeyCount]..Len(log')
          /\ LastKey \in log'[N].keys /\ (Now + d) - log'[N].at <= ActiveTimeout
      <4>1. /\ Len(log) \in Nat /\ Len(log') = N /\ log'[N].at = Now + d /\ Now \in Nat
            /\ log'[N].keys = keys
        BY <1>1, <1>6, Logged
      <4>2. (Now + d) - log'[N].at = 0
        BY <4>1, Constants
      <4>3. N \in pos[KeyCount]..N
        BY <1>6, <3>1, <4>1
      <4> QED BY <1>6, <3>2, <4>1, <4>2, <4>3, Constants
    <3>4. KeptSince(pos[KeyCount])'
      BY <1>1, <3>1, <3>3, KeptOn
    <3>5. Elapsed(tick', lastSeq') <= ActiveTimeout
      BY <2>2, Constants
    <3>6. Complete'
      BY <2>2, <2>4, <3>1, <3>2, <3>3, <3>4, <3>5, Zenon DEF Complete
    <3>7. UnderWay'
      BY <3>2, Zenon DEF UnderWay
    <3> QED BY <1>9, <3>6, <3>7 DEF SeqIInv
  <2>8. s < KeyCount - 1 \/ s = KeyCount - 1
    BY <1>8, Constants
  <2> QED BY <2>5, <2>6, <2>7, <2>8
<1>14. CASE Target[s + 1] \notin keys
  <2>1. lastSeq' = lastSeq /\ currentSeq' = s /\ (cheat' <=> on) /\ cheat' \in BOOLEAN
    BY <1>7, <1>14
  <2>2. UnderWay'
    <3> SUFFICES ASSUME ~ cheat', s > 0 PROVE UnderWay'
      BY <2>1, Zenon DEF UnderWay
    <3>1. ~ cheat
      BY <1>2, <1>4, <1>5, <1>8, <2>1
    <3>2. PICK pos : /\ Chain(s, pos)' /\ Elapsed(tick', lastSeq) <= SeqMaxTick
                     /\ Measures(pos[s])'
      BY <1>10, <2>1, <3>1, Zenon
    <3> QED BY <2>1, <3>2, Zenon DEF UnderWay
  <2>3. Complete'
    <3> SUFFICES ASSUME on PROVE Complete'
      BY <2>1, Zenon DEF Complete
    <3>1. PICK pos : /\ s = KeyCount - 1
                     /\ Chain(KeyCount, pos)' /\ pos[KeyCount] \in 1..Len(log)
                     /\ KeptSince(pos[KeyCount])
                     /\ \E h \in pos[KeyCount]..Len(log) :
                          /\ LastKey \in log[h].keys
                          /\ (Now + d) - log[h].at <= ActiveTimeout
                          /\ Elapsed(tick', lastSeq) <= ActiveTimeout
                          /\ Measures(h)'
      BY <1>11, <2>1, Zenon
    <3>2. PICK h \in pos[KeyCount]..Len(log) :
             /\ LastKey \in log[h].keys
             /\ (Now + d) - log[h].at <= ActiveTimeout
             /\ Elapsed(tick', lastSeq) <= ActiveTimeout
             /\ Measures(h)'
      BY <3>1
    <3>3. /\ Len(log) \in Nat /\ Len(log') = Len(log) + 1
          /\ \A i \in 1..Len(log) : log'[i] = log[i]
      BY <1>1, Logged
    <3>4. /\ h \in pos[KeyCount]..Len(log') /\ h \in pos[KeyCount]..Len(log) + 1
          /\ h \in 1..Len(log)
      BY <3>1, <3>2, <3>3
    <3>5. LastKey \in log'[h].keys /\ (Now + d) - log'[h].at <= ActiveTimeout
      BY <3>2, <3>3, <3>4
    <3>6. KeptSince(pos[KeyCount])'
      BY <1>1, <3>1, <3>4, <3>5, KeptOn
    <3>7. currentSeq' = KeyCount - 1 /\ LastKey' = LastKey /\ KeyCount' = KeyCount
      BY <2>1, <3>1
    <3> QED BY <2>1, <3>1, <3>2, <3>4, <3>5, <3>6, <3>7, Zenon DEF Complete
  <2> QED BY <1>9, <2>2, <2>3 DEF SeqIInv
<1> QED BY <1>13, <1>14

\* and so every step.
LEMMA NextSeqIInv == SeqIInv /\ [SeqNext]_seqVars => SeqIInv'
<1> SUFFICES ASSUME SeqIInv, [SeqNext]_seqVars PROVE SeqIInv'
  OBVIOUS
<1>1. CASE SeqNext
  BY <1>1, UpdateSeqIInv DEF SeqNext
<1>2. CASE UNCHANGED seqVars
  BY <1>2 DEF seqVars, SeqIInv, SeqTypeOK, UnderWay, Complete, Chain, KeptSince, Measures,
              Within, Now
<1> QED BY <1>1, <1>2

\* KeySequence's invariant holds throughout.
THEOREM SeqInductive == SeqSpec => []SeqIInv
BY InitSeqIInv, NextSeqIInv, PTL DEF SeqSpec

-----------------------------------------------------------------------------
\* The fields of SequenceDetector stay in their ranges: the index into the
\* array of target keys above all.
THEOREM SeqTypeCorrect == SeqSpec => []SeqTypeOK
<1>1. SeqIInv => SeqTypeOK
  BY DEF SeqIInv
<1> QED BY <1>1, SeqInductive, PTL

\* The event is on only if the targets were released in their order, each in
\* its time, and the last one again and again since then.
THEOREM OnlyWithSequence == SeqSpec => []NeverWithoutSequence
<1>1. SeqIInv => NeverWithoutSequence
  BY DEF SeqIInv, Complete, Chain, KeptSince, NeverWithoutSequence
<1> QED BY <1>1, SeqInductive, PTL

-----------------------------------------------------------------------------
(* The converse.  The first n targets have been released in time by one    *)
(* who began when nothing was under way, and nothing else since then: the  *)
(* detector has followed, unless the time is over.                         *)

Typed(n, pos) ==
  /\ pos \in [1..n -> DOMAIN log] /\ log[pos[1]].idle
  /\ \A k \in 1..n : log[pos[k]].keys = {Target[k]}
  /\ \A k \in 1..n - 1 : pos[k] < pos[k + 1] /\ Within(pos[k], pos[k + 1], SeqMaxTick)
  /\ \A i \in pos[1]..Len(log) : log[i].keys = {} \/ \E k \in 1..n : i = pos[k]

\* The detector is at the n-th target, whose release was update i.
Followed(n, i) ==
  /\ Measures(i)
  /\ IF n = KeyCount THEN cheat ELSE ~cheat /\ currentSeq = n
\* The time there is for the next step.
Limit(n) == IF n = KeyCount THEN ActiveTimeout ELSE SeqMaxTick
Following ==
  \A n \in 1..KeyCount : \A pos \in [1..n -> DOMAIN log] :
    Typed(n, pos) /\ Now - log[pos[n]].at <= Limit(n) => Followed(n, pos[n])

\* An update without a release of a key leaves the detector where it was.
LEMMA StillFollowed ==
  ASSUME SeqTypeOK, NEW d \in Gaps, SeqUpdate(d, {}),
         NEW n \in 1..KeyCount, NEW i \in 1..Len(log), Followed(n, i),
         (Now + d) - log[i].at <= Limit(n)
  PROVE  Followed(n, i)'
<1>1. /\ Now \in Nat /\ log[i].at \in Nat /\ d \in Nat /\ Now' = Now + d
      /\ SeqMaxTick \in Nat /\ ActiveTimeout \in Nat
  BY Logged, Constants
<1>2. Elapsed(tick, lastSeq) = Now - log[i].at /\ Elapsed(tick, lastSeq) \in Nat
  BY TimeType DEF Followed, Measures, SeqTypeOK
<1>3. Elapsed(tick, lastSeq) <= SeqMaxTick \/ Elapsed(tick, lastSeq) <= ActiveTimeout
  BY <1>1, <1>2 DEF Limit
<1>4. /\ Elapsed(tick', lastSeq) = (Now + d) - log[i].at
      /\ lastSeq' = lastSeq => Measures(i)'
  BY <1>2, <1>3, TimePasses DEF Followed
<1>5. ~SeqExpired(Elapsed(tick', lastSeq))
  <2>1. CASE n = KeyCount
    BY <1>1, <1>4, <2>1 DEF Followed, Limit, SeqExpired
  <2>2. CASE n # KeyCount
    BY <1>1, <1>4, <2>2 DEF Followed, Limit, SeqExpired
  <2> QED BY <2>1, <2>2
<1>6. lastSeq' = lastSeq /\ currentSeq' = currentSeq /\ cheat' = cheat
  <2>1. tick' = Advance(tick, d)
    BY DEF SeqUpdate
  <2>2. cheat \in BOOLEAN
    BY DEF SeqTypeOK
  <2> QED BY <1>5, <2>1, <2>2, Zenon DEF SeqUpdate
<1> QED BY <1>4, <1>6 DEF Followed

\* One in which exactly the target to come is released takes it to the next.
LEMMA NextFollowed ==
  ASSUME SeqTypeOK, NEW d \in Gaps, NEW n \in 1..KeyCount, SeqUpdate(d, {Target[n]}),
         NEW i0 \in Nat, i0 = Len(log) + 1,
         IF n = 1 THEN log'[i0].idle
         ELSE \E i \in 1..Len(log) : Followed(n - 1, i) /\ (Now + d) - log[i].at <= SeqMaxTick
  PROVE  Followed(n, i0)'
<1> DEFINE over == SeqExpired(Elapsed(tick', lastSeq))
           s == IF over THEN 0 ELSE currentSeq
<1>1. KeyCount \in Nat \ {0} /\ SeqMaxTick \in Nat /\ ActiveTimeout \in Nat /\ d \in Nat
  BY Constants
<1>0. {Target[n]} \in SUBSET Key
  BY SequenceAssumption, ElementOfSeq DEF KeyCount
<1>2. tick' = Advance(tick, d) /\ tick' \in TickValue
  BY AdvanceType, Constants DEF SeqUpdate, SeqTypeOK
<1>3. s = n - 1 /\ (cheat => over)
  <2>1. CASE n = 1
    <3>1. log'[i0].idle = (s = 0 /\ ~ (cheat /\ ~ over))
      <4>1. log' = Append(log, [at |-> Now + d, keys |-> {Target[n]}, idle |-> s = 0 /\ ~ (cheat /\ ~ over)])
        BY <1>2, Zenon DEF SeqUpdate
      <4> HIDE DEF s, over
      <4> QED BY <4>1, AppendProperties DEF SeqTypeOK
    <3>2. log'[i0].idle
      BY <2>1
    <3> HIDE DEF s, over
    <3>3. s = 0 /\ ~ (cheat /\ ~ over)
      BY <3>1, <3>2, Zenon
    <3> QED BY <2>1, <3>3
  <2>2. CASE n # 1
    <3>1. PICK i \in 1..Len(log) : Followed(n - 1, i) /\ (Now + d) - log[i].at <= SeqMaxTick
      BY <2>2
    <3>2. /\ Now \in Nat /\ log[i].at \in Nat /\ n - 1 # KeyCount
          /\ ~cheat /\ currentSeq = n - 1 /\ Measures(i)
      BY <1>0, <1>1, <3>1, Logged DEF Followed
    <3>3. Elapsed(tick, lastSeq) = Now - log[i].at /\ Elapsed(tick, lastSeq) <= SeqMaxTick
      BY <1>1, <3>1, <3>2 DEF Measures
    <3>4. Elapsed(tick', lastSeq) = (Now + d) - log[i].at
      BY <1>0, <3>2, <3>3, TimePasses
    <3>5. ~over
      BY <1>1, <3>1, <3>2, <3>4 DEF SeqExpired
    <3> QED BY <3>2, <3>5
  <2> QED BY <2>1, <2>2
<1>4. lastSeq' = tick' /\ Matched(s)
  <2>1. s + 1 = n
    BY <1>1, <1>3
  <2>2. IF Target[s + 1] \in {Target[n]} THEN lastSeq' = tick' /\ Matched(s)
        ELSE lastSeq' = lastSeq /\ currentSeq' = s /\ cheat' = (cheat /\ ~ over)
    BY <1>2, Zenon DEF SeqUpdate
  <2> HIDE DEF s
  <2> QED BY <2>1, <2>2
<1>5. IF n = KeyCount THEN cheat' ELSE ~cheat' /\ currentSeq' = n
  <2> HIDE DEF s
  <2> QED BY <1>1, <1>3, <1>4 DEF Matched
<1>6. Measures(i0)'
  <2> HIDE DEF over, s
  <2>1. log'[i0].at = Now' /\ Now' \in Nat
    BY <1>0, <1>1, Logged
  <2>2. Elapsed(tick', lastSeq') = 0
    BY <1>2, <1>4, ElapsedNow
  <2>3. Measures(i0)' <=> Elapsed(tick', lastSeq') = Now' - log'[i0].at
    BY DEF Measures
  <2>4. Now' - log'[i0].at = 0
    <3>1. \A x \in Nat : x - x = 0
      OBVIOUS
    <3> QED BY <2>1, <3>1, Zenon
  <2> QED BY <2>2, <2>3, <2>4, Zenon
<1> QED BY <1>5, <1>6 DEF Followed

\* An update keeps it.
LEMMA UpdateFollowing ==
  ASSUME SeqTypeOK, Following, NEW d \in Gaps, NEW keys \in SUBSET Key, SeqUpdate(d, keys)
  PROVE  Following'
<1>1. /\ Len(log) \in Nat /\ Len(log') = Len(log) + 1
      /\ DOMAIN log = 1..Len(log) /\ DOMAIN log' = 1..Len(log) + 1
      /\ \A i \in 1..Len(log) : log'[i] = log[i] /\ log[i].at \in Nat
      /\ log'[Len(log) + 1].keys = keys /\ log'[Len(log) + 1].at = Now + d
      /\ Now' = Now + d /\ Now \in Nat /\ d \in Nat
      /\ KeyCount \in Nat \ {0} /\ SeqMaxTick \in Nat /\ ActiveTimeout \in Nat
  BY Logged, Constants
<1>6. PICK N \in Nat : N = Len(log) + 1
  BY <1>1
<1> SUFFICES ASSUME NEW n \in 1..KeyCount, NEW pos \in [1..n -> 1..N], Typed(n, pos)',
                    Now' - log'[pos[n]].at <= Limit(n)
             PROVE  Followed(n, pos[n])'
  BY <1>1, <1>6 DEF Following, Limit, KeyCount
<1>2. /\ log'[pos[1]].idle /\ \A k \in 1..n : log'[pos[k]].keys = {Target[k]} /\ pos[k] \in 1..N
      /\ \A k \in 1..n - 1 :
           pos[k] < pos[k + 1] /\ log'[pos[k + 1]].at - log'[pos[k]].at <= SeqMaxTick
      /\ \A i \in pos[1]..N : log'[i].keys = {} \/ \E k \in 1..n : i = pos[k]
  BY <1>1, <1>6 DEF Typed, Within
\* Only the last of the releases can be the new one.
<1>3. \A k \in 1..n - 1 : pos[k] \in 1..Len(log) /\ k + 1 \in 1..n
  BY <1>1, <1>6, <1>2
<1>4. CASE keys = {}
  <2>1. \A k \in 1..n : pos[k] \in 1..Len(log)
    <3>1. \A k \in 1..n : log'[pos[k]].keys # {}
      BY <1>2
    <3>2. \A k \in 1..n : pos[k] # N
      BY <1>1, <1>6, <1>4, <3>1
    <3> QED BY <1>1, <1>6, <1>2, <3>2
  <2>2. Typed(n, pos)
    <3>1. pos \in [1..n -> DOMAIN log]
      BY <1>1, <1>6, <2>1
    <3>2. 1 \in 1..n /\ n \in 1..n
      OBVIOUS
    <3>3. log[pos[1]].idle /\ \A k \in 1..n : log[pos[k]].keys = {Target[k]}
      BY <1>1, <1>6, <1>2, <2>1, <3>2
    <3>4. \A k \in 1..n - 1 : pos[k] < pos[k + 1] /\ log[pos[k + 1]].at - log[pos[k]].at <= SeqMaxTick
      BY <1>1, <1>6, <1>2, <1>3, <2>1
    <3>5. \A i \in pos[1]..Len(log) : log[i].keys = {} \/ \E k \in 1..n : i = pos[k]
      <4>1. \A i \in pos[1]..Len(log) : i \in pos[1]..N /\ i \in 1..Len(log)
        BY <1>1, <1>6, <2>1, <3>2
      <4> QED BY <1>1, <1>6, <1>2, <4>1
    <3>6. \A k \in 1..n - 1 : Within(pos[k], pos[k + 1], SeqMaxTick)
      BY <1>3, <2>1, <3>4 DEF Within
    <3> QED BY <3>1, <3>3, <3>4, <3>5, <3>6 DEF Typed
  <2>3. pos[n] \in 1..Len(log) /\ log'[pos[n]] = log[pos[n]] /\ log[pos[n]].at \in Nat
    BY <1>1, <1>6, <2>1
  <2>4. Limit(n) \in Nat
    BY <1>1, <1>6 DEF Limit
  <2>5. Now - log[pos[n]].at <= Limit(n) /\ (Now + d) - log[pos[n]].at <= Limit(n)
    BY <1>1, <1>6, <2>3, <2>4
  <2>6. Followed(n, pos[n])
    BY <2>1, <2>2, <2>5, <1>1, <1>6 DEF Following
  <2> QED BY <1>4, <2>3, <2>5, <2>6, StillFollowed
<1>5. CASE keys # {}
  <2>1. pos[1] \in 1..N /\ N \in pos[1]..N
    BY <1>1, <1>6
  <2>2. \E k \in 1..n : pos[k] = N
    BY <1>1, <1>6, <1>2, <1>5, <2>1
  <2>3. pos[n] = N /\ keys = {Target[n]}
    <3>1. \A k \in 1..n - 1 : pos[k] # N
      BY <1>1, <1>6, <1>3
    <3>2. pos[n] = N /\ n \in 1..n
      BY <1>1, <2>2, <3>1
    <3> QED BY <1>1, <1>6, <1>2, <3>2
  <2>4. CASE n = 1
    <3>1. log'[N].idle /\ N \in Nat /\ 1 \in 1..KeyCount
      BY <1>1, <1>6, <1>2, <2>3, <2>4
    <3>2. Followed(n, N)'
      BY <1>6, <2>3, <2>4, <3>1, NextFollowed
    <3> QED BY <2>3, <3>2
  <2>5. CASE n # 1
    <3> DEFINE m == n - 1
               old == [k \in 1..m |-> pos[k]]
    <3>1. /\ m \in 1..KeyCount /\ m # KeyCount /\ m + 1 = n /\ old \in [1..m -> 1..Len(log)]
          /\ \A k \in 1..m : old[k] = pos[k] /\ pos[k] \in 1..Len(log) /\ k \in 1..n
          /\ 1 \in 1..m /\ m \in 1..m
      BY <1>1, <1>6, <1>3, <2>5
    <3> HIDE DEF m, old
    <3>2. log[old[1]].idle /\ \A k \in 1..m : log[old[k]].keys = {Target[k]}
      BY <1>1, <1>6, <1>2, <3>1
    <3>3. \A k \in 1..m - 1 : old[k] < old[k + 1] /\ Within(old[k], old[k + 1], SeqMaxTick)
      <4>1. \A k \in 1..m - 1 : k \in 1..n - 1 /\ k \in 1..m /\ k + 1 \in 1..m
        BY <1>1, <1>6, <3>1
      <4>2. \A k \in 1..m - 1 : old[k] < old[k + 1]
        BY <1>2, <3>1, <4>1
      <4>3. \A k \in 1..m - 1 : log[old[k + 1]].at - log[old[k]].at <= SeqMaxTick
        <5>1. \A k \in 1..m : log[old[k]] = log'[pos[k]]
          BY <1>1, <1>6, <3>1
        <5> QED BY <1>2, <4>1, <5>1
      <4> QED BY <3>1, <4>1, <4>2, <4>3 DEF Within
    <3>4. ASSUME NEW i \in old[1]..Len(log) PROVE log[i].keys = {} \/ \E k \in 1..m : i = old[k]
      <4>1. i \in pos[1]..N /\ i \in 1..Len(log) /\ i # N
        BY <1>1, <1>6, <3>1
      <4>2. log[i].keys = {} \/ \E k \in 1..n : i = pos[k]
        BY <1>1, <1>6, <1>2, <4>1
      <4>3. \A k \in 1..n : k = n \/ k \in 1..m
        BY <1>1, <1>6, <3>1
      <4> QED BY <2>3, <3>1, <4>1, <4>2, <4>3
    <3>5. Typed(m, old)
      BY <1>1, <1>6, <3>1, <3>2, <3>3, <3>4 DEF Typed
    <3>6. (Now + d) - log[old[m]].at <= SeqMaxTick
      <4>1. m \in 1..n - 1
        BY <1>1, <1>6, <3>1
      <4> QED BY <1>1, <1>6, <1>2, <2>3, <3>1, <4>1
    <3>7. Now - log[old[m]].at <= Limit(m)
      <4>1. log[old[m]].at \in Nat
        BY <1>1, <1>6, <3>1
      <4> QED BY <1>1, <1>6, <3>1, <3>6, <4>1 DEF Limit
    <3>8. Followed(m, old[m])
      BY <1>1, <1>6, <3>1, <3>5, <3>7 DEF Following
    <3>9. old[m] \in 1..Len(log) /\ m = n - 1
      BY <3>1 DEF m
    <3>10. \E i \in 1..Len(log) : Followed(n - 1, i) /\ (Now + d) - log[i].at <= SeqMaxTick
      BY <3>6, <3>8, <3>9
    <3>11. Followed(n, N)'
      BY <1>1, <1>6, <2>3, <2>5, <3>10, NextFollowed
    <3> QED BY <2>3, <3>11
  <2> QED BY <2>4, <2>5
<1> QED BY <1>4, <1>5

\* Whoever releases the targets, nothing else, in time, when nothing is under
\* way, has the event on, however the clock wraps.
THEOREM NeverMissed == SeqSpec => []NeverMissedFromIdle
<1>1. SeqInit => Following
  BY DEF SeqInit, Following
<1>2. SeqTypeOK /\ Following /\ [SeqNext]_seqVars => Following'
  <2>1. ASSUME Following, UNCHANGED seqVars PROVE Following'
    <3>1. UNCHANGED <<tick, lastSeq, currentSeq, cheat, log>>
      BY <2>1 DEF seqVars
    <3>2. Now' = Now
      BY <3>1 DEF Now
    <3>3. \A n \in 1..KeyCount : \A pos \in [1..n -> DOMAIN log] :
            (Typed(n, pos)' <=> Typed(n, pos)) /\ (Followed(n, pos[n])' <=> Followed(n, pos[n]))
      BY <3>1, <3>2 DEF Typed, Followed, Measures, Within
    <3> QED BY <2>1, <3>1, <3>2, <3>3 DEF Following, Limit
  <2> QED BY <2>1, UpdateFollowing DEF SeqNext
<1>3. Following => NeverMissedFromIdle
  <2> SUFFICES ASSUME Following, ~ cheat, NEW pos \in [1..KeyCount -> SingleReleases],
                      log[pos[1]].idle,
                      \A k \in 1..KeyCount : log[pos[k]].keys = {Target[k]},
                      \A k \in 1..KeyCount - 1 :
                        pos[k] < pos[k + 1] /\ Within(pos[k], pos[k + 1], SeqMaxTick),
                      \A i \in pos[1]..Len(log) : log[i].keys = {} \/ \E k \in 1..KeyCount : i = pos[k],
                      Now - log[pos[KeyCount]].at <= ActiveTimeout
               PROVE  FALSE
    BY Zenon DEF NeverMissedFromIdle
  <2>1. KeyCount \in 1..KeyCount
    BY Constants
  <2>2. pos \in [1..KeyCount -> DOMAIN log]
    BY DEF SingleReleases
  <2>3. Typed(KeyCount, pos)
    BY <2>2 DEF Typed
  <2> QED BY <2>1, <2>2, <2>3 DEF Following, Limit, Followed
<1> QED BY <1>1, <1>2, <1>3, SeqTypeCorrect, PTL DEF SeqSpec

-----------------------------------------------------------------------------
(* The list of detectors.                                                  *)

\* A step of the list is a step of the tap detector, or none of its.
LEMMA StepIsTapStep == [Next]_vars => [TapNext]_tapVars
<1> SUFFICES ASSUME [Next]_vars PROVE [TapNext]_tapVars
  OBVIOUS
<1>1. ASSUME NEW n \in Counts, Configure(n) PROVE TapNext
  BY <1>1, Zenon DEF Configure, TapNext
<1>2. ASSUME NEW d \in Gaps, NEW keys \in SUBSET Key, Update(d, keys) PROVE TapNext
  <2>1. d \in 1..MaxGap
    BY SequenceAssumption, TapKeyAssumption, TapAssumption
  <2>2. PICK released \in BOOLEAN : released = (TapKey \in keys)
    <3>1. TapKey \in keys => TRUE = (TapKey \in keys)
      BY SMT
    <3>2. TapKey \notin keys => FALSE = (TapKey \in keys)
      BY SMT
    <3> QED BY <3>1, <3>2, Zenon
  <2>3. TapUpdate(d, released)
    BY <1>2, <2>2, Zenon DEF Update
  <2> QED BY <2>1, <2>3, Zenon DEF TapNext
<1>3. CASE UNCHANGED vars
  BY <1>3, Zenon DEF vars
<1> QED BY <1>1, <1>2, <1>3, Zenon DEF Next

\* A step of the list is a step of the sequence detector, or none of its.
LEMMA StepIsSeqStep == [Next]_vars => [SeqNext]_seqVars
<1> SUFFICES ASSUME [Next]_vars PROVE [SeqNext]_seqVars
  OBVIOUS
<1>1. ASSUME NEW n \in Counts, Configure(n) PROVE UNCHANGED seqVars
  BY <1>1, Zenon DEF Configure
<1>2. ASSUME NEW d \in Gaps, NEW keys \in SUBSET Key, Update(d, keys) PROVE SeqNext
  BY <1>2, Zenon DEF Update, SeqNext
<1>3. CASE UNCHANGED vars
  BY <1>3, Zenon DEF vars
<1> QED BY <1>1, <1>2, <1>3, Zenon DEF Next

\* What is proved of one detector alone may be used of the list: each of them is
\* updated once in every update of the list.
LEMMA EachAsAlone == Spec => TapSpec /\ SeqSpec
<1>1. Init => TapInit /\ SeqInit
  BY Zenon DEF Init
<1> QED BY <1>1, StepIsTapStep, StepIsSeqStep, PTL DEF Spec, TapSpec, SeqSpec

\* No field of the detectors leaves its range, however often the clock wraps.
THEOREM DetectorsTypeCorrect == Spec => []TypeOK
<1>1. TapTypeOK /\ SeqTypeOK => TypeOK
  BY Zenon DEF TypeOK
<1> QED BY <1>1, EachAsAlone, TypeCorrect, SeqTypeCorrect, PTL

\* In the list the rapid-tap event is neither on without reason nor off in
\* spite of one; the sequence event is never on without its sequence and never
\* off after one that began when nothing was under way.
THEOREM DetectorsRight ==
  Spec => [](NoFalseRush /\ NoMissedRush /\ NeverWithoutSequence /\ NeverMissedFromIdle)
BY EachAsAlone, NeverWithoutReason, AlwaysWithReason, OnlyWithSequence, NeverMissed, PTL
=============================================================================
