------------------------------ MODULE RapidTap -------------------------------
(***************************************************************************)
(* RapidTapDector (device_rc.cpp): the event is on while a key is tapped   *)
(* again and again, at least m_MinActiveCount times, no two taps further   *)
(* apart than m_MaxTick.  A tap is seen when the key is released.  The     *)
(* detector keeps a counter and the tick of the last tap, in a clock that  *)
(* wraps around; it is updated every few ticks, never later than MaxGap.   *)
(*                                                                         *)
(* age and run are the truth it is compared with: the time since the last  *)
(* tap and the number of taps in the run that one belongs to.              *)
(***************************************************************************)
EXTENDS TickClock

CONSTANTS
  TapMaxTick,  \* m_MaxTick
  MaxGap,      \* longest time between two updates
  Counts,      \* the values of m_MinActiveCount
  RunCap       \* run is not counted further than this

ASSUME TapAssumption ==
  /\ TapMaxTick \in Nat /\ MaxGap \in Nat \ {0}
  /\ TapMaxTick + MaxGap < TickMod
  /\ Counts \subseteq Nat /\ RunCap \in Nat \ {0}
  /\ \A n \in Counts : n <= RunCap

VARIABLES
  lastTap,  \* m_LastTick
  counter,  \* m_StartupCounter
  rush,     \* m_EventState
  min,      \* m_MinActiveCount
  age,      \* time since the last tap, or Long
  run,      \* taps in the run the last one belongs to, at most RunCap
  asked,    \* m_MinActiveCount at the last tap
  reset     \* SetMinActiveCount was called

detector == <<lastTap, counter, rush, min>>
truth    == <<age, run, asked, reset>>
tapVars  == <<tick, detector, truth>>

Long == TapMaxTick + 1

TapTypeOK ==
  /\ tick \in TickValue /\ lastTap \in TickValue
  /\ counter \in Nat /\ rush \in BOOLEAN /\ min \in Counts
  /\ age \in 0..Long /\ run \in 0..RunCap
  /\ asked \in Counts /\ reset \in BOOLEAN

TapInit ==
  /\ tick = FirstTick /\ lastTap = 0
  /\ counter = 0 /\ rush = FALSE /\ min \in Counts
  /\ age = Long /\ run = 0
  /\ asked = min /\ reset = FALSE

-----------------------------------------------------------------------------
SetMinActiveCount(n) ==
  /\ min' = n /\ reset' = TRUE
  /\ UNCHANGED <<tick, lastTap, counter, rush, age, run, asked>>

\* dt > m_MaxTick.  Mutant: the clock is taken for one that never wraps.
TapExpired_NoWrap(now) == now > lastTap + TapMaxTick
TapExpired(now) == Elapsed(now, lastTap) > TapMaxTick

\* The released key is the one the detector watches: count or turn on.
\* Mutant: one tap more than was asked for.
Tap_OneMore(c) ==
  IF c < min THEN counter' = c + 1 /\ rush' = FALSE
             ELSE counter' = c /\ rush' = TRUE
Tap(c) ==
  IF c < min - 1 THEN counter' = c + 1 /\ rush' = FALSE
                 ELSE counter' = c /\ rush' = TRUE

\* RapidTapDector::Update, d ticks after the one before.
TapUpdate(d, released) ==
  LET now  == Advance(tick, d)
      over == TapExpired(now)
      old  == IF over THEN 0 ELSE counter
      gone == age + d > TapMaxTick
  IN /\ tick' = now
     /\ IF released
        THEN /\ lastTap' = now /\ Tap(old)
             /\ age' = 0 /\ asked' = min
             /\ run' = IF gone THEN 1
                       ELSE IF run < RunCap THEN run + 1 ELSE run
        ELSE /\ lastTap' = lastTap
             /\ counter' = old /\ rush' = (rush /\ ~over)
             /\ age' = IF gone THEN Long ELSE age + d
             /\ UNCHANGED <<run, asked>>
     /\ UNCHANGED <<min, reset>>

TapNext ==
  \/ \E n \in Counts : SetMinActiveCount(n)
  \/ \E d \in 1..MaxGap, released \in BOOLEAN : TapUpdate(d, released)
TapSpec == TapInit /\ [][TapNext]_tapVars

-----------------------------------------------------------------------------
(* Properties.                                                             *)

\* The event is on only while there is reason for it: the last tap is not
\* older than m_MaxTick and ended a run as long as was asked for then,
\* whether or not the clock has wrapped since.
NoFalseRush == rush => age <= TapMaxTick /\ run >= asked

\* And it is on whenever there is reason for it, unless the count that is
\* asked for was changed.
NoMissedRush == ~reset /\ age <= TapMaxTick /\ run >= min => rush
=============================================================================
