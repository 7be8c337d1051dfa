------------------------------- MODULE RcLatch -------------------------------
(***************************************************************************)
(* RcManager::Update (RcUpdater.cpp) reads rc_raw field by field, in       *)
(* DeviceRC::UpdateKbdEvents and again in ChordDetector::Update            *)
(* (device_rc.cpp), while the USART6 interrupt replaces all of it.  The    *)
(* scheduler is locked meanwhile, interrupts are not: an update may see    *)
(* the first fields of one frame and the last ones of the next.            *)
(*                                                                         *)
(* Frames are numbered, frame 0 being the zeroed rc_raw.  A field that was *)
(* read is represented by the number of the frame it was read from.  The   *)
(* detectors follow in the list; the chord is the only one that reads      *)
(* rc_raw itself.                                                          *)
(***************************************************************************)
EXTENDS Integers, Sequences

CONSTANTS
  Key,         \* the keyboard keys modelled
  ChordKeys,   \* the keyboard part of the chord ...
  ChordLeft, ChordRight,   \* ... and which mouse buttons belong to it
  MaxFrames    \* bound on the number of frames

ASSUME ChordAssumption ==
  ChordKeys \subseteq Key /\ {ChordLeft, ChordRight} \subseteq BOOLEAN
ASSUME FramesAssumption == MaxFrames \in Nat

Frame == [kbd : SUBSET Key, left : BOOLEAN, right : BOOLEAN]
Blank == [kbd |-> {}, left |-> FALSE, right |-> FALSE]
Chord == [kbd |-> ChordKeys, left |-> ChordLeft, right |-> ChordRight]

\* The reads of one update, in program order: what is latched, then what the
\* chord detector reads once more.
LatchOrder == <<"axes", "kbd", "left", "right", "switches">>
ChordOrder == <<"left", "right", "kbd">>
Field == {"axes", "kbd", "left", "right", "switches"}
Again == {"left", "right", "kbd"}

VARIABLES
  sent,      \* the frames decoded so far; rc_raw is the last one
  recent,    \* how many of them since the update under way, or last, began
  pc,        \* the read RcManager::Update is at
  cur,       \* the axes, m_KbdState, m_MouseLState, m_MouseRState, m_SwState
  seen,      \* what the chord detector has read in this update
  chord,     \* its m_EventState
  phantoms   \* for how many updates in a row the chord was on without ever
             \* having been in one frame

vars == <<sent, recent, pc, cur, seen, chord, phantoms>>

Sleep == 0

TypeOK ==
  /\ sent \in Seq(Frame) /\ Len(sent) <= MaxFrames
  /\ recent \in 0..MaxFrames
  /\ pc \in 0..8
  /\ cur \in [Field -> 0..Len(sent)]
  /\ seen \in [Again -> 0..Len(sent)]
  /\ chord \in BOOLEAN /\ phantoms \in Nat

Init ==
  /\ sent = <<>> /\ recent = 0
  /\ pc = Sleep
  /\ cur = [f \in Field |-> 0] /\ seen = [f \in Again |-> 0]
  /\ chord = FALSE /\ phantoms = 0

Content(n) == IF n = 0 THEN Blank ELSE sent[n]
Latest == Len(sent)

-----------------------------------------------------------------------------
\* How many frames may arrive from one update's beginning to the next: the
\* updater sleeps 7 ms, the receiver sends every 14 ms.
FramesPerUpdate_SlowUpdater == 2    \* mutant: an updater that sleeps longer
FramesPerUpdate == 1

\* The USART6 interrupt, at any point of the update; no thread runs during it.
FrameArrives(f) ==
  /\ Len(sent) < MaxFrames /\ recent < FramesPerUpdate
  /\ sent' = Append(sent, f) /\ recent' = recent + 1
  /\ UNCHANGED <<pc, cur, seen, chord, phantoms>>

Wake ==
  /\ pc = Sleep
  /\ pc' = 1 /\ recent' = 0
  /\ UNCHANGED <<sent, cur, seen, chord, phantoms>>

Following_Endless(p) == p + 1    \* mutant: the update does not end
Following(p) == IF p < 8 THEN p + 1 ELSE Sleep

\* UpdateNormalizedAxis and UpdateKbdEvents.
Latch ==
  /\ pc \in 1..5
  /\ cur' = [cur EXCEPT ![LatchOrder[pc]] = Latest]
  /\ pc' = Following(pc)
  /\ UNCHANGED <<sent, recent, seen, chord, phantoms>>

\* ChordDetector::Update: m_CurrentChord is put together from three reads of
\* rc_raw and compared with the chord after the last one.
Composite(s) == [f \in Again |-> Content(s[f])[f]]
InOneFrame(s) == \E f \in Again : Content(s[f]) = Chord

\* mutant: one bit of m_CurrentChord stands for both buttons
Matches_SharedBit(s) ==
  /\ Composite(s).kbd = ChordKeys
  /\ (Composite(s).left \/ Composite(s).right) = (ChordLeft \/ ChordRight)
Matches(s) == Composite(s) = Chord

ReadForChord ==
  /\ pc \in 6..8
  /\ seen' = [seen EXCEPT ![ChordOrder[pc - 5]] = Latest]
  /\ pc' = Following(pc)
  /\ IF pc < 8
     THEN UNCHANGED <<chord, phantoms>>
     ELSE /\ chord' = Matches(seen')
          /\ phantoms' = IF chord' /\ ~ InOneFrame(seen') THEN phantoms + 1 ELSE 0
  /\ UNCHANGED <<sent, recent, cur>>

Next == (\E f \in Frame : FrameArrives(f)) \/ Wake \/ Latch \/ ReadForChord
Spec == Init /\ [][Next]_vars

-----------------------------------------------------------------------------
(* Properties.                                                             *)

\* A field never skips two frames in a row, so a key held for two frames is
\* always noticed, in whichever updates' reads the frames fall.  That one held
\* for a single frame may be skipped is as much as one frame per update lets
\* happen; with frames exactly 14 ms apart and updates 7 ms apart it does not.
NeverTwoFramesSkipped ==
  [][\A f \in Field : cur'[f] - cur[f] \in 0..2]_vars

\* A chord that was never in any frame - buttons of one and keys of the next -
\* may be reported, but for two updates at most.
PhantomChordIsShort == phantoms <= 2
=============================================================================
