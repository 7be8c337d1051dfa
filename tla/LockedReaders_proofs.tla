------------------------- MODULE LockedReaders_proofs -------------------------
(***************************************************************************)
(* The two readers that lock the scheduler against an interrupt, for any   *)
(* number of frames.  The updater of the remote control, with any keys and *)
(* any chord: no field skips two frames, and a chord that was in no frame  *)
(* lasts two updates at most.  thread2, with any motors in any order: the  *)
(* feedback of a motor is at most one frame wide, and its newest frame     *)
(* survives.                                                               *)
(***************************************************************************)
EXTENDS MCLockedReaders, SequenceTheorems, TLAPS


-----------------------------------------------------------------------------
(* The inductive invariant.                                                *)

\* The update under way, if any, has read the j-th of the latched fields.
HasRead(j) == pc = Sleep \/ j < pc
\* The frame the j-th field was latched from.
Newest(j) == cur[LatchOrder[j]]

\* The ranges of the variables.
Types ==
  /\ sent \in Seq(Frame) /\ Latest <= MaxFrames
  /\ recent \in 0..1 /\ recent <= Latest
  /\ pc \in 0..8
  /\ cur \in [Field -> 0..Latest] /\ seen \in [Again -> 0..Latest]
  /\ phantoms \in 0..2

\* A field that was read is not older than the update, one that was not is not
\* older than the update before.
Recent == \A j \in 1..5 : Newest(j) >= Latest - recent - (IF HasRead(j) THEN 0 ELSE 1)

\* The frame the update under way, or the next one, begins with.
Base == IF pc = Sleep THEN Latest ELSE Latest - recent

\* What the chord detector has read in this update.
ChordReads ==
  /\ pc \in 7..8 => seen["left"] >= Base
  /\ pc = 8 => seen["right"] >= seen["left"]

\* After a phantom the next update begins with the frame its keys are from,
\* which has the chord's keys and not all of its buttons; after two of them
\* the left one is wrong, and the next update reads that one first.
Phantom ==
  phantoms > 0 =>
    /\ seen["kbd"] = Base /\ (pc = Sleep => recent = 1)
    /\ Content(Base).kbd = ChordKeys /\ Content(Base) # Chord
    /\ phantoms = 2 => Content(Base).left # ChordLeft

\* The inductive invariant of the updater.
IInv == Types /\ Recent /\ ChordReads /\ Phantom

\* The two orders of reading.
LEMMA Orders ==
  /\ \A j \in 1..5 : LatchOrder[j] \in Field
  /\ \A f \in Field : \E j \in 1..5 : f = LatchOrder[j]
  /\ \A i, j \in 1..5 : LatchOrder[i] = LatchOrder[j] => i = j
  /\ ChordOrder[1] = "left" /\ ChordOrder[2] = "right" /\ ChordOrder[3] = "kbd"
BY DEF LatchOrder, Field, ChordOrder

\* The invariant holds initially.
LEMMA InitIInv == Init => IInv
<1> SUFFICES ASSUME Init PROVE IInv
  OBVIOUS
<1>1. sent \in Seq(Frame) /\ Latest = 0 /\ Sleep = 0
  BY DEF Init, Latest, Sleep
<1>2. Types
  BY <1>1, FramesAssumption DEF Init, Types
<1>3. Recent
  BY <1>1, Orders DEF Init, Recent, Newest
<1>4. ChordReads /\ Phantom
  BY <1>1 DEF Init, ChordReads, Phantom
<1> QED BY <1>2, <1>3, <1>4 DEF IInv

\* A frame keeps it,
LEMMA FrameIInv ==
  ASSUME IInv, NEW f \in Frame, FrameArrives(f)
  PROVE  IInv'
<1> USE DEF FramesPerUpdate
<1>1. /\ sent' = Append(sent, f) /\ recent = 0 /\ recent' = 1
      /\ Latest \in Nat /\ Latest' = Latest + 1 /\ Latest' <= MaxFrames
      /\ pc' = pc /\ cur' = cur /\ seen' = seen /\ phantoms' = phantoms
  BY FramesAssumption DEF IInv, Types, FrameArrives, Latest
<1>2. Types'
  <2>1. sent' \in Seq(Frame)
    BY <1>1 DEF IInv, Types
  <2>2. cur' \in [Field -> 0..Latest'] /\ seen' \in [Again -> 0..Latest']
    BY <1>1 DEF IInv, Types
  <2> QED BY <1>1, <2>1, <2>2 DEF IInv, Types
<1>3. Recent'
  BY <1>1 DEF IInv, Types, Recent, Newest, HasRead
<1>4. phantoms > 0 => pc # Sleep
  BY <1>1 DEF IInv, Phantom
<1>5. pc # Sleep => Base' = Base
  BY <1>1 DEF Base
<1>6. ChordReads'
  BY <1>1, <1>5 DEF IInv, ChordReads, Sleep
<1>7. \A n \in 0..Latest : Content(n)' = Content(n)
  BY <1>1 DEF IInv, Types, Latest, Content
<1>8. Phantom'
  <2> SUFFICES ASSUME phantoms > 0 PROVE Phantom'
    BY <1>1 DEF Phantom
  <2>1. Base \in 0..Latest
    BY <1>1 DEF IInv, Types, Base
  <2>2. Content(Base)' = Content(Base)
    BY <1>4, <1>5, <1>7, <2>1 DEF Content
  <2> QED BY <1>1, <1>4, <1>5, <2>2 DEF IInv, Phantom
<1> QED BY <1>2, <1>3, <1>6, <1>8 DEF IInv

\* the end of the delay,
LEMMA WakeIInv == ASSUME IInv, Wake PROVE IInv'
<1>1. /\ pc = 0 /\ pc' = 1 /\ recent' = 0 /\ Latest' = Latest /\ Latest \in Nat
      /\ sent' = sent /\ cur' = cur /\ seen' = seen /\ phantoms' = phantoms
  BY DEF IInv, Types, Wake, Sleep, Latest
<1>2. Types'
  BY <1>1 DEF IInv, Types
<1>3. Recent'
  <2>1. \A j \in 1..5 : HasRead(j) /\ (HasRead(j)' => FALSE)
    BY <1>1 DEF HasRead, Sleep
  <2>2. \A j \in 1..5 : Newest(j) \in 0..Latest /\ Newest(j)' = Newest(j)
    BY <1>1, Orders DEF IInv, Types, Newest
  <2> QED BY <1>1, <2>1, <2>2 DEF IInv, Types, Recent
<1>4. Base' = Base
  BY <1>1 DEF Base, Sleep
<1>5. ChordReads' /\ Phantom'
  BY <1>1, <1>4 DEF IInv, ChordReads, Phantom, Content, Sleep
<1> QED BY <1>2, <1>3, <1>5 DEF IInv

\* a read of a field,
LEMMA LatchIInv == ASSUME IInv, Latch PROVE IInv'
<1>1. /\ pc \in 1..5 /\ pc' = pc + 1 /\ cur' = [cur EXCEPT ![LatchOrder[pc]] = Latest]
      /\ Latest' = Latest /\ Latest \in Nat /\ recent \in 0..1
      /\ sent' = sent /\ recent' = recent /\ seen' = seen /\ phantoms' = phantoms
  <2>1. Latest \in Nat /\ recent \in 0..1
    BY DEF IInv, Types, Latest
  <2>2. pc \in 1..5 /\ pc' = pc + 1
    <3>1. pc \in 1..5 /\ pc' = Following(pc)
      BY Zenon DEF Latch
    <3> QED BY <3>1 DEF Following, Sleep
  <2>3. Latest' = Latest
    BY DEF Latch, Latest
  <2> QED BY <2>1, <2>2, <2>3 DEF Latch
<1>2. Types'
  <2>1. cur' \in [Field -> 0..Latest']
    BY <1>1, Orders DEF IInv, Types
  <2> QED BY <1>1, <2>1 DEF IInv, Types
<1>3. \A j \in 1..5 :
        /\ Newest(j) \in 0..Latest
        /\ Newest(j)' = IF j = pc THEN Latest ELSE Newest(j)
  BY <1>1, Orders DEF IInv, Types, Newest
<1>4. \A j \in 1..5 : (HasRead(j) <=> j < pc) /\ (HasRead(j)' <=> j <= pc)
  BY <1>1 DEF HasRead, Sleep
<1>5. Recent'
  BY <1>1, <1>3, <1>4 DEF IInv, Recent
<1>7. Base' = Base
  BY <1>1 DEF Base, Sleep
<1>8. ChordReads' /\ Phantom'
  BY <1>1, <1>7 DEF IInv, ChordReads, Phantom, Content, Sleep
<1> QED BY <1>2, <1>5, <1>8 DEF IInv

-----------------------------------------------------------------------------
(* The chord.                                                              *)

\* Every number is that of a frame.
LEMMA ContentIsFrame ==
  ASSUME Types, NEW n \in 0..Latest
  PROVE  Content(n) \in Frame
<1>1. Blank \in Frame
  BY DEF Blank, Frame
<1>2. n # 0 => sent[n] \in Frame
  BY DEF Types, Latest
<1> QED BY <1>1, <1>2 DEF Content

\* A frame with all of the chord is the chord.
LEMMA FrameIsChord ==
  ASSUME NEW f \in Frame, f.kbd = ChordKeys, f.left = ChordLeft, f.right = ChordRight
  PROVE  f = Chord
BY DEF Frame, Chord

\* A phantom's left button is of the frame the update began with, and so is
\* its right one unless the next frame has it.
LEMMA PhantomReads ==
  ASSUME IInv, pc = 8, NEW s, s = [seen EXCEPT !["kbd"] = Latest],
         Matches(s), ~ InOneFrame(s)
  PROVE  /\ recent = 1 /\ Base = Latest - 1
         /\ Content(Latest).kbd = ChordKeys /\ Content(Latest) # Chord
         /\ Content(Base).left = ChordLeft
         /\ \/ Content(Base).right = ChordRight
            \/ Content(Latest).left # ChordLeft
<1>1. s["left"] = seen["left"] /\ s["right"] = seen["right"] /\ s["kbd"] = Latest
  BY DEF IInv, Types, Again
<1>2. /\ Content(seen["left"]).left = ChordLeft
      /\ Content(seen["right"]).right = ChordRight
      /\ Content(Latest).kbd = ChordKeys
  <2>1. Composite(s)["left"] = ChordLeft /\ Composite(s)["right"] = ChordRight
        /\ Composite(s)["kbd"] = ChordKeys
    BY DEF Matches, Chord
  <2> QED BY <1>1, <2>1 DEF Composite, Again
<1>3. Content(Latest) # Chord
  BY <1>1 DEF InOneFrame, Again
<1>4. /\ Latest \in Nat /\ recent \in 0..1 /\ Base = Latest - recent
      /\ seen["left"] \in Base..Latest
      /\ seen["right"] \in seen["left"]..Latest
  BY DEF IInv, Types, Latest, ChordReads, Base, Sleep, Again
<1>5. seen["left"] # Latest
  <2> SUFFICES ASSUME seen["left"] = Latest PROVE FALSE
    OBVIOUS
  <2>1. seen["right"] = Latest
    BY <1>4
  <2> QED BY <1>2, <1>3, <1>4, <2>1, ContentIsFrame, FrameIsChord DEF IInv
<1>6. recent = 1 /\ seen["left"] = Base /\ Base = Latest - 1
  BY <1>4, <1>5
<1>7. seen["right"] = Base \/ seen["right"] = Latest
  BY <1>4, <1>6
<1>8. seen["right"] = Latest => Content(Latest).left # ChordLeft
  BY <1>2, <1>3, <1>4, ContentIsFrame, FrameIsChord DEF IInv
<1> QED BY <1>2, <1>3, <1>6, <1>7, <1>8

\* A read for the chord keeps the invariant,
LEMMA ChordIInv == ASSUME IInv, ReadForChord PROVE IInv'
<1>1. /\ pc \in 6..8 /\ pc' = (IF pc < 8 THEN pc + 1 ELSE 0)
      /\ seen' = [seen EXCEPT ![ChordOrder[pc - 5]] = Latest]
      /\ Latest' = Latest /\ Latest \in Nat /\ recent \in 0..1 /\ recent <= Latest
      /\ sent' = sent /\ recent' = recent /\ cur' = cur
  BY DEF IInv, Types, ReadForChord, Following, Latest, Sleep
<1>2. Recent'
  <2>1. \A j \in 1..5 : HasRead(j) /\ HasRead(j)'
    BY <1>1 DEF HasRead, Sleep
  <2>2. \A j \in 1..5 : Newest(j)' = Newest(j)
    BY <1>1 DEF Newest
  <2> QED BY <1>1, <2>1, <2>2 DEF IInv, Recent
<1>3. seen' \in [Again -> 0..Latest']
  BY <1>1, Orders DEF IInv, Types, Again
<1>4. CASE pc < 8
  <2>1. pc' = pc + 1 /\ phantoms' = phantoms /\ Base' = Base
    BY <1>1, <1>4 DEF ReadForChord, Base, Sleep
  <2>2. Types'
    BY <1>1, <1>3, <2>1, <1>4 DEF IInv, Types
  <2>3. Base <= Latest /\ pc \in 6..7
    BY <1>1, <1>4 DEF Base, Sleep
  <2>4. pc = 6 => seen'["left"] = Latest
    BY <1>1, Orders DEF IInv, Types, Again
  <2>5. pc = 7 => seen'["left"] = seen["left"] /\ seen'["right"] = Latest
    BY <1>1, Orders DEF IInv, Types, Again
  <2>6. ChordReads'
    <3>1. seen["left"] \in 0..Latest
      BY DEF IInv, Types, Again
    <3> QED BY <1>1, <2>1, <2>3, <2>4, <2>5, <3>1 DEF IInv, ChordReads
  <2>7. seen'["kbd"] = seen["kbd"]
    BY <1>1, <2>3, Orders DEF IInv, Types, Again
  <2>8. Phantom'
    BY <1>1, <2>1, <2>3, <2>7 DEF IInv, Phantom, Content, Sleep
  <2> QED BY <1>2, <2>2, <2>6, <2>8 DEF IInv
<1>5. CASE pc = 8
  <2>1. pc' = 0 /\ seen' = [seen EXCEPT !["kbd"] = Latest]
    <3>1. ChordOrder[pc - 5] = "kbd"
      BY <1>5, Orders
    <3>2. seen' = [seen EXCEPT ![ChordOrder[pc - 5]] = Latest]
      BY <1>1
    <3> QED BY <1>1, <1>5, <3>1, <3>2
  <2>4. /\ chord' = Matches(seen')
        /\ phantoms' = IF chord' /\ ~ InOneFrame(seen') THEN phantoms + 1 ELSE 0
    <3>1. ~ (pc < 8)
      BY <1>5
    <3> QED BY <3>1, Zenon DEF ReadForChord
  <2>2. ChordReads'
    BY <2>1 DEF ChordReads
  <2>3. seen'["kbd"] = Latest /\ Base' = Latest
    BY <1>1, <2>1 DEF IInv, Types, Again, Base, Sleep
  <2>5. CASE ~ (Matches(seen') /\ ~ InOneFrame(seen'))
    <3>1. phantoms' = 0
      BY <2>4, <2>5, Zenon
    <3>2. Types'
      BY <1>1, <1>3, <2>1, <3>1 DEF IInv, Types
    <3>3. Phantom'
      BY <3>1 DEF Phantom
    <3> QED BY <1>2, <2>2, <3>2, <3>3 DEF IInv
  <2>6. CASE Matches(seen') /\ ~ InOneFrame(seen')
    <3>1. phantoms' = phantoms + 1
      BY <2>4, <2>6, Zenon
    <3>2. /\ recent = 1 /\ Content(Latest).kbd = ChordKeys /\ Content(Latest) # Chord
          /\ Content(Base).left = ChordLeft
          /\ \/ Content(Base).right = ChordRight
             \/ Content(Latest).left # ChordLeft
      BY <1>5, <2>1, <2>6, PhantomReads
    <3>3. Base \in 0..Latest
      BY <1>1 DEF Base
    <3>4. phantoms > 0 => Content(Latest).left # ChordLeft
      <4> SUFFICES ASSUME phantoms > 0, Content(Base).right = ChordRight PROVE FALSE
        BY <3>2
      <4>1. Content(Base).kbd = ChordKeys /\ Content(Base) # Chord
        BY DEF IInv, Phantom
      <4> QED BY <3>2, <3>3, <4>1, ContentIsFrame, FrameIsChord DEF IInv
    <3>5. phantoms \in 0..1
      BY <3>2 DEF IInv, Types, Phantom
    <3>6. Types'
      BY <1>1, <1>3, <2>1, <3>1, <3>5 DEF IInv, Types
    <3>7. Content(Base)' = Content(Latest)
      BY <1>1, <2>3 DEF Content
    <3>8. Phantom'
      BY <1>1, <2>3, <3>1, <3>2, <3>4, <3>5, <3>7 DEF Phantom
    <3> QED BY <1>2, <2>2, <3>6, <3>8 DEF IInv
  <2> QED BY <2>5, <2>6
<1> QED BY <1>1, <1>4, <1>5

\* and so does every step.
LEMMA NextIInv == IInv /\ [Next]_vars => IInv'
<1> SUFFICES ASSUME IInv, [Next]_vars PROVE IInv'
  OBVIOUS
<1>1. ASSUME NEW f \in Frame, FrameArrives(f) PROVE IInv'
  BY <1>1, FrameIInv
<1>2. CASE Wake
  BY <1>2, WakeIInv
<1>3. CASE Latch
  BY <1>3, LatchIInv
<1>4. CASE ReadForChord
  BY <1>4, ChordIInv
<1>5. CASE UNCHANGED vars
  BY <1>5 DEF vars, IInv, Types, Recent, ChordReads, Phantom, Newest, HasRead,
              Base, Content, Latest
<1> QED BY <1>1, <1>2, <1>3, <1>4, <1>5 DEF Next

\* The updater's invariant holds throughout.
THEOREM Inductive == Spec => []IInv
BY InitIInv, NextIInv, PTL DEF Spec

-----------------------------------------------------------------------------
\* A chord that was in no frame is reported for two updates at most.
THEOREM PhantomsAreShort == Spec => []PhantomChordIsShort
<1>1. IInv => PhantomChordIsShort
  BY DEF IInv, Types, PhantomChordIsShort
<1> QED BY <1>1, Inductive, PTL

\* No field skips two frames in a row.
THEOREM NoTwoFramesSkipped == Spec => NeverTwoFramesSkipped
<1>1. IInv /\ [Next]_vars => [\A f \in Field : cur'[f] - cur[f] \in 0..2]_vars
  <2> SUFFICES ASSUME IInv, Next, NEW f \in Field PROVE cur'[f] - cur[f] \in 0..2
    OBVIOUS
  <2>1. cur \in [Field -> 0..Latest] /\ Latest \in Nat /\ recent \in 0..1
    BY DEF IInv, Types, Latest
  <2>2. CASE cur' = cur
    BY <2>1, <2>2
  <2>3. CASE Latch
    <3>1. PICK j \in 1..5 : f = LatchOrder[j]
      BY Orders
    <3>2. cur[f] >= Latest - 2
      BY <2>1, <3>1 DEF IInv, Recent, Newest
    <3> QED BY <2>1, <2>3, <3>2 DEF Latch
  <2> QED BY <2>2, <2>3 DEF Next, FrameArrives, Wake, ReadForChord
<1> QED BY <1>1, Inductive, PTL DEF Spec, NeverTwoFramesSkipped

-----------------------------------------------------------------------------
(* thread2's UpdateFdb and the feedback of the motors.                     *)

\* A frame in the FIFO.
FrameOf == [motor : Sender, n : FrameNumber]

\* A frame of each motor is newer than what update_motor_feedback has kept of
\* it, and the frames of one motor are in their order.
Fresh ==
  /\ \A m \in Sender : can1_motor[m].ecd <= newest[m]
  /\ \A i \in 1..Len(fifo) :
       /\ fifo[i].n > can1_motor[fifo[i].motor].ecd
       /\ fifo[i].n <= newest[fifo[i].motor]
  /\ \A i, j \in 1..Len(fifo) : i < j /\ fifo[i].motor = fifo[j].motor => fifo[i].n < fifo[j].n

\* Frames pile up only while interrupts are off, and are counted.
Counted == masked => Len(fifo) <= burst

\* What UpdateFdb has read as the position is of the frame kept, or of the one
\* before and no other frame of that motor is to come until it reads the speed.
Close ==
  turn.half =>
    LET m == Updated[turn.at]
        waiting == {i \in 1..Len(fifo) : fifo[i].motor = m}
    IN /\ m \notin between => fdb[m].pos = can1_motor[m].ecd /\ waiting = {}
       /\ fdb[m].pos = can1_motor[m].ecd \/ (fdb[m].pos = can1_motor[m].last /\ waiting = {})
       /\ \A i, j \in waiting : i = j

\* The inductive invariant of thread2's reader.
FdbIInv == FdbTypeOK /\ Fresh /\ Counted /\ Close /\ NewestSurvives

\* The motors thread2 updates are among those that send.
LEMMA Motors ==
  /\ Sender \subseteq 1..8 /\ MaxNumber \in Nat /\ Len(Updated) \in Nat \ {0}
  /\ DOMAIN Updated = 1..Len(Updated)
  /\ \A i \in 1..Len(Updated) : Updated[i] \in Sender /\ Updated[i] \in UpdatedSet
  /\ UpdatedSet \subseteq Sender
BY FdbAssumption, LenProperties, ElementOfSeq, EmptySeq DEF UpdatedSet

\* The FIFO has room for a new frame, or loses its last one for it.
LEMMA StoredPlaces ==
  ASSUME NEW F, fifo \in Seq(F), Len(fifo) <= FifoDepth, NEW frame \in F
  PROVE  /\ Stored(frame) \in Seq(F) /\ Len(Stored(frame)) \in 1..FifoDepth
         /\ Len(Stored(frame)) = IF Len(fifo) < FifoDepth THEN Len(fifo) + 1 ELSE FifoDepth
         /\ \A i \in 1..Len(Stored(frame)) :
              Stored(frame)[i] = IF i = Len(Stored(frame)) THEN frame ELSE fifo[i]
<1>1. Len(fifo) \in Nat /\ DOMAIN fifo = 1..Len(fifo) /\ FifoDepth = 3
  BY LenProperties DEF FifoDepth
<1>2. CASE Len(fifo) < FifoDepth
  <2>1. /\ Append(fifo, frame) \in Seq(F) /\ Len(Append(fifo, frame)) = Len(fifo) + 1
        /\ \A i \in 1..Len(fifo) : Append(fifo, frame)[i] = fifo[i]
        /\ Append(fifo, frame)[Len(fifo) + 1] = frame
    BY AppendProperties
  <2>2. Stored(frame) = Append(fifo, frame)
    BY <1>2 DEF Stored
  <2> QED BY <1>1, <1>2, <2>1, <2>2
<1>3. CASE Len(fifo) = FifoDepth
  <2>1. 3 \in 1..Len(fifo) /\ Len(fifo) = 3
    BY <1>1, <1>3
  <2>2. Stored(frame) = [fifo EXCEPT ![3] = frame]
    BY <1>1, <1>3 DEF Stored
  <2>3. Stored(frame) \in Seq(F) /\ Len(Stored(frame)) = Len(fifo)
    <3>1. [fifo EXCEPT ![3] = frame] \in Seq(F) /\ Len([fifo EXCEPT ![3] = frame]) = Len(fifo)
      <4>1. \A i \in 1..Len(fifo) : [fifo EXCEPT ![i] = frame] \in Seq(F)
                                    /\ Len([fifo EXCEPT ![i] = frame]) = Len(fifo)
        BY ExceptSeq
      <4> QED BY <2>1, <4>1
    <3> QED BY <2>2, <3>1
  <2>4. \A i \in 1..Len(fifo) : Stored(frame)[i] = IF i = 3 THEN frame ELSE fifo[i]
    BY <1>1, <2>1, <2>2
  <2> QED BY <1>1, <1>3, <2>1, <2>3, <2>4
<1> QED BY <1>1, <1>2, <1>3

\* The FIFO without its first frame.
LEMMA FirstGone ==
  ASSUME NEW F, fifo \in Seq(F), fifo # <<>>
  PROVE  /\ Tail(fifo) \in Seq(F) /\ Len(Tail(fifo)) = Len(fifo) - 1 /\ Len(fifo) \in Nat \ {0}
         /\ Head(fifo) = fifo[1]
         /\ \A i \in 1..Len(fifo) - 1 : Tail(fifo)[i] = fifo[i + 1]
BY HeadTailProperties, EmptySeq, LenProperties

\* The places of the FIFO.
LEMMA FifoPlaces ==
  ASSUME FdbTypeOK
  PROVE  /\ fifo \in Seq(FrameOf) /\ Len(fifo) \in 0..3 /\ DOMAIN fifo = 1..Len(fifo)
         /\ \A i \in 1..Len(fifo) : fifo[i] \in FrameOf
<1>1. fifo \in Seq(FrameOf) /\ Len(fifo) <= 3
  BY DEF FdbTypeOK, FrameOf, FifoDepth
<1>2. Len(fifo) \in Nat /\ DOMAIN fifo = 1..Len(fifo)
  BY <1>1, LenProperties
<1>3. \A i \in 1..Len(fifo) : fifo[i] \in FrameOf
  BY <1>1, ElementOfSeq
<1> QED BY <1>1, <1>2, <1>3

\* The numbers of the frames are numbers.
LEMMA Numbers ==
  ASSUME FdbTypeOK
  PROVE  /\ \A k \in Sender : can1_motor[k].ecd \in Nat /\ newest[k] \in Nat
         /\ \A i \in 1..Len(fifo) : fifo[i].n \in Nat /\ fifo[i].motor \in Sender
<1>1. \A k \in Sender : can1_motor[k].ecd \in Nat /\ newest[k] \in Nat
  <2> TAKE k \in Sender
  <2>1. k \in 1..8 /\ FrameNumber \subseteq Nat
    BY Motors DEF FrameNumber
  <2>2. can1_motor[k] \in [ecd : FrameNumber, last : FrameNumber] /\ newest[k] \in FrameNumber
    BY <2>1 DEF FdbTypeOK
  <2> QED BY <2>1, <2>2
<1>2. ASSUME NEW i \in 1..Len(fifo) PROVE fifo[i].n \in Nat /\ fifo[i].motor \in Sender
  <2>1. fifo[i] \in FrameOf
    BY FifoPlaces
  <2> QED BY <2>1 DEF FrameOf, FrameNumber
<1> QED BY <1>1, <1>2

\* A frame that finds the FIFO full finds interrupts off for longer than the
\* FIFO is deep, so the motor whose frame it replaces is a crowded one.
LEMMA FrameFdb ==
  ASSUME FdbIInv, NEW m \in Sender, FrameComes(m)
  PROVE  FdbIInv'
<1> DEFINE new == newest[m] + 1
           frame == [motor |-> m, n |-> new]
<1>1. /\ newest[m] < MaxNumber /\ InTime(m) /\ (masked \/ fifo = <<>>)
      /\ newest' = [newest EXCEPT ![m] = new] /\ latest' = m /\ fifo' = Stored(frame)
      /\ between' = IF turn.half THEN between \cup {m} ELSE between
      /\ burst' = IF masked /\ burst <= FifoDepth THEN burst + 1 ELSE burst
      /\ crowded' = (IF masked /\ burst >= FifoDepth
                     THEN crowded \cup {fifo[i].motor : i \in DOMAIN fifo}
                     ELSE crowded) \ {m}
      /\ UNCHANGED <<can1_motor, fdb, turn, masked>>
  BY DEF FrameComes, FdbIInv, FdbTypeOK
<1>2. frame \in FrameOf /\ newest[m] \in FrameNumber /\ new \in FrameNumber /\ m \in 1..8
  <2>1. newest[m] \in 0..MaxNumber /\ MaxNumber \in Nat /\ m \in 1..8
    BY Motors DEF FdbIInv, FdbTypeOK, FrameNumber
  <2>2. new \in 0..MaxNumber
    BY <1>1, <2>1
  <2> QED BY <2>1, <2>2 DEF FrameOf, FrameNumber
<1>3. /\ fifo \in Seq(FrameOf) /\ Len(fifo) \in 0..3 /\ DOMAIN fifo = 1..Len(fifo)
      /\ \A i \in 1..Len(fifo) : fifo[i] \in FrameOf
  BY FifoPlaces DEF FdbIInv
<1>4. /\ fifo' \in Seq(FrameOf)
      /\ Len(fifo') = IF Len(fifo) < 3 THEN Len(fifo) + 1 ELSE 3
      /\ \A i \in 1..Len(fifo') : fifo'[i] = IF i = Len(fifo') THEN frame ELSE fifo[i]
  <2>1. Len(fifo) <= FifoDepth
    BY <1>3 DEF FifoDepth
  <2> HIDE DEF frame
  <2>2. fifo' = Stored(frame)
    BY <1>1
  <2> QED BY <1>2, <1>3, <2>1, <2>2, StoredPlaces DEF FifoDepth
<1>5. /\ frame.motor = m /\ frame.n = new
      /\ newest \in [Sender -> FrameNumber] /\ newest' \in [Sender -> FrameNumber]
      /\ can1_motor \in [1..8 -> [ecd : FrameNumber, last : FrameNumber]]
  BY <1>1, <1>2 DEF FdbIInv, FdbTypeOK
<1>6. newest'[m] = new /\ \A k \in Sender \ {m} : newest'[k] = newest[k]
  BY <1>1, <1>5
<1> HIDE DEF frame, new
<1>7. FdbTypeOK'
  <2>1. burst' \in 0..FifoDepth + 1 /\ between' \subseteq Sender
    BY <1>1 DEF FdbIInv, FdbTypeOK, FifoDepth
  <2>2. crowded' \subseteq Sender
    <3>1. {fifo[i].motor : i \in DOMAIN fifo} \subseteq Sender
      BY <1>3 DEF FrameOf
    <3> QED BY <1>1, <3>1 DEF FdbIInv, FdbTypeOK
  <2>3. fifo' \in Seq([motor : Sender, n : FrameNumber]) /\ Len(fifo') <= FifoDepth
    BY <1>3, <1>4 DEF FrameOf, FifoDepth
  <2> QED BY <1>1, <1>5, <2>1, <2>2, <2>3 DEF FdbIInv, FdbTypeOK
<1>8. /\ \A k \in Sender : can1_motor[k].ecd \in Nat /\ newest[k] \in Nat
      /\ new = newest[m] + 1
      /\ \A i \in 1..Len(fifo) : fifo[i].n \in Nat /\ fifo[i].motor \in Sender
  BY Numbers DEF FdbIInv, new
<1>9. Fresh'
  <2>1. \A k \in Sender : can1_motor'[k].ecd <= newest'[k]
    BY <1>1, <1>6, <1>8 DEF FdbIInv, Fresh
  <2>2. ASSUME NEW i \in 1..Len(fifo')
        PROVE  fifo'[i].n > can1_motor'[fifo'[i].motor].ecd /\ fifo'[i].n <= newest'[fifo'[i].motor]
    <3>1. CASE i = Len(fifo')
      <4>1. fifo'[i].motor = m /\ fifo'[i].n = new /\ can1_motor[m].ecd <= newest[m]
        BY <1>4, <1>5, <3>1 DEF FdbIInv, Fresh
      <4> QED BY <1>1, <1>6, <1>8, <4>1
    <3>2. CASE i # Len(fifo')
      <4>1. i \in 1..Len(fifo) /\ fifo'[i] = fifo[i]
        BY <1>3, <1>4, <3>2
      <4>2. /\ fifo[i].n > can1_motor[fifo[i].motor].ecd
            /\ fifo[i].n <= newest[fifo[i].motor]
        BY <4>1 DEF FdbIInv, Fresh
      <4>3. newest[fifo[i].motor] <= newest'[fifo[i].motor]
        BY <1>6, <1>8, <4>1
      <4>4. newest'[fifo[i].motor] \in Nat
        BY <1>6, <1>8, <4>1
      <4> QED BY <1>1, <1>8, <4>1, <4>2, <4>3, <4>4
    <3> QED BY <3>1, <3>2
  <2>3. ASSUME NEW i \in 1..Len(fifo'), NEW j \in 1..Len(fifo'), i < j, fifo'[i].motor = fifo'[j].motor
        PROVE  fifo'[i].n < fifo'[j].n
    <3>1. i \in 1..Len(fifo) /\ fifo'[i] = fifo[i]
      BY <1>3, <1>4, <2>3
    <3>2. CASE j = Len(fifo')
      <4>1. fifo'[j] = frame /\ fifo[i].motor = m
        BY <1>4, <1>5, <2>3, <3>1, <3>2
      <4>2. fifo[i].n <= newest[m]
        BY <3>1, <4>1 DEF FdbIInv, Fresh
      <4> QED BY <1>5, <1>8, <3>1, <4>1, <4>2
    <3>3. CASE j # Len(fifo')
      BY <1>3, <1>4, <2>3, <3>1, <3>3 DEF FdbIInv, Fresh
    <3> QED BY <3>2, <3>3
  <2> QED BY <2>1, <2>2, <2>3 DEF Fresh
<1>10. Counted'
  <2>1. masked => Len(fifo) <= burst /\ burst \in 0..4
    BY DEF FdbIInv, Counted, FdbTypeOK, FifoDepth
  <2> QED BY <1>1, <1>3, <1>4, <2>1 DEF Counted, FifoDepth
<1>11. Close'
  <2> SUFFICES ASSUME turn.half PROVE Close'
    BY <1>1 DEF Close
  <2> DEFINE M == Updated[turn.at]
             W == {i \in 1..Len(fifo) : fifo[i].motor = M}
             V == {i \in 1..Len(fifo') : fifo'[i].motor = M}
  <2>1. /\ M \notin between => fdb[M].pos = can1_motor[M].ecd /\ W = {}
        /\ fdb[M].pos = can1_motor[M].ecd \/ (fdb[M].pos = can1_motor[M].last /\ W = {})
        /\ \A i, j \in W : i = j
    BY DEF FdbIInv, Close
  <2>2. /\ M \notin between' => fdb[M].pos = can1_motor[M].ecd /\ V = {}
        /\ fdb[M].pos = can1_motor[M].ecd \/ (fdb[M].pos = can1_motor[M].last /\ V = {})
        /\ \A i, j \in V : i = j
    <3>1. CASE m = M
      <4>1. W = {} /\ fdb[M].pos = can1_motor[M].ecd /\ M \in between'
        BY <1>1, <2>1, <3>1 DEF InTime
      <4>2. \A i \in V : i = Len(fifo')
        BY <1>3, <1>4, <4>1
      <4> QED BY <4>1, <4>2
    <3>2. CASE m # M
      <4>1. V \subseteq W
        BY <1>3, <1>4, <1>5, <3>2
      <4>2. M \in between' <=> M \in between
        BY <1>1, <3>2
      <4> QED BY <2>1, <4>1, <4>2
    <3> QED BY <3>1, <3>2
  <2> QED BY <1>1, <2>2 DEF Close
<1>12. NewestSurvives'
  <2>1. Kept(m)'
    <3>1. Len(fifo') \in DOMAIN fifo' /\ fifo'[Len(fifo')] = frame
      BY <1>3, <1>4, LenProperties
    <3>2. frame = [motor |-> m, n |-> newest'[m]]
      BY <1>6 DEF frame
    <3> QED BY <3>1, <3>2 DEF Kept
  <2>2. ASSUME NEW k \in (Sender \cap 1..7) \ crowded', k # m
        PROVE  Kept(k)'
    <3>1. k \notin crowded
      BY <1>1, <2>2
    <3>2. Kept(k)
      BY <3>1 DEF FdbIInv, NewestSurvives
    <3>3. CASE k \in Heard /\ can1_motor[k].ecd = newest[k]
      BY <1>1, <1>6, <2>2, <3>3 DEF Kept
    <3>4. CASE \E i \in DOMAIN fifo : fifo[i] = [motor |-> k, n |-> newest[k]]
      <4>1. PICK i \in 1..Len(fifo) : fifo[i] = [motor |-> k, n |-> newest[k]]
        BY <1>3, <3>4
      <4>2. ~ (masked /\ burst >= FifoDepth)
        BY <1>1, <1>3, <2>2, <4>1
      <4>3. Len(fifo) < 3
        <5>1. masked => Len(fifo) <= burst
          BY DEF FdbIInv, Counted
        <5>2. ~ masked => Len(fifo) = 0
          BY <1>1, <1>3
        <5>3. burst \in 0..4
          BY DEF FdbIInv, FdbTypeOK, FifoDepth
        <5> QED BY <1>3, <4>2, <5>1, <5>2, <5>3 DEF FifoDepth
      <4>4. i \in DOMAIN fifo' /\ fifo'[i] = [motor |-> k, n |-> newest'[k]]
        BY <1>3, <1>4, <1>6, <2>2, <4>1, <4>3, LenProperties
      <4> QED BY <4>4 DEF Kept
    <3> QED BY <3>2, <3>3, <3>4 DEF Kept
  <2> QED BY <1>1, <2>1, <2>2 DEF FdbIInv, NewestSurvives
<1> QED BY <1>7, <1>9, <1>10, <1>11, <1>12 DEF FdbIInv

\* The handler takes the oldest frame, which is newer than what was kept of its
\* motor; the frames behind it are newer still.
LEMMA HandlerFdb ==
  ASSUME FdbIInv, CAN1_RX0_IRQHandler
  PROVE  FdbIInv'
<1> DEFINE f == Head(fifo)
<1>1. /\ fifo # <<>> /\ ~ masked /\ fifo' = Tail(fifo)
      /\ can1_motor' = IF f.motor \in Heard
                       THEN [can1_motor EXCEPT ![f.motor] = [ecd |-> f.n, last |-> @.ecd]]
                       ELSE can1_motor
      /\ UNCHANGED <<newest, latest, fdb, turn, between, masked, burst, crowded>>
  BY DEF CAN1_RX0_IRQHandler, update_motor_feedback
<1>2. /\ fifo \in Seq(FrameOf) /\ Len(fifo) \in 1..3 /\ DOMAIN fifo = 1..Len(fifo)
      /\ \A i \in 1..Len(fifo) : fifo[i] \in FrameOf
  BY <1>1, FifoPlaces, FirstGone DEF FdbIInv
<1>3. /\ fifo' \in Seq(FrameOf) /\ Len(fifo') = Len(fifo) - 1 /\ f = fifo[1]
      /\ \A i \in 1..Len(fifo') : fifo'[i] = fifo[i + 1]
      /\ DOMAIN fifo' = 1..Len(fifo')
  <2>1. fifo' \in Seq(FrameOf) /\ Len(fifo') = Len(fifo) - 1 /\ f = fifo[1]
        /\ \A i \in 1..Len(fifo) - 1 : fifo'[i] = fifo[i + 1]
    BY <1>1, <1>2, FirstGone
  <2> QED BY <2>1, LenProperties
<1>4. f \in FrameOf /\ f.motor \in Sender /\ f.motor \in 1..8 /\ f.n \in FrameNumber
  <2>1. f \in FrameOf
    BY <1>2, <1>3
  <2>2. f.motor \in Sender /\ f.n \in FrameNumber
    BY <2>1 DEF FrameOf
  <2> QED BY <2>1, <2>2, Motors
<1>5. \A k \in Sender : can1_motor[k].ecd \in Nat /\ newest[k] \in Nat
  BY Numbers DEF FdbIInv
<1>6. \A i \in 1..Len(fifo) : fifo[i].n \in Nat /\ fifo[i].motor \in Sender
  BY Numbers DEF FdbIInv
<1> HIDE DEF f
<1>7. can1_motor \in [1..8 -> [ecd : FrameNumber, last : FrameNumber]]
  BY DEF FdbIInv, FdbTypeOK
<1>8. \A k \in 1..8 : k # f.motor => can1_motor'[k] = can1_motor[k]
  BY <1>1, <1>4, <1>7
<1>9. f.motor \in Heard => can1_motor'[f.motor] = [ecd |-> f.n, last |-> can1_motor[f.motor].ecd]
  BY <1>1, <1>4, <1>7
<1>10. f.motor \notin Heard => can1_motor' = can1_motor
  BY <1>1
<1>11. FdbTypeOK'
  <2>1. can1_motor' \in [1..8 -> [ecd : FrameNumber, last : FrameNumber]]
    <3>1. can1_motor[f.motor].ecd \in FrameNumber
      BY <1>4, <1>7
    <3>2. [ecd |-> f.n, last |-> can1_motor[f.motor].ecd] \in [ecd : FrameNumber, last : FrameNumber]
      BY <1>4, <3>1
    <3>3. CASE f.motor \in Heard
      <4>1. can1_motor' = [can1_motor EXCEPT ![f.motor] = [ecd |-> f.n, last |-> can1_motor[f.motor].ecd]]
        BY <1>1, <3>3
      <4> QED BY <1>4, <1>7, <3>2, <4>1
    <3> QED BY <1>7, <1>10, <3>3
  <2>2. fifo' \in Seq([motor : Sender, n : FrameNumber]) /\ Len(fifo') <= FifoDepth
    BY <1>2, <1>3 DEF FrameOf, FifoDepth
  <2> QED BY <1>1, <2>1, <2>2 DEF FdbIInv, FdbTypeOK
<1>12. Fresh'
  <2>1. ASSUME NEW k \in Sender PROVE can1_motor'[k].ecd <= newest'[k]
    <3>1. can1_motor[k].ecd <= newest[k] /\ k \in 1..8
      BY Motors DEF FdbIInv, Fresh
    <3>2. f.n <= newest[f.motor]
      BY <1>2, <1>3 DEF FdbIInv, Fresh
    <3>3. CASE k = f.motor /\ f.motor \in Heard
      BY <1>1, <1>9, <3>2, <3>3
    <3>4. CASE k # f.motor \/ f.motor \notin Heard
      BY <1>1, <1>8, <1>10, <3>1, <3>4
    <3> QED BY <3>3, <3>4
  <2>2. ASSUME NEW i \in 1..Len(fifo')
        PROVE  fifo'[i].n > can1_motor'[fifo'[i].motor].ecd /\ fifo'[i].n <= newest'[fifo'[i].motor]
    <3>1. i + 1 \in 1..Len(fifo) /\ fifo'[i] = fifo[i + 1] /\ 1 \in 1..Len(fifo) /\ 1 < i + 1
      BY <1>2, <1>3
    <3>2. /\ fifo[i + 1].n > can1_motor[fifo[i + 1].motor].ecd
          /\ fifo[i + 1].n <= newest[fifo[i + 1].motor]
      BY <3>1 DEF FdbIInv, Fresh
    <3>3. fifo[i + 1].motor = f.motor => f.n < fifo[i + 1].n
      BY <1>3, <3>1 DEF FdbIInv, Fresh
    <3>4. fifo[i + 1].motor \in 1..8
      BY <1>6, <3>1, Motors
    <3>5. CASE fifo[i + 1].motor = f.motor /\ f.motor \in Heard
      BY <1>1, <1>9, <3>1, <3>2, <3>3, <3>5
    <3>6. CASE fifo[i + 1].motor # f.motor \/ f.motor \notin Heard
      BY <1>1, <1>8, <1>10, <3>1, <3>2, <3>4, <3>6
    <3> QED BY <3>5, <3>6
  <2>3. ASSUME NEW i \in 1..Len(fifo'), NEW j \in 1..Len(fifo'), i < j, fifo'[i].motor = fifo'[j].motor
        PROVE  fifo'[i].n < fifo'[j].n
    <3>1. i + 1 \in 1..Len(fifo) /\ j + 1 \in 1..Len(fifo) /\ i + 1 < j + 1
      BY <1>2, <1>3, <2>3
    <3>2. fifo'[i] = fifo[i + 1] /\ fifo'[j] = fifo[j + 1]
      BY <1>3
    <3> QED BY <2>3, <3>1, <3>2 DEF FdbIInv, Fresh
  <2> QED BY <2>1, <2>2, <2>3 DEF Fresh
<1>13. Counted'
  BY <1>1 DEF Counted
<1>14. Close'
  <2> SUFFICES ASSUME turn.half PROVE Close'
    BY <1>1 DEF Close
  <2> DEFINE M == Updated[turn.at]
             W == {i \in 1..Len(fifo) : fifo[i].motor = M}
             V == {i \in 1..Len(fifo') : fifo'[i].motor = M}
  <2>1. /\ M \notin between => fdb[M].pos = can1_motor[M].ecd /\ W = {}
        /\ fdb[M].pos = can1_motor[M].ecd \/ (fdb[M].pos = can1_motor[M].last /\ W = {})
        /\ \A i, j \in W : i = j
    BY DEF FdbIInv, Close
  <2>2. \A i \in V : i + 1 \in W /\ i + 1 # 1
    BY <1>2, <1>3
  <2>3. M \in 1..8
    BY Motors DEF FdbIInv, FdbTypeOK
  <2>4. /\ M \notin between' => fdb[M].pos = can1_motor'[M].ecd /\ V = {}
        /\ fdb[M].pos = can1_motor'[M].ecd \/ (fdb[M].pos = can1_motor'[M].last /\ V = {})
        /\ \A i, j \in V : i = j
    <3>1. \A i, j \in V : i = j
      <4> TAKE i \in V, j \in V
      <4>1. i + 1 = j + 1
        BY <2>1, <2>2
      <4> QED BY <4>1
    <3>2. W = {} => V = {}
      BY <2>2
    <3>3. CASE f.motor = M /\ M \in Heard
      <4>1. 1 \in W
        BY <1>2, <1>3, <3>3
      <4>2. V = {}
        BY <2>1, <2>2, <4>1
      <4>3. M \in between /\ fdb[M].pos = can1_motor[M].ecd
        BY <2>1, <4>1
      <4>4. can1_motor'[M].last = can1_motor[M].ecd
        BY <1>9, <3>3
      <4> QED BY <1>1, <4>2, <4>3, <4>4
    <3>4. CASE f.motor # M \/ M \notin Heard
      <4>1. can1_motor'[M] = can1_motor[M]
        BY <1>8, <1>10, <2>3, <3>4
      <4> QED BY <1>1, <2>1, <3>1, <3>2, <4>1
    <3> QED BY <3>3, <3>4
  <2> QED BY <1>1, <2>4 DEF Close
<1>15. NewestSurvives'
  <2>1. ASSUME NEW k \in Sender \cap 1..7, Kept(k) PROVE Kept(k)'
    <3>1. CASE k \in Heard /\ can1_motor[k].ecd = newest[k]
      <4>1. k # f.motor
        <5> SUFFICES ASSUME k = f.motor PROVE FALSE
          OBVIOUS
        <5>1. f.n > can1_motor[k].ecd /\ f.n <= newest[k] /\ f.n \in Nat
          BY <1>2, <1>3, <1>6 DEF FdbIInv, Fresh
        <5> QED BY <1>5, <3>1, <5>1
      <4> QED BY <1>1, <1>8, <3>1, <4>1 DEF Kept
    <3>2. CASE \E i \in DOMAIN fifo : fifo[i] = [motor |-> k, n |-> newest[k]]
      <4>1. PICK i \in 1..Len(fifo) : fifo[i] = [motor |-> k, n |-> newest[k]]
        BY <1>2, <3>2
      <4>2. CASE i = 1
        <5>1. f.motor = k /\ f.n = newest[k] /\ k \in Heard
          BY <1>3, <4>1, <4>2 DEF Heard
        <5> QED BY <1>1, <1>9, <5>1 DEF Kept
      <4>3. CASE i # 1
        <5>1. i - 1 \in DOMAIN fifo' /\ fifo'[i - 1] = fifo[i]
          BY <1>2, <1>3, <4>3
        <5> QED BY <1>1, <4>1, <5>1 DEF Kept
      <4> QED BY <4>2, <4>3
    <3> QED BY <2>1, <3>1, <3>2 DEF Kept
  <2>2. latest \in 1..7 => latest \in Sender
    BY DEF FdbIInv, FdbTypeOK
  <2>3. can1_motor'[8].ecd = 0
    <3>1. can1_motor[8].ecd = 0 /\ 8 \notin Heard
      BY DEF FdbIInv, NewestSurvives, Heard
    <3> QED BY <1>8, <1>10, <3>1
  <2> QED BY <1>1, <2>1, <2>2, <2>3 DEF FdbIInv, NewestSurvives
<1> QED BY <1>11, <1>12, <1>13, <1>14, <1>15 DEF FdbIInv

\* Masking and unmasking the interrupt keep the invariant,
LEMMA MaskFdb ==
  ASSUME FdbIInv, Disable \/ Enable
  PROVE  FdbIInv'
<1>1. /\ masked' \in BOOLEAN /\ burst' \in 0..FifoDepth + 1
      /\ masked' => fifo = <<>> /\ burst' = 0
      /\ UNCHANGED <<newest, latest, fifo, can1_motor, fdb, turn, between, crowded>>
  <2>1. burst \in 0..FifoDepth + 1 /\ 0 \in 0..FifoDepth + 1
    BY DEF FdbIInv, FdbTypeOK, FifoDepth
  <2>2. CASE Disable
    BY <2>1, <2>2 DEF Disable
  <2>3. CASE Enable
    BY <2>1, <2>3 DEF Enable
  <2> QED BY <2>2, <2>3
<1>2. FdbTypeOK'
  BY <1>1 DEF FdbIInv, FdbTypeOK
<1>3. Fresh'
  BY <1>1 DEF FdbIInv, Fresh
<1>4. Counted'
  BY <1>1 DEF Counted
<1>5. Close'
  BY <1>1 DEF FdbIInv, Close
<1>6. NewestSurvives'
  BY <1>1 DEF FdbIInv, NewestSurvives, Kept
<1> QED BY <1>2, <1>3, <1>4, <1>5, <1>6 DEF FdbIInv

\* so do thread2's reads.
LEMMA ReadFdb ==
  ASSUME FdbIInv, ReadPosition \/ ReadSpeed
  PROVE  FdbIInv'
<1> DEFINE M == Updated[turn.at]
<1>1. /\ fifo = <<>> /\ between' = {}
      /\ UNCHANGED <<newest, latest, fifo, can1_motor, masked, burst, crowded>>
  BY DEF ReadPosition, ReadSpeed, ThreadRuns
<1>2. /\ M \in UpdatedSet /\ M \in 1..8 /\ turn.at \in 1..Len(Updated) /\ Len(Updated) \in Nat
      /\ DOMAIN Updated = 1..Len(Updated)
  BY Motors DEF FdbIInv, FdbTypeOK
<1>3. can1_motor[M].ecd \in FrameNumber
  BY <1>2 DEF FdbIInv, FdbTypeOK
<1>4. fdb \in [UpdatedSet -> [pos : FrameNumber, last : FrameNumber, spd : FrameNumber]]
      /\ turn \in [at : DOMAIN Updated, half : BOOLEAN]
  BY DEF FdbIInv, FdbTypeOK
<1>5. CASE ReadPosition
  <2>1. /\ fdb' = [fdb EXCEPT ![M].last = fdb[M].pos, ![M].pos = can1_motor[M].ecd]
        /\ turn' = [turn EXCEPT !.half = TRUE]
    BY <1>5 DEF ReadPosition
  <2>2. /\ fdb' \in [UpdatedSet -> [pos : FrameNumber, last : FrameNumber, spd : FrameNumber]]
        /\ fdb'[M].pos = can1_motor[M].ecd
    BY <1>2, <1>3, <1>4, <2>1
  <2>3. turn' \in [at : DOMAIN Updated, half : BOOLEAN] /\ turn'.at = turn.at
    BY <1>4, <2>1
  <2>4. Close'
    <3>1. Updated[turn'.at] = M
      BY <2>3
    <3>2. \A i \in 1..Len(fifo') : FALSE
      BY <1>1
    <3> QED BY <1>1, <2>2, <3>1, <3>2 DEF Close
  <2> QED BY <1>1, <2>2, <2>3, <2>4 DEF FdbIInv, FdbTypeOK, Fresh, Counted, NewestSurvives, Kept
<1>6. CASE ReadSpeed
  <2>1. /\ fdb' = [fdb EXCEPT ![M].spd = can1_motor[M].ecd]
        /\ turn' = [at |-> IF turn.at < Len(Updated) THEN turn.at + 1 ELSE 1, half |-> FALSE]
    BY <1>6 DEF ReadSpeed
  <2>2. fdb' \in [UpdatedSet -> [pos : FrameNumber, last : FrameNumber, spd : FrameNumber]]
    BY <1>2, <1>3, <1>4, <2>1
  <2>3. turn' \in [at : DOMAIN Updated, half : BOOLEAN] /\ ~ turn'.half
    BY <1>2, <1>4, <2>1
  <2>4. Close'
    BY <2>3 DEF Close
  <2> QED BY <1>1, <2>2, <2>3, <2>4 DEF FdbIInv, FdbTypeOK, Fresh, Counted, NewestSurvives, Kept
<1> QED BY <1>5, <1>6

\* The invariant holds initially.
LEMMA InitFdb == FdbInit => FdbIInv
<1> SUFFICES ASSUME FdbInit PROVE FdbIInv
  OBVIOUS
<1>1. /\ newest = [m \in Sender |-> 0] /\ latest = 0 /\ fifo = <<>>
      /\ can1_motor = [m \in 1..8 |-> [ecd |-> 0, last |-> 0]]
      /\ ~ turn.half /\ ~ masked
  BY DEF FdbInit
<1>2. 0 \in FrameNumber /\ 1 \in DOMAIN Updated /\ Sender \subseteq 1..8
  BY Motors DEF FrameNumber
<1>3. FdbTypeOK
  <2>1. fifo \in Seq([motor : Sender, n : FrameNumber]) /\ Len(fifo) = 0
    BY <1>1
  <2>2. /\ newest \in [Sender -> FrameNumber]
        /\ can1_motor \in [1..8 -> [ecd : FrameNumber, last : FrameNumber]]
    BY <1>1, <1>2
  <2>3. /\ fdb \in [UpdatedSet -> [pos : FrameNumber, last : FrameNumber, spd : FrameNumber]]
        /\ turn \in [at : DOMAIN Updated, half : BOOLEAN]
    BY <1>2 DEF FdbInit
  <2>4. latest \in Sender \cup {0} /\ burst \in 0..4
    BY DEF FdbInit
  <2>5. between \subseteq Sender /\ crowded \subseteq Sender /\ masked \in BOOLEAN
    BY Zenon DEF FdbInit
  <2> QED BY <2>1, <2>2, <2>3, <2>4, <2>5 DEF FdbTypeOK, FifoDepth
<1>4. Fresh
  BY <1>1, <1>2 DEF Fresh
<1>5. NewestSurvives
  BY <1>1, <1>2 DEF NewestSurvives, Kept, Heard
<1> QED BY <1>1, <1>3, <1>4, <1>5 DEF FdbIInv, Counted, Close

\* Every step keeps it.
LEMMA NextFdb == FdbIInv /\ [FdbNext]_fdbVars => FdbIInv'
<1> SUFFICES ASSUME FdbIInv, [FdbNext]_fdbVars PROVE FdbIInv'
  OBVIOUS
<1>1. ASSUME NEW m \in Sender, FrameComes(m) PROVE FdbIInv'
  BY <1>1, FrameFdb
<1>2. CASE CAN1_RX0_IRQHandler
  BY <1>2, HandlerFdb
<1>3. CASE Disable \/ Enable
  BY <1>3, MaskFdb
<1>4. CASE ReadPosition \/ ReadSpeed
  BY <1>4, ReadFdb
<1>5. CASE UNCHANGED fdbVars
  BY <1>5 DEF fdbVars, FdbIInv, FdbTypeOK, Fresh, Counted, Close, NewestSurvives, Kept
<1> QED BY <1>1, <1>2, <1>3, <1>4, <1>5 DEF FdbNext

\* For any motors, any order of updating them and any number of frames.
THEOREM FeedbackInductive == FdbSpec => []FdbIInv
BY InitFdb, NextFdb, PTL DEF FdbSpec

\* However long interrupts are off, the last frame on the bus is kept or waits,
\* and so is every motor's newest one while three frames at most come meanwhile.
THEOREM NewestFrameSurvives == FdbSpec => []NewestSurvives
<1>1. FdbIInv => NewestSurvives
  BY DEF FdbIInv
<1> QED BY <1>1, FeedbackInductive, PTL

\* The position and the speed UpdateFdb hands on are of one frame, or the speed
\* is of the next one that was heard.
THEOREM FeedbackOneFrameWide == FdbSpec => FdbIsOneFrameWide
<1> DEFINE Half == LET m == Updated[turn.at] IN
                   turn.half /\ ~ turn'.half =>
                     fdb'[m].pos \in {fdb'[m].spd, can1_motor[m].last}
<1>1. FdbIInv /\ [FdbNext]_fdbVars => [Half]_fdbVars
  <2> SUFFICES ASSUME FdbIInv, FdbNext, turn.half, ~ turn'.half PROVE Half
    OBVIOUS
  <2>1. ReadSpeed
    BY DEF FdbNext, FrameComes, CAN1_RX0_IRQHandler, Disable, Enable, ReadPosition
  <2>2. fdb' = [fdb EXCEPT ![Updated[turn.at]].spd = can1_motor[Updated[turn.at]].ecd]
    BY <2>1 DEF ReadSpeed
  <2>3. Updated[turn.at] \in UpdatedSet
    BY Motors DEF FdbIInv, FdbTypeOK
  <2>4. fdb[Updated[turn.at]].pos \in {can1_motor[Updated[turn.at]].ecd, can1_motor[Updated[turn.at]].last}
    BY DEF FdbIInv, Close
  <2>5. /\ fdb'[Updated[turn.at]].pos = fdb[Updated[turn.at]].pos
        /\ fdb'[Updated[turn.at]].spd = can1_motor[Updated[turn.at]].ecd
    BY <2>2, <2>3 DEF FdbIInv, FdbTypeOK
  <2> QED BY <2>4, <2>5
<1> QED BY <1>1, FeedbackInductive, PTL DEF FdbSpec, FdbIsOneFrameWide

-----------------------------------------------------------------------------
(* Both together, as they are run.                                         *)

\* A behaviour of the two is one of each.
LEMMA EachReader == ReadersSpec => Spec /\ FdbSpec
<1>1. ReadersInit => Init /\ FdbInit
  BY DEF ReadersInit
<1>2. [ReadersNext]_<<reader, vars, fdbVars>> => [Next]_vars /\ [FdbNext]_fdbVars
  BY DEF ReadersNext
<1> QED BY <1>1, <1>2, PTL DEF ReadersSpec, Spec, FdbSpec

\* The types of both readers.
THEOREM ReadersTypeCorrect == ReadersSpec => []ReadersTypeOK
<1> DEFINE Known == chord \in BOOLEAN
<1>1. Init => Known
  BY DEF Init
<1>2. Known /\ [Next]_vars => Known'
  <2> SUFFICES ASSUME chord \in BOOLEAN, [Next]_vars PROVE chord' \in BOOLEAN
    OBVIOUS
  <2>1. CASE chord' = chord
    BY <2>1
  <2>2. CASE ReadForChord /\ ~ (pc < 8)
    <3>1. chord' = Matches(seen')
      BY <2>2, Zenon DEF ReadForChord
    <3>2. Matches(seen') \in BOOLEAN
      BY Zenon DEF Matches
    <3> QED BY <3>1, <3>2
  <2>3. ASSUME chord' # chord PROVE ReadForChord /\ ~ (pc < 8)
    BY <2>3, Zenon DEF Next, FrameArrives, Wake, Latch, ReadForChord, vars
  <2> QED BY <2>1, <2>2, <2>3
<1>3. IInv /\ Known => TypeOK
  <2> SUFFICES ASSUME IInv, chord \in BOOLEAN PROVE TypeOK
    OBVIOUS
  <2>1. Latest \in Nat /\ Latest <= MaxFrames /\ recent \in 0..1 /\ recent <= Latest
    BY DEF IInv, Types, Latest
  <2>2. recent \in 0..MaxFrames
    BY <2>1, FramesAssumption
  <2>3. phantoms \in Nat
    BY DEF IInv, Types
  <2> QED BY <2>1, <2>2, <2>3 DEF IInv, Types, Latest, TypeOK
<1>4. FdbIInv => FdbTypeOK
  BY DEF FdbIInv
<1>5. Spec => []Known
  <2> HIDE DEF Known
  <2> QED BY <1>1, <1>2, PTL DEF Spec
<1>6. IInv /\ Known /\ FdbIInv => ReadersTypeOK
  BY <1>3, <1>4 DEF ReadersTypeOK
<1> HIDE DEF Known
<1> QED BY <1>5, <1>6, Inductive, FeedbackInductive, EachReader, PTL
=============================================================================
