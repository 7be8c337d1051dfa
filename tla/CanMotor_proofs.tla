--------------------------- MODULE CanMotor_proofs ---------------------------
(***************************************************************************)
(* Proofs about CanMotor, for every set of controllers, every assignment   *)
(* of motors and every set of set-points, and about MotorCycle, for every  *)
(* order of the motors, bound on the outages and number of cycles.         *)
(*                                                                         *)
(* The inductive invariant of CanMotor has three parts besides the types:  *)
(* a set flag belongs to a present motor; the mailbox on the wire holds a  *)
(* frame; and once the first test of a call is over, some present motor of *)
(* the high group is missing its flag (the low group: once the second one  *)
(* is, where the shift is masked).                                         *)
(*                                                                         *)
(* That of MotorCycle follows the frame of either group through a cycle:   *)
(* until the other group's flags make it due it is to come, and no mailbox *)
(* holds one; from then on it is sent, in a mailbox or with its motors,    *)
(* and with motors in both groups it is not due again in this cycle.       *)
(***************************************************************************)
EXTENDS MotorCycle, SequenceTheorems, TLAPS

\* Only motors that are present set their flags.
OnlyPresentSet == \A d \in Device : flgSet[d] \subseteq flgInit[d]
\* What is on the wire is in a mailbox.
WireHoldsFrame == \A d \in Device : onWire[d] # Quiet => mbox[d][onWire[d]] # Free

\* Not all motors of a part have been commanded since its last frame.
Incomplete(d, part) ==
  flgInit[d] \cap part # {} => ~ (flgInit[d] \cap part \subseteq flgSet[d])

\* Outside a call the parts of the frames are incomplete: they were sent otherwise.
HighIncomplete ==
  \A d \in Device : call # [at |-> "first", dev |-> d] => Incomplete(d, High)
LowIncomplete ==
  \A d \in Device \ {"CAN2"} :
    call # [at |-> "first", dev |-> d] /\ call # [at |-> "second", dev |-> d]
      => Incomplete(d, Low)

\* The inductive invariant of CanMotor.
IInv == TypeOK /\ OnlyPresentSet /\ WireHoldsFrame /\ HighIncomplete /\ LowIncomplete

-----------------------------------------------------------------------------
(* Facts about the operators.                                              *)

\* The minimum of a non-empty set of mailbox numbers is one of them: what
\* CAN_Transmit and the controller pick is a mailbox of the set they look at.
LEMMA MinOfSlots ==
  ASSUME NEW S \in SUBSET Slot, S # {} PROVE Min(S) \in S
<1>0. \A y \in S : y = 0 \/ y = 1 \/ y = 2
  BY DEF Slot
<1>1. \E x \in S : \A y \in S : x <= y
  <2>1. CASE 0 \in S
    BY <2>1, <1>0
  <2>2. CASE 0 \notin S /\ 1 \in S
    BY <2>2, <1>0
  <2>3. CASE 0 \notin S /\ 1 \notin S
    BY <2>3, <1>0
  <2>. QED BY <2>1, <2>2, <2>3
<1>. QED BY <1>1 DEF Min

\* Idle is no call under way.
LEMMA IdleIsNoCall ==
  ASSUME NEW d, NEW a PROVE Idle # [at |-> a, dev |-> d]
<1>1. DOMAIN Idle = {"at"} /\ DOMAIN [at |-> a, dev |-> d] = {"at", "dev"}
  BY DEF Idle
<1>2. {"at"} # {"at", "dev"}
  OBVIOUS
<1>. QED BY <1>1, <1>2

\* The frame made from the buffer is a frame of its group.
LEMMA FrameOfType ==
  ASSUME TypeOK, NEW d \in Device, NEW g \in Group PROVE
    FrameOf(d, g) \in Frame /\ FrameOf(d, g).group = g /\ FrameOf(d, g) # Free
<1>1. Members(g) \subseteq Motor
  BY DEF Members, Group, Low, High, Motor
<1>2. cmdBuf[d] \in [Motor -> Spd]
  BY DEF TypeOK
<1>3. [m \in Members(g) |-> cmdBuf[d][m]] \in [Members(g) -> Spd]
  BY <1>1, <1>2
<1>4. FrameOf(d, g) \in [group : {g}, data : [Members(g) -> Spd]]
  BY <1>3 DEF FrameOf
<1>5. FrameOf(d, g).group = g
  BY DEF FrameOf
<1>6. FrameOf(d, g) # Free
  BY <1>5 DEF Free, Group
<1>. QED BY <1>4, <1>5, <1>6 DEF Frame

\* What a mailbox can hold besides Free has the data of its group.
LEMMA FrameShape ==
  ASSUME NEW f \in Frame PROVE
    f.group \in Group /\ f.data \in [Members(f.group) -> Spd] /\ f # Free
<1>1. PICK g \in Group : f \in [group : {g}, data : [Members(g) -> Spd]]
  BY DEF Frame
<1>2. f.group = g /\ f.data \in [Members(g) -> Spd]
  BY <1>1
<1>. QED BY <1>2 DEF Free, Group

\* Queuing a frame touches one free mailbox at most.
LEMMA TransmitEffect ==
  ASSUME TypeOK, NEW d \in Device, NEW f \in Frame, Transmit(d, f) PROVE
    /\ mbox' \in [Device -> [Slot -> Frame \cup {Free}]]
    /\ \A e \in Device : \A s \in Slot :
         mbox'[e][s] = mbox[e][s] \/ (mbox[e][s] = Free /\ mbox'[e][s] = f)
<1>1. CASE FreeSlots(d) = {}
  BY <1>1 DEF Transmit, TypeOK
<1>2. CASE FreeSlots(d) # {}
  <2>. DEFINE k == Min(FreeSlots(d))
  <2>1. k \in FreeSlots(d)
    BY <1>2, MinOfSlots DEF FreeSlots
  <2>2. k \in Slot /\ mbox[d][k] = Free
    BY <2>1 DEF FreeSlots
  <2>3. mbox' = [mbox EXCEPT ![d][k] = f]
    BY <1>2 DEF Transmit
  <2>. HIDE DEF k
  <2>. QED BY <2>2, <2>3 DEF TypeOK
<1>. QED BY <1>1, <1>2

-----------------------------------------------------------------------------
(* The invariant is inductive: one lemma per conjunct that has to be        *)
(* followed through the actions.                                            *)

\* The invariant holds initially.
LEMMA InitIInv == Init => IInv
<1>. SUFFICES ASSUME Init PROVE IInv
  OBVIOUS
<1>1. TypeOK
  BY SpdAssumption DEF Init, TypeOK, Call
<1>2. OnlyPresentSet /\ HighIncomplete /\ LowIncomplete
  BY DEF Init, OnlyPresentSet, HighIncomplete, LowIncomplete, Incomplete
<1>3. WireHoldsFrame
  BY DEF Init, WireHoldsFrame
<1>. QED BY <1>1, <1>2, <1>3 DEF IInv

\* The flags and the position in a call, for the steps of the driver.
LEMMA InitFlagStep ==
  ASSUME IInv, NEW d \in Device, NEW id \in Motor, CAN_MOTOR_FLG_INIT(d, id)
  PROVE  IInv'
<1>1. TypeOK'
  BY DEF IInv, TypeOK, CAN_MOTOR_FLG_INIT, bus
<1>2. OnlyPresentSet' /\ WireHoldsFrame'
  BY DEF IInv, TypeOK, CAN_MOTOR_FLG_INIT, bus, OnlyPresentSet, WireHoldsFrame
<1>3. ASSUME NEW e \in Device, NEW part \in {Low, High}, Incomplete(e, part)
      PROVE  Incomplete(e, part)'
  <2>1. CASE e # d
    BY <1>3, <2>1 DEF IInv, TypeOK, CAN_MOTOR_FLG_INIT, Incomplete
  <2>2. CASE e = d
    <3>1. flgInit'[d] = flgInit[d] \cup {id} /\ flgSet' = flgSet
      BY DEF IInv, TypeOK, CAN_MOTOR_FLG_INIT
    <3>2. flgSet[d] \subseteq flgInit[d]
      BY DEF IInv, OnlyPresentSet
    <3>3. CASE id \in part /\ id \notin flgInit[d]
      BY <3>1, <3>2, <3>3, <2>2 DEF Incomplete
    <3>4. CASE id \notin part \/ id \in flgInit[d]
      BY <3>1, <3>4, <2>2, <1>3 DEF Incomplete
    <3>. QED BY <3>3, <3>4
  <2>. QED BY <2>1, <2>2
<1>4. call = Idle /\ call' = call
  BY DEF CAN_MOTOR_FLG_INIT
<1>5. HighIncomplete' /\ LowIncomplete'
  BY <1>3, <1>4, IdleIsNoCall DEF IInv, HighIncomplete, LowIncomplete
<1>. QED BY <1>1, <1>2, <1>5 DEF IInv

\* CAN_MOTOR_CMD keeps it,
LEMMA CommandStep ==
  ASSUME IInv, NEW d \in Device, NEW id \in flgInit[d], NEW spd \in Spd,
         CAN_MOTOR_CMD(d, id, spd)
  PROVE  IInv'
<1>0. id \in Motor
  BY DEF IInv, TypeOK
<1>1. TypeOK'
  BY <1>0 DEF IInv, TypeOK, CAN_MOTOR_CMD, bus, Call
<1>2. OnlyPresentSet' /\ WireHoldsFrame'
  BY DEF IInv, TypeOK, CAN_MOTOR_CMD, bus, OnlyPresentSet, WireHoldsFrame
<1>3. call = Idle /\ call' = [at |-> "first", dev |-> d]
  BY DEF CAN_MOTOR_CMD
<1>4. ASSUME NEW e \in Device, NEW part \in {Low, High}, Incomplete(e, part), e # d
      PROVE  Incomplete(e, part)'
  BY <1>4 DEF IInv, TypeOK, CAN_MOTOR_CMD, Incomplete
<1>5. HighIncomplete'
  BY <1>3, <1>4, IdleIsNoCall DEF IInv, HighIncomplete
<1>6. LowIncomplete'
  BY <1>3, <1>4, IdleIsNoCall DEF IInv, LowIncomplete
<1>. QED BY <1>1, <1>2, <1>5, <1>6 DEF IInv

\* its first test,
LEMMA FirstTestStep ==
  ASSUME IInv, NEW d \in Device, FirstTest(d) PROVE IInv'
<1>0. TypeOK /\ flgSet[d] \subseteq flgInit[d]
  BY DEF IInv, OnlyPresentSet
<1>1. /\ call = [at |-> "first", dev |-> d]
      /\ call' = [at |-> "second", dev |-> d]
      /\ flgInit' = flgInit /\ onWire' = onWire
      /\ cmdBuf' = cmdBuf /\ applied' = applied
  BY DEF FirstTest
<1>2. CASE HighNibbleClear(d)
  <2>1. Transmit(d, FrameOf(d, "1T4")) /\ flgSet' = [flgSet EXCEPT ![d] = @ \cap Low]
    BY <1>2 DEF FirstTest, AfterSend, Members
  <2>2. FrameOf(d, "1T4") \in Frame /\ FrameOf(d, "1T4") # Free
    BY <1>0, FrameOfType DEF Group
  <2>3. /\ mbox' \in [Device -> [Slot -> Frame \cup {Free}]]
        /\ \A e \in Device : \A s \in Slot : mbox[e][s] # Free => mbox'[e][s] # Free
    BY <1>0, <2>1, <2>2, TransmitEffect
  <2>4. TypeOK'
    BY <1>0, <1>1, <2>1, <2>3 DEF TypeOK, Call
  <2>5. WireHoldsFrame'
    BY <1>0, <1>1, <2>3 DEF IInv, WireHoldsFrame, TypeOK, Quiet
  <2>6. OnlyPresentSet'
    BY <1>0, <1>1, <2>1 DEF IInv, OnlyPresentSet, TypeOK
  <2>7. ASSUME NEW e \in Device, e # d, NEW part \in {Low, High}, Incomplete(e, part)
        PROVE  Incomplete(e, part)'
    BY <1>0, <1>1, <2>1, <2>7 DEF TypeOK, Incomplete
  <2>8. Incomplete(d, High)'
    <3>1. flgSet'[d] \cap High = {}
      BY <1>0, <2>1 DEF TypeOK, Low, High
    <3>. QED BY <1>1, <3>1 DEF Incomplete
  <2>9. HighIncomplete'
    BY <1>1, <2>7, <2>8 DEF IInv, HighIncomplete
  <2>10. LowIncomplete'
    BY <1>1, <2>7 DEF IInv, LowIncomplete
  <2>. QED BY <2>4, <2>5, <2>6, <2>9, <2>10 DEF IInv
<1>3. CASE ~ HighNibbleClear(d)
  <2>1. mbox' = mbox /\ flgSet' = flgSet
    BY <1>3 DEF FirstTest
  <2>2. TypeOK' /\ WireHoldsFrame' /\ OnlyPresentSet'
    BY <1>0, <1>1, <2>1 DEF IInv, TypeOK, Call, WireHoldsFrame, OnlyPresentSet
  <2>3. Incomplete(d, High)
    BY <1>0, <1>3 DEF HighNibbleClear, Pending, Incomplete
  <2>4. HighIncomplete'
    BY <1>1, <2>1, <2>3 DEF IInv, HighIncomplete, Incomplete
  <2>5. LowIncomplete'
    BY <1>1, <2>1 DEF IInv, LowIncomplete, Incomplete
  <2>. QED BY <2>2, <2>4, <2>5 DEF IInv
<1>. QED BY <1>2, <1>3

\* its second,
LEMMA SecondTestStep ==
  ASSUME IInv, NEW d \in Device, SecondTest(d) PROVE IInv'
<1>0. TypeOK /\ flgSet[d] \subseteq flgInit[d]
  BY DEF IInv, OnlyPresentSet
<1>1. /\ call = [at |-> "second", dev |-> d]
      /\ call' = Idle
      /\ flgInit' = flgInit /\ onWire' = onWire
      /\ cmdBuf' = cmdBuf /\ applied' = applied
  BY DEF SecondTest
<1>2. Incomplete(d, High)
  BY <1>1 DEF IInv, HighIncomplete
<1>3. CASE LowNibbleClear(d)
  <2>1. Transmit(d, FrameOf(d, "5T8")) /\ flgSet' = [flgSet EXCEPT ![d] = @ \cap High]
    BY <1>3 DEF SecondTest, AfterSend, Members
  <2>2. FrameOf(d, "5T8") \in Frame /\ FrameOf(d, "5T8") # Free
    BY <1>0, FrameOfType DEF Group
  <2>3. /\ mbox' \in [Device -> [Slot -> Frame \cup {Free}]]
        /\ \A e \in Device : \A s \in Slot : mbox[e][s] # Free => mbox'[e][s] # Free
    BY <1>0, <2>1, <2>2, TransmitEffect
  <2>4. TypeOK'
    BY <1>0, <1>1, <2>1, <2>3 DEF TypeOK, Call
  <2>5. WireHoldsFrame'
    BY <1>0, <1>1, <2>3 DEF IInv, WireHoldsFrame, TypeOK, Quiet
  <2>6. OnlyPresentSet'
    BY <1>0, <1>1, <2>1 DEF IInv, OnlyPresentSet, TypeOK
  <2>7. ASSUME NEW e \in Device, e # d, NEW part \in {Low, High}, Incomplete(e, part)
        PROVE  Incomplete(e, part)'
    BY <1>0, <1>1, <2>1, <2>7 DEF TypeOK, Incomplete
  <2>8. Incomplete(d, High)'
    BY <1>0, <1>1, <1>2, <2>1 DEF TypeOK, Incomplete
  <2>9. Incomplete(d, Low)'
    <3>1. flgSet'[d] \cap Low = {}
      BY <1>0, <2>1 DEF TypeOK, Low, High
    <3>. QED BY <1>1, <3>1 DEF Incomplete
  <2>10. HighIncomplete'
    BY <1>1, <2>7, <2>8 DEF IInv, HighIncomplete
  <2>11. LowIncomplete'
    BY <1>1, <2>7, <2>9 DEF IInv, LowIncomplete
  <2>. QED BY <2>4, <2>5, <2>6, <2>10, <2>11 DEF IInv
<1>4. CASE ~ LowNibbleClear(d)
  <2>1. mbox' = mbox /\ flgSet' = flgSet
    BY <1>4 DEF SecondTest
  <2>2. TypeOK' /\ WireHoldsFrame' /\ OnlyPresentSet'
    BY <1>0, <1>1, <2>1 DEF IInv, TypeOK, Call, WireHoldsFrame, OnlyPresentSet
  <2>3. d # "CAN2" => Incomplete(d, Low)
    BY <1>0, <1>4 DEF LowNibbleClear, Pending, Incomplete
  <2>4. HighIncomplete'
    BY <1>1, <1>2, <2>1 DEF IInv, HighIncomplete, Incomplete
  <2>5. LowIncomplete'
    BY <1>1, <2>1, <2>3 DEF IInv, LowIncomplete, Incomplete
  <2>. QED BY <2>2, <2>4, <2>5 DEF IInv
<1>. QED BY <1>3, <1>4

\* What the controller puts on the wire is a mailbox that holds a frame.
LEMMA WinnerHoldsFrame ==
  ASSUME TypeOK, NEW d \in Device, FullSlots(d) # {}
  PROVE  Winner(d) \in Slot /\ mbox[d][Winner(d)] # Free
<1>. DEFINE urgent == {s \in FullSlots(d) : mbox[d][s].group = "5T8"}
            pick   == IF urgent # {} THEN urgent ELSE FullSlots(d)
<1>1. pick \in SUBSET Slot /\ pick # {} /\ pick \subseteq FullSlots(d)
  BY DEF FullSlots
<1>2. Winner(d) = Min(pick)
  BY DEF Winner
<1>. HIDE DEF pick
<1>3. Winner(d) \in FullSlots(d)
  BY <1>1, <1>2, MinOfSlots
<1>. QED BY <1>3 DEF FullSlots, FreeSlots

\* The flags and the call are not the controller's business.
LEMMA DriverUntouched ==
  ASSUME IInv, UNCHANGED driver
  PROVE  OnlyPresentSet' /\ HighIncomplete' /\ LowIncomplete'
<1>1. flgInit' = flgInit /\ flgSet' = flgSet /\ call' = call
  BY DEF driver
<1>. QED BY <1>1 DEF IInv, OnlyPresentSet, HighIncomplete, LowIncomplete, Incomplete

\* the steps of the bus,
LEMMA BusStepPreserves ==
  ASSUME IInv, NEW d \in Device, BusStep(d) PROVE IInv'
<1>0. TypeOK /\ WireHoldsFrame
  BY DEF IInv
<1>1. CASE BusStart(d)
  <2>1. UNCHANGED driver /\ mbox' = mbox /\ applied' = applied
    BY <1>1 DEF BusStart
  <2>2. onWire' = [onWire EXCEPT ![d] = Winner(d)]
    BY <1>1 DEF BusStart
  <2>3. Winner(d) \in Slot /\ mbox[d][Winner(d)] # Free
    BY <1>0, <1>1, WinnerHoldsFrame DEF BusStart
  <2>4. TypeOK'
    BY <1>0, <2>1, <2>2, <2>3 DEF TypeOK, driver
  <2>5. WireHoldsFrame'
    BY <1>0, <2>1, <2>2, <2>3 DEF TypeOK, WireHoldsFrame
  <2>. QED BY <2>1, <2>4, <2>5, DriverUntouched DEF IInv
<1>2. CASE BusDone(d)
  <2>. DEFINE k == onWire[d]  f == mbox[d][k]
  <2>1. UNCHANGED driver
    BY <1>2 DEF BusDone
  <2>2. k \in Slot /\ f \in Frame
    BY <1>0, <1>2 DEF BusDone, TypeOK, WireHoldsFrame
  <2>3. f.group \in Group /\ f.data \in [Members(f.group) -> Spd]
    BY <2>2, FrameShape
  <2>4. applied' = [applied EXCEPT ![d] =
          [m \in Motor |-> IF m \in Members(f.group) THEN f.data[m] ELSE applied[d][m]]]
    BY <1>2 DEF BusDone
  <2>5. mbox' = [mbox EXCEPT ![d][k] = Free] /\ onWire' = [onWire EXCEPT ![d] = Quiet]
    BY <1>2 DEF BusDone
  <2>. HIDE DEF k, f
  <2>6. applied' \in [Device -> [Motor -> Spd]]
    BY <1>0, <2>3, <2>4 DEF TypeOK
  <2>7. TypeOK'
    BY <1>0, <2>1, <2>2, <2>5, <2>6 DEF TypeOK, driver
  <2>8. WireHoldsFrame'
    BY <1>0, <2>2, <2>5 DEF TypeOK, WireHoldsFrame
  <2>. QED BY <2>1, <2>7, <2>8, DriverUntouched DEF IInv
<1>3. CASE BusFail(d)
  <2>1. UNCHANGED driver /\ mbox' = mbox /\ applied' = applied
        /\ onWire' = [onWire EXCEPT ![d] = Quiet]
    BY <1>3 DEF BusFail
  <2>2. TypeOK' /\ WireHoldsFrame'
    BY <1>0, <2>1 DEF TypeOK, WireHoldsFrame, driver
  <2>. QED BY <2>1, <2>2, DriverUntouched DEF IInv
<1>. QED BY <1>1, <1>2, <1>3 DEF BusStep

\* and so every step.
LEMMA NextIInv == IInv /\ [Next]_vars => IInv'
<1>. SUFFICES ASSUME IInv, [Next]_vars PROVE IInv'
  OBVIOUS
<1>1. CASE UNCHANGED vars
  BY <1>1 DEF vars, IInv, TypeOK, OnlyPresentSet, WireHoldsFrame,
              HighIncomplete, LowIncomplete, Incomplete
<1>2. CASE \E d \in Device : \E id \in Wired[d] : CAN_MOTOR_FLG_INIT(d, id)
  BY <1>2, InitFlagStep, WiredAssumption
<1>3. CASE \E d \in Device : \E id \in flgInit[d], spd \in Spd : CAN_MOTOR_CMD(d, id, spd)
  BY <1>3, CommandStep
<1>4. CASE \E d \in Device : DriverStep(d)
  BY <1>4, FirstTestStep, SecondTestStep DEF DriverStep
<1>5. CASE \E d \in Device : BusStep(d)
  BY <1>5, BusStepPreserves
<1>. QED BY <1>1, <1>2, <1>3, <1>4, <1>5 DEF Next

-----------------------------------------------------------------------------
(* The theorems.                                                           *)

\* CanMotor's invariant holds throughout.
LEMMA Invariance == Spec => []IInv
<1>. QED BY InitIInv, NextIInv, PTL DEF Spec

\* The buffers, flags, mailboxes and set-points keep their types: no command
\* indexes outside its table, and the wire never carries an empty mailbox.
THEOREM TypeCorrect == Spec => []TypeOK
<1>1. IInv => TypeOK
  BY DEF IInv
<1>. QED BY <1>1, Invariance, PTL

\* The tests of CAN_MOTOR_CMD never leave a group of motors with all its
\* flags set and its trigger behind it.
THEOREM GroupsTrigger == Spec => []NoGroupLeftComplete
<1>1. IInv => NoGroupLeftComplete
  <2>. SUFFICES ASSUME IInv, NEW d \in Device \ {"CAN2"}, NEW part \in {Low, High},
                       call = Idle, flgInit[d] \cap part # {}
                PROVE  ~ (flgInit[d] \cap part \subseteq flgSet[d])
    BY DEF NoGroupLeftComplete
  <2>1. Incomplete(d, part)
    BY IdleIsNoCall DEF IInv, HighIncomplete, LowIncomplete
  <2>. QED BY <2>1 DEF Incomplete
<1>. QED BY <1>1, Invariance, PTL

\* The unmasked shift on CAN2 (bsp_can.c:124): while a motor of the high group
\* is present there, no command ever queues the frame of that group.
THEOREM HighMotorsOfCan2Starve == Spec => Can2HighStarved
<1>1. ASSUME IInv, [Next]_vars, NEW d \in Device \cap {"CAN2"}, NEW s \in Slot,
             Loaded(d, s), flgInit[d] \cap High # {}
      PROVE  mbox'[d][s].group = "1T4"
  <2>0. TypeOK /\ mbox[d][s] = Free /\ mbox'[d][s] # Free
    BY <1>1 DEF IInv, Loaded
  <2>1. CASE UNCHANGED vars
    BY <2>0, <2>1 DEF vars
  <2>2. CASE \E e \in Device : \E id \in Wired[e] : CAN_MOTOR_FLG_INIT(e, id)
    BY <2>0, <2>2 DEF CAN_MOTOR_FLG_INIT, bus
  <2>3. CASE \E e \in Device : \E id \in flgInit[e], spd \in Spd : CAN_MOTOR_CMD(e, id, spd)
    BY <2>0, <2>3 DEF CAN_MOTOR_CMD, bus
  <2>4. ASSUME NEW e \in Device, FirstTest(e) PROVE mbox'[d][s].group = "1T4"
    <3>1. Transmit(e, FrameOf(e, "1T4"))
      BY <2>0, <2>4 DEF FirstTest
    <3>2. FrameOf(e, "1T4") \in Frame /\ FrameOf(e, "1T4").group = "1T4"
      BY <2>0, FrameOfType DEF Group
    <3>. QED BY <2>0, <3>1, <3>2, TransmitEffect
  <2>5. ASSUME NEW e \in Device, SecondTest(e) PROVE FALSE
    <3>1. LowNibbleClear(e) /\ Transmit(e, FrameOf(e, "5T8"))
      BY <2>0, <2>5 DEF SecondTest
    <3>2. FrameOf(e, "5T8") \in Frame
      BY <2>0, FrameOfType DEF Group
    <3>3. e = d
      <4>. SUFFICES ASSUME e # d PROVE FALSE
        OBVIOUS
      <4>1. mbox'[d] = mbox[d]
        BY <2>0, <3>1 DEF Transmit, TypeOK
      <4>. QED BY <2>0, <4>1
    <3>4. call = [at |-> "second", dev |-> d]
      BY <2>5, <3>3 DEF SecondTest
    <3>5. Incomplete(d, High)
      BY <1>1, <3>4 DEF IInv, HighIncomplete
    <3>6. Pending(d) # {}
      BY <1>1, <3>5 DEF Incomplete, Pending
    <3>. QED BY <3>1, <3>3, <3>6 DEF LowNibbleClear
  <2>6. CASE \E e \in Device : BusStep(e)
    BY <2>0, <2>6 DEF BusStep, BusStart, BusDone, BusFail, TypeOK
  <2>. QED BY <1>1, <2>1, <2>2, <2>3, <2>4, <2>5, <2>6 DEF Next, DriverStep
<1>2. IInv /\ [Next]_vars =>
        [\A d \in Device \cap {"CAN2"} : \A s \in Slot :
           Loaded(d, s) /\ flgInit[d] \cap High # {} => mbox'[d][s].group = "1T4"]_vars
  BY <1>1
<1>. QED BY <1>2, Invariance, PTL DEF Spec, Can2HighStarved

\* A frame a mailbox took stays there unaltered until the controller has
\* delivered exactly it.
THEOREM AcceptedFramesAreDelivered == Spec => PendingFrameKept
<1>1. ASSUME IInv, [Next]_vars, NEW d \in Device, NEW s \in Slot,
             mbox[d][s] # Free, mbox'[d][s] # mbox[d][s]
      PROVE  /\ mbox'[d][s] = Free
             /\ onWire[d] = s
             /\ \A m \in DOMAIN mbox[d][s].data : applied'[d][m] = mbox[d][s].data[m]
  <2>0. TypeOK
    BY <1>1 DEF IInv
  <2>1. CASE UNCHANGED vars
    BY <1>1, <2>1 DEF vars
  <2>2. CASE \E e \in Device : \E id \in Wired[e] : CAN_MOTOR_FLG_INIT(e, id)
    BY <1>1, <2>2 DEF CAN_MOTOR_FLG_INIT, bus
  <2>3. CASE \E e \in Device : \E id \in flgInit[e], spd \in Spd : CAN_MOTOR_CMD(e, id, spd)
    BY <1>1, <2>3 DEF CAN_MOTOR_CMD, bus
  <2>4. ASSUME NEW e \in Device, DriverStep(e) PROVE FALSE
    <3>1. PICK g \in Group : mbox' = mbox \/ Transmit(e, FrameOf(e, g))
      BY <2>4 DEF DriverStep, FirstTest, SecondTest, Group
    <3>2. FrameOf(e, g) \in Frame
      BY <2>0, FrameOfType
    <3>. QED BY <1>1, <2>0, <3>1, <3>2, TransmitEffect
  <2>5. ASSUME NEW e \in Device, BusStart(e) \/ BusFail(e) PROVE FALSE
    BY <1>1, <2>5 DEF BusStart, BusFail
  <2>6. ASSUME NEW e \in Device, BusDone(e)
        PROVE  /\ mbox'[d][s] = Free
               /\ onWire[d] = s
               /\ \A m \in DOMAIN mbox[d][s].data : applied'[d][m] = mbox[d][s].data[m]
    <3>1. e = d /\ onWire[d] = s
      BY <1>1, <2>0, <2>6 DEF BusDone, TypeOK
    <3>2. mbox'[d][s] = Free
      BY <2>0, <2>6, <3>1 DEF BusDone, TypeOK
    <3>3. /\ mbox[d][s].group \in Group
          /\ mbox[d][s].data \in [Members(mbox[d][s].group) -> Spd]
      BY <1>1, <2>0, FrameShape DEF TypeOK
    <3>4. ASSUME NEW m \in DOMAIN mbox[d][s].data
          PROVE  applied'[d][m] = mbox[d][s].data[m]
      <4>1. m \in Members(mbox[d][s].group) /\ m \in Motor
        BY <3>3 DEF Members, Low, High, Motor
      <4>. QED BY <2>0, <2>6, <3>1, <4>1 DEF BusDone, TypeOK
    <3>. QED BY <3>1, <3>2, <3>4
  <2>. QED BY <1>1, <2>1, <2>2, <2>3, <2>4, <2>5, <2>6 DEF Next, BusStep
<1>2. IInv /\ [Next]_vars =>
        [\A d \in Device : \A s \in Slot :
           mbox[d][s] # Free /\ mbox'[d][s] # mbox[d][s]
             => /\ mbox'[d][s] = Free
                /\ onWire[d] = s
                /\ \A m \in DOMAIN mbox[d][s].data : applied'[d][m] = mbox[d][s].data[m]]_vars
  BY <1>1
<1>. QED BY <1>2, Invariance, PTL DEF Spec, PendingFrameKept

-----------------------------------------------------------------------------
(* The motor loop.                                                          *)

\* The number of the cycle before cycle c.
Prior(c) == IF c = 1 THEN CycleMod ELSE c - 1
\* The motors the thread has served in the cycle under way.
Done == {order[i] : i \in 1..pos - 1}
\* Set-points of the cycle under way and of the one before.
Recent == {cycle, Prior(cycle)}
\* The motors whose set-point is in the frame of a group.
Of(g) == Present \cap Members(g)
\* The motors whose flags make a group's frame due are those of the other
\* group, see HighNibbleClear and LowNibbleClear.
Trigger(g) == IF g = "1T4" THEN High ELSE Low
\* Those of them that are present.
Triggers(g) == Present \cap Trigger(g)
\* The two steps of a call on Dev.
First == [at |-> "first", dev |-> Dev]
Second == [at |-> "second", dev |-> Dev]

\* Where thread2 and the driver are: a call is only under way in the motor
\* loop, and the flags of the motors initialised so far are in place.
Loop ==
  /\ call \in {Idle, First, Second}
  /\ call # Idle => started /\ pos >= 2
  /\ ~ started => pos <= Len(order) /\ healthy = 0
  /\ flgInit[Dev] = IF started THEN Present ELSE Done
\* What is recorded of the link.
Link == (steady => linkUp) /\ (healthy >= 1 => steady)

\* The types, the driver's own invariant, and the place in the loop.
Base == CycleTypeOK /\ IInv /\ Loop /\ Link

\* The motors in order are distinct, and those served are present.
LEMMA Orderly ==
  ASSUME CycleTypeOK
  PROVE  /\ order \in Seq(Motor) /\ Len(order) \in Nat \ {0} /\ pos \in 1..Len(order) + 1
         /\ \A i \in 1..Len(order) : order[i] \in Motor /\ order[i] \in Present
         /\ \A i, j \in 1..Len(order) : order[i] = order[j] => i = j
         /\ Present \subseteq Motor /\ Done \subseteq Present
<1>1. order \in Seq(Motor) /\ order # <<>> /\ pos \in 1..Len(order) + 1
      /\ \A i, j \in 1..Len(order) : order[i] = order[j] => i = j
  BY OrdersAssumption DEF CycleTypeOK
<1>2. Len(order) \in Nat \ {0} /\ \A i \in 1..Len(order) : order[i] \in Motor
  BY <1>1, LenProperties, EmptySeq, ElementOfSeq
<1> QED BY <1>1, <1>2 DEF Present, Done

\* The states of a call differ.
LEMMA Calls ==
  /\ Idle # First /\ Idle # Second /\ First # Second
  /\ Dev \in Device /\ Dev # "CAN2"
<1>1. Idle # First /\ Idle # Second
  BY IdleIsNoCall DEF First, Second
<1> QED BY <1>1, DevAssumption DEF First, Second

\* Cycle numbers, and the one before the next.
LEMMA Numbers ==
  /\ CycleMod \in Nat /\ CycleMod >= 3 /\ Spd = 0..CycleMod /\ Zero = 0
  /\ \A c \in 1..CycleMod : Next1(c) \in 1..CycleMod /\ Prior(c) \in 1..CycleMod
                            /\ Prior(Next1(c)) = c
BY CycleAssumption DEF Next1, Prior

\* A recent set-point is a command, at most one cycle old.
LEMMA RecentAge ==
  ASSUME CycleTypeOK, NEW v \in Recent
  PROVE  v # Zero /\ Age(v) <= 1
<1>1. cycle \in 1..CycleMod /\ CycleMod \in Nat /\ CycleMod >= 3 /\ Zero = 0
  BY Numbers DEF CycleTypeOK
<1> QED BY <1>1 DEF Recent, Prior, Age

\* Each action keeps Base.  Initialising a motor adds its flag.
LEMMA InitMotorBase == ASSUME Base, InitMotor PROVE Base'
<1>1. /\ ~ started /\ pos \in 1..Len(order) /\ order[pos] \in Motor /\ Len(order) \in Nat \ {0}
      /\ flgInit[Dev] = Done /\ healthy = 0 /\ call = Idle
  BY Orderly DEF Base, Loop, InitMotor
<1>2. /\ CAN_MOTOR_FLG_INIT(Dev, order[pos]) /\ UNCHANGED <<order, cycle, link, accepted>>
      /\ (pos < Len(order) /\ pos' = pos + 1 /\ started' = FALSE)
         \/ (pos = Len(order) /\ pos' = 1 /\ started' = TRUE)
  BY <1>1 DEF InitMotor
<1>3. IInv'
  BY <1>1, <1>2, InitFlagStep, Calls DEF Base
<1>4. UNCHANGED <<order, cycle, linkUp, healthy, steady, outages, accepted>>
  BY <1>2 DEF link
<1>5. CycleTypeOK'
  <2>1. TypeOK'
    BY <1>3 DEF IInv
  <2>2. pos' \in 1..Len(order) + 1
    BY <1>1, <1>2
  <2>3. started' \in BOOLEAN
    BY <1>2
  <2> QED BY <1>4, <2>1, <2>2, <2>3 DEF Base, CycleTypeOK
<1>6. Link'
  BY <1>4 DEF Base, Link
<1>7. Loop'
  <2>1. call' = Idle /\ flgInit'[Dev] = Done \cup {order[pos]}
    BY <1>1, <1>2, Calls DEF CAN_MOTOR_FLG_INIT, Base, IInv, TypeOK
  <2>2. Present' = Present
    BY <1>4 DEF Present
  <2>3. Done \cup {order[pos]} = {order[i] : i \in 1..pos}
    BY <1>1 DEF Done
  <2>4. CASE pos < Len(order) /\ pos' = pos + 1 /\ started' = FALSE
    <3>1. Done' = {order[i] : i \in 1..pos}
      BY <1>1, <1>4, <2>4 DEF Done
    <3> QED BY <1>1, <1>4, <2>1, <2>3, <2>4, <3>1 DEF Loop
  <2>5. CASE pos = Len(order) /\ pos' = 1 /\ started' = TRUE
    <3>1. Done \cup {order[pos]} = Present
      BY <2>3, <2>5 DEF Present
    <3> QED BY <1>1, <1>4, <2>1, <2>2, <2>5, <3>1 DEF Loop
  <2> QED BY <1>2, <2>4, <2>5
<1> QED BY <1>3, <1>5, <1>6, <1>7 DEF Base

\* A command sets its flag and begins the call.
LEMMA UpdateMotorBase == ASSUME Base, UpdateMotor PROVE Base'
<1>1. /\ started /\ pos \in 1..Len(order) /\ order[pos] \in Present /\ Len(order) \in Nat \ {0}
      /\ flgInit[Dev] = Present /\ call = Idle
  BY Orderly DEF Base, Loop, UpdateMotor, CAN_MOTOR_CMD
<1>2. /\ CAN_MOTOR_CMD(Dev, order[pos], cycle) /\ pos' = pos + 1
      /\ UNCHANGED <<order, started, cycle, linkUp, healthy, steady, outages, accepted>>
  BY DEF UpdateMotor, link
<1>3. cycle \in Spd
  BY Numbers DEF Base, CycleTypeOK
<1>4. IInv'
  BY <1>1, <1>2, <1>3, CommandStep, Calls DEF Base
<1>5. CycleTypeOK'
  BY <1>1, <1>2, <1>4 DEF Base, CycleTypeOK, IInv
<1>6. Link'
  BY <1>2 DEF Base, Link
<1>7. Loop'
  <2>1. call' = First /\ flgInit' = flgInit
    BY <1>2 DEF CAN_MOTOR_CMD, First
  <2>2. Present' = Present
    BY <1>2 DEF Present
  <2> QED BY <1>1, <1>2, <2>1, <2>2 DEF Loop
<1> QED BY <1>4, <1>5, <1>6, <1>7 DEF Base

\* The tests of a call end it.
LEMMA FinishCommandBase == ASSUME Base, FinishCommand PROVE Base'
<1>1. /\ DriverStep(Dev)
      /\ UNCHANGED <<order, pos, started, cycle, linkUp, healthy, steady, outages>>
  BY DEF FinishCommand, thread, link
<1>2. IInv'
  BY <1>1, FirstTestStep, SecondTestStep, Calls DEF DriverStep, Base
<1>3. accepted' \in [Motor -> Spd]
  <2>1. \A m \in Motor : cmdBuf[Dev][m] \in Spd /\ accepted[m] \in Spd
    BY Calls DEF Base, CycleTypeOK, TypeOK
  <2> QED BY <2>1 DEF FinishCommand
<1>4. CycleTypeOK'
  BY <1>1, <1>2, <1>3 DEF Base, CycleTypeOK, IInv
<1>5. Link'
  BY <1>1 DEF Base, Link
<1>6. Loop'
  <2>1. /\ call \in {First, Second} /\ call' \in {Second, Idle} /\ flgInit' = flgInit
    BY <1>1 DEF DriverStep, FirstTest, SecondTest, First, Second
  <2>2. Present' = Present /\ Done' = Done
    BY <1>1 DEF Present, Done
  <2> QED BY <1>1, <2>1, <2>2, Calls DEF Base, Loop
<1> QED BY <1>2, <1>4, <1>5, <1>6 DEF Base

\* What is left alone keeps the driver's invariant.
LEMMA Untouched ==
  ASSUME IInv, UNCHANGED vars
  PROVE  IInv' /\ call' = call /\ flgInit' = flgInit
BY DEF vars, IInv, TypeOK, OnlyPresentSet, WireHoldsFrame, HighIncomplete, LowIncomplete, Incomplete

\* A cycle begins.
LEMMA StartCycleBase == ASSUME Base, StartCycle PROVE Base'
<1>1. /\ started /\ call = Idle /\ pos = Len(order) + 1 /\ pos' = 1 /\ cycle' = Next1(cycle)
      /\ healthy' = IF ~steady THEN 0 ELSE IF healthy < 2 THEN healthy + 1 ELSE 2
      /\ steady' = linkUp
      /\ UNCHANGED <<vars, order, started, linkUp, outages, accepted>>
  BY DEF StartCycle, CycleOver
<1>2. IInv' /\ call' = call /\ flgInit' = flgInit
  BY <1>1, Untouched DEF Base
<1>3. Len(order) \in Nat /\ healthy \in 0..2 /\ cycle' \in 1..CycleMod
  BY <1>1, Orderly, Numbers DEF Base, CycleTypeOK
<1>4. CycleTypeOK'
  <2>1. healthy' \in 0..2 /\ pos' \in 1..Len(order) + 1
    BY <1>1, <1>3
  <2> QED BY <1>1, <1>2, <1>3, <2>1 DEF Base, CycleTypeOK, IInv
<1>5. Link'
  BY <1>1, <1>3 DEF Base, Link
<1>6. Loop'
  <2>1. Present' = Present
    BY <1>1 DEF Present
  <2> QED BY <1>1, <1>2, <2>1 DEF Base, Loop
<1> QED BY <1>2, <1>4, <1>5, <1>6 DEF Base

\* The cable fails or returns.
LEMMA LinkBase == ASSUME Base, LinkFails \/ LinkReturns PROVE Base'
<1>1. UNCHANGED <<vars, order, pos, started, cycle, accepted>>
  BY DEF LinkFails, LinkReturns, thread
<1>2. IInv' /\ call' = call /\ flgInit' = flgInit
  BY <1>1, Untouched DEF Base
<1>3. outages' \in 0..MaxOutages[order] /\ linkUp' \in BOOLEAN /\ healthy' \in 0..2
      /\ steady' \in BOOLEAN /\ (healthy = 0 => healthy' = 0) /\ Link'
  <2>1. MaxOutages[order] \in Nat /\ outages \in 0..MaxOutages[order] /\ healthy \in 0..2
    BY OutageAssumption DEF Base, CycleTypeOK
  <2>2. CASE LinkFails
    <3>1. outages' = outages + 1 /\ outages < MaxOutages[order] /\ healthy' = 0
          /\ linkUp' = FALSE /\ steady' = FALSE
      BY <2>2 DEF LinkFails
    <3>2. outages' \in 0..MaxOutages[order] /\ healthy' \in 0..2
      BY <2>1, <3>1
    <3>3. Link'
      BY <3>1 DEF Link
    <3> QED BY <3>1, <3>2, <3>3
  <2>3. CASE LinkReturns
    BY <2>1, <2>3 DEF LinkReturns, Link, Base, CycleTypeOK
  <2> QED BY <2>2, <2>3
<1>4. CycleTypeOK'
  BY <1>1, <1>2, <1>3 DEF Base, CycleTypeOK, IInv
<1>5. Loop'
  <2>1. Present' = Present /\ Done' = Done
    BY <1>1 DEF Present, Done
  <2> QED BY <1>1, <1>2, <1>3, <2>1 DEF Base, Loop
<1> QED BY <1>2, <1>3, <1>4, <1>5 DEF Base

\* The controller transmits.
LEMMA TransmissionBase == ASSUME Base, Transmission PROVE Base'
<1>1. /\ BusStep(Dev) /\ UNCHANGED driver
      /\ UNCHANGED <<order, pos, started, cycle, linkUp, healthy, steady, outages, accepted>>
  BY DEF Transmission, BusStep, BusStart, BusDone, BusFail, thread, link
<1>2. IInv' /\ call' = call /\ flgInit' = flgInit
  BY <1>1, BusStepPreserves, Calls DEF Base, driver
<1>3. CycleTypeOK'
  BY <1>1, <1>2 DEF Base, CycleTypeOK, IInv
<1>4. Link'
  BY <1>1 DEF Base, Link
<1>5. Loop'
  <2>1. Present' = Present /\ Done' = Done
    BY <1>1 DEF Present, Done
  <2> QED BY <1>1, <1>2, <2>1 DEF Base, Loop
<1> QED BY <1>2, <1>3, <1>4, <1>5 DEF Base

\* Base holds initially.
LEMMA InitBase == CycleInit => Base
<1> SUFFICES ASSUME CycleInit PROVE Base
  OBVIOUS
<1>1. IInv /\ call = Idle /\ flgInit[Dev] = {}
  BY InitIInv, Calls DEF CycleInit, Init
<1>2. order \in Orders /\ pos = 1 /\ started = FALSE /\ healthy = 0 /\ linkUp = TRUE
  BY DEF CycleInit
<1>3. order \in Seq(Motor) /\ order # <<>>
  BY <1>2, OrdersAssumption
<1>4. Len(order) \in Nat \ {0} /\ MaxOutages[order] \in Nat
  BY <1>2, <1>3, LenProperties, EmptySeq, OutageAssumption
<1>5. CycleTypeOK
  <2>1. pos \in 1..Len(order) + 1 /\ cycle \in 1..CycleMod /\ healthy \in 0..2
        /\ outages \in 0..MaxOutages[order] /\ accepted \in [Motor -> Spd]
    <3>1. pos = 1 /\ cycle = 1 /\ healthy = 0 /\ outages = 0 /\ accepted = [m \in Motor |-> Zero]
      BY DEF CycleInit
    <3>2. CycleMod \in Nat /\ CycleMod >= 3 /\ Zero \in Spd
      BY Numbers
    <3>3. pos \in 1..Len(order) + 1 /\ cycle \in 1..CycleMod /\ healthy \in 0..2
      BY <1>4, <3>1, <3>2
    <3>4. outages \in 0..MaxOutages[order]
      BY <1>4, <3>1
    <3> QED BY <3>1, <3>2, <3>3, <3>4
  <2>2. started \in BOOLEAN /\ linkUp \in BOOLEAN /\ steady \in BOOLEAN
    BY Zenon DEF CycleInit
  <2> QED BY <1>1, <1>2, <2>1, <2>2 DEF CycleTypeOK, IInv
<1>6. Loop /\ Link
  <2>1. Done = {}
    BY <1>2 DEF Done
  <2> QED BY <1>1, <1>2, <1>4, <2>1 DEF Loop, Link
<1> QED BY <1>1, <1>5, <1>6 DEF Base

\* Every step keeps Base.
LEMMA NextBase == Base /\ [CycleNext]_all => Base'
<1> SUFFICES ASSUME Base, [CycleNext]_all PROVE Base'
  OBVIOUS
<1>1. CASE Thread
  BY <1>1, InitMotorBase, UpdateMotorBase, FinishCommandBase, StartCycleBase DEF Thread
<1>2. CASE LinkFails \/ LinkReturns \/ Transmission
  BY <1>2, LinkBase, TransmissionBase
<1>3. CASE UNCHANGED all
  <2>1. UNCHANGED <<vars, order, pos, started, cycle, linkUp, healthy, steady, outages, accepted>>
    BY <1>3 DEF all, thread, link
  <2>2. IInv' /\ call' = call /\ flgInit' = flgInit
    BY <2>1, Untouched DEF Base
  <2> QED BY <2>1, <2>2 DEF Base, CycleTypeOK, IInv, Loop, Link, Present, Done
<1> QED BY <1>1, <1>2, <1>3 DEF CycleNext

\* The loop's variables keep their types, whatever the order of the motors
\* and however often the cable fails: thread2_entry's loop.
THEOREM CycleTypeCorrect == CycleSpec => []CycleTypeOK
<1>1. Base => CycleTypeOK
  BY DEF Base
<1> QED BY <1>1, InitBase, NextBase, PTL DEF CycleSpec

-----------------------------------------------------------------------------
\* The mailboxes that hold a frame of a group.
Holding(g) == {s \in Slot : mbox[Dev][s].group = g}
\* The call under way has still to test whether the group's frame is due.
Awaits(g) == call = First \/ (call = Second /\ g = "5T8")
\* The group's test has been passed in this cycle, at least for its first motor.
Begun(g) == ~ (pos = 1 \/ (pos = 2 /\ Awaits(g)))

\* The buffer holds the cycle's set-points for those served and, after a
\* healthy cycle, the last cycle's for those to come.
Buffers ==
  /\ started => \A m \in Done : cmdBuf[Dev][m] = cycle
  /\ healthy >= 1 => \A m \in Present \ Done : cmdBuf[Dev][m] = Prior(cycle)
\* A test still to come is due only by the flag of the motor just commanded.
Fires ==
  \A g \in Group : Awaits(g) /\ Triggers(g) # {} =>
    ~ (Triggers(g) \subseteq flgSet[Dev] \ {order[pos - 1]})
\* Before a group's first test of a healthy cycle, at most the other group's
\* first frame is in a mailbox.
Early ==
  /\ ~ Begun("1T4") => \A s \in Slot : mbox[Dev][s] = Free
  /\ ~ Begun("5T8") => \A s, t \in Slot : mbox[Dev][s] # Free /\ mbox[Dev][t] # Free => s = t
\* The frames in the mailboxes are recent.
Fresh == \A g \in Group : \A s \in Holding(g), m \in Of(g) : mbox[Dev][s].data[m] \in Recent
\* The group's frame has not been due in this cycle: no mailbox holds one,
\* and the motors served that trigger it still have their flags.
Unsent(g) ==
  /\ Holding(g) = {}
  /\ Done \cap Trigger(g) \subseteq flgSet[Dev]
  /\ Triggers(g) = {} => ~ Begun(g)
\* The group's frame was sent in this cycle: the motors have it, or a mailbox.
Sent(g) ==
  \A m \in Of(g) : accepted[m] \in Recent /\ (applied[Dev][m] \in Recent \/ Holding(g) # {})
\* With motors in both groups it was sent once: the flags are cleared, so
\* that it is not due again, and the one frame is the newest there is.
Once(g) ==
  /\ ~ (Done \cap Trigger(g) \subseteq flgSet[Dev])
  /\ \A s, t \in Holding(g) : s = t
  /\ \A s \in Holding(g), m \in Of(g) : mbox[Dev][s].data[m] = accepted[m]
  /\ Holding(g) = {} => \A m \in Of(g) : applied[Dev][m] = accepted[m]
\* A group's frame is to come or was sent.
GroupServed(g) == Unsent(g) \/ (Sent(g) /\ (BothGroups => Once(g)))
\* Both groups are.
Served == \A g \in Group : GroupServed(g)

\* The inductive invariant.  Nothing is said of what the mailboxes hold until
\* one cycle has gone by with the link up: a stale frame may sit in them.
LoopIInv ==
  /\ Base /\ Buffers /\ Fires
  /\ healthy >= 1 => Early /\ Fresh /\ Served

-----------------------------------------------------------------------------
\* What a test of CAN_MOTOR_CMD may do: nothing; send a frame that finds no
\* mailbox; or put it into mailbox k.
Skipped(g) ==
  /\ ~ (Triggers(g) \subseteq flgSet[Dev])
  /\ mbox'[Dev] = mbox[Dev] /\ flgSet'[Dev] = flgSet[Dev]
  /\ \A m \in Motor : accepted'[m] = accepted[m]
Lost(g) ==
  /\ Triggers(g) \subseteq flgSet[Dev]
  /\ mbox'[Dev] = mbox[Dev] /\ flgSet'[Dev] = flgSet[Dev] \cap Members(g)
  /\ \A s \in Slot : mbox[Dev][s] # Free
  /\ \A m \in Motor : accepted'[m] = accepted[m]
Taken(g, k) ==
  /\ Triggers(g) \subseteq flgSet[Dev]
  /\ flgSet'[Dev] = flgSet[Dev] \cap Members(g)
  /\ mbox[Dev][k] = Free /\ mbox'[Dev][k].group = g
  /\ \A m \in Members(g) : mbox'[Dev][k].data[m] = cmdBuf[Dev][m]
  /\ \A s \in Slot \ {k} : mbox'[Dev][s] = mbox[Dev][s]
  /\ \A m \in Motor : accepted'[m] = IF m \in Members(g) THEN cmdBuf[Dev][m] ELSE accepted[m]

\* The flags of either group trigger the frame of the other.
LEMMA TwoGroups ==
  /\ Group = {"1T4", "5T8"} /\ "1T4" # "5T8"
  /\ Members("1T4") = Low /\ Members("5T8") = High
  /\ Trigger("1T4") = High /\ Trigger("5T8") = Low
  /\ Low \cap High = {} /\ Motor = Low \cup High
BY DEF Group, Members, Trigger, Low, High, Motor

\* A mailbox holds nothing or a frame of one group.
LEMMA Boxes ==
  ASSUME TypeOK, NEW s \in Slot
  PROVE  /\ Free.group \notin Group
         /\ mbox[Dev][s] = Free \/ (mbox[Dev][s] \in Frame /\ mbox[Dev][s].group \in Group)
         /\ mbox[Dev][s] # Free <=> \E g \in Group : s \in Holding(g)
<1>1. Free.group \notin Group
  BY DEF Free, Group
<1>2. mbox[Dev][s] \in Frame \cup {Free}
  BY Calls DEF TypeOK
<1>3. mbox[Dev][s] # Free => mbox[Dev][s] \in Frame /\ mbox[Dev][s].group \in Group
  BY <1>2, FrameShape
<1> QED BY <1>1, <1>3 DEF Holding

\* Who is missing a flag, seen by the test of a group.
LEMMA TestClear ==
  ASSUME Base, started
  PROVE  /\ flgSet[Dev] \subseteq Present
         /\ HighNibbleClear(Dev) <=> Triggers("1T4") \subseteq flgSet[Dev]
         /\ LowNibbleClear(Dev) <=> Triggers("5T8") \subseteq flgSet[Dev]
<1>1. flgInit[Dev] = Present /\ flgSet[Dev] \subseteq Present
  BY Calls DEF Base, Loop, IInv, OnlyPresentSet
<1>2. Pending(Dev) = Present \ flgSet[Dev]
  BY <1>1 DEF Pending
<1> QED BY <1>1, <1>2, Calls, TwoGroups DEF HighNibbleClear, LowNibbleClear, Triggers

\* Queuing a frame takes one free mailbox if there is one.
LEMMA Queued ==
  ASSUME Base, NEW g \in Group, Transmit(Dev, FrameOf(Dev, g)),
         accepted' = [m \in Motor |->
           IF \E s \in Slot : Loaded(Dev, s) /\ m \in Members(mbox'[Dev][s].group)
           THEN cmdBuf[Dev][m] ELSE accepted[m]],
         Triggers(g) \subseteq flgSet[Dev], flgSet'[Dev] = flgSet[Dev] \cap Members(g)
  PROVE  Lost(g) \/ \E k \in Slot : Taken(g, k)
<1>1. TypeOK /\ FrameOf(Dev, g) \in Frame /\ FrameOf(Dev, g).group = g /\ FrameOf(Dev, g) # Free
  BY FrameOfType, Calls DEF Base, IInv
<1>2. CASE FreeSlots(Dev) = {}
  <2>1. mbox' = mbox /\ \A s \in Slot : mbox[Dev][s] # Free
    BY <1>2 DEF Transmit, FreeSlots
  <2>2. \A m \in Motor : accepted'[m] = accepted[m]
    BY <2>1 DEF Loaded
  <2> QED BY <2>1, <2>2 DEF Lost
<1>3. CASE FreeSlots(Dev) # {}
  <2>1. PICK k \in FreeSlots(Dev) : mbox' = [mbox EXCEPT ![Dev][k] = FrameOf(Dev, g)]
    BY <1>3, MinOfSlots DEF Transmit, FreeSlots
  <2>2. k \in Slot /\ mbox[Dev][k] = Free
    BY <2>1 DEF FreeSlots
  <2>3. mbox'[Dev][k] = FrameOf(Dev, g) /\ \A s \in Slot \ {k} : mbox'[Dev][s] = mbox[Dev][s]
    BY <1>1, <2>1, <2>2, Calls DEF TypeOK
  <2>4. \A s \in Slot : Loaded(Dev, s) <=> s = k
    BY <1>1, <2>2, <2>3 DEF Loaded
  <2>5. \A m \in Motor : accepted'[m] = IF m \in Members(g) THEN cmdBuf[Dev][m] ELSE accepted[m]
    BY <1>1, <2>2, <2>3, <2>4
  <2>6. \A m \in Members(g) : mbox'[Dev][k].data[m] = cmdBuf[Dev][m]
    BY <2>3 DEF FrameOf
  <2>7. Taken(g, k)
    BY <1>1, <2>2, <2>3, <2>5, <2>6 DEF Taken
  <2> QED BY <2>2, <2>7
<1> QED BY <1>2, <1>3

\* A test is one of the two, and does one of the three.
LEMMA TestOutcome ==
  ASSUME Base, FinishCommand
  PROVE  /\ started /\ pos >= 2
         /\ UNCHANGED <<order, pos, started, cycle, healthy, steady, cmdBuf, applied>>
         /\ \E g \in Group :
              /\ \/ g = "1T4" /\ call = First /\ call' = Second
                 \/ g = "5T8" /\ call = Second /\ call' = Idle
              /\ Skipped(g) \/ Lost(g) \/ \E k \in Slot : Taken(g, k)
<1>1. /\ DriverStep(Dev)
      /\ UNCHANGED <<order, pos, started, cycle, healthy, steady, cmdBuf, applied>>
  BY DEF FinishCommand, thread, link, DriverStep, FirstTest, SecondTest
<1>2. accepted' = [m \in Motor |->
           IF \E s \in Slot : Loaded(Dev, s) /\ m \in Members(mbox'[Dev][s].group)
           THEN cmdBuf[Dev][m] ELSE accepted[m]]
  BY DEF FinishCommand
<1>3. call \in {First, Second}
  BY <1>1 DEF DriverStep, FirstTest, SecondTest, First, Second
<1>4. started /\ pos >= 2
  BY <1>3, Calls DEF Base, Loop
<1>5. mbox' = mbox => \A m \in Motor : accepted'[m] = accepted[m]
  BY <1>2 DEF Loaded
<1>6. CASE FirstTest(Dev)
  <2>1. call = First /\ call' = Second
    BY <1>6 DEF FirstTest, First, Second
  <2>2. CASE HighNibbleClear(Dev)
    <3>1. Transmit(Dev, FrameOf(Dev, "1T4"))
          /\ flgSet' = [flgSet EXCEPT ![Dev] = @ \cap Members("1T4")]
      BY <1>6, <2>2 DEF FirstTest, AfterSend
    <3>2. flgSet'[Dev] = flgSet[Dev] \cap Members("1T4")
      BY <3>1, Calls DEF Base, IInv, TypeOK
    <3> QED BY <1>1, <1>2, <1>4, <2>1, <2>2, <3>1, <3>2, TestClear, Queued, TwoGroups
  <2>3. CASE ~ HighNibbleClear(Dev)
    <3>1. mbox' = mbox /\ flgSet' = flgSet
      BY <1>6, <2>3 DEF FirstTest
    <3>2. Skipped("1T4")
      BY <1>4, <1>5, <2>3, <3>1, TestClear DEF Skipped
    <3> QED BY <1>1, <1>4, <2>1, <3>2, TwoGroups
  <2> QED BY <2>2, <2>3
<1>7. CASE SecondTest(Dev)
  <2>1. call = Second /\ call' = Idle
    BY <1>7 DEF SecondTest, Second
  <2>2. CASE LowNibbleClear(Dev)
    <3>1. Transmit(Dev, FrameOf(Dev, "5T8"))
          /\ flgSet' = [flgSet EXCEPT ![Dev] = @ \cap Members("5T8")]
      BY <1>7, <2>2 DEF SecondTest, AfterSend
    <3>2. flgSet'[Dev] = flgSet[Dev] \cap Members("5T8")
      BY <3>1, Calls DEF Base, IInv, TypeOK
    <3> QED BY <1>1, <1>2, <1>4, <2>1, <2>2, <3>1, <3>2, TestClear, Queued, TwoGroups
  <2>3. CASE ~ LowNibbleClear(Dev)
    <3>1. mbox' = mbox /\ flgSet' = flgSet
      BY <1>7, <2>3 DEF SecondTest
    <3>2. Skipped("5T8")
      BY <1>4, <1>5, <2>3, <3>1, TestClear DEF Skipped
    <3> QED BY <1>1, <1>4, <2>1, <3>2, TwoGroups
  <2> QED BY <2>2, <2>3
<1> QED BY <1>1, <1>6, <1>7 DEF DriverStep

\* The frame of mailbox k reaches its motors.
Delivered(k) ==
  /\ mbox[Dev][k] # Free /\ mbox'[Dev][k] = Free
  /\ \A s \in Slot \ {k} : mbox'[Dev][s] = mbox[Dev][s]
  /\ \A m \in Motor : applied'[Dev][m] =
       IF m \in Members(mbox[Dev][k].group) THEN mbox[Dev][k].data[m] ELSE applied[Dev][m]

\* The controller delivers a frame, or changes no mailbox and no motor.
LEMMA BusOutcome ==
  ASSUME Base, Transmission
  PROVE  /\ UNCHANGED <<order, pos, started, cycle, healthy, steady, accepted,
                        cmdBuf, flgInit, flgSet, call>>
         /\ \/ mbox'[Dev] = mbox[Dev] /\ applied'[Dev] = applied[Dev]
            \/ \E k \in Slot : Delivered(k)
<1>1. /\ BusStep(Dev)
      /\ UNCHANGED <<order, pos, started, cycle, healthy, steady, accepted,
                     cmdBuf, flgInit, flgSet, call>>
  BY DEF Transmission, BusStep, BusStart, BusDone, BusFail, thread, link, driver
<1>2. CASE BusStart(Dev) \/ BusFail(Dev)
  BY <1>1, <1>2 DEF BusStart, BusFail
<1>3. CASE BusDone(Dev)
  <2> DEFINE k == onWire[Dev]
  <2>1. k \in Slot /\ mbox[Dev][k] # Free
    BY <1>3, Calls DEF BusDone, Base, IInv, TypeOK, WireHoldsFrame
  <2>2. mbox' = [mbox EXCEPT ![Dev][k] = Free]
        /\ applied' = [applied EXCEPT ![Dev] =
             [m \in Motor |-> IF m \in Members(mbox[Dev][k].group)
                              THEN mbox[Dev][k].data[m] ELSE applied[Dev][m]]]
    BY <1>3 DEF BusDone
  <2> HIDE DEF k
  <2>3. Delivered(k)
    BY <2>1, <2>2, Calls DEF Delivered, Base, IInv, TypeOK
  <2> QED BY <1>1, <2>1, <2>3
<1> QED BY <1>1, <1>2, <1>3 DEF BusStep

-----------------------------------------------------------------------------
\* A group is left as it is by what touches neither its frames nor the flags
\* that trigger them.
LEMMA GroupLeft ==
  ASSUME NEW g \in Group, GroupServed(g),
         UNCHANGED <<order, cycle>>, Done' = Done, Holding(g)' = Holding(g),
         \A s \in Holding(g) : mbox'[Dev][s] = mbox[Dev][s],
         \A m \in Of(g) : accepted'[m] = accepted[m] /\ applied'[Dev][m] = applied[Dev][m],
         flgSet'[Dev] \cap Trigger(g) = flgSet[Dev] \cap Trigger(g),
         Triggers(g) # {} \/ Begun(g) \/ ~ Begun(g)'
  PROVE  GroupServed(g)'
<1>1. Present' = Present /\ Recent' = Recent
  BY DEF Present, Recent, Prior
<1>2. Of(g)' = Of(g) /\ Triggers(g)' = Triggers(g) /\ (BothGroups' <=> BothGroups)
  BY <1>1 DEF Of, Triggers, BothGroups
<1>3. (Done \cap Trigger(g) \subseteq flgSet[Dev])' <=> Done \cap Trigger(g) \subseteq flgSet[Dev]
  OBVIOUS
<1>4. CASE Unsent(g)
  <2>1. Unsent(g)'
    BY <1>2, <1>3, <1>4 DEF Unsent
  <2> QED BY <2>1 DEF GroupServed
<1>5. CASE Sent(g) /\ (BothGroups => Once(g))
  <2>1. Sent(g)'
    BY <1>1, <1>2, <1>5 DEF Sent
  <2>2. BothGroups => Once(g)'
    BY <1>2, <1>3, <1>5 DEF Once
  <2> QED BY <1>2, <2>1, <2>2 DEF GroupServed
<1> QED BY <1>4, <1>5 DEF GroupServed

\* The mailboxes of the group whose frame is queued, and of the other one.
LEMMA TakenBoxes ==
  ASSUME Base, NEW g \in Group, NEW k \in Slot, Taken(g, k)
  PROVE  /\ Holding(g)' = Holding(g) \cup {k} /\ k \notin Holding(g)
         /\ \A h \in Group \ {g} : Holding(h)' = Holding(h)
         /\ \A h \in Group : k \notin Holding(h)
<1>1. TypeOK
  BY DEF Base, IInv
<1>2. \A h \in Group : k \notin Holding(h)
  BY <1>1, Boxes DEF Taken
<1>3. \A h \in Group : \A s \in Slot : s \in Holding(h)' <=> s \in Holding(h) \/ (s = k /\ h = g)
  BY <1>2 DEF Taken, Holding
<1> QED BY <1>2, <1>3 DEF Holding

\* Each action keeps the invariant.  While motors are initialised no cycle
\* has been healthy.
LEMMA InitMotorLoop == ASSUME LoopIInv, InitMotor PROVE LoopIInv'
<1>1. Base' /\ call' = Idle /\ healthy' = 0
      /\ (started' => pos' = 1)
  <2>1. Base /\ ~ started /\ call = Idle /\ call' = Idle
    BY DEF LoopIInv, InitMotor, CAN_MOTOR_FLG_INIT
  <2>2. healthy' = healthy /\ healthy = 0
    BY <2>1 DEF InitMotor, link, Base, Loop
  <2>3. started' => pos' = 1
    BY DEF InitMotor
  <2> QED BY <2>1, <2>2, <2>3, InitMotorBase
<1>2. Buffers'
  <2>1. started' => Done' = {}
    BY <1>1 DEF Done
  <2> QED BY <1>1, <2>1 DEF Buffers
<1>3. Fires'
  BY <1>1, Calls DEF Fires, Awaits, First, Second
<1> QED BY <1>1, <1>2, <1>3 DEF LoopIInv

\* A command changes the buffer and the flag of one motor.
LEMMA UpdateMotorLoop == ASSUME LoopIInv, UpdateMotor PROVE LoopIInv'
<1> DEFINE x == order[pos]
<1>1. /\ Base /\ Base' /\ started /\ call = Idle /\ call' = First
      /\ pos \in 1..Len(order) /\ pos' = pos + 1 /\ Len(order) \in Nat
      /\ UNCHANGED <<order, started, cycle, healthy, accepted, mbox, applied>>
      /\ cmdBuf' = [cmdBuf EXCEPT ![Dev][x] = cycle]
      /\ flgSet' = [flgSet EXCEPT ![Dev] = @ \cup {x}]
      /\ x \in Motor
  <2>1. Base /\ Base' /\ call = Idle /\ started /\ pos <= Len(order)
    BY UpdateMotorBase DEF LoopIInv, UpdateMotor, CAN_MOTOR_CMD
  <2>2. pos \in 1..Len(order) /\ Len(order) \in Nat /\ x \in Motor
    BY <2>1, Orderly DEF Base
  <2> QED BY <2>1, <2>2 DEF UpdateMotor, CAN_MOTOR_CMD, First, bus, link
<1>2. /\ cmdBuf'[Dev][x] = cycle
      /\ \A m \in Motor \ {x} : cmdBuf'[Dev][m] = cmdBuf[Dev][m]
      /\ flgSet'[Dev] = flgSet[Dev] \cup {x}
  BY <1>1, Calls DEF Base, IInv, TypeOK
<1>3. /\ Done' = Done \cup {x} /\ x \notin Done /\ x \in Present
      /\ Present' = Present /\ Recent' = Recent /\ Done \subseteq Present /\ Present \subseteq Motor
  <2>1. /\ \A i, j \in 1..Len(order) : order[i] = order[j] => i = j
        /\ x \in Present /\ Done \subseteq Present /\ Present \subseteq Motor
    BY <1>1, Orderly DEF Base
  <2>2. Done' = Done \cup {x}
    BY <1>1 DEF Done
  <2>3. x \notin Done
    BY <1>1, <2>1 DEF Done
  <2> QED BY <1>1, <2>1, <2>2, <2>3 DEF Present, Recent, Prior
<1> HIDE DEF x
<1>4. \A g \in Group : Triggers(g)' = Triggers(g) /\ Of(g)' = Of(g) /\ Holding(g)' = Holding(g)
  BY <1>1, <1>3 DEF Triggers, Of, Holding
<1>5. BothGroups' <=> BothGroups
  BY <1>3 DEF BothGroups
<1>6. Buffers'
  <2>1. \A m \in Done' : cmdBuf'[Dev][m] = cycle
    BY <1>1, <1>2, <1>3 DEF LoopIInv, Buffers
  <2>2. healthy >= 1 => \A m \in Present \ Done' : cmdBuf'[Dev][m] = Prior(cycle)
    BY <1>2, <1>3 DEF LoopIInv, Buffers
  <2> QED BY <1>1, <1>3, <2>1, <2>2 DEF Buffers, Prior
<1>7. Fires'
  <2>1. order'[pos' - 1] = x
    BY <1>1 DEF x
  <2>2. ASSUME NEW g \in Group, Triggers(g) # {} PROVE ~ (Triggers(g) \subseteq flgSet[Dev])
    <3>1. Incomplete(Dev, Trigger(g)) /\ flgInit[Dev] = Present
      BY <1>1, Calls, IdleIsNoCall, TwoGroups
           DEF Base, IInv, HighIncomplete, LowIncomplete, Loop
    <3> QED BY <2>2, <3>1 DEF Incomplete, Triggers
  <2> QED BY <1>2, <1>4, <2>1, <2>2 DEF Fires
<1>8. \A g \in Group : Awaits(g)' /\ ~ Awaits(g)
  BY <1>1, Calls DEF Awaits
<1>9. \A g \in Group : Begun(g)' <=> Begun(g)
  BY <1>1, <1>8 DEF Begun
<1>10. ASSUME healthy >= 1 PROVE Early' /\ Fresh' /\ Served'
  <2>1. Early /\ Fresh /\ Served
    BY <1>10 DEF LoopIInv
  <2>2. Early'
    <3>1. (Begun("1T4")' <=> Begun("1T4")) /\ (Begun("5T8")' <=> Begun("5T8"))
      BY <1>9, TwoGroups
    <3>2. mbox' = mbox
      BY <1>1
    <3> QED BY <2>1, <3>1, <3>2 DEF Early
  <2>3. Fresh'
    BY <1>1, <1>3, <1>4, <2>1 DEF Fresh
  <2>4. ASSUME NEW g \in Group PROVE GroupServed(g)'
    <3>1. CASE Unsent(g)
      <4>1. Unsent(g)'
        BY <1>2, <1>3, <1>4, <1>9, <3>1 DEF Unsent
      <4> QED BY <4>1 DEF GroupServed
    <3>2. CASE Sent(g) /\ (BothGroups => Once(g))
      <4>1. Sent(g)'
        BY <1>1, <1>3, <1>4, <3>2 DEF Sent
      <4>2. BothGroups => Once(g)'
        BY <1>1, <1>2, <1>3, <1>4, <3>2 DEF Once
      <4> QED BY <1>5, <4>1, <4>2 DEF GroupServed
    <3> QED BY <2>1, <3>1, <3>2 DEF Served, GroupServed
  <2> QED BY <2>2, <2>3, <2>4 DEF Served
<1> QED BY <1>1, <1>6, <1>7, <1>10 DEF LoopIInv

\* After a cycle with the link up, the mailboxes are empty.
LEMMA StartCycleLoop == ASSUME LoopIInv, StartCycle PROVE LoopIInv'
<1>1. /\ Base /\ Base' /\ started /\ call = Idle /\ call' = Idle
      /\ pos = Len(order) + 1 /\ pos' = 1 /\ cycle' = Next1(cycle)
      /\ healthy' >= 1 => steady
      /\ steady => Drained
      /\ UNCHANGED <<cmdBuf, mbox, order, started>>
  BY StartCycleBase DEF LoopIInv, StartCycle, CycleOver, vars
<1>2. Done = Present /\ Done' = {} /\ Present' = Present
  BY <1>1, Orderly DEF Done, Present, Base
<1>3. Prior(cycle)' = cycle
  BY <1>1, Numbers DEF Base, CycleTypeOK
<1>4. Buffers'
  BY <1>1, <1>2, <1>3 DEF LoopIInv, Buffers
<1>5. Fires'
  BY <1>1, Calls DEF Fires, Awaits
<1>6. ASSUME healthy' >= 1 PROVE Early' /\ Fresh' /\ Served'
  <2>1. \A s \in Slot : mbox'[Dev][s] = Free
    BY <1>1, <1>6 DEF Drained, FreeSlots
  <2>2. \A g \in Group : Holding(g)' = {}
    BY <2>1, Boxes DEF Holding, Free, Group
  <2>3. Early'
    BY <2>1 DEF Early
  <2>4. Fresh'
    BY <2>2 DEF Fresh
  <2>5. \A g \in Group : Unsent(g)'
    BY <1>1, <1>2, <2>2 DEF Unsent, Begun
  <2> QED BY <2>3, <2>4, <2>5 DEF Served, GroupServed
<1> QED BY <1>1, <1>4, <1>5, <1>6 DEF LoopIInv

\* A failure of the cable is the end of the healthy cycles.
LEMMA LinkLoop == ASSUME LoopIInv, LinkFails \/ LinkReturns PROVE LoopIInv'
<1>1. /\ Base' /\ UNCHANGED <<vars, order, pos, started, cycle, accepted>>
      /\ healthy' >= 1 => healthy >= 1
  <2>1. Base' /\ UNCHANGED <<vars, order, pos, started, cycle, accepted>>
    BY LinkBase DEF LoopIInv, LinkFails, LinkReturns, thread
  <2>2. healthy' = 0 \/ healthy' = healthy
    BY DEF LinkFails, LinkReturns
  <2> QED BY <2>1, <2>2
<1>2. /\ Done' = Done /\ Present' = Present /\ Recent' = Recent /\ call' = call
      /\ cmdBuf' = cmdBuf /\ flgSet' = flgSet /\ mbox' = mbox /\ applied' = applied
  BY <1>1 DEF Done, Present, Recent, Prior, vars
<1>3. Buffers'
  BY <1>1, <1>2 DEF LoopIInv, Buffers, Prior
<1>4. Fires'
  BY <1>1, <1>2 DEF LoopIInv, Fires, Awaits, Triggers
<1>5. ASSUME healthy' >= 1 PROVE Early' /\ Fresh' /\ Served'
  <2>1. Early /\ Fresh /\ Served
    BY <1>1, <1>5 DEF LoopIInv
  <2>2. Early'
    BY <1>1, <1>2, <2>1 DEF Early, Begun, Awaits
  <2>3. Fresh'
    BY <1>1, <1>2, <2>1 DEF Fresh, Holding, Of
  <2>4. ASSUME NEW g \in Group PROVE GroupServed(g)'
    <3>1. GroupServed(g) /\ Holding(g)' = Holding(g) /\ (Begun(g)' => Begun(g))
      BY <1>1, <1>2, <2>1 DEF Served, Holding, Begun, Awaits
    <3> QED BY <1>1, <1>2, <3>1, GroupLeft
  <2> QED BY <2>2, <2>3, <2>4 DEF Served
<1> QED BY <1>1, <1>3, <1>4, <1>5 DEF LoopIInv

\* A frame that is delivered leaves its group sent.
LEMMA TransmissionLoop == ASSUME LoopIInv, Transmission PROVE LoopIInv'
<1>1. /\ Base /\ Base' /\ TypeOK
      /\ UNCHANGED <<order, pos, started, cycle, healthy, steady, accepted,
                     cmdBuf, flgInit, flgSet, call>>
      /\ \/ mbox'[Dev] = mbox[Dev] /\ applied'[Dev] = applied[Dev]
         \/ \E k \in Slot : Delivered(k)
  BY TransmissionBase, BusOutcome DEF LoopIInv, Base, IInv
<1>2. Done' = Done /\ Present' = Present /\ Recent' = Recent
  BY <1>1 DEF Done, Present, Recent, Prior
<1>3. Buffers'
  BY <1>1, <1>2 DEF LoopIInv, Buffers, Prior
<1>4. Fires'
  BY <1>1, <1>2 DEF LoopIInv, Fires, Awaits, Triggers
<1>5. \A g \in Group : Begun(g)' <=> Begun(g)
  BY <1>1 DEF Begun, Awaits
<1>6. \A g \in Group : Of(g)' = Of(g) /\ Of(g) \subseteq Motor
  BY <1>1, <1>2, Orderly DEF Of, Base
<1>7. ASSUME healthy >= 1 PROVE Early' /\ Fresh' /\ Served'
  <2>1. Early /\ Fresh /\ Served
    BY <1>7 DEF LoopIInv
  <2>2. CASE mbox'[Dev] = mbox[Dev] /\ applied'[Dev] = applied[Dev]
    <3>1. \A g \in Group : Holding(g)' = Holding(g)
      BY <2>2 DEF Holding
    <3>2. Early'
      BY <1>5, <2>1, <2>2, TwoGroups DEF Early
    <3>3. Fresh'
      BY <1>2, <1>6, <2>1, <2>2, <3>1 DEF Fresh
    <3>4. \A g \in Group : GroupServed(g)'
      BY <1>1, <1>2, <1>5, <2>1, <2>2, <3>1, GroupLeft DEF Served
    <3> QED BY <3>2, <3>3, <3>4 DEF Served
  <2>3. ASSUME NEW k \in Slot, Delivered(k) PROVE Early' /\ Fresh' /\ Served'
    <3>1. PICK g \in Group : k \in Holding(g)
      BY <1>1, <2>3, Boxes DEF Delivered
    <3>2. \A s \in Slot : mbox'[Dev][s] # Free => s # k /\ mbox'[Dev][s] = mbox[Dev][s]
      BY <2>3 DEF Delivered
    <3>3. \A h \in Group : Holding(h)' = Holding(h) \ {k}
      BY <1>1, <2>3, Boxes DEF Delivered, Holding
    <3>4. mbox[Dev][k].group = g /\ \A h \in Group \ {g} : k \notin Holding(h)
      BY <3>1 DEF Holding
    <3>5. Early'
      <4>1. (Begun("1T4")' <=> Begun("1T4")) /\ (Begun("5T8")' <=> Begun("5T8"))
        BY <1>5, TwoGroups
      <4> QED BY <2>1, <3>2, <4>1, <2>3 DEF Early, Delivered
    <3>6. Fresh'
      <4>1. \A h \in Group : \A s \in Holding(h) \ {k} : mbox'[Dev][s] = mbox[Dev][s]
        BY <2>3 DEF Delivered, Holding
      <4> QED BY <1>2, <1>6, <2>1, <3>3, <4>1 DEF Fresh
    <3>7. ASSUME NEW h \in Group, h # g PROVE GroupServed(h)'
      <4>1. Holding(h)' = Holding(h) /\ \A s \in Holding(h) : mbox'[Dev][s] = mbox[Dev][s]
        BY <2>3, <3>3, <3>4, <3>7 DEF Delivered, Holding
      <4>2. \A m \in Of(h) : m \notin Members(g)
        BY <3>7, TwoGroups DEF Of
      <4>3. \A m \in Of(h) : applied'[Dev][m] = applied[Dev][m]
        BY <1>6, <2>3, <3>4, <4>2 DEF Delivered
      <4> QED BY <1>1, <1>2, <1>5, <2>1, <4>1, <4>3, GroupLeft DEF Served
    <3>8. GroupServed(g)'
      <4>1. Sent(g) /\ (BothGroups => Once(g))
        BY <2>1, <3>1 DEF Served, GroupServed, Unsent
      <4>2. \A m \in Of(g) : applied'[Dev][m] = mbox[Dev][k].data[m]
        BY <1>6, <2>3, <3>4 DEF Delivered, Of
      <4>3. Sent(g)'
        BY <1>1, <1>2, <1>6, <2>1, <3>1, <4>1, <4>2 DEF Sent, Fresh
      <4>4. BothGroups => Once(g)'
        <5> SUFFICES ASSUME BothGroups PROVE Once(g)'
          OBVIOUS
        <5>1. Holding(g) = {k}
          BY <3>1, <4>1 DEF Once
        <5>2. Holding(g)' = {}
          BY <3>3, <5>1
        <5>3. \A m \in Of(g) : mbox[Dev][k].data[m] = accepted[m]
          BY <4>1, <5>1 DEF Once
        <5> QED BY <1>1, <1>2, <1>6, <4>1, <4>2, <5>2, <5>3 DEF Once
      <4>5. BothGroups' <=> BothGroups
        BY <1>2 DEF BothGroups
      <4> QED BY <4>3, <4>4, <4>5 DEF GroupServed
    <3> QED BY <3>5, <3>6, <3>7, <3>8 DEF Served
  <2> QED BY <1>1, <2>2, <2>3
<1> QED BY <1>1, <1>3, <1>4, <1>7 DEF LoopIInv

\* Before the first test of a group in a healthy cycle is over there is room.
LEMMA RoomEarly ==
  ASSUME Early, NEW g \in Group, ~ Begun(g)
  PROVE  \E s \in Slot : mbox[Dev][s] = Free
<1>1. 0 \in Slot /\ 1 \in Slot
  BY DEF Slot
<1> QED BY <1>1, TwoGroups DEF Early

\* The first frame of a group in a healthy cycle finds a mailbox free.
LEMMA RoomForFirst ==
  ASSUME Base, healthy >= 1, Early, Served, NEW g \in Group, Unsent(g), Of(g) # {},
         started, pos >= 2,
         (g = "1T4" /\ call = First) \/ (g = "5T8" /\ call = Second)
  PROVE  \E s \in Slot : mbox[Dev][s] = Free
<1>1. 0 \in Slot /\ 1 \in Slot
  BY DEF Slot
<1>2. CASE Triggers(g) = {}
  BY <1>2, RoomEarly DEF Unsent
<1>3. CASE Triggers(g) # {}
  <2>1. BothGroups
    BY <1>3, TwoGroups DEF BothGroups, Triggers, Of
  <2>2. PICK h \in Group : h # g /\ \A e \in Group : e = g \/ e = h
    BY TwoGroups
  <2>3. \A s, t \in Holding(h) : s = t
    BY <2>1 DEF Served, GroupServed, Unsent, Once
  <2>4. SUFFICES ASSUME mbox[Dev][0] # Free, mbox[Dev][1] # Free PROVE FALSE
    BY <1>1
  <2>5. 0 \in Holding(h) /\ 1 \in Holding(h)
    BY <1>1, <2>2, <2>4, Boxes DEF Base, IInv, Unsent
  <2> QED BY <2>3, <2>5
<1> QED BY <1>2, <1>3

\* A test sends the group's frame, once, or leaves it to come.
LEMMA FinishCommandLoop == ASSUME LoopIInv, FinishCommand PROVE LoopIInv'
<1>1. /\ Base /\ Base' /\ started /\ pos >= 2 /\ pos \in 1..Len(order) + 1 /\ Len(order) \in Nat
      /\ UNCHANGED <<order, pos, started, cycle, healthy, steady, cmdBuf, applied>>
  BY FinishCommandBase, TestOutcome, Orderly DEF LoopIInv, Base
<1>2. PICK g \in Group :
        /\ \/ g = "1T4" /\ call = First /\ call' = Second
           \/ g = "5T8" /\ call = Second /\ call' = Idle
        /\ Skipped(g) \/ Lost(g) \/ \E k \in Slot : Taken(g, k)
  BY TestOutcome DEF LoopIInv
<1>3. /\ Done' = Done /\ Present' = Present /\ Recent' = Recent
      /\ Done \subseteq Present /\ Present \subseteq Motor
  BY <1>1, Orderly DEF Done, Present, Recent, Prior, Base
<1>4. /\ \A h \in Group : Of(h)' = Of(h) /\ Of(h) \subseteq Motor /\ Triggers(h)' = Triggers(h)
      /\ BothGroups' <=> BothGroups
  BY <1>3 DEF Of, Triggers, BothGroups
<1>5. flgSet'[Dev] \subseteq flgSet[Dev]
  BY <1>2 DEF Skipped, Lost, Taken
<1>6. /\ Awaits(g) /\ ~ Awaits(g)'
      /\ \A h \in Group : Awaits(h)' => h # g /\ Awaits(h)
      /\ \A h \in Group : Begun(h) /\ h # g => Begun(h)'
      /\ \A h \in Group : h # g /\ ~ Begun(h) => ~ Begun(h)'
  <2>1. CASE g = "1T4" /\ call = First /\ call' = Second
    BY <1>1, <2>1, Calls, TwoGroups DEF Awaits, Begun
  <2>2. CASE g = "5T8" /\ call = Second /\ call' = Idle
    BY <1>1, <2>2, Calls, TwoGroups DEF Awaits, Begun
  <2> QED BY <1>2, <2>1, <2>2
<1>7. Buffers'
  BY <1>1, <1>3 DEF LoopIInv, Buffers, Prior
<1>8. Fires'
  BY <1>1, <1>4, <1>5, <1>6 DEF LoopIInv, Fires
<1>9. ASSUME healthy >= 1 PROVE Early' /\ Fresh' /\ Served'
  <2>1. Early /\ Fresh /\ Served
    BY <1>9 DEF LoopIInv
  <2>2. Early'
    <3>1. Begun("1T4")'
      BY <1>1, <1>2, Calls, TwoGroups DEF Begun, Awaits
    <3>2. g = "5T8" => Begun("5T8")'
      BY <1>1, <1>6 DEF Begun
    <3>3. CASE g = "1T4"
      <4> SUFFICES ASSUME ~ Begun("5T8")', NEW s \in Slot, NEW t \in Slot,
                          mbox'[Dev][s] # Free, mbox'[Dev][t] # Free
                   PROVE  s = t
        BY <3>1 DEF Early
      <4>1. ~ Begun("1T4")
        BY <1>1, <1>6, <3>3 DEF Begun
      <4>2. mbox[Dev][s] = Free /\ mbox[Dev][t] = Free
        BY <2>1, <4>1 DEF Early
      <4>3. PICK k \in Slot : Taken(g, k)
        BY <1>2, <4>2 DEF Skipped, Lost
      <4> QED BY <4>2, <4>3 DEF Taken
    <3> QED BY <1>2, <3>1, <3>2, <3>3 DEF Early
  <2>3. CASE Skipped(g)
    <3>1. \A h \in Group : Holding(h)' = Holding(h)
      BY <2>3 DEF Skipped, Holding
    <3>2. Fresh'
      BY <1>3, <1>4, <2>1, <2>3, <3>1 DEF Fresh, Skipped
    <3>3. ASSUME NEW h \in Group PROVE GroupServed(h)'
      <4>1. Triggers(g) # {}
        BY <2>3 DEF Skipped
      <4>2. Triggers(h) # {} \/ Begun(h) \/ ~ Begun(h)'
        BY <1>6, <4>1
      <4>3. /\ \A s \in Holding(h) : mbox'[Dev][s] = mbox[Dev][s]
            /\ \A m \in Of(h) : accepted'[m] = accepted[m] /\ applied'[Dev][m] = applied[Dev][m]
            /\ flgSet'[Dev] \cap Trigger(h) = flgSet[Dev] \cap Trigger(h)
        BY <1>1, <1>4, <2>3 DEF Skipped
      <4>4. GroupServed(h) /\ UNCHANGED <<order, cycle>>
        BY <1>1, <2>1 DEF Served
      <4> QED BY <1>3, <3>1, <4>2, <4>3, <4>4, GroupLeft
    <3> QED BY <2>2, <3>2, <3>3 DEF Served
  <2>4. CASE Lost(g) \/ \E k \in Slot : Taken(g, k)
    <3>1. /\ Triggers(g) \subseteq flgSet[Dev] /\ flgSet'[Dev] = flgSet[Dev] \cap Members(g)
          /\ \A m \in Motor \ Members(g) : accepted'[m] = accepted[m]
          /\ \A m \in Motor : accepted'[m] \in {accepted[m], cmdBuf[Dev][m]}
      BY <2>4 DEF Lost, Taken
    <3>2. \A h \in Group \ {g} : Holding(h)' = Holding(h)
      BY <1>1, <2>4, TakenBoxes DEF Lost, Holding
    <3>3. \A h \in Group : \A s \in Holding(h) : mbox'[Dev][s] = mbox[Dev][s]
      BY <1>1, <2>4, TakenBoxes DEF Lost, Taken, Holding
    <3>4. \A m \in Present : cmdBuf[Dev][m] \in Recent
      BY <1>1, <1>9 DEF LoopIInv, Buffers, Recent
    <3>5. Fresh'
      <4>1. ASSUME NEW h \in Group, NEW s \in Holding(h)', NEW m \in Of(h)
            PROVE  mbox'[Dev][s].data[m] \in Recent
        <5>1. CASE s \in Holding(h)
          BY <2>1, <3>3, <4>1, <5>1 DEF Fresh
        <5>2. CASE s \notin Holding(h)
          <6>1. PICK k \in Slot : Taken(g, k)
            BY <2>4, <4>1, <5>2 DEF Lost, Holding
          <6>2. h = g /\ s = k
            BY <1>1, <4>1, <5>2, <6>1, TakenBoxes
          <6>3. m \in Present /\ m \in Members(g)
            BY <4>1, <6>2 DEF Of
          <6> QED BY <3>4, <6>1, <6>2, <6>3 DEF Taken
        <5> QED BY <5>1, <5>2
      <4> QED BY <1>3, <1>4, <4>1 DEF Fresh
    <3>6. ASSUME NEW h \in Group, h # g PROVE GroupServed(h)'
      <4>1. Trigger(h) = Members(g) /\ Members(h) \cap Members(g) = {}
        BY <3>6, TwoGroups
      <4>2. flgSet'[Dev] \cap Trigger(h) = flgSet[Dev] \cap Trigger(h)
        BY <3>1, <4>1
      <4>3. \A m \in Of(h) : accepted'[m] = accepted[m] /\ applied'[Dev][m] = applied[Dev][m]
        <5>1. \A m \in Of(h) : m \in Motor \ Members(g)
          BY <1>4, <4>1 DEF Of
        <5> QED BY <1>1, <3>1, <5>1
      <4>4. GroupServed(h) /\ (Begun(h) \/ ~ Begun(h)') /\ UNCHANGED <<order, cycle>>
        BY <1>1, <1>6, <2>1, <3>6 DEF Served
      <4>5. Holding(h)' = Holding(h) /\ \A s \in Holding(h) : mbox'[Dev][s] = mbox[Dev][s]
        BY <3>2, <3>3, <3>6
      <4> QED BY <1>3, <4>2, <4>3, <4>4, <4>5, GroupLeft
    <3>7. GroupServed(g)'
      <4>1. CASE Of(g) = {}
        <5>1. Sent(g)' /\ ~ BothGroups
          BY <1>4, <4>1, TwoGroups DEF Sent, BothGroups, Of
        <5> QED BY <1>4, <5>1 DEF GroupServed
      <4>2. CASE Of(g) # {} /\ Unsent(g)
        <5>1. \E s \in Slot : mbox[Dev][s] = Free
          BY <1>1, <1>2, <1>9, <2>1, <4>2, RoomForFirst
        <5>2. PICK k \in Slot : Taken(g, k)
          BY <2>4, <5>1 DEF Lost
        <5>3. Holding(g)' = {k}
          BY <1>1, <4>2, <5>2, TakenBoxes DEF Unsent
        <5>4. \A m \in Of(g) : m \in Present /\ m \in Members(g) /\ m \in Motor
          BY <1>4 DEF Of
        <5>5. \A m \in Of(g) : /\ accepted'[m] = cmdBuf[Dev][m]
                               /\ mbox'[Dev][k].data[m] = cmdBuf[Dev][m]
          BY <5>2, <5>4 DEF Taken
        <5>6. Sent(g)'
          BY <1>3, <1>4, <3>4, <5>3, <5>4, <5>5 DEF Sent
        <5>7. BothGroups => ~ (Done \cap Trigger(g) \subseteq flgSet'[Dev])
          <6> SUFFICES ASSUME BothGroups PROVE ~ (Done \cap Trigger(g) \subseteq flgSet'[Dev])
            OBVIOUS
          <6>1. Triggers(g) # {}
            BY TwoGroups DEF BothGroups, Triggers
          <6>2. order[pos - 1] \in Triggers(g)
            BY <1>6, <3>1, <6>1 DEF LoopIInv, Fires
          <6>3. order[pos - 1] \in Done
            BY <1>1 DEF Done
          <6>4. flgSet'[Dev] \cap Trigger(g) = {}
            BY <3>1, TwoGroups
          <6> QED BY <6>2, <6>3, <6>4 DEF Triggers
        <5>8. BothGroups => Once(g)'
          BY <1>3, <1>4, <5>3, <5>5, <5>7 DEF Once
        <5> QED BY <1>4, <5>6, <5>8 DEF GroupServed
      <4>3. CASE Sent(g) /\ ~ BothGroups
        <5>1. Holding(g) # {} => Holding(g)' # {}
          BY <1>1, <2>4, TakenBoxes DEF Lost, Holding
        <5>2. \A m \in Of(g) : accepted'[m] \in Recent
          BY <1>4, <3>1, <3>4, <4>3 DEF Sent, Of
        <5>3. Sent(g)'
          BY <1>1, <1>3, <1>4, <4>3, <5>1, <5>2 DEF Sent
        <5> QED BY <1>4, <4>3, <5>3 DEF GroupServed
      <4>4. CASE Once(g)
        <5>1. ~ (Triggers(g) \subseteq flgSet[Dev])
          BY <1>3, <4>4 DEF Once, Triggers
        <5> QED BY <3>1, <5>1
      <4> QED BY <2>1, <4>1, <4>2, <4>3, <4>4 DEF Served, GroupServed
    <3> QED BY <2>2, <3>5, <3>6, <3>7 DEF Served
  <2> QED BY <1>2, <2>3, <2>4
<1> QED BY <1>1, <1>7, <1>8, <1>9 DEF LoopIInv

\* The invariant holds initially.
LEMMA InitLoop == CycleInit => LoopIInv
<1> SUFFICES ASSUME CycleInit PROVE LoopIInv
  OBVIOUS
<1>1. Base /\ call = Idle /\ ~ started /\ healthy = 0
  BY InitBase DEF CycleInit, Init
<1> QED BY <1>1, Calls DEF LoopIInv, Buffers, Fires, Awaits

\* Every step keeps the invariant.
LEMMA NextLoop == LoopIInv /\ [CycleNext]_all => LoopIInv'
<1> SUFFICES ASSUME LoopIInv, [CycleNext]_all PROVE LoopIInv'
  OBVIOUS
<1>1. CASE Thread
  BY <1>1, InitMotorLoop, UpdateMotorLoop, FinishCommandLoop, StartCycleLoop DEF Thread
<1>2. CASE LinkFails \/ LinkReturns \/ Transmission
  BY <1>2, LinkLoop, TransmissionLoop
<1>3. CASE UNCHANGED all
  <2>1. /\ UNCHANGED <<order, pos, started, cycle, healthy, accepted>>
        /\ UNCHANGED <<cmdBuf, flgSet, call, mbox, applied>>
    BY <1>3 DEF all, vars, thread, link
  <2>2. Base'
    BY <1>3, NextBase DEF LoopIInv
  <2>3. Done' = Done /\ Present' = Present /\ Recent' = Recent
    BY <2>1 DEF Done, Present, Recent, Prior
  <2>4. Buffers'
    BY <2>1, <2>3 DEF LoopIInv, Buffers, Prior
  <2>5. Fires'
    BY <2>1, <2>3 DEF LoopIInv, Fires, Awaits, Triggers
  <2>6. ASSUME healthy >= 1 PROVE Early' /\ Fresh' /\ Served'
    <3>1. Early /\ Fresh /\ Served
      BY <2>6 DEF LoopIInv
    <3>2. Early'
      BY <2>1, <3>1 DEF Early, Begun, Awaits
    <3>3. Fresh'
      BY <2>1, <2>3, <3>1 DEF Fresh, Holding, Of
    <3>4. ASSUME NEW g \in Group PROVE GroupServed(g)'
      <4>1. GroupServed(g) /\ Holding(g)' = Holding(g) /\ (Begun(g)' => Begun(g))
        BY <2>1, <3>1 DEF Served, Holding, Begun, Awaits
      <4> QED BY <2>1, <2>3, <4>1, GroupLeft
    <3> QED BY <3>2, <3>3, <3>4 DEF Served
  <2> QED BY <2>1, <2>2, <2>4, <2>5, <2>6 DEF LoopIInv
<1> QED BY <1>1, <1>2, <1>3 DEF CycleNext

\* The inductive invariant of the motor loop holds throughout.
THEOREM LoopInductive == CycleSpec => []LoopIInv
BY InitLoop, NextLoop, PTL DEF CycleSpec

-----------------------------------------------------------------------------
\* When a healthy cycle is over, the frame of every group has been sent in it.
LEMMA CycleServes ==
  ASSUME LoopIInv, CycleOver, healthy >= 1, NEW m \in Present
  PROVE  /\ accepted[m] \in Recent /\ accepted[m] # Zero /\ Age(accepted[m]) <= 1
         /\ \E g \in Group : m \in Of(g) /\ Sent(g) /\ (BothGroups => Once(g))
<1>1. /\ Base /\ Served /\ started /\ call = Idle /\ pos = Len(order) + 1
      /\ Len(order) \in Nat \ {0} /\ Present \subseteq Motor
  BY Orderly DEF LoopIInv, CycleOver, Base
<1>2. PICK g \in Group : m \in Of(g)
  BY <1>1, TwoGroups DEF Of
<1>3. ~ Unsent(g)
  <2>1. Done = Present
    BY <1>1 DEF Done, Present
  <2>2. Incomplete(Dev, Trigger(g)) /\ flgInit[Dev] = Present
    BY <1>1, Calls, IdleIsNoCall, TwoGroups
           DEF Base, IInv, HighIncomplete, LowIncomplete, Loop
  <2>3. Begun(g)
    BY <1>1, Calls DEF Begun, Awaits
  <2> QED BY <2>1, <2>2, <2>3 DEF Unsent, Incomplete, Triggers
<1>4. Sent(g) /\ (BothGroups => Once(g))
  BY <1>1, <1>3 DEF Served, GroupServed
<1>5. accepted[m] \in Recent
  BY <1>2, <1>4 DEF Sent
<1>6. accepted[m] # Zero /\ Age(accepted[m]) <= 1
  BY <1>1, <1>5, RecentAge DEF Base
<1> QED BY <1>2, <1>4, <1>5, <1>6

\* After a cycle with the link up, a mailbox has taken for every motor a
\* set-point of this cycle or the one before: CAN_MOTOR_CMD under any order.
THEOREM CommandsAccepted == CycleSpec => []AcceptedWithinOneCycle
<1>1. LoopIInv => AcceptedWithinOneCycle
  BY CycleServes DEF AcceptedWithinOneCycle
<1> QED BY <1>1, LoopInductive, PTL

\* Once the link has been up for two cycles, every motor runs on a set-point
\* at most a cycle old; with motors in both groups, on the newest one taken.
THEOREM CommandsApplied == CycleSpec => []AppliedFreshAfterRecovery
<1>1. LoopIInv => AppliedFreshAfterRecovery
  <2> SUFFICES ASSUME LoopIInv, CycleOver, healthy = 2, Drained, NEW m \in Present
               PROVE  /\ applied[Dev][m] # Zero /\ Age(applied[Dev][m]) <= 1
                      /\ BothGroups => applied[Dev][m] = accepted[m]
    BY DEF AppliedFreshAfterRecovery
  <2>1. PICK g \in Group : m \in Of(g) /\ Sent(g) /\ (BothGroups => Once(g))
    BY CycleServes
  <2>2. Holding(g) = {}
    BY Boxes DEF Drained, FreeSlots, Holding, LoopIInv, Base, IInv
  <2>3. applied[Dev][m] \in Recent /\ (BothGroups => applied[Dev][m] = accepted[m])
    BY <2>1, <2>2 DEF Sent, Once
  <2> QED BY <2>3, RecentAge DEF LoopIInv, Base
<1> QED BY <1>1, LoopInductive, PTL

-----------------------------------------------------------------------------
\* The group a motor belongs to.
GroupOf(m) == IF m \in Low THEN "1T4" ELSE "5T8"
\* The motors served since the motor at place i was commanded last.
Since(i) == {order[j] : j \in IF i < pos THEN i + 1..pos - 1 ELSE 1..pos - 1 \cup i + 1..Len(order)}
\* The frame with the last command of the motor at place i is still to come:
\* its group's test has not been due since.
Waiting(i) ==
  LET g == GroupOf(order[i]) IN
  IF BothGroups THEN Since(i) \cap Trigger(g) \subseteq flgSet[Dev]
  ELSE IF i = 1 THEN pos = 2 /\ Awaits(g) ELSE i < pos \/ ~ Begun(g)
\* That command was taken by a mailbox, or will be with its frame.
Settled(i) == accepted[order[i]] = cmdBuf[Dev][order[i]] \/ Waiting(i)
\* After a healthy cycle this is so of all served, after two of every motor.
Owed ==
  healthy >= 1 => \A i \in 1..Len(order) : healthy = 2 \/ i < pos => Settled(i)
\* In the second healthy cycle and later, a motor whose frame of the cycle is
\* still on its way runs on the set-point of one or two cycles ago.
Aged ==
  healthy = 2 /\ BothGroups =>
    \A g \in Group : \A m \in Of(g) :
      Unsent(g) \/ Holding(g) # {} => applied[Dev][m] \in {Prior(cycle), Prior(Prior(cycle))}

\* Every motor of the order is in its group's frame.
LEMMA TheirGroup ==
  ASSUME CycleTypeOK, NEW i \in 1..Len(order)
  PROVE  /\ GroupOf(order[i]) \in Group /\ order[i] \in Of(GroupOf(order[i]))
         /\ order[i] \in Present /\ order[i] \in Motor
         /\ order[i] \in Members(GroupOf(order[i]))
<1>1. order[i] \in Present /\ order[i] \in Motor
  BY Orderly
<1> QED BY <1>1, TwoGroups DEF GroupOf, Of

\* What changes neither the buffer nor the flags and the mailboxes' takings.
LEMMA OwedLeft ==
  ASSUME LoopIInv, Owed, healthy' >= 1 => healthy' = healthy,
         UNCHANGED <<order, pos, call, cmdBuf, flgSet, accepted>>
  PROVE  Owed'
<1>1. (BothGroups' <=> BothGroups) /\ \A g \in Group : (Begun(g)' <=> Begun(g))
  BY DEF BothGroups, Present, Begun, Awaits
<1>2. ASSUME NEW i \in 1..Len(order), Waiting(i) PROVE Waiting(i)'
  <2>1. GroupOf(order[i])' = GroupOf(order[i]) /\ GroupOf(order[i]) \in Group
    BY TheirGroup DEF LoopIInv, Base, GroupOf
  <2>2. Since(i)' = Since(i)
    BY DEF Since
  <2> QED BY <1>1, <1>2, <2>1, <2>2 DEF Waiting, Awaits
<1> QED BY <1>2 DEF Owed, Settled

\* Each action keeps Owed.  A new command waits for its frame.
LEMMA UpdateMotorOwed == ASSUME LoopIInv, Owed, UpdateMotor PROVE Owed'
<1> DEFINE x == order[pos]
<1>1. /\ Base /\ CycleTypeOK /\ call = Idle /\ call' = First /\ started
      /\ pos \in 1..Len(order) /\ pos' = pos + 1 /\ Len(order) \in Nat
      /\ \A i, j \in 1..Len(order) : order[i] = order[j] => i = j
      /\ UNCHANGED <<order, healthy, accepted>>
      /\ cmdBuf' = [cmdBuf EXCEPT ![Dev][x] = cycle]
      /\ flgSet' = [flgSet EXCEPT ![Dev] = @ \cup {x}]
  <2>1. Base /\ CycleTypeOK /\ call = Idle /\ started /\ pos <= Len(order)
    BY DEF LoopIInv, Base, UpdateMotor, CAN_MOTOR_CMD
  <2>2. pos \in 1..Len(order) /\ Len(order) \in Nat
        /\ \A i, j \in 1..Len(order) : order[i] = order[j] => i = j
    BY <2>1, Orderly
  <2> QED BY <2>1, <2>2 DEF UpdateMotor, CAN_MOTOR_CMD, First, bus, link
<1>2. /\ \A m \in Motor \ {x} : cmdBuf'[Dev][m] = cmdBuf[Dev][m]
      /\ flgSet'[Dev] = flgSet[Dev] \cup {x}
  BY <1>1, Calls DEF Base, IInv, TypeOK
<1>3. BothGroups' <=> BothGroups
  BY <1>1 DEF BothGroups, Present
<1>4. \A g \in Group : Awaits(g)' /\ ~ Awaits(g) /\ (Begun(g)' <=> Begun(g))
  BY <1>1, Calls DEF Awaits, Begun
<1>5. SUFFICES ASSUME healthy >= 1, NEW i \in 1..Len(order), healthy = 2 \/ i < pos + 1
               PROVE  Settled(i)'
  BY <1>1 DEF Owed
<1>6. /\ GroupOf(order[i])' = GroupOf(order[i]) /\ GroupOf(order[i]) \in Group /\ order[i] \in Motor
  BY <1>1, TheirGroup DEF GroupOf
<1>7. CASE i = pos
  <2>1. Since(i)' = {}
    BY <1>1, <1>7 DEF Since
  <2>2. Waiting(i)'
    BY <1>1, <1>3, <1>4, <1>6, <1>7, <2>1 DEF Waiting
  <2> QED BY <2>2 DEF Settled
<1>8. CASE i # pos
  <2>1. Settled(i)
    BY <1>1, <1>5, <1>8 DEF Owed
  <2>2. order[i] # x
    BY <1>1, <1>8
  <2>3. Since(i)' \subseteq Since(i) \cup {x}
    BY <1>1, <1>8 DEF Since
  <2>4. Waiting(i) => Waiting(i)'
    <3> SUFFICES ASSUME Waiting(i) PROVE Waiting(i)'
      OBVIOUS
    <3>1. CASE BothGroups
      BY <1>1, <1>2, <1>3, <1>6, <2>3, <3>1 DEF Waiting
    <3>2. CASE ~ BothGroups
      BY <1>1, <1>3, <1>4, <1>6, <1>8, <3>2 DEF Waiting
    <3> QED BY <3>1, <3>2
  <2> QED BY <1>1, <1>2, <1>6, <2>1, <2>2, <2>4 DEF Settled
<1> QED BY <1>7, <1>8

\* A new cycle owes what the last one owed.
LEMMA StartCycleOwed == ASSUME LoopIInv, Owed, StartCycle PROVE Owed'
<1>1. /\ CycleTypeOK /\ call = Idle /\ call' = Idle
      /\ pos = Len(order) + 1 /\ pos' = 1 /\ Len(order) \in Nat
      /\ healthy' = 2 => healthy >= 1
      /\ UNCHANGED <<order, accepted, cmdBuf, flgSet>>
  <2>1. CycleTypeOK /\ Len(order) \in Nat /\ healthy \in 0..2
    BY Orderly DEF LoopIInv, Base, CycleTypeOK
  <2> QED BY <2>1 DEF StartCycle, CycleOver, vars
<1>2. BothGroups' <=> BothGroups
  BY <1>1 DEF BothGroups, Present
<1>3. SUFFICES ASSUME NEW i \in 1..Len(order), healthy' = 2 PROVE Settled(i)'
  BY <1>1 DEF Owed
<1>4. Settled(i)
  BY <1>1, <1>3 DEF Owed
<1>5. GroupOf(order[i])' = GroupOf(order[i]) /\ GroupOf(order[i]) \in Group
  BY <1>1, TheirGroup DEF GroupOf
<1>6. Since(i)' = Since(i)
  BY <1>1 DEF Since
<1>7. ~ Awaits(GroupOf(order[i])) /\ ~ Begun(GroupOf(order[i]))'
  BY <1>1, Calls DEF Awaits, Begun
<1>8. Waiting(i) => Waiting(i)'
  <2> SUFFICES ASSUME Waiting(i) PROVE Waiting(i)'
    OBVIOUS
  <2>1. CASE BothGroups
    BY <1>1, <1>2, <1>5, <1>6, <2>1 DEF Waiting
  <2>2. CASE ~ BothGroups
    BY <1>1, <1>2, <1>5, <1>7, <2>2 DEF Waiting
  <2> QED BY <2>1, <2>2
<1> QED BY <1>1, <1>4, <1>8 DEF Settled

\* A frame is not lost while its group is not yet served.
LEMMA FinishCommandOwed == ASSUME LoopIInv, Owed, FinishCommand PROVE Owed'
<1>1. /\ Base /\ CycleTypeOK /\ started /\ pos >= 2
      /\ UNCHANGED <<order, pos, started, healthy, cmdBuf>>
  BY TestOutcome DEF LoopIInv, Base
<1>2. PICK g \in Group :
        /\ \/ g = "1T4" /\ call = First /\ call' = Second
           \/ g = "5T8" /\ call = Second /\ call' = Idle
        /\ Skipped(g) \/ Lost(g) \/ \E k \in Slot : Taken(g, k)
  BY TestOutcome DEF LoopIInv
<1>3. (BothGroups' <=> BothGroups) /\ \A i \in 1..Len(order) : Since(i)' = Since(i)
  BY <1>1 DEF BothGroups, Present, Since
<1>4. /\ Awaits(g)
      /\ \A h \in Group \ {g} : (Awaits(h)' <=> Awaits(h)) /\ (Begun(h)' <=> Begun(h))
  <2>1. \A h \in Group \ {g} : Awaits(h)' <=> Awaits(h)
    BY <1>2, Calls, TwoGroups DEF Awaits
  <2> QED BY <1>1, <1>2, <2>1 DEF Awaits, Begun
<1>5. SUFFICES ASSUME healthy >= 1, NEW i \in 1..Len(order), healthy = 2 \/ i < pos
               PROVE  Settled(i)'
  BY <1>1 DEF Owed
<1>6. Settled(i) /\ Early /\ Served
  BY <1>1, <1>5 DEF Owed, LoopIInv
<1> DEFINE m == order[i]
           h == GroupOf(m)
<1>7. /\ GroupOf(m)' = h /\ h \in Group /\ m \in Motor /\ m \in Present /\ m \in Members(h)
      /\ m \in Of(h)
  BY <1>1, TheirGroup DEF GroupOf
<1>8. CASE h # g
  <2>1. m \notin Members(g) /\ Trigger(h) = Members(g)
    BY <1>7, <1>8, TwoGroups
  <2>2. accepted'[m] = accepted[m]
    BY <1>2, <1>7, <2>1 DEF Skipped, Lost, Taken
  <2>3. flgSet'[Dev] \cap Trigger(h) = flgSet[Dev] \cap Trigger(h)
    BY <1>2, <2>1 DEF Skipped, Lost, Taken
  <2>4. Waiting(i) => Waiting(i)'
    <3> SUFFICES ASSUME Waiting(i) PROVE Waiting(i)'
      OBVIOUS
    <3>1. CASE BothGroups
      <4>1. Since(i) \cap Trigger(h) \subseteq flgSet[Dev]
        BY <3>1 DEF Waiting
      <4>2. Since(i)' \cap Trigger(h) \subseteq flgSet'[Dev]
        BY <1>3, <2>3, <4>1
      <4> QED BY <1>1, <1>3, <1>7, <3>1, <4>2 DEF Waiting
    <3>2. CASE ~ BothGroups
      BY <1>1, <1>3, <1>4, <1>7, <1>8, <3>2 DEF Waiting
    <3> QED BY <3>1, <3>2
  <2> QED BY <1>1, <1>6, <2>2, <2>4 DEF Settled
<1>9. CASE h = g
  <2>1. CASE \E k \in Slot : Taken(g, k)
    <3>1. accepted'[m] = cmdBuf[Dev][m]
      BY <1>7, <1>9, <2>1 DEF Taken
    <3> QED BY <1>1, <3>1 DEF Settled
  <2>2. CASE Skipped(g)
    <3>1. BothGroups
      BY <1>7, <1>9, <2>2, TwoGroups DEF Skipped, Triggers, BothGroups
    <3>2. Waiting(i) => Waiting(i)'
      BY <1>1, <1>3, <1>7, <2>2, <3>1 DEF Waiting, Skipped
    <3>3. accepted'[m] = accepted[m]
      BY <1>7, <2>2 DEF Skipped
    <3> QED BY <1>1, <1>6, <3>2, <3>3 DEF Settled
  <2>3. CASE Lost(g)
    <3>1. ~ Unsent(g)
      <4> SUFFICES ASSUME Unsent(g) PROVE FALSE
        OBVIOUS
      <4>1. \E s \in Slot : mbox[Dev][s] = Free
        BY <1>1, <1>2, <1>5, <1>6, <1>7, <1>9, RoomForFirst
      <4> QED BY <2>3, <4>1 DEF Lost
    <3>2. ~ BothGroups
      <4> SUFFICES ASSUME BothGroups PROVE FALSE
        OBVIOUS
      <4>1. Once(g)
        BY <1>6, <3>1 DEF Served, GroupServed
      <4>2. Done \subseteq Present
        BY <1>1, Orderly
      <4> QED BY <2>3, <4>1, <4>2 DEF Once, Lost, Triggers
    <3>3. Begun(g)
      <4> SUFFICES ASSUME ~ Begun(g) PROVE FALSE
        OBVIOUS
      <4>1. \E s \in Slot : mbox[Dev][s] = Free
        BY <1>6, TwoGroups, RoomEarly
      <4> QED BY <2>3, <4>1 DEF Lost
    <3>4. Waiting(i) => i # 1 /\ i < pos
      BY <1>4, <1>9, <3>2, <3>3 DEF Waiting, Begun
    <3>5. Waiting(i) => Waiting(i)'
      BY <1>1, <1>3, <3>2, <3>4 DEF Waiting
    <3>6. accepted'[m] = accepted[m]
      BY <1>7, <2>3 DEF Lost
    <3> QED BY <1>1, <1>6, <3>5, <3>6 DEF Settled
  <2> QED BY <1>2, <2>1, <2>2, <2>3
<1> QED BY <1>8, <1>9

\* Every step keeps Owed.
LEMMA NextOwed == LoopIInv /\ Owed /\ [CycleNext]_all => Owed'
<1> SUFFICES ASSUME LoopIInv, Owed, [CycleNext]_all PROVE Owed'
  OBVIOUS
<1>1. CASE InitMotor
  <2>1. healthy' = 0
    BY <1>1 DEF InitMotor, link, LoopIInv, Base, Loop
  <2> QED BY <2>1 DEF Owed
<1>2. CASE LinkFails \/ LinkReturns \/ Transmission \/ UNCHANGED all
  <2>1. UNCHANGED <<order, pos, call, cmdBuf, flgSet, accepted>>
    BY <1>2, BusOutcome DEF LinkFails, LinkReturns, LoopIInv, all, vars, thread
  <2>2. healthy' = 0 \/ healthy' = healthy
    BY <1>2, BusOutcome DEF LinkFails, LinkReturns, LoopIInv, all, link
  <2> QED BY <2>1, <2>2, OwedLeft
<1>3. CASE UpdateMotor \/ FinishCommand \/ StartCycle
  BY <1>3, UpdateMotorOwed, FinishCommandOwed, StartCycleOwed
<1> QED BY <1>1, <1>2, <1>3 DEF CycleNext, Thread

\* Once the link was up for two whole cycles, no set-point is overwritten in the
\* buffer before a mailbox took it: between two commands to a motor every other
\* one is commanded, so its group is triggered.  It is not that every frame finds
\* a mailbox: with motors of one group only each command queues one, some find
\* the mailboxes full and are dropped, and a later one carries the set-point,
\* before the motor's next command.
THEOREM NoCommandLost == CycleSpec => NoCommandLostOnHealthyLink
<1>1. CycleInit => Owed
  BY DEF CycleInit, Owed
<1>2. LoopIInv /\ Owed /\ [CycleNext]_all =>
        [\A m \in Present : healthy = 2 /\ steady /\ cmdBuf'[Dev][m] # cmdBuf[Dev][m]
           => accepted[m] = cmdBuf[Dev][m]]_all
  <2> SUFFICES ASSUME LoopIInv, Owed, CycleNext, NEW m \in Present, healthy = 2,
                      cmdBuf'[Dev][m] # cmdBuf[Dev][m]
               PROVE  accepted[m] = cmdBuf[Dev][m]
    OBVIOUS
  <2>1. Base /\ CycleTypeOK /\ Present \subseteq Motor /\ Len(order) \in Nat
        /\ \A i, j \in 1..Len(order) : order[i] = order[j] => i = j
    BY Orderly DEF LoopIInv, Base
  <2>2. UpdateMotor
    <3>1. InitMotor => cmdBuf' = cmdBuf
      BY DEF InitMotor, CAN_MOTOR_FLG_INIT
    <3>2. FinishCommand \/ Transmission => cmdBuf' = cmdBuf
      BY <2>1, TestOutcome, BusOutcome
    <3>3. StartCycle \/ LinkFails \/ LinkReturns => cmdBuf' = cmdBuf
      BY DEF StartCycle, LinkFails, LinkReturns, vars
    <3> QED BY <3>1, <3>2, <3>3 DEF CycleNext, Thread
  <2>3. /\ call = Idle /\ started /\ pos \in 1..Len(order)
        /\ cmdBuf' = [cmdBuf EXCEPT ![Dev][order[pos]] = cycle]
    BY <2>1, <2>2, Orderly DEF UpdateMotor, CAN_MOTOR_CMD
  <2>4. m = order[pos]
    <3> SUFFICES ASSUME m # order[pos] PROVE FALSE
      OBVIOUS
    <3>1. m \in Motor /\ cmdBuf \in [Device -> [Motor -> Spd]]
      BY <2>1 DEF CycleTypeOK, TypeOK
    <3> QED BY <2>3, <3>1, Calls
  <2>5. Settled(pos)
    BY <2>3 DEF Owed
  <2>6. ~ Waiting(pos)
    <3> DEFINE g == GroupOf(order[pos])
    <3>1. g \in Group /\ order[pos] \in Members(g)
      BY <2>1, <2>3, TheirGroup
    <3>2. ~ Awaits(g)
      BY <2>3, Calls DEF Awaits
    <3>3. CASE ~ BothGroups
      BY <2>3, <3>2, <3>3 DEF Waiting, Begun
    <3>4. CASE BothGroups
      <4>1. Since(pos) = Present \ {order[pos]}
        <5>1. Since(pos) = {order[j] : j \in 1..pos - 1 \cup pos + 1..Len(order)}
          BY <2>3 DEF Since
        <5> QED BY <2>1, <2>3, <5>1 DEF Present
      <4>2. order[pos] \notin Trigger(g)
        BY <3>1, TwoGroups
      <4>3. Triggers(g) # {}
        BY <3>1, <3>4, TwoGroups DEF BothGroups, Triggers
      <4>4. Incomplete(Dev, Trigger(g)) /\ flgInit[Dev] = Present
        BY <2>1, <2>3, <3>1, Calls, IdleIsNoCall, TwoGroups
           DEF Base, IInv, HighIncomplete, LowIncomplete, Loop
      <4>5. ~ (Triggers(g) \subseteq flgSet[Dev])
        BY <4>3, <4>4 DEF Incomplete, Triggers
      <4>6. ~ (Since(pos) \cap Trigger(g) \subseteq flgSet[Dev])
        BY <4>1, <4>2, <4>5 DEF Triggers
      <4> QED BY <3>4, <4>6 DEF Waiting
    <3> QED BY <3>3, <3>4
  <2> QED BY <2>4, <2>5, <2>6 DEF Settled
<1> QED BY <1>1, <1>2, NextOwed, LoopInductive, PTL DEF CycleSpec, NoCommandLostOnHealthyLink

-----------------------------------------------------------------------------
\* How old a set-point of the last three cycles is.
LEMMA Ages ==
  ASSUME CycleTypeOK
  PROVE  /\ Age(cycle) = 0 /\ Age(Prior(cycle)) = 1 /\ Age(Prior(Prior(cycle))) = 2
         /\ cycle # Prior(cycle)
<1>1. cycle \in 1..CycleMod /\ CycleMod \in Nat /\ CycleMod >= 3
  BY Numbers DEF CycleTypeOK
<1> QED BY <1>1 DEF Prior, Age

\* A group whose frame is still to come is one whose frame was to come.
LEMMA AgedLeft ==
  ASSUME Aged, UNCHANGED <<order, cycle>>, healthy' = 2 => healthy = 2,
         BothGroups => \A g \in Group : \A m \in Of(g) :
           /\ Unsent(g)' \/ Holding(g)' # {} => Unsent(g) \/ Holding(g) # {}
           /\ Unsent(g)' \/ Holding(g)' # {} => applied'[Dev][m] = applied[Dev][m]
  PROVE  Aged'
<1>1. Present' = Present
  BY DEF Present
<1>2. (BothGroups' <=> BothGroups) /\ \A g \in Group : Of(g)' = Of(g)
  BY <1>1 DEF BothGroups, Of
<1>3. Prior(cycle)' = Prior(cycle) /\ Prior(Prior(cycle))' = Prior(Prior(cycle))
  BY DEF Prior
<1> QED BY <1>2, <1>3 DEF Aged

\* Each action keeps Aged.  A command puts no frame in a mailbox.
LEMMA UpdateMotorAged == ASSUME LoopIInv, Aged, UpdateMotor PROVE Aged'
<1> DEFINE x == order[pos]
<1>1. /\ Base /\ pos \in 1..Len(order) /\ pos' = pos + 1 /\ Len(order) \in Nat
      /\ UNCHANGED <<order, cycle, healthy, mbox, applied>>
      /\ flgSet' = [flgSet EXCEPT ![Dev] = @ \cup {x}]
      /\ \A i, j \in 1..Len(order) : order[i] = order[j] => i = j
  <2>1. Base /\ pos <= Len(order)
    BY DEF LoopIInv, UpdateMotor
  <2>2. pos \in 1..Len(order) /\ Len(order) \in Nat
        /\ \A i, j \in 1..Len(order) : order[i] = order[j] => i = j
    BY <2>1, Orderly DEF Base
  <2> QED BY <2>1, <2>2 DEF UpdateMotor, CAN_MOTOR_CMD, bus, link
<1>2. flgSet'[Dev] = flgSet[Dev] \cup {x}
  BY <1>1, Calls DEF Base, IInv, TypeOK
<1>3. Done' = Done \cup {x} /\ x \notin Done
  BY <1>1 DEF Done
<1>4. \A g \in Group : Holding(g)' = Holding(g)
  BY <1>1 DEF Holding
<1>5. ASSUME BothGroups, NEW g \in Group, Unsent(g)' PROVE Unsent(g)
  <2>1. Triggers(g) # {}
    BY <1>5, TwoGroups DEF BothGroups, Triggers
  <2>2. Done' \cap Trigger(g) \subseteq flgSet'[Dev]
    BY <1>5 DEF Unsent
  <2>3. Done \cap Trigger(g) \subseteq flgSet[Dev]
    BY <1>2, <1>3, <2>2
  <2> QED BY <1>4, <1>5, <2>1, <2>3 DEF Unsent
<1> HIDE DEF x
<1> QED BY <1>1, <1>4, <1>5, AgedLeft

\* A test puts only a frame that was to come into a mailbox.
LEMMA FinishCommandAged == ASSUME LoopIInv, Aged, FinishCommand PROVE Aged'
<1>1. Base /\ UNCHANGED <<order, pos, cycle, healthy, applied>>
  BY TestOutcome DEF LoopIInv
<1>2. PICK g \in Group : Skipped(g) \/ Lost(g) \/ \E k \in Slot : Taken(g, k)
  BY TestOutcome DEF LoopIInv
<1>3. Done' = Done
  BY <1>1 DEF Done
<1>4. flgSet'[Dev] \subseteq flgSet[Dev]
  BY <1>2 DEF Skipped, Lost, Taken
<1>5. \A h \in Group : Holding(h) \subseteq Holding(h)'
  BY <1>1, <1>2, TakenBoxes DEF Skipped, Lost, Holding
<1>6. ASSUME BothGroups, NEW h \in Group, Unsent(h)' PROVE Unsent(h)
  <2>1. Triggers(h) # {}
    BY <1>6, TwoGroups DEF BothGroups, Triggers
  <2>2. Done \cap Trigger(h) \subseteq flgSet[Dev] /\ Holding(h) = {}
    BY <1>3, <1>4, <1>5, <1>6 DEF Unsent
  <2> QED BY <2>1, <2>2 DEF Unsent
<1>7. ASSUME BothGroups, healthy = 2, NEW h \in Group, Holding(h)' # {}
      PROVE  Unsent(h) \/ Holding(h) # {}
  <2> SUFFICES ASSUME Holding(h) = {} PROVE Unsent(h)
    OBVIOUS
  <2>1. PICK k \in Slot : Taken(g, k)
    BY <1>2, <1>7 DEF Skipped, Lost, Holding
  <2>2. h = g
    BY <1>1, <1>7, <2>1, TakenBoxes
  <2>3. Served /\ Done \subseteq Present
    BY <1>1, <1>7, Orderly DEF LoopIInv, Base
  <2>4. ~ Once(g)
    BY <2>1, <2>3 DEF Once, Taken, Triggers
  <2> QED BY <1>7, <2>2, <2>3, <2>4 DEF Served, GroupServed
<1>8. CASE healthy = 2
  BY <1>1, <1>6, <1>7, <1>8, AgedLeft
<1>9. CASE healthy # 2
  BY <1>1, <1>9 DEF Aged
<1> QED BY <1>8, <1>9

\* A delivery leaves no frame of its group.
LEMMA TransmissionAged == ASSUME LoopIInv, Aged, Transmission PROVE Aged'
<1>1. /\ Base /\ TypeOK /\ Base'
      /\ UNCHANGED <<order, pos, cycle, healthy, flgSet, accepted, call>>
      /\ \/ mbox'[Dev] = mbox[Dev] /\ applied'[Dev] = applied[Dev]
         \/ \E k \in Slot : Delivered(k)
  BY BusOutcome, TransmissionBase DEF LoopIInv, Base, IInv
<1>2. Done' = Done /\ (BothGroups' <=> BothGroups)
  BY <1>1 DEF Done, BothGroups, Present
<1>3. ASSUME NEW h \in Group, Unsent(h)', Holding(h) = {} PROVE Unsent(h)
  BY <1>1, <1>2, <1>3 DEF Unsent, Triggers, Present, Begun, Awaits
<1>4. \A h \in Group : \A m \in Of(h) : m \in Motor /\ m \in Members(h)
  BY <1>1, Orderly DEF Of, Base
<1>5. CASE mbox'[Dev] = mbox[Dev] /\ applied'[Dev] = applied[Dev]
  <2>1. \A h \in Group : Holding(h)' = Holding(h)
    BY <1>5 DEF Holding
  <2> QED BY <1>1, <1>3, <1>5, <2>1, AgedLeft
<1>6. ASSUME NEW k \in Slot, Delivered(k), healthy = 2 PROVE Aged'
  <2>1. PICK g \in Group : k \in Holding(g)
    BY <1>1, <1>6, Boxes DEF Delivered
  <2>2. \A h \in Group : Holding(h)' = Holding(h) \ {k}
    BY <1>1, <1>6, Boxes DEF Delivered, Holding
  <2>3. mbox[Dev][k].group = g
    BY <2>1 DEF Holding
  <2>4. ASSUME NEW h \in Group, NEW m \in Of(h), h # g PROVE applied'[Dev][m] = applied[Dev][m]
    <3>1. m \notin Members(g) /\ m \in Motor
      BY <1>4, <2>4, TwoGroups
    <3> QED BY <1>6, <2>3, <3>1 DEF Delivered
  <2>5. ASSUME BothGroups PROVE ~ Unsent(g)' /\ Holding(g)' = {}
    <3>1. Once(g)
      BY <1>6, <2>1, <2>5 DEF LoopIInv, Served, GroupServed, Unsent
    <3>2. Holding(g)' = {}
      BY <2>1, <2>2, <3>1 DEF Once
    <3> QED BY <1>1, <1>2, <3>1, <3>2 DEF Once, Unsent
  <2> QED BY <1>1, <1>3, <2>2, <2>4, <2>5, AgedLeft
<1>7. CASE healthy # 2
  BY <1>1, <1>7 DEF Aged
<1> QED BY <1>1, <1>5, <1>6, <1>7

\* At the end of a healthy cycle every motor has a recent set-point.
LEMMA StartCycleAged == ASSUME LoopIInv, Aged, StartCycle PROVE Aged'
<1> SUFFICES ASSUME healthy' = 2, BothGroups, NEW g \in Group, NEW m \in Of(g)
             PROVE  applied'[Dev][m] \in {Prior(cycle'), Prior(Prior(cycle'))}
  <2>1. Present' = Present
    BY DEF StartCycle, Present
  <2>2. (BothGroups' <=> BothGroups) /\ \A g \in Group : Of(g)' = Of(g)
    BY <2>1 DEF BothGroups, Of
  <2>3. Prior(cycle)' = Prior(cycle') /\ Prior(Prior(cycle))' = Prior(Prior(cycle'))
    BY DEF Prior
  <2> QED BY <2>2, <2>3 DEF Aged
<1>1. /\ CycleOver /\ healthy >= 1 /\ steady /\ Drained /\ cycle' = Next1(cycle)
      /\ applied' = applied /\ cycle \in 1..CycleMod /\ TypeOK
  <2>1. healthy \in 0..2 /\ cycle \in 1..CycleMod /\ TypeOK
    BY DEF LoopIInv, Base, CycleTypeOK
  <2>2. steady /\ healthy >= 1
    BY <2>1 DEF StartCycle
  <2> QED BY <2>1, <2>2 DEF StartCycle, vars
<1>2. m \in Present
  BY DEF Of
<1>3. PICK h \in Group : m \in Of(h) /\ Sent(h)
  BY <1>1, <1>2, CycleServes
<1>4. Holding(h) = {}
  BY <1>1, Boxes DEF Drained, FreeSlots, Holding
<1>5. applied[Dev][m] \in Recent
  BY <1>3, <1>4 DEF Sent
<1>6. Prior(cycle') = cycle
  BY <1>1, Numbers
<1> QED BY <1>1, <1>5, <1>6 DEF Recent

\* Every step keeps Aged.
LEMMA NextAged == LoopIInv /\ Aged /\ [CycleNext]_all => Aged'
<1> SUFFICES ASSUME LoopIInv, Aged, [CycleNext]_all PROVE Aged'
  OBVIOUS
<1>1. CASE InitMotor
  <2>1. healthy' = 0
    BY <1>1 DEF InitMotor, link, LoopIInv, Base, Loop
  <2> QED BY <2>1 DEF Aged
<1>2. CASE LinkFails \/ LinkReturns \/ UNCHANGED all
  <2>1. UNCHANGED <<order, cycle, pos, call, flgSet, mbox, applied>>
    BY <1>2 DEF LinkFails, LinkReturns, all, vars, thread
  <2>2. healthy' = 0 \/ healthy' = healthy
    BY <1>2 DEF LinkFails, LinkReturns, all, link
  <2>3. \A g \in Group : Holding(g)' = Holding(g) /\ (Unsent(g)' => Unsent(g))
    BY <2>1 DEF Holding, Unsent, Done, Triggers, Present, Begun, Awaits
  <2> QED BY <2>1, <2>2, <2>3, AgedLeft
<1>3. CASE UpdateMotor \/ FinishCommand \/ StartCycle \/ Transmission
  BY <1>3, UpdateMotorAged, FinishCommandAged, StartCycleAged, TransmissionAged
<1> QED BY <1>1, <1>2, <1>3 DEF CycleNext, Thread

\* In a healthy cycle a motor gets one frame, which is newer than what it has.
THEOREM InOrder == CycleSpec => InOrderOnHealthyLink
<1>1. CycleInit => Aged
  BY DEF CycleInit, Aged
<1>2. LoopIInv /\ Aged /\ [CycleNext]_all =>
        [\A m \in Present :
           BothGroups /\ healthy = 2 /\ steady /\ applied'[Dev][m] # applied[Dev][m]
             => Age(applied'[Dev][m]) < Age(applied[Dev][m])]_all
  <2> SUFFICES ASSUME LoopIInv, Aged, CycleNext, NEW m \in Present, BothGroups, healthy = 2,
                      applied'[Dev][m] # applied[Dev][m]
               PROVE  Age(applied'[Dev][m]) < Age(applied[Dev][m])
    OBVIOUS
  <2>1. Base /\ CycleTypeOK /\ TypeOK /\ Present \subseteq Motor
    BY Orderly DEF LoopIInv, Base, IInv
  <2>2. Transmission
    <3>1. InitMotor \/ UpdateMotor => applied' = applied
      BY DEF InitMotor, UpdateMotor, CAN_MOTOR_FLG_INIT, CAN_MOTOR_CMD, bus
    <3>2. FinishCommand => applied' = applied
      BY <2>1, TestOutcome
    <3>3. StartCycle \/ LinkFails \/ LinkReturns => applied' = applied
      BY DEF StartCycle, LinkFails, LinkReturns, vars
    <3> QED BY <3>1, <3>2, <3>3 DEF CycleNext, Thread
  <2>3. PICK k \in Slot : Delivered(k)
    BY <2>1, <2>2, BusOutcome
  <2>4. PICK g \in Group : k \in Holding(g)
    BY <2>1, <2>3, Boxes DEF Delivered
  <2>5. m \in Of(g) /\ applied'[Dev][m] = mbox[Dev][k].data[m]
    BY <2>1, <2>3, <2>4 DEF Delivered, Holding, Of
  <2>6. applied'[Dev][m] \in {cycle, Prior(cycle)}
    BY <2>4, <2>5 DEF LoopIInv, Fresh, Recent
  <2>7. applied[Dev][m] \in {Prior(cycle), Prior(Prior(cycle))}
    BY <2>4, <2>5 DEF Aged
  <2> QED BY <2>1, <2>6, <2>7, Ages
<1> QED BY <1>1, <1>2, NextAged, LoopInductive, PTL DEF CycleSpec, InOrderOnHealthyLink
=============================================================================
