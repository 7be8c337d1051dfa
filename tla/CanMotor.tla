------------------------------ MODULE CanMotor ------------------------------
(***************************************************************************)
(* The motor command path of src/Codes/src/bsp/bsp_can.c and the part of   *)
(* the bxCAN driver it ends in.                                            *)
(*                                                                         *)
(* A controller (CAN1 or CAN2) serves eight motors in two groups: motors   *)
(* 1 to 4 share frame 0x200 ("1T4"), motors 5 to 8 share frame 0x1FF       *)
(* ("5T8").  CAN_MOTOR_FLG_INIT marks a motor as present.  CAN_MOTOR_CMD   *)
(* stores a set-point and marks the motor as set, then asks twice whether  *)
(* to send a frame: once with the high nibble of SET xor INIT, once with   *)
(* the low nibble.  The masks are sets of motor numbers here, so xor is    *)
(* the symmetric difference, >> 4 keeps motors 5 to 8 and << 4 motors 1    *)
(* to 4 - on CAN1, where the shift is masked with 0xFF; on CAN2 it is not, *)
(* so the second test there looks at all eight motors.                     *)
(*                                                                         *)
(* The hardware runs beside the code: three transmit mailboxes per         *)
(* controller, emptied one frame at a time.  CAN_MOTOR_CMD is therefore    *)
(* three steps (store, first test, second test), since a mailbox may       *)
(* become free between the two sends.                                      *)
(***************************************************************************)
EXTENDS Integers, FiniteSets, FiniteSetsExt

CONSTANTS
  Device,    \* the CAN controllers; only "CAN2" differs from the others
  Spd,       \* the int16_t set-points
  Wired,     \* [Device -> SUBSET Motor]: the motors the application drives
  Zero       \* the value the buffers hold before the first command

Motor == 1..8
Low   == 1..4
High  == 5..8
Group == {"1T4", "5T8"}
Slot  == 0..2
Free  == [group |-> "none"]   \* an empty transmit mailbox
Quiet == 3                    \* no mailbox: nothing is on the wire
Idle  == [at |-> "idle"]

ASSUME DeviceAssumption == Device # {} /\ Device \subseteq {"CAN1", "CAN2"}
ASSUME SpdAssumption    == Zero \in Spd
ASSUME WiredAssumption  == Wired \in [Device -> SUBSET Motor]

VARIABLES
  cmdBuf,    \* CAN1_CMD_BUF, CAN2_CMD_BUF
  flgInit,   \* CAN_MOTOR_CMD_FLG_INIT, one bit per motor
  flgSet,    \* CAN_MOTOR_CMD_FLG_SET, one bit per motor
  call,      \* the CAN_MOTOR_CMD call under way, and the test it is at
  mbox,      \* the three transmit mailboxes of each controller
  onWire,    \* the mailbox whose frame is being transmitted
  applied    \* the set-point each motor received last

driver == <<cmdBuf, flgInit, flgSet, call>>
bus    == <<mbox, onWire, applied>>
vars   == <<cmdBuf, flgInit, flgSet, call, mbox, onWire, applied>>

Members(g) == IF g = "1T4" THEN Low ELSE High
Frame == UNION {[group : {g}, data : [Members(g) -> Spd]] : g \in Group}
Call  == {Idle} \cup [at : {"first", "second"}, dev : Device]

TypeOK ==
  /\ cmdBuf  \in [Device -> [Motor -> Spd]]
  /\ flgInit \in [Device -> SUBSET Motor]
  /\ flgSet  \in [Device -> SUBSET Motor]
  /\ call    \in Call
  /\ mbox    \in [Device -> [Slot -> Frame \cup {Free}]]
  /\ onWire  \in [Device -> Slot \cup {Quiet}]
  /\ applied \in [Device -> [Motor -> Spd]]

Init ==
  /\ cmdBuf  = [d \in Device |-> [m \in Motor |-> Zero]]
  /\ flgInit = [d \in Device |-> {}]
  /\ flgSet  = [d \in Device |-> {}]
  /\ call    = Idle
  /\ mbox    = [d \in Device |-> [s \in Slot |-> Free]]
  /\ onWire  = [d \in Device |-> Quiet]
  /\ applied = [d \in Device |-> [m \in Motor |-> Zero]]

-----------------------------------------------------------------------------
(* The driver.                                                             *)

\* SET ^ INIT: the motors whose two flags differ.
Pending(d) == (flgSet[d] \ flgInit[d]) \cup (flgInit[d] \ flgSet[d])

\* Mutants of the second test below: treated alike on both controllers,
\* unmasked and masked.
LowNibbleClear_Unmasked(d)   == Pending(d) = {}
LowNibbleClear_Masked(d)     == Pending(d) \cap Low = {}

\* What the two tests find: nothing left of Pending after the shift.
HighNibbleClear(d) == Pending(d) \cap High = {}
LowNibbleClear(d)  == IF d = "CAN2" THEN Pending(d) = {}
                                    ELSE Pending(d) \cap Low = {}

\* Mutants: the flags are not taken back after a frame, or the flags of the
\* frame's own group are.
AfterSend_NoReset(d, g)  == flgSet
AfterSend_OwnGroup(d, g) == [flgSet EXCEPT ![d] = @ \ Members(g)]

\* The flags once frame g is sent: those of the other group are taken back.
AfterSend(d, g) == [flgSet EXCEPT ![d] = @ \cap Members(g)]

\* The frame CAN_MOTOR_CMD_SEND fills in from the buffer.
FrameOf(d, g) == [group |-> g, data |-> [m \in Members(g) |-> cmdBuf[d][m]]]

\* CAN_Transmit: the first empty mailbox, or none - and nobody looks at the
\* status it returns, so the frame is then lost.
FreeSlots_Unchecked(d) == Slot    \* mutant: TME is not looked at
FreeSlots(d) == {s \in Slot : mbox[d][s] = Free}
Transmit(d, f) ==
  mbox' = IF FreeSlots(d) = {} THEN mbox
          ELSE [mbox EXCEPT ![d][Min(FreeSlots(d))] = f]

\* Mutant: the table of bits is indexed one too low.
CAN_MOTOR_FLG_INIT_OffByOne(d, id) ==
  /\ call = Idle
  /\ flgInit' = [flgInit EXCEPT ![d] = @ \cup {id - 1}]
  /\ UNCHANGED <<cmdBuf, flgSet, call, bus>>

CAN_MOTOR_FLG_INIT(d, id) ==
  /\ call = Idle
  /\ flgInit' = [flgInit EXCEPT ![d] = @ \cup {id}]
  /\ UNCHANGED <<cmdBuf, flgSet, call, bus>>

CAN_MOTOR_CMD(d, id, spd) ==
  /\ call = Idle
  /\ cmdBuf' = [cmdBuf EXCEPT ![d][id] = spd]
  /\ flgSet' = [flgSet EXCEPT ![d] = @ \cup {id}]
  /\ call'   = [at |-> "first", dev |-> d]
  /\ UNCHANGED <<flgInit, bus>>

\* The high nibble decides about the frame of motors 1 to 4 ...
FirstTest(d) ==
  /\ call = [at |-> "first", dev |-> d]
  /\ call' = [at |-> "second", dev |-> d]
  /\ IF HighNibbleClear(d)
     THEN /\ Transmit(d, FrameOf(d, "1T4"))
          /\ flgSet' = AfterSend(d, "1T4")
     ELSE UNCHANGED <<mbox, flgSet>>
  /\ UNCHANGED <<cmdBuf, flgInit, onWire, applied>>

\* ... and the low nibble, taken after that, about the frame of 5 to 8.
SecondTest(d) ==
  /\ call = [at |-> "second", dev |-> d]
  /\ call' = Idle
  /\ IF LowNibbleClear(d)
     THEN /\ Transmit(d, FrameOf(d, "5T8"))
          /\ flgSet' = AfterSend(d, "5T8")
     ELSE UNCHANGED <<mbox, flgSet>>
  /\ UNCHANGED <<cmdBuf, flgInit, onWire, applied>>

-----------------------------------------------------------------------------
(* The controller: transmit priority by identifier (TXFP off), so 0x1FF    *)
(* goes before 0x200 and equal identifiers by mailbox number; automatic    *)
(* retransmission (NART off), so a frame leaves its mailbox only when it   *)
(* was acknowledged.                                                       *)

FullSlots(d) == Slot \ FreeSlots(d)
Winner(d) ==
  LET urgent == {s \in FullSlots(d) : mbox[d][s].group = "5T8"}
  IN  Min(IF urgent # {} THEN urgent ELSE FullSlots(d))

BusStart(d) ==
  /\ onWire[d] = Quiet
  /\ FullSlots(d) # {}
  /\ onWire' = [onWire EXCEPT ![d] = Winner(d)]
  /\ UNCHANGED <<driver, mbox, applied>>

BusDone(d) ==
  /\ onWire[d] # Quiet
  /\ LET f == mbox[d][onWire[d]] IN
       applied' = [applied EXCEPT ![d] =
         [m \in Motor |->
            IF m \in Members(f.group) THEN f.data[m] ELSE applied[d][m]]]
  /\ mbox'   = [mbox EXCEPT ![d][onWire[d]] = Free]
  /\ onWire' = [onWire EXCEPT ![d] = Quiet]
  /\ UNCHANGED driver

\* Lost arbitration, no acknowledgement, or bus-off: the frame stays pending.
BusFail(d) ==
  /\ onWire[d] # Quiet
  /\ onWire' = [onWire EXCEPT ![d] = Quiet]
  /\ UNCHANGED <<driver, mbox, applied>>

-----------------------------------------------------------------------------
DriverStep(d) == FirstTest(d) \/ SecondTest(d)
BusStep(d)    == BusStart(d) \/ BusDone(d) \/ BusFail(d)

\* A motor is commanded by its DeviceM3508 object, whose Init has marked it
\* as present before (device_m3508.cpp).
Next ==
  \/ \E d \in Device : \E id \in Wired[d] : CAN_MOTOR_FLG_INIT(d, id)
  \/ \E d \in Device : \E id \in flgInit[d], spd \in Spd : CAN_MOTOR_CMD(d, id, spd)
  \/ \E d \in Device : DriverStep(d)
  \/ \E d \in Device : BusStep(d)

Spec == Init /\ [][Next]_vars

-----------------------------------------------------------------------------
(* Properties.                                                             *)

\* No group of motors is ever left with all its flags set once the tests of
\* a call are over: a complete group would be waiting for a trigger that has
\* already been used up, and the other group's frame with it.  It holds
\* wherever the second shift is masked.
NoGroupLeftComplete ==
  \A d \in Device \ {"CAN2"} : \A part \in {Low, High} :
    call = Idle /\ flgInit[d] \cap part # {}
      => ~ (flgInit[d] \cap part \subseteq flgSet[d])

Loaded(d, s) == mbox[d][s] = Free /\ mbox'[d][s] # Free

\* On CAN2 the unmasked shift of the second test makes it wait for all eight
\* motors at once, which the first test has just made impossible: as soon as
\* one of motors 5 to 8 is present, no call queues a 5T8 frame.
Can2HighStarved ==
  [][\A d \in Device \cap {"CAN2"} : \A s \in Slot :
       Loaded(d, s) /\ flgInit[d] \cap High # {} => mbox'[d][s].group = "1T4"]_vars

\* A frame that was accepted is delivered: nothing overwrites, drops or
\* alters a pending mailbox, and the mailbox on the wire is never an empty
\* one, whatever the driver queues while the controller is transmitting.
PendingFrameKept ==
  [][\A d \in Device : \A s \in Slot :
       mbox[d][s] # Free /\ mbox'[d][s] # mbox[d][s]
         => /\ mbox'[d][s] = Free
            /\ onWire[d] = s
            /\ \A m \in DOMAIN mbox[d][s].data : applied'[d][m] = mbox[d][s].data[m]]_vars
=============================================================================
