----------------------------- MODULE CanFeedback -----------------------------
(***************************************************************************)
(* The feedback of the motors on CAN1: the controller's receive FIFO, its  *)
(* interrupt with can1_hook (bsp_can.c), and DeviceM3508::UpdateFdb in     *)
(* thread2 (device_m3508.cpp), which locks the scheduler but not the       *)
(* interrupt.  CAN2 has the same handler with an empty hook.               *)
(*                                                                         *)
(* A motor's frames are numbered; position and speed are represented by    *)
(* the number of the frame they are from, 0 for none.                      *)
(***************************************************************************)
EXTENDS Integers, Sequences, FiniteSets

CONSTANTS
  Sender,      \* the motors on the bus, a subset of 1..8
  Updated,     \* the motors thread2 updates, in this order; the program's is <<2, 6>>
  MaxNumber    \* bound on the number of frames of each motor

ASSUME FdbAssumption ==
  Sender \subseteq 1..8 /\ Updated \in Seq(Sender) /\ Updated # <<>> /\ MaxNumber \in Nat

VARIABLES
  newest,      \* the newest frame each motor has sent
  latest,      \* the motor that sent the last one, 0 for none
  fifo,        \* the controller's FIFO 0
  can1_motor,  \* ecd (and speed_rpm, which changes with it) and last_ecd
  fdb,         \* m_PosFdb, m_PosFdbLast and m_SpdFdb of each DeviceM3508
  turn,        \* the motor UpdateFdb is at, and whether it has read ecd
  between,     \* the motors that have sent since then
  masked,      \* interrupts are off, as in rt_timer_check
  burst,       \* frames since they were switched off, at most FifoDepth + 1
  crowded      \* history: the motors that took part in a burst of more than
               \* FifoDepth frames and have not sent again since

fdbVars == <<newest, latest, fifo, can1_motor, fdb, turn, between, masked, burst, crowded>>

FifoDepth == 3
UpdatedSet == {Updated[i] : i \in DOMAIN Updated}
FrameNumber == 0..MaxNumber

FdbTypeOK ==
  /\ newest \in [Sender -> FrameNumber] /\ latest \in Sender \cup {0}
  /\ fifo \in Seq([motor : Sender, n : FrameNumber]) /\ Len(fifo) <= FifoDepth
  /\ can1_motor \in [1..8 -> [ecd : FrameNumber, last : FrameNumber]]
  /\ fdb \in [UpdatedSet -> [pos : FrameNumber, last : FrameNumber, spd : FrameNumber]]
  /\ turn \in [at : DOMAIN Updated, half : BOOLEAN]
  /\ between \subseteq Sender /\ masked \in BOOLEAN /\ burst \in 0..FifoDepth + 1
  /\ crowded \subseteq Sender

FdbInit ==
  /\ newest = [m \in Sender |-> 0] /\ latest = 0 /\ fifo = <<>>
  /\ can1_motor = [m \in 1..8 |-> [ecd |-> 0, last |-> 0]]
  /\ fdb = [m \in UpdatedSet |-> [pos |-> 0, last |-> 0, spd |-> 0]]
  /\ turn = [at |-> 1, half |-> FALSE]
  /\ between = {} /\ masked = FALSE /\ burst = 0 /\ crowded = {}

-----------------------------------------------------------------------------
\* CAN_RFLM is DISABLEd: a frame that finds the FIFO full replaces the last
\* one in it.  Mutant: it is dropped.
Stored_Locked(frame) == IF Len(fifo) < FifoDepth THEN Append(fifo, frame) ELSE fifo
Stored(frame) ==
  IF Len(fifo) < FifoDepth THEN Append(fifo, frame) ELSE [fifo EXCEPT ![FifoDepth] = frame]

\* A motor sends every millisecond; the two reads of UpdateFdb are closer, since
\* no other thread runs between them.  Mutant: the scheduler is not locked.
InTime_Unlocked(m) == TRUE
InTime(m) == turn.half => m \notin between

\* A frame takes 130 us, and an interrupt that is not held up comes earlier.
FrameComes(m) ==
  /\ newest[m] < MaxNumber /\ InTime(m) /\ (masked \/ fifo = <<>>)
  /\ newest' = [newest EXCEPT ![m] = @ + 1] /\ latest' = m
  /\ fifo' = Stored([motor |-> m, n |-> newest'[m]])
  /\ between' = IF turn.half THEN between \cup {m} ELSE between
  /\ burst' = IF masked /\ burst <= FifoDepth THEN burst + 1 ELSE burst
  /\ crowded' = (IF masked /\ burst >= FifoDepth
                 THEN crowded \cup {fifo[i].motor : i \in DOMAIN fifo}
                 ELSE crowded) \ {m}
  /\ UNCHANGED <<can1_motor, fdb, turn, masked>>

\* can1_hook has no case for CAN_M8_ID.
Heard_All == 1..8            \* mutant
Heard == 1..7

\* Mutant: ecd is overwritten before it is kept as last_ecd.
update_motor_feedback_Swapped(motor, n) == [ecd |-> n, last |-> n]
update_motor_feedback(motor, n) == [ecd |-> n, last |-> motor.ecd]

\* CAN1_RX0_IRQHandler takes one frame; CAN_ClearITPendingBit does nothing for
\* CAN_IT_FMP0, so the interrupt comes again as long as there is another.
CAN1_RX0_IRQHandler ==
  /\ ~ masked /\ fifo # <<>>
  /\ fifo' = Tail(fifo)
  /\ LET f == Head(fifo) IN
     can1_motor' =
       IF f.motor \in Heard
       THEN [can1_motor EXCEPT ![f.motor] = update_motor_feedback(@, f.n)]
       ELSE can1_motor
  /\ UNCHANGED <<newest, latest, fdb, turn, between, masked, burst, crowded>>

\* Interrupts may be off at any time, in a handler of the tick for instance,
\* and a burst is over when the FIFO has been emptied after it.
Disable ==
  /\ ~ masked /\ fifo = <<>>
  /\ masked' = TRUE /\ burst' = 0
  /\ UNCHANGED <<newest, latest, fifo, can1_motor, fdb, turn, between, crowded>>
Enable ==
  /\ masked /\ masked' = FALSE
  /\ UNCHANGED <<newest, latest, fifo, can1_motor, fdb, turn, between, burst, crowded>>

\* UpdateFdb: the position first, then the speed.  No thread runs while the
\* interrupt has something to do.
ThreadRuns == ~ masked /\ fifo = <<>>
ReadPosition ==
  LET m == Updated[turn.at] IN
  /\ ThreadRuns /\ ~ turn.half
  /\ fdb' = [fdb EXCEPT ![m].last = fdb[m].pos, ![m].pos = can1_motor[m].ecd]
  /\ turn' = [turn EXCEPT !.half = TRUE] /\ between' = {}
  /\ UNCHANGED <<newest, latest, fifo, can1_motor, masked, burst, crowded>>
ReadSpeed ==
  LET m == Updated[turn.at] IN
  /\ ThreadRuns /\ turn.half
  /\ fdb' = [fdb EXCEPT ![m].spd = can1_motor[m].ecd]
  /\ turn' = [at |-> IF turn.at < Len(Updated) THEN turn.at + 1 ELSE 1, half |-> FALSE]
  /\ between' = {}
  /\ UNCHANGED <<newest, latest, fifo, can1_motor, masked, burst, crowded>>

FdbNext ==
  \/ \E m \in Sender : FrameComes(m)
  \/ CAN1_RX0_IRQHandler \/ Disable \/ Enable
  \/ ReadPosition \/ ReadSpeed

FdbSpec == FdbInit /\ [][FdbNext]_fdbVars

-----------------------------------------------------------------------------
(* Properties.                                                             *)

\* What the control law gets is of one frame, or the position of one and the
\* speed of the next one heard, never of frames further apart or the other way
\* round: the lock does not keep the interrupt out, but it keeps the reads close.
FdbIsOneFrameWide ==
  [][LET m == Updated[turn.at] IN
     turn.half /\ ~ turn'.half =>
       fdb'[m].pos \in {fdb'[m].spd, can1_motor[m].last}]_fdbVars

\* However long interrupts are off, the last frame on the bus is not lost, and
\* while at most three frames come meanwhile nothing is: every motor but the
\* eighth, which is never heard, then keeps its newest frame.
Kept(m) ==
  \/ m \in Heard /\ can1_motor[m].ecd = newest[m]
  \/ \E i \in DOMAIN fifo : fifo[i] = [motor |-> m, n |-> newest[m]]
NewestSurvives ==
  /\ latest \in 1..7 => Kept(latest)
  /\ \A m \in (Sender \cap 1..7) \ crowded : Kept(m)
  /\ can1_motor[8].ecd = 0
=============================================================================
