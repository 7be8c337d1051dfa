----------------------------- MODULE MotorCycle -----------------------------
(***************************************************************************)
(* The motor loop of thread2 (src/Codes/src/main.cpp) on top of CanMotor:  *)
(* every DeviceM3508 is initialised once, then in every cycle each of them *)
(* commands a current, in a fixed order, and the thread sleeps 2 ms.       *)
(*                                                                         *)
(* A command is identified by the cycle that issued it, so the age of a    *)
(* set-point is how many cycles ago it was computed.  Cycles are counted   *)
(* modulo CycleMod, which exceeds every age a property speaks about.       *)
(*                                                                         *)
(* The cable may fail and come back at any step.  A frame takes about      *)
(* 130 us at 1 Mbit/s, identifiers 0x1FF and 0x200 win arbitration against *)
(* the feedback frames 0x201 to 0x208, and the thread sleeps 2 ms, so a    *)
(* cycle during which the link was up throughout ends with the mailboxes   *)
(* drained.  This is the only assumption on timing.                        *)
(***************************************************************************)
EXTENDS CanMotor, Sequences

CONSTANTS
  Dev,        \* the controller the motors hang on, the program's is CAN1
  Orders,     \* the sequences of motors a build may drive; the program's is <<2, 6>>
  MaxOutages, \* for each of them, a bound on the outages of one behaviour
  CycleMod    \* cycles are numbered 1 .. CycleMod and wrap

ASSUME DevAssumption   == Dev \in Device \ {"CAN2"}
ASSUME CycleAssumption == CycleMod \in Nat \ 0..2 /\ Spd = 0..CycleMod /\ Zero = 0
ASSUME OutageAssumption == MaxOutages \in [Orders -> Nat]

\* There is one DeviceM3508 object to a motor.
ASSUME OrdersAssumption ==
  \A o \in Orders : /\ o \in Seq(Motor) /\ o # <<>>
                    /\ \A i, j \in 1..Len(o) : o[i] = o[j] => i = j

VARIABLES
  order,      \* the motors thread2 updates, in this order
  pos,        \* which of them comes next
  started,    \* all motors are initialised
  cycle,      \* the number of the cycle under way
  linkUp,     \* the cable works
  healthy,    \* how many cycles in a row the link was up throughout, at most 2
  outages,    \* how often it has failed
  steady,     \* the link was up throughout the cycle under way so far
  accepted    \* the newest set-point of each motor that a mailbox took

thread == <<order, pos, started, cycle>>
link   == <<linkUp, healthy, steady, outages>>
all    == <<vars, thread, link, accepted>>

Present == {order[i] : i \in 1..Len(order)}
BothGroups == Present \cap Low # {} /\ Present \cap High # {}
Next1(c) == IF c = CycleMod THEN 1 ELSE c + 1
Age(v) == IF v <= cycle THEN cycle - v ELSE cycle - v + CycleMod
Drained == onWire[Dev] = Quiet /\ FreeSlots(Dev) = Slot

CycleTypeOK ==
  /\ TypeOK
  /\ order \in Orders /\ pos \in 1..Len(order) + 1 /\ started \in BOOLEAN
  /\ cycle \in 1..CycleMod
  /\ linkUp \in BOOLEAN /\ steady \in BOOLEAN /\ healthy \in 0..2
  /\ outages \in 0..MaxOutages[order]
  /\ accepted \in [Motor -> Spd]

CycleInit ==
  /\ Init
  /\ order \in Orders /\ pos = 1 /\ started = FALSE /\ cycle = 1
  /\ linkUp = TRUE /\ steady = TRUE /\ healthy = 0 /\ outages = 0
  /\ accepted = [m \in Motor |-> Zero]

-----------------------------------------------------------------------------
\* thread2_entry before its loop: Init of each motor.
InitMotor ==
  /\ ~started
  /\ CAN_MOTOR_FLG_INIT(Dev, order[pos])
  /\ IF pos < Len(order) THEN pos' = pos + 1 /\ started' = FALSE
                         ELSE pos' = 1       /\ started' = TRUE
  /\ UNCHANGED <<order, cycle, link, accepted>>

\* Update of the next motor ends in its Command.
UpdateMotor ==
  /\ started /\ pos <= Len(order)
  /\ CAN_MOTOR_CMD(Dev, order[pos], cycle)
  /\ pos' = pos + 1
  /\ UNCHANGED <<order, started, cycle, link, accepted>>

\* The two tests inside CAN_MOTOR_CMD; accepted records what a mailbox took.
FinishCommand ==
  /\ DriverStep(Dev)
  /\ accepted' = [m \in Motor |->
       IF \E s \in Slot : /\ Loaded(Dev, s)
                          /\ m \in Members(mbox'[Dev][s].group)
       THEN cmdBuf[Dev][m] ELSE accepted[m]]
  /\ UNCHANGED <<thread, link>>

\* rtos::delay_ms(2) has elapsed.
CycleOver == started /\ call = Idle /\ pos = Len(order) + 1
StartCycle ==
  /\ CycleOver
  /\ steady => Drained
  /\ pos' = 1 /\ cycle' = Next1(cycle)
  /\ healthy' = IF ~steady THEN 0 ELSE IF healthy < 2 THEN healthy + 1 ELSE 2
  /\ steady' = linkUp
  /\ UNCHANGED <<vars, order, started, linkUp, outages, accepted>>

LinkFails ==
  /\ linkUp /\ outages < MaxOutages[order]
  /\ outages' = outages + 1
  /\ linkUp' = FALSE /\ steady' = FALSE /\ healthy' = 0
  /\ UNCHANGED <<vars, thread, accepted>>

LinkReturns ==
  /\ ~linkUp
  /\ linkUp' = TRUE
  /\ UNCHANGED <<vars, thread, healthy, steady, outages, accepted>>

\* The controller keeps trying while the link is down and delivers while it
\* is up.
Transmission ==
  /\ BusStart(Dev) \/ (linkUp /\ BusDone(Dev)) \/ (~linkUp /\ BusFail(Dev))
  /\ UNCHANGED <<thread, link, accepted>>

Thread == InitMotor \/ UpdateMotor \/ FinishCommand \/ StartCycle
CycleNext == Thread \/ LinkFails \/ LinkReturns \/ Transmission
CycleSpec == CycleInit /\ [][CycleNext]_all

\* The scheduler always runs thread2 again (its competitors sleep most of the
\* time) and the controller never stops trying.
FairSpec == CycleSpec /\ WF_all(Thread) /\ WF_all(Transmission)

-----------------------------------------------------------------------------
(* Properties.                                                             *)

\* Although the two groups trigger each other's frames, at the end of a cycle
\* the mailboxes have taken, for every motor, this cycle's set-point or the
\* one before it - whenever the link was up for the cycle before as well, and
\* for every order of motors, even where one cycle queues more frames than
\* there are mailboxes.  Before that, frames are dropped without a trace.
AcceptedWithinOneCycle ==
  CycleOver /\ healthy >= 1 /\ steady =>
    \A m \in Present : accepted[m] # Zero /\ Age(accepted[m]) <= 1

\* No set-point is overwritten in the buffer before a mailbox took it, once
\* the link has been up for two whole cycles.  One is not enough: the frames
\* of the first cycle may still find the mailboxes full.  With motors of one
\* group only a frame may be dropped even then; a later one carries what it lost.
NoCommandLostOnHealthyLink ==
  [][\A m \in Present : healthy = 2 /\ steady /\ cmdBuf'[Dev][m] # cmdBuf[Dev][m]
       => accepted[m] = cmdBuf[Dev][m]]_all

\* Two whole cycles after an outage every motor runs on a set-point at most
\* one cycle old, whatever the mailboxes had kept from before the outage; in
\* a build with motors of both groups it is the newest one any mailbox took.
AppliedFreshAfterRecovery ==
  CycleOver /\ healthy = 2 /\ steady /\ Drained =>
    \A m \in Present : /\ applied[Dev][m] # Zero /\ Age(applied[Dev][m]) <= 1
                       /\ BothGroups => applied[Dev][m] = accepted[m]

\* In a build with motors of both groups a motor never gets an older
\* set-point after a newer one once the link has been up for two whole cycles.
\* With one group only it may: every command queues a frame then, and the
\* mailboxes are served by slot and not by age.
InOrderOnHealthyLink ==
  [][\A m \in Present :
       BothGroups /\ healthy = 2 /\ steady /\ applied'[Dev][m] # applied[Dev][m]
         => Age(applied'[Dev][m]) < Age(applied[Dev][m])]_all

\* If the cable holds from some point on, every motor runs on fresh
\* set-points from some point on: at most two cycles old at any moment.
EventuallyFresh ==
  <>[]linkUp => <>[](\A m \in Present : Age(applied[Dev][m]) <= 2)
=============================================================================
