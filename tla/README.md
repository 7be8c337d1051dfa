# Chasis: a TLA+ model of the chassis controller

The repository is the firmware of a robot chassis: an STM32F4 with the RT-Thread Nano
kernel and the ST standard peripheral driver. It reads a remote control over a serial line,
derives keys and switch positions from it, drives motors over CAN and plays tones on a buzzer.
This directory models its logic in TLA+, checks the models on small instances with TLC, and
proves the results that matter for every instance with TLAPS.

## 1. Inventory

| Component | Source (under `src/Codes/`) | State | Operations |
|---|---|---|---|
| Motor command path | `src/bsp/bsp_can.c` 22-134, 169-186; `CAN_Transmit` of the ST driver | command buffers, INIT and SET masks, 3 transmit mailboxes per controller | `CAN_MOTOR_FLG_INIT`, `CAN_MOTOR_CMD`, `CAN_MOTOR_CMD_SEND` |
| Motor feedback path | `src/bsp/bsp_can.c` 4-70, 136-167; `CAN_Receive` | receive FIFO, `can1_motor` | RX interrupt, `can1_hook`, `get_p_motor_feedback` |
| Motor object | `src/device/device_m3508.cpp`, `device_motor.h` | set-points, feedback copies, mode | `Init`, `Update`, `UpdateFdb`, `Command` |
| PID | `src/mathlib/math_pid.cpp` | errors, integral | `Init`, `Update`, `Clear` |
| Remote control reception | `src/bsp/bsp_rc.c` | two DMA buffers, the DMA's counter and target, `rc_raw` | `remote_control_init`, `rc_disable`/`rc_enable`/`rc_restart`, USART6 interrupt, `SBUS_TO_RC` |
| Remote control object | `src/device/device_rc.cpp` 1-199 | normalised axes, latched keys and edges, list of detectors | `Update`, `UpdateKbdEvents`, `QuerySwState`, `QueryPcKeyState`, `Attach` |
| Key event detectors | `src/device/device_rc.cpp` 201-322 | flags, counters and ticks of chord, rapid-tap and sequence detectors | `Update`, `GetEventState` |
| RC updater thread | `src/RcUpdater.cpp` | tick of the last update | `Init`, `Update` every 7 ms, priority 2 |
| Main thread and thread2 | `src/main.cpp` | the last update seen, the last detector results | the 2 ms loop: two motors, then the keys (`piano`) |
| Buzzer | `src/bsp/bsp_buzzer.c`, `src/device/device_buzzer.cpp`, `src/test/music.c` | timer registers | `SetFreq`, `On`, `Off`, shell commands |
| Kernel: scheduler, threads, timers, IPC | `rt_thread/*` | ready queues, timer list, suspended lists | `rt_schedule`, `rt_tick_increase`, `rt_timer_check`, `rt_thread_*`, `rt_sem_*`, `rt_mb_*` |
| RTOS wrapper | `CORE/util_rtos.h` | kernel objects | `Thread`, `Semaphore`, `delay_ms`, `enter_critical` |
| PC link | `src/bsp/bsp_pc_communicate.c` (not in the build) | receive buffer and its index | `p_buffer_move`, hook |
| CRC | `src/mathlib/math_crc.cpp` (not in the build) | none | CRC8 and CRC16, append and verify |

How they interact. The USART6 and CAN interrupts write `rc_raw` and `can1_motor` at any instruction
of any thread: `rt_enter_critical` locks the scheduler, not the interrupts. The RC updater
(priority 2) copies `rc_raw` into the remote-control object every 7 ms and runs the detectors, with the scheduler
locked. thread2 (priority 20) runs its loop every 2 ms, reads the remote-control object whenever
`GetTickLastUpdate` has changed, and commands both motors. So the updater may preempt thread2
between any two of its queries, and an interrupt may preempt both between any two reads. The motor commands
end in transmit mailboxes that the bus empties on its own. No preemption grouping is configured, so the handlers of
devices do not nest among each other; SysTick (`board.c:87`, priority 0xFF) and PendSV have the lowest priority, so a device's
handler may interrupt SysTick between its masked sections, and PendSV switches threads once all handlers have returned (before a SysTick that waits as well:
its exception number is lower).

What makes each of them correct, in words:

* Command path: no set-point is left behind in the buffers because its frame's trigger was used up;
  what a mailbox accepted arrives unaltered; while the bus is healthy every motor's command arrives,
  in order and within a cycle; after an outage of any length it does again.
* Reception: what the program sees of the receiver's bytes is one frame, whole, and noise does not
  outlive its burst; each bit ends in its field.
* Remote-control object and thread2: a change that a query asks for is reported once; buzzer and results settle to the truth.
* Detectors: the event is on exactly when the keys' history says so, also where the tick wraps.
* Kernel timers: nobody is called early, late or out of order, also where the tick wraps.
* Feedback: position and speed belong together as far as the control law needs it, and a full FIFO costs no
  motor its newest frame for good.
* Kernel threads and semaphores: no wake-up is lost between the end of a masked section and the
  switch; a timeout, a release and a reset of the same thread agree; equals share the processor.

## 2. Modules

| Module | Models | State and actions against the code |
|---|---|---|
| `CanMotor` | `bsp_can.c` 72-134, 169-186; `CAN_Transmit`; the controller | masks and buffers as sets and functions; `CAN_MOTOR_FLG_INIT`; `CAN_MOTOR_CMD` in three steps (store, first test, second test) since a mailbox may fall free in between; `BusStart`, `BusDone`, `BusFail` are the hardware |
| `MotorCycle` (extends `CanMotor`) | the motor loop of `main.cpp`, `Init`/`Update`/`Command` of `device_m3508.cpp`, the cable | `InitMotor`, `UpdateMotor`, `FinishCommand`, `StartCycle`; `LinkFails`, `LinkReturns`; a set-point is the number of the cycle that computed it |
| `RcReceive` | `bsp_rc.c` 11-169 | bytes numbered by burst and place; `BurstBegins`, `ByteArrives` are receiver and DMA, `ServeIdle` and `Decode` are `USART6_IRQHandler` and its call of `SBUS_TO_RC` |
| `SbusDecode` | `SBUS_TO_RC` as a function of the 144 bits of a frame | one action flips a bit; `rc_raw` is the decoded record, by the code's masks and shifts, and the properties speak of its bits |
| `RcLatch` | `DeviceRC::Update` and `ChordDetector::Update` against the interrupt | one step per read of `rc_raw`; a value is the number of the frame it was read from |
| `RcEvents` | `RcManager::Update` against thread2's queries (`main.cpp` 58-236) | `Loop` is the sequence of reads of one turn; one step per read; the tick decides who runs; a switch has its three positions and 0, and each of its queries asks for the way from one position to one other (`Ends`), as `QuerySwState` does; `fresh` stands for the two stamps that are compared, `told` counts the reports |
| `RapidTap`, `KeySequence` | the two timed detectors | one action per `Update`, with the history to compare with |
| `KeyDetectors` (extends both) | the list `DeviceRC::Update` walks | both detectors see one update, at one tick |
| `TickClock` | the 32-bit tick | `Advance`, `Elapsed`: addition and subtraction that wrap; `FirstTick` is where it stands when detectors are attached, which thread2 does while the updater runs already |
| `CanFeedback` | `CAN_Receive`'s FIFO, `CAN1_RX0_IRQHandler`, `can1_hook`, `update_motor_feedback`, and `UpdateFdb` of `device_m3508.cpp` | one step per frame, per interrupt, and per read of `UpdateFdb`; position and speed are the number of the frame they are from; `Disable` and `Enable` are masked sections |
| `TimerService` | nothing: it is the abstract specification of the kernel's timers | ticks left per timer, calls in the order of their ends |
| `RtTimer` | `timer.c`, the timer part of `rt_tick_increase` and of `rt_thread_sleep` | the sorted list, `rt_timer_start`, `rt_timer_stop`, `rt_timer_check` one timer at a time; implements `TimerService` |
| `RtThreads` | `scheduler.c`, `thread.c`, the time slices of `rt_tick_increase`, the switch of `context_rvds.S` | one action per masked section, each call of `rt_schedule` a step of its own (`Reschedule`) since interrupts come in between; `SysTick_Handler` is entry, charge of the slice, `rt_thread_yield`'s section, its `rt_schedule` and the timers (`SysTick_Handler`, `ChargeSlice`, `TickYield`, `TickSwitch`, `TickCheck`), with a device's handler before each of them; `rt_current_thread` (`current`), the processor (`cpu`) and the requested switch (`pending`) are three things; timers by `TimerService` |
| `RtSemaphore` (extends `RtThreads`) | the semaphores of `ipc.c` | `rt_sem_take`, `rt_sem_release` by threads and by interrupt handlers, `RT_IPC_CMD_RESET`, the waiting list in both orders |
| `CanMotor_proofs` (also of `MotorCycle`), `RcReceive_proofs` (also of `SbusDecode`), `LockedReaders_proofs` (of `RcLatch` and `CanFeedback`), `KeyDetectors_proofs` (also of `TickClock`, `RapidTap`, `KeySequence`), `RcEvents_proofs`, `RtTimer_proofs`, `RtSemaphore_proofs` (also of `RtThreads`) | theorems | section 5 |
| `ListLemmas` | lemmas on lists of any length | membership, removal and insertion as the kernel's lists do them; used by the last two and by the bit arithmetic of `RcReceive_proofs` |

The `MC` modules give the constants of the instances and add no behaviour; `MCCanMotor` alone narrows it,
to one of the two controllers per behaviour, which do not share a variable except the thread of control.
`MCLockedReaders` puts `RcLatch` and `CanFeedback` side by side: both are readers that lock the scheduler against an
interrupt it does not stop. They share no variable, so each behaviour follows one of them.
Operators whose name has a suffix after an underscore (`AfterSend_NoReset`, ...) are deliberate
mistakes next to the definition they distort. Nothing refers to them; put in the place of
that definition, each of them breaks the property it is meant to break.

## 3. What is checked

| Run | Question | Instance |
|---|---|---|
| `can_commands` | may the two groups block each other, may the driver spoil a pending frame, who may starve? | motors 1, 2 and 6 on CAN1, or the same on CAN2, two set-points, any order of initialisations and commands |
| `motor_orders` | how old may a set-point be, which ones are lost, may they overtake each other? | five sets and orders of motors (the program's `<<2, 6>>` among them), one outage, two for the program's, cycles modulo 3 |
| `motor_live` | does the program's pair run on fresh set-points again once the link holds? | `<<2, 6>>`, cycles modulo 4, under fairness |
| `rc_receive` | can noise or a late interrupt spoil more than its own burst? | frames of 3, buffers of 6, four bursts of seven lengths |
| `sbus_decode` | does each bit end at its place, and only there? | the empty frame and every frame with one bit |
| `sbus_left_switch` | are the comments on the two switches right? They are not | the same |
| `locked_readers` | the scheduler is locked, the interrupt is not: may the latched keys skip frames or go back, how long can a chord nobody pressed last; how mixed can a motor's feedback be, and what does a full FIFO lose? | one key, both buttons, four frames of any content; motors 2 and 6 updated, 8 on the bus as well, three frames of each |
| `rc_events` | is every change that a query asks for reported once, and no other? | one key, one switch with the queries for its way from the middle down and back, one result; 7 and 2 ticks as in the program, up to 5 ticks in a turn |
| `rc_events_late` | and when the updater does interrupt the scan? | one key and one button, so that a scan has two queries of each sort, and one result; periods 2 and 1, two ticks in a turn, under fairness |
| `key_detectors` | is each event on exactly when the history says so? | sequence W W S, taps of W, six updates at two intervals, attached at tick 4 of a clock of nine ticks that wraps twice |
| `rt_timer` | does the sorted list implement the abstract timers? | two one-shot timers, a periodic one; a tick of three bits; times 0, 1 and the longest allowed |
| `rt_semaphore` | does the right thread run, is every thread in the queue its state says, do tokens and waiters agree, does everybody get a turn? | two equal threads with different slices, a lower one that ends, the idle thread; one of them started at run time; waiting for one tick or for ever; critical sections nested twice; releases from interrupts at any moment |

What they show:

* **Commands.** The frame of one group is triggered by the flags of the other, and still no group
  stays complete with its trigger gone (`NoGroupLeftComplete`) - on CAN1. On CAN2 the shift
  `<< 4` is not masked with 0xFF, so the second test waits for all eight motors right after the first
  test took four flags back: as soon as one of motors 5 to 8 is initialised there, their frame is never
  sent (`Can2HighStarved`). The program drives motors on CAN1 only.
* **Outages.** `CAN_Transmit`'s status is ignored. During an outage the mailboxes keep the oldest
  frames and every later one is dropped without a trace; the first set-points
  delivered afterwards are those. Two whole healthy cycles later every motor is at most one cycle behind
  (`AppliedFreshAfterRecovery`), no command is lost and none overtaken. With motors of one group only, every command
  queues a frame, and mailboxes are served by slot, so frames of a cycle may be delivered out of order; the
  property is therefore about builds with both groups.
* **Reception.** The second branch of the handler clears the target bit of another
  stream. The effect is that the driver stays on its second buffer
  (`StuckOnSecondBuffer`), and yet every clean frame whose predecessors were served in time is
  decoded in one piece. A burst of a whole buffer plus a frame is decoded from its tail; that is why
  `RawIsOnePiece` speaks of the last bytes of a burst.
* **Switches.** `SBUS_TO_RC` comments `s[0]` as the left switch (`bsp_rc.c:184`), while
  `RC_SW_L = 1` (`device_rc.h:79`) makes the program read `s[1]` for it. The run
  `sbus_left_switch` shows the disagreement.
* **Presses.** A switch is reported only on the way from the one position to the other that a query names: from UP to DOWN between two updates, or into a position at the
  first frame, nothing is reported, and nothing is owed. With that, `ReportedOnce` holds exactly as long as a turn of the loop and its delay fit into the updater's
  period: `ScanTicks + Nap <= Period`, five ticks against the program's 7 and 2. A turn is far shorter:
  `rt_hw_console_output` does not wait for the serial line (`finsh_device.c:13-21`). Beyond
  the limit a press may be lost or reported twice, and a switch that came another way be taken for the one asked for, if an update falls between the two reads of its query;
  nothing is reported three times, and the detectors' results, which thread2 compares itself, never twice.
* **Chord.** The chord detector reads the raw frame three times, so it may see a chord made of two
  frames; it goes away after two updates.
* **Feedback.** `UpdateFdb` reads the position and the speed with the scheduler locked, which does not keep the receive
  interrupt out: the control law may get the position of one frame and the speed of the next, never frames further
  apart (`FdbIsOneFrameWide`), and that rests on the lock. A FIFO that is full
  overwrites its last entry (`CAN_RFLM` is disabled): while interrupts are off for four frames or more, a motor may lose its newest
  frame, but the last frame on the bus survives, and three or fewer are kept whole (`NewestSurvives`). `can1_hook` has no case
  for motor 8, which is never heard.
* **Threads.** Interrupts are on again between a masked section and the `rt_schedule` that follows it, an interrupt may ask for a
  switch while one is pending, and the scheduler may be locked: still, whenever nobody owes a call of `rt_schedule` the highest ready
  thread is the current one, and PendSV saves the registers into the stack of the thread that has them (`RunsTheHighest`). A
  thread that times out while a release or a reset is on its way leaves the waiting list once, and the result of
  `rt_sem_take` says which of them it was (`TokensAgree`). Equal threads of the top priority get the processor in turn, since the time slice is
  renewed whether or not it is given away. There is one exception, and `EachGetsItsTurn` names it (`SentBack`): when a device's handler releases a
  thread after SysTick was entered and before `rt_thread_yield` has masked interrupts, that thread is `rt_current_thread` with its switch pending; the slice is charged to it, and it may be put behind
  its equals before it ran. If every turn of a thread meets such a handler, it never runs. The property therefore says that a ready thread of the top priority runs or has its turn taken away like this; without the
  second half it does not hold. No handler of this program releases anything, so the program does not meet the exception.
* **Timers.** With times below half of the tick's range, as `rt_timer_start` asserts
  (the assertion is compiled to nothing), the wrapping comparison keeps the list sorted, and each tick calls exactly the
  timers whose time has come, earlier ends first and equal ends in the order of the starts. A time of 0 is called at the
  next tick, like 1. A periodic timer of time 0 would keep `rt_timer_check` in its loop for ever and is excluded.

### Bounds

Everything the code counts without limit is counted modulo something larger than every difference a property speaks of: cycles (`CycleMod`, ages up to
two), ticks (`TickMod`, more than every limit plus one interval, as 2^32 is). What remains bounded is the length of histories: outages (`MaxOutages`;
the mailboxes are full after three frames and cannot get any fuller, so an outage has any length), bursts (`MaxBursts`: one to damage, one to recover,
one to spare), frames (`MaxFrames`: an update sees two at most, and `UpdateFdb` one of each motor), updates of the detectors (`MaxUpdates`: the
three-key sequence, a false start and its expiry). `RcReceive` uses lengths 3 and 6 for 18 and 36: a frame is half a buffer, and the seven lengths are
around one, at and beyond both boundaries. `RcEvents` has a key, a switch with two queries and a result in one run (a button's edge is read in two
steps like a switch's query), and a key, a button and a result in the other: inputs do not influence each other except through the buzzer's "any of
them", which the two queries of the key and of the button are there for, the one of the latched word and the other of `rc_raw` itself. The periods of
that run are so short that an update may fall between any two queries: two ticks in a turn against a period of two. A frame changes any number of
inputs, one after the other (`FrameArrives` takes one at a time, any number of times in a row). In `rt_semaphore` `MaxValue` is the width of the
value, 65535 in the code and one here: a release at the largest value wraps to 0, as `ipc.c:459` does, and loses what it counted; no waiter is lost
with it. The nesting is at most two (`MaxNest`): a third level is the same step once more. `rc_receive` and `key_detectors` end with their last burst
or update, so deadlock is not checked there.

### Fairness

* `MotorCycle!FairSpec`: thread2 always runs again (its only competitors of higher priority sleep most of
  the time; it never waits for anything but its delay) and the controller keeps transmitting (automatic retransmission is
  on, `bsp_can.c`). Nothing is assumed of the cable; `EventuallyFresh` has "the link holds from some point on" as its hypothesis.
* `RcEvents!FairSpec`: one weak fairness for "time goes on": the tick comes, or a thread does its next read. Which one is
  left open.
* `RtSemaphore!Spec`: strong fairness of the tick's steps, of PendSV, of what a thread does inside the kernel, and of the end of each
  level of critical sections: each of them may be interrupted again and again, but is taken up again each time, and the code between them
  ends. Weak fairness of a device's handler, which nothing here interrupts. Nothing is assumed of what threads do outside the kernel: they may compute for ever.
* `RtTimer!Spec`: the tick interrupt comes for ever, and `rt_timer_check`, which runs with interrupts off, goes on.

## 4. Abstractions

* A thread is as fine as its reads and writes of shared state; sections that nothing interrupts (interrupt handlers, masked
  sections) are one step or one step per iteration. Devices' handlers do not interrupt each other, but they do interrupt SysTick, outside
  its masked sections (`RtSemaphore!IsrRelease`).
* No handler of this program releases a semaphore; `IsrRelease` is the use for which the API is made (`rt_hw_context_switch_interrupt`). A thread that
  blocks, sleeps or ends holds no scheduler lock: `rt_schedule` would return at once and leave a suspended thread running. A take that may not wait changes nothing
  when it fails. `rt_sem_take` returns `thread->error`, which stays set for nobody to read; in
  `Taken` it is forgotten.
* A motor sends once a millisecond, and nothing but interrupts runs between the two reads of `UpdateFdb`: at most one frame of a motor comes
  between them (`CanFeedback!InTime`).
* `RcEvents` keeps of the two stamps only whether they differ (`fresh`): that the 32-bit tick comes round to the same value between two looks of thread2 is left out.
* `RcLatch` takes the axes in one read and the switches in one; no property compares one axis or switch with another. `RtTimer` counts the tick and begins `rt_timer_check` in
  one step; a device's handler in between finds the timers as before or after it.
* Priority decides who runs: the updater runs to its end when its delay is over (`RcEvents`), and thread2 only meanwhile.
* Set-points, frames and bytes are represented by where they come from (cycle, frame number, burst and place). Floating-point
  values do not occur.
* The controller's identifier priority, its retransmission and the DMA's double-buffer mode are external, modelled from the configuration
  the code writes.
* The one timing assumption of `MotorCycle`: a cycle during which the link was up throughout ends with empty mailboxes (about 130 us a frame,
  two frames or four, against 2 ms).
* `RtTimer` has the calls the kernel makes, which are all made with interrupts off; `rt_timer_start` and
  `rt_timer_stop` on their own have windows which no caller in this program opens. For the same reason a timeout function that
  starts its own one-shot timer is left out: `rt_timer_check` would then clear the ACTIVATED flag of a timer that is in the list, which
  `rt_timer_stop` would refuse to stop. The only timeout function here, `rt_thread_timeout`, starts no timer.

## 5. What is proved

Every safety invariant and every action property that a passing run checks is also a theorem, for all values of the constants that the named assumptions
allow; the runs show them on the instances of section 3 and the mutants show that they can fail. Liveness stays with TLC.

`CanMotor_proofs`, the command path, from the assumptions on the constants (at least one controller, `Zero` a set-point, `Wired` a
function to sets of motors), for any motors and set-points:

* `TypeCorrect`, `GroupsTrigger` (`NoGroupLeftComplete`), `HighMotorsOfCan2Starve` (`Can2HighStarved`),
  `AcceptedFramesAreDelivered` (`PendingFrameKept`).
* `NoGroupLeftComplete` speaks of moments between two calls and is not inductive. The invariant `IInv` follows a call:
  `OnlyPresentSet` (a set flag belongs to a present motor, so the symmetric difference is "present and not set"), `HighIncomplete`
  (except between a store and the first test, some present high motor misses its flag), `LowIncomplete` (the same until after the second
  test, on CAN1), and `WireHoldsFrame` (the mailbox on the wire is full), which `PendingFrameKept` needs.
  There is one lemma per action; `FirstTest` is the heart: where it sends, it takes the high flags back,
  where it does not, one was missing.

The motor loop, in the same module, for any motors in any order (each once), any number of outages and of cycles that are told apart (three at least):

* `CycleTypeCorrect` (`CycleTypeOK`), `CommandsAccepted` (`AcceptedWithinOneCycle`), `CommandsApplied` (`AppliedFreshAfterRecovery`), `NoCommandLost`
  (`NoCommandLostOnHealthyLink`), `InOrder` (`InOrderOnHealthyLink`).
* The invariant `LoopIInv` follows each group's frame through one cycle: it is `Unsent` (no mailbox holds it, and the motors served so far still have their
  flags) until the flags of the other group make it due, and `Sent` from then on - in a mailbox or with its motors, made of set-points
  of this cycle or the last; with both groups present it is `Once` in a cycle, since sending takes the flags back, and that is why nothing overtakes.
  `Early` bounds what the mailboxes hold before each test, so that with both groups a free one is always found. With one group each command queues a frame, and the ones that find the
  mailboxes full are dropped; `NoCommandLost` does not say that this cannot be, but that the set-point is not overwritten before a later frame has carried it. All of this is claimed only after one
  whole healthy cycle: until then a mailbox may hold a frame of any age, which is what an outage leaves behind.

`KeyDetectors_proofs`, the rapid-tap detector, for every clock, window, interval between updates and set of counts with
`TapMaxTick + MaxGap < TickMod`:

* `TypeCorrect`, `NeverWithoutReason` (`NoFalseRush`), `AlwaysWithReason` (`NoMissedRush`).
* The invariant relates the wrapped clock with the true age of the last tap: `Measured` (inside the window the difference of ticks is the
  age), `Forgotten` (outside it, where the difference may be anything, nothing is left of the run - this is what makes the wrap harmless:
  the update that first finds the window over clears the state, and `MaxGap` guarantees that there is one), `Counted`, `Deserved`, and `Exact` (counter
  and run agree until the event is on).

The sequence detector, for every sequence of keys (also with repetitions), every clock and limits that fit into it:

* `SeqTypeCorrect`, `OnlyWithSequence` (`NeverWithoutSequence`), `NeverMissed` (`NeverMissedFromIdle`).
* The invariant of the first two says what the detector's four fields remember of the whole history: `UnderWay` (there is a chain of updates that released the
  targets so far, each in time, and the clock measures the time since the last of them) and `Complete` (the chain is the whole sequence, and since its end the last key
  was always released recently). `ChainGrows` and `KeptOn` are the two steps: the new update prolongs the chain, or the
  event. The clock may be trusted as the lemmas on `TickClock` show: a time that was measured rightly is still measured rightly after an interval, if both fit into one round.
* The converse is the same induction turned round: `Following` says of every chain in the history that began when nothing was under way and was disturbed by
  no other key that the detector stands at its last key, for every prefix of the sequence and not only the whole of it, which is what makes it inductive.

`KeyDetectors` updates both detectors at one tick, as `DeviceRC::Update` does in its walk; what is proved of one alone is carried over to the pair that the run checks
(`DetectorsTypeCorrect`, `DetectorsRight`). Neither the list nor its order is modelled.

`RcReceive_proofs`, for every frame length, any set of lengths of bursts and any number of bursts:

* `TypeCorrect`, `CleanFramesAreDecoded` (`CleanFrameDecoded`), `OnePieceIsDecoded` (`RawIsOnePiece`), `OnlyTheSecondBuffer` (`StuckOnSecondBuffer`).
* The invariant follows a burst that began when everything was served: `Undisturbed` (no interrupt until its last byte), `Prepared` (the
  stream stands at the beginning of a buffer between the interrupt and the next byte: the reload makes up for the wrong stream), `Filling` (the burst's last bytes stand at the beginning of the
  target buffer, all of them if they fit), `Decoding` (the interrupt reads the buffer that was filled).

The decoder, in the same module, for every one of the 2^144 frames (the run visits 290):

* `DecodedRight` (`FieldsAreTheBits`), `OneFieldPerBit` (`OneBitOneField`).
* The code's `<<` and `|` put numbers side by side (`Joined`), its `&` and `>>` take them apart (`Split`), and both keep track of which bits of the frame a number is made
  of; each channel is a few such steps from the bytes. A number is what its bits say (`SameNumber`), which turns "no other bit changed" into "no other field changed".

`LockedReaders_proofs`, the updater's read of `rc_raw`, for any set of keys, any chord and any number of frames:

* `ReadersTypeCorrect` (`ReadersTypeOK`, of both readers), `PhantomsAreShort` (`PhantomChordIsShort`), `NoTwoFramesSkipped` (`NeverTwoFramesSkipped`).
* The invariant follows one update through its reads of `rc_raw`: a field read is not older than the update, one not yet read not older than the
  update before (`Recent`). `Phantom` is why a false chord ends: after the first one the next update begins with the
  frame its keys are from, which lacks a button; after the second it is the left one, which is read first.

thread2's read of the feedback, for any motors on the bus, any of them updated in any order, and any number of frames:

* `FeedbackOneFrameWide` (`FdbIsOneFrameWide`), `NewestFrameSurvives` (`NewestSurvives`).
* `Fresh` says that what the FIFO holds of a motor is newer than what `update_motor_feedback` has kept of it, and in order; `Counted` that the FIFO holds no more than has
  arrived since interrupts were masked; `Close` that between the two reads of `UpdateFdb` the kept frame is the one the position was read from, or the next one with
  none of the same motor left to come.

`RcEvents_proofs`, for any keys, buttons, results and queries of any switches (each edge queried once in a turn, `InputAssumption`), any two periods, and any interleaving:

* `TypeCorrect`, `ResultsOnce` (`ResultOnce`), `NeverThrice` (`AtMostTwice`), and, under `ScanTicks + Nap <= Period`, `PressesOnce` (`ReportedOnce`).
* The first part of the module computes where in thread2's loop each input is read, since `Loop` is concatenated from lists of any length. The invariants then
  speak only of what still lies ahead (`To`): a press may be reported now (`Now`), and once more before the next update (`Later`), and with every report one of the two is
  spent - hence never three (`BaseInv`, no timing needed). With the timing, `Prompt` says that the updater sleeps for longer than delay and turn still take, so an update is looked at
  wholly before the next one; then the count is exact: 0 while the edge is `Due`, 1 afterwards (`OnTimeInv`); of a switch that came another way the count is 1 from the beginning, since nothing is owed, and a query that reported it would make it 2. The hypothesis is a property of the build, five ticks against 7 and 2,
  and not of the code; beyond it a press may be lost or doubled (the periods of `rc_events_late`), which is why it is a hypothesis of the theorem and not an assumption on the constants.

`RtTimer_proofs`, for any timers, times below half the tick's range and any width of the tick:

* `TypeCorrect`, `ListSorted` (`SortedAndPunctual`), `ImplementsService` (every step is a step of `TimerService` or none: the refinement of `CallsInOrder` without its fairness).
* The two comparisons of the code wrap; `LaterIsMore`, `DueIsOver` and `TickTakesOne` translate them into the ticks left, which are true
  numbers as long as `Near` holds. `Sorted` carries the order of the list and, among equal ends, that of the starts. Inserting behind the last timer that does not end later is the
  step `ListLemmas` is made for.

`RtSemaphore_proofs`, for any threads, priorities, slices, nesting, and any use by threads and handlers:

* `HighestRuns` (`RunsTheHighest`), `TypesOK` (`TypeOK`), `InOneQueue` (`EachInOneQueue`), `TokensCounted` (`TokensAgree`), with `QueuesInductive` for the invariant itself.
* `RunsTheHighest` says nothing while the thread that has the processor owes a call of `rt_schedule`; when PendSV takes the processor away from it, that
  debt is no longer visible. The invariant `Chosen` is therefore stronger: while a switch is pending, the choice is right whatever the outgoing thread owes,
  because whoever asked for the switch has just made it. Every action is one of three kinds, with a lemma each: it owes a call (`Owed`), it leaves the choice
  alone (`Untouched`), or it makes it (`Schedules`).
* The queues' invariant `QInv` says where every thread is: the READY ones and no others in the ready lists (`ReadyLists`); who waits has no result yet and there
  is no token (`Waiters`); a running timer is a suspended thread's, and every suspended thread has somebody to wake it (`Sleepers`); where a thread that is not READY can be in its
  code (`Places`), and that it is started by one thread only (`Starts`); that the processor is with a READY thread, or one on its way to block (`Dispatch`); and that of the takers woken exactly those a
  release chose have `RT_EOK` (`Tokens`). Without `Places` a timeout could not be told from a release that came first.

`ListLemmas` proves what these need of sequences of any length. Where a fact needs induction over a number, it is done by a least counterexample
(`Least`, from the library's well-founded minimum), since the induction theorems themselves take an operator.

Only model-checked: the properties that need fairness (`EventuallyFresh`, `Follows`, `EachGetsItsTurn`, and the liveness part of `CallsInOrder`).

## 6. Plan

Order of work, most important behaviour first; all of the following is done.

1. `CanMotor`, its proofs. 2. `MotorCycle` on top of it. 3. `RcReceive`, its proofs. 4. `RcLatch` (with proofs) and `RcEvents`. 5. `RapidTap`, `KeySequence`,
   `KeyDetectors`, their proofs. 6. `SbusDecode`. 7. `RtTimer` against `TimerService`. 8. `RtThreads` and `RtSemaphore` on `TimerService`, with the proof of `RunsTheHighest`.
9. `CanFeedback`, next to `RcLatch`. 10. The proofs of all remaining invariants: the motor loop, both locked readers, the presses, the timer list and its refinement, the queues and tokens,
   the sequence detector's converse, the decoder.

What would come next:

11. The intrusive list of `Attach`; `Pid` on scaled integers (saturation and anti-windup); the index arithmetic of the PC link and the CRC tables as
   functions, outside the build.
12. An abstract specification of the semaphore (a counter, a set of waiters and their time limits) that `RtSemaphore` implements; one of the command path (the set-points each
   motor will follow) that `MotorCycle` implements once the link is healthy.

## 7. Not modelled

| Part | Why |
|---|---|
| `rt_thread_detach`, `rt_thread_suspend` of another thread, `rt_thread_control` | reachable through `~Thread()` and methods of the wrapper that nothing calls; no `Thread` is ever destroyed |
| Mailboxes, `rt_sem_detach` | nothing uses a mailbox or detaches a semaphore; mutexes, events and message queues are configured out |
| `rc_disable`, `rc_restart` | nothing calls them |
| CAN2's receive path | the same handler with an empty hook |
| `Attach`'s linked list | thread2 alone appends, with one store the updater's walk sees or does not; the detectors' models begin at any tick for that reason |
| PID | floating point, planned (11); the position mode, whose `temp_Pos` may be read uninitialised (`device_m3508.cpp:53`), is never selected |
| Control law, axes' scaling, `util.c` | floating point |
| The DMA event flags (`bsp_rc.c:146`, `160`) | the handler clears those of stream 2 and leaves stream 1's own transfer-complete flag as it is; whether the controller takes a stream up again with that flag set is a matter of the hardware, and `RcReceive` assumes that it does |
| Buzzer, music, tests on the target | register writes and fixed scores; the decision to sound is in `RcEvents` |
| finsh shell | third-party command line for debugging |
| Kernel objects, allocator, `kservice.c` | sequential library code; the heap is configured out |
| PC link, CRC | not part of the build |
| Start-up, other drivers of the ST library | vendor code, and by far the most lines of the repository, so that the models stand for a small share of them; `CAN_Transmit` and `CAN_Receive` are the functions with logic the program depends on |
| `Negative Number wait forever` (`clock.c:95`) | `rt_thread_mdelay` of a negative number would return at the next tick; nothing here passes one |
