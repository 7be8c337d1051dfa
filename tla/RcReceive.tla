------------------------------ MODULE RcReceive ------------------------------
(***************************************************************************)
(* Reception of the remote control's frames: src/Codes/src/bsp/bsp_rc.c.   *)
(*                                                                         *)
(* The receiver sends bursts of bytes; the UART raises IDLE when the line  *)
(* falls silent after a burst.  DMA2 stream 1 writes every byte into one   *)
(* of two buffers: CT says which, NDTR counts down, and when it reaches    *)
(* zero the stream reloads it and goes on in the other buffer.             *)
(* USART6_IRQHandler turns the burst just ended into rc_raw if it has the  *)
(* length of a frame, and prepares the stream for the next one - in its    *)
(* second branch with the CT bit of the wrong stream.                      *)
(*                                                                         *)
(* A byte is identified by the burst it belongs to and its place in it, so *)
(* that a mixture is seen as one.  The code's lengths are 18 and 36; only  *)
(* their ratio matters.                                                    *)
(***************************************************************************)
EXTENDS Integers

CONSTANTS
  FrameLen,   \* RC_FRAME_LENGTH
  BufLen,     \* SBUS_RX_BUF_NUM
  Lengths,    \* the lengths a burst may have: a frame, and what noise makes of it
  MaxBursts   \* bound on the number of bursts

ASSUME LengthAssumption ==
  /\ FrameLen \in Nat \ {0} /\ BufLen = 2 * FrameLen
  /\ Lengths \subseteq Nat \ {0}
ASSUME BoundAssumption == MaxBursts \in Nat

None == <<0, 0>>    \* the zeroed byte of no burst

VARIABLES
  burst,    \* the number of the last burst begun
  len,      \* its length
  sent,     \* how many of its bytes were received
  timely,   \* the interrupt of every earlier burst was done when it began
  buf,      \* SBUS_rx_buf
  ct,       \* the stream's current target
  ndtr,     \* the stream's data counter
  idle,     \* the UART's IDLE flag
  isr,      \* what USART6_IRQHandler is about to do
  raw       \* rc_raw: the bytes it was made from

line == <<burst, len, sent, timely>>
dma  == <<buf, ct, ndtr>>
vars == <<line, dma, idle, isr, raw>>

Byte  == {None} \cup (1..MaxBursts) \X Nat
Place == 0..BufLen - 1
Rest  == [at |-> "rest"]

TypeOK ==
  /\ burst \in 0..MaxBursts /\ len \in {0} \cup Lengths /\ sent \in 0..len
  /\ timely \in BOOLEAN /\ idle \in BOOLEAN
  /\ ct \in {0, 1} /\ ndtr \in 1..BufLen
  /\ buf \in [{0, 1} -> [Place -> Byte]]
  /\ isr \in {Rest} \cup [at : {"decode"}, from : {0, 1}]
  /\ raw \in [0..FrameLen - 1 -> Byte]

Init ==
  /\ burst = 0 /\ len = 0 /\ sent = 0 /\ timely = TRUE
  /\ buf = [b \in {0, 1} |-> [p \in Place |-> None]]
  /\ ct = 0 /\ ndtr = BufLen
  /\ idle = FALSE /\ isr = Rest
  /\ raw = [i \in 0..FrameLen - 1 |-> None]

-----------------------------------------------------------------------------
(* The line and the stream.                                                *)

Served == ~idle /\ isr = Rest

\* The interrupt may be late: it waits for others, and for masked sections.
BurstBegins ==
  /\ burst < MaxBursts /\ sent = len
  /\ burst' = burst + 1
  /\ len' \in Lengths /\ sent' = 0 /\ timely' = Served
  /\ UNCHANGED <<dma, idle, isr, raw>>

\* The stream stores a byte and counts down; IDLE follows the last byte.
ByteArrives ==
  /\ sent < len
  /\ sent' = sent + 1
  /\ buf' = [buf EXCEPT ![ct][BufLen - ndtr] = <<burst, sent>>]
  /\ IF ndtr = 1 THEN ndtr' = BufLen /\ ct' = 1 - ct
                 ELSE ndtr' = ndtr - 1 /\ ct' = ct
  /\ idle' = (idle \/ sent + 1 = len)
  /\ UNCHANGED <<burst, len, timely, isr, raw>>

-----------------------------------------------------------------------------
(* USART6_IRQHandler.                                                      *)

\* Mutants: the counter is not reloaded, or with one too many; both branches
\* retarget the stream they mean to.
Reload_Missing(n)  == n
Reload_OneMore(n)  == BufLen + 1
RetargetTo_Alternate(c) == 1 - c

Reload(n) == BufLen
\* The first branch sets CT of stream 1; the second clears CT of stream 2.
RetargetTo(c) == 1

\* Either branch: measure, reload, retarget; a frame is decoded afterwards,
\* with the stream running again.
ServeIdle ==
  /\ idle /\ isr = Rest
  /\ idle' = FALSE
  /\ ndtr' = Reload(ndtr)
  /\ ct' = RetargetTo(ct)
  /\ isr' = IF BufLen - ndtr = FrameLen THEN [at |-> "decode", from |-> ct] ELSE Rest
  /\ UNCHANGED <<line, buf, raw>>

\* SBUS_TO_RC.
Decode ==
  /\ isr # Rest
  /\ raw' = [i \in 0..FrameLen - 1 |-> buf[isr.from][i]]
  /\ isr' = Rest
  /\ UNCHANGED <<line, dma, idle>>

Next == BurstBegins \/ ByteArrives \/ ServeIdle \/ Decode
Spec == Init /\ [][Next]_vars

-----------------------------------------------------------------------------
(* Properties.                                                             *)

FrameOf(b) == [i \in 0..FrameLen - 1 |-> <<b, i>>]

\* What the rest of the program gets to see of a burst that was served in time
\* was sent in one piece: the last bytes of that burst, never bytes of two.
\* They are its only ones unless it ran a buffer over.
RawIsOnePiece ==
  [][timely /\ raw' # raw =>
       /\ raw' = [i \in 0..FrameLen - 1 |-> <<burst, (len - FrameLen) + i>>]
       /\ len < BufLen => len = FrameLen]_vars

\* A clean frame that begins after the earlier bursts were served is decoded,
\* whatever bursts of whatever length came before: damage does not outlive
\* its burst, although the second branch retargets the wrong stream.
CleanFrameDecoded ==
  burst > 0 /\ len = FrameLen /\ sent = len /\ timely /\ Served
    => raw = FrameOf(burst)

\* The two buffers do not alternate: after the first interrupt every burst
\* that fits a buffer goes to buffer 1 and is decoded from there, with the
\* stream already writing the next bytes to the place they are read from.
StuckOnSecondBuffer ==
  burst > 1 /\ timely /\ len < BufLen /\ isr # Rest => isr.from = 1 /\ ct = 1
=============================================================================
