-------------------------- MODULE RcReceive_proofs ---------------------------
(***************************************************************************)
(* For every frame length, all lengths of bursts and any number of them:   *)
(* the wrong stream in the second branch of USART6_IRQHandler leaves the   *)
(* driver on its second buffer, and it decodes every clean frame from it.  *)
(* For every frame, any of the 2^144: SBUS_TO_RC puts each bit into one    *)
(* field, at its place.                                                    *)
(***************************************************************************)
EXTENDS RcReceive, SbusDecode, ListLemmas

-----------------------------------------------------------------------------
(* The inductive invariant.                                                *)

\* A burst that begins when all is served is not disturbed by the interrupt
\* before its last byte, and interrupted once after it.
Undisturbed ==
  /\ burst = 0 => len = 0 /\ ~idle
  /\ timely /\ sent < len => ~idle /\ isr = Rest
  /\ timely /\ isr # Rest => ~idle

\* Between the interrupt and the next byte the stream is as the interrupt has
\* left it: at the beginning of the second buffer.
Prepared == sent = len /\ ~idle => ndtr = BufLen /\ (burst > 0 => ct = 1)

\* The burst is still being received, or its interrupt is yet to come.
Coming == timely /\ burst > 0 /\ (sent < len \/ idle)

\* Its last bytes fill the target buffer from the beginning, all of them if
\* they fit.
Stored == BufLen - ndtr
Filling ==
  Coming =>
    /\ Stored <= sent
    /\ len < BufLen => Stored = sent /\ (burst > 1 => ct = 1)
    /\ \A i \in 0..Stored - 1 : buf[ct][i] = <<burst, (sent - Stored) + i>>

\* The interrupt decodes the buffer that was filled.
Decoding ==
  timely /\ isr # Rest =>
    /\ len < BufLen => len = FrameLen /\ (burst > 1 => isr.from = 1)
    /\ \A i \in 0..FrameLen - 1 : buf[isr.from][i] = <<burst, (len - FrameLen) + i>>

\* The inductive invariant.
IInv == TypeOK /\ Undisturbed /\ Prepared /\ Filling /\ Decoding /\ CleanFrameDecoded

\* The lengths.
LEMMA Lens == /\ FrameLen \in Nat \ {0} /\ BufLen \in Nat \ {0} /\ FrameLen < BufLen
              /\ BufLen = 2 * FrameLen /\ MaxBursts \in Nat
BY LengthAssumption, BoundAssumption

\* The invariant holds initially.
LEMMA InitIInv == Init => IInv
<1> SUFFICES ASSUME Init PROVE IInv
  OBVIOUS
<1>1. burst = 0 /\ len = 0 /\ sent = 0 /\ ct = 0 /\ ndtr = BufLen /\ isr = Rest
  BY DEF Init
<1>2. timely \in BOOLEAN /\ idle \in BOOLEAN /\ ~idle
  BY Zenon DEF Init
<1>3. /\ buf \in [{0, 1} -> [Place -> Byte]]
      /\ raw \in [0..FrameLen - 1 -> Byte]
  BY DEF Init, Byte
<1>4. TypeOK
  BY <1>1, <1>2, <1>3, Lens DEF TypeOK
<1>5. Undisturbed /\ Prepared
  BY <1>1, <1>2 DEF Undisturbed, Prepared
<1>6. Filling /\ Decoding /\ CleanFrameDecoded
  BY <1>1 DEF Filling, Coming, Decoding, CleanFrameDecoded
<1> QED BY <1>4, <1>5, <1>6 DEF IInv

-----------------------------------------------------------------------------
(* The line.                                                               *)

\* The first byte of a burst keeps it,
LEMMA BurstBeginsIInv == ASSUME IInv, BurstBegins PROVE IInv'
<1>1. /\ burst < MaxBursts /\ burst' = burst + 1 /\ len' \in Lengths /\ sent' = 0 /\ sent = len
      /\ UNCHANGED <<buf, ct, ndtr, idle, isr, raw>>
  BY DEF BurstBegins, dma
<1>2. timely' \in BOOLEAN /\ (timely' => ~idle /\ isr = Rest)
  BY Zenon DEF BurstBegins, Served
<1>3. burst \in Nat /\ burst' \in 1..MaxBursts /\ len' \in Nat \ {0} /\ sent' \in 0..len'
  BY <1>1, LengthAssumption, Lens DEF IInv, TypeOK
<1>4. TypeOK'
  <2>1. burst' \in 0..MaxBursts /\ len' \in {0} \cup Lengths
    BY <1>1, <1>3
  <2> QED BY <1>1, <1>2, <1>3, <2>1, Zenon DEF IInv, TypeOK, Place, Byte
<1>5. sent' < len' /\ burst' # 0 /\ ~(sent' = len')
  BY <1>1, <1>3
<1>6. Undisturbed' /\ Prepared'
  BY <1>1, <1>2, <1>5, Zenon DEF Undisturbed, Prepared
<1>7. Filling'
  <2> SUFFICES ASSUME timely' PROVE Filling'
    BY Zenon DEF Filling, Coming
  <2>1. ndtr = BufLen /\ (burst > 0 => ct = 1)
    BY <1>1, <1>2, Zenon DEF IInv, Prepared
  <2>2. Stored' = 0 /\ (burst' > 1 => ct' = 1)
    BY <1>1, <1>3, <2>1, Lens DEF Stored
  <2> QED BY <1>1, <2>2 DEF Filling
<1>8. Decoding'
  BY <1>1, <1>2, Zenon DEF Decoding
<1>9. CleanFrameDecoded'
  BY <1>5, Zenon DEF CleanFrameDecoded
<1> QED BY <1>4, <1>6, <1>7, <1>8, <1>9 DEF IInv

\* each byte,
LEMMA ByteArrivesIInv == ASSUME IInv, ByteArrives PROVE IInv'
<1>1. /\ sent < len /\ sent' = sent + 1
      /\ buf' = [buf EXCEPT ![ct][BufLen - ndtr] = <<burst, sent>>]
      /\ IF ndtr = 1 THEN ndtr' = BufLen /\ ct' = 1 - ct ELSE ndtr' = ndtr - 1 /\ ct' = ct
      /\ UNCHANGED <<burst, len, isr, raw>>
  BY DEF ByteArrives
<1>2. /\ timely' = timely /\ timely \in BOOLEAN /\ idle' \in BOOLEAN
      /\ idle' <=> idle \/ sent + 1 = len
  BY Zenon DEF ByteArrives, IInv, TypeOK
<1>3. /\ len \in Nat /\ sent \in Nat /\ sent' \in 0..len /\ burst \in 1..MaxBursts
      /\ ndtr \in 1..BufLen /\ ct \in {0, 1} /\ BufLen - ndtr \in Place
      /\ ndtr' \in 1..BufLen /\ ct' \in {0, 1}
  <2>1. burst \in 0..MaxBursts /\ len \in Nat /\ sent \in 0..len /\ ndtr \in 1..BufLen
        /\ ct \in {0, 1}
    BY LengthAssumption DEF IInv, TypeOK
  <2>2. burst # 0
    BY <1>1, <2>1 DEF IInv, Undisturbed
  <2>3. ndtr' \in 1..BufLen /\ ct' \in {0, 1}
    BY <1>1, <2>1, Lens
  <2> QED BY <1>1, <2>1, <2>2, <2>3, Lens DEF Place
<1>4. TypeOK'
  <2>1. <<burst, sent>> \in Byte
    BY <1>3 DEF Byte
  <2>2. buf' \in [{0, 1} -> [Place -> Byte]]
    BY <1>1, <1>3, <2>1 DEF IInv, TypeOK
  <2> QED BY <1>1, <1>2, <1>3, <2>2, Zenon DEF IInv, TypeOK, Place, Byte
<1>5. timely => ~idle /\ isr = Rest
  BY <1>1, Zenon DEF IInv, Undisturbed
<1>6. Undisturbed'
  <2>1. burst' # 0
    BY <1>1, <1>3
  <2>2. sent' < len' => sent + 1 # len
    BY <1>1, <1>3
  <2> QED BY <1>1, <1>2, <1>5, <2>1, <2>2, Zenon DEF Undisturbed
<1>7. Prepared'
  <2>1. sent' = len' => idle'
    BY <1>1, <1>2
  <2> QED BY <2>1, Zenon DEF Prepared
<1>8. Filling'
  <2> SUFFICES ASSUME timely' PROVE Filling'
    BY Zenon DEF Filling, Coming
  <2>1. Coming
    BY <1>1, <1>2, <1>3 DEF Coming
  <2>2. /\ Stored <= sent /\ (len < BufLen => Stored = sent /\ (burst > 1 => ct = 1))
        /\ \A i \in 0..Stored - 1 : buf[ct][i] = <<burst, (sent - Stored) + i>>
    BY <2>1, Zenon DEF IInv, Filling
  <2>3. Stored \in Place /\ Stored = BufLen - ndtr
    BY <1>3 DEF Stored
  <2>4. CASE ndtr = 1
    <3>1. Stored' = 0 /\ ~ (len < BufLen)
      BY <1>1, <1>3, <2>2, <2>3, <2>4, Lens DEF Stored
    <3> QED BY <1>1, <1>3, <3>1 DEF Filling
  <2>5. CASE ndtr # 1
    <3>1. ct' = ct /\ Stored' = Stored + 1 /\ sent' - Stored' = sent - Stored
      BY <1>1, <1>3, <2>3, <2>5, Lens DEF Stored, Place
    <3>2. /\ buf'[ct][Stored] = <<burst, sent>>
          /\ \A i \in Place \ {Stored} : buf'[ct][i] = buf[ct][i]
      BY <1>1, <1>3, <2>3 DEF IInv, TypeOK
    <3>3. (sent - Stored) + Stored = sent
      BY <1>3, <2>3, Lens DEF Place
    <3>4. ASSUME NEW i \in 0..Stored' - 1
          PROVE  buf'[ct'][i] = <<burst', (sent' - Stored') + i>>
      <4>1. i = Stored \/ i \in 0..Stored - 1
        BY <2>3, <3>1, Lens DEF Place
      <4>2. i \in 0..Stored - 1 => i \in Place \ {Stored}
        BY <2>3, Lens DEF Place
      <4> QED BY <1>1, <2>2, <3>1, <3>2, <3>3, <4>1, <4>2
    <3>5. Stored' <= sent' /\ (len' < BufLen => Stored' = sent' /\ (burst' > 1 => ct' = 1))
      BY <1>1, <1>3, <2>2, <2>3, <3>1, Lens DEF Place
    <3> QED BY <3>4, <3>5, Zenon DEF Filling
  <2> QED BY <2>4, <2>5
<1>9. Decoding'
  BY <1>1, <1>2, <1>5, Zenon DEF Decoding
<1>10. CleanFrameDecoded'
  <2>1. sent' = len' => idle'
    BY <1>1, <1>2
  <2> QED BY <2>1, Zenon DEF CleanFrameDecoded, Served
<1> QED BY <1>4, <1>6, <1>7, <1>8, <1>9, <1>10 DEF IInv

-----------------------------------------------------------------------------
(* The interrupt.                                                          *)

\* the interrupt,
LEMMA ServeIdleIInv == ASSUME IInv, ServeIdle PROVE IInv'
<1>1. /\ isr = Rest /\ ndtr' = BufLen /\ ct' = 1
      /\ isr' = IF BufLen - ndtr = FrameLen THEN [at |-> "decode", from |-> ct] ELSE Rest
      /\ UNCHANGED <<burst, len, sent, buf, raw>>
  BY DEF ServeIdle, Reload, RetargetTo, line
<1>2. idle /\ ~idle' /\ idle' \in BOOLEAN /\ timely' = timely /\ timely \in BOOLEAN
  BY Zenon DEF ServeIdle, line, IInv, TypeOK
<1>3. /\ len \in Nat /\ sent \in 0..len /\ burst \in Nat
      /\ ndtr \in 1..BufLen /\ ct \in {0, 1}
  BY LengthAssumption, Lens DEF IInv, TypeOK
<1>4. TypeOK'
  <2>1. isr' \in {Rest} \cup [at : {"decode"}, from : {0, 1}]
    BY <1>1, <1>3
  <2>2. ndtr' \in 1..BufLen /\ ct' \in {0, 1}
    BY <1>1, Lens
  <2> QED BY <1>1, <1>2, <2>1, <2>2, Zenon DEF IInv, TypeOK, Place, Byte
<1>5. timely => ~(sent < len)
  BY <1>2, Zenon DEF IInv, Undisturbed
<1>6. Undisturbed' /\ Prepared'
  BY <1>1, <1>2, <1>5, Zenon DEF IInv, Undisturbed, Prepared
<1>7. Filling'
  BY <1>1, <1>2, <1>5, Zenon DEF Filling, Coming
<1>8. ASSUME timely
      PROVE  /\ len < BufLen => Stored = len /\ (burst > 1 => ct = 1)
             /\ \A i \in 0..Stored - 1 : buf[ct][i] = <<burst, (len - Stored) + i>>
  <2>1. burst # 0
    BY <1>2, Zenon DEF IInv, Undisturbed
  <2>2. Coming /\ sent = len
    BY <1>2, <1>3, <1>5, <1>8, <2>1 DEF Coming
  <2> QED BY <2>2 DEF IInv, Filling
<1>9. isr' = IF Stored = FrameLen THEN [at |-> "decode", from |-> ct] ELSE Rest
  BY <1>1 DEF Stored
<1>10. Decoding'
  <2> SUFFICES ASSUME timely, isr' # Rest
               PROVE  /\ len < BufLen => len = FrameLen /\ (burst > 1 => isr'.from = 1)
                      /\ \A i \in 0..FrameLen - 1 :
                           buf[isr'.from][i] = <<burst, (len - FrameLen) + i>>
    BY <1>1, <1>2, Zenon DEF Decoding
  <2>1. isr'.from = ct /\ Stored = FrameLen
    BY <1>9
  <2> QED BY <1>8, <2>1
<1>11. CleanFrameDecoded'
  <2> SUFFICES ASSUME burst > 0, len = FrameLen, timely PROVE isr' # Rest
    BY <1>1, <1>2, Zenon DEF CleanFrameDecoded, Served
  <2>1. Stored = FrameLen
    BY <1>8, Lens
  <2>2. isr' = [at |-> "decode", from |-> ct]
    BY <1>9, <2>1
  <2> QED BY <2>2 DEF Rest
<1> QED BY <1>4, <1>6, <1>7, <1>10, <1>11 DEF IInv

\* each byte decoded,
LEMMA DecodeIInv == ASSUME IInv, Decode PROVE IInv'
<1>1. /\ isr # Rest /\ isr' = Rest
      /\ raw' = [i \in 0..FrameLen - 1 |-> buf[isr.from][i]]
      /\ UNCHANGED <<burst, len, sent, buf, ct, ndtr>>
  BY DEF Decode, line, dma
<1>2. idle' = idle /\ timely' = timely
  BY Zenon DEF Decode, line
<1>3. TypeOK'
  <2>1. isr.from \in {0, 1} /\ buf \in [{0, 1} -> [Place -> Byte]]
    BY <1>1 DEF IInv, TypeOK
  <2>2. \A i \in 0..FrameLen - 1 : i \in Place
    BY Lens DEF Place
  <2>3. raw' \in [0..FrameLen - 1 -> Byte]
    BY <1>1, <2>1, <2>2
  <2> QED BY <1>1, <1>2, <2>3, Zenon DEF IInv, TypeOK, Place, Byte
<1>4. Undisturbed' /\ Prepared' /\ Filling' /\ Decoding'
  BY <1>1, <1>2, Zenon DEF IInv, Undisturbed, Prepared, Filling, Coming, Stored, Decoding
<1>5. CleanFrameDecoded'
  <2> SUFFICES ASSUME burst > 0, len = FrameLen, timely PROVE raw' = FrameOf(burst)
    BY <1>1, <1>2, Zenon DEF CleanFrameDecoded, FrameOf
  <2>1. \A i \in 0..FrameLen - 1 : buf[isr.from][i] = <<burst, (len - FrameLen) + i>>
    BY <1>1, <1>2, Zenon DEF IInv, Decoding
  <2>2. \A i \in 0..FrameLen - 1 : (len - FrameLen) + i = i
    BY Lens
  <2> QED BY <1>1, <2>1, <2>2 DEF FrameOf
<1> QED BY <1>3, <1>4, <1>5 DEF IInv

\* and so every step.
LEMMA NextIInv == IInv /\ [Next]_vars => IInv'
<1> SUFFICES ASSUME IInv, [Next]_vars PROVE IInv'
  OBVIOUS
<1>1. CASE UNCHANGED vars
  BY <1>1, Zenon DEF vars, line, dma, IInv, TypeOK, Undisturbed, Prepared, Filling, Coming, Decoding,
              Stored, CleanFrameDecoded, Served, Place, Byte, FrameOf
<1> QED BY <1>1, BurstBeginsIInv, ByteArrivesIInv, ServeIdleIInv, DecodeIInv DEF Next

\* The invariant holds throughout.
THEOREM Inductive == Spec => []IInv
BY InitIInv, NextIInv, PTL DEF Spec

-----------------------------------------------------------------------------
\* The counter, the target and what is read from the buffers stay in range,
\* whatever bursts come.
THEOREM TypeCorrect == Spec => []TypeOK
<1>1. IInv => TypeOK
  BY DEF IInv
<1> QED BY <1>1, Inductive, PTL

\* A clean frame that begins after the earlier bursts were served is decoded,
\* however the line was disturbed before.
THEOREM CleanFramesAreDecoded == Spec => []CleanFrameDecoded
<1>1. IInv => CleanFrameDecoded
  BY DEF IInv
<1> QED BY <1>1, Inductive, PTL

\* What is decoded of a burst served in time is its last bytes, and only a
\* burst that ran a buffer over has others.
THEOREM OnePieceIsDecoded == Spec => RawIsOnePiece
<1>1. ASSUME IInv, [Next]_vars, timely, raw' # raw
      PROVE  /\ raw' = [i \in 0..FrameLen - 1 |-> <<burst, (len - FrameLen) + i>>]
             /\ len < BufLen => len = FrameLen
  <2>1. isr # Rest /\ raw' = [i \in 0..FrameLen - 1 |-> buf[isr.from][i]]
    BY <1>1 DEF Next, BurstBegins, ByteArrives, ServeIdle, Decode, vars
  <2> QED BY <1>1, <2>1 DEF IInv, Decoding
<1>2. IInv /\ [Next]_vars =>
        [timely /\ raw' # raw =>
           /\ raw' = [i \in 0..FrameLen - 1 |-> <<burst, (len - FrameLen) + i>>]
           /\ len < BufLen => len = FrameLen]_vars
  BY <1>1, Zenon
<1> QED BY <1>2, Inductive, PTL DEF Spec, RawIsOnePiece

\* After the first interrupt the driver receives and decodes on its second
\* buffer only.
THEOREM OnlyTheSecondBuffer == Spec => []StuckOnSecondBuffer
<1>1. ASSUME IInv, burst > 1, timely, len < BufLen, isr # Rest PROVE isr.from = 1 /\ ct = 1
  <2>1. sent = len /\ burst > 0
    BY <1>1, LengthAssumption, Lens DEF IInv, TypeOK, Undisturbed
  <2>2. ~idle
    BY <1>1, Zenon DEF IInv, Undisturbed
  <2>3. ct = 1
    BY <1>1, <2>1, <2>2, Zenon DEF IInv, Prepared
  <2> QED BY <1>1, <2>3, Zenon DEF IInv, Decoding
<1>2. IInv => StuckOnSecondBuffer
  BY <1>1, Zenon DEF StuckOnSecondBuffer
<1> QED BY <1>2, Inductive, PTL

-----------------------------------------------------------------------------
(* The bits of a number.                                                   *)

\* What division and remainder are.
LEMMA Quotient ==
  ASSUME NEW a \in Nat \ {0}, NEW v \in Nat
  PROVE  /\ v \div a \in Nat /\ v % a \in 0..a - 1
         /\ v = a * (v \div a) + (v % a)
OBVIOUS

\* They are the only ones.
LEMMA QuotientUnique ==
  ASSUME NEW a \in Nat \ {0}, NEW q \in Nat, NEW r \in 0..a - 1
  PROVE  (a * q + r) \div a = q /\ (a * q + r) % a = r
OBVIOUS

\* Multiples may be taken out of a division ...
LEMMA TakeOut ==
  ASSUME NEW a \in Nat \ {0}, NEW v \in Nat, NEW c \in Nat
  PROVE  (v + a * c) \div a = v \div a + c
<1> DEFINE q == v \div a
           r == v % a
<1>1. q \in Nat /\ r \in 0..a - 1 /\ v = a * q + r
  BY Quotient
<1> HIDE DEF q, r
<1>2. v + a * c = a * (q + c) + r /\ q + c \in Nat
  BY <1>1
<1>3. (a * (q + c) + r) \div a = q + c
  BY <1>1, <1>2, QuotientUnique
<1>4. (v + a * c) \div a = q + c
  BY <1>2, <1>3
<1> QED BY <1>4 DEF q

\* ... and two divisions are one.
LEMMA DivideTwice ==
  ASSUME NEW a \in Nat \ {0}, NEW b \in Nat \ {0}, NEW v \in Nat
  PROVE  (v \div a) \div b = v \div (a * b)
<1> DEFINE q == v \div a
           r == v % a
           s == q \div b
           t == q % b
<1>1. q \in Nat /\ r \in 0..a - 1 /\ v = a * q + r
  BY Quotient
<1>2. s \in Nat /\ t \in 0..b - 1 /\ q = b * s + t
  BY <1>1, Quotient
<1> HIDE DEF q, r, s, t
<1>3. a * b \in Nat \ {0}
  BY SMT
<1>4. a * t + r \in 0..(a * b) - 1
  <2>1. a * t <= a * (b - 1) /\ a * t >= 0 /\ a * t \in Int
    BY <1>2
  <2> QED BY <2>1, <1>1
<1>5. v = (a * b) * s + (a * t + r)
  <2>1. a * (b * s + t) = (a * b) * s + a * t
    BY <1>2
  <2> QED BY <2>1, <1>1, <1>2
<1>6. v \div (a * b) = s
  BY <1>2, <1>3, <1>4, <1>5, QuotientUnique
<1> QED BY <1>6 DEF q, s

\* The powers of two that occur.
LEMMA Double ==
  ASSUME NEW n \in 0..17
  PROVE  2^(n + 1) = 2 * 2^n /\ 2^n \in Nat \ {0}
<1>0. CASE n = 0
  BY <1>0
<1>1. CASE n = 1
  BY <1>1
<1>2. CASE n = 2
  BY <1>2
<1>3. CASE n = 3
  BY <1>3
<1>4. CASE n = 4
  BY <1>4
<1>5. CASE n = 5
  BY <1>5
<1>6. CASE n = 6
  BY <1>6
<1>7. CASE n = 7
  BY <1>7
<1>8. CASE n = 8
  BY <1>8
<1>9. CASE n = 9
  BY <1>9
<1>10. CASE n = 10
  BY <1>10
<1>11. CASE n = 11
  BY <1>11
<1>12. CASE n = 12
  BY <1>12
<1>13. CASE n = 13
  BY <1>13
<1>14. CASE n = 14
  BY <1>14
<1>15. CASE n = 15
  BY <1>15
<1>16. CASE n = 16
  BY <1>16
<1>17. CASE n = 17
  BY <1>17
<1> QED BY <1>0, <1>1, <1>2, <1>3, <1>4, <1>5, <1>6, <1>7, <1>8, <1>9, <1>10, <1>11, <1>12, <1>13, <1>14, <1>15, <1>16, <1>17

\* Each of them is a number.
LEMMA Power ==
  ASSUME NEW n \in 0..18
  PROVE  2^n \in Nat \ {0}
<1>1. CASE n = 18
  BY <1>1
<1>2. CASE n \in 0..17
  BY <1>2, Double
<1> QED BY <1>1, <1>2

\* Shifting twice is shifting once by the sum.
LEMMA PowerSum ==
  ASSUME NEW n \in Nat, NEW m \in Nat, n + m <= 18
  PROVE  2^(n + m) = 2^n * 2^m
<1> DEFINE Wrong == {k \in Nat : n + k <= 18 /\ 2^(n + k) # 2^n * 2^k}
<1> SUFFICES ASSUME Wrong # {} PROVE FALSE
  OBVIOUS
<1>1. PICK k \in Wrong : \A j \in Wrong : k <= j
  <2>1. Wrong \in SUBSET Nat
    OBVIOUS
  <2> QED BY <2>1, Least
<1>2. k # 0
  <2>1. n \in 0..18 /\ n + 0 = n /\ 2^0 = 1
    OBVIOUS
  <2>2. 2^n \in Nat
    BY <2>1, Power
  <2>3. ASSUME k = 0 PROVE FALSE
    <3>1. 2^(n + k) = 2^n /\ 2^k = 1
      BY <2>1, <2>3
    <3> QED BY <1>1, <2>2, <3>1
  <2> QED BY <2>3
<1>3. k - 1 \in Nat /\ k - 1 \notin Wrong /\ n + (k - 1) \in 0..17 /\ k - 1 \in 0..17 /\ n \in 0..18
  BY <1>1, <1>2
<1>4. 2^(n + (k - 1)) = 2^n * 2^(k - 1)
  BY <1>3
<1>5. (n + (k - 1)) + 1 = n + k /\ (k - 1) + 1 = k
  BY <1>1
<1>6. 2^(n + k) = 2 * 2^(n + (k - 1)) /\ 2^k = 2 * 2^(k - 1)
  BY <1>3, <1>5, Double
<1>7. 2^n \in Nat /\ 2^(k - 1) \in Nat
  <2>1. PICK j \in 0..18 : j = k - 1
    BY <1>3
  <2>2. 2^j \in Nat /\ 2^n \in Nat
    BY <1>3, Power
  <2> QED BY <2>1, <2>2
<1>8. 2 * (2^n * 2^(k - 1)) = 2^n * (2 * 2^(k - 1))
  BY <1>7
<1> QED BY <1>1, <1>4, <1>6, <1>8

\* The number v has the bits of the set S from place lo on.
HasBitsOf(S, v, lo, n) ==
  v \in 0..2^n - 1 /\ \A k \in 0..n - 1 : (v \div 2^k) % 2 = IF lo + k \in S THEN 1 ELSE 0

\* Two numbers side by side, n bits and m bits: what the code's | makes.
LEMMA Joined ==
  ASSUME NEW S, NEW u, NEW w, NEW lo \in Nat, NEW n \in Nat, NEW m \in Nat, n + m <= 18,
         HasBitsOf(S, u, lo, n), HasBitsOf(S, w, lo + n, m)
  PROVE  HasBitsOf(S, u + 2^n * w, lo, n + m)
<1> DEFINE p == 2^n
           q == 2^m
           v == u + p * w
<1>1. p \in Nat \ {0} /\ q \in Nat \ {0} /\ 2^(n + m) = p * q
  <2>1. n \in 0..18 /\ m \in 0..18
    OBVIOUS
  <2> QED BY <2>1, Power, PowerSum
<1>2. u \in 0..p - 1 /\ w \in 0..q - 1
  BY DEF HasBitsOf
<1>3. v \in 0..(p * q) - 1
  <2> HIDE DEF p, q
  <2>1. p * w <= p * (q - 1) /\ p * w >= 0 /\ p * w \in Int
    BY <1>1, <1>2
  <2> QED BY <2>1, <1>1, <1>2
<1>4. ASSUME NEW k \in 0..(n + m) - 1, k < n
      PROVE  (v \div 2^k) % 2 = IF lo + k \in S THEN 1 ELSE 0
  <2> DEFINE a == 2^k
             c == 2^(n - k - 1)
  <2>1. a \in Nat \ {0} /\ c \in Nat /\ p = a * (2 * c)
    <3>1. k \in Nat /\ n - k - 1 \in Nat /\ n - k \in Nat /\ k + (n - k) = n /\ (n - k - 1) + 1 = n - k
      BY <1>4
    <3>2. p = a * 2^(n - k)
      BY <3>1, PowerSum
    <3>3. n - k - 1 \in 0..17 /\ k \in 0..18
      BY <3>1
    <3>4. 2^(n - k) = 2 * c /\ c \in Nat
      <4>1. PICK j \in 0..17 : j = n - k - 1
        BY <3>3
      <4>2. 2^(j + 1) = 2 * 2^j /\ 2^j \in Nat /\ j + 1 = n - k
        BY <4>1, <3>1, Double
      <4> QED BY <4>1, <4>2
    <3>5. a \in Nat \ {0}
      BY <3>3, Power
    <3> QED BY <3>2, <3>4, <3>5
  <2>2. (v \div a) = (u \div a) + 2 * (c * w)
    <3> HIDE DEF p, q, a, c
    <3>1. v = u + a * ((2 * c) * w) /\ (2 * c) * w \in Nat /\ (2 * c) * w = 2 * (c * w)
      BY <1>2, <2>1, SMTT(30)
    <3> HIDE DEF v
    <3>2. (u + a * ((2 * c) * w)) \div a = (u \div a) + (2 * c) * w
      <4>1. u \in Nat
        BY <1>1, <1>2
      <4>2. PICK d \in Nat : d = (2 * c) * w
        BY <3>1
      <4>3. (u + a * d) \div a = (u \div a) + d
        BY <4>1, <2>1, TakeOut
      <4> QED BY <4>2, <4>3
    <3> QED BY <3>1, <3>2
  <2>3. (u \div a) \in Nat /\ c * w \in Nat
    <3>1. u \in Nat /\ w \in Nat
      BY <1>1, <1>2
    <3>2. a \in Nat \ {0} /\ c \in Nat
      BY <2>1
    <3> HIDE DEF a, c
    <3>3. (u \div a) \in Nat
      BY <3>1, <3>2, Quotient
    <3>4. c * w \in Nat
      BY <3>1, <3>2
    <3> QED BY <3>3, <3>4
  <2>4. ((u \div a) + 2 * (c * w)) % 2 = (u \div a) % 2
    <3> HIDE DEF a, c
    <3> QED BY <2>3
  <2>5. (u \div a) % 2 = IF lo + k \in S THEN 1 ELSE 0
    BY <1>4 DEF HasBitsOf
  <2> QED BY <2>2, <2>4, <2>5
<1>5. ASSUME NEW k \in 0..(n + m) - 1, ~ (k < n)
      PROVE  (v \div 2^k) % 2 = IF lo + k \in S THEN 1 ELSE 0
  <2> DEFINE b == 2^(k - n)
  <2>1. k - n \in 0..m - 1 /\ n + (k - n) = k /\ (lo + n) + (k - n) = lo + k /\ k - n \in 0..18
    BY <1>5
  <2>2. 2^k = p * b /\ b \in Nat \ {0}
    <3>1. b \in Nat \ {0}
      BY <2>1, Power
    <3>2. 2^(n + (k - n)) = 2^n * 2^(k - n)
      BY <2>1, PowerSum
    <3> QED BY <2>1, <3>1, <3>2
  <2>3. v \div (p * b) = (v \div p) \div b
    BY <1>1, <1>3, <2>2, DivideTwice
  <2>4. v \div p = w
    <3>1. (u + p * w) \div p = (u \div p) + w /\ u \div p = 0
      <4> HIDE DEF p, q
      <4>1. (u + p * w) \div p = (u \div p) + w
        <5>1. u \in Nat /\ w \in Nat
          BY <1>1, <1>2
        <5> QED BY <5>1, <1>1, TakeOut
      <4>2. u = p * 0 + u
        BY <1>1, <1>2
      <4>3. (p * 0 + u) \div p = 0
        BY <1>1, <1>2, QuotientUnique
      <4> QED BY <4>1, <4>2, <4>3
    <3> QED BY <3>1, <1>2
  <2>5. (w \div b) % 2 = IF lo + k \in S THEN 1 ELSE 0
    BY <2>1 DEF HasBitsOf
  <2> QED BY <2>2, <2>3, <2>4, <2>5
<1> QED BY <1>1, <1>3, <1>4, <1>5 DEF HasBitsOf

\* The low n bits are the remainder, the others the quotient: & and >>.
LEMMA Split ==
  ASSUME NEW S, NEW v, NEW lo \in Nat, NEW n \in Nat, NEW m \in Nat, n + m <= 18,
         HasBitsOf(S, v, lo, n + m)
  PROVE  HasBitsOf(S, v % 2^n, lo, n) /\ HasBitsOf(S, v \div 2^n, lo + n, m)
<1> DEFINE p == 2^n
           q == 2^m
           u == v % p
           w == v \div p
<1>1. p \in Nat \ {0} /\ q \in Nat \ {0} /\ 2^(n + m) = p * q
  <2>1. n \in 0..18 /\ m \in 0..18
    OBVIOUS
  <2> QED BY <2>1, Power, PowerSum
<1>2. v \in 0..(p * q) - 1
  BY <1>1 DEF HasBitsOf
<1>3. u \in 0..p - 1 /\ w \in Nat /\ v = p * w + u
  <2>1. v \in Nat
    BY <1>1, <1>2
  <2> HIDE DEF p, q
  <2> QED BY <2>1, <1>1, Quotient
<1>4. w \in 0..q - 1
  <2> HIDE DEF p, q, u, w
  <2>1. ASSUME w >= q PROVE FALSE
    <3>1. p * w >= p * q /\ p * w \in Nat
      BY <1>1, <1>3, <2>1
    <3> QED BY <3>1, <1>1, <1>2, <1>3
  <2> QED BY <2>1, <1>1, <1>3
<1>5. ASSUME NEW k \in 0..n - 1
      PROVE  (u \div 2^k) % 2 = IF lo + k \in S THEN 1 ELSE 0
  <2> DEFINE a == 2^k
             c == 2^(n - k - 1)
  <2>1. a \in Nat \ {0} /\ c \in Nat /\ p = a * (2 * c)
    <3>1. k \in Nat /\ n - k - 1 \in Nat /\ n - k \in Nat /\ k + (n - k) = n /\ (n - k - 1) + 1 = n - k
      BY <1>5
    <3>2. p = a * 2^(n - k)
      BY <3>1, PowerSum
    <3>3. n - k - 1 \in 0..17 /\ k \in 0..18
      BY <3>1
    <3>4. 2^(n - k) = 2 * c /\ c \in Nat
      <4>1. PICK j \in 0..17 : j = n - k - 1
        BY <3>3
      <4>2. 2^(j + 1) = 2 * 2^j /\ 2^j \in Nat /\ j + 1 = n - k
        BY <4>1, <3>1, Double
      <4> QED BY <4>1, <4>2
    <3>5. a \in Nat \ {0}
      BY <3>3, Power
    <3> QED BY <3>2, <3>4, <3>5
  <2>2. (v \div a) = (u \div a) + 2 * (c * w)
    <3> HIDE DEF p, q, a, c, u, w
    <3>1. v = u + a * ((2 * c) * w) /\ (2 * c) * w \in Nat /\ (2 * c) * w = 2 * (c * w)
      BY <1>3, <2>1, SMTT(30)
    <3>2. (u + a * ((2 * c) * w)) \div a = (u \div a) + (2 * c) * w
      <4>1. u \in Nat
        BY <1>1, <1>3
      <4>2. PICK d \in Nat : d = (2 * c) * w
        BY <3>1
      <4>3. (u + a * d) \div a = (u \div a) + d
        BY <4>1, <2>1, TakeOut
      <4> QED BY <4>2, <4>3
    <3> QED BY <3>1, <3>2
  <2>3. (u \div a) \in Nat /\ c * w \in Nat
    BY <1>3, <2>1, <1>1, Quotient
  <2>4. ((u \div a) + 2 * (c * w)) % 2 = (u \div a) % 2
    <3> HIDE DEF a, c, u, w
    <3> QED BY <2>3
  <2>5. (v \div a) % 2 = IF lo + k \in S THEN 1 ELSE 0
    BY <1>5 DEF HasBitsOf
  <2> QED BY <2>2, <2>4, <2>5
<1>6. ASSUME NEW k \in 0..m - 1
      PROVE  (w \div 2^k) % 2 = IF (lo + n) + k \in S THEN 1 ELSE 0
  <2> DEFINE b == 2^k
  <2>1. n + k \in 0..(n + m) - 1 /\ (lo + n) + k = lo + (n + k) /\ k \in 0..18
    BY <1>6
  <2>2. 2^(n + k) = p * b /\ b \in Nat \ {0}
    <3>1. b \in Nat \ {0}
      BY <2>1, Power
    <3> QED BY <2>1, <3>1, PowerSum
  <2>3. v \div (p * b) = (v \div p) \div b
    BY <1>1, <1>2, <2>2, DivideTwice
  <2>4. (v \div 2^(n + k)) % 2 = IF lo + (n + k) \in S THEN 1 ELSE 0
    BY <2>1 DEF HasBitsOf
  <2> QED BY <2>1, <2>2, <2>3, <2>4
<1> QED BY <1>3, <1>4, <1>5, <1>6 DEF HasBitsOf

\* A number is what its bits say.
LEMMA SameNumber ==
  ASSUME NEW S, NEW T, NEW n \in 0..18, NEW lo \in Nat, NEW u, NEW w,
         HasBitsOf(S, u, lo, n), HasBitsOf(T, w, lo, n),
         \A b \in lo..lo + n - 1 : b \in S <=> b \in T
  PROVE  u = w
<1> DEFINE Twins(m, l, x, y) == /\ HasBitsOf(S, x, l, m) /\ HasBitsOf(T, y, l, m)
                                /\ \A b \in l..l + m - 1 : b \in S <=> b \in T
           Wrong == {m \in 0..18 : \E l \in Nat : \E x, y : Twins(m, l, x, y) /\ x # y}
<1> SUFFICES ASSUME Wrong # {} PROVE FALSE
  OBVIOUS
<1>1. PICK m \in Wrong : \A j \in Wrong : m <= j
  <2>1. Wrong \in SUBSET Nat
    OBVIOUS
  <2> QED BY <2>1, Least
<1>2. PICK l \in Nat : \E x, y : Twins(m, l, x, y) /\ x # y
  BY <1>1
<1> PICK x, y : Twins(m, l, x, y) /\ x # y
  BY <1>2
<1>3. m # 0
  <2> SUFFICES ASSUME m = 0 PROVE FALSE
    OBVIOUS
  <2>1. x \in 0..2^0 - 1 /\ y \in 0..2^0 - 1
    BY <1>2 DEF HasBitsOf
  <2> QED BY <2>1, <1>2
<1>4. m - 1 \in 0..17 /\ 1 + (m - 1) = m /\ 2^1 = 2
  BY <1>1, <1>3
<1>5. \A j \in {x, y} : j \in Nat
  <2>1. PICK q \in Nat : q = 2^m
    BY <1>1, Power
  <2> QED BY <1>2, <2>1 DEF HasBitsOf
<1>6. ASSUME NEW V, NEW j, HasBitsOf(V, j, l, m)
      PROVE  HasBitsOf(V, j \div 2, l + 1, m - 1) /\ (j % 2) = IF l \in V THEN 1 ELSE 0
  <2>1. PICK k \in Nat : k = m - 1 /\ 1 + k = m
    BY <1>4
  <2>2. HasBitsOf(V, j, l, 1 + k)
    BY <1>6, <2>1
  <2>3. HasBitsOf(V, j % 2^1, l, 1) /\ HasBitsOf(V, j \div 2^1, l + 1, k)
    <3>1. 1 + k <= 18 /\ 1 \in Nat
      BY <2>1, <1>4
    <3> QED BY <2>1, <2>2, <3>1, Split
  <2>4. (j % 2) \in 0..1 /\ (j % 2) = IF l + 0 \in V THEN 1 ELSE 0
    <3>1. 0 \in 0..1 - 1 /\ 2^0 = 1 /\ 2^1 = 2
      OBVIOUS
    <3>2. HasBitsOf(V, j % 2, l, 1)
      BY <2>3, <3>1
    <3>3. (j % 2) \in 0..2^1 - 1 /\ ((j % 2) \div 2^0) % 2 = IF l + 0 \in V THEN 1 ELSE 0
      BY <3>1, <3>2 DEF HasBitsOf
    <3>4. ((j % 2) \div 1) % 2 = j % 2
      BY <3>1, <3>3
    <3> QED BY <3>1, <3>3, <3>4
  <2> QED BY <2>1, <2>3, <2>4, <1>4
<1>7. Twins(m - 1, l + 1, x \div 2, y \div 2)
  <2>1. \A b \in l + 1..(l + 1) + (m - 1) - 1 : b \in l..l + m - 1
    BY <1>4
  <2> QED BY <1>2, <1>6, <2>1
<1>8. x \div 2 = y \div 2
  <2>1. m - 1 \notin Wrong /\ l + 1 \in Nat
    BY <1>1
  <2> HIDE DEF Twins
  <2> QED BY <1>4, <1>7, <2>1
<1>9. x % 2 = y % 2
  <2>1. l \in l..l + m - 1
    BY <1>4
  <2> QED BY <1>2, <1>6, <2>1
<1> QED BY <1>2, <1>5, <1>8, <1>9

-----------------------------------------------------------------------------
(* The bytes and words of a frame.                                         *)

\* The byte made of eight bits has those bits.
LEMMA ByteBits ==
  ASSUME NEW lo \in Nat
  PROVE  HasBitsOf(frame, ByteAt(lo), lo, 8)
<1> DEFINE b(k) == BitAt(lo + k)
           H(v, k, n) == HasBitsOf(frame, v, lo + k, n)
<1>1. ASSUME NEW k \in 0..7 PROVE b(k) \in 0..1 /\ H(b(k), k, 1)
  <2>1. b(k) \in 0..1 /\ 2^1 = 2 /\ 2^0 = 1
    BY DEF BitAt
  <2>2. (b(k) \div 1) % 2 = b(k)
    BY <2>1
  <2>3. (lo + k) + 0 = lo + k
    OBVIOUS
  <2> QED BY <2>1, <2>2, <2>3 DEF HasBitsOf, BitAt
<1>2. ASSUME NEW k \in 0..6, NEW v \in Nat, H(v, k + 1, 7 - k) PROVE H(b(k) + 2 * v, k, 8 - k)
  <2>1. H(b(k), k, 1) /\ 2^1 = 2 /\ lo + k \in Nat /\ (lo + k) + 1 = lo + (k + 1)
    BY <1>1
  <2>2. PICK m \in Nat : m = 7 - k /\ 1 + m = 8 - k /\ 1 + m <= 18
    OBVIOUS
  <2> HIDE DEF b
  <2>3. HasBitsOf(frame, v, (lo + k) + 1, m)
    BY <1>2, <2>1, <2>2
  <2>4. HasBitsOf(frame, b(k) + 2^1 * v, lo + k, 1 + m)
    BY <2>1, <2>2, <2>3, Joined
  <2> QED BY <2>1, <2>2, <2>4
<1> DEFINE w6 == b(6) + 2 * b(7)
           w5 == b(5) + 2 * w6
           w4 == b(4) + 2 * w5
           w3 == b(3) + 2 * w4
           w2 == b(2) + 2 * w3
           w1 == b(1) + 2 * w2
           w0 == b(0) + 2 * w1
<1>3. \A k \in 0..7 : b(k) \in 0..1
  BY <1>1
<1>4. w6 \in Nat /\ w5 \in Nat /\ w4 \in Nat /\ w3 \in Nat /\ w2 \in Nat /\ w1 \in Nat
  <2> HIDE DEF b
  <2> QED BY <1>3
<1>5. w0 = ByteAt(lo)
  <2>1. w0 = b(0) + 2 * b(1) + 4 * b(2) + 8 * b(3) + 16 * b(4) + 32 * b(5) + 64 * b(6) + 128 * b(7)
    <3> HIDE DEF b
    <3> QED BY <1>3
  <2> QED BY <2>1 DEF ByteAt
<1> HIDE DEF b, H
<1>6. H(w6, 6, 2)
  BY <1>1, <1>2, <1>3
<1> HIDE DEF w6
<1>7. H(w5, 5, 3)
  BY <1>2, <1>4, <1>6
<1> HIDE DEF w5
<1>8. H(w4, 4, 4)
  BY <1>2, <1>4, <1>7
<1> HIDE DEF w4
<1>9. H(w3, 3, 5)
  BY <1>2, <1>4, <1>8
<1> HIDE DEF w3
<1>10. H(w2, 2, 6)
  BY <1>2, <1>4, <1>9
<1> HIDE DEF w2
<1>11. H(w1, 1, 7)
  BY <1>2, <1>4, <1>10
<1> HIDE DEF w1
<1>12. H(w0, 0, 8)
  BY <1>2, <1>4, <1>11
<1> HIDE DEF w0
<1> QED BY <1>5, <1>12 DEF H

\* The same, with the places given: hi is where the upper part begins, all the
\* number of bits.
LEMMA Join ==
  ASSUME NEW u, NEW w, NEW lo \in Nat, NEW n \in Nat, NEW m \in Nat, NEW hi, NEW all,
         hi = lo + n, all = n + m, all <= 18,
         HasBitsOf(frame, u, lo, n), HasBitsOf(frame, w, hi, m)
  PROVE  HasBitsOf(frame, u + w * 2^n, lo, all)
<1>1. HasBitsOf(frame, u + 2^n * w, lo, n + m)
  BY Joined
<1>2. 2^n * w = w * 2^n
  <2>1. n \in 0..18 /\ m \in 0..18
    OBVIOUS
  <2>2. 2^n \in Nat /\ 2^m \in Nat
    BY <2>1, Power
  <2>3. w \in Nat
    BY <2>2 DEF HasBitsOf
  <2> QED BY <2>2, <2>3
<1> QED BY <1>1, <1>2

\* And apart again.
LEMMA Part ==
  ASSUME NEW v, NEW lo \in Nat, NEW n \in Nat, NEW m \in Nat, NEW hi, NEW all,
         hi = lo + n, all = n + m, all <= 18, HasBitsOf(frame, v, lo, all)
  PROVE  HasBitsOf(frame, v % 2^n, lo, n) /\ HasBitsOf(frame, v \div 2^n, hi, m)
BY Split

\* A number of n bits is below the n-th power.
LEMMA Below ==
  ASSUME NEW v, NEW lo, NEW n, NEW p, p = 2^n, HasBitsOf(frame, v, lo, n)
  PROVE  v \in 0..p - 1
BY DEF HasBitsOf

\* A byte of the frame.
LEMMA BufBits ==
  ASSUME NEW i \in Nat, NEW lo, lo = 8 * i
  PROVE  HasBitsOf(frame, sbus_buf(i), lo, 8) /\ sbus_buf(i) \in 0..255
<1>1. 8 * i \in Nat /\ 256 = 2^8
  OBVIOUS
<1>2. HasBitsOf(frame, sbus_buf(i), lo, 8)
  BY <1>1, ByteBits DEF sbus_buf
<1>3. sbus_buf(i) \in 0..256 - 1
  BY <1>1, <1>2, Below, Zenon
<1> QED BY <1>2, <1>3

\* Two bytes of the frame, the lower one first.
LEMMA WordBits ==
  ASSUME NEW i \in Nat, NEW lo, lo = 8 * i
  PROVE  HasBitsOf(frame, Word(i), lo, 16) /\ Word(i) \in Nat /\ Word(i) < 65536
<1>1. lo \in Nat /\ i + 1 \in Nat /\ 8 * (i + 1) = lo + 8
  OBVIOUS
<1>2. HasBitsOf(frame, sbus_buf(i), lo, 8) /\ HasBitsOf(frame, sbus_buf(i + 1), lo + 8, 8)
  BY <1>1, BufBits
<1>3. ASSUME NEW u, NEW w, HasBitsOf(frame, u, lo, 8), HasBitsOf(frame, w, lo + 8, 8)
      PROVE  HasBitsOf(frame, u + w * 2^8, lo, 16)
  <2>1. 16 = 8 + 8 /\ 16 <= 18 /\ 8 \in Nat
    OBVIOUS
  <2> QED BY <1>1, <1>3, <2>1, Join, Zenon
<1>4. HasBitsOf(frame, Word(i), lo, 16)
  BY <1>2, <1>3, Zenon DEF Word
<1>5. PICK p : p = 2^16
  OBVIOUS
<1>6. Word(i) \in 0..p - 1
  BY <1>4, <1>5, Below, Zenon
<1>7. Word(i) \in Nat /\ Word(i) < 65536
  <2> HIDE DEF Word
  <2> QED BY <1>5, <1>6
<1> HIDE DEF Word
<1> QED BY <1>4, <1>7

\* What a channel may be.
Near(a) == a \in Int /\ -1024 <= a /\ a < 1024

\* A channel's eleven bits, less the offset, and plus it again.
LEMMA ChannelBits ==
  ASSUME NEW v, NEW lo \in Nat, NEW m \in Nat, NEW all, all = 11 + m, all <= 18,
         HasBitsOf(frame, v, lo, all)
  PROVE  /\ HasBitsOf(frame, Channel(Mask(v)) + RC_CH_VALUE_OFFSET, lo, 11)
         /\ Near(Channel(Mask(v)))
<1>1. HasBitsOf(frame, Mask(v), lo, 11)
  BY Part DEF Mask
<1>2. Mask(v) \in Nat /\ Mask(v) < 2048
  <2>1. PICK p : p = 2^11
    OBVIOUS
  <2>2. Mask(v) \in 0..p - 1
    BY <1>1, <2>1, Below, Zenon
  <2> QED BY <2>1, <2>2
<1>3. Channel(Mask(v)) + RC_CH_VALUE_OFFSET = Mask(v) /\ Near(Channel(Mask(v)))
  <2>1. PICK u \in Nat : u = Mask(v) /\ u < 2048
    BY <1>2
  <2>2. Channel(u) = LET w == (u - 1024) % 65536 IN IF w < 32768 THEN w ELSE w - 65536
    <3>1. 2^16 = 65536 /\ 2^15 = 32768
      OBVIOUS
    <3> QED BY <3>1 DEF Channel, Int16, RC_CH_VALUE_OFFSET
  <2>3. Channel(u) = u - 1024
    <3>1. CASE u < 1024
      <4>1. (u - 1024) % 65536 = u + 64512
        BY <3>1
      <4> QED BY <2>2, <3>1, <4>1
    <3>2. CASE u >= 1024
      <4>1. (u - 1024) % 65536 = u - 1024
        BY <2>1, <3>2
      <4> QED BY <2>1, <2>2, <3>2, <4>1
    <3> QED BY <3>1, <3>2
  <2>4. Channel(u) + RC_CH_VALUE_OFFSET = u /\ Near(Channel(u))
    BY <2>1, <2>3 DEF RC_CH_VALUE_OFFSET, Near
  <2> QED BY <2>1, <2>4, Zenon
<1> QED BY <1>1, <1>3

\* The signed fields are words read with a sign.
LEMMA Signed ==
  ASSUME NEW v \in Int
  PROVE  /\ Int16(v) \in Int /\ -32768 <= Int16(v) /\ Int16(v) < 32768
         /\ (Int16(v) % 65536) = v % 65536
<1>1. Int16(v) = IF v % 65536 < 32768 THEN v % 65536 ELSE (v % 65536) - 65536
  <2>1. 2^16 = 65536 /\ 2^15 = 32768
    OBVIOUS
  <2> QED BY <2>1 DEF Int16
<1>3. v % 65536 \in Nat /\ v % 65536 < 65536
  OBVIOUS
<1>4. ((v % 65536) - 65536) % 65536 = v % 65536 /\ (v % 65536) % 65536 = v % 65536
  OBVIOUS
<1> QED BY <1>1, <1>3, <1>4

\* Where the channels and switches begin and end.
LEMMA Sums ==
  /\ \A n \in {0, 1, 2, 3, 4, 5, 6, 7, 8, 10, 11, 13, 15, 16, 18, 22, 33, 40, 44, 46} : n \in Nat
  /\ \A n \in {4, 8, 10, 13, 15, 16, 18} : n <= 18
  /\ 0 = 8 * 0
  /\ 11 = 8 + 3 /\ 8 = 3 + 5 /\ 22 = 16 + 6 /\ 8 = 6 + 2 /\ 33 = 32 + 1 /\ 8 = 1 + 7
  /\ 16 = 11 + 5 /\ 13 = 5 + 8 /\ 24 = 22 + 2 /\ 10 = 2 + 8 /\ 32 = 22 + 10 /\ 18 = 10 + 8
  /\ 40 = 33 + 7 /\ 15 = 7 + 8 /\ 44 = 40 + 4 /\ 8 = 4 + 4 /\ 46 = 44 + 2 /\ 4 = 2 + 2
OBVIOUS

\* Each channel has its eleven bits, although none begins with a byte but the
\* first, and the third is spread over three.
LEMMA FourChannels ==
  /\ HasBitsOf(frame, rc_raw.ch0 + RC_CH_VALUE_OFFSET, 0, 11)
  /\ HasBitsOf(frame, rc_raw.ch1 + RC_CH_VALUE_OFFSET, 11, 11)
  /\ HasBitsOf(frame, rc_raw.ch2 + RC_CH_VALUE_OFFSET, 22, 11)
  /\ HasBitsOf(frame, rc_raw.ch3 + RC_CH_VALUE_OFFSET, 33, 11)
  /\ \A f \in {"ch0", "ch1", "ch2", "ch3"} : Near(rc_raw[f])
<1>1. /\ HasBitsOf(frame, sbus_buf(1), 8, 8) /\ HasBitsOf(frame, sbus_buf(2), 16, 8)
      /\ HasBitsOf(frame, sbus_buf(3), 24, 8) /\ HasBitsOf(frame, sbus_buf(4), 32, 8)
      /\ HasBitsOf(frame, sbus_buf(5), 40, 8)
  BY BufBits
<1>2. HasBitsOf(frame, sbus_buf(1) \div 2^3, 11, 5)
  BY <1>1, Sums, Part, Zenon
<1>3. HasBitsOf(frame, sbus_buf(2) \div 2^6, 22, 2)
  BY <1>1, Sums, Part, Zenon
<1>4. HasBitsOf(frame, sbus_buf(4) \div 2^1, 33, 7)
  BY <1>1, Sums, Part, Zenon
<1>5. HasBitsOf(frame, sbus_buf(1) \div 2^3 + sbus_buf(2) * 2^5, 11, 13)
  BY <1>1, <1>2, Sums, Join, Zenon
<1>6. HasBitsOf(frame, (sbus_buf(2) \div 2^6 + sbus_buf(3) * 2^2) + sbus_buf(4) * 2^10, 22, 18)
  <2>1. HasBitsOf(frame, sbus_buf(2) \div 2^6 + sbus_buf(3) * 2^2, 22, 10)
    BY <1>1, <1>3, Sums, Join, Zenon
  <2> QED BY <1>1, <2>1, Sums, Join, Zenon
<1>7. HasBitsOf(frame, sbus_buf(4) \div 2^1 + sbus_buf(5) * 2^7, 33, 15)
  BY <1>1, <1>4, Sums, Join, Zenon
<1>8. HasBitsOf(frame, Word(0), 0, 16)
  <2>1. ASSUME NEW i \in Nat, NEW lo, lo = 8 * i PROVE HasBitsOf(frame, Word(i), lo, 16)
    BY <2>1, WordBits
  <2>2. PICK z \in Nat : z = 0 /\ z = 8 * z
    OBVIOUS
  <2>3. HasBitsOf(frame, Word(z), z, 16)
    BY <2>1, <2>2, Zenon
  <2> QED BY <2>2, <2>3, Zenon
<1>9. HasBitsOf(frame, rc_raw.ch0 + RC_CH_VALUE_OFFSET, 0, 11) /\ Near(rc_raw.ch0)
  BY <1>8, ChannelBits DEF rc_raw
<1>10. HasBitsOf(frame, rc_raw.ch1 + RC_CH_VALUE_OFFSET, 11, 11) /\ Near(rc_raw.ch1)
  BY <1>5, ChannelBits DEF rc_raw
<1>11. HasBitsOf(frame, rc_raw.ch2 + RC_CH_VALUE_OFFSET, 22, 11) /\ Near(rc_raw.ch2)
  BY <1>6, ChannelBits DEF rc_raw
<1>12. HasBitsOf(frame, rc_raw.ch3 + RC_CH_VALUE_OFFSET, 33, 11) /\ Near(rc_raw.ch3)
  BY <1>7, ChannelBits DEF rc_raw
<1> QED BY <1>9, <1>10, <1>11, <1>12

\* Both switches are in the upper half of byte 5.
LEMMA Switches == HasBitsOf(frame, rc_raw.s0, 44, 2) /\ HasBitsOf(frame, rc_raw.s1, 46, 2)
<1>1. HasBitsOf(frame, sbus_buf(5), 40, 8)
  BY BufBits
<1>2. HasBitsOf(frame, sbus_buf(5) \div 2^4, 44, 4)
  BY <1>1, Sums, Part, Zenon
<1> DEFINE v == sbus_buf(5) \div 2^4
<1>3. HasBitsOf(frame, v % 2^2, 44, 2) /\ HasBitsOf(frame, v \div 2^2, 46, 2)
  <2>1. HasBitsOf(frame, v, 44, 4)
    BY <1>2
  <2> HIDE DEF v
  <2>2. 44 \in Nat /\ 2 \in Nat /\ 46 = 44 + 2 /\ 4 = 2 + 2 /\ 4 <= 18
    OBVIOUS
  <2> QED BY <2>1, <2>2, Part, Zenon
<1> QED BY <1>3, Zenon DEF rc_raw

\* A word, a byte, as fields.
LEMMA WordsAndBytes ==
  /\ HasBitsOf(frame, rc_raw.x % 2^16, 48, 16) /\ HasBitsOf(frame, rc_raw.y % 2^16, 64, 16)
  /\ HasBitsOf(frame, rc_raw.z % 2^16, 80, 16)
  /\ HasBitsOf(frame, rc_raw.press_l, 96, 8) /\ HasBitsOf(frame, rc_raw.press_r, 104, 8)
  /\ HasBitsOf(frame, rc_raw.v, 112, 16)
  /\ HasBitsOf(frame, (rc_raw.ch4 + RC_CH_VALUE_OFFSET) % 2^16, 128, 16)
<1>1. ASSUME NEW i \in Nat, NEW lo, lo = 8 * i
      PROVE  /\ HasBitsOf(frame, Word(i), lo, 16)
             /\ HasBitsOf(frame, Int16(Word(i)) % 2^16, lo, 16)
             /\ HasBitsOf(frame, (Channel(Word(i)) + RC_CH_VALUE_OFFSET) % 2^16, lo, 16)
  <2>1. HasBitsOf(frame, Word(i), lo, 16) /\ Word(i) \in Nat /\ Word(i) < 65536
    BY <1>1, WordBits
  <2>2. PICK w \in Nat : w = Word(i)
    BY <2>1
  <2>3. w < 65536
    BY <2>1, <2>2
  <2>4. Int16(w) % 2^16 = w
    BY <2>3, Signed
  <2>5. (Channel(w) + RC_CH_VALUE_OFFSET) % 2^16 = w
    <3>1. w - 1024 \in Int /\ Channel(w) = Int16(w - 1024)
      BY DEF Channel, RC_CH_VALUE_OFFSET
    <3>2. Channel(w) \in Int /\ (Channel(w) % 65536) = (w - 1024) % 65536
      BY <3>1, Signed
    <3>3. (Channel(w) + 1024) % 65536 = w
      BY <2>3, <3>2
    <3> QED BY <3>3 DEF RC_CH_VALUE_OFFSET
  <2>6. Int16(Word(i)) % 2^16 = Word(i)
    BY <2>2, <2>4
  <2>7. (Channel(Word(i)) + RC_CH_VALUE_OFFSET) % 2^16 = Word(i)
    BY <2>2, <2>5
  <2>8. HasBitsOf(frame, Int16(Word(i)) % 2^16, lo, 16)
    BY <2>1, <2>6
  <2>9. HasBitsOf(frame, (Channel(Word(i)) + RC_CH_VALUE_OFFSET) % 2^16, lo, 16)
    BY <2>1, <2>7
  <2> QED BY <2>1, <2>8, <2>9
<1>2. /\ 6 \in Nat /\ 8 \in Nat /\ 10 \in Nat /\ 12 \in Nat /\ 13 \in Nat /\ 14 \in Nat /\ 16 \in Nat
      /\ 48 = 8 * 6 /\ 64 = 8 * 8 /\ 80 = 8 * 10 /\ 96 = 8 * 12 /\ 104 = 8 * 13
      /\ 112 = 8 * 14 /\ 128 = 8 * 16
  OBVIOUS
<1>3. HasBitsOf(frame, Int16(Word(6)) % 2^16, 48, 16)
  BY <1>1, <1>2, Zenon
<1>4. HasBitsOf(frame, Int16(Word(8)) % 2^16, 64, 16)
  BY <1>1, <1>2, Zenon
<1>5. HasBitsOf(frame, Int16(Word(10)) % 2^16, 80, 16)
  BY <1>1, <1>2, Zenon
<1>6. HasBitsOf(frame, sbus_buf(12), 96, 8)
  BY <1>2, BufBits, Zenon
<1>7. HasBitsOf(frame, sbus_buf(13), 104, 8)
  BY <1>2, BufBits, Zenon
<1>8. HasBitsOf(frame, Word(14), 112, 16)
  BY <1>1, <1>2, Zenon
<1>9. HasBitsOf(frame, (Channel(Word(16)) + RC_CH_VALUE_OFFSET) % 2^16, 128, 16)
  BY <1>1, <1>2, Zenon
<1> QED BY <1>3, <1>4, <1>5, <1>6, <1>7, <1>8, <1>9, Zenon DEF rc_raw

\* All fields together.
LEMMA Decoded == FieldsAreTheBits
<1>1. ASSUME NEW v, NEW lo, NEW n, HasBitsOf(frame, v, lo, n) PROVE HasBits(v, lo, n)
  BY <1>1, Zenon DEF HasBits, HasBitsOf, BitAt
<1> QED BY <1>1, FourChannels, Switches, WordsAndBytes DEF FieldsAreTheBits

\* Every frame, whatever its 144 bits, is decoded field by field.
THEOREM DecodedRight == DecodeSpec => []FieldsAreTheBits
BY Decoded, PTL

-----------------------------------------------------------------------------
(* One bit, one field.                                                     *)

\* The fields of RC_raw_t.
Fields == {"ch0", "ch1", "ch2", "ch3", "ch4", "s0", "s1", "x", "y", "z", "press_l", "press_r", "v"}
\* Where a field's bits begin.
Lo == [ch0 |-> 0, ch1 |-> 11, ch2 |-> 22, ch3 |-> 33, s0 |-> 44, s1 |-> 46, x |-> 48, y |-> 64, z |-> 80,
       press_l |-> 96, press_r |-> 104, v |-> 112, ch4 |-> 128]
\* How many bits a field has.
Width == [ch0 |-> 11, ch1 |-> 11, ch2 |-> 11, ch3 |-> 11, s0 |-> 2, s1 |-> 2, x |-> 16, y |-> 16, z |-> 16,
          press_l |-> 8, press_r |-> 8, v |-> 16, ch4 |-> 16]
\* Its value, without the offset and the sign.
Plain(f, a) ==
  IF f \in {"ch0", "ch1", "ch2", "ch3"} THEN a + 1024
  ELSE IF f = "ch4" THEN (a + 1024) % 65536
  ELSE IF f \in {"x", "y", "z"} THEN a % 65536
  ELSE a

\* No field is out of the range of its type.
FieldRange ==
  \A f \in Fields :
    /\ rc_raw[f] \in Int /\ -32768 <= rc_raw[f] /\ rc_raw[f] < 65536
    /\ f \in {"ch4", "x", "y", "z"} => rc_raw[f] < 32768
\* Each field has the bits of its places in the frame.
FieldBits == \A f \in Fields : HasBitsOf(frame, Plain(f, rc_raw[f]), Lo[f], Width[f])

\* The offset and the sign lose nothing.
LEMMA PlainInjective ==
  ASSUME NEW f \in Fields, NEW a \in Int, NEW c \in Int, -32768 <= a, -32768 <= c,
         f \in {"ch4", "x", "y", "z"} => a < 32768 /\ c < 32768,
         Plain(f, a) = Plain(f, c)
  PROVE  a = c
<1>1. CASE f \in {"ch0", "ch1", "ch2", "ch3"}
  BY <1>1 DEF Plain
<1>2. CASE f = "ch4"
  <2>1. (a + 1024) % 65536 = (c + 1024) % 65536 /\ a < 32768 /\ c < 32768
    BY <1>2 DEF Plain
  <2> QED BY <2>1
<1>3. CASE f \in {"x", "y", "z"}
  <2>1. a % 65536 = c % 65536 /\ a < 32768 /\ c < 32768
    BY <1>3 DEF Plain
  <2> QED BY <2>1
<1>4. CASE f \in {"s0", "s1", "press_l", "press_r", "v"}
  BY <1>4 DEF Plain
<1> QED BY <1>1, <1>2, <1>3, <1>4 DEF Fields

\* The fields are those of RC_raw_t.
LEMMA FieldsAre == DOMAIN rc_raw = Fields
BY DEF rc_raw, Fields

\* The fields by the table.
LEMMA AlwaysFieldBits == FieldBits
<1>1. 2^16 = 65536
  OBVIOUS
<1> USE FourChannels, Switches, WordsAndBytes, <1>1 DEF RC_CH_VALUE_OFFSET
<1>2. \A f \in {"ch0", "ch1", "ch2", "ch3"} : HasBitsOf(frame, rc_raw[f] + 1024, Lo[f], Width[f])
  BY DEF Lo, Width
<1>3. \A f \in {"s0", "s1", "press_l", "press_r", "v"} : HasBitsOf(frame, rc_raw[f], Lo[f], Width[f])
  BY DEF Lo, Width
<1>4. \A f \in {"x", "y", "z"} : HasBitsOf(frame, rc_raw[f] % 65536, Lo[f], Width[f])
  BY DEF Lo, Width
<1>5. HasBitsOf(frame, (rc_raw["ch4"] + 1024) % 65536, Lo["ch4"], Width["ch4"])
  BY DEF Lo, Width
<1> QED BY <1>2, <1>3, <1>4, <1>5 DEF FieldBits, Plain, Fields

\* No field overflows its type.
LEMMA AlwaysFieldRange == FieldRange
<1>1. ASSUME NEW i \in Nat PROVE Word(i) \in Int
  <2>1. 8 * i = 8 * i
    OBVIOUS
  <2> QED BY <2>1, WordBits
<1>2. ASSUME NEW v \in Int
      PROVE  Int16(v) \in Int /\ -32768 <= Int16(v) /\ Int16(v) < 32768
  BY Signed
<1>3. ASSUME NEW f \in {"ch4", "x", "y", "z"}
      PROVE  rc_raw[f] \in Int /\ -32768 <= rc_raw[f] /\ rc_raw[f] < 32768
  <2>1. /\ rc_raw.x = Int16(Word(6)) /\ rc_raw.y = Int16(Word(8)) /\ rc_raw.z = Int16(Word(10))
        /\ rc_raw.ch4 = Int16(Word(16) - 1024)
    BY DEF rc_raw, Channel, RC_CH_VALUE_OFFSET
  <2>2. Word(6) \in Int /\ Word(8) \in Int /\ Word(10) \in Int /\ Word(16) - 1024 \in Int
    BY <1>1
  <2> QED BY <1>2, <2>1, <2>2
<1>4. ASSUME NEW f \in {"s0", "s1", "press_l", "press_r", "v"}
      PROVE  rc_raw[f] \in Int /\ -32768 <= rc_raw[f] /\ rc_raw[f] < 65536
  <2>1. PICK lo, n : n \in {2, 8, 16} /\ HasBitsOf(frame, rc_raw[f], lo, n)
    BY Switches, WordsAndBytes
  <2>2. 2^n \in Nat /\ 2^n <= 65536
    <3>1. CASE n = 2
      BY <3>1
    <3>2. CASE n = 8
      BY <3>2
    <3>3. CASE n = 16
      BY <3>3
    <3> QED BY <2>1, <3>1, <3>2, <3>3
  <2>3. rc_raw[f] \in 0..2^n - 1
    BY <2>1, Below, Zenon
  <2> QED BY <2>2, <2>3
<1>5. \A f \in {"ch0", "ch1", "ch2", "ch3"} : Near(rc_raw[f])
  BY FourChannels
<1> QED BY <1>3, <1>4, <1>5 DEF FieldRange, Fields, Near

\* What a frame is decoded to holds in every state, the next one included.
LEMMA Always == [](FieldBits /\ FieldRange /\ DOMAIN rc_raw = Fields)
BY AlwaysFieldBits, AlwaysFieldRange, FieldsAre, PTL

\* Each bit is in one field.
LEMMA BitsFields ==
  /\ \A f \in Fields : Lo[f] \in Nat /\ Width[f] \in 0..18
  /\ \A b \in Bit : \E f \in Fields : b \in Lo[f]..Lo[f] + Width[f] - 1
  /\ \A f, g \in Fields : f # g =>
       (Lo[f]..Lo[f] + Width[f] - 1) \cap (Lo[g]..Lo[g] + Width[g] - 1) = {}
BY DEF Fields, Lo, Width, Bit

\* The field the bit is in has another number; every other has the same bits.
LEMMA FlipChangesOne ==
  ASSUME NEW b \in Bit, Flip(b),
         FieldBits /\ FieldRange /\ DOMAIN rc_raw = Fields,
         (FieldBits /\ FieldRange /\ DOMAIN rc_raw = Fields)'
  PROVE  \E f \in DOMAIN rc_raw :
           /\ rc_raw'[f] # rc_raw[f]
           /\ \A g \in DOMAIN rc_raw \ {f} : rc_raw'[g] = rc_raw[g]
<1> DEFINE Holds(g) == Lo[g]..Lo[g] + Width[g] - 1
<1>1. \A c : c # b => (c \in frame' <=> c \in frame)
  BY DEF Flip
<1>2. b \in frame' <=> b \notin frame
  BY DEF Flip
<1>3. PICK f \in Fields : b \in Holds(f)
  BY BitsFields
<1>4. \A g \in Fields : Lo[g] \in Nat /\ Width[g] \in 0..18
  BY BitsFields
<1>5. ASSUME NEW g \in Fields
      PROVE  /\ HasBitsOf(frame, Plain(g, rc_raw[g]), Lo[g], Width[g])
             /\ HasBitsOf(frame', Plain(g, rc_raw'[g]), Lo[g], Width[g])
  BY DEF FieldBits
<1>6. rc_raw'[f] # rc_raw[f]
  <2> DEFINE k == b - Lo[f]
  <2>1. k \in 0..Width[f] - 1 /\ Lo[f] + k = b
    BY <1>3, <1>4
  <2>2. (Plain(f, rc_raw[f]) \div 2^k) % 2 = IF Lo[f] + k \in frame THEN 1 ELSE 0
    BY <1>5, <2>1, Zenon DEF HasBitsOf
  <2>3. (Plain(f, rc_raw'[f]) \div 2^k) % 2 = IF Lo[f] + k \in frame' THEN 1 ELSE 0
    BY <1>5, <2>1, Zenon DEF HasBitsOf
  <2> QED BY <1>2, <2>1, <2>2, <2>3
<1>7. ASSUME NEW g \in Fields \ {f} PROVE rc_raw'[g] = rc_raw[g]
  <2>1. b \notin Holds(g)
    BY <1>3, BitsFields
  <2>2. \A c \in Lo[g]..Lo[g] + Width[g] - 1 : c \in frame <=> c \in frame'
    BY <1>1, <2>1
  <2>3. Plain(g, rc_raw[g]) = Plain(g, rc_raw'[g])
    BY <1>4, <1>5, <2>2, SameNumber, Zenon
  <2>4. /\ rc_raw[g] \in Int /\ -32768 <= rc_raw[g]
        /\ rc_raw'[g] \in Int /\ -32768 <= rc_raw'[g]
        /\ g \in {"ch4", "x", "y", "z"} => rc_raw[g] < 32768 /\ rc_raw'[g] < 32768
    BY DEF FieldRange
  <2>5. PICK a, c : a = rc_raw[g] /\ c = rc_raw'[g]
    OBVIOUS
  <2>6. a = c
    BY <2>3, <2>4, <2>5, PlainInjective
  <2> QED BY <2>5, <2>6, Zenon
<1> QED BY <1>3, <1>6, <1>7

\* A bit that changes changes one field and no other, in any frame.
THEOREM OneFieldPerBit == DecodeSpec => OneBitOneField
<1> DEFINE Good == FieldBits /\ FieldRange /\ DOMAIN rc_raw = Fields
           Changes == \E f \in DOMAIN rc_raw :
                        /\ rc_raw'[f] # rc_raw[f]
                        /\ \A g \in DOMAIN rc_raw \ {f} : rc_raw'[g] = rc_raw[g]
<1>1. Good /\ Good' /\ [DecodeNext]_frame => [Changes]_frame
  <2> SUFFICES ASSUME Good, Good', NEW b \in Bit, Flip(b) PROVE Changes
    BY Zenon DEF DecodeNext
  <2> QED BY FlipChangesOne, Zenon
<1>2. []Good
  BY Always
<1> QED BY <1>1, <1>2, PTL DEF DecodeSpec, OneBitOneField
=============================================================================
