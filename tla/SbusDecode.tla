----------------------------- MODULE SbusDecode ------------------------------
(***************************************************************************)
(* SBUS_TO_RC (bsp_rc.c): how the 18 bytes of a frame become the fields of *)
(* rc_raw, by the masks and shifts of the code, compared with the bits of  *)
(* the frame they stand for.  A frame is the set of its bits that are one, *)
(* bit 0 being the lowest of byte 0.                                       *)
(***************************************************************************)
EXTENDS Integers, FiniteSets

CONSTANT MaxFlips  \* bound on the bits that differ from all-zero or all-one

ASSUME FlipAssumption == MaxFlips \in 0..143

Bit == 0..143
VARIABLE frame

DecodeInit == frame \in {{}, Bit}
Flip(b) ==
  /\ frame' = IF b \in frame THEN frame \ {b} ELSE frame \cup {b}
  /\ Cardinality(frame') <= MaxFlips \/ Cardinality(Bit \ frame') <= MaxFlips
DecodeNext == \E b \in Bit : Flip(b)
DecodeSpec == DecodeInit /\ [][DecodeNext]_frame

BitAt(b) == IF b \in frame THEN 1 ELSE 0
\* The byte of bit lo and the seven above it.
ByteAt(lo) ==
  LET b(k) == BitAt(lo + k)
  IN b(0) + 2 * b(1) + 4 * b(2) + 8 * b(3) + 16 * b(4) + 32 * b(5) + 64 * b(6) + 128 * b(7)
sbus_buf(i) == ByteAt(8 * i)

-----------------------------------------------------------------------------
(* The code.  What it joins by | are bits at different places: sums.       *)

RC_CH_VALUE_OFFSET == 1024
Int16(v) == LET w == v % 2^16 IN IF w < 2^15 THEN w ELSE w - 2^16

\* & 0x07ff.  Mutant: one bit too wide.
Mask_Wide(v) == v % 2^12
Mask(v) == v % 2^11

Channel(v) == Int16(v - RC_CH_VALUE_OFFSET)
Word(i) == sbus_buf(i) + sbus_buf(i + 1) * 2^8

rc_raw ==
  [ch0 |-> Channel(Mask(Word(0))),
   ch1 |-> Channel(Mask(sbus_buf(1) \div 2^3 + sbus_buf(2) * 2^5)),
   ch2 |-> Channel(Mask(sbus_buf(2) \div 2^6 + sbus_buf(3) * 2^2 + sbus_buf(4) * 2^10)),
   ch3 |-> Channel(Mask(sbus_buf(4) \div 2^1 + sbus_buf(5) * 2^7)),
   ch4 |-> Channel(Word(16)),
   s0  |-> (sbus_buf(5) \div 2^4) % 2^2,
   s1  |-> (sbus_buf(5) \div 2^4) \div 2^2,
   x   |-> Int16(Word(6)), y |-> Int16(Word(8)), z |-> Int16(Word(10)),
   press_l |-> sbus_buf(12), press_r |-> sbus_buf(13),
   v   |-> Word(14)]

\* QuerySwState(RC_SW_L, ...) looks at s[1], as device_rc.h has RC_SW_L = 1.
LeftSwitch == rc_raw.s1

-----------------------------------------------------------------------------
(* Properties.                                                             *)

\* The number v has the n bits from bit lo on, and no others.
HasBits(v, lo, n) ==
  v \in 0..2^n - 1 /\ \A k \in 0..n - 1 : (v \div 2^k) % 2 = BitAt(lo + k)

\* Eleven bits for each of four channels, two for each switch, then words and
\* bytes: each field is made of its bits in their order, the signed ones being
\* the same sixteen bits read as a number with a sign.
FieldsAreTheBits ==
  LET r == rc_raw
  IN /\ HasBits(r.ch0 + RC_CH_VALUE_OFFSET, 0, 11)
     /\ HasBits(r.ch1 + RC_CH_VALUE_OFFSET, 11, 11)
     /\ HasBits(r.ch2 + RC_CH_VALUE_OFFSET, 22, 11)
     /\ HasBits(r.ch3 + RC_CH_VALUE_OFFSET, 33, 11)
     /\ HasBits(r.s0, 44, 2) /\ HasBits(r.s1, 46, 2)
     /\ HasBits(r.x % 2^16, 48, 16) /\ HasBits(r.y % 2^16, 64, 16) /\ HasBits(r.z % 2^16, 80, 16)
     /\ HasBits(r.press_l, 96, 8) /\ HasBits(r.press_r, 104, 8)
     /\ HasBits(r.v, 112, 16)
     /\ HasBits((r.ch4 + RC_CH_VALUE_OFFSET) % 2^16, 128, 16)

\* No bit is lost and none leaks into a second field.
OneBitOneField ==
  [][\E f \in DOMAIN rc_raw :
       /\ rc_raw'[f] # rc_raw[f]
       /\ \A g \in DOMAIN rc_raw \ {f} : rc_raw'[g] = rc_raw[g]]_frame

\* The comments of SBUS_TO_RC call s[0] "Switch left" and s[1] "Switch right".
LeftSwitchIsTheLeftField == HasBits(LeftSwitch, 44, 2)
=============================================================================
