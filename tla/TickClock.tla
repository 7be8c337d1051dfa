------------------------------ MODULE TickClock ------------------------------
(***************************************************************************)
(* rt_tick (rt_thread/clock.c) is a 32-bit counter that wraps around, and  *)
(* the detectors subtract two readings of it in the same width.  Both      *)
(* operations are written for arguments that wrap once at most.            *)
(***************************************************************************)
EXTENDS Integers

CONSTANTS
  TickMod,    \* 2^32 in the program
  FirstTick   \* rt_tick when the part that reads it comes into being

ASSUME TickModAssumption == TickMod \in Nat \ {0}

VARIABLE tick       \* rt_tick when the detectors were updated last

TickValue == 0..TickMod - 1
ASSUME FirstTickAssumption == FirstTick \in TickValue

\* rt_tick after d increments, d <= TickMod.  Mutant: it does not wrap.
Advance_Endless(t, d) == t + d
Advance(t, d) == IF t + d < TickMod THEN t + d ELSE t + d - TickMod

\* tick - m_LastTick in uint32_t.
Elapsed(now, since) == IF since <= now THEN now - since ELSE now - since + TickMod
=============================================================================
