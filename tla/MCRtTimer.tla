----------------------------- MODULE MCRtTimer -----------------------------
(* Two threads and a periodic timer, and a tick of three bits.             *)
EXTENDS RtTimer
=============================================================================
