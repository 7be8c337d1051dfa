---------------------------- MODULE MCRcReceive ----------------------------
(* Frames of three bytes in buffers of six; a burst may lose a byte, gain    *)
(* one, merge with the next, or run past the end of a buffer.                *)
EXTENDS RcReceive
=============================================================================
