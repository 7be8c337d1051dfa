---------------------------- MODULE MCSbusDecode -----------------------------
(* Every frame that differs from all zeros or all ones in few bits.        *)
EXTENDS SbusDecode
=============================================================================
