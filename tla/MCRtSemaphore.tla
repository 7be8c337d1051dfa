---------------------------- MODULE MCRtSemaphore ----------------------------
(* Two equal threads, one of them started by the lower third.              *)
EXTENDS RtSemaphore

MCBoot == <<"low", "b", "idle">>
MCPriority == [t \in Thread |-> IF t = "idle" THEN 3 ELSE IF t = "low" THEN 2 ELSE 1]
MCSlices == [t \in Thread |-> IF t = "a" THEN 2 ELSE 1]
=============================================================================
