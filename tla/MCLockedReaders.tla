--------------------------- MODULE MCLockedReaders ---------------------------
(* The two readers that lock the scheduler against an interrupt, the       *)
(* updater of the remote control and thread2's UpdateFdb.  They share no   *)
(* variable, so each behaviour follows one of them.                        *)
EXTENDS RcLatch, CanFeedback

VARIABLE reader

MCUpdated == <<2, 6>>

ReadersInit == Init /\ FdbInit /\ reader \in {"updater", "thread2"}
ReadersNext ==
  /\ UNCHANGED reader
  /\ \/ reader = "updater" /\ Next /\ UNCHANGED fdbVars
     \/ reader = "thread2" /\ FdbNext /\ UNCHANGED vars
ReadersSpec == ReadersInit /\ [][ReadersNext]_<<reader, vars, fdbVars>>

\* The type invariants of both.
ReadersTypeOK == TypeOK /\ FdbTypeOK
=============================================================================
