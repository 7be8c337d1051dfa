----------------------------- MODULE MCCanMotor -----------------------------
(* Two set-points, motors of both groups on either controller.  The two     *)
(* controllers share no state but the call under way, so a behaviour uses   *)
(* one of them, chosen by the first motor that is initialised.              *)
EXTENDS CanMotor

MCDevice == {"CAN1", "CAN2"}
MCWired  == [d \in Device |-> {1, 2, 6}]
MCNext   == Next /\ \E d \in Device : flgInit'[d] = {}
MCSpec   == Init /\ [][MCNext]_vars
=============================================================================
