---------------------------- MODULE MCMotorCycle ----------------------------
(* The motor loop with the program's own pair of motors and with builds     *)
(* that drive one group only, or both in an interleaved order.              *)
EXTENDS MotorCycle

MCWired  == [d \in Device |-> Motor]
MCOrders == {<<2, 6>>, <<6, 2>>, <<1, 5, 2, 6>>, <<1, 2, 3, 4>>, <<5, 6, 7, 8>>}
MCSpd    == 0..CycleMod
MCProgramOrders == {<<2, 6>>}

\* Two outages may follow each other within a cycle of the program's build.
MCOutages == [o \in Orders |-> IF o = <<2, 6>> THEN 2 ELSE 1]
MCOneOutage == [o \in Orders |-> 1]
=============================================================================
