----------------------------- MODULE MCRcEvents -----------------------------
(* The loop of main.cpp with one input of each kind, and one switch that is *)
(* queried for its ways from the middle down and back.                      *)
EXTENDS RcEvents

OneKey == <<"Q">>
OneButton == <<"PC_M_L">>
OneResult == <<"rapid_tap_test">>
Nothing == <<>>

DownAndBack == <<"L_M2D", "L_D2M">>
MCTarget == [q \in ToSet(Levers) |-> "RC_SW_L"]
MCQueries == [q \in ToSet(Levers) |-> IF q = "L_M2D" THEN "RC_SW_M2D" ELSE "RC_SW_D2M"]
=============================================================================
