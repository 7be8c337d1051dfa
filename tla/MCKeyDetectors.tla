--------------------------- MODULE MCKeyDetectors ----------------------------
(* The beginning of main.cpp's test_seq, which repeats its first key; the   *)
(* same key is watched for taps.  The clock wraps twice.                    *)
EXTENDS KeyDetectors

WWS == <<"W", "W", "S">>
=============================================================================
