---------------------------- MODULE KeyDetectors -----------------------------
(***************************************************************************)
(* The list of detectors that DeviceRC::Update walks (device_rc.cpp): in   *)
(* one update every detector sees the same keys released.  They read the   *)
(* same tick, since the update is done with the scheduler locked and takes *)
(* a small part of one; the program attaches its tap detector before its   *)
(* sequence detector.                                                      *)
(***************************************************************************)
EXTENDS RapidTap, KeySequence

CONSTANT TapKey    \* m_pTargetKeyArray of the tap detector

ASSUME TapKeyAssumption == TapKey \in Key /\ \A d \in Gaps : d <= MaxGap

vars == <<tapVars, seqVars>>

\* What the fields of both detectors may be.
TypeOK == TapTypeOK /\ SeqTypeOK

Init == TapInit /\ SeqInit

\* DeviceRC::Update, with the keys that m_KbdRise shows.
Update(d, keys) == TapUpdate(d, TapKey \in keys) /\ SeqUpdate(d, keys)

Configure(n) == SetMinActiveCount(n) /\ UNCHANGED seqVars

Next ==
  \/ \E n \in Counts : Configure(n)
  \/ \E d \in Gaps, keys \in SUBSET Key : Update(d, keys)
Spec == Init /\ [][Next]_vars
=============================================================================
