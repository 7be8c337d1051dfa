----------------------------- MODULE KeySequence -----------------------------
(***************************************************************************)
(* SequenceDetector (device_rc.cpp): the event comes on when the keys of   *)
(* Target are released one after the other, none later than m_MaxTick      *)
(* after the one before, and stays on for m_ActiveTimeout, prolonged by    *)
(* every further release of the last key.  A key that is not the next one  *)
(* is ignored, so what the detector recognises is the targets among other  *)
(* keys; and it never goes back, so it may miss them after a false start.  *)
(*                                                                         *)
(* log is what happened, in a time that does not wrap, to compare with.    *)
(***************************************************************************)
EXTENDS TickClock, Sequences, SequencesExt

CONSTANTS
  Target,         \* m_pTargetKeyArray
  SeqMaxTick,     \* m_MaxTick
  ActiveTimeout,  \* m_ActiveTimeout
  Gaps,           \* the times that may pass between two updates
  MaxUpdates      \* bound on the number of updates

Key == ToSet(Target)
KeyCount == Len(Target)

ASSUME SequenceAssumption ==
  /\ Target \in Seq(Key) /\ Target # <<>>
  /\ {SeqMaxTick, ActiveTimeout, MaxUpdates} \subseteq Nat
  /\ \A d \in Gaps : d \in Nat \ {0} /\ d + SeqMaxTick < TickMod /\ d + ActiveTimeout < TickMod

VARIABLES
  lastSeq,     \* m_LastTick
  currentSeq,  \* m_CurrentSeq
  cheat,       \* m_EventState
  log          \* of each update: its time, the keys released, whether the detector
               \* had nothing under way

seqVars == <<tick, lastSeq, currentSeq, cheat, log>>

SeqTypeOK ==
  /\ tick \in TickValue /\ lastSeq \in TickValue
  /\ currentSeq \in 0..KeyCount - 1    \* the index into m_pTargetKeyArray
  /\ cheat \in BOOLEAN
  /\ log \in Seq([at : Nat, keys : SUBSET Key, idle : BOOLEAN])

SeqInit ==
  /\ tick = FirstTick /\ lastSeq = 0
  /\ currentSeq = 0 /\ cheat = FALSE
  /\ log = <<>>

Now == IF log = <<>> THEN 0 ELSE Last(log).at

-----------------------------------------------------------------------------
\* Mutants: the two limits are exchanged; the limit itself is too late.
SeqExpired_Swapped(dt) == IF cheat THEN dt > SeqMaxTick ELSE dt > ActiveTimeout
SeqExpired_Early(dt)   == IF cheat THEN dt >= ActiveTimeout ELSE dt >= SeqMaxTick
SeqExpired(dt) == IF cheat THEN dt > ActiveTimeout ELSE dt > SeqMaxTick

\* The next key, or the last one again.
Matched(s) ==
  IF s < KeyCount - 1 THEN currentSeq' = s + 1 /\ cheat' = FALSE
                      ELSE currentSeq' = s /\ cheat' = TRUE

\* SequenceDetector::Update, d ticks after the one before.
SeqUpdate(d, keys) ==
  LET now  == Advance(tick, d)
      over == SeqExpired(Elapsed(now, lastSeq))
      s    == IF over THEN 0 ELSE currentSeq
      on   == cheat /\ ~over
  IN /\ Len(log) < MaxUpdates
     /\ tick' = now
     /\ log' = Append(log, [at |-> Now + d, keys |-> keys, idle |-> s = 0 /\ ~on])
     /\ IF Target[s + 1] \in keys
        THEN lastSeq' = now /\ Matched(s)
        ELSE lastSeq' = lastSeq /\ currentSeq' = s /\ cheat' = on

SeqNext == \E d \in Gaps, keys \in SUBSET Key : SeqUpdate(d, keys)
SeqSpec == SeqInit /\ [][SeqNext]_seqVars

-----------------------------------------------------------------------------
(* Properties.                                                             *)

Within(i, j, limit) == i <= j /\ log[j].at - log[i].at <= limit
LastKey == Target[KeyCount]

\* The event is on only if the targets were released in their order, each in
\* its time, and ever since then the last key has been released again within
\* m_ActiveTimeout.
NeverWithoutSequence ==
  cheat => \E pos \in [1..KeyCount -> DOMAIN log] :
    /\ \A k \in 1..KeyCount : Target[k] \in log[pos[k]].keys
    /\ \A k \in 1..KeyCount - 1 :
         pos[k] < pos[k + 1] /\ Within(pos[k], pos[k + 1], SeqMaxTick)
    /\ \A i \in pos[KeyCount]..Len(log) : \E j \in pos[KeyCount]..i :
         LastKey \in log[j].keys /\ Within(j, i, ActiveTimeout)

\* The updates at which one key of the sequence is released and no other.
SingleReleases == {i \in DOMAIN log : \E key \in Key : log[i].keys = {key}}

\* Whoever begins when nothing is under way and releases the targets, nothing
\* else, in time, has the event on - until m_ActiveTimeout after the last one.
NeverMissedFromIdle ==
  ~ cheat => \A pos \in [1..KeyCount -> SingleReleases] :
    ~ (/\ log[pos[1]].idle
       /\ \A k \in 1..KeyCount : log[pos[k]].keys = {Target[k]}
       /\ \A k \in 1..KeyCount - 1 :
            pos[k] < pos[k + 1] /\ Within(pos[k], pos[k + 1], SeqMaxTick)
       /\ \A i \in pos[1]..Len(log) : log[i].keys = {} \/ \E k \in 1..KeyCount : i = pos[k]
       /\ Now - log[pos[KeyCount]].at <= ActiveTimeout)
=============================================================================
