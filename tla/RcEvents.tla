------------------------------ MODULE RcEvents -------------------------------
(***************************************************************************)
(* How key presses get from the remote-control object to the program:      *)
(* RcManager::Update (RcUpdater.cpp) latches the state every Period ticks  *)
(* and stamps it; thread2 (main.cpp) looks every Nap ticks whether the     *)
(* stamp has changed and, if so, queries the object key by key and edge by *)
(* edge (piano).  Nothing is locked: the updater has the higher priority   *)
(* and may run between any two reads of thread2, which then sees one edge  *)
(* of the old update and the next of the new one, a press twice, or not at *)
(* all.  The kernel's tick decides whether it happens: thread2 spends at   *)
(* most ScanTicks of them in one turn of its loop.                         *)
(*                                                                         *)
(* There are three kinds of input, by how an edge is seen: of a keyboard   *)
(* key in the one word m_KbdFall; of a mouse button, or of a stick switch  *)
(* from one position to one other, by reading the previous and the present *)
(* state; of a detector's result by thread2's own comparison with the      *)
(* result it had last.                                                     *)
(***************************************************************************)
EXTENDS Integers, Sequences, SequencesExt

CONSTANTS
  Keys,      \* keyboard keys, in the order of piano's queries
  Buttons,   \* mouse buttons
  Levers,    \* the queries of the stick switches
  Switches, target, queryType,    \* and of what each asks what
  Results,   \* rapid_tap_test, seq_test
  Period,    \* RC_UPDATER_CONTROL_PERIOD
  Nap,       \* the delay of thread2's loop
  ScanTicks  \* how many ticks may interrupt one turn of thread2's loop

Pairs  == Buttons \o Levers
Input  == ToSet(Keys \o Pairs \o Results)

ASSUME TimingAssumption == {Period, Nap} \subseteq Nat \ {0} /\ ScanTicks \in Nat

\* Each edge is queried once in a turn of the loop.
ASSUME InputAssumption ==
  /\ {Keys, Buttons, Levers, Results} \subseteq Seq(Input)
  /\ IsInjective(Keys \o Pairs \o Results)

-----------------------------------------------------------------------------
(* What is queried, of the state of all controls: 0 and 1 for a key, a     *)
(* button and a result, the position of a switch, 0 before the first frame.*)

RC_SW_UP == 1
RC_SW_DOWN == 2
RC_SW_MID == 3

\* QuerySwState asks for a change from one position to one other.
Ends ==
  [RC_SW_U2M |-> <<RC_SW_UP, RC_SW_MID>>, RC_SW_M2D |-> <<RC_SW_MID, RC_SW_DOWN>>,
   RC_SW_D2M |-> <<RC_SW_DOWN, RC_SW_MID>>, RC_SW_M2U |-> <<RC_SW_MID, RC_SW_UP>>]

ASSUME SwitchAssumption ==
  /\ target \in [ToSet(Levers) -> Switches] /\ queryType \in [ToSet(Levers) -> DOMAIN Ends]
  /\ Switches \cap Input = {}

Control == Switches \cup (Input \ ToSet(Levers))
State == {s \in [Control -> 0..3] : \A c \in Control \ Switches : s[c] \in 0..1}

Edge(i) == IF i \in ToSet(Levers) THEN Ends[queryType[i]] ELSE <<0, 1>>
Of(i) == IF i \in ToSet(Levers) THEN target[i] ELSE i
Before(state, i) == state[Of(i)] = Edge(i)[1]
Held(state, i) == state[Of(i)] = Edge(i)[2]

VARIABLES
  raw,      \* rc_raw, and what the detectors will make of it
  prev,     \* m_PrevMouseLState, m_PrevSwState, ...
  cur,      \* m_KbdState, m_MouseLState, m_SwState, ..., GetEventState()
  fresh,    \* m_TickLastUpdate is not the Q_last_update thread2 has noted
  left,     \* ticks until the updater's delay ends
  pc,       \* thread2: the step of its loop it is at, 0 in its delay
  reg,      \* what the first of the two reads of a pair has found, until the second
  res,      \* B_result, seq_res
  lastRes,  \* last_B_result, last_seq_res
  buzzer,   \* the buzzer is on
  ticks,    \* ticks of this delay still to come, or of this turn already spent
  told      \* how often the latest edge was reported

updater == <<prev, cur, left>>
reader  == <<pc, reg, res, lastRes, buzzer>>
vars    == <<raw, updater, fresh, reader, ticks, told>>

-----------------------------------------------------------------------------
(* The loop, as a sequence of reads.                                       *)

Ops(op, inputs) == [k \in DOMAIN inputs |-> [op |-> op, of |-> inputs[k]]]

\* The two reads of each pair's edge.
PairOps ==
  [k \in 1..2 * Len(Pairs) |->
    [op |-> IF k % 2 = 1 THEN "first" ELSE "second", of |-> Pairs[(k + 1) \div 2]]]

Downs == Ops("down", Keys \o Buttons)
Loop ==
  <<[op |-> "check"], [op |-> "note"]>> \o Ops("result", Results)
  \o Downs \o Ops("fall", Keys) \o PairOps \o Ops("report", Results)
AfterDowns == 3 + Len(Results) + Len(Downs)

Unowed == 9    \* told: thread2 has not looked yet
Told == 0..3 \cup {Unowed}

TypeOK ==
  /\ {raw, cur, prev} \subseteq State
  /\ {res, lastRes} \subseteq [ToSet(Results) -> BOOLEAN]
  /\ {fresh, reg, buzzer} \subseteq BOOLEAN
  /\ left \in 0..Period /\ ticks \in 0..(Nap + ScanTicks)
  /\ pc \in 0..Len(Loop)
  /\ told \in [Input -> Told]

Off == [i \in Control |-> 0]
None(S) == [i \in S |-> FALSE]

\* Q_last_update is not initialised.
Init ==
  /\ raw = Off
  /\ prev = Off /\ cur = Off
  /\ fresh \in BOOLEAN /\ left = 0
  /\ pc = 1 /\ reg = FALSE
  /\ res = None(ToSet(Results)) /\ lastRes = None(ToSet(Results))
  /\ buzzer = FALSE /\ ticks = 0
  /\ told = [i \in Input |-> Unowed]

-----------------------------------------------------------------------------
(* The environment: frames and the tick.                                   *)

\* What a frame changes it may change one control after the other: no step
\* of a thread need come between.
FrameArrives ==
  /\ \E c \in Control : \E v \in 0..3 :
       raw' = [raw EXCEPT ![c] = v] /\ raw' \in State
  /\ UNCHANGED <<updater, fresh, reader, ticks, told>>

Tick ==
  /\ left > 0 /\ left' = left - 1
  /\ IF pc = 0 THEN ticks > 0 /\ ticks' = ticks - 1
               ELSE ticks < ScanTicks /\ ticks' = ticks + 1
  /\ UNCHANGED <<raw, prev, cur, fresh, reader, told>>

-----------------------------------------------------------------------------
(* RcManager::Update.                                                      *)

\* An edge that a query asks for is owed from now on.  Of another way into
\* the same position nothing is to be told: as if it had been.
Pressed(i) == ~Held(cur, i) /\ Held(raw, i)

Update ==
  /\ left = 0
  /\ cur' = raw
  /\ prev' = [c \in Control |-> IF c \in ToSet(Results) THEN 0 ELSE cur[c]]
  /\ fresh' = TRUE /\ left' = Period
  /\ told' = [i \in Input |->
       IF told[i] = Unowed \/ ~Pressed(i) THEN told[i] ELSE IF Before(cur, i) THEN 0 ELSE 1]
  /\ UNCHANGED <<raw, reader, ticks>>

-----------------------------------------------------------------------------
(* thread2.  It runs only while the updater sleeps.                        *)

At(op) == pc > 0 /\ left > 0 /\ Loop[pc].op = op
Asked == Loop[pc].of

\* Mutant: the loop does not begin again.
GoOn_PastEnd == pc' = pc + 1 /\ ticks' = ticks
GoOn ==
  IF pc < Len(Loop) THEN pc' = pc + 1 /\ ticks' = ticks
                    ELSE pc' = 0 /\ ticks' = Nap

Report(i) ==
  told' = [told EXCEPT ![i] = IF @ \in {3, Unowed} THEN @ ELSE @ + 1]

Awake ==
  /\ pc = 0 /\ left > 0 /\ ticks = 0
  /\ pc' = 1
  /\ UNCHANGED <<raw, updater, reg, fresh, res, lastRes, buzzer, ticks, told>>

\* Mutant: every turn scans, whether there was an update or not.
Check_Always ==
  /\ At("check") /\ GoOn
  /\ UNCHANGED <<raw, updater, reg, fresh, res, lastRes, buzzer, told>>
\* The stamp is read once to compare it, and once more to note it.
Check ==
  /\ At("check")
  /\ IF fresh THEN GoOn ELSE pc' = 0 /\ ticks' = Nap
  /\ UNCHANGED <<raw, updater, reg, fresh, res, lastRes, buzzer, told>>

Note ==
  /\ At("note")
  /\ fresh' = FALSE
  /\ told' = [i \in Input |->
       IF told[i] # Unowed THEN told[i]
       ELSE IF Held(cur, i) /\ (Before(prev, i) \/ i \in ToSet(Results)) THEN 0 ELSE 1]
  /\ GoOn
  /\ UNCHANGED <<raw, updater, reg, res, lastRes, buzzer>>

\* Mutant: the result before is not kept.
ReadResult_KeepsNone ==
  /\ At("result")
  /\ res' = [res EXCEPT ![Asked] = Held(cur, Asked)]
  /\ GoOn
  /\ UNCHANGED <<raw, updater, reg, fresh, lastRes, buzzer, told>>
ReadResult ==
  /\ At("result")
  /\ lastRes' = [lastRes EXCEPT ![Asked] = res[Asked]]
  /\ res' = [res EXCEPT ![Asked] = Held(cur, Asked)]
  /\ GoOn
  /\ UNCHANGED <<raw, updater, reg, fresh, buzzer, told>>

\* QueryPcKeyState(KEY_DOWN) looks at the latched word for a key, but at
\* rc_raw itself for a button.
IsDown(i) == Held(IF i \in ToSet(Buttons) THEN raw ELSE cur, i)

\* Mutant: nothing turns the buzzer off.
Down_NoOff ==
  /\ At("down")
  /\ buzzer' = (buzzer \/ IsDown(Asked))
  /\ pc' = IF IsDown(Asked) THEN AfterDowns ELSE pc + 1
  /\ UNCHANGED <<raw, updater, reg, fresh, res, lastRes, ticks, told>>
Down ==
  /\ At("down")
  /\ IF IsDown(Asked) THEN buzzer' = TRUE /\ pc' = AfterDowns
     ELSE /\ buzzer' = IF pc + 1 = AfterDowns THEN FALSE ELSE buzzer
          /\ pc' = pc + 1
  /\ UNCHANGED <<raw, updater, reg, fresh, res, lastRes, ticks, told>>

\* Mutant: a key that is down counts as one that went down.
Fall_Held ==
  /\ At("fall")
  /\ IF Held(cur, Asked) THEN Report(Asked) ELSE UNCHANGED told
  /\ GoOn
  /\ UNCHANGED <<raw, updater, reg, fresh, res, lastRes, buzzer>>
Fall ==
  /\ At("fall")
  /\ IF Held(cur, Asked) /\ Before(prev, Asked) THEN Report(Asked) ELSE UNCHANGED told
  /\ GoOn
  /\ UNCHANGED <<raw, updater, reg, fresh, res, lastRes, buzzer>>

\* QuerySwState and, for buttons, QueryPcKeyState(KEY_FALL).
FirstRead ==
  /\ At("first")
  /\ reg' = Before(prev, Asked)
  /\ GoOn
  /\ UNCHANGED <<raw, updater, fresh, res, lastRes, buzzer, told>>

SecondRead ==
  /\ At("second")
  /\ IF reg /\ Held(cur, Asked) THEN Report(Asked) ELSE UNCHANGED told
  /\ GoOn
  /\ reg' = FALSE
  /\ UNCHANGED <<raw, updater, fresh, res, lastRes, buzzer>>

ReportResult ==
  /\ At("report")
  /\ IF res[Asked] /\ ~lastRes[Asked] THEN Report(Asked) ELSE UNCHANGED told
  /\ GoOn
  /\ UNCHANGED <<raw, updater, reg, fresh, res, lastRes, buzzer>>

Reading ==
  Awake \/ Check \/ Note \/ ReadResult \/ Down \/ Fall \/ FirstRead \/ SecondRead
  \/ ReportResult

Next == FrameArrives \/ Tick \/ Update \/ Reading

Spec == Init /\ [][Next]_vars
\* Time goes on: the tick, or whichever thread it leaves time to.
FairSpec == Spec /\ WF_vars(Tick \/ Update \/ Reading)

-----------------------------------------------------------------------------
(* Properties.                                                             *)

\* When thread2 is done with an update, every edge that was latched since it
\* began to look, and that a query asks for, has been reported once, and no
\* other one: none was lost, none reported twice or for a switch that came
\* another way, although nothing is locked.  This is so exactly as long as
\* ScanTicks + Nap <= Period: then no update falls into a scan.
ReportedOnce ==
  pc = 0 /\ ~fresh => \A i \in Input : told[i] \in {1, Unowed}

\* Beyond that an edge may be lost or reported twice, or one that was none be
\* reported, but never more than that.
AtMostTwice == \A i \in Input : told[i] \in {0, 1, 2, Unowed}

\* What thread2 compares itself is never reported twice, however late it is.
ResultOnce == \A i \in ToSet(Results) : told[i] \in {0, 1, Unowed}

\* Once the remote control has fallen silent, the buzzer comes to sound exactly
\* if a key or button is held, and the results to be the detectors'.  There
\* is no timeout: with a key held at the last frame it sounds for ever.
HeldAtLast == \E i \in ToSet(Keys \o Buttons) : Held(raw, i)
Silence == <>[][FALSE]_raw
Follows ==
  Silence => <>[](buzzer = HeldAtLast /\ \A d \in ToSet(Results) : res[d] = Held(raw, d))
=============================================================================
