CONSTANTS
  TickMod = 9
  FirstTick = 4
  TapKey = "W"
  TapMaxTick = 4
  MaxGap = 3
  Counts = {1, 3}
  RunCap = 4
  Target <- WWS
  SeqMaxTick = 3
  ActiveTimeout = 5
  Gaps = {1, 3}
  MaxUpdates = 6
SPECIFICATION Spec
INVARIANTS TypeOK NoFalseRush NoMissedRush NeverWithoutSequence NeverMissedFromIdle
CHECK_DEADLOCK FALSE
