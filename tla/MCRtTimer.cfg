CONSTANTS
  TickMod = 8
  FirstTick = 0
  Timer = {"thread2", "updater", "period"}
  Periodic = {"period"}
  Time = {0, 1, 2}
SPECIFICATION Spec
INVARIANTS TypeOK SortedAndPunctual
PROPERTIES CallsInOrder
