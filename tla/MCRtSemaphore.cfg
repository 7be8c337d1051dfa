CONSTANTS
  Thread = {"a", "b", "low", "idle"}
  Idle = "idle"
  Boot <- MCBoot
  priority <- MCPriority
  init_tick <- MCSlices
  Mortal = {"low"}
  Time = {1}
  MaxNest = 2
  MaxValue = 1
  SemInit = 0
  ByPriority = TRUE
SPECIFICATION Spec
INVARIANTS TypeOK RunsTheHighest EachInOneQueue TokensAgree
PROPERTIES EachGetsItsTurn
