CONSTANTS
  Keys <- OneKey
  Buttons <- Nothing
  Levers <- DownAndBack
  Results <- OneResult
  Switches = {"RC_SW_L"}
  target <- MCTarget
  queryType <- MCQueries
  Period = 7
  Nap = 2
  ScanTicks = 5
SPECIFICATION Spec
INVARIANTS TypeOK ReportedOnce
