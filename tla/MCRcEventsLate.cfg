CONSTANTS
  Keys <- OneKey
  Buttons <- OneButton
  Levers <- Nothing
  Results <- OneResult
  Switches = {}
  target <- MCTarget
  queryType <- MCQueries
  Period = 2
  Nap = 1
  ScanTicks = 2
SPECIFICATION FairSpec
INVARIANTS AtMostTwice ResultOnce
PROPERTIES Follows
