CONSTANTS
  Device = {"CAN1"}
  Dev = "CAN1"
  Wired <- MCWired
  Orders <- MCProgramOrders
  CycleMod = 4
  MaxOutages <- MCOneOutage
  Spd <- MCSpd
  Zero = 0
SPECIFICATION FairSpec
PROPERTIES EventuallyFresh
