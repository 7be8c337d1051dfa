CONSTANTS
  Device = {"CAN1"}
  Dev = "CAN1"
  Wired <- MCWired
  Orders <- MCOrders
  CycleMod = 3
  MaxOutages <- MCOutages
  Spd <- MCSpd
  Zero = 0
SPECIFICATION CycleSpec
INVARIANTS CycleTypeOK AcceptedWithinOneCycle AppliedFreshAfterRecovery
PROPERTIES NoCommandLostOnHealthyLink InOrderOnHealthyLink
