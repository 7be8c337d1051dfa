CONSTANTS
  Device <- MCDevice
  Wired <- MCWired
  Spd = {0, 1}
  Zero = 0
SPECIFICATION MCSpec
INVARIANTS TypeOK NoGroupLeftComplete
PROPERTIES PendingFrameKept Can2HighStarved
