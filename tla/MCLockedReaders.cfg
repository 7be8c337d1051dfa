CONSTANTS
  Key = {"Q"}
  ChordKeys = {"Q"}
  ChordLeft = TRUE
  ChordRight = TRUE
  MaxFrames = 4
  Sender = {2, 6, 8}
  Updated <- MCUpdated
  MaxNumber = 3
SPECIFICATION ReadersSpec
INVARIANTS ReadersTypeOK PhantomChordIsShort NewestSurvives
PROPERTIES NeverTwoFramesSkipped FdbIsOneFrameWide
