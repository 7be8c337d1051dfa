CONSTANTS
  FrameLen = 3
  BufLen = 6
  Lengths = {1, 2, 3, 4, 6, 7, 9}
  MaxBursts = 4
SPECIFICATION Spec
INVARIANTS TypeOK CleanFrameDecoded StuckOnSecondBuffer
PROPERTIES RawIsOnePiece
CHECK_DEADLOCK FALSE
