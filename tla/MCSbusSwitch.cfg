CONSTANT MaxFlips = 1
SPECIFICATION DecodeSpec
INVARIANTS LeftSwitchIsTheLeftField
