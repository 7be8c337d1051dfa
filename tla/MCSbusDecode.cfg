CONSTANT MaxFlips = 1
SPECIFICATION DecodeSpec
INVARIANT FieldsAreTheBits
PROPERTIES OneBitOneField
