CONSTANTS
  Chars = {"a", "=", "&", "%", "+"}
  MaxLen = 5
  Names <- MCNames
SPECIFICATION Spec
INVARIANTS TypeOK NextAgreesWithReference GetIsPercentDecoded
