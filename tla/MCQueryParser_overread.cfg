CONSTANTS
  Chars = {"a", "=", "&", "%", "+"}
  MaxLen = 5
  Names <- MCNames
SPECIFICATION Spec
INVARIANT NoOverread
