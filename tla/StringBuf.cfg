SPECIFICATION Spec
CONSTANTS
  Strings = {x, y}
  Chars <- Letters
  Literals <- Written
  Bytes <- Contents
  directsize = 2
  Small = 2
  Large = 4
  NumberRoom = 5
  SizeMax = 15
  MaxLen = 3
INVARIANT SplitsJoin
INVARIANT FieldsExact
INVARIANT Ordered
PROPERTY SoundKept
