SPECIFICATION Spec
CONSTANTS
  Alphabets <- ReadTexts
  Documents <- Trees0
  Scalars <- Values
  Keys <- Names
  MaxPieces = 5
  MaxItems = 2
INVARIANT RoundTrip
INVARIANT TableExact
INVARIANT AcceptsGrammar
INVARIANT UnicodeKept
CHECK_DEADLOCK FALSE
