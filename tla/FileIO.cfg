SPECIFICATION FairSpec
CONSTANTS
  Sorts = {"file", "net", "plain", "tls"}
  Total = 5
  Kind <- Odd
  BufSize = 2
  MaxRead = 4
  MaxLine = 3
  MaxOut = 3
INVARIANT NothingLost
INVARIANT ShortMeansEnd
INVARIANT LineExact
INVARIANT WrittenInOrder
PROPERTY Served
