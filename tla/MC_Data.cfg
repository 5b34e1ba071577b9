SPECIFICATION DataSpec
CONSTANTS
  MaxChunk = 2
  MaxLob = 3
  MaxArg = 3
  MatCap = 2
  MaxItems = 2
  SqlLen = 1
  MaxDepth = 2
  MaxLen = 5
  MaxPort = 3
  DefaultPort = 2
INVARIANTS
  TypeOK
  WholeStream
  ReadsExact
  ReadAsSent
  AllocBounded
  RoundTrip
  ScanTypeAgrees
  DsnAsMeant
PROPERTIES
  BoundWhole
  CallsEnd
