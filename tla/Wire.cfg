SPECIFICATION WireSpec
CONSTANTS
  Nuls = {2, 3}
  Steady = 2
  Limit = 3
  Chunk = 1
  MaxLen = 4
  MaxSent = 6
  None = None
CHECK_DEADLOCK FALSE
INVARIANTS
  RoomToRead
  HandshakeSound
  ResultsIntact
  FieldsExact
  SqlStructureKept
  TransfersExact
PROPERTIES
  StreamSpec
  
