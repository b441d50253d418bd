SPECIFICATION Spec
CONSTANTS
  MaxLineBytes = 3
  FirstCapacity = 1
  StreamLimit = 7
  ChunkLimit = 4
INVARIANTS
  TypeOK
  FramesAreExact
CHECK_DEADLOCK FALSE
