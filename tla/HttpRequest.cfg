SPECIFICATION FairSpec
CONSTANTS
  None = None
  MAX_REQUEST_BODY_BYTES = 3
  MAX_REFUSED_BODY_DRAIN_BYTES = 3
  MaxSent = 10
  Declared <- MCDeclared
  ChunkSizes <- MCChunkSizes
INVARIANTS
  MemoryBounded
  OnlyWholeBodies
PROPERTIES
  RefusalIsHeard
  EveryRequestReleased
CHECK_DEADLOCK FALSE
