CONSTANTS
  Backend = "s3"
  Wiring = "provider"
  Paths <- MCPaths2
  NoObject = NoObject
  NoPath = NoPath
  EmptyPath = EmptyPath
  TTL = 1
  MaxRecords = 1
  MaxTime = 3
  MaxSkew = 1
  w1 = w1
  w2 = w2
  Workers <- MCNoWorkers
  Presignable = TRUE
  FollowerWorkers <- MCNoWorkers
SPECIFICATION FairSpec
INVARIANT
  YoungNewestKept
PROPERTIES
  GarbageCollectEnds
  RemovalCompletes
