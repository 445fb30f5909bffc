CONSTANTS
  Backend = "s3"
  Wiring = "provider"
  Paths <- MCPaths
  NoObject = NoObject
  NoPath = NoPath
  EmptyPath = EmptyPath
  TTL = 1
  MaxRecords = 2
  MaxTime = 4
  MaxSkew = 0
  w1 = w1
  w2 = w2
  Workers <- MCWorkers1
  Presignable = TRUE
  FollowerWorkers <- MCNoWorkers
SPECIFICATION Spec
INVARIANTS
  StatusServable
