CONSTANTS
  Backend = "filesystem"
  Wiring = "legacy_adapter"
  Paths <- MCPaths
  NoObject = NoObject
  NoPath = NoPath
  EmptyPath = EmptyPath
  TTL = 2
  MaxRecords = 2
  MaxTime = 4
  MaxSkew = 0
  w1 = w1
  w2 = w2
  Workers <- MCWorkers1
  Presignable = TRUE
  FollowerWorkers <- MCNoWorkers
SPECIFICATION Spec
INVARIANTS
  NotFoundMeansAbsent
