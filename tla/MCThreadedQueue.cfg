CONSTANTS
  v1 = v1
  v2 = v2
  v3 = v3
  f = f
  PleaseStop = PleaseStop
  Values <- MCValues
  Functions <- MCFunctions
  BatchSize = 2
  MaxSize = 2
  MaxBatch = 2
  MaxFailures = 1
SPECIFICATION Spec
INVARIANTS
  TypeOK
  MovedOnceInOrder
  StopDelivers
  CalledAfterValues
PROPERTIES
  StopEnds
CHECK_DEADLOCK FALSE
