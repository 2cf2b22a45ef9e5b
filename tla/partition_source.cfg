SPECIFICATION MCSpec
CONSTANTS
  Kinds = {"sql", "mongo", "rest"}
  DoFns = {d1, d2}
  NumSlices = 2
  NumRows = 2
  RecCap = 1
  SQLErrCap = 1
  MaxAttempts = 2
  MaxPools = 2
  d1 = d1
  d2 = d2
INVARIANTS WholeSlices OneReader PoolsConsistent StallsOnlyOnOverflow
PROPERTY AttemptsEnd
CHECK_DEADLOCK FALSE
