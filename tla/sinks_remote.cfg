SPECIFICATION MCSpec
CONSTANTS
  Sinks = {"api", "bigquery"}
  Workers = {w1, w2}
  NumBundles = 2
  BundleSize = 3
  BatchSize = 2
  MaxRetries = 1
  MaxFactor = 2
  Step = 1
  MaxAttempts = 2
SYMMETRY Symmetry
INVARIANT NothingDropped
CHECK_DEADLOCK FALSE
