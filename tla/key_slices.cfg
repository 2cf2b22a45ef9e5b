SPECIFICATION MCSpec
CONSTANTS
  NumRows = 4
  MaxKey = 5
  Stores = {"sql", "mongo"}
  BatchSize = 2
  NumPartitions = 3
  IdsPerSecond = 2
  Granules = {1, 2}
  Nullable = FALSE
  NullsFirst = FALSE
INVARIANTS TypeOK NoRowTwice NothingMissed
