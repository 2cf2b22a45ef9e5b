SPECIFICATION Spec
CONSTANTS
  Size = 5
  ChunkSize = 3
  MaxRestrictions = 3
  Multiline = FALSE
  Compressed = FALSE
INVARIANTS TypeOK NoDuplicateRecords RecordsIntact OmittedOnlyAtBoundary
PROPERTY ImplementsWorkRange
