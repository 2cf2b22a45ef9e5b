SPECIFICATION Spec
CONSTANTS
  Size = 4
  ChunkSize = 2
  MaxRestrictions = 2
  Multiline = FALSE
  Compressed = FALSE
INVARIANT NoOmission
