SPECIFICATION PipeSpec
CONSTANTS
  Formats = {"csv", "jsonl", "json_array"}
  NumLines = 4
  LineKinds = {"ok", "skip", "bad", "close", "syntax", "ioerr"}
  AllowTrailing = FALSE
  Cancellable = TRUE
  RecCap = 2
  ErrCap = 1
INVARIANT NoSilentLoss
PROPERTIES ReturnsUncancelled NoGoroutineLeft
CHECK_DEADLOCK FALSE
