SPECIFICATION ClientSpec
CONSTANTS
  Callers = {p1, p2}
  MaxFailures = 2
  HalfOpenLimit = 1
  Timeout = 1
  MaxRetries = 2
  Interval = 1
PROPERTIES RetriesShielded DoReturns AllPagesRead
CHECK_DEADLOCK FALSE
