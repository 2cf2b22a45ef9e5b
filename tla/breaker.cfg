SPECIFICATION Spec
CONSTANTS
  Callers = {c1, c2, c3}
  MaxFailures = 2
  HalfOpenLimit = 2
  Timeout = 2
INVARIANTS TypeOK CountersCurrent FailuresBounded
PROPERTIES ClosesOnSuccesses OpenShields Recovers
