SPECIFICATION Spec
CONSTANTS
  Tasks = {c1, c2}
  MaxRetries = 2
  BaseDelay = 1
  MaxDelay = 2
  BackoffFactor = 4
  Durations = {0, 2}
  MaxCalls = 3
INVARIANTS RetriesRight MetricsExact QuantilesRight
