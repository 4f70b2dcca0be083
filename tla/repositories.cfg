SPECIFICATION Spec
CONSTANTS
  Clients = {c1, c2}
  Calls <- SomeCalls
  Filters <- SomeFilters
  Unset = unset
  NoTime = no_time
  NoRun = no_run
  RunText <- StrOf
  RunOf <- UuidOf
  Malformed = malformed
  Now = 9
  RunA = run_a
  RunB = run_b
  MaxCalls = 3
CHECK_DEADLOCK FALSE
INVARIANTS SameAnswers
PROPERTIES ImplementsStore
