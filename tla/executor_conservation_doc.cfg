SPECIFICATION Spec
CONSTANTS
  NumLines = 3
  Workers = {w1}
  w1 = w1
  Producer = producer
  Flusher = flusher
  Main = main
  QueueSize = 1
  BatchSize = 2
  SaveOutcomes = {"ok", "unexpected_error"}
  SourceMayFail = FALSE
  MayInterrupt = FALSE
INVARIANTS
  RecordsConservation
