SPECIFICATION Spec
CONSTANTS
  NumLines = 8
  Workers = {w1, w2}
  w1 = w1
  w2 = w2
  Producer = producer
  Flusher = flusher
  Main = main
  QueueSize = 1
  BatchSize = 2
  SaveOutcomes = {"ok", "repository_error"}
  SourceMayFail = FALSE
  MayInterrupt = FALSE
SYMMETRY ConsumerSymmetry
INVARIANTS
  Conserved
  CountersExact
  BoundedMemory
PROPERTIES
  ImplementsLedger
