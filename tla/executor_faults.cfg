SPECIFICATION FairSpec
CONSTANTS
  NumLines = 4
  Workers = {w1, w2}
  w1 = w1
  w2 = w2
  Producer = producer
  Flusher = flusher
  Main = main
  QueueSize = 2
  BatchSize = 2
  SaveOutcomes = {"ok", "repository_error", "unexpected_error"}
  SourceMayFail = TRUE
  MayInterrupt = TRUE
INVARIANTS
  TypeOK
  JoinCounts
  OnePlace
  BatchesBounded
  NothingLeftBehind
PROPERTIES
  LossOnlyInHand
  RunCompletes
  PartialBatchDrains
