SPECIFICATION FairPipelineSpec
CONSTANTS
  NumLines = 4
  Workers = {w1, w2}
  Producer = producer
  Flusher = flusher
  Main = main
  Janitor = janitor
  Detector = sequence_ngram
  QueueSize = 1
  BatchSize = 2
  SaveOutcomes = {"ok", "repository_error"}
  SourceMayFail = FALSE
  MayInterrupt = TRUE
  Lines <- SomeLines
  Templates <- SomeTemplates
  NoBlock = no_block
  b1 = b1
  b2 = b2
  Blocks = {b1, b2}
  NoEvent = no_event
  TerminalEvents = {"E9"}
  MaxPerTrace = 3
  MaxOpen = 2
  IdleWindow = 1
  WallClock = 9
  N = 2
  NormalNgrams <- Normal
  ThresholdNum = 0
  ThresholdDen = 1
INVARIANTS LogOrderKept EveryLineTraced AlarmsRight AnomaliesFollowed
PROPERTIES RunAndStopEnd
