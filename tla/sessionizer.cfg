SPECIFICATION FairSpec
CONSTANTS
  b1 = b1
  b2 = b2
  b3 = b3
  c1 = c1
  c2 = c2
  h1 = h1
  h2 = h2
  Consumers = {c1, c2}
  Janitor = janitor
  Main = main
  Blocks = {b1, b2, b3}
  Handlers = {h1, h2}
  Inputs <- SomeInputs
  NumRecords = 3
  NoEvent = "no_event"
  TerminalEvents = {"E9"}
  MaxPerTrace = 2
  MaxOpen = 2
  IdleWindow = 1
  WallClock = 9
  MayInterrupt = TRUE
INVARIANTS TypeOK CapacityKept TracesTruthful DeliveryComplete
PROPERTIES ReasonsTrue PassComplete ImplementsTraces TerminalCloses ProcessEnds
