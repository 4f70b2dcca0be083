SPECIFICATION Spec
CONSTANTS
  b1 = b1
  b2 = b2
  b3 = b3
  c1 = c1
  h1 = h1
  Consumers = {c1}
  Janitor = janitor
  Main = main
  Blocks = {b1, b2, b3}
  Handlers = {h1}
  Inputs <- SomeInputs
  NumRecords = 2
  NoEvent = "no_event"
  TerminalEvents = {"E9"}
  MaxPerTrace = 3
  MaxOpen = 2
  IdleWindow = 1
  WallClock = 9
  MayInterrupt = FALSE
INVARIANTS
  StopLosesNoTrace
