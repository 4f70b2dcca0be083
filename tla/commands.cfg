SPECIFICATION Spec
CONSTANTS
  Blocks = {b1, b2}
  Lifecycle <- ShortLifecycle
  ExceptionEvents = {"E10", "E14"}
  Times = {29, 30, 59, 60, 119, 120, 3599, 3600}
  BglLines = 3
  Cuts = {2, 5}
  EventOf <- SampleTemplates
  NoEvent = no_event
  N = 2
  LineCaps = {4, 99}
  WindowWidths = {30, 60, 90, 120, 3600}
  None = none
  Files <- SomeFiles
  WorkersFlags = {unset, 0, 4}
  PathFlags = {unset, "absent", "present"}
  Unset = unset
  Fraction = fraction
  NotANumber = nan
  Text = text
INVARIANTS NormalNeverFlagged InjectedCaught ReportAddsUp WindowsExact BuildsWithinAssumptions
SYMMETRY BlockSymmetry
