SPECIFICATION Spec
CONSTANTS
  Sources = {s1, unnamed}
  Unnamed = unnamed
  Unknown = unknown
  Chain <- CheapFirst
  Capacity = 2
  Refill = 2
  Cost = 3
  MaxTime = 6
INVARIANTS
  TypeOK
  RateBounded
  RejectsOnlyExcess
