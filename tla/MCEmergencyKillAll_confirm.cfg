SPECIFICATION Spec
CONSTANTS
  s1 = s1
  s2 = s2
  LONG = LONG
  Symbols = {s1, s2}
  Sides = {LONG}
  MaxLots = 2
  MaxFills = 2
  MaxOps = 1
  FetchFaults = TRUE
  CallFaults = FALSE
  Changes = FALSE
  Unlocks = FALSE
INVARIANTS
  CompletedMeansClosed
