SPECIFICATION FairSpec
CONSTANTS
  s1 = s1
  s2 = s2
  LONG = LONG
  Symbols = {s1, s2}
  Sides = {LONG}
  MaxLots = 2
  MaxFills = 2
  MaxOps = 2
  FetchFaults = FALSE
  CallFaults = TRUE
  Changes = TRUE
  Unlocks = TRUE
INVARIANTS
  TypeOK
  CompletedMeansClosed
PROPERTIES
  BreakerFlattens
