SPECIFICATION FairSpec
CONSTANTS
  Sides = {LONG, SHORT}
  Lots = {1, 2}
  Window = 2
  Lag = 2
  MaxTrades = 3
  MaxPos = 2
  HasWatchPositions = TRUE
  LossyStream = TRUE
INVARIANTS
  TypeOK
  AppliedOnce
  LevelsMatchAmount
  DriftNeedsRace
PROPERTIES
  ImplementsLedger
  EventuallyInSync
CHECK_DEADLOCK FALSE
