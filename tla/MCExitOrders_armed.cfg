SPECIFICATION FairSpec
CONSTANTS
  EntryLots = {2}
  Parts = 1
  OrderIds = {1, 2}
  MaxPos = 2
  MaxEntries = 1
  MaxRestarts = 1
  PartialFills = FALSE
  PassiveExits = TRUE
  Faults = TRUE
  Kills = TRUE
PROPERTIES
  ExposedGetsArmed
CHECK_DEADLOCK FALSE
