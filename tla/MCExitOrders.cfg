SPECIFICATION FairSpec
CONSTANTS
  EntryLots = {1, 2}
  Parts = 1
  OrderIds = {1, 2}
  MaxPos = 3
  MaxEntries = 2
  MaxRestarts = 0
  PartialFills = FALSE
  PassiveExits = FALSE
  Faults = FALSE
  Kills = FALSE
INVARIANTS
  TypeOK
  NoOrphans
  WithinRemaining
PROPERTIES
  FlatGetsDisarmed
