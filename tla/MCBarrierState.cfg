SPECIFICATION FairSpec
CONSTANTS
  Prices = {5, 7}
  StopLoss = 2
  Activation = 2
  Callback = 2
  Tightened = 1
  Floor = 1
  Lock = 1
  QuoteLots = {2}
  LegLots = {1}
  MaxEntries = 2
  MaxHits = 0
  MaxCrashes = 1
  MaxBehind = 1
  DbFaults = FALSE
  FetchFaults = FALSE
  CallFaults = TRUE
  LossyStream = TRUE
  Pyramids = TRUE
INVARIANTS
  TypeOK
  GuaranteeKept
PROPERTIES
  StopLossFires
