SPECIFICATION FairSpec
CONSTANTS
  a = a
  b = b
  c = c
  Markets <- SomeMarkets
  Profiles <- SomeProfiles
  MaxActive = 2
  RankThreshold = 3
  MaxOps = 2
INVARIANTS
  TypeOK
PROPERTIES
  SlotsBounded
  NoChurn
  DrainEnds
