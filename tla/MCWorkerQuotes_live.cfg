SPECIFICATION FairSpec
CONSTANTS
  a = a
  o1 = o1
  Slots = {a}
  Mids = {1}
  OrderIds = {o1}
  MaxFaults = 1
  MaxOps = 1
  Syncs = TRUE
  Breaker = TRUE
  Drains = TRUE
  Pauses = TRUE
  Stops = TRUE
  Kills = TRUE
PROPERTIES
  GhostsGetTracked
