SPECIFICATION Spec
CONSTANTS
  a = a
  o1 = o1
  o2 = o2
  Slots = {a}
  Mids = {1, 2}
  OrderIds = {o1, o2}
  MaxFaults = 0
  MaxOps = 1
  Syncs = FALSE
  Breaker = FALSE
  Drains = TRUE
  Pauses = FALSE
  Stops = TRUE
  Kills = FALSE
SYMMETRY AnyOrder
INVARIANTS
  TypeOK
  OneQuotePerSlot
  DrainStopsQuoting
CHECK_DEADLOCK FALSE
