SPECIFICATION Spec
CONSTANTS
  poll = poll
  button = button
  Policies = {poll, button}
  Actions = {"OPEN", "REDUCE", "EXIT"}
  Qty = 2
  Keep = 1
  MaxOpens = 1
  MaxFaults = 2
  MaxCrashes = 0
  MaxManual = 0
  Kills = TRUE
  Leaves = FALSE
  Crossed = TRUE
  Indexed = TRUE
SYMMETRY Coroutines
INVARIANTS
  TypeOK
  NoNakedLeg
  CompletedMeansClosed
