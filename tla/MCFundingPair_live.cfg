SPECIFICATION FairSpec
CONSTANTS
  poll = poll
  button = button
  Policies = {poll}
  Actions = {"OPEN", "HOLD", "EXIT", "PAUSE"}
  Qty = 1
  Keep = 1
  MaxOpens = 1
  MaxFaults = 1
  MaxCrashes = 1
  MaxManual = 1
  Kills = FALSE
  Leaves = TRUE
  Crossed = FALSE
  Indexed = FALSE
PROPERTIES
  ExitPrevails
