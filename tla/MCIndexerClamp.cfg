CONSTANTS
  pool = pool
  Pools = {pool}
  BlockContents <- MCFundSwapRemove
  DevMode = TRUE
  Faults = {}
  MaxFaults = 0
  MaxBlock = 3
SPECIFICATION Spec
INVARIANT ReservesMatchChain
CHECK_DEADLOCK FALSE
