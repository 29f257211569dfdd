CONSTANTS
  pool = pool
  Pools = {pool}
  BlockContents <- MCBlockContents
  DevMode = TRUE
  Faults = {"crash"}
  MaxFaults = 1
  MaxBlock = 3
SPECIFICATION Spec
INVARIANT NothingLostByCrash
CHECK_DEADLOCK FALSE
