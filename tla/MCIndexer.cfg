CONSTANTS
  pool = pool
  Pools = {pool}
  BlockContents <- MCBlockContents
  DevMode = FALSE
  Faults = {"crash", "start", "rpc", "insert"}
  MaxFaults = 2
  MaxBlock = 3
SPECIFICATION Spec
INVARIANTS TypeOK RowsMatchChain ReservesMatchUnlessClamped NeverRecordedTwice BroadcastsAreFresh
PROPERTY CatchesUp
CHECK_DEADLOCK FALSE
