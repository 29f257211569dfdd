SPECIFICATION Spec
CONSTANTS
  BroadcastCap = 1
  SendCap = 1
  StoreCap = 2
  PageSize = 2
  MaxTxs = 3
  MaxRecorded = 2
  MaxChanges = 1
  MaxCuts = 1
INVARIANTS
  TypeOK
  
  

  
CHECK_DEADLOCK FALSE
