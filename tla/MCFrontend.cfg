SPECIFICATION Spec
CONSTANTS
  Pages = {"swap", "liquidity", "staking", "governance", "details", "analytics", "home"}
  Links <- MCLinks
  Forms = {"swap", "add", "remove", "stake", "fund", "manage", "addPool", "vote", "execute", "delegate", "create"}
  Tokens = {"a", "b", "lp", "rw"}
  Amounts = {0, 10}
  Granted <- MCGranted
  MaxRequests <- MCMaxRequests
  MaxUnderway = 2
  MaxEdits <- MCMaxEdits
  MaxVisits <- MCMaxVisits
  Listed = {"a", "b"}
  Weth = "weth"
  Starts <- MCStarts
  Markets = {"detour"}
  PoolsOf <- MCPools
  Slippages = {0, 50}
  Balance = 20
  PoolOrder <- MCPoolOrder
  PoolReserves <- MCPoolReserves
  LpBalance = 4
  Percents = {50}
  StakingToken = "lp"
  RewardToken = "rw"
  Pending = 5
  IsOwner = TRUE
INVARIANTS
  TypeOK
  ToastsTellTheOutcome
  
  
  AskedWithinAllowance
  
CHECK_DEADLOCK FALSE
