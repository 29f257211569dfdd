CONSTANTS
  FeeNum = 3
  FeeDenom = 4
  MinimumLiquidity = 1
  MaxUint128 = 15
  MaxUint256 = 255
  alice = alice
  Users = {alice}
  Router = Router
  Dead = Dead
  Tokens <- MCTokens
  Weth = 12
  Eth = 0
  InitialBalance <- MCInitialBalance
  Deposits = {2, 4}
  Minimums = {0}
  Inputs = {2, 3}
  Gifts = {1}
  Paths <- MCPaths
  MaxPools = 2
  MaxStrays = 1
SPECIFICATION Spec
INVARIANTS TypeOK PoolsAreSound RouterKeepsNothing WethIsBacked DepositsKeepRatio
CHECK_DEADLOCK FALSE
