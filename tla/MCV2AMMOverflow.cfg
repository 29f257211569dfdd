CONSTANTS
  FeeNum = 3
  FeeDenom = 4
  MinimumLiquidity = 1
  MaxUint128 = 7
  MaxUint256 = 63
  Large = Large
  Small = Small
  Users = {Large, Small}
  Pool = Pool
  Dead = Dead
  InitialBalance <- MCAbundantBalance
  Amounts <- MCAmounts
  Minimums <- MCMinimums
SPECIFICATION Spec
PROPERTY ProductNeverFallsInSwap
CHECK_DEADLOCK FALSE
