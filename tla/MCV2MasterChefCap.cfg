CONSTANTS
  Precision = 4
  MaxUint256 = 127
  Users = {alice, bob}
  Chef = Chef
  Treasury = Treasury
  LpTokens = {lpToken}
  Rewarders = {rewarder1}
  NoRewarder = NoRewarder
  LpSupply <- MCLpSupply
  RewardSupply = 6
  Amounts <- MCAmounts
  RewardRates <- MCRates
  RewardCaps <- MCLowCaps
  RewardersAreShared = FALSE
  CapMayDropBelow = TRUE
  MaxTime = 3
  MaxDeposits = 1
SPECIFICATION Spec
INVARIANT PaidWithinHighestCap
CHECK_DEADLOCK FALSE
