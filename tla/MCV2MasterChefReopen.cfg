CONSTANTS
  Precision = 4
  MaxUint256 = 127
  Users = {alice, bob}
  Chef = Chef
  Treasury = Treasury
  LpTokens = {lpToken}
  Rewarders = {rewarder1}
  NoRewarder = NoRewarder
  LpSupply <- MCLpSupply
  RewardSupply = 2
  Amounts <- MCAmounts
  RewardRates <- MCRates
  RewardCaps <- MCCaps
  RewardersAreShared = FALSE
  CapMayDropBelow = FALSE
  MaxTime = 3
  MaxDeposits = 1
SPECIFICATION Spec
PROPERTY CapChangeIsNotRetroactive
CHECK_DEADLOCK FALSE
