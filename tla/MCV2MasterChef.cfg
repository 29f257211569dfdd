CONSTANTS
  Precision = 4
  MaxUint256 = 127
  Users = {alice, bob}
  Chef = Chef
  Treasury = Treasury
  LpTokens = {lpToken}
  Rewarders = {rewarder1}
  NoRewarder = NoRewarder
  LpSupply <- MCLpSupply
  RewardSupply = 2
  Amounts <- MCAmounts
  RewardRates <- MCRates
  RewardCaps <- MCCaps
  RewardersAreShared = FALSE
  CapMayDropBelow = FALSE
  MaxTime = 3
  MaxDeposits = 2
SPECIFICATION Spec
SYMMETRY StakerSymmetry
INVARIANTS TypeOK StakesAreBacked StakersCanExit RewardsNotPromisedTwice CapIsKept
PROPERTIES HarvestPaysWhatIsShown OthersKeepTheirRewards
CHECK_DEADLOCK FALSE
