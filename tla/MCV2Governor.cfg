CONSTANTS
  alice = alice
  bob = bob
  Accounts = {alice, bob}
  VoteDistributions <- MCVoteDistributions
  CallLists <- MCCallLists
  VotingPeriods = {1}
  Quorums = {2}
  Thresholds = {2}
  GracePeriods = {1}
  SecondsPerBlock = 1
  BlockTimes = {1, 2}
  MaxUint64 = 7
  MaxUint256 = 15
  MaxBlock = 4
  MaxProposals = 2
SPECIFICATION Spec
INVARIANTS TypeOK TalliesMatchSnapshot CallsRunOnce StatusOffersExecution
PROPERTY ImplementsReferendum
CHECK_DEADLOCK FALSE
