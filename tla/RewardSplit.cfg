CONSTANTS
  v1 = v1
  v2 = v2
  n1 = n1
  n2 = n2
  Validators = {v1, v2}
  Nominators = {n1, n2}
  Pools <- MCPools
  RewardPools <- MCRewardPools
SPECIFICATION SplitSpec
INVARIANTS
  SplitTypeOK
  RewardsFitThePool
  NominatorsGetTheRest
  RanksFollowRewards
  StakesWithinLocked
  RoundChecksOut
CHECK_DEADLOCK FALSE
