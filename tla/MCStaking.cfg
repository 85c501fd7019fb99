\* Two stakers of one dominator; on_initialize skips every other block.
SPECIFICATION Spec
CONSTANTS
  Staker = {s1, s2}
  Dominator = {d1}
  Name = {n1}
  SystemAccount = sys
  Native = tao
  Amount = {0, 1, 2}
  Fee = {1}
  Endowment = 2
  DominatorOnlineThreshold = 2
  MinimalStakingAmount = 1
  SeasonDuration = 2
  DominatorCheckGracePeriod = 2
  UnstakeDelayBlocks = 2
  Parts = 100
  MaxProfit = 1
  MaxBlock = 6
INVARIANTS
  FundsBacked
  StatusFollowsStake
  PaidOnce
  SeasonAccounted
  ShareBound
PROPERTIES
  EvictedIsFinal
  UnstakeUnlocks
CHECK_DEADLOCK FALSE
