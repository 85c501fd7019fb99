\* Two traders, three eras of two blocks; the programme ends in the third.
SPECIFICATION RewardSpec
CONSTANTS
  Trader = {t1, t2}
  Volume = {0, 1, 2}
  Reward = {1, 3}
  RewardsPerEra = 3
  EraDuration = 2
  RewardTerminateAt = 4
  Parts = 100
  MaxVolume = 3
  MaxBlock = 5
SYMMETRY TraderSymmetry
INVARIANTS
  VolumeAccounted
  AwardedOnce
  RewardsConserved
  EraBound
