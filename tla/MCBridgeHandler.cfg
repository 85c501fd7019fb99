\* Three relayers, one of them faulty and a quorum of two: one deposit in,
\* two withdrawals out, a dominator that comes and goes, prices that move.
SPECIFICATION Spec
CONSTANTS
  Relayer = {r1, r2, r3}
  Honest = {r1, r2}
  Quorum = 2
  User = {u1}
  Bridge = bridge
  Treasury = treasury
  Donor = donor
  Dominator = {d1}
  Dex = {0}
  ThisChain = this
  ForeignChain = eth
  MaxTokenId = 1
  DecimalsOfAll = 2
  TokenDecimals <- MCDecimals
  StableToken = {}
  StandardDecimals = 1
  MaxDecimals = 2
  Radix = 2
  BalanceRange = 64
  Wealth = 7
  Endowment <- MCEndowment
  InAmount = {4}
  OutAmount = {4, 5}
  Trades <- OneTrade
  BridgingFeeInUSD = 1
  Quintill = 2
  NativeTokenMaxValue = 12
  DonationForAgent = 1
  DepositNonce = {1}
  MaxNonce = 2
  ProposalLifetime = 1
  MaxBlock = 1
INVARIANTS
  VaultCovers
  AssetsConserved
  ReservedIsHosted
  FeeWorth
PROPERTIES
  IdealSpec
  DepositCredited
