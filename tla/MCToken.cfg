\* Two accounts, two tokens with decimals below and above the standard.
SPECIFICATION Spec
CONSTANTS
  Account = {a1, a2}
  Rich = a1
  Funds = 2
  Endowment <- MCEndowment
  MaxTokenId = 2
  Contract = {c1, c2}
  Foreign = {f1}
  Amount = {0, 1}
  Decimals = {0, 2, 3}
  StandardDecimals = 1
  MaxDecimals = 2
  Radix = 2
  BalanceRange = 4
  BurnTAOwhenIssue = 1
INVARIANTS
  IssuanceCovers
  NameRoundTrip
PROPERTIES
  ReservedNotDestroyed
