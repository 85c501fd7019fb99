\* The issuance of one token against the balances of two accounts.
SPECIFICATION Spec
CONSTANTS
  Account = {a1, a2}
  Rich = a1
  Funds = 2
  Endowment <- MCEndowment
  MaxTokenId = 1
  Contract = {c1}
  Foreign = {f1}
  Amount = {0, 1, 2}
  Decimals = {0, 2, 3}
  StandardDecimals = 1
  MaxDecimals = 2
  Radix = 2
  BalanceRange = 4
  BurnTAOwhenIssue = 1
INVARIANTS
  IssuanceIsSum
