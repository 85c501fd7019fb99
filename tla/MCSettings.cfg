\* Two dominators that may be each other's beneficiary, and their own.
SPECIFICATION SettingsSpec
CONSTANTS
  Account = {a1, a2}
  Dominator = {a1, a2}
  Text = {t1}
  BrokerStakingThreshold = 1
  Funds <- MCFunds
  MaxAccountNonce = 2
  MaxProofs = 2
  MaxLives = 1
INVARIANTS
  ProofUsedOnce
PROPERTIES
  BeneficiaryConsents
CHECK_DEADLOCK FALSE
