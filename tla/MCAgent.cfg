\* One account that signs requests for two nonces and is paid now and then.
SPECIFICATION AgentSpec
CONSTANTS
  Account = {a1}
  Light = light
  Heavy = heavy
  Huge = huge
  Call = {light, heavy, huge}
  RefTime <- MCRefTime
  ProofSize <- MCProofSize
  Size <- MCSize
  Cost <- MCCost
  MaxRefTime = 10
  MaxProofSize = 10
  MaxSize = 2
  BaseFee = 0
  ByteFee = 1
  Longevity = 5
  MaxNonce = 1
  MaxFunds = 5
INVARIANTS
  ExecutedInTurn
  FeesAccounted
PROPERTIES
  TurnCompletes
