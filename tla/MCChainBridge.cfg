\* One deposit of one chain, three accounts that come and go as relayers.
SPECIFICATION Spec
CONSTANTS
  Account = {a1, a2, a3}
  Chain = {c1, this}
  ThisChain = this
  DepositNonce = {1}
  Proposal = {p1}
  Resource = {r1}
  MappedResource = {r1}
  Threshold = {0, 1, 2, 3}
  ProposalLifetime = 1
  MaxBlock = 2
  MaxNonce = 2
SYMMETRY AccountSymmetry
INVARIANTS
  OneVoteEach
PROPERTIES
  QuorumBehindExecution
  OpenAwaitsSomeone
  DeliverySpec
