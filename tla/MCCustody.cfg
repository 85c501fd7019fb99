\* A seller of base and a seller of quote on one dominator, evicted or not.
SPECIFICATION Spec
CONSTANTS
  User = {u1, u2}
  Seller = u1
  Funds = 2
  Endowment <- MCEndowment
  Dominator = {d1}
  Base = b
  Quote = q
  Amount = {0, 1, 2}
  MakerFee = {1}
  TakerFee = {1}
  MaxMakerFee = 1
  MaxTakerFee = 1
  Parts = 4
INVARIANTS
  ReservesBacked
  BookMatchesReserves
  TokenConserved
  ReceiptResolvable
PROPERTIES
  EvictedReturns
  EvictedRecoverable
