\* One user whose transfer in may be rejected.
SPECIFICATION Spec
CONSTANTS
  User = {u1}
  Seller = u1
  Funds = 2
  Endowment <- MCEndowment
  Dominator = {d1}
  Base = b
  Quote = q
  Amount = {0, 1, 2}
  MakerFee = {1}
  TakerFee = {1}
  MaxMakerFee = 1
  MaxTakerFee = 1
  Parts = 4
INVARIANTS
  ReservedIsClaimable
