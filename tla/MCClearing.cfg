\* Three users with orders at two prices; the fourth event may follow a
\* trade with two makers on two pages.
SPECIFICATION Spec
CONSTANTS
  User = {u1, u2, u3}
  Base = base
  Quote = quote
  StableToken = {quote}
  Price = {1, 2}
  Amount = {1, 3}
  Parts = 4
  MakerFee = {1}
  TakerFee = {2}
  MaxMakerFee = 2
  MaxTakerFee = 2
  BaseFunds = 3
  QuoteFunds = 4
  Funds <- MCFunds
  Quintill = 4
  U8 = 256
  Bit = {1, 2, 4, 8}
  MaxEvents = 4
SYMMETRY Alike
INVARIANTS
  HonestAccepted
  ReservesFollow
  ClearingConserves
  PriceWasPaid
CHECK_DEADLOCK FALSE
