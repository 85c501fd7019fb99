------------------------------ MODULE Matcher -------------------------------
(***************************************************************************)
(* The matcher of a dominator, for one pair of tokens.  It is a program    *)
(* outside of the repository, modelled from what the verifier expects of   *)
(* it: price-time priority, a taker that meets its own order is cancelled  *)
(* for the rest ("conditional_canceled"), fees are taken from what a side  *)
(* receives and the makers' fees add up to the fee of the whole trade.     *)
(*                                                                         *)
(* Operators only: the matcher's private state is the function of open     *)
(* orders, numbered as they arrive; what it commits to is a tree of leaves *)
(* (sizes of both sides, best prices, order pages, accounts).              *)
(***************************************************************************)
EXTENDS Integers, FiniteSetsExt

CONSTANTS
  User,
  Base, Quote,
  Price,
  Parts        \* accuracy of Permill (10^6 in the code)

Token == {Base, Quote}
Side == {"ask", "bid"}
Order == [who : User, side : Side, price : Price, rest : Nat \ {0}]

mul_ceil(rate, x) == (rate * x + Parts - 1) \div Parts

(* What a taker on this side pays with, and what it gets.                  *)
PayToken(side) == IF side = "ask" THEN Base ELSE Quote
GetToken(side) == IF side = "ask" THEN Quote ELSE Base
Paid(side, base, price) == IF side = "ask" THEN base ELSE base * price
Got(side, base, price) == IF side = "ask" THEN base * price ELSE base

-----------------------------------------------------------------------------
(* The leaves.  An empty side has the best price 0.                        *)

BestOf(orders, side) ==
  LET prices == {orders[i].price : i \in {j \in DOMAIN orders : orders[j].side = side}}
  IN IF prices = {} THEN 0 ELSE IF side = "ask" THEN Min(prices) ELSE Max(prices)

SizeOf(orders, side) ==
  SumFunction([i \in DOMAIN orders |-> IF orders[i].side = side THEN orders[i].rest ELSE 0])
PageOf(orders, price) ==
  SumFunction([i \in DOMAIN orders |-> IF orders[i].price = price THEN orders[i].rest ELSE 0])

Tree(orders, account) ==
  [size |-> [s \in Side |-> SizeOf(orders, s)],
   best |-> [s \in Side |-> BestOf(orders, s)],
   page |-> [p \in Price |-> PageOf(orders, p)],
   account |-> account]

-----------------------------------------------------------------------------
(* A new order against the open ones, the best first.                      *)

Better(side, p, q) == IF side = "ask" THEN p > q ELSE p < q
Before(orders, side, i, j) ==
  \/ Better(side, orders[i].price, orders[j].price)
  \/ orders[i].price = orders[j].price /\ i < j
Crossing(orders, c) ==
  {i \in DOMAIN orders : /\ orders[i].side # c.side
                         /\ ~Better(c.side, c.price, orders[i].price)}
Ahead(orders, c, i) == {j \in Crossing(orders, c) : Before(orders, c.side, j, i)}

(* The orders before one of the taker itself.                              *)
MeetsOwn(orders, c) == {i \in Crossing(orders, c) : orders[i].who = c.who}
Reach(orders, c) ==
  {i \in Crossing(orders, c) : (Ahead(orders, c, i) \cup {i}) \cap MeetsOwn(orders, c) = {}}

(* What is taken from each open order.                                     *)
Fills(orders, c) ==
  LET left(i) == c.amount - SumFunction([j \in Ahead(orders, c, i) |-> orders[j].rest])
  IN [i \in DOMAIN orders |->
        IF i \in Reach(orders, c) /\ left(i) > 0
        THEN IF left(i) < orders[i].rest THEN left(i) ELSE orders[i].rest
        ELSE 0]

Filled(fills) == {i \in DOMAIN fills : fills[i] > 0}

Rest(orders, c) ==
  IF MeetsOwn(orders, c) # {} THEN 0 ELSE c.amount - SumFunction(Fills(orders, c))

(* Makers are charged one after the other, so that rounding up happens     *)
(* once for the whole trade.                                               *)
PaidTo(orders, c, fills, S) ==
  SumFunction([i \in S |-> Paid(c.side, fills[i], orders[i].price)])
Charge(orders, c, fills, i) ==
  mul_ceil(c.maker_fee, PaidTo(orders, c, fills, Ahead(orders, c, i) \cup {i}))
    - mul_ceil(c.maker_fee, PaidTo(orders, c, fills, Ahead(orders, c, i)))

MakerLeaves(old, orders, c, fills, u) ==
  LET received == SumFunction([i \in DOMAIN orders |->
        IF orders[i].who = u
        THEN Paid(c.side, fills[i], orders[i].price) - Charge(orders, c, fills, i) ELSE 0])
      given == SumFunction([i \in DOMAIN orders |->
        IF orders[i].who = u THEN Got(c.side, fills[i], orders[i].price) ELSE 0])
  IN [old EXCEPT ![PayToken(c.side)].available = @ + received,
                 ![GetToken(c.side)].frozen = @ - given]

TakerLeaves(old, orders, c, fills, rest) ==
  LET paid == PaidTo(orders, c, fills, DOMAIN orders)
      got == SumFunction([i \in DOMAIN orders |-> Got(c.side, fills[i], orders[i].price)])
      kept == Paid(c.side, rest, c.price)
  IN [old EXCEPT ![PayToken(c.side)] = [available |-> @.available - (paid + kept),
                                        frozen |-> @.frozen + kept],
                 ![GetToken(c.side)].available = @ + (got - mul_ceil(c.taker_fee, got))]

(* The part of the order that is not matched stays, under number n.        *)
OrdersAfter(orders, c, fills, rest, n) ==
  [i \in {j \in DOMAIN orders : fills[j] < orders[j].rest} \cup (IF rest = 0 THEN {} ELSE {n}) |->
     IF i = n THEN [who |-> c.who, side |-> c.side, price |-> c.price, rest |-> rest]
              ELSE [orders[i] EXCEPT !.rest = @ - fills[i]]]

AccountsAfter(account, orders, c, fills, rest) ==
  [u \in User |-> IF u = c.who THEN TakerLeaves(account[u], orders, c, fills, rest)
                  ELSE MakerLeaves(account[u], orders, c, fills, u)]

(* The pages a trade touches, best first; the last one is the page of the  *)
(* taker's own price if part of the order stays.                           *)
BestFirst(side, ps) ==
  CHOOSE q \in [1..Cardinality(ps) -> ps] :
    \A i, j \in DOMAIN q : i < j => Better(side, q[i], q[j])
PagesOf(orders, c, fills, rest) ==
  BestFirst(c.side, {orders[i].price : i \in Filled(fills)}
                      \cup (IF rest = 0 THEN {} ELSE {c.price}))

HasFunds(account, c) ==
  account[c.who][PayToken(c.side)].available >= Paid(c.side, c.amount, c.price)

(* An order withdrawn: what was frozen for it is available again.          *)
Unfrozen(account, o) ==
  LET v == Paid(o.side, o.rest, o.price)
  IN [account EXCEPT ![o.who][PayToken(o.side)] =
        [available |-> @.available + v, frozen |-> @.frozen - v]]
=============================================================================
