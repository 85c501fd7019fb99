------------------------------ MODULE Clearing ------------------------------
(***************************************************************************)
(* How pallet-fuso-verifier clears the orders of a dominator: the matcher  *)
(* executes orders and proves each to the chain; the chain knows a root of *)
(* the matcher's tree, checks the leaves a proof opens, and moves reserves *)
(* to what the new leaves say.                                             *)
(*                                                                         *)
(* The matcher runs ahead of the chain and hands in its proofs in batches; *)
(* a batch may be lost, late, or handed in again.  A proof that does not   *)
(* start from the known root fails, and one failing proof undoes its whole *)
(* batch.  Funds coming in and going out and the asset layer beneath the   *)
(* reserves are module Custody's subject; users are funded at the start.   *)
(* Amounts count in units above the tolerance of 10^11.                    *)
(***************************************************************************)
EXTENDS Matcher, Indicator, Sequences

CONSTANTS
  StableToken,                \* tokens registered as stable
  Amount,                     \* amounts of orders
  Funds,                      \* what each user has with the dominator
  MakerFee, TakerFee,         \* rates of orders, in units of 1/Parts
  MaxMakerFee, MaxTakerFee,
  U8,                         \* 2^8: range of the count of leaves
  Bit,                        \* values of the bits of an amount: 1, 2, 4, ...
  MaxEvents                   \* bound of the model: orders and cancellations

ASSUME ClearingAssumption ==
  /\ IsFiniteSet(User) /\ Base # Quote /\ Quote \in StableToken
  /\ Price \subseteq Nat \ {0} /\ Amount \subseteq Nat \ {0}
  /\ Funds \in [User -> [Token -> Nat]]
  /\ Parts \in Nat \ {0}
  /\ \A rate \in MakerFee \cup TakerFee : rate \in 0..Parts
  /\ \A rate \in MakerFee : rate <= MaxMakerFee
  /\ \A rate \in TakerFee : rate <= MaxTakerFee
  /\ U8 \in Nat /\ Bit \subseteq Nat \ {0} /\ MaxEvents \in Nat

VARIABLES
  orders, book,   \* matcher: open orders, the tree it commits to
  sent,           \* matcher: proofs so far
  root,           \* chain: the tree its merkle root stands for
  reserve,        \* chain: reserves for authorizing, per user and token
  fees,           \* chain: base credited to the dominator, quote put_profit got
  volume          \* chain: what save_trading was told, per user

vars == <<orders, book, sent, root, reserve, fees, volume, prices>>
matcher == <<orders, book, sent>>

Cmd == [side : Side, who : User, price : Price, amount : Amount,
        maker_fee : MakerFee, taker_fee : TakerFee]

TypeOK ==
  /\ DOMAIN orders \subseteq 1..MaxEvents
  /\ \A i \in DOMAIN orders : orders[i] \in Order
  /\ \A x \in {book, root} : \A u \in User, t \in Token :
       x.account[u][t].available \in Nat /\ x.account[u][t].frozen \in Nat
  /\ Len(sent) <= MaxEvents
  /\ reserve \in [User -> [Token -> Nat]]
  /\ fees \in [Token -> Nat]
  /\ volume \in [User -> Nat]
  /\ prices \in [{Base} -> Nat]

Init ==
  /\ orders = <<>>
  /\ book = Tree(<<>>, [u \in User |-> [t \in Token |->
                          [available |-> Funds[u][t], frozen |-> 0]]])
  /\ sent = <<>>
  /\ root = book
  /\ reserve = Funds
  /\ fees = [t \in Token |-> 0]
  /\ volume = [u \in User |-> 0]
  /\ prices = [t \in {Base} |-> 0]

-----------------------------------------------------------------------------
(* The matcher takes an order or a cancellation.                           *)

Leaves(p) == 4 + 2 * Cardinality(p.makers) + Len(p.pages)

(* A proof has fewer leaves than their count, a byte, can tell.            *)
Execute(c) ==
  LET fills == Fills(orders, c)
      rest == Rest(orders, c)
      left == OrdersAfter(orders, c, fills, rest, Len(sent) + 1)
      new == Tree(left, AccountsAfter(book.account, orders, c, fills, rest))
      proof == [cmd |-> c, makers |-> {orders[i].who : i \in Filled(fills)},
                pages |-> PagesOf(orders, c, fills, rest),
                at |-> {orders[i].price : i \in Filled(fills)}, old |-> book, new |-> new]
  IN /\ Len(sent) < MaxEvents
     /\ HasFunds(book.account, c)
     /\ Leaves(proof) < U8
     /\ orders' = left
     /\ book' = new
     /\ sent' = Append(sent, proof)
     /\ UNCHANGED <<root, reserve, fees, volume, prices>>

CancelOrder(i) ==
  LET o == orders[i]
      left == Restrict(orders, DOMAIN orders \ {i})
      new == Tree(left, Unfrozen(book.account, o))
  IN /\ Len(sent) < MaxEvents
     /\ orders' = left
     /\ book' = new
     /\ sent' = Append(sent,
          [cmd |-> [side |-> "cancel", who |-> o.who], makers |-> {},
           pages |-> <<o.price>>, at |-> {}, old |-> book, new |-> new])
     /\ UNCHANGED <<root, reserve, fees, volume, prices>>

-----------------------------------------------------------------------------
(* The chain checks a proof.  old and new are the values of the leaves.    *)

AccountSum(tree, u, t) == tree.account[u][t].available + tree.account[u][t].frozen
Gain(p, u, t) == AccountSum(p.new, u, t) - AccountSum(p.old, u, t)
Loss(p, u, t) == -Gain(p, u, t)

leaves_count(p) == Leaves(p) % U8

(* Orders are quoted in a stable token; the matcher takes no others.       *)
is_stable(t) == t \in StableToken
check_fee(c) == c.maker_fee <= MaxMakerFee /\ c.taker_fee <= MaxTakerFee

has_authorized_exactly_on(res, p, u) ==
  \A t \in Token : res[u][t] = AccountSum(p.old, u, t)

(* Pages in the order of the proof: all but the last are emptied.          *)
FirstPages(p) == 1..(Len(p.pages) - 1)
LastPage(p) == p.pages[Len(p.pages)]
Emptied(p) == \A i \in FirstPages(p) : p.new.page[p.pages[i]] = 0
TakenBefore(p) == SumFunction([i \in FirstPages(p) |-> p.old.page[p.pages[i]]])
LastOld(p) == p.old.page[LastPage(p)]
LastNew(p) == p.new.page[LastPage(p)]

(* best_bid0 >= page0 > page1 > .. > pagen >= best_bid1                    *)
BelowBest(p) ==                                 \* mutant of Descending
  \A i \in DOMAIN p.pages :
    (IF i = 1 THEN p.old.best["bid"] ELSE p.pages[i - 1]) > p.pages[i]
Descending(p) ==
  \A i \in DOMAIN p.pages :
    (IF i = 1 THEN p.old.best["bid"] + 1 ELSE p.pages[i - 1]) > p.pages[i]
(* best_ask0 <= page0 <= page1 <= .., for all but the last.                *)
Ascending(p) ==
  \A i \in FirstPages(p) :
    (IF i = 1 THEN p.old.best["ask"] ELSE p.pages[i - 1]) <= p.pages[i]

AskPages(p, ask_delta, bid_delta, tb_delta) ==
  IF bid_delta # 0
  THEN /\ p.pages # <<>> /\ p.cmd.price <= p.old.best["bid"]
       /\ Descending(p) /\ Emptied(p) /\ LastPage(p) >= p.new.best["bid"]
       /\ IF ask_delta # 0
          THEN /\ p.new.best["ask"] = p.cmd.price /\ LastPage(p) = p.cmd.price
               /\ TakenBefore(p) + LastOld(p) + LastNew(p) = p.cmd.amount
          ELSE /\ p.new.best["ask"] = p.old.best["ask"]
               /\ tb_delta = TakenBefore(p) + LastOld(p) - LastNew(p)
  ELSE /\ p.new.best["bid"] = p.old.best["bid"]
       /\ ask_delta # 0 =>
            /\ p.pages # <<>> /\ LastPage(p) > p.new.best["bid"]
            /\ p.cmd.amount = LastNew(p) - LastOld(p)

verify_ask_limit(p, res) ==
  LET c == p.cmd
      ask_delta == p.new.size["ask"] - p.old.size["ask"]
      bid_delta == p.old.size["bid"] - p.new.size["bid"]
      tb_delta == Loss(p, c.who, Base)
      tq_delta == Gain(p, c.who, Quote)
      mb_delta == SumFunction([u \in p.makers |-> Gain(p, u, Base)])
      mq_delta == SumFunction([u \in p.makers |-> Loss(p, u, Quote)])
      available(x) == x.account[c.who][Base].available
      frozen(x) == x.account[c.who][Base].frozen
  IN /\ Leaves(p) = leaves_count(p)
     /\ \A u \in {c.who} \cup p.makers : has_authorized_exactly_on(res, p, u)
     /\ IF ask_delta # 0 THEN c.amount = available(p.old) - available(p.new)
                         ELSE frozen(p.old) = frozen(p.new)
     /\ bid_delta = tb_delta
     /\ mb_delta + mul_ceil(c.maker_fee, tb_delta) = tb_delta
     /\ mq_delta = tq_delta + mul_ceil(c.taker_fee, mq_delta)
     /\ AskPages(p, ask_delta, bid_delta, tb_delta)

BidPages(p, ask_delta, bid_delta, mb_delta) ==
  IF ask_delta # 0
  THEN /\ p.pages # <<>> /\ p.cmd.price >= p.old.best["ask"]
       /\ Ascending(p) /\ Emptied(p)
       /\ IF bid_delta # 0
          THEN /\ LastPage(p) = p.cmd.price /\ p.new.best["bid"] = p.cmd.price
               /\ TakenBefore(p) + LastOld(p) + LastNew(p) = p.cmd.amount
          ELSE /\ p.new.best["bid"] = p.old.best["bid"]
               /\ mb_delta = TakenBefore(p) + LastOld(p) - LastNew(p)
  ELSE /\ p.new.best["ask"] = p.old.best["ask"]
       /\ bid_delta # 0 =>
            /\ p.pages # <<>> /\ LastPage(p) = p.cmd.price
            /\ p.cmd.amount = LastNew(p) - LastOld(p)

verify_bid_limit(p, res) ==
  LET c == p.cmd
      ask_delta == p.old.size["ask"] - p.new.size["ask"]
      bid_delta == p.new.size["bid"] - p.old.size["bid"]
      tb_delta == Gain(p, c.who, Base)
      tq_delta == Loss(p, c.who, Quote)
      mb_delta == SumFunction([u \in p.makers |-> Loss(p, u, Base)])
      mq_delta == SumFunction([u \in p.makers |-> Gain(p, u, Quote)])
  IN /\ Leaves(p) = leaves_count(p)
     /\ \A u \in {c.who} \cup p.makers : has_authorized_exactly_on(res, p, u)
     /\ mq_delta + mul_ceil(c.maker_fee, tq_delta) = tq_delta
     /\ tb_delta + mul_ceil(c.taker_fee, mb_delta) = mb_delta
     /\ ask_delta = mb_delta
     /\ bid_delta # 0 => bid_delta = c.amount - mb_delta
     /\ BidPages(p, ask_delta, bid_delta, tb_delta + mul_ceil(c.taker_fee, mb_delta))

CancelsAsk(cancel_at, best_ask0) == cancel_at >= best_ask0 /\ best_ask0 # 0

(* a & b = 0: no bit is set in both.                                       *)
NoCommonBit(a, b) == \A x \in Bit : (a \div x) % 2 = 0 \/ (b \div x) % 2 = 0

verify_cancel(p) ==
  LET ask_delta == p.old.size["ask"] - p.new.size["ask"]
      bid_delta == p.old.size["bid"] - p.new.size["bid"]
      cancel_at == p.pages[1]
  IN /\ ask_delta + bid_delta # 0 /\ NoCommonBit(ask_delta, bid_delta)
     /\ \A t \in Token : Gain(p, p.cmd.who, t) = 0
     /\ cancel_at >= p.old.best["ask"] \/ cancel_at <= p.old.best["bid"]
     /\ LastOld(p) - LastNew(p) =
          IF CancelsAsk(cancel_at, p.old.best["ask"]) THEN ask_delta ELSE bid_delta

Verified(p, res) ==
  CASE p.cmd.side = "ask" -> check_fee(p.cmd) /\ is_stable(Quote) /\ verify_ask_limit(p, res)
    [] p.cmd.side = "bid" -> check_fee(p.cmd) /\ is_stable(Quote) /\ verify_bid_limit(p, res)
    [] p.cmd.side = "cancel" -> verify_cancel(p)

-----------------------------------------------------------------------------
(* The chain applies a proof.  Volumes: an ask counts what makers lost, a  *)
(* bid what they gained; the taker's counts for the price.                 *)

TakerOnly(p) == IF p.makers = {} THEN {} ELSE {p.cmd.who}   \* mutant of Mutated
Mutated(p) == IF p.makers = {} THEN {} ELSE {p.cmd.who} \cup p.makers

clear(res, p) ==
  [u \in User |-> [t \in Token |->
     IF u \in Mutated(p) THEN AccountSum(p.new, u, t) ELSE res[u][t]]]

matched_volume(p, u) ==
  IF u = p.cmd.who
  THEN IF p.cmd.side = "ask" THEN SumFunction([m \in p.makers |-> Loss(p, m, Quote)])
                             ELSE Loss(p, u, Quote)
  ELSE IF p.cmd.side = "ask" THEN Loss(p, u, Quote) ELSE Gain(p, u, Quote)
BaseGained(p) ==                                \* mutant of matched_amount
  IF p.cmd.side = "ask" THEN Loss(p, p.cmd.who, Base) ELSE Gain(p, p.cmd.who, Base)
matched_amount(p) ==
  IF p.cmd.side = "ask" THEN Loss(p, p.cmd.who, Base)
  ELSE SumFunction([m \in p.makers |-> Loss(p, m, Base)])

FeesDown(p) ==                                  \* mutant of FeesOf
  [t \in Token |-> IF p.makers = {} THEN 0
     ELSE IF t = PayToken(p.cmd.side)
          THEN (p.cmd.maker_fee * Loss(p, p.cmd.who, t)) \div Parts
          ELSE (p.cmd.taker_fee * SumFunction([m \in p.makers |-> Loss(p, m, t)])) \div Parts]
FeesOf(p) ==
  [t \in Token |-> IF p.makers = {} THEN 0
     ELSE IF t = PayToken(p.cmd.side)
          THEN mul_ceil(p.cmd.maker_fee, Loss(p, p.cmd.who, t))
          ELSE mul_ceil(p.cmd.taker_fee, SumFunction([m \in p.makers |-> Loss(p, m, t)]))]

verify_and_update(st, p) ==
  [ok |-> st.ok /\ p.old = st.root /\ Verified(p, st.reserve),
   root |-> p.new,
   reserve |-> clear(st.reserve, p),
   fees |-> [t \in Token |-> st.fees[t] + FeesOf(p)[t]],
   volume |-> [u \in User |->
     IF u \in Mutated(p) THEN st.volume[u] + matched_volume(p, u) ELSE st.volume[u]],
   amount |-> IF p.makers = {} THEN st.amount ELSE st.amount + matched_amount(p),
   vol |-> IF p.makers = {} THEN st.vol ELSE st.vol + matched_volume(p, p.cmd.who)]

verify_batch(proofs) ==
  LET after[k \in 0..Len(proofs)] ==
        IF k = 0
        THEN [ok |-> TRUE, root |-> root, reserve |-> reserve, fees |-> fees,
              volume |-> volume, amount |-> 0, vol |-> 0]
        ELSE verify_and_update(after[k - 1], proofs[k])
  IN after[Len(proofs)]

(* A batch of proofs from the i-th to the j-th, handed in whenever.        *)
verify(i, j) ==
  /\ \E after \in {verify_batch(SubSeq(sent, i, j))} :
       /\ after.ok
       /\ root' = after.root
       /\ reserve' = after.reserve
       /\ fees' = after.fees
       /\ volume' = after.volume
       /\ IF after.amount = 0 THEN UNCHANGED prices
          ELSE set_price(Base, after.amount, after.vol)
  /\ UNCHANGED matcher

-----------------------------------------------------------------------------
Next ==
  \/ \E c \in Cmd : Execute(c)
  \/ \E i \in DOMAIN orders : CancelOrder(i)
  \/ \E i \in DOMAIN sent : \E j \in i..Len(sent) : verify(i, j)

Spec == Init /\ [][Next]_vars

-----------------------------------------------------------------------------
(* Properties.                                                             *)

(* What an honest matcher proves is accepted whenever its turn comes,      *)
(* through partial fills, several pages and makers, emptied sides,         *)
(* cancellations and rounded fees: a proof that is refused would stop the  *)
(* dominator for good, since every later one builds on it.                 *)
HonestAccepted ==
  \A i \in DOMAIN sent :
    sent[i].old = root => verify_batch(SubSeq(sent, i, Len(sent))).ok

(* What the chain keeps for a user is what the leaves it knows say, also   *)
(* for users that only appear as makers, and after batches handed in again.*)
ReservesFollow ==
  \A u \in User, t \in Token :
    reserve[u][t] = root.account[u][t].available + root.account[u][t].frozen

(* Clearing moves tokens between users and fees, and loses none.           *)
ClearingConserves ==
  \A t \in Token :
    SumFunction([u \in User |-> reserve[u][t]]) + fees[t]
      = SumFunction([u \in User |-> Funds[u][t]])

(* The price the chain derives lies between prices orders really met at,   *)
(* although it is a quotient of sums over a batch, before fees.            *)
PriceWasPaid ==
  prices[Base] # 0 =>
    LET paid == UNION {sent[i].at : i \in DOMAIN sent}
    IN \E low, high \in paid :
         low * Quintill <= prices[Base] /\ prices[Base] <= high * Quintill
=============================================================================
