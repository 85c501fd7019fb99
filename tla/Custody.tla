------------------------------ MODULE Custody ------------------------------
(***************************************************************************)
(* Custody of users' tokens by dominators in pallet-fuso-verifier:         *)
(* authorize and revoke, the receipts that hand a request to the off-chain *)
(* matcher, and verify, which applies what the matcher proves.             *)
(*                                                                         *)
(* The merkle root of a dominator commits to the balances of its           *)
(* off-chain books (leaf: available and frozen amount); the root is        *)
(* modelled by what it commits to, the function book.  A proof that does   *)
(* not start from the committed leaves fails and changes nothing.          *)
(*                                                                         *)
(* The matcher is an external program.  It is modelled as one that works   *)
(* on real orders: a filled ask takes base from the taker and quote from   *)
(* the maker, never the other way round, so no difference of leaf values   *)
(* is negative.  It may submit any command at any time, a repeated or a    *)
(* late one included.  A batch is a sequence of single-proof steps: the    *)
(* root is threaded through it and one failing proof undoes all of it.     *)
(***************************************************************************)
EXTENDS Ledger

CONSTANTS
  User, Dominator,
  Base, Quote,          \* two token ids; Quote is stable
  Amount,               \* amounts a caller or an order may name
  Endowment,            \* free balances at genesis, per token and user
  MakerFee, TakerFee,   \* fee rates a trade may name, in units of 1/Parts
  MaxMakerFee, MaxTakerFee,
  Parts                 \* accuracy of Permill (10^6 in the code)

(* Account ids are byte strings of one length; the two words stand for     *)
(* callbacks that name no dominator.                                       *)
ASSUME CustodyAssumption ==
  /\ IsFiniteSet(User) /\ IsFiniteSet(Dominator)
  /\ "none" \notin Dominator /\ "spend" \notin Dominator
  /\ Base # Quote
  /\ Amount \subseteq Nat /\ 0 \in Amount
  /\ Endowment \in [{Base, Quote} -> [User -> Nat]]
  /\ MakerFee \subseteq Nat /\ TakerFee \subseteq Nat
  /\ MaxMakerFee \in Nat /\ MaxTakerFee \in Nat
  /\ Parts \in Nat \ {0}

Token == {Base, Quote}
ReserveId == {"AUTHORIZING", "AUTHORIZING_STASH"}
Status == {"REGISTERED", "INACTIVE", "ACTIVE", "EVICTED"}
Kind == {"Authorize", "Revoke", "RevokeWithCallback"}
Receipt == [kind : Kind, token : Token, amount : Nat]
NoReceipt == [kind |-> "None", token |-> Base, amount |-> 0]

VARIABLES
  status,     \* status of each dominator
  ledger,     \* free and reserved balances, Reserves
  receipts,   \* Receipts[dominator][user]
  book,       \* the leaves the dominator's merkle root commits to
  fees,       \* base fees credited to dominators and quote fees put_profit
              \* keeps for stakers, per token
  bridged     \* what callbacks of users moved out of their free balance

vars == <<status, ledger, receipts, book, fees, bridged>>

TypeOK ==
  /\ status \in [Dominator -> Status]
  /\ ledger \in LedgerType(User, Dominator, Token, ReserveId)
  /\ receipts \in [Dominator -> [User -> Receipt \cup {NoReceipt}]]
  /\ book \in [Dominator -> [User -> [Token -> [available : Nat, frozen : Nat]]]]
  /\ fees \in [Token -> Nat]
  /\ bridged \in [Token -> Nat]

Init ==
  /\ status = [d \in Dominator |-> "REGISTERED"]
  /\ ledger = [free |-> Endowment,
               reserved |-> [t \in Token |-> [u \in User |-> 0]],
               reserves |-> EmptyReserves(User, Dominator, Token, ReserveId)]
  /\ receipts = [d \in Dominator |-> [u \in User |-> NoReceipt]]
  /\ book = [d \in Dominator |-> [u \in User |-> [t \in Token |->
               [available |-> 0, frozen |-> 0]]]]
  /\ fees = [t \in Token |-> 0]
  /\ bridged = [t \in Token |-> 0]

Authorizing(d, u, t) == ledger.reserves["AUTHORIZING"][u][t][d]
Stash(d, u, t) == ledger.reserves["AUTHORIZING_STASH"][u][t][d]
HasReceipt(d, u) == receipts[d][u] # NoReceipt
IsRevoke(r) == r.kind \in {"Revoke", "RevokeWithCallback"}
LeafSum(d, u, t) == book[d][u][t].available + book[d][u][t].frozen

-----------------------------------------------------------------------------
(* What root calls (launch, evict) and staking (stake_on, unstake_from) do *)
(* to the status of a dominator; when they do is module Staking's subject. *)

RootMove == {<<"REGISTERED", "INACTIVE">>} \cup {<<s, "EVICTED">> : s \in Status}
StakeMove == {<<"INACTIVE", "ACTIVE">>, <<"ACTIVE", "INACTIVE">>}

set_status(d, s) ==
  /\ <<status[d], s>> \in RootMove \cup StakeMove
  /\ status' = [status EXCEPT ![d] = s]
  /\ UNCHANGED <<ledger, receipts, book, fees, bridged>>

-----------------------------------------------------------------------------
(* Calls of users.                                                         *)

authorize_to(u, d, t, v) ==
  /\ status[d] = "ACTIVE"
  /\ ~HasReceipt(d, u)
  /\ can_reserve(ledger, t, u, v)
  /\ ledger' = reserve(ledger, "AUTHORIZING_STASH", u, t, v, d)
  /\ receipts' = [receipts EXCEPT ![d][u] =
       [kind |-> "Authorize", token |-> t, amount |-> v]]
  /\ UNCHANGED <<status, book, fees, bridged>>

has_authorized_morethan(d, u, t, v) == Authorizing(d, u, t) >= v

(* revoke_from while the dominator is alive: leave a receipt.              *)
revoke_request(u, d, t, v, kind) ==
  /\ has_authorized_morethan(d, u, t, v)
  /\ status[d] \in {"INACTIVE", "ACTIVE"}
  /\ ~HasReceipt(d, u)
  /\ receipts' = [receipts EXCEPT ![d][u] =
       [kind |-> kind, token |-> t, amount |-> v]]
  /\ UNCHANGED <<status, ledger, book, fees, bridged>>

(* The stash of a user joins what is authorized.                           *)
DropStash(l, d, u, t) ==                        \* mutant of MergeStash
  [l EXCEPT !.reserves["AUTHORIZING_STASH"][u][t][d] = 0]
KeepStash(l, d, u, t) == l                      \* mutant of MergeStash
MergeStash(l, d, u, t) ==
  [l EXCEPT !.reserves["AUTHORIZING"][u][t][d] =
                @ + l.reserves["AUTHORIZING_STASH"][u][t][d],
            !.reserves["AUTHORIZING_STASH"][u][t][d] = 0]

(* revoke_from after eviction: give the funds back at once.                *)
revoke_evicted(u, d, t, v) ==
  LET merged == MergeStash(ledger, d, u, t)
  IN /\ has_authorized_morethan(d, u, t, v)
     /\ status[d] = "EVICTED"
     /\ can_unreserve(merged, "AUTHORIZING", u, t, v, d)
     /\ ledger' = unreserve(merged, "AUTHORIZING", u, t, v, d)
     /\ receipts' = [receipts EXCEPT ![d][u] = NoReceipt]
     /\ UNCHANGED <<status, book, fees, bridged>>

-----------------------------------------------------------------------------
(* verify: transfers.                                                      *)

SetLeaf(d, u, t, leaf) == [book EXCEPT ![d][u][t] = leaf]

(* The one new leaf these checks accept after the old one; an order in     *)
(* the book holds frozen funds, which no transfer touches.                 *)
verify_transfer_in(leaf, amount) == [leaf EXCEPT !.available = @ + amount]
verify_transfer_out(leaf, amount) == [leaf EXCEPT !.available = @ - amount]
verify_reject_transfer_out(leaf, amount) == leaf.available < amount

(* The callback of a revoke is any call signed by the user, dispatched     *)
(* after the funds are released and the receipt is gone and before the new *)
(* root is stored.  It spends the amount just released, authorizes it to a *)
(* dominator (the same one included), or fails, which is only logged.      *)
Callback == {"none", "spend"} \cup Dominator

CallbackRuns(d, u, callback) ==
  /\ callback # "none" => receipts[d][u].kind = "RevokeWithCallback"
  /\ callback \in Dominator =>
       status[callback] = "ACTIVE" /\ (callback = d \/ ~HasReceipt(callback, u))

TransferOut(d, u, callback) ==
  LET r == receipts[d][u]
      leaf == book[d][u][r.token]
      released == unreserve(ledger, "AUTHORIZING", u, r.token, r.amount, d)
      removed == [receipts EXCEPT ![d][u] = NoReceipt]
      spent == IF callback = "spend" THEN r.amount ELSE 0
  IN /\ status[d] = "ACTIVE"
     /\ IsRevoke(r)
     /\ leaf.available >= r.amount
     /\ can_unreserve(ledger, "AUTHORIZING", u, r.token, r.amount, d)
     /\ CallbackRuns(d, u, callback)
     /\ IF callback \in Dominator
        THEN /\ ledger' = reserve(released, "AUTHORIZING_STASH", u, r.token, r.amount, callback)
             /\ receipts' = [removed EXCEPT ![callback][u] =
                  [kind |-> "Authorize", token |-> r.token, amount |-> r.amount]]
        ELSE /\ ledger' = [released EXCEPT !.free[r.token][u] = @ - spent]
             /\ receipts' = removed
     /\ bridged' = [bridged EXCEPT ![r.token] = @ + spent]
     /\ book' = SetLeaf(d, u, r.token, verify_transfer_out(leaf, r.amount))
     /\ UNCHANGED <<status, fees>>

(* The stash entry is removed as a whole, the receipt's amount is added.   *)
StashToAuthorizing(l, d, u, t, v) ==
  [l EXCEPT !.reserves["AUTHORIZING"][u][t][d] = @ + v,
            !.reserves["AUTHORIZING_STASH"][u][t][d] = 0]

TransferInAgain(d, u) ==                        \* mutant of TransferIn
  LET r == receipts[d][u]
      leaf == book[d][u][r.token]
  IN /\ status[d] = "ACTIVE"
     /\ r.kind = "Authorize"
     /\ ledger' = StashToAuthorizing(ledger, d, u, r.token, r.amount)
     /\ book' = SetLeaf(d, u, r.token, verify_transfer_in(leaf, r.amount))
     /\ UNCHANGED <<status, receipts, fees, bridged>>
TransferIn(d, u) ==
  LET r == receipts[d][u]
      leaf == book[d][u][r.token]
  IN /\ status[d] = "ACTIVE"
     /\ r.kind = "Authorize"
     /\ ledger' = StashToAuthorizing(ledger, d, u, r.token, r.amount)
     /\ book' = SetLeaf(d, u, r.token, verify_transfer_in(leaf, r.amount))
     /\ receipts' = [receipts EXCEPT ![d][u] = NoReceipt]
     /\ UNCHANGED <<status, fees, bridged>>

(* Rejections drop the receipt and leave root and reserves alone.          *)
RejectTransferOut(d, u) ==
  LET r == receipts[d][u]
  IN /\ status[d] = "ACTIVE"
     /\ IsRevoke(r)
     /\ verify_reject_transfer_out(book[d][u][r.token], r.amount)
     /\ receipts' = [receipts EXCEPT ![d][u] = NoReceipt]
     /\ UNCHANGED <<status, ledger, book, fees, bridged>>

RejectTransferIn(d, u) ==
  /\ status[d] = "ACTIVE"
  /\ receipts[d][u].kind = "Authorize"
  /\ receipts' = [receipts EXCEPT ![d][u] = NoReceipt]
  /\ UNCHANGED <<status, ledger, book, fees, bridged>>

-----------------------------------------------------------------------------
(* verify: orders.                                                         *)

mul_ceil(rate, x) == (rate * x + Parts - 1) \div Parts

check_fee(taker_fee, maker_fee) ==
  maker_fee <= MaxMakerFee /\ taker_fee <= MaxTakerFee

(* An account's leaves must match what is authorized on chain (the code    *)
(* tolerates 10^11 of the smallest unit, below every amount here).         *)
has_authorized_exactly_on(d, u, t) == Authorizing(d, u, t) = LeafSum(d, u, t)

(* clear: the account's reserve becomes the balance the leaf proves.       *)
clear_reserves_only(l, d, u, t, balance) ==     \* mutant of clear
  [l EXCEPT !.reserves["AUTHORIZING"][u][t][d] = balance]
clear_on_top(l, d, u, t, balance) ==            \* mutant of clear
  [l EXCEPT !.reserved[t][u] = @ + balance,
            !.reserves["AUTHORIZING"][u][t][d] = balance]
clear(l, d, u, t, balance) ==
  LET r == l.reserves["AUTHORIZING"][u][t][d]
      rest == IF l.reserved[t][u] >= r THEN l.reserved[t][u] - r ELSE 0
  IN  [l EXCEPT !.reserved[t][u] = rest + balance,
                !.reserves["AUTHORIZING"][u][t][d] = balance]

ClearBaseOnly(l, d, u, leaves) ==               \* mutant of ClearBoth
  clear(l, d, u, Base, leaves[Base].available + leaves[Base].frozen)
ClearBoth(l, d, u, leaves) ==
  clear(clear(l, d, u, Base, leaves[Base].available + leaves[Base].frozen),
        d, u, Quote, leaves[Quote].available + leaves[Quote].frozen)

(* A taker order matched with one maker order.  pay is the token the taker *)
(* gives, get the one it receives; the maker pays from its frozen balance  *)
(* and rest of the order stays in the book.  Each side's fee is charged on *)
(* what it receives and rounded up.                                        *)
Trade(d, taker, maker, pay, get, paid, got, maker_fee, taker_fee, rest) ==
  LET makerCharge == mul_ceil(maker_fee, paid)
      takerCharge == mul_ceil(taker_fee, got)
      takerLeaves ==
        [book[d][taker] EXCEPT ![pay].available = @ - (paid + rest),
                               ![pay].frozen = @ + rest,
                               ![get].available = @ + (got - takerCharge)]
      makerLeaves ==
        [book[d][maker] EXCEPT ![pay].available = @ + (paid - makerCharge),
                               ![get].frozen = @ - got]
  IN /\ status[d] = "ACTIVE"
     /\ check_fee(taker_fee, maker_fee)
     /\ \A u \in {taker, maker}, t \in Token : has_authorized_exactly_on(d, u, t)
     /\ paid > 0 /\ got > 0
     /\ makerCharge <= paid /\ takerCharge <= got
     /\ book[d][taker][pay].available >= paid + rest
     /\ book[d][maker][get].frozen >= got
     /\ book' = [book EXCEPT ![d] = [@ EXCEPT ![taker] = takerLeaves,
                                              ![maker] = makerLeaves]]
     /\ ledger' = ClearBoth(ClearBoth(ledger, d, maker, makerLeaves),
                            d, taker, takerLeaves)
     /\ fees' = [fees EXCEPT ![pay] = @ + makerCharge, ![get] = @ + takerCharge]
     /\ UNCHANGED <<status, receipts, bridged>>

AskLimit(d, taker, maker, base, quote, maker_fee, taker_fee, rest) ==
  Trade(d, taker, maker, Base, Quote, base, quote, maker_fee, taker_fee, rest)
BidLimit(d, taker, maker, base, quote, maker_fee, taker_fee, rest) ==
  Trade(d, taker, maker, Quote, Base, quote, base, maker_fee, taker_fee, rest)

(* An order that meets no other is placed: its funds freeze.  Nothing is   *)
(* cleared: the sums of the leaves do not change.                          *)
Place(d, u, t, v) ==
  /\ status[d] = "ACTIVE"
  /\ \A s \in Token : has_authorized_exactly_on(d, u, s)
  /\ v > 0 /\ book[d][u][t].available >= v
  /\ book' = SetLeaf(d, u, t, [available |-> book[d][u][t].available - v,
                               frozen |-> book[d][u][t].frozen + v])
  /\ UNCHANGED <<status, ledger, receipts, fees, bridged>>

Cancel(d, u, t, v) ==
  /\ status[d] = "ACTIVE"
  /\ v > 0 /\ book[d][u][t].frozen >= v
  /\ book' = SetLeaf(d, u, t, [available |-> book[d][u][t].available + v,
                               frozen |-> book[d][u][t].frozen - v])
  /\ UNCHANGED <<status, ledger, receipts, fees, bridged>>

-----------------------------------------------------------------------------
VerifyTransfer(d, u) ==
  \/ \E callback \in Callback : TransferOut(d, u, callback)
  \/ TransferIn(d, u)
  \/ RejectTransferOut(d, u)
  \/ RejectTransferIn(d, u)

VerifyTrade(d, taker, maker) ==
  \E base, quote, rest \in Amount, mf \in MakerFee, tf \in TakerFee :
    \/ AskLimit(d, taker, maker, base, quote, mf, tf, rest)
    \/ BidLimit(d, taker, maker, base, quote, mf, tf, rest)

UserCall(d, u) ==
  \E t \in Token, v \in Amount :
    \/ authorize_to(u, d, t, v)
    \/ \E kind \in Kind \ {"Authorize"} : revoke_request(u, d, t, v, kind)
    \/ revoke_evicted(u, d, t, v)

Next ==
  \E d \in Dominator :
    \/ \E s \in Status : set_status(d, s)
    \/ \E u \in User :
         \/ UserCall(d, u)
         \/ VerifyTransfer(d, u)
         \/ \E t \in Token, v \in Amount : Place(d, u, t, v) \/ Cancel(d, u, t, v)
         \/ \E maker \in User \ {u} : VerifyTrade(d, u, maker)

(* A user of an evicted dominator keeps asking for all that the chain      *)
(* shows as authorized.                                                    *)
WithdrawAll(d, u, t) == revoke_evicted(u, d, t, Authorizing(d, u, t))

Spec ==
  /\ Init /\ [][Next]_vars
  /\ \A d \in Dominator, u \in User, t \in Token : WF_vars(WithdrawAll(d, u, t))

-----------------------------------------------------------------------------
(* Properties.                                                             *)

(* The asset layer always holds at least what the purpose layer promises,  *)
(* through transfers, trades and eviction: no unreserve the books justify  *)
(* fails, and clear never meets a reserve larger than the balance.         *)
ReservesBacked ==
  \A u \in User, t \in Token : ledger.reserved[t][u] >= TotalReserves(ledger, t, u)

(* Every reserved unit belongs to a purpose its owner can reach.  The      *)
(* comment in TransferIn ("stash->authorizing") says that what was stashed *)
(* becomes authorized; the code removes the whole stash and adds only the  *)
(* receipt's amount, which differs after a rejected transfer.              *)
ReservedIsClaimable ==
  \A u \in User, t \in Token : ledger.reserved[t][u] = TotalReserves(ledger, t, u)

(* What the merkle root says a user has on a dominator is what the chain   *)
(* has locked for it, although the two are changed by different calls.     *)
BookMatchesReserves ==
  \A d \in Dominator, u \in User, t \in Token :
    status[d] # "EVICTED" => LeafSum(d, u, t) = Authorizing(d, u, t)

(* Trading, transfers and failed callbacks create and destroy no token.    *)
TokenConserved ==
  \A t \in Token :
    SumFunction([u \in User |-> ledger.free[t][u] + ledger.reserved[t][u]])
      + fees[t] + bridged[t] = SumFunction([u \in User |-> Endowment[t][u]])

(* A receipt blocks its owner from any further request, so it must never   *)
(* be stuck: an Authorize is covered by the stash it will be paid from,    *)
(* and a Revoke can be executed unless the book itself justifies a reject. *)
ReceiptResolvable ==
  \A d \in Dominator, u \in User :
    LET r == receipts[d][u] IN
    /\ r.kind = "Authorize" => Stash(d, u, r.token) >= r.amount
    /\ (IsRevoke(r) /\ status[d] # "EVICTED"
          /\ book[d][u][r.token].available >= r.amount)
         => can_unreserve(ledger, "AUTHORIZING", u, r.token, r.amount, d)

(* Whatever leaves the reserves kept for an evicted dominator reaches the  *)
(* owner's free balance: joining the stash loses nothing.                  *)
Claim(d, u, t) == Authorizing(d, u, t) + Stash(d, u, t)
EvictedReturns ==
  [][\A d \in Dominator, u \in User, t \in Token :
       (status[d] = "EVICTED" /\ Claim(d, u, t)' # Claim(d, u, t)) =>
         ledger'.free[t][u] - ledger.free[t][u] = Claim(d, u, t) - Claim(d, u, t)']_vars

(* After an eviction every user who asks gets all its funds back, stashed  *)
(* ones included.                                                          *)
EvictedRecoverable ==
  \A d \in Dominator, u \in User, t \in Token :
    status[d] = "EVICTED" ~> (Authorizing(d, u, t) = 0 /\ Stash(d, u, t) = 0)
=============================================================================
