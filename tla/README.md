# A TLA+ verification of the Fusotao protocol pallets

The Fusotao protocol is a set of Substrate pallets for a chain on which
off-chain matching engines ("dominators") trade users' tokens and prove to the
chain, batch by batch, that they did so honestly. This project holds TLA+
specifications of those pallets, TLC configurations that check them on small
instances, and TLAPS proofs of the main safety properties for every instance.

Contents: [the system](#1-the-system) · [modules](#2-modules-and-the-code) ·
[runs](#3-what-is-model-checked) · [fairness](#4-fairness) ·
[proofs](#5-what-is-proved) · [findings](#6-findings) ·
[not modelled](#7-what-is-not-modelled) · [plan](#8-plan)

## 1. The system

### Parts, their state and their operations

| part | state | operations | what makes it correct |
|---|---|---|---|
| **verifier: dominators and staking** (`pallet-fuso-verifier/src/lib.rs`) | `Dominators`, `Stakings`, `Bonuses`, `PendingUnstakings`, native `Reserves` | `register`, `evict`, `launch`, `stake`, `unstake`, `claim_shares`, `put_profit` (from `verify`), `on_initialize` | a stake is locked in full; a dominator is active exactly at its threshold; a season is paid once per staker, from the stake that held at its end; unstaked funds come back |
| **verifier: custody** (same file) | `Receipts`, `Reserves` (authorized and stashed), merkle root per dominator, token balances | `authorize`, `revoke`, `revoke_with_callback`, the transfer commands of `verify` | what the root commits to is what the chain has locked; no token appears or vanishes; no receipt gets stuck; eviction loses nothing |
| **verifier: clearing** (same file) | leaves of the merkle tree: account balances, order book sizes, best prices, order pages | the order commands of `verify`: ask and bid, limit and cancel; `clear` | an honest proof is accepted in its turn; value moves from one side to the other less the fees; reserves follow the leaves; the price was paid |
| **verifier: settings, brokers** (same file) | `DominatorSettings`, `Brokers` | `dominator_set_pubkey`, `dominator_set_rpc_endpoint`, `dominator_set_beneficiary`, `register_broker`, `broker_set_rpc_endpoint` | a change of beneficiary needs the old one's consent, once in a life of its account |
| **token** (`pallet-fuso-token`) | `Tokens`, `TokenByName`, `TokenByContract`, `Balances`, `NextTokenId` | `issue`, `mark_stable`, `transfer`, `associate_token`, `do_mint`, `do_burn`, `reserve`, `unreserve`, `repatriate_reserved` | nothing is held that was not issued; reserved funds are not destroyed; a contract names one token |
| **chainbridge** (`pallet-chainbridge`) | relayers, their number and threshold, `ChainNonces`, `Resources`, `Votes` | administration, `acknowledge_proposal`, `reject_proposal`, `eval_vote_state`, outgoing transfers | a call is dispatched at most once and with a quorum; closed proposals stay closed; nonces are sequential |
| **bridge handler** (`pallet-chainbridge-handler`) | `AssociatedDominator`, `NativeCheck`, `BridgingFeeInUSD` | `transfer_out`, `transfer_in`, `associate_dominator`, `native_limit`, `remark` | what leaves one side arrives at the other, once and covered |
| **reward** (`pallet-fuso-reward`) | `Rewards`, `Volumes`, `EraRewards` | `save_trading` (from `verify`), `take_reward`, `set_era_rewards` | an era is rewarded once per trader, from its final total, within its reward |
| **foundation** (`pallet-fuso-foundation`) | instalments per account | genesis, `on_initialize` | each fund follows its schedule and takes nothing else |
| **agent** (`pallet-fuso-agent`) | nonces of foreign accounts (`frame_system`) | `submit_external_tx`, `validate_unsigned` | a signed request runs in turn, once in a life of its account, and paid for |
| **indicator** (`pallet-fuso-indicator`) | price per token | `set_price` (from `verify`) | a price that was paid; a fee worth what it should be |
| **fuso-support** | none | traits, constants, `derive_resource_id`, `decode_resource_id` | resource ids are unambiguous |
| **rpc, runtime-api** | none | queries, forwarding to a matcher | |

### How the parts interact

* Every extrinsic runs in a storage transaction: one that returns an error
  changes nothing. All concurrency is therefore between extrinsics, block
  hooks, and the off-chain programs that send extrinsics (users, matchers,
  relayers), in any order, repeated or late.
* `verify` of the verifier is where most of it meets: it applies transfers to
  `Reserves` and balances, calls `clear` on both sides of a trade, `put_profit`
  with the fees, `save_trading` of the reward pallet with the volumes and
  `set_price` of the indicator, and dispatches the callback of a revoke.
* A request of a user (`authorize`, `revoke`) leaves a receipt which the matcher
  answers later, by executing or rejecting it, in a batch. Staking and root
  calls change the dominator's status between the two.
* `on_initialize` of the verifier closes seasons and unlocks unstaked funds;
  it returns early on all blocks that are not multiples of
  `DominatorCheckGracePeriod`.
* A dispatched bridge call (`transfer_in` of the handler) mints through the
  token pallet and calls `authorize_to` of the verifier; `transfer_out` burns and
  calls the outgoing transfers of the chainbridge pallet.

### What is hard to get right

Amounts are kept more than once (stake and its reserve and the dominator's
total; book, `Reserves` and reserved balance; token total and balances; era
total and traders' volumes; relayers and their number) and changed by different
calls. Payments are lazy: shares and rewards are computed when their owner next
acts, many seasons or eras later. Several calls are nested updates of storage
that read before they write. Some failures are only logged. `PROJECT.json`
lists these hazards at their lines with the properties that watch each of them.

## 2. Modules and the code

Definitions keep the names of the source; `PROJECT.json` (`map`) gives the lines
behind each. The definitions with a comment "mutant of X" just before `X` are
faulty versions of it, used only to show that the properties notice the fault.
Storage maps with default values are total functions. An action is one
extrinsic that succeeds, or one block hook; an extrinsic that fails is no step.

**`Ledger`** – pure operators for the two layers under all locked funds of the
verifier: free and reserved balances (asset layer) and `Reserves` (what is
locked for which purpose, towards whom). `reserve`, `unreserve` with their
`can_...` conditions.

**`Staking`** – dominators and staking. One action per extrinsic, `GraceBlock`
and `OrdinaryBlock` for the two branches of `on_initialize`. `paid` records
what `take_shares` paid, per dominator, staker and season; its shares are the
credit of the staker's quote balance. Profit has one currency; the code treats
currencies independently. `put_profit` stands for what `verify` does to this
part.

**`Custody`** – funds of users on dominators. The merkle root is modelled by
what it commits to, the function `book` from users and tokens to available and
frozen amounts: a proof not starting at the committed leaves fails in the code
and is no step here. The dominator's status moves as root calls (`RootMove`) and
staking (`StakeMove`) may move it. The matcher is an external program; it is assumed to work
on real orders (a filled ask takes base from the taker and quote from the
maker), and may send any command at any time. A trade has one maker. A batch is
a sequence of single-proof steps. The tolerance of 10^11 smallest units between
leaves and reserves is below every amount here and so is equality. The callback
of a revoke runs after the receipt is gone and before the new root is stored: it
fails, spends the released amount, or authorizes it again, to the same dominator
or another.

**`Matcher`**, **`Clearing`** – the order commands in full. `Matcher` is the
reference: operators that execute an order by price-time priority against the
open orders and give the leaves after it (sizes of both sides, best prices,
order pages, accounts). It is external, written from what the checks of the
verifier demand. `Clearing` lets it run ahead of the chain, one proof per order
or cancellation, and hands in any portion of its proofs at any time, again and
late. `verify_ask_limit`, `verify_bid_limit` and `verify_cancel` are the code's
checks, in its order, on the leaves of a proof: the comparison of a proof with
the known root is equality of trees. That the quote
is a stable token (`is_stable`) is assumed of the matcher and checked. A batch is one step, folded over its
proofs; one failing proof fails the batch. Differences of leaves are integers
here and unsigned in the code: an honest proof has no negative one
(`DifferencesUnsigned`). A proof of 256 leaves or more would wrap the code's count, a byte; a matcher does not make
one (a guard of `Execute`), nor does it take orders above the fee limits. `Bit`
holds the bits that the comparison `a & b` of a cancellation looks at.

**`Token`** – registry, issuance, balances. ERC20 and BEP20 tokens take the same
branches and are one kind. `unify_decimals` is modelled with its truncation
above and its wrap-around below the standard decimals (`BalanceRange` is 2^128
in the code). `Moved` spells out the nested `try_mutate_exists` of a
transfer: both entries are read, the receiver's is written first, the sender's
last. The native token lives in `pallet_balances`, an external pallet modelled
with an existential deposit of one unit.

**`ChainBridge`** – relayers, votes, expiry, evaluation, outgoing nonces.
Proposed calls are opaque; `executed` and `sent` are histories of dispatches and
of transfer events. A call that is approved and fails to dispatch rolls the
deciding vote back, so it is no step.

**`Reward`** – volumes and rewards per era. `awarded` is a history of the
rotations. `save_trading` is the call `verify` makes for each side of a trade.

**`Delivery`** – what `ChainBridge` promises others, without relayers: a call is
delivered once or refused, for good. `ChainBridge!D` instantiates it with the
mapping `delivered <- executed`, `refused <-` the rejected proposals, `posted <- sent`.
Deposits that leave carry the numbers 1, 2, 3, ... of their chain.

**`BridgeHandler`** – composes `ChainBridge`, `Token` and `Indicator` (by `INSTANCE`
and `EXTENDS`) with the handler's own calls. A vote and the `transfer_in` it
brings about are one step. Calls made one after the other in one extrinsic
(fee, then burn; mint, then authorize, then donate) are nested operators on a
value of `balances`. `authorize_to` is reduced to its conditions and its effect on
balances and receipts; `UserAuthorizes` is a user who calls `authorize` directly and
so has a receipt when a bridge call would authorize. The other chain is external: a log of deposits and a
vault. Relayers, threshold and resources are set up at the start. Blocks go by
(`NextBlock`): a proposal opened at any time, by a faulty relayer also before its
deposit is logged, expires after `ProposalLifetime`, and no vote counts after
that.

**`IdealBridge`** – what the bridge promises its users: log, credit, withdraw,
without relayers, calls, fees and failures. Safety only.

**`Indicator`** – prices of tokens: whole part and fraction of a quotient.

**`Balances`** – the accounts and free balances that `Settings`, `Foundation` and
`Agent` have in common, and when an account that pays may be removed (`Emptied`):
`frame_system` drops an account without funds together with its nonce, and the
account starts again with nonce 0 when it is next paid. These three and `Reward` name their specifications
after themselves (`AgentInit`, `AgentNext`, `AgentSpec`, ...), so that one module of
proofs extends them all.

**`Settings`** – settings of dominators and brokers, with the account nonces of
`frame_system` under the proofs of beneficiaries. `AnyExtrinsic` is every other
transaction of an account, failed ones included: it increments the nonce, or, when
it pays out all the account has, lets the account be removed and its nonce with
it. The proof of a beneficiary holds nothing but nonce and new beneficiary, so
one that was used counts again in the signer's next life; `ProofUsedOnce` is
therefore about each life, which `lives` counts. A
setting with three defaults stands for no entry: the first write creates it and
behaves alike. The deposit of a broker is kept by the pallet's account.

**`Foundation`** – plans, balances and the blocks' instalments; `Lock` and `Unlock`
are other pallets that use the same reserved balance. `unlock_fund` handles all
entries in one step, as `iter` does.

**`Agent`** – `validate_unsigned` is used twice, as in the runtime: by the pool, whose
copy of the state is thrown away, and in a block, where its changes stay and
`submit_external_tx` follows. `Submit`, `Aged` and `Author` are the pool of a node,
as far as tag, priority and longevity of the code's `ValidTransaction` decide;
`Import` is a block of another node. A call that takes the last unit may remove the
account (`reaped`). A request carries no era: what was signed in one life of an
account is valid in the next, for whoever sends it, and `ExecutedInTurn` says of
each life what it says of the first.

Every module states the domains of its variables as `TypeOK` (`AgentTypeOK`, ...);
it is a theorem or part of a proved invariant (of `BridgeHandler`, for the
variables its properties are about).

`MC…` modules fix symmetry sets and genesis balances for TLC. The theorems are in
`Staking_proofs`, `Custody_proofs`, `Clearing_proofs`, `Token_proofs`,
`ChainBridge_proofs`, `BridgeHandler_proofs`, and `Pallets_proofs` for `Settings`,
`Foundation`, `Agent` and `Reward`.
`SumTheorems` holds the laws of finite sums and of rounding they rest on.

`Perquintill` and `Permill` are external (`sp_arithmetic`): `from_rational`
rounds down, multiplication rounds to nearest with halves down, `mul_ceil`
rounds up. Their accuracy is the constant `Parts`.

## 3. What is model-checked

| run | instance | shows |
|---|---|---|
| `staking` | 1 dominator, 2 stakers with 2 units each, threshold 2, grace period and seasons of 2 blocks, extrinsics up to block 6 | stakes are sums and are backed (`FundsBacked`), status (`StatusFollowsStake`), payments (`PaidOnce`, `SeasonAccounted`, `ShareBound`), `EvictedIsFinal`, and the liveness property `UnstakeUnlocks` |
| `custody` | 1 dominator that may be evicted at any time, a holder of base and a holder of quote, 2 units each, fees of 1/4 rounded up | `ReservesBacked`, `BookMatchesReserves`, `TokenConserved`, `ReceiptResolvable`, `EvictedReturns`, and the liveness property `EvictedRecoverable` |
| `custody_stash` | 1 user, 1 dominator | violation of `ReservedIsClaimable` (finding 1) |
| `bridge` | 3 accounts that come and go as relayers, thresholds 0–3, lifetime 1, 1 foreign chain | `OneVoteEach`, `QuorumBehindExecution`, `OpenAwaitsSomeone`, and the refinement `DeliverySpec` |
| `token` | 2 accounts, 2 tokens, 2 contracts, decimals below, above and beyond the maximum, 4 balance values | `IssuanceCovers`, `ReservedNotDestroyed`, `NameRoundTrip` |
| `token_self` | 2 accounts, 1 token | violation of `IssuanceIsSum` (finding 2) |
| `reward` | 2 traders, 3 eras of 2 blocks, two rewards per era, programme ends in the third era | `VolumeAccounted`, `AwardedOnce`, `RewardsConserved`, `EraBound` |
| `handler` | native token and a token with one decimal more than the standard, 1 deposit, 2 withdrawals, fee on or off as prices appear, 3 relayers of which 1 votes anything, threshold 2, proposals that expire after 1 block, a bridge account with only what is locked, 1 dominator that comes and goes | `VaultCovers`, `AssetsConserved`, `ReservedIsHosted`, `FeeWorth`, liveness `DepositCredited`, and the refinement `IdealSpec` |
| `clearing` | 3 users, 2 prices, amounts 1 and 3, 4 orders or cancellations, fees of 1/4 and 1/2 rounded up | `HonestAccepted`, `ReservesFollow`, `ClearingConserves`, `PriceWasPaid` |
| `settings` | 2 accounts of 1 unit, both dominators, nonces up to 2, 2 proofs, each account removed at most once | `ProofUsedOnce`, `BeneficiaryConsents` |
| `foundation` | 2 plans, durations of 2 blocks, 18 blocks | `OnSchedule` |
| `agent` | 1 account, 3 calls (light, heavy, and one too heavy for a block), 2 nonces, 5 units, an account that may be removed each time it is emptied | `ExecutedInTurn`, `FeesAccounted`, liveness `TurnCompletes` |

Each property is stated in a comment above its definition.

### Bounds, and why they are enough

* Two stakers, traders or users suffice for sums whose parts interact only
  through a total. Dominators only meet in a staker's pending queue and native
  balance, where two unstakes from one dominator meet as well; the theorems on
  `Staking` hold for any number of them. Three relayers are the fewest with a
  threshold strictly between one and all.
* `MaxBlock` of Staking ends extrinsics, not blocks: the clock goes on for
  `UnstakeDelayBlocks` so that every delay ends. Registration is possible from
  block 2 on; block 6 is in the third season after it, the first in which a
  claim can be two seasons late.
* `MaxProfit` = 1 with two stakers of equal stake is the case in which rounding
  has the largest effect on `ShareBound`. Amounts 0, 1, 2 include zero, a partial
  and the full amount of an account. `Parts` = 100 keeps the products exact;
  the theorems hold for any value.
* `MaxNonce`, `MaxAccountNonce` and `MaxVolume` bound counters the properties do not depend on.
  `MaxLives` = 1 is one removal of each account: before, at and after it the nonces
  of the first and the second life meet the same proofs, of which `MaxProofs` = 2
  are enough for a used one and another.
* Fees of 1/4 rounded up make a fee of one unit on every trade: the largest
  rounding error relative to the amount.
* `clearing`: four events are the fewest after which an order can have met two
  makers on two pages and something follows; amounts 1 and 3 fill exactly, in
  part, and across orders. Sizes, pages and best prices become empty and full
  again. `Matcher` and the chain meet in any portions of the batch sequence.
* `handler`: an amount of 5 in a token with one decimal more than the standard
  rounds, one of 4 does not but for the fee taken from it. One block is enough
  for a proposal to expire before, between and after the votes on it; a deposit of
  4 native tokens may ask for all or for a part of what is locked. One faulty relayer of
  three is the largest number below the threshold; with as many as the threshold
  `IdealSpec` cannot hold. With one deposit the votes of a faulty relayer on
  every call keep the state space small enough for liveness; a receipt in the way of its authorization comes from
  the user's own request.
* `settings`: with two accounts that are both dominators every relation between
  dominator, old and new beneficiary occurs (the same, each other).
* `foundation`: the clock passes the end of both plans by one duration.
* `agent`: accounts do not interact; nonces 0 and 1 hold a request in its turn,
  one too early and one too late.
* `staking`, `settings` and `clearing` turn the deadlock check off: the clock ends
  at the last block, nonces and events are used up. All other runs keep it.

### Symmetry

Relayer accounts, traders and the users of `clearing` are permuted, only in runs
without liveness properties, and where Init treats all of them alike.

## 4. Fairness

* `Staking` assumes weak fairness of `NextBlock` alone: blocks keep being
  produced. `UnstakeUnlocks` follows from the hook; no extrinsic is assumed.
* `Custody` assumes weak fairness of `WithdrawAll` for every user of an evicted
  dominator: the user keeps asking for what the chain shows as authorized
  (`revoke_from` has no other way to give funds back). No fairness of the
  matcher is assumed, as nothing in the code makes it answer.
* `BridgeHandler`: each honest relayer eventually votes for each deposit it sees,
  which is what relayers are run for; nothing is assumed of faulty ones, of
  dominators or of users. Deposits worth less than a standard unit are excluded:
  `do_mint` refuses them. Weak fairness has no deadline, so honest votes may come
  after the proposal expired; then the deposit is lost to the chain, and the same
  holds while a native deposit asks for all the bridge account has, which
  `KeepAlive` does not pay out. `DepositCredited` names both (`Expired`, `AsksForAll`) and
  excludes everything else. Without either of them the run finds a
  counterexample.
* `Agent`: blocks keep being produced, an owner's node keeps submitting what is
  valid (weak fairness), and the node that has a request in its pool again and
  again includes it (strong fairness: a request may be dropped and submitted
  again in between). Nobody has to sign or pay.
* `ChainBridge`, `Token`, `Reward`, `Clearing`, `Settings`, `Foundation`, `Delivery`
  and `IdealBridge` state safety only.

## 5. What is proved

All theorems hold for every value of the constants that meets the named
assumptions. Sets of stakers, dominators, users, accounts, traders and relayers
are finite and of any size; amounts, periods, rates and decimals are any.

### Totals: `SumTheorems`

Most of the properties compare a number the code keeps with a total over a set,
written with `SumFunction` of the community module `Functions`: the value of a
recursive function on sets. The induction theorems of the library take a
predicate as a parameter and cannot be instantiated by the provers here, so the
lemmas argue from a least counterexample instead (`LeastNat`: a set of natural
numbers that is not empty has a least element). First the recursive function is
shown to exist and to obey its equation (`SummerExists`, `SummerEquation`), then
that the order in which elements are picked does not matter (`SummerRemove`). From
there come the laws the other modules cite: a total changes with one element by
the difference (`TotalUpdate`), a transfer leaves it alone (`TotalTransfer`), it
is additive, monotone and scales, an appended element is added (`TotalAppend`).
`PartRounded` and `TotalRounded` bound the rounding of shares: parts of an amount,
each rounded to the nearest unit with halves down, together exceed it by less
than half a unit per payee.

### Staking

Assumptions: `PeriodAssumption` (periods are positive, `SeasonDuration` and
`UnstakeDelayBlocks` are multiples of `DominatorCheckGracePeriod`; the first is
demanded by the comment at `lib.rs:294`, the second is a demand of the code on
the runtime, met by 57600 and the period of the mocks), `AmountAssumption` (amounts are
natural numbers, threshold and minimum positive), `AccountAssumption` (the
pallet's account is no dominator; accounts are finitely many).

The inductive invariant is

    IInv == /\ TypeOK /\ StatusFollowsStake /\ PendingAhead
            /\ StartBefore /\ StartAligned
            /\ StakedIsSum /\ StakeBacked /\ PendingBacked /\ ReservedIsBacking
            /\ PaymentsBehind /\ PaymentsFair /\ SeasonAccounted

* `StartBefore`, `StartAligned`: no dominator's seasons start after the current
  block, and all start on a grace block, so that seasons never run backwards and
  each ends on a block on which `on_initialize` does its work.
* `PaymentsBehind`: a season has been paid to a staker at most once; it is over, and
  it lies before the `from_season` of the stake that is held now. This is what makes `PaidOnce`
  inductive: `take_shares` pays exactly the seasons from `from_season` to the
  current one, and moves `from_season` there.
* `PaymentsFair`: what was paid for a season is the rounded part of its profit that
  the paid stake is of the saved total. With `SeasonAccounted` (the paid stakes add
  up to at most that total) and `TotalRounded` it gives `ShareBound`.
* `StakedIsSum`, `StakeBacked`, `PendingBacked`, `ReservedIsBacking` are the parts
  of `FundsBacked`; the backing is needed for types as well, an unstake subtracts
  from the reserve.

From it: `TypeCorrect`, `FundsAreBacked`, `StatusIsStake`, `NoDoublePayment`,
`SeasonsAccounted`, `SharesWithinProfit`, `PendingIsAhead`, and the action
properties `EvictionIsFinal` and `ClosedSeasonsFrozen`. The last one needs the
arithmetic of seasons: the season `on_initialize` writes is the one that ends at
the new block.

### Custody

Assumption: `CustodyAssumption` (two tokens, finitely many users and dominators,
natural amounts and rates; the markers of a callback are no dominators). The
invariant is

    IInv == TypeOK /\ ReservesBacked /\ BookMatchesReserves
              /\ ReceiptCovered /\ TokenConserved

`ReceiptCovered` (a waiting `Authorize` is covered by the stash towards its
dominator) is what the answer to a receipt relies on; types depend on
`ReservesBacked` and `BookMatchesReserves`, because the checks of `verify` look at
the leaves and the subtractions happen in the reserves. The proof goes through
the operators of `Ledger` (each keeps the type, keeps the ledger solvent, and
changes the sum of balances by a known amount) and has one step per command and
per outcome of a callback. From it: `TypeCorrect`, `ReservesAreBacked`, `BooksMatch`,
`TokensConserved`, `ReceiptsResolve`; and with the same case split the action
property `EvictedFundsReturn`.

### Token

Assumptions: `TokenAssumption` (among them: the endowments of genesis fit into a
balance) and `RadixAssumption` (powers of the radix are positive; the provers do
not know exponentiation). The invariant is

    IInv == TypeOK /\ Unissued /\ NoFoundationUnits /\ ContractCarried
              /\ NameRoundTrip /\ IssuanceCovers

`TypeOK` has every balance in its range and is not inductive without
`IssuanceCovers`: additions of balances are not checked by themselves, they are
safe because the issuance was. `Unissued` (ids to come carry nothing) keeps
`NameRoundTrip` when the next id is given out. From it: `TypeCorrect`,
`IssuanceCoversHoldings`, `NamesRoundTrip`, and the action property
`ReservedSurvives`.

### Clearing

Assumption: `ClearingAssumption` (finitely many users, positive prices and amounts,
fee rates between nothing and everything and within the limits of the chain).
Nothing is assumed of the number of orders, users, prices or pages.

The main theorem is `HonestIsAccepted`: the checks of the verifier never refuse
what price-time priority produces. Its inductive invariant is

    Inv == OrdersInv /\ SentInv /\ Good(Known, Deposits, PaidPrices) /\ PricesInv

* `OrdersInv`: the tree is that of the open orders, and every ask is above every
  bid. Without the second part the pages of a trade are not in order, and a new
  best price may be on the wrong side of the last page.
* `SentInv`: every proof is `Honest` and starts where the one before it ended.
  `Honest` says what a proof must be for the chain: accepted by `Verified` from any
  reserves that agree with its old leaves; moving funds between users and fees
  only; traded at prices of orders it met.
* `Good`: the records of the chain, also in the middle of a batch. They agree with
  the known tree (`Matches`), nothing is lost, and the sums the price is derived
  from lie between multiples of the traded amount by prices that were met.
* `PricesInv`: the same of the stored price.

The argument has three parts.

1. *One order* (`TradeHonest`, `CancelHonest`). What a trade takes is added up in
   three ways: by orders (`FillsTotal`: the fills of the orders within reach add up
   to the amount or to all there is), by pages (`PagesTaken`, `PagesEmptied`: all
   pages but the last are emptied), and by makers (`MakersFacts`; the charges of
   the makers, each a difference of two rounded totals, add up to the fee rounded
   once, `ChargesTotal`). `BestFirstFacts` shows that the pages can be put in order
   at all, and `AfterUncrossed`, `BestOfTaken`, `BestKept` what becomes of the best
   prices. With these, each line of `verify_ask_limit` and `verify_bid_limit` is met
   (`AskPagesPass`, `BidPagesPass`, `AskVerified`, `BidVerified`).
2. *One batch* (`BatchKeeps`, `BatchAccepted`). The fold of `verify_batch` is shown to
   obey its equation (`BatchIsRunner`); a proof that starts at the known tree keeps
   `Good` (`StepKeeps`), and the first of a batch that did not would be a least
   counterexample.
3. *One step* (`ExecuteInv`, `CancelInv`, `VerifyInv`). Proofs keep following each
   other, in whatever portions they are handed in.

A price that lies between two others, weighted by amounts, does so after adding
(`Mediant`), and after the division of `Indicator` (`RatioBetween`).

From it: `HonestIsAccepted`, `ReservesAreLeaves`, `NothingLost`, `PriceIsBetween`.

`Inv` says nothing of signs: an account could owe, and a difference of leaves that
the code takes of unsigned numbers could be below zero. That is `AmountsInv`,
which is inductive together with `Inv` (`ClearingAmounts`):

* `Covered`: the frozen leaf of a user is the value of what is left of the user's
  orders (`Value`, each order's by `Paid`), and the available leaf is not
  negative. A trade and what stays of the order cost no more than the order's own
  limit, which `HasFunds` asked for, since prices met are no worse (`TradeCost`,
  `TradeCovered`). A maker gives what the fall of its own value releases
  (`TakenValue`), and the fee on what it receives, rounded up over several fills,
  is at most that (`MulCeilBelow`, `MakersReceive`).
* `Unsigned`: the differences within a proof are natural numbers
  (`TradeUnsigned`, `CancelUnsigned`).
* `Recorded`: the chain's leaves and volumes are natural numbers, also in the
  middle of a batch (`StepRecords`, `BatchRecords`).

From it: `ClearingTypeCorrect`, `FrozenCoversOrders`, `DifferencesUnsigned`.

### Settings, Foundation, Agent, Reward: `Pallets_proofs`

One module extends the four; each theorem is about one specification and rests
on the assumption of its module (`SettingsAssumption`, `FoundationAssumption`,
`AgentAssumption`, `RewardAssumption`).

* **Settings**: `ProofUsedOnce` with `UsedIsPast` (a proof that was already used in the
  present life of its signer has a nonce behind the signer's) and the types is
  inductive: `validate_beneficiary` accepts only the present nonce and increments it, and
  nothing lowers a nonce but the removal of the account, which begins a life
  (`RemovedResets`).
  `ProofsUsedOnce`, `SettingsTypeCorrect`, and the action property
  `BeneficiariesConsent`.
* **Foundation**: `OnSchedule` with `CountdownKept` (the stored entry is the plan of
  genesis less the instalments so far, and removed after the last). The
  arithmetic is `DivNext` (the quotient of the next number) and `NextInstalment`,
  `VestedNext`: the plan's promise grows by exactly what `unlock_fund` takes for
  due. Since the promise never exceeds what was granted, `unreserve` never meets
  less than it asks for, and the locks of others stay. `FundsOnSchedule`,
  `FoundationTypeCorrect`.
* **Agent**: `ExecutedInTurn` with `NonceFollows` (the nonce is the one after that of
  the last request executed, or 0 when that one removed the account) and
  `FeesAccounted` are inductive with the types: a request is executed for the present
  nonce only, which continues a life or begins one (`AppendInTurn`), and appending
  an execution adds its own fee to the total. `RequestsInTurn`, `FeesAreAccounted`,
  `AgentTypeCorrect`.
* **Reward** (`RewardAssumption`: rewards of an era are bounded, as 128-bit numbers
  are). The invariant is

      RewardInv == RewardTypeOK /\ NotAhead /\ AwardsPast /\ AwardedOnce
                     /\ VolumeAccounted /\ AwardsFair /\ RewardsConserved

  `AwardsPast`: an era a trader was rewarded for is over, and none of its volume
  waits. `AwardsFair`: a reward is the rounded part, by volume, of a reward
  that was in force. From it: `RewardTypeCorrect`, `VolumesAccounted`, `RewardedOnce`,
  `RewardsAreConserved` and, with `TotalRounded`, `ErasBounded`.

### ChainBridge

Assumption: `BridgeAssumption`. The inductive invariant is

    IInv == TypeOK /\ CountMatches /\ ExecutedOnce /\ OneVoteEach
              /\ NonceCounts /\ NoncesInSequence

* `NonceCounts`: the stored nonce of a chain is the number of deposits sent to
  it (none while it is not listed); `NoncesInSequence` is not inductive without.
* `CountMatches` with `OneVoteEach` gives `NoSplitVote`: if all relayers had voted
  and neither side had won, the votes would be more than the relayers are; the
  proof counts voters as the ranges of injective sequences.

From it: `TypeCorrect`, `NoDoubleExecution`, `VotesAreDistinct`, `CounterIsExact`,
`DepositsInSequence`, `ClosedIsFinal`, `ExecutionNeedsQuorum`, `NoSplitVote`.

`VotingDelivers` is the refinement, `Spec => DeliverySpec`: under the invariant
every step is one of `Delivery` or leaves its variables alone (`StepDelivers`). The
votes are the one case with work in it: a proposal that is open has neither been
executed nor refused (`ExecutedOnce`), and resolving it changes exactly one of
the two (`ResolveDelivers`). A deposit carries the next number because of
`NonceCounts` (`SentShape`).

### BridgeHandler

Assumptions: `AccountAssumption` (the accounts of the pallets are different from
each other and from users'), `RelayerAssumption` (the threshold is above the
number of relayers that are not honest), `AmountAssumption` (amounts and rates are
natural numbers, deposits positive, powers of `Radix` positive; a withdrawal
converted to standard decimals is within the range of a balance, while a
deposit's conversion may wrap). The inductive invariant is

    IInv == /\ Types /\ Conserved /\ ReservedHosted
            /\ Ballots /\ HonestVotes /\ Records /\ Covered

* `Conserved`, `ReservedHosted`, `Covered`: the properties in the terms of the
  proof. Each balance operator has a law (`TransferLaw`, `AddLaw`, `ReserveLaw`)
  that says which entries it touches and what it does to the total held, and the
  laws of the calls (`TransferInLaw`, `TransferOutLaw`) chain them in the order in
  which the code nests them: pay, authorize, donate; fee, then lock or burn.
* `Ballots`: what is recorded as approved was executed, once, and nobody supports
  a call twice. `HonestVotes`: an honest relayer only supports what is in the log,
  and what was executed is in the log. A quorum of different voters includes an
  honest one (`QuorumHonest`), so the call a vote executes is the logged one and no
  other call of that deposit was executed before (`VoteLaw`). Without this, faulty
  relayers could have a deposit executed that the vault does not hold.
* `CoverLaw` is the arithmetic of `VaultCovers`: crediting, announcing and logging
  keep the cover, with the rounding of `StandardLaw` (less than one standard unit
  per conversion, in the vault's favour on the way in, against it on the way out).

From it: `VaultCoversHolds`, `AssetsConservedHolds`, `ReservedIsHostedHolds`, and
`FeeWorthHolds` by `RatioExact` (whole part and fraction taken apart give the
quotient rounded down once).

`ImplementsIdeal` is the refinement, `Spec => IdealSpec`: a deposit is `Log`, a vote
that executes its call is `Credit` (`RelayIdeal`), a withdrawal is `Withdraw` of the
amount without the fee (`TransferOutIdeal`), and every other step leaves the ideal
bridge alone.

### Only model-checked

* Liveness (`UnstakeUnlocks`, `EvictedRecoverable`, `DepositCredited`,
  `TurnCompletes`): fairness and ENABLED are outside the proof system's reach.

Every other property of a passing run is a theorem.

## 6. Findings

1. `custody_stash`: `TransferIn` removes the whole stash entry of a user and adds
   only the amount of the current receipt to what is authorized
   (`pallet-fuso-verifier/src/lib.rs:1249`, "stash->authorizing"). After a
   rejected transfer the earlier stash is still there; the next accepted one
   drops it, and its amount stays reserved with no entry that could release it.
2. `token_self`: a transfer of an issued token to oneself debits the account and
   loses the credit (`pallet-fuso-token/src/lib.rs:508`): the outer storage update
   writes last, with the value read before. The tests of the pallet take the
   total issuance to be the sum of the balances (`tests.rs:251`).

The run `custody` shows that nothing worse follows from the first: reserved
balances never fall below what is promised. The run `token` shows the same of the
second: accounts never hold more than was issued.

## 7. What is not modelled

* Merkle paths, hashes, signatures, encodings: cryptography and I/O. Roots and
  signers are what they stand for.
* The bytes of a resource id (`derive_resource_id`, `decode_resource_id`): it is the
  record of chain, associate id and contract that it decodes to.
* `rpc`, `runtime-api`, weights, benchmarks, mocks: no protocol state. The broker
  of `rpc` forwards requests to a matcher and keeps nothing between them.
* The Ed25519 variant of the agent's requests: every path refuses it.
* Dishonest matchers in `Clearing`: the chain's checks are modelled in full and
  applied to the proofs of an honest matcher. What a chain should refuse is not
  stated by the code beyond the checks themselves.
* Overflow of 128-bit sums of tokens outside `unify_decimals`: no amount exceeds
  an issuance. The limit of 255 leaves of a proof is in the model and in the
  theorems, and not reached by the runs.
* The existential deposit of `pallet_balances`, outside `Token`, `BridgeHandler`,
  `Settings` and `Agent`.
* Callbacks that stake or revoke (they may spend or authorize), and administration
  of the bridge within `BridgeHandler` (`ChainBridge` has it).
* References that keep an emptied account alive (`Settings`, `Agent`): whether it is
  removed is left open, so the model allows both.
* Genesis plans of the foundation with a zero in delay, interval or times, for which
  the code underflows, divides by zero or never releases the first amount
  (`FoundationAssumption`).

## 8. Plan

The system's parts are modelled, and the safety properties of the runs proved.
What is left is the composition of `Staking`, `Custody` and `Clearing`: one dominator
whose status all share, so that the trades of one are the profits of the other.
