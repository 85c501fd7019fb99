--------------------------- MODULE BridgeHandler ----------------------------
(***************************************************************************)
(* pallet-chainbridge-handler: what a bridge transfer does to assets.  It  *)
(* composes the votes of relayers (module ChainBridge), the balances       *)
(* (module Token) and the prices that fees are computed from (module       *)
(* Indicator) with the calls of the handler itself.                        *)
(*                                                                         *)
(*   in:   the call relayers approve is transfer_in; it is dispatched in   *)
(*         the step of the deciding vote, and when it fails that vote      *)
(*         fails with it, so the step does not exist;                      *)
(*   out:  transfer_out takes a fee, locks native tokens in the bridge     *)
(*         account or burns others, and numbers an announcement.           *)
(*                                                                         *)
(* The other chain is external: it holds deposits in a vault, logs each    *)
(* deposit under a number, pays announced amounts out of the vault, and    *)
(* mints and burns wrapped native tokens.  Amounts of a token on the way   *)
(* in and out have the token's own decimals; balances the standard ones.   *)
(*                                                                         *)
(* The administration of the bridge is module ChainBridge's subject; here  *)
(* relayers, threshold and resources are set up and stay.  Blocks go by,   *)
(* and a proposal that is not decided within its lifetime is closed for    *)
(* good.  Amounts are far below the range of a balance: conversions do not *)
(* wrap.                                                                   *)
(***************************************************************************)
EXTENDS Indicator, Integers, Sequences, FiniteSets, Functions

CONSTANTS
  Relayer, Honest,        \* relayers, and those that report what they see
  Quorum,                 \* RelayerThreshold
  User, Bridge, Treasury, Donor,   \* accounts; DonorAccount, TreasuryAccount
  Dominator,
  Dex,                    \* associate ids, a byte of a resource id
  ThisChain, ForeignChain,
  MaxTokenId, TokenDecimals, StableToken,
  StandardDecimals, MaxDecimals, Radix, BalanceRange,
  Endowment,              \* free native tokens at genesis
  InAmount, OutAmount,    \* amounts of deposits and withdrawals
  Trades,                 \* (amount, volume) pairs that set a price
  BridgingFeeInUSD, NativeTokenMaxValue, DonationForAgent,
  ProposalLifetime,       \* in blocks
  DepositNonce, MaxNonce, MaxBlock  \* bounds: deposits in, announcements out, blocks

VARIABLES
  now, threshold, relayers, count, chains, resources, votes, executed, sent,
  tokens, next_token_id, by_name, by_contract, balances, native_issuance,
  native_check,  \* NativeCheck
  associated,    \* AssociatedDominator, Nobody where there is no entry
  active,        \* dominators whose status is ACTIVE (verifier)
  receipts,      \* users with a receipt, per dominator (verifier)
  hosted,        \* what is authorized to each dominator (verifier)
  fresh,         \* accounts whose nonce is zero (frame_system)
  log,           \* deposits logged on the other chain
  vault,         \* tokens in the other chain's vault; of Native, the wrapped ones
  rounded        \* withdrawals so far of each token (history)

Account == User \cup {Bridge, Treasury, Donor}
Issued == 1..MaxTokenId
Native == 0
Nobody == "nobody"

(* The pallets' accounts are derived ids nobody has the key of.            *)
ASSUME AccountAssumption ==
  /\ IsFiniteSet(User) /\ IsFiniteSet(Dominator) /\ Nobody \notin Dominator
  /\ Bridge \notin User /\ Treasury \notin User /\ Donor \notin User
  /\ Bridge # Treasury /\ Bridge # Donor /\ Treasury # Donor

(* Faulty relayers alone are no quorum.                                    *)
ASSUME RelayerAssumption ==
  /\ IsFiniteSet(Relayer) /\ Honest \subseteq Relayer
  /\ Quorum \in Nat /\ Quorum > Cardinality(Relayer \ Honest)
  /\ ThisChain # ForeignChain /\ Dex # {}
  /\ DepositNonce \subseteq Nat /\ IsFiniteSet(DepositNonce) /\ MaxNonce \in Nat
  /\ ProposalLifetime \in Nat /\ MaxBlock \in Nat

(* Conversions to standard decimals do not wrap around.                    *)
ASSUME AmountAssumption ==
  /\ MaxTokenId \in Nat /\ StandardDecimals \in Nat /\ MaxDecimals \in Nat
  /\ TokenDecimals \in [Issued -> 0..MaxDecimals]
  /\ BalanceRange \in Nat \ {0}
  /\ \A n \in 0..(StandardDecimals + MaxDecimals) : Radix^n \in Nat \ {0}
  /\ Endowment \in [Account -> Nat]
  /\ InAmount \subseteq Nat \ {0} /\ OutAmount \subseteq Nat
  /\ \A amount \in OutAmount, t \in Issued :
       TokenDecimals[t] <= StandardDecimals =>
         amount * Radix^(StandardDecimals - TokenDecimals[t]) < BalanceRange
  /\ Trades \subseteq Nat \X Nat
  /\ BridgingFeeInUSD \in Nat /\ NativeTokenMaxValue \in Nat /\ DonationForAgent \in Nat

(* A resource id: chain, associate id and contract.  The contract of a     *)
(* token is named by its id here.                                          *)
ResourceId == [chain : {ForeignChain}, dex : Dex, contract : Issued]
                \cup [chain : {ThisChain}, dex : Dex, contract : {Native}]
NativeResource == [chain |-> ThisChain, dex |-> CHOOSE x \in Dex : TRUE, contract |-> Native]

Call == [to : User, amount : InAmount, r_id : ResourceId]
NoCall == [amount |-> 0]

CB == INSTANCE ChainBridge WITH
        Account <- Relayer, Chain <- {ThisChain, ForeignChain}, Proposal <- Call,
        Resource <- ResourceId, MappedResource <- ResourceId, Threshold <- {Quorum}
T == INSTANCE Token WITH
       Contract <- {}, Foreign <- {ForeignChain} \X Issued,
       Amount <- InAmount \cup OutAmount, Decimals <- 0..MaxDecimals,
       BurnTAOwhenIssue <- 0

bridge == <<now, threshold, relayers, count, chains, resources, votes, executed, sent>>
registry == <<next_token_id, by_name, by_contract, native_issuance>>
assets == <<tokens, balances>>
custody == <<active, receipts, hosted>>
setup == <<native_check, associated, prices>>
foreign == <<log, vault, rounded>>
vars == <<bridge, registry, assets, custody, setup, foreign, fresh>>

TypeOK ==
  /\ CB!TypeOK /\ T!TypeOK
  /\ prices \in [T!TokenId -> Nat]
  /\ native_check \in BOOLEAN
  /\ associated \in [Dex -> Dominator \cup {Nobody}]
  /\ active \subseteq Dominator
  /\ receipts \in [Dominator -> SUBSET User]
  /\ hosted \in [Dominator -> [User -> [T!TokenId -> Nat]]]
  /\ fresh \subseteq User
  /\ log \in [DepositNonce -> Call \cup {NoCall}]
  /\ vault \in [T!TokenId -> Int]
  /\ rounded \in [Issued -> Nat]

Init ==
  /\ now = 0 /\ threshold = Quorum
  /\ relayers = Relayer /\ count = Cardinality(Relayer)
  /\ chains = [c \in {ThisChain, ForeignChain} |-> IF c = ForeignChain THEN 0 ELSE CB!Unlisted]
  /\ resources = ResourceId
  /\ votes = [p \in CB!Deposit |-> CB!Unknown]
  /\ executed = [p \in CB!Deposit |-> 0]
  /\ sent = [c \in {ThisChain, ForeignChain} |-> <<>>]
  /\ tokens = [t \in Issued |->
       [kind |-> "ERC20", contract |-> T!NoContract, total |-> 0,
        stable |-> t \in StableToken, decimals |-> TokenDecimals[t]]]
  /\ next_token_id = MaxTokenId + 1
  /\ by_name = <<>>
  /\ by_contract = [f \in {ForeignChain} \X Issued |-> f[2]]
  /\ balances = [t \in T!TokenId |-> [a \in Account |->
       [free |-> IF t = Native THEN Endowment[a] ELSE 0, reserved |-> 0]]]
  /\ native_issuance = SumFunction(Endowment)
  /\ prices = [t \in T!TokenId |-> 0]
  /\ native_check = FALSE
  /\ associated = [x \in Dex |-> Nobody]
  /\ active = {}
  /\ receipts = [d \in Dominator |-> {}]
  /\ hosted = [d \in Dominator |-> [u \in User |-> [t \in T!TokenId |-> 0]]]
  /\ fresh = User
  /\ log = [n \in DepositNonce |-> NoCall]
  /\ vault = [t \in T!TokenId |-> 0]
  /\ rounded = [t \in Issued |-> 0]

-----------------------------------------------------------------------------
(* Resources, conversion and fee.                                          *)

is_native_resource(r) ==
  r.chain = NativeResource.chain /\ r.contract = NativeResource.contract

try_get_asset_id(r) == by_contract[<<r.chain, r.contract>>]
TokenOf(r) == IF is_native_resource(r) THEN Native ELSE try_get_asset_id(r)

to_asset_balance(amount, t) == IF t = Native THEN amount ELSE T!Unified(t, amount)

is_stable(t) == t # Native /\ tokens[t].stable

calculate_bridging_fee(t) ==
  LET price == get_price(t, is_stable(t))
  IN IF price = 0 THEN 0 ELSE Ratio(BridgingFeeInUSD, price)

-----------------------------------------------------------------------------
(* In.                                                                     *)

(* authorize_to of the verifier (module Custody); its error is logged and  *)
(* leaves no trace.                                                        *)
CanAuthorize(bal, u, d, t, v) ==
  /\ d \in active
  /\ u \notin receipts[d]
  /\ bal[t][u].free >= v
Reserved(bal, u, t, v) ==
  [bal EXCEPT ![t][u] = [free |-> @.free - v, reserved |-> @.reserved + v]]

authorize_if_possible(bal, u, d, t, v) ==
  IF d # Nobody /\ CanAuthorize(bal, u, d, t, v)
  THEN /\ receipts' = [receipts EXCEPT ![d] = @ \cup {u}]
       /\ hosted' = [hosted EXCEPT ![d][u][t] = @ + v]
  ELSE UNCHANGED <<receipts, hosted>>
ReservedAnyway(bal, u, d, t, v) ==              \* mutant of AfterAuthorize
  IF d # Nobody /\ bal[t][u].free >= v THEN Reserved(bal, u, t, v) ELSE bal
AfterAuthorize(bal, u, d, t, v) ==
  IF d # Nobody /\ CanAuthorize(bal, u, d, t, v) THEN Reserved(bal, u, t, v) ELSE bal

(* An account that never signed anything is given its first fees; a donor  *)
(* without funds is ignored.                                               *)
AfterDonation(bal, u) ==
  IF u \in fresh /\ T!CanTransfer(bal, Donor, Native, DonationForAgent, u)
  THEN T!Transferred(bal, Donor, Native, DonationForAgent, u) ELSE bal

do_unlock(amount, to) ==
  /\ T!CanTransfer(balances, Bridge, Native, amount, to)
  /\ UNCHANGED tokens
do_mint_assets(t, to, amount) ==
  /\ t # T!NoToken
  /\ T!CanMint(balances, t, to, amount)
  /\ tokens' = [tokens EXCEPT ![t] = T!WithIssued(t, T!Unified(t, amount))]

transfer_in(call) ==
  LET t == TokenOf(call.r_id)
      v == to_asset_balance(call.amount, t)
      d == associated[call.r_id.dex]
      paid == IF t = Native
              THEN T!Transferred(balances, Bridge, Native, call.amount, call.to)
              ELSE T!Minted(balances, t, call.to, call.amount)
  IN /\ \/ t = Native /\ do_unlock(call.amount, call.to)
        \/ t # Native /\ do_mint_assets(t, call.to, call.amount)
     /\ authorize_if_possible(paid, call.to, d, t, v)
     /\ balances' = AfterDonation(AfterAuthorize(paid, call.to, d, t, v), call.to)

(* A relayer's vote, and the dispatch it may bring about.                  *)
Dispatch(n, call) ==
  IF executed'[<<ForeignChain, n, call>>] # executed[<<ForeignChain, n, call>>]
  THEN transfer_in(call)
  ELSE UNCHANGED <<assets, receipts, hosted>>

Relay(who, n, call, in_favour) ==
  /\ CB!Vote(who, ForeignChain, n, call.r_id, call, in_favour)
  /\ Dispatch(n, call)
  /\ UNCHANGED <<registry, active, setup, foreign, fresh>>

(* Honest relayers support what the other chain logged, nothing else.      *)
HonestVote(who, n) ==
  /\ log[n] # NoCall
  /\ Relay(who, n, log[n], TRUE)
FaultyVote(who, n, call, in_favour) ==
  /\ who \notin Honest
  /\ Relay(who, n, call, in_favour)

(* A block goes by; what was opened comes nearer to its expiry.            *)
NextBlock ==
  /\ CB!NextBlock
  /\ UNCHANGED <<registry, assets, custody, setup, foreign, fresh>>

-----------------------------------------------------------------------------
(* Out.                                                                    *)

(* The fee and the rest leave the sender one after the other.              *)
AfterFee(who, t, fee) == T!Transferred(balances, who, t, fee, Treasury)

do_lock(who, amount, fee) ==
  LET after == AfterFee(who, Native, fee)
  IN /\ native_check => balances[Native][Bridge].free + amount <= NativeTokenMaxValue \div 3
     /\ T!CanTransfer(balances, who, Native, fee, Treasury)
     /\ T!CanTransfer(after, who, Native, amount - fee, Bridge)
     /\ balances' = T!Transferred(after, who, Native, amount - fee, Bridge)
     /\ UNCHANGED tokens

do_burn_gross(who, t, amount, fee) ==           \* mutant of do_burn_assets
  LET after == AfterFee(who, t, fee)
  IN /\ t # T!NoToken
     /\ T!CanTransfer(balances, who, t, fee, Treasury)
     /\ T!CanBurn(after, t, who, amount - fee)
     /\ tokens' = [tokens EXCEPT ![t] = T!WithIssued(t, -T!Unified(t, amount))]
     /\ balances' = T!Burnt(after, t, who, amount - fee)
do_burn_assets(who, t, amount, fee) ==
  LET after == AfterFee(who, t, fee)
  IN /\ t # T!NoToken
     /\ T!CanTransfer(balances, who, t, fee, Treasury)
     /\ T!CanBurn(after, t, who, amount - fee)
     /\ tokens' = [tokens EXCEPT ![t] = T!WithIssued(t, -T!Unified(t, amount - fee))]
     /\ balances' = T!Burnt(after, t, who, amount - fee)

AnnounceAll(amount, fee) == amount              \* mutant of Announced
Announced(amount, fee) == amount - fee

transfer_out(who, amount, r, dest) ==
  LET t == TokenOf(r)
      fee == calculate_bridging_fee(t)
  IN /\ CB!chain_whitelisted(dest)
     /\ amount > fee + fee
     /\ IF t = Native THEN do_lock(who, amount, fee)
                      ELSE do_burn_assets(who, t, amount, fee)
     /\ CB!transfer_fungible(dest)
     /\ vault' = [vault EXCEPT ![t] = IF t = Native THEN @ + Announced(amount, fee)
                                                    ELSE @ - Announced(amount, fee)]
     /\ rounded' = IF t = Native THEN rounded ELSE [rounded EXCEPT ![t] = @ + 1]
     /\ fresh' = fresh \ {who}
     /\ UNCHANGED <<registry, custody, setup, log>>

-----------------------------------------------------------------------------
(* Settings of the handler; what other parts of the system do.             *)

native_limit(value) ==
  /\ native_check' = value
  /\ UNCHANGED <<bridge, registry, assets, custody, associated, prices, foreign, fresh>>

associate_dominator(x, d) ==
  /\ associated' = [associated EXCEPT ![x] = d]
  /\ UNCHANGED <<bridge, registry, assets, custody, native_check, prices, foreign, fresh>>

PriceMoves(t, trade) ==
  /\ set_price(t, trade[1], trade[2])
  /\ UNCHANGED <<bridge, registry, assets, custody, native_check, associated, foreign, fresh>>

(* A dominator goes on or off line; its matcher takes a receipt.           *)
StatusMoves(d) ==
  /\ active' = IF d \in active THEN active \ {d} ELSE active \cup {d}
  /\ UNCHANGED <<bridge, registry, assets, receipts, hosted, setup, foreign, fresh>>
ReceiptTaken(d, u) ==
  /\ d \in active /\ u \in receipts[d]
  /\ receipts' = [receipts EXCEPT ![d] = @ \ {u}]
  /\ UNCHANGED <<bridge, registry, assets, active, hosted, setup, foreign, fresh>>

(* A user authorizes tokens itself: its receipt is in a bridge call's way. *)
UserAuthorizes(u, d, t, v) ==
  /\ CanAuthorize(balances, u, d, t, v)
  /\ authorize_if_possible(balances, u, d, t, v)
  /\ balances' = Reserved(balances, u, t, v)
  /\ fresh' = fresh \ {u}
  /\ UNCHANGED <<bridge, registry, tokens, active, setup, foreign>>

(* The other chain logs a deposit; wrapped native tokens must exist there. *)
ForeignDeposit(n, call) ==
  LET t == call.r_id.contract
  IN /\ log[n] = NoCall
     /\ \A m \in DepositNonce : m < n => log[m] # NoCall
     /\ t = Native => vault[t] >= call.amount
     /\ log' = [log EXCEPT ![n] = call]
     /\ vault' = [vault EXCEPT ![t] = IF t = Native THEN @ - call.amount ELSE @ + call.amount]
     /\ UNCHANGED <<bridge, registry, assets, custody, setup, rounded, fresh>>

-----------------------------------------------------------------------------
Environment ==
  \/ \E n \in DepositNonce, call \in Call : ForeignDeposit(n, call)
  \/ \E t \in {Native} \cup Issued, trade \in Trades : PriceMoves(t, trade)
  \/ \E d \in Dominator : StatusMoves(d) \/ \E u \in User : ReceiptTaken(d, u)
  \/ \E u \in User, d \in Dominator, t \in {Native} \cup Issued, v \in OutAmount :
       UserAuthorizes(u, d, t, v)

Administer ==
  \/ \E value \in BOOLEAN : native_limit(value)
  \/ \E x \in Dex, d \in Dominator : associate_dominator(x, d)

In ==
  \E n \in DepositNonce :
    \/ \E who \in Honest : HonestVote(who, n)
    \/ \E who \in Relayer, call \in Call, in_favour \in BOOLEAN :
         FaultyVote(who, n, call, in_favour)

Out ==
  \E who \in User, amount \in OutAmount, r \in ResourceId, dest \in {ThisChain, ForeignChain} :
    transfer_out(who, amount, r, dest)

Next == Environment \/ Administer \/ In \/ NextBlock \/ Out

(* Each honest relayer eventually reports each deposit it sees; nothing    *)
(* says within how many blocks, and blocks need not come.                  *)
Spec ==
  /\ Init /\ [][Next]_vars
  /\ \A who \in Honest, n \in DepositNonce : WF_vars(HonestVote(who, n))
-----------------------------------------------------------------------------
(* Properties.                                                             *)

IsPending(n) == log[n] # NoCall /\ executed[<<ForeignChain, n, log[n]>>] = 0
Pending(t) ==
  SumFunction([n \in DepositNonce |->
                 IF IsPending(n) /\ log[n].r_id.contract = t THEN log[n].amount ELSE 0])

(* Whatever is issued here of another chain's token, and every deposit     *)
(* still under way, is covered by the vault over there.  The code burns    *)
(* the announced amount converted to standard decimals, rounded down: for  *)
(* tokens with more decimals each withdrawal may take less than one        *)
(* standard unit too much from the vault, and nothing worse.               *)
VaultCovers ==
  \A t \in Issued :
    LET k == tokens[t].decimals
        up == Radix^(k - StandardDecimals)
        down == Radix^(StandardDecimals - k)
    IN IF k > StandardDecimals
       THEN tokens[t].total * up + Pending(t) <= vault[t] + rounded[t] * (up - 1)
       ELSE tokens[t].total + Pending(t) * down <= vault[t] * down

(* A user's reserved tokens are those a dominator was given: when the      *)
(* authorization after a payment fails, which is only logged, the payment  *)
(* stays free.                                                             *)
ReservedIsHosted ==
  \A u \in User, t \in T!TokenId :
    balances[t][u].reserved = SumFunction([d \in Dominator |-> hosted[d][u][t]])

(* Fee, lock, burn, mint, authorization and donation, several of them in   *)
(* one call, together create and lose no token.                            *)
AssetsConserved == \A t \in T!TokenId : T!Held(t) = T!total_issuance(t)

(* The fee is worth what BridgingFeeInUSD asks for at the present price,   *)
(* to the last unit that rounding down allows.                             *)
FeeWorth ==
  \A t \in T!TokenId :
    LET price == get_price(t, is_stable(t))
        fee == calculate_bridging_fee(t)
    IN price # 0 => /\ fee * price <= BridgingFeeInUSD * Quintill
                    /\ BridgingFeeInUSD * Quintill < (fee + 1) * price

(* Every deposit worth a standard unit is credited in the end, whatever    *)
(* faulty relayers vote, dominators do and other users withdraw, unless    *)
(*   - its proposal expired: it was opened, perhaps by a faulty relayer    *)
(*     before the deposit was logged, and honest votes came too late; or   *)
(*   - it asks for all the native tokens the bridge account has, which     *)
(*     must stay alive: until more are locked, the deciding vote fails.    *)
Expired(n) ==
  LET v == votes[<<ForeignChain, n, log[n]>>]
  IN v.status = "Initiated" /\ CB!is_expired(v)
AsksForAll(n) ==
  is_native_resource(log[n].r_id) /\ balances[Native][Bridge].free = log[n].amount
DepositCredited ==
  \A n \in DepositNonce :
    (log[n] # NoCall /\ to_asset_balance(log[n].amount, TokenOf(log[n].r_id)) # 0)
      ~> (~IsPending(n) \/ Expired(n) \/ AsksForAll(n))

StandardOf(t, amount) == T!unify_decimals(amount, TokenDecimals[t])
UpToOut == UNION {1..amount : amount \in OutAmount}
DepositRecord(call) ==
  IF call = NoCall THEN NoCall ELSE [token |-> call.r_id.contract, amount |-> call.amount]
DepositRecords == {DepositRecord(call) : call \in Call}
Ideal == INSTANCE IdealBridge WITH
           Number <- DepositNonce, Token <- Issued, Amount <- UpToOut,
           Deposit <- DepositRecords, NoDeposit <- NoCall,
           Standard <- StandardOf,
           log <- [n \in DepositNonce |-> DepositRecord(log[n])],
           credited <- {n \in DepositNonce : \E call \in Call :
                          executed[<<ForeignChain, n, call>>] > 0},
           here <- [t \in {Native} \cup Issued |->
                      IF t = Native THEN balances[Native][Bridge].free - Endowment[Bridge]
                      ELSE tokens[t].total],
           there <- vault

(* The handler, together with the votes behind it, implements the ideal    *)
(* bridge: only what the other chain logged is paid out, once, and native  *)
(* tokens wrapped there are locked here; seen from the users' side there   *)
(* are no relayers, no retries and no half-finished transfers.  Relayers   *)
(* vote on calls and not on deposits, so this needs a threshold above the  *)
(* number of faulty ones, and that no vote counts twice.                   *)
IdealSpec == Ideal!Spec
=============================================================================
