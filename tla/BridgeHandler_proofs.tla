------------------------ MODULE BridgeHandler_proofs ------------------------
(***************************************************************************)
(* Proofs about BridgeHandler for any users, relayers, tokens, amounts and *)
(* number of deposits: the laws of each transfer of tokens, of a vote, and of *)
(* the conversion between decimals; the inductive invariant IInv, which ties *)
(* balances to totals, reserved to hosted tokens, votes to what was logged, *)
(* and totals to the vault; and the refinement of the ideal bridge.        *)
(***************************************************************************)
EXTENDS BridgeHandler, SumTheorems

TokenId == {Native} \cup Issued
Balance == 0..(BalanceRange - 1)
Entry == [free : Nat, reserved : Nat]
BalanceMap == [TokenId -> [Account -> Entry]]
Worth(bal, t, a) == bal[t][a].free + bal[t][a].reserved
HeldOf(bal, t) == SumFunction([a \in Account |-> Worth(bal, t, a)])

(* The sums of the balances module are sums.                               *)
LEMMA TokenSum == \A f : T!SumFunction(f) = SumFunction(f)
  BY Zenon DEF T!SumFunction, T!SumFunctionOnSet, T!FoldFunctionOnSet, T!MapThenFoldSet,
     SumFunction, SumFunctionOnSet, FoldFunctionOnSet, MapThenFoldSet

(* What is issued and held, in the terms used here.                        *)
LEMMA TokenTerms ==
  /\ T!TokenId = TokenId /\ T!Issued = Issued /\ T!Native = Native /\ T!NoToken = -1
  /\ T!Balance = Balance
  /\ \A t : T!Held(t) = HeldOf(balances, t)
  BY TokenSum DEF T!TokenId, T!Issued, T!Native, T!NoToken, TokenId, Issued, Native, T!Balance, Balance,
     T!Held, HeldOf, Worth

(* The accounts are finitely many, and the pallets' are among them.        *)
LEMMA FiniteAccounts == IsFiniteSet(Account) /\ User \subseteq Account /\ Bridge \in Account
     /\ Treasury \in Account /\ Donor \in Account
  <1>1. Account = ((User \cup {Bridge}) \cup {Treasury}) \cup {Donor}
    BY DEF Account
  <1>2. IsFiniteSet(Account)
    BY <1>1, AccountAssumption, FS_AddElement
  <1> QED BY <1>2 DEF Account

(* Dividing rounds down to the last unit: Ratio is p * Quintill / q.       *)
LEMMA RatioExact ==
  ASSUME NEW p \in Nat, NEW q \in Nat \ {0}
  PROVE  /\ Ratio(p, q) \in Nat
         /\ Ratio(p, q) * q <= p * Quintill
         /\ p * Quintill < (Ratio(p, q) + 1) * q
  <1> DEFINE Q == Quintill  a == p \div q  b == p % q  x == b * Q  c == x \div q  d == x % q
  <1>1. Q \in Nat
    BY IndicatorAssumption
  <1>2. a \in Nat /\ b \in Nat /\ p = (q * a) + b
    BY DivMod
  <1>3. Ratio(p, q) = a * Q + c
    BY DEF Ratio, from_rational
  <1>4. x \in Nat
    BY <1>1, <1>2
  <1>5. c \in Nat /\ d \in Nat /\ d < q /\ x = (q * c) + d
    <2> HIDE DEF x
    <2> QED BY <1>4, DivMod
  <1>x. x = b * Q
    OBVIOUS
  <1> HIDE DEF Q, a, b, x, c, d
  <1>6. p * Q = (q * a) * Q + b * Q
    BY ONLY <1>1, <1>2
  <1>7. (q * a) * Q = q * (a * Q) /\ a * Q \in Nat
    BY ONLY <1>1, <1>2, MulLaws
  <1> DEFINE r == a * Q + c
  <1>8. r \in Nat /\ q * r = q * (a * Q) + q * c
    BY ONLY <1>5, <1>7, MulLaws
  <1>9. r * q = q * r /\ (r + 1) * q = q * r + q
    BY ONLY <1>8, MulLaws
  <1>10. q * (a * Q) \in Nat /\ q * c \in Nat
    BY ONLY <1>5, <1>7
  <1>11. p * Q = q * r + d
    BY ONLY <1>5, <1>6, <1>7, <1>8, <1>10, <1>x
  <1>12. q * r \in Nat
    BY ONLY <1>8, MulLaws
  <1>13. r * q <= p * Q /\ p * Q < (r + 1) * q
    BY ONLY <1>5, <1>9, <1>11, <1>12
  <1> QED BY <1>3, <1>8, <1>13 DEF Q
-----------------------------------------------------------------------------
(* What the calls of the balances pallets do to the balances.              *)

(* The balances with one entry replaced.                                   *)
Put(bal, t, a, e) == [bal EXCEPT ![t][a] = e]

(* Its entry is the new one, all others stay, and what is held of the      *)
(* token changes by the difference.                                        *)
LEMMA PutLaw ==
  ASSUME NEW bal \in BalanceMap, NEW t \in TokenId, NEW a \in Account, NEW e \in Entry
  PROVE  /\ Put(bal, t, a, e) \in BalanceMap
         /\ Put(bal, t, a, e)[t][a] = e
         /\ \A s \in TokenId, b \in Account : (s # t \/ b # a) => Put(bal, t, a, e)[s][b] = bal[s][b]
         /\ HeldOf(Put(bal, t, a, e), t) = HeldOf(bal, t) + (e.free + e.reserved) - Worth(bal, t, a)
         /\ \A s \in TokenId \ {t} : HeldOf(Put(bal, t, a, e), s) = HeldOf(bal, s)
  <1> DEFINE new == Put(bal, t, a, e)
             f == [b \in Account |-> Worth(bal, t, b)]
             g == [b \in Account |-> Worth(new, t, b)]
  <1>1. /\ new \in BalanceMap /\ new[t][a] = e
        /\ \A s \in TokenId, b \in Account : (s # t \/ b # a) => new[s][b] = bal[s][b]
    BY DEF Put, BalanceMap
  <1>2. \A x \in BalanceMap, s \in TokenId, b \in Account : Worth(x, s, b) \in Nat
    BY DEF BalanceMap, Entry, Worth
  <1> HIDE DEF new
  <1>3. f \in [Account -> Int] /\ \A b \in Account : f[b] = Worth(bal, t, b)
    BY <1>2
  <1>4. g \in [Account -> Int] /\ \A b \in Account : g[b] = Worth(new, t, b)
    BY <1>1, <1>2
  <1>5. SumFunction(f) = HeldOf(bal, t) /\ SumFunction(g) = HeldOf(new, t)
    BY DEF HeldOf
  <1>6. Worth(new, t, a) = e.free + e.reserved
    BY <1>1 DEF Worth
  <1>7. \A b \in Account \ {a} : Worth(new, t, b) = Worth(bal, t, b)
    BY <1>1 DEF Worth
  <1> HIDE DEF f, g
  <1>8. SumFunction(g) = SumFunction(f) + g[a] - f[a]
    <2>1. \A b \in Account \ {a} : g[b] = f[b]
      BY <1>3, <1>4, <1>7
    <2> QED BY <1>3, <1>4, <2>1, TotalUpdate, FiniteAccounts
  <1>9. ASSUME NEW s \in TokenId \ {t} PROVE HeldOf(new, s) = HeldOf(bal, s)
    <2>1. [b \in Account |-> Worth(new, s, b)] = [b \in Account |-> Worth(bal, s, b)]
      BY <1>1 DEF Worth
    <2> QED BY <2>1 DEF HeldOf
  <1> QED BY <1>1, <1>3, <1>4, <1>5, <1>6, <1>8, <1>9 DEF new

(* Entries and what is held are natural numbers.                           *)
LEMMA EntryType ==
  ASSUME NEW bal \in BalanceMap, NEW t \in TokenId
  PROVE  /\ HeldOf(bal, t) \in Nat
         /\ \A a \in Account : /\ bal[t][a] \in Entry /\ bal[t][a].free \in Nat
                               /\ bal[t][a].reserved \in Nat /\ Worth(bal, t, a) \in Nat
                               /\ bal[t][a] = [free |-> bal[t][a].free, reserved |-> bal[t][a].reserved]
  <1> DEFINE f == [a \in Account |-> Worth(bal, t, a)]
  <1>1. \A a \in Account : /\ bal[t][a] \in Entry /\ bal[t][a].free \in Nat
                           /\ bal[t][a].reserved \in Nat /\ Worth(bal, t, a) \in Nat
                           /\ bal[t][a] = [free |-> bal[t][a].free, reserved |-> bal[t][a].reserved]
    BY DEF BalanceMap, Worth, Entry
  <1>2. f \in [Account -> Nat]
    BY <1>1
  <1>3. SumFunction(f) \in Nat
    BY <1>2, TotalNat, FiniteAccounts
  <1> QED BY <1>1, <1>3 DEF HeldOf

(* A value of the balances pallets' record with one field changed.         *)
LEMMA EntryExcept ==
  ASSUME NEW e \in Entry, NEW x
  PROVE  [e EXCEPT !.free = x] = [free |-> x, reserved |-> e.reserved]
  BY DEF Entry

(* new differs from bal in free balances of token t at accounts A only.    *)
Touches(bal, new, t, A) ==
  /\ \A s \in TokenId, b \in Account : new[s][b].reserved = bal[s][b].reserved
  /\ \A s \in TokenId, b \in Account : (s # t \/ b \notin A) => new[s][b] = bal[s][b]

(* A transfer between two accounts moves free balance and changes nothing  *)
(* else; together the accounts hold what they held.                        *)
LEMMA TransferLaw ==
  ASSUME NEW bal \in BalanceMap, NEW t \in TokenId, NEW who \in Account, NEW to \in Account,
         who # to, NEW v \in Nat, T!CanTransfer(bal, who, t, v, to)
  PROVE  /\ T!Transferred(bal, who, t, v, to) \in BalanceMap
         /\ Touches(bal, T!Transferred(bal, who, t, v, to), t, {who, to})
         /\ T!Transferred(bal, who, t, v, to)[t][who].free = bal[t][who].free - v
         /\ T!Transferred(bal, who, t, v, to)[t][to].free = bal[t][to].free + v
         /\ \A s \in TokenId : HeldOf(T!Transferred(bal, who, t, v, to), s) = HeldOf(bal, s)
  <1> DEFINE x == bal[t][who]  y == bal[t][to]
             e == [free |-> x.free - v, reserved |-> x.reserved]
             f == [free |-> y.free + v, reserved |-> y.reserved]
             one == Put(bal, t, to, f)
             two == Put(one, t, who, e)
  <1>1. /\ x \in Entry /\ y \in Entry /\ x.free \in Nat /\ y.free \in Nat
        /\ x.reserved \in Nat /\ y.reserved \in Nat
    BY EntryType
  <1>2. x.free - v \in Nat
    BY <1>1 DEF T!CanTransfer
  <1>3. e \in Entry /\ f \in Entry /\ e.free = x.free - v /\ e.reserved = x.reserved
        /\ f.free = y.free + v /\ f.reserved = y.reserved
    BY <1>1, <1>2 DEF Entry
  <1>4. T!Transferred(bal, who, t, v, to) = two
    <2>1. T!Debit(bal, t, who, "free", v) = [x EXCEPT !.free = x.free - v]
      BY <1>1 DEF T!Debit, Entry
    <2>2. T!Credit(bal, t, to, "free", v) = [y EXCEPT !.free = y.free + v]
      BY <1>1 DEF T!Credit, Entry
    <2>3. T!Debit(bal, t, who, "free", v) = e /\ T!Credit(bal, t, to, "free", v) = f
      BY <1>1, <2>1, <2>2, EntryExcept
    <2> HIDE DEF e, f
    <2>4. T!Moved(bal, t, who, "free", to, "free", v) = two
      BY <2>3 DEF T!Moved, Put
    <2> QED BY <2>4 DEF T!Transferred, T!NativeMoved, T!Native
  <1>x. Worth(bal, t, who) = x.free + x.reserved /\ Worth(bal, t, to) = y.free + y.reserved
    BY DEF Worth
  <1> HIDE DEF e, f
  <1>5. /\ one \in BalanceMap /\ one[t][to] = f
        /\ \A s \in TokenId, b \in Account : (s # t \/ b # to) => one[s][b] = bal[s][b]
        /\ HeldOf(one, t) = HeldOf(bal, t) + (f.free + f.reserved) - Worth(bal, t, to)
        /\ \A s \in TokenId \ {t} : HeldOf(one, s) = HeldOf(bal, s)
    BY <1>3, PutLaw
  <1> HIDE DEF one
  <1>6. /\ two \in BalanceMap /\ two[t][who] = e
        /\ \A s \in TokenId, b \in Account : (s # t \/ b # who) => two[s][b] = one[s][b]
        /\ HeldOf(two, t) = HeldOf(one, t) + (e.free + e.reserved) - Worth(one, t, who)
        /\ \A s \in TokenId \ {t} : HeldOf(two, s) = HeldOf(one, s)
    BY <1>3, <1>5, PutLaw
  <1> HIDE DEF two
  <1>7. Worth(one, t, who) = Worth(bal, t, who)
    BY <1>5 DEF Worth
  <1>8. HeldOf(bal, t) \in Nat
    BY EntryType
  <1>9. two[t][to] = f
    BY <1>5, <1>6
  <1>10. HeldOf(two, t) = HeldOf(bal, t)
    BY <1>1, <1>3, <1>5, <1>6, <1>7, <1>8, <1>x
  <1>11. \A s \in TokenId, b \in Account : two[s][b].reserved = bal[s][b].reserved
    BY <1>3, <1>5, <1>6, <1>9
  <1>12. \A s \in TokenId, b \in Account : (s # t \/ b \notin {who, to}) => two[s][b] = bal[s][b]
    BY <1>5, <1>6
  <1> QED BY <1>3, <1>4, <1>5, <1>6, <1>9, <1>10, <1>11, <1>12 DEF Touches

(* The balances with w more in one free balance.                           *)
Added(bal, t, a, w) == [bal EXCEPT ![t][a].free = bal[t][a].free + w]

(* A mint of w units, or with a negative w a burn, changes one free        *)
(* balance and what is held by w.                                          *)
LEMMA AddLaw ==
  ASSUME NEW bal \in BalanceMap, NEW t \in TokenId, NEW a \in Account, NEW w \in Int,
         bal[t][a].free + w \in Nat
  PROVE  /\ Added(bal, t, a, w) \in BalanceMap
         /\ Touches(bal, Added(bal, t, a, w), t, {a})
         /\ Added(bal, t, a, w)[t][a].free = bal[t][a].free + w
         /\ HeldOf(Added(bal, t, a, w), t) = HeldOf(bal, t) + w
         /\ \A s \in TokenId \ {t} : HeldOf(Added(bal, t, a, w), s) = HeldOf(bal, s)
  <1> DEFINE new == Added(bal, t, a, w)
             x == bal[t][a]
             e == [free |-> x.free + w, reserved |-> x.reserved]
  <1>0. bal \in BalanceMap /\ t \in TokenId /\ a \in Account
    OBVIOUS
  <1>1. x \in Entry /\ x.free \in Nat /\ x.reserved \in Nat /\ Worth(bal, t, a) = x.free + x.reserved
        /\ HeldOf(bal, t) \in Nat
    BY EntryType DEF Worth
  <1>2. e \in Entry /\ e.free = x.free + w /\ e.reserved = x.reserved
    BY <1>1 DEF Entry
  <1>3. new = Put(bal, t, a, e)
    <2> DEFINE z == bal[t][a].free + w
    <2>1. [bal[t][a] EXCEPT !.free = z] = e
      BY <1>1, EntryExcept
    <2>2. new = [bal EXCEPT ![t][a].free = z]
      BY DEF Added
    <2> HIDE DEF e, z, new
    <2> QED BY ONLY <1>0, <2>1, <2>2 DEF Put, BalanceMap
  <1> HIDE DEF e, new
  <1>4. /\ new \in BalanceMap /\ new[t][a] = e
        /\ \A s \in TokenId, b \in Account : (s # t \/ b # a) => new[s][b] = bal[s][b]
        /\ HeldOf(new, t) = HeldOf(bal, t) + (e.free + e.reserved) - Worth(bal, t, a)
        /\ \A s \in TokenId \ {t} : HeldOf(new, s) = HeldOf(bal, s)
    BY ONLY <1>0, <1>2, <1>3, PutLaw
  <1>5. HeldOf(new, t) = HeldOf(bal, t) + w
    BY <1>1, <1>2, <1>4
  <1> QED BY <1>2, <1>4, <1>5 DEF Touches, new

(* An authorization moves free to reserved balance of one account.         *)
LEMMA ReserveLaw ==
  ASSUME NEW bal \in BalanceMap, NEW t \in TokenId, NEW u \in Account, NEW v \in Nat,
         bal[t][u].free >= v
  PROVE  /\ Reserved(bal, u, t, v) \in BalanceMap
         /\ Reserved(bal, u, t, v)[t][u].reserved = bal[t][u].reserved + v
         /\ \A s \in TokenId, b \in Account : (s # t \/ b # u) => Reserved(bal, u, t, v)[s][b] = bal[s][b]
         /\ \A s \in TokenId : HeldOf(Reserved(bal, u, t, v), s) = HeldOf(bal, s)
  <1> DEFINE x == bal[t][u]
             e == [free |-> x.free - v, reserved |-> x.reserved + v]
             new == Reserved(bal, u, t, v)
  <1>1. x \in Entry /\ x.free \in Nat /\ x.reserved \in Nat /\ Worth(bal, t, u) = x.free + x.reserved
        /\ HeldOf(bal, t) \in Nat
    BY EntryType DEF Worth
  <1>2. e \in Entry /\ e.free = x.free - v /\ e.reserved = x.reserved + v
    BY <1>1 DEF Entry
  <1>3. new = Put(bal, t, u, e)
    BY DEF Put, BalanceMap, Reserved
  <1> HIDE DEF e, new
  <1>4. /\ new \in BalanceMap /\ new[t][u] = e
        /\ \A s \in TokenId, b \in Account : (s # t \/ b # u) => new[s][b] = bal[s][b]
        /\ HeldOf(new, t) = HeldOf(bal, t) + (e.free + e.reserved) - Worth(bal, t, u)
        /\ \A s \in TokenId \ {t} : HeldOf(new, s) = HeldOf(bal, s)
    BY <1>2, <1>3, PutLaw
  <1>5. HeldOf(new, t) = HeldOf(bal, t)
    BY <1>1, <1>2, <1>4
  <1> QED BY <1>2, <1>4, <1>5 DEF new
-----------------------------------------------------------------------------
(* What is set up at genesis and stays, and the types of the rest.         *)

HostMap == [Dominator -> [User -> [TokenId -> Nat]]]
TokenInfo == [kind : {"ERC20"}, contract : {"none"}, total : Nat, stable : BOOLEAN,
              decimals : 0..MaxDecimals]

Setup ==
  /\ now \in Nat /\ threshold = Quorum /\ relayers = Relayer
  /\ by_contract = [f \in {ForeignChain} \X Issued |-> f[2]]
  /\ native_issuance = SumFunction(Endowment)

Types ==
  /\ Setup
  /\ tokens \in [Issued -> TokenInfo]
  /\ \A t \in Issued : tokens[t].decimals = TokenDecimals[t]
  /\ balances \in BalanceMap
  /\ prices \in [TokenId -> Nat]
  /\ associated \in [Dex -> Dominator \cup {Nobody}]
  /\ hosted \in HostMap

(* The token of a resource id is the one its contract names.               *)
LEMMA TokenOfContract ==
  ASSUME Setup, NEW r \in ResourceId
  PROVE  TokenOf(r) = r.contract /\ r.contract \in TokenId /\ r.dex \in Dex
  <1>1. NativeResource.chain = ThisChain /\ NativeResource.contract = Native
    BY DEF NativeResource
  <1>2. CASE r \in [chain : {ForeignChain}, dex : Dex, contract : Issued]
    <2>1. r.chain = ForeignChain /\ r.contract \in Issued /\ r.dex \in Dex
      BY <1>2
    <2>2. ~is_native_resource(r)
      BY <1>1, <2>1, RelayerAssumption DEF is_native_resource
    <2>3. <<r.chain, r.contract>> \in {ForeignChain} \X Issued
      BY <2>1
    <2>4. try_get_asset_id(r) = r.contract
      BY <2>3 DEF try_get_asset_id, Setup
    <2> QED BY <2>1, <2>2, <2>4 DEF TokenOf, TokenId
  <1>3. CASE r \in [chain : {ThisChain}, dex : Dex, contract : {Native}]
    BY <1>1, <1>3 DEF TokenOf, is_native_resource, TokenId
  <1> QED BY <1>2, <1>3 DEF ResourceId

(* Amounts of an issued token convert to natural numbers.                  *)
LEMMA StandardType ==
  ASSUME NEW t \in Issued, NEW amount \in Nat
  PROVE  StandardOf(t, amount) \in Nat
  <1> DEFINE k == TokenDecimals[t]
  <1>1. k \in 0..MaxDecimals /\ StandardDecimals \in Nat /\ MaxDecimals \in Nat
    BY AmountAssumption
  <1>2. CASE k > StandardDecimals
    <2>1. k - StandardDecimals \in 0..(StandardDecimals + MaxDecimals)
      BY <1>1, <1>2
    <2>2. Radix^(k - StandardDecimals) \in Nat \ {0}
      BY <2>1, AmountAssumption
    <2>3. amount \div Radix^(k - StandardDecimals) \in Nat
      BY <2>2, DivMod
    <2> QED BY <1>2, <2>3 DEF StandardOf, T!unify_decimals
  <1>3. CASE ~(k > StandardDecimals)
    <2>1. StandardDecimals - k \in 0..(StandardDecimals + MaxDecimals)
      BY <1>1, <1>3
    <2> DEFINE x == amount * Radix^(StandardDecimals - k)
    <2>2. Radix^(StandardDecimals - k) \in Nat
      BY <2>1, AmountAssumption
    <2>3. x \in Nat
      BY <2>2
    <2> HIDE DEF x
    <2>4. x % BalanceRange \in Nat
      BY <2>3, AmountAssumption, DivMod
    <2> QED BY <1>3, <2>4 DEF StandardOf, T!unify_decimals, x
  <1> QED BY <1>2, <1>3

(* The pallet converts with the decimals the token was issued with.        *)
LEMMA UnifiedIsStandard ==
  ASSUME Types, NEW t \in Issued, NEW amount
  PROVE  T!Unified(t, amount) = StandardOf(t, amount)
  BY DEF Types, TokenInfo, T!Unified, StandardOf

(* A mint or burn changes the total of its token and nothing else.         *)
LEMMA TotalLaw ==
  ASSUME Types, NEW t \in Issued, NEW w \in Int, tokens[t].total + w \in Nat
  PROVE  /\ T!WithIssued(t, w).total = tokens[t].total + w
         /\ T!WithIssued(t, w) \in TokenInfo
         /\ T!WithIssued(t, w).decimals = tokens[t].decimals
         /\ T!WithIssued(t, w).stable = tokens[t].stable
  <1>1. tokens[t] \in TokenInfo
    BY DEF Types
  <1>2. tokens[t].kind # "FND10"
    BY <1>1 DEF TokenInfo
  <1>3. T!WithIssued(t, w) = [tokens[t] EXCEPT !.total = tokens[t].total + w]
    BY <1>1, <1>2 DEF T!WithIssued, TokenInfo
  <1> QED BY <1>1, <1>3 DEF TokenInfo

-----------------------------------------------------------------------------
(* What dominators were given of a user's tokens.                          *)

HostedOf(h, u, t) == SumFunction([d \in Dominator |-> h[d][u][t]])

(* One authorization adds to it at one place.                              *)
HostMore(h, d, u, t, v) == [h EXCEPT ![d][u][t] = h[d][u][t] + v]

(* The sum for its user and token grows by as much, no other one changes.  *)
LEMMA HostedLaw ==
  ASSUME NEW h \in HostMap, NEW d \in Dominator, NEW u \in User, NEW t \in TokenId, NEW v \in Nat
  PROVE  /\ HostMore(h, d, u, t, v) \in HostMap
         /\ HostedOf(HostMore(h, d, u, t, v), u, t) = HostedOf(h, u, t) + v
         /\ \A w \in User, s \in TokenId :
              (w # u \/ s # t) => HostedOf(HostMore(h, d, u, t, v), w, s) = HostedOf(h, w, s)
  <1> DEFINE new == HostMore(h, d, u, t, v)
  <1>1. /\ new \in HostMap
        /\ new[d][u][t] = h[d][u][t] + v
        /\ \A x \in Dominator, w \in User, s \in TokenId :
             (x # d \/ w # u \/ s # t) => new[x][w][s] = h[x][w][s]
    BY DEF HostMap, HostMore
  <1> HIDE DEF new
  <1> DEFINE f == [x \in Dominator |-> h[x][u][t]]
             g == [x \in Dominator |-> new[x][u][t]]
  <1>2. f \in [Dominator -> Int] /\ \A x \in Dominator : f[x] = h[x][u][t]
    BY DEF HostMap
  <1>3. g \in [Dominator -> Int] /\ \A x \in Dominator : g[x] = new[x][u][t]
    BY <1>1 DEF HostMap
  <1>4. SumFunction(f) = HostedOf(h, u, t) /\ SumFunction(g) = HostedOf(new, u, t)
    BY DEF HostedOf
  <1> HIDE DEF f, g
  <1>5. SumFunction(g) = SumFunction(f) + g[d] - f[d]
    <2>1. \A x \in Dominator \ {d} : g[x] = f[x]
      BY <1>1, <1>2, <1>3
    <2> QED BY <1>2, <1>3, <2>1, TotalUpdate, AccountAssumption
  <1>6. SumFunction(f) \in Int
    BY <1>2, TotalInt, AccountAssumption
  <1>7. h[d][u][t] \in Nat
    BY DEF HostMap
  <1>8. HostedOf(new, u, t) = HostedOf(h, u, t) + v
    BY ONLY <1>1, <1>2, <1>3, <1>4, <1>5, <1>6, <1>7, v \in Nat, d \in Dominator
  <1>9. ASSUME NEW w \in User, NEW s \in TokenId, w # u \/ s # t
        PROVE  HostedOf(new, w, s) = HostedOf(h, w, s)
    <2>1. [x \in Dominator |-> new[x][w][s]] = [x \in Dominator |-> h[x][w][s]]
      BY <1>1, <1>9
    <2> QED BY <2>1 DEF HostedOf
  <1> QED BY <1>1, <1>8, <1>9 DEF new

(* Sums of what is hosted are integers.                                    *)
LEMMA HostedType ==
  ASSUME NEW h \in HostMap, NEW u \in User, NEW t \in TokenId
  PROVE  HostedOf(h, u, t) \in Int
  <1> DEFINE f == [x \in Dominator |-> h[x][u][t]]
  <1>1. f \in [Dominator -> Int]
    BY DEF HostMap
  <1>2. SumFunction(f) \in Int
    BY <1>1, TotalInt, AccountAssumption
  <1> QED BY <1>2 DEF HostedOf

(* The reserved balances of users grow from bal to new by what is hosted   *)
(* more.                                                                   *)
ReservedFollows(bal, new) ==
  \A u \in User, t \in TokenId :
    new[t][u].reserved + HostedOf(hosted, u, t) = bal[t][u].reserved + HostedOf(hosted', u, t)

(* An authorization that succeeds reserves what it hosts.                  *)
LEMMA AuthorizeLaw ==
  ASSUME Types, NEW bal \in BalanceMap, NEW u \in User, NEW d \in Dominator \cup {Nobody},
         NEW t \in TokenId, NEW v \in Nat, authorize_if_possible(bal, u, d, t, v)
  PROVE  /\ hosted' \in HostMap
         /\ AfterAuthorize(bal, u, d, t, v) \in BalanceMap
         /\ ReservedFollows(bal, AfterAuthorize(bal, u, d, t, v))
         /\ \A s \in TokenId : HeldOf(AfterAuthorize(bal, u, d, t, v), s) = HeldOf(bal, s)
         /\ \A s \in TokenId, a \in Account \ {u} : AfterAuthorize(bal, u, d, t, v)[s][a] = bal[s][a]
  <1>1. hosted \in HostMap /\ u \in Account
    BY FiniteAccounts DEF Types
  <1>2. CASE d # Nobody /\ CanAuthorize(bal, u, d, t, v)
    <2> DEFINE new == AfterAuthorize(bal, u, d, t, v)
    <2>1. new = Reserved(bal, u, t, v) /\ bal[t][u].free >= v /\ d \in Dominator
      BY <1>2 DEF AfterAuthorize, CanAuthorize
    <2>2. hosted' = HostMore(hosted, d, u, t, v)
      <3>1. hosted' = [hosted EXCEPT ![d][u][t] = @ + v]
        BY <1>2 DEF authorize_if_possible
      <3> QED BY <1>1, <2>1, <3>1 DEF HostMap, HostMore
    <2>3. /\ new \in BalanceMap
          /\ new[t][u].reserved = bal[t][u].reserved + v
          /\ \A s \in TokenId, b \in Account : (s # t \/ b # u) => new[s][b] = bal[s][b]
          /\ \A s \in TokenId : HeldOf(new, s) = HeldOf(bal, s)
      BY <1>1, <2>1, ReserveLaw
    <2> HIDE DEF new
    <2>4. /\ hosted' \in HostMap
          /\ HostedOf(hosted', u, t) = HostedOf(hosted, u, t) + v
          /\ \A w \in User, s \in TokenId : (w # u \/ s # t) => HostedOf(hosted', w, s) = HostedOf(hosted, w, s)
      <3>1. u \in User /\ t \in TokenId /\ v \in Nat /\ d \in Dominator /\ hosted \in HostMap
        BY <1>1, <2>1
      <3> QED BY ONLY <2>2, <3>1, HostedLaw
    <2>5. ReservedFollows(bal, new)
      <3> SUFFICES ASSUME NEW w \in User, NEW s \in TokenId
                   PROVE  new[s][w].reserved + HostedOf(hosted, w, s)
                            = bal[s][w].reserved + HostedOf(hosted', w, s)
        BY DEF ReservedFollows
      <3>1. w \in Account /\ HostedOf(hosted, w, s) \in Int /\ bal[s][w].reserved \in Nat
        BY <1>1, HostedType, EntryType, FiniteAccounts
      <3>2. CASE w = u /\ s = t
        BY <2>3, <2>4, <3>1, <3>2
      <3>3. CASE ~(w = u /\ s = t)
        BY <2>3, <2>4, <3>1, <3>3
      <3> QED BY <3>2, <3>3
    <2> QED BY <2>3, <2>4, <2>5 DEF new
  <1>3. CASE ~(d # Nobody /\ CanAuthorize(bal, u, d, t, v))
    BY <1>1, <1>3 DEF AfterAuthorize, authorize_if_possible, ReservedFollows
  <1> QED BY <1>2, <1>3

(* A donation moves native tokens of the donor to the user.                *)
LEMMA DonationLaw ==
  ASSUME NEW bal \in BalanceMap, NEW u \in User
  PROVE  /\ AfterDonation(bal, u) \in BalanceMap
         /\ Touches(bal, AfterDonation(bal, u), Native, {Donor, u})
         /\ \A s \in TokenId : HeldOf(AfterDonation(bal, u), s) = HeldOf(bal, s)
  <1>1. /\ Native \in TokenId /\ u \in Account /\ Donor \in Account /\ Donor # u
        /\ DonationForAgent \in Nat
    BY FiniteAccounts, AccountAssumption, AmountAssumption DEF TokenId
  <1>2. CASE u \in fresh /\ T!CanTransfer(bal, Donor, Native, DonationForAgent, u)
    <2>1. AfterDonation(bal, u) = T!Transferred(bal, Donor, Native, DonationForAgent, u)
      BY <1>2 DEF AfterDonation
    <2>2. T!CanTransfer(bal, Donor, Native, DonationForAgent, u)
      BY <1>2
    <2>3. bal \in BalanceMap
      OBVIOUS
    <2>4. /\ T!Transferred(bal, Donor, Native, DonationForAgent, u) \in BalanceMap
          /\ Touches(bal, T!Transferred(bal, Donor, Native, DonationForAgent, u), Native, {Donor, u})
          /\ \A s \in TokenId : HeldOf(T!Transferred(bal, Donor, Native, DonationForAgent, u), s) = HeldOf(bal, s)
      BY ONLY <1>1, <2>2, <2>3, TransferLaw
    <2> QED BY ONLY <2>1, <2>4
  <1>3. CASE ~(u \in fresh /\ T!CanTransfer(bal, Donor, Native, DonationForAgent, u))
    BY <1>3 DEF AfterDonation, Touches
  <1> QED BY <1>2, <1>3
-----------------------------------------------------------------------------
(* What a call as a whole does.                                            *)

(* After the payment: authorization and donation lose nothing and leave    *)
(* the bridge account alone.                                               *)
LEMMA PaidLaw ==
  ASSUME Types, NEW paid \in BalanceMap, NEW u \in User, NEW d \in Dominator \cup {Nobody},
         NEW t \in TokenId, NEW v \in Nat, authorize_if_possible(paid, u, d, t, v),
         balances' = AfterDonation(AfterAuthorize(paid, u, d, t, v), u)
  PROVE  /\ balances' \in BalanceMap /\ hosted' \in HostMap
         /\ ReservedFollows(paid, balances')
         /\ \A s \in TokenId : HeldOf(balances', s) = HeldOf(paid, s)
         /\ balances'[Native][Bridge] = paid[Native][Bridge]
  <1> DEFINE mid == AfterAuthorize(paid, u, d, t, v)
  <1>1. /\ hosted' \in HostMap /\ mid \in BalanceMap
        /\ ReservedFollows(paid, mid)
        /\ \A s \in TokenId : HeldOf(mid, s) = HeldOf(paid, s)
        /\ \A s \in TokenId, a \in Account \ {u} : mid[s][a] = paid[s][a]
    BY AuthorizeLaw
  <1>2. balances' = AfterDonation(mid, u)
    OBVIOUS
  <1> HIDE DEF mid
  <1>3. /\ AfterDonation(mid, u) \in BalanceMap
        /\ Touches(mid, AfterDonation(mid, u), Native, {Donor, u})
        /\ \A s \in TokenId : HeldOf(AfterDonation(mid, u), s) = HeldOf(mid, s)
    BY ONLY <1>1, u \in User, DonationLaw
  <1>4. Bridge \in Account \ {u} /\ Bridge \notin {Donor, u} /\ Native \in TokenId
    BY FiniteAccounts, AccountAssumption DEF TokenId
  <1>5. balances'[Native][Bridge] = paid[Native][Bridge]
    BY <1>1, <1>2, <1>3, <1>4 DEF Touches
  <1>6. \A s \in TokenId, w \in User : balances'[s][w].reserved = mid[s][w].reserved
    BY <1>2, <1>3, FiniteAccounts DEF Touches
  <1>7. ReservedFollows(paid, balances')
    BY <1>1, <1>6 DEF ReservedFollows
  <1> QED BY <1>1, <1>2, <1>3, <1>5, <1>7

(* A call of the bridge: the bridge account pays, or the amount converted  *)
(* is minted; nothing else is created or lost.                             *)
LEMMA TransferInLaw ==
  ASSUME Types, NEW call \in Call, transfer_in(call)
  PROVE  /\ balances' \in BalanceMap /\ hosted' \in HostMap
         /\ ReservedFollows(balances, balances')
         /\ call.r_id.contract = Native =>
              /\ tokens' = tokens
              /\ \A s \in TokenId : HeldOf(balances', s) = HeldOf(balances, s)
              /\ balances'[Native][Bridge].free = balances[Native][Bridge].free - call.amount
         /\ call.r_id.contract # Native =>
              LET t == call.r_id.contract
                  v == StandardOf(t, call.amount)
              IN /\ t \in Issued
                 /\ tokens' = [tokens EXCEPT ![t] = T!WithIssued(t, v)]
                 /\ HeldOf(balances', t) = HeldOf(balances, t) + v
                 /\ \A s \in TokenId \ {t} : HeldOf(balances', s) = HeldOf(balances, s)
                 /\ balances'[Native][Bridge].free = balances[Native][Bridge].free
  <1> DEFINE t == call.r_id.contract
             a == call.amount
             u == call.to
             v == to_asset_balance(a, t)
             d == associated[call.r_id.dex]
             paid == IF t = Native THEN T!Transferred(balances, Bridge, Native, a, u)
                     ELSE T!Minted(balances, t, u, a)
  <1>1. call.r_id \in ResourceId /\ u \in User /\ a \in Nat
    BY AmountAssumption DEF Call
  <1>2. TokenOf(call.r_id) = t /\ t \in TokenId /\ call.r_id.dex \in Dex
    BY <1>1, TokenOfContract DEF Types
  <1>3. d \in Dominator \cup {Nobody}
    BY <1>2 DEF Types
  <1>4. /\ \/ t = Native /\ do_unlock(a, u)
           \/ t # Native /\ do_mint_assets(t, u, a)
        /\ authorize_if_possible(paid, u, d, t, v)
        /\ balances' = AfterDonation(AfterAuthorize(paid, u, d, t, v), u)
    BY <1>2 DEF transfer_in
  <1>5. /\ balances \in BalanceMap /\ u \in Account /\ Bridge \in Account /\ Bridge # u
        /\ Native \in TokenId /\ \A w \in User : w \in Account
    BY <1>1, FiniteAccounts, AccountAssumption DEF Types, TokenId
  <1>6. \A w \in User, s \in TokenId : balances[s][w].reserved \in Nat
    BY <1>5, EntryType
  <1>7. ASSUME paid \in BalanceMap, v \in Nat,
               \A s \in TokenId, b \in Account : paid[s][b].reserved = balances[s][b].reserved
        PROVE  /\ balances' \in BalanceMap /\ hosted' \in HostMap
               /\ ReservedFollows(balances, balances')
               /\ \A s \in TokenId : HeldOf(balances', s) = HeldOf(paid, s)
               /\ balances'[Native][Bridge] = paid[Native][Bridge]
    <2> HIDE DEF paid, v, t, d, a, u
    <2>1. /\ balances' \in BalanceMap /\ hosted' \in HostMap
          /\ ReservedFollows(paid, balances')
          /\ \A s \in TokenId : HeldOf(balances', s) = HeldOf(paid, s)
          /\ balances'[Native][Bridge] = paid[Native][Bridge]
      BY <1>1, <1>2, <1>3, <1>4, <1>7, PaidLaw
    <2>2. ReservedFollows(balances, balances')
      BY <1>5, <1>7, <2>1 DEF ReservedFollows
    <2> QED BY <2>1, <2>2
  <1>8. CASE t = Native
    <2>1. paid = T!Transferred(balances, Bridge, Native, a, u) /\ v = a
          /\ T!CanTransfer(balances, Bridge, Native, a, u) /\ tokens' = tokens
      BY <1>4, <1>8 DEF do_unlock, to_asset_balance
    <2> HIDE DEF paid, v, d, a, u
    <2>2. /\ T!Transferred(balances, Bridge, Native, a, u) \in BalanceMap
          /\ Touches(balances, T!Transferred(balances, Bridge, Native, a, u), Native, {Bridge, u})
          /\ T!Transferred(balances, Bridge, Native, a, u)[Native][Bridge].free
               = balances[Native][Bridge].free - a
          /\ \A s \in TokenId : HeldOf(T!Transferred(balances, Bridge, Native, a, u), s) = HeldOf(balances, s)
      BY ONLY <1>1, <1>5, <2>1, TransferLaw, ZenonT(40)
    <2>3. v \in Nat /\ \A s \in TokenId, b \in Account : paid[s][b].reserved = balances[s][b].reserved
      BY <1>1, <2>1, <2>2 DEF Touches
    <2>4. /\ balances' \in BalanceMap /\ hosted' \in HostMap
          /\ ReservedFollows(balances, balances')
          /\ \A s \in TokenId : HeldOf(balances', s) = HeldOf(paid, s)
          /\ balances'[Native][Bridge] = paid[Native][Bridge]
      BY <1>7, <2>1, <2>2, <2>3
    <2>5. /\ \A s \in TokenId : HeldOf(balances', s) = HeldOf(balances, s)
          /\ balances'[Native][Bridge].free = balances[Native][Bridge].free - a
      BY <2>1, <2>2, <2>4
    <2> QED BY <1>8, <2>1, <2>4, <2>5 DEF a
  <1>9. CASE t # Native
    <2>1. t \in Issued
      BY <1>2, <1>9 DEF TokenId
    <2>2. v = StandardOf(t, a) /\ T!Unified(t, a) = v
      BY <1>9, <2>1, UnifiedIsStandard DEF to_asset_balance
    <2>3. v \in Nat
      BY <1>1, <2>1, <2>2, StandardType
    <2>4. T!CanMint(balances, t, u, a) /\ tokens' = [tokens EXCEPT ![t] = T!WithIssued(t, v)]
      BY <1>4, <1>9, <2>2 DEF do_mint_assets
    <2>5. balances[t][u].free \in Nat
      BY <1>2, <1>5, EntryType
    <2>6. paid = Added(balances, t, u, v)
      <3>1. paid = T!Minted(balances, t, u, a)
        BY <1>9
      <3> HIDE DEF paid, v
      <3>2. paid = [balances EXCEPT ![t][u].free = @ + v]
        BY <2>2, <3>1 DEF T!Minted
      <3>3. [balances[t][u] EXCEPT !.free = @ + v] = [balances[t][u] EXCEPT !.free = balances[t][u].free + v]
        BY <1>2, <1>5, EntryType DEF Entry
      <3> QED BY <1>2, <1>5, <3>2, <3>3 DEF Added, BalanceMap
    <2> HIDE DEF paid, v, d, a, u
    <2>7. balances[t][u].free + v \in Nat /\ v \in Int
      BY <2>3, <2>5
    <2>8. /\ Added(balances, t, u, v) \in BalanceMap
          /\ Touches(balances, Added(balances, t, u, v), t, {u})
          /\ HeldOf(Added(balances, t, u, v), t) = HeldOf(balances, t) + v
          /\ \A s \in TokenId \ {t} : HeldOf(Added(balances, t, u, v), s) = HeldOf(balances, s)
      <3>1. balances \in BalanceMap /\ t \in TokenId /\ u \in Account
        BY <1>2, <1>5
      <3> HIDE DEF t
      <3> QED BY ONLY <2>7, <3>1, AddLaw
    <2>9. /\ \A s \in TokenId, b \in Account : paid[s][b].reserved = balances[s][b].reserved
          /\ paid[Native][Bridge] = balances[Native][Bridge]
      BY <1>5, <1>9, <2>6, <2>8 DEF Touches
    <2>10. /\ balances' \in BalanceMap /\ hosted' \in HostMap
           /\ ReservedFollows(balances, balances')
           /\ \A s \in TokenId : HeldOf(balances', s) = HeldOf(paid, s)
           /\ balances'[Native][Bridge] = paid[Native][Bridge]
      BY <1>7, <2>3, <2>6, <2>8, <2>9
    <2>11. /\ HeldOf(balances', t) = HeldOf(balances, t) + v
           /\ \A s \in TokenId \ {t} : HeldOf(balances', s) = HeldOf(balances, s)
           /\ balances'[Native][Bridge].free = balances[Native][Bridge].free
      BY <1>2, <2>6, <2>8, <2>9, <2>10
    <2>12. v = StandardOf(call.r_id.contract, call.amount)
      BY <2>2 DEF a
    <2> QED BY <1>9, <2>1, <2>4, <2>10, <2>11, <2>12
  <1> QED BY <1>8, <1>9
(* The price of a token and the fee in it are natural numbers, and the fee *)
(* is worth what it should be.                                             *)
LEMMA FeeLaw ==
  ASSUME Types, NEW t \in TokenId
  PROVE  /\ calculate_bridging_fee(t) \in Nat
         /\ get_price(t, is_stable(t)) # 0 =>
              /\ calculate_bridging_fee(t) * get_price(t, is_stable(t)) <= BridgingFeeInUSD * Quintill
              /\ BridgingFeeInUSD * Quintill
                   < (calculate_bridging_fee(t) + 1) * get_price(t, is_stable(t))
  <1> DEFINE price == get_price(t, is_stable(t))
  <1>1. price \in Nat /\ BridgingFeeInUSD \in Nat
    BY IndicatorAssumption, AmountAssumption DEF get_price, Types
  <1> HIDE DEF price
  <1>2. calculate_bridging_fee(t) = IF price = 0 THEN 0 ELSE Ratio(BridgingFeeInUSD, price)
    BY DEF calculate_bridging_fee, price
  <1>3. CASE price = 0
    BY <1>2, <1>3 DEF price
  <1>4. CASE price # 0
    <2>1. calculate_bridging_fee(t) = Ratio(BridgingFeeInUSD, price) /\ price \in Nat \ {0}
      BY <1>1, <1>2, <1>4
    <2>2. /\ Ratio(BridgingFeeInUSD, price) \in Nat
          /\ Ratio(BridgingFeeInUSD, price) * price <= BridgingFeeInUSD * Quintill
          /\ BridgingFeeInUSD * Quintill < (Ratio(BridgingFeeInUSD, price) + 1) * price
      BY ONLY <1>1, <2>1, RatioExact
    <2>3. /\ calculate_bridging_fee(t) \in Nat
          /\ calculate_bridging_fee(t) * price <= BridgingFeeInUSD * Quintill
          /\ BridgingFeeInUSD * Quintill < (calculate_bridging_fee(t) + 1) * price
      BY ONLY <2>1, <2>2
    <2> QED BY ONLY <2>3 DEF price
  <1> QED BY <1>3, <1>4

(* A withdrawal: the fee goes to the treasury, the rest is locked in the   *)
(* bridge account or burnt as it is announced.                             *)
LEMMA TransferOutLaw ==
  ASSUME Types, NEW who \in User, NEW amount \in OutAmount, NEW r \in ResourceId, NEW dest,
         transfer_out(who, amount, r, dest), NEW t, t = r.contract,
         NEW net, net = amount - calculate_bridging_fee(t)
  PROVE  /\ t \in TokenId /\ net \in Nat /\ net > 0 /\ net <= amount
         /\ balances' \in BalanceMap
         /\ \A s \in TokenId, b \in Account : balances'[s][b].reserved = balances[s][b].reserved
         /\ t = Native =>
              /\ tokens' = tokens
              /\ \A s \in TokenId : HeldOf(balances', s) = HeldOf(balances, s)
              /\ balances'[Native][Bridge].free = balances[Native][Bridge].free + net
              /\ vault' = [vault EXCEPT ![t] = @ + net]
              /\ rounded' = rounded
         /\ t # Native =>
              /\ t \in Issued
              /\ tokens[t].total - StandardOf(t, net) \in Nat
              /\ tokens' = [tokens EXCEPT ![t] = T!WithIssued(t, -StandardOf(t, net))]
              /\ HeldOf(balances', t) = HeldOf(balances, t) - StandardOf(t, net)
              /\ \A s \in TokenId \ {t} : HeldOf(balances', s) = HeldOf(balances, s)
              /\ balances'[Native][Bridge].free = balances[Native][Bridge].free
              /\ vault' = [vault EXCEPT ![t] = @ - net]
              /\ rounded' = [rounded EXCEPT ![t] = @ + 1]
  <1> DEFINE fee == calculate_bridging_fee(t)
             after == AfterFee(who, t, fee)
  <1>1. TokenOf(r) = t /\ t \in TokenId
    BY TokenOfContract DEF Types
  <1>2. fee \in Nat /\ amount \in Nat
    BY <1>1, FeeLaw, AmountAssumption
  <1>3. amount > fee + fee
    BY <1>1 DEF transfer_out
  <1>4. net = amount - fee /\ net \in Nat /\ net > 0 /\ net <= amount /\ net \in Int
    BY <1>2, <1>3
  <1>5. /\ t = Native => do_lock(who, amount, fee)
        /\ t # Native => do_burn_assets(who, t, amount, fee)
        /\ vault' = [vault EXCEPT ![t] = IF t = Native THEN @ + net ELSE @ - net]
        /\ rounded' = IF t = Native THEN rounded ELSE [rounded EXCEPT ![t] = @ + 1]
    BY <1>1 DEF transfer_out, Announced
  <1>6. /\ balances \in BalanceMap /\ who \in Account /\ Treasury \in Account /\ Bridge \in Account
        /\ who # Treasury /\ who # Bridge /\ Treasury # Bridge /\ Native \in TokenId
    BY FiniteAccounts, AccountAssumption DEF Types, TokenId
  <1> HIDE DEF fee
  <1>7. ASSUME T!CanTransfer(balances, who, t, fee, Treasury)
        PROVE  /\ after \in BalanceMap
               /\ Touches(balances, after, t, {who, Treasury})
               /\ \A s \in TokenId : HeldOf(after, s) = HeldOf(balances, s)
    <2>1. after = T!Transferred(balances, who, t, fee, Treasury)
      BY DEF AfterFee
    <2> QED BY ONLY <1>1, <1>2, <1>6, <1>7, <2>1, TransferLaw
  <1> HIDE DEF after
  <1>8. CASE t = Native
    <2>1. /\ T!CanTransfer(balances, who, t, fee, Treasury)
          /\ T!CanTransfer(after, who, t, net, Bridge)
          /\ balances' = T!Transferred(after, who, t, net, Bridge)
          /\ tokens' = tokens
      BY <1>4, <1>5, <1>8 DEF do_lock, after
    <2>2. /\ after \in BalanceMap
          /\ Touches(balances, after, t, {who, Treasury})
          /\ \A s \in TokenId : HeldOf(after, s) = HeldOf(balances, s)
      BY <1>7, <2>1
    <2>3. /\ T!Transferred(after, who, t, net, Bridge) \in BalanceMap
          /\ Touches(after, T!Transferred(after, who, t, net, Bridge), t, {who, Bridge})
          /\ T!Transferred(after, who, t, net, Bridge)[t][Bridge].free = after[t][Bridge].free + net
          /\ \A s \in TokenId : HeldOf(T!Transferred(after, who, t, net, Bridge), s) = HeldOf(after, s)
      <3>1. /\ after \in BalanceMap /\ t \in TokenId /\ who \in Account /\ Bridge \in Account
            /\ who # Bridge /\ net \in Nat /\ T!CanTransfer(after, who, t, net, Bridge)
        BY <1>1, <1>4, <1>6, <2>1, <2>2
      <3> QED BY ONLY <3>1, TransferLaw, ZenonT(40)
    <2>4. after[t][Bridge] = balances[t][Bridge]
      BY <1>1, <1>6, <2>2 DEF Touches
    <2>5. balances'[Native][Bridge].free = balances[Native][Bridge].free + net
      BY <1>8, <2>1, <2>3, <2>4
    <2>6. \A s \in TokenId, b \in Account : balances'[s][b].reserved = balances[s][b].reserved
      BY <2>1, <2>2, <2>3 DEF Touches
    <2>7. vault' = [vault EXCEPT ![t] = @ + net] /\ rounded' = rounded
      BY <1>5, <1>8
    <2> QED BY <1>1, <1>4, <1>8, <2>1, <2>2, <2>3, <2>5, <2>6, <2>7
  <1>9. CASE t # Native
    <2> DEFINE w == StandardOf(t, net)
    <2>0. t \in Issued
      BY <1>1, <1>9 DEF TokenId
    <2>1. T!Unified(t, net) = w /\ w \in Nat
      BY <1>4, <2>0, UnifiedIsStandard, StandardType
    <2> HIDE DEF w
    <2>2. /\ T!CanTransfer(balances, who, t, fee, Treasury)
          /\ T!CanBurn(after, t, who, net)
          /\ tokens' = [tokens EXCEPT ![t] = T!WithIssued(t, -w)]
          /\ balances' = T!Burnt(after, t, who, net)
      BY <1>4, <1>5, <1>9, <2>1 DEF do_burn_assets, after
    <2>3. /\ after \in BalanceMap
          /\ Touches(balances, after, t, {who, Treasury})
          /\ \A s \in TokenId : HeldOf(after, s) = HeldOf(balances, s)
      BY <1>7, <2>2
    <2>4. after[t][who].free - w \in Nat /\ after[t][who].free \in Nat
      <3>1. after[t][who].free - w \in T!Balance
        BY <2>1, <2>2 DEF T!CanBurn
      <3>2. T!Balance \subseteq Nat
        BY AmountAssumption DEF T!Balance
      <3>3. after[t][who].free \in Nat
        BY ONLY <1>1, <1>6, <2>3, EntryType
      <3> QED BY ONLY <3>1, <3>2, <3>3
    <2> DEFINE m == -w
    <2>5. m \in Int /\ after[t][who].free + m \in Nat
      BY <2>1, <2>4
    <2>6. balances' = Added(after, t, who, m)
      <3>1. balances' = [after EXCEPT ![t][who].free = @ - w]
        BY <2>1, <2>2 DEF T!Burnt
      <3>2. [after[t][who] EXCEPT !.free = @ - w] = [after[t][who] EXCEPT !.free = after[t][who].free + m]
        <4>1. after[t][who].free - w = after[t][who].free + m
          BY <2>1, <2>4
        <4>2. after[t][who] \in Entry
          BY <1>1, <1>6, <2>3, EntryType
        <4> HIDE DEF m
        <4> QED BY <4>1, <4>2 DEF Entry
      <3> HIDE DEF m
      <3> QED BY <1>1, <1>6, <2>3, <3>1, <3>2 DEF Added, BalanceMap
    <2> HIDE DEF m
    <2>7. /\ Added(after, t, who, m) \in BalanceMap
          /\ Touches(after, Added(after, t, who, m), t, {who})
          /\ HeldOf(Added(after, t, who, m), t) = HeldOf(after, t) + m
          /\ \A s \in TokenId \ {t} : HeldOf(Added(after, t, who, m), s) = HeldOf(after, s)
      <3>1. after \in BalanceMap /\ t \in TokenId /\ who \in Account
        BY <1>1, <1>6, <2>3
      <3> QED BY ONLY <2>5, <3>1, AddLaw
    <2>8. HeldOf(balances, t) \in Nat
      BY <1>1, <1>6, EntryType
    <2>9. HeldOf(balances', t) = HeldOf(balances, t) - w
      BY <1>1, <2>1, <2>3, <2>6, <2>7, <2>8 DEF m
    <2>10. \A s \in TokenId \ {t} : HeldOf(balances', s) = HeldOf(balances, s)
      BY <2>3, <2>6, <2>7
    <2>11. \A s \in TokenId, b \in Account : balances'[s][b].reserved = balances[s][b].reserved
      BY <2>3, <2>6, <2>7 DEF Touches
    <2>12. balances'[Native][Bridge].free = balances[Native][Bridge].free
      BY <1>6, <1>9, <2>3, <2>6, <2>7 DEF Touches
    <2>13. tokens[t].total - w \in Nat
      <3>1. T!WithIssued(t, -w).total \in T!Balance
        BY <2>1, <2>2 DEF T!CanBurn
      <3>2. tokens[t] \in TokenInfo
        BY <2>0 DEF Types
      <3>3. T!WithIssued(t, -w).total = tokens[t].total - w
        BY <2>1, <3>2 DEF T!WithIssued, TokenInfo
      <3> QED BY <3>1, <3>3, AmountAssumption DEF T!Balance
    <2>14. vault' = [vault EXCEPT ![t] = @ - net] /\ rounded' = [rounded EXCEPT ![t] = @ + 1]
      BY <1>5, <1>9
    <2>15. balances' \in BalanceMap
      BY <2>6, <2>7
    <2> QED BY <1>1, <1>4, <1>9, <2>0, <2>2, <2>9, <2>10, <2>11, <2>12, <2>13, <2>14, <2>15 DEF w
  <1> QED BY <1>8, <1>9
-----------------------------------------------------------------------------
(* Votes.                                                                  *)

DepositKey == {ThisChain, ForeignChain} \X DepositNonce \X Call
Ballot == [votes_for : Seq(Relayer), votes_against : Seq(Relayer), expiry : Nat,
           status : {"None", "Initiated", "Approved", "Rejected"}]

(* A relayer votes once on a call, and the approved calls are the ones     *)
(* executed, once.                                                         *)
Ballots ==
  /\ votes \in [DepositKey -> Ballot]
  /\ executed \in [DepositKey -> {0, 1}]
  /\ \A p \in DepositKey : /\ IsInjective(votes[p].votes_for)
                           /\ executed[p] = 1 <=> votes[p].status = "Approved"

(* An honest relayer supports what was logged, so only that is executed.   *)
HonestVotes ==
  \A n \in DepositNonce, call \in Call :
    /\ \A a \in Honest : a \in Range(votes[<<ForeignChain, n, call>>].votes_for) => log[n] = call
    /\ executed[<<ForeignChain, n, call>>] = 1 => log[n] = call

(* Different voters that make a quorum include an honest one.              *)
LEMMA QuorumHonest ==
  ASSUME NEW s \in Seq(Relayer), IsInjective(s), Quorum <= Len(s)
  PROVE  \E a \in Honest : a \in Range(s)
  <1> SUFFICES ASSUME \A a \in Honest : a \notin Range(s) PROVE FALSE
    OBVIOUS
  <1>1. Len(s) \in Nat /\ DOMAIN s = 1..Len(s) /\ Range(s) \subseteq Relayer \ Honest
    BY DEF Range
  <1>2. IsFiniteSet(1..Len(s)) /\ Cardinality(1..Len(s)) = Len(s)
    BY <1>1, FS_Interval, SMTT(30)
  <1>3. s \in Surjection(1..Len(s), Range(s))
    BY <1>1 DEF Surjection, Range
  <1>4. s \in Injection(1..Len(s), Range(s))
    BY <1>1 DEF Injection, Range
  <1>5. Cardinality(Range(s)) = Cardinality(1..Len(s))
    BY <1>2, <1>3, <1>4, FS_Surjection
  <1>6. IsFiniteSet(Relayer \ Honest)
    BY RelayerAssumption, FS_Difference
  <1>7. Cardinality(Range(s)) <= Cardinality(Relayer \ Honest)
    BY <1>1, <1>6, FS_Subset
  <1>8. Cardinality(Relayer \ Honest) \in Nat
    BY <1>6, FS_CardinalityType
  <1> QED BY <1>1, <1>2, <1>5, <1>7, <1>8, RelayerAssumption

(* Appending a newcomer keeps a list of voters free of repetitions.        *)
LEMMA AppendVoter ==
  ASSUME NEW s \in Seq(Relayer), NEW a \in Relayer, a \notin Range(s), IsInjective(s)
  PROVE  /\ Append(s, a) \in Seq(Relayer)
         /\ Range(Append(s, a)) = Range(s) \cup {a}
         /\ IsInjective(Append(s, a))
  <1>1. /\ Append(s, a) \in Seq(Relayer)
        /\ DOMAIN Append(s, a) = 1..(Len(s) + 1)
        /\ \A i \in 1..Len(s) : Append(s, a)[i] = s[i]
        /\ Append(s, a)[Len(s) + 1] = a
        /\ DOMAIN s = 1..Len(s) /\ Len(s) \in Nat
    OBVIOUS
  <1>2. \A i \in 1..(Len(s) + 1) : i \in 1..Len(s) \/ i = Len(s) + 1
    BY <1>1
  <1>3. Range(Append(s, a)) = Range(s) \cup {a}
    BY <1>1, <1>2 DEF Range
  <1>4. \A i \in 1..Len(s) : Append(s, a)[i] # a
    BY <1>1 DEF Range
  <1>5. \A i, j \in 1..Len(s) : Append(s, a)[i] = Append(s, a)[j] => i = j
    BY <1>1 DEF IsInjective
  <1>6. IsInjective(Append(s, a))
    BY <1>1, <1>2, <1>4, <1>5 DEF IsInjective
  <1> QED BY <1>1, <1>3, <1>6

(* What a vote on an open proposal makes of it: one more voter on one      *)
(* side, and an approval exactly when there is a quorum.                   *)
LEMMA BallotLaw ==
  ASSUME threshold = Quorum, NEW v \in Ballot, v.status = "Initiated",
         IsInjective(v.votes_for), NEW who \in Relayer, ~CB!hash_voted(v, who), NEW f \in BOOLEAN,
         NEW w, w = CB!try_to_complete(CB!commit_vote(v, who, f))
  PROVE  /\ w \in Ballot /\ IsInjective(w.votes_for)
         /\ Range(w.votes_for) \subseteq Range(v.votes_for) \cup {who}
         /\ ~f => w.votes_for = v.votes_for
         /\ w.status = "Approved" => Quorum <= Len(w.votes_for)
  <1>1. /\ v.votes_for \in Seq(Relayer) /\ v.votes_against \in Seq(Relayer)
        /\ who \notin Range(v.votes_for)
    BY DEF Ballot, CB!hash_voted, CB!Range, Range
  <1> DEFINE x == CB!commit_vote(v, who, f)
             u == IF f THEN Append(v.votes_for, who) ELSE v.votes_for
  <1>2. u \in Seq(Relayer) /\ IsInjective(u) /\ Range(u) \subseteq Range(v.votes_for) \cup {who}
    BY <1>1, AppendVoter
  <1>3. x \in Ballot /\ x.votes_for = u /\ x.status = "Initiated"
    <2>1. Append(v.votes_against, who) \in Seq(Relayer)
      BY <1>1
    <2>2. CASE f
      <3>1. x = [v EXCEPT !.votes_for = Append(v.votes_for, who)] /\ u = Append(v.votes_for, who)
        BY <2>2 DEF CB!commit_vote
      <3> HIDE DEF x, u
      <3> QED BY <1>2, <3>1 DEF Ballot
    <2>3. CASE ~f
      <3>1. x = [v EXCEPT !.votes_against = Append(v.votes_against, who)] /\ u = v.votes_for
        BY <2>3 DEF CB!commit_vote
      <3> HIDE DEF x, u
      <3> QED BY <1>2, <2>1, <3>1 DEF Ballot
    <2> QED BY <2>2, <2>3
  <1>4. ~f => u = v.votes_for
    OBVIOUS
  <1> HIDE DEF x, u
  <1>5. w = CB!try_to_complete(x)
    BY DEF x
  <1>6. w \in Ballot /\ w.votes_for = u /\ (w.status = "Approved" => Quorum <= Len(u))
    BY ONLY <1>3, <1>5, threshold = Quorum DEF CB!try_to_complete, Ballot
  <1> QED BY <1>2, <1>4, <1>6

(* A vote keeps the ballots in order.  When it has the call executed, no   *)
(* call of that deposit was executed before, and the call is the one the   *)
(* other chain logged.                                                     *)
LEMMA VoteLaw ==
  ASSUME Setup, Ballots, HonestVotes, NEW who \in Relayer, NEW n \in DepositNonce, NEW call \in Call,
         NEW f \in BOOLEAN, CB!Vote(who, ForeignChain, n, call.r_id, call, f),
         who \in Honest => log[n] = call, log' = log
  PROVE  /\ Ballots' /\ HonestVotes'
         /\ UNCHANGED <<now, threshold, relayers>>
         /\ \A q \in DepositKey \ {<<ForeignChain, n, call>>} : executed'[q] = executed[q]
         /\ executed'[<<ForeignChain, n, call>>] # executed[<<ForeignChain, n, call>>] =>
              /\ executed[<<ForeignChain, n, call>>] = 0
              /\ executed'[<<ForeignChain, n, call>>] = 1
              /\ log[n] = call
              /\ \A c \in Call : executed[<<ForeignChain, n, c>>] = 0
  <1> DEFINE p == <<ForeignChain, n, call>>
             v == CB!Opened(p)
             w == CB!try_to_complete(CB!commit_vote(v, who, f))
  <1>1. /\ p \in DepositKey
        /\ \A m \in DepositNonce, c \in Call : /\ <<ForeignChain, m, c>> \in DepositKey
                                               /\ <<ForeignChain, m, c>> = p => m = n /\ c = call
    BY DEF DepositKey
  <1>2. /\ CB!IsOpen(v) /\ ~CB!hash_voted(v, who)
        /\ votes' = [votes EXCEPT ![p] = w]
        /\ executed' = [executed EXCEPT ![p] = IF w.status = "Approved" THEN @ + 1 ELSE @]
        /\ UNCHANGED <<now, threshold, relayers>>
    BY DEF CB!Vote, CB!try_resolve_proposal, CB!admin
  <1>3. votes[p] \in Ballot /\ IsInjective(votes[p].votes_for)
        /\ executed[p] \in {0, 1} /\ (executed[p] = 1 <=> votes[p].status = "Approved")
    BY <1>1 DEF Ballots
  <1>4. /\ v \in Ballot /\ v.status = "Initiated" /\ IsInjective(v.votes_for)
        /\ executed[p] = 0 /\ Range(v.votes_for) \subseteq Range(votes[p].votes_for)
    <2> HIDE DEF p
    <2>1. CASE votes[p].status = "None"
      <3>1. v = [votes_for |-> <<>>, votes_against |-> <<>>, expiry |-> now + ProposalLifetime,
                status |-> "Initiated"]
        BY <2>1 DEF CB!Opened
      <3>2. now + ProposalLifetime \in Nat
        BY RelayerAssumption DEF Setup
      <3> HIDE DEF v
      <3>3. v.votes_for = <<>>
        BY <3>1
      <3>4. IsInjective(v.votes_for) /\ Range(v.votes_for) = {}
        BY <3>3 DEF IsInjective, Range
      <3>5. v \in Ballot /\ v.status = "Initiated"
        BY <3>1, <3>2 DEF Ballot
      <3> QED BY <1>3, <2>1, <3>4, <3>5
    <2>2. CASE votes[p].status # "None"
      <3>1. v = votes[p]
        BY <2>2 DEF CB!Opened
      <3>2. v.status \notin {"Approved", "Rejected"}
        BY <1>2 DEF CB!IsOpen, CB!is_complete
      <3> HIDE DEF v
      <3>3. v.status = "Initiated"
        BY <1>3, <2>2, <3>1, <3>2 DEF Ballot
      <3> QED BY <1>3, <3>1, <3>3
    <2> QED BY <2>1, <2>2
  <1> HIDE DEF v
  <1>5. /\ w \in Ballot /\ IsInjective(w.votes_for)
        /\ Range(w.votes_for) \subseteq Range(v.votes_for) \cup {who}
        /\ w.status = "Approved" => Quorum <= Len(w.votes_for)
    BY <1>2, <1>4, BallotLaw DEF Setup
  <1> HIDE DEF w, p
  <1>6. \A a \in Honest : a \in Range(w.votes_for) => log[n] = call
    <2>1. \A a \in Honest : a \in Range(votes[p].votes_for) => log[n] = call
      BY DEF HonestVotes, p
    <2> QED BY <1>4, <1>5, <2>1
  <1>7. w.status = "Approved" => log[n] = call
    <2>1. w.votes_for \in Seq(Relayer)
      BY <1>5 DEF Ballot
    <2> QED BY <1>5, <1>6, <2>1, QuorumHonest
  <1>8. /\ votes'[p] = w /\ \A q \in DepositKey \ {p} : votes'[q] = votes[q]
        /\ executed'[p] = (IF w.status = "Approved" THEN 1 ELSE 0)
        /\ \A q \in DepositKey \ {p} : executed'[q] = executed[q]
    BY <1>1, <1>2, <1>4 DEF Ballots
  <1>9. Ballots'
    <2>1. votes' \in [DepositKey -> Ballot] /\ executed' \in [DepositKey -> {0, 1}]
      <3>1. votes' \in [DepositKey -> Ballot]
        BY <1>2, <1>5 DEF Ballots
      <3>2. \E x \in {0, 1} : executed' = [executed EXCEPT ![p] = x]
        <4>1. CASE w.status = "Approved"
          <5>1. executed' = [executed EXCEPT ![p] = 1]
            BY <1>2, <1>4, <4>1
          <5> QED BY <5>1
        <4>2. CASE w.status # "Approved"
          <5>1. executed' = [executed EXCEPT ![p] = 0]
            BY <1>2, <1>4, <4>2
          <5> QED BY <5>1
        <4> QED BY <4>1, <4>2
      <3>3. executed \in [DepositKey -> {0, 1}]
        BY DEF Ballots
      <3> QED BY ONLY <3>1, <3>2, <3>3
    <2>2. \A q \in DepositKey : /\ IsInjective(votes'[q].votes_for)
                                /\ executed'[q] = 1 <=> votes'[q].status = "Approved"
      BY <1>5, <1>8 DEF Ballots
    <2> QED BY <2>1, <2>2 DEF Ballots
  <1>10. HonestVotes'
    <2> SUFFICES ASSUME NEW m \in DepositNonce, NEW c \in Call
                 PROVE  /\ \A a \in Honest :
                             a \in Range(votes'[<<ForeignChain, m, c>>].votes_for) => log[m] = c
                        /\ executed'[<<ForeignChain, m, c>>] = 1 => log[m] = c
      BY DEF HonestVotes
    <2>1. CASE <<ForeignChain, m, c>> = p
      BY <1>1, <1>6, <1>7, <1>8, <2>1
    <2>2. CASE <<ForeignChain, m, c>> # p
      BY <1>1, <1>8, <2>2 DEF HonestVotes
    <2> QED BY <2>1, <2>2
  <1>11. ASSUME executed'[p] # executed[p]
         PROVE  /\ executed[p] = 0 /\ executed'[p] = 1 /\ log[n] = call
                /\ \A c \in Call : executed[<<ForeignChain, n, c>>] = 0
    <2>1. executed'[p] = 1 /\ log[n] = call
      BY <1>4, <1>7, <1>8, <1>11
    <2>2. ASSUME NEW c \in Call PROVE executed[<<ForeignChain, n, c>>] = 0
      <3>1. executed[<<ForeignChain, n, c>>] \in {0, 1}
        BY <1>1 DEF Ballots
      <3>2. executed[<<ForeignChain, n, c>>] = 1 => c = call
        BY <2>1 DEF HonestVotes
      <3> QED BY <1>4, <3>1, <3>2 DEF p
    <2> QED BY <1>4, <2>1, <2>2
  <1> QED BY <1>2, <1>8, <1>9, <1>10, <1>11 DEF p
-----------------------------------------------------------------------------
(* The vault covers what exists here: the arithmetic of one token.  x is   *)
(* its total, q what is pending, y the vault, z the withdrawals so far.    *)

Cover(t, x, q, y, z) ==
  LET k == TokenDecimals[t]
      up == Radix^(k - StandardDecimals)
      down == Radix^(StandardDecimals - k)
  IN IF k > StandardDecimals THEN x * up + q <= y + z * (up - 1)
                             ELSE x + q * down <= y * down

(* Integers distribute.                                                    *)
LEMMA IntLaws ==
  \A x, y, k \in Int : /\ x * k \in Int
                       /\ (x + y) * k = x * k + y * k
                       /\ (x - y) * k = x * k - y * k
  OBVIOUS

(* Conversion rounds down, by less than one standard unit, and not at all  *)
(* for a token with no more than the standard decimals, up to the wrap.    *)
LEMMA StandardLaw ==
  ASSUME NEW t \in Issued, NEW a \in Nat, NEW up, NEW down,
         up = Radix^(TokenDecimals[t] - StandardDecimals),
         down = Radix^(StandardDecimals - TokenDecimals[t])
  PROVE  /\ TokenDecimals[t] \in Nat
         /\ TokenDecimals[t] > StandardDecimals =>
              /\ up \in Nat \ {0}
              /\ StandardOf(t, a) * up <= a
              /\ a <= StandardOf(t, a) * up + (up - 1)
         /\ ~(TokenDecimals[t] > StandardDecimals) =>
              /\ down \in Nat \ {0}
              /\ StandardOf(t, a) <= a * down
              /\ a * down < BalanceRange => StandardOf(t, a) = a * down
  <1> DEFINE k == TokenDecimals[t]
  <1>1. k \in 0..MaxDecimals /\ StandardDecimals \in Nat /\ MaxDecimals \in Nat /\ k \in Nat
    BY AmountAssumption
  <1>2. CASE k > StandardDecimals
    <2>1. k - StandardDecimals \in 0..(StandardDecimals + MaxDecimals)
      BY <1>1, <1>2
    <2>2. up \in Nat \ {0}
      <3>1. Radix^(k - StandardDecimals) \in Nat \ {0}
        BY <2>1, AmountAssumption
      <3> QED BY ONLY <3>1, up = Radix^(k - StandardDecimals)
    <2>3. StandardOf(t, a) = a \div up
      BY <1>2 DEF StandardOf, T!unify_decimals
    <2>4. a \div up \in Nat /\ a % up \in Nat /\ a % up <= up - 1 /\ a = (up * (a \div up)) + (a % up)
      <3>1. a \div up \in 0..a /\ a % up \in 0..(up - 1) /\ a = (up * (a \div up)) + (a % up)
        BY ONLY <2>2, a \in Nat, DivMod
      <3> QED BY ONLY <2>2, a \in Nat, <3>1
    <2> DEFINE d == a \div up  m == a % up
    <2> HIDE DEF d, m
    <2>5. d \in Nat /\ m \in Nat /\ m <= up - 1 /\ a = (up * d) + m /\ StandardOf(t, a) = d
      BY ONLY <2>3, <2>4 DEF d, m
    <2>6. up * d = d * up /\ d * up \in Nat
      BY ONLY <2>2, <2>5, MulLaws
    <2>7. d * up <= a /\ a <= d * up + (up - 1)
      BY ONLY <2>2, <2>5, <2>6
    <2>8. StandardOf(t, a) * up <= a /\ a <= StandardOf(t, a) * up + (up - 1)
      BY ONLY <2>5, <2>7
    <2> QED BY ONLY <1>1, <1>2, <2>2, <2>8 DEF k
  <1>3. CASE ~(k > StandardDecimals)
    <2>1. StandardDecimals - k \in 0..(StandardDecimals + MaxDecimals)
      BY <1>1, <1>3
    <2>2. down \in Nat \ {0}
      BY <2>1, AmountAssumption
    <2>3. StandardOf(t, a) = (a * down) % BalanceRange
      BY <1>3 DEF StandardOf, T!unify_decimals
    <2> DEFINE x == a * down
    <2>4. x \in Nat
      BY ONLY <2>2, a \in Nat, MulLaws
    <2> HIDE DEF x
    <2>5. x % BalanceRange <= x
      BY <2>4, AmountAssumption, DivMod
    <2>6. x < BalanceRange => x % BalanceRange = x
      BY ONLY <2>4, AmountAssumption
    <2>7. /\ StandardOf(t, a) <= a * down
          /\ a * down < BalanceRange => StandardOf(t, a) = a * down
      BY ONLY <2>3, <2>5, <2>6 DEF x
    <2> QED BY ONLY <1>1, <1>3, <2>2, <2>7 DEF k
  <1> QED BY <1>2, <1>3

(* Crediting a deposit, announcing a withdrawal within the range of a      *)
(* balance, and logging a deposit keep the vault's cover.                  *)
LEMMA CoverLaw ==
  ASSUME NEW t \in Issued, NEW x \in Int, NEW q \in Int, NEW y \in Int, NEW z \in Int,
         Cover(t, x, q, y, z), NEW a \in Nat
  PROVE  /\ Cover(t, x + StandardOf(t, a), q - a, y, z)
         /\ (\E amount \in OutAmount : a <= amount) => Cover(t, x - StandardOf(t, a), q, y - a, z + 1)
         /\ Cover(t, x, q + a, y + a, z)
  <1> DEFINE k == TokenDecimals[t]
             up == Radix^(k - StandardDecimals)
             down == Radix^(StandardDecimals - k)
             v == StandardOf(t, a)
  <1>1. /\ k \in Nat
        /\ k > StandardDecimals => up \in Nat \ {0} /\ v * up <= a /\ a <= v * up + (up - 1)
        /\ ~(k > StandardDecimals) =>
             down \in Nat \ {0} /\ v <= a * down /\ (a * down < BalanceRange => v = a * down)
    BY StandardLaw
  <1>2. v \in Nat
    BY StandardType
  <1>3. \A x1, q1, y1, z1 :
          Cover(t, x1, q1, y1, z1) <=>
            IF k > StandardDecimals THEN x1 * up + q1 <= y1 + z1 * (up - 1)
                                    ELSE x1 + q1 * down <= y1 * down
    BY DEF Cover
  <1>4. /\ x \in Int /\ q \in Int /\ y \in Int /\ z \in Int /\ a \in Nat
        /\ IF k > StandardDecimals THEN x * up + q <= y + z * (up - 1) ELSE x + q * down <= y * down
    BY <1>3
  <1>5. ASSUME \E amount \in OutAmount : a <= amount, ~(k > StandardDecimals) PROVE a * down < BalanceRange
    <2>1. PICK amount \in OutAmount : a <= amount
      BY <1>5
    <2>2. amount \in Nat /\ down \in Nat /\ k <= StandardDecimals /\ BalanceRange \in Nat
      BY <1>1, <1>5, AmountAssumption
    <2>3. amount * down < BalanceRange
      BY <2>2, AmountAssumption
    <2> HIDE DEF down
    <2>4. down * a <= down * amount /\ down * a = a * down /\ down * amount = amount * down
      BY ONLY <1>4, <2>1, <2>2, MulMono, MulLaws
    <2>5. a * down \in Nat /\ amount * down \in Nat
      BY ONLY <1>4, <2>2, MulLaws
    <2> QED BY ONLY <2>2, <2>3, <2>4, <2>5
  <1> HIDE DEF k, up, down, v
  <1>6. CASE k > StandardDecimals
    <2>1. /\ up \in Int /\ up - 1 \in Int /\ 1 \in Int
          /\ (x + v) * up = x * up + v * up /\ (x - v) * up = x * up - v * up
          /\ x * up \in Int /\ v * up \in Int
          /\ (z + 1) * (up - 1) = z * (up - 1) + (up - 1) /\ z * (up - 1) \in Int
      <3>1. up \in Int /\ v \in Int /\ x \in Int /\ z \in Int /\ up - 1 \in Int /\ 1 \in Int
        BY ONLY <1>1, <1>2, <1>4, <1>6
      <3>2. (x + v) * up = x * up + v * up /\ (x - v) * up = x * up - v * up
            /\ x * up \in Int /\ v * up \in Int
        BY ONLY <3>1, IntLaws
      <3> DEFINE b == up - 1
      <3> HIDE DEF b
      <3>3. b \in Int
        BY ONLY <3>1 DEF b
      <3>4. (z + 1) * b = z * b + 1 * b /\ z * b \in Int /\ 1 * b = b
        BY ONLY <3>1, <3>3, IntLaws
      <3>5. (z + 1) * b = z * b + b
        BY ONLY <3>4
      <3> QED BY ONLY <3>1, <3>2, <3>4, <3>5 DEF b
    <2> DEFINE xu == x * up  vu == v * up  zu == z * (up - 1)
    <2> HIDE DEF xu, vu, zu
    <2>2. /\ xu \in Int /\ vu \in Int /\ zu \in Int /\ up \in Nat
          /\ vu <= a /\ a <= vu + (up - 1) /\ xu + q <= y + zu
      BY ONLY <1>1, <1>4, <1>6, <2>1 DEF xu, vu, zu
    <2>3. /\ (xu + vu) + (q - a) <= y + zu
          /\ (xu - vu) + q <= (y - a) + (zu + (up - 1))
          /\ xu + (q + a) <= (y + a) + zu
      BY ONLY <1>4, <2>2
    <2>4. /\ (x + v) * up + (q - a) <= y + z * (up - 1)
          /\ (x - v) * up + q <= (y - a) + (z + 1) * (up - 1)
          /\ x * up + (q + a) <= (y + a) + z * (up - 1)
      BY ONLY <2>1, <2>3 DEF xu, vu, zu
    <2>5. Cover(t, x + v, q - a, y, z) /\ Cover(t, x - v, q, y - a, z + 1) /\ Cover(t, x, q + a, y + a, z)
      BY ONLY <1>3, <1>6, <2>4
    <2> QED BY ONLY <2>5 DEF v
  <1>7. CASE ~(k > StandardDecimals)
    <2>1. /\ (q - a) * down = q * down - a * down /\ (y - a) * down = y * down - a * down
          /\ (q + a) * down = q * down + a * down /\ (y + a) * down = y * down + a * down
          /\ q * down \in Int /\ a * down \in Int /\ y * down \in Int
      BY ONLY <1>1, <1>4, <1>7, IntLaws
    <2> DEFINE qd == q * down  ad == a * down  yd == y * down
    <2> HIDE DEF qd, ad, yd
    <2>2. /\ qd \in Int /\ ad \in Int /\ yd \in Int /\ v <= ad /\ x + qd <= yd
          /\ (\E amount \in OutAmount : a <= amount) => v = ad
      BY ONLY <1>1, <1>4, <1>5, <1>7, <2>1 DEF qd, ad, yd
    <2>3. /\ (x + v) + (qd - ad) <= yd
          /\ (\E amount \in OutAmount : a <= amount) => (x - v) + qd <= yd - ad
          /\ x + (qd + ad) <= yd + ad
      BY ONLY <1>2, <1>4, <2>2
    <2>4. /\ (x + v) + (q - a) * down <= y * down
          /\ (\E amount \in OutAmount : a <= amount) => (x - v) + q * down <= (y - a) * down
          /\ x + (q + a) * down <= (y + a) * down
      BY ONLY <2>1, <2>3 DEF qd, ad, yd
    <2>5. /\ Cover(t, x + v, q - a, y, z) /\ Cover(t, x, q + a, y + a, z)
          /\ (\E amount \in OutAmount : a <= amount) => Cover(t, x - v, q, y - a, z + 1)
      BY ONLY <1>3, <1>7, <2>4
    <2> QED BY ONLY <2>5 DEF v
  <1> QED BY <1>6, <1>7
-----------------------------------------------------------------------------
(* Deposits under way.                                                     *)

Records ==
  /\ log \in [DepositNonce -> Call \cup {NoCall}]
  /\ vault \in [TokenId -> Int]
  /\ rounded \in [Issued -> Nat]

(* What deposit n adds to the pending amount of token t, given what was    *)
(* executed and logged, and the sum of it.                                 *)
PendingOf(ex, lg, n, t) ==
  IF lg[n] # NoCall /\ ex[<<ForeignChain, n, lg[n]>>] = 0 /\ lg[n].r_id.contract = t
  THEN lg[n].amount ELSE 0
PendingSum(ex, lg, t) == SumFunction([n \in DepositNonce |-> PendingOf(ex, lg, n, t)])

LogMap == [DepositNonce -> Call \cup {NoCall}]

(* A logged call has a positive amount.                                    *)
LEMMA CallLaw ==
  /\ NoCall \notin Call
  /\ \A call \in Call : /\ call.amount \in Nat \ {0} /\ call.to \in User /\ call.r_id \in ResourceId
                        /\ call.r_id.contract \in TokenId
  <1>1. \A call \in Call : call.amount \in Nat \ {0} /\ call.to \in User /\ call.r_id \in ResourceId
    BY AmountAssumption DEF Call
  <1>2. NoCall.amount = 0
    BY DEF NoCall
  <1>3. \A r \in ResourceId : r.contract \in TokenId
    BY DEF ResourceId, TokenId
  <1> QED BY <1>1, <1>2, <1>3

(* The sum is an integer.                                                  *)
LEMMA PendingType ==
  ASSUME NEW lg \in LogMap, NEW ex, NEW t
  PROVE  /\ \A n \in DepositNonce : PendingOf(ex, lg, n, t) \in Int
         /\ [n \in DepositNonce |-> PendingOf(ex, lg, n, t)] \in [DepositNonce -> Int]
         /\ PendingSum(ex, lg, t) \in Int
  <1>1. \A n \in DepositNonce : PendingOf(ex, lg, n, t) \in Int
    BY CallLaw DEF PendingOf, LogMap
  <1> DEFINE f == [n \in DepositNonce |-> PendingOf(ex, lg, n, t)]
  <1>2. f \in [DepositNonce -> Int]
    BY <1>1
  <1>3. SumFunction(f) = PendingSum(ex, lg, t)
    BY DEF PendingSum
  <1> HIDE DEF f
  <1>4. SumFunction(f) \in Int
    BY <1>2, TotalInt, RelayerAssumption
  <1> QED BY <1>1, <1>2, <1>3, <1>4 DEF f

(* It changes with one deposit by the difference.                          *)
LEMMA PendingLaw ==
  ASSUME NEW lg \in LogMap, NEW ex, NEW t, NEW lg2 \in LogMap, NEW ex2, NEW n \in DepositNonce,
         \A m \in DepositNonce \ {n} : PendingOf(ex2, lg2, m, t) = PendingOf(ex, lg, m, t)
  PROVE  PendingSum(ex2, lg2, t)
           = PendingSum(ex, lg, t) + PendingOf(ex2, lg2, n, t) - PendingOf(ex, lg, n, t)
  <1> DEFINE f == [m \in DepositNonce |-> PendingOf(ex, lg, m, t)]
             g == [m \in DepositNonce |-> PendingOf(ex2, lg2, m, t)]
  <1>1. f \in [DepositNonce -> Int] /\ g \in [DepositNonce -> Int]
    BY PendingType
  <1>2. /\ \A m \in DepositNonce : f[m] = PendingOf(ex, lg, m, t)
        /\ \A m \in DepositNonce : g[m] = PendingOf(ex2, lg2, m, t)
    OBVIOUS
  <1>3. SumFunction(f) = PendingSum(ex, lg, t) /\ SumFunction(g) = PendingSum(ex2, lg2, t)
    BY DEF PendingSum
  <1> HIDE DEF f, g
  <1>4. \A m \in DepositNonce \ {n} : g[m] = f[m]
    BY <1>2
  <1>5. SumFunction(g) = SumFunction(f) + g[n] - f[n]
    BY <1>1, <1>4, TotalUpdate, RelayerAssumption
  <1> QED BY <1>2, <1>3, <1>5

(* The pending amounts of the model are these sums.                        *)
LEMMA PendingIsSum == \A t : Pending(t) = PendingSum(executed, log, t)
  <1>1. \A t : [n \in DepositNonce |-> IF IsPending(n) /\ log[n].r_id.contract = t THEN log[n].amount ELSE 0]
                 = [n \in DepositNonce |-> PendingOf(executed, log, n, t)]
    BY DEF PendingOf, IsPending
  <1> QED BY <1>1 DEF Pending, PendingSum

-----------------------------------------------------------------------------
(* The inductive invariant.                                                *)

Issuance(t) == IF t = Native THEN native_issuance ELSE tokens[t].total
Conserved == \A t \in TokenId : HeldOf(balances, t) = Issuance(t)
ReservedHosted == \A u \in User, t \in TokenId : balances[t][u].reserved = HostedOf(hosted, u, t)
Covered ==
  \A t \in Issued : Cover(t, tokens[t].total, PendingSum(executed, log, t), vault[t], rounded[t])

IInv ==
  /\ Types
  /\ Conserved /\ ReservedHosted
  /\ Ballots /\ HonestVotes
  /\ Records /\ Covered

(* It is what the properties say.                                          *)
LEMMA IInvSuffices ==
  IInv => AssetsConserved /\ ReservedIsHosted /\ VaultCovers /\ FeeWorth
  <1> SUFFICES ASSUME IInv PROVE AssetsConserved /\ ReservedIsHosted /\ VaultCovers /\ FeeWorth
    OBVIOUS
  <1>1. AssetsConserved
    <2>1. \A t \in TokenId : T!total_issuance(t) = Issuance(t)
      BY TokenTerms DEF T!total_issuance, Issuance
    <2> QED BY <2>1, TokenTerms DEF IInv, Conserved, AssetsConserved
  <1>2. ReservedIsHosted
    BY TokenTerms DEF IInv, ReservedHosted, ReservedIsHosted, HostedOf
  <1>3. VaultCovers
    <2>1. \A t \in Issued : /\ tokens[t].decimals = TokenDecimals[t]
                            /\ Cover(t, tokens[t].total, Pending(t), vault[t], rounded[t])
      BY PendingIsSum DEF IInv, Types, Covered
    <2> QED BY <2>1 DEF VaultCovers, Cover
  <1>4. FeeWorth
    <2>1. \A t \in TokenId :
            get_price(t, is_stable(t)) # 0 =>
              /\ calculate_bridging_fee(t) * get_price(t, is_stable(t)) <= BridgingFeeInUSD * Quintill
              /\ BridgingFeeInUSD * Quintill
                   < (calculate_bridging_fee(t) + 1) * get_price(t, is_stable(t))
      BY FeeLaw DEF IInv
    <2> QED BY <2>1, TokenTerms DEF FeeWorth
  <1> QED BY <1>1, <1>2, <1>3, <1>4

(* It holds at genesis: nothing is issued, pending or in the vault.        *)
LEMMA InitIInv == Init => IInv
  <1> SUFFICES ASSUME Init PROVE IInv
    OBVIOUS
  <1>1. Setup
    BY DEF Init, Setup
  <1>2. /\ tokens \in [Issued -> TokenInfo]
        /\ \A t \in Issued : tokens[t].decimals = TokenDecimals[t] /\ tokens[t].total = 0
    BY AmountAssumption DEF Init, TokenInfo, T!NoContract
  <1>3. balances = [t \in TokenId |-> [a \in Account |->
          [free |-> IF t = Native THEN Endowment[a] ELSE 0, reserved |-> 0]]]
    BY TokenTerms DEF Init
  <1>4. balances \in BalanceMap
    BY <1>3, AmountAssumption DEF BalanceMap, Entry
  <1>5. /\ prices \in [TokenId -> Nat]
        /\ associated \in [Dex -> Dominator \cup {Nobody}]
        /\ hosted \in HostMap
        /\ \A d \in Dominator, u \in User, t \in TokenId : hosted[d][u][t] = 0
    BY TokenTerms DEF Init, HostMap
  <1>6. Types
    BY <1>1, <1>2, <1>4, <1>5 DEF Types
  <1>7. \A t \in TokenId, a \in Account : Worth(balances, t, a) = IF t = Native THEN Endowment[a] ELSE 0
    BY <1>3, AmountAssumption DEF Worth
  <1>8. Conserved
    <2>1. HeldOf(balances, Native) = Issuance(Native)
      <3>1. [a \in Account |-> Worth(balances, Native, a)] = Endowment
        BY <1>7, AmountAssumption DEF TokenId
      <3> QED BY <3>1 DEF HeldOf, Init, Issuance
    <2>2. ASSUME NEW t \in Issued PROVE HeldOf(balances, t) = Issuance(t)
      <3> DEFINE f == [a \in Account |-> Worth(balances, t, a)]
      <3>1. t \in TokenId /\ t # Native
        BY DEF TokenId, Issued, Native
      <3>2. f \in [Account -> Int] /\ \A a \in Account : f[a] = 0
        BY <1>7, <3>1
      <3>3. SumFunction(f) = HeldOf(balances, t)
        BY DEF HeldOf
      <3> HIDE DEF f
      <3>4. SumFunction(f) = 0
        BY <3>2, TotalZero, FiniteAccounts
      <3> QED BY <1>2, <3>1, <3>3, <3>4 DEF Issuance
    <2> QED BY <2>1, <2>2 DEF Conserved, TokenId
  <1>9. ReservedHosted
    <2> SUFFICES ASSUME NEW u \in User, NEW t \in TokenId
                 PROVE  balances[t][u].reserved = HostedOf(hosted, u, t)
      BY DEF ReservedHosted
    <2> DEFINE f == [d \in Dominator |-> hosted[d][u][t]]
    <2>1. f \in [Dominator -> Int] /\ \A d \in Dominator : f[d] = 0
      BY <1>5
    <2>2. SumFunction(f) = HostedOf(hosted, u, t)
      BY DEF HostedOf
    <2> HIDE DEF f
    <2>3. SumFunction(f) = 0
      BY <2>1, TotalZero, AccountAssumption
    <2> QED BY <1>3, <2>2, <2>3, FiniteAccounts
  <1>10. /\ votes = [p \in DepositKey |-> CB!Unknown] /\ executed = [p \in DepositKey |-> 0]
    BY DEF Init, CB!Deposit, DepositKey
  <1>11. Ballots
    <2>1. CB!Unknown \in Ballot /\ CB!Unknown.votes_for = <<>> /\ CB!Unknown.status = "None"
      BY DEF CB!Unknown, Ballot
    <2>2. IsInjective(<<>>)
      BY DEF IsInjective
    <2> QED BY <1>10, <2>1, <2>2 DEF Ballots
  <1>12. \A n \in DepositNonce, call \in Call : <<ForeignChain, n, call>> \in DepositKey
    BY DEF DepositKey
  <1>13. HonestVotes
    <2>1. \A p \in DepositKey : Range(votes[p].votes_for) = {} /\ executed[p] = 0
      BY <1>10 DEF CB!Unknown, Range
    <2> QED BY <1>12, <2>1 DEF HonestVotes
  <1>14. Records /\ \A t \in Issued : vault[t] = 0 /\ rounded[t] = 0
    BY TokenTerms DEF Init, Records, TokenId
  <1>15. Covered
    <2> SUFFICES ASSUME NEW t \in Issued
                 PROVE  Cover(t, tokens[t].total, PendingSum(executed, log, t), vault[t], rounded[t])
      BY DEF Covered
    <2> DEFINE f == [n \in DepositNonce |-> PendingOf(executed, log, n, t)]
    <2>1. \A n \in DepositNonce : PendingOf(executed, log, n, t) = 0
      BY DEF Init, PendingOf
    <2>2. f \in [DepositNonce -> Int] /\ \A n \in DepositNonce : f[n] = 0
      BY <2>1
    <2>3. SumFunction(f) = PendingSum(executed, log, t)
      BY DEF PendingSum
    <2> HIDE DEF f
    <2>4. SumFunction(f) = 0
      BY <2>2, TotalZero, RelayerAssumption
    <2>5. Cover(t, 0, 0, 0, 0)
      <3> DEFINE up == Radix^(TokenDecimals[t] - StandardDecimals)
                 down == Radix^(StandardDecimals - TokenDecimals[t])
      <3>1. /\ TokenDecimals[t] > StandardDecimals => up \in Nat \ {0}
            /\ ~(TokenDecimals[t] > StandardDecimals) => down \in Nat \ {0}
        BY StandardLaw
      <3> HIDE DEF up, down
      <3>2. \A x \in Nat \ {0} : 0 * x + 0 <= 0 + 0 * (x - 1) /\ 0 + 0 * x <= 0 * x
        OBVIOUS
      <3> QED BY <3>1, <3>2 DEF Cover, up, down
    <2> QED BY <1>2, <1>14, <2>3, <2>4, <2>5
  <1> QED BY <1>6, <1>8, <1>9, <1>11, <1>13, <1>14, <1>15 DEF IInv
-----------------------------------------------------------------------------
(* Every step keeps the invariant.                                         *)

setup_vars == <<now, threshold, relayers, by_contract, native_issuance>>

(* Steps that move no funds, votes or deposits.                            *)
LEMMA QuietKeeps ==
  ASSUME IInv, now' \in Nat,
         UNCHANGED <<threshold, relayers, by_contract, native_issuance,
                     tokens, balances, hosted, votes, executed, log, vault, rounded>>,
         prices' \in [TokenId -> Nat], associated' \in [Dex -> Dominator \cup {Nobody}]
  PROVE  IInv'
  <1>1. Types'
    BY DEF IInv, Types, Setup
  <1>2. Conserved' /\ ReservedHosted'
    BY DEF IInv, Conserved, ReservedHosted, Issuance
  <1>3. Ballots' /\ HonestVotes' /\ Records' /\ Covered'
    BY DEF IInv, Ballots, HonestVotes, Records, Covered
  <1> QED BY <1>1, <1>2, <1>3 DEF IInv

(* Reserved balances that follow what is hosted stay equal to it.          *)
LEMMA ReservedStep ==
  ASSUME ReservedHosted, hosted \in HostMap, hosted' \in HostMap,
         balances \in BalanceMap, balances' \in BalanceMap, ReservedFollows(balances, balances')
  PROVE  ReservedHosted'
  <1> SUFFICES ASSUME NEW u \in User, NEW t \in TokenId
               PROVE  balances'[t][u].reserved = HostedOf(hosted', u, t)
    BY DEF ReservedHosted
  <1>1. balances[t][u].reserved = HostedOf(hosted, u, t)
    BY DEF ReservedHosted
  <1>2. balances'[t][u].reserved + HostedOf(hosted, u, t) = balances[t][u].reserved + HostedOf(hosted', u, t)
    BY DEF ReservedFollows
  <1>3. HostedOf(hosted, u, t) \in Int /\ HostedOf(hosted', u, t) \in Int
    BY HostedType
  <1>4. balances'[t][u].reserved \in Nat
    BY EntryType, FiniteAccounts
  <1> QED BY <1>1, <1>2, <1>3, <1>4

(* A user's own authorization.                                             *)
LEMMA UserAuthorizesKeeps ==
  ASSUME IInv, NEW u \in User, NEW d \in Dominator, NEW t \in TokenId, NEW v \in OutAmount,
         UserAuthorizes(u, d, t, v)
  PROVE  IInv'
  <1>1. /\ Types /\ balances \in BalanceMap /\ hosted \in HostMap /\ v \in Nat
        /\ d # Nobody /\ d \in Dominator \cup {Nobody}
    BY AmountAssumption, AccountAssumption DEF IInv, Types
  <1>2. /\ CanAuthorize(balances, u, d, t, v) /\ authorize_if_possible(balances, u, d, t, v)
        /\ balances' = Reserved(balances, u, t, v)
        /\ UNCHANGED <<setup_vars, tokens, votes, executed, log, vault, rounded, prices, associated>>
    BY DEF UserAuthorizes, bridge, registry, setup, foreign, setup_vars
  <1>3. balances' = AfterAuthorize(balances, u, d, t, v)
    BY <1>1, <1>2 DEF AfterAuthorize
  <1>4. /\ hosted' \in HostMap
        /\ AfterAuthorize(balances, u, d, t, v) \in BalanceMap
        /\ ReservedFollows(balances, AfterAuthorize(balances, u, d, t, v))
        /\ \A s \in TokenId : HeldOf(AfterAuthorize(balances, u, d, t, v), s) = HeldOf(balances, s)
    BY <1>1, <1>2, AuthorizeLaw
  <1>5. /\ balances' \in BalanceMap /\ ReservedFollows(balances, balances')
        /\ \A s \in TokenId : HeldOf(balances', s) = HeldOf(balances, s)
    BY <1>3, <1>4
  <1>6. ReservedHosted'
    BY <1>1, <1>4, <1>5, ReservedStep DEF IInv
  <1>7. Types'
    BY <1>2, <1>4, <1>5 DEF IInv, Types, Setup, setup_vars
  <1>8. Conserved'
    BY <1>2, <1>5 DEF IInv, Conserved, Issuance, setup_vars
  <1>9. Ballots' /\ HonestVotes' /\ Records' /\ Covered'
    BY <1>2 DEF IInv, Ballots, HonestVotes, Records, Covered
  <1> QED BY <1>6, <1>7, <1>8, <1>9 DEF IInv

(* The other chain logs a deposit: it becomes pending as its amount        *)
(* reaches the vault, and no relayer supported a call for it before.       *)
LEMMA ForeignDepositKeeps ==
  ASSUME IInv, NEW n \in DepositNonce, NEW call \in Call, ForeignDeposit(n, call)
  PROVE  IInv'
  <1> DEFINE t == call.r_id.contract
  <1>1. /\ call.amount \in Nat \ {0} /\ t \in TokenId /\ call # NoCall
        /\ log \in LogMap /\ vault \in [TokenId -> Int] /\ log[n] = NoCall
    BY CallLaw DEF IInv, Records, LogMap, ForeignDeposit
  <1>2. /\ log' = [log EXCEPT ![n] = call]
        /\ vault' = [vault EXCEPT ![t] = IF t = Native THEN @ - call.amount ELSE @ + call.amount]
        /\ UNCHANGED <<setup_vars, tokens, balances, hosted, votes, executed, rounded, prices, associated>>
    BY DEF ForeignDeposit, bridge, registry, assets, custody, setup, setup_vars
  <1>3. /\ log'[n] = call /\ \A m \in DepositNonce \ {n} : log'[m] = log[m]
        /\ log' \in LogMap
    BY <1>1, <1>2 DEF LogMap
  <1>4. Records'
    <2>1. vault' \in [TokenId -> Int]
      BY <1>1, <1>2
    <2> QED BY <1>2, <1>3, <2>1 DEF IInv, Records, LogMap
  <1>5. \A c \in Call : /\ \A a \in Honest : a \notin Range(votes[<<ForeignChain, n, c>>].votes_for)
                        /\ executed[<<ForeignChain, n, c>>] # 1
    BY <1>1, CallLaw DEF IInv, HonestVotes
  <1>6. HonestVotes'
    <2> SUFFICES ASSUME NEW m \in DepositNonce, NEW c \in Call
                 PROVE  /\ \A a \in Honest :
                             a \in Range(votes[<<ForeignChain, m, c>>].votes_for) => log'[m] = c
                        /\ executed[<<ForeignChain, m, c>>] = 1 => log'[m] = c
      BY <1>2 DEF HonestVotes
    <2>1. CASE m = n
      BY <1>5, <2>1
    <2>2. CASE m # n
      BY <1>3, <2>2 DEF IInv, HonestVotes
    <2> QED BY <2>1, <2>2
  <1>7. Ballots' /\ Types' /\ Conserved' /\ ReservedHosted'
    BY <1>2 DEF IInv, Ballots, Types, Setup, Conserved, ReservedHosted, Issuance, setup_vars
  <1>8. executed[<<ForeignChain, n, call>>] = 0
    <2>1. <<ForeignChain, n, call>> \in DepositKey
      BY DEF DepositKey
    <2>2. executed[<<ForeignChain, n, call>>] \in {0, 1}
      BY <2>1 DEF IInv, Ballots
    <2> QED BY <1>5, <2>2
  <1>9. \A s : /\ PendingOf(executed, log, n, s) = 0
               /\ PendingOf(executed, log', n, s) = IF t = s THEN call.amount ELSE 0
               /\ \A m \in DepositNonce \ {n} : PendingOf(executed, log', m, s) = PendingOf(executed, log, m, s)
    BY <1>1, <1>3, <1>8 DEF PendingOf
  <1>10. Covered'
    <2> SUFFICES ASSUME NEW s \in Issued
                 PROVE  Cover(s, tokens[s].total, PendingSum(executed, log', s), vault'[s], rounded[s])
      BY <1>2 DEF Covered
    <2> DEFINE x == tokens[s].total  q == PendingSum(executed, log, s)  y == vault[s]  z == rounded[s]
               a == call.amount
    <2>1. Cover(s, x, q, y, z)
      BY DEF IInv, Covered
    <2>2. x \in Int /\ y \in Int /\ z \in Int /\ s \in TokenId /\ s # Native
      BY DEF IInv, Types, TokenInfo, Records, TokenId, Issued, Native
    <2>3. q \in Int
      BY <1>1, PendingType
    <2>4. PendingSum(executed, log', s) = q + PendingOf(executed, log', n, s) - 0
      BY <1>1, <1>3, <1>9, PendingLaw
    <2> HIDE DEF x, q, y, z, a
    <2>5. CASE t = s
      <3>1. PendingSum(executed, log', s) = q + a /\ vault'[s] = y + a
        <4>1. PendingOf(executed, log', n, s) = a
          BY <1>9, <2>5 DEF a
        <4>2. vault'[s] = vault[s] + call.amount
          BY <1>1, <1>2, <2>2, <2>5
        <4>3. a \in Nat
          BY <1>1 DEF a
        <4>4. PendingSum(executed, log', s) = q + a
          BY ONLY <2>3, <2>4, <4>1, <4>3
        <4> QED BY <4>2, <4>4 DEF a, y
      <3>2. Cover(s, x, q + a, y + a, z)
        BY <1>1, <2>1, <2>2, <2>3, CoverLaw DEF a
      <3> QED BY <3>1, <3>2 DEF x, z
    <2>6. CASE t # s
      <3>1. PendingSum(executed, log', s) = q /\ vault'[s] = y
        <4>1. PendingOf(executed, log', n, s) = 0
          BY <1>9, <2>6
        <4>2. vault'[s] = vault[s]
          BY <1>1, <1>2, <2>2, <2>6
        <4>3. PendingSum(executed, log', s) = q
          BY ONLY <2>3, <2>4, <4>1
        <4> QED BY <4>2, <4>3 DEF y
      <3> QED BY <2>1, <3>1 DEF x, z
    <2> QED BY <2>5, <2>6
  <1> QED BY <1>4, <1>6, <1>7, <1>10 DEF IInv
(* The registry after a mint or burn.                                      *)
LEMMA TokensStep ==
  ASSUME Types, NEW t \in Issued, NEW w \in Int, tokens[t].total + w \in Nat,
         tokens' = [tokens EXCEPT ![t] = T!WithIssued(t, w)]
  PROVE  /\ tokens' \in [Issued -> TokenInfo]
         /\ \A s \in Issued : tokens'[s].decimals = TokenDecimals[s]
         /\ tokens'[t].total = tokens[t].total + w
         /\ \A s \in Issued \ {t} : tokens'[s] = tokens[s]
  <1>1. /\ T!WithIssued(t, w).total = tokens[t].total + w
        /\ T!WithIssued(t, w) \in TokenInfo
        /\ T!WithIssued(t, w).decimals = tokens[t].decimals
    BY TotalLaw
  <1>2. tokens \in [Issued -> TokenInfo] /\ \A s \in Issued : tokens[s].decimals = TokenDecimals[s]
    BY DEF Types
  <1>3. tokens'[t] = T!WithIssued(t, w) /\ \A s \in Issued \ {t} : tokens'[s] = tokens[s]
    BY <1>2
  <1>4. tokens' \in [Issued -> TokenInfo]
    BY <1>1, <1>2
  <1> QED BY <1>1, <1>2, <1>3, <1>4

(* What an executed call takes off the pending amounts.                    *)
LEMMA CreditPending ==
  ASSUME log \in LogMap, log' = log, NEW n \in DepositNonce, NEW call \in Call, log[n] = call,
         executed[<<ForeignChain, n, call>>] = 0, executed'[<<ForeignChain, n, call>>] = 1,
         \A q \in DepositKey \ {<<ForeignChain, n, call>>} : executed'[q] = executed[q]
  PROVE  \A s : PendingSum(executed', log', s)
                  = PendingSum(executed, log, s) - (IF call.r_id.contract = s THEN call.amount ELSE 0)
  <1>1. log[n] # NoCall
    BY CallLaw
  <1>2. \A m \in DepositNonce \ {n} : log[m] # NoCall =>
          <<ForeignChain, m, log[m]>> \in DepositKey \ {<<ForeignChain, n, call>>}
    BY DEF DepositKey, LogMap
  <1> SUFFICES ASSUME NEW s
               PROVE  PendingSum(executed', log, s)
                        = PendingSum(executed, log, s) - (IF call.r_id.contract = s THEN call.amount ELSE 0)
    OBVIOUS
  <1>3. \A m \in DepositNonce \ {n} : PendingOf(executed', log, m, s) = PendingOf(executed, log, m, s)
    BY <1>2 DEF PendingOf
  <1>4. /\ PendingOf(executed', log, n, s) = 0
        /\ PendingOf(executed, log, n, s) = IF call.r_id.contract = s THEN call.amount ELSE 0
    BY <1>1 DEF PendingOf
  <1>5. PendingSum(executed', log, s)
          = PendingSum(executed, log, s) + PendingOf(executed', log, n, s) - PendingOf(executed, log, n, s)
    BY <1>3, PendingLaw
  <1>6. PendingSum(executed, log, s) \in Int /\ PendingOf(executed, log, n, s) \in Int
    BY PendingType
  <1> QED BY <1>4, <1>5, <1>6

(* A vote, and the call it may bring about.                                *)
LEMMA RelayKeeps ==
  ASSUME IInv, NEW who \in Relayer, NEW n \in DepositNonce, NEW call \in Call, NEW f \in BOOLEAN,
         Relay(who, n, call, f), who \in Honest => log[n] = call
  PROVE  IInv'
  <1> DEFINE p == <<ForeignChain, n, call>>
  <1>1. /\ CB!Vote(who, ForeignChain, n, call.r_id, call, f) /\ Dispatch(n, call)
        /\ UNCHANGED <<by_contract, native_issuance, prices, associated, log, vault, rounded>>
    BY DEF Relay, registry, setup, foreign
  <1>2. /\ Ballots' /\ HonestVotes' /\ UNCHANGED <<now, threshold, relayers>>
        /\ \A q \in DepositKey \ {p} : executed'[q] = executed[q]
        /\ executed'[p] # executed[p] => executed[p] = 0 /\ executed'[p] = 1 /\ log[n] = call
    BY <1>1, VoteLaw DEF IInv, Types
  <1>3. Setup' /\ Records'
    BY <1>1, <1>2 DEF IInv, Types, Setup, Records
  <1>4. CASE executed'[p] = executed[p]
    <2>1. UNCHANGED <<tokens, balances, hosted>>
      BY <1>1, <1>4 DEF Dispatch, assets
    <2>2. Types' /\ Conserved' /\ ReservedHosted'
      BY <1>1, <1>3, <2>1 DEF IInv, Types, Conserved, ReservedHosted, Issuance
    <2>3. executed' = executed
      <3>1. \A q \in DepositKey : executed'[q] = executed[q]
        BY <1>2, <1>4
      <3>2. executed \in [DepositKey -> {0, 1}] /\ executed' \in [DepositKey -> {0, 1}]
        BY <1>2 DEF IInv, Ballots
      <3> QED BY ONLY <3>1, <3>2
    <2>4. Covered'
      BY <1>1, <2>1, <2>3 DEF IInv, Covered
    <2> QED BY <1>2, <1>3, <2>2, <2>4 DEF IInv
  <1>5. CASE executed'[p] # executed[p]
    <2> DEFINE t == call.r_id.contract
               a == call.amount
    <2>1. transfer_in(call)
      BY <1>1, <1>5 DEF Dispatch
    <2>2. /\ Types /\ balances \in BalanceMap /\ hosted \in HostMap /\ log \in LogMap
          /\ t \in TokenId /\ a \in Nat
      BY CallLaw DEF IInv, Types, Records, LogMap
    <2>3. \A s : PendingSum(executed', log', s) = PendingSum(executed, log, s) - (IF t = s THEN a ELSE 0)
      BY <1>1, <1>2, <1>5, <2>2, CreditPending
    <2>4. /\ balances' \in BalanceMap /\ hosted' \in HostMap /\ ReservedFollows(balances, balances')
          /\ t = Native => /\ tokens' = tokens
                           /\ \A s \in TokenId : HeldOf(balances', s) = HeldOf(balances, s)
          /\ t # Native =>
               /\ t \in Issued /\ tokens' = [tokens EXCEPT ![t] = T!WithIssued(t, StandardOf(t, a))]
               /\ HeldOf(balances', t) = HeldOf(balances, t) + StandardOf(t, a)
               /\ \A s \in TokenId \ {t} : HeldOf(balances', s) = HeldOf(balances, s)
      BY <2>1, <2>2, TransferInLaw
    <2>5. ReservedHosted'
      BY <2>2, <2>4, ReservedStep DEF IInv
    <2>6. \A s \in Issued : /\ PendingSum(executed, log, s) \in Int /\ tokens[s].total \in Nat
                            /\ vault[s] \in Int /\ rounded[s] \in Int /\ s \in TokenId /\ s # Native
                            /\ Cover(s, tokens[s].total, PendingSum(executed, log, s), vault[s], rounded[s])
      <3>1. \A s \in Issued : PendingSum(executed, log, s) \in Int
        BY <2>2, PendingType
      <3>2. \A s \in Issued : s \in TokenId /\ s # Native
        BY DEF TokenId, Issued, Native
      <3>3. \A s \in Issued : tokens[s].total \in Nat /\ vault[s] \in Int /\ rounded[s] \in Int
        BY <3>2 DEF IInv, Types, TokenInfo, Records
      <3> QED BY <3>1, <3>2, <3>3 DEF IInv, Covered
    <2>7. UNCHANGED <<vault, rounded, native_issuance, prices, associated>>
      BY <1>1
    <2> HIDE DEF t, a, p
    <2>8. CASE t = Native
      <3>1. Types'
        BY <1>3, <2>4, <2>7, <2>8 DEF IInv, Types
      <3>2. Conserved'
        BY <2>4, <2>7, <2>8 DEF IInv, Conserved, Issuance
      <3>3. \A s \in Issued : PendingSum(executed', log', s) = PendingSum(executed, log, s)
        BY <2>3, <2>6, <2>8
      <3>4. Covered'
        BY <2>4, <2>6, <2>7, <2>8, <3>3 DEF Covered
      <3> QED BY <1>2, <1>3, <2>5, <3>1, <3>2, <3>4 DEF IInv
    <2>9. CASE t # Native
      <3> DEFINE v == StandardOf(t, a)
      <3>1. t \in Issued /\ v \in Nat /\ v \in Int
        BY <2>2, <2>4, <2>9, StandardType
      <3>2. tokens[t].total + v \in Nat
        BY <2>6, <3>1
      <3>3. tokens' = [tokens EXCEPT ![t] = T!WithIssued(t, v)]
        BY <2>4, <2>9
      <3>4. /\ HeldOf(balances', t) = HeldOf(balances, t) + v
            /\ \A s \in TokenId \ {t} : HeldOf(balances', s) = HeldOf(balances, s)
        BY <2>4, <2>9
      <3> HIDE DEF v
      <3>5. /\ tokens' \in [Issued -> TokenInfo]
            /\ \A s \in Issued : tokens'[s].decimals = TokenDecimals[s]
            /\ tokens'[t].total = tokens[t].total + v
            /\ \A s \in Issued \ {t} : tokens'[s] = tokens[s]
        BY ONLY <2>2, <3>1, <3>2, <3>3, TokensStep
      <3>6. Types'
        BY <1>3, <2>4, <2>7, <3>5 DEF IInv, Types
      <3>7. Conserved'
        <4>1. \A s \in TokenId \ {t} : Issuance(s)' = Issuance(s)
          BY <2>7, <3>5 DEF Issuance, TokenId
        <4>2. Issuance(t)' = Issuance(t) + v
          BY <2>9, <3>5 DEF Issuance
        <4> QED BY <3>4, <4>1, <4>2 DEF IInv, Conserved
      <3>8. Covered'
        <4> SUFFICES ASSUME NEW s \in Issued
                     PROVE  Cover(s, tokens'[s].total, PendingSum(executed', log', s), vault[s], rounded[s])
          BY <2>7 DEF Covered
        <4>1. CASE s = t
          <5>1. PendingSum(executed', log', s) = PendingSum(executed, log, s) - a
            BY <2>3, <4>1
          <5>2. tokens'[s].total = tokens[s].total + StandardOf(s, a)
            BY <3>5, <4>1 DEF v
          <5>3. /\ PendingSum(executed, log, s) \in Int /\ tokens[s].total \in Int
                /\ vault[s] \in Int /\ rounded[s] \in Int
                /\ Cover(s, tokens[s].total, PendingSum(executed, log, s), vault[s], rounded[s])
            BY <2>6
          <5>4. Cover(s, tokens[s].total + StandardOf(s, a), PendingSum(executed, log, s) - a, vault[s], rounded[s])
            BY ONLY <2>2, <5>3, CoverLaw, s \in Issued
          <5> QED BY ONLY <5>1, <5>2, <5>4
        <4>2. CASE s # t
          <5>1. PendingSum(executed', log', s) = PendingSum(executed, log, s)
            BY <2>3, <2>6, <4>2
          <5> QED BY <2>6, <3>5, <4>2, <5>1
        <4> QED BY <4>1, <4>2
      <3> QED BY <1>2, <1>3, <2>5, <3>6, <3>7, <3>8 DEF IInv
    <2> QED BY <2>8, <2>9
  <1> QED BY <1>4, <1>5

(* A withdrawal.                                                           *)
LEMMA TransferOutKeeps ==
  ASSUME IInv, NEW who \in User, NEW amount \in OutAmount, NEW r \in ResourceId, NEW dest,
         transfer_out(who, amount, r, dest)
  PROVE  IInv'
  <1> DEFINE t == r.contract
             net == amount - calculate_bridging_fee(t)
  <1>1. CB!transfer_fungible(dest) /\ UNCHANGED <<registry, custody, setup, log>>
    BY DEF transfer_out
  <1>2. UNCHANGED <<setup_vars, hosted, votes, executed, log, prices, associated>>
    BY <1>1 DEF CB!transfer_fungible, CB!bump_nonce, CB!admin, CB!inbound, registry, custody, setup, setup_vars
  <1>3. /\ Types /\ balances \in BalanceMap /\ vault \in [TokenId -> Int] /\ rounded \in [Issued -> Nat]
        /\ log \in LogMap /\ Conserved
    BY DEF IInv, Types, Records, LogMap
  <1>4. /\ t \in TokenId /\ net \in Nat /\ net <= amount
        /\ balances' \in BalanceMap
        /\ \A s \in TokenId, b \in Account : balances'[s][b].reserved = balances[s][b].reserved
        /\ t = Native =>
             /\ tokens' = tokens
             /\ \A s \in TokenId : HeldOf(balances', s) = HeldOf(balances, s)
             /\ vault' = [vault EXCEPT ![t] = @ + net]
             /\ rounded' = rounded
        /\ t # Native =>
             /\ t \in Issued
             /\ tokens[t].total - StandardOf(t, net) \in Nat
             /\ tokens' = [tokens EXCEPT ![t] = T!WithIssued(t, -StandardOf(t, net))]
             /\ HeldOf(balances', t) = HeldOf(balances, t) - StandardOf(t, net)
             /\ \A s \in TokenId \ {t} : HeldOf(balances', s) = HeldOf(balances, s)
             /\ vault' = [vault EXCEPT ![t] = @ - net]
             /\ rounded' = [rounded EXCEPT ![t] = @ + 1]
    BY <1>3, TransferOutLaw
  <1> HIDE DEF t, net
  <1>5. ReservedHosted'
    <2>1. \A s \in TokenId, u \in User : balances'[s][u].reserved = balances[s][u].reserved
      BY <1>4, FiniteAccounts
    <2> QED BY <1>2, <2>1 DEF IInv, ReservedHosted
  <1>6. Ballots' /\ HonestVotes'
    BY <1>2 DEF IInv, Ballots, HonestVotes
  <1>7. Setup'
    BY <1>2, <1>3 DEF Types, Setup, setup_vars
  <1>8. /\ \A s \in Issued : s \in TokenId /\ s # Native
        /\ Native \in TokenId
    BY DEF TokenId, Issued, Native
  <1>9. \A s \in Issued : /\ PendingSum(executed, log, s) \in Int /\ tokens[s].total \in Nat
                          /\ vault[s] \in Int /\ rounded[s] \in Int
                          /\ Cover(s, tokens[s].total, PendingSum(executed, log, s), vault[s], rounded[s])
    <2>1. \A s \in Issued : PendingSum(executed, log, s) \in Int
      BY <1>3, PendingType
    <2>2. \A s \in Issued : tokens[s].total \in Nat /\ vault[s] \in Int /\ rounded[s] \in Int
      BY <1>3, <1>8 DEF Types, TokenInfo
    <2> QED BY <2>1, <2>2 DEF IInv, Covered
  <1>10. CASE t = Native
    <2>1. Types' /\ Conserved'
      BY <1>2, <1>3, <1>4, <1>7, <1>10 DEF Types, Conserved, Issuance, setup_vars
    <2>2. /\ vault' \in [TokenId -> Int] /\ rounded' = rounded
          /\ \A s \in Issued : vault'[s] = vault[s]
      BY <1>3, <1>4, <1>8, <1>10
    <2>3. Records'
      BY <1>2, <1>3, <2>2 DEF Records, LogMap
    <2>4. Covered'
      BY <1>2, <1>4, <1>9, <1>10, <2>2 DEF Covered
    <2> QED BY <1>5, <1>6, <2>1, <2>3, <2>4 DEF IInv
  <1>11. CASE t # Native
    <2> DEFINE v == StandardOf(t, net)
               w == -v
    <2>1. t \in Issued /\ v \in Nat /\ w \in Int /\ tokens[t].total \in Nat
      BY <1>4, <1>9, <1>11, StandardType
    <2>2. tokens[t].total + w \in Nat
      <3>1. tokens[t].total - v \in Nat
        BY <1>4, <1>11
      <3> QED BY ONLY <2>1, <3>1
    <2>3. tokens' = [tokens EXCEPT ![t] = T!WithIssued(t, w)]
      BY <1>4, <1>11
    <2>4. /\ HeldOf(balances', t) = HeldOf(balances, t) - v
          /\ \A s \in TokenId \ {t} : HeldOf(balances', s) = HeldOf(balances, s)
      BY <1>4, <1>11
    <2> HIDE DEF w
    <2>5. /\ tokens' \in [Issued -> TokenInfo]
          /\ \A s \in Issued : tokens'[s].decimals = TokenDecimals[s]
          /\ tokens'[t].total = tokens[t].total + w
          /\ \A s \in Issued \ {t} : tokens'[s] = tokens[s]
      BY ONLY <1>3, <2>1, <2>2, <2>3, TokensStep
    <2>6. tokens'[t].total = tokens[t].total - v
      BY ONLY <2>1, <2>5 DEF w
    <2> HIDE DEF v
    <2>7. Types'
      BY <1>2, <1>3, <1>4, <1>7, <2>5 DEF Types
    <2>8. Conserved'
      <3>1. \A s \in TokenId \ {t} : Issuance(s)' = Issuance(s)
        BY <1>2, <2>5 DEF Issuance, TokenId, setup_vars
      <3>2. Issuance(t)' = Issuance(t) - v
        BY <1>11, <2>6 DEF Issuance
      <3> QED BY <1>3, <2>4, <3>1, <3>2 DEF Conserved
    <2>9. /\ vault' \in [TokenId -> Int] /\ vault'[t] = vault[t] - net
          /\ \A s \in Issued \ {t} : vault'[s] = vault[s]
          /\ rounded' \in [Issued -> Nat] /\ rounded'[t] = rounded[t] + 1
          /\ \A s \in Issued \ {t} : rounded'[s] = rounded[s]
      <3>1. vault' = [vault EXCEPT ![t] = @ - net] /\ rounded' = [rounded EXCEPT ![t] = @ + 1]
        BY <1>4, <1>11
      <3>2. vault[t] - net \in Int /\ rounded[t] + 1 \in Nat
        BY <1>3, <1>4, <2>1
      <3> QED BY <1>3, <1>4, <1>8, <2>1, <3>1, <3>2
    <2>10. Records'
      BY <1>2, <1>3, <2>9 DEF Records, LogMap
    <2>11. Covered'
      <3> SUFFICES ASSUME NEW s \in Issued
                   PROVE  Cover(s, tokens'[s].total, PendingSum(executed, log, s), vault'[s], rounded'[s])
        BY <1>2 DEF Covered
      <3>1. CASE s = t
        <4>1. /\ PendingSum(executed, log, s) \in Int /\ tokens[s].total \in Int
              /\ vault[s] \in Int /\ rounded[s] \in Int /\ net \in Nat
              /\ Cover(s, tokens[s].total, PendingSum(executed, log, s), vault[s], rounded[s])
          BY <1>4, <1>9
        <4>2. \E x \in OutAmount : net <= x
          BY <1>4
        <4>3. Cover(s, tokens[s].total - StandardOf(s, net), PendingSum(executed, log, s),
                    vault[s] - net, rounded[s] + 1)
          BY ONLY <4>1, <4>2, CoverLaw, s \in Issued
        <4>4. /\ tokens'[s].total = tokens[s].total - StandardOf(s, net)
              /\ vault'[s] = vault[s] - net /\ rounded'[s] = rounded[s] + 1
          BY <2>6, <2>9, <3>1 DEF v
        <4> QED BY ONLY <4>3, <4>4
      <3>2. CASE s # t
        BY <1>9, <2>5, <2>9, <3>2
      <3> QED BY <3>1, <3>2
    <2> QED BY <1>5, <1>6, <2>7, <2>8, <2>10, <2>11 DEF IInv
  <1> QED BY <1>10, <1>11

(* What the rest of the system does: deposits on the other chain, prices,  *)
(* dominators and their users.                                             *)
LEMMA EnvironmentKeeps == IInv /\ Environment => IInv'
  <1> SUFFICES ASSUME IInv, Environment PROVE IInv'
    OBVIOUS
  <1>1. prices \in [TokenId -> Nat] /\ associated \in [Dex -> Dominator \cup {Nobody}] /\ now \in Nat
    BY DEF IInv, Types, Setup
  <1>2. ASSUME NEW n \in DepositNonce, NEW call \in Call, ForeignDeposit(n, call) PROVE IInv'
    BY <1>2, ForeignDepositKeeps
  <1>3. ASSUME NEW t \in TokenId, NEW trade \in Trades, PriceMoves(t, trade) PROVE IInv'
    <2>1. /\ UNCHANGED <<setup_vars, tokens, balances, hosted, votes, executed, log, vault, rounded, associated>>
          /\ trade[2] # 0 /\ trade[1] # 0
          /\ prices' = [prices EXCEPT ![t] = Ratio(trade[2], trade[1])]
      BY <1>3 DEF PriceMoves, set_price, bridge, registry, assets, custody, foreign, setup_vars
    <2>2. trade[1] \in Nat /\ trade[2] \in Nat
      BY AmountAssumption
    <2>3. Ratio(trade[2], trade[1]) \in Nat
      BY <2>1, <2>2, RatioExact
    <2>4. prices' \in [TokenId -> Nat]
      BY <1>1, <2>1, <2>3
    <2> QED BY <1>1, <2>1, <2>4, QuietKeeps DEF setup_vars
  <1>4. ASSUME NEW d \in Dominator, StatusMoves(d) PROVE IInv'
    BY <1>1, <1>4, QuietKeeps DEF StatusMoves, bridge, registry, assets, setup, foreign
  <1>5. ASSUME NEW d \in Dominator, NEW u \in User, ReceiptTaken(d, u) PROVE IInv'
    BY <1>1, <1>5, QuietKeeps DEF ReceiptTaken, bridge, registry, assets, setup, foreign
  <1>6. ASSUME NEW u \in User, NEW d \in Dominator, NEW t \in TokenId, NEW v \in OutAmount,
               UserAuthorizes(u, d, t, v)
        PROVE  IInv'
    BY <1>6, UserAuthorizesKeeps
  <1> QED BY <1>2, <1>3, <1>4, <1>5, <1>6 DEF Environment, TokenId

(* The settings of the handler.                                            *)
LEMMA AdministerKeeps == IInv /\ Administer => IInv'
  <1> SUFFICES ASSUME IInv, Administer PROVE IInv'
    OBVIOUS
  <1>1. prices \in [TokenId -> Nat] /\ associated \in [Dex -> Dominator \cup {Nobody}] /\ now \in Nat
    BY DEF IInv, Types, Setup
  <1>2. ASSUME NEW value \in BOOLEAN, native_limit(value) PROVE IInv'
    BY <1>1, <1>2, QuietKeeps DEF native_limit, bridge, registry, assets, custody, foreign
  <1>3. ASSUME NEW x \in Dex, NEW d \in Dominator, associate_dominator(x, d) PROVE IInv'
    <2>1. /\ UNCHANGED <<setup_vars, tokens, balances, hosted, votes, executed, log, vault, rounded, prices>>
          /\ associated' = [associated EXCEPT ![x] = d]
      BY <1>3 DEF associate_dominator, bridge, registry, assets, custody, foreign, setup_vars
    <2>2. associated' \in [Dex -> Dominator \cup {Nobody}]
      BY <1>1, <2>1
    <2> QED BY <1>1, <2>1, <2>2, QuietKeeps DEF setup_vars
  <1> QED BY <1>2, <1>3 DEF Administer

(* A step of the bridge is a vote of a relayer on a call, the logged one   *)
(* if the relayer is honest.                                               *)
LEMMA InIsRelay ==
  ASSUME IInv, In
  PROVE  \E who \in Relayer, n \in DepositNonce, call \in Call, f \in BOOLEAN :
           Relay(who, n, call, f) /\ (who \in Honest => log[n] = call)
  <1>1. \A n \in DepositNonce : log[n] # NoCall => log[n] \in Call
    BY DEF IInv, Records
  <1>2. ASSUME NEW n \in DepositNonce, NEW who \in Honest, HonestVote(who, n)
        PROVE  who \in Relayer /\ log[n] \in Call /\ Relay(who, n, log[n], TRUE)
    BY <1>1, <1>2, RelayerAssumption DEF HonestVote
  <1>3. ASSUME NEW n \in DepositNonce, NEW who \in Relayer, NEW call \in Call, NEW f \in BOOLEAN,
               FaultyVote(who, n, call, f)
        PROVE  Relay(who, n, call, f) /\ who \notin Honest
    BY <1>3 DEF FaultyVote
  <1>4. PICK n \in DepositNonce :
          \/ \E who \in Honest : HonestVote(who, n)
          \/ \E who \in Relayer, call \in Call, f \in BOOLEAN : FaultyVote(who, n, call, f)
    BY DEF In
  <1>5. CASE \E who \in Honest : HonestVote(who, n)
    BY <1>2, <1>5
  <1>6. CASE \E who \in Relayer, call \in Call, f \in BOOLEAN : FaultyVote(who, n, call, f)
    BY <1>3, <1>6
  <1> QED BY <1>4, <1>5, <1>6

(* A block goes by.                                                        *)
LEMMA BlockKeeps == IInv /\ NextBlock => IInv'
  <1> SUFFICES ASSUME IInv, NextBlock PROVE IInv'
    OBVIOUS
  <1>1. /\ UNCHANGED <<threshold, relayers, by_contract, native_issuance, tokens, balances, hosted,
                       votes, executed, log, vault, rounded, prices, associated>>
        /\ now' = now + 1
    BY DEF NextBlock, CB!NextBlock, CB!admin, CB!outbound, CB!inbound, registry, assets, custody, setup, foreign
  <1>2. /\ now' \in Nat
        /\ prices' \in [TokenId -> Nat] /\ associated' \in [Dex -> Dominator \cup {Nobody}]
    BY <1>1 DEF IInv, Types, Setup
  <1> QED BY <1>1, <1>2, QuietKeeps

(* The invariant is inductive.                                             *)
LEMMA NextKeeps == IInv /\ [Next]_vars => IInv'
  <1> SUFFICES ASSUME IInv, [Next]_vars PROVE IInv'
    OBVIOUS
  <1>1. CASE Environment
    BY <1>1, EnvironmentKeeps
  <1>2. CASE Administer
    BY <1>2, AdministerKeeps
  <1>3. CASE In
    BY <1>3, InIsRelay, RelayKeeps
  <1>4. CASE Out
    BY <1>4, TransferOutKeeps DEF Out
  <1>5. CASE NextBlock
    BY <1>5, BlockKeeps
  <1>6. CASE UNCHANGED vars
    <2>1. UNCHANGED <<setup_vars, tokens, balances, hosted, votes, executed, log, vault, rounded, prices, associated>>
      BY <1>6 DEF vars, bridge, registry, assets, custody, setup, foreign, setup_vars
    <2>2. prices' \in [TokenId -> Nat] /\ associated' \in [Dex -> Dominator \cup {Nobody}] /\ now' \in Nat
      BY <2>1 DEF IInv, Types, Setup, setup_vars
    <2> QED BY <2>1, <2>2, QuietKeeps DEF setup_vars
  <1> QED BY <1>1, <1>2, <1>3, <1>4, <1>5, <1>6 DEF Next

(* The invariant holds in every reachable state.                           *)
THEOREM Invariant == Spec => []IInv
  <1> QED BY InitIInv, NextKeeps, PTL DEF Spec

(* Whatever is issued here and under way is covered by the vault there.    *)
THEOREM VaultCoversHolds == Spec => []VaultCovers
  <1> QED BY Invariant, IInvSuffices, PTL

(* No call creates or loses tokens.                                        *)
THEOREM AssetsConservedHolds == Spec => []AssetsConserved
  <1> QED BY Invariant, IInvSuffices, PTL

(* Users' reserved tokens are those that dominators were given.            *)
THEOREM ReservedIsHostedHolds == Spec => []ReservedIsHosted
  <1> QED BY Invariant, IInvSuffices, PTL

(* The fee is worth what is asked for, to the last unit.                   *)
THEOREM FeeWorthHolds == Spec => []FeeWorth
  <1> QED BY Invariant, IInvSuffices, PTL

-----------------------------------------------------------------------------
(* The handler implements the ideal bridge.  The state the ideal bridge    *)
(* would be in:                                                            *)

LogSeen == [n \in DepositNonce |-> DepositRecord(log[n])]
CreditedSeen == {n \in DepositNonce : \E call \in Call : executed[<<ForeignChain, n, call>>] > 0}
HereSeen == [t \in {Native} \cup Issued |->
               IF t = Native THEN balances[Native][Bridge].free - Endowment[Bridge]
               ELSE tokens[t].total]

(* At genesis it is the ideal bridge's initial state.                      *)
LEMMA InitIdeal == Init => Ideal!Init
  <1> SUFFICES ASSUME Init PROVE Ideal!Init
    OBVIOUS
  <1>1. LogSeen = [n \in DepositNonce |-> NoCall]
    BY DEF Init, LogSeen, DepositRecord
  <1>2. CreditedSeen = {}
    <2>1. \A n \in DepositNonce, call \in Call : executed[<<ForeignChain, n, call>>] = 0
      BY DEF Init, CB!Deposit
    <2>2. \A n \in DepositNonce, call \in Call : ~(executed[<<ForeignChain, n, call>>] > 0)
      BY <2>1
    <2>3. \A n : n \notin CreditedSeen
      BY ONLY <2>2 DEF CreditedSeen
    <2> QED BY ONLY <2>3
  <1>3. HereSeen = [t \in Issued \cup {Native} |-> 0]
    <2>1. balances[Native][Bridge].free = Endowment[Bridge]
      BY FiniteAccounts, TokenTerms DEF Init, TokenId
    <2>2. Endowment[Bridge] \in Nat
      BY FiniteAccounts, AmountAssumption
    <2>3. \A t \in Issued : tokens[t].total = 0
      BY DEF Init
    <2> QED BY <2>1, <2>2, <2>3 DEF HereSeen
  <1>4. vault = [t \in Issued \cup {Native} |-> 0]
    BY TokenTerms DEF Init, TokenId
  <1> QED BY <1>1, <1>2, <1>3, <1>4 DEF Ideal!Init, LogSeen, CreditedSeen, HereSeen

(* Steps it does not see.                                                  *)
LEMMA UnseenStep ==
  ASSUME UNCHANGED <<log, executed, tokens, vault>>,
         balances'[Native][Bridge].free = balances[Native][Bridge].free
  PROVE  UNCHANGED Ideal!vars
  BY DEF Ideal!vars

(* The total of one token changes.                                         *)
LEMMA HereStep ==
  ASSUME NEW t \in Issued, \A s \in Issued \ {t} : tokens'[s] = tokens[s],
         balances'[Native][Bridge].free = balances[Native][Bridge].free
  PROVE  /\ HereSeen[t] = tokens[t].total
         /\ HereSeen' = [HereSeen EXCEPT ![t] = tokens'[t].total]
  <1>1. Native \notin Issued
    BY DEF Native, Issued
  <1>2. HereSeen[t] = tokens[t].total
    BY <1>1 DEF HereSeen
  <1> DEFINE g == [HereSeen EXCEPT ![t] = tokens'[t].total]
  <1>3. /\ DOMAIN g = {Native} \cup Issued
        /\ g = [s \in {Native} \cup Issued |-> g[s]]
        /\ HereSeen' = [s \in {Native} \cup Issued |-> HereSeen'[s]]
    BY DEF HereSeen
  <1>4. \A s \in {Native} \cup Issued : HereSeen'[s] = g[s]
    BY <1>1 DEF HereSeen
  <1> QED BY <1>2, <1>3, <1>4

(* A deposit on the other chain.                                           *)
LEMMA DepositIdeal ==
  ASSUME IInv, NEW n \in DepositNonce, NEW call \in Call, ForeignDeposit(n, call)
  PROVE  Ideal!Next
  <1> DEFINE d == DepositRecord(call)
  <1>1. /\ log \in LogMap /\ vault \in [TokenId -> Int]
    BY DEF IInv, Records, LogMap
  <1>2. d.token = call.r_id.contract /\ d.amount = call.amount
    BY CallLaw DEF DepositRecord
  <1>3. /\ log[n] = NoCall /\ log' = [log EXCEPT ![n] = call]
        /\ call.r_id.contract = Native => vault[Native] >= call.amount
        /\ vault' = [vault EXCEPT ![call.r_id.contract] =
                       IF call.r_id.contract = Native THEN @ - call.amount ELSE @ + call.amount]
        /\ UNCHANGED <<executed, tokens, balances>>
    BY DEF ForeignDeposit, bridge, assets
  <1>4. LogSeen[n] = NoCall /\ LogSeen' = [LogSeen EXCEPT ![n] = d]
    BY <1>1, <1>3 DEF LogSeen, DepositRecord, LogMap
  <1>5. UNCHANGED <<CreditedSeen, HereSeen>>
    BY <1>3 DEF CreditedSeen, HereSeen
  <1>6. IF d.token = Native
        THEN vault[Native] >= d.amount /\ vault' = [vault EXCEPT ![Native] = @ - d.amount]
        ELSE vault' = [vault EXCEPT ![d.token] = @ + d.amount]
    BY <1>2, <1>3
  <1> HIDE DEF d
  <1>7. Ideal!Log(n, d)
    BY ONLY <1>4, <1>5, <1>6 DEF Ideal!Log, LogSeen, CreditedSeen, HereSeen
  <1>8. d \in DepositRecords
    BY DEF d, DepositRecords
  <1> QED BY <1>7, <1>8 DEF Ideal!Next

(* A call that is executed credits the deposit that was logged, which was  *)
(* not credited before; any other vote is not seen.                        *)
LEMMA RelayIdeal ==
  ASSUME IInv, NEW who \in Relayer, NEW n \in DepositNonce, NEW call \in Call, NEW f \in BOOLEAN,
         Relay(who, n, call, f), who \in Honest => log[n] = call
  PROVE  Ideal!Next \/ UNCHANGED Ideal!vars
  <1> DEFINE p == <<ForeignChain, n, call>>
  <1>1. /\ CB!Vote(who, ForeignChain, n, call.r_id, call, f) /\ Dispatch(n, call)
        /\ UNCHANGED <<log, vault>>
    BY DEF Relay, foreign
  <1>2. /\ Ballots'
        /\ \A q \in DepositKey \ {p} : executed'[q] = executed[q]
        /\ executed'[p] # executed[p] =>
             /\ executed'[p] = 1 /\ log[n] = call
             /\ \A c \in Call : executed[<<ForeignChain, n, c>>] = 0
    BY <1>1, VoteLaw DEF IInv, Types
  <1>3. CASE executed'[p] = executed[p]
    <2>1. UNCHANGED <<tokens, balances>>
      BY <1>1, <1>3 DEF Dispatch, assets
    <2>2. \A q \in DepositKey : executed'[q] = executed[q]
      BY <1>2, <1>3
    <2>3. executed \in [DepositKey -> {0, 1}] /\ executed' \in [DepositKey -> {0, 1}]
      BY <1>2 DEF IInv, Ballots
    <2>4. executed' = executed
      BY ONLY <2>2, <2>3
    <2> QED BY <1>1, <2>1, <2>4, UnseenStep
  <1>4. CASE executed'[p] # executed[p]
    <2> DEFINE t == call.r_id.contract
               a == call.amount
               d == DepositRecord(call)
    <2>1. /\ d.token = t /\ d.amount = a /\ d # NoCall /\ a \in Nat /\ t \in TokenId
          /\ log[n] = call
      BY <1>2, <1>4, CallLaw DEF DepositRecord, NoCall
    <2>2. LogSeen[n] = d /\ LogSeen' = LogSeen
      BY <1>1, <2>1 DEF LogSeen
    <2>3. n \notin CreditedSeen /\ CreditedSeen' = CreditedSeen \cup {n}
      <3>1. \A c \in Call : executed[<<ForeignChain, n, c>>] = 0
        BY <1>2, <1>4
      <3>2. n \notin CreditedSeen
        <4>1. \A c \in Call : ~(executed[<<ForeignChain, n, c>>] > 0)
          BY <3>1
        <4> QED BY ONLY <4>1 DEF CreditedSeen
      <3>3. executed'[<<ForeignChain, n, call>>] > 0
        BY <1>2, <1>4
      <3>4. n \in CreditedSeen'
        BY <3>3 DEF CreditedSeen
      <3>5. \A m \in DepositNonce \ {n}, c \in Call :
              executed'[<<ForeignChain, m, c>>] = executed[<<ForeignChain, m, c>>]
        BY <1>2 DEF DepositKey
      <3>6. \A m : m # n => (m \in CreditedSeen' <=> m \in CreditedSeen)
        BY <3>5 DEF CreditedSeen
      <3> QED BY ONLY <3>2, <3>4, <3>6
    <2>4. transfer_in(call) /\ Types
      BY <1>1, <1>4 DEF Dispatch, IInv
    <2>5. /\ t = Native => /\ tokens' = tokens
                           /\ balances'[Native][Bridge].free = balances[Native][Bridge].free - a
          /\ t # Native =>
               /\ t \in Issued /\ tokens' = [tokens EXCEPT ![t] = T!WithIssued(t, StandardOf(t, a))]
               /\ balances'[Native][Bridge].free = balances[Native][Bridge].free
      BY <2>4, TransferInLaw
    <2>6. balances[Native][Bridge].free \in Nat /\ Endowment[Bridge] \in Nat
      BY <2>4, EntryType, FiniteAccounts, AmountAssumption DEF Types, TokenId
    <2>7. HereSeen' = [HereSeen EXCEPT ![t] = IF t = Native THEN @ - a ELSE @ + StandardOf(t, a)]
      <3>1. CASE t = Native
        <4>1. /\ balances'[Native][Bridge].free - Endowment[Bridge]
                   = balances[Native][Bridge].free - Endowment[Bridge] - a
              /\ tokens' = tokens
          BY <2>1, <2>5, <2>6, <3>1
        <4> QED BY <3>1, <4>1 DEF HereSeen
      <3>2. CASE t # Native
        <4> DEFINE v == StandardOf(t, a)
        <4>1. /\ t \in Issued /\ v \in Nat /\ v \in Int /\ tokens[t].total \in Nat
              /\ tokens' = [tokens EXCEPT ![t] = T!WithIssued(t, v)]
          BY <2>1, <2>4, <2>5, <3>2, StandardType DEF Types, TokenInfo
        <4> HIDE DEF v
        <4>2. tokens[t].total + v \in Nat
          BY <4>1
        <4>3. tokens'[t].total = tokens[t].total + v /\ \A s \in Issued \ {t} : tokens'[s] = tokens[s]
          BY ONLY <2>4, <4>1, <4>2, TokensStep
        <4>4. HereSeen' = [HereSeen EXCEPT ![t] = @ + v]
          BY <2>5, <3>2, <4>1, <4>3, HereStep
        <4> QED BY <3>2, <4>4 DEF v
      <3> QED BY <3>1, <3>2
    <2>8. /\ LogSeen[n].token = t /\ LogSeen[n].amount = a /\ LogSeen[n] # NoCall
      BY <2>1, <2>2
    <2> HIDE DEF t, a, d
    <2>9. Ideal!Credit(n)
      BY ONLY <1>1, <2>2, <2>3, <2>7, <2>8 DEF Ideal!Credit, LogSeen, CreditedSeen, HereSeen
    <2> QED BY <2>9 DEF Ideal!Next
  <1> QED BY <1>3, <1>4

(* A withdrawal of what is left after the fee.                             *)
LEMMA TransferOutIdeal ==
  ASSUME IInv, NEW who \in User, NEW amount \in OutAmount, NEW r \in ResourceId, NEW dest,
         transfer_out(who, amount, r, dest)
  PROVE  Ideal!Next
  <1> DEFINE t == r.contract
             net == amount - calculate_bridging_fee(t)
  <1>1. CB!transfer_fungible(dest) /\ log' = log
    BY DEF transfer_out
  <1>2. UNCHANGED <<LogSeen, CreditedSeen>>
    BY <1>1 DEF CB!transfer_fungible, CB!bump_nonce, CB!inbound, LogSeen, CreditedSeen
  <1>3. Types
    BY DEF IInv
  <1>4. /\ t \in TokenId /\ net \in Nat /\ net > 0 /\ net <= amount
        /\ t = Native =>
             /\ tokens' = tokens
             /\ balances'[Native][Bridge].free = balances[Native][Bridge].free + net
             /\ vault' = [vault EXCEPT ![t] = @ + net]
        /\ t # Native =>
             /\ t \in Issued
             /\ tokens[t].total - StandardOf(t, net) \in Nat
             /\ tokens' = [tokens EXCEPT ![t] = T!WithIssued(t, -StandardOf(t, net))]
             /\ balances'[Native][Bridge].free = balances[Native][Bridge].free
             /\ vault' = [vault EXCEPT ![t] = @ - net]
    BY <1>3, TransferOutLaw
  <1> HIDE DEF t, net
  <1>5. net \in UpToOut
    BY <1>4, AmountAssumption DEF UpToOut
  <1>6. balances[Native][Bridge].free \in Nat /\ Endowment[Bridge] \in Nat
    BY <1>3, EntryType, FiniteAccounts, AmountAssumption DEF Types, TokenId
  <1>7. t \in Issued \cup {Native}
    BY <1>4 DEF TokenId
  <1>8. PICK m \in UpToOut : m = net
    BY <1>5
  <1>9. CASE t = Native
    <2>1. /\ balances'[Native][Bridge].free - Endowment[Bridge]
               = balances[Native][Bridge].free - Endowment[Bridge] + net
          /\ tokens' = tokens
      BY <1>4, <1>6, <1>9
    <2>2. HereSeen' = [HereSeen EXCEPT ![t] = @ + net]
      BY <1>9, <2>1 DEF HereSeen
    <2>3. vault' = [vault EXCEPT ![t] = @ + net]
      BY <1>4, <1>9
    <2>4. Ideal!Withdraw(t, m)
      BY ONLY <1>2, <1>9, <1>8, <2>2, <2>3 DEF Ideal!Withdraw, LogSeen, CreditedSeen, HereSeen
    <2> QED BY ONLY <1>7, <2>4, m \in UpToOut DEF Ideal!Next
  <1>10. CASE t # Native
    <2> DEFINE v == StandardOf(t, net)
               w == -v
    <2>1. /\ t \in Issued /\ v \in Nat /\ w \in Int /\ tokens[t].total \in Nat
          /\ tokens[t].total - v \in Nat
          /\ tokens' = [tokens EXCEPT ![t] = T!WithIssued(t, w)]
      BY <1>3, <1>4, <1>10, StandardType DEF Types, TokenInfo
    <2> HIDE DEF w
    <2>2. tokens[t].total + w \in Nat
      BY ONLY <2>1 DEF w
    <2>3. tokens'[t].total = tokens[t].total + w /\ \A s \in Issued \ {t} : tokens'[s] = tokens[s]
      BY ONLY <1>3, <2>1, <2>2, TokensStep
    <2>4. tokens'[t].total = tokens[t].total - v /\ tokens[t].total >= v
      BY ONLY <2>1, <2>3 DEF w
    <2> HIDE DEF v
    <2>5. HereSeen[t] >= v /\ HereSeen' = [HereSeen EXCEPT ![t] = @ - v]
      BY <1>4, <1>10, <2>1, <2>3, <2>4, HereStep
    <2>6. vault' = [vault EXCEPT ![t] = @ - net]
      BY <1>4, <1>10
    <2>7. Ideal!Withdraw(t, m)
      BY ONLY <1>2, <1>10, <1>8, <2>5, <2>6 DEF Ideal!Withdraw, LogSeen, CreditedSeen, HereSeen, v
    <2> QED BY ONLY <1>7, <2>7, m \in UpToOut DEF Ideal!Next
  <1> QED BY <1>9, <1>10

(* Every step is a step of the ideal bridge, or one it does not see.       *)
LEMMA NextIdeal == IInv /\ [Next]_vars => [Ideal!Next]_(Ideal!vars)
  <1> SUFFICES ASSUME IInv, [Next]_vars PROVE Ideal!Next \/ UNCHANGED Ideal!vars
    OBVIOUS
  <1>1. ASSUME UNCHANGED <<log, executed, tokens, balances, vault>> PROVE UNCHANGED Ideal!vars
    BY <1>1, UnseenStep
  <1>2. CASE Environment
    <2>1. ASSUME NEW n \in DepositNonce, NEW call \in Call, ForeignDeposit(n, call) PROVE Ideal!Next
      BY <2>1, DepositIdeal
    <2>2. ASSUME NEW t \in TokenId, NEW trade \in Trades, PriceMoves(t, trade) PROVE UNCHANGED Ideal!vars
      BY <1>1, <2>2 DEF PriceMoves, bridge, assets, foreign
    <2>3. ASSUME NEW d \in Dominator, StatusMoves(d) PROVE UNCHANGED Ideal!vars
      BY <1>1, <2>3 DEF StatusMoves, bridge, assets, foreign
    <2>4. ASSUME NEW d \in Dominator, NEW u \in User, ReceiptTaken(d, u) PROVE UNCHANGED Ideal!vars
      BY <1>1, <2>4 DEF ReceiptTaken, bridge, assets, foreign
    <2>5. ASSUME NEW u \in User, NEW d \in Dominator, NEW t \in TokenId, NEW v \in OutAmount,
                 UserAuthorizes(u, d, t, v)
          PROVE  UNCHANGED Ideal!vars
      <3>1. /\ balances' = Reserved(balances, u, t, v) /\ balances[t][u].free >= v
            /\ UNCHANGED <<log, executed, tokens, vault>>
        BY <2>5 DEF UserAuthorizes, CanAuthorize, bridge, foreign
      <3>2. /\ balances \in BalanceMap /\ u \in Account /\ Bridge \in Account /\ u # Bridge
            /\ v \in Nat /\ Native \in TokenId
        BY FiniteAccounts, AccountAssumption, AmountAssumption DEF IInv, Types, TokenId
      <3>3. balances'[Native][Bridge] = balances[Native][Bridge]
        BY <3>1, <3>2, ReserveLaw
      <3> QED BY <3>1, <3>3, UnseenStep
    <2> QED BY <1>2, <2>1, <2>2, <2>3, <2>4, <2>5 DEF Environment, TokenId
  <1>3. CASE Administer
    <2>1. UNCHANGED <<log, executed, tokens, balances, vault>>
      BY <1>3 DEF Administer, native_limit, associate_dominator, bridge, assets, foreign
    <2> QED BY <1>1, <2>1
  <1>4. CASE In
    BY <1>4, InIsRelay, RelayIdeal
  <1>5. CASE Out
    BY <1>5, TransferOutIdeal DEF Out
  <1>6. CASE NextBlock
    BY <1>1, <1>6 DEF NextBlock, CB!NextBlock, CB!inbound, assets, foreign
  <1>7. CASE UNCHANGED vars
    BY <1>1, <1>7 DEF vars, bridge, assets, foreign
  <1> QED BY <1>2, <1>3, <1>4, <1>5, <1>6, <1>7 DEF Next

(* The handler and the votes behind it implement the ideal bridge.         *)
THEOREM ImplementsIdeal == Spec => IdealSpec
  <1> QED BY Invariant, InitIdeal, NextIdeal, PTL DEF Spec, IdealSpec, Ideal!Spec
=============================================================================
