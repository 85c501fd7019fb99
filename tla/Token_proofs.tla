---------------------------- MODULE Token_proofs ----------------------------
(***************************************************************************)
(* Proofs about Token for any accounts, contracts, amounts and number of   *)
(* token ids: the registry names every contract once, and no token is held *)
(* beyond its issuance, so no balance leaves its range.                    *)
(***************************************************************************)
EXTENDS Token, SumTheorems

-----------------------------------------------------------------------------
(* The inductive invariant.                                                *)

(* Ids that were not given out yet carry nothing.                          *)
Unissued == \A t \in Issued : t >= next_token_id => tokens[t] = NoInfo

(* A FND10 token has no units: a mint of it is refused for its zero total. *)
NoFoundationUnits == \A t \in Issued : tokens[t].kind = "FND10" => tokens[t].total = 0

(* A NEP141 token carries a contract.                                      *)
ContractCarried == \A t \in Issued : tokens[t].kind = "NEP141" => tokens[t].contract \in Contract

IInv ==
  /\ TypeOK
  /\ Unissued /\ NoFoundationUnits /\ ContractCarried
  /\ NameRoundTrip
  /\ IssuanceCovers

-----------------------------------------------------------------------------
(* Balances of any size, and what is held of a token in them.              *)

BalanceMap == [TokenId -> [Account -> [free : Nat, reserved : Nat]]]
Worth(bal, t, a) == bal[t][a].free + bal[t][a].reserved
HeldOf(bal, t) == SumFunction([a \in Account |-> Worth(bal, t, a)])

(* new differs from bal at most in the entries of token t that A names.    *)
Touches(bal, new, t, A) ==
  \A s \in TokenId, b \in Account : (s # t \/ b \notin A) => new[s][b] = bal[s][b]

(* The entries are natural numbers, and what each account holds is part of *)
(* what all hold.                                                          *)
LEMMA HeldElement ==
  ASSUME NEW bal \in BalanceMap, NEW t \in TokenId
  PROVE  /\ HeldOf(bal, t) \in Nat
         /\ \A a \in Account : /\ bal[t][a] \in [free : Nat, reserved : Nat]
                               /\ bal[t][a].free \in Nat /\ bal[t][a].reserved \in Nat
                               /\ Worth(bal, t, a) \in Nat
                               /\ Worth(bal, t, a) <= HeldOf(bal, t)
  <1> DEFINE f == [a \in Account |-> Worth(bal, t, a)]
  <1>1. \A a \in Account : /\ bal[t][a] \in [free : Nat, reserved : Nat]
                           /\ bal[t][a].free \in Nat /\ bal[t][a].reserved \in Nat
                           /\ Worth(bal, t, a) \in Nat
    BY DEF BalanceMap, Worth
  <1>2. f \in [Account -> Nat] /\ \A a \in Account : f[a] = Worth(bal, t, a)
    BY <1>1
  <1>3. SumFunction(f) = HeldOf(bal, t)
    BY DEF HeldOf
  <1> HIDE DEF f
  <1>4. IsFiniteSet(Account)
    BY TokenAssumption
  <1>5. SumFunction(f) \in Nat
    BY <1>2, <1>4, TotalNat
  <1>6. \A a \in Account : f[a] <= SumFunction(f)
    BY <1>2, <1>4, TotalElement
  <1> QED BY <1>1, <1>2, <1>3, <1>5, <1>6

(* Changing one entry changes what is held by the difference.              *)
LEMMA HeldOne ==
  ASSUME NEW bal \in BalanceMap, NEW new \in BalanceMap, NEW t \in TokenId,
         NEW a \in Account, Touches(bal, new, t, {a})
  PROVE  /\ HeldOf(new, t) = HeldOf(bal, t) + Worth(new, t, a) - Worth(bal, t, a)
         /\ \A s \in TokenId \ {t} : HeldOf(new, s) = HeldOf(bal, s)
  <1> DEFINE f == [b \in Account |-> Worth(bal, t, b)]
             g == [b \in Account |-> Worth(new, t, b)]
  <1>1. f \in [Account -> Int] /\ \A b \in Account : f[b] = Worth(bal, t, b)
    BY HeldElement
  <1>2. g \in [Account -> Int] /\ \A b \in Account : g[b] = Worth(new, t, b)
    BY HeldElement
  <1>3. SumFunction(f) = HeldOf(bal, t) /\ SumFunction(g) = HeldOf(new, t)
    BY DEF HeldOf
  <1>4. \A b \in Account \ {a} : Worth(new, t, b) = Worth(bal, t, b)
    BY DEF Touches, Worth
  <1> HIDE DEF f, g
  <1>5. SumFunction(g) = SumFunction(f) + g[a] - f[a]
    <2>1. \A b \in Account \ {a} : g[b] = f[b]
      BY <1>1, <1>2, <1>4
    <2> QED BY <1>1, <1>2, <2>1, TotalUpdate, TokenAssumption
  <1>6. ASSUME NEW s \in TokenId \ {t} PROVE HeldOf(new, s) = HeldOf(bal, s)
    <2>1. [b \in Account |-> Worth(new, s, b)] = [b \in Account |-> Worth(bal, s, b)]
      BY DEF Touches, Worth
    <2> QED BY <2>1 DEF HeldOf
  <1> QED BY <1>1, <1>2, <1>3, <1>5, <1>6

(* A move between two accounts leaves what is held alone.                  *)
LEMMA HeldTwo ==
  ASSUME NEW bal \in BalanceMap, NEW new \in BalanceMap, NEW t \in TokenId,
         NEW a \in Account, NEW b \in Account, a # b, Touches(bal, new, t, {a, b}),
         Worth(new, t, a) + Worth(new, t, b) = Worth(bal, t, a) + Worth(bal, t, b)
  PROVE  \A s \in TokenId : HeldOf(new, s) = HeldOf(bal, s)
  <1> DEFINE f == [c \in Account |-> Worth(bal, t, c)]
             g == [c \in Account |-> Worth(new, t, c)]
  <1>1. f \in [Account -> Int] /\ \A c \in Account : f[c] = Worth(bal, t, c)
    BY HeldElement
  <1>2. g \in [Account -> Int] /\ \A c \in Account : g[c] = Worth(new, t, c)
    BY HeldElement
  <1>3. SumFunction(f) = HeldOf(bal, t) /\ SumFunction(g) = HeldOf(new, t)
    BY DEF HeldOf
  <1>4. \A c \in Account \ {a, b} : Worth(new, t, c) = Worth(bal, t, c)
    BY DEF Touches, Worth
  <1> HIDE DEF f, g
  <1>5. SumFunction(g) = SumFunction(f)
    <2>1. \A c \in Account \ {a, b} : g[c] = f[c]
      BY <1>1, <1>2, <1>4
    <2>2. g[a] + g[b] = f[a] + f[b]
      BY <1>1, <1>2
    <2> QED BY <1>1, <1>2, <2>1, <2>2, TotalTransfer, TokenAssumption
  <1>6. ASSUME NEW s \in TokenId \ {t} PROVE HeldOf(new, s) = HeldOf(bal, s)
    <2>1. [c \in Account |-> Worth(new, s, c)] = [c \in Account |-> Worth(bal, s, c)]
      BY DEF Touches, Worth
    <2> QED BY <2>1 DEF HeldOf
  <1> QED BY <1>3, <1>5, <1>6

-----------------------------------------------------------------------------
(* The invariant in two halves: the registry, and the balances under it.   *)

RegistryInv ==
  /\ tokens \in [Issued -> [kind : Kind \cup {"None"}, total : Balance,
                            contract : Contract \cup {NoContract},
                            stable : BOOLEAN, decimals : 0..MaxDecimals]]
  /\ next_token_id \in 1..(MaxTokenId + 1)
  /\ by_name \in [Contract -> Issued \cup {NoToken}]
  /\ by_contract \in [Foreign -> TokenId \cup {NoToken}]
  /\ Unissued /\ NoFoundationUnits /\ ContractCarried
  /\ NameRoundTrip

BalanceInv ==
  /\ native_issuance \in Balance
  /\ balances \in BalanceMap
  /\ \A t \in TokenId : HeldOf(balances, t) <= total_issuance(t)

(* What reserved funds never suffer.                                       *)
ReservedStep ==
  \A t \in TokenId, a \in Account :
    balances'[t][a].reserved < balances[t][a].reserved => HeldOf(balances', t) = HeldOf(balances, t)

(* A balance that is part of an issuance in range is in range.             *)
LEMMA Halves == RegistryInv /\ BalanceInv <=> IInv
  <1>1. ASSUME RegistryInv, BalanceInv PROVE IInv
    <2>1. \A t \in TokenId : total_issuance(t) \in Balance
      BY <1>1 DEF RegistryInv, BalanceInv, total_issuance, TokenId, Native
    <2>2. balances \in [TokenId -> [Account -> [free : Balance, reserved : Balance]]]
      <3>1. balances \in BalanceMap
        BY <1>1 DEF BalanceInv
      <3>2. ASSUME NEW t \in TokenId, NEW a \in Account
            PROVE  balances[t][a] \in [free : Balance, reserved : Balance]
        <4>1. Worth(balances, t, a) <= HeldOf(balances, t) /\ HeldOf(balances, t) \in Nat
          BY <3>1, HeldElement
        <4>2. HeldOf(balances, t) <= total_issuance(t)
          BY <1>1 DEF BalanceInv
        <4>3. balances[t][a] \in [free : Nat, reserved : Nat]
          BY <3>1, HeldElement
        <4>4. balances[t][a].free \in Balance /\ balances[t][a].reserved \in Balance
          BY <2>1, <4>1, <4>2, <4>3, TokenAssumption DEF Balance, Worth
        <4> QED BY <4>3, <4>4
      <3>3. \A t \in TokenId : balances[t] \in [Account -> [free : Balance, reserved : Balance]]
        <4>1. ASSUME NEW t \in TokenId
              PROVE  balances[t] \in [Account -> [free : Balance, reserved : Balance]]
          <5>1. balances[t] \in [Account -> [free : Nat, reserved : Nat]]
            BY <3>1 DEF BalanceMap
          <5>2. \A a \in Account : balances[t][a] \in [free : Balance, reserved : Balance]
            BY <3>2
          <5> QED BY <5>1, <5>2
        <4> QED BY <4>1
      <3> QED BY <3>1, <3>3 DEF BalanceMap
    <2>3. IssuanceCovers
      BY <1>1 DEF BalanceInv, IssuanceCovers, Held, HeldOf, Worth
    <2> QED BY <1>1, <2>2, <2>3 DEF IInv, TypeOK, RegistryInv, BalanceInv
  <1>2. ASSUME IInv PROVE RegistryInv /\ BalanceInv
    <2>1. RegistryInv
      BY <1>2 DEF IInv, TypeOK, RegistryInv
    <2>2. balances \in BalanceMap
      <3>1. Balance \subseteq Nat
        BY TokenAssumption DEF Balance
      <3>2. balances \in [TokenId -> [Account -> [free : Balance, reserved : Balance]]]
        BY <1>2 DEF IInv, TypeOK
      <3>3. [free : Balance, reserved : Balance] \subseteq [free : Nat, reserved : Nat]
        BY <3>1
      <3> QED BY <3>2, <3>3 DEF BalanceMap
    <2>3. \A t \in TokenId : HeldOf(balances, t) <= total_issuance(t)
      BY <1>2 DEF IInv, IssuanceCovers, Held, HeldOf, Worth
    <2> QED BY <1>2, <2>1, <2>2, <2>3 DEF IInv, TypeOK, BalanceInv
  <1> QED BY <1>1, <1>2

-----------------------------------------------------------------------------
(* Two shapes of a step on balances, and what each leaves true.            *)

BalanceKept == BalanceInv' /\ ReservedStep

(* One entry changes, and the issuance of its token by at least as much.   *)
LEMMA KeepsOne ==
  ASSUME RegistryInv, BalanceInv, NEW t \in TokenId, NEW a \in Account,
         balances' \in BalanceMap, Touches(balances, balances', t, {a}),
         native_issuance' \in Balance,
         \A s \in TokenId : total_issuance(s) \in Int /\ total_issuance(s)' \in Int,
         \A s \in TokenId \ {t} : total_issuance(s)' = total_issuance(s),
         Worth(balances', t, a) - Worth(balances, t, a) <= total_issuance(t)' - total_issuance(t),
         Worth(balances', t, a) = Worth(balances, t, a)
           \/ balances'[t][a].reserved >= balances[t][a].reserved
  PROVE  BalanceKept
  <1>1. balances \in BalanceMap
    BY DEF BalanceInv
  <1>2. HeldOf(balances', t) = HeldOf(balances, t) + Worth(balances', t, a) - Worth(balances, t, a)
    BY <1>1, HeldOne
  <1>3. \A s \in TokenId \ {t} : HeldOf(balances', s) = HeldOf(balances, s)
    BY <1>1, HeldOne
  <1>4. \A s \in TokenId : HeldOf(balances, s) \in Nat /\ HeldOf(balances, s) <= total_issuance(s)
    BY <1>1, HeldElement DEF BalanceInv
  <1>5. Worth(balances', t, a) \in Nat /\ Worth(balances, t, a) \in Nat
    BY <1>1, HeldElement
  <1>6. \A s \in TokenId : HeldOf(balances', s) <= total_issuance(s)'
    <2>1. HeldOf(balances', t) <= total_issuance(t)'
      BY <1>2, <1>4, <1>5
    <2>2. \A s \in TokenId \ {t} : HeldOf(balances', s) <= total_issuance(s)'
      BY <1>3, <1>4
    <2> QED BY <2>1, <2>2
  <1>7. BalanceInv'
    BY <1>6 DEF BalanceInv
  <1>8. ReservedStep
    <2> SUFFICES ASSUME NEW s \in TokenId, NEW b \in Account,
                        balances'[s][b].reserved < balances[s][b].reserved
                 PROVE  HeldOf(balances', s) = HeldOf(balances, s)
      BY DEF ReservedStep
    <2>1. CASE s # t
      BY <1>3, <2>1
    <2>2. CASE s = t /\ b # a
      <3>1. balances'[s][b] = balances[s][b]
        BY <2>2 DEF Touches
      <3>2. balances[s][b].reserved \in Nat
        BY <1>1, HeldElement
      <3> QED BY <3>1, <3>2
    <2>3. CASE s = t /\ b = a
      <3>1. balances[t][a].reserved \in Nat /\ balances'[t][a].reserved \in Nat
        BY <1>1, HeldElement
      <3>2. Worth(balances', t, a) = Worth(balances, t, a)
        BY <2>3, <3>1
      <3> QED BY <1>2, <1>4, <1>5, <2>3, <3>2
    <2> QED BY <2>1, <2>2, <2>3
  <1> QED BY <1>7, <1>8 DEF BalanceKept

(* Two entries change and together hold as much as before.                 *)
LEMMA KeepsTwo ==
  ASSUME RegistryInv, BalanceInv, NEW t \in TokenId, NEW a \in Account, NEW b \in Account, a # b,
         balances' \in BalanceMap, Touches(balances, balances', t, {a, b}),
         Worth(balances', t, a) + Worth(balances', t, b)
           = Worth(balances, t, a) + Worth(balances, t, b),
         UNCHANGED <<registry, native_issuance>>
  PROVE  BalanceKept
  <1>1. balances \in BalanceMap
    BY DEF BalanceInv
  <1>2. \A s \in TokenId : HeldOf(balances', s) = HeldOf(balances, s)
    BY <1>1, HeldTwo
  <1>3. \A s \in TokenId : total_issuance(s)' = total_issuance(s)
    BY DEF total_issuance, registry
  <1>4. BalanceInv'
    BY <1>2, <1>3 DEF BalanceInv
  <1> QED BY <1>2, <1>4 DEF BalanceKept, ReservedStep

(* The registry half does not read the balances.                           *)
LEMMA SameRegistry ==
  ASSUME RegistryInv, UNCHANGED registry
  PROVE  RegistryInv'
  BY DEF RegistryInv, registry, Unissued, NoFoundationUnits, ContractCarried, NameRoundTrip

(* Issuances are integers, and stay what they are with the registry.       *)
LEMMA IssuanceTypes ==
  ASSUME RegistryInv, BalanceInv
  PROVE  /\ \A s \in TokenId : total_issuance(s) \in Int
         /\ UNCHANGED <<registry, native_issuance>>
              => \A s \in TokenId : total_issuance(s)' = total_issuance(s)
  BY DEF RegistryInv, BalanceInv, total_issuance, TokenId, Native, Balance, registry

-----------------------------------------------------------------------------
(* The steps on balances alone.                                            *)

(* reserve moves free funds to the reserved half of the same entry.        *)
LEMMA ReserveKeeps ==
  ASSUME IInv, NEW t \in TokenId, NEW a \in Account, NEW v \in Amount, reserve(t, a, v)
  PROVE  RegistryInv' /\ BalanceKept
  <1>1. RegistryInv /\ BalanceInv
    BY Halves
  <1>2. RegistryInv'
    BY <1>1, SameRegistry DEF reserve, registry
  <1>3. balances \in BalanceMap /\ v \in Nat
    BY <1>1, TokenAssumption DEF BalanceInv
  <1>4. balances[t][a].free - v \in Nat /\ balances[t][a].reserved + v \in Nat
    BY <1>3, HeldElement DEF reserve
  <1> DEFINE e == [free |-> balances[t][a].free - v, reserved |-> balances[t][a].reserved + v]
  <1>5. balances' = [balances EXCEPT ![t][a] = e]
    BY <1>3 DEF reserve, BalanceMap
  <1>6. e \in [free : Nat, reserved : Nat]
    BY <1>4
  <1>7. balances' \in BalanceMap /\ Touches(balances, balances', t, {a}) /\ balances'[t][a] = e
    BY <1>3, <1>5, <1>6 DEF BalanceMap, Touches
  <1>8. Worth(balances', t, a) = Worth(balances, t, a)
    BY <1>3, <1>4, <1>7, HeldElement DEF Worth
  <1>9. Worth(balances, t, a) \in Nat
    BY <1>3, HeldElement
  <1>10. UNCHANGED <<registry, native_issuance>>
    BY DEF reserve
  <1>11. /\ \A s \in TokenId : total_issuance(s) \in Int
         /\ \A s \in TokenId : total_issuance(s)' = total_issuance(s)
    BY <1>1, <1>10, IssuanceTypes
  <1>12. native_issuance' \in Balance
    BY <1>1, <1>10 DEF BalanceInv
  <1> HIDE DEF e
  <1> QED BY <1>1, <1>2, <1>7, <1>8, <1>9, <1>11, <1>12, KeepsOne

(* unreserve moves them back.                                              *)
LEMMA UnreserveKeeps ==
  ASSUME IInv, NEW t \in TokenId, NEW a \in Account, NEW v \in Amount, unreserve(t, a, v)
  PROVE  RegistryInv' /\ BalanceKept
  <1>1. RegistryInv /\ BalanceInv
    BY Halves
  <1>2. RegistryInv'
    BY <1>1, SameRegistry DEF unreserve, registry
  <1>3. balances \in BalanceMap /\ v \in Nat
    BY <1>1, TokenAssumption DEF BalanceInv
  <1>4. balances[t][a].free + v \in Nat /\ balances[t][a].reserved - v \in Nat
    BY <1>3, HeldElement DEF unreserve
  <1> DEFINE e == [free |-> balances[t][a].free + v, reserved |-> balances[t][a].reserved - v]
  <1>5. balances' = [balances EXCEPT ![t][a] = e]
    BY <1>3 DEF unreserve, BalanceMap
  <1>6. e \in [free : Nat, reserved : Nat]
    BY <1>4
  <1>7. balances' \in BalanceMap /\ Touches(balances, balances', t, {a}) /\ balances'[t][a] = e
    BY <1>3, <1>5, <1>6 DEF BalanceMap, Touches
  <1>8. Worth(balances', t, a) = Worth(balances, t, a)
    BY <1>3, <1>4, <1>7, HeldElement DEF Worth
  <1>9. Worth(balances, t, a) \in Nat
    BY <1>3, HeldElement
  <1>10. UNCHANGED <<registry, native_issuance>>
    BY DEF unreserve
  <1>11. /\ \A s \in TokenId : total_issuance(s) \in Int
         /\ \A s \in TokenId : total_issuance(s)' = total_issuance(s)
    BY <1>1, <1>10, IssuanceTypes
  <1>12. native_issuance' \in Balance
    BY <1>1, <1>10 DEF BalanceInv
  <1> HIDE DEF e
  <1> QED BY <1>1, <1>2, <1>7, <1>8, <1>9, <1>11, <1>12, KeepsOne

(* new is bal after a move of funds between two accounts.                  *)
IsMove(bal, new, t, a, b) ==
  /\ new \in BalanceMap
  /\ Touches(bal, new, t, {a, b})
  /\ Worth(new, t, a) + Worth(new, t, b) = Worth(bal, t, a) + Worth(bal, t, b)

(* A move from one account to another, out of either half of the sender's  *)
(* entry and into either half of the receiver's.                           *)
LEMMA MovedLaw ==
  ASSUME NEW bal \in BalanceMap, NEW t \in TokenId, NEW a \in Account, NEW b \in Account, a # b,
         NEW f \in {"free", "reserved"}, NEW g \in {"free", "reserved"}, NEW v \in Nat,
         bal[t][a][f] >= v
  PROVE  IsMove(bal, Moved(bal, t, a, f, b, g, v), t, a, b)
  <1> DEFINE new == Moved(bal, t, a, f, b, g, v)
             x == Debit(bal, t, a, f, v)
             y == Credit(bal, t, b, g, v)
  <1>1. /\ bal[t][a] \in [free : Nat, reserved : Nat]
        /\ bal[t][b] \in [free : Nat, reserved : Nat]
    BY HeldElement
  <1>2. /\ x \in [free : Nat, reserved : Nat]
        /\ x.free + x.reserved = bal[t][a].free + bal[t][a].reserved - v
    <2>1. CASE f = "free"
      BY <1>1, <2>1 DEF Debit
    <2>2. CASE f = "reserved"
      BY <1>1, <2>2 DEF Debit
    <2> QED BY <2>1, <2>2
  <1>3. /\ y \in [free : Nat, reserved : Nat]
        /\ y.free + y.reserved = bal[t][b].free + bal[t][b].reserved + v
    <2>1. CASE g = "free"
      BY <1>1, <2>1 DEF Credit
    <2>2. CASE g = "reserved"
      BY <1>1, <2>2 DEF Credit
    <2> QED BY <2>1, <2>2
  <1>4. new = [[bal EXCEPT ![t][b] = y] EXCEPT ![t][a] = x]
    BY DEF Moved
  <1> HIDE DEF x, y, new
  <1>5. new \in BalanceMap /\ Touches(bal, new, t, {a, b}) /\ new[t][a] = x /\ new[t][b] = y
    BY <1>2, <1>3, <1>4 DEF BalanceMap, Touches
  <1>6. Worth(new, t, a) + Worth(new, t, b) = Worth(bal, t, a) + Worth(bal, t, b)
    BY <1>1, <1>2, <1>3, <1>5 DEF Worth
  <1> QED BY <1>5, <1>6 DEF new, IsMove

(* transfer moves funds between accounts, does nothing for a native        *)
(* transfer to oneself, and destroys what an account sends itself of an    *)
(* issued token: then less is held and as much was issued.                 *)
LEMMA TransferKeeps ==
  ASSUME IInv, NEW t \in TokenId, NEW a \in Account, NEW b \in Account, NEW v \in Amount,
         transfer(a, t, b, v)
  PROVE  RegistryInv' /\ BalanceKept
  <1>1. RegistryInv /\ BalanceInv
    BY Halves
  <1>2. RegistryInv'
    BY <1>1, SameRegistry DEF transfer, registry
  <1>3. balances \in BalanceMap /\ v \in Nat
    BY <1>1, TokenAssumption DEF BalanceInv
  <1>4. UNCHANGED <<registry, native_issuance>>
    BY DEF transfer
  <1>5. /\ \A s \in TokenId : total_issuance(s) \in Int
        /\ \A s \in TokenId : total_issuance(s)' = total_issuance(s)
    BY <1>1, <1>4, IssuanceTypes
  <1>6. native_issuance' \in Balance
    BY <1>1, <1>4 DEF BalanceInv
  <1>7. CASE t = Native /\ a = b
    <2>1. balances' = balances
      BY <1>7 DEF transfer, transfer_token, Transferred, NativeMoved
    <2>2. BalanceInv'
      BY <1>1, <1>5, <1>6, <2>1 DEF BalanceInv
    <2>3. ReservedStep
      BY <2>1 DEF ReservedStep
    <2> QED BY <1>2, <2>2, <2>3 DEF BalanceKept
  <1>8. CASE a # b
    <2>1. balances' = Moved(balances, t, a, "free", b, "free", v)
      BY <1>8 DEF transfer, transfer_token, Transferred, NativeMoved
    <2>2. balances[t][a].free >= v
      BY <1>8 DEF transfer, transfer_token, CanTransfer
    <2>3. IsMove(balances, balances', t, a, b)
      BY <1>3, <1>8, <2>1, <2>2, MovedLaw
    <2> QED BY <1>1, <1>2, <1>4, <1>8, <2>3, KeepsTwo DEF IsMove
  <1>9. CASE t # Native /\ a = b
    <2> DEFINE e == [free |-> balances[t][a].free - v, reserved |-> balances[t][a].reserved]
    <2>1. balances[t][a].free >= v
      BY <1>9 DEF transfer, transfer_token, CanTransfer
    <2>2. e \in [free : Nat, reserved : Nat] /\ balances[t][a] \in [free : Nat, reserved : Nat]
      BY <1>3, <2>1, HeldElement
    <2>3. Debit(balances, t, a, "free", v) = e
      BY <2>2 DEF Debit
    <2>4. balances' = [[balances EXCEPT ![t][a] = Credit(balances, t, a, "free", v)] EXCEPT ![t][a] = e]
      BY <1>9, <2>3 DEF transfer, transfer_token, Transferred, Moved
    <2>5. balances' \in BalanceMap /\ Touches(balances, balances', t, {a}) /\ balances'[t][a] = e
      BY <1>3, <2>2, <2>4 DEF BalanceMap, Touches
    <2>6. /\ Worth(balances', t, a) = Worth(balances, t, a) - v
          /\ balances'[t][a].reserved >= balances[t][a].reserved
          /\ Worth(balances, t, a) \in Nat
      BY <1>3, <2>2, <2>5 DEF Worth
    <2>7. Worth(balances', t, a) - Worth(balances, t, a) <= total_issuance(t)' - total_issuance(t)
      BY <1>3, <1>5, <2>6
    <2> HIDE DEF e
    <2> QED BY <1>1, <1>2, <1>5, <1>6, <2>5, <2>6, <2>7, KeepsOne
  <1> QED BY <1>7, <1>8, <1>9

(* repatriate_reserved is unreserve or reserve for an account's own funds  *)
(* and a move otherwise.                                                   *)
LEMMA RepatriateKeeps ==
  ASSUME IInv, NEW t \in TokenId, NEW a \in Account, NEW b \in Account, NEW v \in Amount,
         NEW status \in {"free", "reserved"}, repatriate_reserved(t, a, b, v, status)
  PROVE  RegistryInv' /\ BalanceKept
  <1>1. CASE unreserve(t, a, v)
    BY <1>1, UnreserveKeeps
  <1>2. CASE reserve(t, a, v)
    BY <1>2, ReserveKeeps
  <1>3. CASE /\ a # b
             /\ balances[t][a].reserved >= v
             /\ balances' = Moved(balances, t, a, "reserved", b, status, v)
             /\ UNCHANGED <<registry, native_issuance>>
    <2>1. RegistryInv /\ BalanceInv
      BY Halves
    <2>2. RegistryInv'
      BY <1>3, <2>1, SameRegistry
    <2>3. balances \in BalanceMap /\ v \in Nat
      BY <2>1, TokenAssumption DEF BalanceInv
    <2>4. IsMove(balances, balances', t, a, b)
      <3>1. a # b /\ balances[t][a]["reserved"] >= v /\ "reserved" \in {"free", "reserved"}
        BY <1>3
      <3>2. IsMove(balances, Moved(balances, t, a, "reserved", b, status, v), t, a, b)
        BY <2>3, <3>1, MovedLaw
      <3> QED BY <1>3, <3>2
    <2> QED BY <1>3, <2>1, <2>2, <2>4, KeepsTwo DEF IsMove
  <1> QED BY <1>1, <1>2, <1>3 DEF repatriate_reserved

-----------------------------------------------------------------------------
(* Minting and burning.                                                    *)

(* What a mint or burn adds or takes is a number.                          *)
LEMMA UnifiedType ==
  ASSUME RegistryInv, NEW t \in Issued, NEW v \in Amount
  PROVE  Unified(t, v) \in Int
  <1>1. /\ tokens[t].total \in Int /\ tokens[t].decimals \in 0..MaxDecimals
    BY DEF RegistryInv, Balance
  <1>2. v \in Nat /\ StandardDecimals \in Nat /\ BalanceRange \in Nat \ {0} /\ MaxDecimals \in Nat
    BY TokenAssumption
  <1> DEFINE n == tokens[t].decimals
             up == Radix^(StandardDecimals - n)
             down == Radix^(n - StandardDecimals)
  <1>3. n \in 0..MaxDecimals
    BY <1>1
  <1>4. CASE n > StandardDecimals
    <2>1. n - StandardDecimals \in 0..MaxDecimals
      BY <1>2, <1>3, <1>4
    <2>2. down \in Nat \ {0}
      BY <2>1, RadixAssumption
    <2>3. unify_decimals(v, n) = v \div down
      BY <1>4 DEF unify_decimals
    <2> HIDE DEF down
    <2>4. v \div down \in Int
      BY <1>2, <2>2
    <2> QED BY <1>1, <2>3, <2>4 DEF Unified
  <1>5. CASE ~(n > StandardDecimals)
    <2>1. StandardDecimals - n \in Nat
      BY <1>2, <1>3, <1>5
    <2>2. up \in Int
      BY <2>1, TokenAssumption
    <2>3. unify_decimals(v, n) = (v * up) % BalanceRange
      BY <1>5 DEF unify_decimals
    <2> HIDE DEF up
    <2>4. v * up \in Int
      BY <1>2, <2>2
    <2>5. (v * up) % BalanceRange \in Int
      BY <1>2, <2>4
    <2> QED BY <1>1, <2>3, <2>5 DEF Unified
  <1> QED BY <1>4, <1>5

(* The registry after the total of one token alone has changed.            *)
LEMMA TotalKeeps ==
  ASSUME RegistryInv, NEW t \in Issued, NEW n \in Balance, tokens[t].kind # "FND10",
         tokens[t].kind # "None",
         tokens' = [tokens EXCEPT ![t].total = n],
         UNCHANGED <<next_token_id, by_name, by_contract>>
  PROVE  RegistryInv'
  <1> DEFINE r == [tokens[t] EXCEPT !.total = n]
  <1>1. tokens' = [tokens EXCEPT ![t] = r]
    BY DEF RegistryInv
  <1>2. /\ r \in [kind : Kind \cup {"None"}, total : Balance, contract : Contract \cup {NoContract},
                  stable : BOOLEAN, decimals : 0..MaxDecimals]
        /\ r.kind = tokens[t].kind /\ r.contract = tokens[t].contract
    BY DEF RegistryInv
  <1> HIDE DEF r
  <1>3. tokens' \in [Issued -> [kind : Kind \cup {"None"}, total : Balance,
                            contract : Contract \cup {NoContract},
                            stable : BOOLEAN, decimals : 0..MaxDecimals]]
    BY <1>1, <1>2 DEF RegistryInv
  <1>4. /\ \A s \in Issued : tokens'[s].kind = tokens[s].kind /\ tokens'[s].contract = tokens[s].contract
        /\ \A s \in Issued \ {t} : tokens'[s] = tokens[s]
    BY <1>1, <1>2 DEF RegistryInv
  <1>5. Unissued'
    <2>1. ~(t >= next_token_id)
      BY DEF RegistryInv, Unissued, NoInfo
    <2> QED BY <1>4, <2>1 DEF RegistryInv, Unissued
  <1>6. NoFoundationUnits'
    BY <1>4 DEF RegistryInv, NoFoundationUnits
  <1>7. ContractCarried'
    BY <1>4 DEF RegistryInv, ContractCarried
  <1>8. NameRoundTrip'
    BY <1>4 DEF RegistryInv, NameRoundTrip
  <1> QED BY <1>3, <1>5, <1>6, <1>7, <1>8 DEF RegistryInv

(* Minting or burning w units: w is not zero, so the token has units, and  *)
(* total and balance move together.                                        *)
LEMMA IssuedKeeps ==
  ASSUME IInv, NEW t \in Issued, NEW a \in Account, NEW w \in Int,
         tokens[t].kind # "FND10", tokens[t].kind # "None",
         tokens[t].total + w \in Balance, balances[t][a].free + w \in Balance,
         tokens' = [tokens EXCEPT ![t].total = tokens[t].total + w],
         balances' = [balances EXCEPT ![t][a].free = balances[t][a].free + w],
         UNCHANGED <<next_token_id, by_name, by_contract, native_issuance>>
  PROVE  RegistryInv' /\ BalanceKept
  <1>1. RegistryInv /\ BalanceInv
    BY Halves
  <1>2. RegistryInv'
    BY <1>1, TotalKeeps
  <1>3. balances \in BalanceMap /\ t \in TokenId /\ t # Native
    BY <1>1, TokenAssumption DEF BalanceInv, TokenId, Issued, Native
  <1> DEFINE e == [free |-> balances[t][a].free + w, reserved |-> balances[t][a].reserved]
  <1>4. e \in [free : Nat, reserved : Nat] /\ balances[t][a] \in [free : Nat, reserved : Nat]
    BY <1>3, HeldElement, TokenAssumption DEF Balance
  <1>5. balances' = [balances EXCEPT ![t][a] = e]
    <2> DEFINE x == balances[t][a].free + w
    <2>1. balances' = [balances EXCEPT ![t][a].free = x]
      OBVIOUS
    <2>2. e = [free |-> x, reserved |-> balances[t][a].reserved]
      OBVIOUS
    <2> HIDE DEF x, e
    <2>3. [balances[t][a] EXCEPT !.free = x] = e
      BY ONLY <1>4, <2>2
    <2> QED BY ONLY <1>3, <2>1, <2>3 DEF BalanceMap
  <1>6. balances' \in BalanceMap /\ Touches(balances, balances', t, {a}) /\ balances'[t][a] = e
    BY <1>3, <1>4, <1>5 DEF BalanceMap, Touches
  <1>7. /\ Worth(balances', t, a) = Worth(balances, t, a) + w
        /\ balances'[t][a].reserved >= balances[t][a].reserved
        /\ Worth(balances, t, a) \in Nat
    BY <1>3, <1>4, <1>6 DEF Worth
  <1>8. /\ tokens'[t].total = tokens[t].total + w /\ \A s \in Issued \ {t} : tokens'[s] = tokens[s]
    BY <1>1 DEF RegistryInv
  <1>9. /\ \A s \in TokenId : total_issuance(s) \in Int
        /\ \A s \in TokenId \ {t} : total_issuance(s)' = total_issuance(s)
        /\ total_issuance(t)' = total_issuance(t) + w
    <2>1. \A s \in TokenId : total_issuance(s) \in Int
      BY <1>1, IssuanceTypes
    <2>2. \A s \in TokenId \ {t} : total_issuance(s)' = total_issuance(s)
      BY <1>8 DEF total_issuance, TokenId, Native
    <2>3. total_issuance(t)' = total_issuance(t) + w
      BY <1>3, <1>8 DEF total_issuance
    <2> QED BY <2>1, <2>2, <2>3
  <1>10. native_issuance' \in Balance
    BY <1>1 DEF BalanceInv
  <1> HIDE DEF e
  <1>11. /\ Worth(balances', t, a) - Worth(balances, t, a) <= total_issuance(t)' - total_issuance(t)
         /\ \A s \in TokenId : total_issuance(s)' \in Int
    BY <1>3, <1>7, <1>9
  <1> QED BY <1>1, <1>2, <1>3, <1>6, <1>7, <1>9, <1>10, <1>11, KeepsOne

(* A token that exists and whose unified amount is not zero has units.     *)
LEMMA HasUnits ==
  ASSUME RegistryInv, NEW t \in Issued, NEW v, Unified(t, v) # 0
  PROVE  tokens[t].kind # "FND10"
  BY DEF Unified, RegistryInv, NoFoundationUnits

(* do_mint adds the unified amount to the total and to one balance.        *)
LEMMA MintKeeps ==
  ASSUME IInv, NEW t \in TokenId, NEW a \in Account, NEW v \in Amount, do_mint(t, a, v)
  PROVE  RegistryInv' /\ BalanceKept
  <1> DEFINE w == Unified(t, v)
  <1>1. RegistryInv
    BY Halves
  <1>2. t \in Issued /\ tokens[t].kind # "None"
    BY DEF do_mint, CanMint, Exists
  <1>3. w \in Int
    BY <1>1, <1>2, UnifiedType
  <1>4. w # 0
    BY DEF do_mint, CanMint
  <1>5. tokens[t].kind # "FND10"
    BY <1>1, <1>2, <1>4, HasUnits
  <1>6. /\ tokens[t].total + w \in Balance
        /\ balances[t][a].free + w \in Balance
    BY <1>1, <1>2, <1>5 DEF do_mint, CanMint, WithIssued, RegistryInv
  <1>7. /\ tokens' = [tokens EXCEPT ![t].total = tokens[t].total + w]
        /\ balances' = [balances EXCEPT ![t][a].free = balances[t][a].free + w]
        /\ UNCHANGED <<next_token_id, by_name, by_contract, native_issuance>>
    BY <1>1, <1>2, <1>5 DEF do_mint, WithIssued, Minted, RegistryInv
  <1> HIDE DEF w
  <1> QED BY <1>2, <1>3, <1>5, <1>6, <1>7, IssuedKeeps

(* do_burn takes the unified amount from the total and from one balance.   *)
LEMMA BurnKeeps ==
  ASSUME IInv, NEW t \in TokenId, NEW a \in Account, NEW v \in Amount, do_burn(t, a, v)
  PROVE  RegistryInv' /\ BalanceKept
  <1> DEFINE u == Unified(t, v)
             w == -u
  <1>1. RegistryInv /\ BalanceInv
    BY Halves
  <1>2. t \in Issued /\ tokens[t].kind # "None"
    BY DEF do_burn, CanBurn, Exists
  <1>3. u \in Int
    BY <1>1, <1>2, UnifiedType
  <1>4. u # 0
    BY DEF do_burn, CanBurn
  <1>5. tokens[t].kind # "FND10"
    BY <1>1, <1>2, <1>4, HasUnits
  <1>a. tokens[t].total \in Int /\ balances[t][a].free \in Int
    <2>1. t \in TokenId /\ balances \in BalanceMap
      BY <1>1 DEF BalanceInv
    <2> QED BY <1>1, <1>2, <2>1, HeldElement DEF RegistryInv, Balance
  <1>6. /\ tokens[t].total + w \in Balance
        /\ balances[t][a].free - u \in Balance
    BY <1>1, <1>2, <1>5 DEF do_burn, CanBurn, WithIssued, RegistryInv
  <1>7. /\ tokens' = [tokens EXCEPT ![t].total = tokens[t].total + w]
        /\ balances' = [balances EXCEPT ![t][a].free = balances[t][a].free - u]
        /\ UNCHANGED <<next_token_id, by_name, by_contract, native_issuance>>
    BY <1>1, <1>2, <1>5 DEF do_burn, WithIssued, Burnt, RegistryInv
  <1> HIDE DEF u
  <1>8. balances[t][a].free - u = balances[t][a].free + w /\ w \in Int
    BY <1>3, <1>a
  <1> HIDE DEF w
  <1> QED BY <1>2, <1>5, <1>6, <1>7, <1>8, IssuedKeeps

-----------------------------------------------------------------------------
(* The registry.                                                           *)

(* The new id was blank, so no contract named it; the contract that now    *)
(* names it named nothing.                                                 *)
LEMMA CreateKeeps ==
  ASSUME RegistryInv, NEW kind \in Kind, NEW contract \in Contract \cup {NoContract}, NEW total,
         NEW stable \in BOOLEAN, NEW decimals \in Decimals,
         WellFormed(kind, contract, stable, decimals),
         create(kind, contract, total, stable, decimals), UNCHANGED by_contract
  PROVE  /\ RegistryInv'
         /\ \A s \in Issued : tokens'[s].total = tokens[s].total
  <1> DEFINE n == next_token_id
             r == [kind |-> kind, contract |-> contract, total |-> 0,
                   stable |-> stable, decimals |-> decimals]
  <1>1. n \in Issued /\ tokens[n] = NoInfo /\ n \in Nat
    BY DEF create, RegistryInv, Unissued, Issued
  <1>2. r \in [kind : Kind \cup {"None"}, total : Balance, contract : Contract \cup {NoContract},
               stable : BOOLEAN, decimals : 0..MaxDecimals]
    <2>1. decimals \in 0..MaxDecimals
      BY TokenAssumption DEF create, WellFormed, Kind
    <2>2. 0 \in Balance
      BY TokenAssumption DEF Balance
    <2> QED BY <2>1, <2>2
  <1>3. tokens' = [tokens EXCEPT ![n] = r] /\ next_token_id' = n + 1
    BY DEF create
  <1>4. r.kind = kind /\ r.contract = contract /\ r.total = 0
    OBVIOUS
  <1>5. NoInfo.kind = "None" /\ NoInfo.contract = NoContract /\ NoInfo.total = 0
    BY DEF NoInfo
  <1>6. NoContract \notin Contract
    BY TokenAssumption DEF NoContract
  <1>7. by_name' = IF kind = "NEP141" THEN [by_name EXCEPT ![contract] = n] ELSE by_name
    BY DEF create
  <1>8. kind = "NEP141" => contract \in Contract /\ by_name[contract] = NoToken
    BY DEF create, WellFormed
  <1> HIDE DEF r, n
  <1>9. tokens'[n] = r /\ \A s \in Issued \ {n} : tokens'[s] = tokens[s]
    BY <1>1, <1>3 DEF RegistryInv
  <1>10. tokens' \in [Issued -> [kind : Kind \cup {"None"}, total : Balance,
                            contract : Contract \cup {NoContract},
                            stable : BOOLEAN, decimals : 0..MaxDecimals]]
    BY <1>2, <1>3 DEF RegistryInv
  <1>11. next_token_id' \in 1..(MaxTokenId + 1) /\ by_contract' \in [Foreign -> TokenId \cup {NoToken}]
    BY <1>1, <1>3, TokenAssumption DEF RegistryInv, Issued
  <1>12. by_name' \in [Contract -> Issued \cup {NoToken}]
    BY <1>1, <1>7 DEF RegistryInv
  <1>13. Unissued'
    <2> SUFFICES ASSUME NEW s \in Issued, s >= next_token_id' PROVE tokens'[s] = NoInfo
      BY DEF Unissued
    <2>1. s # n /\ s >= next_token_id
      BY <1>1, <1>3 DEF n, Issued
    <2> QED BY <1>9, <2>1 DEF RegistryInv, Unissued
  <1>14. NoFoundationUnits'
    BY <1>4, <1>9 DEF RegistryInv, NoFoundationUnits
  <1>15. ContractCarried'
    BY <1>4, <1>8, <1>9 DEF RegistryInv, ContractCarried
  <1>16. NameRoundTrip'
    <2>1. ASSUME NEW c \in Contract, by_name'[c] # NoToken
          PROVE  tokens'[by_name'[c]].contract = c
      <3>1. CASE kind = "NEP141" /\ c = contract
        <4>1. by_name'[c] = n
          BY <1>7, <1>8, <3>1 DEF RegistryInv
        <4> QED BY <1>4, <1>9, <3>1, <4>1
      <3>2. CASE ~(kind = "NEP141" /\ c = contract)
        <4>1. by_name'[c] = by_name[c]
          BY <1>7, <3>2 DEF RegistryInv
        <4>2. by_name[c] \in Issued /\ tokens[by_name[c]].contract = c
          BY <2>1, <4>1 DEF RegistryInv, NameRoundTrip
        <4>3. by_name[c] # n
          BY <1>1, <1>5, <1>6, <4>2
        <4> QED BY <1>9, <4>1, <4>2, <4>3
      <3> QED BY <3>1, <3>2
    <2>2. ASSUME NEW s \in Issued, tokens'[s].kind = "NEP141"
          PROVE  by_name'[tokens'[s].contract] = s
      <3>1. CASE s = n
        BY <1>4, <1>7, <1>8, <1>9, <2>2, <3>1 DEF RegistryInv
      <3>2. CASE s # n
        <4>1. tokens'[s] = tokens[s]
          BY <1>9, <3>2
        <4>2. tokens[s].contract \in Contract /\ by_name[tokens[s].contract] = s
          BY <2>2, <4>1 DEF RegistryInv, NameRoundTrip, ContractCarried
        <4>3. s # NoToken
          BY DEF Issued, NoToken
        <4>4. by_name'[tokens[s].contract] = by_name[tokens[s].contract]
          BY <1>7, <1>8, <4>2, <4>3 DEF RegistryInv
        <4> QED BY <4>1, <4>2, <4>4
      <3> QED BY <3>1, <3>2
    <2> QED BY <2>1, <2>2 DEF NameRoundTrip
  <1>17. RegistryInv'
    BY <1>10, <1>11, <1>12, <1>13, <1>14, <1>15, <1>16 DEF RegistryInv
  <1>18. \A s \in Issued : tokens'[s].total = tokens[s].total
    BY <1>1, <1>4, <1>5, <1>9
  <1> QED BY <1>17, <1>18

(* issue burns native tokens that the issuer holds, so the native issuance *)
(* stays in range, and creates a token nobody holds.                       *)
LEMMA IssueKeeps ==
  ASSUME IInv, NEW who \in Account, NEW kind \in Kind, NEW contract \in Contract \cup {NoContract},
         NEW total, NEW stable \in BOOLEAN, NEW decimals \in Decimals,
         issue(who, kind, contract, total, stable, decimals)
  PROVE  RegistryInv' /\ BalanceKept
  <1>1. RegistryInv /\ BalanceInv
    BY Halves
  <1>2. WellFormed(kind, contract, stable, decimals) /\ create(kind, contract, total, stable, decimals)
        /\ UNCHANGED by_contract
    BY DEF issue
  <1>3. RegistryInv' /\ \A s \in Issued : tokens'[s].total = tokens[s].total
    BY <1>1, <1>2, CreateKeeps
  <1>4. balances \in BalanceMap /\ Native \in TokenId /\ BurnTAOwhenIssue \in Nat
    BY <1>1, TokenAssumption DEF BalanceInv, TokenId
  <1> DEFINE x == balances[Native][who].free - BurnTAOwhenIssue
             e == [free |-> x, reserved |-> balances[Native][who].reserved]
  <1>5. /\ x \in Nat /\ e \in [free : Nat, reserved : Nat]
        /\ balances[Native][who] \in [free : Nat, reserved : Nat]
    BY <1>4, HeldElement DEF issue
  <1>6. balances' = [balances EXCEPT ![Native][who] = e]
    <2>1. balances' = [balances EXCEPT ![Native][who].free = x]
      BY DEF issue
    <2>2. e = [free |-> x, reserved |-> balances[Native][who].reserved]
      OBVIOUS
    <2> HIDE DEF x, e
    <2>3. [balances[Native][who] EXCEPT !.free = x] = e
      BY ONLY <1>5, <2>2
    <2> QED BY ONLY <1>4, <2>1, <2>3 DEF BalanceMap
  <1>7. balances' \in BalanceMap /\ Touches(balances, balances', Native, {who}) /\ balances'[Native][who] = e
    BY <1>4, <1>5, <1>6 DEF BalanceMap, Touches
  <1>8. /\ Worth(balances', Native, who) = Worth(balances, Native, who) - BurnTAOwhenIssue
        /\ balances'[Native][who].reserved >= balances[Native][who].reserved
        /\ Worth(balances, Native, who) \in Nat
        /\ Worth(balances, Native, who) >= BurnTAOwhenIssue
    BY <1>4, <1>5, <1>7 DEF Worth
  <1>9. native_issuance' = native_issuance - BurnTAOwhenIssue
    BY DEF issue
  <1>10. native_issuance >= Worth(balances, Native, who) /\ native_issuance \in Balance
    <2>1. HeldOf(balances, Native) <= native_issuance /\ native_issuance \in Balance
      BY <1>1, <1>4 DEF BalanceInv, total_issuance
    <2>2. Worth(balances, Native, who) <= HeldOf(balances, Native) /\ HeldOf(balances, Native) \in Nat
      BY <1>4, HeldElement
    <2> QED BY <1>8, <2>1, <2>2, TokenAssumption DEF Balance
  <1>11. native_issuance' \in Balance
    BY <1>4, <1>8, <1>9, <1>10, TokenAssumption DEF Balance
  <1>12. \A s \in TokenId : total_issuance(s) \in Int
    BY <1>1, IssuanceTypes
  <1>13. \A s \in TokenId \ {Native} : total_issuance(s)' = total_issuance(s)
    BY <1>3 DEF total_issuance, TokenId
  <1>14. total_issuance(Native)' = total_issuance(Native) - BurnTAOwhenIssue
    BY <1>9 DEF total_issuance
  <1> HIDE DEF e, x
  <1>15. /\ Worth(balances', Native, who) - Worth(balances, Native, who)
              <= total_issuance(Native)' - total_issuance(Native)
         /\ \A s \in TokenId : total_issuance(s)' \in Int
    BY <1>4, <1>8, <1>12, <1>13, <1>14
  <1> QED BY <1>1, <1>3, <1>4, <1>7, <1>8, <1>11, <1>12, <1>13, <1>15, KeepsOne

(* A step that leaves balances and every total alone keeps the balances'   *)
(* half.                                                                   *)
LEMMA SameBalances ==
  ASSUME BalanceInv, UNCHANGED <<balances, native_issuance>>,
         \A s \in Issued : tokens'[s].total = tokens[s].total
  PROVE  BalanceKept
  <1>1. \A s \in TokenId : total_issuance(s)' = total_issuance(s)
    BY DEF total_issuance, TokenId
  <1>2. BalanceInv'
    BY <1>1 DEF BalanceInv
  <1>3. ReservedStep
    BY DEF ReservedStep
  <1> QED BY <1>2, <1>3 DEF BalanceKept

(* mark_stable changes no kind, contract or total.                         *)
LEMMA MarkStableKeeps ==
  ASSUME IInv, NEW t \in TokenId, mark_stable(t)
  PROVE  RegistryInv' /\ BalanceKept
  <1>1. RegistryInv /\ BalanceInv
    BY Halves
  <1>2. t \in Issued /\ tokens[t].kind # "None" /\ tokens[t].kind # "FND10"
    BY DEF mark_stable, Exists
  <1> DEFINE r == [tokens[t] EXCEPT !.stable = TRUE]
  <1>3. tokens' = [tokens EXCEPT ![t] = r]
    BY <1>1 DEF mark_stable, RegistryInv
  <1>4. /\ r \in [kind : Kind \cup {"None"}, total : Balance, contract : Contract \cup {NoContract},
                  stable : BOOLEAN, decimals : 0..MaxDecimals]
        /\ r.kind = tokens[t].kind /\ r.contract = tokens[t].contract /\ r.total = tokens[t].total
    BY <1>1, <1>2 DEF RegistryInv
  <1> HIDE DEF r
  <1>5. tokens' \in [Issued -> [kind : Kind \cup {"None"}, total : Balance,
                            contract : Contract \cup {NoContract},
                            stable : BOOLEAN, decimals : 0..MaxDecimals]]
    BY <1>1, <1>3, <1>4 DEF RegistryInv
  <1>6. /\ \A s \in Issued : /\ tokens'[s].kind = tokens[s].kind
                             /\ tokens'[s].contract = tokens[s].contract
                             /\ tokens'[s].total = tokens[s].total
        /\ \A s \in Issued \ {t} : tokens'[s] = tokens[s]
    BY <1>1, <1>2, <1>3, <1>4 DEF RegistryInv
  <1>7. UNCHANGED <<next_token_id, by_name, by_contract, balances, native_issuance>>
    BY DEF mark_stable
  <1>8. Unissued'
    <2>1. ~(t >= next_token_id)
      BY <1>1, <1>2 DEF RegistryInv, Unissued, NoInfo
    <2> QED BY <1>1, <1>6, <1>7, <2>1 DEF RegistryInv, Unissued
  <1>9. NoFoundationUnits' /\ ContractCarried' /\ NameRoundTrip'
    BY <1>1, <1>6, <1>7 DEF RegistryInv, NoFoundationUnits, ContractCarried, NameRoundTrip
  <1>10. RegistryInv'
    BY <1>1, <1>5, <1>7, <1>8, <1>9 DEF RegistryInv
  <1> QED BY <1>1, <1>6, <1>7, <1>10, SameBalances

(* associate_token changes no token and no name.                           *)
LEMMA AssociateKeeps ==
  ASSUME IInv, NEW t \in TokenId, NEW f \in Foreign, associate_token(f, t)
  PROVE  RegistryInv' /\ BalanceKept
  <1>1. RegistryInv /\ BalanceInv
    BY Halves
  <1>2. RegistryInv'
    BY <1>1 DEF associate_token, RegistryInv, Unissued, NoFoundationUnits, ContractCarried, NameRoundTrip
  <1> QED BY <1>1, <1>2, SameBalances DEF associate_token

-----------------------------------------------------------------------------
(* The invariant holds at genesis and every step keeps it.                 *)

(* At genesis no token is issued and the native issuance is the endowment. *)
LEMMA InitIInv == Init => IInv
  <1> SUFFICES ASSUME Init PROVE IInv
    OBVIOUS
  <1>1. 0 \in Balance /\ Balance \subseteq Nat
    BY TokenAssumption DEF Balance
  <1>2. NoInfo \in [kind : Kind \cup {"None"}, total : Balance, contract : Contract \cup {NoContract},
                    stable : BOOLEAN, decimals : 0..MaxDecimals]
    BY <1>1, TokenAssumption DEF NoInfo
  <1>3. tokens \in [Issued -> [kind : Kind \cup {"None"}, total : Balance,
                            contract : Contract \cup {NoContract},
                            stable : BOOLEAN, decimals : 0..MaxDecimals]]
    BY <1>2 DEF Init
  <1>4. /\ next_token_id \in 1..(MaxTokenId + 1)
        /\ by_name \in [Contract -> Issued \cup {NoToken}]
        /\ by_contract \in [Foreign -> TokenId \cup {NoToken}]
    BY TokenAssumption DEF Init
  <1>5. \A t \in Issued : tokens[t].kind = "None" /\ tokens[t].total = 0 /\ tokens[t] = NoInfo
    BY DEF Init, NoInfo
  <1>6. Unissued /\ NoFoundationUnits /\ ContractCarried /\ NameRoundTrip
    <2>1. \A c \in Contract : by_name[c] = NoToken
      BY DEF Init
    <2> QED BY <1>5, <2>1 DEF Unissued, NoFoundationUnits, ContractCarried, NameRoundTrip
  <1>7. RegistryInv
    BY <1>3, <1>4, <1>6 DEF RegistryInv
  <1>8. balances \in BalanceMap
    BY TokenAssumption DEF Init, BalanceMap
  <1>9. SumFunction(Endowment) \in Nat
    BY TotalNat, TokenAssumption
  <1>10. native_issuance \in Balance
    BY <1>9, TokenAssumption DEF Init, Balance
  <1>11. \A t \in TokenId, a \in Account : Worth(balances, t, a) = IF t = Native THEN Endowment[a] ELSE 0
    BY TokenAssumption DEF Init, Worth
  <1>12. HeldOf(balances, Native) = native_issuance
    <2>1. [a \in Account |-> Worth(balances, Native, a)] = Endowment
      BY <1>11, TokenAssumption DEF TokenId
    <2> QED BY <2>1 DEF HeldOf, Init
  <1>13. \A t \in Issued : HeldOf(balances, t) = 0
    <2>1. ASSUME NEW t \in Issued PROVE HeldOf(balances, t) = 0
      <3> DEFINE f == [a \in Account |-> Worth(balances, t, a)]
      <3>1. t \in TokenId /\ t # Native
        BY DEF TokenId, Issued, Native
      <3>2. f \in [Account -> Int] /\ \A a \in Account : f[a] = 0
        BY <1>11, <3>1
      <3>3. SumFunction(f) = 0
        BY <3>2, TotalZero, TokenAssumption
      <3> QED BY <3>3 DEF HeldOf
    <2> QED BY <2>1
  <1>14. \A t \in TokenId : HeldOf(balances, t) <= total_issuance(t)
    <2>1. HeldOf(balances, Native) <= total_issuance(Native)
      BY <1>10, <1>12, TokenAssumption DEF total_issuance, Balance
    <2>2. \A t \in Issued : HeldOf(balances, t) <= total_issuance(t)
      BY <1>5, <1>13 DEF total_issuance, Issued, Native
    <2> QED BY <2>1, <2>2 DEF TokenId
  <1> QED BY <1>7, <1>8, <1>10, <1>14, Halves DEF BalanceInv

(* The two halves make the invariant in the next state as well.            *)
LEMMA HalvesNext == RegistryInv' /\ BalanceInv' => IInv'
  <1>1. RegistryInv /\ BalanceInv => IInv
    BY Halves
  <1> QED BY <1>1, PTL

(* Every step keeps the invariant and destroys no reserved funds.          *)
LEMMA NextKeeps ==
  ASSUME IInv, [Next]_vars
  PROVE  IInv' /\ ReservedStep
  <1>1. CASE UNCHANGED vars
    <2>1. RegistryInv /\ BalanceInv
      BY Halves
    <2>2. RegistryInv'
      BY <1>1, <2>1, SameRegistry DEF vars, registry
    <2>3. BalanceKept
      BY <1>1, <2>1, SameBalances DEF vars
    <2> QED BY <2>2, <2>3, HalvesNext DEF BalanceKept
  <1>2. CASE Next
    <2>1. RegistryInv' /\ BalanceKept
      <3>1. CASE Register
        <4>1. CASE \E who \in Account, kind \in Kind, contract \in Contract \cup {NoContract},
                      total \in Amount, stable \in BOOLEAN, decimals \in Decimals :
                     issue(who, kind, contract, total, stable, decimals)
          BY <4>1, IssueKeeps
        <4>2. CASE \E t \in TokenId : mark_stable(t)
          BY <4>2, MarkStableKeeps
        <4>3. CASE \E t \in TokenId : \E f \in Foreign : associate_token(f, t)
          BY <4>3, AssociateKeeps
        <4> QED BY <3>1, <4>1, <4>2, <4>3 DEF Register
      <3>2. ASSUME NEW t \in TokenId, NEW a \in Account, NEW v \in Amount, do_mint(t, a, v)
            PROVE  RegistryInv' /\ BalanceKept
        BY <3>2, MintKeeps
      <3>3. ASSUME NEW t \in TokenId, NEW a \in Account, NEW v \in Amount, do_burn(t, a, v)
            PROVE  RegistryInv' /\ BalanceKept
        BY <3>3, BurnKeeps
      <3>4. ASSUME NEW t \in TokenId, NEW a \in Account, NEW v \in Amount,
                   reserve(t, a, v) \/ unreserve(t, a, v)
            PROVE  RegistryInv' /\ BalanceKept
        BY <3>4, ReserveKeeps, UnreserveKeeps
      <3>5. ASSUME NEW t \in TokenId, NEW a \in Account, NEW v \in Amount, NEW b \in Account,
                   transfer(a, t, b, v)
            PROVE  RegistryInv' /\ BalanceKept
        BY <3>5, TransferKeeps
      <3>6. ASSUME NEW t \in TokenId, NEW a \in Account, NEW v \in Amount, NEW b \in Account,
                   NEW status \in {"free", "reserved"}, repatriate_reserved(t, a, b, v, status)
            PROVE  RegistryInv' /\ BalanceKept
        BY <3>6, RepatriateKeeps
      <3> QED BY <1>2, <3>1, <3>2, <3>3, <3>4, <3>5, <3>6 DEF Next, Move
    <2> QED BY <2>1, HalvesNext DEF BalanceKept
  <1> QED BY <1>1, <1>2

-----------------------------------------------------------------------------
(* Theorems.                                                               *)

(* The inductive invariant holds in every reachable state.                 *)
THEOREM Invariant == Spec => []IInv
  <1>1. IInv /\ [Next]_vars => IInv'
    BY NextKeeps
  <1> QED BY InitIInv, <1>1, PTL DEF Spec

(* Every record of the registry is well formed and every balance, issuance *)
(* and id stays in its range: the unchecked additions of reserve,          *)
(* unreserve and repatriate_reserved never leave the balance type.         *)
THEOREM TypeCorrect == Spec => []TypeOK
  <1>1. IInv => TypeOK
    BY DEF IInv
  <1> QED BY Invariant, <1>1, PTL

(* Whatever is minted, burnt, moved or issued, the accounts never hold     *)
(* more of a token than its recorded issuance.                             *)
THEOREM IssuanceCoversHoldings == Spec => []IssuanceCovers
  <1>1. IInv => IssuanceCovers
    BY DEF IInv
  <1> QED BY Invariant, <1>1, PTL

(* The contract of a NEP141 token and its id name each other for good.     *)
THEOREM NamesRoundTrip == Spec => []NameRoundTrip
  <1>1. IInv => NameRoundTrip
    BY DEF IInv
  <1> QED BY Invariant, <1>1, PTL

(* No step takes from a reserved balance what nobody holds afterwards.     *)
THEOREM ReservedSurvives == Spec => ReservedNotDestroyed
  <1>1. IInv /\ [Next]_vars =>
          [\A t \in TokenId, a \in Account :
             balances'[t][a].reserved < balances[t][a].reserved => Held(t)' = Held(t)]_vars
    <2> SUFFICES ASSUME IInv, [Next]_vars
                 PROVE  \A t \in TokenId, a \in Account :
                          balances'[t][a].reserved < balances[t][a].reserved => Held(t)' = Held(t)
      OBVIOUS
    <2>1. ReservedStep
      BY NextKeeps
    <2> QED BY <2>1 DEF ReservedStep, Held, HeldOf, Worth
  <1> QED BY Invariant, <1>1, PTL DEF Spec, ReservedNotDestroyed
=============================================================================
