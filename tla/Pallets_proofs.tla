--------------------------- MODULE Pallets_proofs ---------------------------
(***************************************************************************)
(* Proofs about the four small parts of the runtime around the exchange:   *)
(* dominator settings (Settings), founders' funds (Foundation), external   *)
(* transactions (Agent) and trading rewards (Reward).  Each theorem is     *)
(* about one of these specifications alone; the accounts and their free    *)
(* balance are the only names they share (module Balances).                *)
(***************************************************************************)
EXTENDS Agent, Settings, Foundation, Reward, SumTheorems

-----------------------------------------------------------------------------
(* Settings.  That a proof is used once in a life of its signer's account  *)
(* is not inductive: what keeps it from being used again is that the nonce *)
(* it was signed for has gone by.  As long as that nonce is still to come, *)
(* every use of the proof was in an earlier life, one in each at most.     *)

UsedIsPast ==
  \A p \in Proof : account_nonce[p.by] <= p.nonce => uses[p] <= lives[p.by]

SettingsInv == SettingsTypeOK /\ UsedIsPast /\ ProofUsedOnce

(* A signed extrinsic increments one nonce and no nonce falls.             *)
LEMMA SignedGrows ==
  ASSUME SettingsTypeOK, NEW a \in Account
  PROVE  /\ Signed(a) \in [Account -> Nat]
         /\ \A b \in Account : account_nonce[b] <= Signed(a)[b]
  BY DEF SettingsTypeOK, Signed

(* A step that accepts no proof keeps what is known about the used ones.   *)
LEMMA NoProofUsed ==
  ASSUME SettingsInv, NEW a \in Account, account_nonce' = Signed(a), UNCHANGED <<lives, uses>>
  PROVE  (UsedIsPast /\ ProofUsedOnce)'
<1>1. \A b \in Account : account_nonce[b] \in Nat /\ account_nonce'[b] \in Nat /\ account_nonce[b] <= account_nonce'[b]
  <2>1. account_nonce \in [Account -> Nat] BY DEF SettingsInv, SettingsTypeOK
  <2>2. account_nonce' \in [Account -> Nat] /\ \A b \in Account : account_nonce[b] <= account_nonce'[b]
    BY SignedGrows DEF SettingsInv
  <2>. QED BY <2>1, <2>2
<1>2. \A p \in Proof : p.by \in Account /\ p.nonce \in Int
  BY DEF Proof
<1>. QED BY <1>1, <1>2 DEF SettingsInv, UsedIsPast, ProofUsedOnce

(* validate_beneficiary accepts a proof only for the nonce its signer has  *)
(* now, so not one that was used, and takes that nonce out of the way.     *)
LEMMA ValidateOnce ==
  ASSUME SettingsInv, NEW d \in Account, NEW old, NEW new, NEW p \in Proof,
         validate_beneficiary(p, old, new, Signed(d)), UNCHANGED lives
  PROVE  /\ account_nonce' \in [Account -> Nat] /\ uses' \in [Proof -> Nat]
         /\ (UsedIsPast /\ ProofUsedOnce)'
         /\ p \in proofs /\ p.by = old /\ p.new = new /\ uses'[p] > uses[p]
<1>. DEFINE n == Signed(d)
<1>1. n \in [Account -> Nat] /\ \A b \in Account : account_nonce[b] <= n[b] BY SignedGrows DEF SettingsInv
<1>2. /\ p \in proofs /\ p = [by |-> old, nonce |-> n[old], new |-> new]
      /\ account_nonce' = [n EXCEPT ![old] = @ + 1]
      /\ uses' = [uses EXCEPT ![p] = @ + 1]
  BY DEF validate_beneficiary
<1>. HIDE DEF n
<1>3. \A q \in Proof : q.by \in Account /\ q.nonce \in Int
  BY DEF Proof
<1>4. p.by = old /\ p.new = new /\ p.nonce = n[old] /\ old \in Account BY <1>2, <1>3
<1>5. \A b \in Account : account_nonce'[b] \in Nat /\ account_nonce[b] <= account_nonce'[b]
  BY <1>1, <1>2, <1>4 DEF SettingsInv, SettingsTypeOK
<1>6. account_nonce'[old] = n[old] + 1 BY <1>1, <1>2, <1>4
<1>7. /\ account_nonce \in [Account -> Nat] /\ uses \in [Proof -> Nat]
      /\ \A b \in Account : lives[b] \in Nat /\ lives'[b] = lives[b]
  BY DEF SettingsInv, SettingsTypeOK
<1>8. uses[p] <= lives[p.by] BY <1>1, <1>4, <1>7 DEF SettingsInv, UsedIsPast
<1>9. uses' \in [Proof -> Nat] /\ uses'[p] = uses[p] + 1 /\ \A q \in Proof : q # p => uses'[q] = uses[q]
  BY <1>2, <1>7, <1>8
<1>10. UsedIsPast'
  <2>. SUFFICES ASSUME NEW q \in Proof, account_nonce'[q.by] <= q.nonce
                PROVE  uses'[q] <= lives'[q.by]
    BY DEF UsedIsPast
  <2>1. CASE q = p BY <2>1, <1>1, <1>4, <1>6
  <2>2. CASE q # p
    <3>1. account_nonce[q.by] <= q.nonce BY <1>3, <1>5, <1>7
    <3>2. uses[q] <= lives[q.by] BY <3>1 DEF SettingsInv, UsedIsPast
    <3>. QED BY <2>2, <3>2, <1>3, <1>7, <1>9
  <2>. QED BY <2>1, <2>2
<1>11. ProofUsedOnce'
  <2>. SUFFICES ASSUME NEW q \in Proof PROVE uses'[q] <= 1 + lives'[q.by] BY DEF ProofUsedOnce
  <2>1. uses[q] <= 1 + lives[q.by] BY DEF SettingsInv, ProofUsedOnce
  <2>. QED BY <2>1, <1>3, <1>4, <1>7, <1>8, <1>9
<1>. QED BY <1>1, <1>2, <1>4, <1>7, <1>9, <1>10, <1>11

(* An account that is removed takes its nonce with it, and every proof it  *)
(* signed may be used once more.                                           *)
LEMMA RemovedResets ==
  ASSUME SettingsInv, NEW a \in Account, UNCHANGED uses,
         account_nonce' = [account_nonce EXCEPT ![a] = 0],
         lives' = [lives EXCEPT ![a] = @ + 1]
  PROVE  (UsedIsPast /\ ProofUsedOnce)'
<1>1. /\ account_nonce \in [Account -> Nat] /\ lives \in [Account -> Nat] /\ uses \in [Proof -> Nat]
      /\ \A q \in Proof : q.by \in Account
  BY DEF SettingsInv, SettingsTypeOK, Proof
<1>2. \A b \in Account : lives[b] \in Nat /\ lives'[b] = IF b = a THEN lives[b] + 1 ELSE lives[b]
  BY <1>1
<1>3. ASSUME NEW b \in Account, b # a PROVE account_nonce'[b] = account_nonce[b]
  BY <1>3, <1>1
<1>4. UsedIsPast'
  <2>. SUFFICES ASSUME NEW q \in Proof, account_nonce'[q.by] <= q.nonce
                PROVE  uses[q] <= lives'[q.by]
    BY DEF UsedIsPast
  <2>1. uses[q] <= 1 + lives[q.by] BY DEF SettingsInv, ProofUsedOnce
  <2>2. CASE q.by # a
    <3>1. account_nonce[q.by] <= q.nonce BY <1>1, <1>3, <2>2
    <3>2. uses[q] <= lives[q.by] BY <3>1 DEF SettingsInv, UsedIsPast
    <3>. QED BY <1>1, <1>2, <2>2, <3>2
  <2>3. CASE q.by = a
    BY <1>1, <1>2, <2>1, <2>3
  <2>. QED BY <2>2, <2>3
<1>5. ProofUsedOnce'
  <2>. SUFFICES ASSUME NEW q \in Proof PROVE uses[q] <= 1 + lives'[q.by] BY DEF ProofUsedOnce
  <2>1. uses[q] <= 1 + lives[q.by] BY DEF SettingsInv, ProofUsedOnce
  <2>. QED BY <1>1, <1>2, <2>1
<1>. QED BY <1>4, <1>5

(* The invariant holds initially.                                          *)
LEMMA SettingsStart ==
  ASSUME SettingsInit
  PROVE  SettingsInv
<1>1. SettingsTypeOK
  BY SettingsAssumption DEF SettingsInit, SettingsTypeOK, NoSetting, Setting, Nobody, Empty
<1>2. UsedIsPast /\ ProofUsedOnce
  <2>1. \A p \in Proof : p.by \in Account BY DEF Proof
  <2>2. \A p \in Proof : uses[p] = 0 /\ lives[p.by] = 0 BY <2>1 DEF SettingsInit
  <2>. QED BY <2>2 DEF UsedIsPast, ProofUsedOnce
<1>. QED BY <1>1, <1>2 DEF SettingsInv

(* Every step keeps it.                                                    *)
LEMMA SettingsStep ==
  ASSUME SettingsInv, [SettingsNext]_SettingsVars
  PROVE  SettingsInv'
<1>. SettingsTypeOK BY DEF SettingsInv
<1>. Dominator \subseteq Account BY SettingsAssumption
<1>1. CASE UNCHANGED SettingsVars
  BY <1>1 DEF SettingsInv, SettingsVars, SettingsTypeOK, UsedIsPast, ProofUsedOnce
<1>2. ASSUME NEW p \in Proof, SignProof(p) PROVE SettingsInv'
  BY <1>2 DEF SettingsInv, SignProof, SettingsTypeOK, UsedIsPast, ProofUsedOnce
<1>3. ASSUME NEW a \in Account, NEW to \in Account, NEW reaped \in BOOLEAN,
             NEW paid \in 0..free[a], AnyExtrinsic(a, to, paid, reaped)
      PROVE  SettingsInv'
  <2>1. /\ to # a /\ UNCHANGED <<settings, proofs, uses, brokers, deposits>>
        /\ free' = [free EXCEPT ![a] = @ - paid, ![to] = @ + paid]
    BY <1>3 DEF AnyExtrinsic
  <2>2. free' \in [Account -> Nat] BY <2>1 DEF SettingsTypeOK
  <2>3. CASE account_nonce' = Signed(a) /\ UNCHANGED lives
    <3>1. (UsedIsPast /\ ProofUsedOnce)' BY <2>1, <2>3, NoProofUsed
    <3>2. account_nonce' \in [Account -> Nat] BY <2>3, SignedGrows
    <3>. QED BY <2>1, <2>2, <2>3, <3>1, <3>2 DEF SettingsInv, SettingsTypeOK
  <2>4. CASE /\ account_nonce' = [account_nonce EXCEPT ![a] = 0]
             /\ lives' = [lives EXCEPT ![a] = @ + 1]
    <3>1. (UsedIsPast /\ ProofUsedOnce)' BY <2>1, <2>4, RemovedResets
    <3>2. account_nonce' \in [Account -> Nat] /\ lives' \in [Account -> Nat]
      BY <2>4 DEF SettingsTypeOK
    <3>. QED BY <2>1, <2>2, <3>1, <3>2 DEF SettingsInv, SettingsTypeOK
  <2>. QED BY <1>3, <2>3, <2>4 DEF AnyExtrinsic
<1>4. ASSUME NEW d \in Dominator, NEW t \in Text,
             dominator_set_pubkey(d, t) \/ dominator_set_rpc_endpoint(d, t)
      PROVE  SettingsInv'
  <2>1. SettingsTypeOK'
    <3>1. account_nonce' \in [Account -> Nat]
      BY <1>4, SignedGrows DEF dominator_set_pubkey, dominator_set_rpc_endpoint
    <3>2. settings' \in [Dominator -> Setting]
      <4>1. CASE dominator_set_pubkey(d, t)
        BY <4>1 DEF dominator_set_pubkey, SettingsTypeOK, Setting
      <4>2. CASE dominator_set_rpc_endpoint(d, t)
        BY <4>2 DEF dominator_set_rpc_endpoint, SettingsTypeOK, Setting
      <4>. QED BY <1>4, <4>1, <4>2
    <3>. QED BY <1>4, <3>1, <3>2
           DEF dominator_set_pubkey, dominator_set_rpc_endpoint, SettingsTypeOK
  <2>2. (UsedIsPast /\ ProofUsedOnce)'
    BY <1>4, NoProofUsed DEF dominator_set_pubkey, dominator_set_rpc_endpoint
  <2>. QED BY <2>1, <2>2 DEF SettingsInv
<1>5. ASSUME NEW d \in Dominator, NEW new \in Account, NEW p \in Proof,
             dominator_set_beneficiary(d, new, p)
      PROVE  SettingsInv'
  <2>. DEFINE old == settings[d].beneficiary
  <2>1. settings' \in [Dominator -> Setting]
    BY <1>5 DEF dominator_set_beneficiary, SettingsTypeOK, Setting
  <2>2. account_nonce' \in [Account -> Nat] /\ uses' \in [Proof -> Nat]
          /\ (UsedIsPast /\ ProofUsedOnce)'
    <3>a. UNCHANGED lives BY <1>5 DEF dominator_set_beneficiary
    <3>1. CASE account_nonce' = Signed(d) /\ UNCHANGED uses
      BY <3>1, <3>a, SignedGrows, NoProofUsed DEF SettingsTypeOK
    <3>2. CASE validate_beneficiary(p, old, new, Signed(d))
      BY <3>2, <3>a, ValidateOnce
    <3>. QED BY <1>5, <3>1, <3>2 DEF dominator_set_beneficiary
  <2>. QED BY <1>5, <2>1, <2>2 DEF dominator_set_beneficiary, SettingsTypeOK, SettingsInv
<1>6. ASSUME NEW a \in Account, NEW b \in Account, NEW t \in Text, register_broker(a, b, t)
      PROVE  SettingsInv'
  <2>. BrokerStakingThreshold \in Nat BY SettingsAssumption
  <2>1. SettingsTypeOK'
    <3>1. account_nonce' \in [Account -> Nat] BY <1>6, SignedGrows DEF register_broker
    <3>2. brokers' \in [Account -> Broker \cup {NoBroker}]
      BY <1>6 DEF register_broker, SettingsTypeOK, Broker
    <3>. QED BY <1>6, <3>1, <3>2 DEF register_broker, SettingsTypeOK
  <2>2. (UsedIsPast /\ ProofUsedOnce)' BY <1>6, NoProofUsed DEF register_broker
  <2>. QED BY <2>1, <2>2 DEF SettingsInv
<1>7. ASSUME NEW a \in Account, NEW t \in Text, broker_set_rpc_endpoint(a, t)
      PROVE  SettingsInv'
  <2>1. SettingsTypeOK'
    <3>1. account_nonce' \in [Account -> Nat] BY <1>7, SignedGrows DEF broker_set_rpc_endpoint
    <3>2. brokers' \in [Account -> Broker \cup {NoBroker}]
      BY <1>7 DEF broker_set_rpc_endpoint, SettingsTypeOK, Broker
    <3>. QED BY <1>7, <3>1, <3>2 DEF broker_set_rpc_endpoint, SettingsTypeOK
  <2>2. (UsedIsPast /\ ProofUsedOnce)' BY <1>7, NoProofUsed DEF broker_set_rpc_endpoint
  <2>. QED BY <2>1, <2>2 DEF SettingsInv
<1>. QED BY <1>1, <1>2, <1>3, <1>4, <1>5, <1>6, <1>7 DEF SettingsNext, DominatorCall, BrokerCall

(* A beneficiary changes only with its consent: the step that changes it   *)
(* accepts a proof signed by it for the new one.                           *)
LEMMA ConsentStep ==
  ASSUME SettingsInv, SettingsNext, NEW d \in Dominator,
         settings[d].beneficiary \notin {Nobody, settings'[d].beneficiary}
  PROVE  \E p \in proofs : /\ p.by = settings[d].beneficiary
                            /\ p.new = settings'[d].beneficiary
                            /\ uses'[p] > uses[p]
<1>. settings \in [Dominator -> Setting] /\ Dominator \subseteq Account
  BY SettingsAssumption DEF SettingsInv, SettingsTypeOK
<1>1. PICK c \in Dominator, new \in Account, p \in Proof : dominator_set_beneficiary(c, new, p)
  <2>1. \A c \in Dominator, t \in Text :
          dominator_set_pubkey(c, t) \/ dominator_set_rpc_endpoint(c, t)
            => settings'[d].beneficiary = settings[d].beneficiary
    BY DEF dominator_set_pubkey, dominator_set_rpc_endpoint, Setting
  <2>2. settings' # settings OBVIOUS
  <2>. QED BY <2>1, <2>2 DEF SettingsNext, DominatorCall, BrokerCall, SignProof, AnyExtrinsic,
             register_broker, broker_set_rpc_endpoint
<1>2. settings' = [settings EXCEPT ![c].beneficiary = new]
  BY <1>1 DEF dominator_set_beneficiary
<1>3. c = d BY <1>2
<1>4. settings'[d].beneficiary = new BY <1>2, <1>3 DEF Setting
<1>5. validate_beneficiary(p, settings[d].beneficiary, new, Signed(d))
  BY <1>1, <1>3 DEF dominator_set_beneficiary
<1>6. d \in Account /\ UNCHANGED lives BY <1>1 DEF dominator_set_beneficiary
<1>7. p \in proofs /\ p.by = settings[d].beneficiary /\ p.new = new /\ uses'[p] > uses[p]
  BY <1>5, <1>6, ValidateOnce
<1>. QED BY <1>4, <1>7

(* Nonces, settings, proofs and brokers keep their types.                  *)
THEOREM SettingsTypeCorrect == SettingsSpec => []SettingsTypeOK
<1>1. SettingsInit => SettingsInv BY SettingsStart
<1>2. SettingsInv /\ [SettingsNext]_SettingsVars => SettingsInv' BY SettingsStep
<1>3. SettingsInv => SettingsTypeOK BY DEF SettingsInv
<1>. QED BY <1>1, <1>2, <1>3, PTL DEF SettingsSpec

(* dominator_set_beneficiary accepts a beneficiary's signature at most     *)
(* once in each life of the signer's account, whatever else the signer and *)
(* the dominators do: only the removal of an emptied account, which resets *)
(* its nonce, lets a signature count once more.                            *)
THEOREM ProofsUsedOnce == SettingsSpec => []ProofUsedOnce
<1>1. SettingsInit => SettingsInv BY SettingsStart
<1>2. SettingsInv /\ [SettingsNext]_SettingsVars => SettingsInv' BY SettingsStep
<1>3. SettingsInv => ProofUsedOnce BY DEF SettingsInv
<1>. QED BY <1>1, <1>2, <1>3, PTL DEF SettingsSpec

(* No call of a dominator takes its income from a beneficiary who did not  *)
(* sign it away to the account that gets it.                               *)
THEOREM BeneficiariesConsent == SettingsSpec => BeneficiaryConsents
<1>1. SettingsInit => SettingsInv BY SettingsStart
<1>2. SettingsInv /\ [SettingsNext]_SettingsVars => SettingsInv' BY SettingsStep
<1>3. SettingsInv /\ [SettingsNext]_SettingsVars
        => [\A d \in Dominator :
              LET old == settings[d].beneficiary new == settings'[d].beneficiary
              IN old \notin {Nobody, new} =>
                   \E p \in proofs : p.by = old /\ p.new = new /\ uses'[p] > uses[p]]_SettingsVars
  BY ConsentStep
<1>. QED BY <1>1, <1>2, <1>3, PTL DEF SettingsSpec, BeneficiaryConsents

-----------------------------------------------------------------------------
(* Foundation.  Whether a fund is on schedule cannot be told from the      *)
(* balances alone: the next release also depends on how far the countdown  *)
(* of the stored entry has come, and when it was removed.                  *)

(* The instalments a plan asks for until duration d, if it had no end.     *)
Instalments(f, d) ==
  IF d < f.delay_durations THEN 0 ELSE (d - f.delay_durations) \div f.interval_durations

(* The stored entry of a plan after k instalments.                         *)
Entry(f, k) == IF k < f.times THEN [f EXCEPT !.times = f.times - k] ELSE NoFund

CountdownKept ==
  \A a \in Account :
    foundation[a] = Entry(Fund[a], Instalments(Fund[a], height \div Duration))

FoundationInv == FoundationTypeOK /\ CountdownKept /\ OnSchedule

(* The quotient of the next number is the same or, at a multiple, one more.*)
LEMMA DivNext ==
  ASSUME NEW n \in Nat, NEW k \in Nat \ {0}
  PROVE  (n + 1) \div k = IF (n + 1) % k = 0 THEN (n \div k) + 1 ELSE n \div k
<1>. DEFINE q == n \div k  r == n % k  x == (n + 1) \div k  y == (n + 1) % k
<1>a. q \in 0..n /\ r \in 0..(k - 1) /\ n = (k * q) + r BY DivMod
<1>b. n + 1 \in Nat OBVIOUS
<1>c. x \in 0..(n + 1) /\ y \in 0..(k - 1) /\ n + 1 = (k * x) + y BY <1>b, DivMod
<1>. HIDE DEF q, r, x, y
<1>1. q \in Nat /\ r \in 0..(k - 1) /\ n = (k * q) + r BY <1>a
<1>2. x \in Nat /\ y \in 0..(k - 1) /\ n + 1 = (k * x) + y BY <1>c
<1>3. (k * x) + y = (k * q) + r + 1 BY <1>1, <1>2
<1>4. ASSUME NEW u \in Nat, NEW v \in Nat, u < v PROVE (k * u) + k <= k * v
  <2>1. k * (u + 1) <= k * v BY <1>4, MulMono
  <2>2. k * (u + 1) = (k * u) + k OBVIOUS
  <2>. QED BY <2>1, <2>2
<1>5. k * q \in Nat /\ k * x \in Nat BY <1>1, <1>2
<1>6. ~ (x < q) BY <1>1, <1>2, <1>3, <1>4, <1>5
<1>7. ~ (q + 1 < x)
  <2>. SUFFICES ASSUME q + 1 < x PROVE FALSE OBVIOUS
  <2>1. (k * (q + 1)) + k <= k * x BY <1>1, <1>2, <1>4
  <2>2. k * (q + 1) = (k * q) + k BY <1>1
  <2>. QED BY <1>1, <1>2, <1>3, <1>5, <2>1, <2>2
<1>8. CASE x = q
  <2>1. y = r + 1 BY <1>1, <1>2, <1>3, <1>5, <1>8
  <2>. QED BY <1>1, <1>2, <1>8, <2>1 DEF q, x, y
<1>9. CASE x = q + 1
  <2>1. k * x = (k * q) + k BY <1>1, <1>9
  <2>2. y = 0 BY <1>1, <1>2, <1>3, <1>5, <2>1
  <2>. QED BY <1>9, <2>2 DEF q, x, y
<1>. QED BY <1>1, <1>2, <1>6, <1>7, <1>8, <1>9

(* A duration later a plan asks for one instalment more exactly when       *)
(* unlock_fund takes the duration for one of an instalment.                *)
LEMMA NextInstalment ==
  ASSUME NEW f \in FoundationData, NEW d \in Nat
  PROVE  /\ Instalments(f, d) \in Nat
         /\ Instalments(f, d + 1)
              = IF IsInstalment(f, d + 1) THEN Instalments(f, d) + 1 ELSE Instalments(f, d)
<1>. DEFINE w == f.delay_durations  k == f.interval_durations
<1>1. w \in Nat \ {0} /\ k \in Nat \ {0} BY DEF FoundationData
<1>. HIDE DEF w, k
<1>2. CASE d < w
  <2>1. CASE d + 1 = w
    <3>1. (d + 1) - w = 0 /\ 0 \div k = 0 BY <1>1, <2>1, DivMod
    <3>. QED BY <1>1, <1>2, <2>1, <3>1 DEF Instalments, IsInstalment, w, k
  <2>2. CASE d + 1 < w
    BY <1>1, <1>2, <2>2 DEF Instalments, IsInstalment, w, k
  <2>. QED BY <1>1, <1>2, <2>1, <2>2
<1>3. CASE d >= w
  <2>. DEFINE n == d - w
  <2>1. n \in Nat /\ (d + 1) - w = n + 1 /\ d + 1 > w /\ ~ (d + 1 < w) /\ ~ (d < w)
    BY <1>1, <1>3
  <2>2. (n + 1) \div k = IF (n + 1) % k = 0 THEN (n \div k) + 1 ELSE n \div k
    BY <1>1, <2>1, DivNext
  <2>3. n \div k \in Nat BY <1>1, <2>1, DivMod
  <2>4. Instalments(f, d) = n \div k /\ Instalments(f, d + 1) = (n + 1) \div k
    BY <2>1 DEF Instalments, w, k
  <2>5. IsInstalment(f, d + 1) <=> (n + 1) % k = 0 BY <2>1 DEF IsInstalment, w, k
  <2>. QED BY <2>2, <2>3, <2>4, <2>5
<1>. QED BY <1>1, <1>2, <1>3

(* What a plan promises grows, from one duration to the next, by what      *)
(* unlock_fund releases of it, unless all its instalments were paid.       *)
LEMMA VestedNext ==
  ASSUME NEW f \in FoundationData, NEW d \in Nat
  PROVE  /\ Vested(f, d) \in Nat /\ Vested(f, d) <= Granted(f)
         /\ Due(f, d + 1) \in Nat
         /\ Vested(f, d + 1) = Vested(f, d)
              + IF Instalments(f, d) < f.times THEN Due(f, d + 1) ELSE 0
<1>. DEFINE w == f.delay_durations  m == f.times  am == f.amount  fi == f.first_amount
            k == Instalments(f, d)  j == Instalments(f, d + 1)
<1>1. w \in Nat \ {0} /\ m \in Nat \ {0} /\ am \in Nat /\ fi \in Nat BY DEF FoundationData
<1>2. k \in Nat /\ j = IF IsInstalment(f, d + 1) THEN k + 1 ELSE k BY NextInstalment
<1>3. /\ Vested(f, d) = IF d < w THEN 0 ELSE fi + am * Least(m, k)
      /\ Vested(f, d + 1) = IF d + 1 < w THEN 0 ELSE fi + am * Least(m, j)
      /\ Granted(f) = am * m + fi
  BY DEF Vested, Granted, Instalments
<1>4. /\ Due(f, d + 1) = IF IsInstalment(f, d + 1) THEN am ELSE IF d + 1 = w THEN fi ELSE 0
      /\ IsInstalment(f, d + 1) => d + 1 > w
      /\ d < w => k = 0
  BY DEF Due, IsFirst, IsInstalment, Instalments
<1>. HIDE DEF w, m, am, fi, k, j
<1>5. \A x \in Nat : Least(m, x) = IF m <= x THEN m ELSE x BY DEF Least
<1>6. \A x \in Nat : /\ am * x \in Nat /\ am * (x + 1) = am * x + am /\ am * 0 = 0
                      /\ x <= m => am * x <= am * m
  BY <1>1, MulMono
<1>7. Vested(f, d) \in Nat /\ Vested(f, d) <= Granted(f)
  <2>1. Least(m, k) \in Nat /\ Least(m, k) <= m BY <1>1, <1>2, <1>5
  <2>. DEFINE l == Least(m, k)
  <2>2. am * l \in Nat /\ am * l <= am * m /\ am * m \in Nat BY <1>1, <1>6, <2>1
  <2>. QED BY <1>1, <1>3, <2>2
<1>8. Due(f, d + 1) \in Nat BY <1>1, <1>4
<1>9. Vested(f, d + 1) = Vested(f, d) + IF k < m THEN Due(f, d + 1) ELSE 0
  <2>1. CASE d + 1 < w
    BY <1>1, <1>2, <1>3, <1>4, <2>1
  <2>2. CASE d + 1 = w
    <3>1. k = 0 /\ j = 0 /\ Due(f, d + 1) = fi BY <1>1, <1>2, <1>4, <2>2
    <3>2. Least(m, 0) = 0 BY <1>1, <1>5
    <3>. QED BY <1>1, <1>3, <1>6, <2>2, <3>1, <3>2
  <2>3. CASE d >= w /\ ~ IsInstalment(f, d + 1)
    <3>1. j = k /\ Due(f, d + 1) = 0 BY <1>1, <1>2, <1>4, <2>3
    <3>. QED BY <1>1, <1>3, <1>7, <2>3, <3>1
  <2>4. CASE d >= w /\ IsInstalment(f, d + 1)
    <3>1. j = k + 1 /\ Due(f, d + 1) = am BY <1>1, <1>2, <1>4, <2>4
    <3>2. CASE k < m
      <4>1. Least(m, k) = k /\ Least(m, k + 1) = k + 1 BY <1>1, <1>2, <1>5, <3>2
      <4>3. k \in Nat BY <1>2
      <4>2. am * k \in Nat /\ am * (k + 1) = am * k + am BY ONLY <4>3, <1>1
      <4>. QED BY <1>1, <1>3, <2>4, <3>1, <3>2, <4>1, <4>2
    <3>3. CASE ~ (k < m)
      <4>1. Least(m, k) = m /\ Least(m, k + 1) = m BY <1>1, <1>2, <1>5, <3>3
      <4>2. am * m \in Nat BY <1>1, <1>6
      <4>. QED BY <1>1, <1>3, <2>4, <3>1, <3>3, <4>1, <4>2
    <3>. QED BY <3>2, <3>3
  <2>. QED BY <1>1, <2>1, <2>2, <2>3, <2>4
<1>. QED BY <1>7, <1>8, <1>9 DEF k, m

(* The countdown of an entry takes it to the entry of the next duration;   *)
(* whether it pays, and how much, does not depend on how far it has come.  *)
LEMMA EntryNext ==
  ASSUME NEW f \in FoundationData, NEW d \in Nat
  PROVE  LET e == Entry(f, Instalments(f, d))
         IN /\ e \in FoundationData \cup {NoFund}
            /\ e = NoFund <=> ~ (Instalments(f, d) < f.times)
            /\ e # NoFund => Due(e, d + 1) = Due(f, d + 1)
            /\ Entry(f, Instalments(f, d + 1))
                 = IF e = NoFund THEN NoFund ELSE CountDown(e, d + 1)
<1>. DEFINE k == Instalments(f, d)  e == Entry(f, k)  m == f.times
<1>1. k \in Nat /\ Instalments(f, d + 1) = IF IsInstalment(f, d + 1) THEN k + 1 ELSE k
  BY NextInstalment
<1>2. f.times \in Nat \ {0} /\ f.delay_durations \in Nat \ {0} BY DEF FoundationData
<1>. HIDE DEF k
<1>3. CASE k < m
  <2>. DEFINE g == [f EXCEPT !.times = f.times - k]
  <2>1. e = g BY <1>3 DEF Entry
  <2>2. /\ g \in FoundationData /\ g.delay_durations # 0 /\ g.times = m - k
        /\ g.delay_durations = f.delay_durations /\ g.interval_durations = f.interval_durations
        /\ g.amount = f.amount /\ g.first_amount = f.first_amount
    BY <1>1, <1>2, <1>3 DEF FoundationData
  <2>3. IsInstalment(g, d + 1) <=> IsInstalment(f, d + 1) BY <2>2 DEF IsInstalment
  <2>4. Due(g, d + 1) = Due(f, d + 1)
    BY <2>2, <2>3 DEF Due, IsFirst
  <2>5. NoFund.delay_durations = 0 BY DEF NoFund
  <2>6. g # NoFund BY <2>2, <2>5
  <2>7. m - k # 1 => [g EXCEPT !.times = g.times - 1] = [f EXCEPT !.times = f.times - (k + 1)]
    <3>1. g.times - 1 = f.times - (k + 1) BY <1>1, <1>2, <2>2
    <3>. DEFINE z == f.times - (k + 1)
    <3>2. [g EXCEPT !.times = z] = [f EXCEPT !.times = z] BY <1>2 DEF FoundationData
    <3>. QED BY <3>1, <3>2
  <2>8. Entry(f, Instalments(f, d + 1)) = CountDown(g, d + 1)
    <3>1. CASE IsInstalment(f, d + 1)
      <4>1. Entry(f, k + 1) = IF m - k = 1 THEN NoFund ELSE [f EXCEPT !.times = f.times - (k + 1)]
        BY <1>1, <1>2, <1>3 DEF Entry
      <4>. QED BY <1>1, <2>2, <2>3, <2>7, <3>1, <4>1 DEF CountDown
    <3>2. CASE ~ IsInstalment(f, d + 1)
      BY <1>1, <2>1, <2>3, <3>2 DEF CountDown
    <3>. QED BY <3>1, <3>2
  <2>. HIDE DEF g
  <2>. QED BY <1>3, <2>1, <2>2, <2>4, <2>6, <2>8 DEF k
<1>4. CASE ~ (k < m)
  <2>1. e = NoFund /\ Entry(f, Instalments(f, d + 1)) = NoFund
    BY <1>1, <1>2, <1>4 DEF Entry
  <2>. QED BY <1>4, <2>1 DEF k
<1>. QED BY <1>3, <1>4

(* One pass of unlock_fund at the duration after d.                        *)
LEMMA UnlockStep ==
  ASSUME FoundationTypeOK, NEW a \in Account, NEW d \in Nat,
         foundation[a] = Entry(Fund[a], Instalments(Fund[a], d)),
         reserved[a] - locked[a] = Granted(Fund[a]) - Vested(Fund[a], d),
         unlock_fund(d + 1), UNCHANGED locked
  PROVE  /\ foundation'[a] = Entry(Fund[a], Instalments(Fund[a], d + 1))
         /\ reserved'[a] - locked'[a] = Granted(Fund[a]) - Vested(Fund[a], d + 1)
         /\ foundation'[a] \in FoundationData \cup {NoFund}
         /\ free'[a] \in Nat /\ reserved'[a] \in Nat
<1>. DEFINE f == Fund[a]  e == foundation[a]
<1>1. f \in FoundationData BY FoundationAssumption
<1>. HIDE DEF f, e
<1>2. /\ e = NoFund <=> ~ (Instalments(f, d) < f.times)
      /\ e # NoFund => Due(e, d + 1) = Due(f, d + 1)
      /\ Entry(f, Instalments(f, d + 1)) = IF e = NoFund THEN NoFund ELSE CountDown(e, d + 1)
  BY <1>1, EntryNext DEF e, f
<1>3. Entry(f, Instalments(f, d + 1)) \in FoundationData \cup {NoFund}
  <2>1. d + 1 \in Nat OBVIOUS
  <2>. QED BY <1>1, <2>1, EntryNext
<1>4. foundation'[a] = Entry(f, Instalments(f, d + 1))
  BY <1>2 DEF unlock_fund, e
<1>5. /\ Vested(f, d) \in Nat /\ Due(f, d + 1) \in Nat
      /\ Vested(f, d + 1) = Vested(f, d)
           + IF Instalments(f, d) < f.times THEN Due(f, d + 1) ELSE 0
  BY <1>1, VestedNext
<1>6. Vested(f, d + 1) <= Granted(f)
  <2>1. d + 1 \in Nat OBVIOUS
  <2>. QED BY <1>1, <2>1, VestedNext
<1>7. Granted(f) \in Int
  BY <1>1 DEF Granted, FoundationData
<1>8. free[a] \in Nat /\ reserved[a] \in Nat /\ locked[a] \in Nat BY DEF FoundationTypeOK
<1>9. Released(a, d + 1) = Vested(f, d + 1) - Vested(f, d)
  <2>1. CASE e = NoFund BY <1>2, <1>5, <2>1 DEF Released, e
  <2>2. CASE e # NoFund
    <3>1. Vested(f, d + 1) = Vested(f, d) + Due(f, d + 1) BY <1>2, <1>5, <2>2
    <3>2. Due(f, d + 1) <= reserved[a] BY <1>5, <1>6, <1>7, <1>8, <3>1 DEF f
    <3>3. Released(a, d + 1) = Least(reserved[a], Due(f, d + 1))
      BY <1>2, <2>2 DEF Released, e
    <3>4. Least(reserved[a], Due(f, d + 1)) = Due(f, d + 1)
      BY <1>5, <1>8, <3>2 DEF Least
    <3>. QED BY <1>5, <3>1, <3>3, <3>4
  <2>. QED BY <2>1, <2>2
<1>10. free'[a] = free[a] + Released(a, d + 1) /\ reserved'[a] = reserved[a] - Released(a, d + 1)
  BY DEF unlock_fund
<1>11. Vested(f, d + 1) \in Nat /\ Vested(f, d) <= Vested(f, d + 1) BY <1>5
<1>12. reserved'[a] - locked'[a] = Granted(f) - Vested(f, d + 1)
  BY <1>5, <1>7, <1>8, <1>9, <1>10, <1>11 DEF f
<1>13. free'[a] \in Nat /\ reserved'[a] \in Nat
  BY <1>5, <1>6, <1>7, <1>8, <1>9, <1>10, <1>11, <1>12 DEF f
<1>. QED BY <1>3, <1>4, <1>12, <1>13 DEF f

(* Genesis stores and reserves every plan in full.                         *)
LEMMA FoundationStart ==
  ASSUME FoundationInit
  PROVE  FoundationInv
<1>1. 0 \div Duration = 0 BY DivMod, FoundationAssumption
<1>2. ASSUME NEW a \in Account
      PROVE  /\ Entry(Fund[a], Instalments(Fund[a], 0)) = Fund[a]
             /\ Granted(Fund[a]) \in Nat /\ Vested(Fund[a], 0) = 0
  <2>. DEFINE f == Fund[a]
  <2>1. f \in FoundationData BY FoundationAssumption
  <2>. HIDE DEF f
  <2>2. f.delay_durations \in Nat \ {0} /\ f.times \in Nat \ {0} /\ f.amount \in Nat
          /\ f.first_amount \in Nat
    BY <2>1 DEF FoundationData
  <2>3. Instalments(f, 0) = 0 /\ Vested(f, 0) = 0 BY <2>2 DEF Instalments, Vested
  <2>4. Entry(f, 0) = f
    <3>1. Entry(f, 0) = [f EXCEPT !.times = f.times] BY <2>2 DEF Entry
    <3>2. [f EXCEPT !.times = f.times] = f BY <2>1 DEF FoundationData
    <3>. QED BY <3>1, <3>2
  <2>5. Granted(f) \in Nat BY <2>2 DEF Granted
  <2>. QED BY <2>3, <2>4, <2>5 DEF f
<1>3. FoundationTypeOK BY <1>2, FoundationAssumption DEF FoundationInit, FoundationTypeOK
<1>4. CountdownKept BY <1>1, <1>2 DEF FoundationInit, CountdownKept
<1>5. OnSchedule BY <1>1, <1>2 DEF FoundationInit, OnSchedule
<1>. QED BY <1>3, <1>4, <1>5 DEF FoundationInv

(* Every step keeps the invariant.                                         *)
LEMMA FoundationStep ==
  ASSUME FoundationInv, [FoundationNext]_FoundationVars
  PROVE  FoundationInv'
<1>. FoundationTypeOK /\ CountdownKept /\ OnSchedule BY DEF FoundationInv
<1>1. CASE UNCHANGED FoundationVars
  BY <1>1 DEF FoundationVars, FoundationInv, FoundationTypeOK, CountdownKept, OnSchedule
<1>2. CASE FoundationNextBlock
  <2>. DEFINE d == height \div Duration
  <2>1. height \in Nat /\ Duration \in Nat \ {0} BY FoundationAssumption DEF FoundationTypeOK
  <2>2. d \in Nat BY <2>1, DivMod
  <2>3. height' = height + 1 /\ locked' = locked /\ initialize(height + 1) BY <1>2 DEF FoundationNextBlock
  <2>4. height' \div Duration = IF (height + 1) % Duration = 0 THEN d + 1 ELSE d
    BY <2>1, <2>3, DivNext
  <2>5. CASE (height + 1) % Duration = 0
    <3>1. height' \div Duration = d + 1 /\ (height + 1) \div Duration = d + 1 BY <2>3, <2>4, <2>5
    <3>2. unlock_fund(d + 1) BY <2>3, <2>5, <3>1 DEF initialize
    <3>3. ASSUME NEW a \in Account
          PROVE  /\ foundation'[a] = Entry(Fund[a], Instalments(Fund[a], d + 1))
                 /\ reserved'[a] - locked'[a] = Granted(Fund[a]) - Vested(Fund[a], d + 1)
                 /\ foundation'[a] \in FoundationData \cup {NoFund}
                 /\ free'[a] \in Nat /\ reserved'[a] \in Nat
      <4>1. foundation[a] = Entry(Fund[a], Instalments(Fund[a], d)) BY DEF CountdownKept
      <4>2. reserved[a] - locked[a] = Granted(Fund[a]) - Vested(Fund[a], d) BY DEF OnSchedule
      <4>. HIDE DEF d
      <4>. QED BY <2>2, <2>3, <3>2, <4>1, <4>2, UnlockStep
    <3>4. FoundationTypeOK'
      <4>1. /\ foundation' = [a \in Account |-> foundation'[a]]
            /\ free' = [a \in Account |-> free'[a]]
            /\ reserved' = [a \in Account |-> reserved'[a]]
        BY <3>2 DEF unlock_fund
      <4>2. foundation' \in [Account -> FoundationData \cup {NoFund}]
        BY ONLY <3>3, <4>1
      <4>3. free' \in [Account -> Nat] /\ reserved' \in [Account -> Nat]
        BY ONLY <3>3, <4>1
      <4>. QED BY <2>1, <2>3, <4>2, <4>3 DEF FoundationTypeOK
    <3>5. CountdownKept' BY <3>1, <3>3 DEF CountdownKept
    <3>6. OnSchedule' BY <3>1, <3>3 DEF OnSchedule
    <3>. QED BY <3>4, <3>5, <3>6 DEF FoundationInv
  <2>6. CASE (height + 1) % Duration # 0
    <3>1. UNCHANGED <<foundation, free, reserved, locked>> BY <2>3, <2>6 DEF initialize
    <3>2. height' \div Duration = height \div Duration BY <2>4, <2>6
    <3>3. FoundationTypeOK' BY <2>1, <2>3, <3>1 DEF FoundationTypeOK
    <3>4. CountdownKept' BY <3>1, <3>2 DEF CountdownKept
    <3>5. OnSchedule' BY <3>1, <3>2 DEF OnSchedule
    <3>. QED BY <3>3, <3>4, <3>5 DEF FoundationInv
  <2>. QED BY <2>5, <2>6
<1>3. ASSUME NEW a \in Account, NEW v \in Amount, Lock(a, v) \/ Unlock(a, v)
      PROVE  FoundationInv'
  <2>1. v \in Nat BY FoundationAssumption
  <2>2. height' = height /\ foundation' = foundation BY <1>3 DEF Lock, Unlock
  <2>3. \A b \in Account : Vested(Fund[b], height \div Duration) \in Nat
                          /\ Vested(Fund[b], height \div Duration) <= Granted(Fund[b])
    <3>1. height \in Nat /\ Duration \in Nat \ {0} BY FoundationAssumption DEF FoundationTypeOK
    <3>2. height \div Duration \in Nat BY <3>1, DivMod
    <3>. QED BY <3>2, VestedNext, FoundationAssumption
  <2>4. reserved[a] >= locked[a]
    <3>1. Granted(Fund[a]) \in Int
      <4>. DEFINE f == Fund[a]
      <4>1. f \in FoundationData BY FoundationAssumption
      <4>. HIDE DEF f
      <4>2. Granted(f) \in Int BY <4>1 DEF FoundationData, Granted
      <4>. QED BY <4>2 DEF f
    <3>. QED BY <2>3, <3>1 DEF OnSchedule, FoundationTypeOK
  <2>5. FoundationTypeOK'
    BY <1>3, <2>1, <2>2, <2>4 DEF Lock, Unlock, FoundationTypeOK
  <2>6. \A b \in Account : reserved'[b] - locked'[b] = reserved[b] - locked[b]
    BY <1>3, <2>1 DEF Lock, Unlock, FoundationTypeOK
  <2>7. CountdownKept' BY <2>2 DEF CountdownKept
  <2>8. OnSchedule' BY <2>2, <2>6 DEF OnSchedule
  <2>. QED BY <2>5, <2>7, <2>8 DEF FoundationInv
<1>. QED BY <1>1, <1>2, <1>3 DEF FoundationNext

(* Every fund has released exactly what its plan promises at every block,  *)
(* for every plan of genesis, and no more of the reserved balance than its *)
(* own: locks of other pallets are left alone.                             *)
THEOREM FundsOnSchedule == FoundationSpec => []OnSchedule
<1>1. FoundationInit => FoundationInv BY FoundationStart
<1>2. FoundationInv /\ [FoundationNext]_FoundationVars => FoundationInv' BY FoundationStep
<1>3. FoundationInv => OnSchedule BY DEF FoundationInv
<1>. QED BY <1>1, <1>2, <1>3, PTL DEF FoundationSpec

(* Entries are plans or removed, and no balance of a fund runs below zero, *)
(* neither when unlock_fund releases nor when other pallets do.            *)
THEOREM FoundationTypeCorrect == FoundationSpec => []FoundationTypeOK
<1>1. FoundationInit => FoundationInv BY FoundationStart
<1>2. FoundationInv /\ [FoundationNext]_FoundationVars => FoundationInv' BY FoundationStep
<1>3. FoundationInv => FoundationTypeOK BY DEF FoundationInv
<1>. QED BY <1>1, <1>2, <1>3, PTL DEF FoundationSpec

-----------------------------------------------------------------------------
(* Agent.  What is paid is inductive together with the types.  The order   *)
(* of the executions is so only with what it makes of the account's nonce: *)
(* the next execution will be in its turn too.                             *)

Follows(s, next) ==
  LET n == Len(s) + 1
  IN /\ LifeStarts(s, n) => next = 0
     /\ \A i \in DOMAIN s :
          OneLife(s, i, n) => next = s[i].request.nonce + (n - i)
NonceFollows == \A a \in Account : Follows(executed[a], nonce[a])

AgentInv == AgentTypeOK /\ ExecutedInTurn /\ NonceFollows /\ FeesAccounted

(* A fee is a natural number, and so is what an execution takes.           *)
LEMMA ChargedType ==
  ASSUME NEW c \in Call, NEW ok \in BOOLEAN, NEW reaped \in BOOLEAN
  PROVE  /\ compute_fee(c) \in Nat /\ Charged(c, ok) \in Nat
         /\ compute_fee(c) <= Charged(c, ok)
         /\ \A r : Spent([request |-> [nonce |-> r, call |-> c], ok |-> ok, reaped |-> reaped])
                   = Charged(c, ok)
<1>1. /\ RefTime[c] \in Nat /\ Size[c] \in Nat /\ Cost[c] \in Nat
      /\ MaxRefTime \in Nat /\ BaseFee \in Nat /\ ByteFee \in Nat
  BY AgentAssumption
<1>2. weight_to_fee(c) \in Nat BY <1>1 DEF weight_to_fee
<1>3. ByteFee * Size[c] \in Nat BY <1>1
<1>4. compute_fee(c) \in Nat BY <1>1, <1>2, <1>3 DEF compute_fee
<1>. QED BY <1>1, <1>4 DEF Charged, Spent

(* The fees of an account's executions.                                    *)
FeesOf(s) == SumFunction([i \in DOMAIN s |-> Spent(s[i])])

(* One more execution adds its own.                                        *)
LEMMA FeesAppend ==
  ASSUME NEW s \in Seq(Executed), NEW e \in Executed
  PROVE  FeesOf(Append(s, e)) = FeesOf(s) + Spent(e)
<1>. DEFINE n == Len(s)
            t == Append(s, e)
            f == [i \in DOMAIN s |-> Spent(s[i])]
            g == [i \in DOMAIN t |-> Spent(t[i])]
<1>1. \A x \in Executed : Spent(x) \in Int
  <2>. SUFFICES ASSUME NEW x \in Executed PROVE Spent(x) \in Int OBVIOUS
  <2>1. x.request.call \in Call /\ x.ok \in BOOLEAN BY DEF Executed, Request
  <2>. DEFINE c == x.request.call
  <2>2. compute_fee(c) \in Nat
    <3>1. TRUE \in BOOLEAN OBVIOUS
    <3>. QED BY <2>1, <3>1, ChargedType
  <2>3. Cost[c] \in Nat BY <2>1, AgentAssumption
  <2>. QED BY <2>2, <2>3 DEF Spent
<1>2. n \in Nat /\ DOMAIN s = 1..n /\ DOMAIN t = 1..(n + 1) /\ t[n + 1] = e
        /\ t \in Seq(Executed) /\ \A i \in 1..n : t[i] = s[i]
  OBVIOUS
<1>3. f \in [1..n -> Int]
  <2>1. \A i \in 1..n : s[i] \in Executed BY <1>2
  <2>. QED BY <1>1, <1>2, <2>1
<1>4. g \in [1..(n + 1) -> Int]
  <2>1. \A i \in 1..(n + 1) : t[i] \in Executed BY <1>2
  <2>. QED BY <1>1, <1>2, <2>1
<1>5. \A i \in 1..n : g[i] = f[i] BY <1>2
<1>6. g[n + 1] = Spent(e) BY <1>2
<1>. HIDE DEF f, g, n
<1>7. SumFunction(g) = SumFunction(f) + g[n + 1] BY <1>2, <1>3, <1>4, <1>5, TotalAppend
<1>. QED BY <1>6, <1>7 DEF FeesOf, f, g

(* The same statements with the total under its name.                      *)
LEMMA FeesNamed ==
  FeesAccounted <=> \A a \in Account : received[a] - free[a] = FeesOf(executed[a])
<1>1. \A a \in Account :
        FeesOf(executed[a]) = SumFunction([i \in DOMAIN executed[a] |-> Spent(executed[a][i])])
  BY Zenon DEF FeesOf
<1>. QED BY <1>1, Zenon DEF FeesAccounted

(* And of the next state.                                                  *)
LEMMA FeesNamedNext ==
  FeesAccounted' <=> \A a \in Account : received'[a] - free'[a] = FeesOf(executed'[a])
<1>1. \A a \in Account :
        FeesOf(executed'[a]) = SumFunction([i \in DOMAIN executed'[a] |-> Spent(executed'[a][i])])
  BY Zenon DEF FeesOf
<1>. QED BY <1>1, Zenon DEF FeesAccounted

(* A request with the nonce that follows is in its turn, and the nonce it  *)
(* leaves follows it; when the account is removed, a new life starts.      *)
LEMMA AppendInTurn ==
  ASSUME NEW s \in Seq(Executed), NEW allowed, NEW next, NEW e \in Executed,
         InTurn(s, allowed), Follows(s, next),
         e.request \in allowed, e.request.nonce = next
  PROVE  /\ InTurn(Append(s, e), allowed)
         /\ Follows(Append(s, e), IF e.reaped THEN 0 ELSE next + 1)
<1>. DEFINE n == Len(s)  t == Append(s, e)  after == IF e.reaped THEN 0 ELSE next + 1
<1>1. n \in Nat /\ Len(t) = n + 1 /\ DOMAIN t = 1..(n + 1) /\ DOMAIN s = 1..n
        /\ t[n + 1] = e /\ \A i \in 1..n : t[i] = s[i]
  OBVIOUS
<1>2. next \in Nat /\ e.reaped \in BOOLEAN /\ \A i \in 1..n : s[i].request.nonce \in Nat
  <2>1. \A x \in Executed : x.request.nonce \in Nat /\ x.reaped \in BOOLEAN
    BY AgentAssumption DEF Executed, Request
  <2>2. \A i \in 1..n : s[i] \in Executed BY <1>1
  <2>. QED BY <2>1, <2>2
<1>3. \A i \in 1..n :
        /\ s[i].request \in allowed
        /\ LifeStarts(s, i) => s[i].request.nonce = 0
        /\ \A j \in 1..n : OneLife(s, i, j) => s[j].request.nonce = s[i].request.nonce + (j - i)
  BY <1>1 DEF InTurn
<1>4. /\ LifeStarts(s, n + 1) => next = 0
      /\ \A i \in 1..n : OneLife(s, i, n + 1) => next = s[i].request.nonce + ((n + 1) - i)
  BY <1>1 DEF Follows
<1>. HIDE DEF n, t, after
<1>5. /\ \A i \in 1..(n + 1) : LifeStarts(t, i) <=> LifeStarts(s, i)
      /\ LifeStarts(t, n + 2) <=> e.reaped
  <2>1. \A i \in 1..(n + 1) : i # 1 => i - 1 \in 1..n BY <1>1
  <2>2. n + 2 # 1 /\ (n + 2) - 1 = n + 1 BY <1>1
  <2>. QED BY <1>1, <2>1, <2>2 DEF LifeStarts
<1>6. ASSUME NEW i \in 1..(n + 1), NEW j \in 1..(n + 1)
      PROVE  OneLife(t, i, j) <=> OneLife(s, i, j)
  <2>1. \A k \in i..(j - 1) : t[k].reaped = s[k].reaped BY <1>1
  <2>. QED BY <2>1 DEF OneLife
<1>7. ASSUME NEW i \in 1..(n + 1)
      PROVE  OneLife(t, i, n + 2) <=> OneLife(s, i, n + 1) /\ ~ e.reaped
  <2>1. /\ \A k \in i..n : t[k].reaped = s[k].reaped
        /\ t[n + 1].reaped = e.reaped
        /\ \A k : k \in i..(n + 1) <=> k \in i..n \/ k = n + 1
        /\ (n + 2) - 1 = n + 1 /\ (n + 1) - 1 = n /\ i <= n + 1 /\ i <= n + 2
    BY <1>1
  <2>. QED BY <2>1 DEF OneLife
<1>8. InTurn(t, allowed)
  <2>. SUFFICES ASSUME NEW i \in 1..(n + 1)
                PROVE  /\ t[i].request \in allowed
                       /\ LifeStarts(s, i) => t[i].request.nonce = 0
                       /\ \A j \in 1..(n + 1) : OneLife(s, i, j) =>
                            t[j].request.nonce = t[i].request.nonce + (j - i)
    BY <1>1, <1>5, <1>6 DEF InTurn
  <2>1. CASE i = n + 1
    <3>1. \A j \in 1..(n + 1) : OneLife(s, i, j) => j = i BY <1>1, <2>1 DEF OneLife
    <3>. QED BY <1>1, <1>2, <1>4, <2>1, <3>1
  <2>2. CASE i \in 1..n
    <3>1. t[i] = s[i] BY <1>1, <2>2
    <3>2. ASSUME NEW j \in 1..(n + 1), OneLife(s, i, j)
          PROVE  t[j].request.nonce = t[i].request.nonce + (j - i)
      <4>1. CASE j = n + 1 BY <1>1, <1>4, <2>2, <3>1, <3>2, <4>1
      <4>2. CASE j \in 1..n BY <1>1, <1>3, <2>2, <3>1, <3>2, <4>2
      <4>. QED BY <1>1, <4>1, <4>2
    <3>. QED BY <1>3, <2>2, <3>1, <3>2
  <2>. QED BY <1>1, <2>1, <2>2
<1>9. Follows(t, after)
  <2>1. LifeStarts(t, n + 2) => after = 0 BY <1>5 DEF after
  <2>2. ASSUME NEW i \in 1..(n + 1), OneLife(t, i, n + 2)
        PROVE  after = t[i].request.nonce + ((n + 2) - i)
    <3>1. OneLife(s, i, n + 1) /\ after = next + 1 BY <1>7, <2>2 DEF after
    <3>2. CASE i = n + 1 BY <1>1, <1>2, <3>1, <3>2
    <3>3. CASE i \in 1..n
      <4>. DEFINE x == s[i].request.nonce
      <4>1. x \in Nat /\ next = x + ((n + 1) - i) /\ t[i].request.nonce = x
        BY <1>1, <1>2, <1>4, <3>1, <3>3
      <4>. HIDE DEF x
      <4>. QED BY <1>1, <3>1, <4>1
    <3>. QED BY <1>1, <3>2, <3>3
  <2>3. Len(t) + 1 = n + 2 BY <1>1
  <2>. QED BY <1>1, <2>1, <2>2, <2>3 DEF Follows
<1>. QED BY <1>8, <1>9 DEF t, after

(* submit_external_tx executes a request in its turn and charges it.       *)
LEMMA ExecuteStep ==
  ASSUME AgentInv, NEW a \in Account, NEW r \in Request,
         NEW ok \in BOOLEAN, NEW reaped \in BOOLEAN, submit_external_tx(a, r, ok, reaped),
         pool' \in [Account -> Pending \cup {Nothing}]
  PROVE  AgentInv'
<1>. DEFINE e == [request |-> r, ok |-> ok, reaped |-> reaped]  charged == Charged(r.call, ok)
<1>1. /\ nonce \in [Account -> 0..(MaxNonce + 1)] /\ free \in [Account -> Nat]
      /\ signed \in [Account -> SUBSET Request] /\ received \in [Account -> 0..MaxFunds]
      /\ executed \in [Account -> Seq(Executed)] /\ MaxNonce \in Nat /\ MaxFunds \in Nat
  BY AgentAssumption DEF AgentInv, AgentTypeOK
<1>2. /\ r \in signed[a] /\ r.nonce = nonce[a]
      /\ CanPay(a, compute_fee(r.call))
      /\ ok => free[a] >= Charged(r.call, TRUE)
      /\ nonce' = [nonce EXCEPT ![a] = NonceAfter(a, reaped)]
      /\ free' = [free EXCEPT ![a] = @ - charged]
      /\ executed' = [executed EXCEPT ![a] = Append(@, e)]
      /\ signed' = signed /\ received' = received
  BY DEF submit_external_tx, validate_unsigned
<1>3. r.nonce \in 0..MaxNonce /\ r.call \in Call /\ e \in Executed
        /\ r = [nonce |-> r.nonce, call |-> r.call]
  BY DEF Request, Executed
<1>4. charged \in Nat /\ compute_fee(r.call) \in Nat /\ Spent(e) = charged
  <2>1. /\ compute_fee(r.call) \in Nat /\ Charged(r.call, ok) \in Nat
        /\ Spent([request |-> [nonce |-> r.nonce, call |-> r.call], ok |-> ok, reaped |-> reaped])
             = Charged(r.call, ok)
    BY <1>3, ChargedType
  <2>. QED BY <1>3, <2>1
<1>5. charged <= free[a]
  <2>1. CASE ok BY <1>2, <2>1
  <2>2. CASE ~ ok
    <3>1. charged = compute_fee(r.call) BY <1>4, <2>2 DEF Charged
    <3>. QED BY <1>1, <1>2, <1>4, <3>1 DEF CanPay
  <2>. QED BY <2>1, <2>2
<1>9. e.request = r /\ e.reaped = reaped OBVIOUS
<1>. HIDE DEF e, charged
<1>10. nonce'[a] = IF reaped THEN 0 ELSE r.nonce + 1 BY <1>1, <1>2 DEF NonceAfter
<1>6. AgentTypeOK'
  <2>1. nonce' \in [Account -> 0..(MaxNonce + 1)] BY <1>1, <1>2, <1>3 DEF NonceAfter
  <2>2. free' \in [Account -> Nat] BY <1>1, <1>2, <1>4, <1>5
  <2>3. executed' \in [Account -> Seq(Executed)] BY <1>1, <1>2, <1>3
  <2>. QED BY <1>1, <1>2, <2>1, <2>2, <2>3 DEF AgentTypeOK
<1>7. (ExecutedInTurn /\ NonceFollows)'
  <2>. SUFFICES ASSUME NEW b \in Account
                PROVE  InTurn(executed'[b], signed'[b]) /\ Follows(executed'[b], nonce'[b])
    BY DEF ExecutedInTurn, NonceFollows
  <2>1. InTurn(executed[b], signed[b]) /\ Follows(executed[b], nonce[b])
    BY DEF AgentInv, ExecutedInTurn, NonceFollows
  <2>2. CASE b # a
    <3>1. executed'[b] = executed[b] /\ nonce'[b] = nonce[b] BY <1>1, <1>2, <2>2
    <3>. QED BY <1>2, <2>1, <3>1
  <2>3. CASE b = a
    <3>1. executed'[a] = Append(executed[a], e) /\ executed[a] \in Seq(Executed) BY <1>1, <1>2
    <3>2. e.request \in signed[a] /\ e.request.nonce = nonce[a]
            /\ nonce'[a] = IF e.reaped THEN 0 ELSE nonce[a] + 1
      BY <1>2, <1>9, <1>10
    <3>. QED BY <1>2, <1>3, <2>1, <2>3, <3>1, <3>2, AppendInTurn
  <2>. QED BY <2>2, <2>3
<1>8. FeesAccounted'
  <2>. SUFFICES ASSUME NEW b \in Account
                PROVE  received'[b] - free'[b] = FeesOf(executed'[b])
    BY FeesNamedNext
  <2>1. received[b] - free[b] = FeesOf(executed[b]) BY FeesNamed DEF AgentInv
  <2>2. CASE b # a
    <3>1. executed'[b] = executed[b] /\ free'[b] = free[b] BY <1>1, <1>2, <2>2
    <3>. QED BY <1>2, <2>1, <3>1
  <2>3. CASE b = a
    <3>1. executed'[a] = Append(executed[a], e) /\ free'[a] = free[a] - charged BY <1>1, <1>2
    <3>2. executed[a] \in Seq(Executed) BY <1>1
    <3>3. FeesOf(executed'[a]) = FeesOf(executed[a]) + charged BY <1>3, <1>4, <3>1, <3>2, FeesAppend
    <3>4. received[a] \in Int /\ free[a] \in Int BY <1>1
    <3>5. received'[a] = received[a] BY <1>2
    <3>. QED BY <1>4, <2>1, <2>3, <3>1, <3>3, <3>4, <3>5
  <2>. QED BY <2>2, <2>3
<1>. QED BY <1>6, <1>7, <1>8 DEF AgentInv

(* The invariant holds before anything was executed.                       *)
LEMMA AgentStart ==
  ASSUME AgentInit
  PROVE  AgentInv
<1>1. AgentTypeOK BY AgentAssumption DEF AgentInit, AgentTypeOK
<1>2. ExecutedInTurn /\ NonceFollows
  <2>1. \A a \in Account : executed[a] = <<>> /\ nonce[a] = 0 BY DEF AgentInit
  <2>. QED BY <2>1 DEF ExecutedInTurn, InTurn, NonceFollows, Follows
<1>3. FeesAccounted
  <2>. SUFFICES ASSUME NEW a \in Account PROVE received[a] - free[a] = FeesOf(executed[a])
    BY FeesNamed
  <2>1. executed[a] = <<>> /\ received[a] = 0 /\ free[a] = 0 BY DEF AgentInit
  <2>. DEFINE f == [i \in DOMAIN <<>> |-> Spent(<<>>[i])]
  <2>2. DOMAIN f = {} OBVIOUS
  <2>. HIDE DEF f
  <2>3. SumFunction(f) = 0 BY <2>2, SumEmpty DEF SumFunction
  <2>. QED BY <2>1, <2>3 DEF FeesOf, f
<1>. QED BY <1>1, <1>2, <1>3 DEF AgentInv

(* Every step keeps it.                                                    *)
LEMMA AgentStep ==
  ASSUME AgentInv, [AgentNext]_AgentVars
  PROVE  AgentInv'
<1>. AgentTypeOK /\ ExecutedInTurn /\ NonceFollows /\ FeesAccounted BY DEF AgentInv
<1>. Longevity \in Nat BY AgentAssumption
<1>0. ASSUME UNCHANGED <<nonce, free, signed, executed, received>>,
             pool' \in [Account -> Pending \cup {Nothing}]
      PROVE  AgentInv'
  <2>1. AgentTypeOK' BY <1>0 DEF AgentTypeOK
  <2>2. (ExecutedInTurn /\ NonceFollows)'
    BY <1>0 DEF ExecutedInTurn, NonceFollows
  <2>3. FeesAccounted' BY <1>0 DEF FeesAccounted
  <2>. QED BY <2>1, <2>2, <2>3 DEF AgentInv
<1>1. CASE UNCHANGED AgentVars
  BY <1>0, <1>1 DEF AgentVars, AgentTypeOK
<1>2. CASE AgentNextBlock
  <2>1. ASSUME NEW a \in Account PROVE Aged(a) \in Pending \cup {Nothing}
    <3>1. pool[a] \in Pending \cup {Nothing} BY DEF AgentTypeOK
    <3>. QED BY <3>1 DEF Aged, Pending
  <2>2. pool' \in [Account -> Pending \cup {Nothing}] BY <1>2, <2>1 DEF AgentNextBlock
  <2>. QED BY <1>0, <1>2, <2>2 DEF AgentNextBlock
<1>3. ASSUME NEW a \in Account, Receive(a) PROVE AgentInv'
  <2>1. AgentTypeOK' BY <1>3, AgentAssumption DEF Receive, AgentTypeOK
  <2>2. (ExecutedInTurn /\ NonceFollows)'
    <3>1. UNCHANGED <<nonce, executed, signed>> BY <1>3 DEF Receive
    <3>. QED BY <3>1 DEF ExecutedInTurn, NonceFollows
  <2>3. \A b \in Account : received'[b] - free'[b] = received[b] - free[b]
    BY <1>3, AgentAssumption DEF Receive, AgentTypeOK
  <2>4. executed' = executed BY <1>3 DEF Receive
  <2>5. FeesAccounted' BY <2>3, <2>4, FeesNamed, FeesNamedNext
  <2>. QED BY <2>1, <2>2, <2>5 DEF AgentInv
<1>4. ASSUME NEW a \in Account, NEW r \in Request, Sign(a, r) PROVE AgentInv'
  <2>1. AgentTypeOK' BY <1>4 DEF Sign, AgentTypeOK
  <2>2. \A b \in Account : signed[b] \subseteq signed'[b] BY <1>4 DEF Sign, AgentTypeOK
  <2>3. UNCHANGED <<nonce, free, executed, received>> BY <1>4 DEF Sign
  <2>4. (ExecutedInTurn /\ NonceFollows)'
    BY <2>2, <2>3 DEF ExecutedInTurn, InTurn, NonceFollows
  <2>5. FeesAccounted' BY <2>3, FeesNamed, FeesNamedNext
  <2>. QED BY <2>1, <2>4, <2>5 DEF AgentInv
<1>5. ASSUME NEW a \in Account, NEW r \in Request, Submit(a, r) PROVE AgentInv'
  <2>1. pool' \in [Account -> Pending \cup {Nothing}]
    BY <1>5 DEF Submit, AgentTypeOK, Pending
  <2>. QED BY <1>0, <1>5, <2>1 DEF Submit
<1>6. ASSUME NEW a \in Account, NEW ok \in BOOLEAN, NEW reaped \in BOOLEAN, Author(a, ok, reaped)
      PROVE  AgentInv'
  <2>1. pool[a] # Nothing /\ submit_external_tx(a, pool[a].request, ok, reaped)
          /\ pool' = [pool EXCEPT ![a] = Nothing]
    BY <1>6 DEF Author
  <2>2. pool[a].request \in Request BY <2>1 DEF AgentTypeOK, Pending
  <2>3. pool' \in [Account -> Pending \cup {Nothing}] BY <2>1 DEF AgentTypeOK
  <2>. QED BY <2>1, <2>2, <2>3, ExecuteStep
<1>7. ASSUME NEW a \in Account, NEW ok \in BOOLEAN, NEW reaped \in BOOLEAN, NEW r \in Request,
             Import(a, r, ok, reaped)
      PROVE  AgentInv'
  <2>1. submit_external_tx(a, r, ok, reaped) /\ pool' = pool BY <1>7 DEF Import
  <2>2. pool' \in [Account -> Pending \cup {Nothing}] BY <2>1 DEF AgentTypeOK
  <2>. QED BY <2>1, <2>2, ExecuteStep
<1>. QED BY <1>1, <1>2, <1>3, <1>4, <1>5, <1>6, <1>7 DEF AgentNext

(* In one life of an account its requests are executed once and in the     *)
(* order of their nonces, from 0 on, whatever is signed, resubmitted,      *)
(* replaced, dropped or put into blocks by other nodes.  To execute one    *)
(* again the account must have been emptied and removed in between.        *)
THEOREM RequestsInTurn == AgentSpec => []ExecutedInTurn
<1>1. AgentInit => AgentInv BY AgentStart
<1>2. AgentInv /\ [AgentNext]_AgentVars => AgentInv' BY AgentStep
<1>3. AgentInv => ExecutedInTurn BY DEF AgentInv
<1>. QED BY <1>1, <1>2, <1>3, PTL DEF AgentSpec

(* An account has paid, of all it received, exactly the fees of what was   *)
(* executed for it and the costs of the calls that succeeded.              *)
THEOREM FeesAreAccounted == AgentSpec => []FeesAccounted
<1>1. AgentInit => AgentInv BY AgentStart
<1>2. AgentInv /\ [AgentNext]_AgentVars => AgentInv' BY AgentStep
<1>3. AgentInv => FeesAccounted BY DEF AgentInv
<1>. QED BY <1>1, <1>2, <1>3, PTL DEF AgentSpec

(* Balances stay natural numbers although a fee is taken before the call   *)
(* takes its cost, and what waits in the pool is a request.                *)
THEOREM AgentTypeCorrect == AgentSpec => []AgentTypeOK
<1>1. AgentInit => AgentInv BY AgentStart
<1>2. AgentInv /\ [AgentNext]_AgentVars => AgentInv' BY AgentStep
<1>3. AgentInv => AgentTypeOK BY DEF AgentInv
<1>. QED BY <1>1, <1>2, <1>3, PTL DEF AgentSpec

-----------------------------------------------------------------------------
(* Reward, for any traders, volumes, rewards and lengths of an era: no     *)
(* volume is lost or counted twice by the lazy rotation, so nobody is      *)
(* rewarded twice for an era and all together not beyond its reward.       *)
(* The inductive invariant:                                                *)

(* A trader's volume is never that of an era to come.                      *)
NotAhead == \A a \in Trader : rewards[a].last_modify <= CurrentEra

(* An era a trader was rewarded for is over, and none of its volume waits. *)
AwardsPast ==
  \A a \in Trader, e \in Era :
    awarded[a][e].times # 0 =>
      /\ e < CurrentEra
      /\ rewards[a].last_modify = e => rewards[a].pending_vol = 0

(* What was awarded to a trader for an era is its part of the largest      *)
(* reward, rounded to the nearest; the part is taken of the volume the era *)
(* ended with.                                                             *)
FairlyAwarded(aw, v) ==
  IF aw.times = 0
  THEN aw.volume = 0 /\ aw.reward = 0
  ELSE /\ aw.volume > 0 /\ v # 0
       /\ 2 * (v * aw.reward) < 2 * (Max(Reward) * aw.volume) + v
AwardsFair == \A a \in Trader, e \in Era : FairlyAwarded(awarded[a][e], volumes[e])

RewardInv ==
  /\ RewardTypeOK
  /\ NotAhead /\ AwardsPast /\ AwardedOnce
  /\ VolumeAccounted /\ AwardsFair
  /\ RewardsConserved

-----------------------------------------------------------------------------
(* Eras and shares.                                                        *)

RewardType == [confirmed : Nat, pending_vol : Nat, last_modify : Era]
AwardType == [times : Nat, volume : Nat, reward : Nat]

(* The multiples of a positive number, and the next one below a number.    *)
LEMMA MultipleBelow ==
  ASSUME NEW x \in Nat, NEW k \in Nat \ {0}
  PROVE  x - (x % k) \in 0..x /\ (x - (x % k)) % k = 0 /\ x - (x % k) = k * (x \div k)
  <1> DEFINE q == x \div k
             r == x % k
  <1>1. q \in Nat /\ r \in 0..(k - 1) /\ r <= x /\ x = (k * q) + r
    <2>1. /\ x \div k \in 0..x /\ x % k \in 0..(k - 1) /\ x % k <= x
          /\ x = (k * (x \div k)) + (x % k)
      BY DivMod, Zenon
    <2> QED BY <2>1
  <1> HIDE DEF q, r
  <1>2. k * q \in Nat
    BY <1>1
  <1>3. x - r = k * q
    BY <1>1, <1>2
  <1>4. (k * q) % k = 0
    BY <1>1
  <1> QED BY <1>1, <1>2, <1>3, <1>4 DEF q, r

(* The current era is an era, and eras follow the blocks.                  *)
LEMMA EraFacts ==
  ASSUME RewardTypeOK
  PROVE  /\ CurrentEra \in Era /\ CurrentEra <= now
         /\ Era \subseteq Nat /\ 0 \in Era /\ IsFiniteSet(Era)
  <1>1. now \in Nat /\ now <= MaxBlock /\ EraDuration \in Nat \ {0} /\ MaxBlock \in Nat
    BY RewardAssumption DEF RewardTypeOK
  <1>2. CurrentEra \in 0..now /\ CurrentEra % EraDuration = 0
    BY <1>1, MultipleBelow DEF CurrentEra
  <1>3. 0 % EraDuration = 0
    BY <1>1
  <1>4. IsFiniteSet(Era)
    <2>1. IsFiniteSet(0..MaxBlock)
      BY <1>1, FS_Interval
    <2> QED BY <2>1, FS_Subset DEF Era
  <1> QED BY <1>1, <1>2, <1>3, <1>4 DEF Era

(* A new block never takes the era back.                                   *)
LEMMA EraGrows ==
  ASSUME RewardTypeOK, now' = now + 1
  PROVE  CurrentEra <= CurrentEra'
  <1> DEFINE D == EraDuration
  <1>1. now \in Nat /\ now + 1 \in Nat /\ D \in Nat \ {0}
    BY RewardAssumption DEF RewardTypeOK
  <1>2. CurrentEra = D * (now \div D) /\ CurrentEra' = D * ((now + 1) \div D)
    BY <1>1, MultipleBelow DEF CurrentEra
  <1>3. now \div D <= (now + 1) \div D /\ now \div D \in Nat /\ (now + 1) \div D \in Nat
    BY <1>1
  <1> DEFINE p == now \div D
             q == (now + 1) \div D
  <1> HIDE DEF p, q, D
  <1>4. D * p <= D * q
    BY <1>1, <1>3, MulMono DEF p, q
  <1> QED BY <1>2, <1>4 DEF p, q

(* The largest reward that may be set.                                     *)
LEMMA MaxReward ==
  /\ Max(Reward) \in Nat
  /\ \A x \in Reward : x <= Max(Reward)
  <1>1. PICK m \in Reward : \A x \in Reward : x <= m
    BY RewardAssumption
  <1>2. \E y \in Reward : \A x \in Reward : y >= x
    BY <1>1, RewardAssumption
  <1>3. Max(Reward) \in Reward /\ \A x \in Reward : Max(Reward) >= x
    BY <1>2, Zenon DEF Max
  <1> QED BY <1>3, RewardAssumption

(* The award for waiting volume p of an era that traded v: it exceeds the  *)
(* exact part of the largest reward by less than half a unit.              *)
LEMMA AwardRounded ==
  ASSUME RewardTypeOK, NEW p \in Nat \ {0}, NEW v \in Nat \ {0}
  PROVE  /\ Share(p, v, EraReward) \in Nat
         /\ 2 * (v * Share(p, v, EraReward)) < 2 * (Max(Reward) * p) + v
  <1> DEFINE X == EraReward
             M == Max(Reward)
             s == Share(p, v, X)
  <1>1. X \in Nat /\ X <= M /\ M \in Nat
    BY MaxReward, RewardAssumption DEF RewardTypeOK, EraReward
  <1> HIDE DEF X, M
  <1>2. Parts \in Nat \ {0}
    BY RewardAssumption
  <1>3. s = RoundedPart(Parts, p, v, X)
    BY DEF Share, from_rational, RoundedPart
  <1>4. s \in Nat /\ 2 * (v * s) < 2 * (X * p) + v
    BY <1>1, <1>2, <1>3, PartRounded
  <1> HIDE DEF s
  <1>5. X * p <= M * p
    <2>1. p * X <= p * M
      BY <1>1, MulMono
    <2>2. p * X = X * p /\ p * M = M * p
      BY <1>1, MulLaws
    <2> QED BY <2>1, <2>2
  <1>6. X * p \in Nat /\ M * p \in Nat /\ v * s \in Nat
    BY <1>1, <1>4, MulLaws
  <1>7. 2 * (v * s) < 2 * (M * p) + v
    BY <1>4, <1>5, <1>6
  <1> QED BY <1>4, <1>7 DEF s, X, M

-----------------------------------------------------------------------------
(* The rotation of one trader.                                             *)

(* The volume of era e that record r still holds.                          *)
Waiting(r, e) == IF r.last_modify = e THEN r.pending_vol ELSE 0

(* The volume of a trader in an era, counted or waiting.                   *)
VolumeOf(aw, r, e) == aw[e].volume + Waiting(r, e)

Payable(a) == IsDue(rewards[a]) => volumes[rewards[a].last_modify] > 0

(* The entries of the state have their types.                              *)
LEMMA EntryTypes ==
  ASSUME RewardTypeOK, NEW a \in Trader
  PROVE  /\ rewards[a] \in RewardType /\ awarded[a] \in [Era -> AwardType]
         /\ rewards[a].confirmed \in Nat /\ rewards[a].pending_vol \in Nat
         /\ rewards[a].last_modify \in Era
         /\ credited[a] \in Nat
         /\ \A e \in Era : /\ volumes[e] \in Nat /\ awarded[a][e] \in AwardType
                           /\ awarded[a][e].times \in Nat /\ awarded[a][e].volume \in Nat
                           /\ awarded[a][e].reward \in Nat
  BY DEF RewardTypeOK, RewardType, AwardType

(* What is awarded for waiting volume is a natural number.                 *)
LEMMA AwardBound ==
  ASSUME RewardTypeOK, NEW a \in Trader, Payable(a), IsDue(rewards[a])
  PROVE  /\ Award(rewards[a]) \in Nat
         /\ 2 * (volumes[rewards[a].last_modify] * Award(rewards[a]))
              < 2 * (Max(Reward) * rewards[a].pending_vol) + volumes[rewards[a].last_modify]
  <1> DEFINE p == rewards[a].pending_vol
             v == volumes[rewards[a].last_modify]
  <1>1. p \in Nat \ {0} /\ v \in Nat \ {0}
    BY EntryTypes DEF Payable, IsDue
  <1>2. Award(rewards[a]) = Share(p, v, EraReward)
    BY DEF Award
  <1> HIDE DEF p, v
  <1>3. /\ Share(p, v, EraReward) \in Nat
        /\ 2 * (v * Share(p, v, EraReward)) < 2 * (Max(Reward) * p) + v
    BY <1>1, AwardRounded
  <1> QED BY <1>2, <1>3 DEF p, v

(* rotate_reward leaves a record of the current era.                       *)
LEMMA RotateLaw ==
  ASSUME RewardTypeOK, NEW a \in Trader, NEW vol \in Nat, Payable(a)
  PROVE  LET r == rewards[a]
             n == rotate_reward(r, vol)
         IN /\ n \in RewardType
            /\ n.last_modify = CurrentEra
            /\ n.confirmed = r.confirmed + (IF IsDue(r) THEN Award(r) ELSE 0)
            /\ n.pending_vol = (IF IsDue(r) THEN vol ELSE r.pending_vol + vol)
  <1> DEFINE r == rewards[a]
             c == r.confirmed + (IF IsDue(r) THEN Award(r) ELSE 0)
             p == IF IsDue(r) THEN vol ELSE r.pending_vol + vol
  <1>1. CurrentEra \in Era
    BY EraFacts
  <1>2. c \in Nat /\ p \in Nat
    BY AwardBound, EntryTypes
  <1>3. rotate_reward(r, vol) = [confirmed |-> c, pending_vol |-> p, last_modify |-> CurrentEra]
    BY DEF rotate_reward
  <1> HIDE DEF c, p
  <1>4. /\ rotate_reward(r, vol) \in RewardType
        /\ rotate_reward(r, vol).last_modify = CurrentEra
        /\ rotate_reward(r, vol).confirmed = c /\ rotate_reward(r, vol).pending_vol = p
    BY <1>1, <1>2, <1>3 DEF RewardType
  <1> QED BY <1>4 DEF c, p

(* The entry that RecordAward writes.                                      *)
NewAward(a) ==
  LET r == rewards[a] old == awarded[a][r.last_modify]
  IN  [times |-> old.times + 1, volume |-> old.volume + r.pending_vol,
       reward |-> old.reward + Award(r)]

(* RecordAward changes the trader's entry of the era that was due, if any. *)
LEMMA RecordLaw ==
  ASSUME RewardTypeOK, NEW a \in Trader, Payable(a)
  PROVE  LET w == RecordAward(a)
             lm == rewards[a].last_modify
         IN /\ w \in [Trader -> [Era -> AwardType]]
            /\ \A b \in Trader \ {a} : w[b] = awarded[b]
            /\ \A e \in Era \ {lm} : w[a][e] = awarded[a][e]
            /\ w[a][lm] = IF IsDue(rewards[a]) THEN NewAward(a) ELSE awarded[a][lm]
  <1> DEFINE lm == rewards[a].last_modify
             w == RecordAward(a)
  <1>1. awarded \in [Trader -> [Era -> AwardType]] /\ lm \in Era
    BY EntryTypes DEF RewardTypeOK, AwardType
  <1>2. CASE IsDue(rewards[a])
    <2>1. NewAward(a) \in AwardType
      BY <1>2, AwardBound, EntryTypes DEF NewAward, AwardType
    <2>2. w = [awarded EXCEPT ![a][lm] = NewAward(a)]
      BY <1>1, <1>2 DEF RecordAward, NewAward
    <2> HIDE DEF w, lm
    <2>3. /\ w \in [Trader -> [Era -> AwardType]]
          /\ \A b \in Trader \ {a} : w[b] = awarded[b]
          /\ \A e \in Era \ {lm} : w[a][e] = awarded[a][e]
          /\ w[a][lm] = NewAward(a)
      BY <1>1, <2>1, <2>2
    <2> QED BY <1>2, <2>3 DEF w, lm
  <1>3. CASE ~IsDue(rewards[a])
    BY <1>1, <1>3 DEF RecordAward
  <1> QED BY <1>2, <1>3

(* Rotation loses no volume: what was waiting is counted, and the new      *)
(* volume waits in the current era.                                        *)
LEMMA VolumeRotates ==
  ASSUME RewardTypeOK, NEW a \in Trader, NEW vol \in Nat, Payable(a), NEW e \in Era
  PROVE  VolumeOf(RecordAward(a)[a], rotate_reward(rewards[a], vol), e)
           = VolumeOf(awarded[a], rewards[a], e) + (IF e = CurrentEra THEN vol ELSE 0)
  <1> DEFINE r == rewards[a]
             n == rotate_reward(r, vol)
             w == RecordAward(a)[a]
             lm == r.last_modify
  <1>1. /\ n.last_modify = CurrentEra
        /\ n.pending_vol = (IF IsDue(r) THEN vol ELSE r.pending_vol + vol)
    BY RotateLaw
  <1>2. /\ \A x \in Era \ {lm} : w[x] = awarded[a][x]
        /\ w[lm] = IF IsDue(r) THEN NewAward(a) ELSE awarded[a][lm]
    BY RecordLaw
  <1>3. IsDue(r) => NewAward(a).volume = awarded[a][lm].volume + r.pending_vol
    BY DEF NewAward
  <1>4. lm \in Era /\ r.pending_vol \in Nat /\ awarded[a][e].volume \in Nat
    BY EntryTypes
  <1>5. IsDue(r) <=> lm # CurrentEra /\ r.pending_vol # 0
    BY DEF IsDue
  <1> HIDE DEF n, w, lm, r
  <1>6. CASE IsDue(r) /\ e = lm
    <2>1. w[e].volume = awarded[a][e].volume + r.pending_vol /\ e # CurrentEra
      BY <1>2, <1>3, <1>5, <1>6
    <2>2. Waiting(n, e) = 0 /\ Waiting(r, e) = r.pending_vol
      BY <1>1, <1>6, <2>1 DEF Waiting, lm
    <2> QED BY <1>4, <2>1, <2>2 DEF VolumeOf, w, n, r
  <1>7. CASE ~(IsDue(r) /\ e = lm)
    <2>1. w[e].volume = awarded[a][e].volume
      BY <1>2, <1>7
    <2>2. Waiting(n, e) = Waiting(r, e) + (IF e = CurrentEra THEN vol ELSE 0)
      BY <1>1, <1>4, <1>5, <1>7 DEF Waiting, lm
    <2>3. Waiting(r, e) \in Nat
      BY <1>4 DEF Waiting
    <2> QED BY <1>4, <2>1, <2>2, <2>3 DEF VolumeOf, w, n, r
  <1> QED BY <1>6, <1>7

(* Rotation confirms exactly what it records as awarded.                   *)
LEMMA RewardRotates ==
  ASSUME RewardTypeOK, NEW a \in Trader, NEW vol \in Nat, Payable(a)
  PROVE  rotate_reward(rewards[a], vol).confirmed - rewards[a].confirmed
           = SumFunction([e \in Era |-> RecordAward(a)[a][e].reward])
               - SumFunction([e \in Era |-> awarded[a][e].reward])
  <1> DEFINE r == rewards[a]
             w == RecordAward(a)[a]
             lm == r.last_modify
             f == [e \in Era |-> awarded[a][e].reward]
             g == [e \in Era |-> w[e].reward]
             x == IF IsDue(r) THEN Award(r) ELSE 0
  <1>1. /\ w \in [Era -> AwardType]
        /\ \A e \in Era \ {lm} : w[e] = awarded[a][e]
        /\ w[lm] = IF IsDue(r) THEN NewAward(a) ELSE awarded[a][lm]
    BY RecordLaw
  <1>2. lm \in Era /\ r.confirmed \in Nat /\ \A e \in Era : awarded[a][e].reward \in Nat
    BY EntryTypes
  <1>3. x \in Nat
    BY AwardBound
  <1>4. IsDue(r) => NewAward(a).reward = awarded[a][lm].reward + Award(r)
    BY DEF NewAward
  <1>5. f \in [Era -> Int] /\ \A e \in Era : f[e] = awarded[a][e].reward
    BY <1>2
  <1>6. g \in [Era -> Int] /\ \A e \in Era : g[e] = w[e].reward
    BY <1>1 DEF AwardType
  <1>7. w[lm].reward = awarded[a][lm].reward + x
    BY <1>1, <1>2, <1>4
  <1>8. rotate_reward(r, vol).confirmed = r.confirmed + x
    BY RotateLaw
  <1> HIDE DEF f, g, w, lm, x
  <1>9. SumFunction(g) = SumFunction(f) + g[lm] - f[lm]
    <2>1. \A e \in Era \ {lm} : g[e] = f[e]
      BY <1>1, <1>5, <1>6
    <2>2. IsFiniteSet(Era)
      BY EraFacts
    <2> QED BY <1>2, <1>5, <1>6, <2>1, <2>2, TotalUpdate
  <1>10. g[lm] - f[lm] = x
    BY <1>2, <1>3, <1>5, <1>6, <1>7
  <1>11. SumFunction(f) \in Int /\ SumFunction(g) \in Int
    BY <1>5, <1>6, EraFacts, TotalInt
  <1>12. SumFunction(g) - SumFunction(f) = x
    <2>1. f[lm] \in Int /\ g[lm] \in Int
      BY <1>2, <1>5, <1>6
    <2> QED BY <1>3, <1>9, <1>10, <1>11, <2>1
  <1>13. rotate_reward(r, vol).confirmed - r.confirmed = x
    BY <1>2, <1>3, <1>8
  <1> QED BY <1>12, <1>13 DEF f, g, w

-----------------------------------------------------------------------------
(* What a trade and a claim have in common: the trader is rotated and its  *)
(* record replaced by one that holds the same volume.                      *)

(* new may take the place of the rotated record.                           *)
Replaces(new, a, vol) ==
  /\ new \in RewardType
  /\ new.last_modify <= CurrentEra
  /\ new.last_modify = CurrentEra \/ new.pending_vol = 0
  /\ \A e \in Era : Waiting(new, e) = Waiting(rotate_reward(rewards[a], vol), e)

Rotation(a, vol, new) ==
  /\ Payable(a)
  /\ Replaces(new, a, vol)
  /\ now' = now
  /\ volumes' = [volumes EXCEPT ![CurrentEra] = @ + vol]
  /\ rewards' = [rewards EXCEPT ![a] = new]
  /\ awarded' = RecordAward(a)

(* No record is ahead of the era.                                          *)
LEMMA RotationNotAhead ==
  ASSUME RewardInv, NEW a \in Trader, NEW vol \in Nat, NEW new, Rotation(a, vol, new)
  PROVE  NotAhead'
  BY DEF RewardInv, RewardTypeOK, NotAhead, Rotation, Replaces, CurrentEra

(* The due era is an earlier one, and waits no longer.                     *)
LEMMA RotationPast ==
  ASSUME RewardInv, NEW a \in Trader, NEW vol \in Nat, NEW new, Rotation(a, vol, new)
  PROVE  AwardsPast' /\ AwardedOnce'
  <1> DEFINE lm == rewards[a].last_modify
             C == CurrentEra
  <1>1. RewardTypeOK /\ NotAhead /\ AwardsPast /\ AwardedOnce
    BY DEF RewardInv
  <1>2. CurrentEra' = CurrentEra
    BY DEF Rotation, CurrentEra
  <1>3. /\ \A b \in Trader \ {a} : awarded'[b] = awarded[b]
        /\ \A e \in Era \ {lm} : awarded'[a][e] = awarded[a][e]
        /\ awarded'[a][lm] = IF IsDue(rewards[a]) THEN NewAward(a) ELSE awarded[a][lm]
    BY <1>1, RecordLaw DEF Rotation
  <1>4. /\ \A b \in Trader \ {a} : rewards'[b] = rewards[b]
        /\ rewards'[a] = new
    BY <1>1 DEF Rotation, RewardTypeOK
  <1>5. C \in Nat /\ lm \in Nat /\ lm \in Era /\ lm <= C /\ Era \subseteq Nat
    BY <1>1, EraFacts, EntryTypes DEF NotAhead
  <1>6. IsDue(rewards[a]) => /\ lm # C /\ awarded[a][lm].times = 0
                             /\ NewAward(a).times = 1
    <2> SUFFICES ASSUME IsDue(rewards[a])
                 PROVE  lm # C /\ awarded[a][lm].times = 0 /\ NewAward(a).times = 1
      OBVIOUS
    <2>1. lm # C /\ rewards[a].pending_vol # 0
      BY DEF IsDue
    <2>2. awarded[a][lm].times = 0
      BY <1>1, <1>5, <2>1 DEF AwardsPast
    <2>3. NewAward(a).times = 1
      BY <2>2 DEF NewAward
    <2> QED BY <2>1, <2>2, <2>3
  <1>7. AwardedOnce'
    <2> SUFFICES ASSUME NEW b \in Trader, NEW e \in Era PROVE awarded'[b][e].times <= 1
      BY DEF AwardedOnce
    <2>1. awarded[b][e].times <= 1
      BY <1>1 DEF AwardedOnce
    <2>2. CASE b = a /\ e = lm
      BY <1>3, <1>6, <2>1, <2>2
    <2>3. CASE ~(b = a /\ e = lm)
      BY <1>3, <2>1, <2>3
    <2> QED BY <2>2, <2>3
  <1>8. AwardsPast'
    <2> SUFFICES ASSUME NEW b \in Trader, NEW e \in Era, awarded'[b][e].times # 0
                 PROVE  /\ e < C
                        /\ rewards'[b].last_modify = e => rewards'[b].pending_vol = 0
      BY <1>2 DEF AwardsPast
    <2>1. CASE b # a
      BY <1>1, <1>3, <1>4, <2>1 DEF AwardsPast
    <2>2. CASE b = a
      <3>1. e < C
        <4>1. CASE e = lm /\ IsDue(rewards[a])
          BY <1>5, <1>6, <4>1
        <4>2. CASE ~(e = lm /\ IsDue(rewards[a]))
          <5>1. awarded'[a][e] = awarded[a][e]
            BY <1>3, <4>2
          <5> QED BY <1>1, <2>2, <5>1 DEF AwardsPast
        <4> QED BY <4>1, <4>2
      <3>2. new.last_modify = C \/ new.pending_vol = 0
        BY DEF Rotation, Replaces
      <3> QED BY <1>4, <1>5, <2>2, <3>1, <3>2
    <2> QED BY <2>1, <2>2
  <1> QED BY <1>7, <1>8

(* The total of an era grows with the trader's volume.                     *)
LEMMA RotationVolume ==
  ASSUME RewardInv, NEW a \in Trader, NEW vol \in Nat, NEW new, Rotation(a, vol, new)
  PROVE  VolumeAccounted'
  <1>1. RewardTypeOK /\ VolumeAccounted
    BY DEF RewardInv
  <1> SUFFICES ASSUME NEW e \in Era
               PROVE  volumes'[e] = SumFunction([b \in Trader |->
                        awarded'[b][e].volume
                          + (IF rewards'[b].last_modify = e THEN rewards'[b].pending_vol ELSE 0)])
    BY DEF VolumeAccounted
  <1> DEFINE f == [b \in Trader |-> VolumeOf(awarded[b], rewards[b], e)]
             g == [b \in Trader |-> VolumeOf(awarded'[b], rewards'[b], e)]
             d == IF e = CurrentEra THEN vol ELSE 0
  <1>2. volumes[e] = SumFunction(f)
    BY <1>1 DEF VolumeAccounted, VolumeOf, Waiting
  <1>3. volumes'[e] = volumes[e] + d
    <2>1. volumes[e] \in Nat /\ volumes \in [Era -> Nat] /\ volumes' = [volumes EXCEPT ![CurrentEra] = @ + vol]
      BY <1>1 DEF RewardTypeOK, Rotation
    <2>2. CurrentEra \in Era
      BY <1>1, EraFacts
    <2> QED BY <2>1, <2>2
  <1>4. f \in [Trader -> Int] /\ \A b \in Trader : f[b] = VolumeOf(awarded[b], rewards[b], e)
    BY <1>1, EntryTypes DEF VolumeOf, Waiting
  <1>5. /\ \A b \in Trader \ {a} : awarded'[b] = awarded[b] /\ rewards'[b] = rewards[b]
        /\ awarded'[a] = RecordAward(a)[a] /\ rewards'[a] = new
    BY <1>1, RecordLaw DEF Rotation, RewardTypeOK
  <1>6. VolumeOf(awarded'[a], rewards'[a], e) = VolumeOf(awarded[a], rewards[a], e) + d
    <2>1. Waiting(new, e) = Waiting(rotate_reward(rewards[a], vol), e)
      BY DEF Rotation, Replaces
    <2>2. VolumeOf(RecordAward(a)[a], new, e)
            = VolumeOf(RecordAward(a)[a], rotate_reward(rewards[a], vol), e)
      BY <2>1 DEF VolumeOf
    <2>3. VolumeOf(RecordAward(a)[a], rotate_reward(rewards[a], vol), e)
            = VolumeOf(awarded[a], rewards[a], e) + d
      BY <1>1, VolumeRotates DEF Rotation
    <2> QED BY <1>5, <2>2, <2>3
  <1>7. \A b \in Trader \ {a} : VolumeOf(awarded'[b], rewards'[b], e) = VolumeOf(awarded[b], rewards[b], e)
    BY <1>5
  <1>8. d \in Nat /\ \A b \in Trader : VolumeOf(awarded[b], rewards[b], e) \in Int
    BY <1>4
  <1>9. g \in [Trader -> Int] /\ \A b \in Trader : g[b] = VolumeOf(awarded'[b], rewards'[b], e)
    <2>1. \A b \in Trader : VolumeOf(awarded'[b], rewards'[b], e) \in Int
      BY <1>6, <1>7, <1>8
    <2> QED BY <2>1
  <1> HIDE DEF f, g, d
  <1>10. SumFunction(g) = SumFunction(f) + g[a] - f[a]
    <2>1. \A b \in Trader \ {a} : g[b] = f[b]
      BY <1>4, <1>7, <1>9
    <2> QED BY <1>4, <1>9, <2>1, TotalUpdate, RewardAssumption
  <1>11. SumFunction(f) \in Int
    BY <1>4, TotalInt, RewardAssumption
  <1>12. SumFunction(g) = SumFunction(f) + d
    BY <1>4, <1>6, <1>8, <1>9, <1>10, <1>11
  <1>13. volumes'[e] = SumFunction(g)
    BY <1>2, <1>3, <1>12
  <1> QED BY <1>13 DEF g, VolumeOf, Waiting

(* The new award is a fair part of a total that no longer changes.         *)
LEMMA RotationFair ==
  ASSUME RewardInv, NEW a \in Trader, NEW vol \in Nat, NEW new, Rotation(a, vol, new)
  PROVE  AwardsFair'
  <1> DEFINE lm == rewards[a].last_modify
  <1>1. RewardTypeOK /\ NotAhead /\ AwardsPast /\ AwardsFair
    BY DEF RewardInv
  <1>2. /\ \A b \in Trader \ {a} : awarded'[b] = awarded[b]
        /\ \A e \in Era \ {lm} : awarded'[a][e] = awarded[a][e]
        /\ awarded'[a][lm] = IF IsDue(rewards[a]) THEN NewAward(a) ELSE awarded[a][lm]
    BY <1>1, RecordLaw DEF Rotation
  <1>3. CurrentEra \in Era /\ CurrentEra \in Nat /\ lm \in Era
    BY <1>1, EraFacts, EntryTypes
  <1>4. \A e \in Era \ {CurrentEra} : volumes'[e] = volumes[e]
    BY <1>1, <1>3 DEF Rotation, RewardTypeOK
  <1> SUFFICES ASSUME NEW b \in Trader, NEW e \in Era
               PROVE  FairlyAwarded(awarded'[b][e], volumes'[e])
    BY DEF AwardsFair, FairlyAwarded
  <1>5. CASE b = a /\ e = lm /\ IsDue(rewards[a])
    <2>1. lm # CurrentEra /\ rewards[a].pending_vol # 0
      BY <1>5 DEF IsDue
    <2>2. awarded[a][lm].times = 0
      BY <1>1, <1>3, <2>1 DEF AwardsPast
    <2>3. awarded[a][lm].volume = 0 /\ awarded[a][lm].reward = 0
      BY <1>1, <1>3, <2>2 DEF AwardsFair, FairlyAwarded
    <2> DEFINE p == rewards[a].pending_vol
               w == Award(rewards[a])
               v == volumes[lm]
    <2>4. /\ w \in Nat /\ p \in Nat \ {0} /\ v \in Nat /\ v # 0
          /\ 2 * (v * w) < 2 * (Max(Reward) * p) + v
      <3>1. Payable(a) /\ IsDue(rewards[a])
        BY <1>5 DEF Rotation
      <3>2. w \in Nat /\ 2 * (v * w) < 2 * (Max(Reward) * p) + v
        BY <1>1, <3>1, AwardBound
      <3>3. p \in Nat \ {0} /\ v \in Nat
        BY <1>1, <1>3, <2>1, EntryTypes
      <3>4. v # 0
        BY <3>1, <3>3 DEF Payable
      <3> QED BY <3>2, <3>3, <3>4
    <2>5. NewAward(a) = [times |-> 1, volume |-> p, reward |-> w]
      <3>1. NewAward(a) = [times |-> 0 + 1, volume |-> 0 + p, reward |-> 0 + w]
        BY <2>2, <2>3 DEF NewAward
      <3>2. 0 + 1 = 1 /\ 0 + p = p /\ 0 + w = w
        BY <2>4
      <3> QED BY <3>1, <3>2
    <2>6. awarded'[b][e] = NewAward(a) /\ volumes'[e] = v
      BY <1>2, <1>4, <1>5, <2>1
    <2> HIDE DEF p, w, v
    <2> QED BY <2>4, <2>5, <2>6 DEF FairlyAwarded
  <1>6. CASE ~(b = a /\ e = lm /\ IsDue(rewards[a]))
    <2>1. awarded'[b][e] = awarded[b][e]
      BY <1>2, <1>6
    <2>2. FairlyAwarded(awarded[b][e], volumes[e])
      BY <1>1 DEF AwardsFair
    <2>3. CASE awarded[b][e].times = 0
      BY <2>1, <2>2, <2>3 DEF FairlyAwarded
    <2>4. CASE awarded[b][e].times # 0
      <3>1. e < CurrentEra
        BY <1>1, <2>4 DEF AwardsPast
      <3>2. volumes'[e] = volumes[e]
        BY <1>3, <1>4, <3>1
      <3> QED BY <2>1, <2>2, <3>2
    <2> QED BY <2>3, <2>4
  <1> QED BY <1>5, <1>6

-----------------------------------------------------------------------------
(* The steps.                                                              *)

(* A rotation keeps all but what was credited.                             *)
LEMMA RotationKeeps ==
  ASSUME RewardInv, NEW a \in Trader, NEW vol \in Nat, NEW new, Rotation(a, vol, new)
  PROVE  /\ NotAhead' /\ AwardsPast' /\ AwardedOnce' /\ VolumeAccounted' /\ AwardsFair'
         /\ now' \in 0..MaxBlock /\ volumes' \in [Era -> Nat]
         /\ rewards' \in [Trader -> RewardType]
         /\ awarded' \in [Trader -> [Era -> AwardType]]
  <1>1. RewardTypeOK
    BY DEF RewardInv
  <1>2. awarded' \in [Trader -> [Era -> AwardType]]
    BY <1>1, RecordLaw DEF Rotation
  <1>3. now' \in 0..MaxBlock
    BY <1>1 DEF Rotation, RewardTypeOK
  <1>4. rewards' \in [Trader -> RewardType]
    BY <1>1 DEF Rotation, Replaces, RewardTypeOK, RewardType
  <1>5. volumes' \in [Era -> Nat]
    <2>1. volumes[CurrentEra] + vol \in Nat
      BY <1>1, EraFacts DEF RewardTypeOK
    <2> QED BY <1>1, <2>1 DEF Rotation, RewardTypeOK
  <1> QED BY <1>2, <1>3, <1>4, <1>5, RotationNotAhead, RotationPast, RotationVolume, RotationFair

(* The books of one trader: credited, confirmed and awarded.               *)
Balanced(a) ==
  credited[a] + rewards[a].confirmed = SumFunction([e \in Era |-> awarded[a][e].reward])

(* Totals of awards are integers.                                          *)
LEMMA AwardTotals ==
  ASSUME NEW aw \in [Era -> AwardType], IsFiniteSet(Era)
  PROVE  SumFunction([e \in Era |-> aw[e].reward]) \in Int
  <1> DEFINE f == [e \in Era |-> aw[e].reward]
  <1>1. f \in [Era -> Int]
    BY DEF AwardType
  <1> QED BY <1>1, TotalInt

(* A trade: nothing is credited, and what is confirmed was awarded.        *)
LEMMA TradeKeeps ==
  ASSUME RewardInv, NEW a \in Trader, NEW vol \in Volume, save_trading(a, vol)
  PROVE  RewardInv'
  <1> DEFINE n == rotate_reward(rewards[a], vol)
  <1>1. RewardTypeOK /\ RewardsConserved /\ vol \in Nat
    BY RewardAssumption DEF RewardInv
  <1>2. Payable(a)
    BY DEF save_trading, Payable
  <1>3. n \in RewardType /\ n.last_modify = CurrentEra
    BY <1>1, <1>2, RotateLaw
  <1>4. rewards' = [rewards EXCEPT ![a] = n]
    BY DEF save_trading
  <1>5. CurrentEra \in Nat
    BY <1>1, EraFacts
  <1> HIDE DEF n
  <1>6. Rotation(a, vol, n)
    BY <1>2, <1>3, <1>4, <1>5 DEF Rotation, Replaces, save_trading, AddVolume, n
  <1>7. /\ NotAhead' /\ AwardsPast' /\ AwardedOnce' /\ VolumeAccounted' /\ AwardsFair'
        /\ now' \in 0..MaxBlock /\ volumes' \in [Era -> Nat]
        /\ rewards' \in [Trader -> RewardType]
        /\ awarded' \in [Trader -> [Era -> AwardType]]
    BY <1>1, <1>6, RotationKeeps
  <1>8. UNCHANGED <<era_rewards, credited, issued>>
    BY DEF save_trading
  <1>9. RewardTypeOK'
    BY <1>1, <1>7, <1>8 DEF RewardTypeOK, RewardType, AwardType
  <1>10. \A b \in Trader : Balanced(b)'
    <2> SUFFICES ASSUME NEW b \in Trader
                 PROVE  credited[b] + rewards'[b].confirmed
                          = SumFunction([e \in Era |-> awarded'[b][e].reward])
      BY <1>8 DEF Balanced
    <2>1. credited[b] + rewards[b].confirmed = SumFunction([e \in Era |-> awarded[b][e].reward])
      BY <1>1 DEF RewardsConserved
    <2>2. CASE b # a
      <3>1. rewards'[b] = rewards[b] /\ awarded'[b] = awarded[b]
        BY <1>1, <1>2, <1>4, <1>6, <2>2, RecordLaw DEF RewardTypeOK, Rotation
      <3> QED BY <2>1, <3>1
    <2>3. CASE b = a
      <3>1. rewards'[a] = n /\ awarded' = RecordAward(a)
        BY <1>1, <1>4, <1>6 DEF RewardTypeOK, Rotation
      <3>2. n.confirmed - rewards[a].confirmed
              = SumFunction([e \in Era |-> awarded'[a][e].reward])
                  - SumFunction([e \in Era |-> awarded[a][e].reward])
        BY <1>1, <1>2, <3>1, RewardRotates DEF n
      <3>3. /\ SumFunction([e \in Era |-> awarded'[a][e].reward]) \in Int
            /\ SumFunction([e \in Era |-> awarded[a][e].reward]) \in Int
        <4>1. awarded'[a] \in [Era -> AwardType] /\ awarded[a] \in [Era -> AwardType] /\ IsFiniteSet(Era)
          BY <1>1, <1>7, EntryTypes, EraFacts
        <4> QED BY <4>1, AwardTotals
      <3>4. credited[a] \in Nat /\ rewards[a].confirmed \in Nat /\ n.confirmed \in Nat
        BY <1>1, <1>3, EntryTypes DEF RewardType
      <3> QED BY <2>1, <2>3, <3>1, <3>2, <3>3, <3>4
    <2> QED BY <2>2, <2>3
  <1>11. RewardsConserved'
    BY <1>1, <1>8, <1>10 DEF RewardsConserved, Balanced
  <1> QED BY <1>7, <1>9, <1>11 DEF RewardInv

(* The record a claim leaves holds the same volume: it is dropped only     *)
(* when none waits.                                                        *)
LEMMA AfterClaimLaw ==
  ASSUME RewardTypeOK, NEW n \in RewardType, n.last_modify = CurrentEra
  PROVE  /\ AfterClaim(n) \in RewardType
         /\ AfterClaim(n).confirmed = 0
         /\ AfterClaim(n).last_modify <= CurrentEra
         /\ AfterClaim(n).last_modify = CurrentEra \/ AfterClaim(n).pending_vol = 0
         /\ \A e \in Era : Waiting(AfterClaim(n), e) = Waiting(n, e)
  <1>1. 0 \in Era /\ CurrentEra \in Nat /\ n.pending_vol \in Nat /\ n.confirmed \in Nat
    BY EraFacts DEF RewardType
  <1>2. CASE n.confirmed = 0
    <2>1. AfterClaim(n) = n
      BY <1>2 DEF AfterClaim
    <2> QED BY <1>1, <1>2, <2>1
  <1>3. CASE n.confirmed # 0 /\ n.pending_vol > 0
    <2> DEFINE m == [n EXCEPT !.confirmed = 0]
    <2>1. AfterClaim(n) = m
      BY <1>3 DEF AfterClaim
    <2>2. m \in RewardType /\ m.confirmed = 0 /\ m.last_modify = n.last_modify
          /\ m.pending_vol = n.pending_vol
      BY <1>1 DEF RewardType
    <2> HIDE DEF m
    <2> QED BY <1>1, <2>1, <2>2 DEF Waiting
  <1>4. CASE n.confirmed # 0 /\ ~(n.pending_vol > 0)
    <2>1. AfterClaim(n) = NoReward /\ n.pending_vol = 0
      BY <1>1, <1>4 DEF AfterClaim
    <2>2. NoReward \in RewardType /\ NoReward.confirmed = 0 /\ NoReward.last_modify = 0
          /\ NoReward.pending_vol = 0
      BY <1>1 DEF NoReward, RewardType
    <2> QED BY <1>1, <2>1, <2>2 DEF Waiting
  <1> QED BY <1>2, <1>3, <1>4

(* A claim credits and issues exactly what is confirmed.                   *)
LEMMA ClaimKeeps ==
  ASSUME RewardInv, NEW a \in Trader, take_reward(a)
  PROVE  RewardInv'
  <1> DEFINE n == rotate_reward(rewards[a], 0)
             m == AfterClaim(n)
  <1>1. RewardTypeOK /\ RewardsConserved
    BY DEF RewardInv
  <1>2. Payable(a)
    BY DEF take_reward, Payable
  <1>3. n \in RewardType /\ n.last_modify = CurrentEra
    BY <1>1, <1>2, RotateLaw
  <1>4. /\ rewards' = [rewards EXCEPT ![a] = m]
        /\ credited' = [credited EXCEPT ![a] = @ + n.confirmed]
        /\ issued' = issued + n.confirmed
        /\ awarded' = RecordAward(a)
        /\ UNCHANGED <<now, era_rewards, volumes>>
    BY DEF take_reward
  <1>5. n.confirmed - rewards[a].confirmed
          = SumFunction([e \in Era |-> awarded'[a][e].reward])
              - SumFunction([e \in Era |-> awarded[a][e].reward])
    BY <1>1, <1>2, <1>4, RewardRotates
  <1> HIDE DEF n
  <1>6. /\ m \in RewardType /\ m.confirmed = 0 /\ m.last_modify <= CurrentEra
        /\ m.last_modify = CurrentEra \/ m.pending_vol = 0
        /\ \A e \in Era : Waiting(m, e) = Waiting(n, e)
    BY <1>1, <1>3, AfterClaimLaw
  <1> HIDE DEF m
  <1>7. volumes' = [volumes EXCEPT ![CurrentEra] = @ + 0]
    <2>1. volumes \in [Era -> Nat] /\ CurrentEra \in Era /\ volumes' = volumes
      BY <1>1, <1>4, EraFacts DEF RewardTypeOK
    <2>2. volumes[CurrentEra] + 0 = volumes[CurrentEra]
      BY <2>1
    <2> QED BY <2>1, <2>2
  <1>8. Rotation(a, 0, m)
    BY <1>2, <1>4, <1>6, <1>7 DEF Rotation, Replaces, n
  <1>9. /\ NotAhead' /\ AwardsPast' /\ AwardedOnce' /\ VolumeAccounted' /\ AwardsFair'
        /\ now' \in 0..MaxBlock /\ volumes' \in [Era -> Nat]
        /\ rewards' \in [Trader -> RewardType]
        /\ awarded' \in [Trader -> [Era -> AwardType]]
    BY <1>8, RotationKeeps
  <1>10. n.confirmed \in Nat /\ credited \in [Trader -> Nat] /\ issued \in Nat
    BY <1>1, <1>3 DEF RewardType, RewardTypeOK
  <1>11. /\ credited' \in [Trader -> Nat] /\ issued' \in Nat
         /\ credited'[a] = credited[a] + n.confirmed
         /\ \A b \in Trader \ {a} : credited'[b] = credited[b]
    BY <1>4, <1>10
  <1>12. RewardTypeOK'
    BY <1>1, <1>4, <1>9, <1>11 DEF RewardTypeOK, RewardType, AwardType
  <1>13. \A b \in Trader : Balanced(b)'
    <2> SUFFICES ASSUME NEW b \in Trader
                 PROVE  credited'[b] + rewards'[b].confirmed
                          = SumFunction([e \in Era |-> awarded'[b][e].reward])
      BY DEF Balanced
    <2>1. credited[b] + rewards[b].confirmed = SumFunction([e \in Era |-> awarded[b][e].reward])
      BY <1>1 DEF RewardsConserved
    <2>2. CASE b # a
      <3>1. rewards'[b] = rewards[b] /\ awarded'[b] = awarded[b]
        BY <1>1, <1>2, <1>4, <2>2, RecordLaw DEF RewardTypeOK
      <3> QED BY <1>11, <2>1, <2>2, <3>1
    <2>3. CASE b = a
      <3>1. rewards'[a] = m
        BY <1>1, <1>4 DEF RewardTypeOK
      <3>2. /\ SumFunction([e \in Era |-> awarded'[a][e].reward]) \in Int
            /\ SumFunction([e \in Era |-> awarded[a][e].reward]) \in Int
        <4>1. awarded'[a] \in [Era -> AwardType] /\ awarded[a] \in [Era -> AwardType] /\ IsFiniteSet(Era)
          BY <1>1, <1>9, EntryTypes, EraFacts
        <4> QED BY <4>1, AwardTotals
      <3>3. credited[a] \in Nat /\ rewards[a].confirmed \in Nat
        BY <1>1, EntryTypes
      <3> QED BY <1>5, <1>6, <1>10, <1>11, <2>1, <2>3, <3>1, <3>2, <3>3
    <2> QED BY <2>2, <2>3
  <1>14. issued' = SumFunction(credited')
    <2>1. credited \in [Trader -> Int] /\ credited' \in [Trader -> Int]
      BY <1>10, <1>11
    <2>2. SumFunction(credited') = SumFunction(credited) + credited'[a] - credited[a]
      BY <1>11, <2>1, TotalUpdate, RewardAssumption
    <2>3. issued = SumFunction(credited)
      BY <1>1 DEF RewardsConserved
    <2>4. credited[a] \in Int
      BY <2>1
    <2> QED BY <1>4, <1>10, <1>11, <2>2, <2>3, <2>4
  <1>15. RewardsConserved'
    BY <1>13, <1>14 DEF RewardsConserved, Balanced
  <1> QED BY <1>9, <1>12, <1>15 DEF RewardInv

(* With time, what is past stays past.                                     *)
LEMMA BlockKeeps ==
  ASSUME RewardInv, RewardNextBlock
  PROVE  RewardInv'
  <1>1. RewardTypeOK /\ NotAhead /\ AwardsPast
    BY DEF RewardInv
  <1>2. CurrentEra <= CurrentEra'
    BY <1>1, EraGrows DEF RewardNextBlock
  <1>3. RewardTypeOK'
    BY <1>1, RewardAssumption DEF RewardNextBlock, RewardTypeOK
  <1>4. /\ CurrentEra \in Nat /\ Era \subseteq Nat
    BY <1>1, EraFacts
  <1>5. CurrentEra' \in Nat
    <2>1. now' \in Nat /\ EraDuration \in Nat \ {0}
      BY <1>3, RewardAssumption DEF RewardTypeOK
    <2>2. CurrentEra' = now' - (now' % EraDuration)
      BY DEF CurrentEra
    <2> DEFINE x == now' - (now' % EraDuration)
    <2>3. x \in 0..now'
      BY <2>1, MultipleBelow
    <2>4. CurrentEra' = x
      BY <2>2
    <2> HIDE DEF x
    <2>5. x \in Nat
      BY ONLY <2>1, <2>3
    <2> QED BY ONLY <2>4, <2>5
  <1>6. UNCHANGED <<era_rewards, volumes, rewards, credited, issued, awarded>>
    BY DEF RewardNextBlock
  <1>7. NotAhead'
    <2> SUFFICES ASSUME NEW a \in Trader PROVE rewards[a].last_modify <= CurrentEra'
      BY <1>6 DEF NotAhead
    <2>1. rewards[a].last_modify \in Nat /\ rewards[a].last_modify <= CurrentEra
      BY <1>1, <1>4, EntryTypes DEF NotAhead
    <2> QED BY <1>2, <1>4, <1>5, <2>1
  <1>8. AwardsPast'
    <2> SUFFICES ASSUME NEW a \in Trader, NEW e \in Era, awarded[a][e].times # 0
                 PROVE  /\ e < CurrentEra'
                        /\ rewards[a].last_modify = e => rewards[a].pending_vol = 0
      BY <1>6 DEF AwardsPast
    <2>1. e \in Nat /\ e < CurrentEra /\ (rewards[a].last_modify = e => rewards[a].pending_vol = 0)
      BY <1>1, <1>4 DEF AwardsPast
    <2> QED BY <1>2, <1>4, <1>5, <2>1
  <1>9. AwardedOnce' /\ VolumeAccounted' /\ AwardsFair' /\ RewardsConserved'
    BY <1>6 DEF RewardInv, AwardedOnce, VolumeAccounted, AwardsFair, FairlyAwarded, RewardsConserved
  <1> QED BY <1>3, <1>7, <1>8, <1>9 DEF RewardInv

(* A new reward concerns only what is awarded from now on.                 *)
LEMMA SetRewardKeeps ==
  ASSUME RewardInv, NEW reward \in Reward, set_era_rewards(reward)
  PROVE  RewardInv'
  <1>1. UNCHANGED <<now, volumes, rewards, credited, issued, awarded>> /\ era_rewards' = reward
    BY DEF set_era_rewards
  <1>2. RewardTypeOK'
    BY <1>1 DEF RewardInv, RewardTypeOK
  <1>3. /\ NotAhead' /\ AwardsPast' /\ AwardedOnce' /\ VolumeAccounted' /\ AwardsFair'
        /\ RewardsConserved'
    BY <1>1 DEF RewardInv, NotAhead, AwardsPast, CurrentEra, AwardedOnce, VolumeAccounted, AwardsFair,
                FairlyAwarded, RewardsConserved
  <1> QED BY <1>2, <1>3 DEF RewardInv

(* A step that changes nothing.                                            *)
LEMMA StutterKeeps ==
  ASSUME RewardInv, UNCHANGED RewardVars
  PROVE  RewardInv'
  BY DEF RewardInv, RewardTypeOK, NotAhead, AwardsPast, CurrentEra, AwardedOnce, VolumeAccounted, AwardsFair,
         FairlyAwarded, RewardsConserved, RewardVars

(* Before the first trade there is no volume and no reward.                *)
LEMMA InitKeeps == RewardInit => RewardInv
  <1> SUFFICES ASSUME RewardInit PROVE RewardInv
    OBVIOUS
  <1>1. now = 0 /\ 0 \in 0..MaxBlock /\ EraDuration \in Nat \ {0}
    BY RewardAssumption DEF RewardInit
  <1>2. 0 \in Era
    BY <1>1 DEF Era
  <1>3. NoReward \in RewardType /\ NoReward.last_modify = 0 /\ NoReward.pending_vol = 0
        /\ NoReward.confirmed = 0
    BY <1>2 DEF NoReward, RewardType
  <1>4. RewardTypeOK
    BY <1>1, <1>3, RewardAssumption DEF RewardInit, RewardTypeOK, RewardType, AwardType
  <1>5. CurrentEra \in Nat /\ IsFiniteSet(Era) /\ Era \subseteq Nat
    BY <1>4, EraFacts
  <1>6. \A a \in Trader : /\ rewards[a].last_modify = 0 /\ rewards[a].pending_vol = 0
                          /\ rewards[a].confirmed = 0 /\ credited[a] = 0
    BY <1>3 DEF RewardInit
  <1>7. \A a \in Trader, e \in Era : /\ awarded[a][e].times = 0 /\ awarded[a][e].volume = 0
                                     /\ awarded[a][e].reward = 0
    BY DEF RewardInit
  <1>8. NotAhead /\ AwardsPast /\ AwardedOnce /\ AwardsFair
    BY <1>5, <1>6, <1>7 DEF NotAhead, AwardsPast, AwardedOnce, AwardsFair, FairlyAwarded
  <1>9. VolumeAccounted
    <2> SUFFICES ASSUME NEW e \in Era
                 PROVE  volumes[e] = SumFunction([a \in Trader |-> awarded[a][e].volume
                          + (IF rewards[a].last_modify = e THEN rewards[a].pending_vol ELSE 0)])
      BY DEF VolumeAccounted
    <2> DEFINE f == [a \in Trader |-> awarded[a][e].volume
                       + (IF rewards[a].last_modify = e THEN rewards[a].pending_vol ELSE 0)]
    <2>1. f \in [Trader -> Int] /\ \A a \in Trader : f[a] = 0
      BY <1>6, <1>7
    <2>2. SumFunction(f) = 0
      BY <2>1, TotalZero, RewardAssumption
    <2> QED BY <2>2 DEF RewardInit
  <1>10. RewardsConserved
    <2>1. ASSUME NEW a \in Trader PROVE SumFunction([e \in Era |-> awarded[a][e].reward]) = 0
      <3> DEFINE f == [e \in Era |-> awarded[a][e].reward]
      <3>1. f \in [Era -> Int] /\ \A e \in Era : f[e] = 0
        BY <1>7
      <3> QED BY <1>5, <3>1, TotalZero
    <2>2. credited \in [Trader -> Int] /\ \A a \in Trader : credited[a] = 0
      BY DEF RewardInit
    <2>3. SumFunction(credited) = 0
      BY <2>2, TotalZero, RewardAssumption
    <2>4. issued = 0
      BY DEF RewardInit
    <2> QED BY <1>6, <2>1, <2>3, <2>4 DEF RewardsConserved
  <1> QED BY <1>4, <1>8, <1>9, <1>10 DEF RewardInv

(* Every award of an era is a rounded part of the same total, and the      *)
(* parts are parts of a whole.                                             *)
LEMMA EraBounded == RewardInv => EraBound
  <1> SUFFICES ASSUME RewardInv, NEW e \in Era,
                      SumFunction([a \in Trader |-> awarded[a][e].reward]) > 0
               PROVE  2 * SumFunction([a \in Trader |-> awarded[a][e].reward])
                        < 2 * Max(Reward) + SumFunction([a \in Trader |-> awarded[a][e].times])
    BY DEF EraBound
  <1> DEFINE T == volumes[e]
             P == Max(Reward)
             Sh == [a \in Trader |-> awarded[a][e].reward]
             Ti == [a \in Trader |-> awarded[a][e].times]
             Ba == [a \in Trader |-> awarded[a][e].volume]
             Co == [a \in Trader |-> awarded[a][e].volume
                      + (IF rewards[a].last_modify = e THEN rewards[a].pending_vol ELSE 0)]
  <1>1. RewardTypeOK /\ AwardedOnce /\ VolumeAccounted /\ AwardsFair /\ IsFiniteSet(Trader)
    BY RewardAssumption DEF RewardInv
  <1>2. T \in Nat /\ P \in Nat
    BY <1>1, MaxReward DEF RewardTypeOK
  <1>3. /\ Sh \in [Trader -> Nat] /\ Ti \in [Trader -> Nat] /\ Ba \in [Trader -> Nat]
        /\ Co \in [Trader -> Nat] /\ \A a \in Trader : Ba[a] <= Co[a]
    BY <1>1, EntryTypes
  <1>4. \A a \in Trader : /\ Ti[a] <= 1
                          /\ Ti[a] = 0 => Sh[a] = 0 /\ Ba[a] = 0
                          /\ Ti[a] # 0 => 2 * (T * Sh[a]) < 2 * (P * Ba[a]) + T
    BY <1>1 DEF AwardedOnce, AwardsFair, FairlyAwarded
  <1>5. \A a \in Trader : Sh[a] # 0 => T # 0
    BY <1>1 DEF AwardsFair, FairlyAwarded
  <1>6. SumFunction(Co) = T
    BY <1>1 DEF VolumeAccounted
  <1>7. SumFunction(Sh) > 0
    OBVIOUS
  <1> HIDE DEF T, P, Sh, Ti, Ba, Co
  <1>8. T # 0
    <2>1. CASE \A a \in Trader : Sh[a] = 0
      <3>1. Sh \in [Trader -> Int]
        BY <1>3
      <3>2. SumFunction(Sh) = 0
        BY <1>1, <2>1, <3>1, TotalZero
      <3> QED BY <1>7, <3>2
    <2> QED BY <1>5, <2>1
  <1>9. SumFunction(Ba) <= T
    <2>1. Ba \in [Trader -> Int] /\ Co \in [Trader -> Int]
      BY <1>3
    <2> QED BY <1>1, <1>3, <1>6, <2>1, TotalMono
  <1>10. 2 * SumFunction(Sh) < 2 * P + SumFunction(Ti)
    BY <1>1, <1>2, <1>3, <1>4, <1>7, <1>8, <1>9, TotalRounded
  <1> QED BY <1>10 DEF Sh, Ti, P

-----------------------------------------------------------------------------
(* Theorems.                                                               *)

(* The inductive invariant holds in every reachable state.                 *)
THEOREM RewardInvariant == RewardSpec => []RewardInv
  <1>1. RewardInv /\ [RewardNext]_RewardVars => RewardInv'
    BY BlockKeeps, SetRewardKeeps, ClaimKeeps, TradeKeeps, StutterKeeps DEF RewardNext
  <1> QED BY InitKeeps, <1>1, PTL DEF RewardSpec

(* Volumes, rewards and credits are natural numbers and every record is    *)
(* about an era.                                                           *)
THEOREM RewardTypeCorrect == RewardSpec => []RewardTypeOK
  <1>1. RewardInv => RewardTypeOK
    BY DEF RewardInv
  <1> QED BY RewardInvariant, <1>1, PTL

(* The total of an era is the sum of the traders' own volumes, counted or  *)
(* waiting, whenever each of them was rotated.                             *)
THEOREM VolumesAccounted == RewardSpec => []VolumeAccounted
  <1>1. RewardInv => VolumeAccounted
    BY DEF RewardInv
  <1> QED BY RewardInvariant, <1>1, PTL

(* No trader is rewarded twice for an era, whatever is claimed and when.   *)
THEOREM RewardedOnce == RewardSpec => []AwardedOnce
  <1>1. RewardInv => AwardedOnce
    BY DEF RewardInv
  <1> QED BY RewardInvariant, <1>1, PTL

(* What was awarded is confirmed or credited, and claims issue exactly     *)
(* what they credit.                                                       *)
THEOREM RewardsAreConserved == RewardSpec => []RewardsConserved
  <1>1. RewardInv => RewardsConserved
    BY DEF RewardInv
  <1> QED BY RewardInvariant, <1>1, PTL

(* The rewards of an era exceed the largest reward in force by less than   *)
(* half a unit for each trader rewarded.                                   *)
THEOREM ErasBounded == RewardSpec => []EraBound
  BY RewardInvariant, EraBounded, PTL
=============================================================================
