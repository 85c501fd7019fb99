---------------------------- MODULE IdealBridge -----------------------------
(***************************************************************************)
(* What a bridge promises its users, without relayers, votes, fees, or     *)
(* calls: a deposit logged on the other chain is credited here at most     *)
(* once and in its own amount, and nothing else is; what leaves is taken   *)
(* away here in the moment it is promised there.  here[t] is what exists   *)
(* on this side (issued tokens, or native tokens locked for the other      *)
(* side), there[t] what stands against it on the other.                    *)
(***************************************************************************)
EXTENDS Integers

CONSTANTS
  Number,         \* numbers of deposits
  Token, Native,  \* tokens of the other chain, and this chain's own
  Amount,         \* amounts deposited or withdrawn, in the token's decimals
  Deposit,        \* records with a token and an amount
  NoDeposit,
  Standard(_, _)  \* the value here of an amount of a token

VARIABLES log, credited, here, there

vars == <<log, credited, here, there>>

Init ==
  /\ log = [n \in Number |-> NoDeposit]
  /\ credited = {}
  /\ here = [t \in Token \cup {Native} |-> 0]
  /\ there = [t \in Token \cup {Native} |-> 0]

(* Native tokens come back only if they left.                              *)
Log(n, d) ==
  /\ log[n] = NoDeposit
  /\ log' = [log EXCEPT ![n] = d]
  /\ IF d.token = Native
     THEN there[Native] >= d.amount /\ there' = [there EXCEPT ![Native] = @ - d.amount]
     ELSE there' = [there EXCEPT ![d.token] = @ + d.amount]
  /\ UNCHANGED <<credited, here>>

Credit(n) ==
  /\ log[n] # NoDeposit /\ n \notin credited
  /\ credited' = credited \cup {n}
  /\ here' = [here EXCEPT ![log[n].token] =
       IF log[n].token = Native THEN @ - log[n].amount
       ELSE @ + Standard(log[n].token, log[n].amount)]
  /\ UNCHANGED <<log, there>>

Withdraw(t, v) ==
  /\ IF t = Native
     THEN there' = [there EXCEPT ![t] = @ + v] /\ here' = [here EXCEPT ![t] = @ + v]
     ELSE /\ there' = [there EXCEPT ![t] = @ - v]
          /\ here[t] >= Standard(t, v)
          /\ here' = [here EXCEPT ![t] = @ - Standard(t, v)]
  /\ UNCHANGED <<log, credited>>

Next ==
  \/ \E n \in Number : Credit(n) \/ \E d \in Deposit : Log(n, d)
  \/ \E t \in Token \cup {Native}, v \in Amount : Withdraw(t, v)

Spec == Init /\ [][Next]_vars
=============================================================================
