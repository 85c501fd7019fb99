------------------------------ MODULE Delivery ------------------------------
(***************************************************************************)
(* What relayer voting promises the pallets that build on it, without      *)
(* relayers, thresholds and lifetimes: a call proposed for a deposit is    *)
(* delivered once or refused, each for good and never both; deposits that  *)
(* leave are posted one at a time, each with the next number, by which     *)
(* alone the other side tells them apart.                                  *)
(***************************************************************************)
EXTENDS Naturals, Sequences

CONSTANTS Deposit, Chain

VARIABLES
  delivered,   \* how often the call of each deposit was delivered
  refused,     \* the deposits whose call was refused
  posted       \* the numbers of the deposits posted to each chain

vars == <<delivered, refused, posted>>

Init ==
  /\ delivered = [p \in Deposit |-> 0]
  /\ refused = {}
  /\ posted = [c \in Chain |-> <<>>]

Waiting(p) == delivered[p] = 0 /\ p \notin refused

Deliver(p) ==
  /\ Waiting(p)
  /\ delivered' = [delivered EXCEPT ![p] = 1]
  /\ UNCHANGED <<refused, posted>>

Refuse(p) ==
  /\ Waiting(p)
  /\ refused' = refused \cup {p}
  /\ UNCHANGED <<delivered, posted>>

Post(c) ==
  /\ posted' = [posted EXCEPT ![c] = Append(@, Len(@) + 1)]
  /\ UNCHANGED <<delivered, refused>>

Next ==
  \/ \E p \in Deposit : Deliver(p) \/ Refuse(p)
  \/ \E c \in Chain : Post(c)

Spec == Init /\ [][Next]_vars
=============================================================================
