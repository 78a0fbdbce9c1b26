----------------------------- MODULE BoostLedger -----------------------------
(***************************************************************************)
(* What paid boosts promise, with the transactions, the locks and the      *)
(* webhooks of ProductBoost left out: a checkout places its order, and a   *)
(* payment is taken for all of it, in one step each.                       *)
(***************************************************************************)
EXTENDS Naturals

CONSTANTS
  Products,   \* product ids, ordered
  Orders,     \* order ids
  Payments,   \* payment ids of the provider
  NULL

VARIABLES
  lastOrder,   \* the orders placed are 1 to lastOrder
  items,       \* the products of each
  payment,     \* the payment each was paid with
  expired,     \* it is late to pay it
  boosts       \* order and product of each campaign that has not ended

vars == <<lastOrder, items, payment, expired, boosts>>

Pending(o) == payment[o] = NULL /\ ~expired[o]

Init ==
  /\ lastOrder = 0
  /\ items = [o \in Orders |-> {}]
  /\ payment = [o \in Orders |-> NULL]
  /\ expired = [o \in Orders |-> FALSE]
  /\ boosts = {}

\* Nothing is pending for the smallest product of the basket.
Place(basket) ==
  /\ basket # {}
  /\ lastOrder' = lastOrder + 1
  /\ lastOrder' \in Orders
  /\ \A o \in 1..lastOrder, p \in basket :
       Pending(o) /\ p \in items[o] => \E q \in basket : q < p
  /\ items' = [items EXCEPT ![lastOrder + 1] = basket]
  /\ UNCHANGED <<payment, expired, boosts>>

\* An order is paid once, with a payment of its own, and everything in it is
\* boosted; it may have become late since the payment was let through.
Pay(o, id) ==
  /\ payment[o] = NULL
  /\ payment' = [payment EXCEPT ![o] = id]
  /\ \A other \in 1..lastOrder : payment[other] # id
  /\ boosts' = boosts \cup {o} \X items[o]
  /\ UNCHANGED <<lastOrder, items, expired>>

TurnLate(o) ==
  /\ Pending(o)
  /\ expired' = [expired EXCEPT ![o] = TRUE]
  /\ UNCHANGED <<lastOrder, items, payment, boosts>>

\* The days that were paid for are over.
End(boost) ==
  /\ UNCHANGED <<lastOrder, items, payment, expired>>
  /\ boosts' = boosts \ {boost}

Next ==
  \/ \E basket \in SUBSET Products : Place(basket)
  \/ \E o \in 1..lastOrder : TurnLate(o) \/ \E id \in Payments : Pay(o, id)
  \/ \E boost \in boosts : End(boost)

Spec == Init /\ [][Next]_vars
=============================================================================
