------------------------- MODULE ProductBoostProofs -------------------------
(***************************************************************************)
(* Proofs about ProductBoost, for any products, any number of concurrent   *)
(* checkouts and webhooks, any payments and any bound on the orders.       *)
(***************************************************************************)
EXTENDS ProductBoost, TLAPS, WellFoundedInduction

\* Order ids are handed out in order, and an unused id has nothing.
OrdersNumbered ==
  \A o \in Orders :
    /\ status[o] = "NONE" <=> lastOrder < o
    /\ status[o] = "NONE" => items[o] = {}

\* Locks are taken from the smallest product up, and what is held is held by
\* one checkout.
LocksAscend ==
  /\ \A c \in Checkouts :
       /\ checkout[c].left \subseteq checkout[c].basket
       /\ \A p \in Held(c), q \in checkout[c].left : p < q
       /\ checkout[c].at = "check" => checkout[c].product \in Held(c)
       /\ checkout[c].at \in {"idle", "insert"} => checkout[c].left = {}
       /\ checkout[c].at = "insert" => checkout[c].basket # {}
  /\ \A c, d \in Checkouts : c # d => Held(c) \cap Held(d) = {}

\* The first product of a basket has not been checked yet.
FirstUnchecked(c) ==
  \/ Held(c) = {}
  \/ checkout[c].at = "check" /\ Held(c) = {checkout[c].product}

\* Until the first check a checkout has no view, and from then on nothing is
\* pending for the smallest product of its basket: its lock keeps others out.
FirstStaysClear ==
  \A c \in Checkouts :
    /\ FirstUnchecked(c) => checkout[c].view = NULL
    /\ ~FirstUnchecked(c) =>
         \A p \in checkout[c].basket :
           (\A q \in checkout[c].basket : p <= q) =>
             \A o \in Orders :
               p \in items[o] => ~(status[o] = "PENDING_PAYMENT" /\ ~expired[o])

\* An order that is about to be activated is pending, and locked by one webhook.
ActivatesPending ==
  /\ \A w \in Webhooks :
       /\ webhook[w].at # "idle" => /\ webhook[w].order \in Orders
                                    /\ webhook[w].payment \in Payments
       /\ webhook[w].at = "activate" => status[webhook[w].order] = "PENDING_PAYMENT"
  /\ \A v, w \in Webhooks :
       webhook[v].at = "activate" /\ webhook[w].at = "activate"
         /\ webhook[v].order = webhook[w].order => v = w

IInv ==
  /\ TypeOK
  /\ OrdersNumbered
  /\ LocksAscend
  /\ FirstStaysClear
  /\ ActivatesPending
  /\ PaidOrdersBoosted
  /\ PaymentUsedOnce
  /\ LaterBasketsAvoidPending

-----------------------------------------------------------------------------
(* Type correctness *)

LEMMA IdleTypes == IdleCheckout \in Checkout /\ IdleWebhook \in Webhook
  BY DEF IdleCheckout, Checkout, IdleWebhook, Webhook

LEMMA CheckoutType ==
  ASSUME TypeOK, NEW c \in Checkouts, BeginCheckout(c) \/ CheckoutStep(c)
  PROVE  TypeOK'
<1>. USE IdleTypes DEF orderVars
<1>1. CASE BeginCheckout(c)
  <2>1. PICK basket \in (SUBSET Products) \ {{}} :
          checkout' = [checkout EXCEPT ![c] =
            [at |-> "lock", basket |-> basket, left |-> basket, product |-> NULL,
             view |-> NULL]]
    BY <1>1 DEF BeginCheckout
  <2>2. [at |-> "lock", basket |-> basket, left |-> basket, product |-> NULL, view |-> NULL]
          \in Checkout
    BY DEF Checkout
  <2>. QED  BY <1>1, <2>1, <2>2 DEF BeginCheckout, TypeOK
<1>2. CASE LockProduct(c)
  <2>1. PICK p \in Products :
          checkout' = [checkout EXCEPT ![c].at = "check",
                                       ![c].left = checkout[c].left \ {p},
                                       ![c].product = p]
    BY <1>2 DEF LockProduct
  <2>2. checkout' \in [Checkouts -> Checkout]
    <3>. DEFINE q == [checkout[c] EXCEPT !.at = "check", !.left = checkout[c].left \ {p},
                                         !.product = p]
    <3>1. checkout \in [Checkouts -> Checkout] /\ checkout[c] \in Checkout
      BY DEF TypeOK
    <3>2. q \in Checkout
      BY <3>1 DEF Checkout
    <3>3. checkout' = [checkout EXCEPT ![c] = q]
      BY <2>1, <3>1
    <3>. QED  BY <3>1, <3>2, <3>3
  <2>. QED  BY <1>2, <2>2 DEF LockProduct, TypeOK
<1>3. CASE CheckProduct(c)
  <2>. DEFINE view == IF checkout[c].view = NULL THEN status ELSE checkout[c].view
  <2>1. checkout[c] \in Checkout /\ view \in View
    BY DEF TypeOK, Checkout
  <2>2. /\ [checkout[c] EXCEPT !.at = "insert", !.view = NULL] \in Checkout
        /\ [checkout[c] EXCEPT !.at = "lock", !.view = view] \in Checkout
    BY <2>1 DEF Checkout
  <2>3. \E next \in Checkout : checkout' = [checkout EXCEPT ![c] = next]
    BY <1>3, <2>2 DEF CheckProduct
  <2>. QED  BY <1>3, <2>3 DEF CheckProduct, TypeOK
<1>4. CASE InsertOrder(c)
  <2>1. lastOrder + 1 \in Orders /\ lastOrder' \in 0..MaxOrders
    BY <1>4, BoostAssumption DEF InsertOrder, TypeOK, Orders
  <2>2. checkout[c].basket \in SUBSET Products
    BY DEF TypeOK, Checkout
  <2>3. status' \in View /\ items' \in [Orders -> SUBSET Products]
    BY <1>4, <2>1, <2>2 DEF InsertOrder, TypeOK, View, BoostOrderStatus
  <2>4. checkout' \in [Checkouts -> Checkout]
    BY <1>4 DEF InsertOrder, TypeOK
  <2>. QED  BY <1>4, <2>1, <2>3, <2>4 DEF InsertOrder, TypeOK
<1>5. CASE RollBackCheckout(c)
  BY <1>5 DEF RollBackCheckout, TypeOK
<1>. QED  BY <1>1, <1>2, <1>3, <1>4, <1>5 DEF CheckoutStep

LEMMA WebhookType ==
  ASSUME TypeOK, ActivatesPending, NEW w \in Webhooks, Deliver(w) \/ WebhookStep(w)
  PROVE  TypeOK'
<1>. USE IdleTypes DEF orderVars
<1>1. CASE Deliver(w)
  <2>1. PICK o \in 1..lastOrder, id \in Payments :
          webhook' = [webhook EXCEPT ![w] = [at |-> "lock", order |-> o, payment |-> id]]
    BY <1>1 DEF Deliver
  <2>2. [at |-> "lock", order |-> o, payment |-> id] \in Webhook
    BY BoostAssumption DEF Webhook, TypeOK, Orders
  <2>. QED  BY <1>1, <2>1, <2>2 DEF Deliver, TypeOK
<1>2. CASE LockOrder(w)
  <2>1. webhook' \in [Webhooks -> Webhook]
    BY <1>2 DEF LockOrder, TypeOK, Webhook
  <2>. QED  BY <1>2, <2>1 DEF LockOrder, TypeOK
<1>3. CASE ActivatePaidOrder(w)
  <2>1. webhook' \in [Webhooks -> Webhook]
    BY <1>3 DEF ActivatePaidOrder, TypeOK
  <2>2. webhook[w].payment \in Payments
    BY <1>3 DEF ActivatePaidOrder, ActivatesPending
  <2>3. /\ status' \in View
        /\ payment' \in [Orders -> Payments \cup {NULL}]
    BY <1>3, <2>2 DEF ActivatePaidOrder, TypeOK, View, BoostOrderStatus
  <2>4. campaign' \in [Orders -> [Products -> CampaignPhase]]
    <3>1. CASE UNCHANGED campaign
      BY <3>1 DEF TypeOK
    <3>2. CASE ActivateItems(webhook[w].order)
      <4>1. PICK phase \in {"scheduled", "live"} :
              campaign' = [campaign EXCEPT ![webhook[w].order] =
                [p \in Products |-> IF p \in items[webhook[w].order]
                                      THEN phase ELSE campaign[webhook[w].order][p]]]
        BY <3>2 DEF ActivateItems
      <4>2. webhook[w].order \in Orders
        BY <1>3 DEF ActivatePaidOrder, ActivatesPending
      <4>3. [p \in Products |-> IF p \in items[webhook[w].order]
                                  THEN phase ELSE campaign[webhook[w].order][p]]
              \in [Products -> CampaignPhase]
        BY <4>2 DEF TypeOK, CampaignPhase
      <4>. QED  BY <4>1, <4>3 DEF TypeOK
    <3>. QED  BY <1>3, <3>1, <3>2 DEF ActivatePaidOrder
  <2>. QED  BY <1>3, <2>1, <2>3, <2>4 DEF ActivatePaidOrder, TypeOK
<1>4. CASE RollBackWebhook(w)
  BY <1>4 DEF RollBackWebhook, TypeOK
<1>. QED  BY <1>1, <1>2, <1>3, <1>4 DEF WebhookStep

LEMMA TimeType ==
  ASSUME TypeOK, NEW o \in Orders,
         ExpireOrder(o) \/ StartCampaigns(o) \/ \E p \in Products : EndCampaign(o, p)
  PROVE  TypeOK'
<1>1. CASE ExpireOrder(o)
  BY <1>1 DEF ExpireOrder, TypeOK
<1>2. CASE StartCampaigns(o)
  <2>1. campaign' \in [Orders -> [Products -> CampaignPhase]]
    BY <1>2 DEF StartCampaigns, TypeOK, CampaignPhase
  <2>. QED  BY <1>2, <2>1 DEF StartCampaigns, TypeOK
<1>3. ASSUME NEW p \in Products, EndCampaign(o, p)
      PROVE  TypeOK'
  <2>1. campaign' \in [Orders -> [Products -> CampaignPhase]]
    BY <1>3 DEF EndCampaign, TypeOK, CampaignPhase
  <2>. QED  BY <1>3, <2>1 DEF EndCampaign, TypeOK
<1>. QED  BY <1>1, <1>2, <1>3

-----------------------------------------------------------------------------
(* The inductive invariant. LaterBasketsAvoidPending is kept by the lock on *)
(* the smallest product of a basket: from the check of that product to the  *)
(* insert nobody else can place an order with it (FirstStaysClear), because *)
(* an order is placed with all its products locked (LocksAscend).           *)

OrdersInv ==
  OrdersNumbered /\ PaidOrdersBoosted /\ PaymentUsedOnce /\ LaterBasketsAvoidPending

LEMMA QuietOrders ==
  ASSUME OrdersInv, UNCHANGED orderVars
  PROVE  OrdersInv'
  BY DEF OrdersInv, orderVars, OrdersNumbered, PaidOrdersBoosted, PaymentUsedOnce,
         LaterBasketsAvoidPending

LEMMA QuietWebhooks ==
  ASSUME ActivatesPending, UNCHANGED <<status, webhook>>
  PROVE  ActivatesPending'
  BY DEF ActivatesPending

\* Nothing becomes pending: no checkout loses what it has checked.
LEMMA QuietCheckouts ==
  ASSUME LocksAscend, FirstStaysClear, UNCHANGED <<checkout, items>>,
         \A o \in Orders : status'[o] = "PENDING_PAYMENT" /\ ~expired'[o]
                             => status[o] = "PENDING_PAYMENT" /\ ~expired[o]
  PROVE  LocksAscend' /\ FirstStaysClear'
<1>1. LocksAscend'
  BY DEF LocksAscend, Held
<1>2. FirstStaysClear'
  BY DEF FirstStaysClear, FirstUnchecked, Held
<1>. QED  BY <1>1, <1>2

\* What a step of one checkout must show of that checkout.
LEMMA OneCheckoutMoves ==
  ASSUME LocksAscend, FirstStaysClear, UNCHANGED <<items, status, expired>>,
         NEW c \in Checkouts,
         \A d \in Checkouts \ {c} : checkout'[d] = checkout[d],
         checkout'[c].left \subseteq checkout'[c].basket,
         \A p \in Held(c)', q \in checkout'[c].left : p < q,
         checkout'[c].at = "check" => checkout'[c].product \in Held(c)',
         checkout'[c].at \in {"idle", "insert"} => checkout'[c].left = {},
         checkout'[c].at = "insert" => checkout'[c].basket # {},
         \A d \in Checkouts \ {c} : Held(c)' \cap Held(d) = {},
         FirstUnchecked(c)' => checkout'[c].view = NULL,
         ~FirstUnchecked(c)' =>
           \A p \in checkout'[c].basket :
             (\A q \in checkout'[c].basket : p <= q) =>
               \A o \in Orders :
                 p \in items[o] => ~(status[o] = "PENDING_PAYMENT" /\ ~expired[o])
  PROVE  LocksAscend' /\ FirstStaysClear'
<1>1. \A d \in Checkouts \ {c} : Held(d)' = Held(d)
  BY DEF Held
<1>2. LocksAscend'
  <2>1. ASSUME NEW d \in Checkouts
        PROVE  /\ checkout'[d].left \subseteq checkout'[d].basket
               /\ \A p \in Held(d)', q \in checkout'[d].left : p < q
               /\ checkout'[d].at = "check" => checkout'[d].product \in Held(d)'
               /\ checkout'[d].at \in {"idle", "insert"} => checkout'[d].left = {}
               /\ checkout'[d].at = "insert" => checkout'[d].basket # {}
    <3>1. CASE d = c
      BY <3>1
    <3>2. CASE d # c
      BY <1>1, <3>2 DEF LocksAscend
    <3>. QED  BY <3>1, <3>2
  <2>2. ASSUME NEW d \in Checkouts, NEW e \in Checkouts, d # e
        PROVE  Held(d)' \cap Held(e)' = {}
    BY <1>1, <2>2 DEF LocksAscend
  <2>. QED  BY <2>1, <2>2 DEF LocksAscend
<1>3. FirstStaysClear'
  <2>. SUFFICES ASSUME NEW d \in Checkouts
                PROVE  /\ FirstUnchecked(d)' => checkout'[d].view = NULL
                       /\ ~FirstUnchecked(d)' =>
                            \A p \in checkout'[d].basket :
                              (\A q \in checkout'[d].basket : p <= q) =>
                                \A o \in Orders :
                                  p \in items[o]
                                    => ~(status[o] = "PENDING_PAYMENT" /\ ~expired[o])
    BY DEF FirstStaysClear
  <2>1. CASE d = c
    BY <2>1
  <2>2. CASE d # c
    <3>1. checkout'[d] = checkout[d] /\ (FirstUnchecked(d)' <=> FirstUnchecked(d))
      BY <1>1, <2>2 DEF FirstUnchecked
    <3>. QED  BY <3>1 DEF FirstStaysClear
  <2>. QED  BY <2>1, <2>2
<1>. QED  BY <1>2, <1>3

LEMMA LockProductPreserves ==
  ASSUME IInv, NEW c \in Checkouts, LockProduct(c)
  PROVE  LocksAscend' /\ FirstStaysClear'
<1>. USE DEF IInv
<1>1. PICK p \in Products :
        /\ LocksNext(c, p)
        /\ \A d \in Checkouts : p \notin Held(d)
        /\ checkout' = [checkout EXCEPT ![c].at = "check",
                                        ![c].left = checkout[c].left \ {p},
                                        ![c].product = p]
  BY DEF LockProduct
<1>2. checkout[c] \in Checkout /\ checkout[c].at = "lock"
  BY DEF LockProduct, TypeOK
<1>3. /\ checkout'[c].at = "check"
      /\ checkout'[c].left = checkout[c].left \ {p}
      /\ checkout'[c].product = p
      /\ checkout'[c].basket = checkout[c].basket
      /\ checkout'[c].view = checkout[c].view
      /\ \A d \in Checkouts \ {c} : checkout'[d] = checkout[d]
  BY <1>1, <1>2 DEF TypeOK, Checkout
<1>4. p \in checkout[c].left /\ \A q \in checkout[c].left : p <= q
  BY <1>1 DEF LocksNext
<1>5. /\ Held(c)' = Held(c) \cup {p} /\ p \notin Held(c)
      /\ checkout[c].left \subseteq checkout[c].basket
  BY <1>3, <1>4 DEF Held, LocksAscend
<1>6. \A q \in Held(c)', u \in checkout'[c].left : q < u
  <2>. SUFFICES ASSUME NEW q \in Held(c) \cup {p}, NEW u \in checkout[c].left \ {p}
                PROVE  q < u
    BY <1>3, <1>5
  <2>1. CASE q \in Held(c)
    BY <2>1 DEF LocksAscend
  <2>2. CASE q = p
    <3>1. p \in Nat /\ u \in Nat
      BY <1>2, BoostAssumption DEF Checkout
    <3>. QED  BY <1>4, <2>2, <3>1
  <2>. QED  BY <2>1, <2>2
<1>7. \A d \in Checkouts \ {c} : Held(c)' \cap Held(d) = {}
  BY <1>1, <1>5 DEF LocksAscend
<1>8. FirstUnchecked(c)' => FirstUnchecked(c)
  BY <1>3, <1>5 DEF FirstUnchecked
<1>9. FirstUnchecked(c) => FirstUnchecked(c)'
  BY <1>2, <1>3, <1>5 DEF FirstUnchecked
<1>10. FirstUnchecked(c)' => checkout'[c].view = NULL
  BY <1>3, <1>8 DEF FirstStaysClear
<1>11. ~FirstUnchecked(c)' =>
         \A q \in checkout'[c].basket :
           (\A u \in checkout'[c].basket : q <= u) =>
             \A o \in Orders :
               q \in items[o] => ~(status[o] = "PENDING_PAYMENT" /\ ~expired[o])
  BY <1>3, <1>9 DEF FirstStaysClear
<1>12. UNCHANGED <<items, status, expired>>
  BY DEF LockProduct, orderVars
<1>13. /\ checkout'[c].left \subseteq checkout'[c].basket
       /\ checkout'[c].product \in Held(c)'
  BY <1>3, <1>5
<1>. QED  BY <1>3, <1>6, <1>7, <1>10, <1>11, <1>12, <1>13, OneCheckoutMoves

LEMMA CheckProductPreserves ==
  ASSUME IInv, NEW c \in Checkouts, CheckProduct(c)
  PROVE  LocksAscend' /\ FirstStaysClear'
<1>. USE DEF IInv
<1>. DEFINE view == IF checkout[c].view = NULL THEN status ELSE checkout[c].view
            product == checkout[c].product
<1>1. /\ checkout[c] \in Checkout /\ checkout[c].at = "check"
      /\ product \in Held(c)
      /\ \A d \in Checkouts \ {c} : checkout'[d] = checkout[d]
      /\ UNCHANGED <<items, status, expired>>
  BY DEF CheckProduct, TypeOK, LocksAscend, orderVars
<1>2. CASE checkout'[c] = IdleCheckout
  <2>1. Held(c)' = {}
    BY <1>2 DEF Held, IdleCheckout
  <2>. QED
    BY <1>1, <1>2, <2>1, OneCheckoutMoves DEF IdleCheckout, FirstUnchecked
<1>3. CASE checkout'[c] # IdleCheckout
  <2>1. ~HasPendingOrActiveBoost(view, product)
    BY <1>3 DEF CheckProduct, TypeOK
  <2>2. checkout' = [checkout EXCEPT ![c] =
          IF checkout[c].left = {}
            THEN [checkout[c] EXCEPT !.at = "insert", !.view = NULL]
            ELSE [checkout[c] EXCEPT !.at = "lock", !.view = view]]
    BY <2>1 DEF CheckProduct
  <2>3. /\ checkout'[c].at = IF checkout[c].left = {} THEN "insert" ELSE "lock"
        /\ checkout'[c].left = checkout[c].left
        /\ checkout'[c].basket = checkout[c].basket
    BY <1>1, <2>2 DEF TypeOK, Checkout
  <2>4. Held(c)' = Held(c)
    BY <2>3 DEF Held
  <2>5. ~FirstUnchecked(c)'
    BY <1>1, <2>3, <2>4 DEF FirstUnchecked
  <2>6. \A p \in checkout[c].basket :
          (\A q \in checkout[c].basket : p <= q) =>
            \A o \in Orders :
              p \in items[o] => ~(status[o] = "PENDING_PAYMENT" /\ ~expired[o])
    <3>1. CASE ~FirstUnchecked(c)
      BY <3>1 DEF FirstStaysClear
    <3>2. CASE FirstUnchecked(c)
      <4>1. Held(c) = {product} /\ view = status
        BY <1>1, <3>2 DEF FirstUnchecked, FirstStaysClear
      <4>2. \A o \in Orders :
              product \in items[o] => ~(status[o] = "PENDING_PAYMENT" /\ ~expired[o])
        BY <2>1, <4>1 DEF HasPendingOrActiveBoost
      <4>3. ASSUME NEW p \in checkout[c].basket, \A q \in checkout[c].basket : p <= q
            PROVE  p = product
        <5>1. product \in checkout[c].basket
          BY <1>1 DEF Held
        <5>2. p \in Nat /\ product \in Nat
          BY <1>1, <5>1, BoostAssumption DEF Checkout
        <5>3. p \in checkout[c].left => product < p
          BY <1>1 DEF LocksAscend
        <5>4. p \notin checkout[c].left
          BY <4>3, <5>1, <5>2, <5>3
        <5>. QED  BY <4>1, <5>4 DEF Held
      <4>. QED  BY <4>2, <4>3
    <3>. QED  BY <3>1, <3>2
  <2>7. /\ checkout'[c].left \subseteq checkout'[c].basket
        /\ \A p \in Held(c)', q \in checkout'[c].left : p < q
        /\ \A d \in Checkouts \ {c} : Held(c)' \cap Held(d) = {}
    BY <2>3, <2>4 DEF LocksAscend
  <2>8. checkout'[c].basket # {}
    BY <1>1, <2>3 DEF Held
  <2>. QED  BY <1>1, <2>3, <2>5, <2>6, <2>7, <2>8, OneCheckoutMoves
<1>. QED  BY <1>2, <1>3

LEMMA BeginOrRollBackPreserves ==
  ASSUME IInv, NEW c \in Checkouts, BeginCheckout(c) \/ RollBackCheckout(c)
  PROVE  LocksAscend' /\ FirstStaysClear'
<1>. USE DEF IInv
<1>1. /\ UNCHANGED <<items, status, expired>>
      /\ \A d \in Checkouts \ {c} : checkout'[d] = checkout[d]
  BY DEF BeginCheckout, RollBackCheckout, orderVars, TypeOK
<1>2. /\ checkout'[c].at \in {"idle", "lock"}
      /\ checkout'[c].left = checkout'[c].basket
      /\ checkout'[c].view = NULL
      /\ checkout'[c].at = "idle" => checkout'[c].left = {}
  <2>1. CASE RollBackCheckout(c)
    BY <2>1 DEF RollBackCheckout, IdleCheckout, TypeOK
  <2>2. CASE BeginCheckout(c)
    <3>1. PICK basket \in (SUBSET Products) \ {{}} :
            checkout' = [checkout EXCEPT ![c] =
              [at |-> "lock", basket |-> basket, left |-> basket, product |-> NULL,
               view |-> NULL]]
      BY <2>2 DEF BeginCheckout
    <3>2. checkout'[c] = [at |-> "lock", basket |-> basket, left |-> basket,
                          product |-> NULL, view |-> NULL]
      BY <3>1 DEF TypeOK
    <3>. QED  BY <3>2
  <2>. QED  BY <2>1, <2>2
<1>3. Held(c)' = {}
  BY <1>2 DEF Held
<1>4. FirstUnchecked(c)'
  BY <1>3 DEF FirstUnchecked
<1>. QED  BY <1>1, <1>2, <1>3, <1>4, OneCheckoutMoves

\* The insert: the new order shares no product with what others have locked.
LEMMA InsertOrderPreserves ==
  ASSUME IInv, NEW c \in Checkouts, InsertOrder(c)
  PROVE  OrdersInv' /\ LocksAscend' /\ FirstStaysClear' /\ ActivatesPending'
<1>. USE DEF IInv
<1>. DEFINE new == lastOrder + 1
            basket == checkout[c].basket
<1>1. /\ lastOrder \in Nat /\ new \in Orders /\ lastOrder' = new
      /\ status' = [status EXCEPT ![new] = "PENDING_PAYMENT"]
      /\ items' = [items EXCEPT ![new] = basket]
      /\ checkout' = [checkout EXCEPT ![c] = IdleCheckout]
      /\ UNCHANGED <<payment, expired, campaign, webhook>>
      /\ checkout[c].at = "insert"
  BY BoostAssumption DEF InsertOrder, TypeOK, Orders
<1>2. /\ \A o \in Orders \ {new} : status'[o] = status[o] /\ items'[o] = items[o]
      /\ status'[new] = "PENDING_PAYMENT" /\ items'[new] = basket
      /\ status[new] = "NONE"
  <2>1. lastOrder < new
    BY <1>1
  <2>2. status[new] = "NONE"
    BY <1>1, <2>1 DEF OrdersNumbered
  <2>. QED  BY <1>1, <2>2 DEF TypeOK, View
<1>3. checkout[c].left = {} /\ basket # {} /\ Held(c) = basket
  BY <1>1 DEF LocksAscend, Held
<1>4. OrdersNumbered'
  <2>1. \A o \in Orders : lastOrder' < o <=> lastOrder < o /\ o # new
    BY <1>1 DEF Orders
  <2>. QED  BY <1>1, <1>2, <2>1 DEF OrdersNumbered
<1>5. PaidOrdersBoosted'
  BY <1>1, <1>2 DEF PaidOrdersBoosted
<1>6. PaymentUsedOnce'
  BY <1>1 DEF PaymentUsedOnce
<1>7. LaterBasketsAvoidPending'
  <2>. SUFFICES ASSUME NEW o1 \in 1..lastOrder', NEW o2 \in 1..lastOrder', o1 < o2,
                       status'[o1] = "PENDING_PAYMENT", ~expired'[o1],
                       NEW p \in items'[o1] \cap items'[o2]
                PROVE  \E q \in items'[o2] : q < p
    BY DEF LaterBasketsAvoidPending
  <2>. /\ o1 \in 1..new /\ o2 \in 1..new /\ new \in 1..MaxOrders /\ MaxOrders \in Nat
    BY <1>1, BoostAssumption DEF Orders
  <2>1. /\ o1 \in 1..lastOrder /\ o1 \in 1..MaxOrders /\ o1 # new
        /\ o2 \in 1..lastOrder \/ o2 = new
        /\ o2 \in 1..MaxOrders
    BY <1>1
  <2>2. CASE o2 # new
    BY <1>1, <1>2, <2>1, <2>2 DEF LaterBasketsAvoidPending, Orders
  <2>3. CASE o2 = new
    <3>1. p \in basket /\ p \in items[o1] /\ status[o1] = "PENDING_PAYMENT" /\ ~expired[o1]
      BY <1>1, <1>2, <2>1, <2>3 DEF Orders
    <3>2. ~FirstUnchecked(c)
      BY <1>1, <1>3 DEF FirstUnchecked
    <3>3. ~(\A q \in basket : p <= q)
      BY <2>1, <3>1, <3>2 DEF FirstStaysClear, Orders
    <3>4. basket \subseteq Nat
      BY BoostAssumption DEF TypeOK, Checkout
    <3>. QED  BY <1>2, <2>3, <3>1, <3>3, <3>4
  <2>. QED  BY <2>2, <2>3
<1>8. /\ \A d \in Checkouts \ {c} : checkout'[d] = checkout[d] /\ Held(d)' = Held(d)
      /\ checkout'[c] = IdleCheckout /\ Held(c)' = {}
  BY <1>1 DEF TypeOK, Held, IdleCheckout
<1>9. LocksAscend'
  <2>1. ASSUME NEW d \in Checkouts
        PROVE  /\ checkout'[d].left \subseteq checkout'[d].basket
               /\ \A p \in Held(d)', q \in checkout'[d].left : p < q
               /\ checkout'[d].at = "check" => checkout'[d].product \in Held(d)'
               /\ checkout'[d].at \in {"idle", "insert"} => checkout'[d].left = {}
               /\ checkout'[d].at = "insert" => checkout'[d].basket # {}
    <3>1. CASE d = c
      BY <1>8, <3>1 DEF IdleCheckout
    <3>2. CASE d # c
      BY <1>8, <3>2 DEF LocksAscend
    <3>. QED  BY <3>1, <3>2
  <2>2. ASSUME NEW d \in Checkouts, NEW e \in Checkouts, d # e
        PROVE  Held(d)' \cap Held(e)' = {}
    BY <1>8, <2>2 DEF LocksAscend
  <2>. QED  BY <2>1, <2>2 DEF LocksAscend
<1>10. FirstStaysClear'
  <2>. SUFFICES ASSUME NEW d \in Checkouts
                PROVE  /\ FirstUnchecked(d)' => checkout'[d].view = NULL
                       /\ ~FirstUnchecked(d)' =>
                            \A p \in checkout'[d].basket :
                              (\A q \in checkout'[d].basket : p <= q) =>
                                \A o \in Orders : p \in items'[o] =>
                                  ~(status'[o] = "PENDING_PAYMENT" /\ ~expired'[o])
    BY DEF FirstStaysClear
  <2>1. CASE d = c
    BY <1>8, <2>1 DEF FirstUnchecked, IdleCheckout
  <2>2. CASE d # c
    <3>1. /\ checkout'[d] = checkout[d] /\ Held(d)' = Held(d)
          /\ FirstUnchecked(d)' <=> FirstUnchecked(d)
      BY <1>8, <2>2 DEF FirstUnchecked
    <3>2. ASSUME ~FirstUnchecked(d), NEW p \in checkout[d].basket,
                 \A q \in checkout[d].basket : p <= q,
                 NEW o \in Orders, p \in items'[o]
          PROVE  ~(status'[o] = "PENDING_PAYMENT" /\ ~expired'[o])
      <4>1. CASE o # new
        BY <1>1, <1>2, <3>2, <4>1 DEF FirstStaysClear
      <4>2. CASE o = new
        <5>1. p \in Held(c)
          BY <1>2, <1>3, <3>2, <4>2
        <5>2. p \notin Held(d)
          BY <2>2, <5>1 DEF LocksAscend
        <5>3. p \in checkout[d].left
          BY <3>2, <5>2 DEF Held
        <5>4. PICK h : h \in Held(d)
          BY <3>2 DEF FirstUnchecked
        <5>5. h < p /\ p <= h
          BY <3>2, <5>3, <5>4 DEF LocksAscend, Held
        <5>6. h \in Nat /\ p \in Nat
          BY <5>4, BoostAssumption DEF Held, TypeOK, Checkout
        <5>. QED  BY <5>5, <5>6
      <4>. QED  BY <4>1, <4>2
    <3>. QED  BY <3>1, <3>2 DEF FirstStaysClear
  <2>. QED  BY <2>1, <2>2
<1>11. ActivatesPending'
  <2>1. ASSUME NEW w \in Webhooks, webhook[w].at = "activate"
        PROVE  webhook[w].order \in Orders \ {new}
    BY <1>2, <2>1 DEF ActivatesPending
  <2>. QED  BY <1>1, <1>2, <2>1 DEF ActivatesPending
<1>. QED  BY <1>4, <1>5, <1>6, <1>7, <1>9, <1>10, <1>11 DEF OrdersInv

\* A step of one webhook that leaves the orders alone.
LEMMA WebhookMovePreserves ==
  ASSUME IInv, NEW w \in Webhooks, Deliver(w) \/ LockOrder(w) \/ RollBackWebhook(w)
  PROVE  ActivatesPending'
<1>. USE DEF IInv
<1>1. /\ UNCHANGED status
      /\ \A v \in Webhooks \ {w} : webhook'[v] = webhook[v]
  BY DEF Deliver, LockOrder, RollBackWebhook, orderVars, TypeOK
<1>2. /\ webhook'[w].at # "idle" => /\ webhook'[w].order \in Orders
                                    /\ webhook'[w].payment \in Payments
      /\ webhook'[w].at = "activate" =>
           /\ status[webhook'[w].order] = "PENDING_PAYMENT"
           /\ \A v \in Webhooks \ {w} : webhook[v].at = "activate"
                                          => webhook[v].order # webhook'[w].order
  <2>1. CASE Deliver(w)
    <3>1. PICK o \in 1..lastOrder, id \in Payments :
            webhook' = [webhook EXCEPT ![w] = [at |-> "lock", order |-> o, payment |-> id]]
      BY <2>1 DEF Deliver
    <3>2. webhook'[w] = [at |-> "lock", order |-> o, payment |-> id]
      BY <3>1 DEF TypeOK
    <3>3. o \in Orders
      BY BoostAssumption DEF TypeOK, Orders
    <3>. QED  BY <3>2, <3>3
  <2>2. CASE LockOrder(w)
    <3>1. CASE Accepts(webhook[w].order, webhook[w].payment)
      <4>1. webhook' = [webhook EXCEPT ![w] = [webhook[w] EXCEPT !.at = "activate"]]
        BY <2>2, <3>1 DEF LockOrder
      <4>2. /\ webhook'[w].order = webhook[w].order
            /\ webhook'[w].payment = webhook[w].payment
        BY <4>1 DEF TypeOK, Webhook
      <4>3. /\ webhook[w].order \in Orders /\ webhook[w].payment \in Payments
            /\ \A v \in Webhooks : webhook[v].at = "activate"
                                     => webhook[v].order # webhook[w].order
        BY <2>2 DEF LockOrder, ActivatesPending
      <4>. QED  BY <3>1, <4>2, <4>3 DEF Accepts
    <3>2. CASE ~Accepts(webhook[w].order, webhook[w].payment)
      BY <2>2, <3>2 DEF LockOrder, IdleWebhook, TypeOK
    <3>. QED  BY <3>1, <3>2
  <2>3. CASE RollBackWebhook(w)
    BY <2>3 DEF RollBackWebhook, IdleWebhook, TypeOK
  <2>. QED  BY <2>1, <2>2, <2>3
<1>. QED  BY <1>1, <1>2 DEF ActivatesPending

\* The payment: the order that is activated is pending, so its campaigns are its
\* first, and the unique key keeps the payment from two orders.
LEMMA ActivatePaidOrderPreserves ==
  ASSUME IInv, NEW w \in Webhooks, ActivatePaidOrder(w)
  PROVE  OrdersInv' /\ LocksAscend' /\ FirstStaysClear' /\ ActivatesPending'
<1>. USE DEF IInv
<1>. DEFINE o == webhook[w].order
            id == webhook[w].payment
<1>1. /\ webhook[w].at = "activate" /\ o \in Orders /\ id \in Payments
      /\ status[o] = "PENDING_PAYMENT"
      /\ UNCHANGED <<lastOrder, items, expired, checkout>>
      /\ \A v \in Webhooks \ {w} : webhook'[v] = webhook[v]
      /\ webhook'[w] = IdleWebhook
  BY DEF ActivatePaidOrder, ActivatesPending, TypeOK
<1>2. \A v \in Webhooks \ {w} : webhook[v].at = "activate" => webhook[v].order # o
  BY <1>1 DEF ActivatesPending
<1>3. \A v \in Webhooks : webhook'[v].at = "activate" => v # w
  BY <1>1 DEF IdleWebhook
<1>4. CASE UNCHANGED <<status, payment, campaign>>
  <2>1. OrdersInv' /\ LocksAscend' /\ FirstStaysClear'
    BY <1>1, <1>4, QuietOrders, QuietCheckouts DEF OrdersInv, orderVars
  <2>2. ActivatesPending'
    BY <1>1, <1>3, <1>4 DEF ActivatesPending, IdleWebhook
  <2>. QED  BY <2>1, <2>2
<1>5. CASE /\ PaymentIdFree(o, id)
           /\ status' = [status EXCEPT ![o] = "PAID"]
           /\ payment' = [payment EXCEPT ![o] = id]
           /\ ActivateItems(o)
  <2>1. /\ status'[o] = "PAID" /\ payment'[o] = id
        /\ \A other \in Orders \ {o} : /\ status'[other] = status[other]
                                         /\ payment'[other] = payment[other]
    BY <1>1, <1>5 DEF TypeOK, View
  <2>2. id # NULL
    BY <1>1, BoostAssumption
  <2>3. PICK phase \in {"scheduled", "live"} :
          campaign' = [campaign EXCEPT ![o] =
            [p \in Products |-> IF p \in items[o] THEN phase ELSE campaign[o][p]]]
    BY <1>5 DEF ActivateItems
  <2>4. /\ \A other \in Orders \ {o} : campaign'[other] = campaign[other]
        /\ \A p \in Products :
             campaign'[o][p] = IF p \in items[o] THEN phase ELSE campaign[o][p]
    BY <1>1, <2>3 DEF TypeOK
  <2>5. OrdersNumbered'
    BY <1>1, <2>1 DEF OrdersNumbered
  <2>6. PaidOrdersBoosted'
    <3>1. ASSUME NEW other \in Orders
          PROVE  /\ status'[other] = "PAID" <=> payment'[other] # NULL
                 /\ \A p \in Products :
                      campaign'[other][p] # "none"
                        <=> status'[other] = "PAID" /\ p \in items'[other]
      <4>1. CASE other = o
        BY <1>1, <2>1, <2>2, <2>4, <4>1 DEF PaidOrdersBoosted
      <4>2. CASE other # o
        BY <1>1, <2>1, <2>4, <4>2 DEF PaidOrdersBoosted
      <4>. QED  BY <4>1, <4>2
    <3>. QED  BY <3>1 DEF PaidOrdersBoosted
  <2>7. PaymentUsedOnce'
    BY <1>1, <1>5, <2>1 DEF PaymentUsedOnce, PaymentIdFree
  <2>8. \A other \in Orders : status'[other] = "PENDING_PAYMENT"
                               => status[other] = "PENDING_PAYMENT"
    BY <2>1
  <2>9. LaterBasketsAvoidPending'
    BY <1>1, <2>8, BoostAssumption DEF LaterBasketsAvoidPending, Orders, TypeOK
  <2>10. LocksAscend' /\ FirstStaysClear'
    BY <1>1, <2>8, QuietCheckouts
  <2>11. ActivatesPending'
    BY <1>1, <1>2, <1>3, <2>1 DEF ActivatesPending, IdleWebhook
  <2>. QED  BY <2>5, <2>6, <2>7, <2>9, <2>10, <2>11 DEF OrdersInv
<1>. QED  BY <1>4, <1>5 DEF ActivatePaidOrder

LEMMA TimePreserves ==
  ASSUME IInv, NEW o \in Orders,
         ExpireOrder(o) \/ StartCampaigns(o) \/ \E p \in Products : EndCampaign(o, p)
  PROVE  OrdersInv' /\ LocksAscend' /\ FirstStaysClear' /\ ActivatesPending'
<1>. USE DEF IInv
<1>1. UNCHANGED <<lastOrder, status, items, payment, checkout, webhook>>
  BY DEF ExpireOrder, StartCampaigns, EndCampaign
<1>2. \A other \in Orders : expired[other] => expired'[other]
  BY DEF ExpireOrder, StartCampaigns, EndCampaign, TypeOK
<1>3. \A other \in Orders, q \in Products :
        campaign'[other][q] # "none" <=> campaign[other][q] # "none"
  BY DEF ExpireOrder, StartCampaigns, EndCampaign, TypeOK
<1>4. OrdersNumbered' /\ PaymentUsedOnce'
  BY <1>1 DEF OrdersNumbered, PaymentUsedOnce
<1>5. PaidOrdersBoosted'
  BY <1>1, <1>3 DEF PaidOrdersBoosted
<1>6. LaterBasketsAvoidPending'
  BY <1>1, <1>2, BoostAssumption DEF LaterBasketsAvoidPending, Orders, TypeOK
<1>7. LocksAscend' /\ FirstStaysClear'
  BY <1>1, <1>2, QuietCheckouts
<1>8. ActivatesPending'
  BY <1>1, QuietWebhooks
<1>. QED  BY <1>4, <1>5, <1>6, <1>7, <1>8 DEF OrdersInv

-----------------------------------------------------------------------------
(* The theorems *)

LEMMA InitIInv ==
  ASSUME Init
  PROVE  IInv
<1>1. TypeOK
  BY IdleTypes, BoostAssumption
     DEF Init, TypeOK, View, BoostOrderStatus, CampaignPhase
<1>2. OrdersNumbered
  <2>1. \A o \in Orders : 0 < o
    BY BoostAssumption DEF Orders
  <2>. QED  BY <2>1 DEF Init, OrdersNumbered
<1>3. LocksAscend /\ FirstStaysClear
  BY DEF Init, LocksAscend, FirstStaysClear, FirstUnchecked, Held, IdleCheckout
<1>4. ActivatesPending
  BY DEF Init, ActivatesPending, IdleWebhook
<1>5. PaidOrdersBoosted /\ PaymentUsedOnce
  BY DEF Init, PaidOrdersBoosted, PaymentUsedOnce
<1>6. LaterBasketsAvoidPending
  BY DEF Init, LaterBasketsAvoidPending
<1>. QED  BY <1>1, <1>2, <1>3, <1>4, <1>5, <1>6 DEF IInv

LEMMA CheckoutPreserves ==
  ASSUME IInv, NEW c \in Checkouts, BeginCheckout(c) \/ CheckoutStep(c)
  PROVE  IInv'
<1>1. TypeOK'
  BY CheckoutType DEF IInv
<1>2. CASE InsertOrder(c)
  BY <1>1, <1>2, InsertOrderPreserves DEF IInv, OrdersInv
<1>3. CASE BeginCheckout(c) \/ LockProduct(c) \/ CheckProduct(c) \/ RollBackCheckout(c)
  <2>1. UNCHANGED <<orderVars, webhook>>
    BY <1>3 DEF BeginCheckout, LockProduct, CheckProduct, RollBackCheckout
  <2>2. OrdersInv'
    BY <2>1, QuietOrders DEF IInv, OrdersInv
  <2>3. ActivatesPending'
    BY <2>1, QuietWebhooks DEF IInv, orderVars
  <2>4. LocksAscend' /\ FirstStaysClear'
    BY <1>3, LockProductPreserves, CheckProductPreserves, BeginOrRollBackPreserves
  <2>. QED  BY <1>1, <2>2, <2>3, <2>4 DEF IInv, OrdersInv
<1>. QED  BY <1>2, <1>3 DEF CheckoutStep

LEMMA WebhookPreserves ==
  ASSUME IInv, NEW w \in Webhooks, Deliver(w) \/ WebhookStep(w)
  PROVE  IInv'
<1>1. TypeOK'
  BY WebhookType DEF IInv
<1>2. CASE ActivatePaidOrder(w)
  BY <1>1, <1>2, ActivatePaidOrderPreserves DEF IInv, OrdersInv
<1>3. CASE Deliver(w) \/ LockOrder(w) \/ RollBackWebhook(w)
  <2>1. UNCHANGED <<orderVars, checkout>>
    BY <1>3 DEF Deliver, LockOrder, RollBackWebhook
  <2>2. OrdersInv'
    BY <2>1, QuietOrders DEF IInv, OrdersInv
  <2>3. LocksAscend' /\ FirstStaysClear'
    BY <2>1, QuietCheckouts DEF IInv, orderVars
  <2>4. ActivatesPending'
    BY <1>3, WebhookMovePreserves
  <2>. QED  BY <1>1, <2>2, <2>3, <2>4 DEF IInv, OrdersInv
<1>. QED  BY <1>2, <1>3 DEF WebhookStep

LEMMA NextIInv ==
  ASSUME IInv, [Next]_vars
  PROVE  IInv'
<1>1. ASSUME NEW c \in Checkouts, BeginCheckout(c) \/ CheckoutStep(c)
      PROVE  IInv'
  BY <1>1, CheckoutPreserves
<1>2. ASSUME NEW w \in Webhooks, Deliver(w) \/ WebhookStep(w)
      PROVE  IInv'
  BY <1>2, WebhookPreserves
<1>3. ASSUME NEW o \in Orders,
             ExpireOrder(o) \/ StartCampaigns(o) \/ \E p \in Products : EndCampaign(o, p)
      PROVE  IInv'
  BY <1>3, TimeType, TimePreserves DEF IInv, OrdersInv
<1>4. CASE UNCHANGED vars
  <2>1. OrdersInv' /\ LocksAscend' /\ FirstStaysClear' /\ ActivatesPending'
    BY <1>4, QuietOrders, QuietCheckouts, QuietWebhooks
       DEF IInv, OrdersInv, vars, orderVars
  <2>2. TypeOK'
    BY <1>4 DEF IInv, TypeOK, vars
  <2>. QED  BY <2>1, <2>2 DEF IInv, OrdersInv
<1>. QED  BY <1>1, <1>2, <1>3, <1>4 DEF Next

LEMMA SpecIInv == Spec => []IInv
  BY InitIInv, NextIInv, PTL DEF Spec

\* Every reachable state is of the declared types: no step gives an order a
\* status, or a slot a request, that createOrder and processPayment never write.
THEOREM TypeCorrect == Spec => []TypeOK
<1>1. IInv => TypeOK
  BY DEF IInv
<1>. QED  BY <1>1, SpecIInv, PTL

\* Whatever notifications are delivered, repeated, raced or rolled back, orders
\* are paid exactly with a payment and a campaign for each of their items
\* (processPayment and activatePaidOrder).
THEOREM PaymentsBuyBoosts == Spec => []PaidOrdersBoosted
<1>1. IInv => PaidOrdersBoosted
  BY DEF IInv
<1>. QED  BY <1>1, SpecIInv, PTL

\* No payment pays for two orders: the unique key on payment_id decides the race
\* that paymentIdExists leaves open.
THEOREM PaymentsAreUnique == Spec => []PaymentUsedOnce
<1>1. IInv => PaymentUsedOnce
  BY DEF IInv
<1>. QED  BY <1>1, SpecIInv, PTL

\* With any number of concurrent checkouts, the check of createOrder does hold
\* for the first product of a basket.
THEOREM FirstProductIsChecked == Spec => []LaterBasketsAvoidPending
<1>1. IInv => LaterBasketsAvoidPending
  BY DEF IInv
<1>. QED  BY <1>1, SpecIInv, PTL

\* A set of numbers with a bound has a greatest one.
LEMMA GreatestBelow ==
  ASSUME NEW bound \in Nat, NEW S \in SUBSET (0..bound), S # {}
  PROVE  \E m \in S : \A n \in S : n <= m
<1>. DEFINE Gaps == {bound - n : n \in S}
<1>1. Gaps \subseteq Nat /\ Gaps # {}
  <2>1. PICK n \in S : TRUE
    OBVIOUS
  <2>2. bound - n \in Gaps
    OBVIOUS
  <2>3. ASSUME NEW k \in S
        PROVE  bound - k \in Nat
    OBVIOUS
  <2>. QED  BY <2>2, <2>3
<1>2. PICK gap \in Gaps : \A g \in Gaps : ~(<<g, gap>> \in OpToRel(<, Nat))
  <2>. HIDE DEF Gaps
  <2>. QED  BY <1>1, NatLessThanWellFounded, WFMin
<1>3. \A g \in Gaps : ~(g < gap)
  <2>. SUFFICES ASSUME NEW g \in Gaps, g < gap
                PROVE  <<g, gap>> \in OpToRel(<, Nat)
    BY <1>2
  <2>1. <<g, gap>> \in Nat \X Nat
    BY <1>1
  <2>. QED  BY <2>1 DEF OpToRel
<1>4. PICK m \in S : gap = bound - m
  OBVIOUS
<1>5. ASSUME NEW n \in S
      PROVE  n <= m
  <2>1. ~(bound - n < bound - m)
    BY <1>3, <1>4
  <2>2. n \in Int /\ m \in Int
    OBVIOUS
  <2>. QED  BY <2>1, <2>2
<1>. QED  BY <1>5

\* What a checkout waits for is greater than all it holds, so along a chain of
\* waiting checkouts the products waited for grow.
LEMMA WaitsGrow ==
  ASSUME IInv, NEW c \in Checkouts, NEW d \in Checkouts, NEW p \in Held(d), NEW q,
         LocksNext(c, p), LocksNext(d, q)
  PROVE  p \in Nat /\ q \in Nat /\ p < q
  BY BoostAssumption DEF IInv, TypeOK, Checkout, LocksAscend, LocksNext, Held

\* "A stable lock order prevents deadlocks" (the sort in createOrder): as the
\* products have a greatest id, no checkouts wait for each other in a circle of
\* any length, whatever their baskets.
THEOREM LockOrderPreventsDeadlock ==
  ASSUME NEW maxProduct \in Nat, Products \subseteq 0..maxProduct
  PROVE  Spec => []NoCheckoutDeadlock
<1>1. ASSUME IInv
      PROVE  NoCheckoutDeadlock
  <2>. SUFFICES ASSUME NEW group \in (SUBSET Checkouts) \ {{}},
                       \A c \in group : \E d \in group : WaitsFor(c, d)
                PROVE  FALSE
    BY DEF NoCheckoutDeadlock
  <2>. DEFINE Awaited == {p \in Products : \E c \in group : LocksNext(c, p)}
  <2>1. ASSUME NEW c \in group
        PROVE  \E d \in group : \E p \in Held(d) : LocksNext(c, p)
    BY DEF WaitsFor
  <2>2. \A c \in group : checkout[c].left \subseteq Products
    BY <1>1 DEF IInv, TypeOK, Checkout
  <2>3. \A c \in group : \E p \in Awaited : LocksNext(c, p)
    BY <2>1, <2>2 DEF LocksNext
  <2>4. Awaited # {} /\ Awaited \subseteq 0..maxProduct
    BY <2>3
  <2>5. PICK top \in Awaited : \A p \in Awaited : p <= top
    <3>. HIDE DEF Awaited
    <3>. QED  BY <2>4, GreatestBelow
  <2>6. PICK c \in group : LocksNext(c, top)
    BY <2>5
  <2>7. PICK d \in group : \E p \in Held(d) : LocksNext(c, p)
    BY <2>1, <2>6
  <2>8. PICK p \in Held(d) : LocksNext(c, p) /\ p = top
    <3>1. PICK p \in Held(d) : LocksNext(c, p)
      BY <2>7
    <3>2. p \in checkout[c].left /\ top \in checkout[c].left /\ p <= top /\ top <= p
      BY <2>6, <3>1 DEF LocksNext
    <3>3. p \in Nat /\ top \in Nat
      BY <2>2, <3>2, BoostAssumption
    <3>. QED  BY <3>1, <3>2, <3>3
  <2>9. PICK q \in Awaited : LocksNext(d, q)
    BY <2>3
  <2>10. top \in Nat /\ q \in Nat /\ top < q
    BY <1>1, <2>6, <2>7, <2>8, <2>9, WaitsGrow
  <2>. QED  BY <2>5, <2>10
<1>. QED  BY <1>1, SpecIInv, PTL

\* The step that PaidOrderFrozen speaks of.
Frozen ==
  \A o \in Orders : status[o] = "PAID" =>
    /\ status'[o] = "PAID" /\ payment'[o] = payment[o] /\ items'[o] = items[o]
    /\ \A p \in items[o] :
         /\ campaign[o][p] = "live" => campaign'[o][p] \in {"live", "ended"}
         /\ campaign[o][p] = "ended" => campaign'[o][p] = "ended"

\* The webhook is idempotent: a step that meets a paid order changes nothing of
\* it but the clock's part.
THEOREM PaidStaysPaid == Spec => PaidOrderFrozen
<1>1. ASSUME IInv, [Next]_vars
      PROVE  Frozen
  <2>1. ASSUME UNCHANGED orderVars
        PROVE  Frozen
    BY <2>1 DEF Frozen, orderVars
  <2>2. ASSUME NEW c \in Checkouts, InsertOrder(c)
        PROVE  Frozen
    <3>1. lastOrder < lastOrder + 1 /\ lastOrder + 1 \in Orders
      BY <1>1, <2>2, BoostAssumption DEF IInv, TypeOK, InsertOrder, Orders
    <3>2. status[lastOrder + 1] = "NONE"
      BY <1>1, <3>1 DEF IInv, OrdersNumbered
    <3>. QED  BY <1>1, <2>2, <3>2 DEF Frozen, InsertOrder, IInv, TypeOK, View
  <2>3. ASSUME NEW w \in Webhooks, ActivatePaidOrder(w)
        PROVE  Frozen
    <3>1. status[webhook[w].order] = "PENDING_PAYMENT"
      BY <1>1, <2>3 DEF ActivatePaidOrder, IInv, ActivatesPending
    <3>2. \A o \in Orders \ {webhook[w].order} :
            status'[o] = status[o] /\ payment'[o] = payment[o] /\ campaign'[o] = campaign[o]
      BY <1>1, <2>3 DEF ActivatePaidOrder, ActivateItems, IInv, TypeOK, View
    <3>. QED  BY <2>3, <3>1, <3>2 DEF Frozen, ActivatePaidOrder
  <2>4. ASSUME NEW o \in Orders, ExpireOrder(o)
        PROVE  Frozen
    BY <2>4 DEF Frozen, ExpireOrder
  <2>5. ASSUME NEW o \in Orders,
               StartCampaigns(o) \/ \E p \in Products : EndCampaign(o, p)
        PROVE  Frozen
    BY <1>1, <2>5 DEF Frozen, StartCampaigns, EndCampaign, IInv, TypeOK
  <2>. QED
    BY <1>1, <2>1, <2>2, <2>3, <2>4, <2>5
       DEF Next, vars, orderVars, CheckoutStep, WebhookStep, BeginCheckout, LockProduct,
           CheckProduct, RollBackCheckout, Deliver, LockOrder, RollBackWebhook
<1>2. IInv /\ [Next]_vars => [Frozen]_vars
  BY <1>1
<1>. QED  BY <1>2, SpecIInv, PTL DEF Spec, PaidOrderFrozen, Frozen

-----------------------------------------------------------------------------
(* The ledger *)

Boosts == {b \in Orders \X Products : campaign[b[1]][b[2]] \in {"scheduled", "live"}}

LEMMA PlacedOrders ==
  ASSUME IInv
  PROVE  /\ lastOrder \in Nat /\ 1..lastOrder \subseteq Orders
         /\ \A o \in Orders : status[o] # "NONE" => o \in 1..lastOrder
<1>1. lastOrder \in 0..MaxOrders /\ MaxOrders \in Nat
  BY BoostAssumption DEF IInv, TypeOK
<1>2. \A o \in Orders : status[o] # "NONE" => ~(lastOrder < o)
  BY DEF IInv, OrdersNumbered
<1>. QED  BY <1>1, <1>2 DEF Orders

\* A checkout that commits places its order: the check of its smallest product
\* still holds.
LEMMA InsertPlaces ==
  ASSUME IInv, NEW c \in Checkouts, InsertOrder(c), NEW basket, basket = checkout[c].basket
  PROVE  Ledger!Place(basket) /\ basket \in SUBSET Products
<1>1. /\ lastOrder' = lastOrder + 1 /\ lastOrder' \in Orders
      /\ items' = [items EXCEPT ![lastOrder + 1] = basket]
      /\ UNCHANGED <<payment, expired, campaign>>
      /\ checkout[c].at = "insert"
  BY BoostAssumption DEF InsertOrder, IInv, TypeOK, Orders
<1>2. basket # {} /\ basket \in SUBSET Products /\ ~FirstUnchecked(c)
  <2>1. checkout[c].left = {} /\ basket # {}
    BY <1>1 DEF IInv, LocksAscend
  <2>. QED  BY <1>1, <2>1 DEF IInv, TypeOK, Checkout, FirstUnchecked, Held
<1>3. ASSUME NEW o \in 1..lastOrder, NEW p \in basket,
             payment[o] = NULL, ~expired[o], p \in items[o]
      PROVE  \E q \in basket : q < p
  <2>1. status[o] = "PENDING_PAYMENT" /\ o \in Orders
    <3>1. o \in Orders /\ status[o] # "NONE" /\ status[o] # "PAID"
      BY <1>3, PlacedOrders DEF IInv, OrdersNumbered, PaidOrdersBoosted
    <3>. QED  BY <3>1 DEF IInv, TypeOK, View, BoostOrderStatus
  <2>2. ~(\A q \in basket : p <= q)
    BY <1>2, <1>3, <2>1 DEF IInv, FirstStaysClear
  <2>3. basket \subseteq Nat
    BY <1>2, BoostAssumption
  <2>. QED  BY <2>2, <2>3
<1>4. Boosts' = Boosts
  BY <1>1 DEF Boosts
<1>. QED  BY <1>1, <1>2, <1>3, <1>4 DEF Ledger!Place, Ledger!Pending, Boosts

\* A notification that is not refused pays the order, all of it.
LEMMA ActivationPays ==
  ASSUME IInv, NEW w \in Webhooks, ActivatePaidOrder(w), status' # status,
         NEW o, o = webhook[w].order, NEW id, id = webhook[w].payment
  PROVE  o \in 1..lastOrder /\ id \in Payments /\ Ledger!Pay(o, id)
<1>1. /\ o \in Orders /\ id \in Payments /\ id # NULL /\ status[o] = "PENDING_PAYMENT"
      /\ PaymentIdFree(o, id) /\ payment' = [payment EXCEPT ![o] = id]
      /\ ActivateItems(o) /\ UNCHANGED <<lastOrder, items, expired>>
  BY BoostAssumption DEF ActivatePaidOrder, IInv, ActivatesPending
<1>2. /\ o \in 1..lastOrder /\ payment[o] = NULL /\ items[o] \subseteq Products
      /\ \A p \in Products : campaign[o][p] = "none"
  BY <1>1, PlacedOrders DEF IInv, PaidOrdersBoosted, TypeOK
<1>3. \A other \in 1..lastOrder : payment[other] # id
  BY <1>1, <1>2, PlacedOrders DEF PaymentIdFree
<1>4. Boosts' = Boosts \cup {o} \X items[o]
  <2>1. PICK phase \in {"scheduled", "live"} :
          campaign' = [campaign EXCEPT ![o] =
            [p \in Products |-> IF p \in items[o] THEN phase ELSE campaign[o][p]]]
    BY <1>1 DEF ActivateItems
  <2>2. ASSUME NEW b \in Orders \X Products
        PROVE  campaign'[b[1]][b[2]] \in {"scheduled", "live"}
                 <=> campaign[b[1]][b[2]] \in {"scheduled", "live"} \/ b \in {o} \X items[o]
    <3>1. CASE b[1] = o
      <4>1. campaign'[o][b[2]] = IF b[2] \in items[o] THEN phase ELSE "none"
        BY <1>1, <1>2, <2>1 DEF IInv, TypeOK
      <4>. QED  BY <1>2, <3>1, <4>1
    <3>2. CASE b[1] # o
      BY <1>1, <2>1, <3>2 DEF IInv, TypeOK
    <3>. QED  BY <3>1, <3>2
  <2>3. {o} \X items[o] \subseteq Orders \X Products
    BY <1>1, <1>2
  <2>. QED  BY <2>2, <2>3 DEF Boosts
<1>. QED  BY <1>1, <1>2, <1>3, <1>4 DEF Ledger!Pay, Boosts

LEMMA ExpiryTurnsLate ==
  ASSUME IInv, NEW o \in Orders, ExpireOrder(o)
  PROVE  o \in 1..lastOrder /\ Ledger!TurnLate(o)
<1>1. /\ status[o] = "PENDING_PAYMENT" /\ ~expired[o]
      /\ expired' = [expired EXCEPT ![o] = TRUE]
      /\ UNCHANGED <<lastOrder, items, payment, campaign>>
  BY DEF ExpireOrder
<1>2. o \in 1..lastOrder /\ payment[o] = NULL
  BY <1>1, PlacedOrders DEF IInv, PaidOrdersBoosted
<1>3. Boosts' = Boosts
  BY <1>1 DEF Boosts
<1>. QED  BY <1>1, <1>2, <1>3 DEF Ledger!TurnLate, Ledger!Pending, Boosts

LEMMA CampaignEnds ==
  ASSUME IInv, NEW o \in Orders, NEW p \in Products, EndCampaign(o, p)
  PROVE  <<o, p>> \in Boosts /\ Ledger!End(<<o, p>>)
<1>1. /\ campaign[o][p] = "live" /\ campaign' = [campaign EXCEPT ![o][p] = "ended"]
      /\ UNCHANGED <<lastOrder, items, payment, expired>>
  BY DEF EndCampaign
<1>2. ASSUME NEW b \in Orders \X Products
      PROVE  campaign'[b[1]][b[2]] \in {"scheduled", "live"}
               <=> campaign[b[1]][b[2]] \in {"scheduled", "live"} /\ b # <<o, p>>
  <2>1. campaign'[b[1]][b[2]]
          = IF b[1] = o /\ b[2] = p THEN "ended" ELSE campaign[b[1]][b[2]]
    BY <1>1 DEF IInv, TypeOK
  <2>2. b = <<o, p>> <=> b[1] = o /\ b[2] = p
    OBVIOUS
  <2>. QED  BY <2>1, <2>2
<1>3. Boosts' = Boosts \ {<<o, p>>} /\ <<o, p>> \in Boosts
  BY <1>1, <1>2 DEF Boosts
<1>. QED  BY <1>1, <1>3 DEF Ledger!End, Boosts

\* A scheduled campaign is one that runs already, for the ledger.
LEMMA StartIsNoStep ==
  ASSUME IInv, NEW o \in Orders, StartCampaigns(o)
  PROVE  UNCHANGED <<lastOrder, items, payment, expired>> /\ Boosts' = Boosts
<1>1. ASSUME NEW b \in Orders \X Products
      PROVE  campaign'[b[1]][b[2]] \in {"scheduled", "live"}
               <=> campaign[b[1]][b[2]] \in {"scheduled", "live"}
  BY DEF StartCampaigns, IInv, TypeOK
<1>. QED  BY <1>1 DEF StartCampaigns, Boosts

LEMMA StepsAreEntered ==
  IInv /\ [Next]_vars => [Ledger!Next]_(Ledger!vars)
<1>. DEFINE Stutter == UNCHANGED <<lastOrder, items, payment, expired>> /\ Boosts' = Boosts
<1>. SUFFICES ASSUME IInv, [Next]_vars
              PROVE  Ledger!Next \/ Stutter
  BY DEF Ledger!vars, Boosts
<1>1. ASSUME UNCHANGED orderVars PROVE Stutter
  BY <1>1 DEF orderVars, Boosts
<1>2. ASSUME NEW c \in Checkouts, InsertOrder(c) PROVE Ledger!Next
  <2>1. \E basket \in SUBSET Products : Ledger!Place(basket)
    <3>1. PICK basket : basket = checkout[c].basket
      OBVIOUS
    <3>. QED  BY <1>2, <3>1, InsertPlaces
  <2>. QED  BY <2>1 DEF Ledger!Next
<1>3. ASSUME NEW w \in Webhooks, ActivatePaidOrder(w) PROVE Ledger!Next \/ Stutter
  <2>1. CASE status' # status
    <3>1. \E o \in 1..lastOrder, id \in Payments : Ledger!Pay(o, id)
      <4>1. PICK o, id : o = webhook[w].order /\ id = webhook[w].payment
        OBVIOUS
      <4>. QED  BY <1>3, <2>1, <4>1, ActivationPays
    <3>. QED  BY <3>1 DEF Ledger!Next
  <2>2. CASE status' = status
    <3>1. UNCHANGED orderVars
      BY <1>3, <2>2 DEF ActivatePaidOrder, IInv, ActivatesPending, TypeOK, View, orderVars
    <3>. QED  BY <1>1, <3>1
  <2>. QED  BY <2>1, <2>2
<1>4. ASSUME NEW o \in Orders, ExpireOrder(o) PROVE Ledger!Next
  BY <1>4, ExpiryTurnsLate DEF Ledger!Next
<1>5. ASSUME NEW o \in Orders, NEW p \in Products, EndCampaign(o, p) PROVE Ledger!Next
  BY <1>5, CampaignEnds DEF Ledger!Next, Boosts
<1>6. CASE UNCHANGED vars
  BY <1>1, <1>6 DEF vars, orderVars
<1>7. CASE Next
  BY <1>1, <1>2, <1>3, <1>4, <1>5, <1>7, StartIsNoStep
     DEF Next, CheckoutStep, WebhookStep, BeginCheckout, LockProduct, CheckProduct,
         RollBackCheckout, Deliver, LockOrder, RollBackWebhook
<1>. QED  BY <1>6, <1>7

\* createOrder and processPayment, however their statements overlap, are rolled
\* back or repeated, do together what a ledger does that places orders and takes
\* payments one at a time.
THEOREM Refinement == Spec => ImplementsLedger
<1>1. Init => Ledger!Init
  BY DEF Init, Ledger!Init
<1>. QED
  BY <1>1, SpecIInv, StepsAreEntered, PTL DEF Spec, ImplementsLedger, Ledger!Spec
=============================================================================
