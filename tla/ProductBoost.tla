---------------------------- MODULE ProductBoost ----------------------------
(***************************************************************************)
(* Paid boosts: ProductBoostService.createOrder (a seller's checkout of a  *)
(* basket of products) and processPayment (the webhook of the payment      *)
(* provider, delivered any number of times).                               *)
(*                                                                         *)
(* Both run in one transaction that spans several statements. Under MySQL, *)
(* the configured default, a locking read sees what is committed, but the  *)
(* first plain read fixes what every later plain read of the transaction   *)
(* sees; so a checkout takes a lock and a check per product, and carries   *)
(* the view its first check took. What a transaction inserts appears when  *)
(* it commits, in one step with its last statement.                        *)
(*                                                                         *)
(* A product belongs to one seller, so sellers need no place here.         *)
(***************************************************************************)
EXTENDS Naturals, FiniteSets

CONSTANTS
  Products,    \* product ids, ordered
  MaxOrders,   \* bound: orders ever placed
  Checkouts,   \* slots for createOrder requests
  Webhooks,    \* slots for payment notifications
  Payments,    \* payment ids of the provider
  NULL

ASSUME BoostAssumption ==
  /\ Products \subseteq Nat
  /\ MaxOrders \in Nat
  /\ NULL \notin Payments \cup Products

VARIABLES
  lastOrder,   \* newest id of product_boost_orders
  status,      \* status of each order
  items,       \* products of each order
  payment,     \* payment_id of each order (unique)
  expired,     \* expires_at of the order has passed
  campaign,    \* the campaign of each order and product
  checkout,    \* where each checkout is
  webhook      \* where each webhook is

orderVars == <<lastOrder, status, items, payment, expired, campaign>>

vars == <<lastOrder, status, items, payment, expired, campaign, checkout, webhook>>

Orders == 1..MaxOrders

\* FAILED and EXPIRED are declared too, and written by nothing; NONE is an id
\* no order has yet.
BoostOrderStatus == {"NONE", "PENDING_PAYMENT", "PAID"}

CampaignPhase == {"none", "scheduled", "live", "ended"}

View == [Orders -> BoostOrderStatus]

\* basket: the products of the request; left: those not locked yet; product:
\* the one locked last; view: what its plain reads see, from the first to the
\* last of them.
Checkout ==
  [at      : {"idle", "lock", "check", "insert"},
   basket  : SUBSET Products,
   left    : SUBSET Products,
   product : Products \cup {NULL},
   view    : View \cup {NULL}]

IdleCheckout ==
  [at |-> "idle", basket |-> {}, left |-> {}, product |-> NULL, view |-> NULL]

Webhook ==
  [at : {"idle", "lock", "activate"}, order : Orders \cup {NULL}, payment : Payments \cup {NULL}]

IdleWebhook == [at |-> "idle", order |-> NULL, payment |-> NULL]

TypeOK ==
  /\ lastOrder \in 0..MaxOrders
  /\ status \in View
  /\ items \in [Orders -> SUBSET Products]
  /\ payment \in [Orders -> Payments \cup {NULL}]
  /\ expired \in [Orders -> BOOLEAN]
  /\ campaign \in [Orders -> [Products -> CampaignPhase]]
  /\ checkout \in [Checkouts -> Checkout]
  /\ webhook \in [Webhooks -> Webhook]

Init ==
  /\ lastOrder = 0
  /\ status = [o \in Orders |-> "NONE"]
  /\ items = [o \in Orders |-> {}]
  /\ payment = [o \in Orders |-> NULL]
  /\ expired = [o \in Orders |-> FALSE]
  /\ campaign = [o \in Orders |-> [p \in Products |-> "none"]]
  /\ checkout = [c \in Checkouts |-> IdleCheckout]
  /\ webhook = [w \in Webhooks |-> IdleWebhook]

-----------------------------------------------------------------------------
(* Locks and reads *)

\* Product rows a checkout has locked; it keeps them until it ends.
Held(c) == checkout[c].basket \ checkout[c].left

\* Mutant: products are locked in the order of the request.
LocksNextInRequestOrder(c, p) == p \in checkout[c].left

\* The product a checkout locks next: the smallest id.
LocksNext(c, p) ==
  /\ p \in checkout[c].left
  /\ \A q \in checkout[c].left : p <= q

\* A checkout is about to lock a product that another one holds.
WaitsFor(c, d) ==
  /\ checkout[c].at = "lock"
  /\ \E p \in Held(d) : LocksNext(c, p)

\* Mutant: only running campaigns are looked for.
HasActiveBoost(view, p) ==
  \E o \in Orders : p \in items[o] /\ view[o] = "PAID" /\ campaign[o][p] = "live"

\* hasPendingOrActiveBoost: the rows are those of the view, the clock is not.
HasPendingOrActiveBoost(view, p) ==
  \E o \in Orders :
    /\ p \in items[o]
    /\ \/ view[o] = "PENDING_PAYMENT" /\ ~expired[o]
       \/ view[o] = "PAID" /\ campaign[o][p] = "live"

-----------------------------------------------------------------------------
(* POST /sellers/product-boosts/orders *)

\* An approved seller checks out a basket without duplicates.
BeginCheckout(c) ==
  /\ checkout[c] = IdleCheckout
  /\ \E basket \in (SUBSET Products) \ {{}} :
       checkout' = [checkout EXCEPT ![c] =
         [at |-> "lock", basket |-> basket, left |-> basket, product |-> NULL, view |-> NULL]]
  /\ UNCHANGED <<orderVars, webhook>>

\* findBoostEligibilityForUpdate: waits while another checkout holds the row.
LockProduct(c) ==
  /\ checkout[c].at = "lock"
  /\ \E p \in Products :
       /\ LocksNext(c, p)
       /\ \A d \in Checkouts : p \notin Held(d)
       /\ checkout' = [checkout EXCEPT ![c].at = "check",
                                       ![c].left = checkout[c].left \ {p},
                                       ![c].product = p]
  /\ UNCHANGED <<orderVars, webhook>>

CheckProduct(c) ==
  /\ checkout[c].at = "check"
  /\ LET view == IF checkout[c].view = NULL THEN status ELSE checkout[c].view
     IN  checkout' = [checkout EXCEPT ![c] =
           IF HasPendingOrActiveBoost(view, checkout[c].product) THEN IdleCheckout
           ELSE IF checkout[c].left = {} THEN [checkout[c] EXCEPT !.at = "insert", !.view = NULL]
           ELSE [checkout[c] EXCEPT !.at = "lock", !.view = view]]
  /\ UNCHANGED <<orderVars, webhook>>

\* The order and its items, and the commit.
InsertOrder(c) ==
  /\ checkout[c].at = "insert"
  /\ lastOrder < MaxOrders
  /\ lastOrder' = lastOrder + 1
  /\ status' = [status EXCEPT ![lastOrder + 1] = "PENDING_PAYMENT"]
  /\ items' = [items EXCEPT ![lastOrder + 1] = checkout[c].basket]
  /\ checkout' = [checkout EXCEPT ![c] = IdleCheckout]
  /\ UNCHANGED <<payment, expired, campaign, webhook>>

\* A product is not this seller's or not approved, or the transaction fails.
RollBackCheckout(c) ==
  /\ checkout[c].at # "idle"
  /\ checkout' = [checkout EXCEPT ![c] = IdleCheckout]
  /\ UNCHANGED <<orderVars, webhook>>

-----------------------------------------------------------------------------
(* POST /webhooks/boost-payments. A notification of another amount or       *)
(* currency than the order's is refused as one of an expired order is.      *)

Deliver(w) ==
  /\ webhook[w] = IdleWebhook
  /\ \E o \in 1..lastOrder, id \in Payments :
       webhook' = [webhook EXCEPT ![w] = [at |-> "lock", order |-> o, payment |-> id]]
  /\ UNCHANGED <<orderVars, checkout>>

\* Mutant: a paid order is not recognised.
AcceptsPaidAgain(o, id) == ~expired[o] /\ \A other \in Orders : payment[other] # id

\* A repeated notification, an expired order and a payment that another order
\* has are turned away.
Accepts(o, id) ==
  /\ status[o] = "PENDING_PAYMENT"
  /\ ~expired[o]
  /\ \A other \in Orders : payment[other] # id

\* findOrderForUpdate and the checks; the order row stays locked if they pass.
LockOrder(w) ==
  /\ webhook[w].at = "lock"
  /\ \A v \in Webhooks : ~(webhook[v].at = "activate" /\ webhook[v].order = webhook[w].order)
  /\ webhook' = [webhook EXCEPT ![w] =
       IF Accepts(webhook[w].order, webhook[w].payment)
         THEN [webhook[w] EXCEPT !.at = "activate"]
         ELSE IdleWebhook]
  /\ UNCHANGED <<orderVars, checkout>>

\* Mutant: the campaign of one item only.
ActivateFirstItem(o) ==
  \E phase \in {"scheduled", "live"} :
    campaign' = [campaign EXCEPT ![o] =
      [p \in Products |-> IF p \in items[o] /\ \A q \in items[o] : p <= q
                            THEN phase ELSE campaign[o][p]]]

\* The campaigns of an order. Their start is now, rounded to whole seconds: it
\* may lie up to half a second ahead.
ActivateItems(o) ==
  \E phase \in {"scheduled", "live"} :
    campaign' = [campaign EXCEPT ![o] =
      [p \in Products |-> IF p \in items[o] THEN phase ELSE campaign[o][p]]]

\* Mutant: payment_id is not unique.
PaymentIdFreeAlways(o, id) == o \in Orders /\ id \in Payments

\* The unique key on payment_id.
PaymentIdFree(o, id) == \A other \in Orders \ {o} : payment[other] # id

\* activatePaidOrder and the commit.
ActivatePaidOrder(w) ==
  LET o  == webhook[w].order
      id == webhook[w].payment
  IN  /\ webhook[w].at = "activate"
      /\ \/ /\ PaymentIdFree(o, id)
            /\ status' = [status EXCEPT ![o] = "PAID"]
            /\ payment' = [payment EXCEPT ![o] = id]
            /\ ActivateItems(o)
         \/ /\ ~PaymentIdFree(o, id)
            /\ UNCHANGED <<status, payment, campaign>>
      /\ webhook' = [webhook EXCEPT ![w] = IdleWebhook]
      /\ UNCHANGED <<lastOrder, items, expired, checkout>>

RollBackWebhook(w) ==
  /\ webhook[w].at # "idle"
  /\ webhook' = [webhook EXCEPT ![w] = IdleWebhook]
  /\ UNCHANGED <<orderVars, checkout>>

-----------------------------------------------------------------------------
(* Time: thirty minutes to pay, a start at most half a second ahead, and    *)
(* the days that were paid for                                              *)

\* Mutant: a sweep gives the order the EXPIRED status, which nothing writes.
ExpireOrderByStatus(o) ==
  /\ status[o] = "PENDING_PAYMENT"
  /\ ~expired[o]
  /\ status' = [status EXCEPT ![o] = "EXPIRED"]
  /\ expired' = [expired EXCEPT ![o] = TRUE]
  /\ UNCHANGED <<lastOrder, items, payment, campaign, checkout, webhook>>

ExpireOrder(o) ==
  /\ status[o] = "PENDING_PAYMENT"
  /\ ~expired[o]
  /\ expired' = [expired EXCEPT ![o] = TRUE]
  /\ UNCHANGED <<lastOrder, status, items, payment, campaign, checkout, webhook>>

\* The items of an order start together.
StartCampaigns(o) ==
  /\ \E p \in Products : campaign[o][p] = "scheduled"
  /\ campaign' = [campaign EXCEPT ![o] =
       [p \in Products |-> IF campaign[o][p] = "scheduled" THEN "live" ELSE campaign[o][p]]]
  /\ UNCHANGED <<lastOrder, status, items, payment, expired, checkout, webhook>>

EndCampaign(o, p) ==
  /\ campaign[o][p] = "live"
  /\ campaign' = [campaign EXCEPT ![o][p] = "ended"]
  /\ UNCHANGED <<lastOrder, status, items, payment, expired, checkout, webhook>>

-----------------------------------------------------------------------------
CheckoutStep(c) ==
  LockProduct(c) \/ CheckProduct(c) \/ InsertOrder(c) \/ RollBackCheckout(c)

WebhookStep(w) == LockOrder(w) \/ ActivatePaidOrder(w) \/ RollBackWebhook(w)

Next ==
  \/ \E c \in Checkouts : BeginCheckout(c) \/ CheckoutStep(c)
  \/ \E w \in Webhooks : Deliver(w) \/ WebhookStep(w)
  \/ \E o \in Orders : ExpireOrder(o) \/ StartCampaigns(o)
  \/ \E o \in Orders, p \in Products : EndCampaign(o, p)

Spec == Init /\ [][Next]_vars

-----------------------------------------------------------------------------
(* Properties *)

\* A payment buys all the campaigns of its order or none: whatever is rolled
\* back, delivered twice or raced, an order is paid exactly when it has a
\* payment and every item of it, and nothing else, a campaign.
PaidOrdersBoosted ==
  \A o \in Orders :
    /\ status[o] = "PAID" <=> payment[o] # NULL
    /\ \A p \in Products :
         campaign[o][p] # "none" <=> status[o] = "PAID" /\ p \in items[o]

\* One payment pays for one order, also when two notifications of it for
\* different orders pass paymentIdExists together.
PaymentUsedOnce ==
  \A o1, o2 \in Orders : payment[o1] = payment[o2] /\ payment[o1] # NULL => o1 = o2

\* The webhook is idempotent: once paid, an order keeps its payment and its
\* items, and no campaign of it is started again or given back its days.
PaidOrderFrozen ==
  [][\A o \in Orders : status[o] = "PAID" =>
       /\ status'[o] = "PAID" /\ payment'[o] = payment[o] /\ items'[o] = items[o]
       /\ \A p \in items[o] :
            /\ campaign[o][p] = "live" => campaign'[o][p] \in {"live", "ended"}
            /\ campaign[o][p] = "ended" => campaign'[o][p] = "ended"]_vars

\* "A stable lock order prevents deadlocks": among any checkouts, one does not
\* wait for a product that another of them holds.
NoCheckoutDeadlock ==
  \A group \in (SUBSET Checkouts) \ {{}} :
    \E c \in group : \A d \in group : ~WaitsFor(c, d)

\* A pending boost keeps every later basket off its product, but for the
\* products a basket locks after its first: those are checked in the view that
\* the first check took.
LaterBasketsAvoidPending ==
  \A o1, o2 \in 1..lastOrder :
    /\ o1 < o2
    /\ status[o1] = "PENDING_PAYMENT" /\ ~expired[o1]
    => \A p \in items[o1] \cap items[o2] : \E q \in items[o2] : q < p

Ledger == INSTANCE BoostLedger WITH
  boosts <- {b \in Orders \X Products : campaign[b[1]][b[2]] \in {"scheduled", "live"}}

\* Checkouts and webhooks, statement by statement, overlapping, rolled back and
\* repeated, do together what a ledger does that places an order, and takes a
\* payment for all of it, in a single step each (createOrder, processPayment).
ImplementsLedger == Ledger!Spec

\* "This product already has a pending or active boost" is what createOrder
\* answers to the second boost of a product.
OneBoostPerProduct ==
  \A p \in Products :
    Cardinality({o \in Orders : /\ p \in items[o]
                                /\ \/ status[o] = "PENDING_PAYMENT" /\ ~expired[o]
                                   \/ status[o] = "PAID" /\ campaign[o][p] = "live"}) <= 1
=============================================================================
