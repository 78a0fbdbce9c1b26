SPECIFICATION Spec
CONSTANTS
  Products = {1, 2}
  MaxOrders = 2
  Checkouts = {c1, c2}
  Webhooks = {w1, w2}
  Payments = {pay1, pay2}
  NULL = NULL
SYMMETRY SlotSymmetry
INVARIANT TypeOK
INVARIANT PaidOrdersBoosted
INVARIANT PaymentUsedOnce
INVARIANT NoCheckoutDeadlock
INVARIANT LaterBasketsAvoidPending
PROPERTY PaidOrderFrozen

PROPERTY ImplementsLedger
