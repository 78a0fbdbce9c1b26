SPECIFICATION Spec
CONSTANTS
  Products = {1, 2}
  MaxOrders = 2
  Checkouts = {c1, c2}
  Webhooks = {}
  Payments = {}
  NULL = NULL
INVARIANT OneBoostPerProduct
