SPECIFICATION Spec
CONSTANTS
  Categories = {1, 2, 3}
  Products = {prod}
  Requests = {r1, r2}
  MaxHops = 4
  MaxRequests = 3
  NULL = NULL
  Unset = Unset
SYMMETRY MCSymmetry
INVARIANT ApprovedIsReviewed
INVARIANT NoCycle
INVARIANT TreeShowsAll
INVARIANT NoProductInRemoved
CHECK_DEADLOCK FALSE
