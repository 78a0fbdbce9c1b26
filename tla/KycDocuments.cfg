SPECIFICATION Spec
CONSTANTS
  Requests = {r1, r2}
  NULL = NULL
  Sellers = {s1, s2}
  Pans = {p1}
  Gsts = {g1}
  Aadhaars = {a1}
  MaxRequests = 6
SYMMETRY MCSymmetry
INVARIANT SoleOwner
INVARIANT ListAgrees
INVARIANT ListingEarned
CHECK_DEADLOCK FALSE
