SPECIFICATION Spec
CONSTANTS
  Requests = {r1, r2}
  MaxAttempts = 2
  MaxSends = 2
  MaxRequests = 5
  MaxSeconds = 2
SYMMETRY MCSymmetry
INVARIANT ResetEndsSessions
CHECK_DEADLOCK FALSE
