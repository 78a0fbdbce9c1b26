SPECIFICATION Spec
CONSTANTS
  Requests = {r1, r2}
  BusinessTypes = {individual, company}
  INDIVIDUAL = individual
  Payloads = {d1}
  ReviewSections = {"PROFILE"}
  NULL = NULL
  MaxReviews = 1
  MaxAbandoned = 0
SYMMETRY RequestSymmetry
INVARIANT ApprovedHasRequiredKyc
