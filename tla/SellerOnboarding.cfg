SPECIFICATION Spec
CONSTANTS
  Requests = {r1, r2}
  BusinessTypes = {individual, company}
  INDIVIDUAL = individual
  Payloads = {d1, d2}
  ReviewSections = {"PROFILE", "PAN", "BANK_DETAILS"}
  NULL = NULL
  MaxReviews = 2
  MaxAbandoned = 1
SYMMETRY RequestSymmetry
INVARIANT TypeOK
INVARIANT RejectedIffOpen
INVARIANT DecisionAgrees
INVARIANT SubmittedIsComplete
INVARIANT AuditEndsInStatus
INVARIANT InFlightIsJustified
PROPERTY ApprovedDetailsFrozen
PROPERTY ImplementsWorkflow
