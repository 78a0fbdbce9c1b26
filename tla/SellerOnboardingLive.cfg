SPECIFICATION FairSpec
CONSTANTS
  Requests = {r1, r2}
  BusinessTypes = {individual}
  INDIVIDUAL = individual
  Payloads = {d1}
  ReviewSections = {"BANK_DETAILS", "ESIGN"}
  NULL = NULL
  MaxReviews = 1
  MaxAbandoned = 1
PROPERTY SellerReachesReview
PROPERTY RejectedIsResubmitted
