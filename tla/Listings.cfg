SPECIFICATION ListingSpec
CONSTANTS
  Requests = {r1, r2}
  NULL = NULL
  p1 = p1
  p2 = p2
  Products = {p1, p2}
  Skus = {sku1}
  Mrps = {10046}
  Discounts = {5004}
  MaxAudits <- MCMaxAudits
  Unset = Unset
  Uploads = {u1}
  MediaCalls = {c1, c2, c3}
  PartCount = 2
  MaxCalls = 7
SYMMETRY MCSymmetry
INVARIANT PublishedWasApproved
INVARIANT PublishedIsReviewed
INVARIANT PriceInSync
INVARIANT AuditTrailComplete
INVARIANT ImagesShowVariants
INVARIANT FinishedIsStored
INVARIANT OpenUploadHasSession
CHECK_DEADLOCK FALSE
