------------------------- MODULE OnboardingWorkflow -------------------------
(***************************************************************************)
(* What the seller workflow promises, with the requests, the database rows *)
(* and the races of SellerOnboarding left out: the order of the steps that *)
(* GET /sellers/onboarding/requirements publishes, and the review loop     *)
(* that follows the last of them.                                          *)
(***************************************************************************)
CONSTANT ReviewSections   \* the sections a reviewer can ask to be corrected

VARIABLES
  status,   \* the step the seller is at
  issues    \* the sections the seller still has to correct

vars == <<status, issues>>

\* The published sequence, from the first step to the queue for approval.
StepAfter ==
  [AGREEMENT_PENDING    |-> "KYC_PENDING",
   KYC_PENDING          |-> "BANK_DETAILS_PENDING",
   BANK_DETAILS_PENDING |-> "ESIGN_PENDING",
   ESIGN_PENDING        |-> "PENDING_APPROVAL"]

Init ==
  /\ status = "AGREEMENT_PENDING"
  /\ issues = {}

\* A step is completed: no step is skipped and none is done twice.
CompleteStep ==
  /\ status \in DOMAIN StepAfter
  /\ status' = StepAfter[status]
  /\ UNCHANGED issues

Approve ==
  /\ status = "PENDING_APPROVAL"
  /\ issues = {}
  /\ status' = "APPROVED"
  /\ UNCHANGED issues

Reject ==
  /\ status = "PENDING_APPROVAL"
  /\ issues = {}
  /\ status' = "REJECTED"
  /\ issues' \in (SUBSET ReviewSections) \ {{}}

\* One section is corrected; the last one puts the seller back in the queue.
Correct ==
  /\ status = "REJECTED"
  /\ \E s \in issues : issues' = issues \ {s}
  /\ status' = IF issues' = {} THEN "PENDING_APPROVAL" ELSE "REJECTED"

\* A correction that lands after the approval sends the seller back to review.
Reopen ==
  /\ status = "APPROVED"
  /\ issues = {}
  /\ status' = "PENDING_APPROVAL"
  /\ UNCHANGED issues

Next == CompleteStep \/ Approve \/ Reject \/ Correct \/ Reopen

Spec == Init /\ [][Next]_vars
=============================================================================
