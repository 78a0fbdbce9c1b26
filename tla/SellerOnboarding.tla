-------------------------- MODULE SellerOnboarding --------------------------
(***************************************************************************)
(* The onboarding of one seller: SellersService and SellerKycService over  *)
(* the store_information row, the verified documents, the review issues    *)
(* and the approval override.                                              *)
(*                                                                         *)
(* Requests are served concurrently. A handler is split where it awaits    *)
(* the database or a provider: req[r] is what request r does next, with    *)
(* the value it carries there. Reads outside a transaction are steps of    *)
(* their own, and so is each UPDATE. A callback of TransactionService is   *)
(* one step: its row locks make it atomic, and a rollback is an Abandon.   *)
(***************************************************************************)
EXTENDS Naturals, FiniteSets

CONSTANTS
  Requests,        \* slots for requests in flight, of the seller and of admins
  BusinessTypes,   \* business types a profile may state
  INDIVIDUAL,      \* the one that needs no GST
  Payloads,        \* bank details and signatures, told apart by identity
  ReviewSections,  \* sections a reviewer may reject
  NULL,
  MaxReviews,      \* bound: a rejection is started in the first MaxReviews cycles
  MaxAbandoned     \* bound: requests lost half-way

KycTypes == {"PAN", "AADHAAR", "GST"}

SellerReviewSection == KycTypes \cup {"PROFILE", "BANK_DETAILS", "ESIGN"}

SellerOnboardingStatus ==
  {"AGREEMENT_PENDING", "KYC_PENDING", "BANK_DETAILS_PENDING", "ESIGN_PENDING",
   "PENDING_APPROVAL", "APPROVED", "REJECTED"}

SellerKycStatus == {"APPROVED", "REJECTED"}

ReviewPhase == {"PENDING_APPROVAL", "APPROVED", "REJECTED"}

ASSUME ConstantsAssumption ==
  /\ INDIVIDUAL \in BusinessTypes
  /\ NULL \notin BusinessTypes \cup Payloads \cup KycTypes \cup SellerKycStatus
  /\ ReviewSections \subseteq SellerReviewSection
  /\ MaxReviews \in Nat
  /\ MaxAbandoned \in Nat

VARIABLES
  hasRole,      \* the seller_admin row of user_roles
  hasStore,     \* the store_information row exists (unique per seller)
  store,        \* that row
  verified,     \* types with a VERIFIED kyc_verifications row
  otpIssued,    \* an OTP_SENT log younger than ten minutes
  openIssues,   \* sections with an OPEN seller_review_issues row
  reviewCycle,  \* highest review_cycle of the seller's issues
  override,     \* status of the seller_kyc_overrides row
  audit,        \* newest row of seller_onboarding_audits
  req,          \* what each request does next
  abandoned     \* requests lost so far

vars == <<hasRole, hasStore, store, verified, otpIssued, openIssues,
          reviewCycle, override, audit, req, abandoned>>

reviewVars == <<openIssues, reviewCycle, override, audit>>

-----------------------------------------------------------------------------
(* Rows and requests *)

StoreInformation ==
  [businessType : BusinessTypes \cup {NULL},
   bank         : Payloads \cup {NULL},
   signature    : Payloads \cup {NULL},
   status       : SellerOnboardingStatus]

NewStore ==
  [businessType |-> NULL, bank |-> NULL, signature |-> NULL,
   status |-> "AGREEMENT_PENDING"]

SellerOnboardingAudit ==
  [action : {"SELLER_REJECTED", "SELLER_APPROVED",
             "CORRECTION_RESUBMITTED", "CORRECTIONS_RESUBMITTED"},
   from   : SellerOnboardingStatus,
   to     : SellerOnboardingStatus]

NoAudit == [action |-> NULL, from |-> NULL, to |-> NULL]

Step(step, arg) == [step |-> step, arg |-> arg]

Idle == Step("idle", NULL)

PendingSteps ==
  [step : {"idle", "saveStore", "addRole", "acceptAgreement",
           "resetOtp", "sendOtp"}, arg : {NULL}]
    \cup [step : {"fillProfile", "correctProfile"}, arg : BusinessTypes]
    \cup [step : {"bankMark", "bankMarkCas", "bankCheck", "saveBank", "correctBank",
                  "sign", "correctEsign"}, arg : Payloads]
    \cup [step : {"provider", "kycMark", "kycMarkCas", "kycIsOpen", "kycResolve",
                  "expireOtp"}, arg : KycTypes]
    \cup [step : {"reviewKyc", "decide"}, arg : SUBSET ReviewSections]

TypeOK ==
  /\ hasRole \in BOOLEAN
  /\ hasStore \in BOOLEAN
  /\ store \in StoreInformation
  /\ verified \subseteq KycTypes
  /\ otpIssued \in BOOLEAN
  /\ openIssues \subseteq ReviewSections
  /\ reviewCycle \in Nat
  /\ override \in SellerKycStatus \cup {NULL}
  /\ audit \in SellerOnboardingAudit \cup {NoAudit}
  /\ req \in [Requests -> PendingSteps]
  /\ abandoned \in Nat

Init ==
  /\ hasRole = FALSE
  /\ hasStore = FALSE
  /\ store = NewStore
  /\ verified = {}
  /\ otpIssued = FALSE
  /\ openIssues = {}
  /\ reviewCycle = 0
  /\ override = NULL
  /\ audit = NoAudit
  /\ req = [r \in Requests |-> Idle]
  /\ abandoned = 0

-----------------------------------------------------------------------------
(* Helpers *)

\* A free slot takes a request as far as its first write or provider call.
Begin(r, next) ==
  /\ req[r] = Idle
  /\ req' = [req EXCEPT ![r] = next]

\* Request r is about to take the named step.
At(r, step) == req[r].step = step

\* Request r goes on with the value it carries, or returns.
Goto(r, step) == req' = [req EXCEPT ![r] = Step(step, req[r].arg)]
Return(r)     == req' = [req EXCEPT ![r] = Idle]

RequiredKyc(businessType) ==
  IF businessType = INDIVIDUAL THEN {"PAN", "AADHAAR"} ELSE KycTypes

KycComplete == RequiredKyc(store.businessType) \subseteq verified

\* The seller was rejected and this section still has an OPEN issue. The code
\* reads the status and then the issue; as OPEN issues exist only while the
\* status is REJECTED (RejectedIffOpen), the two reads pass exactly when the
\* second one would find both.
Correctable(section) == store.status = "REJECTED" /\ section \in openIssues

\* isSellerKycApproved: both records say so.
KycApproved == override = "APPROVED" /\ store.status = "APPROVED"

rowVars == <<hasRole, hasStore, store, verified, otpIssued, openIssues,
             reviewCycle, override, audit, abandoned>>

\* Mutant: the conditional UPDATE forgets its AND onboarding_status = :expected.
TransitionStatusUnconditionally(expected, next, row) ==
  store' = [row EXCEPT !.status = next]

\* UPDATE ... WHERE onboarding_status = :expected, in one statement; row is
\* the store with the columns the caller also sets.
TransitionStatus(expected, next, row) ==
  store' = IF store.status = expected THEN [row EXCEPT !.status = next] ELSE store

\* Mutant: remaining corrections are counted before the issue is resolved.
ResolveReviewIssueCountingFirst(section, row) ==
  LET next == IF openIssues = {} THEN "PENDING_APPROVAL" ELSE "REJECTED"
  IN  /\ openIssues' = openIssues \ {section}
      /\ store' = IF openIssues = {} THEN [row EXCEPT !.status = next] ELSE row
      /\ audit' = [action |-> IF openIssues = {} THEN "CORRECTIONS_RESUBMITTED"
                                                 ELSE "CORRECTION_RESUBMITTED",
                   from |-> "REJECTED", to |-> next]

\* Mutant: the status is set again whatever is left, and the audit row says so.
ResolveReviewIssueAuditingRejected(section, row) ==
  LET remaining == openIssues \ {section}
  IN  /\ openIssues' = remaining
      /\ store' = IF remaining = {} THEN [row EXCEPT !.status = "PENDING_APPROVAL"] ELSE row
      /\ audit' = [action |-> "CORRECTION_RESUBMITTED", from |-> "REJECTED", to |-> "REJECTED"]

\* Mutant: an UPDATE that resolves no row is taken for "nothing left to do".
ResolveReviewIssueOnlyIfOpen(section, row) ==
  LET remaining == openIssues \ {section}
      next == IF remaining = {} THEN "PENDING_APPROVAL" ELSE "REJECTED"
  IN  /\ openIssues' = remaining
      /\ store' = IF remaining = {} /\ section \in openIssues
                    THEN [row EXCEPT !.status = next] ELSE row
      /\ audit' = [action |-> IF remaining = {} THEN "CORRECTIONS_RESUBMITTED"
                                                ELSE "CORRECTION_RESUBMITTED",
                   from |-> "REJECTED", to |-> next]

\* The transaction of every correction; row is the store with the corrected
\* columns. Neither the UPDATE of the issue nor that of the status looks at
\* what the row holds by now.
ResolveReviewIssue(section, row) ==
  LET remaining == openIssues \ {section}
      next == IF remaining = {} THEN "PENDING_APPROVAL" ELSE "REJECTED"
  IN  /\ openIssues' = remaining
      /\ store' = IF remaining = {} THEN [row EXCEPT !.status = next] ELSE row
      /\ audit' = [action |-> IF remaining = {} THEN "CORRECTIONS_RESUBMITTED"
                                                ELSE "CORRECTION_RESUBMITTED",
                   from |-> "REJECTED", to |-> next]

-----------------------------------------------------------------------------
(* POST /sellers/onboard: the store row, then the role, with no transaction *)

BeginOnboard(r) ==
  /\ ~hasRole
  /\ Begin(r, Step("saveStore", NULL))
  /\ UNCHANGED rowVars

\* The unique key on seller_id fails the request of a seller who has a store.
SaveStore(r) ==
  /\ At(r, "saveStore")
  /\ IF hasStore THEN Return(r) ELSE Goto(r, "addRole")
  /\ hasStore' = TRUE
  /\ UNCHANGED <<hasRole, store, verified, otpIssued, reviewVars, abandoned>>

AddRole(r) ==
  /\ At(r, "addRole")
  /\ hasRole' = TRUE
  /\ Return(r)
  /\ UNCHANGED <<hasStore, store, verified, otpIssued, reviewVars, abandoned>>

-----------------------------------------------------------------------------
(* POST /sellers/profile *)

\* The first profile, or the correction of a rejected one.
BeginCreateProfile(r) ==
  /\ hasStore
  /\ \E businessType \in BusinessTypes :
       \/ /\ store.businessType = NULL
          /\ Begin(r, Step("fillProfile", businessType))
       \/ /\ store.businessType # NULL
          /\ Correctable("PROFILE")
          /\ Begin(r, Step("correctProfile", businessType))
  /\ UNCHANGED rowVars

\* UPDATE ... WHERE business_type IS NULL: of two first profiles one is stored.
FillProfile(r) ==
  /\ At(r, "fillProfile")
  /\ store' = IF store.businessType = NULL
                THEN [store EXCEPT !.businessType = req[r].arg,
                                   !.status = "AGREEMENT_PENDING"]
                ELSE store
  /\ Return(r)
  /\ UNCHANGED <<hasRole, hasStore, verified, otpIssued, reviewVars, abandoned>>

CorrectProfile(r) ==
  /\ At(r, "correctProfile")
  /\ ResolveReviewIssue("PROFILE", [store EXCEPT !.businessType = req[r].arg])
  /\ Return(r)
  /\ UNCHANGED <<hasRole, hasStore, verified, otpIssued, reviewCycle, override, abandoned>>

-----------------------------------------------------------------------------
(* POST /sellers/agreement/accept *)

BeginAcceptAgreement(r) ==
  /\ hasStore
  /\ store.status = "AGREEMENT_PENDING"
  /\ store.businessType # NULL
  /\ Begin(r, Step("acceptAgreement", NULL))
  /\ UNCHANGED rowVars

\* Mutant: a status the enum of the column does not have.
AcceptAgreementUnknownStatus(r) ==
  /\ At(r, "acceptAgreement")
  /\ TransitionStatus("AGREEMENT_PENDING", "AGREEMENT_ACCEPTED", store)
  /\ Return(r)
  /\ UNCHANGED <<hasRole, hasStore, verified, otpIssued, reviewVars, abandoned>>

AcceptAgreement(r) ==
  /\ At(r, "acceptAgreement")
  /\ TransitionStatus("AGREEMENT_PENDING", "KYC_PENDING", store)
  /\ Return(r)
  /\ UNCHANGED <<hasRole, hasStore, verified, otpIssued, reviewVars, abandoned>>

-----------------------------------------------------------------------------
(* markKycCompleteIfEligible, called by saveBankDetails and after each      *)
(* verification: read the status and the documents, then a conditional      *)
(* UPDATE                                                                   *)

\* Mutant: some required document is enough.
MarkReadAnyDocument(r, step, eligible, next) ==
  /\ At(r, step)
  /\ IF store.status = "KYC_PENDING" /\ verified # {} THEN Goto(r, eligible) ELSE Goto(r, next)
  /\ UNCHANGED rowVars

MarkRead(r, step, eligible, next) ==
  /\ At(r, step)
  /\ IF store.status = "KYC_PENDING" /\ KycComplete THEN Goto(r, eligible) ELSE Goto(r, next)
  /\ UNCHANGED rowVars

MarkCas(r, step, next) ==
  /\ At(r, step)
  /\ TransitionStatus("KYC_PENDING", "BANK_DETAILS_PENDING", store)
  /\ Goto(r, next)
  /\ UNCHANGED <<hasRole, hasStore, verified, otpIssued, reviewVars, abandoned>>

-----------------------------------------------------------------------------
(* POST /sellers/bank-details *)

BeginSaveBankDetails(r) ==
  /\ hasStore
  /\ \E bank \in Payloads :
       \/ /\ Correctable("BANK_DETAILS")
          /\ Begin(r, Step("correctBank", bank))
       \/ /\ ~Correctable("BANK_DETAILS")
          /\ Begin(r, Step("bankMark", bank))
  /\ UNCHANGED rowVars

CorrectBank(r) ==
  /\ At(r, "correctBank")
  /\ ResolveReviewIssue("BANK_DETAILS", [store EXCEPT !.bank = req[r].arg])
  /\ Return(r)
  /\ UNCHANGED <<hasRole, hasStore, verified, otpIssued, reviewCycle, override, abandoned>>

\* Mutant: saveBankDetails reads the status without marking it first.
BankMarkReadSkipped(r) ==
  /\ At(r, "bankMark")
  /\ Goto(r, "bankCheck")
  /\ UNCHANGED rowVars

BankMarkRead(r) == MarkRead(r, "bankMark", "bankMarkCas", "bankCheck")
BankMarkCas(r)  == MarkCas(r, "bankMarkCas", "bankCheck")

\* assertKycComplete: the status is read again after the marking.
BankCheck(r) ==
  /\ At(r, "bankCheck")
  /\ IF store.status = "BANK_DETAILS_PENDING" THEN Goto(r, "saveBank") ELSE Return(r)
  /\ UNCHANGED rowVars

SaveBank(r) ==
  /\ At(r, "saveBank")
  /\ TransitionStatus("BANK_DETAILS_PENDING", "ESIGN_PENDING",
                      [store EXCEPT !.bank = req[r].arg])
  /\ Return(r)
  /\ UNCHANGED <<hasRole, hasStore, verified, otpIssued, reviewVars, abandoned>>

-----------------------------------------------------------------------------
(* POST /sellers/esign/complete *)

BeginCompleteEsign(r) ==
  /\ hasStore
  /\ \E signature \in Payloads :
       \/ /\ Correctable("ESIGN")
          /\ Begin(r, Step("correctEsign", signature))
       \/ /\ store.status = "ESIGN_PENDING"
          /\ store.bank # NULL
          /\ Begin(r, Step("sign", signature))
  /\ UNCHANGED rowVars

CorrectEsign(r) ==
  /\ At(r, "correctEsign")
  /\ ResolveReviewIssue("ESIGN", [store EXCEPT !.signature = req[r].arg])
  /\ Return(r)
  /\ UNCHANGED <<hasRole, hasStore, verified, otpIssued, reviewCycle, override, abandoned>>

Sign(r) ==
  /\ At(r, "sign")
  /\ TransitionStatus("ESIGN_PENDING", "PENDING_APPROVAL",
                      [store EXCEPT !.signature = req[r].arg])
  /\ Return(r)
  /\ UNCHANGED <<hasRole, hasStore, verified, otpIssued, reviewVars, abandoned>>

-----------------------------------------------------------------------------
(* POST /sellers/kyc/...: behind the seller_admin role *)

\* assertKycOrCorrectionStep: in the KYC step, or correcting this section. A
\* document already verified may be verified again only as a correction.
MayVerify(type) ==
  \/ store.status = "KYC_PENDING" /\ type \notin verified
  \/ Correctable(type)

\* verifyPan and verifyGst up to the provider call.
BeginVerify(r, type) ==
  /\ hasRole /\ hasStore
  /\ MayVerify(type)
  /\ Begin(r, Step("provider", type))
  /\ UNCHANGED rowVars

BeginVerifyPan(r) == BeginVerify(r, "PAN")
BeginVerifyGst(r) == BeginVerify(r, "GST")

\* generateAadhaarOtp expires the earlier OTPs, then asks the provider.
BeginGenerateOtp(r) ==
  /\ hasRole /\ hasStore
  /\ MayVerify("AADHAAR")
  /\ Begin(r, Step("resetOtp", NULL))
  /\ UNCHANGED rowVars

ResetOtp(r) ==
  /\ At(r, "resetOtp")
  /\ otpIssued' = FALSE
  /\ Goto(r, "sendOtp")
  /\ UNCHANGED <<hasRole, hasStore, store, verified, reviewVars, abandoned>>

SendOtp(r) ==
  /\ At(r, "sendOtp")
  /\ otpIssued' \in {otpIssued, TRUE}
  /\ Return(r)
  /\ UNCHANGED <<hasRole, hasStore, store, verified, reviewVars, abandoned>>

\* verifyAadhaarOtp needs a live OTP, and looks at no onboarding status.
BeginVerifyAadhaarOtp(r) ==
  /\ hasRole
  /\ otpIssued
  /\ Begin(r, Step("provider", "AADHAAR"))
  /\ UNCHANGED rowVars

\* The provider, or the name match, refuses: only a log row is left.
ProviderRefuses(r) ==
  /\ At(r, "provider")
  /\ Return(r)
  /\ UNCHANGED rowVars

\* upsertVerifiedKyc
UpsertVerifiedKyc(r) ==
  /\ At(r, "provider")
  /\ verified' = verified \cup {req[r].arg}
  /\ Goto(r, "kycMark")
  /\ UNCHANGED <<hasRole, hasStore, store, otpIssued, reviewVars, abandoned>>

KycMarkRead(r) == MarkRead(r, "kycMark", "kycMarkCas", "kycIsOpen")
KycMarkCas(r)  == MarkCas(r, "kycMarkCas", "kycIsOpen")

\* What is left of the handler once the correction is done.
FinishVerification(r) ==
  IF req[r].arg = "AADHAAR" THEN Goto(r, "expireOtp") ELSE Return(r)

\* completeKycCorrection: isOpen alone, read outside the transaction.
KycIsOpen(r) ==
  /\ At(r, "kycIsOpen")
  /\ IF req[r].arg \in openIssues THEN Goto(r, "kycResolve") ELSE FinishVerification(r)
  /\ UNCHANGED rowVars

KycResolve(r) ==
  /\ At(r, "kycResolve")
  /\ ResolveReviewIssue(req[r].arg, store)
  /\ FinishVerification(r)
  /\ UNCHANGED <<hasRole, hasStore, verified, otpIssued, reviewCycle, override, abandoned>>

\* expireAllPendingOtpLogs
ExpireOtp(r) ==
  /\ At(r, "expireOtp")
  /\ otpIssued' = FALSE
  /\ Return(r)
  /\ UNCHANGED <<hasRole, hasStore, store, verified, reviewVars, abandoned>>

\* Ten minutes pass.
OtpLapses ==
  /\ otpIssued
  /\ otpIssued' = FALSE
  /\ UNCHANGED <<hasRole, hasStore, store, verified, reviewVars, req, abandoned>>

-----------------------------------------------------------------------------
(* SellerKycService.review, by a Super Admin. The issues the request        *)
(* carries are the rejected sections; an approval carries none.             *)

BeginReview(r) ==
  /\ store.status = "PENDING_APPROVAL"
  /\ \E issues \in SUBSET ReviewSections :
       /\ issues = {} \/ reviewCycle < MaxReviews
       /\ Begin(r, Step(IF issues = {} THEN "reviewKyc" ELSE "decide", issues))
  /\ UNCHANGED rowVars

\* An approval is refused while a required document is pending; what this
\* reads is not read again in the transaction.
ReviewKyc(r) ==
  /\ At(r, "reviewKyc")
  /\ IF KycComplete THEN Goto(r, "decide") ELSE Return(r)
  /\ UNCHANGED rowVars

\* Mutant: an existing override row is left as it is.
InsertOverrideOnly(status) == override' = IF override = NULL THEN status ELSE override

UpsertOverride(status) == override' = status

RejectSeller(r) ==
  /\ UpsertOverride("REJECTED")
  /\ store' = [store EXCEPT !.status = "REJECTED"]
  /\ openIssues' = req[r].arg
  /\ reviewCycle' = reviewCycle + 1
  /\ audit' = [action |-> "SELLER_REJECTED", from |-> "PENDING_APPROVAL", to |-> "REJECTED"]

ApproveSeller ==
  /\ UpsertOverride("APPROVED")
  /\ store' = [store EXCEPT !.status = "APPROVED"]
  /\ audit' = [action |-> "SELLER_APPROVED", from |-> "PENDING_APPROVAL", to |-> "APPROVED"]
  /\ UNCHANGED <<openIssues, reviewCycle>>

\* The transaction: the status is checked again under the row lock.
Decide(r) ==
  /\ At(r, "decide")
  /\ \/ /\ store.status = "PENDING_APPROVAL"
        /\ IF req[r].arg = {} THEN ApproveSeller ELSE RejectSeller(r)
     \/ /\ store.status # "PENDING_APPROVAL"
        /\ UNCHANGED <<store, reviewVars>>
  /\ Return(r)
  /\ UNCHANGED <<hasRole, hasStore, verified, otpIssued, abandoned>>

-----------------------------------------------------------------------------
\* The process dies, the client's connection does, or a transaction is rolled
\* back (InnoDB picks it to break a deadlock): what was written stays written.
Abandon(r) ==
  /\ req[r] # Idle
  /\ abandoned < MaxAbandoned
  /\ abandoned' = abandoned + 1
  /\ Return(r)
  /\ UNCHANGED <<hasRole, hasStore, store, verified, otpIssued, reviewVars>>

\* A new request is read up to its first write or provider call.
Receive(r) ==
  \/ BeginOnboard(r) \/ BeginCreateProfile(r) \/ BeginAcceptAgreement(r)
  \/ BeginSaveBankDetails(r) \/ BeginCompleteEsign(r)
  \/ BeginVerifyPan(r) \/ BeginVerifyGst(r) \/ BeginGenerateOtp(r) \/ BeginVerifyAadhaarOtp(r)
  \/ BeginReview(r)

\* A request in flight takes its next step.
Serve(r) ==
  \/ SaveStore(r) \/ AddRole(r)
  \/ FillProfile(r) \/ CorrectProfile(r)
  \/ AcceptAgreement(r)
  \/ CorrectBank(r) \/ BankMarkRead(r) \/ BankMarkCas(r) \/ BankCheck(r) \/ SaveBank(r)
  \/ CorrectEsign(r) \/ Sign(r)
  \/ ResetOtp(r) \/ SendOtp(r) \/ ProviderRefuses(r) \/ UpsertVerifiedKyc(r) \/ KycMarkRead(r)
  \/ KycMarkCas(r) \/ KycIsOpen(r) \/ KycResolve(r) \/ ExpireOtp(r)
  \/ ReviewKyc(r) \/ Decide(r)

Next ==
  \/ \E r \in Requests : Receive(r) \/ Serve(r) \/ Abandon(r)
  \/ OtpLapses

Spec == Init /\ [][Next]_vars

\* The event loop serves every request it has accepted.
ServerFairness == \A r \in Requests : WF_vars(Serve(r))

\* Assumed of the world: the seller keeps submitting what is asked of him, and
\* the providers do not refuse every document, or fail to send every OTP. What
\* a seller can repeat for ever without getting on (bank details, an OTP) must
\* not stand in for the steps that do get on.
SellerPersists ==
  /\ SF_vars(\E r \in Requests : BeginCreateProfile(r) \/ BeginAcceptAgreement(r)
                                  \/ BeginVerifyPan(r) \/ BeginVerifyGst(r)
                                  \/ BeginCompleteEsign(r))
  /\ SF_vars(\E r \in Requests : BeginSaveBankDetails(r))
  /\ SF_vars(\E r \in Requests : BeginGenerateOtp(r))
  /\ SF_vars(\E r \in Requests : BeginVerifyAadhaarOtp(r))

ProvidersAccept ==
  /\ SF_vars(\E r \in Requests : SendOtp(r) /\ otpIssued')
  /\ SF_vars(\E r \in Requests : UpsertVerifiedKyc(r) /\ req[r].arg = "AADHAAR")
  /\ SF_vars(\E r \in Requests : UpsertVerifiedKyc(r) /\ req[r].arg # "AADHAAR")

FairSpec == Spec /\ ServerFairness /\ SellerPersists /\ ProvidersAccept

-----------------------------------------------------------------------------
(* Properties *)

\* A seller is rejected exactly while a section is open for correction: nobody
\* is left rejected with nothing to correct, which no endpoint would undo, and
\* nobody in the queue, or approved, has an open issue. resolveReviewIssue
\* must hold to this from every state a stale request can run it in.
RejectedIffOpen == store.status = "REJECTED" <=> openIssues # {}

\* The override row and the status, two tables that isSellerKycApproved reads
\* together, never contradict each other, whatever decisions and late
\* corrections interleave: a decided status has the override of that decision,
\* and the override and the audit trail exist only from the first decision on.
DecisionAgrees ==
  /\ store.status \in {"APPROVED", "REJECTED"} => override = store.status
  /\ override # NULL => store.status \in ReviewPhase
  /\ override = NULL <=> audit = NoAudit

\* Nobody reaches a step without what the steps before it collect, even when
\* requests for different steps overlap: until the first decision the status
\* tells which documents, bank details and signature are there, and in the
\* review loop the bank details and the signature are never lost.
SubmittedIsComplete ==
  /\ store.status # "AGREEMENT_PENDING" => store.businessType # NULL
  /\ store.status \in {"BANK_DETAILS_PENDING", "ESIGN_PENDING", "PENDING_APPROVAL"}
       /\ override = NULL => KycComplete
  /\ store.status \in {"ESIGN_PENDING"} \cup ReviewPhase => store.bank # NULL
  /\ store.status \in ReviewPhase => store.signature # NULL

\* What the checks a request has passed still promise when it takes this step.
Justified(step) ==
  /\ step.step \in {"correctProfile", "correctBank", "correctEsign", "kycResolve"}
       => override # NULL
  /\ step.step \in {"bankMarkCas", "kycMarkCas"}
       => /\ store.status # "AGREEMENT_PENDING"
          /\ store.status = "KYC_PENDING" => KycComplete
  /\ step.step = "acceptAgreement" => store.businessType # NULL

\* What a request was let in for outlives its checks: a correction runs only
\* after some decision, a marking that was found due still is while its step is
\* open, and an agreement is of a seller who has a profile. This is what makes
\* the unconditional writes of the corrections, and the conditional one of the
\* marking, safe after everything the other requests did in between.
InFlightIsJustified == \A r \in Requests : Justified(req[r])

\* The newest audit row ends in the seller's status, so that the trail the
\* admin screen shows agrees with the row the gates read: also when a late
\* correction finds another status than the REJECTED it assumes.
AuditEndsInStatus == audit # NoAudit => audit.to = store.status

\* What an approved seller sells under is what was there at the approval: no
\* request, however old, changes the profile, the bank details or the
\* signature while leaving the seller approved.
ApprovedDetailsFrozen ==
  [][store.status = "APPROVED" /\ store'.status = "APPROVED" => store' = store]_vars

\* The status moves only along the published sequence and the review loop.
Workflow == INSTANCE OnboardingWorkflow WITH status <- store.status, issues <- openIssues

ImplementsWorkflow == Workflow!Spec

\* Once the role is granted, requests lost half-way (a verified document whose
\* marking never ran, a profile never followed up) do not keep a persistent
\* seller from the approval queue: every step can be resumed.
SellerReachesReview == hasRole ~> store.status \in ReviewPhase

\* A rejected seller who corrects what is open gets back into the queue, also
\* when corrections overlap, are lost, or are submitted twice.
RejectedIsResubmitted ==
  store.status = "REJECTED" ~> store.status = "PENDING_APPROVAL"

\* The comment on SellerKycService.review: an approval requires every
\* applicable document to be verified. The check runs before the transaction.
ApprovedHasRequiredKyc == KycApproved => KycComplete
=============================================================================
