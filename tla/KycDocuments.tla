---------------------------- MODULE KycDocuments ----------------------------
(***************************************************************************)
(* SellerKycService over the documents of several sellers, and what the    *)
(* admin list and the catalogue make of them. The steps of one seller's    *)
(* onboarding are those of SellerOnboarding: here his agreement is signed, *)
(* the bank details and the signature are one step, and corrections are of *)
(* documents and of the profile. The idempotency interceptor in front only *)
(* ever refuses a request, and is left out.                                *)
(***************************************************************************)
EXTENDS Naturals, Sequences, FiniteSets, SequencesExt, RequestSlots

CONSTANTS
  Sellers,
  Pans, Gsts, Aadhaars,   \* the documents there are
  MaxRequests             \* bound: requests begun, or lost

Documents == Pans \cup Gsts \cup Aadhaars

ASSUME KycAssumption ==
  /\ Pans \cap Gsts = {} /\ Pans \cap Aadhaars = {} /\ Gsts \cap Aadhaars = {}
  /\ NULL \notin Documents \cup {"APPROVED", "REJECTED"}
  /\ MaxRequests \in Nat

VARIABLES
  business,    \* store_information.business_type of each seller
  status,      \* store_information.onboarding_status
  issues,      \* sections with an OPEN seller_review_issues row
  override,    \* seller_kyc_overrides.status
  rows,        \* kyc_verifications by seller and type: the documents, in order of id
  otps,        \* Aadhaar numbers with an OTP_SENT log younger than ten minutes
  product,     \* a product of each seller
  request,     \* what each request does next
  begun,       \* history: requests begun, or lost
  contested,   \* history: documents two sellers were verifying together
  endorsed     \* history: sellers a Super Admin approved once

vars == <<business, status, issues, override, rows, otps, product, request, begun,
          contested, endorsed>>

store == <<business, status, issues, override>>
history == <<contested, endorsed>>

KycType == {"PAN", "GST", "AADHAAR"}
Section == KycType \cup {"PROFILE"}
BusinessType == {"INDIVIDUAL", "COMPANY"}

OnboardingStatus ==
  {"KYC_PENDING", "BANK_DETAILS_PENDING", "PENDING_APPROVAL", "APPROVED", "REJECTED"}

\* A seller's rows: of each type the documents, in the order of their ids.
KycVerifications == [KycType -> Seq(Documents)]

\* The numbers his live OTP logs are for.
OtpLogs == SUBSET Aadhaars

\* The decision on a seller, if there is one: the newest, as seller_id is unique.
SellerKycOverride == {"APPROVED", "REJECTED", NULL}

TypeOf(doc) ==
  CASE doc \in Pans -> "PAN" [] doc \in Gsts -> "GST" [] doc \in Aadhaars -> "AADHAAR"

Step ==
  {"Idle", "AskPan", "MatchName", "AskGst", "ExpireBefore", "SendOtp", "AskOtp", "Find",
   "Save", "Mark", "IsOpen", "Resolve", "ExpireAfter", "ReviewKyc", "Decide", "Insert"}

\* doc is the document of a verification; found the row to save into, if any;
\* wants what else the request carries: issues of a review, a business type.
Request ==
  [at : Step, seller : Sellers \cup {NULL}, doc : Documents \cup {NULL}, found : Nat,
   issues : SUBSET Section, business : BusinessType]

Idle == [at |-> "Idle", seller |-> NULL, doc |-> NULL, found |-> 0, issues |-> {},
         business |-> "COMPANY"]

Init ==
  /\ business \in [Sellers -> BusinessType]
  /\ status = [s \in Sellers |-> "KYC_PENDING"]
  /\ issues = [s \in Sellers |-> {}]
  /\ override = [s \in Sellers |-> NULL]
  /\ rows = [s \in Sellers |-> [type \in KycType |-> <<>>]]
  /\ otps = [s \in Sellers |-> {}]
  /\ product = [s \in Sellers |-> "NONE"]
  /\ request = [r \in Requests |-> Idle]
  /\ begun = 0
  /\ contested = {} /\ endorsed = {}

-----------------------------------------------------------------------------
(* What is read of the rows *)

\* findAllByUserId: every row the code writes is VERIFIED.
Verified(s) == {type \in KycType : rows[s][type] # <<>>}

Holds(s, doc) == doc \in ToSet(rows[s][TypeOf(doc)])

RequiredKyc(s) == IF business[s] = "INDIVIDUAL" THEN {"PAN", "AADHAAR"} ELSE KycType

\* Mutant: the documents alone decide.
KycApprovedByDocuments(s) == RequiredKyc(s) \subseteq Verified(s)

\* isSellerKycApproved: the decision and the onboarding say the same.
KycApproved(s) == override[s] = "APPROVED" /\ status[s] = "APPROVED"

\* Mutant: the decision alone is looked at, and it outlives a resubmission.
ProfileStatusByOverride(s) ==
  CASE override[s] = "APPROVED" -> "APPROVED"
    [] override[s] = "REJECTED" -> "REJECTED"
    [] override[s] = NULL /\ RequiredKyc(s) \subseteq Verified(s)
         /\ status[s] = "PENDING_APPROVAL" -> "USER_PROFILE_APPROVAL"
    [] OTHER -> IF Verified(s) = {} THEN "NOT_STARTED" ELSE "PENDING"

\* getProfile: what the seller, and the admin on his page, are told.
ProfileStatus(s) ==
  CASE KycApproved(s) -> "APPROVED"
    [] override[s] = "REJECTED" /\ status[s] = "REJECTED" -> "REJECTED"
    [] RequiredKyc(s) \subseteq Verified(s) /\ status[s] = "PENDING_APPROVAL"
         -> "USER_PROFILE_APPROVAL"
    [] OTHER -> IF Verified(s) = {} THEN "NOT_STARTED" ELSE "PENDING"

\* findSellersByDerivedStatus: the CASE of the query behind the admin list,
\* which counts types and asks for as many as the business type needs.
DerivedStatus(s) ==
  LET verifiedCount == Cardinality(Verified(s)) IN
  CASE status[s] = "APPROVED" /\ override[s] = "APPROVED" -> "APPROVED"
    [] status[s] = "REJECTED" /\ override[s] = "REJECTED" -> "REJECTED"
    [] status[s] = "PENDING_APPROVAL"
         /\ verifiedCount >= (IF business[s] = "INDIVIDUAL" THEN 2 ELSE 3)
         -> "USER_PROFILE_APPROVAL"
    [] OTHER -> IF verifiedCount = 0 THEN "NOT_STARTED" ELSE "PENDING"

\* applyVisibilityRules: an approved product, and all three types whatever the
\* business type. The decision on the seller is not looked at.
Listed(s) == product[s] = "APPROVED" /\ Cardinality(Verified(s)) = 3

\* getSellerProfile: the page of a seller in the catalogue.
SellerShown(s) == KycApproved(s)

\* SellerWriteAccessService, which asks for both states in one query.
IsApproved(s) == status[s] = "APPROVED" /\ override[s] = "APPROVED"

\* The interceptor in front of every POST of a seller that is not exempt: one
\* who is an administrator of the platform as well passes.
MayWrite(s, admin) == admin \/ IsApproved(s)

-----------------------------------------------------------------------------
(* Requests *)

Start(r, next) ==
  /\ request[r] = Idle
  /\ begun < MaxRequests
  /\ begun' = begun + 1
  /\ request' = [request EXCEPT ![r] = next]

At(r, step) == request[r].at = step
Goto(r, step) == request' = [request EXCEPT ![r].at = step]
Return(r) == request' = [request EXCEPT ![r] = Idle]

\* Another seller is past his own check for the document, or holds an OTP for it.
UnderWay(s, doc) ==
  \/ \E r \in Requests : request[r].doc = doc /\ request[r].seller # s
  \/ \E other \in Sellers \ {s} : doc \in otps[other]

\* Mutant: the owner of a document is not looked for.
InUseNever(s, doc) == FALSE

\* findByDocumentNumberAndType finds a row of somebody else.
InUse(s, doc) == \E other \in Sellers \ {s} : Holds(other, doc)

\* assertKycOrCorrectionStep; a type verified before only as a correction.
MayVerify(s, type) ==
  \/ status[s] = "KYC_PENDING" /\ type \notin Verified(s)
  \/ status[s] = "REJECTED" /\ type \in issues[s]

\* What the three verifications check before they ask a provider.
BeginVerify(r, s, doc, step) ==
  /\ MayVerify(s, TypeOf(doc))
  /\ ~InUse(s, doc)
  /\ contested' = IF UnderWay(s, doc) THEN contested \cup {doc} ELSE contested
  /\ Start(r, [Idle EXCEPT !.at = step, !.seller = s, !.doc = doc])
  /\ UNCHANGED <<store, rows, otps, product, endorsed>>

-----------------------------------------------------------------------------
(* Providers *)

\* The response row is saved, the provider called, the row updated, and a log
\* written. A failure of any is an answer of no, or an error of the request.
Answers(r, step, next) ==
  /\ At(r, step)
  /\ Goto(r, next) \/ Return(r)
  /\ UNCHANGED <<store, rows, otps, product, begun, history>>

\* verifyPan: the number is good and linked with an Aadhaar, and then the name
\* on it matches the user's.
BeginVerifyPan(r) == \E s \in Sellers, pan \in Pans : BeginVerify(r, s, pan, "AskPan")
AskPan(r) == Answers(r, "AskPan", "MatchName")
MatchName(r) == Answers(r, "MatchName", "Find")

BeginVerifyGst(r) == \E s \in Sellers, gst \in Gsts : BeginVerify(r, s, gst, "AskGst")
AskGst(r) == Answers(r, "AskGst", "Find")

\* generateAadhaarOtp: earlier OTPs expire, then the provider sends one.
BeginGenerateOtp(r) ==
  \E s \in Sellers, aadhaar \in Aadhaars : BeginVerify(r, s, aadhaar, "ExpireBefore")

\* expireAllPendingOtpLogs, also the last step of verifyAadhaarOtp.
ExpireOtps(r) ==
  /\ At(r, "ExpireBefore") \/ At(r, "ExpireAfter")
  /\ otps' = [otps EXCEPT ![request[r].seller] = {}]
  /\ IF At(r, "ExpireBefore") THEN Goto(r, "SendOtp") ELSE Return(r)
  /\ UNCHANGED <<store, rows, product, begun, history>>

SendOtp(r) ==
  /\ At(r, "SendOtp")
  /\ \/ otps' = [otps EXCEPT ![request[r].seller] = @ \cup {request[r].doc}]
     \/ UNCHANGED otps
  /\ Return(r)
  /\ UNCHANGED <<store, rows, product, begun, history>>

OtpLapses(s) ==
  \E aadhaar \in otps[s] :
    /\ otps' = [otps EXCEPT ![s] = @ \ {aadhaar}]
    /\ UNCHANGED <<store, rows, product, request, begun, history>>

\* verifyAadhaarOtp: the log names the number. Neither the onboarding step nor
\* the owner of the number is looked at again.
BeginVerifyAadhaarOtp(r) ==
  \E s \in Sellers : \E aadhaar \in otps[s] :
    /\ Start(r, [Idle EXCEPT !.at = "AskOtp", !.seller = s, !.doc = aadhaar])
    /\ UNCHANGED <<store, rows, otps, product, history>>

AskOtp(r) == Answers(r, "AskOtp", "Find")

-----------------------------------------------------------------------------
(* upsertVerifiedKyc: look for a row of the seller and type, then save *)

RowsOf(r) == rows[request[r].seller][TypeOf(request[r].doc)]

\* Of several rows the query may return any.
FindRow(r) ==
  /\ At(r, "Find")
  /\ \E found \in IF RowsOf(r) = <<>> THEN {0} ELSE DOMAIN RowsOf(r) :
       request' = [request EXCEPT ![r].at = "Save", ![r].found = found]
  /\ UNCHANGED <<store, rows, otps, product, begun, history>>

\* No key forbids a second row of the type, nor a document of two sellers.
SaveRow(r) ==
  LET q == request[r]
      saved == IF q.found = 0 THEN Append(RowsOf(r), q.doc)
                              ELSE [RowsOf(r) EXCEPT ![q.found] = q.doc]
  IN  /\ rows' = [rows EXCEPT ![q.seller][TypeOf(q.doc)] = saved]
      /\ Goto(r, "Mark")

Saves(r, documents) ==
  /\ At(r, "Save")
  /\ request[r].doc \in documents
  /\ UNCHANGED <<store, otps, product, begun, history>>

SavePan(r) == Saves(r, Pans) /\ SaveRow(r)

SaveGst(r) == Saves(r, Gsts) /\ SaveRow(r)

\* Only a reference used twice is refused: two answers to the same OTP.
SaveAadhaar(r) ==
  LET q == request[r] IN
  /\ Saves(r, Aadhaars)
  /\ \/ SaveRow(r)
     \/ q.found = 0 /\ Holds(q.seller, q.doc) /\ Return(r) /\ UNCHANGED rows

-----------------------------------------------------------------------------
(* The seller's onboarding *)

\* markKycCompleteIfEligible. While the status is KYC_PENDING the types only
\* grow and the business type stays: reading them and the conditional UPDATE
\* are one step.
Mark(r) ==
  LET s == request[r].seller IN
  /\ At(r, "Mark")
  /\ status' = IF status[s] = "KYC_PENDING" /\ RequiredKyc(s) \subseteq Verified(s)
                 THEN [status EXCEPT ![s] = "BANK_DETAILS_PENDING"] ELSE status
  /\ Goto(r, "IsOpen")
  /\ UNCHANGED <<business, issues, override, rows, otps, product, begun, history>>

\* What is left of a verification: that of an OTP expires the others.
Leave(r) == IF request[r].doc \in Aadhaars THEN Goto(r, "ExpireAfter") ELSE Return(r)

\* completeKycCorrection: is the section open, and then the transaction.
IsOpen(r) ==
  /\ At(r, "IsOpen")
  /\ IF TypeOf(request[r].doc) \in issues[request[r].seller] THEN Goto(r, "Resolve") ELSE Leave(r)
  /\ UNCHANGED <<store, rows, otps, product, begun, history>>

BeginCorrectProfile(r) ==
  \E s \in Sellers, type \in BusinessType :
    /\ status[s] = "REJECTED" /\ "PROFILE" \in issues[s]
    /\ Start(r, [Idle EXCEPT !.at = "Resolve", !.seller = s, !.business = type])
    /\ UNCHANGED <<store, rows, otps, product, history>>

\* resolveReviewIssue: after the last correction the seller waits for review,
\* whatever his status has become.
Resolve(r) ==
  LET q == request[r]
      s == q.seller
      section == IF q.doc = NULL THEN "PROFILE" ELSE TypeOf(q.doc)
  IN  /\ At(r, "Resolve")
      /\ issues' = [issues EXCEPT ![s] = @ \ {section}]
      /\ status' = IF issues[s] \subseteq {section}
                     THEN [status EXCEPT ![s] = "PENDING_APPROVAL"] ELSE status
      /\ business' = IF q.doc = NULL THEN [business EXCEPT ![s] = q.business] ELSE business
      /\ Leave(r)
      /\ UNCHANGED <<override, rows, otps, product, begun, history>>

\* saveBankDetails, which marks the documents complete if nobody has, and then
\* completeEsign.
SubmitForReview(s) ==
  /\ \/ status[s] = "BANK_DETAILS_PENDING"
     \/ status[s] = "KYC_PENDING" /\ RequiredKyc(s) \subseteq Verified(s)
  /\ status' = [status EXCEPT ![s] = "PENDING_APPROVAL"]
  /\ UNCHANGED <<business, issues, override, rows, otps, product, request, begun, history>>

-----------------------------------------------------------------------------
(* review: no issues approve, and any reject *)

BeginReview(r) ==
  \E s \in Sellers, rejected \in SUBSET Section :
    /\ status[s] = "PENDING_APPROVAL"
    /\ Start(r, [Idle EXCEPT !.at = IF rejected = {} THEN "ReviewKyc" ELSE "Decide",
                             !.seller = s, !.issues = rejected])
    /\ UNCHANGED <<store, rows, otps, product, history>>

ReviewKyc(r) ==
  /\ At(r, "ReviewKyc")
  /\ IF RequiredKyc(request[r].seller) \subseteq Verified(request[r].seller)
       THEN Goto(r, "Decide") ELSE Return(r)
  /\ UNCHANGED <<store, rows, otps, product, begun, history>>

Decide(r) ==
  LET s == request[r].seller
      decision == IF request[r].issues = {} THEN "APPROVED" ELSE "REJECTED"
  IN  /\ At(r, "Decide")
      /\ IF status[s] = "PENDING_APPROVAL"
           THEN /\ status' = [status EXCEPT ![s] = decision]
                /\ override' = [override EXCEPT ![s] = decision]
                /\ issues' = [issues EXCEPT ![s] = @ \cup request[r].issues]
                /\ endorsed' = IF decision = "APPROVED" THEN endorsed \cup {s} ELSE endorsed
           ELSE UNCHANGED <<status, override, issues, endorsed>>
      /\ Return(r)
      /\ UNCHANGED <<business, rows, otps, product, begun, contested>>

-----------------------------------------------------------------------------
(* Products, as far as the catalogue goes *)

\* The interceptor and ProductsService.create ask for the approval; the row
\* is inserted later.
BeginCreateProduct(r) ==
  \E s \in Sellers, admin \in BOOLEAN :
    /\ product[s] = "NONE"
    /\ MayWrite(s, admin) /\ KycApproved(s)
    /\ Start(r, [Idle EXCEPT !.at = "Insert", !.seller = s])
    /\ UNCHANGED <<store, rows, otps, product, history>>

InsertProduct(r) ==
  /\ At(r, "Insert")
  /\ product' = [product EXCEPT ![request[r].seller] = IF @ = "NONE" THEN "PENDING" ELSE @]
  /\ Return(r)
  /\ UNCHANGED <<store, rows, otps, begun, history>>

\* A Super Admin approves the product; the seller is not looked at.
ApproveProduct(s) ==
  /\ product[s] = "PENDING"
  /\ product' = [product EXCEPT ![s] = "APPROVED"]
  /\ UNCHANGED <<store, rows, otps, request, begun, history>>

-----------------------------------------------------------------------------

\* A query or a commit fails, or the process dies.
Abandon(r) ==
  /\ request[r] # Idle
  /\ begun < MaxRequests
  /\ begun' = begun + 1
  /\ Return(r)
  /\ UNCHANGED <<store, rows, otps, product, history>>

Receive(r) ==
  \/ BeginVerifyPan(r) \/ BeginVerifyGst(r) \/ BeginGenerateOtp(r) \/ BeginVerifyAadhaarOtp(r)
  \/ BeginCorrectProfile(r) \/ BeginReview(r) \/ BeginCreateProduct(r)

Serve(r) ==
  \/ AskPan(r) \/ MatchName(r) \/ AskGst(r) \/ ExpireOtps(r) \/ SendOtp(r) \/ AskOtp(r)
  \/ FindRow(r) \/ SavePan(r) \/ SaveGst(r) \/ SaveAadhaar(r) \/ Mark(r) \/ IsOpen(r) \/ Resolve(r)
  \/ ReviewKyc(r) \/ Decide(r) \/ InsertProduct(r) \/ Abandon(r)

Next ==
  \/ \E r \in Requests : Receive(r) \/ Serve(r)
  \/ \E s \in Sellers : OtpLapses(s) \/ SubmitForReview(s) \/ ApproveProduct(s)

Spec == Init /\ [][Next]_vars

-----------------------------------------------------------------------------
(* Properties *)

TypeOK ==
  /\ business \in [Sellers -> BusinessType]
  /\ status \in [Sellers -> OnboardingStatus]
  /\ issues \in [Sellers -> SUBSET Section]
  /\ override \in [Sellers -> SellerKycOverride]
  /\ rows \in [Sellers -> KycVerifications]
  /\ otps \in [Sellers -> OtpLogs]
  /\ product \in [Sellers -> {"NONE", "PENDING", "APPROVED"}]
  /\ request \in [Requests -> Request]
  /\ begun \in 0..MaxRequests
  /\ contested \subseteq Documents /\ endorsed \subseteq Sellers

\* A document is verified for two sellers only if they were at it together:
\* one past the check for another owner while the other was between his check
\* and his row, or held an OTP (verifyPan, verifyGst, generateAadhaarOtp; the
\* table has no key that would settle it).
SoleOwner ==
  \A doc \in Documents \ contested :
    \A s, other \in Sellers : Holds(s, doc) /\ Holds(other, doc) => s = other

\* The status in the admin list, computed by a query that counts, is the one
\* on the seller's page, computed from the rows (findSellersByDerivedStatus
\* and getProfile), whatever was rejected, corrected or raced before.
ListAgrees == \A s \in Sellers : DerivedStatus(s) = ProfileStatus(s)

\* The catalogue shows no product, nor a page, of a seller whom no Super Admin
\* ever approved, although for a product it looks at documents alone
\* (applyVisibilityRules, getSellerProfile).
ListingEarned == \A s \in Sellers : Listed(s) \/ SellerShown(s) => s \in endorsed
=============================================================================
