----------------------- MODULE SellerOnboardingProofs -----------------------
(***************************************************************************)
(* Proofs about SellerOnboarding, for every number of requests in flight,  *)
(* business types, payloads, review sections and review cycles.            *)
(***************************************************************************)
EXTENDS SellerOnboarding, TLAPS

-----------------------------------------------------------------------------
(* Requests and the values they carry *)

\* What the step of a request says of the value it carries.
LEMMA ArgTypes ==
  ASSUME TypeOK, NEW r \in Requests
  PROVE  /\ req[r].step \in {"fillProfile", "correctProfile"} => req[r].arg \in BusinessTypes
         /\ req[r].step \in {"bankMark", "bankMarkCas", "bankCheck", "saveBank", "correctBank",
                             "sign", "correctEsign"} => req[r].arg \in Payloads
         /\ req[r].step \in {"provider", "kycMark", "kycMarkCas", "kycIsOpen", "kycResolve",
                             "expireOtp"} => req[r].arg \in KycTypes
         /\ req[r].step \in {"reviewKyc", "decide"} => req[r].arg \subseteq ReviewSections
         /\ req[r].step \in {"idle", "saveStore", "addRole", "acceptAgreement", "resetOtp",
                             "sendOtp"} => req[r].arg = NULL
<1>1. req[r] \in PendingSteps
  BY DEF TypeOK
<1>. QED  BY <1>1 DEF PendingSteps

LEMMA IdleIsPending == Idle \in PendingSteps
  BY DEF Idle, Step, PendingSteps

\* The three ways a handler leaves its continuation keep req well typed.
LEMMA ReturnType ==
  ASSUME TypeOK, NEW r \in Requests, Return(r)
  PROVE  req' \in [Requests -> PendingSteps]
  BY IdleIsPending DEF TypeOK, Return

LEMMA GotoType ==
  ASSUME TypeOK, NEW r \in Requests, NEW step, Goto(r, step),
         Step(step, req[r].arg) \in PendingSteps
  PROVE  req' \in [Requests -> PendingSteps]
  BY DEF TypeOK, Goto

LEMMA BeginType ==
  ASSUME TypeOK, NEW r \in Requests, NEW next \in PendingSteps, Begin(r, next)
  PROVE  req' \in [Requests -> PendingSteps]
  BY DEF TypeOK, Begin

-----------------------------------------------------------------------------
(* Type correctness *)

LEMMA NewStoreType == NewStore \in StoreInformation
  BY DEF NewStore, StoreInformation, SellerOnboardingStatus

\* A conditional UPDATE that writes a status of the enum keeps the row typed.
LEMMA TransitionType ==
  ASSUME TypeOK, NEW expected, NEW next \in SellerOnboardingStatus,
         NEW row \in StoreInformation, TransitionStatus(expected, next, row)
  PROVE  store' \in StoreInformation
  BY DEF TypeOK, TransitionStatus, StoreInformation

\* The transaction of a correction keeps the three tables it writes typed.
LEMMA ResolveType ==
  ASSUME TypeOK, NEW section, NEW row \in StoreInformation, ResolveReviewIssue(section, row)
  PROVE  /\ store' \in StoreInformation
         /\ openIssues' \subseteq ReviewSections
         /\ audit' \in SellerOnboardingAudit \cup {NoAudit}
<1>1. openIssues' \subseteq ReviewSections
  BY DEF TypeOK, ResolveReviewIssue
<1>2. store' \in StoreInformation
  BY DEF ResolveReviewIssue, StoreInformation, SellerOnboardingStatus
<1>3. audit' \in SellerOnboardingAudit
  BY DEF ResolveReviewIssue, SellerOnboardingAudit, SellerOnboardingStatus
<1>. QED  BY <1>1, <1>2, <1>3

\* Every request a handler lets in is a well typed continuation.
LEMMA ReceiveType ==
  ASSUME TypeOK, NEW r \in Requests, Receive(r)
  PROVE  TypeOK'
<1>. USE DEF rowVars
<1>1. CASE BeginOnboard(r)
  <2>1. Step("saveStore", NULL) \in PendingSteps
    BY DEF Step, PendingSteps
  <2>. QED  BY <1>1, <2>1, BeginType DEF BeginOnboard, TypeOK
<1>2. CASE BeginCreateProfile(r)
  <2>1. PICK businessType \in BusinessTypes :
          \/ Begin(r, Step("fillProfile", businessType))
          \/ Begin(r, Step("correctProfile", businessType))
    BY <1>2 DEF BeginCreateProfile
  <2>2. /\ Step("fillProfile", businessType) \in PendingSteps
        /\ Step("correctProfile", businessType) \in PendingSteps
    BY DEF Step, PendingSteps
  <2>. QED  BY <1>2, <2>1, <2>2, BeginType DEF BeginCreateProfile, TypeOK
<1>3. CASE BeginAcceptAgreement(r)
  <2>1. Step("acceptAgreement", NULL) \in PendingSteps
    BY DEF Step, PendingSteps
  <2>. QED  BY <1>3, <2>1, BeginType DEF BeginAcceptAgreement, TypeOK
<1>4. CASE BeginSaveBankDetails(r)
  <2>1. PICK bank \in Payloads :
          Begin(r, Step("correctBank", bank)) \/ Begin(r, Step("bankMark", bank))
    BY <1>4 DEF BeginSaveBankDetails
  <2>2. Step("correctBank", bank) \in PendingSteps /\ Step("bankMark", bank) \in PendingSteps
    BY DEF Step, PendingSteps
  <2>. QED  BY <1>4, <2>1, <2>2, BeginType DEF BeginSaveBankDetails, TypeOK
<1>5. CASE BeginCompleteEsign(r)
  <2>1. PICK signature \in Payloads :
          Begin(r, Step("correctEsign", signature)) \/ Begin(r, Step("sign", signature))
    BY <1>5 DEF BeginCompleteEsign
  <2>2. /\ Step("correctEsign", signature) \in PendingSteps
        /\ Step("sign", signature) \in PendingSteps
    BY DEF Step, PendingSteps
  <2>. QED  BY <1>5, <2>1, <2>2, BeginType DEF BeginCompleteEsign, TypeOK
<1>6. CASE BeginVerifyPan(r) \/ BeginVerifyGst(r)
  <2>1. PICK type \in {"PAN", "GST"} : BeginVerify(r, type)
    BY <1>6 DEF BeginVerifyPan, BeginVerifyGst
  <2>2. Step("provider", type) \in PendingSteps
    BY DEF Step, PendingSteps, KycTypes
  <2>. QED  BY <2>1, <2>2, BeginType DEF BeginVerify, TypeOK
<1>7. CASE BeginGenerateOtp(r)
  <2>1. Step("resetOtp", NULL) \in PendingSteps
    BY DEF Step, PendingSteps
  <2>. QED  BY <1>7, <2>1, BeginType DEF BeginGenerateOtp, TypeOK
<1>8. CASE BeginVerifyAadhaarOtp(r)
  <2>1. Step("provider", "AADHAAR") \in PendingSteps
    BY DEF Step, PendingSteps, KycTypes
  <2>. QED  BY <1>8, <2>1, BeginType DEF BeginVerifyAadhaarOtp, TypeOK
<1>9. CASE BeginReview(r)
  <2>1. PICK issues \in SUBSET ReviewSections :
          Begin(r, Step(IF issues = {} THEN "reviewKyc" ELSE "decide", issues))
    BY <1>9 DEF BeginReview
  <2>2. Step(IF issues = {} THEN "reviewKyc" ELSE "decide", issues) \in PendingSteps
    BY DEF Step, PendingSteps
  <2>. QED  BY <1>9, <2>1, <2>2, BeginType DEF BeginReview, TypeOK
<1>. QED
  BY <1>1, <1>2, <1>3, <1>4, <1>5, <1>6, <1>7, <1>8, <1>9 DEF Receive

\* Every step of a request in flight keeps the rows and the continuation typed.
LEMMA ServeType ==
  ASSUME TypeOK, NEW r \in Requests, Serve(r)
  PROVE  TypeOK'
<1>. USE DEF rowVars, reviewVars
<1>. SUFFICES /\ req' \in [Requests -> PendingSteps]
              /\ store' \in StoreInformation
              /\ openIssues' \subseteq ReviewSections
              /\ audit' \in SellerOnboardingAudit \cup {NoAudit}
              /\ hasRole' \in BOOLEAN
              /\ hasStore' \in BOOLEAN
              /\ verified' \subseteq KycTypes
              /\ otpIssued' \in BOOLEAN
              /\ reviewCycle' \in Nat
              /\ override' \in SellerKycStatus \cup {NULL}
              /\ abandoned' \in Nat
  BY DEF TypeOK
<1>1. CASE SaveStore(r)
  <2>1. Return(r) \/ Goto(r, "addRole")
    BY <1>1 DEF SaveStore
  <2>2. Step("addRole", req[r].arg) \in PendingSteps
    BY <1>1, ArgTypes DEF SaveStore, At, Step, PendingSteps
  <2>. QED  BY <1>1, <2>1, <2>2, ReturnType, GotoType DEF SaveStore, TypeOK
<1>2. CASE AddRole(r)
  BY <1>2, ReturnType DEF AddRole, TypeOK
<1>3. CASE FillProfile(r)
  <2>1. req[r].arg \in BusinessTypes
    BY <1>3, ArgTypes DEF FillProfile, At
  <2>2. store' \in StoreInformation
    BY <1>3, <2>1 DEF FillProfile, TypeOK, StoreInformation, SellerOnboardingStatus
  <2>. QED  BY <1>3, <2>2, ReturnType DEF FillProfile, TypeOK
<1>4. CASE CorrectProfile(r)
  <2>1. req[r].arg \in BusinessTypes
    BY <1>4, ArgTypes DEF CorrectProfile, At
  <2>2. [store EXCEPT !.businessType = req[r].arg] \in StoreInformation
    BY <2>1 DEF TypeOK, StoreInformation
  <2>. QED  BY <1>4, <2>2, ReturnType, ResolveType DEF CorrectProfile, TypeOK
<1>5. CASE AcceptAgreement(r)
  <2>1. store' \in StoreInformation
    BY <1>5, TransitionType DEF AcceptAgreement, TypeOK, SellerOnboardingStatus
  <2>. QED  BY <1>5, <2>1, ReturnType DEF AcceptAgreement, TypeOK
<1>6. CASE CorrectBank(r)
  <2>1. req[r].arg \in Payloads
    BY <1>6, ArgTypes DEF CorrectBank, At
  <2>2. [store EXCEPT !.bank = req[r].arg] \in StoreInformation
    BY <2>1 DEF TypeOK, StoreInformation
  <2>. QED  BY <1>6, <2>2, ReturnType, ResolveType DEF CorrectBank, TypeOK
<1>7. CASE BankMarkRead(r)
  <2>1. Goto(r, "bankMarkCas") \/ Goto(r, "bankCheck")
    BY <1>7 DEF BankMarkRead, MarkRead
  <2>2. /\ Step("bankMarkCas", req[r].arg) \in PendingSteps
        /\ Step("bankCheck", req[r].arg) \in PendingSteps
    BY <1>7, ArgTypes DEF BankMarkRead, MarkRead, At, Step, PendingSteps
  <2>. QED  BY <1>7, <2>1, <2>2, GotoType DEF BankMarkRead, MarkRead, TypeOK
<1>8. CASE BankMarkCas(r)
  <2>1. store' \in StoreInformation
    BY <1>8, TransitionType DEF BankMarkCas, MarkCas, TypeOK, SellerOnboardingStatus
  <2>2. Step("bankCheck", req[r].arg) \in PendingSteps
    BY <1>8, ArgTypes DEF BankMarkCas, MarkCas, At, Step, PendingSteps
  <2>. QED  BY <1>8, <2>1, <2>2, GotoType DEF BankMarkCas, MarkCas, TypeOK
<1>9. CASE BankCheck(r)
  <2>1. Goto(r, "saveBank") \/ Return(r)
    BY <1>9 DEF BankCheck
  <2>2. Step("saveBank", req[r].arg) \in PendingSteps
    BY <1>9, ArgTypes DEF BankCheck, At, Step, PendingSteps
  <2>. QED  BY <1>9, <2>1, <2>2, GotoType, ReturnType DEF BankCheck, TypeOK
<1>10. CASE SaveBank(r)
  <2>1. req[r].arg \in Payloads
    BY <1>10, ArgTypes DEF SaveBank, At
  <2>2. [store EXCEPT !.bank = req[r].arg] \in StoreInformation
    BY <2>1 DEF TypeOK, StoreInformation
  <2>3. store' \in StoreInformation
    BY <1>10, <2>2, TransitionType DEF SaveBank, SellerOnboardingStatus
  <2>. QED  BY <1>10, <2>3, ReturnType DEF SaveBank, TypeOK
<1>11. CASE CorrectEsign(r)
  <2>1. req[r].arg \in Payloads
    BY <1>11, ArgTypes DEF CorrectEsign, At
  <2>2. [store EXCEPT !.signature = req[r].arg] \in StoreInformation
    BY <2>1 DEF TypeOK, StoreInformation
  <2>. QED  BY <1>11, <2>2, ReturnType, ResolveType DEF CorrectEsign, TypeOK
<1>12. CASE Sign(r)
  <2>1. req[r].arg \in Payloads
    BY <1>12, ArgTypes DEF Sign, At
  <2>2. [store EXCEPT !.signature = req[r].arg] \in StoreInformation
    BY <2>1 DEF TypeOK, StoreInformation
  <2>3. store' \in StoreInformation
    BY <1>12, <2>2, TransitionType DEF Sign, SellerOnboardingStatus
  <2>. QED  BY <1>12, <2>3, ReturnType DEF Sign, TypeOK
<1>13. CASE ResetOtp(r)
  <2>1. Step("sendOtp", req[r].arg) \in PendingSteps
    BY <1>13, ArgTypes DEF ResetOtp, At, Step, PendingSteps
  <2>. QED  BY <1>13, <2>1, GotoType DEF ResetOtp, TypeOK
<1>14. CASE SendOtp(r)
  BY <1>14, ReturnType DEF SendOtp, TypeOK
<1>15. CASE ProviderRefuses(r)
  BY <1>15, ReturnType DEF ProviderRefuses, TypeOK
<1>16. CASE UpsertVerifiedKyc(r)
  <2>1. req[r].arg \in KycTypes
    BY <1>16, ArgTypes DEF UpsertVerifiedKyc, At
  <2>2. Step("kycMark", req[r].arg) \in PendingSteps
    BY <2>1 DEF Step, PendingSteps
  <2>. QED  BY <1>16, <2>1, <2>2, GotoType DEF UpsertVerifiedKyc, TypeOK
<1>17. CASE KycMarkRead(r)
  <2>1. Goto(r, "kycMarkCas") \/ Goto(r, "kycIsOpen")
    BY <1>17 DEF KycMarkRead, MarkRead
  <2>2. /\ Step("kycMarkCas", req[r].arg) \in PendingSteps
        /\ Step("kycIsOpen", req[r].arg) \in PendingSteps
    BY <1>17, ArgTypes DEF KycMarkRead, MarkRead, At, Step, PendingSteps
  <2>. QED  BY <1>17, <2>1, <2>2, GotoType DEF KycMarkRead, MarkRead, TypeOK
<1>18. CASE KycMarkCas(r)
  <2>1. store' \in StoreInformation
    BY <1>18, TransitionType DEF KycMarkCas, MarkCas, TypeOK, SellerOnboardingStatus
  <2>2. Step("kycIsOpen", req[r].arg) \in PendingSteps
    BY <1>18, ArgTypes DEF KycMarkCas, MarkCas, At, Step, PendingSteps
  <2>. QED  BY <1>18, <2>1, <2>2, GotoType DEF KycMarkCas, MarkCas, TypeOK
<1>19. CASE KycIsOpen(r)
  <2>1. Goto(r, "kycResolve") \/ Goto(r, "expireOtp") \/ Return(r)
    BY <1>19 DEF KycIsOpen, FinishVerification
  <2>2. /\ Step("kycResolve", req[r].arg) \in PendingSteps
        /\ Step("expireOtp", req[r].arg) \in PendingSteps
    BY <1>19, ArgTypes DEF KycIsOpen, At, Step, PendingSteps
  <2>. QED  BY <1>19, <2>1, <2>2, GotoType, ReturnType DEF KycIsOpen, TypeOK
<1>20. CASE KycResolve(r)
  <2>1. Goto(r, "expireOtp") \/ Return(r)
    BY <1>20 DEF KycResolve, FinishVerification
  <2>2. Step("expireOtp", req[r].arg) \in PendingSteps
    BY <1>20, ArgTypes DEF KycResolve, At, Step, PendingSteps
  <2>3. store \in StoreInformation
    BY DEF TypeOK
  <2>4. ResolveReviewIssue(req[r].arg, store)
    BY <1>20 DEF KycResolve
  <2>. QED
    BY <1>20, <2>1, <2>2, <2>3, <2>4, GotoType, ReturnType, ResolveType DEF KycResolve, TypeOK
<1>21. CASE ExpireOtp(r)
  BY <1>21, ReturnType DEF ExpireOtp, TypeOK
<1>22. CASE ReviewKyc(r)
  <2>1. Goto(r, "decide") \/ Return(r)
    BY <1>22 DEF ReviewKyc
  <2>2. Step("decide", req[r].arg) \in PendingSteps
    BY <1>22, ArgTypes DEF ReviewKyc, At, Step, PendingSteps
  <2>. QED  BY <1>22, <2>1, <2>2, GotoType, ReturnType DEF ReviewKyc, TypeOK
<1>23. CASE Decide(r)
  <2>. USE <1>23, ReturnType DEF Decide, TypeOK
  <2>1. CASE store.status # "PENDING_APPROVAL"
    BY <2>1
  <2>2. CASE store.status = "PENDING_APPROVAL" /\ ApproveSeller
    BY <2>2 DEF ApproveSeller, UpsertOverride, StoreInformation, SellerOnboardingStatus,
                SellerOnboardingAudit, SellerKycStatus
  <2>3. CASE store.status = "PENDING_APPROVAL" /\ RejectSeller(r)
    <3>1. req[r].arg \subseteq ReviewSections
      BY ArgTypes DEF At
    <3>. QED
      BY <2>3, <3>1 DEF RejectSeller, UpsertOverride, StoreInformation, SellerOnboardingStatus,
                        SellerOnboardingAudit, SellerKycStatus
  <2>. QED  BY <2>1, <2>2, <2>3
<1>. QED
  BY <1>1, <1>2, <1>3, <1>4, <1>5, <1>6, <1>7, <1>8, <1>9, <1>10, <1>11, <1>12, <1>13,
     <1>14, <1>15, <1>16, <1>17, <1>18, <1>19, <1>20, <1>21, <1>22, <1>23 DEF Serve

LEMMA AbandonType ==
  ASSUME TypeOK, NEW r \in Requests, Abandon(r)
  PROVE  TypeOK'
  BY ReturnType DEF Abandon, TypeOK, reviewVars

LEMMA OtpLapsesType ==
  ASSUME TypeOK, OtpLapses
  PROVE  TypeOK'
  BY DEF OtpLapses, TypeOK, reviewVars

LEMMA InitType == Init => TypeOK
<1>. SUFFICES ASSUME Init PROVE TypeOK
  OBVIOUS
<1>1. req \in [Requests -> PendingSteps]
  BY IdleIsPending DEF Init
<1>2. store \in StoreInformation
  BY NewStoreType DEF Init
<1>. QED  BY <1>1, <1>2 DEF Init, TypeOK

LEMMA NextType == TypeOK /\ [Next]_vars => TypeOK'
<1>. SUFFICES ASSUME TypeOK, [Next]_vars
              PROVE  TypeOK'
  OBVIOUS
<1>1. ASSUME NEW r \in Requests, Receive(r) \/ Serve(r) \/ Abandon(r)
      PROVE  TypeOK'
  BY <1>1, ReceiveType, ServeType, AbandonType
<1>2. CASE OtpLapses
  BY <1>2, OtpLapsesType
<1>3. CASE UNCHANGED vars
  BY <1>3 DEF TypeOK, vars
<1>. QED
  BY <1>1, <1>2, <1>3 DEF Next

\* The rows and the requests of a seller always have their types: in particular
\* the onboarding status never leaves the enum of its column, whatever status a
\* conditional or an unconditional UPDATE finds.
THEOREM TypeCorrect == Spec => []TypeOK
<1>. QED  BY InitType, NextType, PTL DEF Spec

-----------------------------------------------------------------------------
(* The inductive invariant. RowInv relates the tables to each other; what   *)
(* it needs to be inductive is what a request may still write, which is     *)
(* InFlightIsJustified: a stale correction is harmless to the tables only   *)
(* because a decision was taken before it was let in.                       *)

RowInv == RejectedIffOpen /\ DecisionAgrees /\ SubmittedIsComplete /\ AuditEndsInStatus

IInv == TypeOK /\ RowInv /\ InFlightIsJustified

\* What no step takes back; it keeps the requests in flight justified.
Onward ==
  /\ override # NULL => override' # NULL
  /\ store.businessType # NULL => store'.businessType # NULL
  /\ store.status # "AGREEMENT_PENDING" => store'.status # "AGREEMENT_PENDING"
  /\ store.status # "AGREEMENT_PENDING" /\ store'.status = "KYC_PENDING"
       => store.status = "KYC_PENDING" /\ (KycComplete => KycComplete')

LEMMA InFlightPersists ==
  ASSUME InFlightIsJustified, Onward, NEW r \in Requests,
         \A q \in Requests \ {r} : req'[q] = req[q],
         Justified(req[r])'
  PROVE  InFlightIsJustified'
<1>. SUFFICES ASSUME NEW q \in Requests \ {r}
              PROVE  Justified(req[q])'
  BY DEF InFlightIsJustified
<1>1. req'[q] = req[q] /\ Justified(req[q])
  BY DEF InFlightIsJustified
<1>. QED  BY <1>1 DEF Justified, Onward

\* A request that returns, or goes on to a step that needs no justification.
LEMMA PlainStepJustified ==
  ASSUME TypeOK, NEW r \in Requests,
         \/ Return(r)
         \/ \E step \in {"addRole", "bankCheck", "saveBank", "kycMark",
                         "kycIsOpen", "expireOtp", "sendOtp", "decide"} :
              Goto(r, step)
  PROVE  /\ \A q \in Requests \ {r} : req'[q] = req[q]
         /\ Justified(req[r])'
<1>1. \A q \in Requests \ {r} : req'[q] = req[q]
  BY DEF TypeOK, Return, Goto
<1>2. req'[r].step \notin {"correctProfile", "correctBank", "correctEsign", "kycResolve",
                           "bankMarkCas", "kycMarkCas", "acceptAgreement"}
  BY DEF TypeOK, Return, Goto, Step, Idle
<1>. QED  BY <1>1, <1>2 DEF Justified

LEMMA QuietRows ==
  ASSUME RowInv, UNCHANGED <<store, verified, openIssues, override, audit>>
  PROVE  RowInv' /\ Onward
  BY DEF RowInv, RejectedIffOpen, DecisionAgrees, SubmittedIsComplete, AuditEndsInStatus,
         Onward, KycComplete

\* A correction keeps the tables in agreement from every state of the review
\* phase, whether its issue is still open or not.
LEMMA ResolveRows ==
  ASSUME TypeOK, RowInv, override # NULL, NEW section, NEW row \in StoreInformation,
         row.status = store.status, row.businessType # NULL, row.bank # NULL,
         row.signature # NULL,
         ResolveReviewIssue(section, row), UNCHANGED <<verified, override>>
  PROVE  RowInv' /\ Onward
<1>. DEFINE remaining == openIssues \ {section}
<1>1. store.status \in ReviewPhase
  BY DEF RowInv, DecisionAgrees
<1>2. /\ openIssues' = remaining
      /\ store' = IF remaining = {} THEN [row EXCEPT !.status = "PENDING_APPROVAL"] ELSE row
      /\ audit' # NoAudit
      /\ audit'.to = IF remaining = {} THEN "PENDING_APPROVAL" ELSE "REJECTED"
  BY ConstantsAssumption DEF ResolveReviewIssue, NoAudit
<1>3. remaining # {} => store.status = "REJECTED"
  BY DEF RowInv, RejectedIffOpen
<1>4. /\ store'.status = IF remaining = {} THEN "PENDING_APPROVAL" ELSE "REJECTED"
      /\ store'.businessType # NULL /\ store'.bank # NULL /\ store'.signature # NULL
  BY <1>2, <1>3 DEF StoreInformation
<1>5. RejectedIffOpen'
  BY <1>2, <1>4 DEF RejectedIffOpen
<1>6. DecisionAgrees'
  BY <1>2, <1>3, <1>4 DEF RowInv, DecisionAgrees, ReviewPhase
<1>7. SubmittedIsComplete'
  BY <1>4 DEF SubmittedIsComplete
<1>8. AuditEndsInStatus'
  BY <1>2, <1>4 DEF AuditEndsInStatus
<1>9. Onward
  BY <1>1, <1>4 DEF Onward, ReviewPhase
<1>. QED  BY <1>5, <1>6, <1>7, <1>8, <1>9 DEF RowInv

\* Letting a request in writes nothing, and checks what its first step needs.
LEMMA ReceivePreserves ==
  ASSUME IInv, NEW r \in Requests, Receive(r)
  PROVE  (RowInv /\ InFlightIsJustified)'
<1>. USE DEF IInv
<1>1. UNCHANGED rowVars
  BY DEF Receive, BeginOnboard, BeginCreateProfile, BeginAcceptAgreement,
         BeginSaveBankDetails, BeginCompleteEsign, BeginVerifyPan, BeginVerifyGst,
         BeginVerify, BeginGenerateOtp,
         BeginVerifyAadhaarOtp, BeginReview
<1>2. RowInv' /\ Onward
  BY <1>1, QuietRows DEF rowVars, reviewVars
<1>3. \E next : Begin(r, next) /\ Justified(next)
  <2>1. \A section : Correctable(section) => override # NULL
    BY ConstantsAssumption DEF Correctable, RowInv, DecisionAgrees, SellerKycStatus
  <2>2. CASE BeginOnboard(r)
    BY <2>2 DEF BeginOnboard, Justified, Step
  <2>3. CASE BeginCreateProfile(r)
    BY <2>3, <2>1 DEF BeginCreateProfile, Justified, Step
  <2>4. CASE BeginAcceptAgreement(r)
    BY <2>4 DEF BeginAcceptAgreement, Justified, Step
  <2>5. CASE BeginSaveBankDetails(r)
    BY <2>5, <2>1 DEF BeginSaveBankDetails, Justified, Step
  <2>6. CASE BeginCompleteEsign(r)
    BY <2>6, <2>1 DEF BeginCompleteEsign, Justified, Step
  <2>7. CASE BeginVerifyPan(r) \/ BeginVerifyGst(r)
    BY <2>7 DEF BeginVerifyPan, BeginVerifyGst, BeginVerify, Justified, Step
  <2>8. CASE BeginGenerateOtp(r)
    BY <2>8 DEF BeginGenerateOtp, Justified, Step
  <2>9. CASE BeginVerifyAadhaarOtp(r)
    BY <2>9 DEF BeginVerifyAadhaarOtp, Justified, Step
  <2>10. CASE BeginReview(r)
    BY <2>10 DEF BeginReview, Justified, Step
  <2>. QED
    BY <2>2, <2>3, <2>4, <2>5, <2>6, <2>7, <2>8, <2>9, <2>10 DEF Receive
<1>4. PICK next : Begin(r, next) /\ Justified(next)
  BY <1>3
<1>5. req'[r] = next /\ \A q \in Requests \ {r} : req'[q] = req[q]
  BY <1>4 DEF Begin, TypeOK
<1>6. Justified(req[r])'
  BY <1>1, <1>4, <1>5 DEF Justified, KycComplete, rowVars, reviewVars
<1>. QED  BY <1>2, <1>5, <1>6, InFlightPersists

\* The steps that write none of the tables RowInv relates.
LEMMA QuietServePreserves ==
  ASSUME IInv, NEW r \in Requests,
         \/ SaveStore(r) \/ AddRole(r) \/ BankCheck(r) \/ ResetOtp(r) \/ SendOtp(r)
         \/ ProviderRefuses(r) \/ KycIsOpen(r) \/ ExpireOtp(r) \/ ReviewKyc(r)
         \/ BankMarkRead(r) \/ KycMarkRead(r) \/ Abandon(r)
  PROVE  (RowInv /\ InFlightIsJustified)'
<1>. USE DEF IInv, rowVars, reviewVars
<1>1. UNCHANGED <<store, verified, openIssues, override, audit>>
  BY DEF SaveStore, AddRole, BankCheck, ResetOtp, SendOtp, ProviderRefuses, KycIsOpen,
         ExpireOtp, ReviewKyc, BankMarkRead, KycMarkRead, MarkRead, Abandon
<1>2. RowInv' /\ Onward
  BY <1>1, QuietRows
<1>3. \/ Return(r)
      \/ \E step \in {"addRole", "bankCheck", "saveBank", "kycMark", "kycIsOpen",
                      "expireOtp", "sendOtp", "decide"} : Goto(r, step)
      \/ Goto(r, "kycResolve") /\ req[r].arg \in openIssues
      \/ /\ Goto(r, "bankMarkCas") \/ Goto(r, "kycMarkCas")
         /\ store.status = "KYC_PENDING" /\ KycComplete
  BY DEF SaveStore, AddRole, BankCheck, ResetOtp, SendOtp, ProviderRefuses, KycIsOpen,
         ExpireOtp, ReviewKyc, BankMarkRead, KycMarkRead, MarkRead, Abandon,
         FinishVerification
<1>4. CASE \/ Return(r)
           \/ \E step \in {"addRole", "bankCheck", "saveBank", "kycMark", "kycIsOpen",
                           "expireOtp", "sendOtp", "decide"} : Goto(r, step)
  BY <1>2, <1>4, PlainStepJustified, InFlightPersists
<1>5. CASE Goto(r, "kycResolve") /\ req[r].arg \in openIssues
  <2>1. req'[r].step = "kycResolve" /\ \A q \in Requests \ {r} : req'[q] = req[q]
    BY <1>5 DEF Goto, Step, TypeOK
  <2>2. override' # NULL
    BY <1>1, <1>5, ConstantsAssumption
       DEF RowInv, RejectedIffOpen, DecisionAgrees, SellerKycStatus
  <2>3. Justified(req[r])'
    BY <2>1, <2>2 DEF Justified
  <2>. QED  BY <1>2, <2>1, <2>3, InFlightPersists
<1>6. CASE /\ Goto(r, "bankMarkCas") \/ Goto(r, "kycMarkCas")
           /\ store.status = "KYC_PENDING" /\ KycComplete
  <2>1. /\ req'[r].step \in {"bankMarkCas", "kycMarkCas"}
        /\ \A q \in Requests \ {r} : req'[q] = req[q]
    BY <1>6 DEF Goto, Step, TypeOK
  <2>2. (store.status = "KYC_PENDING" /\ KycComplete)'
    BY <1>1, <1>6 DEF KycComplete
  <2>3. Justified(req[r])'
    BY <2>1, <2>2 DEF Justified
  <2>. QED  BY <1>2, <2>1, <2>3, InFlightPersists
<1>. QED  BY <1>3, <1>4, <1>5, <1>6

\* The four corrections.
LEMMA CorrectionPreserves ==
  ASSUME IInv, NEW r \in Requests,
         CorrectProfile(r) \/ CorrectBank(r) \/ CorrectEsign(r) \/ KycResolve(r)
  PROVE  (RowInv /\ InFlightIsJustified)'
<1>. USE DEF IInv
<1>1. override # NULL
  BY DEF CorrectProfile, CorrectBank, CorrectEsign, KycResolve, At, InFlightIsJustified,
         Justified
<1>2. /\ store \in StoreInformation
      /\ store.businessType # NULL /\ store.bank # NULL /\ store.signature # NULL
  BY <1>1 DEF TypeOK, RowInv, DecisionAgrees, SubmittedIsComplete, ReviewPhase
<1>3. UNCHANGED <<verified, override>>
  BY DEF CorrectProfile, CorrectBank, CorrectEsign, KycResolve
<1>4. RowInv' /\ Onward
  <2>1. CASE CorrectProfile(r)
    <3>. DEFINE row == [store EXCEPT !.businessType = req[r].arg]
    <3>1. req[r].arg \in BusinessTypes
      BY <2>1, ArgTypes DEF CorrectProfile, At
    <3>2. /\ row \in StoreInformation /\ row.status = store.status
          /\ row.businessType # NULL /\ row.bank # NULL /\ row.signature # NULL
      BY <1>2, <3>1, ConstantsAssumption DEF StoreInformation
    <3>3. ResolveReviewIssue("PROFILE", row)
      BY <2>1 DEF CorrectProfile
    <3>. QED  BY <1>1, <1>3, <3>2, <3>3, ResolveRows
  <2>2. CASE CorrectBank(r)
    <3>. DEFINE row == [store EXCEPT !.bank = req[r].arg]
    <3>1. req[r].arg \in Payloads
      BY <2>2, ArgTypes DEF CorrectBank, At
    <3>2. /\ row \in StoreInformation /\ row.status = store.status
          /\ row.businessType # NULL /\ row.bank # NULL /\ row.signature # NULL
      BY <1>2, <3>1, ConstantsAssumption DEF StoreInformation
    <3>3. ResolveReviewIssue("BANK_DETAILS", row)
      BY <2>2 DEF CorrectBank
    <3>. QED  BY <1>1, <1>3, <3>2, <3>3, ResolveRows
  <2>3. CASE CorrectEsign(r)
    <3>. DEFINE row == [store EXCEPT !.signature = req[r].arg]
    <3>1. req[r].arg \in Payloads
      BY <2>3, ArgTypes DEF CorrectEsign, At
    <3>2. /\ row \in StoreInformation /\ row.status = store.status
          /\ row.businessType # NULL /\ row.bank # NULL /\ row.signature # NULL
      BY <1>2, <3>1, ConstantsAssumption DEF StoreInformation
    <3>3. ResolveReviewIssue("ESIGN", row)
      BY <2>3 DEF CorrectEsign
    <3>. QED  BY <1>1, <1>3, <3>2, <3>3, ResolveRows
  <2>4. CASE KycResolve(r)
    <3>1. ResolveReviewIssue(req[r].arg, store)
      BY <2>4 DEF KycResolve
    <3>. QED  BY <1>1, <1>2, <1>3, <3>1, ResolveRows
  <2>. QED  BY <2>1, <2>2, <2>3, <2>4
<1>5. Return(r) \/ Goto(r, "expireOtp")
  BY DEF CorrectProfile, CorrectBank, CorrectEsign, KycResolve, FinishVerification
<1>. QED  BY <1>4, <1>5, PlainStepJustified, InFlightPersists

\* The conditional UPDATEs of the steps before the first decision.
LEMMA TransitionPreserves ==
  ASSUME IInv, NEW r \in Requests,
         \/ FillProfile(r) \/ AcceptAgreement(r) \/ BankMarkCas(r) \/ KycMarkCas(r)
         \/ SaveBank(r) \/ Sign(r)
  PROVE  (RowInv /\ InFlightIsJustified)'
<1>. USE DEF IInv
<1>1. UNCHANGED <<verified, openIssues, override, audit>>
  BY DEF FillProfile, AcceptAgreement, BankMarkCas, KycMarkCas, MarkCas, SaveBank, Sign,
         reviewVars
<1>2. store' = store => RowInv' /\ Onward
  BY <1>1, QuietRows
<1>3. store.status \notin ReviewPhase => override = NULL /\ audit = NoAudit /\ openIssues = {}
  BY DEF RowInv, DecisionAgrees, RejectedIffOpen, ReviewPhase
<1>. USE DEF RowInv, RejectedIffOpen, DecisionAgrees, SubmittedIsComplete, AuditEndsInStatus,
             ReviewPhase
<1>4. CASE FillProfile(r)
  <2>1. Return(r)
    BY <1>4 DEF FillProfile
  <2>2. CASE store.businessType # NULL
    <3>1. store' = store
      BY <1>4, <2>2 DEF FillProfile
    <3>. QED  BY <1>2, <2>1, <3>1, PlainStepJustified, InFlightPersists
  <2>3. CASE store.businessType = NULL
    <3>1. store.status = "AGREEMENT_PENDING"
      BY <2>3
    <3>2. req[r].arg \in BusinessTypes
      BY <1>4, ArgTypes DEF FillProfile, At
    <3>3. store'.status = "AGREEMENT_PENDING" /\ store'.businessType # NULL
      BY <1>4, <2>3, <3>2, ConstantsAssumption DEF FillProfile, TypeOK, StoreInformation
    <3>4. RowInv'
      BY <1>1, <1>3, <3>1, <3>3
    <3>5. Onward
      BY <1>1, <3>1, <3>3 DEF Onward
    <3>. QED  BY <2>1, <3>4, <3>5, PlainStepJustified, InFlightPersists
  <2>. QED  BY <2>2, <2>3
<1>5. CASE AcceptAgreement(r)
  <2>1. Return(r) /\ TransitionStatus("AGREEMENT_PENDING", "KYC_PENDING", store)
    BY <1>5 DEF AcceptAgreement
  <2>2. CASE store.status # "AGREEMENT_PENDING"
    BY <1>2, <2>1, <2>2, PlainStepJustified, InFlightPersists DEF TransitionStatus
  <2>3. CASE store.status = "AGREEMENT_PENDING"
    <3>1. store.businessType # NULL
      BY <1>5 DEF AcceptAgreement, At, InFlightIsJustified, Justified
    <3>2. store'.status = "KYC_PENDING" /\ store'.businessType # NULL
      BY <2>1, <2>3, <3>1 DEF TransitionStatus, TypeOK, StoreInformation
    <3>3. RowInv'
      BY <1>1, <1>3, <2>3, <3>2
    <3>4. Onward
      BY <1>1, <2>3, <3>2 DEF Onward
    <3>. QED  BY <2>1, <3>3, <3>4, PlainStepJustified, InFlightPersists
  <2>. QED  BY <2>2, <2>3
<1>6. CASE BankMarkCas(r) \/ KycMarkCas(r)
  <2>1. /\ Goto(r, "bankCheck") \/ Goto(r, "kycIsOpen")
        /\ TransitionStatus("KYC_PENDING", "BANK_DETAILS_PENDING", store)
    BY <1>6 DEF BankMarkCas, KycMarkCas, MarkCas
  <2>2. CASE store.status # "KYC_PENDING"
    BY <1>2, <2>1, <2>2, PlainStepJustified, InFlightPersists DEF TransitionStatus
  <2>3. CASE store.status = "KYC_PENDING"
    <3>1. KycComplete
      BY <1>6, <2>3 DEF BankMarkCas, KycMarkCas, MarkCas, At, InFlightIsJustified, Justified
    <3>2. /\ store'.status = "BANK_DETAILS_PENDING"
          /\ store'.businessType = store.businessType
      BY <2>1, <2>3 DEF TransitionStatus, TypeOK, StoreInformation
    <3>3. KycComplete'
      BY <1>1, <3>1, <3>2 DEF KycComplete
    <3>4. RowInv'
      BY <1>1, <1>3, <2>3, <3>2, <3>3
    <3>5. Onward
      BY <1>1, <2>3, <3>2 DEF Onward
    <3>. QED  BY <2>1, <3>4, <3>5, PlainStepJustified, InFlightPersists
  <2>. QED  BY <2>2, <2>3
<1>7. CASE SaveBank(r)
  <2>1. /\ Return(r)
        /\ TransitionStatus("BANK_DETAILS_PENDING", "ESIGN_PENDING",
                            [store EXCEPT !.bank = req[r].arg])
    BY <1>7 DEF SaveBank
  <2>2. CASE store.status # "BANK_DETAILS_PENDING"
    BY <1>2, <2>1, <2>2, PlainStepJustified, InFlightPersists DEF TransitionStatus
  <2>3. CASE store.status = "BANK_DETAILS_PENDING"
    <3>1. req[r].arg \in Payloads
      BY <1>7, ArgTypes DEF SaveBank, At
    <3>2. /\ store'.status = "ESIGN_PENDING"
          /\ store'.businessType = store.businessType
          /\ store'.bank # NULL
      BY <2>1, <2>3, <3>1, ConstantsAssumption DEF TransitionStatus, TypeOK, StoreInformation
    <3>3. KycComplete'
      BY <1>1, <1>3, <2>3, <3>2 DEF KycComplete
    <3>4. RowInv'
      BY <1>1, <1>3, <2>3, <3>2, <3>3
    <3>5. Onward
      BY <1>1, <2>3, <3>2 DEF Onward
    <3>. QED  BY <2>1, <3>4, <3>5, PlainStepJustified, InFlightPersists
  <2>. QED  BY <2>2, <2>3
<1>8. CASE Sign(r)
  <2>1. /\ Return(r)
        /\ TransitionStatus("ESIGN_PENDING", "PENDING_APPROVAL",
                            [store EXCEPT !.signature = req[r].arg])
    BY <1>8 DEF Sign
  <2>2. CASE store.status # "ESIGN_PENDING"
    BY <1>2, <2>1, <2>2, PlainStepJustified, InFlightPersists DEF TransitionStatus
  <2>3. CASE store.status = "ESIGN_PENDING"
    <3>1. req[r].arg \in Payloads
      BY <1>8, ArgTypes DEF Sign, At
    <3>2. /\ store'.status = "PENDING_APPROVAL"
          /\ store'.businessType = store.businessType
          /\ store'.bank = store.bank
          /\ store'.signature # NULL
      BY <2>1, <2>3, <3>1, ConstantsAssumption DEF TransitionStatus, TypeOK, StoreInformation
    <3>3. KycComplete'
      BY <1>1, <1>3, <2>3, <3>2 DEF KycComplete
    <3>4. RowInv'
      BY <1>1, <1>3, <2>3, <3>2, <3>3
    <3>5. Onward
      BY <1>1, <2>3, <3>2 DEF Onward
    <3>. QED  BY <2>1, <3>4, <3>5, PlainStepJustified, InFlightPersists
  <2>. QED  BY <2>2, <2>3
<1>. QED  BY <1>4, <1>5, <1>6, <1>7, <1>8

\* A verified document only adds to what KycComplete asks for.
LEMMA UpsertPreserves ==
  ASSUME IInv, NEW r \in Requests, UpsertVerifiedKyc(r)
  PROVE  (RowInv /\ InFlightIsJustified)'
<1>. USE DEF IInv
<1>1. /\ UNCHANGED <<store, openIssues, override, audit>>
      /\ verified \subseteq verified'
      /\ Goto(r, "kycMark")
  BY DEF UpsertVerifiedKyc, reviewVars
<1>2. KycComplete => KycComplete'
  BY <1>1 DEF KycComplete
<1>3. RowInv' /\ Onward
  BY <1>1, <1>2 DEF RowInv, RejectedIffOpen, DecisionAgrees, SubmittedIsComplete,
                    AuditEndsInStatus, Onward
<1>. QED  BY <1>1, <1>3, PlainStepJustified, InFlightPersists

\* The decision, under the lock of the store row.
LEMMA DecidePreserves ==
  ASSUME IInv, NEW r \in Requests, Decide(r)
  PROVE  (RowInv /\ InFlightIsJustified)'
<1>. USE DEF IInv
<1>1. Return(r) /\ UNCHANGED verified
  BY DEF Decide
<1>2. RowInv' /\ Onward
  <2>1. CASE store.status # "PENDING_APPROVAL"
    BY <1>1, <2>1, QuietRows DEF Decide, reviewVars
  <2>2. CASE store.status = "PENDING_APPROVAL"
    <3>1. /\ store.businessType # NULL /\ store.bank # NULL /\ store.signature # NULL
          /\ openIssues = {}
      BY <2>2 DEF RowInv, SubmittedIsComplete, RejectedIffOpen, ReviewPhase
    <3>2. /\ store'.businessType = store.businessType /\ store'.bank = store.bank
          /\ store'.signature = store.signature
          /\ store'.status \in SellerKycStatus /\ override' = store'.status
          /\ audit'.to = store'.status /\ audit' # NoAudit
          /\ store'.status = "REJECTED" <=> openIssues' # {}
      BY <2>2, <3>1 DEF Decide, ApproveSeller, RejectSeller, UpsertOverride, TypeOK,
                        StoreInformation, NoAudit, SellerKycStatus
    <3>3. override' # NULL
      BY <3>2, ConstantsAssumption
    <3>4. RowInv'
      BY <3>1, <3>2, <3>3 DEF RowInv, RejectedIffOpen, DecisionAgrees, SubmittedIsComplete,
                              AuditEndsInStatus, ReviewPhase, SellerKycStatus
    <3>5. Onward
      BY <3>1, <3>2, <3>3 DEF Onward, SellerKycStatus
    <3>. QED  BY <3>4, <3>5
  <2>. QED  BY <2>1, <2>2
<1>. QED  BY <1>1, <1>2, PlainStepJustified, InFlightPersists

LEMMA ServePreserves ==
  ASSUME IInv, NEW r \in Requests, Serve(r)
  PROVE  (RowInv /\ InFlightIsJustified)'
  BY QuietServePreserves, CorrectionPreserves, TransitionPreserves, UpsertPreserves,
     DecidePreserves DEF Serve

LEMMA InitInv == Init => IInv
<1>. SUFFICES ASSUME Init PROVE IInv
  OBVIOUS
<1>1. TypeOK
  BY InitType
<1>2. RowInv
  BY DEF Init, NewStore, RowInv, RejectedIffOpen, DecisionAgrees, SubmittedIsComplete,
         AuditEndsInStatus, ReviewPhase
<1>3. InFlightIsJustified
  BY DEF Init, Idle, Step, InFlightIsJustified, Justified
<1>. QED  BY <1>1, <1>2, <1>3 DEF IInv

LEMMA NextInv == IInv /\ [Next]_vars => IInv'
<1>. SUFFICES ASSUME IInv, [Next]_vars
              PROVE  (RowInv /\ InFlightIsJustified)'
  BY NextType DEF IInv
<1>1. ASSUME NEW r \in Requests, Receive(r) \/ Serve(r) \/ Abandon(r)
      PROVE  (RowInv /\ InFlightIsJustified)'
  BY <1>1, ReceivePreserves, ServePreserves, QuietServePreserves
<1>2. CASE OtpLapses
  BY <1>2, QuietRows DEF OtpLapses, reviewVars, IInv, InFlightIsJustified, Justified,
                         KycComplete
<1>3. CASE UNCHANGED vars
  BY <1>3, QuietRows DEF vars, IInv, InFlightIsJustified, Justified, KycComplete
<1>. QED  BY <1>1, <1>2, <1>3 DEF Next

\* The tables agree and no in-flight request is unjustified, in every
\* interleaving of any number of requests: in particular a seller is rejected
\* exactly while a section is open (RejectedIffOpen), the override and the
\* audit trail follow the status (DecisionAgrees, AuditEndsInStatus), and no
\* step is reached without what the steps before it collect.
THEOREM Invariance ==
  Spec => [](/\ RejectedIffOpen /\ DecisionAgrees /\ SubmittedIsComplete
             /\ AuditEndsInStatus /\ InFlightIsJustified)
<1>1. IInv => /\ RejectedIffOpen /\ DecisionAgrees /\ SubmittedIsComplete
              /\ AuditEndsInStatus /\ InFlightIsJustified
  BY DEF IInv, RowInv
<1>. QED  BY <1>1, InitInv, NextInv, PTL DEF Spec

\* Sections are open for correction exactly while the seller is rejected,
\* whatever corrections and decisions overlap (decideUserKyc,
\* resolveReviewIssue).
THEOREM RejectedWhileOpen == Spec => []RejectedIffOpen
<1>1. IInv => RejectedIffOpen
  BY DEF IInv, RowInv
<1>. QED  BY <1>1, InitInv, NextInv, PTL DEF Spec

\* The override row never contradicts the status of the store row, which
\* isSellerKycApproved reads with it (decideUserKyc, transitionStatus).
THEOREM DecisionsAgree == Spec => []DecisionAgrees
<1>1. IInv => DecisionAgrees
  BY DEF IInv, RowInv
<1>. QED  BY <1>1, InitInv, NextInv, PTL DEF Spec

\* No interleaving of the steps takes a seller past one whose data is missing
\* (createProfile, markKycCompleteIfEligible, saveBankDetails, completeEsign).
THEOREM SubmittedComplete == Spec => []SubmittedIsComplete
<1>1. IInv => SubmittedIsComplete
  BY DEF IInv, RowInv
<1>. QED  BY <1>1, InitInv, NextInv, PTL DEF Spec

\* The last row of the audit trail ends in the status of the store row: no
\* decision or resubmission is missing from it (decideUserKyc,
\* resolveReviewIssue).
THEOREM AuditComplete == Spec => []AuditEndsInStatus
<1>1. IInv => AuditEndsInStatus
  BY DEF IInv, RowInv
<1>. QED  BY <1>1, InitInv, NextInv, PTL DEF Spec

-----------------------------------------------------------------------------
(* Every step is a step of the published workflow, or none *)

\* A handler that leaves the status and the issues alone does not move the
\* workflow.
LEMMA QuietWorkflow ==
  ASSUME UNCHANGED <<store, openIssues>>
  PROVE  UNCHANGED Workflow!vars
  BY DEF Workflow!vars

\* A correction from each of the states a stale request may find: the last open
\* section, another one, one that is resolved already, or an approved seller.
LEMMA ResolveWorkflow ==
  ASSUME IInv, override # NULL, NEW section, NEW row \in StoreInformation,
         row.status = store.status, ResolveReviewIssue(section, row)
  PROVE  [Workflow!Next]_(Workflow!vars)
<1>. DEFINE remaining == openIssues \ {section}
<1>1. store.status \in ReviewPhase /\ (store.status = "REJECTED" <=> openIssues # {})
  BY DEF IInv, RowInv, DecisionAgrees, RejectedIffOpen
<1>2. /\ openIssues' = remaining
      /\ store'.status = IF remaining = {} THEN "PENDING_APPROVAL" ELSE store.status
  BY DEF ResolveReviewIssue, StoreInformation
<1>3. CASE section \in openIssues
  <2>1. Workflow!Correct
    BY <1>1, <1>2, <1>3 DEF Workflow!Correct
  <2>. QED  BY <2>1 DEF Workflow!Next
<1>4. CASE section \notin openIssues /\ store.status = "APPROVED"
  <2>1. Workflow!Reopen
    BY <1>1, <1>2, <1>4 DEF Workflow!Reopen
  <2>. QED  BY <2>1 DEF Workflow!Next
<1>5. CASE section \notin openIssues /\ store.status # "APPROVED"
  <2>1. UNCHANGED Workflow!vars
    BY <1>1, <1>2, <1>5 DEF Workflow!vars, ReviewPhase
  <2>. QED  BY <2>1
<1>. QED  BY <1>3, <1>4, <1>5

\* A conditional UPDATE along the published sequence completes a step.
LEMMA TransitionWorkflow ==
  ASSUME IInv, NEW expected \in DOMAIN Workflow!StepAfter, NEW row \in StoreInformation,
         row.status = store.status,
         TransitionStatus(expected, Workflow!StepAfter[expected], row), UNCHANGED openIssues
  PROVE  [Workflow!Next]_(Workflow!vars)
<1>1. CASE store.status = expected
  <2>1. store'.status = Workflow!StepAfter[expected]
    BY <1>1 DEF TransitionStatus, StoreInformation
  <2>2. Workflow!CompleteStep
    BY <1>1, <2>1 DEF Workflow!CompleteStep
  <2>. QED  BY <2>2 DEF Workflow!Next
<1>2. CASE store.status # expected
  BY <1>2, QuietWorkflow DEF TransitionStatus
<1>. QED  BY <1>1, <1>2

LEMMA StepsOfWorkflow ==
  /\ DOMAIN Workflow!StepAfter =
       {"AGREEMENT_PENDING", "KYC_PENDING", "BANK_DETAILS_PENDING", "ESIGN_PENDING"}
  /\ Workflow!StepAfter["AGREEMENT_PENDING"] = "KYC_PENDING"
  /\ Workflow!StepAfter["KYC_PENDING"] = "BANK_DETAILS_PENDING"
  /\ Workflow!StepAfter["BANK_DETAILS_PENDING"] = "ESIGN_PENDING"
  /\ Workflow!StepAfter["ESIGN_PENDING"] = "PENDING_APPROVAL"
  BY DEF Workflow!StepAfter

LEMMA CorrectionWorkflow ==
  ASSUME IInv, NEW r \in Requests,
         CorrectProfile(r) \/ CorrectBank(r) \/ CorrectEsign(r) \/ KycResolve(r)
  PROVE  [Workflow!Next]_(Workflow!vars)
<1>1. override # NULL
  BY DEF CorrectProfile, CorrectBank, CorrectEsign, KycResolve, At, IInv,
         InFlightIsJustified, Justified
<1>2. store \in StoreInformation
  BY DEF IInv, TypeOK
<1>3. PICK section, row :
        /\ ResolveReviewIssue(section, row)
        /\ row \in StoreInformation /\ row.status = store.status
  <2>1. CASE CorrectProfile(r)
    <3>1. req[r].arg \in BusinessTypes
      BY <2>1, ArgTypes DEF CorrectProfile, At, IInv
    <3>2. /\ [store EXCEPT !.businessType = req[r].arg] \in StoreInformation
          /\ [store EXCEPT !.businessType = req[r].arg].status = store.status
      BY <1>2, <3>1 DEF StoreInformation
    <3>. QED  BY <2>1, <3>2 DEF CorrectProfile
  <2>2. CASE CorrectBank(r)
    <3>1. req[r].arg \in Payloads
      BY <2>2, ArgTypes DEF CorrectBank, At, IInv
    <3>2. /\ [store EXCEPT !.bank = req[r].arg] \in StoreInformation
          /\ [store EXCEPT !.bank = req[r].arg].status = store.status
      BY <1>2, <3>1 DEF StoreInformation
    <3>. QED  BY <2>2, <3>2 DEF CorrectBank
  <2>3. CASE CorrectEsign(r)
    <3>1. req[r].arg \in Payloads
      BY <2>3, ArgTypes DEF CorrectEsign, At, IInv
    <3>2. /\ [store EXCEPT !.signature = req[r].arg] \in StoreInformation
          /\ [store EXCEPT !.signature = req[r].arg].status = store.status
      BY <1>2, <3>1 DEF StoreInformation
    <3>. QED  BY <2>3, <3>2 DEF CorrectEsign
  <2>4. CASE KycResolve(r)
    BY <1>2, <2>4 DEF KycResolve
  <2>. QED  BY <2>1, <2>2, <2>3, <2>4
<1>. QED  BY <1>1, <1>3, ResolveWorkflow

LEMMA ServeWorkflow ==
  ASSUME IInv, NEW r \in Requests, Serve(r)
  PROVE  [Workflow!Next]_(Workflow!vars)
<1>. USE DEF rowVars, reviewVars
<1>1. store \in StoreInformation
  BY DEF IInv, TypeOK
<1>2. CASE \/ SaveStore(r) \/ AddRole(r) \/ BankCheck(r) \/ ResetOtp(r) \/ SendOtp(r)
           \/ ProviderRefuses(r) \/ KycIsOpen(r) \/ ExpireOtp(r) \/ ReviewKyc(r)
           \/ BankMarkRead(r) \/ KycMarkRead(r) \/ UpsertVerifiedKyc(r)
  <2>1. UNCHANGED <<store, openIssues>>
    BY <1>2 DEF SaveStore, AddRole, BankCheck, ResetOtp, SendOtp, ProviderRefuses, KycIsOpen,
                ExpireOtp, ReviewKyc, BankMarkRead, KycMarkRead, MarkRead, UpsertVerifiedKyc
  <2>. QED  BY <2>1, QuietWorkflow
<1>3. CASE CorrectProfile(r) \/ CorrectBank(r) \/ CorrectEsign(r) \/ KycResolve(r)
  BY <1>3, CorrectionWorkflow
<1>4. CASE FillProfile(r)
  <2>1. store'.status = store.status /\ UNCHANGED openIssues
    BY <1>1, <1>4 DEF FillProfile, StoreInformation, IInv, RowInv, SubmittedIsComplete
  <2>. QED  BY <2>1 DEF Workflow!vars
<1>5. CASE AcceptAgreement(r)
  <2>1. TransitionStatus("AGREEMENT_PENDING", "KYC_PENDING", store) /\ UNCHANGED openIssues
    BY <1>5 DEF AcceptAgreement
  <2>. QED  BY <1>1, <2>1, StepsOfWorkflow, TransitionWorkflow
<1>6. CASE BankMarkCas(r) \/ KycMarkCas(r)
  <2>1. /\ TransitionStatus("KYC_PENDING", "BANK_DETAILS_PENDING", store)
        /\ UNCHANGED openIssues
    BY <1>6 DEF BankMarkCas, KycMarkCas, MarkCas
  <2>. QED  BY <1>1, <2>1, StepsOfWorkflow, TransitionWorkflow
<1>7. CASE SaveBank(r)
  <2>. DEFINE row == [store EXCEPT !.bank = req[r].arg]
  <2>1. req[r].arg \in Payloads
    BY <1>7, ArgTypes DEF SaveBank, At, IInv
  <2>2. row \in StoreInformation /\ row.status = store.status
    BY <1>1, <2>1 DEF StoreInformation
  <2>3. TransitionStatus("BANK_DETAILS_PENDING", "ESIGN_PENDING", row) /\ UNCHANGED openIssues
    BY <1>7 DEF SaveBank
  <2>. QED  BY <2>2, <2>3, StepsOfWorkflow, TransitionWorkflow
<1>8. CASE Sign(r)
  <2>. DEFINE row == [store EXCEPT !.signature = req[r].arg]
  <2>1. req[r].arg \in Payloads
    BY <1>8, ArgTypes DEF Sign, At, IInv
  <2>2. row \in StoreInformation /\ row.status = store.status
    BY <1>1, <2>1 DEF StoreInformation
  <2>3. TransitionStatus("ESIGN_PENDING", "PENDING_APPROVAL", row) /\ UNCHANGED openIssues
    BY <1>8 DEF Sign
  <2>. QED  BY <2>2, <2>3, StepsOfWorkflow, TransitionWorkflow
<1>9. CASE Decide(r)
  <2>1. CASE store.status # "PENDING_APPROVAL"
    BY <1>9, <2>1, QuietWorkflow DEF Decide
  <2>2. CASE store.status = "PENDING_APPROVAL" /\ req[r].arg = {}
    <3>1. openIssues = {}
      BY <2>2 DEF IInv, RowInv, RejectedIffOpen
    <3>2. Workflow!Approve
      BY <1>1, <1>9, <2>2, <3>1 DEF Decide, ApproveSeller, Workflow!Approve, StoreInformation
    <3>. QED  BY <3>2 DEF Workflow!Next
  <2>3. CASE store.status = "PENDING_APPROVAL" /\ req[r].arg # {}
    <3>1. openIssues = {}
      BY <2>3 DEF IInv, RowInv, RejectedIffOpen
    <3>2. req[r].arg \subseteq ReviewSections
      BY <1>9, ArgTypes DEF Decide, At, IInv
    <3>3. Workflow!Reject
      BY <1>1, <1>9, <2>3, <3>1, <3>2
         DEF Decide, RejectSeller, Workflow!Reject, StoreInformation
    <3>. QED  BY <3>3 DEF Workflow!Next
  <2>. QED  BY <2>1, <2>2, <2>3
<1>. QED
  BY <1>2, <1>3, <1>4, <1>5, <1>6, <1>7, <1>8, <1>9 DEF Serve

LEMMA NextWorkflow == IInv /\ [Next]_vars => [Workflow!Next]_(Workflow!vars)
<1>. SUFFICES ASSUME IInv, [Next]_vars
              PROVE  [Workflow!Next]_(Workflow!vars)
  OBVIOUS
<1>1. ASSUME NEW r \in Requests, Serve(r)
      PROVE  [Workflow!Next]_(Workflow!vars)
  BY <1>1, ServeWorkflow
<1>2. ASSUME NEW r \in Requests, Receive(r) \/ Abandon(r)
      PROVE  UNCHANGED <<store, openIssues>>
  BY <1>2 DEF Receive, BeginOnboard, BeginCreateProfile, BeginAcceptAgreement,
              BeginSaveBankDetails, BeginCompleteEsign, BeginVerifyPan, BeginVerifyGst,
              BeginVerify,
              BeginGenerateOtp, BeginVerifyAadhaarOtp, BeginReview, Abandon, rowVars,
              reviewVars
<1>3. CASE OtpLapses \/ UNCHANGED vars
  BY <1>3, QuietWorkflow DEF OtpLapses, vars, reviewVars
<1>. QED  BY <1>1, <1>2, <1>3, QuietWorkflow DEF Next

\* The handlers implement the workflow that GET /sellers/onboarding/requirements
\* publishes, with its review loop: whatever requests interleave or are lost,
\* no step is skipped, none is done twice, and only a correction reopens an
\* approved seller.
THEOREM Refinement == Spec => ImplementsWorkflow
<1>1. Init => Workflow!Init
  BY DEF Init, NewStore, Workflow!Init
<1>. QED  BY <1>1, InitInv, NextInv, NextWorkflow, PTL DEF Spec, ImplementsWorkflow,
                                                         Workflow!Spec
-----------------------------------------------------------------------------
(* What an approved seller sells under *)

LEMMA NextFrozen ==
  IInv /\ [Next]_vars
    => (store.status = "APPROVED" /\ store'.status = "APPROVED" => store' = store)
<1>. SUFFICES ASSUME IInv, [Next]_vars, store.status = "APPROVED", store'.status = "APPROVED"
              PROVE  store' = store
  OBVIOUS
<1>1. openIssues = {} /\ store.businessType # NULL
  BY DEF IInv, RowInv, RejectedIffOpen, SubmittedIsComplete
<1>2. ASSUME NEW r \in Requests, Receive(r) \/ Abandon(r)
      PROVE  store' = store
  BY <1>2 DEF Receive, BeginOnboard, BeginCreateProfile, BeginAcceptAgreement,
              BeginSaveBankDetails, BeginCompleteEsign, BeginVerifyPan, BeginVerifyGst,
              BeginVerify,
              BeginGenerateOtp, BeginVerifyAadhaarOtp, BeginReview, Abandon, rowVars
<1>3. ASSUME NEW r \in Requests, Serve(r)
      PROVE  store' = store
  <2>1. CASE CorrectProfile(r) \/ CorrectBank(r) \/ CorrectEsign(r) \/ KycResolve(r)
    <3>1. store \in StoreInformation
      BY DEF IInv, TypeOK
    <3>2. PICK section, row : ResolveReviewIssue(section, row) /\ row \in StoreInformation
      <4>1. \A type \in BusinessTypes :
              [store EXCEPT !.businessType = type] \in StoreInformation
        BY <3>1 DEF StoreInformation
      <4>2. \A payload \in Payloads :
              /\ [store EXCEPT !.bank = payload] \in StoreInformation
              /\ [store EXCEPT !.signature = payload] \in StoreInformation
        BY <3>1 DEF StoreInformation
      <4>3. CASE CorrectProfile(r)
        BY <4>1, <4>3, ArgTypes DEF CorrectProfile, At, IInv
      <4>4. CASE CorrectBank(r) \/ CorrectEsign(r)
        BY <4>2, <4>4, ArgTypes DEF CorrectBank, CorrectEsign, At, IInv
      <4>5. CASE KycResolve(r)
        BY <3>1, <4>5 DEF KycResolve
      <4>. QED  BY <2>1, <4>3, <4>4, <4>5
    <3>3. store'.status = "PENDING_APPROVAL"
      BY <1>1, <3>2 DEF ResolveReviewIssue, StoreInformation
    <3>. QED  BY <3>3
  <2>2. CASE FillProfile(r)
    BY <1>1, <2>2 DEF FillProfile
  <2>3. CASE \/ AcceptAgreement(r) \/ BankMarkCas(r) \/ KycMarkCas(r)
             \/ SaveBank(r) \/ Sign(r)
    BY <2>3 DEF AcceptAgreement, BankMarkCas, KycMarkCas, MarkCas, SaveBank, Sign,
                TransitionStatus
  <2>4. CASE Decide(r)
    BY <2>4 DEF Decide
  <2>5. CASE \/ SaveStore(r) \/ AddRole(r) \/ BankCheck(r) \/ ResetOtp(r) \/ SendOtp(r)
             \/ ProviderRefuses(r) \/ KycIsOpen(r) \/ ExpireOtp(r) \/ ReviewKyc(r)
             \/ BankMarkRead(r) \/ KycMarkRead(r) \/ UpsertVerifiedKyc(r)
    BY <2>5 DEF SaveStore, AddRole, BankCheck, ResetOtp, SendOtp, ProviderRefuses, KycIsOpen,
                ExpireOtp, ReviewKyc, BankMarkRead, KycMarkRead, MarkRead,
                UpsertVerifiedKyc, rowVars
  <2>. QED  BY <1>3, <2>1, <2>2, <2>3, <2>4, <2>5 DEF Serve
<1>4. CASE OtpLapses \/ UNCHANGED vars
  BY <1>4 DEF OtpLapses, vars
<1>. QED  BY <1>2, <1>3, <1>4 DEF Next

\* No request, however old, changes the row of a seller who stays approved.
THEOREM ApprovedFrozen == Spec => ApprovedDetailsFrozen
<1>. QED  BY InitInv, NextInv, NextFrozen, PTL DEF Spec, ApprovedDetailsFrozen
=============================================================================
