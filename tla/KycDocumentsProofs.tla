-------------------------- MODULE KycDocumentsProofs --------------------------
(***************************************************************************)
(* Proofs about KycDocuments, for any sellers and documents and any number *)
(* of requests at a time.                                                  *)
(***************************************************************************)
EXTENDS KycDocuments, TLAPS, FiniteSetTheorems

\* The types of the rows are always expanded.
USE DEF KycVerifications, OtpLogs, SellerKycOverride

\* Steps of a verification, and those at which it is about an Aadhaar.
Verifying ==
  {"AskPan", "MatchName", "AskGst", "ExpireBefore", "SendOtp", "AskOtp", "Find", "Save", "Mark",
   "IsOpen", "ExpireAfter"}

\* A request in flight is about a seller, and a verification about a document.
RequestsNamed ==
  \A r \in Requests : LET q == request[r] IN
    /\ q.at # "Idle" => q.seller \in Sellers
    /\ q.at \in Verifying => q.doc \in Documents
    /\ q.at \in {"ExpireBefore", "SendOtp"} => q.doc \in Aadhaars

\* Seller s has the document, an OTP for it, or a verification of it under way.
Party(s, doc) ==
  \/ Holds(s, doc)
  \/ doc \in otps[s]
  \/ \E r \in Requests : request[r].doc = doc /\ request[r].seller = s

\* Until two sellers are at a document together, it concerns one of them.
OneParty ==
  \A doc \in Documents \ contested :
    \A s, other \in Sellers : Party(s, doc) /\ Party(other, doc) => s = other

\* Nobody gets past the KYC step without the documents every business needs,
\* and it is behind a seller whose documents are being corrected.
StepsEarned ==
  /\ \A s \in Sellers :
       /\ status[s] # "KYC_PENDING" => {"PAN", "AADHAAR"} \subseteq Verified(s)
       /\ issues[s] # {} => status[s] # "KYC_PENDING"
  /\ \A r \in Requests :
       request[r].at = "Resolve" => status[request[r].seller] # "KYC_PENDING"

\* A decision, and what a seller needs it for, come after an approval.
EndorsedFirst ==
  /\ \A s \in Sellers : override[s] = "APPROVED" \/ product[s] # "NONE" => s \in endorsed
  /\ \A r \in Requests : request[r].at = "Insert" => request[r].seller \in endorsed

DocumentsInv ==
  /\ RequestsNamed
  /\ OneParty
  /\ StepsEarned
  /\ EndorsedFirst

IInv == TypeOK /\ DocumentsInv

\* All but the requests and their count.
tables == <<business, status, issues, override, rows, otps, product, contested, endorsed>>

-----------------------------------------------------------------------------
(* Data *)

LEMMA TypeOfType ==
  \A doc \in Documents :
    /\ TypeOf(doc) \in KycType
    /\ doc \in Pans <=> TypeOf(doc) = "PAN"
    /\ doc \in Gsts <=> TypeOf(doc) = "GST"
    /\ doc \in Aadhaars <=> TypeOf(doc) = "AADHAAR"
<1>. SUFFICES ASSUME NEW doc \in Documents
              PROVE  /\ TypeOf(doc) \in KycType
                     /\ doc \in Pans <=> TypeOf(doc) = "PAN"
                     /\ doc \in Gsts <=> TypeOf(doc) = "GST"
                     /\ doc \in Aadhaars <=> TypeOf(doc) = "AADHAAR"
  OBVIOUS
<1>1. CASE doc \in Pans
  BY <1>1, KycAssumption DEF TypeOf, KycType
<1>2. CASE doc \in Gsts
  BY <1>2, KycAssumption DEF TypeOf, KycType
<1>3. CASE doc \in Aadhaars
  BY <1>3, KycAssumption DEF TypeOf, KycType
<1>. QED  BY <1>1, <1>2, <1>3 DEF Documents

\* As many types as the query counts are all there are, or none.
LEMMA CountOfTypes ==
  ASSUME NEW types \in SUBSET KycType
  PROVE  /\ Cardinality(types) \in Nat
         /\ Cardinality(types) = 0 <=> types = {}
         /\ Cardinality(types) >= 3 <=> types = KycType
         /\ {"PAN", "AADHAAR"} \subseteq types => Cardinality(types) >= 2
<1>. DEFINE two == {"PAN", "AADHAAR"}
<1>1. IsFiniteSet(two) /\ Cardinality(two) = 2
  <2>1. IsFiniteSet({"PAN"}) /\ Cardinality({"PAN"}) = 1
    BY FS_Singleton
  <2>2. two = {"PAN"} \cup {"AADHAAR"}
    OBVIOUS
  <2>. QED  BY <2>1, <2>2, FS_AddElement
<1>2. IsFiniteSet(KycType) /\ Cardinality(KycType) = 3
  <2>1. KycType = two \cup {"GST"} /\ "GST" \notin two
    BY DEF KycType
  <2>. QED  BY <1>1, <2>1, FS_AddElement
<1>3. /\ IsFiniteSet(types) /\ Cardinality(types) <= 3
      /\ Cardinality(types) = 3 => types = KycType
  BY <1>2, FS_Subset
<1>4. Cardinality(types) \in Nat
  BY <1>3, FS_CardinalityType
<1>5. two \subseteq types => Cardinality(types) >= 2
  BY <1>1, <1>3, FS_Subset
<1>. QED  BY <1>2, <1>3, <1>4, <1>5, FS_EmptySet

LEMMA ReplaceType ==
  ASSUME NEW S, NEW s \in Seq(S), NEW i, NEW x \in S
  PROVE  [s EXCEPT ![i] = x] \in Seq(S)
<1>1. s \in [1..Len(s) -> S] /\ Len(s) \in Nat
  OBVIOUS
<1>2. [s EXCEPT ![i] = x] \in [1..Len(s) -> S]
  BY <1>1
<1>. QED  BY <1>1, <1>2

LEMMA IdleType == Idle \in Request /\ Idle.at = "Idle" /\ Idle.doc = NULL
  BY DEF Idle, Request, Step, BusinessType

-----------------------------------------------------------------------------
(* The requests. In each lemma that of one slot changes, the others stay *)

LEMMA StartMoves ==
  ASSUME TypeOK, NEW r \in Requests, NEW next \in Request, Start(r, next)
  PROVE  /\ request' \in [Requests -> Request] /\ begun' \in 0..MaxRequests
         /\ request[r] = Idle
         /\ \A q \in Requests : request'[q] = IF q = r THEN next ELSE request[q]
BY KycAssumption DEF Start, TypeOK

LEMMA GotoMoves ==
  ASSUME TypeOK, NEW r \in Requests, NEW step \in Step, Goto(r, step)
  PROVE  /\ request' \in [Requests -> Request]
         /\ \A q \in Requests :
              /\ request'[q].at = IF q = r THEN step ELSE request[q].at
              /\ request'[q].seller = request[q].seller
              /\ request'[q].doc = request[q].doc
<1>1. /\ request \in [Requests -> Request] /\ request[r] \in Request
      /\ request' = [request EXCEPT ![r] = [request[r] EXCEPT !.at = step]]
  BY DEF Goto, TypeOK
<1>2. [request[r] EXCEPT !.at = step] \in Request
  BY <1>1 DEF Request
<1>3. /\ [request[r] EXCEPT !.at = step].at = step
      /\ [request[r] EXCEPT !.at = step].seller = request[r].seller
      /\ [request[r] EXCEPT !.at = step].doc = request[r].doc
  BY <1>1 DEF Request
<1>. QED  BY <1>1, <1>2, <1>3

LEMMA ReturnMoves ==
  ASSUME TypeOK, NEW r \in Requests, Return(r)
  PROVE  /\ request' \in [Requests -> Request]
         /\ \A q \in Requests : request'[q] = IF q = r THEN Idle ELSE request[q]
BY IdleType DEF Return, TypeOK

-----------------------------------------------------------------------------
(* Type correctness, and requests that know what they are about *)

LEMMA StartType ==
  ASSUME TypeOK, RequestsNamed, NEW r \in Requests, NEW s \in Sellers,
         NEW next \in Request, Start(r, next), next.seller = s,
         next.at \in Verifying => next.doc \in Documents,
         next.at \in {"ExpireBefore", "SendOtp"} => next.doc \in Aadhaars,
         UNCHANGED <<store, rows, otps, product, endorsed>>,
         contested' \subseteq Documents
  PROVE  TypeOK' /\ RequestsNamed'
<1>1. TypeOK'
  BY StartMoves DEF TypeOK, store
<1>2. RequestsNamed'
  BY StartMoves DEF RequestsNamed
<1>. QED  BY <1>1, <1>2

LEMMA GotoType ==
  ASSUME TypeOK, RequestsNamed, NEW r \in Requests, NEW step \in Step, Goto(r, step),
         request[r].at # "Idle", UNCHANGED <<tables, begun>>,
         step \in Verifying => request[r].doc \in Documents,
         step \in {"ExpireBefore", "SendOtp"} => request[r].doc \in Aadhaars
  PROVE  TypeOK' /\ RequestsNamed'
<1>1. TypeOK'
  BY GotoMoves DEF TypeOK, tables
<1>2. RequestsNamed'
  BY GotoMoves DEF RequestsNamed
<1>. QED  BY <1>1, <1>2

LEMMA ReturnType ==
  ASSUME TypeOK, RequestsNamed, NEW r \in Requests, Return(r), UNCHANGED tables,
         begun' \in 0..MaxRequests
  PROVE  TypeOK' /\ RequestsNamed'
<1>1. TypeOK'
  BY ReturnMoves DEF TypeOK, tables
<1>2. RequestsNamed'
  BY ReturnMoves, IdleType DEF RequestsNamed, Verifying
<1>. QED  BY <1>1, <1>2

\* The records that requests begin with.
LEMMA BeginTypes ==
  ASSUME NEW step \in Step, NEW s \in Sellers
  PROVE  /\ \A doc \in Documents : [Idle EXCEPT !.at = step, !.seller = s, !.doc = doc] \in Request
         /\ \A some \in SUBSET Section :
              [Idle EXCEPT !.at = step, !.seller = s, !.issues = some] \in Request
         /\ \A type \in BusinessType :
              [Idle EXCEPT !.at = step, !.seller = s, !.business = type] \in Request
         /\ [Idle EXCEPT !.at = step, !.seller = s] \in Request
<1>. DEFINE first == [Idle EXCEPT !.at = step, !.seller = s]
<1>1. first \in Request
  BY IdleType DEF Request
<1>2. ASSUME NEW doc \in Documents PROVE [Idle EXCEPT !.at = step, !.seller = s, !.doc = doc] \in Request
  BY IdleType DEF Request
<1>3. ASSUME NEW some \in SUBSET Section
      PROVE  [Idle EXCEPT !.at = step, !.seller = s, !.issues = some] \in Request
  BY IdleType DEF Request
<1>4. ASSUME NEW type \in BusinessType
      PROVE  [Idle EXCEPT !.at = step, !.seller = s, !.business = type] \in Request
  BY IdleType DEF Request
<1>. QED  BY <1>1, <1>2, <1>3, <1>4

LEMMA ReceiveType ==
  ASSUME TypeOK, RequestsNamed, NEW r \in Requests, Receive(r)
  PROVE  TypeOK' /\ RequestsNamed'
<1>. USE DEF history
<1>. {"AskPan", "AskGst", "ExpireBefore", "AskOtp", "Resolve", "ReviewKyc", "Decide", "Insert"}
       \subseteq Step
  BY DEF Step
<1>1. ASSUME NEW s \in Sellers, NEW doc \in Documents,
             NEW step \in {"AskPan", "AskGst", "ExpireBefore"}, BeginVerify(r, s, doc, step),
             step = "ExpireBefore" => doc \in Aadhaars
      PROVE  TypeOK' /\ RequestsNamed'
  <2>. DEFINE next == [Idle EXCEPT !.at = step, !.seller = s, !.doc = doc]
  <2>1. next \in Request /\ next.at = step /\ next.seller = s /\ next.doc = doc
    <3>1. next \in Request
      BY BeginTypes
    <3>2. next.at = step /\ next.seller = s /\ next.doc = doc
      BY DEF Idle
    <3>. QED  BY <3>1, <3>2
  <2>2. contested' \subseteq Documents
    BY <1>1 DEF BeginVerify, TypeOK
  <2>. HIDE DEF next
  <2>. QED  BY <1>1, <2>1, <2>2, StartType DEF BeginVerify, next
<1>2. CASE BeginVerifyPan(r) \/ BeginVerifyGst(r) \/ BeginGenerateOtp(r)
  BY <1>1, <1>2 DEF BeginVerifyPan, BeginVerifyGst, BeginGenerateOtp, Documents
<1>3. CASE BeginVerifyAadhaarOtp(r)
  <2>0. PICK s \in Sellers : \E aadhaar \in otps[s] :
          Start(r, [Idle EXCEPT !.at = "AskOtp", !.seller = s, !.doc = aadhaar])
    BY <1>3 DEF BeginVerifyAadhaarOtp
  <2>1. PICK aadhaar \in otps[s] :
          Start(r, [Idle EXCEPT !.at = "AskOtp", !.seller = s, !.doc = aadhaar])
    BY <2>0
  <2>. DEFINE next == [Idle EXCEPT !.at = "AskOtp", !.seller = s, !.doc = aadhaar]
  <2>2. aadhaar \in Documents
    BY DEF TypeOK, Documents
  <2>3. next \in Request /\ next.at = "AskOtp" /\ next.seller = s /\ next.doc = aadhaar
    <3>1. next \in Request
      BY <2>2, BeginTypes
    <3>2. next.at = "AskOtp" /\ next.seller = s /\ next.doc = aadhaar
      BY DEF Idle
    <3>. QED  BY <3>1, <3>2
  <2>4. UNCHANGED <<store, rows, otps, product, history>> /\ contested \subseteq Documents
    BY <1>3 DEF BeginVerifyAadhaarOtp, TypeOK
  <2>. HIDE DEF next
  <2>. QED  BY <2>1, <2>2, <2>3, <2>4, StartType DEF next
<1>4. CASE BeginCorrectProfile(r)
  <2>1. PICK s \in Sellers, type \in BusinessType :
          Start(r, [Idle EXCEPT !.at = "Resolve", !.seller = s, !.business = type])
    BY <1>4 DEF BeginCorrectProfile
  <2>. DEFINE next == [Idle EXCEPT !.at = "Resolve", !.seller = s, !.business = type]
  <2>2. next \in Request /\ next.at = "Resolve" /\ next.seller = s
    <3>1. next \in Request
      BY BeginTypes
    <3>2. next.at = "Resolve" /\ next.seller = s
      BY DEF Idle
    <3>. QED  BY <3>1, <3>2
  <2>3. UNCHANGED <<store, rows, otps, product, history>> /\ contested \subseteq Documents
    BY <1>4 DEF BeginCorrectProfile, TypeOK
  <2>. HIDE DEF next
  <2>. QED  BY <2>1, <2>2, <2>3, StartType DEF next, Verifying
<1>5. CASE BeginReview(r)
  <2>1. PICK s \in Sellers, rejected \in SUBSET Section :
          Start(r, [Idle EXCEPT !.at = IF rejected = {} THEN "ReviewKyc" ELSE "Decide",
                                !.seller = s, !.issues = rejected])
    BY <1>5 DEF BeginReview
  <2>. DEFINE next == [Idle EXCEPT !.at = IF rejected = {} THEN "ReviewKyc" ELSE "Decide",
                                   !.seller = s, !.issues = rejected]
  <2>2. next \in Request /\ next.at \in {"ReviewKyc", "Decide"} /\ next.seller = s
    <3>1. next \in Request
      BY BeginTypes
    <3>2. next.at \in {"ReviewKyc", "Decide"} /\ next.seller = s
      BY DEF Idle
    <3>. QED  BY <3>1, <3>2
  <2>3. UNCHANGED <<store, rows, otps, product, history>> /\ contested \subseteq Documents
    BY <1>5 DEF BeginReview, TypeOK
  <2>. HIDE DEF next
  <2>. QED  BY <2>1, <2>2, <2>3, StartType DEF next, Verifying
<1>6. CASE BeginCreateProduct(r)
  <2>1. PICK s \in Sellers : Start(r, [Idle EXCEPT !.at = "Insert", !.seller = s])
    BY <1>6 DEF BeginCreateProduct
  <2>. DEFINE next == [Idle EXCEPT !.at = "Insert", !.seller = s]
  <2>2. next \in Request /\ next.at = "Insert" /\ next.seller = s
    <3>1. next \in Request
      BY BeginTypes
    <3>2. next.at = "Insert" /\ next.seller = s
      BY DEF Idle
    <3>. QED  BY <3>1, <3>2
  <2>3. UNCHANGED <<store, rows, otps, product, history>> /\ contested \subseteq Documents
    BY <1>6 DEF BeginCreateProduct, TypeOK
  <2>. HIDE DEF next
  <2>. QED  BY <2>1, <2>2, <2>3, StartType DEF next, Verifying
<1>. QED  BY <1>2, <1>3, <1>4, <1>5, <1>6 DEF Receive

LEMMA ServeType ==
  ASSUME TypeOK, RequestsNamed, NEW r \in Requests, Serve(r)
  PROVE  TypeOK' /\ RequestsNamed'
<1>. USE DEF store, history, tables
<1>. /\ {"Idle", "MatchName", "Find", "SendOtp", "Save", "Mark", "IsOpen", "Resolve",
         "ExpireAfter", "Decide"} \subseteq Step
     /\ begun \in 0..MaxRequests
  BY DEF Step, TypeOK
<1>1. ASSUME NEW step \in {"AskPan", "MatchName", "AskGst", "AskOtp"}, NEW next \in {"MatchName", "Find"},
             Answers(r, step, next)
      PROVE  TypeOK' /\ RequestsNamed'
  BY <1>1, GotoType, ReturnType DEF Answers, At, RequestsNamed, Verifying
<1>2. CASE AskPan(r) \/ MatchName(r) \/ AskGst(r) \/ AskOtp(r)
  BY <1>1, <1>2 DEF AskPan, MatchName, AskGst, AskOtp
<1>3. CASE ExpireOtps(r)
  <2>1. /\ At(r, "ExpireBefore") \/ At(r, "ExpireAfter")
        /\ otps' = [otps EXCEPT ![request[r].seller] = {}]
        /\ (At(r, "ExpireBefore") /\ Goto(r, "SendOtp")) \/ Return(r)
        /\ UNCHANGED <<store, rows, product, begun, history>>
    BY <1>3 DEF ExpireOtps
  <2>2. otps' \in [Sellers -> SUBSET Aadhaars]
    BY <2>1 DEF TypeOK
  <2>3. TypeOK'
    BY <2>1, <2>2, GotoMoves, ReturnMoves DEF TypeOK
  <2>4. RequestsNamed'
    BY <2>1, GotoMoves, ReturnMoves, IdleType DEF At, RequestsNamed, Verifying
  <2>. QED  BY <2>3, <2>4
<1>4. CASE SendOtp(r)
  <2>1. request[r].doc \in Aadhaars /\ request[r].seller \in Sellers
    BY <1>4 DEF SendOtp, At, RequestsNamed
  <2>2. otps' \in [Sellers -> SUBSET Aadhaars]
    <3>1. otps[request[r].seller] \cup {request[r].doc} \in SUBSET Aadhaars
      BY <2>1 DEF TypeOK
    <3>. QED  BY <1>4, <3>1 DEF SendOtp, TypeOK
  <2>3. TypeOK'
    BY <1>4, <2>2, ReturnMoves DEF SendOtp, TypeOK
  <2>4. RequestsNamed'
    BY <1>4, ReturnMoves, IdleType DEF SendOtp, RequestsNamed, Verifying
  <2>. QED  BY <2>3, <2>4
<1>5. CASE FindRow(r)
  <2>1. PICK found \in IF RowsOf(r) = <<>> THEN {0} ELSE DOMAIN RowsOf(r) :
          request' = [request EXCEPT ![r].at = "Save", ![r].found = found]
    BY <1>5 DEF FindRow
  <2>2. At(r, "Find") /\ request[r].seller \in Sellers /\ request[r].doc \in Documents
    BY <1>5 DEF FindRow, At, RequestsNamed, Verifying
  <2>3. RowsOf(r) \in Seq(Documents)
    BY <2>2, TypeOfType DEF RowsOf, TypeOK
  <2>4. found \in Nat
    BY <2>3
  <2>5. request' \in [Requests -> Request]
    <3>1. request \in [Requests -> Request] /\ request[r] \in Request
      BY DEF TypeOK
    <3>2. [request[r] EXCEPT !.at = "Save", !.found = found] \in Request
      BY <2>4, <3>1 DEF Request, Step
    <3>3. request' = [request EXCEPT ![r] = [request[r] EXCEPT !.at = "Save", !.found = found]]
      BY <2>1, <3>1
    <3>. QED  BY <3>1, <3>2, <3>3
  <2>6. TypeOK'
    BY <1>5, <2>5 DEF FindRow, TypeOK
  <2>7. RequestsNamed'
    BY <2>1, <2>2 DEF RequestsNamed, Verifying, TypeOK, Request
  <2>. QED  BY <2>6, <2>7
<1>6. CASE SavePan(r) \/ SaveGst(r) \/ SaveAadhaar(r)
  <2>1. /\ At(r, "Save") /\ request[r].seller \in Sellers /\ request[r].doc \in Documents
        /\ UNCHANGED <<store, otps, product, begun, history>>
        /\ SaveRow(r) \/ (Return(r) /\ UNCHANGED rows)
    BY <1>6 DEF SavePan, SaveGst, SaveAadhaar, Saves, At, RequestsNamed, Verifying
  <2>2. CASE SaveRow(r)
    <3>1. RowsOf(r) \in Seq(Documents)
      BY <2>1, TypeOfType DEF RowsOf, TypeOK
    <3>2. PICK saved :
            /\ rows' = [rows EXCEPT ![request[r].seller][TypeOf(request[r].doc)] = saved]
            /\ saved = (IF request[r].found = 0 THEN Append(RowsOf(r), request[r].doc)
                        ELSE [RowsOf(r) EXCEPT ![request[r].found] = request[r].doc])
      BY <2>2 DEF SaveRow
    <3>3. saved \in Seq(Documents)
      BY <2>1, <3>1, <3>2, ReplaceType DEF TypeOK, Request
    <3>4. rows' \in [Sellers -> [KycType -> Seq(Documents)]]
      BY <2>1, <3>2, <3>3, TypeOfType DEF TypeOK
    <3>5. Goto(r, "Mark")
      BY <2>2 DEF SaveRow
    <3>6. TypeOK'
      BY <2>1, <3>4, <3>5, GotoMoves DEF TypeOK
    <3>7. RequestsNamed'
      BY <2>1, <3>5, GotoMoves DEF At, RequestsNamed, Verifying
    <3>. QED  BY <3>6, <3>7
  <2>. QED  BY <2>1, <2>2, ReturnType
<1>7. CASE Mark(r)
  <2>1. /\ At(r, "Mark") /\ Goto(r, "IsOpen")
        /\ UNCHANGED <<business, issues, override, rows, otps, product, begun, history>>
        /\ status' \in [Sellers -> OnboardingStatus]
    BY <1>7 DEF Mark, TypeOK, OnboardingStatus
  <2>2. TypeOK'
    BY <2>1, GotoMoves DEF TypeOK
  <2>3. RequestsNamed'
    BY <2>1, GotoMoves DEF At, RequestsNamed, Verifying
  <2>. QED  BY <2>2, <2>3
<1>8. CASE IsOpen(r)
  BY <1>8, GotoType, ReturnType DEF IsOpen, Leave, At, RequestsNamed, Verifying
<1>9. CASE Resolve(r)
  <2>1. /\ Leave(r) /\ UNCHANGED <<override, rows, otps, product, begun, history>>
        /\ issues' \in [Sellers -> SUBSET Section]
        /\ status' \in [Sellers -> OnboardingStatus]
    BY <1>9 DEF Resolve, TypeOK, OnboardingStatus
  <2>2. request[r].business \in BusinessType /\ request[r].at = "Resolve"
    BY <1>9 DEF Resolve, TypeOK, Request, At
  <2>3. business' \in [Sellers -> BusinessType]
    BY <1>9, <2>2 DEF Resolve, TypeOK
  <2>4. TypeOK'
    BY <2>1, <2>3, GotoMoves, ReturnMoves DEF Leave, TypeOK
  <2>5. RequestsNamed'
    BY <2>1, <2>2, GotoMoves, ReturnMoves, IdleType DEF Leave, RequestsNamed, Verifying, Documents
  <2>. QED  BY <2>4, <2>5
<1>10. CASE ReviewKyc(r)
  BY <1>10, GotoType, ReturnType DEF ReviewKyc, At, Verifying
<1>11. CASE Decide(r)
  <2>1. /\ request[r].at = "Decide" /\ Return(r)
        /\ UNCHANGED <<business, rows, otps, product, begun, contested>>
    BY <1>11 DEF Decide, At
  <2>2. request[r].issues \subseteq Section /\ request[r].seller \in Sellers
    BY <2>1 DEF TypeOK, Request, RequestsNamed
  <2>3. /\ status' \in [Sellers -> OnboardingStatus]
        /\ override' \in [Sellers -> {"APPROVED", "REJECTED", NULL}]
        /\ issues' \in [Sellers -> SUBSET Section]
        /\ endorsed' \subseteq Sellers
    <3>1. issues[request[r].seller] \cup request[r].issues \in SUBSET Section
      BY <2>2 DEF TypeOK
    <3>2. CASE UNCHANGED <<status, override, issues, endorsed>>
      BY <3>2 DEF TypeOK
    <3>3. ASSUME NEW decision \in {"APPROVED", "REJECTED"},
                 status' = [status EXCEPT ![request[r].seller] = decision],
                 override' = [override EXCEPT ![request[r].seller] = decision]
          PROVE  /\ status' \in [Sellers -> OnboardingStatus]
                 /\ override' \in [Sellers -> {"APPROVED", "REJECTED", NULL}]
      BY <3>3 DEF TypeOK, OnboardingStatus
    <3>4. CASE status[request[r].seller] = "PENDING_APPROVAL"
      <4>1. issues' \in [Sellers -> SUBSET Section]
        <5>1. issues' = [issues EXCEPT ![request[r].seller] = @ \cup request[r].issues]
          BY <1>11, <3>4 DEF Decide
        <5>. QED  BY <3>1, <5>1 DEF TypeOK
      <4>2. endorsed' \subseteq Sellers
        BY <1>11, <2>2, <3>4 DEF Decide, TypeOK
      <4>. QED  BY <1>11, <3>3, <3>4, <4>1, <4>2 DEF Decide
    <3>. QED  BY <1>11, <3>2, <3>4 DEF Decide
  <2>4. TypeOK'
    BY <2>1, <2>3, ReturnMoves DEF TypeOK
  <2>5. RequestsNamed'
    BY <2>1, ReturnMoves, IdleType DEF RequestsNamed, Verifying
  <2>. QED  BY <2>4, <2>5
<1>12. CASE InsertProduct(r)
  <2>1. /\ Return(r) /\ UNCHANGED <<store, rows, otps, begun, history>>
        /\ product' \in [Sellers -> {"NONE", "PENDING", "APPROVED"}]
    BY <1>12 DEF InsertProduct, TypeOK
  <2>2. TypeOK'
    BY <2>1, ReturnMoves DEF TypeOK
  <2>3. RequestsNamed'
    BY <2>1, ReturnMoves, IdleType DEF RequestsNamed, Verifying
  <2>. QED  BY <2>2, <2>3
<1>13. CASE Abandon(r)
  BY <1>13, ReturnType, KycAssumption DEF Abandon
<1>. QED  BY <1>2, <1>3, <1>4, <1>5, <1>6, <1>7, <1>8, <1>9, <1>10, <1>11, <1>12, <1>13 DEF Serve
-----------------------------------------------------------------------------
(* The invariant *)

LEMMA PartyShrinks ==
  ASSUME OneParty, contested \subseteq contested',
         \A doc \in Documents, s \in Sellers : Party(s, doc)' => Party(s, doc)
  PROVE  OneParty'
BY DEF OneParty

LEMMA EarnedGoes ==
  ASSUME StepsEarned,
         \A s \in Sellers :
           /\ Verified(s) \subseteq Verified(s)'
           /\ status'[s] # "KYC_PENDING" =>
                status[s] # "KYC_PENDING" \/ {"PAN", "AADHAAR"} \subseteq Verified(s)'
           /\ issues'[s] # {} => status'[s] # "KYC_PENDING"
           /\ status[s] # "KYC_PENDING" => status'[s] # "KYC_PENDING",
         \A r \in Requests :
           request'[r].at = "Resolve" =>
             \/ request[r].at = "Resolve" /\ request'[r].seller = request[r].seller
                  /\ request[r].seller \in Sellers
             \/ status'[request'[r].seller] # "KYC_PENDING"
  PROVE  StepsEarned'
BY DEF StepsEarned

LEMMA EndorsementGoes ==
  ASSUME EndorsedFirst, endorsed \subseteq endorsed',
         \A s \in Sellers :
           /\ override'[s] = "APPROVED" => override[s] = "APPROVED" \/ s \in endorsed'
           /\ product'[s] # "NONE" => product[s] # "NONE" \/ s \in endorsed',
         \A r \in Requests :
           request'[r].at = "Insert" =>
             \/ request[r].at = "Insert" /\ request'[r].seller = request[r].seller
             \/ request'[r].seller \in endorsed'
  PROVE  EndorsedFirst'
BY DEF EndorsedFirst

\* A step that changes only what requests carry keeps the invariant if what it
\* leads them to is justified.
LEMMA QuietKeeps ==
  ASSUME IInv, UNCHANGED tables,
         \A q \in Requests :
           /\ request'[q].doc \in Documents =>
                \/ request'[q].doc = request[q].doc /\ request'[q].seller = request[q].seller
                \/ request'[q].doc \in otps[request'[q].seller]
           /\ request'[q].at = "Resolve" =>
                \/ request[q].at = "Resolve" /\ request'[q].seller = request[q].seller
                \/ status[request'[q].seller] # "KYC_PENDING"
           /\ request'[q].at = "Insert" =>
                \/ request[q].at = "Insert" /\ request'[q].seller = request[q].seller
                \/ request'[q].seller \in endorsed
  PROVE  OneParty' /\ StepsEarned' /\ EndorsedFirst'
<1>. USE DEF IInv, DocumentsInv, tables
<1>1. OneParty'
  BY PartyShrinks DEF Party, Holds
<1>2. StepsEarned'
  BY EarnedGoes DEF StepsEarned, RequestsNamed, Verified
<1>3. EndorsedFirst'
  BY EndorsementGoes
<1>. QED  BY <1>1, <1>2, <1>3

LEMMA GotoKeeps ==
  ASSUME IInv, NEW r \in Requests, NEW step \in Step, Goto(r, step), UNCHANGED tables,
         step # "Insert", step = "Resolve" => status[request[r].seller] # "KYC_PENDING"
  PROVE  OneParty' /\ StepsEarned' /\ EndorsedFirst'
BY GotoMoves, QuietKeeps DEF IInv

LEMMA ReturnKeeps ==
  ASSUME IInv, NEW r \in Requests, Return(r), UNCHANGED tables
  PROVE  OneParty' /\ StepsEarned' /\ EndorsedFirst'
BY ReturnMoves, IdleType, QuietKeeps, KycAssumption DEF IInv

LEMMA BeginVerifyKeeps ==
  ASSUME IInv, NEW r \in Requests, NEW s \in Sellers, NEW doc \in Documents,
         NEW step \in {"AskPan", "AskGst", "ExpireBefore"}, BeginVerify(r, s, doc, step)
  PROVE  OneParty' /\ StepsEarned' /\ EndorsedFirst'
<1>. DEFINE next == [Idle EXCEPT !.at = step, !.seller = s, !.doc = doc]
<1>. USE DEF IInv, DocumentsInv
<1>1. /\ next.at = step /\ next.seller = s /\ next.doc = doc
      /\ step \notin {"Resolve", "Insert"} /\ step \in Step
  BY DEF Idle, Step
<1>2. next \in Request
  BY <1>1, BeginTypes
<1>3. /\ Start(r, next) /\ ~InUse(s, doc)
      /\ contested' = IF UnderWay(s, doc) THEN contested \cup {doc} ELSE contested
      /\ UNCHANGED <<business, status, issues, override, rows, otps, product, endorsed>>
  BY DEF BeginVerify, store
<1>. HIDE DEF next
<1>4. \A q \in Requests : request'[q] = IF q = r THEN next ELSE request[q]
  BY <1>2, <1>3, StartMoves
<1>5. OneParty'
  <2>1. \A d \in Documents, t \in Sellers : Party(t, d)' => Party(t, d) \/ (t = s /\ d = doc)
    BY <1>1, <1>3, <1>4 DEF Party, Holds
  <2>2. UnderWay(s, doc) \/ \A t \in Sellers : Party(t, doc) => t = s
    BY <1>3 DEF UnderWay, InUse, Party
  <2>3. contested \subseteq contested' /\ (doc \notin contested' => ~UnderWay(s, doc))
    BY <1>3
  <2>. QED  BY <2>1, <2>2, <2>3 DEF OneParty
<1>6. StepsEarned'
  BY <1>1, <1>3, <1>4, EarnedGoes DEF StepsEarned, RequestsNamed, Verified
<1>7. EndorsedFirst'
  BY <1>1, <1>3, <1>4, EndorsementGoes
<1>. QED  BY <1>5, <1>6, <1>7

LEMMA ReceiveKeeps ==
  ASSUME IInv, NEW r \in Requests, Receive(r)
  PROVE  OneParty' /\ StepsEarned' /\ EndorsedFirst'
<1>. USE DEF IInv, DocumentsInv
<1>1. CASE BeginVerifyPan(r) \/ BeginVerifyGst(r) \/ BeginGenerateOtp(r)
  BY <1>1, BeginVerifyKeeps DEF BeginVerifyPan, BeginVerifyGst, BeginGenerateOtp, Documents
<1>2. ASSUME NEW s \in Sellers, NEW next \in Request, Start(r, next), next.seller = s,
             next.doc = NULL \/ next.doc \in otps[s],
             next.at = "Resolve" => status[s] # "KYC_PENDING",
             next.at = "Insert" => s \in endorsed,
             UNCHANGED <<store, rows, otps, product, history>>
      PROVE  OneParty' /\ StepsEarned' /\ EndorsedFirst'
  <2>1. UNCHANGED tables
    BY <1>2 DEF tables, store, history
  <2>2. \A q \in Requests : request'[q] = IF q = r THEN next ELSE request[q]
    BY <1>2, StartMoves
  <2>. QED  BY <1>2, <2>1, <2>2, QuietKeeps, KycAssumption
<1>. {"AskOtp", "Resolve", "ReviewKyc", "Decide", "Insert"} \subseteq Step
  BY DEF Step
<1>3. CASE BeginVerifyAadhaarOtp(r)
  <2>1. PICK s \in Sellers : \E aadhaar \in otps[s] :
          Start(r, [Idle EXCEPT !.at = "AskOtp", !.seller = s, !.doc = aadhaar])
    BY <1>3 DEF BeginVerifyAadhaarOtp
  <2>2. PICK aadhaar \in otps[s] :
          Start(r, [Idle EXCEPT !.at = "AskOtp", !.seller = s, !.doc = aadhaar])
    BY <2>1
  <2>. DEFINE next == [Idle EXCEPT !.at = "AskOtp", !.seller = s, !.doc = aadhaar]
  <2>3. aadhaar \in Documents
    BY DEF TypeOK, Documents
  <2>4. next \in Request
    BY <2>3, BeginTypes
  <2>5. next.at = "AskOtp" /\ next.seller = s /\ next.doc = aadhaar
    BY DEF Idle
  <2>6. UNCHANGED <<store, rows, otps, product, history>>
    BY <1>3 DEF BeginVerifyAadhaarOtp
  <2>. HIDE DEF next
  <2>. QED  BY <1>2, <2>2, <2>4, <2>5, <2>6 DEF next
<1>4. CASE BeginCorrectProfile(r)
  <2>1. PICK s \in Sellers, type \in BusinessType :
          /\ status[s] = "REJECTED"
          /\ Start(r, [Idle EXCEPT !.at = "Resolve", !.seller = s, !.business = type])
    BY <1>4 DEF BeginCorrectProfile
  <2>. DEFINE next == [Idle EXCEPT !.at = "Resolve", !.seller = s, !.business = type]
  <2>2. next \in Request
    BY BeginTypes
  <2>3. next.at = "Resolve" /\ next.seller = s /\ next.doc = NULL
    BY DEF Idle
  <2>4. UNCHANGED <<store, rows, otps, product, history>>
    BY <1>4 DEF BeginCorrectProfile
  <2>. HIDE DEF next
  <2>. QED  BY <1>2, <2>1, <2>2, <2>3, <2>4 DEF next
<1>5. CASE BeginReview(r)
  <2>1. PICK s \in Sellers, rejected \in SUBSET Section :
          Start(r, [Idle EXCEPT !.at = IF rejected = {} THEN "ReviewKyc" ELSE "Decide",
                                !.seller = s, !.issues = rejected])
    BY <1>5 DEF BeginReview
  <2>. DEFINE next == [Idle EXCEPT !.at = IF rejected = {} THEN "ReviewKyc" ELSE "Decide",
                                   !.seller = s, !.issues = rejected]
  <2>2. next \in Request
    BY BeginTypes
  <2>3. next.at \in {"ReviewKyc", "Decide"} /\ next.seller = s /\ next.doc = NULL
    BY DEF Idle
  <2>4. UNCHANGED <<store, rows, otps, product, history>>
    BY <1>5 DEF BeginReview
  <2>. HIDE DEF next
  <2>. QED  BY <1>2, <2>1, <2>2, <2>3, <2>4 DEF next
<1>6. CASE BeginCreateProduct(r)
  <2>1. PICK s \in Sellers :
          KycApproved(s) /\ Start(r, [Idle EXCEPT !.at = "Insert", !.seller = s])
    BY <1>6 DEF BeginCreateProduct
  <2>. DEFINE next == [Idle EXCEPT !.at = "Insert", !.seller = s]
  <2>2. next \in Request
    BY BeginTypes
  <2>3. next.at = "Insert" /\ next.seller = s /\ next.doc = NULL
    BY DEF Idle
  <2>4. UNCHANGED <<store, rows, otps, product, history>> /\ s \in endorsed
    BY <1>6, <2>1 DEF BeginCreateProduct, KycApproved, EndorsedFirst
  <2>. HIDE DEF next
  <2>. QED  BY <1>2, <2>1, <2>2, <2>3, <2>4 DEF next
<1>. QED  BY <1>1, <1>3, <1>4, <1>5, <1>6 DEF Receive

\* Steps that leave everything but the requests alone.
LEMMA ServeQuietly ==
  ASSUME IInv, NEW r \in Requests,
         \/ AskPan(r) \/ MatchName(r) \/ AskGst(r) \/ AskOtp(r) \/ FindRow(r) \/ IsOpen(r)
         \/ ReviewKyc(r) \/ Abandon(r)
  PROVE  OneParty' /\ StepsEarned' /\ EndorsedFirst'
<1>. USE DEF store, history, tables
<1>. {"MatchName", "Find", "Resolve", "ExpireAfter", "Decide"} \subseteq Step
  BY DEF Step
<1>1. CASE AskPan(r) \/ MatchName(r) \/ AskGst(r) \/ AskOtp(r)
  BY <1>1, GotoKeeps, ReturnKeeps DEF AskPan, MatchName, AskGst, AskOtp, Answers
<1>2. CASE FindRow(r)
  <2>1. /\ \A q \in Requests : request'[q].doc = request[q].doc /\ request'[q].seller = request[q].seller
        /\ \A q \in Requests \ {r} : request'[q] = request[q]
        /\ request'[r].at = "Save"
    <3>1. PICK found : request' = [request EXCEPT ![r].at = "Save", ![r].found = found]
      BY <1>2 DEF FindRow
    <3>. QED  BY <3>1 DEF IInv, TypeOK, Request
  <2>. QED  BY <1>2, <2>1, QuietKeeps DEF FindRow
<1>3. CASE IsOpen(r)
  <2>1. /\ At(r, "IsOpen") /\ UNCHANGED tables
        /\ \/ TypeOf(request[r].doc) \in issues[request[r].seller] /\ Goto(r, "Resolve")
           \/ Goto(r, "ExpireAfter") \/ Return(r)
    BY <1>3 DEF IsOpen, Leave
  <2>2. request[r].seller \in Sellers
    BY <2>1 DEF At, IInv, DocumentsInv, RequestsNamed
  <2>3. issues[request[r].seller] # {} => status[request[r].seller] # "KYC_PENDING"
    BY <2>2 DEF IInv, DocumentsInv, StepsEarned
  <2>. QED  BY <2>1, <2>3, GotoKeeps, ReturnKeeps
<1>4. CASE ReviewKyc(r)
  BY <1>4, GotoKeeps, ReturnKeeps DEF ReviewKyc
<1>5. CASE Abandon(r)
  BY <1>5, ReturnKeeps DEF Abandon
<1>. QED  BY <1>1, <1>2, <1>3, <1>4, <1>5

\* The one-time passwords: an OTP is for the document of the request.
LEMMA ServeOtps ==
  ASSUME IInv, NEW r \in Requests, ExpireOtps(r) \/ SendOtp(r)
  PROVE  OneParty' /\ StepsEarned' /\ EndorsedFirst'
<1>. USE DEF IInv, DocumentsInv
<1>1. /\ UNCHANGED <<business, status, issues, override, rows, product, contested, endorsed>>
      /\ At(r, "ExpireBefore") \/ At(r, "ExpireAfter") \/ At(r, "SendOtp")
      /\ Goto(r, "SendOtp") \/ Return(r)
      /\ \A s \in Sellers : \A doc \in otps'[s] :
           doc \in otps[s] \/ (s = request[r].seller /\ doc = request[r].doc)
  BY DEF ExpireOtps, SendOtp, store, history, TypeOK
<1>2. \A q \in Requests :
        /\ \/ request'[q].doc = request[q].doc /\ request'[q].seller = request[q].seller
           \/ request'[q].doc = NULL
        /\ request'[q] = request[q] \/ request'[q].at \in {"Idle", "SendOtp"}
  <2>1. CASE Goto(r, "SendOtp")
    BY <2>1 DEF Goto, TypeOK, Request
  <2>. QED  BY <1>1, <2>1, ReturnMoves, IdleType
<1>3. OneParty'
  <2>1. ASSUME NEW doc \in Documents, NEW s \in Sellers, Party(s, doc)'
        PROVE  Party(s, doc)
    BY <1>1, <1>2, <2>1, KycAssumption DEF Party, Holds
  <2>. QED  BY <1>1, <2>1, PartyShrinks
<1>4. StepsEarned'
  <2>1. \A s \in Sellers : Verified(s)' = Verified(s)
    BY <1>1 DEF Verified
  <2>. QED  BY <1>1, <1>2, <2>1, EarnedGoes DEF StepsEarned, RequestsNamed
<1>5. EndorsedFirst'
  BY <1>1, <1>2, EndorsementGoes
<1>. QED  BY <1>3, <1>4, <1>5

\* A row that is saved names the document of the request, and rows only grow.
LEMMA ServeSave ==
  ASSUME IInv, NEW r \in Requests, SavePan(r) \/ SaveGst(r) \/ SaveAadhaar(r)
  PROVE  OneParty' /\ StepsEarned' /\ EndorsedFirst'
<1>. USE DEF IInv, DocumentsInv
<1>. DEFINE owner == request[r].seller
            paper == request[r].doc
            old == rows[owner][TypeOf(paper)]
<1>1. /\ At(r, "Save") /\ owner \in Sellers /\ paper \in Documents
      /\ UNCHANGED <<store, otps, product, begun, history>>
      /\ SaveRow(r) \/ (Return(r) /\ UNCHANGED rows)
  BY DEF SavePan, SaveGst, SaveAadhaar, Saves, At, RequestsNamed, Verifying
<1>2. CASE Return(r) /\ UNCHANGED rows
  BY <1>1, <1>2, ReturnKeeps DEF tables, store, history
<1>3. CASE SaveRow(r)
  <2>1. /\ TypeOf(paper) \in KycType /\ old \in Seq(Documents) /\ "Mark" \in Step
    BY <1>1, TypeOfType DEF TypeOK, Step
  <2>2. PICK saved :
          /\ rows' = [rows EXCEPT ![owner][TypeOf(paper)] = saved]
          /\ saved = (IF request[r].found = 0 THEN Append(old, paper)
                      ELSE [old EXCEPT ![request[r].found] = paper])
    BY <1>3 DEF SaveRow, RowsOf
  <2>3. saved \in Seq(Documents)
    <3>. HIDE DEF old, paper
    <3>1. Append(old, paper) \in Seq(Documents)
      BY <1>1, <2>1
    <3>2. [old EXCEPT ![request[r].found] = paper] \in Seq(Documents)
      BY <1>1, <2>1, ReplaceType
    <3>. QED  BY <2>2, <3>1, <3>2
  <2>4. /\ \A doc \in ToSet(saved) : doc \in ToSet(old) \/ doc = paper
        /\ old # <<>> => saved # <<>>
    <3>. HIDE DEF old, paper
    <3>1. CASE saved = Append(old, paper)
      BY <1>1, <2>1, <3>1 DEF ToSet
    <3>2. CASE saved = [old EXCEPT ![request[r].found] = paper]
      <4>1. DOMAIN saved = DOMAIN old
            /\ \A i \in DOMAIN saved : saved[i] = old[i] \/ saved[i] = paper
        BY <3>2
      <4>2. old # <<>> => saved # <<>>
        BY <2>1, <2>3, <4>1
      <4>. QED  BY <4>1, <4>2 DEF ToSet
    <3>. QED  BY <2>2, <3>1, <3>2 DEF old, paper
  <2>. HIDE DEF old
  <2>5. \A s \in Sellers, type \in KycType :
          rows'[s][type] = IF s = owner /\ type = TypeOf(paper) THEN saved ELSE rows[s][type]
    BY <1>1, <2>1, <2>2 DEF TypeOK
  <2>6. \A s \in Sellers : Verified(s) \subseteq Verified(s)'
    BY <2>4, <2>5 DEF Verified, old
  <2>7. Goto(r, "Mark")
    BY <1>3 DEF SaveRow
  <2>8. \A q \in Requests :
          /\ request'[q].at = IF q = r THEN "Mark" ELSE request[q].at
          /\ request'[q].seller = request[q].seller
          /\ request'[q].doc = request[q].doc
    BY <2>1, <2>7, GotoMoves
  <2>9. OneParty'
    <3>1. ASSUME NEW doc \in Documents, NEW s \in Sellers, Party(s, doc)'
          PROVE  Party(s, doc)
      <4>1. Holds(s, doc)' => Holds(s, doc) \/ (s = owner /\ doc = paper)
        BY <2>4, <2>5, TypeOfType DEF Holds, old
      <4>2. Party(owner, paper)
        BY <1>1 DEF Party
      <4>. QED  BY <1>1, <2>8, <3>1, <4>1, <4>2 DEF Party
    <3>. QED  BY <1>1, <3>1, PartyShrinks DEF history
  <2>10. StepsEarned'
    BY <1>1, <2>6, <2>8, EarnedGoes DEF StepsEarned, RequestsNamed, store
  <2>11. EndorsedFirst'
    BY <1>1, <2>8, EndorsementGoes DEF store, history
  <2>. QED  BY <2>9, <2>10, <2>11
<1>. QED  BY <1>1, <1>2, <1>3

\* The onboarding: nobody returns to the KYC step.
LEMMA ServeStatus ==
  ASSUME IInv, NEW r \in Requests, Mark(r) \/ Resolve(r)
  PROVE  OneParty' /\ StepsEarned' /\ EndorsedFirst'
<1>. USE DEF IInv, DocumentsInv
<1>. DEFINE s == request[r].seller
<1>1. /\ UNCHANGED <<override, rows, otps, product, contested, endorsed>>
      /\ s \in Sellers
      /\ \A t \in Sellers \ {s} : status'[t] = status[t] /\ issues'[t] = issues[t]
      /\ issues'[s] # {} => status'[s] # "KYC_PENDING"
      /\ status[s] # "KYC_PENDING" => status'[s] # "KYC_PENDING"
      /\ status'[s] # "KYC_PENDING" =>
           status[s] # "KYC_PENDING" \/ {"PAN", "AADHAAR"} \subseteq Verified(s)
  <2>1. CASE Mark(r)
    <3>1. s \in Sellers
      BY <2>1 DEF Mark, At, RequestsNamed
    <3>2. RequiredKyc(s) \subseteq Verified(s) => {"PAN", "AADHAAR"} \subseteq Verified(s)
      BY DEF RequiredKyc, KycType
    <3>. QED  BY <2>1, <3>1, <3>2 DEF Mark, history, TypeOK, StepsEarned
  <2>2. CASE Resolve(r)
    BY <2>2 DEF Resolve, At, history, RequestsNamed, TypeOK, StepsEarned
  <2>. QED  BY <2>1, <2>2
<1>2. /\ Goto(r, "IsOpen") \/ Goto(r, "ExpireAfter") \/ Return(r)
      /\ {"IsOpen", "ExpireAfter"} \subseteq Step
  BY DEF Mark, Resolve, Leave, Step
<1>3. \A q \in Requests :
        /\ \/ request'[q].doc = request[q].doc /\ request'[q].seller = request[q].seller
           \/ request'[q].doc = NULL
        /\ \/ request'[q].at = request[q].at /\ request'[q].seller = request[q].seller
           \/ request'[q].at \notin {"Resolve", "Insert"}
  BY <1>2, GotoMoves, ReturnMoves, IdleType
<1>4. \A t \in Sellers : Verified(t)' = Verified(t)
  BY <1>1 DEF Verified
<1>. HIDE DEF s
<1>5. OneParty'
  <2>1. ASSUME NEW doc \in Documents, NEW t \in Sellers, Party(t, doc)'
        PROVE  Party(t, doc)
    BY <1>1, <1>3, <2>1, KycAssumption DEF Party, Holds
  <2>. QED  BY <1>1, <2>1, PartyShrinks
<1>6. StepsEarned'
  BY <1>1, <1>3, <1>4, EarnedGoes DEF StepsEarned, RequestsNamed
<1>7. EndorsedFirst'
  BY <1>1, <1>3, EndorsementGoes
<1>. QED  BY <1>5, <1>6, <1>7

\* A decision, and a product, which a seller creates once approved.
LEMMA ServeDecision ==
  ASSUME IInv, NEW r \in Requests, Decide(r) \/ InsertProduct(r)
  PROVE  OneParty' /\ StepsEarned' /\ EndorsedFirst'
<1>. USE DEF IInv, DocumentsInv
<1>1. /\ UNCHANGED <<business, rows, otps, contested>> /\ Return(r)
      /\ At(r, "Decide") \/ At(r, "Insert")
  BY DEF Decide, InsertProduct, store, history
<1>2. request[r].seller \in Sellers
  BY <1>1 DEF At, RequestsNamed
<1>3. \A s \in Sellers :
        /\ status'[s] # "KYC_PENDING" <=> status[s] # "KYC_PENDING"
        /\ issues'[s] # {} => status'[s] # "KYC_PENDING"
        /\ override'[s] = "APPROVED" => override[s] = "APPROVED" \/ s \in endorsed'
        /\ product'[s] # "NONE" => product[s] # "NONE" \/ s \in endorsed'
  <2>1. CASE Decide(r)
    <3>1. CASE status[request[r].seller] = "PENDING_APPROVAL"
      BY <1>2, <2>1, <3>1 DEF Decide, TypeOK, StepsEarned
    <3>2. CASE status[request[r].seller] # "PENDING_APPROVAL"
      BY <2>1, <3>2 DEF Decide, StepsEarned
    <3>. QED  BY <3>1, <3>2
  <2>2. CASE InsertProduct(r)
    BY <1>2, <2>2 DEF InsertProduct, At, store, history, TypeOK, StepsEarned, EndorsedFirst
  <2>. QED  BY <2>1, <2>2
<1>4. endorsed \subseteq endorsed'
  BY DEF Decide, InsertProduct, history
<1>5. \A q \in Requests : request'[q] = IF q = r THEN Idle ELSE request[q]
  BY <1>1, ReturnMoves
<1>6. \A s \in Sellers : Verified(s)' = Verified(s)
  BY <1>1 DEF Verified
<1>7. OneParty'
  <2>1. ASSUME NEW doc \in Documents, NEW s \in Sellers, Party(s, doc)'
        PROVE  Party(s, doc)
    BY <1>1, <1>5, <2>1, IdleType, KycAssumption DEF Party, Holds
  <2>. QED  BY <1>1, <2>1, PartyShrinks
<1>8. StepsEarned'
  BY <1>3, <1>5, <1>6, IdleType, EarnedGoes DEF RequestsNamed
<1>9. EndorsedFirst'
  BY <1>3, <1>4, <1>5, IdleType, EndorsementGoes
<1>. QED  BY <1>7, <1>8, <1>9

LEMMA ServeKeeps ==
  ASSUME IInv, NEW r \in Requests, Serve(r)
  PROVE  OneParty' /\ StepsEarned' /\ EndorsedFirst'
BY ServeQuietly, ServeOtps, ServeSave, ServeStatus, ServeDecision DEF Serve

\* What happens without a request.
LEMMA SellerKeeps ==
  ASSUME IInv, NEW s \in Sellers, OtpLapses(s) \/ SubmitForReview(s) \/ ApproveProduct(s)
  PROVE  IInv'
<1>. USE DEF IInv, DocumentsInv
<1>1. UNCHANGED <<business, issues, override, rows, request, begun, contested, endorsed>>
  BY DEF OtpLapses, SubmitForReview, ApproveProduct, store, history
<1>2. /\ status' \in [Sellers -> OnboardingStatus]
      /\ otps' \in [Sellers -> SUBSET Aadhaars]
      /\ product' \in [Sellers -> {"NONE", "PENDING", "APPROVED"}]
      /\ \A t \in Sellers :
           /\ otps'[t] \subseteq otps[t]
           /\ product'[t] # "NONE" => product[t] # "NONE"
           /\ status[t] # "KYC_PENDING" => status'[t] # "KYC_PENDING"
           /\ status'[t] # "KYC_PENDING" =>
                status[t] # "KYC_PENDING" \/ {"PAN", "AADHAAR"} \subseteq Verified(t)
  <2>1. CASE OtpLapses(s)
    BY <2>1 DEF OtpLapses, store, TypeOK
  <2>2. CASE SubmitForReview(s)
    <3>1. status[s] # "KYC_PENDING" \/ {"PAN", "AADHAAR"} \subseteq Verified(s)
      BY <2>2 DEF SubmitForReview, RequiredKyc, KycType
    <3>. QED  BY <2>2, <3>1 DEF SubmitForReview, TypeOK, OnboardingStatus
  <2>3. CASE ApproveProduct(s)
    BY <2>3 DEF ApproveProduct, store, TypeOK
  <2>. QED  BY <2>1, <2>2, <2>3
<1>3. TypeOK'
  BY <1>1, <1>2 DEF TypeOK
<1>4. RequestsNamed'
  BY <1>1 DEF RequestsNamed
<1>5. OneParty'
  <2>1. ASSUME NEW doc \in Documents, NEW t \in Sellers, Party(t, doc)'
        PROVE  Party(t, doc)
    BY <1>1, <1>2, <2>1 DEF Party, Holds
  <2>. QED  BY <1>1, <2>1, PartyShrinks
<1>6. StepsEarned'
  <2>1. \A t \in Sellers : Verified(t)' = Verified(t)
    BY <1>1 DEF Verified
  <2>. QED  BY <1>1, <1>2, <2>1, EarnedGoes DEF StepsEarned, RequestsNamed
<1>7. EndorsedFirst'
  BY <1>1, <1>2, EndorsementGoes
<1>. QED  BY <1>3, <1>4, <1>5, <1>6, <1>7

LEMMA InitInv == Init => IInv
<1>. SUFFICES ASSUME Init PROVE IInv
  OBVIOUS
<1>1. TypeOK
  BY IdleType, KycAssumption DEF Init, TypeOK, OnboardingStatus, KycType
<1>2. \A r \in Requests : request[r] = Idle
  BY DEF Init
<1>3. RequestsNamed /\ EndorsedFirst
  BY <1>2, IdleType, KycAssumption DEF Init, RequestsNamed, Verifying, EndorsedFirst
<1>4. StepsEarned
  BY <1>2, IdleType DEF Init, StepsEarned
<1>5. OneParty
  BY <1>2, IdleType, KycAssumption, TypeOfType DEF Init, OneParty, Party, Holds, ToSet
<1>. QED  BY <1>1, <1>3, <1>4, <1>5 DEF IInv, DocumentsInv

LEMMA NextInv == IInv /\ [Next]_vars => IInv'
<1>. SUFFICES ASSUME IInv, [Next]_vars PROVE IInv'
  OBVIOUS
<1>1. ASSUME NEW r \in Requests, Receive(r) \/ Serve(r)
      PROVE  IInv'
  BY <1>1, ReceiveType, ServeType, ReceiveKeeps, ServeKeeps DEF IInv, DocumentsInv
<1>2. CASE UNCHANGED vars
  BY <1>2 DEF vars, store, IInv, TypeOK, DocumentsInv, RequestsNamed, OneParty, Party, Holds,
              StepsEarned, Verified, EndorsedFirst
<1>. QED  BY <1>1, <1>2, SellerKeeps DEF Next

LEMMA Invariance == Spec => []IInv
BY InitInv, NextInv, PTL DEF Spec

-----------------------------------------------------------------------------
(* What follows *)

\* Every variable keeps its type: no verification, OTP, correction, review or
\* product writes a value that its column does not take.
THEOREM TypeCorrect == Spec => []TypeOK
<1>1. IInv => TypeOK
  BY DEF IInv
<1>. QED  BY <1>1, Invariance, PTL

\* However many verifications run together, a document ends up with two
\* sellers only if they were at it together (verifyPan, verifyGst,
\* generateAadhaarOtp, upsertVerifiedKyc).
THEOREM DocumentsHaveOneOwner == Spec => []SoleOwner
<1>1. IInv => SoleOwner
  BY DEF IInv, DocumentsInv, OneParty, Party, SoleOwner
<1>. QED  BY <1>1, Invariance, PTL

\* The admin list counts types where the seller's page compares sets, and
\* they agree: an INDIVIDUAL seller waiting for review with a GST number has
\* the other two as well (findSellersByDerivedStatus, getProfile).
THEOREM ListsAgree == Spec => []ListAgrees
<1>1. ASSUME IInv, NEW s \in Sellers PROVE DerivedStatus(s) = ProfileStatus(s)
  <2>. DEFINE count == Cardinality(Verified(s))
              needed == IF business[s] = "INDIVIDUAL" THEN 2 ELSE 3
  <2>1. Verified(s) \in SUBSET KycType
    BY DEF Verified
  <2>2. /\ count \in Nat /\ (count = 0 <=> Verified(s) = {})
        /\ count >= 3 <=> Verified(s) = KycType
        /\ {"PAN", "AADHAAR"} \subseteq Verified(s) => count >= 2
    BY <2>1, CountOfTypes
  <2>3. status[s] = "PENDING_APPROVAL" => {"PAN", "AADHAAR"} \subseteq Verified(s)
    BY <1>1 DEF IInv, DocumentsInv, StepsEarned
  <2>4. status[s] = "PENDING_APPROVAL" =>
          (count >= needed <=> RequiredKyc(s) \subseteq Verified(s))
    BY <2>1, <2>2, <2>3 DEF RequiredKyc
  <2>5. DerivedStatus(s) =
          CASE status[s] = "APPROVED" /\ override[s] = "APPROVED" -> "APPROVED"
            [] status[s] = "REJECTED" /\ override[s] = "REJECTED" -> "REJECTED"
            [] status[s] = "PENDING_APPROVAL" /\ count >= needed -> "USER_PROFILE_APPROVAL"
            [] OTHER -> IF count = 0 THEN "NOT_STARTED" ELSE "PENDING"
    BY DEF DerivedStatus
  <2>. HIDE DEF count, needed
  <2>. QED  BY <2>2, <2>4, <2>5 DEF ProfileStatus, KycApproved
<1>2. IInv => ListAgrees
  BY <1>1 DEF ListAgrees
<1>. QED  BY <1>2, Invariance, PTL

\* No product or page of a seller is in the catalogue unless a Super Admin
\* approved him once, whatever was rejected or raced since
\* (applyVisibilityRules, getSellerProfile, create).
THEOREM ListedWereApproved == Spec => []ListingEarned
<1>1. IInv => ListingEarned
  BY DEF IInv, DocumentsInv, EndorsedFirst, ListingEarned, Listed, SellerShown, KycApproved
<1>. QED  BY <1>1, Invariance, PTL
=============================================================================
