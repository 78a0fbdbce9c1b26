---------------------------- MODULE SessionsProofs ----------------------------
(***************************************************************************)
(* Proofs about Sessions, for any number of requests at a time, of guesses *)
(* and sends, and of seconds.                                              *)
(***************************************************************************)
EXTENDS Sessions, TLAPS, FiniteSetTheorems

USE DEF TicketPurpose, OtpPurpose

\* What a row says of its code and of its session is true for good: neither
\* the purpose a code was made for nor a session that was opened goes away.
RowTrue(row) ==
  /\ row.code \in 0..LastCode
  /\ row.code # 0 => row.purpose = issuedFor[row.code]
  /\ row.refresh \in opened \cup {0}

\* What a request checked about the row it read.
ReadChecked(q) ==
  /\ q.op = "VerifyOtp" => q.row.code # 0 /\ q.row.count < MaxAttempts
  /\ q.op \in {"Logout", "LoggingOut"} => q.row.refresh # 0

RowsTrue ==
  /\ RowTrue(account)
  /\ \A r \in Requests : request[r] # Idle => RowTrue(request[r].row) /\ ReadChecked(request[r])

SendsCounted == sends <= asked

\* Only sessions that were opened are revoked, and while nothing happens out of
\* turn, one that is revoked and stored is about to be ended.
RevokedLeaves ==
  /\ \A token \in revoked : token[1] = "refresh" => token[2] \in opened
  /\ upsets \cap {"reissued", "halfway"} = {} /\ IsTokenRevoked("refresh", account.refresh)
       => \E r \in Requests : request[r].op = "LoggingOut"

\* While every guess writes a count it has read last, the row counts the
\* guesses checked against its code.
CountInTurn ==
  "overtaken" \notin upsets /\ account.code # 0 => checks[account.code] = account.count

\* A code that is stored was not answered right yet, unless something was
\* written over; so only that lets one be answered right twice.
ReplaysOvertake ==
  /\ "replayed" \in upsets => "overtaken" \in upsets
  /\ "overtaken" \notin upsets /\ account.code # 0 => account.code \notin Spent

\* As long as no code is answered right twice, each password saved, each ticket
\* and each request that holds one has a code of its own.
Balanced ==
  "replayed" \notin upsets =>
    \A k \in TicketPurpose :
      changes[k] + tickets[k] + Cardinality(Holders(k)) <= Cardinality(proofs[k])

IInv ==
  /\ TypeOK
  /\ SendsCounted
  /\ RowsTrue
  /\ Balanced
  /\ ReplaysOvertake
  /\ RevokedLeaves
  /\ CountInTurn
  /\ GuessesBoundedInTurn

-----------------------------------------------------------------------------
(* What the actions have in common *)

\* A request in flight carries a row.
LEMMA RequestType ==
  ASSUME TypeOK, NEW r \in Requests, request[r] # Idle
  PROVE  request[r] \in [op : Op, row : Account, with : Nat]
BY DEF TypeOK, Request

LEMMA IdleOp ==
  ASSUME TypeOK, NEW r \in Requests
  PROVE  /\ request[r] = Idle <=> request[r].op = "Idle"
         /\ request[r].op \in Op \cup {"Idle"}
BY DEF TypeOK, Request, Idle, Op

LEMMA Codes ==
  ASSUME TypeOK
  PROVE  LastCode \in Nat /\ DOMAIN issuedFor = 1..LastCode /\ DOMAIN checks = 1..LastCode
BY DEF TypeOK

\* The codes are the same while issuedFor is.
LEMMA CodesStay ==
  ASSUME UNCHANGED issuedFor
  PROVE  LastCode' = LastCode
BY DEF LastCode

LEMMA PasswordType ==
  ASSUME TypeOK
  PROVE  Password \in Nat /\ Password # 0
BY DEF TypeOK, Password

\* A request that is about to begin.
Read(op, with) == [op |-> op, row |-> account, with |-> with]

ReadingOp == {"SendOtp", "ForgotPassword", "VerifyOtp", "SetPassword", "Login", "RefreshToken",
              "ResetPassword", "Logout"}

Reading(r) ==
  \/ ReadForSendOtp(r) \/ ReadForForgotPassword(r)
  \/ ReadForVerify(r) \/ ReadForLogin(r) \/ ReadForSellerLogin(r) \/ ReadForRefresh(r)
  \/ ReadForPassword(r, "SetPassword", "SET_PASSWORD")
  \/ ReadForPassword(r, "ResetPassword", "RESET_PASSWORD")
  \/ \E access \in opened : ReadForLogout(r, access)

\* What the reading steps do, whatever the request is: nothing to the row, the
\* session or the history, and a ticket only to the count of its purpose.
TakesNothing(q) ==
  q.op \notin {"SetPassword", "ResetPassword"} /\ UNCHANGED tickets

TakesTicket(q) ==
  \E k \in TicketPurpose :
    /\ q.op = (IF k = "SET_PASSWORD" THEN "SetPassword" ELSE "ResetPassword")
    /\ TakeTicket(k)

Begun(r) ==
  \/ UNCHANGED <<request, tickets>>
  \/ \E op \in ReadingOp, with \in Nat :
       /\ request[r] = Idle
       /\ request' = [request EXCEPT ![r] = Read(op, with)]
       /\ ReadChecked(Read(op, with))
       /\ TakesNothing(Read(op, with)) \/ TakesTicket(Read(op, with))

LEMMA ReadingStep ==
  ASSUME TypeOK, NEW r \in Requests, Reading(r)
  PROVE  /\ UNCHANGED <<account, revoked, now, history>>
         /\ asked < MaxRequests /\ asked' = asked + 1
         /\ sends' \in {sends, sends + 1}
         /\ Begun(r)
<1>1. ASSUME NEW op \in ReadingOp, NEW with \in Nat, Reads(r, op, with),
             ReadChecked(Read(op, with)),
             TakesNothing(Read(op, with)) \/ TakesTicket(Read(op, with))
      PROVE  Begun(r)
  BY <1>1 DEF Reads, Begins, Begun, Read
<1>2. \A op, with : Reads(r, op, with) => asked < MaxRequests /\ asked' = asked + 1
  BY DEF Reads, Begins
<1>3. ASSUME NEW op \in {"SendOtp", "ForgotPassword"}, NEW served \in BOOLEAN,
             ReadForOtp(r, op, served)
      PROVE  /\ UNCHANGED <<account, revoked, now, history>>
             /\ asked < MaxRequests /\ asked' = asked + 1
             /\ sends' \in {sends, sends + 1}
             /\ Begun(r)
  <2>1. ReadChecked(Read(op, 0)) /\ TakesNothing(Read(op, 0)) /\ op \in ReadingOp
    BY <1>3 DEF ReadChecked, Read, TakesNothing, ReadForOtp, ReadingOp
  <2>2. CASE SendAllowed /\ served /\ Reads(r, op, 0)
    BY <1>1, <1>2, <1>3, <2>1, <2>2 DEF ReadForOtp
  <2>3. CASE ~(SendAllowed /\ served) /\ Begins(r) /\ UNCHANGED request
    BY <1>3, <2>3 DEF ReadForOtp, Begins, Begun
  <2>. QED  BY <1>3, <2>2, <2>3 DEF ReadForOtp
<1>4. CASE ReadForSendOtp(r)
  BY <1>3, <1>4 DEF ReadForSendOtp
<1>5. CASE ReadForForgotPassword(r)
  BY <1>3, <1>5 DEF ReadForForgotPassword
<1>6. CASE ReadForVerify(r)
  <2>1. ReadChecked(Read("VerifyOtp", 0)) /\ TakesNothing(Read("VerifyOtp", 0))
    BY <1>6 DEF ReadForVerify, ReadChecked, Read, TakesNothing
  <2>. QED  BY <1>1, <1>2, <1>6, <2>1 DEF ReadForVerify, ReadingOp
<1>7. CASE ReadForLogin(r) \/ ReadForSellerLogin(r)
  <2>1. ReadForLogin(r)
    BY <1>7 DEF ReadForSellerLogin
  <2>2. ReadChecked(Read("Login", 0)) /\ TakesNothing(Read("Login", 0))
    BY <2>1 DEF ReadForLogin, ReadChecked, Read, TakesNothing
  <2>. QED  BY <1>1, <1>2, <2>1, <2>2 DEF ReadForLogin, ReadingOp
<1>8. CASE ReadForRefresh(r)
  <2>1. ReadChecked(Read("RefreshToken", era)) /\ TakesNothing(Read("RefreshToken", era))
    BY <1>8 DEF ReadForRefresh, ReadChecked, Read, TakesNothing
  <2>. QED  BY <1>1, <1>2, <1>8, <2>1 DEF ReadForRefresh, ReadingOp, TypeOK
<1>9. ASSUME NEW k \in TicketPurpose,
             ReadForPassword(r, IF k = "SET_PASSWORD" THEN "SetPassword" ELSE "ResetPassword", k)
      PROVE  /\ UNCHANGED <<account, revoked, now, history>>
             /\ asked < MaxRequests /\ asked' = asked + 1
             /\ sends' \in {sends, sends + 1}
             /\ Begun(r)
  <2>. DEFINE op == IF k = "SET_PASSWORD" THEN "SetPassword" ELSE "ResetPassword"
  <2>1. op \in ReadingOp /\ ReadChecked(Read(op, 0)) /\ TakesTicket(Read(op, 0))
    BY <1>9 DEF ReadForPassword, ReadChecked, Read, TakesTicket, ReadingOp
  <2>. QED  BY <1>1, <1>2, <1>9, <2>1 DEF ReadForPassword
<1>10. CASE \E access \in opened : ReadForLogout(r, access)
  <2>1. PICK access \in opened : ReadForLogout(r, access)
    BY <1>10
  <2>2. /\ ReadChecked(Read("Logout", access)) /\ TakesNothing(Read("Logout", access))
        /\ access \in Nat
    BY <2>1, SessionsAssumption DEF ReadForLogout, ReadChecked, Read, TakesNothing, TypeOK
  <2>. QED  BY <1>1, <1>2, <2>1, <2>2 DEF ReadForLogout, ReadingOp
<1>. QED  BY <1>4, <1>5, <1>6, <1>7, <1>8, <1>9, <1>10 DEF Reading

\* Every other step of a request ends it, or turns it to its next one.
LEMMA EndsType ==
  ASSUME TypeOK, NEW r \in Requests, Ends(r)
  PROVE  request' \in [Requests -> Request]
BY DEF Ends, TypeOK, Request

LEMMA TurnsType ==
  ASSUME TypeOK, NEW r \in Requests, request[r] # Idle, NEW op \in Op,
         request' = [request EXCEPT ![r].op = op]
  PROVE  request' \in [Requests -> Request]
<1>1. [request[r] EXCEPT !.op = op] \in Request
  BY RequestType DEF Request
<1>. QED  BY <1>1 DEF TypeOK

LEMMA IssuedCodes ==
  ASSUME TypeOK, NEW r \in Requests, NEW op, NEW purpose, IssueOtp(r, op, purpose)
  PROVE  LastCode' = LastCode + 1
<1>1. DOMAIN issuedFor' = 1..(LastCode + 1)
  BY DEF IssueOtp
<1>. QED  BY <1>1, Codes, FS_Interval DEF LastCode

\* The row a request with an operation under way has read.
LEMMA RowRead ==
  ASSUME TypeOK, RowsTrue, NEW r \in Requests, request[r].op # "Idle"
  PROVE  /\ request[r] # Idle
         /\ request[r].row \in Account
         /\ request[r].with \in Nat
         /\ RowTrue(request[r].row)
         /\ ReadChecked(request[r])
BY RequestType, IdleOp DEF RowsTrue

-----------------------------------------------------------------------------
(* Type correctness *)

LEMMA InitType == Init => TypeOK
<1>. SUFFICES ASSUME Init PROVE TypeOK
  OBVIOUS
<1>1. issuedFor = <<>> /\ checks = <<>> /\ DOMAIN issuedFor = 1..0
  BY DEF Init
<1>2. LastCode = 0
  BY <1>1, FS_Interval DEF LastCode
<1>3. issuedFor \in [1..0 -> OtpPurpose \ {"NULL"}] /\ checks \in [1..0 -> Nat]
  BY <1>1
<1>4. NoAccount \in Account /\ [NoAccount EXCEPT !.exists = TRUE, !.password = 1] \in Account
  BY DEF NoAccount, Account
<1>5. account \in Account /\ changes \in [TicketPurpose -> Nat]
  BY <1>4 DEF Init
<1>6. proofs \in [Grants -> SUBSET (0..0)]
  BY DEF Init
<1>. QED  BY <1>5, <1>6, <1>2, <1>3, <1>4, SessionsAssumption DEF Init, TypeOK, Request, Token

LEMMA ReadingType ==
  ASSUME TypeOK, SendsCounted, NEW r \in Requests, Reading(r)
  PROVE  TypeOK' /\ SendsCounted'
<1>. USE ReadingStep
<1>1. request' \in [Requests -> Request] /\ tickets' \in [TicketPurpose -> Nat]
  <2>1. CASE UNCHANGED <<request, tickets>>
    BY <2>1 DEF TypeOK
  <2>2. ASSUME NEW op \in ReadingOp, NEW with \in Nat,
               request' = [request EXCEPT ![r] = Read(op, with)],
               TakesNothing(Read(op, with)) \/ TakesTicket(Read(op, with))
        PROVE  request' \in [Requests -> Request] /\ tickets' \in [TicketPurpose -> Nat]
    <3>1. Read(op, with) \in Request
      BY DEF Read, Request, TypeOK, ReadingOp, Op
    <3>2. tickets \in [TicketPurpose -> Nat]
      BY DEF TypeOK
    <3>3. \A k \in TicketPurpose : TakeTicket(k) => tickets' \in [TicketPurpose -> Nat]
      BY <3>2 DEF TakeTicket
    <3>4. tickets' \in [TicketPurpose -> Nat]
      BY <2>2, <3>2, <3>3 DEF TakesNothing, TakesTicket
    <3>. QED  BY <2>2, <3>1, <3>4 DEF TypeOK
  <2>. QED  BY <2>1, <2>2 DEF Begun
<1>2. asked' \in 0..MaxRequests /\ sends' \in 0..MaxRequests /\ sends' <= asked'
  <2>1. sends \in Nat /\ asked \in Nat /\ sends <= asked /\ MaxRequests \in Nat
    BY SessionsAssumption DEF TypeOK, SendsCounted
  <2>2. asked < MaxRequests /\ asked' = asked + 1 /\ (sends' = sends \/ sends' = sends + 1)
    OBVIOUS
  <2>. HIDE ReadingStep
  <2>. QED  BY <2>1, <2>2
<1>3. UNCHANGED <<opened, issuedFor, checks, proofs, changes, era, upsets>>
  BY DEF history
<1>4. LastCode' = LastCode
  BY <1>3, CodesStay
<1>. QED  BY <1>1, <1>2, <1>3, <1>4 DEF TypeOK, SendsCounted

\* The steps of a request after it has read the row.
Working(r) ==
  \/ IssueOtp(r, "SendOtp", "LOGIN") \/ IssueOtp(r, "ForgotPassword", "PASSWORD_RESET")
  \/ WrongOtp(r) \/ RightOtp(r) \/ Grant(r)
  \/ SetPassword(r) \/ ResetPassword(r)
  \/ OpenSession(r, "Login") \/ OpenSession(r, "RefreshToken")
  \/ Revoke(r) \/ EndSession(r) \/ Fail(r)

Passing == Tick \/ Lapse \/ KeyExpires \/ AddRole

LEMMA NextSteps == Next <=> (\E r \in Requests : Reading(r) \/ Working(r)) \/ Passing
BY DEF Next, Reading, Working, Passing

LEMMA UpsetTypes ==
  ASSUME TypeOK, NEW r \in Requests
  PROVE  /\ upsets \cup Overtaken(r) \subseteq {"overtaken", "replayed", "reissued", "halfway"}
         /\ upsets \cup Overtaken(r) \cup Replayed(r)
              \subseteq {"overtaken", "replayed", "reissued", "halfway"}
         /\ upsets \cup Reissued \subseteq {"overtaken", "replayed", "reissued", "halfway"}
         /\ "replayed" \notin Overtaken(r) \cup Reissued
BY DEF TypeOK, Overtaken, Replayed, Reissued

LEMMA IssueType ==
  ASSUME TypeOK, RowsTrue, NEW r \in Requests, NEW op, NEW purpose \in OtpPurpose \ {"NULL"},
         IssueOtp(r, op, purpose)
  PROVE  TypeOK'
<1>. DEFINE code == LastCode + 1
<1>1. LastCode' = code /\ LastCode \in Nat
  BY IssuedCodes, Codes
<1>2. account' \in Account
  <2>1. account \in Account /\ code \in Nat
    BY <1>1 DEF TypeOK
  <2>2. [account EXCEPT !.exists = TRUE, !.code = code, !.lapsed = FALSE,
                        !.count = 0, !.purpose = purpose] \in Account
    BY <2>1 DEF Account
  <2>. QED  BY <2>1, <2>2 DEF IssueOtp
<1>3. /\ issuedFor' \in [1..code -> OtpPurpose \ {"NULL"}]
      /\ checks' \in [1..code -> Nat]
  <2>1. /\ issuedFor \in [1..LastCode -> OtpPurpose \ {"NULL"}]
        /\ checks \in [1..LastCode -> Nat]
    BY DEF TypeOK
  <2>2. \A c \in 1..code : c # code => c \in 1..LastCode
    BY <1>1
  <2>3. /\ issuedFor' = [c \in 1..code |-> IF c = code THEN purpose ELSE issuedFor[c]]
        /\ checks' = [c \in 1..code |-> IF c = code THEN 0 ELSE checks[c]]
    BY DEF IssueOtp
  <2>. HIDE DEF code
  <2>4. issuedFor' \in [1..code -> OtpPurpose \ {"NULL"}]
    BY <2>1, <2>2, <2>3
  <2>5. checks' \in [1..code -> Nat]
    BY <2>1, <2>2, <2>3
  <2>. QED  BY <2>4, <2>5
<1>4. request' \in [Requests -> Request]
  BY EndsType DEF IssueOtp
<1>5. UNCHANGED <<tickets, sends, revoked, now, asked, opened, proofs, changes, era, upsets>>
  BY DEF IssueOtp
<1>6. /\ LastCode' \in Nat
      /\ issuedFor' \in [1..LastCode' -> OtpPurpose \ {"NULL"}]
      /\ checks' \in [1..LastCode' -> Nat]
  <2>. HIDE DEF LastCode
  <2>1. code \in Nat
    BY <1>1
  <2>. QED  BY <1>1, <1>3, <2>1
<1>9. proofs' \in [Grants -> SUBSET (0..LastCode')]
  <2>. HIDE DEF LastCode
  <2>1. 0..LastCode \subseteq 0..LastCode'
    BY <1>1
  <2>2. proofs \in [Grants -> SUBSET (0..LastCode)]
    BY DEF TypeOK
  <2>. QED  BY <1>5, <2>1, <2>2
<1>7. /\ tickets' \in [TicketPurpose -> Nat]
      /\ changes' \in [TicketPurpose -> Nat] /\ era' \in Nat
      /\ upsets' \subseteq {"overtaken", "replayed", "reissued", "halfway"}
  BY <1>5 DEF TypeOK
<1>8. /\ sends' \in 0..MaxRequests /\ revoked' \subseteq Token
      /\ now' \in 1..(MaxSeconds + 1) /\ asked' \in 0..MaxRequests
      /\ opened' \subseteq 1..(MaxSeconds + 1)
  BY <1>5 DEF TypeOK
<1>. HIDE DEF code, LastCode
<1>. QED  BY <1>2, <1>4, <1>6, <1>7, <1>8, <1>9 DEF TypeOK

LEMMA WorkingType ==
  ASSUME TypeOK, SendsCounted, RowsTrue, NEW r \in Requests, Working(r)
  PROVE  TypeOK' /\ SendsCounted'
<1>. USE DEF history
<1>0. /\ account \in Account /\ tickets \in [TicketPurpose -> Nat]
      /\ proofs \in [Grants -> SUBSET (0..LastCode)] /\ changes \in [TicketPurpose -> Nat]
      /\ opened \subseteq 1..(MaxSeconds + 1) /\ era \in Nat
      /\ upsets \subseteq {"overtaken", "replayed", "reissued", "halfway"}
  BY DEF TypeOK
<1>1. UNCHANGED <<sends, now, asked>>
  BY DEF Working, IssueOtp, WrongOtp, RightOtp, Grant, SetPassword, ResetPassword, OpenSession,
         Revoke, EndSession, Fail
<1>2. SendsCounted'
  BY <1>1 DEF SendsCounted
<1>3. now \in Nat /\ now \in 1..(MaxSeconds + 1)
  BY SessionsAssumption DEF TypeOK
<1>4. CASE IssueOtp(r, "SendOtp", "LOGIN") \/ IssueOtp(r, "ForgotPassword", "PASSWORD_RESET")
  BY <1>2, <1>4, IssueType
<1>5. CASE WrongOtp(r)
  <2>1. request[r].row \in Account /\ request[r].row.code \in 1..LastCode
    BY <1>5, RowRead, Codes DEF WrongOtp, RowTrue, ReadChecked
  <2>2. checks' \in [1..LastCode -> Nat]
    <3>1. checks \in [1..LastCode -> Nat]
      BY DEF TypeOK
    <3>2. checks' = [checks EXCEPT ![request[r].row.code] = @ + 1]
      BY <1>5 DEF WrongOtp, Checked
    <3>. QED  BY <2>1, <3>1, <3>2
  <2>4. request[r].row.count + 1 \in Nat
    BY <2>1 DEF Account
  <2>5. account' \in Account
    <3>1. account \in Account
      BY DEF TypeOK
    <3>. QED  BY <1>5, <2>4, <3>1 DEF WrongOtp, Account
  <2>3. LastCode' = LastCode
    BY <1>5, CodesStay DEF WrongOtp
  <2>. QED  BY <1>2, <1>5, <2>2, <2>3, <2>5, EndsType, UpsetTypes DEF WrongOtp, TypeOK
<1>6. CASE RightOtp(r)
  <2>1. /\ request[r].row \in Account /\ request[r].row.code \in 1..LastCode
        /\ request[r] # Idle
    BY <1>6, RowRead, Codes DEF RightOtp, RowTrue, ReadChecked
  <2>2. checks' \in [1..LastCode -> Nat]
    <3>1. checks \in [1..LastCode -> Nat]
      BY DEF TypeOK
    <3>2. checks' = [checks EXCEPT ![request[r].row.code] = @ + 1]
      BY <1>6 DEF RightOtp, Checked
    <3>. QED  BY <2>1, <3>1, <3>2
  <2>6. account \in Account
    BY DEF TypeOK
  <2>7. account' \in Account
    BY <1>6, <2>6 DEF RightOtp, Account
  <2>3. LastCode' = LastCode
    BY <1>6, CodesStay DEF RightOtp
  <2>4. proofs' \in [Grants -> SUBSET (0..LastCode)]
    <3>1. {request[r].row.code} \subseteq 0..LastCode
      BY <2>1, Codes
    <3>. QED  BY <1>0, <1>6, <3>1 DEF RightOtp
  <2>5. request' \in [Requests -> Request]
    BY <1>6, <2>1, TurnsType DEF RightOtp, Op
  <2>. QED  BY <1>2, <1>6, <2>2, <2>3, <2>4, <2>5, <2>7, UpsetTypes DEF RightOtp, TypeOK
<1>7. CASE Grant(r)
  <2>1. request[r].row \in Account
    BY <1>7, RowRead DEF Grant
  <2>4. account \in Account /\ request[r].row.password \in Nat
    BY <2>1 DEF Account, TypeOK
  <2>5. [account EXCEPT !.refresh = now, !.idle = FALSE] \in Account
    BY <1>3, <2>4 DEF Account
  <2>6. account' \in Account /\ tickets' \in [TicketPurpose -> Nat]
    <3>1. account' \in Account
      BY <1>7, <2>4, <2>5 DEF Grant, UpdateRefreshToken
    <3>2. tickets' \in [TicketPurpose -> Nat]
      BY <1>0, <1>7 DEF Grant
    <3>. QED  BY <3>1, <3>2
  <2>7. /\ opened' \subseteq 1..(MaxSeconds + 1) /\ era' \in Nat
        /\ upsets' \subseteq {"overtaken", "replayed", "reissued", "halfway"}
    BY <1>0, <1>3, <1>7, <2>4, UpsetTypes DEF Grant
  <2>3. LastCode' = LastCode
    BY <1>7, CodesStay DEF Grant
  <2>. QED  BY <1>2, <1>7, <2>3, <2>6, <2>7, EndsType DEF Grant, TypeOK
<1>8. CASE SetPassword(r)
  <2>1. request[r].row \in Account
    BY <1>8, RowRead DEF SetPassword
  <2>2. account' \in Account
    BY <1>3, <1>8, <2>1, PasswordType DEF SetPassword, Account
  <2>3. LastCode' = LastCode
    BY <1>8, CodesStay DEF SetPassword
  <2>4. upsets' \subseteq {"overtaken", "replayed", "reissued", "halfway"}
    BY <1>8, UpsetTypes DEF SetPassword
  <2>5. changes' \in [TicketPurpose -> Nat] /\ opened' \subseteq 1..(MaxSeconds + 1)
    BY <1>0, <1>3, <1>8 DEF SetPassword
  <2>. QED  BY <1>2, <1>8, <2>2, <2>3, <2>4, <2>5, EndsType, PasswordType DEF SetPassword, TypeOK
<1>9. CASE ResetPassword(r)
  <2>1. request[r].row \in Account
    BY <1>9, RowRead DEF ResetPassword
  <2>2. account' \in Account
    BY <1>0, <1>9, <2>1, PasswordType DEF ResetPassword, RowAfterReset, Account
  <2>3. LastCode' = LastCode
    BY <1>9, CodesStay DEF ResetPassword
  <2>4. changes' \in [TicketPurpose -> Nat]
    BY <1>0, <1>9 DEF ResetPassword
  <2>. QED  BY <1>2, <1>9, <2>2, <2>3, <2>4, EndsType DEF ResetPassword, TypeOK
<1>10. ASSUME NEW op \in {"Login", "RefreshToken"}, OpenSession(r, op)
       PROVE  TypeOK'
  <2>1. request[r].row \in Account /\ request[r].with \in Nat
    BY <1>10, RowRead DEF OpenSession
  <2>2. account' \in Account /\ era' \in Nat /\ opened' \subseteq 1..(MaxSeconds + 1)
    BY <1>0, <1>3, <1>10, <2>1 DEF OpenSession, UpdateRefreshToken, Account
  <2>3. LastCode' = LastCode
    BY <1>10, CodesStay DEF OpenSession
  <2>. QED  BY <1>10, <2>2, <2>3, EndsType, UpsetTypes DEF OpenSession, TypeOK
<1>11. CASE Revoke(r)
  <2>1. request[r].row \in Account /\ request[r].with \in Nat /\ request[r] # Idle
    BY <1>11, RowRead DEF Revoke
  <2>2. revoked' \subseteq Token
    <3>1. <<"access", request[r].with>> \in Token
      BY <2>1 DEF Token
    <3>2. <<"refresh", request[r].row.refresh>> \in Token
      BY <2>1 DEF Token, Account
    <3>. QED  BY <1>11, <3>1, <3>2 DEF Revoke, TypeOK
  <2>3. LastCode' = LastCode
    BY <1>11, CodesStay DEF Revoke
  <2>4. request' \in [Requests -> Request]
    BY <1>11, <2>1, TurnsType DEF Revoke, Op
  <2>. QED  BY <1>2, <1>11, <2>2, <2>3, <2>4 DEF Revoke, TypeOK
<1>12. CASE EndSession(r)
  <2>1. account' \in Account
    BY <1>0, <1>12 DEF EndSession, UpdateRefreshToken, Account
  <2>2. LastCode' = LastCode
    BY <1>12, CodesStay DEF EndSession
  <2>. QED  BY <1>2, <1>12, <2>1, <2>2, EndsType DEF EndSession, TypeOK
<1>13. CASE Fail(r)
  <2>1. LastCode' = LastCode
    BY <1>13, CodesStay DEF Fail
  <2>. QED  BY <1>2, <1>13, <2>1, EndsType DEF Fail, TypeOK
<1>. QED
  BY <1>2, <1>4, <1>5, <1>6, <1>7, <1>8, <1>9, <1>10, <1>11, <1>12, <1>13 DEF Working

LEMMA PassingType ==
  ASSUME TypeOK, SendsCounted, Passing
  PROVE  TypeOK' /\ SendsCounted'
<1>. USE DEF history
<1>1. UNCHANGED issuedFor /\ LastCode' = LastCode
  BY CodesStay DEF Passing, Tick, Lapse, KeyExpires, AddRole
<1>2. CASE Tick
  <2>1. now \in 1..(MaxSeconds + 1) /\ MaxSeconds \in Nat /\ now < MaxSeconds /\ now' = now + 1
    BY <1>2, SessionsAssumption DEF Tick, TypeOK
  <2>2. now' \in 1..(MaxSeconds + 1)
    BY <2>1
  <2>3. SendsCounted'
    BY <1>2 DEF Tick, SendsCounted
  <2>. QED  BY <1>1, <1>2, <2>2, <2>3 DEF Tick, TypeOK
<1>3. CASE Lapse
  <2>1. account' \in Account
    <3>1. account \in Account
      BY DEF TypeOK
    <3>2. /\ [account EXCEPT !.lapsed = TRUE] \in Account
          /\ [account EXCEPT !.idle = TRUE] \in Account
      BY <3>1 DEF Account
    <3>. QED  BY <1>3, <3>2 DEF Lapse
  <2>. QED  BY <1>1, <1>3, <2>1 DEF Lapse, TypeOK, SendsCounted
<1>4. CASE KeyExpires
  <2>1. sends' \in 0..MaxRequests /\ sends' <= asked /\ tickets' \in [TicketPurpose -> Nat]
    <3>1. /\ sends \in 0..MaxRequests /\ sends <= asked /\ asked \in Nat /\ MaxRequests \in Nat
          /\ tickets \in [TicketPurpose -> Nat]
      BY SessionsAssumption DEF TypeOK, SendsCounted
    <3>2. CASE sends' = 0 /\ UNCHANGED tickets
      BY <3>1, <3>2
    <3>3. ASSUME NEW k \in TicketPurpose, tickets[k] > 0,
                 tickets' = [tickets EXCEPT ![k] = @ - 1], UNCHANGED sends
          PROVE  sends' \in 0..MaxRequests /\ sends' <= asked /\ tickets' \in [TicketPurpose -> Nat]
      <4>1. tickets[k] - 1 \in Nat
        BY <3>1, <3>3
      <4>. QED  BY <3>1, <3>3, <4>1
    <3>. QED  BY <1>4, <3>2, <3>3 DEF KeyExpires
  <2>. QED  BY <1>1, <1>4, <2>1 DEF KeyExpires, TypeOK, SendsCounted
<1>5. CASE AddRole
  <2>1. account' \in Account
    BY <1>5 DEF AddRole, TypeOK, Account
  <2>. QED  BY <1>1, <1>5, <2>1 DEF AddRole, TypeOK, SendsCounted
<1>. QED  BY <1>2, <1>3, <1>4, <1>5 DEF Passing

-----------------------------------------------------------------------------
(* What the rows say stays true *)

\* While sessions and codes are only added, what was true of a row still is.
LEMMA RowStaysTrue ==
  ASSUME TypeOK, NEW row, RowTrue(row), opened \subseteq opened',
         \/ UNCHANGED issuedFor
         \/ /\ LastCode' = LastCode + 1
            /\ \A c \in 1..LastCode : issuedFor'[c] = issuedFor[c]
  PROVE  RowTrue(row)'
<1>1. LastCode \in Nat /\ LastCode' \in {LastCode, LastCode + 1}
  BY Codes, CodesStay
<1>2. row.code \in 1..LastCode => issuedFor'[row.code] = issuedFor[row.code]
  OBVIOUS
<1>. QED  BY <1>1, <1>2 DEF RowTrue

\* A step that keeps the row true keeps the rows of the requests so, if it
\* ends a request, turns one whose row was checked, or begins one.
LEMMA RowsStayTrue ==
  ASSUME TypeOK, RowsTrue, RowTrue(account)', opened \subseteq opened',
         \/ UNCHANGED issuedFor
         \/ /\ LastCode' = LastCode + 1
            /\ \A c \in 1..LastCode : issuedFor'[c] = issuedFor[c],
         \/ UNCHANGED request
         \/ \E r \in Requests : \E q :
              /\ request' = [request EXCEPT ![r] = q]
              /\ q # Idle => /\ q.row \in {account, request[r].row}
                             /\ q.row = account \/ request[r] # Idle
                             /\ ReadChecked(q)
  PROVE  RowsTrue'
<1>1. ASSUME NEW r \in Requests, request'[r] # Idle
      PROVE  RowTrue(request[r].row)' /\ ReadChecked(request[r])'
  <2>1. CASE request'[r] = request[r]
    <3>1. RowTrue(request[r].row) /\ ReadChecked(request[r])
      BY <1>1, <2>1 DEF RowsTrue
    <3>. DEFINE row == request[r].row
    <3>2. row' = row
      BY <2>1
    <3>3. \A x : RowTrue(x) => RowTrue(x)'
      BY RowStaysTrue
    <3>. QED  BY <2>1, <3>1, <3>2, <3>3 DEF ReadChecked, RowTrue
  <2>2. CASE request'[r] # request[r]
    <3>1. PICK q : /\ request'[r] = q
                   /\ q.row \in {account, request[r].row}
                   /\ q.row = account \/ request[r] # Idle
                   /\ ReadChecked(q)
      BY <1>1, <2>2 DEF TypeOK
    <3>2. RowTrue(q.row)
      BY <3>1 DEF RowsTrue
    <3>3. \A x : RowTrue(x) => /\ x.code \in 0..LastCode'
                               /\ x.code # 0 => x.purpose = issuedFor'[x.code]
                               /\ x.refresh \in opened' \cup {0}
      BY RowStaysTrue DEF RowTrue
    <3>. QED  BY <3>1, <3>2, <3>3 DEF RowTrue, ReadChecked
  <2>. QED  BY <2>1, <2>2
<1>. QED  BY <1>1 DEF RowsTrue

LEMMA ReadingRows ==
  ASSUME TypeOK, RowsTrue, NEW r \in Requests, Reading(r)
  PROVE  RowsTrue'
<1>1. UNCHANGED <<account, opened, issuedFor>> /\ Begun(r)
  BY ReadingStep DEF history
<1>2. RowTrue(account)'
  BY <1>1, CodesStay DEF RowsTrue, RowTrue
<1>3. \/ UNCHANGED request
      \/ \E q : /\ request' = [request EXCEPT ![r] = q]
                /\ q.row = account
                /\ ReadChecked(q)
  BY <1>1 DEF Begun, Read
<1>. QED  BY <1>1, <1>2, <1>3, RowsStayTrue

LEMMA WorkingRows ==
  ASSUME TypeOK, RowsTrue, NEW r \in Requests, Working(r)
  PROVE  RowsTrue'
<1>. DEFINE row == request[r].row
<1>0. account \in Account /\ RowTrue(account) /\ now \in Nat /\ 0 \in 0..LastCode
  BY SessionsAssumption, Codes DEF RowsTrue, TypeOK
<1>1. ASSUME Ends(r)
      PROVE  \E q : /\ request' = [request EXCEPT ![r] = q]
                    /\ q = Idle
  BY <1>1 DEF Ends
<1>2. ASSUME Ends(r), RowTrue(account)', opened \subseteq opened', UNCHANGED issuedFor
      PROVE  RowsTrue'
  BY <1>1, <1>2, RowsStayTrue
<1>3. ASSUME NEW op, NEW purpose \in OtpPurpose \ {"NULL"}, IssueOtp(r, op, purpose)
      PROVE  RowsTrue'
  <2>1. /\ LastCode' = LastCode + 1 /\ LastCode \in Nat
        /\ issuedFor' = [c \in 1..LastCode + 1 |->
                          IF c = LastCode + 1 THEN purpose ELSE issuedFor[c]]
        /\ UNCHANGED opened
    BY <1>3, IssuedCodes, Codes DEF IssueOtp
  <2>2. /\ \A c \in 1..LastCode : issuedFor'[c] = issuedFor[c]
        /\ issuedFor'[LastCode + 1] = purpose
    BY <2>1
  <2>3. CASE UNCHANGED account
    <3>1. RowTrue(account)'
      BY <1>0, <2>1, <2>2, <2>3 DEF RowTrue
    <3>. QED  BY <1>1, <1>3, <2>1, <2>2, <3>1, RowsStayTrue DEF IssueOtp
  <2>4. CASE account' = [account EXCEPT !.exists = TRUE, !.code = LastCode + 1, !.lapsed = FALSE,
                                        !.count = 0, !.purpose = purpose]
    <3>1. /\ account'.code = LastCode + 1 /\ account'.purpose = purpose
          /\ account'.refresh = account.refresh
      BY <1>0, <2>4 DEF Account
    <3>2. RowTrue(account)'
      BY <1>0, <2>1, <2>2, <3>1 DEF RowTrue
    <3>. QED  BY <1>1, <1>3, <2>1, <2>2, <3>2, RowsStayTrue DEF IssueOtp
  <2>. QED  BY <1>3, <2>3, <2>4 DEF IssueOtp
<1>4. CASE WrongOtp(r)
  <2>1. /\ account'.code = account.code /\ account'.purpose = account.purpose
        /\ account'.refresh = account.refresh
    BY <1>0, <1>4 DEF WrongOtp, Account
  <2>2. RowTrue(account)'
    BY <1>0, <1>4, <2>1, CodesStay DEF WrongOtp, RowTrue
  <2>. QED  BY <1>2, <1>4, <2>2 DEF WrongOtp
<1>5. CASE RightOtp(r)
  <2>1. account'.code = 0 /\ account'.refresh = account.refresh
    BY <1>0, <1>5 DEF RightOtp, Account
  <2>2. RowTrue(account)'
    BY <1>0, <1>5, <2>1, CodesStay DEF RightOtp, RowTrue
  <2>3. request[r] # Idle
    BY <1>5, RowRead DEF RightOtp
  <2>4. /\ [request[r] EXCEPT !.op = "Verified"].row = row
        /\ [request[r] EXCEPT !.op = "Verified"].op = "Verified"
    BY <2>3, RequestType
  <2>5. ReadChecked([request[r] EXCEPT !.op = "Verified"])
    BY <2>4 DEF ReadChecked
  <2>6. request' = [request EXCEPT ![r] = [request[r] EXCEPT !.op = "Verified"]]
    BY <1>5 DEF RightOtp, TypeOK
  <2>7. opened' = opened /\ UNCHANGED issuedFor
    BY <1>5 DEF RightOtp
  <2>. QED  BY <2>2, <2>3, <2>4, <2>5, <2>6, <2>7, RowsStayTrue
<1>6. CASE Grant(r)
  <2>1. /\ account'.code = account.code /\ account'.purpose = account.purpose
        /\ account'.refresh = account.refresh \/ (account'.refresh = now /\ now \in opened')
    <3>1. CASE account' = account
      BY <3>1
    <3>2. CASE UpdateRefreshToken(now) /\ opened' = opened \cup {now}
      BY <1>0, <3>2 DEF UpdateRefreshToken, Account
    <3>. QED  BY <1>6, <3>1, <3>2 DEF Grant
  <2>2. opened \subseteq opened'
    BY <1>6 DEF Grant
  <2>3. RowTrue(account)'
    BY <1>0, <1>6, <2>1, <2>2, CodesStay DEF Grant, RowTrue
  <2>. QED  BY <1>2, <1>6, <2>2, <2>3 DEF Grant
<1>7. CASE SetPassword(r)
  <2>1. row \in Account /\ RowTrue(row)
    BY <1>7, RowRead DEF SetPassword
  <2>2. /\ account'.code = row.code /\ account'.purpose = row.purpose
        /\ account'.refresh = now /\ now \in opened'
    BY <1>7, <2>1 DEF SetPassword, Account
  <2>3. RowTrue(account)'
    BY <1>7, <2>1, <2>2, CodesStay DEF SetPassword, RowTrue
  <2>. QED  BY <1>2, <1>7, <2>3 DEF SetPassword
<1>8. CASE ResetPassword(r)
  <2>1. row \in Account
    BY <1>8, RowRead DEF ResetPassword
  <2>2. account'.code = 0 /\ account'.refresh = 0
    BY <1>8, <2>1 DEF ResetPassword, RowAfterReset, Account
  <2>3. RowTrue(account)'
    BY <1>0, <1>8, <2>2, CodesStay DEF ResetPassword, RowTrue
  <2>. QED  BY <1>2, <1>8, <2>3 DEF ResetPassword
<1>9. ASSUME NEW op, OpenSession(r, op)
      PROVE  RowsTrue'
  <2>1. /\ account'.code = account.code /\ account'.purpose = account.purpose
        /\ account'.refresh = now /\ now \in opened'
    BY <1>0, <1>9 DEF OpenSession, UpdateRefreshToken, Account
  <2>2. RowTrue(account)'
    BY <1>0, <1>9, <2>1, CodesStay DEF OpenSession, RowTrue
  <2>. QED  BY <1>2, <1>9, <2>2 DEF OpenSession
<1>10. CASE Revoke(r)
  <2>1. request[r] # Idle /\ ReadChecked(request[r])
    BY <1>10, RowRead DEF Revoke
  <2>2. /\ [request[r] EXCEPT !.op = "LoggingOut"].row = row
        /\ [request[r] EXCEPT !.op = "LoggingOut"].op = "LoggingOut"
    BY <2>1, RequestType
  <2>3. ReadChecked([request[r] EXCEPT !.op = "LoggingOut"])
    BY <1>10, <2>1, <2>2 DEF ReadChecked, Revoke
  <2>4. request' = [request EXCEPT ![r] = [request[r] EXCEPT !.op = "LoggingOut"]]
    BY <1>10 DEF Revoke, TypeOK
  <2>5. UNCHANGED <<account, opened, issuedFor>>
    BY <1>10 DEF Revoke, history
  <2>6. RowTrue(account)'
    BY <1>0, <2>5, CodesStay DEF RowTrue
  <2>. QED  BY <2>1, <2>2, <2>3, <2>4, <2>5, <2>6, RowsStayTrue
<1>11. CASE EndSession(r)
  <2>1. /\ account'.code = account.code /\ account'.purpose = account.purpose
        /\ account'.refresh = 0
    BY <1>0, <1>11 DEF EndSession, UpdateRefreshToken, Account
  <2>2. RowTrue(account)'
    BY <1>0, <1>11, <2>1, CodesStay DEF EndSession, RowTrue
  <2>. QED  BY <1>2, <1>11, <2>2 DEF EndSession
<1>12. CASE Fail(r)
  <2>1. RowTrue(account)'
    BY <1>0, <1>12, CodesStay DEF Fail, RowTrue
  <2>. QED  BY <1>2, <1>12, <2>1 DEF Fail
<1>. QED
  BY <1>3, <1>4, <1>5, <1>6, <1>7, <1>8, <1>9, <1>10, <1>11, <1>12 DEF Working

LEMMA PassingRows ==
  ASSUME TypeOK, RowsTrue, Passing
  PROVE  RowsTrue'
<1>1. account \in Account /\ RowTrue(account)
  BY DEF RowsTrue, TypeOK
<1>2. UNCHANGED <<request, opened, issuedFor>>
  BY DEF Passing, Tick, Lapse, KeyExpires, AddRole, history
<1>3. /\ account'.code = account.code /\ account'.purpose = account.purpose
      /\ account'.refresh = account.refresh
  BY <1>1 DEF Passing, Tick, Lapse, KeyExpires, AddRole, Account
<1>4. RowTrue(account)'
  BY <1>1, <1>2, <1>3, CodesStay DEF RowTrue
<1>. QED  BY <1>2, <1>4, RowsStayTrue

-----------------------------------------------------------------------------
(* Every password is proved *)

\* Request q has taken a ticket for this purpose, or owes one.
Holds(q, k) ==
  \/ k = "SET_PASSWORD" /\ q.op = "SetPassword"
  \/ k = "RESET_PASSWORD" /\ q.op = "ResetPassword"
  \/ q.op = "Verified" /\ GrantOf(q.row.purpose, q.row.password) = k

Weight(q, k) == IF Holds(q, k) THEN 1 ELSE 0

\* When one request changes, the number of holders does by its weight.
LEMMA HoldersCount ==
  ASSUME TypeOK, NEW k \in TicketPurpose
  PROVE  /\ Cardinality(Holders(k)) \in Nat
         /\ UNCHANGED request => Cardinality(Holders(k))' = Cardinality(Holders(k))
         /\ \A r \in Requests : \A q :
              request' = [request EXCEPT ![r] = q] =>
                Cardinality(Holders(k))' = Cardinality(Holders(k)) - Weight(request[r], k) + Weight(q, k)
<1>1. Holders(k) = {r \in Requests : Holds(request[r], k)}
  BY DEF Holders, Holds
<1>2. Holders(k)' = {r \in Requests : Holds(request'[r], k)}
  BY DEF Holders, Holds
<1>3. IsFiniteSet(Holders(k))
  BY <1>1, FS_Subset, SessionsAssumption
<1>4. ASSUME NEW r \in Requests, NEW q, request' = [request EXCEPT ![r] = q]
      PROVE  Cardinality(Holders(k)')
               = Cardinality(Holders(k)) - Weight(request[r], k) + Weight(q, k)
  <2>1. /\ request'[r] = q
        /\ \A x \in Requests \ {r} : request'[x] = request[x]
    BY <1>4 DEF TypeOK
  <2>2. CASE Holds(q, k)
    <3>1. Holders(k)' = Holders(k) \cup {r}
      BY <1>1, <1>2, <2>1, <2>2
    <3>2. r \in Holders(k) <=> Holds(request[r], k)
      BY <1>1
    <3>. QED  BY <1>3, <2>2, <3>1, <3>2, FS_AddElement, FS_CardinalityType DEF Weight
  <2>3. CASE ~Holds(q, k)
    <3>1. Holders(k)' = Holders(k) \ {r}
      BY <1>1, <1>2, <2>1, <2>3
    <3>2. r \in Holders(k) <=> Holds(request[r], k)
      BY <1>1
    <3>. QED  BY <1>3, <2>3, <3>1, <3>2, FS_RemoveElement, FS_CardinalityType DEF Weight
  <2>. QED  BY <2>2, <2>3
<1>5. UNCHANGED request => Holders(k)' = Holders(k)
  BY <1>1, <1>2
<1>. QED  BY <1>3, <1>4, <1>5, FS_CardinalityType

LEMMA ProofsFinite ==
  ASSUME TypeOK, NEW k \in Grants
  PROVE  IsFiniteSet(proofs[k]) /\ Cardinality(proofs[k]) \in Nat
<1>1. proofs[k] \subseteq 0..LastCode /\ LastCode \in Nat
  BY DEF TypeOK
<1>2. PICK last \in Nat : last = LastCode
  BY <1>1
<1>3. IsFiniteSet(0..last)
  BY FS_Interval
<1>4. IsFiniteSet(proofs[k])
  BY <1>1, <1>2, <1>3, FS_Subset
<1>. QED  BY <1>4, FS_CardinalityType

LEMMA WeightNat == \A q, k : Weight(q, k) \in {0, 1}
BY DEF Weight

LEMMA IdleWeighsNothing == \A k : Weight(Idle, k) = 0
BY DEF Weight, Holds, Idle

\* The balance of one purpose is kept by every step that changes one request,
\* as long as what it adds to one side it takes from it elsewhere or adds to the proofs.
LEMMA BalanceKept ==
  ASSUME TypeOK, TypeOK', Balanced, upsets \subseteq upsets',
         \/ "replayed" \in upsets'
         \/ UNCHANGED request /\ \A k \in TicketPurpose :
              changes'[k] + tickets'[k] + Cardinality(proofs[k]) <= changes[k] + tickets[k] + Cardinality(proofs'[k])
         \/ \E r \in Requests : \E q :
              /\ request' = [request EXCEPT ![r] = q]
              /\ \A k \in TicketPurpose :
                   changes'[k] + tickets'[k] + Weight(q, k) + Cardinality(proofs[k])
                     <= changes[k] + tickets[k] + Weight(request[r], k) + Cardinality(proofs'[k])
  PROVE  Balanced'
<1>. SUFFICES ASSUME "replayed" \notin upsets', NEW k \in TicketPurpose
              PROVE  changes'[k] + tickets'[k] + Cardinality(Holders(k))' <= Cardinality(proofs'[k])
  BY DEF Balanced
<1>1. /\ changes[k] \in Nat /\ tickets[k] \in Nat /\ Cardinality(proofs[k]) \in Nat
      /\ changes'[k] \in Nat /\ tickets'[k] \in Nat /\ Cardinality(proofs'[k]) \in Nat
  <2>1. Cardinality(proofs[k]) \in Nat
    BY ProofsFinite DEF Grants
  <2>2. TypeOK' => Cardinality(proofs'[k]) \in Nat
    <3>. HAVE TypeOK'
    <3>1. proofs' \in [Grants -> SUBSET (0..LastCode')] /\ LastCode' \in Nat
      BY DEF TypeOK
    <3>2. PICK last \in Nat : last = LastCode'
      BY <3>1
    <3>3. proofs'[k] \subseteq 0..last
      BY <3>1, <3>2 DEF Grants
    <3>4. IsFiniteSet(0..last)
      BY FS_Interval
    <3>5. IsFiniteSet(proofs'[k])
      BY <3>3, <3>4, FS_Subset
    <3>. QED  BY <3>5, FS_CardinalityType
  <2>. QED  BY <2>1, <2>2 DEF TypeOK
<1>2. changes[k] + tickets[k] + Cardinality(Holders(k)) <= Cardinality(proofs[k])
  BY DEF Balanced
<1>3. Cardinality(Holders(k)) \in Nat
  BY HoldersCount
<1>4. CASE UNCHANGED request /\ changes'[k] + tickets'[k] + Cardinality(proofs[k])
                                  <= changes[k] + tickets[k] + Cardinality(proofs'[k])
  <2>1. Cardinality(Holders(k))' = Cardinality(Holders(k))
    BY <1>4, HoldersCount
  <2>. QED  BY <1>1, <1>2, <1>3, <1>4, <2>1
<1>5. ASSUME NEW r \in Requests, NEW q,
             request' = [request EXCEPT ![r] = q],
             changes'[k] + tickets'[k] + Weight(q, k) + Cardinality(proofs[k])
               <= changes[k] + tickets[k] + Weight(request[r], k) + Cardinality(proofs'[k])
      PROVE  changes'[k] + tickets'[k] + Cardinality(Holders(k))' <= Cardinality(proofs'[k])
  <2>1. Cardinality(Holders(k))' = Cardinality(Holders(k)) - Weight(request[r], k) + Weight(q, k)
    BY <1>5, HoldersCount
  <2>2. Weight(q, k) \in Nat /\ Weight(request[r], k) \in Nat
    BY WeightNat
  <2>. QED  BY <1>1, <1>2, <1>3, <1>5, <2>1, <2>2
<1>. QED  BY <1>4, <1>5

LEMMA ReadingPasswords ==
  ASSUME TypeOK, TypeOK', Balanced, NEW r \in Requests, Reading(r)
  PROVE  Balanced'
<1>1. UNCHANGED <<changes, proofs, upsets>> /\ Begun(r)
  BY ReadingStep DEF history
<1>2. /\ changes \in [TicketPurpose -> Nat] /\ (\A k \in TicketPurpose : Cardinality(proofs[k]) \in Nat)
      /\ tickets \in [TicketPurpose -> Nat]
  BY ProofsFinite DEF TypeOK, Grants
<1>3. CASE UNCHANGED <<request, tickets>>
  BY <1>1, <1>2, <1>3, BalanceKept
<1>4. ASSUME NEW op \in ReadingOp, NEW with \in Nat, request[r] = Idle,
             request' = [request EXCEPT ![r] = Read(op, with)],
             TakesNothing(Read(op, with)) \/ TakesTicket(Read(op, with))
      PROVE  Balanced'
  <2>. DEFINE q == Read(op, with)
  <2>1. q.op = op /\ op # "Verified"
    BY DEF Read, ReadingOp
  <2>2. ASSUME NEW k \in TicketPurpose
        PROVE  tickets'[k] + Weight(q, k) <= tickets[k]
    <3>1. CASE TakesNothing(q)
      <4>1. ~Holds(q, k)
        BY <2>1, <3>1 DEF TakesNothing, Holds
      <4>. QED  BY <1>2, <3>1, <4>1 DEF Weight, TakesNothing
    <3>2. CASE TakesTicket(q)
      <4>1. PICK t \in TicketPurpose :
              /\ op = (IF t = "SET_PASSWORD" THEN "SetPassword" ELSE "ResetPassword")
              /\ TakeTicket(t)
        BY <2>1, <3>2 DEF TakesTicket
      <4>2. Holds(q, k) <=> t = k
        BY <2>1, <4>1 DEF Holds
      <4>3. tickets'[k] = IF t = k THEN tickets[k] - 1 ELSE tickets[k]
        BY <1>2, <4>1 DEF TakeTicket
      <4>. QED  BY <1>2, <4>2, <4>3 DEF Weight
    <3>. QED  BY <1>4, <3>1, <3>2
  <2>3. \A k \in TicketPurpose : Weight(request[r], k) = 0
    BY <1>4, IdleWeighsNothing
  <2>4. \A k \in TicketPurpose : tickets'[k] \in Nat
    BY DEF TypeOK
  <2>5. \A k \in TicketPurpose :
          changes'[k] + tickets'[k] + Weight(q, k) + Cardinality(proofs[k])
            <= changes[k] + tickets[k] + Weight(request[r], k) + Cardinality(proofs'[k])
    BY <1>1, <1>2, <2>2, <2>3, <2>4, WeightNat
  <2>6. request' = [request EXCEPT ![r] = q]
    BY <1>4
  <2>. HIDE DEF q
  <2>. QED  BY <1>1, <2>5, <2>6, BalanceKept
<1>. QED  BY <1>1, <1>3, <1>4 DEF Begun

\* A request that ends, and gave its ticket for no more than it weighs.
LEMMA EndBalance ==
  ASSUME TypeOK, TypeOK', Balanced, NEW r \in Requests, Ends(r), UNCHANGED proofs,
         upsets \subseteq upsets',
         \A k \in TicketPurpose :
           changes'[k] + tickets'[k] <= changes[k] + tickets[k] + Weight(request[r], k)
  PROVE  Balanced'
<1>1. \A k \in TicketPurpose :
        /\ changes[k] \in Nat /\ tickets[k] \in Nat /\ Cardinality(proofs[k]) \in Nat
        /\ changes'[k] \in Nat /\ tickets'[k] \in Nat
  BY ProofsFinite DEF TypeOK, Grants
<1>3. \A k \in TicketPurpose : Weight(request[r], k) \in Nat /\ Weight(Idle, k) = 0
  BY WeightNat, IdleWeighsNothing
<1>2. \A k \in TicketPurpose :
        changes'[k] + tickets'[k] + Weight(Idle, k) + Cardinality(proofs[k])
          <= changes[k] + tickets[k] + Weight(request[r], k) + Cardinality(proofs'[k])
  BY <1>1, <1>3
<1>. QED  BY <1>2, BalanceKept DEF Ends

LEMMA UpsetsGrow ==
  ASSUME NEW r \in Requests, Working(r)
  PROVE  upsets \subseteq upsets'
BY DEF Working, IssueOtp, WrongOtp, RightOtp, Grant, SetPassword, ResetPassword, OpenSession,
       Revoke, EndSession, Fail, history

LEMMA WorkingPasswords ==
  ASSUME TypeOK, TypeOK', RowsTrue, Balanced, NEW r \in Requests, Working(r)
  PROVE  Balanced'
<1>. upsets \subseteq upsets'
  BY UpsetsGrow
<1>0. /\ changes \in [TicketPurpose -> Nat] /\ tickets \in [TicketPurpose -> Nat]
      /\ \A k \in TicketPurpose : Cardinality(proofs[k]) \in Nat
      /\ \A k \in TicketPurpose : Weight(request[r], k) \in {0, 1}
  BY WeightNat, ProofsFinite DEF TypeOK, Grants
<1>1. ASSUME Ends(r), UNCHANGED <<tickets, changes, proofs>>
      PROVE  Balanced'
  BY <1>0, <1>1, EndBalance
<1>2. CASE IssueOtp(r, "SendOtp", "LOGIN") \/ IssueOtp(r, "ForgotPassword", "PASSWORD_RESET")
           \/ WrongOtp(r) \/ OpenSession(r, "Login") \/ OpenSession(r, "RefreshToken")
           \/ EndSession(r) \/ Fail(r)
  BY <1>1, <1>2 DEF IssueOtp, WrongOtp, OpenSession, EndSession, Fail
<1>3. CASE RightOtp(r)
  <2>. DEFINE row == request[r].row
              q == [request[r] EXCEPT !.op = "Verified"]
              allows == GrantOf(issuedFor[row.code], row.password)
  <2>1. request[r] # Idle /\ row.code # 0 /\ row.purpose = issuedFor[row.code]
    BY <1>3, RowRead DEF RightOtp, RowTrue, ReadChecked
  <2>2. q.op = "Verified" /\ q.row = row
    BY <2>1, RequestType
  <2>3. \A k \in TicketPurpose : Holds(q, k) <=> allows = k
    BY <2>1, <2>2 DEF Holds
  <2>7. CASE row.code \in Spent
    BY <1>3, <2>7, BalanceKept DEF RightOtp, Replayed
  <2>8. CASE row.code \notin Spent
    <3>1. proofs' = [proofs EXCEPT ![allows] = @ \cup {row.code}] /\ proofs \in [Grants -> SUBSET (0..LastCode)]
      BY <1>3 DEF RightOtp, TypeOK
    <3>. HIDE DEF q, allows, row
    <3>2. \A k \in TicketPurpose :
            Cardinality(proofs'[k])
              = IF k = allows THEN Cardinality(proofs[k]) + 1 ELSE Cardinality(proofs[k])
      <4>. TAKE k \in TicketPurpose
      <4>1. k \in Grants /\ row.code \notin proofs[k]
        BY <2>8 DEF Spent, Grants
      <4>2. CASE k = allows
        BY <3>1, <4>1, <4>2, ProofsFinite, FS_AddElement
      <4>3. CASE k # allows
        BY <3>1, <4>1, <4>3
      <4>. QED  BY <4>2, <4>3
    <3>3. UNCHANGED <<tickets, changes>> /\ request' = [request EXCEPT ![r] = q]
      BY <1>3 DEF RightOtp, TypeOK, q
    <3>4. \A k \in TicketPurpose :
            changes'[k] + tickets'[k] + Weight(q, k) + Cardinality(proofs[k])
              <= changes[k] + tickets[k] + Weight(request[r], k) + Cardinality(proofs'[k])
      BY <1>0, <2>3, <3>2, <3>3 DEF Weight
    <3>. QED  BY <3>3, <3>4, BalanceKept
  <2>. QED  BY <2>7, <2>8
<1>4. CASE Grant(r)
  <2>. DEFINE grant == GrantOf(request[r].row.purpose, request[r].row.password)
  <2>1. \A k \in TicketPurpose : grant = k => Weight(request[r], k) = 1
    BY <1>4 DEF Grant, Weight, Holds
  <2>2. \A k \in TicketPurpose :
          tickets'[k] = tickets[k] \/ (grant = k /\ tickets'[k] = tickets[k] + 1)
    <3>1. CASE grant \in TicketPurpose /\ tickets' = [tickets EXCEPT ![grant] = @ + 1]
      BY <1>0, <3>1
    <3>2. CASE UNCHANGED tickets
      BY <3>2
    <3>. QED  BY <1>4, <3>1, <3>2 DEF Grant
  <2>3. UNCHANGED <<changes, proofs>> /\ Ends(r)
    BY <1>4 DEF Grant
  <2>. HIDE DEF grant
  <2>4. \A k \in TicketPurpose :
          changes'[k] + tickets'[k] <= changes[k] + tickets[k] + Weight(request[r], k)
    BY <1>0, <2>1, <2>2, <2>3
  <2>. QED  BY <2>3, <2>4, EndBalance
<1>5. CASE SetPassword(r)
  <2>1. Weight(request[r], "SET_PASSWORD") = 1
    BY <1>5 DEF SetPassword, Weight, Holds
  <2>2. /\ changes' = [changes EXCEPT !["SET_PASSWORD"] = @ + 1]
        /\ UNCHANGED <<tickets, proofs>> /\ Ends(r)
    BY <1>5 DEF SetPassword
  <2>3. \A k \in TicketPurpose :
          changes'[k] + tickets'[k] <= changes[k] + tickets[k] + Weight(request[r], k)
    BY <1>0, <2>1, <2>2
  <2>. QED  BY <2>2, <2>3, EndBalance
<1>6. CASE ResetPassword(r)
  <2>1. Weight(request[r], "RESET_PASSWORD") = 1
    BY <1>6 DEF ResetPassword, Weight, Holds
  <2>2. /\ changes' = [changes EXCEPT !["RESET_PASSWORD"] = @ + 1]
        /\ UNCHANGED <<tickets, proofs>> /\ Ends(r)
    BY <1>6 DEF ResetPassword
  <2>3. \A k \in TicketPurpose :
          changes'[k] + tickets'[k] <= changes[k] + tickets[k] + Weight(request[r], k)
    BY <1>0, <2>1, <2>2
  <2>. QED  BY <2>2, <2>3, EndBalance
<1>7. CASE Revoke(r)
  <2>. DEFINE q == [request[r] EXCEPT !.op = "LoggingOut"]
  <2>1. q.op = "LoggingOut"
    BY <1>7, RowRead, RequestType DEF Revoke
  <2>2. request' = [request EXCEPT ![r] = q] /\ UNCHANGED <<tickets, changes, proofs>>
    BY <1>7 DEF Revoke, TypeOK, history
  <2>3. \A k \in TicketPurpose : Weight(q, k) = 0
    BY <2>1 DEF Weight, Holds
  <2>. HIDE DEF q
  <2>4. \A k \in TicketPurpose :
          changes'[k] + tickets'[k] + Weight(q, k) + Cardinality(proofs[k])
            <= changes[k] + tickets[k] + Weight(request[r], k) + Cardinality(proofs'[k])
    BY <1>0, <2>2, <2>3
  <2>. QED  BY <2>2, <2>4, BalanceKept
<1>. QED  BY <1>2, <1>3, <1>4, <1>5, <1>6, <1>7 DEF Working

LEMMA PassingPasswords ==
  ASSUME TypeOK, TypeOK', Balanced, Passing
  PROVE  Balanced'
<1>1. UNCHANGED <<request, changes, proofs, upsets>>
  BY DEF Passing, Tick, Lapse, KeyExpires, AddRole, history
<1>2. /\ changes \in [TicketPurpose -> Nat] /\ tickets \in [TicketPurpose -> Nat]
      /\ \A k \in TicketPurpose : Cardinality(proofs[k]) \in Nat
  BY ProofsFinite DEF TypeOK, Grants
<1>3. \A k \in TicketPurpose : tickets'[k] \in {tickets[k], tickets[k] - 1}
  BY <1>2 DEF Passing, Tick, Lapse, KeyExpires, AddRole
<1>4. \A k \in TicketPurpose :
        changes'[k] + tickets'[k] + Cardinality(proofs[k]) <= changes[k] + tickets[k] + Cardinality(proofs'[k])
  BY <1>1, <1>2, <1>3
<1>. QED  BY <1>1, <1>4, BalanceKept

-----------------------------------------------------------------------------
(* What is revoked is not stored *)

\* While upsets only grow, a step that stores a session no revoked one is like
\* keeps RevokedLeaves, if no logout ends under it.
LEMMA RevokedKept ==
  ASSUME TypeOK, RevokedLeaves, upsets \subseteq upsets', opened \subseteq opened',
         UNCHANGED revoked,
         upsets' \cap {"reissued", "halfway"} = {} =>
           \/ ~IsTokenRevoked("refresh", account.refresh)'
           \/ /\ account'.refresh = account.refresh
              /\ \A r \in Requests : request[r].op = "LoggingOut" => request'[r].op = "LoggingOut"
  PROVE  RevokedLeaves'
BY DEF RevokedLeaves, IsTokenRevoked

\* A token signed in a second that has signed none yet was never revoked, and
\* the one that stands for no session neither.
LEMMA FreshUnrevoked ==
  ASSUME TypeOK, RevokedLeaves, NEW token, token \notin opened
  PROVE  <<"refresh", token>> \notin revoked
BY DEF RevokedLeaves

LEMMA ZeroUnopened ==
  ASSUME TypeOK
  PROVE  0 \notin opened /\ now # 0
BY SessionsAssumption DEF TypeOK

LEMMA ReadingRevoked ==
  ASSUME TypeOK, RevokedLeaves, NEW r \in Requests, Reading(r)
  PROVE  RevokedLeaves'
<1>1. UNCHANGED <<account, revoked, opened, upsets>> /\ Begun(r)
  BY ReadingStep DEF history
<1>2. ASSUME NEW x \in Requests, request[x].op = "LoggingOut"
      PROVE  request'[x].op = "LoggingOut"
  BY <1>1, <1>2, IdleOp DEF Begun, TypeOK
<1>. QED  BY <1>1, <1>2, RevokedKept

LEMMA WorkingRevoked ==
  ASSUME TypeOK, RowsTrue, RevokedLeaves, NEW r \in Requests, Working(r)
  PROVE  RevokedLeaves'
<1>0. account \in Account
  BY DEF TypeOK
<1>1. ASSUME request[r].op # "LoggingOut",
             request' = [request EXCEPT ![r] = Idle]
      PROVE  \A x \in Requests : request[x].op = "LoggingOut" => request'[x].op = "LoggingOut"
  BY <1>1 DEF TypeOK
<1>2. ASSUME account'.refresh = account.refresh, UNCHANGED <<revoked, opened>>, Ends(r),
             request[r].op # "LoggingOut", upsets \subseteq upsets'
      PROVE  RevokedLeaves'
  BY <1>1, <1>2, RevokedKept DEF Ends
<1>3. ASSUME account'.refresh = now, UNCHANGED revoked, opened' = opened \cup {now},
             upsets \cup Reissued \subseteq upsets'
      PROVE  RevokedLeaves'
  <2>1. CASE now \in opened
    <3>1. upsets' \cap {"reissued", "halfway"} # {}
      BY <1>3, <2>1 DEF Reissued
    <3>. QED  BY <1>3, <3>1, RevokedKept
  <2>2. CASE now \notin opened
    <3>1. ~IsTokenRevoked("refresh", account.refresh)'
      BY <1>3, <2>2, FreshUnrevoked DEF IsTokenRevoked
    <3>. QED  BY <1>3, <3>1, RevokedKept
  <2>. QED  BY <2>1, <2>2
<1>4. ASSUME account'.refresh = 0, UNCHANGED <<revoked, opened>>, upsets \subseteq upsets'
      PROVE  RevokedLeaves'
  <2>1. ~IsTokenRevoked("refresh", account.refresh)'
    BY <1>4, FreshUnrevoked, ZeroUnopened DEF IsTokenRevoked
  <2>. QED  BY <1>4, <2>1, RevokedKept
<1>5. CASE IssueOtp(r, "SendOtp", "LOGIN") \/ IssueOtp(r, "ForgotPassword", "PASSWORD_RESET")
  <2>1. account'.refresh = account.refresh
    BY <1>0, <1>5 DEF IssueOtp, Account
  <2>. QED  BY <1>2, <1>5, <2>1 DEF IssueOtp
<1>6. CASE WrongOtp(r)
  <2>1. account'.refresh = account.refresh
    BY <1>0, <1>6 DEF WrongOtp, Account
  <2>. QED  BY <1>2, <1>6, <2>1 DEF WrongOtp
<1>7. CASE RightOtp(r)
  <2>1. account'.refresh = account.refresh
    BY <1>0, <1>7 DEF RightOtp, Account
  <2>2. \A x \in Requests : request[x].op = "LoggingOut" => request'[x].op = "LoggingOut"
    BY <1>7 DEF RightOtp, TypeOK
  <2>. QED  BY <1>7, <2>1, <2>2, RevokedKept DEF RightOtp
<1>8. CASE Grant(r)
  <2>1. CASE UNCHANGED <<account, opened, upsets>>
    BY <1>2, <1>8, <2>1 DEF Grant
  <2>2. CASE /\ UpdateRefreshToken(now)
             /\ opened' = opened \cup {now}
             /\ upsets' = upsets \cup Reissued
    <3>1. account'.refresh = now
      BY <1>0, <2>2 DEF UpdateRefreshToken, Account
    <3>. QED  BY <1>3, <1>8, <2>2, <3>1 DEF Grant
  <2>. QED  BY <1>8, <2>1, <2>2 DEF Grant
<1>9. CASE SetPassword(r)
  <2>1. request[r].row \in Account
    BY <1>9, RowRead DEF SetPassword
  <2>2. account'.refresh = now
    BY <1>9, <2>1 DEF SetPassword, Account
  <2>. QED  BY <1>3, <1>9, <2>2 DEF SetPassword
<1>10. CASE ResetPassword(r)
  <2>1. request[r].row \in Account
    BY <1>10, RowRead DEF ResetPassword
  <2>2. account'.refresh = 0
    BY <1>10, <2>1 DEF ResetPassword, RowAfterReset, Account
  <2>. QED  BY <1>4, <1>10, <2>2 DEF ResetPassword
<1>11. ASSUME NEW op, OpenSession(r, op)
       PROVE  RevokedLeaves'
  <2>1. account'.refresh = now
    BY <1>0, <1>11 DEF OpenSession, UpdateRefreshToken, Account
  <2>. QED  BY <1>3, <1>11, <2>1 DEF OpenSession
<1>12. CASE Revoke(r)
  <2>1. /\ request[r].row.refresh \in opened
        /\ revoked' = revoked \cup {<<"access", request[r].with>>,
                                    <<"refresh", request[r].row.refresh>>}
        /\ UNCHANGED <<opened, upsets>>
    BY <1>12, RowRead DEF Revoke, RowTrue, ReadChecked, history
  <2>2. \A token \in revoked' : token[1] = "refresh" => token[2] \in opened
    BY <2>1 DEF RevokedLeaves
  <2>3. request'[r].op = "LoggingOut"
    BY <1>12, RowRead, RequestType DEF Revoke, TypeOK
  <2>. QED  BY <2>1, <2>2, <2>3 DEF RevokedLeaves
<1>13. CASE EndSession(r)
  <2>1. account'.refresh = 0
    BY <1>0, <1>13 DEF EndSession, UpdateRefreshToken, Account
  <2>. QED  BY <1>4, <1>13, <2>1 DEF EndSession
<1>14. CASE Fail(r)
  <2>1. CASE request[r].op = "LoggingOut"
    <3>1. upsets' \cap {"reissued", "halfway"} # {}
      BY <1>14, <2>1 DEF Fail
    <3>. QED  BY <1>14, <3>1, RevokedKept DEF Fail
  <2>2. CASE request[r].op # "LoggingOut"
    BY <1>2, <1>14, <2>2 DEF Fail
  <2>. QED  BY <2>1, <2>2
<1>. QED
  BY <1>5, <1>6, <1>7, <1>8, <1>9, <1>10, <1>11, <1>12, <1>13, <1>14 DEF Working

LEMMA PassingRevoked ==
  ASSUME TypeOK, RevokedLeaves, Passing
  PROVE  RevokedLeaves'
<1>1. account \in Account
  BY DEF TypeOK
<1>2. UNCHANGED <<revoked, request, opened, upsets>>
  BY DEF Passing, Tick, Lapse, KeyExpires, AddRole, history
<1>3. account'.refresh = account.refresh
  BY <1>1 DEF Passing, Tick, Lapse, KeyExpires, AddRole, Account
<1>. QED  BY <1>2, <1>3, RevokedKept

-----------------------------------------------------------------------------
(* Guesses are counted in turn *)

Counted == CountInTurn /\ GuessesBoundedInTurn /\ ReplaysOvertake

\* What is left of the counts by a step that checks no code and makes none.
LEMMA ReplaysKept ==
  ASSUME ReplaysOvertake, UNCHANGED proofs, upsets \subseteq upsets',
         "replayed" \in upsets' => "replayed" \in upsets,
         "overtaken" \notin upsets' => account'.code \in {0, account.code}
  PROVE  ReplaysOvertake'
BY DEF ReplaysOvertake, Spent

LEMMA CountKept ==
  ASSUME TypeOK, Counted, UNCHANGED <<checks, proofs>>, upsets \subseteq upsets',
         "replayed" \in upsets' => "replayed" \in upsets,
         "overtaken" \notin upsets' =>
           \/ account'.code = 0
           \/ account'.code = account.code /\ account'.count = account.count
  PROVE  Counted'
<1>1. ReplaysOvertake'
  BY ReplaysKept DEF Counted
<1>. QED  BY <1>1 DEF Counted, CountInTurn, GuessesBoundedInTurn

LEMMA ReadingCount ==
  ASSUME TypeOK, Counted, NEW r \in Requests, Reading(r)
  PROVE  Counted'
BY ReadingStep, CountKept DEF history

\* A guess that is not overtaken finds the count it has read.
LEMMA GuessCounted ==
  ASSUME TypeOK, Counted, RowsTrue, NEW r \in Requests, request[r].op = "VerifyOtp", Checked(r),
         upsets \cup Overtaken(r) \subseteq upsets',
         \/ account'.code = 0
         \/ account'.code = account.code /\ account'.count = request[r].row.count + 1
  PROVE  CountInTurn' /\ GuessesBoundedInTurn'
<1>. DEFINE row == request[r].row
<1>. SUFFICES ASSUME "overtaken" \notin upsets'
              PROVE  /\ account'.code # 0 => checks'[account'.code] = account'.count
                     /\ \A c \in DOMAIN checks' : checks'[c] <= MaxAttempts
  BY DEF CountInTurn, GuessesBoundedInTurn
<1>1. row.code = account.code /\ row.count = account.count /\ "overtaken" \notin upsets
  BY DEF Overtaken
<1>2. row.code \in 1..LastCode /\ row.count < MaxAttempts /\ row.count \in Nat
  BY RowRead, Codes DEF RowTrue, ReadChecked, Account
<1>3. checks \in [1..LastCode -> Nat] /\ checks' = [checks EXCEPT ![row.code] = @ + 1]
  BY DEF TypeOK, Checked
<1>4. checks[row.code] = row.count
  BY <1>1, <1>2 DEF Counted, CountInTurn
<1>5. checks'[row.code] = row.count + 1 /\ row.count + 1 <= MaxAttempts
  BY <1>2, <1>3, <1>4, SessionsAssumption
<1>6. \A c \in 1..LastCode : checks[c] <= MaxAttempts
  BY <1>1, <1>3 DEF Counted, GuessesBoundedInTurn
<1>7. \A c \in DOMAIN checks' : checks'[c] <= MaxAttempts
  BY <1>3, <1>5, <1>6
<1>. QED  BY <1>1, <1>5, <1>7

LEMMA SpentKnown ==
  ASSUME TypeOK
  PROVE  Spent \subseteq 0..LastCode
BY DEF TypeOK, Spent

LEMMA WorkingCount ==
  ASSUME TypeOK, Counted, RowsTrue, NEW r \in Requests, Working(r)
  PROVE  Counted'
<1>0. account \in Account
  BY DEF TypeOK
<1>1. ASSUME NEW op, NEW purpose \in OtpPurpose \ {"NULL"}, IssueOtp(r, op, purpose)
      PROVE  Counted'
  <2>1. /\ checks' = [c \in 1..LastCode + 1 |-> IF c = LastCode + 1 THEN 0 ELSE checks[c]]
        /\ LastCode \in Nat /\ checks \in [1..LastCode -> Nat] /\ UNCHANGED upsets
    BY <1>1, Codes DEF IssueOtp, TypeOK
  <2>2. \/ UNCHANGED account
        \/ account'.code = LastCode + 1 /\ account'.count = 0
    BY <1>0, <1>1 DEF IssueOtp, Account
  <2>3. UNCHANGED account => account.code \in 0..LastCode
    BY DEF RowsTrue, RowTrue
  <2>4. CountInTurn'
    BY <2>1, <2>2, <2>3 DEF Counted, CountInTurn
  <2>5. GuessesBoundedInTurn'
    BY <2>1, SessionsAssumption DEF Counted, GuessesBoundedInTurn
  <2>6. ReplaysOvertake'
    <3>1. Spent \subseteq 0..LastCode /\ UNCHANGED <<proofs, upsets>>
      BY <1>1, SpentKnown DEF IssueOtp
    <3>2. Spent' = Spent
      BY <3>1 DEF Spent
    <3>3. account'.code = account.code \/ account'.code \notin Spent
      BY <2>1, <2>2, <3>1
    <3>. QED  BY <3>1, <3>2, <3>3 DEF Counted, ReplaysOvertake
  <2>. QED  BY <2>4, <2>5, <2>6 DEF Counted
<1>2. CASE WrongOtp(r)
  <2>1. account'.code = account.code /\ account'.count = request[r].row.count + 1
    BY <1>0, <1>2 DEF WrongOtp, Account
  <2>2. CountInTurn' /\ GuessesBoundedInTurn'
    BY <1>2, <2>1, GuessCounted DEF WrongOtp
  <2>3. ReplaysOvertake'
    BY <1>2, <2>1, ReplaysKept, UpsetTypes DEF WrongOtp, Counted
  <2>. QED  BY <2>2, <2>3 DEF Counted
<1>3. CASE RightOtp(r)
  <2>1. account'.code = 0
    BY <1>0, <1>3 DEF RightOtp, Account
  <2>2. CountInTurn' /\ GuessesBoundedInTurn'
    BY <1>3, <2>1, GuessCounted DEF RightOtp
  <2>3. "replayed" \in upsets' => "overtaken" \in upsets'
    <3>. SUFFICES ASSUME "replayed" \in upsets', "overtaken" \notin upsets' PROVE FALSE
      OBVIOUS
    <3>1. upsets' = upsets \cup Overtaken(r) \cup Replayed(r)
      BY <1>3 DEF RightOtp
    <3>2. request[r].row.code = account.code /\ request[r].row.code # 0
      BY <1>3, <3>1, RowRead DEF Overtaken, RightOtp, ReadChecked
    <3>3. request[r].row.code \notin Spent /\ "replayed" \notin upsets
      BY <3>1, <3>2 DEF Counted, ReplaysOvertake
    <3>. QED  BY <3>1, <3>3 DEF Overtaken, Replayed
  <2>4. ReplaysOvertake'
    BY <2>1, <2>3 DEF ReplaysOvertake
  <2>. QED  BY <2>2, <2>4 DEF Counted
<1>4. CASE Grant(r)
  <2>1. account'.code = account.code /\ account'.count = account.count
    BY <1>0, <1>4 DEF Grant, UpdateRefreshToken, Account
  <2>. QED  BY <1>4, <2>1, CountKept, UpsetTypes DEF Grant
<1>5. CASE SetPassword(r)
  <2>1. request[r].row \in Account
    BY <1>5, RowRead DEF SetPassword
  <2>2. account'.code = request[r].row.code /\ account'.count = request[r].row.count
    BY <1>5, <2>1 DEF SetPassword, Account
  <2>3. "overtaken" \notin upsets' =>
          account'.code = account.code /\ account'.count = account.count
    BY <1>5, <2>2 DEF SetPassword, Overtaken
  <2>. QED  BY <1>5, <2>3, CountKept, UpsetTypes DEF SetPassword
<1>6. CASE ResetPassword(r)
  <2>1. request[r].row \in Account
    BY <1>6, RowRead DEF ResetPassword
  <2>2. account'.code = 0
    BY <1>6, <2>1 DEF ResetPassword, RowAfterReset, Account
  <2>. QED  BY <1>6, <2>2, CountKept DEF ResetPassword
<1>7. ASSUME NEW op, OpenSession(r, op)
      PROVE  Counted'
  <2>1. account'.code = account.code /\ account'.count = account.count
    BY <1>0, <1>7 DEF OpenSession, UpdateRefreshToken, Account
  <2>. QED  BY <1>7, <2>1, CountKept, UpsetTypes DEF OpenSession
<1>8. CASE Revoke(r)
  BY <1>8, CountKept DEF Revoke, history
<1>9. CASE EndSession(r)
  <2>1. account'.code = account.code /\ account'.count = account.count
    BY <1>0, <1>9 DEF EndSession, UpdateRefreshToken, Account
  <2>. QED  BY <1>9, <2>1, CountKept DEF EndSession
<1>10. CASE Fail(r)
  BY <1>10, CountKept DEF Fail
<1>. QED
  BY <1>1, <1>2, <1>3, <1>4, <1>5, <1>6, <1>7, <1>8, <1>9, <1>10 DEF Working

LEMMA PassingCount ==
  ASSUME TypeOK, Counted, Passing
  PROVE  Counted'
<1>1. account \in Account
  BY DEF TypeOK
<1>2. UNCHANGED <<checks, proofs, upsets>>
  BY DEF Passing, Tick, Lapse, KeyExpires, AddRole, history
<1>3. account'.code = account.code /\ account'.count = account.count
  BY <1>1 DEF Passing, Tick, Lapse, KeyExpires, AddRole, Account
<1>. QED  BY <1>2, <1>3, CountKept

-----------------------------------------------------------------------------
(* The invariant and the theorems *)

LEMMA InitInv == Init => IInv
<1>. SUFFICES ASSUME Init PROVE IInv
  OBVIOUS
<1>1. TypeOK
  BY InitType
<1>2. DOMAIN issuedFor = {} /\ DOMAIN checks = {} /\ LastCode = 0
  BY FS_EmptySet DEF Init, LastCode
<1>3. account.code = 0 /\ account.refresh = 0
  <2>1. /\ NoAccount.code = 0 /\ NoAccount.refresh = 0
        /\ [NoAccount EXCEPT !.exists = TRUE, !.password = 1].code = 0
        /\ [NoAccount EXCEPT !.exists = TRUE, !.password = 1].refresh = 0
    BY DEF NoAccount
  <2>. QED  BY <2>1 DEF Init
<1>4. /\ RowsTrue /\ SendsCounted /\ RevokedLeaves /\ CountInTurn /\ GuessesBoundedInTurn
      /\ ReplaysOvertake
  BY <1>2, <1>3 DEF Init, RowsTrue, RowTrue, SendsCounted, RevokedLeaves, CountInTurn,
                    GuessesBoundedInTurn, IsTokenRevoked, ReplaysOvertake
<1>5. \A k \in TicketPurpose : Holders(k) = {}
  BY DEF Init, Holders, Idle
<1>6. Balanced
  <2>1. \A k \in TicketPurpose : Cardinality(Holders(k)) = 0 /\ tickets[k] = 0
    BY <1>5, FS_EmptySet DEF Init
  <2>2. \A k \in TicketPurpose :
          changes[k] \in {0, 1} /\ proofs[k] = IF changes[k] = 1 THEN {0} ELSE {}
    BY DEF Init, Grants
  <2>3. Cardinality({0}) = 1 /\ Cardinality({}) = 0
    BY FS_Singleton, FS_EmptySet
  <2>. QED  BY <2>1, <2>2, <2>3 DEF Balanced
<1>. QED  BY <1>1, <1>4, <1>6 DEF IInv

LEMMA NextInv == IInv /\ [Next]_vars => IInv'
<1>. SUFFICES ASSUME IInv, [Next]_vars PROVE IInv'
  OBVIOUS
<1>. USE DEF IInv
<1>1. ASSUME NEW r \in Requests, Reading(r)
      PROVE  IInv'
  <2>1. TypeOK' /\ SendsCounted'
    BY <1>1, ReadingType
  <2>. QED
    BY <1>1, <2>1, ReadingRows, ReadingPasswords, ReadingRevoked, ReadingCount DEF Counted
<1>2. ASSUME NEW r \in Requests, Working(r)
      PROVE  IInv'
  <2>1. TypeOK' /\ SendsCounted'
    BY <1>2, WorkingType
  <2>. QED
    BY <1>2, <2>1, WorkingRows, WorkingPasswords, WorkingRevoked, WorkingCount DEF Counted
<1>3. CASE Passing
  <2>1. TypeOK' /\ SendsCounted'
    BY <1>3, PassingType
  <2>. QED
    BY <1>3, <2>1, PassingRows, PassingPasswords, PassingRevoked, PassingCount DEF Counted
<1>4. CASE UNCHANGED vars
  <2>. USE <1>4 DEF vars, history
  <2>1. TypeOK' /\ SendsCounted'
    BY DEF TypeOK, SendsCounted, LastCode
  <2>2. RowsTrue'
    BY DEF RowsTrue, RowTrue, ReadChecked, LastCode
  <2>3. Balanced'
    BY DEF Balanced, Holders
  <2>4. RevokedLeaves' /\ CountInTurn' /\ GuessesBoundedInTurn' /\ ReplaysOvertake'
    BY DEF RevokedLeaves, IsTokenRevoked, CountInTurn, GuessesBoundedInTurn, ReplaysOvertake, Spent
  <2>. QED  BY <2>1, <2>2, <2>3, <2>4
<1>. QED  BY <1>1, <1>2, <1>3, <1>4, NextSteps

\* Tickets, codes and rows are what the requests that made them proved, and a
\* request knows only what was true when it read it.
THEOREM Invariance == Spec => []IInv
BY InitInv, NextInv, PTL DEF Spec

\* The rows, the tickets, the tokens and the requests keep their types.
THEOREM TypeCorrect == Spec => []TypeOK
<1>1. IInv => TypeOK
  BY DEF IInv
<1>. QED  BY <1>1, Invariance, PTL

\* However many requests overlap, each password has used up an OTP of its own
\* that was answered right, unless one OTP was answered twice; and that takes
\* two requests that had read it before one of them cleared it (verifyOtp,
\* setPassword, resetPassword).
THEOREM PasswordsAreProved == Spec => []PasswordIsProved
<1>1. IInv => PasswordIsProved
  BY DEF IInv, Balanced, ReplaysOvertake, PasswordIsProved
<1>. QED  BY <1>1, Invariance, PTL

\* A session that a logout has revoked is not stored again behind its back
\* (logout, updateRefreshToken, resetPassword).
THEOREM RevokedStaysOut == Spec => []RevokedNotStored
<1>1. IInv => RevokedNotStored
  BY DEF IInv, RevokedLeaves, RevokedNotStored
<1>. QED  BY <1>1, Invariance, PTL

\* A code is checked against a bounded number of guesses while none is
\* overtaken (verifyOtp).
THEOREM GuessesAreBounded == Spec => []GuessesBoundedInTurn
<1>1. IInv => GuessesBoundedInTurn
  BY DEF IInv
<1>. QED  BY <1>1, Invariance, PTL
=============================================================================
