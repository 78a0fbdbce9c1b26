------------------------------- MODULE Sessions -------------------------------
(***************************************************************************)
(* AuthService: one account, from the first OTP to its password, its       *)
(* sessions, their renewal, the reset of the password and the logout.      *)
(*                                                                         *)
(* Every request reads the row of the account, waits (for bcrypt, the      *)
(* signing of a token, Redis) and then writes columns of it without a      *)
(* condition; two of them write back the whole row. A request has a read   *)
(* step, and a step for each later write to the database or to Redis; it   *)
(* may be lost at any of them.                                             *)
(*                                                                         *)
(* A token carries no id, only the second of its signing (`iat`): the      *)
(* token signed for the account at second n is the number n, and signing   *)
(* twice in a second gives the same token. Codes and passwords are         *)
(* numbered in the order they are made, 0 standing for NULL.               *)
(***************************************************************************)
EXTENDS Integers, FiniteSets

CONSTANTS
  Requests,     \* slots for requests in flight
  MaxAttempts,  \* MAX_OTP_VERIFY_ATTEMPTS
  MaxSends,     \* OTPs sent in a window of 15 minutes
  MaxRequests,  \* bound: requests begun
  MaxSeconds    \* bound: seconds told apart

ASSUME SessionsAssumption ==
  /\ MaxAttempts \in Nat /\ MaxSends \in Nat /\ MaxRequests \in Nat /\ MaxSeconds \in Nat
  /\ IsFiniteSet(Requests)

VARIABLES
  account,   \* the row of users
  tickets,   \* live action tickets in Redis, by purpose
  sends,     \* the counter of auth:otp-send in Redis
  revoked,   \* revoked_tokens
  now,       \* the second the clock shows
  request,   \* what each request in flight has read
  asked,     \* history: requests begun
  opened,    \* history: seconds at which a session was opened
  issuedFor, \* history: what each code was made for
  checks,    \* history: guesses checked against each code
  proofs,    \* history: codes that were answered right, by what they allowed
  changes,   \* history: passwords saved, by purpose
  era,       \* history: the password the stored session goes back to
  upsets     \* history: what happened out of turn

history == <<opened, issuedFor, checks, proofs, changes, era, upsets>>

vars == <<account, tickets, sends, revoked, now, request, asked, history>>

-----------------------------------------------------------------------------
(* Rows *)

TicketPurpose == {"SET_PASSWORD", "RESET_PASSWORD"}
Grants == TicketPurpose \cup {"SESSION"}
OtpPurpose == {"LOGIN", "PASSWORD_RESET", "NULL"}

\* The columns the service reads and writes. lapsed and idle stand for
\* otp_expiry and refreshTokenExpiry in the past; seller for SELLER_ADMIN.
Account ==
  [exists : BOOLEAN, password : Nat, code : Nat, lapsed : BOOLEAN, count : Nat,
   purpose : OtpPurpose, refresh : Nat, idle : BOOLEAN, seller : BOOLEAN]

NoAccount ==
  [exists |-> FALSE, password |-> 0, code |-> 0, lapsed |-> FALSE, count |-> 0,
   purpose |-> "NULL", refresh |-> 0, idle |-> FALSE, seller |-> FALSE]

Token == {"access", "refresh"} \X Nat

Op == {"SendOtp", "ForgotPassword", "VerifyOtp", "Verified", "SetPassword",
       "Login", "RefreshToken", "ResetPassword", "Logout", "LoggingOut"}

Idle == [op |-> "Idle"]
Request == {Idle} \cup [op : Op, row : Account, with : Nat]

\* The last code and the last password made.
LastCode == Cardinality(DOMAIN issuedFor)
Password == changes["SET_PASSWORD"] + changes["RESET_PASSWORD"] + 1

\* Before the first OTP; or later, with a password and the session it came
\* with lapsed, so that its tokens are of no second the clock will show again;
\* the code that proved this password stands as 0.
Init ==
  /\ \/ account = NoAccount /\ changes = [k \in TicketPurpose |-> 0]
     \/ /\ account = [NoAccount EXCEPT !.exists = TRUE, !.password = 1]
        /\ changes = [k \in TicketPurpose |-> IF k = "SET_PASSWORD" THEN 1 ELSE 0]
  /\ tickets = [k \in TicketPurpose |-> 0]
  /\ sends = 0
  /\ revoked = {}
  /\ now = 1
  /\ request = [r \in Requests |-> Idle]
  /\ asked = 0
  /\ opened = {}
  /\ issuedFor = <<>>
  /\ checks = <<>>
  /\ proofs = [k \in Grants |-> IF k \in TicketPurpose /\ changes[k] = 1 THEN {0} ELSE {}]
  /\ era = 0
  /\ upsets = {}

-----------------------------------------------------------------------------
(* Reading *)

Begins(r) ==
  /\ request[r] = Idle
  /\ asked < MaxRequests
  /\ asked' = asked + 1

\* Request r has read the row. It came with an access token (a logout), with
\* a session that goes back to some password (a renewal), or with nothing.
Reads(r, op, with) ==
  /\ Begins(r)
  /\ request' = [request EXCEPT ![r] = [op |-> op, row |-> account, with |-> with]]

\* assertOtpSendAllowed.
SendAllowed == sends < MaxSends

\* The attempt is counted first, whatever becomes of it.
ReadForOtp(r, op, served) ==
  /\ sends' = sends + 1
  /\ \/ SendAllowed /\ served /\ Reads(r, op, 0)
     \/ ~(SendAllowed /\ served) /\ Begins(r) /\ UNCHANGED request
  /\ UNCHANGED <<account, tickets, revoked, now, history>>

\* sendOtp serves an account that does not exist yet, too.
ReadForSendOtp(r) == ReadForOtp(r, "SendOtp", TRUE)

\* forgotPassword answers an unknown identifier as if it had sent an OTP, and
\* refuses an account without a password.
ReadForForgotPassword(r) == ReadForOtp(r, "ForgotPassword", account.password # 0)

\* isOtpExpired: an account without a code counts as one whose code lapsed.
ReadForVerify(r) ==
  /\ account.exists
  /\ account.count < MaxAttempts
  /\ account.code # 0 /\ ~account.lapsed
  /\ Reads(r, "VerifyOtp", 0)
  /\ UNCHANGED <<account, tickets, sends, revoked, now, history>>

\* Mutant: a ticket is read, not taken.
TakeTicketLeavingIt(k) ==
  /\ tickets[k] > 0
  /\ UNCHANGED tickets

\* consumeActionTicket: GETDEL, so that a ticket serves one request.
TakeTicket(k) ==
  /\ tickets[k] > 0
  /\ tickets' = [tickets EXCEPT ![k] = @ - 1]

ReadForPassword(r, op, k) ==
  /\ TakeTicket(k)
  /\ Reads(r, op, 0)
  /\ UNCHANGED <<account, sends, revoked, now, history>>

\* login: validateUserStatus lets every status pass that the code ever writes.
ReadForLogin(r) ==
  /\ account.password # 0
  /\ Reads(r, "Login", 0)
  /\ UNCHANGED <<account, tickets, sends, revoked, now, history>>

\* loginForRoles: sellerLogin demands the role, and goes on like login.
ReadForSellerLogin(r) == account.seller /\ ReadForLogin(r)

\* findByRefreshToken: the token presented is the one stored.
ReadForRefresh(r) ==
  /\ account.refresh # 0 /\ ~account.idle
  /\ Reads(r, "RefreshToken", era)
  /\ UNCHANGED <<account, tickets, sends, revoked, now, history>>

IsTokenRevoked(kind, second) == <<kind, second>> \in revoked

\* JwtStrategy.validate: the access tokens the service answers to.
Accepted == {access \in opened : ~IsTokenRevoked("access", access)}

\* logout: the session of the row is there to be ended.
ReadForLogout(r, access) ==
  /\ access \in Accepted
  /\ account.refresh # 0
  /\ Reads(r, "Logout", access)
  /\ UNCHANGED <<account, tickets, sends, revoked, now, history>>

-----------------------------------------------------------------------------
(* Writing *)

Ends(r) == request' = [request EXCEPT ![r] = Idle]

\* updateRefreshToken: a session is stored, or with 0 none.
UpdateRefreshToken(refresh) == account' = [account EXCEPT !.refresh = refresh, !.idle = FALSE]

\* The code or its count has changed since request r read the row.
Overtaken(r) ==
  IF <<account.code, account.count>> # <<request[r].row.code, request[r].row.count>>
  THEN {"overtaken"} ELSE {}

\* Codes that were answered right.
Spent == UNION {proofs[k] : k \in Grants}

\* The code request r has read was answered right before, by another request.
Replayed(r) == IF request[r].row.code \in Spent THEN {"replayed"} ELSE {}

\* generateTokens: a pair signed in a second that has signed one before is
\* the same pair.
Reissued == IF now \in opened THEN {"reissued"} ELSE {}

\* issueAndDispatchOtp. A request that found no row inserts one: the first
\* insert makes the account, the code of a later one goes to a row that
\* findByMobile does not return (for an e-mail the insert fails).
IssueOtp(r, op, purpose) ==
  LET code == LastCode + 1
      found == request[r].row.exists \/ ~account.exists IN
  /\ request[r].op = op
  /\ account' = IF found
                THEN [account EXCEPT !.exists = TRUE, !.code = code, !.lapsed = FALSE,
                                     !.count = 0, !.purpose = purpose]
                ELSE account
  /\ issuedFor' = [c \in 1..code |-> IF c = code THEN purpose ELSE issuedFor[c]]
  /\ checks' = [c \in 1..code |-> IF c = code THEN 0 ELSE checks[c]]
  /\ Ends(r)
  /\ UNCHANGED <<tickets, sends, revoked, now, asked, opened, proofs, changes, era, upsets>>

Checked(r) == checks' = [checks EXCEPT ![request[r].row.code] = @ + 1]

WrongOtpUncounted(r) ==
  /\ request[r].op = "VerifyOtp"
  /\ Checked(r)
  /\ account' = [account EXCEPT !.count = request[r].row.count]
  /\ upsets' = upsets \cup Overtaken(r)
  /\ Ends(r)
  /\ UNCHANGED <<tickets, sends, revoked, now, asked, opened, issuedFor, proofs, changes, era>>

WrongOtp(r) ==
  /\ request[r].op = "VerifyOtp"
  /\ Checked(r)
  /\ account' = [account EXCEPT !.count = request[r].row.count + 1]
  /\ upsets' = upsets \cup Overtaken(r)
  /\ Ends(r)
  /\ UNCHANGED <<tickets, sends, revoked, now, asked, opened, issuedFor, proofs, changes, era>>

\* What a right code of this purpose allows, on an account with or without a
\* password; a session is not a ticket.
GrantOf(purpose, password) ==
  IF purpose = "PASSWORD_RESET" THEN "RESET_PASSWORD"
  ELSE IF purpose = "LOGIN" /\ password # 0 THEN "SESSION"
  ELSE "SET_PASSWORD"

\* The code is cleared before the ticket or the session is made, but not
\* before another request has read it.
RightOtp(r) ==
  LET row == request[r].row
      allows == GrantOf(issuedFor[row.code], row.password) IN
  /\ request[r].op = "VerifyOtp"
  /\ Checked(r)
  /\ account' = [account EXCEPT !.code = 0, !.lapsed = FALSE, !.count = 0, !.purpose = "NULL"]
  /\ proofs' = [proofs EXCEPT ![allows] = @ \cup {row.code}]
  /\ upsets' = upsets \cup Overtaken(r) \cup Replayed(r)
  /\ request' = [request EXCEPT ![r].op = "Verified"]
  /\ UNCHANGED <<tickets, sends, revoked, now, asked, opened, issuedFor, changes, era>>

\* The purpose is the one read together with the code.
Grant(r) ==
  LET grant == GrantOf(request[r].row.purpose, request[r].row.password) IN
  /\ request[r].op = "Verified"
  /\ \/ /\ grant \in TicketPurpose
        /\ tickets' = [tickets EXCEPT ![grant] = @ + 1]
        /\ UNCHANGED <<account, opened, era, upsets>>
     \/ /\ grant = "SESSION"
        /\ UpdateRefreshToken(now)
        /\ opened' = opened \cup {now}
        /\ upsets' = upsets \cup Reissued
        /\ era' = request[r].row.password
        /\ UNCHANGED tickets
  /\ Ends(r)
  /\ UNCHANGED <<sends, revoked, now, asked, issuedFor, checks, proofs, changes>>

\* setPassword: an account that has one by the time it is read has used up
\* the ticket for nothing; otherwise the whole row read is written back, its
\* roles with it.
SetPassword(r) ==
  LET row == request[r].row IN
  /\ request[r].op = "SetPassword"
  /\ row.password = 0
  /\ account' = [row EXCEPT !.password = Password, !.refresh = now, !.idle = FALSE]
  /\ era' = Password
  /\ changes' = [changes EXCEPT !["SET_PASSWORD"] = @ + 1]
  /\ opened' = opened \cup {now}
  /\ upsets' = upsets \cup Reissued \cup Overtaken(r)
  /\ Ends(r)
  /\ UNCHANGED <<tickets, sends, revoked, now, asked, issuedFor, checks, proofs>>

\* resetPassword: the row is written back without its roles, which were not
\* loaded, without the code, and without the session.
RowAfterResetKeepingSession(row) ==
  [row EXCEPT !.password = Password, !.code = 0, !.lapsed = FALSE, !.count = 0,
              !.purpose = "NULL", !.seller = account.seller]

RowAfterReset(row) ==
  [row EXCEPT !.password = Password, !.code = 0, !.lapsed = FALSE, !.count = 0,
              !.purpose = "NULL", !.seller = account.seller, !.refresh = 0, !.idle = FALSE]

ResetPassword(r) ==
  /\ request[r].op = "ResetPassword"
  /\ account' = RowAfterReset(request[r].row)
  /\ changes' = [changes EXCEPT !["RESET_PASSWORD"] = @ + 1]
  /\ era' = 0
  /\ Ends(r)
  /\ UNCHANGED <<tickets, sends, revoked, now, asked, opened, issuedFor, checks, proofs, upsets>>

\* login and refreshToken: updateRefreshToken with a new pair. A login opens
\* a session under the password it compared with, a renewal keeps the
\* password its session goes back to.
OpenSession(r, op) ==
  /\ request[r].op = op
  /\ UpdateRefreshToken(now)
  /\ era' = IF op = "Login" THEN request[r].row.password ELSE request[r].with
  /\ opened' = opened \cup {now}
  /\ upsets' = upsets \cup Reissued
  /\ Ends(r)
  /\ UNCHANGED <<tickets, sends, revoked, now, asked, issuedFor, checks, proofs, changes>>

\* revokeManyTokens: the access token presented and the refresh token read.
Revoke(r) ==
  /\ request[r].op = "Logout"
  /\ revoked' = revoked \cup {<<"access", request[r].with>>,
                              <<"refresh", request[r].row.refresh>>}
  /\ request' = [request EXCEPT ![r].op = "LoggingOut"]
  /\ UNCHANGED <<account, tickets, sends, now, asked, history>>

\* updateRefreshToken(null), whatever is stored by now.
EndSession(r) ==
  /\ request[r].op = "LoggingOut"
  /\ UpdateRefreshToken(0)
  /\ era' = 0
  /\ Ends(r)
  /\ UNCHANGED <<tickets, sends, revoked, now, asked, opened, issuedFor, checks, proofs, changes, upsets>>

\* A request fails a check after it consumed its ticket, its OTP cannot be
\* dispatched, or the process dies under it.
Fail(r) ==
  /\ request[r] # Idle
  /\ upsets' = upsets \cup (IF request[r].op = "LoggingOut" THEN {"halfway"} ELSE {})
  /\ Ends(r)
  /\ UNCHANGED <<account, tickets, sends, revoked, now, asked, opened, issuedFor, checks,
                 proofs, changes, era>>

-----------------------------------------------------------------------------
(* Time, and the onboarding *)

Tick ==
  /\ now < MaxSeconds
  /\ now' = now + 1
  /\ UNCHANGED <<account, tickets, sends, revoked, request, asked, history>>

\* Five minutes pass over a code, seven days over a refresh token.
Lapse ==
  /\ \/ account.code # 0 /\ ~account.lapsed /\ account' = [account EXCEPT !.lapsed = TRUE]
     \/ account.refresh # 0 /\ ~account.idle /\ account' = [account EXCEPT !.idle = TRUE]
  /\ UNCHANGED <<tickets, sends, revoked, now, request, asked, history>>

\* Keys of Redis lose their time to live.
KeyExpires ==
  /\ \/ sends > 0 /\ sends' = 0 /\ UNCHANGED tickets
     \/ \E k \in TicketPurpose :
          tickets[k] > 0 /\ tickets' = [tickets EXCEPT ![k] = @ - 1] /\ UNCHANGED sends
  /\ UNCHANGED <<account, revoked, now, request, asked, history>>

\* SellersService grants SELLER_ADMIN to a user with a session.
AddRole ==
  /\ Accepted # {}
  /\ ~account.seller
  /\ account' = [account EXCEPT !.seller = TRUE]
  /\ UNCHANGED <<tickets, sends, revoked, now, request, asked, history>>

Next ==
  \/ \E r \in Requests :
       \/ ReadForSendOtp(r) \/ ReadForForgotPassword(r)
       \/ ReadForVerify(r) \/ ReadForLogin(r) \/ ReadForSellerLogin(r) \/ ReadForRefresh(r)
       \/ ReadForPassword(r, "SetPassword", "SET_PASSWORD")
       \/ ReadForPassword(r, "ResetPassword", "RESET_PASSWORD")
       \/ \E access \in opened : ReadForLogout(r, access)
       \/ IssueOtp(r, "SendOtp", "LOGIN") \/ IssueOtp(r, "ForgotPassword", "PASSWORD_RESET")
       \/ WrongOtp(r) \/ RightOtp(r) \/ Grant(r)
       \/ SetPassword(r) \/ ResetPassword(r)
       \/ OpenSession(r, "Login") \/ OpenSession(r, "RefreshToken")
       \/ Revoke(r) \/ EndSession(r) \/ Fail(r)
  \/ Tick \/ Lapse \/ KeyExpires \/ AddRole

Spec == Init /\ [][Next]_vars

-----------------------------------------------------------------------------
(* Properties *)

\* Every variable keeps its type; the key of a ticket is never consumed twice.
TypeOK ==
  /\ account \in Account
  /\ tickets \in [TicketPurpose -> Nat]
  /\ sends \in 0..MaxRequests
  /\ revoked \subseteq Token
  /\ now \in 1..(MaxSeconds + 1)
  /\ request \in [Requests -> Request]
  /\ asked \in 0..MaxRequests
  /\ opened \subseteq 1..(MaxSeconds + 1)
  /\ LastCode \in Nat
  /\ issuedFor \in [1..LastCode -> OtpPurpose \ {"NULL"}]
  /\ checks \in [1..LastCode -> Nat]
  /\ proofs \in [Grants -> SUBSET (0..LastCode)]
  /\ changes \in [TicketPurpose -> Nat]
  /\ era \in Nat
  /\ upsets \subseteq {"overtaken", "replayed", "reissued", "halfway"}

\* Requests that have taken a ticket for this purpose, or owe one.
Holders(k) ==
  {r \in Requests : LET q == request[r] IN
     \/ k = "SET_PASSWORD" /\ q.op = "SetPassword"
     \/ k = "RESET_PASSWORD" /\ q.op = "ResetPassword"
     \/ q.op = "Verified" /\ GrantOf(q.row.purpose, q.row.password) = k}

\* Each password set or reset has used up an OTP of its own, made for that
\* purpose, however requests overlap, as long as no two of them answer the same
\* OTP; and that takes two that had read it before one of them cleared it, so
\* that verifying one after the other never does (verifyOtp, and the single use
\* of the tickets that setPassword and resetPassword consume).
PasswordIsProved ==
  /\ "replayed" \in upsets => "overtaken" \in upsets
  /\ "replayed" \notin upsets =>
       \A k \in TicketPurpose :
         changes[k] + tickets[k] + Cardinality(Holders(k)) <= Cardinality(proofs[k])

\* Once a logout has run to its end, the refresh token it revoked is not
\* stored again, whatever was writing the row beside it; not so if the same
\* token is signed again within its second (logout, resetPassword,
\* updateRefreshToken).
RevokedNotStored ==
  upsets \cap {"reissued", "halfway"} = {} /\ (\A r \in Requests : request[r].op # "LoggingOut")
    => ~IsTokenRevoked("refresh", account.refresh)

\* As long as no guess writes a count it has not read last, a code is checked
\* against at most MAX_OTP_VERIFY_ATTEMPTS guesses (verifyOtp).
GuessesBoundedInTurn ==
  "overtaken" \notin upsets => \A c \in DOMAIN checks : checks[c] <= MaxAttempts

\* What the comment above verifyOtp promises: "the OTP itself must not be
\* replayable against the sensitive action it unlocks". No more passwords are
\* set or reset than OTPs made for it were answered.
OtpNotReplayed == \A k \in TicketPurpose : changes[k] <= Cardinality(proofs[k])

\* What the comment in resetPassword promises: "log out every existing
\* session". Where the password was set once, and then reset, the session that
\* is stored was opened under the current password.
ResetEndsSessions ==
  changes["SET_PASSWORD"] <= 1 /\ account.refresh # 0 => era = account.password
=============================================================================
