----------------------------- MODULE StaffInvites -----------------------------
(***************************************************************************)
(* StaffService: the membership of one person in the staff of one seller,  *)
(* which (seller, e-mail) keeps unique. The seller invites, resends, edits *)
(* and switches the status; the person accepts with the token of the last  *)
(* mail. Each of these reads the membership and then, in a transaction,    *)
(* updates it by its id and adds an audit row.                             *)
(*                                                                         *)
(* Tokens are numbered in the order they are made, 0 standing for NULL. A  *)
(* token that has expired is one that is not presented any more.           *)
(***************************************************************************)
EXTENDS Integers, Sequences, FiniteSets, RequestSlots

CONSTANT
  Users   \* users whose e-mail or mobile is the one invited

VARIABLES
  member,        \* the row of seller_staff_memberships
  staffAudit,    \* seller_staff_audits of it, oldest first
  staffRequest,  \* what each request in flight has read
  staffRaced     \* history: a request wrote over a row it had not read

staffVars == <<member, staffAudit, staffRequest, staffRaced>>

\* NONE: nobody has been invited yet.
StaffStatus == {"NONE", "INVITED", "ACTIVE", "INACTIVE", "REVOKED"}

Member == [status : StaffStatus, token : Nat, user : Users \cup {NULL}]

StaffAction == {"INVITED", "UPDATED", "STATUS_CHANGED", "INVITE_RESENT", "INVITE_ACCEPTED"}

\* An audit row: its action, and the status in its changes.
StaffAudit == [action : StaffAction, status : StaffStatus]

StaffIdle == [op |-> "Idle"]
StaffRequest == {StaffIdle} \cup [op : StaffAction, row : Member, user : Users \cup {NULL}]

StaffInit ==
  /\ member = [status |-> "NONE", token |-> 0, user |-> NULL]
  /\ staffAudit = <<>>
  /\ staffRequest = [r \in Requests |-> StaffIdle]
  /\ staffRaced = FALSE

\* The token of the next mail.
NewToken ==
  1 + Cardinality({i \in DOMAIN staffAudit : staffAudit[i].action \in {"INVITED", "INVITE_RESENT"}})

-----------------------------------------------------------------------------
(* The checks *)

TokenHoldsAnyStatus == member.token # 0

\* findByTokenHash: the token of the row, which must still be INVITED.
TokenHolds == member.token # 0 /\ member.status = "INVITED"

StaffAdmits(op) ==
  CASE op = "INVITED" -> member.status = "NONE"
    [] op = "INVITE_RESENT" -> member.status = "INVITED"
    [] op = "INVITE_ACCEPTED" -> TokenHolds
    [] OTHER -> member.status # "NONE"

\* Request r reads the membership and finds its check fulfilled.
BeginStaff(r, op, user) ==
  /\ staffRequest[r] = StaffIdle
  /\ op = "INVITE_ACCEPTED" <=> user # NULL
  /\ StaffAdmits(op)
  /\ staffRequest' = [staffRequest EXCEPT ![r] = [op |-> op, row |-> member, user |-> user]]
  /\ UNCHANGED <<member, staffAudit, staffRaced>>

-----------------------------------------------------------------------------
(* The transactions *)

\* StaffRepository.update: the row as it is by now, and the audit row.
Records(r, new, status) ==
  LET q == staffRequest[r] IN
  /\ member' = new
  /\ staffAudit' = Append(staffAudit, [action |-> q.op, status |-> status])
  /\ staffRaced' = (staffRaced \/ member # q.row)
  /\ staffRequest' = [staffRequest EXCEPT ![r] = StaffIdle]

\* Another invitation of the same e-mail fails on the unique index.
Invite(r) ==
  /\ staffRequest[r].op = "INVITED"
  /\ member.status = "NONE"
  /\ Records(r, [member EXCEPT !.status = "INVITED", !.token = NewToken], "INVITED")

\* Name and role, which no property tells apart.
UpdateStaff(r) ==
  /\ staffRequest[r].op = "UPDATED"
  /\ Records(r, member, "NONE")

SetStatus(r, status) ==
  /\ staffRequest[r].op = "STATUS_CHANGED"
  /\ status \in {"ACTIVE", "INACTIVE", "REVOKED"}
  /\ Records(r, [member EXCEPT !.status = status], status)

Resend(r) ==
  /\ staffRequest[r].op = "INVITE_RESENT"
  /\ Records(r, [member EXCEPT !.token = NewToken], "NONE")

Accept(r) ==
  /\ staffRequest[r].op = "INVITE_ACCEPTED"
  /\ Records(r, [status |-> "ACTIVE", token |-> 0, user |-> staffRequest[r].user], "ACTIVE")

\* A check fails, the index refuses the row, or the process dies.
FailStaff(r) ==
  /\ staffRequest[r] # StaffIdle
  /\ staffRequest' = [staffRequest EXCEPT ![r] = StaffIdle]
  /\ UNCHANGED <<member, staffAudit, staffRaced>>

StaffNext(r) ==
  \/ Invite(r) \/ UpdateStaff(r) \/ Resend(r) \/ Accept(r) \/ FailStaff(r)
  \/ \E status \in StaffStatus : SetStatus(r, status)

-----------------------------------------------------------------------------
(* Properties *)

StaffTypeOK ==
  /\ member \in Member
  /\ staffAudit \in Seq(StaffAudit)
  /\ staffRequest \in [Requests -> StaffRequest]
  /\ staffRaced \in BOOLEAN

Done(action) == {i \in DOMAIN staffAudit : staffAudit[i].action = action}

\* As long as no request writes over a row it has not read: the last status
\* the seller set is the one the membership has, so that a revoked invitation
\* is not accepted any more; and the person of the membership is the one who
\* accepted, once (status, accept, resend).
StaffOrderStands ==
  ~staffRaced =>
    /\ \A i \in Done("STATUS_CHANGED") :
         (\A j \in Done("STATUS_CHANGED") : j <= i) => member.status = staffAudit[i].status
    /\ \A i, j \in Done("INVITE_ACCEPTED") : i = j
    /\ member.user # NULL <=> Done("INVITE_ACCEPTED") # {}
=============================================================================
