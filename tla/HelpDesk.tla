------------------------------- MODULE HelpDesk -------------------------------
(***************************************************************************)
(* What a seller manages besides products: the staff, the support tickets, *)
(* the notifications, and the lists of each. All of it is behind the       *)
(* maintenance guard, which lets a request through before it begins what   *)
(* it came for.                                                            *)
(*                                                                         *)
(* The parts share no table: one of them at a time is visited, since none  *)
(* can tell what happens in the others. The guard can only hold a request  *)
(* back: the staff and the tickets are explored behind it, notifications   *)
(* and lists without it, which leaves them more behaviours and not fewer.  *)
(***************************************************************************)
EXTENDS Integers, Sequences, FiniteSets, MaintenanceMode, StaffInvites, SupportTickets,
        NotificationInbox, PagedLists

CONSTANTS
  Desks,          \* bound: the parts that are visited
  MaxOperations,  \* bound: operations on the membership or the ticket
  MaxNotices      \* bound: operations on the templates and the notifications

ASSUME HelpDeskAssumption ==
  /\ Desks \subseteq {"staff", "tickets", "notices", "lists"}
  /\ MaxOperations \in Nat /\ MaxNotices \in Nat

VARIABLE
  desk   \* the part that is visited

vars == <<desk, gateVars, staffVars, ticketVars, noticeVars, listVars>>

Init ==
  /\ desk \in Desks
  /\ GateInit /\ StaffInit /\ TicketInit /\ NoticeInit /\ ListInit

\* Operations done and in flight.
Operations ==
  Len(staffAudit) + Cardinality(Seen) + orders + Len(notices) + edits
    + Cardinality({r \in Requests : staffRequest[r] # StaffIdle})
    + Cardinality({r \in Requests : ticketRequest[r] # ReplyIdle})
    + Cardinality({r \in Requests : noticeRequest[r] # NoticeIdle})

\* Request r is not behind the guard already.
Outside(r) == staffRequest[r] = StaffIdle /\ ticketRequest[r] = ReplyIdle

AtStaff == desk = "staff" /\ UNCHANGED <<ticketVars, noticeVars, listVars>>
AtTickets == desk = "tickets" /\ UNCHANGED <<staffVars, noticeVars, listVars>>
AtNotices == desk = "notices" /\ UNCHANGED <<gateVars, staffVars, ticketVars, listVars>>
AtLists == desk = "lists" /\ UNCHANGED <<gateVars, staffVars, ticketVars, noticeVars>>

BeginAtStaff(r) ==
  \E op \in StaffAction, user \in Users \cup {NULL} :
    /\ op # "INVITE_ACCEPTED" => ~visitor[r].admin
    /\ BeginStaff(r, op, user)

BeginAtTickets(r) ==
  \/ ~visitor[r].admin /\ (CreateTicket \/ BeginReply(r, "SELLER"))
  \/ BeginReply(r, "ADMIN")
  \/ \E status \in TicketStatus \ {"NONE"}, remark \in BOOLEAN : AdminUpdateTicket(status, remark)

BeginAtNotices(r) ==
  /\ Operations < MaxNotices
  /\ \/ \E recipient \in Recipients, code \in Codes, key \in Key :
          BeginNotice(r, recipient, code, key)
     \/ \E code \in Codes, active \in BOOLEAN, text \in Texts :
          \/ BeginTemplate(r, code, active, text)
          \/ \E i \in DOMAIN templates : BeginEdit(r, i, code, active, text)

\* A SUPERADMIN passes the guard at any time, but the seller's routes are
\* closed to him.
Begin(r) ==
  /\ Operations < MaxOperations
  /\ Enter(r)
  /\ \/ AtStaff /\ BeginAtStaff(r)
     \/ AtTickets /\ BeginAtTickets(r)

\* Any other route, and one that turns the request away.
Pass(r) == Enter(r) /\ UNCHANGED <<staffVars, ticketVars, noticeVars, listVars>>

AtGate(r) ==
  /\ desk \in {"staff", "tickets"}
  /\ Outside(r)
  /\ GateNext(r)
  /\ UNCHANGED <<staffVars, ticketVars, noticeVars, listVars>>

Next ==
  /\ \/ \E r \in Requests :
          \/ AtGate(r) \/ Begin(r) \/ Pass(r)
          \/ AtStaff /\ StaffNext(r) /\ UNCHANGED gateVars
          \/ AtTickets /\ TicketNext(r) /\ UNCHANGED gateVars
          \/ AtNotices /\ (BeginAtNotices(r) \/ NoticeNext(r))
     \/ AtNotices /\ \E recipient \in Recipients : MarkRead(recipient)
     \/ CacheExpires /\ UNCHANGED <<staffVars, ticketVars, noticeVars, listVars>>
     \/ AtLists /\ ListNext
  /\ UNCHANGED desk

Spec == Init /\ [][Next]_vars /\ GateFairness

TypeOK == GateTypeOK /\ StaffTypeOK /\ TicketTypeOK /\ NoticeTypeOK /\ ListTypeOK
=============================================================================
