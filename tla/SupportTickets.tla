---------------------------- MODULE SupportTickets ----------------------------
(***************************************************************************)
(* SupportService: one ticket, the messages of the seller and of the       *)
(* administrators, and the status the administrators set.                  *)
(*                                                                         *)
(* A reply is a transaction: it reads the ticket, inserts the message and  *)
(* updates the status. The message refers to the ticket, so that inserting *)
(* it takes a shared lock on the ticket's row, which an update of the row  *)
(* by anybody else waits for; two replies that hold it wait for each other *)
(* and InnoDB rolls one of them back.                                      *)
(***************************************************************************)
EXTENDS Integers, FiniteSetsExt, RequestSlots

CONSTANT
  MaxMessages   \* bound: ids given to messages

ASSUME TicketAssumption == MaxMessages \in Nat

VARIABLES
  ticket,         \* the row of support_tickets
  messages,       \* its messages
  ticketRequest,  \* how far each reply in flight has come
  orders,         \* history: updates by administrators
  standing,       \* history: the status ordered, unless a reply has come since
  ticketRaced     \* history: a reply was sent to a ticket closed meanwhile

ticketVars == <<ticket, messages, ticketRequest, orders, standing, ticketRaced>>

\* NONE: no ticket has been created yet.
TicketStatus == {"NONE", "OPEN", "IN_PROGRESS", "WAITING_SELLER", "RESOLVED", "CLOSED"}

\* resolved: resolved_at is set.
Ticket == [status : TicketStatus, resolved : BOOLEAN]

Role == {"SELLER", "ADMIN"}

\* in: the reply whose transaction has inserted it and not committed yet.
Message == [id : Nat, sender : Role, in : Requests \cup {NULL}]

ReplyIdle == [op |-> "Idle"]
Reply == {ReplyIdle} \cup [op : {"Read", "Sent"}, role : Role]

TicketInit ==
  /\ ticket = [status |-> "NONE", resolved |-> FALSE]
  /\ messages = {}
  /\ ticketRequest = [r \in Requests |-> ReplyIdle]
  /\ orders = 0
  /\ standing = "NONE"
  /\ ticketRaced = FALSE

-----------------------------------------------------------------------------

\* createTicket: the ticket and its first message in one transaction.
CreateTicket ==
  /\ ticket.status = "NONE"
  /\ ticket' = [ticket EXCEPT !.status = "OPEN"]
  /\ messages' = {[id |-> 1, sender |-> "SELLER", in |-> NULL]}
  /\ UNCHANGED <<ticketRequest, orders, standing, ticketRaced>>

HoldingNothing == {}

\* Replies that hold the shared lock on the ticket.
Holding == {r \in Requests : ticketRequest[r].op = "Sent"}

BeginReply(r, role) ==
  /\ ticketRequest[r] = ReplyIdle
  /\ ticket.status \notin {"NONE", "CLOSED"}
  /\ ticketRequest' = [ticketRequest EXCEPT ![r] = [op |-> "Read", role |-> role]]
  /\ UNCHANGED <<ticket, messages, orders, standing, ticketRaced>>

\* Ids grow. One that was given to a message rolled back is given again, as
\* nobody has seen it.
NextId == 1 + Max({m.id : m \in messages})

\* The message takes its id here, and is seen from the commit on.
AddMessage(r) ==
  /\ ticketRequest[r].op = "Read"
  /\ NextId <= MaxMessages
  /\ messages' = messages \cup {[id |-> NextId, sender |-> ticketRequest[r].role, in |-> r]}
  /\ ticketRequest' = [ticketRequest EXCEPT ![r].op = "Sent"]
  /\ UNCHANGED <<ticket, orders, standing, ticketRaced>>

ReplyStatus(role) == IF role = "ADMIN" THEN "WAITING_SELLER" ELSE "OPEN"

\* The update of the ticket and the commit.
CommitReply(r) ==
  /\ ticketRequest[r].op = "Sent"
  /\ Holding \subseteq {r}
  /\ ticket' = [ticket EXCEPT !.status = ReplyStatus(ticketRequest[r].role)]
  /\ messages' = {IF m.in = r THEN [m EXCEPT !.in = NULL] ELSE m : m \in messages}
  /\ standing' = IF standing = "CLOSED" THEN standing ELSE "NONE"
  /\ ticketRaced' = (ticketRaced \/ ticket.status = "CLOSED")
  /\ ticketRequest' = [ticketRequest EXCEPT ![r] = ReplyIdle]
  /\ UNCHANGED orders

\* The transaction is rolled back: as the victim of a deadlock with another
\* reply, on an error, or because the process dies.
RollBackReply(r) ==
  /\ ticketRequest[r] # ReplyIdle
  /\ messages' = {m \in messages : m.in # r}
  /\ ticketRequest' = [ticketRequest EXCEPT ![r] = ReplyIdle]
  /\ UNCHANGED <<ticket, orders, standing, ticketRaced>>

\* adminUpdate, once no reply holds the row. RESOLVED needs a remark.
AdminUpdateTicket(status, remark) ==
  /\ ticket.status # "NONE"
  /\ Holding = {}
  /\ status = "RESOLVED" => remark
  /\ ticket' = [status |-> status, resolved |-> status = "RESOLVED"]
  /\ orders' = orders + 1
  /\ standing' = status
  /\ UNCHANGED <<messages, ticketRequest, ticketRaced>>

TicketNext(r) == AddMessage(r) \/ CommitReply(r) \/ RollBackReply(r)

-----------------------------------------------------------------------------
(* Properties *)

TicketTypeOK ==
  /\ ticket \in Ticket
  /\ messages \subseteq Message
  /\ ticketRequest \in [Requests -> Reply]
  /\ orders \in Nat
  /\ standing \in TicketStatus
  /\ ticketRaced \in BOOLEAN

Seen == {m \in messages : m.in = NULL}

\* The status of a ticket is the one an administrator ordered, or else tells
\* who spoke last, so that no message waits unseen in the wrong queue; a
\* ticket that was closed stays so until an administrator opens it again,
\* unless the reply had been let through before (reply, adminUpdate).
TicketTellsItsState ==
  ~ticketRaced /\ ticket.status # "NONE" =>
    IF standing # "NONE" THEN ticket.status = standing
    ELSE \E last \in Seen :
           /\ \A m \in Seen : m.id <= last.id
           /\ ticket.status = ReplyStatus(last.sender)
=============================================================================
