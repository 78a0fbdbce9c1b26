--------------------------- MODULE NotificationInbox ---------------------------
(***************************************************************************)
(* NotificationsService: the templates that the SUPERADMINs edit and the   *)
(* notifications made from them, for the channel IN_APP and one locale.    *)
(* Making a notification and editing a template each read the template     *)
(* first and save afterwards; reading notifications marks them in one      *)
(* statement. Nothing in the repository calls createFromTemplate yet.      *)
(***************************************************************************)
EXTENDS Integers, Sequences, RequestSlots

CONSTANTS
  Recipients,   \* users who receive notifications
  Codes,        \* codes of templates
  Texts,        \* titles and bodies
  Keys          \* dedupe keys

ASSUME NoticeAssumption == Codes # {} /\ Texts # {}

VARIABLES
  templates,       \* the rows of notification_templates, in the order of their ids
  notices,         \* the rows of notifications
  noticeRequest,   \* what each request in flight has read
  edits,           \* history: templates created or saved
  printed,         \* history: what each template has ever said
  templatesRaced   \* history: a template was saved over an edit it had not read

noticeVars == <<templates, notices, noticeRequest, edits, printed, templatesRaced>>

Template == [code : Codes, active : BOOLEAN, version : Nat, text : Texts]

Key == Keys \cup {NULL}
Notice == [recipient : Recipients, code : Codes, text : Texts, key : Key, read : BOOLEAN]

NoticeIdle == [op |-> "Idle"]
NoticeRequest ==
  {NoticeIdle} \cup [op : {"Make"}, notice : Notice]
               \cup [op : {"Create"}, row : Template]
               \cup [op : {"Edit"}, id : Nat, row : Template, new : Template]

Prints(id, row) == printed' = printed \cup {[id |-> id, row |-> row]}

\* The migration inserts the first templates: one, whichever it is.
Seed == [code |-> CHOOSE c \in Codes : TRUE, active |-> TRUE, version |-> 1,
         text |-> CHOOSE t \in Texts : TRUE]

NoticeInit ==
  /\ templates = <<Seed>>
  /\ printed = {[id |-> 1, row |-> Seed]}
  /\ notices = <<>>
  /\ noticeRequest = [r \in Requests |-> NoticeIdle]
  /\ edits = 0
  /\ templatesRaced = FALSE

-----------------------------------------------------------------------------
(* What is read first *)

\* NotificationTemplateRepository.find: the rows in use under a code.
Active(code) == {i \in DOMAIN templates : templates[i].code = code /\ templates[i].active}

Reads(r, q) ==
  /\ noticeRequest[r] = NoticeIdle
  /\ noticeRequest' = [noticeRequest EXCEPT ![r] = q]
  /\ UNCHANGED <<templates, notices, edits, printed, templatesRaced>>

\* The template is rendered with the caller's variables, the allowed ones only.
Rendered(i, recipient, key) ==
  [recipient |-> recipient, code |-> templates[i].code, text |-> templates[i].text,
   key |-> key, read |-> FALSE]

BeginNotice(r, recipient, code, key) ==
  \E i \in Active(code) : Reads(r, [op |-> "Make", notice |-> Rendered(i, recipient, key)])

BeginTemplate(r, code, active, text) ==
  /\ Active(code) = {}
  /\ Reads(r, [op |-> "Create",
               row |-> [code |-> code, active |-> active, version |-> 1, text |-> text]])

\* Mutant: an edit keeps the version.
EditedSameVersion(row, code, active, text) ==
  [code |-> code, active |-> active, version |-> row.version, text |-> text]

\* The row of an edit: what it sends over what it read.
Edited(row, code, active, text) ==
  [code |-> code, active |-> active, version |-> row.version + 1, text |-> text]

BeginEdit(r, i, code, active, text) ==
  Reads(r, [op |-> "Edit", id |-> i, row |-> templates[i],
            new |-> Edited(templates[i], code, active, text)])

-----------------------------------------------------------------------------
(* What is saved then *)

Settles(r) == noticeRequest' = [noticeRequest EXCEPT ![r] = NoticeIdle]

\* The unique index on dedupe_key, which admits any number of NULLs.
MakeNotice(r) ==
  LET q == noticeRequest[r] IN
  /\ q.op = "Make"
  /\ q.notice.key # NULL => \A i \in DOMAIN notices : notices[i].key # q.notice.key
  /\ notices' = Append(notices, q.notice)
  /\ Settles(r)
  /\ UNCHANGED <<templates, edits, printed, templatesRaced>>

\* No other row has the code, in use or not: UQ_NOTIFICATION_TEMPLATE.
CodeFree(code, id) == \A i \in DOMAIN templates : i # id => templates[i].code # code

CreateTemplate(r) ==
  LET q == noticeRequest[r] IN
  /\ q.op = "Create"
  /\ CodeFree(q.row.code, 0)
  /\ templates' = Append(templates, q.row)
  /\ Prints(Len(templates) + 1, q.row)
  /\ edits' = edits + 1
  /\ Settles(r)
  /\ UNCHANGED <<notices, templatesRaced>>

\* save writes the whole row, the columns the edit has only read included.
UpdateTemplate(r) ==
  LET q == noticeRequest[r] IN
  /\ q.op = "Edit"
  /\ CodeFree(q.new.code, q.id)
  /\ templates' = [templates EXCEPT ![q.id] = q.new]
  /\ Prints(q.id, q.new)
  /\ templatesRaced' = (templatesRaced \/ templates[q.id] # q.row)
  /\ edits' = edits + 1
  /\ Settles(r)
  /\ UNCHANGED notices

\* An index refuses the row, or the process dies.
FailNotice(r) ==
  /\ noticeRequest[r] # NoticeIdle
  /\ Settles(r)
  /\ UNCHANGED <<templates, notices, edits, printed, templatesRaced>>

NoticeNext(r) == MakeNotice(r) \/ CreateTemplate(r) \/ UpdateTemplate(r) \/ FailNotice(r)

-----------------------------------------------------------------------------
(* Reading *)

Own(recipient) == {i \in DOMAIN notices : notices[i].recipient = recipient}

\* markRead for one notice of the caller's, markAllRead for all of them.
MarkRead(recipient) ==
  /\ \E some \in {{i} : i \in Own(recipient)} \cup {Own(recipient)} :
       notices' = [i \in DOMAIN notices |->
                    IF i \in some THEN [notices[i] EXCEPT !.read = TRUE] ELSE notices[i]]
  /\ UNCHANGED <<templates, noticeRequest, edits, printed, templatesRaced>>

-----------------------------------------------------------------------------
(* Properties *)

NoticeTypeOK ==
  /\ templates \in Seq(Template)
  /\ notices \in Seq(Notice)
  /\ noticeRequest \in [Requests -> NoticeRequest]
  /\ edits \in Nat
  /\ printed \subseteq [id : Nat, row : Template]
  /\ templatesRaced \in BOOLEAN

\* The version of a template stands for one text, so that what a recipient
\* was told can be looked up, as long as no edit is saved over another it has
\* not read; and every notice repeats what a template in use said under its
\* code, once for a key (updateTemplate, createFromTemplate).
NoticesAsPrinted ==
  /\ ~templatesRaced =>
       \A p, q \in printed : p.id = q.id /\ p.row.version = q.row.version => p = q
  /\ \A i \in DOMAIN notices : \E p \in printed :
       p.row.active /\ p.row.code = notices[i].code /\ p.row.text = notices[i].text
  /\ \A i, j \in DOMAIN notices : notices[i].key = notices[j].key => i = j \/ notices[i].key = NULL
=============================================================================
