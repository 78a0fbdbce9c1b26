SPECIFICATION Spec
CONSTANTS
  Requests = {r1, r2}
  Users = {u1}
  NULL = NULL
  Recipients = {u1}
  Codes = {c1, c2}
  Texts = {t1, t2}
  Keys = {k1}
  Owners = {o1, o2}
  Statuses = {s1, s2}
  ANY = ANY
  Limit = 2
  MaxRows = 4
  MaxEvents = 2
  MaxUpdates = 2
  MaxMessages = 3
  Desks = {"staff", "tickets", "notices", "lists"}
  MaxOperations = 4
  MaxNotices = 3
INVARIANT StaffOrderStands
INVARIANT TicketTellsItsState
PROPERTY NoStateComesBack
PROPERTY MaintenanceSettles
INVARIANT NoticesAsPrinted
INVARIANT WalkMissesNothing
