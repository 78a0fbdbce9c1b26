------------------------------ MODULE PagedLists ------------------------------
(***************************************************************************)
(* The lists that are read page by page: the staff and the tickets of a    *)
(* seller, the notifications of a user, products and categories under      *)
(* review, the sellers whose KYC is judged, and the catalogue. Each page   *)
(* is a query of its own, with OFFSET and LIMIT, and a count; a reader     *)
(* walks through the pages while others insert and change rows. The global *)
(* cache interceptor keeps the pages of the one list that is not exempt    *)
(* from it, the catalogue.                                                 *)
(*                                                                         *)
(* A row stands for what its own module models. In every list it has an    *)
(* owner and a status to filter by; the rest of the filters, and what a    *)
(* list always requires, decide whether it is shown.                       *)
(***************************************************************************)
EXTENDS Integers, Sequences, FiniteSets

CONSTANTS
  Owners,     \* sellers, or whoever else the rows of a list belong to
  Statuses,   \* statuses a list can be asked for
  ANY,        \* a filter that is not given
  Limit,      \* rows of a page
  MaxRows,    \* bound: rows in the table
  MaxEvents   \* bound: changes of rows during a walk

ASSUME ListAssumption ==
  /\ Limit \in Nat \ {0}
  /\ MaxRows \in Nat \ {0} /\ MaxRows % 2 = 0
  /\ MaxEvents \in Nat
  /\ Owners # {} /\ Statuses # {}

VARIABLES
  rows,     \* the table, in the order of the ids, which is that of created_at
  date,     \* UTC_DATE(), which the catalogue is shuffled by
  walk,     \* the reader: what is asked, how far, and what has been seen
  kept,     \* the pages of what is asked in the response cache
  steady,   \* history: rows that have been in the list, unchanged, all along
  upset,    \* history: what has moved the list towards the reader
  events    \* history: changes of rows

listVars == <<rows, date, walk, kept, steady, upset, events>>

\* touched: updated_at. boosted: a campaign for the product is running.
Row == [owner : Owners, status : Statuses, shown : BOOLEAN, touched : Int, boosted : BOOLEAN]

-----------------------------------------------------------------------------
(* What is listed *)

\* What a list can be asked for: whose rows, and of which statuses, if it can
\* do without; the order of its rows; and which of the two queries of a page
\* comes first. getManyAndCount and findAndCount read the rows first.
Queries == {"count", "items"}
Optional(values) == values \cup {ANY}

\* The members of a seller's staff, counted first.
StaffList == [owner |-> Owners, status |-> Optional(Statuses), by |-> "created", first |-> {"count"}]

\* A seller's tickets, or for an administrator all of them.
TicketList ==
  [owner |-> Optional(Owners), status |-> Optional(Statuses), by |-> "touched", first |-> {"count"}]

\* The notifications of a user that have not expired, read or not.
NoticeList == [owner |-> Owners, status |-> Optional(Statuses), by |-> "created", first |-> {"items"}]

OwnProductList ==
  [owner |-> Owners, status |-> Optional(Statuses), by |-> "created", first |-> {"items"}]

ProductList ==
  [owner |-> Optional(Owners), status |-> Optional(Statuses), by |-> "created", first |-> {"items"}]

\* Categories under review, or those the caller has proposed.
CategoryList ==
  [owner |-> Optional(Owners), status |-> Optional(Statuses), by |-> "created", first |-> {"items"}]

\* Sellers by the state of their KYC: the two queries run together.
SellerList == [owner |-> {ANY}, status |-> Optional(Statuses), by |-> "id", first |-> Queries]

\* The approved products of active sellers with all their KYC.
Catalogue == [owner |-> Optional(Owners), status |-> Statuses, by |-> "shuffle", first |-> {"items"}]

Lists ==
  [staff |-> StaffList, tickets |-> TicketList, notices |-> NoticeList,
   ownProducts |-> OwnProductList, products |-> ProductList, categories |-> CategoryList,
   sellers |-> SellerList, catalogue |-> Catalogue]

\* pending: the queries of the page that have not answered yet; none, when the
\* walk is over.
Walk == [list : DOMAIN Lists, owner : Owners \cup {ANY}, status : Statuses \cup {ANY},
         page : Nat, items : SUBSET Nat, total : Nat, pending : SUBSET Queries, seen : SUBSET Nat]

Given(filter, value) == filter = ANY \/ filter = value

Listed(table, w) ==
  {i \in DOMAIN table : Given(w.owner, table[i].owner) /\ Given(w.status, table[i].status)
                        /\ table[i].shown}

\* CRC32 of the id and the date: an order that has nothing to do with the
\* ids, and another one every day. Two products of one value are left out.
Shuffle(i, day) == (2 * i + day) % (MaxRows + 1)

\* Sponsored products first, each part shuffled: sortBy has nothing to decide.
CatalogueBefore(table, day, i, j) ==
  IF table[i].boosted # table[j].boosted THEN table[i].boosted
  ELSE Shuffle(i, day) < Shuffle(j, day)

\* Mutant: the tickets in the order in which they were last touched.
BeforeOldestTicketFirst(by, table, day, i, j) ==
  CASE by = "created" -> i > j
    [] by = "touched" -> table[i].touched < table[j].touched
    [] by = "id" -> i < j
    [] by = "shuffle" -> CatalogueBefore(table, day, i, j)

\* Whether row i comes before row j: the row created or touched last does.
Before(by, table, day, i, j) ==
  CASE by = "created" -> i > j
    [] by = "touched" -> table[i].touched > table[j].touched
    [] by = "id" -> i < j
    [] by = "shuffle" -> CatalogueBefore(table, day, i, j)

\* Where row i stands in the list, from 0.
Rank(w, i) ==
  Cardinality({j \in Listed(rows, w) : Before(Lists[w.list].by, rows, date, j, i)})

\* offset((page - 1) * limit), limit(limit). Which rows the page has, not how
\* they follow each other there.
Page(w) ==
  {i \in Listed(rows, w) : (w.page - 1) * Limit <= Rank(w, i) /\ Rank(w, i) < w.page * Limit}

TotalPages(total) == (total + Limit - 1) \div Limit

-----------------------------------------------------------------------------
(* The reader *)

NoWalk == [list |-> "staff", owner |-> ANY, status |-> ANY, page |-> 0, items |-> {},
           total |-> 0, pending |-> {}, seen |-> {}]

\* Some rows are there before, of one owner and status: which ones does not
\* matter, as the reader may ask for any. One more can be added.
ListInit ==
  /\ LET n == MaxRows - 1 IN
       rows = [i \in 1..n |-> [owner |-> CHOOSE o \in Owners : TRUE,
                              status |-> CHOOSE s \in Statuses : TRUE, shown |-> TRUE,
                              touched |-> i - n, boosted |-> FALSE]]
  /\ date = 0
  /\ walk = NoWalk
  /\ kept = <<>>
  /\ steady = {}
  /\ upset = FALSE
  /\ events = 0

\* A reader who has come to the end may load the list again.
StartWalk(list, owner, status) ==
  LET w == [NoWalk EXCEPT !.list = list, !.owner = owner, !.status = status, !.page = 1,
                          !.pending = Queries] IN
  /\ walk.pending = {}
  /\ walk.page > 0 => <<list, owner, status>> = <<walk.list, walk.owner, walk.status>>
  /\ owner \in Lists[list].owner /\ status \in Lists[list].status
  /\ walk' = w
  /\ steady' = Listed(rows, w)
  /\ upset' = FALSE
  /\ UNCHANGED <<rows, date, kept, events>>

\* Once both queries have answered, the reader takes the page, and asks for
\* the next one unless this was the last.
Answered(w) ==
  LET seen == w.seen \cup w.items IN
  CASE w.pending # {} -> w
    [] w.pending = {} /\ w.page >= TotalPages(w.total) ->
         [w EXCEPT !.seen = seen, !.items = {}, !.total = 0]
    [] OTHER -> [w EXCEPT !.page = w.page + 1, !.seen = seen, !.items = {}, !.total = 0,
                          !.pending = Queries]

\* The catalogue is asked only for a page that is not kept.
Asks(query) ==
  /\ query \in walk.pending
  /\ walk.pending = Queries => query \in Lists[walk.list].first /\ walk.page \notin DOMAIN kept

\* The reader gets w, and a page of the catalogue is kept when it is complete.
Gets(w) ==
  /\ walk' = Answered(w)
  /\ kept' = IF w.list = "catalogue" /\ w.pending = {}
             THEN [page \in DOMAIN kept \cup {w.page} |->
                    IF page = w.page THEN [items |-> w.items, total |-> w.total] ELSE kept[page]]
             ELSE kept
  /\ UNCHANGED <<rows, date, steady, upset, events>>

ReadCount ==
  /\ Asks("count")
  /\ Gets([walk EXCEPT !.total = Cardinality(Listed(rows, walk)), !.pending = @ \ {"count"}])

ReadItems ==
  /\ Asks("items")
  /\ Gets([walk EXCEPT !.items = Page(walk), !.pending = @ \ {"items"}])

\* The interceptor answers with the page it keeps, whatever the rows are now.
ReadKept ==
  LET page == kept[walk.page]
      fresh == [items |-> Page(walk), total |-> Cardinality(Listed(rows, walk))]
  IN
  /\ walk.pending = Queries
  /\ walk.page \in DOMAIN kept
  /\ walk' = Answered([walk EXCEPT !.items = page.items, !.total = page.total, !.pending = {}])
  /\ upset' = (upset \/ page # fresh)
  /\ UNCHANGED <<rows, date, kept, steady, events>>

\* REDIS_TTL.
KeptExpires ==
  \E page \in DOMAIN kept :
    /\ kept' = [p \in DOMAIN kept \ {page} |-> kept[p]]
    /\ UNCHANGED <<rows, date, walk, steady, upset, events>>

-----------------------------------------------------------------------------
(* The others *)

\* Row i keeps its place among the rows of the list.
Keeps(w, table, i) ==
  CASE Lists[w.list].by = "touched" -> table[i].touched = rows[i].touched
    [] Lists[w.list].by = "shuffle" -> table[i].boosted = rows[i].boosted
    [] OTHER -> TRUE

\* The rows turn into table. The reader is upset by a row that leaves the
\* list, by a product that falls back behind the sponsored ones, and by a row
\* that comes in between the count and the rows of a page.
Becomes(table) ==
  LET old == Listed(rows, walk)
      new == Listed(table, walk)
  IN
  /\ walk.pending # {}
  /\ events < MaxEvents
  /\ events' = events + 1
  /\ rows' = table
  /\ steady' = {i \in steady \cap new : Keeps(walk, table, i)}
  /\ upset' = \/ upset
              \/ old \ new # {}
              \/ walk.list = "catalogue" /\ \E i \in old : rows[i].boosted /\ ~table[i].boosted
              \/ walk.pending = {"items"} /\ new \ old # {}
  /\ UNCHANGED <<date, walk, kept>>

AddRow(owner, status) ==
  /\ Len(rows) < MaxRows
  /\ Becomes(Append(rows, [owner |-> owner, status |-> status, shown |-> TRUE,
                           touched |-> events + 1, boosted |-> FALSE]))

\* A decision, a reply, an edit: updated_at changes with every update, and an
\* update that keeps the status shows in nothing else.
UpdateRow(i, status) ==
  /\ rows[i].status # status \/ walk.list = "tickets"
  /\ Becomes([rows EXCEPT ![i].status = status, ![i].touched = events + 1])

\* A row is deleted or restored, expires, loses or gains its seller's KYC, or
\* fails or fulfils another filter of the list.
ShowRow(i) == Becomes([rows EXCEPT ![i].shown = ~@, ![i].touched = events + 1])

\* A campaign starts or ends, which only the catalogue shows.
BoostRow(i) ==
  /\ walk.list = "catalogue"
  /\ Becomes([rows EXCEPT ![i].boosted = ~@])

\* Midnight in UTC.
TurnDate ==
  /\ walk.pending # {}
  /\ events < MaxEvents
  /\ events' = events + 1
  /\ date' = date + 1
  /\ upset' = TRUE
  /\ UNCHANGED <<rows, walk, kept, steady>>

ListNext ==
  \/ \E list \in DOMAIN Lists, owner \in Owners \cup {ANY}, status \in Statuses \cup {ANY} :
       StartWalk(list, owner, status)
  \/ ReadCount \/ ReadItems \/ ReadKept \/ KeptExpires \/ TurnDate
  \/ \E owner \in Owners, status \in Statuses : AddRow(owner, status)
  \/ \E i \in DOMAIN rows :
       \/ \E status \in Statuses : UpdateRow(i, status)
       \/ ShowRow(i) \/ BoostRow(i)

-----------------------------------------------------------------------------
(* Properties *)

ListTypeOK ==
  /\ rows \in Seq(Row)
  /\ date \in Nat
  /\ walk \in Walk
  /\ \A page \in DOMAIN kept : kept[page] \in [items : SUBSET Nat, total : Nat]
  /\ steady \subseteq DOMAIN rows
  /\ upset \in BOOLEAN
  /\ events \in Nat

\* A reader who goes through all the pages has seen every row that stayed in
\* the list and in its place, whatever was added or moved to the front
\* meanwhile, unless a row left the list or came in just between the count
\* and the rows, or the cache had kept a page that is not true any more (the
\* offset, the order and the number of pages of each list).
WalkMissesNothing ==
  walk.pending = {} /\ walk.page > 0 /\ ~upset => steady \subseteq walk.seen
=============================================================================
