---------------------------- MODULE CategoryTree ----------------------------
(***************************************************************************)
(* CategoriesService: the tree of categories as it grows, is moved about,  *)
(* reviewed and pruned, and the products that are put under it.            *)
(*                                                                         *)
(* The checks of a request are reads of their own, one for the new parent, *)
(* one for each ancestor above it, one each for the children and the       *)
(* products of a category to remove; the write at the end tests nothing.   *)
(* Who makes a request and what else it changes is chosen at the write:     *)
(* nothing before depends on it.                                            *)
(***************************************************************************)
EXTENDS Naturals, FiniteSets

CONSTANTS
  Categories,   \* category ids, given out in order
  Products,     \* product ids
  Requests,     \* slots for requests in flight
  MaxHops,      \* ancestors assertNoCycle looks at (100)
  MaxRequests,  \* bound: requests ever made
  NULL,         \* no parent, no category
  Unset         \* a field the request leaves out

ASSUME TreeAssumption ==
  /\ MaxHops \in Nat
  /\ MaxRequests \in Nat
  /\ Categories \subseteq Nat
  /\ NULL # Unset
  /\ {NULL, Unset} \cap (Nat \cup BOOLEAN) = {}

VARIABLES
  category,    \* the row of each category
  filed,       \* the category of each product
  unreviewed,  \* history: somebody but a super admin changed it since its last approval
  contested,   \* history: a write went through although what it had read had changed
  made,        \* requests made
  request      \* where each request is

rowVars == <<category, filed, unreviewed, contested>>

vars == <<category, filed, unreviewed, contested, made, request>>

CategoryStatus == {"NONE", "PENDING_APPROVAL", "APPROVED", "REJECTED"}

Category ==
  [status : CategoryStatus, parent : Categories \cup {NULL}, active : BOOLEAN, removed : BOOLEAN]

NoCategory == [status |-> "NONE", parent |-> NULL, active |-> FALSE, removed |-> FALSE]

\* parent: the one asked for; current, hops: how far the walk up from it has
\* come. read: the rows that were read; childless, empty: no active children,
\* and no products, were found.
Request ==
  [at : {"parent", "walk", "children", "products", "write"},
   kind : {"create", "update", "review", "remove", "file"},
   category : Categories, parent : Categories \cup {NULL, Unset},
   current : Categories \cup {NULL}, hops : 0..MaxHops,
   read : SUBSET (Categories \X Category), childless : BOOLEAN, empty : BOOLEAN]

TypeOK ==
  /\ category \in [Categories -> Category]
  /\ filed \in [Products -> Categories \cup {NULL}]
  /\ unreviewed \in [Categories -> BOOLEAN]
  /\ contested \in BOOLEAN
  /\ made \in 0..MaxRequests
  /\ request \in [Requests -> Request \cup {NULL}]

Exists(c) == category[c].status # "NONE" /\ ~category[c].removed

\* assertParentExists; a product asks the same of its category.
MayHold(c) == Exists(c) /\ category[c].status = "APPROVED"

\* What a walk finds above a category: a removed one ends it.
ParentRead(c) == IF Exists(c) THEN category[c].parent ELSE NULL

\* A super admin has created some categories, each at the top or below an
\* earlier one.
Init ==
  /\ category \in [Categories -> {NoCategory} \cup
       [status : {"APPROVED"}, parent : Categories \cup {NULL}, active : {TRUE}, removed : {FALSE}]]
  /\ \A c, d \in Categories : Exists(d) /\ c < d => Exists(c)
  /\ \A c \in Categories : category[c].parent # NULL => category[c].parent < c
  /\ filed = [p \in Products |-> NULL]
  /\ unreviewed = [c \in Categories |-> FALSE]
  /\ contested = FALSE
  /\ made = 0
  /\ request = [r \in Requests |-> NULL]

-----------------------------------------------------------------------------
(* Requests begin *)

Row(c) == <<c, category[c]>>

Begin(r, at, kind, c, parent) ==
  /\ request[r] = NULL
  /\ made < MaxRequests
  /\ made' = made + 1
  /\ request' = [request EXCEPT ![r] =
       [at |-> at, kind |-> kind, category |-> c, parent |-> parent, current |-> NULL, hops |-> 0,
        read |-> {Row(c)}, childless |-> FALSE, empty |-> FALSE]]
  /\ UNCHANGED rowVars

FirstCheck(parent) == IF parent \in Categories THEN "parent" ELSE "write"

BeginCreate(r) ==
  \E c \in Categories, parent \in Categories \cup {NULL} :
    /\ category[c] = NoCategory
    /\ \A d \in Categories : d < c => category[d] # NoCategory
    /\ Begin(r, FirstCheck(parent), "create", c, parent)

BeginUpdate(r) ==
  \E c \in Categories, parent \in Categories \cup {NULL, Unset} :
    /\ Exists(c)
    /\ Begin(r, FirstCheck(parent), "update", c, parent)

BeginReview(r) ==
  \E c \in Categories :
    /\ Exists(c)
    /\ category[c].status = "PENDING_APPROVAL"
    /\ Begin(r, "write", "review", c, Unset)

BeginRemove(r) ==
  \E c \in Categories : Exists(c) /\ Begin(r, "children", "remove", c, Unset)

\* A product is created in, or moved to, a category.
BeginFile(r) ==
  \E c \in Categories : MayHold(c) /\ Begin(r, "write", "file", c, Unset)

-----------------------------------------------------------------------------
(* Checks *)

Goto(r, at) == request' = [request EXCEPT ![r].at = at]

Refuse(r) == request' = [request EXCEPT ![r] = NULL]

CheckParent(r) ==
  LET q == request[r]
  IN  /\ q # NULL /\ q.at = "parent"
      /\ IF ~MayHold(q.parent) THEN Refuse(r)
         ELSE request' = [request EXCEPT ![r].at = IF q.kind = "create" THEN "write" ELSE "walk",
                                         ![r].current = q.parent,
                                         ![r].read = @ \cup {Row(q.parent)}]
      /\ UNCHANGED <<rowVars, made>>

\* Mutant: the walk begins above the new parent.
WalkLate(r) ==
  LET q == request[r]
  IN  /\ q # NULL /\ q.at = "walk"
      /\ IF q.current = NULL \/ q.hops = MaxHops THEN Goto(r, "write")
         ELSE IF q.hops > 1 /\ q.current = q.category THEN Refuse(r)
         ELSE request' = [request EXCEPT ![r].current = ParentRead(q.current), ![r].hops = @ + 1,
                                         ![r].read = @ \cup {Row(q.current)}]
      /\ UNCHANGED <<rowVars, made>>

\* assertNoCycle, one ancestor at a time.
Walk(r) ==
  LET q == request[r]
  IN  /\ q # NULL /\ q.at = "walk"
      /\ IF q.current = NULL \/ q.hops = MaxHops THEN Goto(r, "write")
         ELSE IF q.current = q.category THEN Refuse(r)
         ELSE request' = [request EXCEPT ![r].current = ParentRead(q.current), ![r].hops = @ + 1,
                                         ![r].read = @ \cup {Row(q.current)}]
      /\ UNCHANGED <<rowVars, made>>

\* countActiveChildren counts inactive ones and removed ones out.
ActiveChildren(c) ==
  {d \in Categories : Exists(d) /\ category[d].active /\ category[d].parent = c}

CheckChildren(r) ==
  LET q == request[r]
  IN  /\ q # NULL /\ q.at = "children"
      /\ IF ActiveChildren(q.category) # {} THEN Refuse(r)
         ELSE request' = [request EXCEPT ![r].at = "products", ![r].childless = TRUE]
      /\ UNCHANGED <<rowVars, made>>

HasActiveProducts(c) == \E p \in Products : filed[p] = c

\* Mutant: a category is removed whatever products it has.
CheckNoProducts(r) ==
  /\ request[r] # NULL /\ request[r].at = "products"
  /\ Goto(r, "write")
  /\ UNCHANGED <<rowVars, made>>

CheckProducts(r) ==
  LET q == request[r]
  IN  /\ q # NULL /\ q.at = "products"
      /\ IF HasActiveProducts(q.category) THEN Refuse(r)
         ELSE request' = [request EXCEPT ![r].at = "write", ![r].empty = TRUE]
      /\ UNCHANGED <<rowVars, made>>

-----------------------------------------------------------------------------
(* Writes *)

Writes(r, kind) == request[r] # NULL /\ request[r].at = "write" /\ request[r].kind = kind

\* Nothing a request has read has changed since.
StillAsRead(q) ==
  /\ \A row \in q.read : row = Row(row[1])
  /\ q.childless => ActiveChildren(q.category) = {}
  /\ q.empty => ~HasActiveProducts(q.category)

Commit(r) ==
  /\ contested' = (contested \/ ~StillAsRead(request[r]))
  /\ request' = [request EXCEPT ![r] = NULL]
  /\ UNCHANGED made

\* assertCanSetParent: the top level is the super admin's. Below it, sellers
\* with approved KYC and administrators propose.
CanSetParent(parent, super) == parent = NULL => super

Create(r) ==
  LET q == request[r]
  IN  /\ Writes(r, "create")
      /\ category[q.category] = NoCategory
      /\ \E super, active \in BOOLEAN :
           /\ CanSetParent(q.parent, super)
           /\ category' = [category EXCEPT ![q.category] =
                [status |-> IF super THEN "APPROVED" ELSE "PENDING_APPROVAL",
                 parent |-> q.parent, active |-> active, removed |-> FALSE]]
           /\ unreviewed' = [unreviewed EXCEPT ![q.category] = ~super]
      /\ Commit(r)
      /\ UNCHANGED filed

\* Mutant: an edit stays approved.
EditKeepingStatus(row, parent, active, super) ==
  [row EXCEPT !.parent = IF parent = Unset THEN @ ELSE parent,
              !.active = IF active = Unset THEN @ ELSE active]

\* The columns an update sets; anybody's but a super admin's goes to review.
Edit(row, parent, active, super) ==
  [row EXCEPT !.parent = IF parent = Unset THEN @ ELSE parent,
              !.active = IF active = Unset THEN @ ELSE active,
              !.status = IF super THEN @ ELSE "PENDING_APPROVAL"]

\* A seller only updates what he has created.
Update(r) ==
  LET q == request[r]
  IN  /\ Writes(r, "update")
      /\ \E super \in BOOLEAN, active \in BOOLEAN \cup {Unset} :
           /\ CanSetParent(q.parent, super)
           /\ category' = [category EXCEPT ![q.category] = Edit(@, q.parent, active, super)]
           /\ unreviewed' = [unreviewed EXCEPT ![q.category] = @ \/ ~super]
      /\ Commit(r)
      /\ UNCHANGED filed

Review(r) ==
  LET q == request[r]
  IN  /\ Writes(r, "review")
      /\ \E approved \in BOOLEAN :
           /\ category' = [category EXCEPT ![q.category].status =
                IF approved THEN "APPROVED" ELSE "REJECTED"]
           /\ unreviewed' = [unreviewed EXCEPT ![q.category] = @ /\ ~approved]
      /\ Commit(r)
      /\ UNCHANGED filed

Remove(r) ==
  LET q == request[r]
  IN  /\ Writes(r, "remove")
      /\ category' = [category EXCEPT ![q.category].removed = TRUE]
      /\ Commit(r)
      /\ UNCHANGED <<filed, unreviewed>>

File(r) ==
  LET q == request[r]
  IN  /\ Writes(r, "file")
      /\ \E p \in Products : filed' = [filed EXCEPT ![p] = q.category]
      /\ Commit(r)
      /\ UNCHANGED <<category, unreviewed>>

\* A product is removed.
RemoveProduct(p) ==
  /\ filed[p] # NULL
  /\ filed' = [filed EXCEPT ![p] = NULL]
  /\ UNCHANGED <<category, unreviewed, contested, made, request>>

\* A statement fails or the process ends.
Fail(r) ==
  /\ request[r] # NULL
  /\ Refuse(r)
  /\ UNCHANGED <<rowVars, made>>

-----------------------------------------------------------------------------
Check(r) == CheckParent(r) \/ Walk(r) \/ CheckChildren(r) \/ CheckProducts(r)

Write(r) == Create(r) \/ Update(r) \/ Review(r) \/ Remove(r) \/ File(r)

Next ==
  \/ \E r \in Requests :
       \/ BeginCreate(r) \/ BeginUpdate(r) \/ BeginReview(r) \/ BeginRemove(r) \/ BeginFile(r)
       \/ Check(r) \/ Write(r) \/ Fail(r)
  \/ \E p \in Products : RemoveProduct(p)

Spec == Init /\ [][Next]_vars

-----------------------------------------------------------------------------
(* Properties *)

\* What findActive returns, and what buildTree leaves reachable of it: all but
\* the sets that are closed under parents.
Shown == {c \in Categories : Exists(c) /\ category[c].active /\ category[c].status = "APPROVED"}

\* Mutant: only categories without a parent become roots.
TreeOfTopLevels ==
  Shown \ UNION {S \in SUBSET Shown : \A c \in S : category[c].parent \in S \cup (Categories \ Shown)}

BuildTree == Shown \ UNION {S \in SUBSET Shown : \A c \in S : category[c].parent \in S}

\* "A category cannot become its own descendant", though the walk that tests it
\* stops at removed categories: as long as no write has gone through although a
\* row it had read had changed, no categories are each other's
\* ancestors.
NoCycle ==
  ~contested =>
    \A S \in (SUBSET {c \in Categories : Exists(c)}) \ {{}} : \E c \in S : category[c].parent \notin S

\* Every active, approved category is in the tree, also under a parent that is
\* inactive, back in review or removed.
TreeShowsAll == ~contested => BuildTree = Shown

\* No product is left in a removed category.
NoProductInRemoved ==
  ~contested => \A p \in Products : filed[p] # NULL => ~category[filed[p]].removed

\* An approved category is as a super admin made or saw it.
ApprovedIsReviewed ==
  ~contested => \A c \in Categories : category[c].status = "APPROVED" => ~unreviewed[c]
=============================================================================
