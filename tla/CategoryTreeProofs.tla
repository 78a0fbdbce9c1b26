-------------------------- MODULE CategoryTreeProofs --------------------------
(***************************************************************************)
(* Proofs about CategoryTree, for any number of categories, products and   *)
(* requests at a time.                                                     *)
(***************************************************************************)
EXTENDS CategoryTree, TLAPS, FiniteSetTheorems, WellFoundedInduction

Made(c) == category[c].status # "NONE"

\* Categories that are each other's ancestors: what NoCycle excludes.
Closed(S) == S # {} /\ \A c \in S : Exists(c) /\ category[c].parent \in S

Circles == \E S \in SUBSET Categories : Closed(S)

-----------------------------------------------------------------------------
(* The walk of a request, told from the rows it has read *)

LiveRow(row) == row[2].status # "NONE" /\ ~row[2].removed

\* The categories above, each row of which the walk has read.
Above(q) == {row \in q.read : row[1] # q.category}
Passed(q) == {c \in Categories : \E row \in Above(q) : row[1] = c}

\* No row was read twice with something different in it.
Single(q) == \A a, b \in q.read : a[1] = b[1] => a = b

\* Each row leads on to one that was passed, or to where the walk is.
Leads(q) ==
  \A row \in Above(q) :
    /\ LiveRow(row) => row[2].parent \in Passed(q) \cup {q.current}
    /\ q.current # NULL => LiveRow(row)

\* The walk has come to a category for the first time, or goes round in a
\* circle.
Straight(q) == q.current \notin Passed(q) /\ q.hops <= Cardinality(Passed(q))

Circling(q) ==
  /\ q.current \in Passed(q)
  /\ \A row \in Above(q) : LiveRow(row) /\ row[2].parent \in Passed(q)

\* Before its first step the walk is at the new parent. After it, it has passed
\* the parent, and unless rows were changed under it, it is straight or circling.
Climbed(q) ==
  /\ q.hops = 0 => q.current = q.parent /\ Passed(q) \subseteq {q.parent}
  /\ q.hops > 0 => q.parent \in Passed(q)
  /\ q.hops > 0 /\ Single(q) => Leads(q) /\ (Straight(q) \/ Circling(q))
  /\ q.at = "write" => q.current = NULL \/ q.hops = MaxHops

-----------------------------------------------------------------------------
(* The invariant *)

\* What a request has established, by kind and by step.
Prepared(q) ==
  /\ q.at \in {"parent", "walk"} => q.parent \in Categories /\ q.kind \in {"create", "update"}
  /\ q.at = "parent" => q.hops = 0 /\ \A row \in q.read : row[1] = q.category
  /\ q.at = "walk" => q.kind = "update"
  /\ q.at \in {"children", "products"} => q.kind = "remove"
  /\ q.kind = "create" => q.parent # Unset
  /\ q.kind \notin {"create", "update"} => q.parent = Unset
  /\ q.kind # "create" => Made(q.category)
  /\ q.at \in {"walk", "write"} /\ q.parent \in Categories => Made(q.parent)
  /\ q.kind = "remove" /\ q.at = "write" => q.empty
  /\ q.kind = "file" => \E row \in q.read : row[1] = q.category /\ ~row[2].removed

AllPrepared == \A r \in Requests : request[r] # NULL => Prepared(request[r])

AllClimbed ==
  \A r \in Requests :
    LET q == request[r] IN
    q # NULL /\ q.kind = "update" /\ q.at \in {"walk", "write"} /\ q.parent \in Categories
      => Climbed(q)

\* Nothing lies under a category that was never made.
ParentsMade == \A c \in Categories : category[c].parent # NULL => Made(category[c].parent)

IInv ==
  /\ TypeOK
  /\ AllPrepared
  /\ ParentsMade
  /\ ApprovedIsReviewed
  /\ NoProductInRemoved

-----------------------------------------------------------------------------
(* Helpers *)

LEMMA Constants ==
  /\ NULL # Unset /\ NULL \notin Categories /\ Unset \notin Categories
  /\ NULL \notin BOOLEAN /\ Unset \notin BOOLEAN
  /\ MaxHops \in Nat /\ MaxRequests \in Nat /\ Categories \subseteq Nat
BY TreeAssumption

LEMMA RequestType ==
  ASSUME TypeOK, NEW r \in Requests, request[r] # NULL
  PROVE  request[r] \in Request
BY DEF TypeOK

LEMMA RowType ==
  ASSUME TypeOK, NEW c \in Categories
  PROVE  category[c] \in Category /\ Row(c) \in Categories \X Category
BY DEF TypeOK, Row

\* The steps that read and the steps that write.
Beginning(r) ==
  BeginCreate(r) \/ BeginUpdate(r) \/ BeginReview(r) \/ BeginRemove(r) \/ BeginFile(r)

LEMMA NextSteps ==
  Next <=> \/ \E r \in Requests : Beginning(r) \/ Check(r) \/ Write(r) \/ Fail(r)
           \/ \E p \in Products : RemoveProduct(p)
BY DEF Next, Beginning

\* A beginning request, whatever it is.
NewRequest(at, kind, c, parent) ==
  [at |-> at, kind |-> kind, category |-> c, parent |-> parent, current |-> NULL, hops |-> 0,
   read |-> {Row(c)}, childless |-> FALSE, empty |-> FALSE]

LEMMA BeginningStep ==
  ASSUME TypeOK, NEW r \in Requests, Beginning(r)
  PROVE  /\ UNCHANGED rowVars
         /\ made' \in 0..MaxRequests
         /\ request[r] = NULL
         /\ \E c \in Categories, parent \in Categories \cup {NULL, Unset},
               at \in {"parent", "children", "write"},
               kind \in {"create", "update", "review", "remove", "file"} :
              /\ request' = [request EXCEPT ![r] = NewRequest(at, kind, c, parent)]
              /\ NewRequest(at, kind, c, parent) \in Request
              /\ Prepared(NewRequest(at, kind, c, parent))
              /\ parent \in Categories => at = "parent"
<1>1. ASSUME NEW c \in Categories, NEW parent \in Categories \cup {NULL, Unset},
             NEW at \in {"parent", "children", "write"},
             NEW kind \in {"create", "update", "review", "remove", "file"},
             Begin(r, at, kind, c, parent),
             at = "parent" <=> parent \in Categories,
             at = "parent" => kind \in {"create", "update"},
             at = "children" <=> kind = "remove",
             kind = "create" => parent # Unset,
             kind \notin {"create", "update"} => parent = Unset,
             kind # "create" => Exists(c)
      PROVE  /\ UNCHANGED rowVars
             /\ made' \in 0..MaxRequests
             /\ request[r] = NULL
             /\ request' = [request EXCEPT ![r] = NewRequest(at, kind, c, parent)]
             /\ NewRequest(at, kind, c, parent) \in Request
             /\ Prepared(NewRequest(at, kind, c, parent))
             /\ parent \in Categories => at = "parent"
  <2>. DEFINE q == NewRequest(at, kind, c, parent)
  <2>1. made \in 0..MaxRequests /\ made < MaxRequests /\ made' = made + 1
    BY <1>1 DEF Begin, TypeOK
  <2>2. /\ q.at = at /\ q.kind = kind /\ q.category = c /\ q.parent = parent /\ q.read = {Row(c)}
        /\ q.empty = FALSE /\ q.hops = 0
    BY DEF NewRequest
  <2>3. q \in Request
    BY RowType, Constants DEF NewRequest, Request
  <2>4. kind # "create" => Made(c) /\ ~category[c].removed
    BY <1>1 DEF Exists, Made
  <2>5. Row(c)[1] = c /\ Row(c)[2] = category[c]
    BY DEF Row
  <2>6. Prepared(q)
    BY <1>1, <2>2, <2>4, <2>5 DEF Prepared
  <2>. QED  BY <1>1, <2>1, <2>3, <2>6, Constants DEF Begin, NewRequest
<1>2. CASE BeginCreate(r)
  <2>1. PICK c \in Categories, parent \in Categories \cup {NULL} :
          Begin(r, FirstCheck(parent), "create", c, parent)
    BY <1>2 DEF BeginCreate
  <2>2. PICK at \in {"parent", "write"} :
          at = FirstCheck(parent) /\ (at = "parent" <=> parent \in Categories)
    BY Constants DEF FirstCheck
  <2>3. Begin(r, at, "create", c, parent) /\ parent # Unset
    BY <2>1, <2>2, Constants
  <2>4. /\ UNCHANGED rowVars /\ made' \in 0..MaxRequests /\ request[r] = NULL
        /\ request' = [request EXCEPT ![r] = NewRequest(at, "create", c, parent)]
        /\ NewRequest(at, "create", c, parent) \in Request
        /\ Prepared(NewRequest(at, "create", c, parent))
    BY <1>1, <2>2, <2>3
  <2>. QED  BY <2>2, <2>4
<1>3. CASE BeginUpdate(r)
  <2>1. PICK c \in Categories, parent \in Categories \cup {NULL, Unset} :
          Exists(c) /\ Begin(r, FirstCheck(parent), "update", c, parent)
    BY <1>3 DEF BeginUpdate
  <2>2. PICK at \in {"parent", "write"} :
          at = FirstCheck(parent) /\ (at = "parent" <=> parent \in Categories)
    BY DEF FirstCheck
  <2>3. Begin(r, at, "update", c, parent) /\ Exists(c)
    BY <2>1, <2>2
  <2>4. /\ UNCHANGED rowVars /\ made' \in 0..MaxRequests /\ request[r] = NULL
        /\ request' = [request EXCEPT ![r] = NewRequest(at, "update", c, parent)]
        /\ NewRequest(at, "update", c, parent) \in Request
        /\ Prepared(NewRequest(at, "update", c, parent))
    BY <1>1, <2>2, <2>3
  <2>. QED  BY <2>2, <2>4
<1>4. CASE BeginReview(r)
  <2>1. PICK c \in Categories : Exists(c) /\ Begin(r, "write", "review", c, Unset)
    BY <1>4 DEF BeginReview
  <2>2. /\ UNCHANGED rowVars /\ made' \in 0..MaxRequests /\ request[r] = NULL
        /\ request' = [request EXCEPT ![r] = NewRequest("write", "review", c, Unset)]
        /\ NewRequest("write", "review", c, Unset) \in Request
        /\ Prepared(NewRequest("write", "review", c, Unset))
    BY <1>1, <2>1, Constants
  <2>. QED  BY <2>2, Constants
<1>5. CASE BeginRemove(r)
  <2>1. PICK c \in Categories : Exists(c) /\ Begin(r, "children", "remove", c, Unset)
    BY <1>5 DEF BeginRemove
  <2>2. UNCHANGED rowVars /\ made' \in 0..MaxRequests /\ request[r] = NULL
    BY <1>1, <2>1, Constants
  <2>3. /\ request' = [request EXCEPT ![r] = NewRequest("children", "remove", c, Unset)]
        /\ NewRequest("children", "remove", c, Unset) \in Request
        /\ Prepared(NewRequest("children", "remove", c, Unset))
    BY <1>1, <2>1, Constants
  <2>. QED  BY <2>2, <2>3, Constants
<1>6. CASE BeginFile(r)
  <2>1. PICK c \in Categories : Exists(c) /\ Begin(r, "write", "file", c, Unset)
    BY <1>6 DEF BeginFile, MayHold
  <2>2. /\ UNCHANGED rowVars /\ made' \in 0..MaxRequests /\ request[r] = NULL
        /\ request' = [request EXCEPT ![r] = NewRequest("write", "file", c, Unset)]
        /\ NewRequest("write", "file", c, Unset) \in Request
        /\ Prepared(NewRequest("write", "file", c, Unset))
    BY <1>1, <2>1, Constants
  <2>. QED  BY <2>2, Constants
<1>. QED  BY <1>2, <1>3, <1>4, <1>5, <1>6 DEF Beginning

-----------------------------------------------------------------------------
(* The checks of a request *)

\* One more row is read, and the walk goes on to what it names.
Climb(q) ==
  [q EXCEPT !.current = ParentRead(q.current), !.hops = @ + 1, !.read = @ \cup {Row(q.current)}]

ToParent(q) ==
  [q EXCEPT !.at = IF q.kind = "create" THEN "write" ELSE "walk", !.current = q.parent,
            !.read = @ \cup {Row(q.parent)}]

\* What a step of Check makes of request q, if it does not refuse it.
Checked(q, new) ==
  \/ q.at = "parent" /\ MayHold(q.parent) /\ new = ToParent(q)
  \/ /\ q.at = "walk" /\ (q.current = NULL \/ q.hops = MaxHops)
     /\ new = [q EXCEPT !.at = "write"]
  \/ /\ q.at = "walk" /\ q.current # NULL /\ q.hops # MaxHops /\ q.current # q.category
     /\ new = Climb(q)
  \/ q.at = "children" /\ new = [q EXCEPT !.at = "products", !.childless = TRUE]
  \/ q.at = "products" /\ new = [q EXCEPT !.at = "write", !.empty = TRUE]

LEMMA CheckStep ==
  ASSUME TypeOK, NEW r \in Requests, Check(r)
  PROVE  /\ UNCHANGED <<rowVars, made>>
         /\ request[r] # NULL
         /\ \E new : /\ request' = [request EXCEPT ![r] = new]
                     /\ new = NULL \/ Checked(request[r], new)
<1>. DEFINE q == request[r]
<1>0. ASSUME Refuse(r) PROVE request' = [request EXCEPT ![r] = NULL]
  BY <1>0 DEF Refuse
<1>1. CASE CheckParent(r)
  <2>1. q # NULL /\ q.at = "parent" /\ UNCHANGED <<rowVars, made>>
    BY <1>1 DEF CheckParent
  <2>2. CASE Refuse(r)
    BY <1>0, <2>1, <2>2
  <2>3. CASE /\ MayHold(q.parent)
             /\ request' = [request EXCEPT ![r].at = IF q.kind = "create" THEN "write" ELSE "walk",
                                           ![r].current = q.parent,
                                           ![r].read = @ \cup {Row(q.parent)}]
    <3>1. request' = [request EXCEPT ![r] = ToParent(q)]
      BY <2>3, RequestType DEF ToParent, TypeOK, Request
    <3>. QED  BY <2>1, <2>3, <3>1 DEF Checked
  <2>. QED  BY <1>1, <2>2, <2>3 DEF CheckParent
<1>2. CASE Walk(r)
  <2>1. q # NULL /\ q.at = "walk" /\ UNCHANGED <<rowVars, made>>
    BY <1>2 DEF Walk
  <2>2. CASE (q.current = NULL \/ q.hops = MaxHops) /\ Goto(r, "write")
    <3>1. request' = [request EXCEPT ![r] = [q EXCEPT !.at = "write"]]
      BY <2>2 DEF Goto
    <3>. QED  BY <2>1, <2>2, <3>1 DEF Checked
  <2>3. CASE Refuse(r)
    BY <1>0, <2>1, <2>3
  <2>4. CASE /\ q.current # NULL /\ q.hops # MaxHops /\ q.current # q.category
             /\ request' = [request EXCEPT ![r].current = ParentRead(q.current),
                                           ![r].hops = @ + 1,
                                           ![r].read = @ \cup {Row(q.current)}]
    <3>1. request' = [request EXCEPT ![r] = Climb(q)]
      BY <2>1, <2>4, RequestType DEF Climb, TypeOK, Request
    <3>. QED  BY <2>1, <2>4, <3>1 DEF Checked
  <2>. QED  BY <1>2, <2>2, <2>3, <2>4 DEF Walk
<1>3. CASE CheckChildren(r)
  <2>1. q # NULL /\ q.at = "children" /\ UNCHANGED <<rowVars, made>>
    BY <1>3 DEF CheckChildren
  <2>2. CASE request' = [request EXCEPT ![r].at = "products", ![r].childless = TRUE]
    <3>1. request' = [request EXCEPT ![r] = [q EXCEPT !.at = "products", !.childless = TRUE]]
      BY <2>1, <2>2, RequestType DEF TypeOK, Request
    <3>. QED  BY <2>1, <3>1 DEF Checked
  <2>. QED  BY <1>0, <1>3, <2>1, <2>2 DEF CheckChildren
<1>4. CASE CheckProducts(r)
  <2>1. q # NULL /\ q.at = "products" /\ UNCHANGED <<rowVars, made>>
    BY <1>4 DEF CheckProducts
  <2>2. CASE request' = [request EXCEPT ![r].at = "write", ![r].empty = TRUE]
    <3>1. request' = [request EXCEPT ![r] = [q EXCEPT !.at = "write", !.empty = TRUE]]
      BY <2>1, <2>2, RequestType DEF TypeOK, Request
    <3>. QED  BY <2>1, <3>1 DEF Checked
  <2>. QED  BY <1>0, <1>4, <2>1, <2>2 DEF CheckProducts
<1>. QED  BY <1>1, <1>2, <1>3, <1>4 DEF Check

\* A request that passes a check is one still, and has established what it
\* says.
LEMMA CheckedType ==
  ASSUME TypeOK, NEW q \in Request, Prepared(q), NEW new, Checked(q, new)
  PROVE  new \in Request /\ Prepared(new)
<1>1. CASE q.at = "parent" /\ MayHold(q.parent) /\ new = ToParent(q)
  <2>1. q.parent \in Categories /\ q.kind \in {"create", "update"} /\ Row(q.parent) \in Categories \X Category
    BY <1>1, RowType DEF Prepared
  <2>2. new \in Request
    BY <1>1, <2>1 DEF ToParent, Request
  <2>3. /\ new.at = (IF q.kind = "create" THEN "write" ELSE "walk")
        /\ new.kind = q.kind /\ new.category = q.category /\ new.parent = q.parent
        /\ new.empty = q.empty /\ q.read \subseteq new.read
    BY <1>1 DEF ToParent, Request
  <2>4. Made(q.parent)
    BY <1>1 DEF MayHold, Exists, Made
  <2>. QED  BY <2>1, <2>2, <2>3, <2>4 DEF Prepared
<1>2. CASE q.at = "walk" /\ new = [q EXCEPT !.at = "write"]
  <2>1. new \in Request
    BY <1>2 DEF Request
  <2>2. /\ new.at = "write" /\ new.kind = q.kind /\ new.category = q.category
        /\ new.parent = q.parent /\ new.empty = q.empty /\ q.read = new.read
    BY <1>2 DEF Request
  <2>. QED  BY <1>2, <2>1, <2>2 DEF Prepared
<1>3. CASE /\ q.at = "walk" /\ q.current # NULL /\ q.hops # MaxHops
           /\ new = Climb(q)
  <2>1. q.current \in Categories /\ q.hops + 1 \in 0..MaxHops
    BY <1>3, Constants DEF Request
  <2>2. ParentRead(q.current) \in Categories \cup {NULL} /\ Row(q.current) \in Categories \X Category
    BY <2>1, RowType DEF ParentRead, Category
  <2>3. new \in Request
    BY <1>3, <2>1, <2>2 DEF Climb, Request
  <2>4. /\ new.at = q.at /\ new.kind = q.kind /\ new.category = q.category
        /\ new.parent = q.parent /\ new.empty = q.empty /\ q.read \subseteq new.read
    BY <1>3 DEF Climb, Request
  <2>. QED  BY <1>3, <2>3, <2>4 DEF Prepared
<1>4. CASE q.at = "children" /\ new = [q EXCEPT !.at = "products", !.childless = TRUE]
  <2>1. new \in Request
    BY <1>4 DEF Request
  <2>2. /\ new.at = "products" /\ new.kind = q.kind /\ new.category = q.category
        /\ new.parent = q.parent /\ new.empty = q.empty /\ q.read = new.read
    BY <1>4 DEF Request
  <2>. QED  BY <1>4, <2>1, <2>2 DEF Prepared
<1>5. CASE q.at = "products" /\ new = [q EXCEPT !.at = "write", !.empty = TRUE]
  <2>1. new \in Request
    BY <1>5 DEF Request
  <2>2. /\ new.at = "write" /\ new.kind = q.kind /\ new.category = q.category
        /\ new.parent = q.parent /\ new.empty /\ q.read = new.read
    BY <1>5 DEF Request
  <2>. QED  BY <1>5, <2>1, <2>2, Constants DEF Prepared
<1>. QED  BY <1>1, <1>2, <1>3, <1>4, <1>5 DEF Checked

-----------------------------------------------------------------------------
(* The walk climbs *)

NeedsClimb(q) ==
  q.kind = "update" /\ q.at \in {"walk", "write"} /\ q.parent \in Categories

\* The first look at the new parent, from which the walk starts.
LEMMA ClimbStarts ==
  ASSUME TypeOK, NEW q \in Request, q.kind = "update", q.parent \in Categories,
         q.at = "parent", q.hops = 0, \A row \in q.read : row[1] = q.category
  PROVE  Climbed(ToParent(q))
<1>. DEFINE new == ToParent(q)
<1>1. /\ new.at = "walk" /\ new.hops = 0 /\ new.current = q.parent /\ new.parent = q.parent
      /\ new.category = q.category /\ new.read = q.read \cup {Row(q.parent)}
  BY DEF ToParent, Request
<1>2. Row(q.parent)[1] = q.parent
  BY DEF Row
<1>3. \A c \in Passed(new) : c = q.parent
  BY <1>1, <1>2 DEF Passed, Above
<1>. QED  BY <1>1, <1>3 DEF Climbed

\* The first step of the walk passes the parent.
LEMMA ClimbFirst ==
  ASSUME TypeOK, NEW q \in Request, Climbed(q), IsFiniteSet(Categories),
         q.hops = 0, q.current # NULL, q.current # q.category, q.at = "walk"
  PROVE  Climbed(Climb(q))
<1>. DEFINE new == Climb(q)
            c == q.current
<1>1. /\ new.at = "walk" /\ new.hops = 1 /\ new.current = ParentRead(c) /\ new.parent = q.parent
      /\ new.category = q.category /\ new.read = q.read \cup {Row(c)}
  BY DEF Climb, Request
<1>2. c = q.parent /\ c \in Categories /\ Row(c)[1] = c /\ Row(c)[2] = category[c]
  BY DEF Climbed, Request, Row
<1>3. Row(c) \in Above(new)
  BY <1>1, <1>2 DEF Above
<1>4. c \in Passed(new)
  BY <1>2, <1>3 DEF Passed
<1>5. \A row \in Above(new) : row[1] = c
  <2>1. SUFFICES ASSUME NEW row \in Above(new), row # Row(c) PROVE row[1] = c
    BY <1>2
  <2>2. row \in Above(q) /\ row[1] \in Categories
    BY <1>1, <2>1 DEF Above, Request
  <2>3. row[1] \in Passed(q)
    BY <2>2 DEF Passed
  <2>. QED  BY <1>2, <2>3 DEF Climbed
<1>6. Passed(new) = {c}
  BY <1>4, <1>5 DEF Passed
<1>7. Cardinality(Passed(new)) = 1
  BY <1>6, FS_Singleton
<1>8. ASSUME Single(new)
      PROVE  Leads(new) /\ (Straight(new) \/ Circling(new))
  <2>1. \A row \in Above(new) : row = Row(c)
    BY <1>2, <1>3, <1>5, <1>8 DEF Single, Above
  <2>2. new.current = IF Exists(c) THEN category[c].parent ELSE NULL
    BY <1>1 DEF ParentRead
  <2>3. LiveRow(Row(c)) <=> Exists(c)
    BY <1>2 DEF LiveRow, Exists
  <2>4. Leads(new)
    BY <1>2, <2>1, <2>2, <2>3 DEF Leads
  <2>5. CASE new.current \notin Passed(new)
    BY <1>1, <1>7, <2>4, <2>5 DEF Straight
  <2>6. CASE new.current \in Passed(new)
    <3>1. Exists(c) /\ category[c].parent \in Passed(new)
      BY <1>2, <1>6, <2>2, <2>6, Constants
    <3>. QED  BY <1>2, <2>1, <2>3, <2>4, <2>6, <3>1 DEF Circling
  <2>. QED  BY <2>5, <2>6
<1>. QED  BY <1>1, <1>2, <1>4, <1>8 DEF Climbed

\* Each further step passes one more category, or goes on round the circle.
LEMMA ClimbOn ==
  ASSUME TypeOK, NEW q \in Request, Climbed(q), IsFiniteSet(Categories),
         q.hops > 0, q.current # NULL, q.current # q.category, q.at = "walk"
  PROVE  Climbed(Climb(q))
<1>. DEFINE new == Climb(q)
            c == q.current
<1>1. /\ new.at = "walk" /\ new.hops = q.hops + 1 /\ new.current = ParentRead(c)
      /\ new.parent = q.parent /\ new.category = q.category /\ new.read = q.read \cup {Row(c)}
      /\ q.hops \in Nat
  BY Constants DEF Climb, Request
<1>2. c \in Categories /\ Row(c)[1] = c /\ Row(c)[2] = category[c]
  BY DEF Request, Row
<1>3. Above(new) = Above(q) \cup {Row(c)}
  BY <1>1, <1>2 DEF Above
<1>4. Passed(new) = Passed(q) \cup {c}
  BY <1>2, <1>3 DEF Passed
<1>5. q.parent \in Passed(new)
  BY <1>4 DEF Climbed
<1>6. IsFiniteSet(Passed(q)) /\ Cardinality(Passed(q)) \in Nat
  BY FS_Subset, FS_CardinalityType DEF Passed
<1>7. ASSUME Single(new)
      PROVE  Leads(new) /\ (Straight(new) \/ Circling(new))
  <2>1. Single(q)
    BY <1>1, <1>7 DEF Single
  <2>2. Leads(q) /\ (Straight(q) \/ Circling(q))
    BY <2>1 DEF Climbed
  <2>3. new.current = IF Exists(c) THEN category[c].parent ELSE NULL
    BY <1>1 DEF ParentRead
  <2>4. LiveRow(Row(c)) <=> Exists(c)
    BY <1>2 DEF LiveRow, Exists
  <2>5. \A row \in Above(q) : LiveRow(row) /\ row[2].parent \in Passed(new)
    BY <1>4, <2>2 DEF Leads
  <2>6. new.current # NULL => Exists(c) /\ category[c].parent = new.current
    BY <2>3
  <2>7. Leads(new)
    BY <1>2, <1>3, <1>4, <2>3, <2>4, <2>5 DEF Leads
  <2>8. CASE Straight(q)
    <3>1. Cardinality(Passed(new)) = Cardinality(Passed(q)) + 1
      BY <1>4, <1>6, <2>8, FS_AddElement DEF Straight
    <3>2. new.hops <= Cardinality(Passed(new))
      BY <1>1, <1>6, <2>8, <3>1 DEF Straight
    <3>3. CASE new.current \notin Passed(new)
      BY <2>7, <3>2, <3>3 DEF Straight
    <3>4. CASE new.current \in Passed(new)
      <4>1. new.current # NULL
        BY <3>4, Constants DEF Passed
      <4>2. LiveRow(Row(c)) /\ category[c].parent \in Passed(new)
        BY <2>4, <2>6, <3>4, <4>1
      <4>. QED  BY <1>2, <1>3, <2>5, <2>7, <3>4, <4>2 DEF Circling
    <3>. QED  BY <3>3, <3>4
  <2>9. CASE Circling(q)
    <3>1. Passed(new) = Passed(q) /\ c \in Passed(q)
      BY <1>4, <2>9 DEF Circling
    <3>2. PICK row \in Above(q) : row[1] = c
      BY <3>1 DEF Passed
    <3>3. row = Row(c)
      BY <1>1, <1>2, <1>7, <3>2 DEF Single, Above
    <3>4. LiveRow(Row(c)) /\ category[c].parent \in Passed(q)
      BY <1>2, <2>9, <3>2, <3>3 DEF Circling
    <3>5. new.current \in Passed(new)
      BY <2>3, <2>4, <3>1, <3>4
    <3>. QED  BY <1>2, <1>3, <2>7, <2>9, <3>1, <3>4, <3>5 DEF Circling
  <2>. QED  BY <2>2, <2>8, <2>9
<1>. QED  BY <1>1, <1>5, <1>7 DEF Climbed

\* The walk ends where it is.
LEMMA ClimbEnds ==
  ASSUME NEW q \in Request, Climbed(q), q.current = NULL \/ q.hops = MaxHops
  PROVE  Climbed([q EXCEPT !.at = "write"])
<1>. DEFINE new == [q EXCEPT !.at = "write"]
<1>1. /\ new.at = "write" /\ new.hops = q.hops /\ new.current = q.current
      /\ new.parent = q.parent /\ new.category = q.category /\ new.read = q.read
  BY DEF Request
<1>2. Above(new) = Above(q)
  BY <1>1 DEF Above
<1>3. Passed(new) = Passed(q)
  BY <1>2 DEF Passed
<1>4. Single(new) <=> Single(q)
  BY <1>1 DEF Single
<1>5. (Leads(new) <=> Leads(q)) /\ (Straight(new) <=> Straight(q)) /\ (Circling(new) <=> Circling(q))
  BY <1>1, <1>2, <1>3 DEF Leads, Straight, Circling
<1>. QED  BY <1>1, <1>3, <1>4, <1>5 DEF Climbed

\* Every check of an update keeps the account of its walk.
LEMMA CheckedClimbs ==
  ASSUME TypeOK, IsFiniteSet(Categories), NEW q \in Request, Prepared(q),
         NeedsClimb(q) => Climbed(q), NEW new, Checked(q, new)
  PROVE  NeedsClimb(new) => Climbed(new)
<1>. SUFFICES ASSUME NeedsClimb(new) PROVE Climbed(new)
  OBVIOUS
<1>1. CASE q.at = "parent" /\ new = ToParent(q)
  <2>1. new.kind = q.kind /\ q.parent \in Categories
    BY <1>1 DEF ToParent, Request, Prepared
  <2>. QED  BY <1>1, <2>1, ClimbStarts DEF NeedsClimb, Prepared
<1>2. CASE /\ q.at = "walk" /\ (q.current = NULL \/ q.hops = MaxHops)
           /\ new = [q EXCEPT !.at = "write"]
  BY <1>2, ClimbEnds DEF NeedsClimb, Prepared
<1>3. CASE /\ q.at = "walk" /\ q.current # NULL /\ q.hops # MaxHops /\ q.current # q.category
           /\ new = Climb(q)
  <2>1. Climbed(q)
    BY <1>3 DEF NeedsClimb, Prepared
  <2>2. q.hops = 0 \/ q.hops > 0
    BY Constants DEF Request
  <2>. QED  BY <1>3, <2>1, <2>2, ClimbFirst, ClimbOn
<1>4. CASE /\ q.at \in {"children", "products"}
           /\ new \in {[q EXCEPT !.at = "products", !.childless = TRUE],
                       [q EXCEPT !.at = "write", !.empty = TRUE]}
  <2>1. new.kind = q.kind /\ q.kind = "remove"
    BY <1>4 DEF Request, Prepared
  <2>. QED  BY <2>1 DEF NeedsClimb
<1>. QED  BY <1>1, <1>2, <1>3, <1>4 DEF Checked

-----------------------------------------------------------------------------
(* The writes *)

\* Whatever the write, it finds its request, and answers it.
Answers(r) == request' = [request EXCEPT ![r] = NULL]

\* Request r writes, as one of this kind; only its category changes.
WritesAs(r, kind) ==
  LET q == request[r] IN
  /\ q # NULL /\ q \in Request /\ Prepared(q) /\ q.at = "write" /\ q.kind = kind
  /\ contested' = (contested \/ ~StillAsRead(q))
  /\ Answers(r)
  /\ made' = made

OnlyChanges(c) ==
  \A d \in Categories \ {c} : category'[d] = category[d] /\ unreviewed'[d] = unreviewed[d]

LEMMA WriteStep ==
  ASSUME TypeOK, AllPrepared, NEW r \in Requests
  PROVE  /\ Create(r) => WritesAs(r, "create")
         /\ Update(r) => WritesAs(r, "update")
         /\ Review(r) => WritesAs(r, "review")
         /\ Remove(r) => WritesAs(r, "remove")
         /\ File(r) => WritesAs(r, "file")
<1>1. request[r] # NULL => request[r] \in Request /\ Prepared(request[r])
  BY RequestType DEF AllPrepared
<1>. QED  BY <1>1 DEF Create, Update, Review, Remove, File, Writes, Commit, Answers, WritesAs

\* What each write makes of the row, and of whether it was reviewed.
LEMMA CreateRow ==
  ASSUME TypeOK, AllPrepared, NEW r \in Requests, Create(r)
  PROVE  LET c == request[r].category IN
         /\ c \in Categories /\ category[c] = NoCategory /\ OnlyChanges(c)
         /\ category'[c] \in Category /\ unreviewed'[c] \in BOOLEAN
         /\ category'[c].parent = request[r].parent
         /\ category'[c].status \in {"APPROVED", "PENDING_APPROVAL"}
         /\ category'[c].status = "APPROVED" => ~unreviewed'[c]
         /\ ~category'[c].removed
         /\ category' \in [Categories -> Category] /\ unreviewed' \in [Categories -> BOOLEAN]
         /\ UNCHANGED filed
<1>. DEFINE q == request[r]
<1>1. q \in Request /\ q.kind = "create" /\ Prepared(q)
  BY WriteStep DEF WritesAs
<1>2. q.category \in Categories /\ q.parent \in Categories \cup {NULL}
  BY <1>1 DEF Request, Prepared
<1>3. /\ category \in [Categories -> Category] /\ unreviewed \in [Categories -> BOOLEAN]
  BY DEF TypeOK
<1>4. PICK super \in BOOLEAN, active \in BOOLEAN :
        /\ category' = [category EXCEPT ![q.category] =
             [status |-> IF super THEN "APPROVED" ELSE "PENDING_APPROVAL",
              parent |-> q.parent, active |-> active, removed |-> FALSE]]
        /\ unreviewed' = [unreviewed EXCEPT ![q.category] = ~super]
  BY DEF Create
<1>5. [status |-> IF super THEN "APPROVED" ELSE "PENDING_APPROVAL",
       parent |-> q.parent, active |-> active, removed |-> FALSE] \in Category
  BY <1>2 DEF Category, CategoryStatus
<1>6. category[q.category] = NoCategory /\ UNCHANGED filed
  BY DEF Create
<1>. QED  BY <1>2, <1>3, <1>4, <1>5, <1>6 DEF OnlyChanges

LEMMA UpdateRow ==
  ASSUME TypeOK, AllPrepared, NEW r \in Requests, Update(r)
  PROVE  LET q == request[r]
             c == q.category
         IN
         /\ c \in Categories /\ OnlyChanges(c)
         /\ category'[c] \in Category /\ unreviewed'[c] \in BOOLEAN
         /\ category'[c].parent = (IF q.parent = Unset THEN category[c].parent ELSE q.parent)
         /\ \/ category'[c].status = "PENDING_APPROVAL"
            \/ category'[c].status = category[c].status /\ unreviewed'[c] = unreviewed[c]
         /\ category'[c].removed = category[c].removed
         /\ category' \in [Categories -> Category] /\ unreviewed' \in [Categories -> BOOLEAN]
         /\ UNCHANGED filed
<1>. DEFINE q == request[r]
<1>1. q \in Request /\ q.kind = "update" /\ Prepared(q)
  BY WriteStep DEF WritesAs
<1>2. q.category \in Categories /\ q.parent \in Categories \cup {NULL, Unset}
  BY <1>1 DEF Request
<1>3. /\ category \in [Categories -> Category] /\ unreviewed \in [Categories -> BOOLEAN]
  BY DEF TypeOK
<1>4. PICK super \in BOOLEAN, active \in BOOLEAN \cup {Unset} :
        /\ category' = [category EXCEPT ![q.category] = Edit(@, q.parent, active, super)]
        /\ unreviewed' = [unreviewed EXCEPT ![q.category] = @ \/ ~super]
  BY DEF Update
<1>. DEFINE old == category[q.category]
            new == Edit(old, q.parent, active, super)
<1>5. old \in Category
  BY <1>2, <1>3
<1>6. /\ new \in Category
      /\ new.parent = (IF q.parent = Unset THEN old.parent ELSE q.parent)
      /\ new.status = (IF super THEN old.status ELSE "PENDING_APPROVAL")
      /\ new.removed = old.removed
  BY <1>2, <1>5 DEF Edit, Category, CategoryStatus
<1>7. category' = [category EXCEPT ![q.category] = new]
  BY <1>4
<1>8. unreviewed'[q.category] = (unreviewed[q.category] \/ ~super)
  BY <1>2, <1>3, <1>4
<1>9. unreviewed' \in [Categories -> BOOLEAN]
  BY <1>2, <1>3, <1>4
<1>10. super => unreviewed'[q.category] = unreviewed[q.category]
  BY <1>2, <1>3, <1>8
<1>11. UNCHANGED filed
  BY DEF Update
<1>12. OnlyChanges(q.category)
  BY <1>2, <1>3, <1>4 DEF OnlyChanges
<1>. HIDE DEF new
<1>. QED  BY <1>2, <1>3, <1>6, <1>7, <1>9, <1>10, <1>11, <1>12

LEMMA ReviewRow ==
  ASSUME TypeOK, AllPrepared, NEW r \in Requests, Review(r)
  PROVE  LET c == request[r].category IN
         /\ c \in Categories /\ OnlyChanges(c)
         /\ category'[c] \in Category /\ unreviewed'[c] \in BOOLEAN
         /\ category'[c].parent = category[c].parent
         /\ category'[c].status \in {"APPROVED", "REJECTED"}
         /\ category'[c].status = "APPROVED" => ~unreviewed'[c]
         /\ category'[c].removed = category[c].removed
         /\ category' \in [Categories -> Category] /\ unreviewed' \in [Categories -> BOOLEAN]
         /\ UNCHANGED filed
<1>. DEFINE c == request[r].category
<1>1. c \in Categories
  BY WriteStep DEF WritesAs, Request
<1>2. /\ category \in [Categories -> Category] /\ unreviewed \in [Categories -> BOOLEAN]
  BY DEF TypeOK
<1>3. PICK approved \in BOOLEAN :
        /\ category' = [category EXCEPT ![c].status = IF approved THEN "APPROVED" ELSE "REJECTED"]
        /\ unreviewed' = [unreviewed EXCEPT ![c] = @ /\ ~approved]
  BY DEF Review
<1>. DEFINE new == [category[c] EXCEPT !.status = IF approved THEN "APPROVED" ELSE "REJECTED"]
<1>4. category' = [category EXCEPT ![c] = new]
  BY <1>3
<1>5. category[c] \in Category
  BY <1>1, <1>2
<1>6. /\ new \in Category /\ new.parent = category[c].parent
      /\ new.removed = category[c].removed
      /\ new.status = (IF approved THEN "APPROVED" ELSE "REJECTED")
  BY <1>5 DEF Category, CategoryStatus
<1>7. unreviewed'[c] = (unreviewed[c] /\ ~approved)
  BY <1>1, <1>2, <1>3
<1>8. unreviewed' \in [Categories -> BOOLEAN] /\ OnlyChanges(c)
  BY <1>1, <1>2, <1>3 DEF OnlyChanges
<1>9. UNCHANGED filed
  BY DEF Review
<1>. HIDE DEF new
<1>10. category'[c] = new /\ category' \in [Categories -> Category]
  BY <1>1, <1>2, <1>4, <1>6
<1>. QED  BY <1>1, <1>6, <1>7, <1>8, <1>9, <1>10

LEMMA RemoveRow ==
  ASSUME TypeOK, AllPrepared, NEW r \in Requests, Remove(r)
  PROVE  LET c == request[r].category IN
         /\ c \in Categories /\ OnlyChanges(c)
         /\ category'[c].parent = category[c].parent
         /\ category'[c].status = category[c].status
         /\ category'[c].removed
         /\ category' \in [Categories -> Category]
         /\ UNCHANGED <<unreviewed, filed>>
<1>. DEFINE c == request[r].category
            new == [category[c] EXCEPT !.removed = TRUE]
<1>1. c \in Categories
  BY WriteStep DEF WritesAs, Request
<1>2. category \in [Categories -> Category]
  BY DEF TypeOK
<1>3. category' = [category EXCEPT ![c] = new] /\ UNCHANGED <<unreviewed, filed>>
  BY DEF Remove
<1>4. /\ new \in Category /\ new.parent = category[c].parent
      /\ new.status = category[c].status /\ new.removed
  BY <1>1, <1>2 DEF Category
<1>. HIDE DEF new
<1>. QED  BY <1>1, <1>2, <1>3, <1>4 DEF OnlyChanges

\* A step is of no consequence to the categories, or one of these.
LEMMA TreeSteps ==
  ASSUME TypeOK, [Next]_vars
  PROVE  \/ UNCHANGED <<category, unreviewed>>
         \/ \E r \in Requests : Create(r) \/ Update(r) \/ Review(r) \/ Remove(r)
<1>1. ASSUME NEW r \in Requests, Beginning(r) \/ Check(r) \/ Fail(r) \/ File(r)
      PROVE  UNCHANGED <<category, unreviewed>>
  BY <1>1, BeginningStep, CheckStep DEF Fail, File, rowVars
<1>. QED  BY <1>1, NextSteps DEF Write, RemoveProduct, vars

\* Categories that were made stay so.
LEMMA MadeStays ==
  ASSUME TypeOK, AllPrepared, [Next]_vars, NEW c \in Categories, Made(c)
  PROVE  Made(c)'
<1>1. CASE UNCHANGED <<category, unreviewed>>
  BY <1>1 DEF Made
<1>2. ASSUME NEW r \in Requests, Create(r) \/ Update(r) \/ Review(r) \/ Remove(r)
      PROVE  Made(c)'
  <2>1. CASE c # request[r].category
    BY <1>2, <2>1, CreateRow, UpdateRow, ReviewRow, RemoveRow DEF OnlyChanges, Made
  <2>2. CASE c = request[r].category
    <3>1. CASE Create(r)
      BY <2>2, <3>1, CreateRow DEF Made
    <3>2. CASE Update(r)
      BY <2>2, <3>2, UpdateRow DEF Made
    <3>3. CASE Review(r)
      BY <2>2, <3>3, ReviewRow DEF Made
    <3>4. CASE Remove(r)
      BY <2>2, <3>4, RemoveRow DEF Made
    <3>. QED  BY <1>2, <3>1, <3>2, <3>3, <3>4
  <2>. QED  BY <2>1, <2>2
<1>. QED  BY <1>1, <1>2, TreeSteps

-----------------------------------------------------------------------------
(* The invariant holds *)

LEMMA AtFirst == Init => IInv
<1>. SUFFICES ASSUME Init PROVE IInv
  OBVIOUS
<1>1. category \in [Categories -> Category]
  <2>1. NoCategory \in Category
    BY DEF NoCategory, Category, CategoryStatus
  <2>2. [status : {"APPROVED"}, parent : Categories \cup {NULL}, active : {TRUE}, removed : {FALSE}]
          \subseteq Category
    BY DEF Category, CategoryStatus
  <2>. QED  BY <2>1, <2>2 DEF Init
<1>2. \A c \in Categories : category[c] = NoCategory \/ Exists(c)
  BY DEF Init, Exists
<1>3. \A r \in Requests : request[r] = NULL
  BY DEF Init
<1>4. TypeOK
  <2>1. /\ filed \in [Products -> Categories \cup {NULL}]
        /\ unreviewed \in [Categories -> BOOLEAN] /\ contested \in BOOLEAN
        /\ request \in [Requests -> Request \cup {NULL}]
    BY DEF Init
  <2>2. made \in 0..MaxRequests
    BY Constants DEF Init
  <2>. QED  BY <1>1, <2>1, <2>2 DEF TypeOK
<1>5. ParentsMade
  <2>. SUFFICES ASSUME NEW c \in Categories, category[c].parent # NULL
                PROVE  Made(category[c].parent)
    BY DEF ParentsMade
  <2>1. category[c].parent \in Categories
    BY <1>1 DEF Category
  <2>2. Exists(c)
    BY <1>2 DEF NoCategory
  <2>3. category[c].parent < c
    BY DEF Init
  <2>4. Exists(category[c].parent)
    BY <2>1, <2>2, <2>3 DEF Init
  <2>. QED  BY <2>4 DEF Exists, Made
<1>6. \A c \in Categories : ~unreviewed[c]
  BY DEF Init
<1>7. \A p \in Products : filed[p] = NULL
  BY DEF Init
<1>. QED  BY <1>3, <1>4, <1>5, <1>6, <1>7 DEF IInv, AllPrepared, ApprovedIsReviewed, NoProductInRemoved

\* What a step makes of request s: nothing, the beginning of one, or a further
\* step of it, and these two leave the rows alone.
LEMMA RequestSteps ==
  ASSUME TypeOK, AllPrepared, [Next]_vars, NEW s \in Requests, request'[s] # NULL
  PROVE  \/ request'[s] = request[s]
         \/ /\ UNCHANGED rowVars
            /\ request[s] = NULL /\ request'[s] \in Request
            /\ Prepared(request'[s]) /\ ~NeedsClimb(request'[s])
         \/ /\ UNCHANGED rowVars
            /\ request[s] # NULL /\ Checked(request[s], request'[s])
<1>0. request \in [Requests -> Request \cup {NULL}]
  BY DEF TypeOK
<1>1. ASSUME NEW r \in Requests, Beginning(r)
      PROVE  \/ request'[s] = request[s]
             \/ /\ UNCHANGED rowVars
                /\ request[s] = NULL /\ request'[s] \in Request
                /\ Prepared(request'[s]) /\ ~NeedsClimb(request'[s])
  <2>1. UNCHANGED rowVars /\ request[r] = NULL
    BY <1>1, BeginningStep
  <2>2. PICK c \in Categories, parent \in Categories \cup {NULL, Unset},
             at \in {"parent", "children", "write"},
             kind \in {"create", "update", "review", "remove", "file"} :
          /\ request' = [request EXCEPT ![r] = NewRequest(at, kind, c, parent)]
          /\ NewRequest(at, kind, c, parent) \in Request
          /\ Prepared(NewRequest(at, kind, c, parent))
          /\ parent \in Categories => at = "parent"
    BY <1>1, BeginningStep
  <2>. DEFINE q == NewRequest(at, kind, c, parent)
  <2>3. q.at = at /\ q.parent = parent
    BY DEF NewRequest
  <2>4. ~NeedsClimb(q)
    BY <2>2, <2>3 DEF NeedsClimb
  <2>. HIDE DEF q
  <2>5. request'[s] = IF s = r THEN q ELSE request[s]
    BY <1>0, <2>2 DEF q
  <2>6. q \in Request /\ Prepared(q)
    BY <2>2 DEF q
  <2>. QED  BY <2>1, <2>4, <2>5, <2>6
<1>2. ASSUME NEW r \in Requests, Check(r)
      PROVE  \/ request'[s] = request[s]
             \/ UNCHANGED rowVars /\ request[s] # NULL /\ Checked(request[s], request'[s])
  <2>1. UNCHANGED rowVars /\ request[r] # NULL
    BY <1>2, CheckStep
  <2>2. PICK new : /\ request' = [request EXCEPT ![r] = new]
                   /\ new = NULL \/ Checked(request[r], new)
    BY <1>2, CheckStep
  <2>3. request'[s] = IF s = r THEN new ELSE request[s]
    BY <1>0, <2>2
  <2>. QED  BY <2>1, <2>2, <2>3
<1>3. ASSUME NEW r \in Requests, Write(r) \/ Fail(r)
      PROVE  request'[s] = request[s]
  <2>1. request' = [request EXCEPT ![r] = NULL]
    BY <1>3, WriteStep DEF Write, WritesAs, Answers, Fail, Refuse
  <2>. QED  BY <1>0, <2>1
<1>. QED  BY <1>1, <1>2, <1>3, NextSteps DEF RemoveProduct, vars

\* The types are kept by every write.
LEMMA WriteType ==
  ASSUME TypeOK, AllPrepared, NEW r \in Requests, Write(r)
  PROVE  TypeOK'
<1>1. /\ request[r] # NULL /\ request[r] \in Request
      /\ contested' = (contested \/ ~StillAsRead(request[r]))
      /\ request' = [request EXCEPT ![r] = NULL] /\ made' = made
  BY WriteStep DEF Write, WritesAs, Answers
<1>2. /\ contested' \in BOOLEAN /\ made' \in 0..MaxRequests
      /\ request' \in [Requests -> Request \cup {NULL}]
  BY <1>1 DEF TypeOK
<1>3. CASE Create(r) \/ Update(r) \/ Review(r)
  <2>1. /\ category' \in [Categories -> Category] /\ unreviewed' \in [Categories -> BOOLEAN]
        /\ filed' = filed
    BY <1>3, CreateRow, UpdateRow, ReviewRow
  <2>. QED  BY <1>2, <2>1 DEF TypeOK
<1>4. CASE Remove(r)
  <2>1. category' \in [Categories -> Category] /\ UNCHANGED <<unreviewed, filed>>
    BY <1>4, RemoveRow
  <2>. QED  BY <1>2, <2>1 DEF TypeOK
<1>5. CASE File(r)
  <2>1. request[r].category \in Categories
    BY <1>1 DEF Request
  <2>2. filed' \in [Products -> Categories \cup {NULL}] /\ UNCHANGED <<category, unreviewed>>
    BY <1>5, <2>1 DEF File, TypeOK
  <2>. QED  BY <1>2, <2>2 DEF TypeOK
<1>. QED  BY <1>3, <1>4, <1>5 DEF Write

LEMMA TypeKept == TypeOK /\ AllPrepared /\ [Next]_vars => TypeOK'
<1>. SUFFICES ASSUME TypeOK, AllPrepared, [Next]_vars PROVE TypeOK'
  OBVIOUS
<1>1. ASSUME NEW r \in Requests, Beginning(r) PROVE TypeOK'
  <2>1. PICK q \in Request : request' = [request EXCEPT ![r] = q]
    BY <1>1, BeginningStep
  <2>2. UNCHANGED rowVars /\ made' \in 0..MaxRequests
    BY <1>1, BeginningStep
  <2>. QED  BY <2>1, <2>2 DEF TypeOK, rowVars
<1>2. ASSUME NEW r \in Requests, Check(r) PROVE TypeOK'
  <2>1. UNCHANGED <<rowVars, made>> /\ request[r] # NULL
    BY <1>2, CheckStep
  <2>2. PICK new : /\ request' = [request EXCEPT ![r] = new]
                   /\ new = NULL \/ Checked(request[r], new)
    BY <1>2, CheckStep
  <2>3. request[r] \in Request /\ Prepared(request[r])
    BY <2>1, RequestType DEF AllPrepared
  <2>4. new \in Request \cup {NULL}
    BY <2>2, <2>3, CheckedType
  <2>. QED  BY <2>1, <2>2, <2>4 DEF TypeOK, rowVars
<1>3. ASSUME NEW r \in Requests, Fail(r) PROVE TypeOK'
  BY <1>3 DEF Fail, Refuse, TypeOK, rowVars
<1>4. ASSUME NEW p \in Products, RemoveProduct(p) PROVE TypeOK'
  BY <1>4 DEF RemoveProduct, TypeOK
<1>5. CASE UNCHANGED vars
  BY <1>5 DEF vars, TypeOK
<1>. QED  BY <1>1, <1>2, <1>3, <1>4, <1>5, WriteType, NextSteps

LEMMA PreparedKept == TypeOK /\ AllPrepared /\ [Next]_vars => AllPrepared'
<1>. SUFFICES ASSUME TypeOK, AllPrepared, [Next]_vars,
                     NEW s \in Requests, request'[s] # NULL
              PROVE  Prepared(request[s])'
  BY DEF AllPrepared
<1>1. ASSUME Prepared(request'[s]), request'[s] \in Request PROVE Prepared(request[s])'
  <2>1. /\ request'[s].category \in Categories
        /\ request'[s].kind # "create" => Made(request'[s].category)
        /\ request'[s].at \in {"walk", "write"} /\ request'[s].parent \in Categories
             => Made(request'[s].parent)
    BY <1>1 DEF Request, Prepared
  <2>2. \A c \in Categories : Made(c) => Made(c)'
    BY MadeStays
  <2>3. /\ request'[s].kind # "create" => Made(request[s].category)'
        /\ request'[s].at \in {"walk", "write"} /\ request'[s].parent \in Categories
             => Made(request[s].parent)'
    BY <2>1, <2>2 DEF Made
  <2>. QED  BY <1>1, <2>3 DEF Prepared
<1>2. CASE request'[s] = request[s]
  BY <1>1, <1>2, RequestType DEF AllPrepared
<1>3. CASE request'[s] \in Request /\ Prepared(request'[s])
  BY <1>1, <1>3
<1>4. CASE request[s] # NULL /\ Checked(request[s], request'[s])
  BY <1>1, <1>4, RequestType, CheckedType DEF AllPrepared
<1>. QED  BY <1>2, <1>3, <1>4, RequestSteps

LEMMA ParentsKept == TypeOK /\ AllPrepared /\ ParentsMade /\ [Next]_vars => ParentsMade'
<1>. SUFFICES ASSUME TypeOK, AllPrepared, ParentsMade, [Next]_vars PROVE ParentsMade'
  OBVIOUS
<1>. SUFFICES ASSUME NEW c \in Categories, category'[c].parent # NULL
              PROVE  category'[c].parent \in Categories /\ Made(category'[c].parent)
  <2>1. \A d \in Categories : Made(d) => Made(d)'
    BY MadeStays
  <2>. QED  BY <2>1 DEF ParentsMade, Made
<1>1. category[c].parent # NULL => category[c].parent \in Categories /\ Made(category[c].parent)
  BY RowType DEF ParentsMade, Category
<1>2. CASE UNCHANGED <<category, unreviewed>>
  BY <1>1, <1>2
<1>3. ASSUME NEW r \in Requests, Create(r) \/ Update(r) \/ Review(r) \/ Remove(r),
             category'[c].parent # category[c].parent
      PROVE  category'[c].parent \in Categories /\ Made(category'[c].parent)
  <2>. DEFINE q == request[r]
  <2>1. c = q.category
    BY <1>3, CreateRow, UpdateRow, ReviewRow, RemoveRow DEF OnlyChanges
  <2>2. (Create(r) \/ Update(r)) /\ category'[c].parent = q.parent /\ q.parent # Unset
    <3>1. CASE Create(r)
      BY <2>1, <3>1, CreateRow, WriteStep DEF WritesAs, Prepared
    <3>2. CASE Update(r)
      BY <1>3, <2>1, <3>2, UpdateRow
    <3>. QED  BY <1>3, <2>1, <3>1, <3>2, ReviewRow, RemoveRow
  <2>3. q \in Request /\ Prepared(q) /\ q.at = "write"
    BY <2>2, WriteStep DEF WritesAs
  <2>4. q.parent \in Categories
    BY <2>2, <2>3 DEF Request
  <2>. QED  BY <2>2, <2>3, <2>4 DEF Prepared
<1>. QED  BY <1>1, <1>2, <1>3, TreeSteps

\* A write through which nothing is contested has read what is there still.
LEMMA Uncontested ==
  ASSUME TypeOK, AllPrepared, [Next]_vars, ~contested'
  PROVE  /\ ~contested
         /\ \A r \in Requests : Write(r) => StillAsRead(request[r])
<1>1. \A r \in Requests : Write(r) => ~contested /\ StillAsRead(request[r])
  BY WriteStep DEF Write, WritesAs
<1>2. ASSUME NEW r \in Requests, Beginning(r) \/ Check(r) \/ Fail(r)
      PROVE  contested' = contested
  BY <1>2, BeginningStep, CheckStep DEF Fail, rowVars
<1>3. ~contested
  BY <1>1, <1>2, NextSteps DEF RemoveProduct, vars
<1>4. ASSUME NEW r \in Requests, Write(r) PROVE StillAsRead(request[r])
  BY <1>1, <1>4
<1>. QED  BY <1>3, <1>4

LEMMA ReviewedKept ==
  TypeOK /\ AllPrepared /\ ApprovedIsReviewed /\ [Next]_vars => ApprovedIsReviewed'
<1>. SUFFICES ASSUME TypeOK, AllPrepared, ApprovedIsReviewed, [Next]_vars, ~contested',
                     NEW c \in Categories, category'[c].status = "APPROVED"
              PROVE  ~unreviewed'[c]
  BY DEF ApprovedIsReviewed
<1>1. category[c].status = "APPROVED" => ~unreviewed[c]
  BY Uncontested DEF ApprovedIsReviewed
<1>2. CASE UNCHANGED <<category, unreviewed>>
  BY <1>1, <1>2
<1>3. ASSUME NEW r \in Requests, Create(r) \/ Update(r) \/ Review(r) \/ Remove(r)
      PROVE  ~unreviewed'[c]
  <2>1. CASE c # request[r].category
    <3>1. CASE Remove(r)
      BY <1>1, <2>1, <3>1, RemoveRow DEF OnlyChanges
    <3>2. CASE Create(r) \/ Update(r) \/ Review(r)
      <4>1. category'[c] = category[c] /\ unreviewed'[c] = unreviewed[c]
        BY <2>1, <3>2, CreateRow, UpdateRow, ReviewRow DEF OnlyChanges
      <4>. QED  BY <1>1, <4>1
    <3>. QED  BY <1>3, <3>1, <3>2
  <2>2. CASE c = request[r].category
    <3>1. CASE Create(r)
      BY <2>2, <3>1, CreateRow
    <3>2. CASE Update(r)
      BY <1>1, <2>2, <3>2, UpdateRow
    <3>3. CASE Review(r)
      BY <2>2, <3>3, ReviewRow
    <3>4. CASE Remove(r)
      BY <1>1, <2>2, <3>4, RemoveRow
    <3>. QED  BY <1>3, <3>1, <3>2, <3>3, <3>4
  <2>. QED  BY <2>1, <2>2
<1>. QED  BY <1>2, <1>3, TreeSteps

\* What the removal of a category, and the filing of a product, have found.
LEMMA NothingFiled ==
  ASSUME TypeOK, AllPrepared, [Next]_vars, ~contested', NEW r \in Requests, Remove(r)
  PROVE  \A p \in Products : filed[p] # request[r].category
<1>1. request[r].empty
  BY WriteStep DEF WritesAs, Prepared
<1>2. StillAsRead(request[r])
  BY Uncontested DEF Write
<1>. QED  BY <1>1, <1>2 DEF StillAsRead, HasActiveProducts

LEMMA FiledWhereRead ==
  ASSUME TypeOK, AllPrepared, [Next]_vars, ~contested', NEW r \in Requests, File(r)
  PROVE  ~category[request[r].category].removed
<1>1. PICK row \in request[r].read : row[1] = request[r].category /\ ~row[2].removed
  BY WriteStep DEF WritesAs, Prepared
<1>2. row = Row(row[1])
  BY <1>1, Uncontested DEF Write, StillAsRead
<1>. QED  BY <1>1, <1>2 DEF Row

LEMMA ProductsKept ==
  TypeOK /\ AllPrepared /\ NoProductInRemoved /\ [Next]_vars => NoProductInRemoved'
<1>. SUFFICES ASSUME TypeOK, AllPrepared, NoProductInRemoved, [Next]_vars, ~contested',
                     NEW p \in Products, filed'[p] # NULL
              PROVE  ~category'[filed'[p]].removed
  BY DEF NoProductInRemoved
<1>1. /\ filed[p] # NULL => filed[p] \in Categories /\ ~category[filed[p]].removed
      /\ filed \in [Products -> Categories \cup {NULL}]
  BY Uncontested DEF NoProductInRemoved, TypeOK
<1>2. ASSUME NEW r \in Requests, Beginning(r) \/ Check(r) \/ Fail(r)
      PROVE  UNCHANGED <<category, filed>>
  BY <1>2, BeginningStep, CheckStep DEF Fail, rowVars
<1>3. CASE UNCHANGED <<category, filed>>
  BY <1>1, <1>3
<1>4. ASSUME NEW r \in Requests, Create(r) \/ Update(r) \/ Review(r)
      PROVE  ~category'[filed'[p]].removed
  <2>1. filed'[p] = filed[p] /\ filed[p] \in Categories /\ ~category[filed[p]].removed
    BY <1>1, <1>4, CreateRow, UpdateRow, ReviewRow
  <2>2. CASE filed[p] # request[r].category
    BY <1>4, <2>1, <2>2, CreateRow, UpdateRow, ReviewRow DEF OnlyChanges
  <2>3. CASE filed[p] = request[r].category
    <3>1. CASE Create(r)
      BY <2>1, <2>3, <3>1, CreateRow
    <3>2. CASE Update(r)
      BY <2>1, <2>3, <3>2, UpdateRow
    <3>3. CASE Review(r)
      BY <2>1, <2>3, <3>3, ReviewRow
    <3>. QED  BY <1>4, <3>1, <3>2, <3>3
  <2>. QED  BY <2>2, <2>3
<1>5. ASSUME NEW r \in Requests, Remove(r)
      PROVE  ~category'[filed'[p]].removed
  BY <1>1, <1>5, RemoveRow, NothingFiled DEF OnlyChanges
<1>6. ASSUME NEW r \in Requests, File(r)
      PROVE  ~category'[filed'[p]].removed
  <2>1. PICK m \in Products : filed' = [filed EXCEPT ![m] = request[r].category]
    BY <1>6 DEF File
  <2>2. category' = category
    BY <1>6 DEF File
  <2>3. filed'[p] = request[r].category \/ filed'[p] = filed[p]
    BY <1>1, <2>1
  <2>. QED  BY <1>1, <1>6, <2>2, <2>3, FiledWhereRead
<1>7. ASSUME NEW m \in Products, RemoveProduct(m)
      PROVE  ~category'[filed'[p]].removed
  BY <1>1, <1>7 DEF RemoveProduct
<1>. QED  BY <1>2, <1>3, <1>4, <1>5, <1>6, <1>7, NextSteps DEF Write, vars

\* Requests have established what they say at each step, and every parent was
\* made, whatever goes on beside them.
THEOREM Invariance == Spec => []IInv
<1>1. Init => IInv
  BY AtFirst
<1>2. IInv /\ [Next]_vars => IInv'
  <2>. SUFFICES ASSUME IInv, [Next]_vars PROVE IInv'
    OBVIOUS
  <2>. QED  BY TypeKept, PreparedKept, ParentsKept, ReviewedKept, ProductsKept DEF IInv
<1>. QED  BY <1>1, <1>2, PTL DEF Spec

\* The variables have their types: categories are given by id, requests hold
\* what they have read.
THEOREM TypeCorrect == Spec => []TypeOK
<1>1. IInv => TypeOK
  BY DEF IInv
<1>. QED  BY <1>1, Invariance, PTL

\* CategoriesService.update, review: an approved category is as a super admin
\* made or saw it, as anybody else's edit takes the approval away.
THEOREM ApprovedAsReviewed == Spec => []ApprovedIsReviewed
<1>1. IInv => ApprovedIsReviewed
  BY DEF IInv
<1>. QED  BY <1>1, Invariance, PTL

\* CategoriesService.remove: no product is left in a removed category, unless a
\* write went through although something it had read had changed.
THEOREM NoneLeftInRemoved == Spec => []NoProductInRemoved
<1>1. IInv => NoProductInRemoved
  BY DEF IInv
<1>. QED  BY <1>1, Invariance, PTL

-----------------------------------------------------------------------------
(* No circles, in a tree no deeper than the walk is long *)

LEMMA NoCycleTold == NoCycle <=> (~contested => ~Circles)
BY DEF NoCycle, Circles, Closed

LEMMA NoCircleAtFirst == Init => ~Circles
<1>. SUFFICES ASSUME Init, NEW S \in SUBSET Categories, Closed(S) PROVE FALSE
  BY DEF Circles
<1>1. S \subseteq Nat /\ S # {}
  BY Constants DEF Closed
<1>2. PICK c \in S : \A d \in S : ~(<<d, c>> \in OpToRel(<, Nat))
  BY <1>1, NatLessThanWellFounded, WFMin
<1>3. category[c].parent \in S
  BY DEF Closed
<1>4. category[c].parent < c
  BY <1>1, <1>3, Constants DEF Init
<1>. QED  BY <1>1, <1>2, <1>3, <1>4 DEF OpToRel

\* What a walk has read and no write has changed holds no circle, and has come
\* to an end before it has taken all its steps.
LEMMA PassedStands ==
  ASSUME TypeOK, NEW q \in Request, StillAsRead(q),
         IsFiniteSet(Categories), Cardinality(Categories) <= MaxHops, ~Circles,
         Climbed(q), q.at = "write", q.parent \in Categories
  PROVE  /\ q.parent \in Passed(q) /\ q.category \notin Passed(q)
         /\ \A c \in Passed(q) : Exists(c) => category[c].parent \in Passed(q) \cup {NULL}
<1>1. \A row \in q.read : row = Row(row[1])
  BY DEF StillAsRead
<1>2. Single(q)
  BY <1>1 DEF Single
<1>3. Cardinality(Categories \ {q.category}) = Cardinality(Categories) - 1 /\ Cardinality(Categories) \in Nat
  BY FS_RemoveElement, FS_CardinalityType DEF Request
<1>4. q.category \notin Passed(q) /\ Passed(q) \subseteq Categories \ {q.category}
  BY DEF Passed, Above
<1>5. Cardinality(Passed(q)) <= Cardinality(Categories) - 1 /\ Cardinality(Passed(q)) \in Nat
  <2>1. IsFiniteSet(Categories \ {q.category})
    BY FS_Subset
  <2>. QED  BY <1>3, <1>4, <2>1, FS_Subset, FS_CardinalityType
<1>6. q.hops \in Nat /\ MaxHops \in Nat
  BY Constants DEF Request
<1>7. \A c \in Passed(q) : Row(c) \in Above(q) /\ Row(c)[1] = c /\ Row(c)[2] = category[c]
  BY <1>1 DEF Passed, Above, Row
<1>8. \A c \in Passed(q) : LiveRow(Row(c)) <=> Exists(c)
  BY <1>7 DEF LiveRow, Exists
<1>9. q.hops # 0
  <2>1. Cardinality(Categories) # 0
    BY <1>3, <1>5, <1>6
  <2>2. ASSUME q.hops = 0 PROVE FALSE
    <3>1. q.current = q.parent /\ q.current # NULL
      BY <2>2, Constants DEF Climbed
    <3>2. MaxHops = 0
      BY <2>2, <3>1 DEF Climbed
    <3>. QED  BY <1>3, <2>1, <3>2
  <2>. QED  BY <2>2
<1>10. q.hops > 0
  BY <1>6, <1>9
<1>11. q.parent \in Passed(q) /\ Leads(q) /\ (Straight(q) \/ Circling(q))
  BY <1>2, <1>10 DEF Climbed
<1>12. ~Circling(q)
  <2>. SUFFICES ASSUME Circling(q) PROVE FALSE
    OBVIOUS
  <2>1. \A c \in Passed(q) : Exists(c) /\ category[c].parent \in Passed(q)
    BY <1>7, <1>8 DEF Circling
  <2>2. Closed(Passed(q)) /\ Passed(q) \in SUBSET Categories
    BY <1>4, <1>11, <2>1 DEF Closed
  <2>. QED  BY <2>2 DEF Circles
<1>13. q.current = NULL
  BY <1>3, <1>5, <1>6, <1>11, <1>12 DEF Climbed, Straight
<1>14. \A c \in Passed(q) : Exists(c) => category[c].parent \in Passed(q) \cup {NULL}
  BY <1>7, <1>8, <1>11, <1>13 DEF Leads
<1>. QED  BY <1>4, <1>11, <1>14

\* None of the writes makes categories each other's ancestors.
LEMMA WriteMakesNoCircle ==
  ASSUME TypeOK, AllPrepared, AllClimbed, ParentsMade, [Next]_vars,
         IsFiniteSet(Categories), Cardinality(Categories) <= MaxHops,
         ~Circles, ~contested', NEW r \in Requests,
         Create(r) \/ Update(r) \/ Review(r) \/ Remove(r),
         NEW S \in SUBSET Categories, Closed(S)'
  PROVE  FALSE
<1>. DEFINE q == request[r]
            c == q.category
<1>1. /\ q # NULL /\ q \in Request /\ Prepared(q) /\ q.at = "write"
      /\ (Create(r) <=> q.kind = "create") /\ (Update(r) <=> q.kind = "update")
  BY WriteStep DEF WritesAs
<1>2. \A d \in S : category'[d].status # "NONE" /\ ~category'[d].removed /\ category'[d].parent \in S
  BY DEF Closed, Exists
<1>3. S # {}
  BY DEF Closed
<1>4. c \in Categories /\ \A d \in Categories \ {c} : category'[d] = category[d]
  BY CreateRow, UpdateRow, ReviewRow, RemoveRow DEF OnlyChanges
<1>5. \A d \in S \ {c} : Exists(d) /\ category[d].parent \in S
  BY <1>2, <1>4 DEF Exists
<1>6. \A T \in SUBSET Categories : T # {} => \E d \in T : ~(Exists(d) /\ category[d].parent \in T)
  BY DEF Circles, Closed
<1>7. c \in S
  BY <1>3, <1>5, <1>6
<1>8. category'[c].status # "NONE" /\ ~category'[c].removed /\ category'[c].parent \in S
  BY <1>2, <1>7
<1>9. ~(Exists(c) /\ category[c].parent \in S)
  BY <1>5, <1>6, <1>7
<1>10. CASE Create(r)
  <2>1. ~Made(c) /\ category'[c].parent = q.parent
    BY <1>10, CreateRow DEF NoCategory, Made
  <2>2. \A d \in S \ {c} : category[d].parent \in S \ {c}
    BY <1>4, <1>5, <2>1, Constants DEF ParentsMade
  <2>3. S \ {c} = {}
    <3>. DEFINE T == S \ {c}
    <3>1. T \in SUBSET Categories /\ \A d \in T : Exists(d) /\ category[d].parent \in T
      BY <1>5, <2>2
    <3>. HIDE DEF T
    <3>2. T = {}
      BY <1>6, <3>1
    <3>. QED  BY <3>2 DEF T
  <2>4. q.parent = c
    BY <1>8, <2>1, <2>3
  <2>. QED  BY <1>1, <1>4, <2>1, <2>4 DEF Prepared
<1>11. CASE Update(r)
  <2>1. Exists(c)
    BY <1>1, <1>8, <1>11, UpdateRow DEF Prepared, Exists, Made
  <2>2. q.parent \in S
    BY <1>8, <1>9, <1>11, <2>1, UpdateRow
  <2>3. Climbed(q)
    BY <1>1, <1>11, <2>2 DEF AllClimbed
  <2>4. StillAsRead(q)
    BY <1>11, Uncontested DEF Write
  <2>5. /\ q.parent \in Passed(q) /\ c \notin Passed(q)
        /\ \A d \in Passed(q) : Exists(d) => category[d].parent \in Passed(q) \cup {NULL}
    BY <1>1, <2>2, <2>3, <2>4, PassedStands
  <2>. DEFINE T == S \cap Passed(q)
  <2>6. \A d \in T : Exists(d) /\ category[d].parent \in T
    BY <1>5, <2>5, Constants
  <2>. QED  BY <1>6, <2>2, <2>5, <2>6
<1>12. CASE Review(r)
  <2>1. Made(c)
    BY <1>1, <1>12, WriteStep DEF WritesAs, Prepared
  <2>. QED  BY <1>8, <1>9, <1>12, <2>1, ReviewRow DEF Exists, Made
<1>13. CASE Remove(r)
  BY <1>8, <1>13, RemoveRow
<1>. QED  BY <1>10, <1>11, <1>12, <1>13

\* The account of its walk is kept by each step of a request.
LEMMA ClimbedKept ==
  ASSUME IsFiniteSet(Categories), TypeOK, AllPrepared, AllClimbed, [Next]_vars
  PROVE  AllClimbed'
<1>1. ASSUME NEW s \in Requests, request'[s] # NULL, NeedsClimb(request'[s])
      PROVE  Climbed(request'[s])
  <2>1. CASE request'[s] = request[s]
    BY <1>1, <2>1 DEF AllClimbed, NeedsClimb
  <2>2. CASE request[s] # NULL /\ Checked(request[s], request'[s])
    <3>1. request[s] \in Request /\ Prepared(request[s]) /\ (NeedsClimb(request[s]) => Climbed(request[s]))
      BY <2>2, RequestType DEF AllPrepared, AllClimbed, NeedsClimb
    <3>. QED  BY <1>1, <2>2, <3>1, CheckedClimbs
  <2>. QED  BY <1>1, <2>1, <2>2, RequestSteps
<1>2. ASSUME NEW s \in Requests, Climbed(request'[s]) PROVE Climbed(request[s])'
  BY <1>2 DEF Climbed, Passed, Above, Single, Leads, LiveRow, Straight, Circling
<1>. QED  BY <1>1, <1>2 DEF AllClimbed, NeedsClimb

\* As many ancestors as there can be are looked at (the code stops after 100):
\* as long as no write has gone through although a row it had read had changed,
\* no categories are each other's ancestors.
THEOREM NoCycles ==
  ASSUME IsFiniteSet(Categories), Cardinality(Categories) <= MaxHops
  PROVE  Spec => []NoCycle
<1>. DEFINE CInv == AllClimbed /\ NoCycle
<1>1. Init => CInv
  BY NoCircleAtFirst, NoCycleTold DEF Init, AllClimbed
<1>2. IInv /\ CInv /\ [Next]_vars => CInv'
  <2>. SUFFICES ASSUME IInv, CInv, [Next]_vars PROVE CInv'
    OBVIOUS
  <2>1. TypeOK /\ AllPrepared /\ ParentsMade
    BY DEF IInv
  <2>2. AllClimbed'
    BY <2>1, ClimbedKept
  <2>3. ASSUME ~contested', NEW S \in SUBSET Categories, Closed(S)' PROVE FALSE
    <3>1. ~Circles
      BY <2>1, <2>3, NoCycleTold, Uncontested
    <3>2. CASE UNCHANGED <<category, unreviewed>>
      <4>1. Closed(S)
        BY <2>3, <3>2 DEF Closed, Exists
      <4>. QED  BY <3>1, <4>1 DEF Circles
    <3>3. ASSUME NEW r \in Requests, Create(r) \/ Update(r) \/ Review(r) \/ Remove(r) PROVE FALSE
      BY <2>1, <2>3, <3>1, <3>3, WriteMakesNoCircle
    <3>. QED  BY <2>1, <3>2, <3>3, TreeSteps
  <2>4. NoCycle'
    BY <2>3 DEF NoCycle, Closed
  <2>. QED  BY <2>2, <2>4
<1>. QED  BY <1>1, <1>2, Invariance, PTL DEF Spec

\* CategoriesService.tree: then every active, approved category is in the tree,
\* also under a parent that is inactive, back in review or removed.
THEOREM AllAreShown ==
  ASSUME IsFiniteSet(Categories), Cardinality(Categories) <= MaxHops
  PROVE  Spec => []TreeShowsAll
<1>1. NoCycle => TreeShowsAll
  <2>. SUFFICES ASSUME NoCycle, ~contested PROVE BuildTree = Shown
    BY DEF TreeShowsAll
  <2>1. ASSUME NEW S \in SUBSET Shown, \A c \in S : category[c].parent \in S PROVE S = {}
    <3>1. S \in SUBSET {c \in Categories : Exists(c)}
      BY DEF Shown
    <3>. QED  BY <2>1, <3>1 DEF NoCycle
  <2>. QED  BY <2>1 DEF BuildTree
<1>. QED  BY <1>1, NoCycles, PTL
=============================================================================
