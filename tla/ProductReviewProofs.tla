-------------------------- MODULE ProductReviewProofs --------------------------
(***************************************************************************)
(* Proofs about ProductReview, for any products, SKUs and prices and any   *)
(* number of requests at a time.                                           *)
(***************************************************************************)
EXTENDS Listings, TLAPS

USE DEF ProductImage

ApprovedOnce(p) == \E i \in DOMAIN audit[p] : audit[p][i].action = "APPROVED"

\* An edit may start from the status the last audit row left, or its switch.
Follows(from, to) == from = to \/ {from, to} = {"APPROVED", "INACTIVE"}

TrailComplete(p) ==
  \A i \in DOMAIN audit[p] :
    Follows(IF i = Len(audit[p]) THEN product[p].status ELSE audit[p][i + 1].from, audit[p][i].to)

\* The price was computed from numbers of which the columns keep what they can.
Priced(row) ==
  \E mrp \in Nat \cup {NULL}, discount \in (0..Whole) \cup {NULL} :
    /\ Column(mrp) = row.mrp /\ Column(discount) = row.discount
    /\ row.price = CurrentPrice(mrp, discount)

\* What the properties say of one product, and that its trail starts with it.
Sound(p) ==
  /\ Published(p) => ApprovedOnce(p)
  /\ product[p].status = "NONE" => audit[p] = <<>>
  /\ images[p] \ {NULL} \subseteq variants[p]
  /\ ~contested[p] =>
       /\ Published(p) => seen[p] = product[p].version
       /\ Priced(product[p])
       /\ TrailComplete(p)

\* What a request has read of its product is past, but not undone.
ReadsHold(q) ==
  /\ q.kind # "create" => product[q.product].status # "NONE"
  /\ q.row.status \in {"APPROVED", "INACTIVE"} => ApprovedOnce(q.product)

RequestsHold == \A r \in Requests : request[r] # NULL => ReadsHold(request[r])

IInv == TypeOK /\ (\A p \in Products : Sound(p)) /\ RequestsHold

-----------------------------------------------------------------------------
(* Data *)

LEMMA WholeType == Whole \in Nat
BY SMT DEF Whole

LEMMA WholeInTens == \E tens \in Nat : Whole = 10 * tens
<1>1. 10000 \in Nat /\ Whole = 10 * 10000
  BY SMT DEF Whole
<1>. QED  BY <1>1, SMT

\* A dividend rounded to a multiple of 10 * Whole.
LEMMA RoundedType ==
  ASSUME NEW exact \in Nat
  PROVE  LET rounded == (exact + 5 * Whole) \div (10 * Whole)
         IN  /\ rounded \in Nat
             /\ 10 * Whole * rounded <= exact + 5 * Whole
             /\ exact + 5 * Whole < 10 * Whole * rounded + 10 * Whole
<1>1. \A dividend, divisor \in Nat : divisor > 0 =>
        /\ dividend \div divisor \in Nat
        /\ divisor * (dividend \div divisor) <= dividend
        /\ dividend < divisor * (dividend \div divisor) + divisor
  BY SMT
<1>2. 10 * Whole \in Nat /\ 10 * Whole > 0
  BY SMT DEF Whole
<1>3. exact + 5 * Whole \in Nat
  BY WholeType
<1>. QED  BY <1>1, <1>2, <1>3

LEMMA PriceType ==
  ASSUME NEW mrp \in Nat \cup {NULL}, NEW discount \in (0..Whole) \cup {NULL}
  PROVE  /\ CurrentPrice(mrp, discount) \in Nat \cup {NULL}
         /\ CurrentPrice(mrp, discount) = NULL <=> mrp = NULL
<1>1. CASE mrp = NULL
  BY <1>1 DEF CurrentPrice
<1>2. CASE mrp # NULL
  <2>. DEFINE off == IF discount = NULL THEN 0 ELSE discount
  <2>1. mrp \in Nat /\ off \in 0..Whole
    BY <1>2, WholeType, SMT
  <2>. HIDE DEF off
  <2>2. \A m, k \in Nat : m * k \in Nat
    OBVIOUS
  <2>3. Whole - off \in Nat
    BY <2>1, WholeType
  <2>4. mrp * (Whole - off) \in Nat
    BY <2>1, <2>2, <2>3
  <2>5. (mrp * (Whole - off) + 5 * Whole) \div (10 * Whole) \in Nat
    BY <2>4, RoundedType
  <2>. QED  BY <1>2, <2>5, ReviewAssumption DEF CurrentPrice, off
<1>. QED  BY <1>1, <1>2

\* What a column keeps is near the number, and is kept as it is.
LEMMA ColumnType ==
  ASSUME NEW value \in Nat \cup {NULL}
  PROVE  /\ Column(value) \in Nat \cup {NULL}
         /\ Column(value) = NULL <=> value = NULL
         /\ Column(Column(value)) = Column(value)
         /\ value # NULL => Column(value) <= value + 5 /\ value <= Column(value) + 5
         /\ value \in 0..Whole => Column(value) \in 0..Whole
<1>1. CASE value = NULL
  BY <1>1, ReviewAssumption, WholeType DEF Column
<1>2. CASE value # NULL
  <2>1. value \in Nat
    BY <1>2
  <2>2. PICK tenth \in Nat : tenth = (value + 5) \div 10
    BY <2>1
  <2>3. 10 * tenth <= value + 5 /\ value + 5 < 10 * tenth + 10
    BY <2>1, <2>2
  <2>4. Column(value) = 10 * tenth /\ 10 * tenth \in Nat /\ 10 * tenth # NULL
    BY <1>2, <2>2, ReviewAssumption DEF Column
  <2>5. (10 * tenth + 5) \div 10 = tenth
    OBVIOUS
  <2>6. Column(10 * tenth) = 10 * tenth
    BY <2>4, <2>5 DEF Column
  <2>7. value \in 0..Whole => 10 * tenth \in 0..Whole
    <3>1. PICK tens \in Nat : Whole = 10 * tens
      BY WholeInTens
    <3>. QED  BY <2>1, <2>3, <3>1, SMT
  <2>. QED  BY <1>2, <2>1, <2>3, <2>4, <2>6, <2>7
<1>. QED  BY <1>1, <1>2

LEMMA DiscountType ==
  ASSUME NEW discount \in (0..Whole) \cup {NULL}
  PROVE  Column(discount) \in (0..Whole) \cup {NULL}
<1>1. discount \in Nat \cup {NULL}
  BY WholeType
<1>2. CASE discount = NULL
  BY <1>1, <1>2, ColumnType
<1>3. CASE discount # NULL
  BY <1>1, <1>3, ColumnType
<1>. QED  BY <1>2, <1>3

\* Two products of near factors: of a retail price and a share of it.
LEMMA NearFactors ==
  ASSUME NEW m \in Nat, NEW n \in Nat, NEW k \in 0..Whole, NEW l \in 0..Whole,
         n <= m + 5, m <= n + 5, k <= l + 5, l <= k + 5
  PROVE  n * k <= m * l + 5 * Whole + 5 * m /\ m * l <= n * k + 5 * Whole + 5 * m
<1>1. \A a, b, c \in Nat : a <= b => a * c <= b * c /\ c * a <= c * b
  OBVIOUS
<1>2. /\ n * k <= (m + 5) * k /\ (m + 5) * k = m * k + 5 * k
      /\ m * k <= (n + 5) * k /\ (n + 5) * k = n * k + 5 * k
  BY <1>1
<1>3. /\ m * k <= m * (l + 5) /\ m * (l + 5) = m * l + 5 * m
      /\ m * l <= m * (k + 5) /\ m * (k + 5) = m * k + 5 * m
  BY <1>1
<1>4. \A a, b \in Nat : a * b \in Nat
  OBVIOUS
<1>. DEFINE nk == n * k
            mk == m * k
            ml == m * l
<1>5. nk \in Nat /\ mk \in Nat /\ ml \in Nat
  BY <1>4
<1>6. nk <= mk + 5 * k /\ mk <= nk + 5 * k /\ mk <= ml + 5 * m /\ ml <= mk + 5 * m
  BY <1>2, <1>3
<1>. HIDE DEF nk, mk, ml
<1>7. nk <= ml + 5 * Whole + 5 * m /\ ml <= nk + 5 * Whole + 5 * m
  BY <1>5, <1>6, WholeType
<1>. QED  BY <1>7 DEF nk, ml

\* Two near numbers, rounded.
LEMMA NearRounded ==
  ASSUME NEW w \in Nat, NEW n \in Nat, NEW a \in Nat, NEW b \in Nat,
         NEW exact \in Nat, NEW stored \in Nat,
         exact <= stored + 5 * w + 5 * n, stored <= exact + 5 * w + 5 * n,
         10 * w * a <= exact + 5 * w, exact + 5 * w < 10 * w * a + 10 * w,
         10 * w * b <= stored + 5 * w, stored + 5 * w < 10 * w * b + 10 * w
  PROVE  10 * w * Distance(a, b) <= 15 * w + 5 * n
<1>. DEFINE wa == w * a
            wb == w * b
<1>1. wa \in Nat /\ wb \in Nat
  BY SMT
<1>2. 10 * w * a = 10 * wa /\ 10 * w * b = 10 * wb
  BY SMT
<1>3. 10 * w * Distance(a, b) = IF a < b THEN 10 * wb - 10 * wa ELSE 10 * wa - 10 * wb
  BY SMT DEF Distance
<1>. HIDE DEF wa, wb
<1>. QED  BY <1>1, <1>2, <1>3, SMT

\* A price computed before the columns round is near the price of what they keep.
LEMMA RoundingBound ==
  ASSUME NEW row \in Product, Priced(row)
  PROVE  /\ row.price = NULL <=> row.mrp = NULL
         /\ row.price # NULL =>
              10 * Whole * Distance(row.price, CurrentPrice(row.mrp, row.discount))
                <= 15 * Whole + 5 * row.mrp
<1>1. PICK mrp \in Nat \cup {NULL}, discount \in (0..Whole) \cup {NULL} :
        /\ Column(mrp) = row.mrp /\ Column(discount) = row.discount
        /\ row.price = CurrentPrice(mrp, discount)
  BY DEF Priced
<1>2. row.price = NULL <=> row.mrp = NULL
  BY <1>1, PriceType, ColumnType
<1>3. ASSUME row.price # NULL
      PROVE  10 * Whole * Distance(row.price, CurrentPrice(row.mrp, row.discount))
               <= 15 * Whole + 5 * row.mrp
  <2>1. /\ mrp \in Nat /\ row.mrp \in Nat /\ row.mrp # NULL /\ mrp # NULL
        /\ mrp <= row.mrp + 5 /\ row.mrp <= mrp + 5
    BY <1>1, <1>3, PriceType, ColumnType
  <2>. DEFINE k == Whole - (IF discount = NULL THEN 0 ELSE discount)
              l == Whole - (IF row.discount = NULL THEN 0 ELSE row.discount)
  <2>2. k \in 0..Whole /\ l \in 0..Whole /\ k <= l + 5 /\ l <= k + 5
    <3>1. CASE discount = NULL
      BY <1>1, <3>1, ColumnType, WholeType
    <3>2. CASE discount # NULL
      <4>1. discount \in 0..Whole /\ discount \in Nat
        BY <3>2, WholeType
      <4>2. /\ row.discount \in 0..Whole /\ row.discount # NULL
            /\ row.discount <= discount + 5 /\ discount <= row.discount + 5
        BY <1>1, <3>2, <4>1, ColumnType
      <4>. QED  BY <3>2, <4>1, <4>2, WholeType
    <3>. QED  BY <3>1, <3>2
  <2>3. /\ row.price = (mrp * k + 5 * Whole) \div (10 * Whole)
        /\ CurrentPrice(row.mrp, row.discount) = (row.mrp * l + 5 * Whole) \div (10 * Whole)
    BY <1>1, <2>1 DEF CurrentPrice
  <2>. HIDE DEF k, l
  <2>4. \A a, b \in Nat : a * b \in Nat
    OBVIOUS
  <2>5. PICK exact \in Nat, stored \in Nat : exact = mrp * k /\ stored = row.mrp * l
    BY <2>1, <2>2, <2>4
  <2>6. exact <= stored + 5 * Whole + 5 * row.mrp /\ stored <= exact + 5 * Whole + 5 * row.mrp
    BY <2>1, <2>2, <2>5, NearFactors
  <2>7. PICK a \in Nat, b \in Nat :
          /\ a = (exact + 5 * Whole) \div (10 * Whole) /\ b = (stored + 5 * Whole) \div (10 * Whole)
          /\ 10 * Whole * a <= exact + 5 * Whole /\ exact + 5 * Whole < 10 * Whole * a + 10 * Whole
          /\ 10 * Whole * b <= stored + 5 * Whole /\ stored + 5 * Whole < 10 * Whole * b + 10 * Whole
    BY RoundedType
  <2>8. 10 * Whole * Distance(a, b) <= 15 * Whole + 5 * row.mrp
    BY <2>1, <2>6, <2>7, WholeType, NearRounded
  <2>. QED  BY <2>3, <2>5, <2>7, <2>8
<1>. QED  BY <1>2, <1>3

LEMMA EditType ==
  ASSUME NEW now \in Product, NEW read \in Product, NEW dto \in UpdateDto
  PROVE  /\ EditRow(now, read, dto) \in Product
         /\ EditRow(now, read, dto).status = now.status
         /\ EditRow(now, read, dto).version = now.version
<1>1. /\ dto.mrp # Unset => dto.mrp \in Nat \cup {NULL}
      /\ dto.discount # Unset => dto.discount \in (0..Whole) \cup {NULL}
      /\ Given(dto.mrp, read.mrp) \in Nat \cup {NULL}
      /\ Given(dto.discount, read.discount) \in (0..Whole) \cup {NULL}
  BY ReviewAssumption DEF Given, UpdateDto, Product
<1>2. EditedPrice(read, dto) \in Nat \cup {NULL}
  BY <1>1, PriceType DEF EditedPrice
<1>. DEFINE mrp == IF dto.mrp = Unset THEN now.mrp ELSE Column(dto.mrp)
            discount == IF dto.discount = Unset THEN now.discount ELSE Column(dto.discount)
            price == IF dto.mrp = Unset /\ dto.discount = Unset THEN now.price
                     ELSE EditedPrice(read, dto)
<1>3. price \in Nat \cup {NULL}
  BY <1>2 DEF Product
<1>4. EditRow(now, read, dto) = [now EXCEPT !.mrp = mrp, !.discount = discount, !.price = price]
  BY DEF EditRow, Product
<1>5. mrp \in Nat \cup {NULL}
  BY <1>1, ColumnType DEF Product
<1>6. discount \in (0..Whole) \cup {NULL}
  <2>1. CASE dto.discount = Unset
    BY <2>1 DEF Product
  <2>2. CASE dto.discount # Unset
    BY <1>1, <2>2, DiscountType
  <2>. QED  BY <2>1, <2>2
<1>. HIDE DEF mrp, discount, price
<1>. QED  BY <1>3, <1>4, <1>5, <1>6 DEF Product

\* The price of a row edited as it was read.
LEMMA EditPrice ==
  ASSUME NEW row \in Product, NEW dto \in UpdateDto, Priced(row)
  PROVE  Priced(EditRow(row, row, dto))
<1>. DEFINE mrp == Given(dto.mrp, row.mrp)
            discount == Given(dto.discount, row.discount)
            new == EditRow(row, row, dto)
<1>1. /\ new.mrp = IF dto.mrp = Unset THEN row.mrp ELSE Column(dto.mrp)
      /\ new.discount = IF dto.discount = Unset THEN row.discount ELSE Column(dto.discount)
      /\ new.price = IF dto.mrp = Unset /\ dto.discount = Unset THEN row.price
                     ELSE CurrentPrice(mrp, discount)
  BY DEF EditRow, EditedPrice, Product
<1>2. mrp \in Nat \cup {NULL} /\ discount \in (0..Whole) \cup {NULL}
  BY ReviewAssumption DEF Given, UpdateDto, Product
<1>3. Column(row.mrp) = row.mrp /\ Column(row.discount) = row.discount
  BY ColumnType DEF Priced
<1>4. Column(mrp) = new.mrp /\ Column(discount) = new.discount
  BY <1>1, <1>3 DEF Given
<1>. HIDE DEF mrp, discount, new
<1>5. Priced(new)
  BY <1>1, <1>2, <1>4 DEF Priced
<1>. QED  BY <1>5 DEF new

LEMMA ResubmitType ==
  ASSUME NEW row \in Product, NEW status \in SubmissionStatus
  PROVE  /\ Resubmit(row, status) \in Product
         /\ Resubmit(row, status).status = status
         /\ Resubmit(row, status).mrp = row.mrp
         /\ Resubmit(row, status).discount = row.discount
         /\ Resubmit(row, status).price = row.price
<1>1. row.version + 1 \in Nat /\ status \in ProductStatus
  BY DEF Product, SubmissionStatus, ProductStatus
<1>. QED  BY <1>1 DEF Resubmit, Product

LEMMA AuditRowGrows ==
  ASSUME TypeOK, NEW p \in Products,
         NEW action \in {"CREATED", "UPDATED", "APPROVED", "REJECTED"},
         NEW from \in ProductStatus, NEW to \in ProductStatus,
         AuditRow(p, action, from, to)
  PROVE  /\ audit' \in [Products -> Seq(Audit)]
         /\ \A q \in Products : Len(audit'[q]) <= MaxAudits[q]
         /\ \A q \in Products \ {p} : audit'[q] = audit[q]
         /\ DOMAIN audit'[p] = 1..(Len(audit[p]) + 1) /\ DOMAIN audit[p] = 1..Len(audit[p])
         /\ Len(audit'[p]) = Len(audit[p]) + 1 /\ Len(audit[p]) \in Nat
         /\ \A i \in 1..Len(audit[p]) : audit'[p][i] = audit[p][i]
         /\ audit'[p][Len(audit[p]) + 1].action = action
         /\ audit'[p][Len(audit[p]) + 1].from = from
         /\ audit'[p][Len(audit[p]) + 1].to = to
<1>. DEFINE row == [action |-> action, from |-> from, to |-> to]
<1>1. row \in Audit /\ row.action = action /\ row.from = from /\ row.to = to
  BY DEF Audit
<1>2. /\ Len(audit[p]) < MaxAudits[p] /\ audit' = [audit EXCEPT ![p] = Append(@, row)]
      /\ audit[p] \in Seq(Audit)
  BY DEF AuditRow, TypeOK
<1>. HIDE DEF row
<1>3. /\ audit'[p] = Append(audit[p], row)
      /\ \A q \in Products \ {p} : audit'[q] = audit[q]
  BY <1>2 DEF TypeOK
<1>4. Len(audit'[p]) = Len(audit[p]) + 1 /\ Len(audit[p]) \in Nat
  BY <1>1, <1>2, <1>3
<1>5. Len(audit'[p]) <= MaxAudits[p]
  BY <1>2, <1>4, ReviewAssumption
<1>6. audit' \in [Products -> Seq(Audit)]
  BY <1>1, <1>2 DEF TypeOK
<1>7. \A q \in Products : Len(audit'[q]) <= MaxAudits[q]
  BY <1>3, <1>5 DEF TypeOK
<1>8. DOMAIN audit'[p] = 1..(Len(audit[p]) + 1) /\ DOMAIN audit[p] = 1..Len(audit[p])
  BY <1>1, <1>2, <1>3
<1>9. /\ \A i \in 1..Len(audit[p]) : audit'[p][i] = audit[p][i]
      /\ audit'[p][Len(audit[p]) + 1] = row
  BY <1>1, <1>2, <1>3
<1>. QED  BY <1>1, <1>3, <1>4, <1>6, <1>7, <1>8, <1>9

\* A row that starts from the status, or the first one, keeps the trail whole.
LEMMA TrailGrows ==
  ASSUME TypeOK, NEW p \in Products,
         NEW action \in {"CREATED", "UPDATED", "APPROVED", "REJECTED"},
         NEW from \in ProductStatus, NEW to \in ProductStatus,
         AuditRow(p, action, from, to),
         TrailComplete(p), audit[p] = <<>> \/ from = product[p].status,
         product'[p].status = to
  PROVE  TrailComplete(p)'
<1>. DEFINE last == Len(audit[p])
<1>1. /\ DOMAIN audit'[p] = 1..(last + 1) /\ DOMAIN audit[p] = 1..last
      /\ Len(audit'[p]) = last + 1 /\ last \in Nat
      /\ \A i \in 1..last : audit'[p][i] = audit[p][i]
      /\ audit'[p][last + 1].from = from /\ audit'[p][last + 1].to = to
  BY AuditRowGrows
<1>2. last > 0 => from = product[p].status
  BY <1>1
<1>4. \A i \in 1..last :
        Follows(IF i = last THEN product[p].status ELSE audit[p][i + 1].from, audit[p][i].to)
  BY <1>1 DEF TrailComplete
<1>. HIDE DEF last
<1>3. ASSUME NEW i \in 1..(last + 1)
      PROVE  Follows(IF i = last + 1 THEN to ELSE audit'[p][i + 1].from, audit'[p][i].to)
  <2>1. CASE i = last + 1
    BY <1>1, <2>1 DEF Follows
  <2>2. CASE i = last
    BY <1>1, <1>2, <1>4, <2>2
  <2>3. CASE i \in 1..last /\ i # last
    <3>1. i + 1 \in 1..last
      BY <1>1, <2>3
    <3>2. audit'[p][i] = audit[p][i] /\ audit'[p][i + 1] = audit[p][i + 1]
      BY <1>1, <2>3, <3>1
    <3>3. Follows(audit[p][i + 1].from, audit[p][i].to)
      BY <1>4, <2>3
    <3>4. i # last + 1
      BY <1>1, <2>3
    <3>. QED  BY <3>2, <3>3, <3>4
  <2>. QED  BY <1>1, <2>1, <2>2, <2>3
<1>. QED  BY <1>1, <1>3 DEF TrailComplete

LEMMA ApprovalsStay ==
  ASSUME TypeOK, NEW p \in Products,
         NEW action \in {"CREATED", "UPDATED", "APPROVED", "REJECTED"},
         NEW from \in ProductStatus, NEW to \in ProductStatus,
         AuditRow(p, action, from, to)
  PROVE  /\ \A q \in Products : ApprovedOnce(q) => ApprovedOnce(q)'
         /\ action = "APPROVED" => ApprovedOnce(p)'
         /\ audit'[p] # <<>>
<1>1. /\ \A q \in Products \ {p} : audit'[q] = audit[q]
      /\ DOMAIN audit'[p] = 1..(Len(audit[p]) + 1) /\ DOMAIN audit[p] = 1..Len(audit[p])
      /\ Len(audit[p]) \in Nat
      /\ \A i \in 1..Len(audit[p]) : audit'[p][i] = audit[p][i]
      /\ audit'[p][Len(audit[p]) + 1].action = action
  BY AuditRowGrows
<1>2. Len(audit[p]) + 1 \in DOMAIN audit'[p]
  BY <1>1
<1>3. action = "APPROVED" => ApprovedOnce(p)'
  BY <1>1, <1>2 DEF ApprovedOnce
<1>4. ApprovedOnce(p) => ApprovedOnce(p)'
  <2>1. ASSUME NEW i \in DOMAIN audit[p], audit[p][i].action = "APPROVED"
        PROVE  ApprovedOnce(p)'
    <3>1. i \in DOMAIN audit'[p] /\ audit'[p][i] = audit[p][i]
      BY <1>1
    <3>. QED  BY <2>1, <3>1 DEF ApprovedOnce
  <2>. QED  BY <2>1 DEF ApprovedOnce
<1>5. \A q \in Products \ {p} : ApprovedOnce(q) => ApprovedOnce(q)'
  BY <1>1 DEF ApprovedOnce
<1>. QED  BY <1>2, <1>3, <1>4, <1>5

-----------------------------------------------------------------------------
(* Requests *)

\* What all writes have in common: they concern one product, which exists from
\* then on, and approvals are not taken back.
Touches(p) ==
  /\ \A q \in Products \ {p} :
       /\ product'[q] = product[q] /\ variants'[q] = variants[q] /\ images'[q] = images[q]
       /\ audit'[q] = audit[q] /\ seen'[q] = seen[q] /\ contested'[q] = contested[q]
  /\ product'[p].status # "NONE"
  /\ ApprovedOnce(p) => ApprovedOnce(p)'

LEMMA OthersSound ==
  ASSUME NEW p \in Products, Touches(p), \A q \in Products : Sound(q), Sound(p)'
  PROVE  \A q \in Products : Sound(q)'
<1>1. ASSUME NEW q \in Products \ {p} PROVE Sound(q)'
  <2>1. /\ product'[q] = product[q] /\ variants'[q] = variants[q] /\ images'[q] = images[q]
        /\ audit'[q] = audit[q] /\ seen'[q] = seen[q] /\ contested'[q] = contested[q]
        /\ Sound(q)
    BY DEF Touches
  <2>2. Published(q)' = Published(q) /\ ApprovedOnce(q)' = ApprovedOnce(q)
        /\ TrailComplete(q)' = TrailComplete(q)
    BY <2>1 DEF Published, ApprovedOnce, TrailComplete
  <2>. QED  BY <2>1, <2>2 DEF Sound
<1>. QED  BY <1>1

LEMMA RequestsFinish ==
  ASSUME TypeOK, RequestsHold, NEW r \in Requests, Finish(r),
         \/ \E p \in Products : Touches(p)
         \/ UNCHANGED <<product, audit>>
  PROVE  request' \in [Requests -> Request \cup {NULL}] /\ RequestsHold'
<1>1. /\ request' \in [Requests -> Request \cup {NULL}]
      /\ \A q \in Requests : request'[q] = NULL \/ request'[q] = request[q]
  BY DEF Finish, TypeOK
<1>2. \A p \in Products :
        /\ product[p].status # "NONE" => product'[p].status # "NONE"
        /\ ApprovedOnce(p) => ApprovedOnce(p)'
  BY DEF Touches, ApprovedOnce
<1>3. RequestsHold'
  <2>. SUFFICES ASSUME NEW q \in Requests, request'[q] # NULL
                PROVE  ReadsHold(request[q])'
    BY DEF RequestsHold
  <2>1. request'[q] = request[q] /\ ReadsHold(request[q]) /\ request[q].product \in Products
    BY <1>1 DEF RequestsHold, TypeOK, Request
  <2>. QED  BY <1>2, <2>1 DEF ReadsHold
<1>. QED  BY <1>1, <1>3

\* A request that writes, and what it had read.
LEMMA WriterType ==
  ASSUME TypeOK, RequestsHold, NEW r \in Requests, NEW kind \in Kinds, Writes(r, kind)
  PROVE  /\ request[r].product \in Products /\ request[r].row \in Product
         /\ request[r].variants \subseteq Variant /\ request[r].kind = kind
         /\ ReadsHold(request[r])
BY DEF TypeOK, Writes, Request, RequestsHold

LEMMA ContestType ==
  ASSUME TypeOK, NEW r \in Requests, request[r].product \in Products, NoteContest(r)
  PROVE  /\ contested' \in [Products -> BOOLEAN]
         /\ \A q \in Products \ {request[r].product} : contested'[q] = contested[q]
         /\ ~contested'[request[r].product] =>
              /\ ~contested[request[r].product]
              /\ product[request[r].product] = request[r].row
BY DEF NoteContest, TypeOK

LEMMA VariantsType ==
  ASSUME TypeOK, NEW p \in Products, NEW skus \in SUBSET Skus
  PROVE  NewVariants(p, skus) \subseteq Variant
<1>1. Len(audit[p]) + 1 \in Nat
  BY DEF TypeOK
<1>. QED  BY <1>1 DEF NewVariants, Variant

LEMMA ReplaceVariantsType ==
  ASSUME TypeOK, NEW r \in Requests, request[r].product \in Products,
         request[r].variants \subseteq Variant,
         NEW skus \in (SUBSET Skus) \cup {Unset}, ReplaceVariants(r, skus)
  PROVE  /\ variants' \in [Products -> SUBSET Variant]
         /\ images' \in [Products -> SUBSET (Variant \cup {NULL})]
         /\ \A q \in Products \ {request[r].product} :
              variants'[q] = variants[q] /\ images'[q] = images[q]
         /\ images[request[r].product] \ {NULL} \subseteq variants[request[r].product] =>
              images'[request[r].product] \ {NULL} \subseteq variants'[request[r].product]
<1>. DEFINE p == request[r].product
            current == IF skus = Unset THEN request[r].variants ELSE NewVariants(p, skus)
<1>1. current \subseteq Variant
  BY VariantsType
<1>2. variants' = [variants EXCEPT ![p] = IF skus = Unset THEN @ ELSE current]
  BY DEF ReplaceVariants
<1>3. PICK shown \in SUBSET (Variant \cup {NULL}) :
        /\ images' = [images EXCEPT ![p] = shown]
        /\ \/ shown = IF skus = Unset \/ images[p] = {} THEN images[p] ELSE {NULL}
           \/ shown \ {NULL} \subseteq variants'[p]
  <2>1. CASE images' = [images EXCEPT ![p] = IF skus = Unset \/ @ = {} THEN @ ELSE {NULL}]
    BY <2>1 DEF TypeOK
  <2>2. ASSUME NEW shown \in {{}, {NULL}, current}, shown \ {NULL} \subseteq variants'[p],
               images' = [images EXCEPT ![p] = shown]
        PROVE  \E some \in SUBSET (Variant \cup {NULL}) :
                 /\ images' = [images EXCEPT ![p] = some]
                 /\ some \ {NULL} \subseteq variants'[p]
    <3>1. shown \in SUBSET (Variant \cup {NULL})
      BY <1>1, <2>2
    <3>. QED  BY <2>2, <3>1
  <2>. QED  BY <2>1, <2>2 DEF ReplaceVariants
<1>. HIDE DEF current, p
<1>4. /\ variants' \in [Products -> SUBSET Variant]
      /\ \A q \in Products \ {p} : variants'[q] = variants[q]
      /\ skus = Unset => variants'[p] = variants[p]
  BY <1>1, <1>2 DEF TypeOK
<1>5. /\ images' \in [Products -> SUBSET (Variant \cup {NULL})]
      /\ \A q \in Products \ {p} : images'[q] = images[q]
      /\ p \in Products => images'[p] = shown
  BY <1>3 DEF TypeOK
<1>6. p \in Products /\ images[p] \ {NULL} \subseteq variants[p] => images'[p] \ {NULL} \subseteq variants'[p]
  BY <1>3, <1>4, <1>5
<1>. QED  BY <1>4, <1>5, <1>6 DEF p

-----------------------------------------------------------------------------
(* The writes *)

Kept == TypeOK' /\ (\A p \in Products : Sound(p)') /\ RequestsHold'

LEMMA CreateKeeps ==
  ASSUME IInv, NEW r \in Requests, Create(r), NEW p \in Products, p = request[r].product
  PROVE  Kept
<1>. USE DEF IInv
<1>1. /\ Writes(r, "create") /\ product[p].status = "NONE" /\ Finish(r)
      /\ UNCHANGED <<seen, contested>>
  BY DEF Create
<1>3. PICK dto \in CreateDto :
        /\ product' = [product EXCEPT ![p] =
             [NoProduct EXCEPT !.status = dto.status, !.mrp = Column(dto.mrp),
                               !.discount = Column(dto.discount),
                               !.price = CurrentPrice(dto.mrp, dto.discount)]]
        /\ variants' = [variants EXCEPT ![p] = NewVariants(p, dto.skus)]
        /\ images' = [images EXCEPT ![p] = NewVariants(p, dto.skus)]
        /\ AuditRow(p, "CREATED", "NONE", dto.status)
  BY DEF Create
<1>4. /\ dto.status \in SubmissionStatus /\ dto.status \in ProductStatus /\ "NONE" \in ProductStatus
      /\ dto.mrp \in Nat \cup {NULL} /\ dto.discount \in (0..Whole) \cup {NULL}
  BY ReviewAssumption DEF CreateDto, SubmissionStatus, ProductStatus
<1>. DEFINE row == [NoProduct EXCEPT !.status = dto.status, !.mrp = Column(dto.mrp),
                                     !.discount = Column(dto.discount),
                                     !.price = CurrentPrice(dto.mrp, dto.discount)]
<1>5. row \in Product /\ row.status = dto.status /\ Priced(row)
  <2>1. CurrentPrice(dto.mrp, dto.discount) \in Nat \cup {NULL}
    BY <1>4, PriceType
  <2>2. Column(dto.mrp) \in Nat \cup {NULL} /\ Column(dto.discount) \in (0..Whole) \cup {NULL}
    BY <1>4, ColumnType, DiscountType
  <2>3. /\ row \in Product /\ row.status = dto.status
        /\ row.mrp = Column(dto.mrp) /\ row.discount = Column(dto.discount)
        /\ row.price = CurrentPrice(dto.mrp, dto.discount)
    BY <1>4, <2>1, <2>2 DEF NoProduct, Product
  <2>. HIDE DEF row
  <2>4. Priced(row)
    BY <1>4, <2>3 DEF Priced
  <2>. QED  BY <2>3, <2>4
<1>6. /\ product' \in [Products -> Product] /\ product'[p] = row
      /\ \A q \in Products \ {p} : product'[q] = product[q]
  BY <1>3, <1>5 DEF TypeOK
<1>. HIDE DEF row
<1>7. /\ variants' \in [Products -> SUBSET Variant]
      /\ images' \in [Products -> SUBSET (Variant \cup {NULL})]
      /\ variants'[p] = images'[p]
      /\ \A q \in Products \ {p} : variants'[q] = variants[q] /\ images'[q] = images[q]
  <2>1. NewVariants(p, dto.skus) \subseteq Variant
    BY VariantsType DEF CreateDto
  <2>. QED  BY <1>3, <2>1 DEF TypeOK
<1>8. Touches(p)
  <2>1. /\ \A q \in Products \ {p} : audit'[q] = audit[q]
        /\ ApprovedOnce(p) => ApprovedOnce(p)'
    BY <1>3, <1>4, AuditRowGrows, ApprovalsStay
  <2>2. product'[p].status # "NONE"
    BY <1>4, <1>5, <1>6 DEF SubmissionStatus
  <2>. QED  BY <1>1, <1>6, <1>7, <2>1, <2>2 DEF Touches
<1>9. audit[p] = <<>>
  BY <1>1 DEF Sound
<1>10. Sound(p)'
  <2>1. ~Published(p)'
    BY <1>4, <1>5, <1>6 DEF Published, SubmissionStatus
  <2>2. TrailComplete(p)'
    BY <1>3, <1>4, <1>5, <1>6, <1>9, TrailGrows DEF TrailComplete
  <2>3. product'[p].status # "NONE"
    BY <1>8 DEF Touches
  <2>. QED  BY <1>5, <1>6, <1>7, <2>1, <2>2, <2>3 DEF Sound
<1>11. TypeOK'
  <2>1. audit' \in [Products -> Seq(Audit)] /\ \A q \in Products : Len(audit'[q]) <= MaxAudits[q]
    BY <1>3, <1>4, AuditRowGrows
  <2>2. request' \in [Requests -> Request \cup {NULL}]
    BY <1>1, <1>8, RequestsFinish
  <2>. QED  BY <1>1, <1>6, <1>7, <2>1, <2>2 DEF TypeOK
<1>. QED  BY <1>1, <1>8, <1>10, <1>11, OthersSound, RequestsFinish DEF Kept

\* An edit: of a row that it had read, unless the product is contested.
LEMMA EditKeeps ==
  ASSUME IInv, NEW r \in Requests, NEW kind \in {"update", "adminUpdate"}, Writes(r, kind),
         NEW p \in Products, p = request[r].product,
         NEW row \in Product, NEW skus \in (SUBSET Skus) \cup {Unset},
         product' = [product EXCEPT ![p] = row],
         ReplaceVariants(r, skus),
         NEW to \in ProductStatus, AuditRow(p, "UPDATED", request[r].row.status, to),
         product[p] = request[r].row => to = row.status,
         row.status # "NONE",
         row.status \in {"APPROVED", "INACTIVE"} =>
           row.status = product[p].status /\ row.version = product[p].version,
         product[p] = request[r].row /\ Priced(product[p]) => Priced(row),
         NoteContest(r), Finish(r), UNCHANGED seen
  PROVE  Kept
<1>. USE DEF IInv
<1>1. /\ request[r].row \in Product /\ request[r].variants \subseteq Variant
      /\ request[r].row.status \in ProductStatus /\ row.status \in ProductStatus
  BY WriterType DEF Kinds, SellerKinds, AdminKinds, Product
<1>2. /\ product' \in [Products -> Product] /\ product'[p] = row
      /\ \A q \in Products \ {p} : product'[q] = product[q]
  BY DEF TypeOK
<1>3. /\ contested' \in [Products -> BOOLEAN]
      /\ \A q \in Products \ {p} : contested'[q] = contested[q]
      /\ ~contested'[p] => ~contested[p] /\ product[p] = request[r].row
  BY ContestType
<1>4. /\ variants' \in [Products -> SUBSET Variant]
      /\ images' \in [Products -> SUBSET (Variant \cup {NULL})]
      /\ \A q \in Products \ {p} : variants'[q] = variants[q] /\ images'[q] = images[q]
      /\ images'[p] \ {NULL} \subseteq variants'[p]
  BY <1>1, ReplaceVariantsType DEF Sound
<1>5. /\ audit' \in [Products -> Seq(Audit)]
      /\ \A q \in Products : Len(audit'[q]) <= MaxAudits[q]
      /\ \A q \in Products \ {p} : audit'[q] = audit[q]
  BY <1>1, AuditRowGrows
<1>6. /\ \A q \in Products : ApprovedOnce(q) => ApprovedOnce(q)'
      /\ audit'[p] # <<>>
  BY <1>1, ApprovalsStay
<1>7. Touches(p)
  BY <1>2, <1>3, <1>4, <1>5, <1>6 DEF Touches
<1>8. Sound(p)'
  <2>1. Published(p)' => ApprovedOnce(p)'
    BY <1>2, <1>6 DEF Published, Sound
  <2>2. ASSUME ~contested'[p]
        PROVE  /\ Published(p)' => seen'[p] = product'[p].version
               /\ Priced(product[p])'
               /\ TrailComplete(p)'
    <3>1. /\ product[p] = request[r].row /\ TrailComplete(p)
          /\ Published(p) => seen[p] = product[p].version
          /\ Priced(product[p])
      BY <1>3, <2>2 DEF Sound
    <3>2. TrailComplete(p)'
      BY <1>1, <1>2, <3>1, TrailGrows
    <3>. QED  BY <1>2, <3>1, <3>2 DEF Published
  <2>. QED  BY <1>2, <1>4, <1>6, <2>1, <2>2 DEF Sound
<1>9. TypeOK'
  BY <1>2, <1>3, <1>4, <1>5, <1>7, RequestsFinish DEF TypeOK
<1>. QED  BY <1>7, <1>8, <1>9, OthersSound, RequestsFinish DEF Kept

LEMMA UpdateKeeps ==
  ASSUME IInv, NEW r \in Requests, Update(r), NEW p \in Products, p = request[r].product
  PROVE  Kept
<1>. USE DEF IInv
<1>1. Writes(r, "update") /\ NoteContest(r) /\ Finish(r) /\ UNCHANGED seen
  BY DEF Update
<1>2. request[r].row \in Product /\ product[p] \in Product
  BY <1>1, WriterType DEF Kinds, SellerKinds, TypeOK
<1>3. PICK dto \in UpdateDto :
        /\ product' = [product EXCEPT ![p] = Resubmit(EditRow(@, request[r].row, dto), dto.status)]
        /\ ReplaceVariants(r, dto.skus)
        /\ AuditRow(p, "UPDATED", request[r].row.status, dto.status)
  BY DEF Update
<1>. DEFINE edited == EditRow(product[p], request[r].row, dto)
            row == Resubmit(edited, dto.status)
<1>4. /\ dto.status \in SubmissionStatus /\ dto.skus \in (SUBSET Skus) \cup {Unset}
      /\ dto.status \in ProductStatus
  BY DEF UpdateDto, SubmissionStatus, ProductStatus
<1>5. edited \in Product
  BY <1>2, EditType
<1>6. /\ row \in Product /\ row.status = dto.status
      /\ row.mrp = edited.mrp /\ row.discount = edited.discount /\ row.price = edited.price
  BY <1>4, <1>5, ResubmitType
<1>7. product[p] = request[r].row /\ Priced(product[p]) => Priced(row)
  BY <1>2, <1>6, EditPrice DEF Priced
<1>8. product' = [product EXCEPT ![p] = row]
  BY <1>3
<1>. HIDE DEF row, edited
<1>9. row.status \notin {"NONE", "APPROVED", "INACTIVE"}
  BY <1>4, <1>6 DEF SubmissionStatus
<1>. QED  BY <1>1, <1>3, <1>4, <1>6, <1>7, <1>8, <1>9, EditKeeps

LEMMA AdminUpdateKeeps ==
  ASSUME IInv, NEW r \in Requests, AdminUpdate(r), NEW p \in Products, p = request[r].product
  PROVE  Kept
<1>. USE DEF IInv
<1>1. Writes(r, "adminUpdate") /\ NoteContest(r) /\ Finish(r) /\ UNCHANGED seen
  BY DEF AdminUpdate
<1>2. /\ request[r].row \in Product /\ product[p] \in Product /\ product[p].status # "NONE"
      /\ request[r].row.status \in ProductStatus
  <2>1. request[r].row \in Product /\ ReadsHold(request[r]) /\ request[r].kind = "adminUpdate"
    BY <1>1, WriterType DEF Kinds, AdminKinds
  <2>2. product[p] \in Product
    BY DEF TypeOK
  <2>3. product[p].status # "NONE"
    BY <2>1 DEF ReadsHold
  <2>. QED  BY <2>1, <2>2, <2>3 DEF Product
<1>3. PICK dto \in UpdateDto :
        /\ product' = [product EXCEPT ![p] = EditRow(@, request[r].row, dto)]
        /\ ReplaceVariants(r, dto.skus)
        /\ AuditRow(p, "UPDATED", request[r].row.status, request[r].row.status)
  BY DEF AdminUpdate
<1>. DEFINE row == EditRow(product[p], request[r].row, dto)
<1>4. dto.skus \in (SUBSET Skus) \cup {Unset}
  BY DEF UpdateDto
<1>5. row \in Product /\ row.status = product[p].status /\ row.version = product[p].version
  <2>1. PICK now \in Product, read \in Product : now = product[p] /\ read = request[r].row
    BY <1>2
  <2>2. /\ EditRow(now, read, dto) \in Product
        /\ EditRow(now, read, dto).status = now.status
        /\ EditRow(now, read, dto).version = now.version
    BY EditType
  <2>. QED  BY <2>1, <2>2
<1>6. product[p] = request[r].row /\ Priced(product[p]) => Priced(row)
  BY <1>2, EditPrice
<1>7. product' = [product EXCEPT ![p] = row]
  BY <1>3
<1>. HIDE DEF row
<1>8. PICK to \in ProductStatus, skus \in (SUBSET Skus) \cup {Unset}, new \in Product :
        to = request[r].row.status /\ skus = dto.skus /\ new = row
  BY <1>2, <1>4, <1>5
<1>9. /\ product[p] = request[r].row => to = new.status
      /\ new.status # "NONE"
      /\ new.status \in {"APPROVED", "INACTIVE"} =>
           new.status = product[p].status /\ new.version = product[p].version
      /\ product[p] = request[r].row /\ Priced(product[p]) => Priced(new)
  BY <1>2, <1>5, <1>6, <1>8
<1>10. /\ product' = [product EXCEPT ![p] = new] /\ ReplaceVariants(r, skus)
       /\ AuditRow(p, "UPDATED", request[r].row.status, to)
  BY <1>3, <1>7, <1>8
<1>. QED  BY <1>1, <1>9, <1>10, EditKeeps

\* A review, a switch or a removal, which leave the variants and the price.
LEMMA VerdictKeeps ==
  ASSUME IInv, NEW r \in Requests, NEW p \in Products, p = request[r].product,
         NEW row \in Product, product' = [product EXCEPT ![p] = row],
         row.status # "NONE", row.version = product[p].version,
         row.mrp = product[p].mrp, row.discount = product[p].discount,
         row.price = product[p].price,
         UNCHANGED <<variants, images>>,
         audit' \in [Products -> Seq(Audit)],
         \A q \in Products : Len(audit'[q]) <= MaxAudits[q],
         \A q \in Products \ {p} : audit'[q] = audit[q] /\ seen'[q] = seen[q],
         seen' \in [Products -> Nat],
         ApprovedOnce(p) => ApprovedOnce(p)',
         row.status \in {"APPROVED", "INACTIVE"} => ApprovedOnce(p)',
         product[p] = request[r].row /\ ~contested[p] =>
           /\ TrailComplete(p)'
           /\ row.status \in {"APPROVED", "INACTIVE"} => seen'[p] = row.version,
         NoteContest(r), Finish(r)
  PROVE  Kept
<1>. USE DEF IInv
<1>1. /\ product' \in [Products -> Product] /\ product'[p] = row
      /\ \A q \in Products \ {p} : product'[q] = product[q]
  BY DEF TypeOK
<1>2. /\ contested' \in [Products -> BOOLEAN]
      /\ \A q \in Products \ {p} : contested'[q] = contested[q]
      /\ ~contested'[p] => ~contested[p] /\ product[p] = request[r].row
  BY ContestType
<1>3. Touches(p)
  BY <1>1, <1>2 DEF Touches
<1>4. Sound(p)'
  <2>1. Priced(product[p]) => Priced(product[p])'
    BY <1>1 DEF Priced
  <2>. QED  BY <1>1, <1>2, <2>1 DEF Sound, Published
<1>5. TypeOK'
  BY <1>1, <1>2, <1>3, RequestsFinish DEF TypeOK
<1>. QED  BY <1>3, <1>4, <1>5, OthersSound, RequestsFinish DEF Kept

LEMMA ReviewKeeps ==
  ASSUME IInv, NEW r \in Requests, Approve(r) \/ Reject(r),
         NEW p \in Products, p = request[r].product
  PROVE  Kept
<1>. USE DEF IInv
<1>1. PICK kind \in {"approve", "reject"}, action \in {"APPROVED", "REJECTED"}, reason \in BOOLEAN :
        /\ Writes(r, kind) /\ NoteContest(r) /\ Finish(r) /\ UNCHANGED <<variants, images>>
        /\ product' = [product EXCEPT ![p].status = action, ![p].reason = reason]
        /\ AuditRow(p, action, request[r].row.status, action)
        /\ seen' = IF action = "APPROVED" THEN [seen EXCEPT ![p] = request[r].row.version] ELSE seen
  <2>1. CASE Approve(r)
    BY <2>1 DEF Approve
  <2>2. CASE Reject(r)
    BY <2>2 DEF Reject
  <2>. QED  BY <2>1, <2>2
<1>2. /\ request[r].row \in Product /\ request[r].row.status \in ProductStatus
      /\ request[r].row.version \in Nat /\ action \in ProductStatus /\ product[p] \in Product
  BY <1>1, WriterType DEF Kinds, AdminKinds, Product, ProductStatus, TypeOK
<1>. DEFINE row == [product[p] EXCEPT !.status = action, !.reason = reason]
<1>3. /\ row \in Product /\ row.status = action /\ row.version = product[p].version
      /\ row.mrp = product[p].mrp /\ row.discount = product[p].discount
      /\ row.price = product[p].price
  BY <1>2 DEF Product
<1>4. product' = [product EXCEPT ![p] = row]
  BY <1>1
<1>. HIDE DEF row
<1>5. product'[p] = row
  BY <1>4 DEF TypeOK
<1>6. /\ audit' \in [Products -> Seq(Audit)]
      /\ \A q \in Products : Len(audit'[q]) <= MaxAudits[q]
      /\ \A q \in Products \ {p} : audit'[q] = audit[q]
  <2>1. PICK from \in ProductStatus, to \in ProductStatus :
          from = request[r].row.status /\ to = action
    BY <1>2
  <2>2. AuditRow(p, action, from, to)
    BY <1>1, <2>1
  <2>. QED  BY <2>2, AuditRowGrows
<1>7. /\ ApprovedOnce(p) => ApprovedOnce(p)'
      /\ action = "APPROVED" => ApprovedOnce(p)'
  BY <1>1, <1>2, ApprovalsStay
<1>8. /\ seen' \in [Products -> Nat] /\ \A q \in Products \ {p} : seen'[q] = seen[q]
      /\ action = "APPROVED" => seen'[p] = request[r].row.version
  BY <1>1, <1>2 DEF TypeOK
<1>9. product[p] = request[r].row /\ ~contested[p] => TrailComplete(p)'
  <2>. SUFFICES ASSUME product[p] = request[r].row, ~contested[p] PROVE TrailComplete(p)'
    OBVIOUS
  <2>1. TrailComplete(p)
    BY DEF Sound
  <2>. QED  BY <1>1, <1>2, <1>3, <1>5, <2>1, TrailGrows
<1>10. row.status \in {"APPROVED", "INACTIVE"} => row.status = "APPROVED" /\ action = "APPROVED"
  BY <1>3
<1>11. row.status # "NONE"
  BY <1>3
<1>12. product[p] = request[r].row /\ ~contested[p] =>
         /\ TrailComplete(p)'
         /\ row.status \in {"APPROVED", "INACTIVE"} => seen'[p] = row.version
  BY <1>3, <1>8, <1>9, <1>10
<1>13. UNCHANGED <<variants, images>> /\ NoteContest(r) /\ Finish(r)
  BY <1>1
<1>. QED  BY <1>3, <1>4, <1>6, <1>7, <1>8, <1>10, <1>11, <1>12, <1>13, VerdictKeeps

\* The switch and the removal leave the audit trail as well.
LEMMA UnauditedKeeps ==
  ASSUME IInv, NEW r \in Requests, UpdateStatus(r) \/ Remove(r),
         NEW p \in Products, p = request[r].product
  PROVE  Kept
<1>. USE DEF IInv
<1>1. /\ \E kind \in {"updateStatus", "remove"} : Writes(r, kind)
      /\ NoteContest(r) /\ Finish(r) /\ UNCHANGED <<variants, images, audit, seen>>
  BY DEF UpdateStatus, Remove
<1>2. product[p] \in Product /\ ReadsHold(request[r])
  BY <1>1, WriterType DEF Kinds, SellerKinds, TypeOK
<1>3. ApprovedOnce(p) <=> ApprovedOnce(p)'
  BY <1>1 DEF ApprovedOnce
<1>4. CASE UpdateStatus(r)
  <2>1. PICK status \in AllowedTransitions(request[r].row.status) :
          product' = [product EXCEPT ![p].status = status]
    BY <1>4 DEF UpdateStatus
  <2>2. {status, request[r].row.status} = {"APPROVED", "INACTIVE"}
    BY DEF AllowedTransitions
  <2>. DEFINE row == [product[p] EXCEPT !.status = status]
  <2>3. /\ row \in Product /\ row.status = status /\ row.version = product[p].version
        /\ row.mrp = product[p].mrp /\ row.discount = product[p].discount
        /\ row.price = product[p].price
    BY <1>2, <2>2 DEF Product, ProductStatus
  <2>4. product' = [product EXCEPT ![p] = row]
    BY <2>1
  <2>. HIDE DEF row
  <2>5. product'[p] = row
    BY <2>4 DEF TypeOK
  <2>6. product[p] = request[r].row /\ ~contested[p] =>
          TrailComplete(p)' /\ seen[p] = row.version
    <3>. SUFFICES ASSUME product[p] = request[r].row, ~contested[p]
                  PROVE  TrailComplete(p)' /\ seen[p] = row.version
      OBVIOUS
    <3>1. TrailComplete(p) /\ seen[p] = row.version
      BY <2>2, <2>3 DEF Sound, Published
    <3>2. \A to : Follows(product[p].status, to) /\ to # status => Follows(status, to)
      BY <2>2 DEF Follows
    <3>3. TrailComplete(p)'
      BY <1>1, <2>3, <2>5, <3>1, <3>2 DEF TrailComplete, Follows
    <3>. QED  BY <3>1, <3>3
  <2>. QED  BY <1>1, <1>2, <1>3, <2>2, <2>3, <2>4, <2>6, VerdictKeeps DEF ReadsHold, TypeOK
<1>5. CASE Remove(r)
  <2>. DEFINE row == [product[p] EXCEPT !.removed = TRUE]
  <2>1. /\ row \in Product /\ row.status = product[p].status /\ row.version = product[p].version
        /\ row.mrp = product[p].mrp /\ row.discount = product[p].discount
        /\ row.price = product[p].price
    BY <1>2 DEF Product
  <2>2. product' = [product EXCEPT ![p] = row]
    BY <1>5 DEF Remove
  <2>3. product[p].status # "NONE"
    BY <1>2, <1>5, WriterType DEF ReadsHold, Remove, Writes
  <2>. HIDE DEF row
  <2>4. product'[p] = row
    BY <2>2 DEF TypeOK
  <2>5. ~contested[p] =>
          TrailComplete(p)' /\ (Published(p) => seen[p] = row.version)
    BY <1>1, <2>1, <2>4 DEF Sound, TrailComplete
  <2>. QED  BY <1>1, <1>3, <2>1, <2>2, <2>3, <2>5, VerdictKeeps DEF Sound, Published, TypeOK
<1>. QED  BY <1>4, <1>5

-----------------------------------------------------------------------------
(* The invariant *)

LEMMA ReadKeeps ==
  ASSUME IInv, NEW r \in Requests, Read(r)
  PROVE  IInv'
<1>. USE DEF IInv
<1>1. PICK kind \in Kinds, p \in Products :
        /\ Admits(kind, p)
        /\ request' = [request EXCEPT ![r] =
             [kind |-> kind, product |-> p, row |-> product[p], variants |-> variants[p],
              free |-> FreeSkus(p)]]
  BY DEF Read
<1>. DEFINE new == [kind |-> kind, product |-> p, row |-> product[p], variants |-> variants[p],
                    free |-> FreeSkus(p)]
<1>2. UNCHANGED <<product, variants, images, audit, seen, contested>>
  BY DEF Read, rowVars
<1>3. /\ new \in Request /\ new.kind = kind /\ new.product = p /\ new.row = product[p]
  BY DEF Request, TypeOK, FreeSkus
<1>4. ReadsHold(new)
  <2>1. kind # "create" => product[p].status # "NONE"
    BY <1>1 DEF Admits, Exists, AllowedTransitions
  <2>. QED  BY <1>3, <2>1 DEF ReadsHold, Sound, Published
<1>. HIDE DEF new
<1>5. /\ request' \in [Requests -> Request \cup {NULL}]
      /\ \A q \in Requests : request'[q] = IF q = r THEN new ELSE request[q]
  BY <1>1, <1>3 DEF TypeOK, new
<1>6. TypeOK'
  BY <1>2, <1>5 DEF TypeOK
<1>7. \A q \in Products : Sound(q)'
  BY <1>2 DEF Sound, Published, ApprovedOnce, TrailComplete
<1>8. RequestsHold'
  BY <1>2, <1>4, <1>5 DEF RequestsHold, ReadsHold, ApprovedOnce
<1>. QED  BY <1>6, <1>7, <1>8

LEMMA WriteKeeps ==
  ASSUME IInv, NEW r \in Requests, Write(r)
  PROVE  IInv'
<1>1. PICK p \in Products : p = request[r].product
  <2>1. \E kind \in Kinds : Writes(r, kind)
    BY DEF Write, Create, Update, AdminUpdate, UpdateStatus, Approve, Reject, Remove, Kinds,
           SellerKinds, AdminKinds
  <2>. QED  BY <2>1, WriterType DEF IInv
<1>2. Kept
  BY <1>1, CreateKeeps, UpdateKeeps, AdminUpdateKeeps, ReviewKeeps, UnauditedKeeps DEF Write
<1>. QED  BY <1>2 DEF Kept, IInv

LEMMA InitInv == Init => IInv
<1>. SUFFICES ASSUME Init PROVE IInv
  OBVIOUS
<1>1. NoProduct \in Product /\ NoProduct.status = "NONE"
      /\ Priced(NoProduct)
  BY DEF NoProduct, Product, ProductStatus, CurrentPrice, Column, Priced
<1>2. TypeOK
  BY <1>1, ReviewAssumption DEF Init, TypeOK
<1>3. \A p \in Products : Sound(p)
  BY <1>1 DEF Init, Sound, Published, TrailComplete
<1>4. RequestsHold
  BY DEF Init, RequestsHold
<1>. QED  BY <1>2, <1>3, <1>4 DEF IInv

LEMMA NextInv == IInv /\ [Next]_vars => IInv'
<1>. SUFFICES ASSUME IInv, [Next]_vars PROVE IInv'
  OBVIOUS
<1>1. ASSUME NEW r \in Requests, Fail(r)
      PROVE  IInv'
  <2>1. UNCHANGED <<product, variants, images, audit, seen, contested>> /\ Finish(r)
    BY <1>1 DEF Fail, rowVars
  <2>2. request' \in [Requests -> Request \cup {NULL}] /\ RequestsHold'
    BY <2>1, RequestsFinish DEF IInv
  <2>. QED  BY <2>1, <2>2 DEF IInv, TypeOK, Sound, Published, ApprovedOnce, TrailComplete
<1>2. CASE UNCHANGED vars
  BY <1>2 DEF vars, IInv, TypeOK, Sound, Published, ApprovedOnce, TrailComplete, RequestsHold,
              ReadsHold
<1>. QED  BY <1>1, <1>2, ReadKeeps, WriteKeeps DEF Next

-----------------------------------------------------------------------------
(* What follows *)

\* Rows, audit trails and what requests carry keep their types; in particular
\* a price computed from any edit is a whole number of paise or NULL
\* (computeCurrentPrice).
THEOREM TypeCorrect == Spec => []TypeOK
<1>1. IInv => TypeOK
  BY DEF IInv
<1>. QED  BY <1>1, InitInv, NextInv, PTL DEF Spec

\* No race of edits, reviews, removals and switches publishes a product that
\* no reviewer approved (updateStatus, approve).
THEOREM NothingUnreviewedIsPublished == Spec => []PublishedWasApproved
<1>1. IInv => PublishedWasApproved
  BY DEF IInv, Sound, ApprovedOnce, PublishedWasApproved
<1>. QED  BY <1>1, InitInv, NextInv, PTL DEF Spec

\* As long as no request wrote over a row it had not read, what is on sale is
\* what the reviewer had before him (update, approve, updateStatus).
THEOREM OnSaleIsReviewed == Spec => []PublishedIsReviewed
<1>1. IInv => PublishedIsReviewed
  BY DEF IInv, Sound, PublishedIsReviewed
<1>. QED  BY <1>1, InitInv, NextInv, PTL DEF Spec

\* As long as no request wrote over a row it had not read, the price follows
\* from the retail price and the discount, within what their columns round away
\* after it is computed (create, update, adminUpdate).
THEOREM PricesInSync == Spec => []PriceInSync
<1>1. ASSUME IInv, NEW p \in Products, ~contested[p]
      PROVE  /\ product[p].price = NULL <=> product[p].mrp = NULL
             /\ product[p].price # NULL =>
                  10 * Whole
                      * Distance(product[p].price, CurrentPrice(product[p].mrp, product[p].discount))
                    <= 15 * Whole + 5 * product[p].mrp
  <2>1. product[p] \in Product /\ Priced(product[p])
    BY <1>1 DEF IInv, TypeOK, Sound
  <2>. QED  BY <2>1, RoundingBound
<1>2. IInv => PriceInSync
  BY <1>1 DEF PriceInSync
<1>. QED  BY <1>2, InitInv, NextInv, PTL DEF Spec

\* As long as no request wrote over a row it had not read, the audit trail has
\* no gap (recordAudit).
THEOREM AuditsHaveNoGap == Spec => []AuditTrailComplete
<1>1. ASSUME IInv, NEW p \in Products, ~contested[p], NEW i \in DOMAIN audit[p]
      PROVE  LET next == IF i = Len(audit[p]) THEN product[p].status ELSE audit[p][i + 1].from
             IN  next = audit[p][i].to \/ {next, audit[p][i].to} = {"APPROVED", "INACTIVE"}
  BY <1>1 DEF IInv, Sound, TrailComplete, Follows
<1>2. IInv => AuditTrailComplete
  BY <1>1 DEF AuditTrailComplete
<1>. QED  BY <1>2, InitInv, NextInv, PTL DEF Spec

\* Whatever replaces variants while images are attached, no image points to a
\* variant that is gone (replaceVariants, replaceImages).
THEOREM ImagesStayAttached == Spec => []ImagesShowVariants
<1>1. IInv => ImagesShowVariants
  BY DEF IInv, Sound, ImagesShowVariants
<1>. QED  BY <1>1, InitInv, NextInv, PTL DEF Spec

\* What is proved of the products holds of the listings they are composed into:
\* a step of an upload is none of theirs.
THEOREM ProductsOfListings == ListingSpec => Spec
<1>1. ListingInit => Init
  BY DEF ListingInit
<1>2. [ListingNext]_listingVars => [Next]_vars
  BY DEF ListingNext, listingVars, AtMedia
<1>. QED  BY <1>1, <1>2, PTL DEF ListingSpec, Spec
=============================================================================
