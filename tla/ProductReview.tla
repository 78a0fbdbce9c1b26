---------------------------- MODULE ProductReview ----------------------------
(***************************************************************************)
(* ProductsService: a seller's products from creation to publication, the  *)
(* edits of seller and administrators, the review, and the switch between  *)
(* APPROVED and INACTIVE.                                                  *)
(*                                                                         *)
(* Every operation reads the product first and decides on what it read;    *)
(* the write, in a transaction or on its own, carries no condition, so any *)
(* number of other writes may come between the two. The read and the write *)
(* are the two steps of a request here. A request that a check turns away  *)
(* changes nothing and has no step of its own.                             *)
(*                                                                         *)
(* What a request asks for is chosen when it writes: nothing before that   *)
(* depends on it, but for the SKUs, and the request remembers which of     *)
(* those its check found free.                                             *)
(***************************************************************************)
EXTENDS Integers, Sequences, FiniteSets, RequestSlots

CONSTANTS
  Products,    \* product ids
  Skus,        \* variant SKUs
  Mrps,        \* retail prices a request may give, in tenths of a paisa, or NULL
  Discounts,   \* discounts a request may give, in thousandths of a percent, or NULL
  MaxAudits,   \* bound: audited operations on each product
  Unset        \* a field the request leaves out

\* A hundred percent, as a discount.
Whole == 100000

ASSUME ReviewAssumption ==
  /\ Mrps \subseteq Nat \cup {NULL}
  /\ Discounts \subseteq (0..Whole) \cup {NULL}
  /\ MaxAudits \in [Products -> Nat]
  /\ NULL \notin Int
  /\ Unset \notin Int \cup {NULL}
  /\ \A skus \in SUBSET Skus : Unset # skus

VARIABLES
  product,     \* the row of each product
  variants,    \* rows of product_variants, by product
  images,      \* what each image of a product shows: a variant, or the product
  audit,       \* content_audits of each product, oldest first
  seen,        \* history: the seller's version the last approval had read
  contested,   \* history: a request wrote over a row it had not read
  request      \* what each request in flight has read

rowVars == <<product, variants, images, audit, seen, contested>>

vars == <<product, variants, images, audit, seen, contested, request>>

-----------------------------------------------------------------------------
(* Rows *)

\* NONE: no product has been created under this id.
ProductStatus == {"NONE", "DRAFT", "PENDING_APPROVAL", "APPROVED", "REJECTED", "INACTIVE"}

\* The columns the properties tell apart. version stands for the content and
\* counts the edits of the seller; reason: rejection_reason is set; price, the
\* column current_price, is in paise.
Product ==
  [status : ProductStatus, version : Nat, reason : BOOLEAN, removed : BOOLEAN,
   mrp : Nat \cup {NULL}, discount : (0..Whole) \cup {NULL}, price : Nat \cup {NULL}]

NoProduct ==
  [status |-> "NONE", version |-> 0, reason |-> FALSE, removed |-> FALSE,
   mrp |-> NULL, discount |-> NULL, price |-> NULL]

\* A variant is known by its SKU and the operation that inserted it: a
\* replaced variant has another id under the same SKU.
Variant == [sku : Skus, by : Nat]

\* What an image shows: a variant, or, once that is gone, the product.
ProductImage == Variant \cup {NULL}

Audit ==
  [action : {"CREATED", "UPDATED", "APPROVED", "REJECTED"}, from : ProductStatus, to : ProductStatus]

\* Requests of sellers, and of administrators; these may remove products too.
SellerKinds == {"create", "update", "updateStatus", "remove"}

AdminKinds == {"adminUpdate", "approve", "reject"}

Kinds == SellerKinds \cup AdminKinds

\* Submitted, or saved as a draft.
SubmissionStatus == {"DRAFT", "PENDING_APPROVAL"}

CreateDto ==
  [status : SubmissionStatus, mrp : Mrps, discount : Discounts, skus : (SUBSET Skus) \ {{}}]

\* Any field may be left out, and the variants given may be none.
UpdateDto ==
  [status : SubmissionStatus, mrp : Mrps \cup {Unset}, discount : Discounts \cup {Unset},
   skus : (SUBSET Skus) \cup {Unset}]

\* row, variants: the product as it was read; free: SKUs no other product had.
Request ==
  [kind : Kinds, product : Products, row : Product, variants : SUBSET Variant, free : SUBSET Skus]

TypeOK ==
  /\ product \in [Products -> Product]
  /\ variants \in [Products -> SUBSET Variant]
  /\ images \in [Products -> SUBSET ProductImage]
  /\ audit \in [Products -> Seq(Audit)]
  /\ \A p \in Products : Len(audit[p]) <= MaxAudits[p]
  /\ seen \in [Products -> Nat]
  /\ contested \in [Products -> BOOLEAN]
  /\ request \in [Requests -> Request \cup {NULL}]

Init ==
  /\ product = [p \in Products |-> NoProduct]
  /\ variants = [p \in Products |-> {}]
  /\ images = [p \in Products |-> {}]
  /\ audit = [p \in Products |-> <<>>]
  /\ seen = [p \in Products |-> 0]
  /\ contested = [p \in Products |-> FALSE]
  /\ request = [r \in Requests |-> NULL]

Exists(p) == product[p].status # "NONE" /\ ~product[p].removed

SkusOf(p) == {v.sku : v \in variants[p]}

\* The variants of a removed product keep their SKUs.
FreeSkus(p) == {s \in Skus : \A q \in Products \ {p} : s \notin SkusOf(q)}

\* Mutant: a draft can be switched on and off as well.
TogglesFromDraft(from) ==
  CASE from = "APPROVED" -> {"INACTIVE"}
    [] from \in {"INACTIVE", "DRAFT"} -> {"APPROVED"}
    [] OTHER -> {}

\* allowedTransitions of updateStatus.
AllowedTransitions(from) ==
  CASE from = "APPROVED" -> {"INACTIVE"}
    [] from = "INACTIVE" -> {"APPROVED"}
    [] OTHER -> {}

\* What a column of two decimals, mrp or discount_percentage, keeps of a number
\* with a third one.
Column(value) == IF value = NULL THEN NULL ELSE 10 * ((value + 5) \div 10)

\* computeCurrentPrice: rounded to whole paise; an exact half is rounded up,
\* where the code's binary fractions may fall short of it.
CurrentPrice(mrp, discount) ==
  IF mrp = NULL THEN NULL
  ELSE (mrp * (Whole - (IF discount = NULL THEN 0 ELSE discount)) + 5 * Whole) \div (10 * Whole)

Given(value, default) == IF value = Unset THEN default ELSE value

-----------------------------------------------------------------------------
(* Reads *)

\* What the checks of each operation let through.
Admits(kind, p) ==
  CASE kind = "create" -> product[p].status = "NONE"
    [] kind \in {"approve", "reject"} -> Exists(p) /\ product[p].status = "PENDING_APPROVAL"
    [] kind = "updateStatus" -> Exists(p) /\ AllowedTransitions(product[p].status) # {}
    [] OTHER -> Exists(p)

\* No request is begun that the bound on audit rows keeps from writing.
WithinBound(kind, p) == kind \in {"updateStatus", "remove"} \/ Len(audit[p]) < MaxAudits[p]

Read(r) ==
  /\ request[r] = NULL
  /\ \E kind \in Kinds, p \in Products :
       /\ Admits(kind, p)
       /\ WithinBound(kind, p)
       /\ request' = [request EXCEPT ![r] =
            [kind |-> kind, product |-> p, row |-> product[p], variants |-> variants[p],
             free |-> FreeSkus(p)]]
  /\ UNCHANGED rowVars

-----------------------------------------------------------------------------
(* Writes *)

Finish(r) == request' = [request EXCEPT ![r] = NULL]

Writes(r, kind) == request[r] # NULL /\ request[r].kind = kind

\* The history variable: r writes, and the row is no longer what it read.
NoteContest(r) ==
  LET q == request[r]
  IN  contested' = [contested EXCEPT ![q.product] =
        contested[q.product] \/ product[q.product] # q.row \/ variants[q.product] # q.variants]

AuditRow(p, action, from, to) ==
  /\ Len(audit[p]) < MaxAudits[p]
  /\ audit' = [audit EXCEPT ![p] = Append(@, [action |-> action, from |-> from, to |-> to])]

\* The unique key on sku, where the transaction inserts.
SkusStillFree(p, skus) == skus \subseteq FreeSkus(p)

NewVariants(p, skus) == {[sku |-> s, by |-> Len(audit[p]) + 1] : s \in skus}

\* The id of a product is taken when the row is inserted: of two creations that
\* have chosen it here, the later one stands for none.
Create(r) ==
  LET p == request[r].product
  IN  /\ Writes(r, "create")
      /\ product[p].status = "NONE"
      /\ \E dto \in CreateDto :
           /\ dto.skus \subseteq request[r].free
           /\ SkusStillFree(p, dto.skus)
           /\ product' = [product EXCEPT ![p] =
                [NoProduct EXCEPT !.status = dto.status, !.mrp = Column(dto.mrp),
                                  !.discount = Column(dto.discount),
                                  !.price = CurrentPrice(dto.mrp, dto.discount)]]
           /\ variants' = [variants EXCEPT ![p] = NewVariants(p, dto.skus)]
           /\ images' = [images EXCEPT ![p] = NewVariants(p, dto.skus)]
           /\ AuditRow(p, "CREATED", "NONE", dto.status)
      /\ Finish(r)
      /\ UNCHANGED <<seen, contested>>

\* Mutant: the other price field is left out of the price, not read.
PricedAlone(read, dto) == CurrentPrice(Given(dto.mrp, NULL), Given(dto.discount, NULL))

\* The price after an edit: computed from the request, as it gives the numbers,
\* and for what it leaves out from the row as it was read.
EditedPrice(read, dto) ==
  CurrentPrice(Given(dto.mrp, read.mrp), Given(dto.discount, read.discount))

\* The columns an edit sets, on the row as it is now.
EditRow(now, read, dto) ==
  [now EXCEPT !.mrp = IF dto.mrp = Unset THEN @ ELSE Column(dto.mrp),
              !.discount = IF dto.discount = Unset THEN @ ELSE Column(dto.discount),
              !.price = IF dto.mrp = Unset /\ dto.discount = Unset THEN @
                        ELSE EditedPrice(read, dto)]

\* Mutant: an edit leaves the status alone.
ResubmitSilently(row, status) == [row EXCEPT !.version = @ + 1, !.reason = FALSE]

\* What an edit by the seller sets besides.
Resubmit(row, status) ==
  [row EXCEPT !.version = @ + 1, !.status = status, !.reason = FALSE]

\* Mutant: images that show a replaced variant are not detached from it.
ReplaceVariantsOnly(r, skus) ==
  LET p == request[r].product
  IN  /\ skus # Unset => skus \subseteq request[r].free /\ SkusStillFree(p, skus)
      /\ variants' = [variants EXCEPT ![p] = IF skus = Unset THEN @ ELSE NewVariants(p, skus)]
      /\ UNCHANGED images

\* Variants are replaced as a whole, then images. Images given without variants
\* show the variants that were read, and the foreign key refuses one that is
\* gone; images left out lose the variants that are replaced (ON DELETE SET
\* NULL).
ReplaceVariants(r, skus) ==
  LET p == request[r].product
      current == IF skus = Unset THEN request[r].variants ELSE NewVariants(p, skus)
  IN  /\ skus # Unset => skus \subseteq request[r].free /\ SkusStillFree(p, skus)
      /\ variants' = [variants EXCEPT ![p] = IF skus = Unset THEN @ ELSE current]
      /\ \/ images' = [images EXCEPT ![p] = IF skus = Unset \/ @ = {} THEN @ ELSE {NULL}]
         \/ \E shown \in {{}, {NULL}, current} :
              /\ shown \ {NULL} \subseteq variants'[p]
              /\ images' = [images EXCEPT ![p] = shown]

\* Any field of the product may be in the request; the audit row names the
\* status that was read.
Update(r) ==
  LET q == request[r]
      p == q.product
  IN  /\ Writes(r, "update")
      /\ \E dto \in UpdateDto :
           /\ product' = [product EXCEPT ![p] = Resubmit(EditRow(@, q.row, dto), dto.status)]
           /\ ReplaceVariants(r, dto.skus)
           /\ AuditRow(p, "UPDATED", q.row.status, dto.status)
      /\ NoteContest(r)
      /\ Finish(r)
      /\ UNCHANGED seen

\* Mutant: an administrator's edit resubmits the product too.
AdminUpdateResubmitting(r) ==
  LET q == request[r]
      p == q.product
  IN  /\ Writes(r, "adminUpdate")
      /\ \E dto \in UpdateDto :
           /\ product' = [product EXCEPT ![p] = Resubmit(EditRow(@, q.row, dto), dto.status)]
           /\ ReplaceVariants(r, dto.skus)
           /\ AuditRow(p, "UPDATED", q.row.status, q.row.status)
      /\ NoteContest(r)
      /\ Finish(r)
      /\ UNCHANGED seen

\* The same by an administrator: the status stays.
AdminUpdate(r) ==
  LET q == request[r]
      p == q.product
  IN  /\ Writes(r, "adminUpdate")
      /\ \E dto \in UpdateDto :
           /\ product' = [product EXCEPT ![p] = EditRow(@, q.row, dto)]
           /\ ReplaceVariants(r, dto.skus)
           /\ AuditRow(p, "UPDATED", q.row.status, q.row.status)
      /\ NoteContest(r)
      /\ Finish(r)
      /\ UNCHANGED seen

\* APPROVED and INACTIVE; not audited.
UpdateStatus(r) ==
  LET q == request[r]
  IN  /\ Writes(r, "updateStatus")
      /\ \E status \in AllowedTransitions(q.row.status) :
           product' = [product EXCEPT ![q.product].status = status]
      /\ NoteContest(r)
      /\ Finish(r)
      /\ UNCHANGED <<variants, images, audit, seen>>

Approve(r) ==
  LET q == request[r]
  IN  /\ Writes(r, "approve")
      /\ product' = [product EXCEPT ![q.product].status = "APPROVED", ![q.product].reason = FALSE]
      /\ AuditRow(q.product, "APPROVED", q.row.status, "APPROVED")
      /\ seen' = [seen EXCEPT ![q.product] = q.row.version]
      /\ NoteContest(r)
      /\ Finish(r)
      /\ UNCHANGED <<variants, images>>

Reject(r) ==
  LET q == request[r]
  IN  /\ Writes(r, "reject")
      /\ product' = [product EXCEPT ![q.product].status = "REJECTED", ![q.product].reason = TRUE]
      /\ AuditRow(q.product, "REJECTED", q.row.status, "REJECTED")
      /\ NoteContest(r)
      /\ Finish(r)
      /\ UNCHANGED <<variants, images, seen>>

\* softDeleteById: variants and images stay.
Remove(r) ==
  LET q == request[r]
  IN  /\ Writes(r, "remove")
      /\ product' = [product EXCEPT ![q.product].removed = TRUE]
      /\ NoteContest(r)
      /\ Finish(r)
      /\ UNCHANGED <<variants, images, audit, seen>>

\* The statement or the transaction fails, or the process ends: nothing is
\* written.
Fail(r) ==
  /\ request[r] # NULL
  /\ Finish(r)
  /\ UNCHANGED rowVars

Write(r) ==
  \/ Create(r) \/ Update(r) \/ AdminUpdate(r) \/ UpdateStatus(r)
  \/ Approve(r) \/ Reject(r) \/ Remove(r)

Next == \E r \in Requests : Read(r) \/ Write(r) \/ Fail(r)

Spec == Init /\ [][Next]_vars

-----------------------------------------------------------------------------
(* Properties. Those that exempt contested products say what holds as long  *)
(* as no request has written over a row it had not read; the others hold of *)
(* every interleaving.                                                      *)

Published(p) == product[p].status \in {"APPROVED", "INACTIVE"}

\* Nobody publishes a product that no reviewer ever approved, by whatever race
\* of edits, reviews, removals and switches: a status that goes with approval
\* has an APPROVED audit row behind it.
PublishedWasApproved ==
  \A p \in Products :
    Published(p) => \E i \in DOMAIN audit[p] : audit[p][i].action = "APPROVED"

\* What is on sale is what the seller had submitted when it was approved: every
\* edit of his goes back to review.
PublishedIsReviewed ==
  \A p \in Products : Published(p) /\ ~contested[p] => seen[p] = product[p].version

Distance(a, b) == IF a < b THEN b - a ELSE a - b

\* The price follows mrp and discountPercentage, though an edit may give only
\* one of the two; but for the rounding, which the price does not share: it is
\* computed from the numbers of the request, and the columns keep two decimals
\* of these. It is off the price of what is stored by no more than one and a
\* half paise and 0.005 % of the retail price.
PriceInSync ==
  \A p \in Products :
    ~contested[p] =>
      LET row == product[p] IN
      /\ row.price = NULL <=> row.mrp = NULL
      /\ row.price # NULL =>
           10 * Whole * Distance(row.price, CurrentPrice(row.mrp, row.discount))
             <= 15 * Whole + 5 * row.mrp

\* The audit trail tells the product's life without a gap: each row starts from
\* the status the one before left, or from its switch between APPROVED and
\* INACTIVE, which is not audited, and the last one leads to the status.
AuditTrailComplete ==
  \A p \in Products : LET trail == audit[p] IN
    ~contested[p] =>
      \A i \in DOMAIN trail :
        LET next == IF i = Len(trail) THEN product[p].status ELSE trail[i + 1].from
        IN  \/ next = trail[i].to
            \/ {next, trail[i].to} = {"APPROVED", "INACTIVE"}

\* An image shows a variant its product still has, also when the request that
\* attached it had read variants that were replaced meanwhile.
ImagesShowVariants ==
  \A p \in Products : images[p] \ {NULL} \subseteq variants[p]

=============================================================================
