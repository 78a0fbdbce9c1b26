# Verification of the fashion marketplace API

TLA+ models of the NestJS service in this repository (TypeORM on MySQL, Redis,
S3, BullMQ), the TLC runs that check them on small instances, and proofs that
TLAPS checks for every instance. Line numbers below are of files under
`src/modules/` unless a path says otherwise.

## 1. Inventory

| Component | State it keeps | Operations | What is hard about it | What makes it correct |
|---|---|---|---|---|
| Seller onboarding (`sellers`) | `store_information` (profile, bank, e-sign, `onboarding_status`), `seller_review_issues`, `seller_onboarding_audits`, the role | onboard, profile, agreement, bank details, e-sign, corrections | Checks outside transactions, unconditional status writes, requests lost between two writes | Status follows the published sequence; rejected exactly with something to correct; everybody can get on |
| Seller KYC (`seller-kyc`) | `kyc_verifications`, OTP logs, `seller_kyc_overrides` | PAN, GST, Aadhaar OTP and verification, review, the admin list | Provider calls of seconds between check and write, no key on documents, one status derived in two places | Tables agree on the decision; a document has one owner; the list says what the page says |
| Product boosts (`product-boost`) | orders, items, campaigns | checkout, payment webhook, listing | Transactions of several statements, snapshots against row locks, repeated webhooks, expiry | A payment buys all campaigns once; one boost per product; no deadlock |
| Products (`products`) | product, variants, images, status, audit | create, edit, delete, (in)activate, approve, reject | Every write is unconditional and decided on a row read earlier | What is published was reviewed; price and its columns, variants, images and audit stay consistent |
| Categories | tree, status, and the products under it | create, move, review, remove | Two moves close a cycle; a removal against an insert | A forest that the tree view shows completely |
| Catalog and lists | none; pages in the response cache | lists of catalogue, products, categories, sellers, staff, tickets, notifications | OFFSET pages of a table that moves | A walk misses nothing that stayed |
| Auth | the row of `users` (password, OTP, attempt count, refresh token), revoked tokens, tickets and counters in Redis | OTP, login, renewal, set and reset password, logout | Whole rows and columns written back after bcrypt and Redis | A password needs an OTP of its own; revoked stays revoked; guesses are counted |
| Staff | one membership, its audit | invite, resend, accept, status | Unconditional updates race | What the seller ordered last stands |
| Support | ticket, messages | create, reply, update | A reply against a closing | The status tells who spoke last |
| Maintenance | two `system_config` rows, one cache entry | guard, read, update | Cache-aside against update | The cache comes to agree |
| Media | upload session in Redis, multipart upload in S3 | create, sign, complete, abort | A call lost between S3 and Redis, abort against complete | No open upload without a session, no answered key without its object |
| Notifications | templates, notifications | template edits, create, read | Version counted on a row read earlier, the idempotency key | A notice repeats its template; one notice a key |
| Admin, transactions, response cache | of the above | thin controllers and wrappers | | in the modules that use them |
| Idempotency, Redis and database access, configuration, errors, logging, S3 buffers | a request hash | | | not modelled (section 7) |

How they interact: products, categories and boosts call
`SellerKycService.isSellerKycApproved` (onboarding and KYC state) before they
write; KYC calls `SellersService` for steps, corrections and decisions; boosts
lock rows of `products`; the catalog joins all of them; the maintenance guard is
in front of every route, the response cache in front of GET routes that are not exempt;
every write of more than one statement goes through `TransactionService`. Nothing
consumes the events that the services emit (`seller.kyc.reviewed`,
`product.reviewed`, `seller.staff.invited`).

## 2. Structure

| Module | Stands for | Proofs |
|---|---|---|
| `SellerOnboarding`, implementing `OnboardingWorkflow` | one seller's way to approval, statement by statement | `SellerOnboardingProofs` |
| `KycDocuments` | documents of several sellers, the admin list, visibility in the catalogue | `KycDocumentsProofs` |
| `ProductReview` | products as read, and written over | `ProductReviewProofs` |
| `ProductBoost`, implementing `BoostLedger` | checkouts and webhooks under MySQL's locks and snapshots | `ProductBoostProofs` |
| `MediaUploads` | sessions in Redis and multipart uploads at S3 | `MediaUploadsProofs` |
| `Listings` composing `ProductReview` and `MediaUploads` | what a seller makes a listing of | both proof modules, on how it relates to its parts |
| `CategoryTree` | the tree, read by read | `CategoryTreeProofs` |
| `Sessions` | one account's OTPs, passwords, sessions | `SessionsProofs` |
| `HelpDesk` composing `MaintenanceMode`, `StaffInvites`, `SupportTickets`, `NotificationInbox`, `PagedLists` | what a seller manages behind the maintenance guard, and the lists | `HelpDeskProofs` |

`RequestSlots` declares the constants that several of them share: slots for
requests in flight, and a database NULL. A module that is composed gives its names a
prefix where the other has the same (`MediaInit`, `MediaNext`, `MediaSpec`). `MC...` modules hold symmetry sets and
function-valued constants for TLC.

Common conventions. A request takes a slot, reads, and later writes; each step
is one statement, one transaction, or one call of Redis, S3 or a provider.
`Abandon`, `Fail` or their like lose a request between two steps: an error, a rollback
or the end of the process. Actions named `Begin...` hold all checks that a handler makes
before it first writes or waits.

Several services write what they decided on an older read, without a condition.
What then happens is in the models, and most properties are stated for
every behaviour. Where a property cannot survive such a write, a history variable notes
it and the property is stated for the rest; these are the exemptions,
each set only by the step that does the damage:

| Variable | Set when | Exempts |
|---|---|---|
| `ProductReview.contested[p]` | a request writes over a row or variants of p that differ from what it read | `PublishedIsReviewed`, `PriceInSync`, `AuditTrailComplete` |
| `CategoryTree.contested` | a write goes through although a row it read has changed | the four properties of the tree |
| `Sessions.upsets` | a guess writes a count over another, or a code is cleared by an answer to a row that has changed since it was read (`overtaken`); a code is answered right again (`replayed`); a token is signed twice in a second (`reissued`); a logout is lost between its writes (`halfway`) | as each property says |
| `StaffInvites.staffRaced`, `SupportTickets.ticketRaced`, `NotificationInbox.templatesRaced` | a write over a membership that was not read; a reply to a ticket closed meanwhile; a template saved over an unread edit | their properties, the last only in its first part |
| `PagedLists.upset` | a row leaves the list, or comes in between the count and the rows; the cache keeps a page that is not true any more | `WalkMissesNothing` |
| `MediaUploads.strayed`, `reput` | a session expires or is never saved; the client puts an object again behind a completion | one property each |
| `KycDocuments.contested` | a seller passes the owner check of a document another seller is verifying | `SoleOwner`, for that document |

The remaining exposure is listed under "hazards" in `PROJECT.json`, at its line.

## 3. Modules

### SellerOnboarding and OnboardingWorkflow

One seller; requests of the seller and of administrators in `Requests` slots.
`store`, `verified`, `openIssues`, `override` and `audit` are the rows; `req[r]`
is the statement request r executes next with the value it carries. A `Begin`
action reads a request up to its first write or provider call, with the guards
of the handler; each later action is one statement, or one transaction:

| Endpoint | Actions |
|---|---|
| `POST sellers/onboard` | BeginOnboard, SaveStore, AddRole |
| `POST sellers/profile` | BeginCreateProfile, FillProfile or CorrectProfile |
| `POST sellers/agreement/accept` | BeginAcceptAgreement, AcceptAgreement |
| `POST sellers/bank-details` | BeginSaveBankDetails, CorrectBank, or BankMarkRead, BankMarkCas, BankCheck, SaveBank |
| `POST sellers/esign/complete` | BeginCompleteEsign, Sign or CorrectEsign |
| `POST sellers/kyc/...` | BeginVerifyPan, BeginVerifyGst, BeginGenerateOtp, ResetOtp, SendOtp, BeginVerifyAadhaarOtp, ProviderRefuses, UpsertVerifiedKyc, KycMarkRead, KycMarkCas, KycIsOpen, KycResolve, ExpireOtp |
| review by an administrator | BeginReview, ReviewKyc, Decide |
| crash, disconnect, rollback | Abandon |

Why a transaction is one step: the callbacks lock the seller's row first or
update it, and the index on `(seller_id, status)` of the issues makes the update
of the open issues lock their range, so two corrections run one after the other,
and the count that follows sees what the first committed. Where InnoDB would
instead break a deadlock, the victim is rolled back, which is `Abandon`.

Why some reads are merged: `Correctable` reads the status and the issue in one
step, though the code reads them in two statements. Issues are open only while
the status is REJECTED (`RejectedIffOpen`, checked and proved), so the two
reads pass exactly when one at the time of the second would. `ReviewKyc` reads
the documents and the type together; documents are never withdrawn. Reads whose
order matters (`MarkRead` then `MarkCas`, `KycIsOpen` then `KycResolve`) stay apart.

`OnboardingWorkflow` is the promise: the steps in the order that
`GET sellers/onboarding/requirements` publishes, the review loop, and `Reopen`, which
the code does allow: a correction admitted before an approval may land after it
and returns the seller to the queue.

Left out: contents of the forms, log and response rows, resend limits, update
requests. Other sellers are in `KycDocuments`.

### ProductBoost

Any number of checkouts and webhooks over `Products`. MySQL is the configured
default and no isolation level is set, so transactions are REPEATABLE READ: a
locking read sees what is committed, and the first plain read fixes the view of
the later ones. Hence a checkout locks (`LockProduct`) and checks (`CheckProduct`)
product by product, carrying the view of its first check, and inserts and commits
in one step (`InsertOrder`). The webhook locks its order and decides
(`LockOrder`), then activates and commits, or fails on the unique `payment_id`
(`ActivatePaidOrder`). `RollBackCheckout` and `RollBackWebhook` are every failure.
Time is three actions: an order expires, campaigns start (their start is rounded to whole
seconds and may lie ahead), a campaign ends. `BoostLedger` is the promise: no
transactions, locks or webhooks, only orders placed, paid for with everything in
them, and turned late, and boosts that end. What it does promise of an order being
placed is the rule on the smallest product (finding 2), and it lets an order be
paid that has just turned late, as the code does. Left out: prices, targets and amounts
(a wrong amount is refused as an expired order is), listing.

### KycDocuments

Several sellers, one step of a verification after the other: `BeginVerify` checks
the onboarding step and the owner (`findByDocumentNumberAndType`), providers
answer, `FindRow` looks for a row to save into, `SavePan`, `SaveGst` or
`SaveAadhaar` writes it, then `Mark`, `IsOpen` and `Resolve` as in
`SellerOnboarding`. An Aadhaar OTP lives in `otps`; its verification looks at
neither step nor owner again. `rows` are sequences, because two saves that found
nothing insert two rows. The readers are operators: `ProfileStatus`
(`getProfile`), `DerivedStatus` (the query of the admin list), `Listed` and
`SellerShown` (the catalogue), `KycApproved`. A product of each seller is as much as the
catalogue needs; the bank details and the signature are one step, since
`SellerOnboarding` takes them apart.

### ProductReview

`Read` is the first half of every operation of `ProductsService`: the row and
the variants as `findById` returned them, with the checks of that operation. A
write applies to the row as it then is, but to what the request decided from the row it read. A product's
content is its `version` and its prices; variants are replaced as a whole, images point
to them; `seen` is the version that the last approval had read.

Prices are the numbers of the request: a retail price in tenths of a paisa, a discount in
thousandths of a percent, so that each has one decimal more than its column, which stands
for all further ones (the DTO limits none). `CurrentPrice` is computed from these, and from the
stored number where an edit leaves one out; `Column` is what the DECIMAL columns keep. Exact
halves round up, where the code's binary fractions may fall short of them.
`PriceInSync` therefore does not say that the price is the price of what is stored, which is
not so (section 5), but how far from it it can be, and that one is there
exactly if the other is.

### CategoryTree

A request to create, edit, move, review or remove, or to file a product under a
category, is a walk of reads (`parent`, then one ancestor after the other, or the
children and then the products) with a write at its end that tests nothing. `MaxHops` is
the limit of `assertNoCycle` (100). `BuildTree` is what
the tree view leaves reachable.

### Sessions

One account. A request reads the row, and writes back columns or all of it,
after bcrypt, signing or Redis. A token is the second it was signed in (it has no
id), codes and passwords are numbered. `upsets` notes what happened out of turn.
`proofs` holds the codes that were answered right, for what they allowed: a set, so that a
code answered twice is one proof.

### MediaUploads

A call is split where it awaits Redis or S3; the client puts bytes and parts while URLs
last; sessions expire. A completion looks at the object (`Head`) before it answers, and
deletes one that is not as declared. A request to S3 that the client library repeats is
one request here.

### Listings

Products carry URLs that nobody compares with uploads, so that the two parts
share nothing, and `visited` chooses one per behaviour.

### HelpDesk and its parts

The five parts share no table, so `desk` chooses one per behaviour among `Desks`:
nothing a part does can be seen in another. The messages of a ticket are a set with ids
(`NextId`, the auto-increment); a page is the set of rows whose `Rank`, the rows that
come before it in the order of the list, lies in its window. The maintenance guard can only hold a request
back; staff and tickets are explored behind it, notifications and lists without it, which
leaves them more behaviours. `PagedLists` stands for nine lists by what distinguishes
them: filter, order, which of the two queries of a page is first, and whether the response
cache keeps its pages; the reader walks page after page while rows change.

## 4. Runs

| Run | Bounds | Shows |
|---|---|---|
| `onboarding_safety` | 2 requests, 2 business types, 2 payloads, 3 sections, rejections in the first 2 cycles, 1 request lost; 878 thousand states | Six invariants, `ApprovedDetailsFrozen`, and that the code implements `OnboardingWorkflow` |
| `onboarding_live` | 2 requests, 1 type, 2 sections, 1 rejection, 1 request lost; 43 thousand states | `SellerReachesReview`, `RejectedIsResubmitted` |
| `onboarding_approval_race` | as needed | Finding 1 |
| `boost_safety` | 2 products, orders, checkouts, webhooks and payments; 823 thousand states | Five invariants, `PaidOrderFrozen`, and that the code implements `BoostLedger` |
| `boost_snapshot` | 2 products, orders and checkouts | Finding 2 |
| `listings` | 2 products, one SKU between them, 2 requests, 3 audited operations on one product and 1 on the other, a retail price and a discount with a third decimal each; 3 calls of uploads at a time and 7 in all, 1 upload of 2 parts; 516 thousand states | Nothing unreviewed is published; price, audit and images agree; `FinishedIsStored`, `OpenUploadHasSession` |
| `categories` | 3 categories, 1 product, 2 requests at a time and 3 in all, walks of up to 4 | No cycle, a complete tree, no product left behind, only reviewed categories approved |
| `sessions` | 2 requests at a time and 5 in all, 2 guesses, 2 sends, 2 seconds; 2.6 million states | Passwords need OTPs of their own, revoked tokens stay out, guesses are counted |
| `sessions_reset` | the same | Finding 3 |
| `sessions_replay` | the same | Finding 4 |
| `help_desk` | 2 requests, 4 operations on staff or tickets and 3 on notifications, 2 updates of the switch, 3 messages; tables of up to 4 rows, pages of 2, 2 changes during a walk; 777 thousand states | One invariant for each part, `NoStateComesBack`, and `MaintenanceSettles` under fairness |
| `kyc_documents` | 2 sellers, 1 document of each type, 2 requests at a time and 6 in all, which is what it takes to be listed; 830 000 states | `SoleOwner`, `ListAgrees`, `ListingEarned` |

Why two requests: each hazard here is a check of one request overtaken by the
writes of others, and those others can be served one after the other in the
second slot while the first waits. Uploads have three calls, as two completions
and an abort meet there. Three sections are one for each path a correction takes
(profile, bank details, document); two rejections let a request of the first
cycle meet the second. Two products make a basket with a first and a second
product; two orders and payments are what uniqueness is about. Three audited
operations let a product be created, approved and then edited or judged again;
the second product takes or holds the one SKU. Three categories make a chain whose
ends two moves can join, and a third request can review or remove between them. Five requests
are an OTP, its verification, a password set, and a login or reset to race it;
A retail price and a discount that
neither column holds as given are what the rounding of both takes. Two seconds separate tokens that are the same from those that are not. Three messages are
a ticket's first and two replies at once, one of which may be rolled back; three operations on
notifications are two edits that overlap and a notice between them. Six
requests take an INDIVIDUAL seller through both documents, a review
and a product, or two sellers to one document. Two pages of two rows are the least
in which a row can slip from one to the other. The proofs of section 6 remove these
bounds for the modules they cover.

Deadlock is checked in the onboarding, boost and help desk runs. `listings`,
`categories`, `sessions`, `sessions_reset`, `sessions_replay` and `kyc_documents` switch it off: their
bounds on requests let the system come to rest.

Fairness. `FairSpec` of the onboarding: the event loop serves accepted requests
(weak fairness of `Serve`). The rest is assumed of the world, and is what the endpoints cannot
give: the seller keeps submitting what is asked, and providers do not refuse
for ever. These are strong fairness, because the requests of two
slots disable each other's steps; one condition for each action that can be
repeated without getting on, so that it cannot starve the others.
`GateFairness` of the help desk: a request on its way through the guard, and an
update between its commit and the cache, get on (the event loop), and an
entry of the cache expires (the 30 seconds of its TTL). Updates may fail at each step, and
need not be made.

Every property of a passing run has a mutant: a variant of a modelled definition, as a
plausible mistake in the code would give it, under which TLC finds the property violated.
They stand next to the definition, marked "Mutant".

## 5. Findings

1. An approval can be overtaken. `SellerKycService.review` reads the required
   documents before its transaction (`seller-kyc.service.ts:768`), which then
   checks the status only. A rejected seller submits two corrections of the
   profile together: the first puts him back in the queue, an approval passes
   its document check, the second changes the business type to a company, and
   the approval goes through without a GST verification. The comment above the method says that an
   approval requires the applicable checks.
2. A basket's second product can be boosted twice. The check of a product is a
   plain read, and its view is that of the first product's check
   (`product-boost.service.ts:72`), so an order for the second product committed
   while the checkout waited for that product's lock is not seen. For
   the first product the check does hold: `LaterBasketsAvoidPending`, proved.
   Two narrower windows break the same rule, which the trace of the run does not go
   through: a payment that passed its expiry check while the order expires, and the half
   second before a campaign starts.
3. A password reset does not end every session. `login` compares the password of a
   row it read and later stores its refresh token without a condition
   (`auth.service.ts:256`); so does the renewal with the session it read
   (354-360). A reset saved in between revokes the session it finds, and the login then
   stores one opened under the old password. The comment in `resetPassword`
   (426-428) says that every existing session is logged out.
4. One OTP can be used twice. `verifyOtp` compares the code of a row it read
   (`auth.service.ts:125`) and clears it later, without a condition (137-142). Two
   verifications that read the row together are both answered with a ticket, and each ticket
   resets the password. The comment above the method (105-107) says that the OTP must not be
   replayable against the action it unlocks. `PasswordIsProved` says what does hold.

A price can be off its columns, against the comment that it is "kept in sync"
(`products/entities/product.entity.ts:71-75`). `create` and `update` compute it from the numbers of the
request (`products.service.ts:274`, 404-406), and MySQL then rounds these: a retail price of 100000 at
33.333 % stores a price of 66667.00, where the 33.33 that it stores gives 66670.00. There is no run that
shows it beside `PriceInSync`, which bounds it: one and a half paise and 0.005 % of the retail
price.

Not findings, because no line of the repository promises otherwise, but worth
knowing: a crash between `onboard`'s two writes leaves a seller who can
never get the role (a retry hits the unique key), which is why
`SellerReachesReview` starts from sellers who have it; and a late correction
returns an approved seller to the queue. Two update requests for one section may both be
stored as PENDING (`sellers.service.ts:75`); nothing reads more than the newest. The list of the catalogue is
ordered by a hash of the day and the id before anything else, so that a requested
`sortBy` has no effect (`catalog.service.ts:211`), though the request collection in
`src/postman/build-collection.js:311` offers it. The catalogue asks for three verified
types (`catalog.service.ts:22`, 49), which an approved INDIVIDUAL seller need not have:
his products are not listed, and `ListAgrees` does not speak of it. The descendants of a category
are looked for down to twenty levels, the breadcrumb up to a hundred. An approval and
a rejection of one product that overlap both succeed (the exemption `contested`). The
chunked upload to S3 and `createFromTemplate` have no caller.

## 6. Proofs

The proofs need only the assumptions on the constants that the modules declare,
and put no bound on slots, payloads, products, orders, payments, sellers, documents,
categories, tokens, messages, templates, rows of lists, uploads or parts. Each module
proves that an invariant `IInv` (in the help desk, one for each part) holds initially and is
kept by every step, one lemma per action or group of actions, and draws the
theorems from it.

Onboarding. `TypeCorrect` is inductive alone. The rest is one induction on the
conjunction of the row invariants with `InFlightIsJustified`: a correction
writes without looking at what it finds, so that it is safe depends on what was true when
it was admitted and cannot become false: once a decision exists it stays. The proof
shows for each action that the rows keep their invariants, and that
every move of the rows is `Onward`, after which what other requests rely on still
holds. `Refinement` and `ApprovedFrozen` follow from the same invariant.

Boosts. The induction adds to the properties: orders are numbered
(`OrdersNumbered`), locks are taken upwards and are exclusive (`LocksAscend`), the
smallest product of a basket stays clear from its check to the insert
(`FirstStaysClear`), and an order being activated is pending and belongs to one
webhook (`ActivatesPending`). `LaterBasketsAvoidPending` needs all four: an order
is inserted with its products locked, so nothing can be added under a
checkout's smallest product. `LockOrderPreventsDeadlock` excludes waiting
circles of every length: what a checkout waits for exceeds all it holds, and a bounded
set of products has a greatest one (from the library's well-founded minimum). It
assumes a bound on product ids, as the theorem states. `Refinement` maps every step to
the ledger: `InsertOrder` is `Place`, a successful `ActivatePaidOrder` is `Pay`, and all
that is done before them is a stutter. The step that needs the invariant is `Place`: nothing is
pending for the smallest product although that was read several statements ago
(`FirstStaysClear`).

Documents. The induction is on three facts. `OneParty`: until two sellers are at a
document together, only one of them holds it, has an OTP for it, or verifies it; a
new verification either finds none of that or makes the document contested.
`StepsEarned`: nobody is past the KYC step without PAN and Aadhaar, which every business needs,
and a section is open only behind it. `EndorsedFirst`: an approving decision and a
product come after an approval. `SoleOwner`, `ListAgrees` and `ListingEarned` follow; the
second because an INDIVIDUAL seller who waits for review has the two types that the set asks for,
so that counting two is enough, which rests on the cardinalities of the library.

Products. `Sound` says of one product what the properties say, and that its
trail begins with its creation; `ReadsHold` what a request may still rely on when
it writes: its product exists, and a row read as published was approved once. That every
write keeps `Sound` is shown once for edits, once for the writes that leave the variants.
For the price, `Sound` carries `Priced`: there are numbers that the columns are the rounding of,
and of which the price is the price, which an edit that gives only one of them keeps. How
far these can be apart (`RoundingBound`) is arithmetic on products of bounded
factors (`NearFactors`, `NearRounded`), and `PricesInSync` follows.
All five invariants of the products, and their types, are theorems of `Spec`; `ProductsOfListings`
and `UploadsOfListings` carry what is proved of the parts to the composition that the
run checks.

Uploads. What a client can reach is fenced by three facts: the call that creates an upload
is alone with it (`CreatorAlone`), whatever drops a session finds the multipart
upload closed (`ClosedBefore`), and what a completion saw of an object is still so
unless the client put it again (`LooksHold`).

Sessions. Every OTP is worth one password until one is replayed: the induction (`Balanced`)
balances the passwords set against the codes answered right, where the tickets in Redis and the
requests that hold one count as codes not yet used. A replay takes a code that is cleared already, so
that the row the request read is not the one it writes over (`ReplaysOvertake`): once a
code has been answered, the row does not have it again, and a new one is none of those
answered (`SpentKnown`). The balance counts over the slots of requests, which is why
`Requests` is assumed finite, as a server's are. While nothing happens out of turn, a revoked
token that is still stored is about to be ended by the logout that revoked it
(`RevokedLeaves`). Guesses are counted in turn
(`CountInTurn`): as long as none was overtaken, the count in the row is that of
the guesses checked against the code.

Categories. A move reads one parent after the other up to the root, and carries the rows
it has read: each leads on to the next, and the walk is at a category it has not passed,
or goes round in a circle (`Climbed`). When the move is written these rows
are as they were read, or the tree becomes contested; so what is moved does not lie above its new
parent, and no set of categories is closed under `parent` (`NoCycles`, for cycles
of every length). The code gives up after 100 hops without refusing, so `NoCycles` and
`AllAreShown`, which follows from it, are stated for at most `MaxHops` categories.
`ApprovedAsReviewed` and `NoneLeftInRemoved` need what a request knows at each of its
steps (`AllPrepared`: a removal about to be written has found the category empty, a row
about to be filed under was not removed), and that nothing lies under a category
that was never made (`ParentsMade`).

Help desk. Each part has its own invariant, and a step of the composition is a step
of the part or leaves it alone. Staff (`StaffSettled`): once the invitation was accepted or a
status ordered, it is not open any more, so an acceptance that still passes wrote over a row it had
not read. Tickets (`TicketSent`): the message of a reply that has not committed is
later than all that have, so that what the commit shows is the last word. Notifications
(`PrintedInOrder`): what templates said is kept, under versions that only grow unless
edits overlap, and a notice being made repeats one of them. Lists (`Placed`): a row that was
steady has been seen, or its rank is not below where the walk goes on; each
action that keeps it steady keeps or raises that rank.
Guard: between two updates no further request takes up a state the switch
has left, and each that holds one can put it in the cache once (`StatesDoNotComeBack`).
That is the safety core of `MaintenanceSettles`: what may spoil the cache is
used up, and the TTL does the rest; that it comes to the rest is liveness and stays with TLC.

Only model-checked: the liveness properties (`SellerReachesReview`,
`RejectedIsResubmitted`, `MaintenanceSettles`), which are out of the prover's reach, and the four
violations. Every other property of a run is a theorem. `TypeOK` is checked and proved for
`SellerOnboarding` and `ProductBoost`, and proved rather than checked for the other modules.

## 7. Not modelled

See `PROJECT.json`, "components" and the notes of "hazards".

- The idempotency interceptor only refuses a request whose hash is locked: the
  models without it have every behaviour of the system, and more.
- Update requests of onboarding (`requestKycUpdate`), which nothing processes; resend
  counters; the login history; reports that count rows; attribute filters and the layout
  of answers.
- Names, slugs and descriptions, which are one version or one edit; the rows of
  the logs of providers.
- Direct uploads of a buffer under a fresh key, which cannot meet another.
- Wrappers of Redis, MySQL, S3 and mail clients, configuration, logging,
  sanitising, documentation, and controllers that only forward: they have no
  behaviour of their own.
