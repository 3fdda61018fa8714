# Verification of the Teamora API

The program is a NestJS service over PostgreSQL (through Prisma): an ERP for small
manufacturers. Each HTTP request runs one handler; handlers of concurrent requests
interleave at every `await`, and meet only in the database, at READ COMMITTED (no
isolation level is set anywhere). This directory holds TLA+ modules that model its core,
TLC configurations that check them on small instances, and TLAPS proofs of what holds for
every instance.

## 1. The system

| Component | State | Operations | Hard behaviour |
|---|---|---|---|
| stock engine (`store/engines/stock.engine.ts`) | `inventory_stock` rows, `inventory_transactions` ledger | add, deduct, move | read, check, absolute write without a lock; nullable column in a unique index; opposite moves deadlock |
| document series (`company-settings/document-series.service.ts`) | the numbers of the documents themselves | next | max + 1 without a lock, on one of two connections; bounded scan |
| issues, returns, transfers (`store/issue.service.ts`) | documents and lines, material requests, serials | createIssue, createReturn, createTransfer | one transaction over many engine calls, stale pre-checks, a second connection inside a transaction |
| reservations (`store/engines/reservation.engine.ts`) | `planning_reservations`, reserved stock | create, release, consumeForIssue | checks outside the transaction; consumption that exceeds the reservations |
| picks and aging (`store/engines/fifo.engine.ts`, `aging.engine.ts`) | none (read only) | suggestBatches, analyze | ordering, partial cover, bands entered by hand |
| serials (`store/serial.service.ts`) | serial units | register, issue, dispatch | found, then updated by id, by documents of two kinds |
| goods receipt and QC (`store/grn.service.ts`, `qc/`) | receipts, items, purchase order items, batches | draft, post, createAdHoc, putaway, applyQc | double posting, double inspection, over-receipt |
| production (`production/`) | BOMs, production orders, material requests | BOM create and update, explode, orders, requests, their reservation | header and lines read by two queries, a reservation decided on stock that has moved |
| dispatch (`dispatch/`) | dispatch orders | create, ship | double shipping |
| purchasing (`purchase/`) | purchase orders | create, update | edits racing receipts |
| accounts (`accounts/`) | supplier invoices, bookings | attach, verify, book, mark booked | double booking |
| sessions (`auth/`) | refresh tokens, login attempts | login, refresh, logout, revoke | rotation without a transaction, lockout count |
| company settings and workflow (`company-settings/`, `common/workflow`) | one settings blob per company, series rows | update sections, billing patch, replace series | lost updates of a section |
| company users (`company-users/`) | users, roles | create, update, deactivate | last administrator |
| companies and templates (`companies/`) | companies, template rows | create, apply template | partial application |
| usage and AI quota (`usage/`, `ai/`) | monthly counters | assert quota, record | check then record |
| seed script (`prisma/seed.ts`) | permissions, roles, the demonstration company | upserts | runs again, beside requests, and stops anywhere |
| notifications, audit, admin, keep-warm, HTTP layer | logs, lists | | none that other parts depend on |

How they interact. A store handler (issue, receipt, QC, transfer, return, dispatch,
reservation, finished goods) checks its request with reads outside any transaction, opens
one interactive transaction, takes a number from the document series, inserts its header,
then for each line calls the stock engine on the same transaction, and commits. The stock
table and the ledger are shared by all of them; nothing locks a row before it is written.
Sessions depend on nothing but the standing of the user and the company. Settings, series,
users, roles, quotas and the seed script share the rows of one company; guards read those
afresh for every request. Production, accounts and serials meet the store in its stock rows,
its receipts and its documents.

What makes each correct: section 5.

## 2. Modules

| Module | Models | Composed of |
|---|---|---|
| `Transactions` | the set of transactions | |
| `Maps` | finite maps and sums over them | |
| `StockEngine` | add, deduct, move, under READ COMMITTED | `Transactions`, `Maps` |
| `DocumentSeries` | next, maxSeq, the unique index on numbers, the connection pool | `Transactions` |
| `PostedDocuments` | a whole posting: number, header, engine calls, commit | `StockEngine`, `DocumentSeries`, `Maps` |
| `StockLedger` | what callers are promised: one indivisible step per document | abstract |
| `Reservations` | planning reservations, issues that consume them, shipping | `StockEngine` |
| `GoodsReceipt` | receipts, drafts, putaway, inspection, edits of purchase orders | `StockEngine` |
| `AuthSessions` | login, lockout, refresh, logout, revocation | |
| `CompanyPolicy` | what is read from settings, templates, aging bands and declarations, as operators | |
| `Company` | the rows of one company, requests against them, guards | `CompanyPolicy` |
| `CompanySettings` | settings sections, billing, document series, creation from a template | `Company` |
| `CompanyUsers` | users and roles, the last administrator; quotas of the assistant, of tokens and of emails | `Company` |
| `Seed` | the seed script | `Company` |
| `Tenant` | all of these at once | `CompanySettings`, `CompanyUsers`, `Seed` |
| `Handlers` | control of a request underway, shared by the next four | `CompanyPolicy` |
| `Production` | BOMs, production orders, material requests and their reservation, FIFO and FEFO picks | `Handlers` |
| `AgingReport` | the aging of stock | `Production` |
| `Accounts` | supplier invoices, verification, purchase bookings | `Handlers` |
| `Serials` | serial units: registration, issue and dispatch | `Handlers` |
| `BackOffice` | all of these at once | `Production`, `AgingReport`, `Accounts`, `Serials` |
| `Maps_proofs` | lemmas about sums | `Maps` |
| `StockEngine_proofs`, `PostedDocuments_proofs`, `Reservations_proofs`, `GoodsReceipt_proofs`, `AuthSessions_proofs`, `Tenant_proofs`, `BackOffice_proofs` | theorems | the module of that name |
| `MCStockEngine`, `MCPostedDocuments`, `MCReservations`, `MCGoodsReceipt`, `MCAuthSessions`, `MCTenant`, `MCBackOffice` | instances for TLC | |

### StockEngine

A `Key` is company, material, batch, warehouse, location and status; a `Row` is an
`inventory_stock` row. `live`, `qty` and `ledger` are what is committed. Each transaction
has its own uncommitted writes (`dirty`, `val`, `pend`): `Visible` and `ValueSeen` say what
it reads, its own writes or else what is committed at that moment. One engine call is two
steps, as the code makes two statements with an `await` between them: `Find` (or `Refuse`,
when the check throws) and `Write` (or `UniqueViolation`). `Write` waits for `Blockers`, the
holder of the row's lock or the inserter of the same unique key; a cycle of waits is broken
by `BreakDeadlock`. `Commit` installs the writes, `Rollback` drops them. `IndexedKey` are
the keys with a location: `locationId` is nullable and NULLs are distinct in the unique
index, so other keys may get several rows, and `findFirst`, which has no order, may return
any of them. A ledger entry names its stock row as a ghost: `inventory_transactions` does not,
and no action reads it. The ledger row is written with the value the UPDATE returned; the two
statements are one step because nothing can come between them that changes either.

### DocumentSeries

A number is its sequence part. `Scan` is `next`: it reads committed numbers only, on the
shared client before the transaction opens (`"before"`: returns and transfers), on the
shared client inside it (`"second"`: issues, which hold one connection and need another), or
on the transaction (`"within"`: receipts, inspections and finished goods). It reads `ScanLimit` documents,
any of them if there are more. `Insert` waits for an uncommitted equal number
and fails (`Duplicate`) on a committed one.

### PostedDocuments

The conjunction of the two: engine calls happen between the header's insert and the commit.
`StockLedger` is the abstract specification; `Serial` maps the rows of a key to its
quantity and the committed transactions to the posted documents.

### Reservations and GoodsReceipt

Both follow the shape of the code's handlers. `Start` is everything a handler reads before
`$transaction`; what it keeps from there (`batch`, `held`, `seen`, `seenLine`) may be stale
when it is used. `OpenRequest` or `Open` begins the transaction and writes the header, which
waits until no document of its series is between header and commit (`NumberFree`): that is
`OneAtATime` of `PostedDocuments`, and a document that loses the race for its number, which
the code refuses, is taken to have come later. Lines make their engine calls with `CallWith`
and write the rows of the module (`resVal`, `newLine`, `newReceived`) inside the
transaction; `CommitRequest` or `Finish` publishes them together with the stock.

In `Reservations` an issue line takes reserved stock (`IssueReserved`), or available stock in
FIFO order (`IssueAvailable`), or is refused. Its reads and its decision are one step: what
the engine then deducts, it reads again. `Consume` is the loop over the reservations of
consumeForIssue. Material, warehouse and location are one; a material request has one line.

In `GoodsReceipt` a receipt line gets a new batch, so receipts never share stock; what they
share is the order. A receipt without an order keeps no order line, whatever its call names.
`Decide` reads the rows afresh, `Finish` waits for the receipt's row,
which a posting locks from its header on: an inspection may decide before a second posting
of the same draft commits, and write after it. Edits of the order are single statements.

### AuthSessions

A device is a cookie jar; all tabs of a browser send it. Every statement of a handler is a
step: nothing in `auth.service.ts` is in a transaction. `Respond` sets the jar, in any order
of answers, and a caller may end its own session as well as another; pruning is three
statements (`Prune`, `FindExcess`, `RevokeExcess`). `CutOff` ends a request anywhere, `Tick` passes time anywhere. The lockout reads
the newest `ScanMax` failures only, so only those are kept. `ended` and `troubled` observe:
which families were ended on purpose, and of which a request overlapped another or was lost.

### Tenant

`tenant` is the company row with its settings object, `series`, `user`, `grants` and `used`
the rows beside it. A request checks its guard, and then makes one statement per action. An
update of settings is two, a read of the object and a write of all of it, merged with the
patch; a template writes it twice, and reads it again in between (`Refreshes`). `Seed` is
the script's statements in their order, and may be cut off and run again. `missed` and
`later` observe which writes a request had not seen and which came after it; no guard reads
them. Items of a template are names, settings are flat keys; a default warehouse is one of the
company's or null. An empty list of roles makes a member (`GivenRoles`), on which the check for
the last administrator agrees; a call with a role of the platform, which is refused before it
writes, is left out. `Mix0` lists what is at work
together: the company at the start, three calls, runs of the script, days that end.

### BackOffice

`Mix0` gives each of three requests one call. In `Production` the material of a request is
reserved in stock rows, each of which is indivisible here (what a row does underneath is
`StockEngine`): `Suggest`, `FindRow` and `Reserve` decide on what an earlier step read.
A BOM is replaced by two statements of one transaction, of which the first deletes the lines
that are committed when it runs (`DeleteLines`), and read by two queries outside any. Quantities
and scrap are in units of 1/`Scale`, to which an explosion rounds (`Rounded`). A request or a
finished batch may find its number taken, and is refused. `Accounts` reads an invoice, its
receipts and its bookings by a query each, as Prisma's `include` does, and makes a booking later. `Serials` takes the units of a line one
after the other: `FindSerial` reads one and `WriteSerial` updates it by its id, whatever it
has become. `AgingReport` keeps days only; each of its four lists is cut at
`ListLimit` rows (50), any of them, because the query has no order (`Listed`). `disturbed` observes what other calls have
committed while one was underway.

Operators called a *Variant* in a comment are plausible mistakes of the code. They appear in
no specification; each breaks the property it was written for.

## 3. Runs

| Run | Shows |
|---|---|
| `MCStockEngine.cfg` | reservations, releases, transfers, receipts and shipments of one batch by three transactions, with crashes, deadlocks and unique-index conflicts |
| `MCOverdraw.cfg` | a counterexample: two shipments overdraw a batch, although the check in `deduct` refuses what exceeds the stock |
| `MCPostedDocuments.cfg` | transfers and issues under numbering, and a dispatch, with a pool of two connections |
| `MCReservations.cfg` | a reservation or a dispatch, a release, and issues of one and two lines, over two batches with stale checks, lost updates and crashes |
| `MCClaims.cfg` | a counterexample: an issue takes reserved stock that belongs to another order's reservation, which stays active |
| `MCTwoShipments.cfg` | a counterexample: an order that is shipped twice although a shipped one is refused |
| `MCGoodsReceipt.cfg` | postings of one draft, receipts of one order, inspections of one receipt, cancellation and edit of the order, in every overlap |
| `MCOverReceipt.cfg` | a counterexample: two receipts without approval exceed what was ordered |
| `MCAuthSessions.cfg` | logins, refreshes, logouts and revocations of one account that overlap, die halfway and answer out of order |
| `MCTenant.cfg` | settings, series, users, quotas and the creation of a company, edited at the same time, beside the seed script |
| `MCBackOffice.cfg` | BOMs read while they are replaced, materials reserved side by side, invoices verified and booked, serials registered, issued and dispatched, the aging report |
| `MCDoubleBooking.cfg` | a counterexample: one invoice booked twice although a booked one is refused |

Bounds. Three transactions are enough for every pairwise conflict plus a bystander and for
deadlock cycles of two; scripts have at most three engine calls, enough for two lines of
which the second reads what the first wrote. Row identities bound how many rows a key can
get (two where the index allows more than one). Quantities are at most 3 so that some pairs
of deductions fit together and some do not. `MCReservations` gives its batches 1 and 2
available units and 2 reserved ones for two reservations, so that every call fits alone and
some pairs do not; each transaction picks one of several calls, which covers their pairs and
triples. `MCGoodsReceipt` orders 3 and 1 units, delivers all of them, a part, short or
damaged, and inspects lines one by one and together. Their `Further` and `Script` contain
the engine calls the instance's requests can make. `MCPostedDocuments` posts three issues beforehand and reads two (`ScanLimit`), so that issues
may be given a number that was in use all along, while of the transfers it reads all there are.

`MCAuthSessions` has one account and one cookie jar, three tokens, of which two may be active:
a login and two rotations, or a login that revokes another. A token lives two of four moments,
a replaced one is useful in the same moment only, so both limits are crossed; time starts with
the first token, and in the third and fourth moment one request is underway at a time.
`MCTenant` has two administrators, two document types, quotas of 1 and 2 and answers smaller
and larger than them; each mix makes the calls that touch the same rows meet. `MCBackOffice`
has a yarn with a shelf life in two batches, one of them in two locations, and bolts without a
shelf life whose expiry dates run the other way; lines of 3 and 4 units need several picks;
bands are unsorted, repeated, zero, and cross the slow limit over the dead one; a list of the
report holds two of the three rows, and `Scale` is 2, so that explosions round.

Deadlock is checked in `MCBackOffice`, where `Finished` is a step of its own. Elsewhere the
check is off: the requests of an instance are finite and the system rests when all have been
answered. That nothing is stuck before is `EveryTransactionEnds` and `EveryDocumentEnds` (in
the two handler modules of the store, `EveryRequestEnds`).

Fairness. Weak fairness of the progress of each open transaction: Node runs every pending
continuation, PostgreSQL answers or breaks a deadlock, and Prisma's pool and transaction
timeouts expire. Opening a transaction and crashing are never fair.
`AuthSessions`, `Tenant` and `BackOffice` state safety only: a request may stop anywhere.

## 4. Proofs

`StockEngine_proofs` proves the inductive invariant `StockInv`: types, `RowLocks` (no row is
dirty in two transactions), `PendingCall` (what a pending write will write is not negative),
`PendingEntries` (the uncommitted entries of a transaction explain its uncommitted rows),
and with them `NonNegative` and `RowIsLastBalance`. They hold whatever is read, however
stale: the check and the write use the same read. `AtomicCalls` (`AllOrNothing`) needs
`ScriptInv`: what a transaction has not committed yet are the entries of the calls it has made,
in order, and the rest of its script is still to do. What `EntriesIn` picks out of the ledger is
a recursive function, reasoned about by `CountInduction` (`EntriesAppended`).

`PostedDocuments_proofs` proves `SeriesInv`: a computed number follows a committed one
(`FollowsOn`), the committed numbers have no gap, hence there is only one number that
follows on and is free, hence two documents of a type past their insert would have the same
number, which the index forbids (`OneAtATime`). It then joins that to the engine. If
documents that share a key are of one type (`OneTypePerKey`), two documents whose lines are
running have disjoint keys, so a pending read stays true until its write (`FreshRead`), so
every entry continues from its row's balance (`Chained`). `SerialInv` is inductive relative
to `SeriesInv` and assumes nothing of the number of transactions, rows, keys or lines. The
condition `OneTypePerKey` is necessary: `MCOverdraw.cfg` is what happens without it, and the
program does not enforce it.
`ImplementsLedger` proves the refinement `SerialLedger` under the same condition. The abstract
step is the commit. `LedgerInv` says of a document at work that there is a run of its calls,
each from the stock the one before left and every deduction covered, that starts from the
committed stock of its keys and has reached what the document sees (`HasMade`); nobody else
commits stock of these keys meanwhile (`CommitWork`), so at its commit the run is a posting
(`CommitPosts`). That the run is what `StockLedger!After` computes is by induction over the
calls (`AfterCalls`). `LostToRival` proves `TakenByRival`, of series of any length:
up to the scan limit a handler that finds its number taken lost it to another that computed the
same one and has posted since. Beyond the limit (5000 in the code) `maxSeq` may miss the highest
number, and the index refuses what it computes; `NoGaps` and `OneAtATime` hold there too, and
assume nothing of the limit.

`Reservations_proofs` proves that every behaviour of `Reservations` is one of the stock
engine (`RequestsUseEngine`), so `NonNegative` holds of it (`RequestsNeverNegative`). That and
`ResTypeOK` need `BaseInv`: the engine's invariants, and `ShapeInv`, which says at each place of
a request what its transaction is about to do and has written (`Stage`).
`IssuesAddUp` needs `IssueInv`: issues are between their header and their commit one at a time
(`IssuesTakeTurns`), so what the one underway has added to its request's line (`Adding`) is not
overtaken by another. `ReservedStockIsClaimed` needs `ClaimInv`. Its centre is `Balanced`: what
an open transaction has booked on a batch's reserved stock, plus what its calls will still book,
plus what it owes until it has written the reservation, is no more than what it has changed of
the claims; so a commit brings at least as many claims as reserved units. A release owes the
quantity its check read, which covers what the reservation still claims although an issue may
have reduced it since (`HeldEnough`): nobody makes a reservation larger or active again
(`Later`). A reservation does not exist before the request that makes it (`Unborn`), and a row
written by one transaction is not written by another (`ResLocks`). A line owes what it deducted,
and the loop of consumeForIssue takes at most that from the reservations: `LeftAfter` goes down
by what each gives, by induction along their order (`ConsumeTakes`). The constants are assumed
to be what the DTOs and the schema let through (`IsCall`, `IsReservation`), each new reservation
to have an identity of its own, the available and the reserved stock of batches to be different
rows, and what is reserved at the start to be claimed (`OpeningIsClaimed`: a database where
it is not has been edited by hand). `ClaimsAreReserved`, the converse, is a finding.

`Maps_proofs` proves what the others need of sums: that a sum is a number, over a disjoint
union the sum of the sums, that it changes by what one entry changes and grows with its
entries. A sum is a fold over a finite set, that is, a recursive function, and
`SetInduction` is the induction over it: a set of subsets of a finite set that has the empty
one, and each with one element more, has all. `CountInduction` is the same over 0..n.

`GoodsReceipt_proofs` proves that receipts and inspections use the engine
(`ReceiptsUseEngine`, `ReceiptsNeverNegative`), and `ReceiptInv`: a request is shaped as its
call asks at the place where it is, and every line comes from the one posting that made it.
With it `ClosedIsReceived` is inductive: a posting that closes an order writes the quantities
it decided on at the same commit, and an edit closes nothing. For `ReceivedNeverOverstated`, `CountInv`: the received quantity of an item, plus
what the requests underway have read of it, stays below the lines that are posted or about
to be; a stale read can only be too small, because posted lines are never removed. The
theorem assumes `ShortWithin`, no line is short of more than it counts, which the code does
not check. For `WaitsForItsLines`, `WaitInv`: inspections run one at a time from their number to their
commit (`OneInspection`), so of a receipt posted once what a transaction decides is still so
when it commits (`Decided`), and inspections that overlap cannot both leave a line pending.
For `HoldIsWhatIsLeft`, `HoldInv`: the quality hold of a line has one transaction at a time that
writes it, the posting that makes the line or the one inspection underway (`Turns`,
`Confined`); what that one sees in the hold, and what its remaining calls add to it, is what is
committed there and what its lines have changed so far (`Agreed`), so the commit moves hold and
line by the same quantity. It assumes that each line's batch has stock of its own, empty at the
start (`BatchConstants`: a posting creates the batch).

`AuthSessions_proofs` has one invariant in six parts, listed at the head of the module.
`NewestIsLive` needs `SessInv`: requests handle tokens that exist, tokens that do not exist yet
are not revoked, and a request about to revoke what it has replaced has created a newer token
of the same family, so it does not revoke the newest. `OneTokenPerQuietFamily` needs
`Quiet`: between the two writes of a rotation there are two tokens, and the request
that is between them is the only one of its family. `RefusedForCause` needs `Held` (one device
holds a session, and a replaced token only while a request is at work on it) and `Ordered`
(tokens expire in the order in which they were made); it assumes that a replaced token is kept for at least the grace
period (`GraceWithinRetention`: 30 seconds and 30 days in the code). `LoginKeepsLimit` is an
action property: a login that nothing overlapped has counted the tokens it prunes.

`Tenant_proofs` has one invariant in six parts as well. The operation of a request is known
from its place (`JobsOk`); what is stored and what was read of it is well formed (`Typed`, from
which `TenantTypeOK`). `AcknowledgedIsKept` needs `Kept`, which says the same of requests
that are not done yet, for what they have written so far, and of whoever is about to write
the settings object back: it has in hand what was written, or it missed it. `AdminRemains`
needs `AdminsOk`: a save that no other account's change overtook since its check leaves an
administrator, whoever else is checking. `SeedRestores` needs `SeedInv`: the roles the script
has passed are restored, and the current one has what was granted so far, since a role is
cleared before it is granted. Requests are assumed to be what the guards and DTOs let
through, and a company that is there at the start to have an administrator
(`TenantConstants`). For `QuotaBound`, `QuotaInv`: every cap that is stored or was read is one
that a creation, a patch or the seed script gave, or the default; what is
counted fits under a cap, with one call, email or answer for each request that was let through
and has not been charged yet. A request is charged once, and the last to be let through found
room, so the excess is that of the others. The property names the caps by where they come from,
because a stored object without one is read with the default, and caps are natural numbers
(`QuotaConstants`, the DTO's `@Min(0)`).

`BackOffice_proofs` has one invariant for each part of the office; a table of where each step
leads (`ProductionHop`, `AccountsHop`, `SerialsHop`) shows that the other parts keep it.

- `LiabilityOnce`, `BookInv`: a call about to book found no booking of its invoice, so those
  that are there now were committed while it was underway (`Found`).
- `SerialLeavesOnce`, `SerialInv`: what has left stays issued; each transaction has its row of
  stock to itself; one that takes a unit that has left meanwhile began before that
  (`TakenMeanwhile`), so it moves another row and the commit disturbed it.
- `ExplodedWhole`, `BomInv`: a BOM has one list of those it was given, or updates overlapped
  (`BomsWhole`), and an update deletes all there is, or was disturbed (`SeenWhole`). That one
  list is what `FlattenSeq` gives is by induction over the lists (`ListsFlatten`).
- `LineReservedWholly`, `RequestInv`: of the line in work, what is reserved and what is still to
  be picked are together the quantity (`Reserving`). It rests on `PicksSound`: picks that
  cover a quantity are exactly that much, because each takes what remains, and the
  last one not more.
- `PicksOldest`, `OldestInv`: of what goes before a batch in its list of picks, a request that
  nothing disturbed takes all (`TakesFirst`: what is available of it is what earlier picks
  take), and of what goes before a batch it has reserved nothing is left (`TakenFirst`). The
  list is built so because each pick takes the whole row unless it is the last
  (`SuggestionsFirst`); whoever takes from the material meanwhile, or receives a batch of it,
  has disturbed the request.
- `ReportAddsUp`, `ReportInv`: the bounds of the bands ascend, whatever the settings give, because
  the k-th number of a finite set exists for each k up to its size (`RankTaken`: ranks are an
  injection between sets of one size); so each age is within the bounds of one band
  (`BandIs`), and the sums over the bands are the sum over all (`SumParts`).
- `OfficeTypeOK`, from these and `AccInv`: what a call is about to book had been verified, and no
  invoice loses its verification.

The constants are assumed to be what the schema and the DTOs let through: calls are
of `Operations`, so that none starts halfway (`BackOfficeConstants`); lines are lists with whole
numbers, each BOM has one list at the start, stock is of known batches and not negative, and
a batch was received in the past (`ProductionConstants`); bands and limits are in whole days,
as the settings' DTO has them (`AgingConstants`); receipts are on known invoices (`AccountsConstants`); serial numbers
are available or issued (`SerialsConstants`). Quantities may be zero or negative: the code
checks them, and so do the actions.

TLC checks every invariant named here on the instance of its module; the theorems need no
bound on requests, rows, accounts, tokens or time beyond the constants' assumptions.

Every invariant and action property of the passing runs is a theorem. Only model-checked:

- `EveryTransactionEnds`, `EveryDocumentEnds`, `EveryRequestEnds`: liveness under fairness, like
  `ENABLED`, is out of the prover's reach.

## 5. Properties

- `NonNegative`, `RowIsLastBalance`, `AllOrNothing`, `EveryTransactionEnds`: what the engine
  guarantees to any caller.
- `NeverOverdrawn`: what it does not (a finding).
- `OneAtATime`, `NoGaps`, `TakenByRival`, `EveryDocumentEnds`: numbering and the pool. Nothing
  holds up a document but a rival, until a series outgrows the scan. A request is made once, so
  `EveryDocumentEnds` says that there comes a time when none is underway.
- `ReservedIsClaimed`, `IssuedAddsUp`: no stock stays reserved without a reservation, no
  issue is lost from its material request. `ClaimsAreReserved` and `ShippedOnce`, which the
  code means to give, fail (findings).
- `HoldIsWhatIsLeft`, `ReceivedNeverOverstated`, `ClosedIsReceived`, `WaitsForItsLines`: what
  receipts, inspections and orders agree on despite stale reads. `WaitsForItsLines` is
  limited to receipts posted once: a draft that two callers post at the same time can be
  approved with a line that was never inspected, when an inspection decides between the two.
  `NeverOverReceived` fails (a finding). The converse of `ReceivedNeverOverstated` fails too.
- `BalanceChain`, `OneRowPerKey`, `SerialLedger`: what numbering gives the stock of
  documents of one type.
- `NewestIsLive`, `OneTokenPerQuietFamily`, `RefusedForCause`, `LoginKeepsLimit`: whatever
  overlaps or is lost, a session nobody ended keeps its newest token; a device is refused for
  a cause; sessions do not pile up. Two refreshes at once leave two live tokens of a family:
  the second property is about families whose requests came one by one.
- `AcknowledgedIsKept`: what was answered stands until a request that had not seen it, or came
  later, writes over it. The settings object is written whole, so an update of another section
  that overlaps may be lost, a replacement of the series that is refused keeps its earlier items,
  and a creation that fails after its transaction leaves a company without series or template:
  the property says nothing of these, and nothing in the code says otherwise.
- `AdminRemains`, `QuotaBound`: how far checks that are made before the write can fail, one
  request each: two administrators who save at once can still leave a company without one.
  `SeedRestores`: the script repairs roles whatever an earlier run left.
- `LineReservedWholly`, `PicksOldest`, `ExplodedWhole`: an acknowledged request has each
  line reserved in full or not at all; from the oldest batches, if no other call moved the
  material; by one list of the BOM. A refused one may leave a part reserved, and two updates
  of a BOM at once may leave both lists of lines.
- `LiabilityOnce`, `SerialLeavesOnce`: an invoice booked twice, or a unit that left twice, had
  two requests overlap (for a unit, on different rows of stock). Without the overlap, never.
  Like `ExplodedWhole`, they do not exclude the overlap, because the code does not. `BookedOnce` without it fails (a finding).
- `ReportAddsUp`: the bands of the aging report hold all stock, each unit once, although bands
  come as entered; its lists of slow and dead stock hold what is as old as the limits say, and
  leave a row out only if they are full.

## 6. Plan

1. The reservations of `Production` as calls of the stock engine, instead of indivisible rows.
2. The workflow settings where receipts, inspections and issues read them, in place of the
   fixed approval rules of those modules.

## 7. Not modelled

Controllers, DTO validation, CSRF and cookies' attributes: they keep no state. Lists, exports,
the tracing and reporting queries: read only, and nothing is decided on them but by a person.
Master data, notifications, audit (but for the rows the lockout counts), verification mails,
the health ping: single statements that no other part depends on. Calls of the mail and model
providers: I/O, modelled by whether they answer. Amounts, labels, notes, priorities and
traceability links are data that no guard reads.
