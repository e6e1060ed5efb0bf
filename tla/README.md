# SpareParts: verification project

This directory holds TLA+ modules that model SpareParts, a multi-tenant spare-parts ERP (NestJS,
Prisma, PostgreSQL, with a Next.js client), the TLC configurations that check them on small
instances, and theorems about them with proofs TLAPS checks. Source references name files of the
repository; `src/` means its `src/` directory and `docs/` its documents.

## 1. The system

Every operation is an HTTP request that a Node.js process serves with a sequence of SQL
statements. Requests run concurrently, at PostgreSQL's READ COMMITTED unless a transaction asks
for more, in any number of application instances. There is no in-memory state worth a model except
the outbox processor's loop; what components share is rows.

| Component | State | Operations | Interacts by |
|---|---|---|---|
| Inventory ledger (`inventory/`) | inventory row (quantity, allocated, cost, version), ledger entries | recordTransaction, adjustStock, create, remove | called in the transactions of sales, purchasing, returns, transfers |
| Stock reservation (`warehouse/inventory-safety`) | the same rows | allocate, commit, deallocate, restock | called by orders, trips and returns |
| Orders (`orders/`) | order status and version, client balance | updateStatus, partialFulfill | reserves stock, makes the pick list; written by packing, dispatch, drivers |
| Warehouse (`warehouse/`, `mobile/`) | pick lists and items, packs | pick, scan, cancel, pack, seal | writes the order's status |
| Sales (`sales/`, `sales-extensions/`) | sale, invoice, refunds | create, refundSale, voidSale (two) | inventory, payments, customer, session |
| Payments (`payment/`) | payment rows, receipts | create | sale, invoice, session, customer |
| Cash sessions, Z-report (`cash-session/`, `z-reports/`) | session rows, one report per day | open, close, closeDay | payments read the session |
| Outbox (`shared/outbox*`) | event rows; per instance a loop | schedule, process (every 5 s) | callers' transactions; event bus |
| Dispatch (`logistics/logistics.service`, `manifest.service`) | trips, drivers, vehicles, manifests | plan, dispatch; create, list, seal, dispatch, complete | writes the order's status |
| Delivery trips (`logistics/delivery-trips`, `rtw`) | trips, stops, packs on them | plan, load, start, arrive, complete, fail, return to warehouse | orders, stock commit; serves no route yet |
| Returns (`returns/`) | returns and their refunds | initiate, approve, reject, receive, complete | stock |
| Aftercare (`logistics/returns`, `refunds`, `delivery-exceptions`, `commercial-safety`) | returns, refunds, exceptions | request, decide, refund, replace, write off | stock; no module provides these services |
| Purchasing (`purchase-orders/`, `procurement/`, `purchase-returns/`) | orders, supplier invoices, returns to suppliers | create, match, post; approve, reject, ship | ledger, accounts |
| Branch transfers (`inventory/branch-transfer`) | transfer and items | request, approve, ship, receive | ledger of two branches |
| Accounting (`accounting/`) | journal entries, periods | create, post, reverse, close; four statements | called by sales, payments |
| Disputes (`finance/`) | chargebacks, tax filings | resolve, reject; generate, file | journal |
| Quotes and prices (`sales-extensions/quote`, `sales/`) | quotes, price rules | create, send, accept, reject, convert, expire (cron) | orders |
| Substitutions (`warehouse/substitution`) | proposals | suggest, approve, reject | pick list, order line |
| Card payments (`stripe-payments/`) | Stripe payment row | create intent, confirm | payments, invoice |
| Cart and ordering (`cart/`, `orders/`, `business-clients/`) | carts, items, clients, contacts, addresses | add, change, remove, order | inventory, credit |
| Tenants and plans (`tenant-admin/`, `onboarding/`) | tenants, subscriptions, billing events, users, branches | sign up, change plan, suspend, renew (cron), Stripe's webhooks | limits asked by every creation |
| Platform (`platform-admin/`, `tenant-admin/`, `admin/`) | plans, currencies, rates, tickets, flags, settings, keys | CRUD with an audit trail | audit, outbox |
| Catalog import (`catalog/`, `scripts/`) | products, part numbers, sources | import, deduplicate | a script, run by hand |
| Idempotency middleware (`common/middleware/`) | record per key | claim, replay, store, delete | every write request |
| Web client (`frontend/`) | the cache of react-query, one tab | load, change, renew | the routes of all of the above |
| The rest | reports, documents, translation, mobile screens | CRUD and reads | - |

What is hard here, in every component, is the same: a value is read (often before the transaction
starts), a decision is made, and a write follows that may or may not ask whether the value still
stands. Some writers compare a version, some increment, some write by id. On top come retries
(`withRetry`), transactions that fail half-way, row locks taken in the order of the request's lines,
and the outbox's publish-then-mark. `PROJECT.json` lists the hazards at their lines.

What makes each component correct:

* stock: the ledger explains the row, reservations are neither lost nor released twice, a till does
  not sell what is not there, a retried request moves stock once;
* order: reserved and charged once, shipped only what was packed, terminal states are terminal;
* sale: ended once, refunded and paid only as its rows say, the customer owes what is unpaid;
* session: its expected cash is what its payments say;
* goods in motion (transfers, trips, returns): they leave one place once and arrive in one place at
  most once, whoever ships, completes, fails or receives at the same time;
* papers (supplier invoices, refunds, disputes, journal entries): what was decided by several was
  decided once, and the money follows the decision that stands;
* tenants: seats stay within the plan but for the races, a payment acknowledged was booked;
* page: after the user's own change, what is shown includes it;
* outbox: at least once, only if committed, in order, no more copies than faults explain.

## 2. Modules

| Module | Models |
|---|---|
| `InventoryStock` | one branch's inventory rows under all their writers |
| `InventoryStockProofs` | typing, both accounts of the stock, the orders' reservations, one entry per request |
| `OrderFulfilment` | one order, its pick list and its packs |
| `OrderFulfilmentProofs` | typing, one confirmation, nothing shipped unpacked |
| `EventDelivery` | what the outbox promises (abstract) |
| `Outbox` | the outbox table and its processors; implements `EventDelivery` |
| `OutboxProofs` | typing, safety, duplicates, the safety half of the refinement |
| `Till` | sales, payments, refunds, voids, sessions and the Z-report of a day |
| `TillProofs` | typing, one end per sale, refunds and payments that cover, the customer's balance |
| `Requests` | a worker, its request, what it has read: the frame of the modules below |
| `BranchTransfer` | transfers between branches beside a till; implements `GoodsInTransit` |
| `GoodsInTransit` | what a transfer promises (abstract) |
| `Purchasing` | purchase orders, supplier invoices, returns to suppliers |
| `CustomerReturns` | returns with the refund they keep, as served |
| `Quotes` | quotes, their expiry, the price engine |
| `CardPayments` | payment intents, Stripe, the rows that mirror them |
| `GeneralLedger` | journal entries, reversals, accounting periods |
| `Disputes` | chargebacks and tax filings |
| `DeliveryTrips` | trips, stops, crews, return to the warehouse |
| `Dispatching` | trips and manifests as served |
| `Substitutions` | proposals beside the picker |
| `Subscriptions` | tenants, plans, seats, Stripe's webhooks, the daily renewal |
| `Idempotency` | the middleware around one write |
| `BackOffice` | composition of the twelve components above |
| `BackOfficeProofs` | requests, the frame of the composition; its twelve components; typing of the whole |
| `SumTheorems` | sums over finite sets, for the modules that count money or goods |
| `Ordering` | carts, business clients, the creation of orders |
| `Aftercare` | returns, exceptions, refunds, replacements as the unmounted services would serve |
| `ManufacturerCatalogs`, `CatalogImport` | the curated catalogs, the importer and its deduplicator |
| `Administration` | the platform's rows with their audit trail, offboarding, languages |
| `Onboarding` | self-service signup |
| `AccountingReports` | trial balance, income statement, balance sheet, cash flow |
| `FrontOffice` | composition of the six above |
| `FrontOfficeProofs` | requests, the frame of that composition; its six components; typing of the whole |
| `WebPages` | what each page of the web client loads, changes, renews, disables |
| `Screens` | one tab: pages, the cache, calls under way, the server |
| `ScreensProofs` | own changes show, for any pages that renew what their changes concern |
| `MC_*` | the instances TLC checks |

**Steps.** A worker is one request in progress; a request a worker serves is `job[w]` and its place
`pc[w]`. A statement that reads, and the checks the code makes on the result, are one action. In
`InventoryStock` and `OrderFulfilment` each writing statement is an action too, as row locks and
the visibility of uncommitted rows matter: a transaction's writes are its own until it commits, and
another writer of the row waits. In `Till` they do not matter to what is asked, so a transaction's
writes take effect in one commit action after its reads; a conditional update is decided on the
committed row, as PostgreSQL re-evaluates it after waiting.

In the modules on `Requests`, a transaction is its commit likewise: `job[w]` is the call, `pc[w]` the
step it is at, `saw[w]` what it has read. Each operation is one definition, with a disjunct for
each of its steps: `At(w, op, step)` says which, `SeeIf` reads and checks, `Answer` ends it, and
`...Fails` is a statement that fails, so that the call ends there. `UpdateX` writes where
the version is the one read; a name in `ById` is a write that asks nothing. Clients send the calls of one of
`Batches`, each once.

**InventoryStock.** `rows` are the inventory rows, `ledger` the sums of a row's entries by effect
(sold, reserved and so on, not the entries), `own[w]` what w's open transaction has written.
`past` and `served` are history: what the ledger said when a key's last row was deleted, and the
requests that committed. `DeleteRow` takes the row and leaves the ledger, so that what the properties
compare a row with are the entries made since there is that row (`Since`). Any of the orders' calls may
be sent at any time, a cancellation twice.
`Upsert`, `ReadRow`, `WriteRow` are the statements of the loop over the lines; `Finds` is the
optimistic lock of `executeInventoryLogic`; `Conflict` its failure, `Throw` the rollback and the
retry by `withRetry` or by `recordTransaction` itself. `Waits` and `BreakDeadlock` are PostgreSQL's.
Kinds: SALE, MOVE (receipt or return), ADJUST, CREATE, REMOVE, ALLOCATE, COMMIT, DEALLOCATE,
RESTOCK. Left out: average cost, the low-stock notices, bins.

**OrderFulfilment.** `order`, `list`, `item`, `packs` are the rows; `reserved` and `charged` count
the order's reservations and charges, net; `lock` is the row lock of a status update. `STATUS` is
`updateStatus` with or without the version the client saw, `FULFIL` the partial fulfilment, `TRIP`
dispatch and driver, `LIST`, `PICK`, `SCAN`, `APPSCAN`, `NEWPACK`, `ADD`, `SEAL` the warehouse.

**Outbox.** `row` is an event's status (with the open transaction's own row as `"open"`), `copies`
how often it was emitted, `batch` and `current` a processor's loop, `now` the clock behind
`createdAt`. `Mark` splits an update into its outcome and its answer, so that a marked row may look
unmarked to the processor. `Crash` forgets a loop.

**Till.** `sales` are the sales with their invoice, `rows` and `refunds` the sums of payment and
refund rows per sale (payments that add, payments that take off, money given back, how many rows), `sessions` and `drawer` the cash sessions with their cash rows, `customer` the
one registered customer. `First` and `After` are the order of an operation's reads, which is where
the operations differ; `Commit...` are their transactions. The accounting period a manager's void
asks about, journal entries, prices and receipts are left out.

**BranchTransfer.** `transfer` rows with what was shipped and received per item, `source` and `dest` the
quantities per product, `sold` what a till takes meanwhile. Two items may name one product; a receipt
has, per item, the quantities it lists for it, none or several, of any sign, each of which is credited.
`GoodsInTransit` is its promise: `where` from the status, `left` and `came` from the quantities.

**Purchasing.** `bill` is a supplier invoice, `posted` how often it reached the accounts, `rtv` a
return to the supplier. `ReceivePurchaseOrder` has the code's guard and so never receives; orders that
the seed wrote as received stand for the receipts there are.

**CustomerReturns**, **Disputes**, **Substitutions**, **CardPayments**, **GeneralLedger**. Each keeps the rows
its service writes and, beside them, counts of effects the service causes elsewhere (`receipts`,
`restocked`, `reversed`, `filed`, `agreed`, `cardRows`). In `GeneralLedger`, whose handlers run in no transaction, each
statement is a step, and `late` marks the entries written after a closing has counted.

**Quotes.** `Applicable` are the rules that the query of `PriceEngineService` finds, with its conditions
overwriting one another; score and price follow rule by rule. `Lapses` is time, `ExpireStaleQuotes` the
hourly job.

**DeliveryTrips** and **Dispatching** model two services on the tables of trips: only the second is
mounted. They have different trips in `BackOffice`, since no deployment runs both. A driver and a vehicle are a crew. What
`dispatchTrip` writes to orders is in `OrderFulfilment`.

**Subscriptions.** `account`, `subscription`, `seats`, `granted`, and `money` (bills booked, events
acknowledged). A webhook is several statements, each a step, after any of which Stripe may deliver it again.

**Idempotency.** `record` per key; `loose` are the statements nobody waits for, executed in any order
or lost with the process; `tenantKnown` is what the middleware could tell of its caller: in the
application as wired it is always false, and the protected path is modelled as the code has it.

**Ordering.** `cart`, `book` (contacts and addresses, one of each the main one), `placed` the orders,
`rivals` the pairs of requests that met. `OptimalDepots` are the branches the code's choice may fall on.

**CatalogImport.** The script is a request that takes the parts one by one; each statement of
`importProduct` is a step, at which the part may fail or the process die. `LevenshteinDistance` fills the code's matrix.

**Administration**, **Onboarding**, **AccountingReports.** `rows` with `trail`; signups statement by statement up to
their one transaction; the statements' sums over `journal`, with `report` the last one made.

**WebPages, Screens.** A page of the web client is a record: the keys it shows with the tables their
queries read, its changes with the tables they write and the keys they renew, and the calls in progress
that disable a control. `Screens` runs one tab over those tables: it opens pages, loads (one retry), makes
changes, and what it shows is the set of changes that were applied when it was read. `cached` pages use
react-query's cache, fresh for 30 seconds (`Age` ends it); the others load when they open.
What a change owes the user splits in two: that the page renews the keys its change concerns is a fact
about the pages' records (`RenewalAssumption`, which TLC evaluates on all of them, `Forgets` and
`Ignored` naming those that do not); that a renewed key then shows the change, whatever was loading, late or
left behind meanwhile, is the behaviour of the handlers (`OwnChangesShow`).

## 3. Runs

| Run | Instance | Distinct states | Shows |
|---|---|---|---|
| `stock` | two products, two workers, six batches of requests, opening stock 2 | 72,831 | the accounts of the stock agree and every request ends |
| `stock_law01` | a sale meets a delivery of a reservation | violated | quantity and ledger part (section 7) |
| `order` | one line of 2, two workers, seven batches | 898,829 | confirmed and charged once, nothing ships unpacked |
| `order_law06` | a cancellation meets the last item packed | violated | a cancelled order comes back |
| `order_picked` | two lines, two scanners | violated | a list with every item picked stays PICKING |
| `outbox` | three events, two instances | 1,568,249 | what is published, in which order, how often |
| `outbox_delivery` | two events, two instances | 61,476 | `Outbox` implements `EventDelivery`, liveness included |
| `till` | two sales of 2 on account, a counter sale of 3, two workers, eight batches | 63,555 | a sale ends once; refunds, payments and the customer agree |
| `till_law08` | a payment meets the closing of its session | violated | the closed session lacks the payment |
| `back_office` | two workers, 157 batches of up to eight calls, each to one component | 193,668 | twelve components keep what they promise under their own races |
| `front_office` | two workers, 36 batches of up to seven calls | 426,171 | orders, refunds, imports, trails, signups and statements are what they say |
| `screens` | one tab; each change of each page beside another of it, looked for on every page that should show it | 269,562 | own changes show |

The properties, by what could go wrong:

* `AllocatedMatchesLedger`, `AllocatedIsOutstanding`: part of a reservation is lost, or part of a release
  takes effect, when allocate, commit, deallocate and restock meet sales, retries and deadlocks on one
  row. A release asked for twice counts twice: nothing in the service says otherwise (section 7).
* `VersionTellsLedger`: an absolute quantity computed from a stale read overwrites another
  request's (stated for products every writer of which uses the version; `stock_law01` shows what
  happens to the others), or two sales take the last unit. `EntersTheLedgerOnce`: a retried request enters a
  line twice, or a failed one leaves half of its lines.
* `RequestsEnd`: two requests that take their lines in opposite orders wait for each other for ever.
* `ConfirmedOnce`: a double confirmation, or a cancellation overtaken
  by a confirmation, charges a client for what is not reserved, or twice.
* `NothingShipsUnpacked`: a status request that read the order early overtakes the warehouse.
  What is asked for is an entry in a pack; that the quantities add up to the order is not (section 7).
* `OnlyCommittedPublished`, `MarkedWasPublished`: a rolled-back event is published; an event is
  marked that nobody heard of. `PublishedInOrder`: an event goes out before one that was committed in an
  earlier millisecond than it was created. `DuplicatesNeedAFault`: an event goes out more often than
  instances, crashes and database errors explain.
* `CheckedEndsOnce`: a sale is both refunded and voided by two cashiers, its stock returned twice.
  `RefundedInFull`: REFUNDED without the money returned. `PaidInvoiceCovered`: PAID with less than
  the total in the rows that add; those of negative payments are not deducted, since the service takes them
  (section 7). `CustomerOwesUnpaid`: an interleaving loses part of the balance.
* `GoodsMoveOnce`: a transfer shipped or received by two at once moves its goods twice, or brings what
  no receipt lists; it is the refinement of `GoodsInTransit`, which takes a receipt as it is: one that lists an
  item twice brings it twice (section 7). `GoodsLeaveOnce`, `TripNeverTurnsBack`: two completions of a stop
  deliver it twice, or a late planner pulls a trip back to the yard.
* `PostedOnceAsReceived`: two matches and postings of an invoice enter the accounts twice, or for
  goods nobody received. `ReturnAndRefundAgree`: an approval and a rejection, or two receipts,
  leave a refund without its return. `RefundsAreBacked`: a refund completed while its proof is
  decided otherwise, or two refunds on one proof.
* `CardPaymentsAddUp`: rival confirms leave the mirror, the payment rows and the invoice apart.
  `BooksStaySettled`: an entry reversed twice, or unposted in a closed period that had counted it.
  `AnsweredOnce`, `DispatchedOnce`, `PickedAsAgreed`: two people decide one chargeback, filing,
  trip, manifest or substitution, and both decisions take effect. `PickedAsAgreed` relates list, order
  line and proposal: the list has the substitute exactly while its proposal stands approved, the line
  exactly if that is at another price (section 7).
* `PricedForTheClient`: a client of a tier pays by another's rule, though the query lets such rules
  through. `AccountsAreKept`: seats beyond what concurrent creations explain, or a webhook that broke
  off is acknowledged without its bill. `KeyIsKept`: a handler runs twice on one claim, or a retry is
  told what never happened.
* `OnlyRivalsCollide`: an order loses or doubles what its cart had, or a client gets two main
  addresses, with nobody else at work. `ImportTellsPartsApart`: a part is passed over for another's
  sake, or the distance of two part numbers is not the least number of edits.
* `OfficeIsOnRecord`: the trail misses a change or tells one that was not made; a signup is answered
  against what is there, or leaves half a tenant; a statement's totals part from the journal.
* `OwnChangesShow`: a page shows what it held before a change the user saw succeed.

**Bounds.** They are constants of the modules or of the MC modules.

* `Batches` say which requests exist: each batch is a set of requests that touch the same rows, at
  most seven requests for an order, fewer elsewhere. Two workers are two requests in progress; all
  races the code has are between a reader that will write and one other writer, and a third request
  starts when one of the two has ended, so that sequences of requests race too.
* `OpeningStock = 2` with requests of one or two: enough to sell out, to oversell, and to reserve
  part. `Attempts` bound the retries: three for a sale (the code: 5), two for `recordTransaction`'s
  own transaction (3) and in the till (5). Smaller
  bounds let a request give up after few conflicts; nothing else depends on the number.
* `Required = 2` and picks of 1 and 2: a line can be short, split over two packs, and overpicked.
* Outbox: `Take = 2` is the code's 50, less than the number of events so that a batch leaves
  something behind; `MaxTime = 2` gives three events three times or equal ones; two faults and one
  crash are one more than a duplicate needs. Events and instances are symmetric where no liveness is
  checked.
* `back_office`, `front_office`: two requests in progress; a batch has mostly three to eight calls of one
  component, the rivals of each decision among them, and, where order matters, the calls that lead
  there. Components do not write each other's rows in these modules, so batches of two components
  would only interleave. Two parts of each catalog (one of NGK's) are imported, the import of a part being independent of
  its neighbours but through part numbers and names, which the two share or not; part numbers of up to three
  characters of two letters; nine journal entries that touch every account type, two at a time; every subset
  of six price rules.
* `screens`: the user makes `MaxCalls = 2` changes, one twice or two that meet, each call on its way at any
  speed; a third could only meet one of the two as they meet each other.
* Till: two cashiers who sell, and open and close sessions; sales of 2 and 3 can be paid and
  refunded in parts. Amounts have any sign: `refundSale` asks a positive one, `PaymentsService.create`
  does not, and two batches have payments below and of zero.

**Deadlock.** All runs but the outbox's check it: `Finished` is the
only state without a further step (`Quiet` in the compositions), so a request that waits for ever
would be reported; a user of `screens` can always open another page. The outbox really may come to rest (no event left, and a failed event is not touched again), hence
`CHECK_DEADLOCK FALSE` there.

## 4. Fairness

* `InventoryStock!FairSpec` has strong fairness of each worker's `Step`: Node runs a promise once
  its statement returned, and PostgreSQL serves the lock of a row in order, so a statement that is
  possible again and again runs. Sending is not fair: clients owe nothing. Failing statements are part
  of `Step`, so nothing forces them to succeed.
* `Outbox!FairSpec` has weak fairness of each instance's `Process`: `@Cron` calls the
  processor every five seconds for ever, and a call that is under way goes on. Neither commits of callers, nor crashes,
  nor faults are fair.

No other module states liveness: the handlers of the others neither wait nor retry, so a request ends
because its promise chain does. The jobs that run by the clock (quotes' expiry, renewals) are steps that may be
taken at any time.

## 5. Theorems

The constants are arbitrary in all of them: any number of products, workers, events, instances, sales
and rows, any batches, any bound. TLC evaluates every assumption in the runs. They say that

* the markers (`NoRow`, `NoRequest`, `Unread`, `NoCart` and so on) are none of the values they stand beside
  (`ValueAssumption`, and conjuncts such as `Unread \notin ...Row`, `NoEntry \notin Entry`);
* requests are well formed (`RequestAssumption`: the fields an operation reads, a line at least, and only one
  where it takes one; a stock movement, a pick, a packed quantity, a payment or a receipt may be negative,
  since nothing refuses it, while what is bought, returned or returned to a supplier is a natural number); bounds are naturals (`BoundAssumption`);
* pages that share a trip keep what they load the same way, and each change renews or patches the keys it
  concerns (`RenewalAssumption`; the exceptions are constants, named in `MC_Screens`);
* sets that are summed or counted are finite, namely those of intents, plans, workers and outbox
  instances, and there is a plan.

Every safety property of the passing runs is proved.
`PROJECT.json` lists the theorems with what each establishes. The arguments:

* **`InventoryStockProofs`.** `Typing` (the types, and where in a request a worker may stand) is
  inductive; the properties are not, since a step's effect on a row depends on what open
  transactions have written.
  `AllocatedMatchesLedger` needs `Reserved`: uncommitted writes of a row belong to one worker
  (`OneWriter`, the lock), who has written nothing will add nothing to the ledger, and an
  uncommitted row differs from the committed one by exactly the entry made with it
  (`OwnAheadOfLedger`).
  `VersionTellsLedger` needs that a copy with the id and version of the row has its quantity
  (`Follows`, `SeenFits`), so that a conditional write adds to what is there.
  `AllocatedIsOutstanding` relates the ledger to the requests (`Owed`): a request is sent once
  (`SentOnce`), what is pending of an item is what the lines passed so far ask for
  (`PendingIsAsked`), and the commit adds the request to `served` and moves the ledger by the
  whole of it (`LedgerIsOutstanding`). Rows that were deleted and made again are left out, as in the property.
  `EntersTheLedgerOnce` needs `Passed`: what is pending of an item is what the lines passed in this
  attempt move of it. Each rollback restarts both at nothing.
* **`OrderFulfilmentProofs`.** `Fits` says of each worker what the others cannot take from it: the
  transition it checked, the pick list and pack it relies on, and, once a confirmation that carries
  a version is in, that every other one has its check still ahead, with an older version
  (`Overtaken`). Who holds the row's lock is the only one to change the row (`OnlyMoves`), and what others
  rely on only grows (`Reliable`).
* **`OutboxProofs`.** `Inv` says of each processor's loop what the table may look like behind its
  back: `HeldIsCommitted`, `PublishedIsCommitted`, and for the order `CommittedHaveTimes` and
  `NothingSkipped` (what was committed before an event of a batch was created has been
  published or is in that batch). `DuplicatesNeedAFault` counts: the emissions of an event, its
  `Waiters` and its `Emitters` together exceed the instances by no more than the `Mishaps`, for a row
  that has left PENDING is fetched by nobody again. `ImplementsDelivery`: each step of `Outbox` is a
  step of `EventDelivery`'s safety part or a stutter.
* **`TillProofs`.** `CheckedEndsOnce` needs that the version of a sale counts its ends
  (`VersionsCountEnds`), that what a worker has read is never ahead of the row (`SeenVersions`), and
  that nothing resets the row (`SalesMadeOnce`: a sale is made once, by its own request). `RefundedInFull` and
  `PaidInvoiceCovered` need that the sums a worker has read are lower bounds of the rows
  (`SeenSums`), as rows are only ever added and those of negative payments are counted apart (`less`). `CustomerOwesUnpaid`: each commit changes at most one term
  of the sum over the sales on account, by what it changes the balance.
* **`BackOfficeProofs`.** First the frame. A step of `BackOffice` is a step of
  one component while the other eleven rest (`TransferRests` and its like: their rows unchanged, and no
  worker with one of their calls moves but by taking up a new call or dying). So each component is
  proved about by looking at its own handlers and at one step of the others. `RequestsInv` says that a
  live call has one worker and an answered one never comes back, so that rows made by a call still
  to come are not there yet.
  Per component, `...Fits` is what a worker between its reading and its writing may rely on: with a version
  column, that its copy is the row as long as the version has not moved on; without one, that what it
  found only grows (payment rows, posted entries) or that a unique index decides. `...Grows` is
  what a step may do to a row others hold copies of, and `Fits` is kept by whatever only grows.
  `GoodsMoveOnce` is a refinement: each step of the transfers, seen through `where`, `left` and
  `came`, is a step of `GoodsInTransit` or a stutter.
  What a receipt credits is the sum of its lines; `NoMoreThanLeft` is the case the goods rely on, a receipt
  that lists nothing twice and nothing negative.
  `TripNeverTurnsBack` is an action property, from the same invariant as `GoodsLeaveOnce`: a trip
  whose goods have left has a version no planner holds.
  `KeyIsKept`: from the claim of a key until a `drop` of it there is a record that answers, and a
  drop is issued only by a handler that has failed. `AccountsAreKept` counts the requests `ADD_SEAT`
  that have passed the limit and not written, and the webhooks that broke off.
  `BackOfficeTypeOK` collects the types of the twelve.
* **`FrontOfficeProofs`.** The same frame for the other composition; the lemmas on requests are repeated
  because the two compositions share names and no module extends both. No row has a version here, so a
  handler relies on what the others only add to.
  `OnlyRivalsCollide` needs `WithinAsked`: what a buyer has placed and what its cart still holds are
  together within what was asked for. A row that was read may be written as long as its number has
  not changed, and then nothing of it was ordered meanwhile, since ordering empties it (`RowAgrees`,
  `CartGrows`); an order reads the cart alone until it commits, or has met its rival (`Alone`). The second
  statement that marks an entry finds no other marked (`OnlyMain`).
  `RefundsAreBacked`: a return that is APPROVED or RECEIVED has the refund of its full value, and the
  index on the proof keeps it the only one.
  `OfficeOnRecord` joins three components. `AdministrationInv`: what a worker has read of a row is a value
  its trail tells of (`Told` only grows), so what it writes as the old value was there; a member that is
  DISABLED got there once more than it was SUSPENDED at most, and a worker about to disable one
  has a copy older than the row if another did (`MemberFits`). `OnboardingInv`: of the rows of one subdomain
  and one email the unique index keeps the first, and a signup that found them free and then fails has
  a rival that succeeded after it began (`OnboardingFits`). `ReportsInv`: the journal is a sequence of
  entries whose debits and credits are what they are; totals by account, by type and over dates are
  sums over parts of the same lines (`SumOfParts`, `SumOfDifferences`), for any journal, balanced or not.
  `PartsAreTold` needs that no two curated parts share a number (`CatalogsAssumption`, which TLC
  evaluates on the catalogs as they are in the source): then a number found is of that part, and a part
  whose number is there has a product (`ImportRows`).
  Its other half is about two words. `CellByCell` is the induction over the cells of the matrix, laid out
  by hand like that of `SumTheorems`: each cell needs those with a smaller sum of their coordinates,
  which also shows that the matrix exists and holds natural numbers.
  `EnoughEdits`: a cell stands for a word that begins as the one and ends as the other (`Mixed`), and
  going on to a cell before it is an edit or, where the letters agree, none. `NoFewerEdits`:
  an edit moves the distance by one at most (`EditMovesByOne`). Before the edited letter the matrices are
  the same, its row differs by one at most, as neighbours do (`Neighbours`), and where the letters are the same
  again the one goes on as far behind the other as it was (`RowsFollow`).
  `FrontOfficeTyped` collects the types of the six.
* **`ScreensProofs`.** `OwnChangesShow` alone is not inductive: a request answered before the change may still
  be on its way. `Good` says of any entry of the cache and any set of changes owed what they may
  rely on: with nothing loading, what is fresh or on an open page includes all that is owed (`Includes`);
  of the requests in flight, one that was answered, and is not marked late, was answered after all that is
  owed was applied (`Answers`); while a page on the cache shares a request, there is one at most. A
  success is followed through the entries it makes on its way: the key is invalidated, reloaded or
  patched, and a form's list opened (`Opened`, `Invalidated`, `Reloaded`, `Patched`, a lemma each). What a
  success adds to what is owed was applied before, and the calls not yet applied are counted (`Pending`)
  so that the server never applies more changes than were made.
* **`SumTheorems`.** The community modules' sums take elements out in an order `CHOOSE` picks. The
  lemmas say of every finite set that the sum is a number, that one element can be split off, that it
  grows with its terms. They rest on an induction over naturals on the recursive function inside
  `MapThenFoldSet` that is laid out by hand (`Climb`, over a set of naturals, where the library's
  theorem would take an operator).

Some definitions are written for the prover's sake: updates of nested rows name the whole path
(`![t].status`), `Administration.Rows` is a record, the matrix of the distance is indexed by pairs, `Quotes.Score` and `Screens.Renewed` are IF chains, and each row type stands before
the assumption that mentions it. None of it changes what a step does.

## 6. Only model-checked

* Liveness (`RequestsEnd`, the delivery promised by `KeepsPromise`) and everything with `ENABLED`,
  which TLAPS does not prove.

## 7. Where code and documents disagree

Four of these are violation runs; the others were met while modelling. `PROJECT.json` has them all
with their lines and the lines of the documents they contradict; the ones with the widest effect:

* LAW-01, quantity = sum of ledger entries: `commit` of a reservation leaves the row's version, so a
  sale that read before overwrites it (`stock_law01`).
* LAW-06, terminal states: packing's last item sets a cancelled order PROCESSING (`order_law06`); a
  refund sets a sale REFUNDED that a manager's void set VOIDED (reachable in `Till`).
* LAW-08, session balance: a payment between a close's reading and its update (`till_law08`). Two
  closes may both succeed.
* Pick lists become PICKED when all items are: not if two scanners finish together (`order_picked`).
* Outbox retries with backoff and a dead-letter store: a failed event stays FAILED.
* Single refunds are compared with the total, not their sum; `allocate` can over-allocate; an item
  can enter a sealed pack; a void leaves the customer's debit; a refund's row counts as a payment;
  cancelling a PENDING order credits a balance nobody charged.
* Nothing is protected by its idempotency key: the middleware runs before the tenant is known. A
  suspended tenant is not refused: the exception is thrown inside a try that only logs.
* No purchase order can be received, no quote converted, no second suggestion made for an item; cart
  totals are always 0; the counter lists no product; the mobile screens' calls have no routes.
* Rejecting a return to the supplier twice restores its stock twice; a repeated confirm of a card
  payment writes a second row; a payment event delivered again books another bill.
* Entries can be written into a closed period; system entries need not balance.
* The price engine's conditions overwrite those on the dates, so expired rules apply.
* Two orders of one cart, placed at once, both take its items; the credit limit is compared with a
  balance that orders do not raise.
* A row of the stock that is deleted leaves its ledger entries behind: made again for the same product, it
  parts from its ledger, LAW-01 once more. Two cancellations of one order release its stock twice.
* No `ValidationPipe` is installed, so `@Min` and the like do nothing. A negative payment is taken and leaves
  a PAID invoice uncovered; a negative quantity takes out of a pack what was packed.
* A receipt of a transfer that lists an item twice credits the destination twice.
* An approved substitute at the same price goes on the pick list, but the order keeps the original part.
* A new trip is not in the list the form leads to until the list is stale, nor do detail pages renew
  their lists: `UnrenewedKeys` and `UnrenewedPairs` in `MC_Screens` except those by name.

## 8. Not modelled, and the plan

Left out, and why:

* `Invoices and receipts`, search, statistics, dashboards, the public site: reads of rows other
  modules write. Controllers pass their arguments on; what they check of them is in the calls the instances make.
* Suppliers, customers, taxes, drivers, vehicles, accounts of the chart: one row written by id, read by
  nothing that decides. So are password resets and support interventions.
* The mobile screens, whose calls have no routes, and the counter page, which never gets beyond its
  failing list. Of the pages modelled: layout, wording, filters and formatting.
* Translation, the language interceptor, authentication tokens and hashing; the tenant filter, which is
  a condition on every query. The tenant `PLATFORM`, whose absence makes the platform's writes fail
  (section 7), is assumed present.
* Seeds and migrations, except the chart of accounts: data, run once, alone.
* Within the modelled parts: average cost, tax, bins, notices, wording, numbers that nothing compares.
* `OrderFulfilment` has one order and `Till` no card: `Stripe`'s confirmation writes payment rows too; it is in `CardPayments`,
  apart from the till's requests. Serialization failures and deadlocks are PostgreSQL's answers, modelled from how
  `withRetry` and `recordTransaction` treat them.

Next, in this order:

1. A composition of `OrderFulfilment`, `DeliveryTrips` and `InventoryStock`: an order's reservation
   is committed or released exactly once between confirmation and delivery.
2. `GeneralLedger` with `Till`, for the period a manager's void asks about, and `CardPayments` with the
   till's payments of the same sale.
3. The counter's session in two tabs, one of which holds a session that is closed.

Proofs next: the compositions above, on the invariants of their parts.
