# SupplyKhata back end: specifications, checks and proofs

TLA+ modules for the business core of the SupplyKhata back end (NestJS, Prisma,
MySQL 8), with TLC configurations that model-check them and TLAPS proofs.
All paths are relative to the repository, which stands under `src/`.

`PROJECT.json` is the index: components, runs, the line ranges behind every
definition, the hazards and which property watches each, theorems, findings, and for
every checked property a mutant - a plausible bug in the code - that violates it.

## 1. How the program runs, and how it is modelled

The server is one or more Node processes over one MySQL database. There are no
jobs, timers or queues: everything happens inside an HTTP request. All state
that matters is in the database, and requests interleave at every `await`.
What can go wrong therefore depends on three things that the models keep:

- **Where a request reads, and where it writes.** Many handlers read and check
  outside of `prisma.$transaction` and write later by primary key. Such a
  request is two actions, `Check...` and `Commit...`; what was read is kept in
  `pending[c]` of the *clerk* `c` who makes it, and what is written is computed
  from it. A handler that checks inside its transaction reads a snapshot
  (REPEATABLE READ, MySQL's default): `Begin...` and `Commit...`.
- **What a write sees.** `increment` and `decrement`, locking reads (`SELECT ... FOR
  UPDATE`), conditional `updateMany`, unique keys and foreign keys act on the row
  as it is at the write. Everything else is an absolute value from an earlier read.
- **Where a request can end.** A query fails, the process dies, MySQL rolls a
  deadlock's victim back: `Abort(c)`. An open transaction leaves nothing; what was
  written before it, or outside of one, stays.

The writes of one transaction are one step, except in `StockPosting`, where the
rows are locked and written one by one. Whoever makes a request is a *clerk*, a
*client* (`Accounts`, `Workspaces`) or a *desk* (`Invoices`, the back office); one
of them shows what the sequence of requests does, two what their overlap does.
Money and quantities are small whole numbers; texts, dates that no rule reads, the
audit log and mail are left out.

**Scenes.** Handlers of many parts meet in one state, and all of them at once are
more than can be enumerated. In `DeliveryRuns`, `Workspaces`, `Books` and
`BackOffice` a behaviour therefore plays one scene: the variable `scene` is chosen
from the constant `Scenes` at the start and never changes, and names the operations
that are open, their inputs, the rows to start from and the bounds. The modules
say what the code does for any scene; the MC modules list the scenes that TLC plays.

**What is set apart.** Much of this code checks outside of the transaction that
writes, and a promise can then fail for two requests that overlap. Where that is
so, the property says of which rows it speaks: `crossed` is the history of
rows that two requests handled at once (or one that broke off), `late` marks a
session that was made from an older read, `cut` a row where a
process died, `Serial` one request at a time. Everything set apart in this way is a
hazard in `PROJECT.json` with the line where the check is missing.

## 2. Inventory

| Component | State | Operations | What is hard | What makes it correct |
|---|---|---|---|---|
| Idempotency keys (`idempotency.helper.ts`) | `idempotency_keys` row per (tenant, scope, key) | `runIdempotent` around deliveries, payments, handovers, receipts, bill payments, production completion | retries race; the handler commits before its response is stored; crashes | a handler takes effect once per key; replays are faithful; keys are freed |
| Warehouse stock (`stock-lock`, `stock-apply`, `inventory.service.ts`, and every poster) | `stock_balances`, `stock_movements` | opening, adjustment, transfer, load, sale, give back | lost updates, deadlocks, missing rows, double reversal, partial postings | balance = sum of movements, never negative, a posting is all or nothing |
| Delivery runs, refill batches (`delivery-runs.service.ts`, `refill-batches.service.ts`) | run, OPENING and CLOSING rows, OUT/IN movements, batches and what is loaded from them | create, update, close; batches made, edited, removed | edits give the old load back and post a new one; the truck's content is a difference of sums | nothing is oversold; what goes out and comes back agrees with the warehouse; a closed run is final |
| Deliveries (`deliveries.service.ts`) | deliveries, containers, ledger, mirrored payment, run totals, promise | create, cancel | seven tables in step; re-checks under a snapshot | every sum is that of the deliveries that stand |
| Payments and promises (`payments.service.ts`, `promised-due.helper.ts`, `billing-due.helpers.ts`) | ledger, payments, promise to pay | create, update, remove, heal; due days and ages | payments mirrored from deliveries, edits of amounts and dates; credits settle the oldest debit | the balance is the activity; a promise ends only for its reasons; ages are those of what is unpaid |
| Planned stops (`scheduling.service.ts`) | schedule, stops, link to deliveries and orders | upsert, list (plans ahead), include, skip, fail, convert, complete, revert | claims outside of transactions, "the next stop" found by timestamps | a stop is sold once; an active schedule always has a stop ahead |
| Customer orders (`orders.service.ts`, `order-money.helper.ts`) | order, lines, ledger entries, payments, allocations, movements | create, edit, place, ship, deliver, cancel, pay, apply, refund | every request writes absolute values from an unlocked read | money, goods and ledger agree with the order's status |
| Purchasing (`purchase-orders`, `goods-receipts`) | order, lines, receipts | create, edit, send, cancel, receive | receipts race each other and edits | no line receives more than was ordered |
| Vendors and their bills (`vendors`, `vendor-bills`) | vendors, bills, payments, vendor ledger | save with an opening payable, create, from receipt, pay, void; dues, schedule, summary | payment races void; billing twice; two writes of a save | a receipt is billed once; bills, ledger and every report agree |
| Invoices (`invoices.service.ts`) | drafts, issued invoices, the workspace's sequence | generate, issue, void, remove | sums of many tables read one after the other; overlap check and sequence read, then written | an invoice closes at the balance; issued periods do not overlap; issued invoices are final |
| Reports, dashboard (`reports`, `dashboard`) | none of their own | sales by day, month, product, rider, vehicle; receivables; ledgers; yield and consumption | each reads its own tables with its own bounds of a day | they agree with one another and with the rows |
| Production, raw materials, bills of material | production orders, raw balances, versions | draft, plan, start, complete, cancel; postings; new version, retire | status checked outside of the transaction | consumption and output once; one active bill per product |
| Stock locations (`inventory.service.ts`) | locations, the default | create, update, default on demand | checks by count, names | some location can be posted to |
| Customers, containers (`customers`, `container-inventory`) | file, opening entry, can movements | save, deactivate, open, adjust, lose | checks before the write; signs of movements | file and ledger agree; every can is accounted for |
| Rider cash (handovers, expenses, collections) | handovers, expenses, visits, payments | create, edit, remove; record a visit | a balance over four tables checked before the write; three separate writes per visit | a rider never hands over more than he carries |
| Catalog (products, raw materials, vehicles, areas, packaging types) | names, cost history | create, update, delete, price | names looked up, then written; deleted rows keep mangled names | a name is one live row; the default cost is the one in force |
| Sign-in (`auth.service.ts`, strategies) | accounts, sessions, one-time tokens, attempts | login, second factor, select, switch, refresh, logout, forgot, reset, verify, change | rotation by delete and create; lockout counted before, recorded after | a token is spent once; a sign-out leaves no session |
| Users, roles, tenants, flags, guards | memberships, roles, grants, workspaces, overrides | invite, create, assign, deactivate, remove, delete; grant; onboard, status, delete; set a flag | sequences of writes undone by hand | roles belong to members; a workspace is whole or not there |
| Settings, export, audit, notifications, mail, files, HTTP layer | single rows, output | - | - | not modelled: no protocol, or output only |

**Interactions.** Stock is the meeting point: runs, orders, receipts, production
and manual postings all use the lock-then-apply helper (`StockPosting`), and the
other modules take a posting as one atomic step, which is what
`ImplementsLedger` shows. The customer's ledger is written by deliveries,
payments, orders, visits and the opening balance of his file; invoices, reports and the
dashboard read it. The promise to pay is set by deliveries and visits and
cleared by payments. A delivery completes a planned stop in its own transaction, a
conversion creates an order outside of any. A goods receipt bills itself when
vendor bills are on. Closing a workspace or a membership deletes sessions; a flag
hides permissions. `runIdempotent` wraps six controllers from outside.

## 3. The modules

| Module | Models | Notes |
|---|---|---|
| `AtMostOnce` | what an Idempotency-Key promises a client | abstract |
| `Idempotency` | `runIdempotent`, one action per await | `Faults` chooses crashes, failures after the commit, failing deletes |
| `StockLedger` | what the warehouse promises: a posting is one atomic step, balances stay non-negative | abstract |
| `StockPosting` | the transactions that post stock, row by row: lock, insert a missing row, check, write, insert the movement, commit, roll back | MySQL row locks are in the model |
| `StockPlans` | what each handler hands to the stock helper | used to choose the plans of a run |
| `CustomerAccount` | ledger, payments, promise of the customers | extended by |
| `DeliveryRuns` | runs, truck, warehouse, refill batches, containers, deliveries | composed with `CustomerAccount`: a delivery writes both |
| `PlannedStops` | schedule and stops of one customer | every await of skip, fail and convert |
| `CustomerOrders` | orders with stock, containers, ledger, allocations | `Racing` lists the pairs of requests kept apart |
| `Purchasing` | order, receipts, bills, payments, vendor ledger | `Does[c]` says what clerk `c` does |
| `Accounts` | sign-in, sessions, tokens, second factor, lockout, await by await | extended by |
| `Workspaces` | invitations, members, roles, grants, onboarding and its rollback, flags | composed with `Accounts` |
| `Calendar` | days, wall clocks and due dates | operators, compared with definitions of their own |
| `CustomerBooks` | the dated books of customers; ages, dues, statements, sales reports, dashboard | writes are one step, readers are the subject |
| `Invoices` | drafts read table by table, issued, voided, removed | extends `CustomerBooks` |
| `VendorBooks` | vendors, dated bills, dues, schedule, summary | extends `CustomerBooks` |
| `Books` | `Invoices` and `VendorBooks` under one clock | the properties of the books |
| `Requests` | a request of the back office between its read and its write | extended by the four below |
| `Factory` | locations, bills of material, production orders, stock postings and their reports | |
| `CustomerFiles` | customers' files, the fleet of cans, trips and cancellations as far as cans go | |
| `FieldCash` | handovers, expenses, visits, and the reports on them | extends `CustomerFiles` |
| `Catalog` | names, deletion and cost history of five kinds of rows | |
| `BackOffice` | `Factory`, `FieldCash` and `Catalog` together | the properties of the back office |
| `DeliveryRuns_proofs`, `CustomerOrders_proofs`, `Workspaces_proofs` | theorems about the module of that name | |
| `StopsAndBooks_proofs` | theorems about `Books` and about `PlannedStops`, whose names differ so that one module can extend both | |
| `Purchasing_proofs` | theorems about `Purchasing` and, since receipts post stock through it, `StockPosting` | |
| `BackOffice_proofs` | theorems about requests, factory and catalog of `BackOffice`, and about `Idempotency`, which wraps its handlers | |
| `FieldCash_proofs` | theorems about customers, cans and cash of `BackOffice` | extends `BackOffice_proofs` |
| `Sums_proofs` | lemmas about sums over finite sets and sequences: one element more, parts, exchange of two sums, worth of a table | used by the proofs about money and goods |
| `MC...` | the small instances that TLC checks | model values, loads, carts, plans, scenes |

How state and actions correspond to the code:

- *Idempotency*: `keyRow[k]` is the table row (`Absent`, `Pending` for a null
  `responseJson`, or the name of the request whose response is stored), `pc[r]` the
  await that request `r` stands at. `Lookup`, `Claim`, `LookupAgain`, `Run`,
  `Save` and `Release` are the helper's queries in order.
- *StockPosting*: `balance`, `rows`, `ledger` and `outs` are the committed tables;
  `draft`, `delta`, `made`, `removed` and `entered` what a transaction has written
  and not committed; `holder` the row locks. `Begin` picks the plan and reads the OUT
  rows to give back from the snapshot; the steps after it are those of
  `lockStockBalanceForUpdate` and `applyStockMovement`.
- *DeliveryRuns and CustomerAccount*: one variable per table; `BeginX` holds the
  checks of handler X, `CommitX` its writes.
- *PlannedStops*: `stops` keeps every stop ever planned, a deleted one as `GONE`;
  `mark` stands for `updatedAt`.
- *CustomerOrders*: `orders[o]` has the columns and the lines of an order;
  `ledger[o].sold` is the sum of its ORDER_SALE entries, `charged` that of all entries
  which refer to it; `payments[i].credit` is what the ledger credits for payment `i`.
- *Purchasing*: one order; `edition` counts the times its lines were replaced,
  which is how a receipt on replaced lines is told from one on the present lines.
- *Accounts and Workspaces*: `req[c]` is the request of client `c`: its operation, the
  await at which it stands and what it has read. `session[i]` is a row of
  `user_sessions`, which holds refresh tokens as well as one-time tokens; a deleted row keeps its place with
  state `"gone"`, and `from` is the row that a refresh replaced by it. Passwords
  are numbered by the times one was set, so that an old one can be told from the present one.
- *Calendar and the books*: days are numbered, an instant is half a day, and `zone` is how
  far the wall clock is ahead of UTC in halves of a day. A business date is stored at
  midnight of UTC, a posting keeps the instant of its write. The tables are
  sequences of dated rows; a draft that is being generated (`desk[k]`) keeps the sums it has
  read so far, one table at a time. `OpenDebits` is the loop of `oldestOpenDebitAt`, entry by entry; its inner loop, which
  takes a credit from the oldest debits one after the other, is given by its outcome (`Settle`).
- *The back office*: `desk[k]` is a request between its checks and its writes; `on`
  are the rows it handles. `Begin...` reads and checks, the action after it writes by id;
  handlers that do both in one transaction are one action.

## 4. What the runs check

| Run | Question | Result |
|---|---|---|
| `idempotency` | three retries of one key, one request without a key and one whose key is too long, under crashes, late failures and failing deletes | one owner per key; a second execution only after a failure reported past the commit; replays faithful; stored responses stable; every request is answered unless its own process or the owner of its key died; `AtMostOnce` implemented |
| `stock_postings` | three postings at once, two cells, all kinds of plans, opposite lock orders, a missing row | balances are their movements, never negative, OUT rows given back once, `StockLedger` implemented, every posting ends |
| `runs` | one request at a time; loads named in part; no inventory; a refill batch under one and under two clerks; two requests at once | one at a time, every sum agrees and a closed run is final; however requests cross, the warehouse is conserved, a loaded batch stays, mirrored payments and promises belong to standing deliveries, a run is counted once, a promise ends only for its reasons |
| `stops_serial` | one request at a time, cut off at any await | a stop is sold once, completed exactly while its delivery stands; the plan is kept |
| `purchasing` | all requests by one clerk, edits and receipts by another | never over-received, status and receipts agree, billed once, bills and ledger agree, void is final |
| `orders` | two requests at once, of every pair but 21 | money, allocations, ledger, goods and containers agree; orders only move forward |
| `access` | twelve scenes of two clients: tabs, forgotten passwords, sign-outs by others, invitations, removals, onboarding with failures and crashes at every await, roles and grants | a refresh token is spent once, the lockout holds up to the requests under way, a sign-out leaves no session behind, roles belong to members, a workspace is whole or leaves nothing, hidden grants survive |
| `books` | dated rows around the end of a month, in time zones east and west, every billing cycle; invoices by two requests; two vendors | due days and ages are right, reports, dashboard and invoices agree, an invoice closes at the balance, issued ones are final and do not overlap, payables agree with bills and their reports |
| `back_office` | locations, bills of material, production, files, cans, cash, visits and catalog, two requests at once | production posts once, one active bill, files and ledger agree, cans accounted for, handovers covered, names unique - for rows that no two requests handle at once |
| `orders_doc_refund` | "Only reverse ledger for payments created by Record payment on this order." | **violated**, section 7 |
| `back_office_doc_location` | "Cannot deactivate the only active stock location" | **violated** |
| `back_office_doc_cans` | "so empties RETURNS are not flipped into false DELIVERED_TO_CUSTOMER rows" | **violated** |

A property of a run is a conjunction of named parts, such as `RunsAgree` of `TotalsAreDeliveries`,
`TruckNotOversold`, `CustodyIsDeliveries`, `LoadsAgree`, `BatchesSuffice` and `BalanceIsActivity`; TLC names the one that fails.

### Which order requests may overlap

No order request locks the order. The run `orders` lets every pair of requests overlap
on the same or on different orders except the 21 pairs of `Overwriting`; each of these, added
alone, violates a property:

- place with place, charges, items or cancel; items with charges or cancel; charges with
  cancel (the same draft is priced, charged and taken out of stock from two versions);
- ship with ship, cancel or refund; deliver with deliver or refund; cancel with cancel,
  pay or apply; refund with refund, pay or apply; pay with pay or apply; apply with
  apply (status, `amountPaid` and `quantityDelivered` are absolute writes).

This is what callers must not do at once; the code itself has no guard for it. The other 57 pairs (for
instance ship with pay, deliver with pay, items with receive) are safe in the model.

### Bounds, and why they are enough

- `idempotency` (38 592 states): every hazard needs an owner, a loser and a late retry of one key, that is
  three requests; the others show the two ways past the table. Keys do not share any state.
- `stock_postings` (47 709): a lost update or a double reversal needs two postings; the third is the
  one that waits, or closes a cycle of locks. Two cells suffice for opposite orders and for a missing row.
- `runs` (1 333 739): one run, one customer, a returnable product and another one, two deliveries, two
  or three loads, three payments; two deliveries give an older and a newer promise, a third load
  an edit of an edited one. Loads name both products or one; stock is one short of the largest load; a batch holds one can or two and
  a run takes one or two.
- `stops_serial` (1 202 264): three stops (a completed one, its successor and a manual one), two deliveries.
- `orders` (910 662): a cart of the first product and one of both, the second of which is free; two orders on a stock that does
  not suffice for two of the first kind; deliveries in two steps, two
  payments, of which one can be applied to both orders; a discount of 1 or none. `orders_doc_refund`
  numbers its orders 1 and 10.
- `purchasing` (468 567): two lines, one of which costs nothing (a receipt that cannot be billed), two receipts, two
  bills, one edit after the first edition. Two receipts of one unit race for it.
- `access` (506 403): two clients, since every hazard is between a request and one other; up to three sessions (the old one, its
  successor and a competitor), two passwords, two attempts before the lockout, two workspaces, one role of the
  system and one of a workspace, one permission of the platform and one of the workspace. Scenes keep the assignment of
  roles, and the roles of an invitation, apart from the removal of the same user, and invitations apart from sign-ins: the code loses there
  (section 7). `SignInsApart` and `RolesApart` say so; they are the hypotheses of two theorems, and TLC evaluates them for these scenes.
- `books` (621 167): months of three, four, two and three days and weeks of two, so that cycles of one and two weeks and
  due days beyond the end of a month occur within ten days; three ages; two or three rows of each table, one
  on either side of a month's end; three invoices by two desks.
- `back_office` (248 771): two locations, products, raw materials and customers where a property
  compares two, else one; two requests at once; three movements, rows or names are enough for a second writer and a late reader.

The bounds stand in the guards of the actions that would exceed them: `MaxPayments`, `MaxStops`, `MaxDeliveries`, `MaxReceipts`,
`MaxBills`, `MaxTotal`, `MaxQty`, `MaxEditions`, `MaxSessions`, `MaxPassword`, `Horizon`, and the fields of a scene (`maxDeliveries`, `maxUpdates`,
`maxPayments`, `rows`, `words`, `sales`, `invoices`, `last`, `moves`, `boms`, `jobs`, `trips`, `drops`, `costs`). They only stop counters
that grow for ever. `MaxAttempts` (LOGIN_MAX_ATTEMPTS) and `AgeLimits` (7, 30 and 60 days) are parameters of the program, made small.
`CHECK_DEADLOCK FALSE` is set because requests may simply stop coming, and because the bounds stop them.
`SYMMETRY` permutes clerks or desks that may do the same; it stands in no run with a liveness property.

### Fairness

Only `idempotency` and `stock_postings` assume fairness: weak fairness of each request's (each
transaction's) steps. Node resumes a request whose awaited query has settled, MySQL answers every query, and a lock
wait ends because its holder goes on or is rolled back by deadlock detection. Starting a request is
never fair, nor is dying. `Answered` excepts requests that died and those whose key a dead request holds, which nothing frees.

## 5. What is proved

For every value of the constants that satisfies the modules' `ASSUME`s (`KeyAssumption`, `PostingAssumption`, `InputsAssumption`,
`CostAssumption`, `AccountsAssumption`, `ScenesAssumption`, `StartsAssumption`, `OfficeAssumption`, `CalendarAssumption`, `BooksAssumption`), TLAPS checks the theorems below. The assumptions give the types of
parameters, say that the sets of products, lines and cells over which the code sums are finite, and (`StartsAssumption`, `OfficeAssumption`) that a scene starts
from tables the program leaves behind; the name that a deleted row is given is the name of no other row, because its id is part of it (`MangledAssumption`). `BooksAssumption` says that the calendar goes on for as long as a scene does
and that prices are positive, `CalendarAssumption` that months are not empty; how many months there are, and how long each is, they leave open. A further hypothesis of a theorem is in
its last column: it is a discipline of the callers that the code does not enforce; sections 4 and 7 say what is lost without it.

| Theorem | States | For any number of | Provided |
|---|---|---|---|
| `BackOffice_proofs!Soundness` | `KeysSound` | requests, keys, all faults | |
| `BackOffice_proofs!ImplementsAtMostOnce` | `OnceSpec` | requests, keys, all faults | |
| `BackOffice_proofs!StoredResponseStands` | `ResponseStable` | requests, keys, all faults | |
| `Purchasing_proofs!PostingsAreSound` | `PostingsSound` | transactions, cells, documents, plans | |
| `Purchasing_proofs!PostingsAreAtomic` | `ImplementsLedger` | transactions, cells, documents, plans | |
| `DeliveryRuns_proofs!ClosedAndCountedOnce` | `CountedOnce` | clerks, runs, scenes | |
| `DeliveryRuns_proofs!WritesAlwaysStand` | `WritesStand` | clerks, runs, scenes | |
| `DeliveryRuns_proofs!RunsAlwaysAgree` | `RunsAgree` | runs, scenes, requests | one request at a time |
| `DeliveryRuns_proofs!ClosedRunsAreFinal` | `ClosedIsFinal` | runs, scenes, requests | one request at a time |
| `DeliveryRuns_proofs!PromisesAreKept` | `PromiseKept` | runs, scenes, requests | one request at a time |
| `StopsAndBooks_proofs!StopsAreSoldOnce` | `SoldOnce` | stops, days, requests, failures | one clerk |
| `StopsAndBooks_proofs!StopsAlwaysAgree` | `StopsAgree` | stops, days, requests, failures | one clerk |
| `Purchasing_proofs!NeverOverReceived` | `NotOverReceived` | clerks, lines, quantities | |
| `Purchasing_proofs!VoidStaysVoid` | `VoidIsFinal` | clerks, lines, quantities | |
| `Purchasing_proofs!PurchasesAlwaysAgree` | `PurchasesAgree` | receiving and editing clerks, lines, quantities | one clerk sends, cancels, bills, pays and voids |
| `CustomerOrders_proofs!OrdersAlwaysAgree` | `OrdersAgree` | orders, requests at once, carts, prices | no pair of `Overwriting` overlaps; no order number begins with another |
| `CustomerOrders_proofs!OrdersMoveForward` | `MovesForward` | orders, requests at once, carts, prices | the same |
| `CustomerOrders_proofs!RefundsKeepToTheirOrder` | `RefundsOwnPayments` | orders, requests at once, carts, prices | no order number begins with another |
| `Workspaces_proofs!TokenSpentOnce` | `RotatedOnce` | clients, users, workspaces, scenes | |
| `Workspaces_proofs!LockoutBounded` | `LockoutHolds` | clients, users, workspaces, scenes | |
| `Workspaces_proofs!HiddenGrantsStand` | `HiddenGrantsKept` | clients, roles, permissions, scenes | |
| `Workspaces_proofs!SignOutsHold` | `SignedOut` | clients, users, workspaces, scenes | no invitation is sent while somebody signs in (`SignInsApart`) |
| `Workspaces_proofs!RolesOfMembers` | `RolesHaveMembers` | clients, users, workspaces, roles, scenes | members are not taken away while another request gives roles (`RolesApart`) |
| `Workspaces_proofs!OnboardedWhole` | `OnboardingWhole` | clients, users, workspaces, scenes | |
| `BackOffice_proofs!StockAddsUp` | `FactoryAgrees` | desks, locations, products, raw materials, orders, scenes | |
| `BackOffice_proofs!BillsStand` | `BomsStand` | desks, products, bills, scenes | |
| `BackOffice_proofs!NamesAndCostsStand` | `CatalogStands` | desks, rows, names, days, scenes | |
| `FieldCash_proofs!CashCovered` | `HandoverCovered` | desks, riders, handovers, scenes | |
| `FieldCash_proofs!CashAddsUp` | `CashAgrees` | desks, riders, customers, days, scenes | |
| `FieldCash_proofs!OneOpeningEach` | `FilesStand` | desks, customers, scenes | |
| `FieldCash_proofs!LeavesWithNothing` | `DeactivationChecked` | desks, customers, scenes | |
| `FieldCash_proofs!CansAddUp` | `CansConserved` | desks, customers, trips, scenes | |
| `StopsAndBooks_proofs!InvoicesAreApart` | `InvoicesStand` | desks, customers, invoices, scenes | |
| `StopsAndBooks_proofs!FinalInvoices` | `IssuedIsFinal` | desks, invoices, scenes | |
| `StopsAndBooks_proofs!DraftsClose` | `ClosesAtBalance` | desks, customers, rows, days, scenes | |
| `StopsAndBooks_proofs!ReportsAgree` | `SalesAgree` | customers, products, trips, rows, days, scenes | |
| `StopsAndBooks_proofs!PayablesAreOneDebt` | `PayablesAgree` | vendors, bills, payments, days, scenes | |
| `StopsAndBooks_proofs!DueDatesAreRight` | `DueDatesRight` | cycles, intervals, months of any lengths, scenes | |
| `StopsAndBooks_proofs!AgesAreRight` | `AgeingRight` | customers, rows, age limits, cycles, scenes | |

*The arguments.* None of these properties is inductive as it stands; each proof finds the strengthening that is.

*Idempotency.* `IInv` adds to types and properties: the owner of a key has its row (`OwnerHoldsRow`), a stored response was
executed under that key (`StoredIsExecuted`), and a request that took effect and has not lost its answer still has its
row, with no other owner beside it (`ExecutedBlocksKey`). The last one is why a second execution needs a lost answer: the only
step that frees a key is the owner's own catch block. The contract `AtMostOnce` permits a second execution only after a lost
one, so that the refinement holds with all faults. A stored response is only ever written by the owner of a row that has none.

*Stock.* `TxInv(t)` is the lock discipline: a transaction that has written a balance holds its row
and its draft is the committed balance plus its own movements (`Drafted`), and what it is about to write upon is the current value
(`seen`). Two transactions cannot hold one row, so a commit changes `balance` and `ledger` by the same amount; no balance is overdrawn
because a negative value is refused under that lock. `RowInv(t)` says that an OUT row which is being given back is still in the table
and that the lock of its balance row is held, so that nobody else can be giving it back. For the refinement of `StockLedger`, `Origin`
says that the rows and movements a transaction has made so far are those of an initial part of the plan it picked, and that every OUT row it
has removed is one it set out to give back; at the commit that part is the whole plan, so the commit is one posting of the ledger, and every other
step is a stutter.

*Runs.* `RunsInv` says of the open transactions what they rely on: a run that is being created is not there yet and is created by nobody
else (its id is new), one that is being closed has been there, and what a delivery is about to insert has the columns of one.
A close adds only products that are not counted yet, because of the unique key; so it cannot overwrite what another close counted, even
though both saw the run open. `Writes` holds of any interleaving, because its parts only depend on what one commit writes
together: warehouse movements in pairs, a batch of refilled cans only grows, and a mirrored payment or a promise comes and goes with its delivery.
`Agreed` is for one request at a time: every total is the sum over standing deliveries, what a truck carries is loads less deliveries and
returns, a batch suffices for its loads, a balance is its activity; `Sees` says that what the open request has read is still so, which is exactly
what a second request would break.

*Planned stops.* `StopsInv` says, for the one clerk, what the request under way may rely on at each of its awaits (the stop it read
is as it read it, the successor it has planned is not planned a second time), next to types and the properties. A request that is cut off
leaves a state in which every part still holds: this is the content of the theorem, since skip, fail and convert write in several transactions.

*Purchasing.* `OrderInv` adds the types of the order and of what the clerks are about to write to it, and that nothing is received
before there is an order. A receipt is accepted only for lines of the present edition and within what is left under the lock; an
edit replaces lines only while no receipt refers to them. For the bills alone it is enough that they are a sequence of records with the columns
of a bill: a payment looks at the bill under its lock. `PurchasesAgree` needs more: `Told` says what the document of a bill tells of
its receipt, and `LeadsAlone` that the one clerk who writes the status absolutely has read what still stands.

*Orders.* `OrdersInv` has no clerk at its centre: it says of each pending request which columns of its order, its payment or its products it has
read that still stand, and each step of another request keeps that unless the pair is one of `Overwriting`. The proof therefore goes through
the 57 pairs that may overlap. `DistinctNumbers` is the other hypothesis: a refund finds an order's payments by the beginning of
their notes, and `orders_doc_refund` shows a refund that reverses the payment of another order when one number begins with another. *Refunds* need only that hypothesis,
whatever overlaps: `NamesInv` says that a payment names an order that is there, because the request that makes it does, and
only the commit of a refund writes credits and the status REFUNDED in one step.

*Sessions.* `AuthInv` joins the shapes of rows and requests with `RotationInv`, that a session another one came from is deleted,
that its row is never used again, and that at most one request stands between its deletion and the creation of its successor; this
is because the delete of the second tab fails on the missing row. `LockoutInv` says that the refusals on record, together with
those that are about to be recorded, stay below the limit plus the number of clients: check and record are separate, and each client can be
between them once. `GrantsShape` and `Harmless` say that what a role's editor is about to delete or insert never names a permission of the
platform, however old the difference is.

*Members and workspaces.* The other three theorems of access rest on `TypeInv`: the tables have their types, and `ReqOK` says of each
request what its operation and its place tell of its fields. A lemma per table (`UserTo`, `MemberTo`, `RolesTo`, `TenantTo`,
`RowsTo`, ...) says which steps write it and how one cell of it can move; every invariant below is then kept cell by cell,
and not action by action. *Sign-outs*: `Fine` says that a session which stands was issued for the present password and that its
user is entitled to its workspace, or that the request which took the entitlement away is about to delete his sessions
(`Kicked`), or died before (`cut`). *Roles*: `GiveOK` says that whoever is about to be given roles is a
member; it holds because only removal, deletion and the undoing of an onboarding end a membership. *Onboarding* needs no discipline:
`Flow` gives the order in which a request goes through its places, `OnboardOK` that no two requests onboard one workspace,
`EmptyOK` that a workspace that is not there has left nothing, `WorkOK` that the one being onboarded is there until it is undone, and
`CompleteOK` that a workspace nobody is at work on has its settings and its owner. This uses the foreign keys of the schema: a row for
a workspace that is gone is refused (`Stray`), its members go with it, its sessions lose it. `orphan` is a history field, which records that
an owner's account was deleted.

*The back office.* Its properties speak of rows that no two requests handled at once, so all eight proofs begin with `Exclusive`: two requests in
progress handle no common row but one in `crossed`, and `crossed` only grows. What a request has read of an uncrossed row is therefore still so when it
writes, and a property needs an invariant of the frames next to one of the tables. `CatalogTyped`, `FactoryTyped` and `FieldTyped` give their types; `FactoryCases`
and `CatalogCase` sort the steps into what they do to the tables (an invariant is kept once per kind, not once per action).

- *Factory*: `Stocked` says that stock is, cell by cell, the worth of the movements there (`Worth` sums a value per row over a table, so that appending,
  joining and replacing rows have one lemma each), which an oversold cell cannot become because every posting checks `Enough` on cells that are all
  different (`Scattered`). `Worked` says that an uncrossed order has moved what its lines and its status say, that the request at work on it will
  move the rest, and that a movement is of a production type exactly if it names an order. The reports then agree with the movements by
  exchanging two sums (`Parted`): movements sorted by order, and orders sorted by movement.
- *Bills*: `Recipes` says that a request which is about to make a bill active, or to number one, has read the only active one and the last version.
- *Catalog*: `NamesRight` says that names are unique by index, or by look-up for rows apart, and that the name which a request has looked up
  is still free, or taken by itself; `PricesRight` that the default is the newest cost in force and that no cost was dated after today.
- *Cash*: `Carried` is the balance as a worth of three tables; `Covered` says that a request which is about to write a handover has room for it.
  `CashAgrees` exchanges sums again: deliveries and handovers by day, deliveries by run, visits by collector. For visits, the invariant ties each payment
  to the visit that is about to record it, or has.
- *Files and cans*: an uncrossed customer's opening entry is the one his request has seen, with the amount of his file; `LeavesWithNothing` follows since what
  `CanDeactivate` looked at is his own. The count of cans is one number that every movement, load, delivery, close and adjustment moves on both sides by the same amount;
  only a cancelled return does not, and that is the finding of section 7.

*The books.* `BooksKept` consists of types (`BooksTyped`, `VendorTyped`) and of five invariants. `Timed` says that the rows of the ledger are in the order
of their instants. `SalesBooked` relates ledger and documents: each sale, whether it still stands or not, has exactly one entry
under its document, for its customer and its amount, and each entry of a sale has its sale; what reverses it is an adjustment. `DeskKept` is about the
requests at invoices: two on one invoice cross it (`Alone`), one alone finds it as it saw it (`Current`), and while nothing is crossed what
a request to issue has read of the sequence and of the overlap is still so (`Numbered`, `Issuable`). `VendorAgrees` says that the
vendor ledger owes each vendor what his bills leave unpaid. `DeskShows` is about drafts:

- *Drafts*: `DeskShows` says of a draft under way which ledger each sum it holds was read from, and that its sales are those of the moment it
  was begun unless the ledger has grown since; so the closing of a draft that saw one ledger is a sum over that ledger alone. The rest is
  arithmetic of sums: the balance of the day after the period is the balance of the first day and the entries between, and these
  bill what the lines bill, since sales and their entries are in bijection on a plain period.
- *Reports*: each equality regroups one sum over rows by a key they have: day, product, rider, vehicle or customer (`SalesByKey` and the lemmas after it).
  The invoices come in at last, because their lines are the same rows for every customer when the bounds of a day do not fall to the day before.
- *Due dates*: for weeks, the due days are the anchor and every interval after it, and the remainder finds the one before and the one ahead. For
  months, `MonthsFollow`, `MonthsApart` and `MonthIs` say that each day is in one month; a month has one due day; and the due
  day ahead is that of today's month, or of the next one if that has passed. That a clock never leaves the calendar is part of `BooksTyped`.
- *Ages*: `Owed` is an invariant of the loop over the ledger, not of the steps. After n rows the open debits hold at least what the customer owes; if he was
  never in credit they hold just that, and for every sum t the debit at which the open debits pass t was entered by the row at which his charges pass his credits
  and t. A credit only moves t (`SettledAt`), a debit adds the last one (`RowOfDebit`); t = 0 after the last row is the property. The induction runs along the
  indices of a recursive function, by its least counterexample. `Timed` turns "the debit was entered by the due date" into "what was owed by then is not all credited".

*Sums.* Money and goods are sums over finite sets, rows of a table or products. `Sums_proofs` shows by well-founded induction
over finite sets that the sum of a function over a set with one more element is the old one plus its value there, and what follows for
one changed value, disjoint parts, pointwise equal functions and bounds. Models that are proved about write `SumFunction`
and `SumFunctionOnSet`; operators that take an operator (`MapThenSumSet`) are beyond the provers.

Only model-checked: all liveness (`Answered` of `idempotency`, `EveryPostingEnds` of `stock_postings`), because fairness and ENABLED are beyond the proof system.
The three runs that expect a violation (section 7) show counterexamples.

## 6. Not modelled

Each component that is left out is in `PROJECT.json` with its reason. Settings, notifications, files and the audit log are
single writes without a protocol, mail and exports are output; the HTTP layer keeps no state.
Inside the modelled components these are left out:

- runs: the shared can pool per packaging type of a truck, the change of a run's rider, unit conversions; a refill batch's product can be
  changed in the code, not in the model;
- orders: the timeline and line discounts; planned stops: dates and items;
- customers in `CustomerBooks` are active and made no promise, and orders there are paid in full; the age that `reports.service.ts:1604` computes
  by itself for the list of outstanding customers is left out (it is not the age that payments compute);
- calendar: daylight saving, quantities, packs and pages;
- back office: the check that a collector is assigned to the customer, legacy rows of products, feature flags, low-stock alerts;
- access: names, mails and listings, profiles, and hashing: a password or code is right or wrong.

MySQL's gap locks are left out, which allows more interleavings than there are.

## 7. Findings

1. **Another order's payment reversed** (`orders_doc_refund`). `orders.service.ts:1179` recognises an order's own payments by
   `notes.includes('Order #1')`, which 'Order #10 payment' includes as well.
2. **The last stock location deactivated** (`back_office_doc_location`). `inventory.service.ts:200` looks for another active location
   only when the default is deactivated; the default first, the other one after it leaves none. A default is then made again
   on demand, which fails on the taken name if the first one was called Main.
3. **Cans of a cancelled delivery counted twice** (`back_office_doc_cans`). `deliveries.service.ts:526` negates every container movement,
   also the one of the empties, whose sign `container-balance.helper.ts:20` already turns.

Met while modelling, where code and comment disagree or requests that overlap lose, and kept as hazards or exceptions of a property:

- *runs*: "Re-check run status inside tx so concurrent close cannot race" (`deliveries.service.ts:223`) is a snapshot read that cannot see
  the close; an edit naming some of the products gives the OUT rows of all of them back (`delivery-runs.service.ts:467` against the comment at 1039);
  two runs created at once can overdraw a refill batch.
- *stops*: `scheduling.service.ts:379` says that the conditional claim keeps convert, include and deliver from selling twice; the other two write
  by id. A cancelled delivery at a manual stop deletes the schedule's next stop (704).
- *keys and orders*: a key whose process died is never freed (`idempotency.helper.ts:39`); a payment deleted after its order's
  refund is reversed twice (`payments.service.ts:294`); the order requests of section 4 that must not overlap.
- *access*: an invitation validates the roles only after the membership is written; roles assigned while a member is removed stay behind; an
  invitation sent again while the member joins takes him back to INVITED, and so does one that restores a deleted account, without a look at the
  sessions signed in meanwhile (`users.service.ts:389`); accepting
  an invitation or resetting a password deletes all tokens of the user, invitations of other workspaces included (`auth.service.ts:490`); `users.update`
  sets a password and signs nobody out, `users.create` sets the one of an account that is already live; a new second-factor secret replaces the one in use
  before it is confirmed; settings written during a rollback make the undoing fail.
- *books*: `reports.service.ts:537` filters by days of UTC where `calendar-utc.helper.ts:9` says wall clock; west of UTC the deliveries of a day
  fall to the day before on invoices; a cancelled or back-dated delivery makes an invoice close beside the ledger; two issues at once can set the sequence back,
  after which issuing fails on the taken number; each save of a vendor with an amount bills his opening payable again.
- *back office*: two completions, or a completion and a cancellation, of one production order both post; a removed payment stays in the collection report of its visit;
  cash collected on visits never enters the rider's balance; an update that crosses a deletion gives the deleted row its old
  name back, which blocks it for ever where the name is unique; a cost entered ahead of its day becomes the default at once.

## 8. Plan

The project keeps to about a dozen runs and forty checked properties, so that all of it can be run again for every
change of the code; parts of one question are conjunctions of named definitions. All components that have a protocol are modelled.

Every safety property that a run checks is a theorem.

Next modelling: the shared can pool of a truck and the ages of `reports.customerOutstanding`.

## 9. Running

    tlc -config orders.cfg MCCustomerOrders      # any run: its cfg and module are in PROJECT.json
    tlapm Purchasing_proofs.tla                  # any of the eight _proofs modules
