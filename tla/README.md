# AgriFlow ERP: models, checks and proofs

AgriFlow is a FastAPI modular monolith (`backend/app`), a Next.js front end
(`frontend/src`) and one PostgreSQL database. This directory holds TLA+ modules
translated from the source, the TLC configurations that check them on small
instances, and TLAPS proofs about them for every value of the constants.

All paths below are relative to `src/backend/app/` unless they start with
`frontend/`.

## 1. The system

Every HTTP request gets one SQLAlchemy session and one transaction at READ
COMMITTED (`core/database.py`: `autoflush=False`, `expire_on_commit=False`). The
endpoint commits at its end; any exception rolls back. Components call each
other as Python objects inside that transaction, so everything that can
interleave interleaves through the database: row locks (`FOR UPDATE`), advisory
locks (numbering), unique keys, version columns, and the snapshot of each
statement. There are no background workers and no queue.

| component | state | operations | what makes it correct |
|---|---|---|---|
| inventory (`modules/inventory`) | `stock_movements` (append-only ledger), `stock_balances` (on_hand, reserved, version), batches | `post_movement`, `receive`, `issue_fefo`, `adjust`, `reserve`, `release_reservation`, `transfer` | balance = ledger, never negative, FEFO, reservations backed and matched by orders |
| numbering | `number_sequences`, advisory lock per series | `next_number` | no number twice, no gap after a rollback |
| idempotency | `idempotency_keys` (unique per organization and key) | `find`, `record` | a retried request is applied once |
| retail sales (`sales/service.py`) | invoices, items, payments | `quote`, `create_retail_invoice` | one invoice per key; paid + due = total; khata within the limit |
| wholesale (`sales/wholesale_service.py`) | orders, items | `create_order`, `dispatch_and_invoice` | shipped once, reserved before, credit limit |
| accounting | chart of accounts, journal entries | `ensure_accounts`, `post` | every entry balances |
| collections, payments | payments, allocations, invoices' paid amount | `receive_payment` | no invoice overpaid, nothing lost |
| purchases | purchase orders, receipts, invoices, landed cost | `create_purchase_order`, `receive_goods`, `record_purchase_invoice` | received quantities add up, cost is distributed exactly |
| service jobs, warranties | jobs, consumed parts | `create_job`, `consume_part`, `return_part`, `set_labour_and_complete` | a part is returned at most once |
| auth, users | users, roles, sessions, refresh tokens, lockout counter, rate limiter (in the memory of the process) | `authenticate`, `refresh`, `logout`, `update_user` | who was shut out or logged out stays out, failures are counted, the role given last is held |
| pricing, money, units (`common`) | none | `allocate`, rounding, unit conversion | conservation of money |
| catalogue, customers, suppliers, organizations | rows with unique codes and versions | create, edit, look up | one record per code, one account a counter opens per telephone number, no edit lost |
| reports | none | dashboard, statements, GST summary | screens agree with invoices, payments and journal |
| audit, notifications, documents | rows | inserts and queries | |
| migrations, seed, entrypoint | the schema, its revision, the demo organization and logins | `upgrade`, `downgrade`, `seed`, `_wipe`, `_reconcile_demo_users` | the revision says what the tables are; every container serves in the end |
| front end | cart, customer, session, query cache | POS, dialogs, API client | one submission per sale |

### Behaviours that are hard

* Two requests on the same rows: `SELECT ... FOR UPDATE` without `ORDER BY` may
  deadlock; its snapshot misses rows that begin to qualify while it waits.
* State read before a lock and used after it: the order status in
  `dispatch_and_invoice`, the credit exposure, the lockout counter.
* Absolute writes (`on_hand = on_hand + delta` computed in Python).
* Time: batches expire between reservation and dispatch.
* Retries: the POS retries a sale with the same idempotency key.
* Look, then insert: customers by telephone number (typed in any way), batches, supplier invoices,
  the chart of accounts, rows of stock without a batch.
* Rows without a version column: parts of a repair job, refresh tokens, roles of
  a user.
* Crashes and racing starts: containers migrate and seed one database on boot.

The complete list, each hazard at its line and with the properties that cover
it, is in `PROJECT.json` under `hazards`.

## 2. The modules

| module | what it is |
|---|---|
| `Allocation` | FEFO stated without a loop: `Sellable`, `InExpiryOrder`, `Takes` |
| `Fefo` | the two loops (`inventory/fefo.py`, `release_reservation`), an action per iteration |
| `Figures` | rounding, tax, `allocate`, prices, landed cost, units as operators over bounded inputs |
| `Inventory`, `MCInventory` | the inventory service and its callers under concurrent transactions; uses `Allocation` |
| `StockBook` | abstract specification of stock: every request in one step |
| `UnbatchedRows` | the balance rows of a product without a batch, whose unique key does not compare NULLs |
| `Billing`, `MCBilling` | a counter sale on the server: key, number, invoice, in one transaction |
| `BillBook` | abstract specification of billing: an append-only book |
| `PointOfSale`, `MCPointOfSale` | the counter's screen composed with `Billing` |
| `MCCounter` | a sale at the counter: `PointOfSale`, `Fefo` and `Figures` on small instances |
| `Ledger` | the accounts, and the journal entries the program posts |
| `Receivables`, `MCReceivables` | khata sales, dealer orders, dispatches, collections, the journal and what the screens show; uses `Ledger` |
| `CustomerAccount` | abstract specification of a customer's account: charges and receipts |
| `Purchases` | orders, goods receipts line by line, supplier invoices |
| `ServiceJobs` | repair jobs, parts consumed and returned, labour and completion |
| `MCGoods` | `Purchases`, `ServiceJobs` and `UnbatchedRows` on small instances |
| `Sessions` | logins, refreshes, logouts, lockout and `update_user` |
| `Directory` | records with unique codes and versions: customers, products, branches, suppliers, users; the customer found by number at the counter |
| `RoleUpgrade` | the migration from eight roles to three, and back |
| `MCAccess` | `Sessions`, `Directory` and `RoleUpgrade` on small instances |
| `Schema` | tables, foreign keys and types of every revision, both ways |
| `Startup`, `MCStartup` | containers that migrate, seed and serve, with crashes and an operator; uses `Schema` |
| `MCServer` | `Startup` until the containers serve, `Billing` from then on, on small instances |
| `Sums`, `CalculationProofs`, `InventoryProofs`, `BillingProofs`, `ReceivablesProofs`, `GoodsProofs`, `AccessProofs`, `StartupProofs` | the proofs, section 4 |

`MC` modules hold what TLC needs: instances, symmetry, the requests that come
in. A definition whose comment starts with "Slip:" is not part of any
specification. It is a definition of the code with a mistake in it; most break a property of
a passing run, some one of its named parts.

`MCCounter`, `MCGoods` and `MCAccess` hold three modules each, `MCServer` two, and
a variable that says which of them a behaviour runs: they share no state, so
their interleavings would say nothing new.

### Fefo, Figures

Amounts are whole paise. Quantities, percentages and purchase rates are Decimals
in the code; here they are whole numbers of parts (`Unit`, `Percent`, `Paisa`: in
the run a thousandth of a unit and a hundredth of a percent and of a paisa), so
that every `quantize` of the code is a rounding here, the first one of a price
included (`Money(unit_price * data.quantity)`, `pricing/engine.py:115`).

### Inventory

A *worker* serves a request; `work[w]` is its transaction: the calls to the
inventory service still to make (`script`), the rows its current statement has
still to lock (`todo`) and has returned (`got`), the rows as it sees them
(`seen`) and the movements it has inserted (`moved`). `exists`, `onHand`,
`reserved`, `ledger` and `order` are what is committed; `lock` is the holder of
each row lock.

| action | code |
|---|---|
| `StartSale`, `StartReceipt`, `StartAdjustment`, `StartTransfer`, `StartOrder`, `StartDispatch` | the endpoints; each gives the request its script of calls |
| `Scan`, `LockRow` | `SELECT ... FOR UPDATE`: the snapshot, then one row after the other, re-testing the WHERE clause on the latest version |
| `Issue`, `Reserve`, `Release`, `Post` | what the service does with the returned rows |
| `Refuse` | `insufficient_stock`, `insufficient_stock_to_reserve`, `over_release` and the unique key of the balance row: the request raises and rolls back |
| `Commit`, `StaleOrder`, `Abort` | end of the transaction; `StaleOrder` is SQLAlchemy's version check on `sales_orders` |
| `DeadlockVictim` | PostgreSQL fails one transaction of a waiting circle |
| `NextDay` | the date moves on, so batches expire |

Left out of this module: prices, invoices, journals and audit rows (they take no
part in the locking of stock) and the advisory lock of numbering (it only removes
interleavings, and only between requests of one branch and document type). Each
shelf has at most one un-batched row here; `UnbatchedRows` drops that assumption.

### UnbatchedRows

One product, one warehouse, the rows with `batch_id IS NULL`. `exists` and
`onHand` are the committed rows, `tx[w]` is a transaction that receives
(`ask > 0`) or sells (`ask < 0`). `Scan`/`LockRow` are the locking SELECT;
`InsertRow` and `AddToRow` the two branches of `upsert_balance_delta`;
`Allocate`, `LockScope` and `PostPart` the sale, which allocates from rows and
posts to `.first()` of the rows of the scope.

### Billing

`tx[w].pc` walks through `create_retail_invoice`: `Replay` (the key is known:
answer with that invoice), `LoadProducts`, `TakeNumber` (advisory lock, then the
counter), `InsertInvoice` (unique number), `WriteSale` (lines, payments,
the comparison of paid and total), `RecordKey` (unique key), `Commit`, `Reply`. `next`, `invoices` and `keyed` are committed; what a
transaction has drawn or inserted is in its record and becomes visible at
`Commit`, while the unique indexes already see it (`NumberContested`,
`KeyContested`: the other transaction has to wait). `Fail` and `Abort` roll
back. `Reprice` is `update_product` of the catalogue.

A branch code is a pair: what `code[:11]` keeps, and the rest.

### PointOfSale

Adds the screen: `till[t]` is the cart (a quantity of one product), the quotes
React Query holds for each content of the cart, the khata tick box and the
idempotency key; `sale[t]` the worker whose answer the till awaits; `told` the
keys whose sale a till has reported as done; `sent` what each till has asked for
under the key it has (a history variable: nothing reads it). `EditCart` and `TickCredit` may
happen at any time, also while a sale is under way, because no control of the
cart is disabled then. `LoseAnswer` is a broken connection, or a
finished invoice that cannot be fetched: the till shows an error and keeps cart
and key, the server carries on and may commit later. The server's actions are
those of `Billing`, unchanged.

### Receivables

`tx[w]` is a transaction at one of the statements at which it meets another:
`ReadOrder` (the order's status, without a lock), `TakeNumber` (the advisory
lock of the branch), `Check` (credit limit over the open invoices), `Look` and
`Settle` (the snapshot of the open invoices and their locks, oldest first, each
re-read), `ReadChart` and `OpenChart` (`ensure_accounts`), then the commit of
what it is (`CommitSale`, `CommitOrder`, `CommitDispatch` with the version of
the order, `CommitCollection`). `Fail` has the causes the code gives, `Abort`
stands for all others. `Credited` is the absolute write of `paid_amount`.
The dashboard, the statement of a customer, the GST summary and the trial
balance are functions of the committed rows.

### Purchases and ServiceJobs

`Purchases`: a clerk's receipt walks over its lines: `FindBatch`/`InsertBatch`
(unique key, waiting while another insert is not committed), `LockRow` of the
balance, `ReadItem` and `FlushItem` (the absolute `received_base_quantity`),
then `ReadOrder`, `Tally` and the commit under the order's version. Two receipts
of one branch are ordered by the number lock.

`ServiceJobs`: `ReadLine` (a line of parts, which has no version), `ReadJob`,
`LockStock`, `Save` (under the version of the job, if the job changed at all).

### Sessions, Directory, RoleUpgrade

`Sessions`: a login reads the user and writes it under its version
(`CommitFailure`, `CommitLogin`; `Deny` is the conflict); a refresh reads token
and session, then the user, then mints; a logout revokes tokens and session. An
update of a user selects the role rows, deletes those it has seen and inserts
one. `LockoutEnds` is the passing of the lockout. A token may be presented any
number of times and by two tabs at once.

`Directory`: `LookUp`, `Check`, `Insert` (waits on an uncommitted duplicate),
`CommitRecord`, `ReadBack`; `ReadRecord` and `SaveEdit`, which writes only the
columns that change, under the version. The office may give a customer's phone,
any text (`customers/api.py:42`), and change it. `Searched` is what the endpoint
answers with, the rows whose name, code or phone contains the digits; `Found`
keeps those whose phone, its separators removed (`NormalisePhone`), is the number.
A row keeps the phones it has had (`phones`) and the number a counter opened it
for (`told`), so that what a counter is told can be compared with whom it names.

`RoleUpgrade`: the statements of upgrade and downgrade in order, over every set
of roles an organization may hold.

### Startup

`proc[p]` is what a container or an operator does: down, upgrading,
looking for an organization, claiming the permission codes, seeding in seven
commits (`Parts`), reconciling the logins, serving. A migration is one
transaction with DDL locks (`Waits`), ended by the stamp of the revision; a process may die at
any point (`Crash`), and what was not committed is gone. `Schema` gives the
statements of the ten revisions, from `106592bc8831` to the head `a71e30c5f8b4`,
which adds the column `customers.address`.

## 3. The runs

| run | question | instance |
|---|---|---|
| `counter` | is a bill ever lost or made twice by a lost answer? do the loops agree with FEFO as defined, and does the arithmetic add up? | 1 till, 2 workers (a retry runs beside the first attempt), 2 keys, 2 prices, a cart of one unit: what changes between two presses is the amount; every offer of 3 batches, 2 dates and no expiry, quantities to 2: ties, a batch taken in part, an expired batch in front of a fresh one, too little on offer; quantities and rates with fractions, amounts that end in half a paisa, weights, prices, slabs and packs that do and do not divide |
| `inventory_orders` | sales, receipts, orders, dispatches of two batches on one shelf | 2 workers, 2 orders, up to 3 units: two batches are needed for a statement that loses or gains a row while it waits, two orders for one to release the other's reservation |
| `inventory_moves` | atomicity and termination when rows are locked in opposite orders | 2 workers, 2 shelves, 3 rows, two-line sales in both orders, corrections, transfers, one expiry date |
| `server` | is the schema the stamped one, and does every container serve in the end? key, number and invoice under concurrency | 2 containers, 1 operator, 10 revisions, 1 crash, 1 manual downgrade or reset, logins in every state an older release or an owner may have left, a seed of 3 commits (the code has 7: the first founds the organization, and a crash or another start may come between any two); 2 workers, 3 branches, of which two have codes that agree in 11 characters, 2 keys, 2 prices, requests that share a key with other payloads and at another branch, pay too little or too much, or have no key |
| `receivables` | do invoices, payments, journal and screens agree when sales, dispatches and collections race? | 2 workers, 2 branches, one customer with a limit and one without, 3 invoices, 2 payments, 1 order: collections that cover part of an invoice, one and a half, or more than all |
| `goods` | do receipts of one order, parts of one job, first rows of one product add up? | 2 clerks of 2 branches and 3 receipts; 2 mechanics, a job under warranty and one without; 3 workers and 2 row identities |
| `access` | who gets in, and what is on file? | 2 handlers, a user and an owner, 2 failures to the lockout, 3 tokens; 2 desks, 2 records with a name and a phone, one edit each, a phone with a separator inside and one without, numbers of 2 digits, codes of the counter and the office's own; every set of old and new roles an organization may hold, both ways |

Counters that could grow are bounded by the constants whose comment says
"bound" and by the number of `Key`s; a till without a fresh key stops. The
deadlock check is off in `receivables`, `goods`, `access` and the runs derived
from them: there no more requests come in once a bound is reached, and a
migration to the other version is the end. Containers that serve, and a
calculation that has its answer, are done for good too; `MCServer` and
`MCCounter` give them a step that changes nothing (`ComeToRest`). That nobody
waits for ever is checked as `EveryRequestEnds` and `EveryContainerServes`.

Several properties are conjunctions of named parts (`JobsAddUp` is `BillIsParts`
and `PartsAccounted`); the parts are commented where they are defined, and any of
them can be named in a configuration by itself. Type invariants of `Fefo`,
`Inventory` and `Billing` are theorems (section 4) and not repeated in the runs
that check something stronger.

Five runs are expected to fail; each shows a sentence of the repository that the
program does not keep, and `findings` in `PROJECT.json` quotes it:

| run | what TLC shows |
|---|---|
| `expired_reservation` | a dispatch releases expired reservations first, and fresh reserved stock cannot be shipped |
| `number_reused` | two branches whose codes agree in 11 characters draw one number, although the prefix "keeps numbers unique across the organization" |
| `billed_as_charged` | after a lost answer and an edit the till is told of the first bill and clears a cart nobody has billed, although "what the customer is charged is exactly what the invoice records" |
| `part_returned_twice` | two returns of one spare part both go through, and it is in stock twice |
| `role_upgrade` | a billing operator becomes counter_sales and may dispatch orders, although "a migration must never hand somebody a permission they did not have" |

### Fairness

`Inventory!FairSpec`: a started request keeps running and PostgreSQL queues the
waiters of a row, so a transaction that can go on again and again does
(`SF_vars(Run(w))`); the deadlock detector always runs
(`WF_vars(DeadlockVictim(w))`). `Billing!FairSpec`: the same for the advisory
lock and the wait on a unique index (`SF_vars(Serve(w))`); the answer is handed
over (`WF_vars(Reply(w))`). Nothing is assumed of clients, of the clock, of
prices or of failures. Weak fairness would not do: a row that is free again and
again, never continuously, is granted by the queue. `Receivables!FairSpec` is
the same for the number lock, the locks on invoices and the chart of accounts
(`SF_vars(Serve(w))`). `StartupSpec`: the platform starts a container that has
ended, and a process that can go on does (`WF_vars(Boot(c) \/ Work(c))`); it
assumes nothing of operators or crashes. `MCServer` assumes the fairness of both.

## 4. The proofs

All theorems hold for every value of the constants that satisfies the module's
`ASSUME`; no other assumption is made, except where a theorem states it. Every
invariant and every safety or action property of the passing runs is a theorem,
and so are the three refinements; the theorems are listed in `PROJECT.json`. What follows is the argument of each proof module: the
invariant, and why the property alone would not do.

| module | about |
|---|---|
| `Sums` | sums over finite sets and sequences |
| `CalculationProofs` | `Fefo`, `Figures` |
| `InventoryProofs` | `Inventory`, and that it implements `StockBook` |
| `BillingProofs` | `Billing`, that it implements `BillBook`, and `PointOfSale` |
| `ReceivablesProofs` | `Receivables`, and that it implements `CustomerAccount` |
| `GoodsProofs` | `Purchases`, `UnbatchedRows`, `ServiceJobs`, `MCGoods` |
| `AccessProofs` | `Sessions`, `Directory`, `RoleUpgrade`, `MCAccess` |
| `StartupProofs` | `Startup` with `Schema` |

*Sums.* The models add with the folds of the community modules, which are
recursive functions over the subsets of a set. That such a function exists, and
that its value does not depend on the order in which `CHOOSE` picks elements, is
proved by contradiction: among the subsets for which it would be false there is
a smallest one (`SmallestSubset`), and it is not. On that stand the lemmas the
other proofs cite: an element taken out (`SumTakeOut`), one changed
(`SumChange`), a disjoint union (`SumUnion`), a sequence that grows or loses its
head (`SumPlus`, `SumShifted`), the same numbers under other names
(`SumRenamed`).

*CalculationProofs, the loops.* `EarliestFirst` and `NothingExpired` are not
inductive: they say nothing of the batches still to come. `LoopInv` adds that
nothing has been taken from those, that a batch the loop has passed is emptied
unless nothing remains to be taken, and that it expires no later than any batch
to come. For the agreement with the definition (`LoopsAgree`), `Counted` adds
that what was taken and what remains make up what was asked for, and that at
most one batch was taken in part.

*CalculationProofs, the arithmetic.* Every call that `FiguresAssumption` admits,
which is what the schemas of the API let through (quantities above zero,
percentages up to 100, nothing negative) and what the functions check
themselves. A split loses nothing (`NothingLostInSplits`): the remainders of the
rounded-down shares sum to the sum of the weights times the pennies left
(`PenniesLeft`), so there are fewer pennies than lines; the place of a line in
the sorted list is a bijection onto the lines (`Placed`), so exactly that many
get one (`PenniesServed`); and since a line without a remainder never gets one,
no share is a penny off. Prices and units (`FiguresAtTheCounter`) are division
with a remainder: each rounding is off by half a paisa at most, of the gross of a
fractional quantity, of the discount and of the tax; `DeepestSlabPrices` allows two slabs of one threshold, of
which the code takes some.

*InventoryProofs, the balances.* `BalanceIsLedger`, `NeverOversold` and
`LockedRowsAreFresh` speak of committed rows, while balances are written as
absolute values that a transaction has computed earlier. `IInv` closes the gap
(`Knows`): a transaction differs from the committed state only in rows it holds,
what it holds it has read at the latest version plus its own movements, and no
quantity it sees is negative. One lemma per action, `OwnStep` for the frame they
share.

*InventoryProofs, the requests.* That a commit is one step of `StockBook`
(`ImplementsStockBook`) needs to know what its calls have done in between.
`PlanInv` says it at every step: what a request has set aside or moved, shelf by
shelf (row by row for a receipt or a transfer), and what the calls left in its
script will still do add up to what it was asked for. When the script is empty,
what was taken from the rows is one of the ways in which the book may spread the
request over them (`SpreadFits`). With the version check on
orders, what is reserved on a shelf is what confirmed orders are due
(`ReservationsAreOrders`). `ReservationsAreStock` adds that no row has more
reserved than on hand, for which no request may be a transfer: `post_movement`
compares with `on_hand` alone, so a transfer can take stock that is reserved
(section 5). The hypothesis `"transfer" \notin Kind` is that of the run
`inventory_orders`.

*BillingProofs, the server.* `IInv` ties the value a transaction carries to the
advisory lock (`Drawing`), says that the values of a branch have no gap
(`Gapless`), what the two unique indexes guarantee about rows that are not
committed yet (`Inserting`, `Recording`), and that the two tables agree
(`Keyed`). From it: answers are honest (`AnswersHonest`), every step is a step of
the book or none (`BillingKeepsBook`), and no two sales carry one number
(`NumbersFresh`): within a branch the lock keeps the drawn values apart, between
branches whose codes agree in 11 characters only the unique index does, so that
both may draw one number and one of them fails (run `number_reused`). A lock of
numbers is held by a sale that has drawn one (`Holders`), numbers are locked
before invoices are inserted, and those before keys: whom a sale waits for has
less ahead of it, so sales never wait in a circle (`SalesNeverDeadlock`).

*BillingProofs, the counter.* On top of that: whom a till waits for (`Serving`),
and that the key of every request under way and of every bill is at a till or was
reported done (`KeysKnown`). `Asked` adds that every request under way and every
bill under a key a till still has is of that till's branch and records a press it
made under that key. With them no bill is forgotten (`NothingForgotten`), a till
that clears its cart is told of the only bill there is under its key, one it has
asked for (`ClearedOnce`), and tills never share a key (`KeysApart`), for any
number of tills, workers and lost answers; the run has one till. That the bill is
the one asked for last is not so (run `billed_as_charged`).

*ReceivablesProofs.* The figures are restated as functions of the rows of
invoices, payments and entries (`OwedBy`, `PaidOn`, `Posted`, ...), so that one
lemma each says what a charge and a receipt add to them. `BooksInv` is what the
committed rows agree on: every invoice is paid by its allocations, screens and
journal sum to the same amounts, an order has at most one invoice. A commit
writes what its transaction has computed earlier, so `Working` says what that is
worth (`Shape`, `Numbered`; `Allocating`: the invoices it holds are as it read
them, the older ones are settled; `OnCredit`: the credit found below the limit still
is, for a customer of one branch), `Apart` that no two hold one
invoice row, and `Meanwhile` what a step of another handler may change, which
leaves it true (`MeanwhileWorks`): one lemma for all pairs of steps. From it `PaymentsReach`,
`BooksAgreeEverywhere`, `KhataKept`, and that each customer sees one charge or
one receipt at a time (`AccountKept`). `RequestsNeverDeadlock` is the same
argument as for sales, over numbers, invoices by age and the chart of accounts:
`Held` says that the invoices a collection has still to lock are younger than
those it holds. Both are about the locks these modules have, which need no
deadlock detector; the rows of stock, whose `FOR UPDATE` has no `ORDER BY`, do, and
`Inventory` has one.

*GoodsProofs, purchases.* `CreatedOnce` speaks of committed lines, and a receipt
commits them long after it has resolved their batches. `Right` says how far it
is: the batch of every line it has been through is committed or its own, and only
a line with a batch inserts one; `BillsApart` says that an inserted invoice is
nobody else's. From it `NothingTwice`, for receipts of any length. For
`OrdersTold`, `OrdersInv` adds that the number lock of the branch is held
(`Numbered`), what the session has computed of an item so far (`Computed`), and
that a status computed from it is written only if the order is as it was read
(`Alone`, `Harmless`). `StatusIsProgress` speaks of orders that ask for something
(`Asks`): an order without lines is refused
(`create_purchase_order`, `modules/purchases/service.py:88`), and one whose lines
ask for nothing would have to be confirmed and received at once.
The lines of a receipt lock batches and order items in the order they were typed,
so two receipts could wait for each other; `LocksHeld` says that only a receipt
that has its number holds or has inserted anything, and one receipt of a branch
has it (`Numbered`), so clerks of one branch never wait in a circle
(`ReceiptsNeverDeadlock`).

*GoodsProofs, rows and jobs.* `Accounted`: what a transaction has written into
the rows it holds and what it has left to post make up what was asked, whichever
rows it hits (`RowsTogether`). `JobInv`: the job is as it was read unless its
version has moved on, and what a request takes from the rows it has locked is
what it asks of the part; then the bill is the value of the parts that stay, and
what is on the shelf and in jobs is what there was (`JobsBilledRight`); a handler
that read a job before it was closed fails on its version (`ClosedStays`).

*AccessProofs.* `Right` says what the reading of a handler is worth by the time
it commits: a login's account is unchanged as long as the version is, a token
stays in its session, and a handler whose token was late does not get past the
session. From it `NobodyReturns` (`ShutOutStaysOut`) and `AccountsAddUp`
(`FailuresAreCounted`, `LastRoleHeld`). In `Directory` the unique constraint also
speaks of rows that are not committed: `Claims` says that an inserted code is in
no row and nobody else's. From it one record for each code and one account for
each number that counters are told (`OneRecordEach`), whatever the office types
and edits meanwhile, and no lost edit (`EditsAddUp`). What a search finds is not
needed for that, and that it finds every account of a number is not so (section 5). That `normalisePhone` makes a number of the right length out
of a complete one is proved by looking at the shortest prefix of the typed text
for which it would be false (`NumbersTyped`). In `RoleUpgrade` a code is renamed
under the same id, so `Lineage` says which family of codes an id belongs to; each
statement then leaves the codes and grants it should (`RolesUpgraded`).

*StartupProofs.* `UpgradeRight` and `DowngradeRight` say which tables a run of
alembic has added or taken away after any number of its statements, and that
nobody else can have changed the revision since it stamped; `OneStamps`, that one
run at a time does. A commit then leaves exactly the tables of its revision
(`SchemaKept`). For the seed, `ProcRight` says what a process may rely on: retired
accounts only lose their access, so a reconciliation that read old rows still
leaves accounts that work (`ServersAlwaysWork`). Of the scripts these use only
`SchemaAssumption`: a revision and its downgrade are about the same tables, and
no two revisions share one. TLC evaluates it on the scripts as they are. That
every statement of a run that nobody disturbs finds the tables it refers to
(`SchemaStands`) is about the ten scripts as written: `Fitting` and `Leaving`
are shown of each, and `RunsTyped` adds the enumerated types. No downgrade drops
one, so an upgrade after a downgrade fails on a type that is still there; the
theorem says that such a run fails exactly then, and no other.

What the proofs changed in the models: `StatusOf` (`Receivables`) had CASE guards
that overlapped, and is an IF as in the code; `StatusIsProgress` speaks only of
orders that ask for something; `DeepestSlabPrices` allowed one slab to a
threshold; `Figures` names the calls it is about (`FiguresAssumption`); and the
constants have the assumptions a sum needs: finitely many orders
(`Inventory`) and customers, and a branch (`Receivables`).

Only model-checked: liveness (`EveryRequestEnds` of three modules,
`EveryContainerServes`), which is out of reach of the proof system; of it,
`NoCircle` of `Billing` and `Receivables` and `NoCircleAtBranch` of `Purchases`
are the part that is a safety property and proved. The five
runs that are expected to fail have no theorem.

## 5. Not modelled, and observed

Each component without a module is listed in `PROJECT.json` with the reason:
the audit trail, notifications and documents (rows that nothing reads back into
a decision), configuration, logging, routing, layout and wording, and the other
screens of the front end (one request each). Within the modelled components:

* A reload of the counter's page, which loses cart and key together.
* The expiry of cached quotes (a till may keep an old one as long as it likes,
  which covers every cache time) and the stock shown with a quote.
* Password hashing, signature and expiry of tokens, the limit on logins per
  address, the permission checks of the endpoints.
* Registers, stock valuation, best sellers and the trend of `reports`: single
  queries over rows that the other modules write.
* What the demo rows of `seed.py` say; the services they go through are modelled.
* Columns, indexes and checks of the schema; `Schema` has tables, foreign keys
  and types.
* Failure of the database itself: a committed transaction stays.

### Observed

The program does the following, which no property of a run speaks of, because
the repository promises nothing else or because the case is kept out of the
instance. Where a definition is named, it is in the module and can be named in
a configuration to see the behaviour.

* `RefusedOnlyWhenShort` (`Inventory`): a confirmation that waits for a dispatch
  is refused although stock was available before, during and after; the locking
  statement keeps to the rows of its snapshot.
* `ReservationsBacked` with transfers among the requests (`Kind`): a transfer
  compares with `on_hand` only and takes stock that an order has reserved.
* Two racing first receipts of a product without batches make two balance rows;
  the books stay right (`RowsAreLedger`).
* A branch whose code agrees with another's in 11 characters cannot bill while its
  next number is one the other has used: the unique index refuses the invoice, and
  the rollback gives the number back (run `number_reused`).
* Items added while a payment is under way are cleared with the cart; the
  difference of a price that rises between quote and payment goes on the khata even
  when the box is not ticked (see also run `billed_as_charged`).
* `CounterIsServed` (`Directory`): when two counters find the code of a new
  customer free, the loser meets the constraint and is answered 500.
* `ReturningIsRecognised` (`Directory`): a customer on file as `98765 43210`, with a
  space, is not found by his number, and the counter opens a second account for him
  (`useCounterCustomer.ts:35-36` says it does not): the search compares ten digits
  with the text as it was typed. Accounts that a counter has opened are found by
  their code, whatever becomes of the phone.
* The office may open a second account for a number, under another code; a
  counter then takes the first match. A counter whose code `RC-n` belongs to a
  customer whose number was changed bills that customer.
* `DemoIsComplete`, `OneOrganization` (`Startup`): a crash in the middle of
  `seed` leaves the rest of the demo out for good; two containers may provision
  two organizations.
* `ClosedStaysClosed` (`ServiceJobs`): completing a delivered job opens it again.
* `OneRolePerUser` (`Sessions`): two updates of one user at once may leave both roles,
  although `users/api.py:63` says that a user has exactly one; `LastRoleHeld` says
  only that the one given last is among them.
* The exposure of a customer is summed without a lock: sales of two branches, or
  two orders, may exceed the limit together; orders that are not dispatched do
  not count.
* A collection has no idempotency key. The methods `credit` and `advance` are
  booked to `CASH`. A customer statement with `date_from` starts at zero.
* `ensure_accounts`: the second of two first postings of an organization fails.
* Landed unit costs are keyed by product, so two lines of one product share one.
* No endpoint links a receipt to a purchase order (`purchases/api.py:238` passes
  none), so the part of `receive_goods` that updates the order is never reached; it
  is modelled as the service has it (`OrdersAreReceipts`).
* `received_base_quantity`: receipts of one order at two branches may lose a
  quantity (`OneBranch` is the condition of `ReceivedIsReceipts`). If they bring
  the same goods in opposite order they wait for each other, until PostgreSQL
  aborts one (`Abort`); at one branch they do not (`NoCircleAtBranch`).
* A write-off (`adjust`) allocates like a sale and so never reaches expired
  batches. `reserve` changes a balance without a movement row, although ADR 0002
  lists the reservation among the changes that are movements.
* An access token keeps the permissions it was issued with until it expires,
  also when the session is revoked (`core/deps.py`).
* No downgrade drops an enumerated type, so an upgrade after it fails
  (`UndisturbedRunsFit`, a part of `SchemaHolds`, says so and that nothing else does).
* `render.yaml` says that `SEED_ON_START` seeds again on every restart; the code
  only reconciles the logins.

## 6. Plan

What is left, in this order:

1. The limit on logins per address (`core/ratelimit.py`): a fixed window of counts
   in the memory of one server process, so a restart forgets it and several
   servers count apart. It only refuses logins that `Sessions` lets begin.
2. The composition of `PointOfSale` and the counter's part of `Directory`.
