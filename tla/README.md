# Verification of the sales system

TLA+ modules, TLC configurations and TLAPS proofs for the point-of-sale and
back-office application in `src/`: a Qt 6 / C++20 desktop program in which
several *cajas* (tills, each a process with a connection of its own) work on
one SQLite file in WAL mode with a busy timeout of five seconds.

A user action runs `qml/` → `controllers/` → `services/` → `repositories/` →
SQLite. The services check the preconditions of an operation with reads, open a
`Transaction` and write through repositories, which open nested `Transaction`s
of their own. Nothing but the database is shared by the cajas. Two facts shape
every module:

- **what is read before the transaction may be stale inside it**: another caja
  can commit in between, so only what a write itself checks (the `WHERE` of an
  `UPDATE`, a status read again inside the transaction) is sure to hold;
- **a transaction commits as a whole or not at all**, and a process may die at
  any point; a handler made of several transactions may stop between them.

## Inventory

| Part | State | Operations | What makes it correct |
|---|---|---|---|
| Transactions (`core/Transaction`) | depth per connection, SQLite's savepoints and write lock | construct, commit, destroy | nested units of work; the lock comes free; nothing half written |
| Stock and warehouses (`ProductRepository`, `LocationRepository`, `InventoryRepository`, `InventoryService`) | `products.stock`, `stock_reserved`, `stock_by_location`, `inventory_movements`, `inventory_counts` | sale, cancellation, reservation, adjustment, waste, entry, transfer, cyclic count, product form, kits, removal, seeds | the aggregate is the sum of the ledger, nothing is negative, no unit is lost or sold twice |
| Sales and documents (`SaleRepository`, `SalesService`) | `sales`: type, status, total, paid, balance, parent | create, cancel, advance, convert, credit and debit note | balances tell what is unpaid, cancelled stays cancelled, notes within their invoice |
| Receivables (`CreditRepository`, `ClientRepository`, `CreditService`) | `clients.balance`, `payments_cxc` | charge, payment, client form | limit respected, no payment lost, debt is the open credit, one debtor per name |
| Till (`CajaRepository`) | `caja`, `caja_movimientos` | open, close, record and reverse a sale | expected amount is the sum of the turn's movements, every turn closed and reported once |
| Point of sale (`PosController`) | cart, serials and code in the memory of a caja | add, quantity, serial, code, checkout | a cart checked line by line and paid as a whole makes one sale |
| Serials (`SerialRepository`) | status and sale per unit | register, sell, revert, set by hand | one standing sale per unit |
| Promotions (`PromoRepository`) | uses, limit | add, switch, remove, apply, count | uses are the sales made, within `max_uses` |
| Folio counters (`Counters.h`, `SettingsService`) | `counters`, series per document type | next, rename series, sale of the till | one document per folio, none skipped |
| Purchases, payables (`PurchaseService`, `PurchaseRepository`, `PayablesRepository`) | orders, received quantities, `payables` | create, receive in parts, cancel, pay | stock receives what the order shows; the payable is what was received less what was paid |
| Outbox (`SyncService`) | `outbox` rows; circuit breaker per process | queue, send a batch, purge | what is queued arrives, and is purged only afterwards |
| Authentication (`AuthService`, `AuthController`, `UserRepository`) | users, failed attempts, lock, recovery tokens, session | login in a worker thread, change, reset, recovery, users screen | the password is the one last set, the lock holds after the failures it names |
| Second factor (`TwoFactorService`) | secret, recovery codes | enable, confirm, code, recovery code, disable | a recovery code is used once |
| Settings (`SettingsService`, `SettingsController`) | `settings`, a cache per process | validate, save, load | shortcuts distinct, caches true |
| Categories (`CategoryRepository`, `CatalogController`) | the tree, the category of a product | save, rename, remove | nothing is filed under a category that is gone |
| Clients, suppliers (`ClientRepository`, `SupplierRepository`) | a row each | form | names that identify who owes |
| Lists (`PagedListModel`, controllers) | search, rows shown, total | search, scroll, reload | a scrolled list is the beginning of its search |
| Database (`DatabaseManager`) | schema version, columns, backups | start, migrate, seed, seal, back up | the seal tells the truth, nothing entered is lost, a backup is of one moment and enough of them are kept |
| Money and taxes, electronic invoice | none | pure computations | rounding, check digits |
| Audit log, event bus, reports, tickets, logging, user interface | none the others decide on | notification, reading, formatting | |

Interaction: a sale is one transaction that writes stock, the sale, the client's
balance, the till, the uses of promotions and the serials; its cancellation
undoes them in one transaction. A reception of a purchase writes stock and
payables. After the commit of a sale the controller queues an outbox row and the
event bus refreshes the views: both are outside the transaction.

Hard behaviours: stale reads (almost every handler), handlers made of several
statements or transactions (product form, removal of a product, cyclic counts,
login, migrations, outbox), refused `COMMIT`s and `RELEASE`s, crashes, memory of
a process that another one makes stale (cart, settings, lists, breaker),
sequences of legal calls (a transfer and then an adjustment; a conversion, then a
payment, then a conversion). `PROJECT.json` lists them at their lines under
`hazards`.

## Modules

| Module | Models | Checked by | Proofs |
|---|---|---|---|
| `Transaction` | `core/Transaction`, `InlineTx` of `InventoryService` and SQLite beneath them | `MCTransaction`: `tx_store`; part *engine* of `parts` | `TransactionProofs` |
| `AtomicStore` | abstract: units of work nested on one store | property `ImplementsStore` of `tx_store` | |
| `Stock` | stock, reservations, ledger by warehouse, kardex | `MCStock`: `stock_*` | `StockProofs` |
| `ProductRows` | the rows of a product from birth to removal, kits, seeds, backfill | part *goods* | `PartsProofs` |
| `Sums` | SQL's `SUM` of a column over rows, as `Stock`, `Sales` and `Parties` use it | with them | `SumsProofs` |
| `Sales` | documents, receivables, till | `MCSales`: `sales_*`; part *turns* | `SalesProofs` |
| `Checkout` | carts, serials, promotions | `MCCheckout`: `checkout` | `CheckoutProofs` |
| `Promotions` | `Checkout` with the history of the codes two cajas paid with at once | `MCCheckout`: `checkout` | `CheckoutProofs` |
| `Purchases` | orders, receptions, payables | part *orders* | `PartsProofs` |
| `Orders` | `Purchases` with the history of which handlers overlapped | part *orders* | `PartsProofs` |
| `Outbox` | queue, batches, breaker, purge | `outbox` | `OutboxProofs` |
| `Mailbox` | abstract: what is posted waits and arrives | property `ImplementsMailbox` of `outbox` | |
| `Auth` | passwords, lock, tokens, second factor, users screen | parts *secrets*, *seconds* | `AuthProofs`, `PartsProofs` |
| `Database` | start of several processes on a file of any version, backups | part *files*; `database_v_legacy` | `PartsProofs` |
| `Settings` | the settings page of each caja | part *page* | `PartsProofs` |
| `Folios` | series, counters and primary keys, of documents and of sales of the till | part *numbers* | `PartsProofs` |
| `Listing` | searched and scrolled lists | part *scroll*; `listing_v_filter` | `PartsProofs` |
| `Parties` | clients and who owes | part *debtors* | `PartsProofs` |
| `Catalog` | categories and the products filed under them | part *tree* | `PartsProofs` |
| `Parts` | the parts above in one specification | `MCParts`: `parts` | `PartsProofs` |

`Stock`, `Sales` and `Checkout` model the same handlers of a sale and its
cancellation, each from the side of the state it keeps; they meet in one
transaction, and module `Transaction` is what allows to take that transaction as
one step. Where a property is lost by a known overlap of two handlers, a history
variable (`overlapped`, `formed`, `stale`, `mixed`, `loose`, `uneven`, `handled`,
`whole`) records what has met it, and the property speaks of the rest: so the run still
contains every interleaving, and the section on disagreements says what is lost.

### Transaction

`frames[c]` holds the `Transaction` objects alive on the stack of connection
`c`, outermost first, each with its level and the image of the database it
started from (a history variable: the code has no such field). `depth[c]` is
`depths()[connectionName]`. `disk`, `writer`, `image`, `saves` and `begun` are
SQLite: the committed state, who is inside a transaction, what it sees, its
savepoint stack, and whether a `BEGIN` or a `SAVEPOINT` began the transaction.

- `OpenOuter`, `OpenInner`, `OpenStray`: the constructor with `BEGIN IMMEDIATE`,
  with `SAVEPOINT fase1_sp_<depth>` inside a transaction, and with the same
  `SAVEPOINT` after SQLite has ended the transaction. SQLite would take the lock
  of the last one at its first write; the model takes it at once.
- `OpenBare`: the `BEGIN IMMEDIATE` of `InlineTx` and of `SettingsRepository`,
  which the counter does not know.
- `CommitOuter`/`CommitRefused`, `CommitInner`/`ReleaseRefused`: `commit()` when
  SQLite agrees and when it refuses. `LeaveOuter`, `LeaveInner`: the destructor
  of an object that was not committed. `LeaveLost`: any of them when the
  transaction or savepoint is gone.
- `Write`: a statement, inside the transaction or in autocommit.
- `Crash`: the process dies with objects alive. `EngineRollsBack`: SQLite ends
  the transaction by itself (full disk, I/O error) and the caller goes on.

A constructor that fails changes nothing: every owner tests `isValid()` and
returns. A write is a member of `Items`; which rows it changes is in the other
modules.

### Stock and ProductRows

`job[t]` is what the running handler of terminal `t` has read so far. A handler
is `XCheck(t, ...)`, its reads and early returns, and `XCommit(t)`, its
transaction with every write and every guard inside it; `Abandon(t)` is a guard
that fails inside the transaction, a refused `BEGIN` or `COMMIT`, or the death of
the process. Three handlers have more steps, because the code runs them as
several statements or transactions: the product form (`EditProduct`,
`EditOthers`, `EditLedger`), a cyclic count (`CountApply`, `CountRead`,
`AdjustCommit`, `CountMark`), and reservations, which are one guarded `UPDATE`.
Quantities are whole units, so the `1e-9` tolerances vanish.

`kardex[s]` is the newest row of `inventory_movements` of a product: its "after"
column, and what that column is a figure *of*, which the code leaves to the type of
the movement. A sale, a cancellation, an adjustment and an entry record the stock;
"Apartado" and "Liberado" the stock less what is reserved; a transfer records a
row for each of its warehouses, of which the entry is the newer, with what that
shelf holds. The product form records nothing.

`Stock` follows the units of products that have all their rows; in
`ProductRows` rows come and go. A product is born by the form, as a kit or from a
seed, the last without ledger rows until `Backfill` at the next start; it is
removed by two statements, and the process may die between them. A kit is two
steps: `LookUpKit` reads the components and their stock, outside of any
transaction, and `CreateKit` inserts what was found then, in one that does not look
at them again; `making` is what a caja carries from one to the other. The history
`whole` is the kits none of whose components was removed since it was looked up.

### Sales

`docs` are the rows of `sales` in folio order, `owed` is `clients.balance`,
`till` the row of `caja` with its list of sales, `moved[n]` the sum of the
movements of turn `n`, `arqueos` what each close reported (its audit row and its
"cierre" movement). `XCheck`, `XCommit` and `Abandon` as in `Stock`. Amounts are
cents. `collected` (the sum of a document's `payments_cxc`) and the `turn` of a
document (where its "venta" movement went) are columns of other tables kept with
the row they refer to. A turn is identified in the code by its opening time in
seconds; the model numbers the turns, so two openings within a second are two
turns in it and one in the code.

### Checkout

`cart[t]` is the memory of one process: lines with product, quantity and serial,
a code, and whether it is being paid. `AddToCart`, `SetQty`, `SetLineSerial`,
`RemoveLine`, `ClearCart` and `ApplyPromo` are the slots of `PosController`, each
with what it checks; `CheckoutStart` is what `checkout` and the preconditions of
`createDocument` read, `CheckoutCommit` the transaction. The office registers
units, sets their state by hand, adds, switches and removes codes, and cancels
sales, at any moment between the two.

### Purchases

`orders` and `payables` are the rows, `entered[i]` the units that movements of
order `i` brought in, `payments[i]` the number and the sum of its
`payments_cxp`. A reception carries the status and the received quantity it read
before its transaction and grows the payable inside it; a payment carries the row
it read before.

### Outbox and Mailbox

`outbox` is the table, `caja[t]` what a process is doing (queueing a sale that is
already committed, or sending a batch it has read), `failures` and `cooling` its
circuit breaker. The remote end is simulated by the code: sending is marking.
Faults are refused statements, deaths and outages, `MaxFaults` of them. `Mailbox`
is the promise: an operation is done, then posted or lost, and what is posted
waits until it arrives.

### Auth

A login reads the user's row in `LoginStart`, spends its time in PBKDF2, and
writes in `LoginGood` or `LoginBad` from what it read; the session is opened on
the answer. Change of password, redemption of a token, a recovery code and the
confirmation of a second factor are also a start and a finish. The users screen
writes in single statements. `fails`, `accepted`, `redeemed` and `lastSet` are
histories of what was promised.

### Database, Settings, Folios, Listing, Parties, Catalog

`Database`: `proc[p]` is the program counter of `initialize()` in process `p`,
statement by statement, with what it has read (missing columns, the old table of
categories). `file` is what is committed, `work` what the one transaction, the
rebuild of categories, sees. Any process may die between statements, and one
whose statement fails ends. `backups` are the files of the backup directory, one
that every caja uses, in the order in which they were begun. A backup is
`CopyBegins`, any number of `CopyWrites`, the listing `ListCopies`, and removals one by
one: `RemoveLast` takes the last of the list *as it was read*, `RemovalFails` is the
`else break`, `EndRetention` the end of the loop. A process may die at each of
these (`Stop`) and leave a torn file behind, which is listed with the others; the
copy itself is the file as it was committed when `VACUUM INTO` began, which SQLite
promises. Every write to a copy is counted by `writes`, which gives the times of
modification that the listing sorts by. The history `swept` counts the copies that
had been begun when the last retention that ended listed them.

`Settings`: `stored` is the table, `cache[t]` the page of a caja, `job[t]` what
it has validated and not yet written. `Folios`: `stored` is the JSON object of the
series, which `SaveSeries` replaces at any time by one with a series of its own for
each of the types it names; `createDocument` reads the series (`ReadSeries`), then
numbers and inserts in its transaction (`CreateDocument`); `CreateSale` is a sale of
the till, whose series is fixed. A folio is the symbols of the prefix followed by
those of the number, as `Counters::next` joins them, so two series may write the
same one. Orders number in a table of their own; their counter is in the model because
a series may name it, and because `PurchaseService::create` reads it and puts it back
outside of any transaction (`ReadOrderCounter`, `AdvanceOrderCounter`). `Listing`: `list` is the model with its rows,
total and text; `Search`, `FirstPage`, `FetchMore`, `Noticed` and `OthersChange`
are the calls and changes around it. `Parties`: a sale knows its client by name
only, looked up without regard to case. `Catalog`: a product names its category in
text; each check is a statement before the one that writes. Its history `loose`
holds the names in which something was saved while the category was being removed,
the names that were renamed, and those that a product writes otherwise than the
category does.

### Orders and Parts

`Orders` adds to `Purchases` a history, `overlapped`: the orders and payables two
handlers of which were running at once. What the code promises of orders that are
received, cancelled and paid one handler after the other is stated of the rest.

The components of the last list, the orders, the turns of the till and the engine
under `Transaction` share no table in what they promise. `Parts` puts them in one
specification: a behaviour picks a `part` and moves that part only, `a1` to `a9`
stand for the variables of the part picked, and each invariant reads
`part = "..." => ...`. A part that has a proof module of its own (`AuthProofs`,
`TransactionProofs`) is an instance of that module, so that its theorems are
facts of the part. `MCParts` only gives values to the constants.

## Runs

| Run | Instance | Shows |
|---|---|---|
| `stock_floor` | 3 terminals, 1 product, 2 warehouses (3 + 1 units), 4 sales; sale, cancellation, reservation | with every check stale no shelf is negative, aggregate and ledger agree, reservations are covered, the newest movement tells the stock or what is available, every unit is on a shelf or in a standing sale |
| `stock_office` | 1 terminal, 1 + 1 units; every handler of the office: adjustment, transfer, entry, count, product form, and sales between them | whichever of them die on the way, aggregate and ledger agree until the form writes over them, and no count closes unapplied |
| `stock_v_transfer` | 2 terminals; sale, transfer | *violated* by the commit of a transfer, which writes back an aggregate read before another caja sold |
| `tx_store` | 2 connections, depth 3, 3 operations each; fairness | nested units of work (`ImplementsStore`), an object finds its own savepoint, nothing half written, the lock comes free |
| `sales_office` | 1 terminal, 2 names, 2 documents; every handler of documents | credit limit, no payment lost, cancelled stays cancelled |
| `sales_floor` | 2 terminals, 2 documents, 2 turns; sale, cancellation, payment, note, till | debt is the open credit, an open balance is what was not paid, the open turn lists exactly its standing sales and squares |
| `sales_v_consumed` | 1 terminal | *violated*: a converted quotation is paid, becomes *Pagada* and is converted again |
| `checkout` | 2 cajas, 1 product, 1 serial, 1 code of 1 use, 2 sales | a unit is on one standing sale at most and free after its cancellation; the uses of a code are the sales made with it |
| `outbox` | 2 cajas, 2 sales, breaker at 2 failures, batch of 1, 3 faults; fairness | a row waits or has arrived, the table is a mailbox (`ImplementsMailbox`), what is queued arrives |
| `database_v_legacy` | 1 process | *violated*: a database of an earlier version is refused at every start |
| `listing_v_filter` | 4 rows, pages of 2 | *violated*: the second page of a search of clients or sales is one of the list without the text |
| `parts` | the twelve parts below, each by itself | their properties |

The parts of `parts`:

| Part | Instance | Shows |
|---|---|---|
| *orders* | 2 terminals, 1 order of 1 or 3 units at cost 2, 3 payments | what is shown as received has entered, the payable is what entered, a status tells its reception, a cancelled order stays |
| *files* | 2 processes, 2 columns to migrate, 1 category to keep, 1 backup kept, 3 writes to backups | the version seal is true, no category is lost, an ended copy is of one moment, a copy goes only when another was written since it began |
| *goods* | 1 caja that removes, 1 that makes kits, 2 products, 2 warehouses, 1 unit | rows agree with the aggregate, removed products leave none, kits are complete until a component goes |
| *page* | 2 cajas, 2 screens, 3 key sequences | no two screens on one key, a caja shows what is stored |
| *scroll* | 4 rows, pages of 2, 3 kinds of list | a scrolled list is the beginning of its search, all of it at the end |
| *debtors* | 2 terminals, 2 client rows, 3 spellings of 2 names | one client owes the open sales of a name |
| *tree* | 2 terminals, 2 categories, 1 product, 2 spellings | nothing is filed under a category that is gone |
| *secrets* | 2 cajas, 1 user, 2 passwords | the password is the one last set, its flag says by whom, three failures lock |
| *seconds* | 2 cajas, 1 user, 1 recovery code, 1 token | the same with the second factor on; codes and tokens are accepted once |
| *turns* | 1 caja, 3 documents, 2 turns | notes within the invoice, reports square with their turns, one report per turn |
| *engine* | 2 connections, SQLite may roll back by itself | the counter stays the nesting depth |
| *numbers* | 2 cajas that write documents, the till, 1 that orders; 1 type, 3 prefixes (the till's, and one that is another and a figure), 3 counters, 2 rows | no number is skipped, no series is stuck on a folio while they are apart |

### Bounds

- Two terminals: every hazard listed is between one handler's read and its write
  and one other handler; a third repeats the second, and `stock_floor` has it.
  One terminal where the property does not survive a second one, said with the
  property (below).
- One product: no handler of `Stock` relates two products but the cart of a sale,
  whose lines succeed or fail together; `ProductRows` has two, for kits. Two
  warehouses: the main one, in which adjustments, cancellations and the form
  work, and another one.
- `MaxStock`, `MaxSales`, `MaxCounts`, `MaxApplied`, `MaxDocs`, `MaxTurns`,
  `MaxSteps`, `MaxDepth`, `MaxLines`, `MaxOrders`, `MaxPayments`, `MaxOpen` are
  guards on the start of an operation, or on what it adds; a handler that has
  started is never stopped by one that would change its outcome (it can also be
  abandoned). Four units and four sales let three cajas compete for the last
  ones; three documents let a turn end between a sale, its note and its
  cancellation; depth 3 lets a savepoint name be used again below a live one; two
  sales of one unit are a sale and the one made after its cancellation.
- `Amounts` 1 and 3 with total 3: an instalment, a settlement, and a rest of one
  cent, which the code forgives, are told apart. In `sales_floor` two instalments
  of 2 settle a total of 4. A payable at cost 2 takes payments of 1, 2 and 3.
- Wrong passwords: three lock a user, so `MaxAttempts` is 3. Codes and tokens of
  one use need one of each and two cajas.
- Outbox: the code's threshold 5, batches of 10 and 5 attempts are 2, 1 and 2, so
  that two faults open a breaker, two sales are two batches, and a third fault
  meets the half-open breaker.
- Backups: 1 is kept where the programs keep 7, so that two cajas are enough for
  one to remove what the other counts on; 3 writes (`MaxWrites`) let both copy and
  one of them write again after it was listed.
- Folios: `Digits` writes numbers in base one without zeros in front, so that "NC"
  and 2 ("11") read as "NC1" and 1; the code's are in base ten and three figures, and
  the first clash of that kind is 1001 with 001. The proofs are about any way to
  write numbers that tells them apart. Two rows are enough for two series to meet,
  the next number of one being asked for. `MaxSeries` bounds the series that were
  ever in force: the two there are at the start and two new ones, of any prefix and
  counter. There is one type of document, whose series the till's stands beside: what
  two types do to each other the one does to itself when its series is replaced
  between two documents. `SaveSeries` and the proofs have a series for each type.
- Kits: one caja (`Makers`) carries a kit while the other removes and adds.
- `Current` and `Future` are the versions of the schema the program knows and
  does not; below `Current` it does not tell them apart but by their columns.
- Terminals, connections, passwords and serials are symmetric where `SYMMETRY` is
  used, and no run with symmetry checks liveness.

Deadlock is checked in `stock_floor`, `checkout` and `outbox`. In the
others the bounds on documents, steps or movements use themselves up and the model
rightly stops.

### Fairness

`FairSpec` of `Transaction` (`StoreSpec` in its instance) assumes
`WF_vars(Close(c))` for each connection. The objects live on the stack of one
synchronous function that never waits for user or network while one is alive (the
constructor waits for the lock, before its object exists), and the C++ scope rule
calls the destructor on every path out: what was opened is closed, or the process
dies (`Crash`, which disables `Close`). Nothing is assumed about getting the lock:
SQLite promises no queue.

`FairSpec` of `Outbox` assumes that a caja which has committed a sale goes on to
queue it and one that has read a batch goes on to send it (`Queue`, `SendNext`:
straight-line code, and each may also be refused or die, `MaxFaults` times); that
time passes (`CooldownEnds`); that the network comes back (`NetworkUp`); and that
at each caja somebody goes on asking for a synchronisation (`Click`). The last is
a person: nothing in the program starts one, only the indicator in
`qml/Main.qml:242`. `QueuedArrives` is a promise to cajas whose people do that.
`Mailbox` carries the fairness it promises, and `ImplementsMailbox` includes it.

## Proofs

The proof modules hold machine-checked proofs for every number of terminals,
connections, products, warehouses, clients, sales, and every bound. They rest on
the named assumptions of the modules only (`TransactionAssumption`,
`StockAssumption`, `SalesAssumption`, `CheckoutAssumption`,
`PurchasesAssumption`, `OutboxAssumption`, `PartsAssumption`: what constants are
sets of, that products, warehouses, client names and the rows of a list are
finite, that a page has a row at least, that the main warehouse is one of the
warehouses, that opening stocks, limits, costs and totals are not negative, that
default shortcuts are distinct, that a backup at least is kept, that prefixes are
sequences of symbols and numbers are written apart, in figures), which TLC evaluates in the runs. Some theorems name a further hypothesis. It is what the run that checks the
same property has, and without it the property is lost in a way the section on
disagreements tells:
`Ops \subseteq FloorOps` (only sales, cancellations and reservations),
`NothingAdvanced` (no document is advanced or converted), `OneTerminal` (handlers
run one after the other) and `~EngineMayRollBack`. The type invariant of each
module is the first conjunct of the inductive invariant that is proved.

- **Transactions.** `TransactionInvariant` proves `TxInv`. `DepthIsNesting` is
  not inductive: that an inner commit finds a counter to decrease needs to know
  that levels are numbered from zero without gaps and that a bare object is alone
  (`Nested`). That suffices even when SQLite rolls back by itself
  (`NestingInvariant`, `CounterIsNesting`, `DepthHolds` of the part *engine*). That
  the lock follows the objects (`LockHolds`) needs that a nested object finds its
  savepoint when it ends (`SavepointsHold`), which a refused `RELEASE` puts in
  doubt: it leaves its savepoint behind under a name that will be used again. The
  strengthening is `OwnSavepoint`: each live object's savepoint has only
  savepoints of *deeper* levels above it, leftovers included; so it is the newest
  of its name, and cutting the stack at a deeper one does not lose it
  (`CutKeepsOwn`). All this needs `~EngineMayRollBack`.
- **Nested units of work.** `StoreIsImplemented`: the objects implement
  `AtomicStore`, initial states and every step (`StepIsUnits`, a lemma per kind of
  step). The abstract unit of an object is what the next one in found less what it
  found itself, so the refinement needs that these images are nested (`Layers`),
  that the outermost one is still what the file holds, and that no write is issued
  twice. `NothingIsHalfway` follows from the lock: nothing a connection wrote
  reaches the file from one state with objects to the next.
- **Stock.** `LedgerInv`: no warehouse owes units, under all handlers and any
  interleaving. `LedgerNonNegative` alone is not inductive, because a transfer
  writes a quantity read earlier and a count names a row: `JobOK` says what of the
  reads stays usable. On the floor, `ReservationsHold` (what is set aside exists),
  `KardexHolds` (the newest movement tells the stock if it is of a sale or a
  cancellation, and what is available if it is of a reservation or a release), and
  about sums `AggregateHolds` (the stock of a product is the sum
  of its warehouses) and `UnitsHold` (stock and standing sales add up to the
  opening stock; and by warehouse while all is sold from the main one). `SumsHold`
  keeps the first of these under all the handlers of one terminal, for products no
  form has written over: a handler writes from the figure it read, and `ReadsStand`
  says that this is still the figure. `CountsHold`: a closed count was applied, at
  any interleaving, because who is to mark it has applied it (`MarksOK`).
- **Sales.** `BooksInv`: an open balance is the unpaid part of its total
  (`OpenBalancesHold`), and the expected amount of an open turn is the sum of
  its movements (`TillHolds`). A payment rewrites the row from an old snapshot:
  the inductive part is that the *snapshot* adds up to the total of the row,
  which never changes (`JobOK`). `FloorInv` adds, for any number of terminals, that
  a client owes the sum of the open tickets (`DebtHolds`) and that an open till
  lists the sales of its turn (`ListHolds`); what a cancellation read is still the
  row as long as no instalment came between (`CancelReads`). `OfficeInv`, for all
  handlers of one terminal: instalments are on the sale they were paid for
  (`AbonosHold`), a cancelled document stays cancelled (`CancelledHolds`), and
  nobody's open credit passes the limit (`DebtStaysWithinLimit`). The limit is
  checked against a column, not against the documents: `OwedCoversTickets` says
  that the column is never less than what the tickets have left. On `OfficeInv`
  rests `NotesInv`: the credit notes of a document never exceed it, as a sum over
  rows that other handlers rewrite, because no cancelled note comes back, no row
  changes what it is a note of, and nothing is converted to a note (`NotesHold`).
  `TurnsInv` follows the till: a report is of a turn there has been, the open
  turn has none, and the handler that closes carries the amount that the
  movements add up to, so every turn but the open one is reported once and its
  movements do not change afterwards. `TurnsAndNotesHold` joins both, and
  the theorem of that name in `PartsProofs` takes it to the part *turns*. There
  `Sales` is instanced without its proofs, which would be in the context of every
  obligation of that module; at its end `Note` is the same instance with them, and
  the `Same` lemmas say that the two agree action by action.
- **Sums.** SQL's `SUM` is a fold (`Sums`), and what a fold computes for every
  input would be an induction over data, which takes an operator as parameter.
  `SumsProofs` goes around it: the fold CHOOSEs a function over the subsets of its
  set; if it did not exist, or two of them differed, there would be a subset on
  which it fails that is minimal for strict inclusion (`WFMin` of the library, which
  takes a set), and there the equation decides. From that come the lemmas the
  proofs cite: a row more, a row changed, two disjoint sets, rows that are zero,
  a column below another.
- **Purchases.** `PurchasesInv`: a reception writes a figure it read before its
  transaction, so `ShownHasEntered` and `StatusTellsReception` survive only
  because stocks never shrink and orders keep their quantity: what a reception
  read was once true, and `JobOK` says it still bounds what entered.
  `PayableFollowsStock` is the other half: the payable grows inside the
  transaction, so the supplier is owed what entered even where the order shows
  less. `OrdersInv` is about the orders no two handlers were on at once: what is
  shown has entered and is owed, and payments add up (`OrdersAddUp`), and a
  cancelled order stays so (`CancelledStays`). Its strengthening is that the one
  handler of such an order still reads what is stored (`StillReads`).
- **Checkout.** `CInv`: units and standing sales name each other (`UnitOnOneSale`),
  whatever carts hold, because `SerialRepository::sell` asks for a free unit inside
  the transaction. `PromosInv`: the uses of a promotion are the sales with its code
  since it was made, and within its limit as long as no two cajas paid with the code
  at once (`UsesHold`). A caja compares uses with the limit before the transaction,
  and the office may remove the promotion and make it anew meanwhile; `UseLeft` says
  why the count still fits: whoever pays alone with a code finds a use left, in the
  promotion it looked at or in the new one.
- **Outbox.** `OutboxInv`: `MarksAreTrue`, and step by step the table is a mailbox
  (`OutboxIsMailbox`: the initial states of `Outbox` are initial states of
  `Mailbox`, and every step one of its steps or a stutter). The strengthening is
  that what a batch still has to send was read pending and was never counted an
  attempt, although another caja may have sent it since, and that a sale being
  queued is known to no table and to no other caja.
- **Authentication.** `AuthInv`: the password and the flag that an administrator
  chose it (`PasswordsAreAsSet`), the lock after three failures (`FailuresLock`),
  codes and tokens that are accepted once (`SecretsAreSingleUse`). A handler writes
  from what it read before a slow hash. The strengthening (`JobOK`) says of each
  running handler that what it carries, a count, a list of codes, a password to be
  stored again, a token, is still as good as what it read, or that another handler
  overlapped it; `PairsOverlap`, that two handlers of one kind on one user have
  been noted. The promises are about users without such overlaps, and the proof
  shows that nothing else can break them. The parts *secrets* and *seconds* are
  instances of the module of proofs, and `CredentialsHold`, `FailuresHold` and
  `SecretsHold` cite its theorems.
- **Database.** `FilesInv`: a file is whole at every moment any process may stop
  (`FileHolds`). A start is a long sequence of statements that commit one by one;
  the strengthening says of each process what the steps behind it have
  established (`Passed`) and what the half built table of a rebuild holds
  (`Rebuilding`), and of a sealed file that all of it was passed (`FileOK`).
  `BackupsHold`: each copy has the rows of its moment; one that was removed was
  followed by as many as are kept; and a retention that ends leaves no more of
  those it found. Times change while a caja still carries its list, so the proof needs
  of the list what does not change (`Listed`): every kept copy it saw is on it,
  once, with a time between its beginning and its last write. That the last of a
  list that is too long is followed by `Keep` others (`LastHasSince`) compares the
  copy's beginning with the times they have now, which are no less.
- **Products.** `GoodsInv`: the stock of a product and its rows by warehouse agree
  and kits have components that exist (`RowsHold`), for the products outside the
  history `uneven` and the kits in `whole`. What the rows of a product say depends
  on how it was born, so the agreement (`Even`) has a case for products without
  rows, from the seeds. A kit is inserted from what was looked up, so `KitsSound`
  says of every kit a caja carries that its components are still there or that the
  history knows one was removed.
- **Settings.** `PageInv`: no two screens share a shortcut and a page nobody
  overtook shows what is stored (`SettingsHold`), although cajas validate before
  they write: what was validated is all the shortcuts or none (`PageSent`), so it
  stays valid whatever is stored in between.
- **Folios.** `NumbersInv`: a counter, but for that of the orders, is the number of
  rows it has numbered (so none is skipped), and every row it numbered has the folio of a series that was ever in
  force and a number its counter has reached. That the next folio is free then
  (`SeriesHold`) is a fact about text: `ReadAlike` shows that if two prefixes
  followed by figures read alike, the prefixes are equal, or one is the other
  followed by figures. What `Apart` forbids is exactly that, with two counters, and
  under one counter numbers written alike are equal.
- **Clients and categories.** `DebtorsInv`: what a name owes is owed by one client
  (`DebtorHolds`), a sum over the documents written to that name. `TreeInv`: what
  was filed under a listed category finds it, and a category its parent
  (`NothingIsOrphaned`). Handlers look first and write later; `TreeJob` says that
  what each of them looked up still stands, or that the name is in the history
  `loose` of what was removed or renamed meanwhile.
- **Lists.** `ScrollInv`: as long as rows come and go only behind what is shown,
  the list is the first pages of what the search finds *now*, and the total that
  ends the scroll is no less than what is found unless the scroll is at its end
  (`ScrollHolds`). A page is a piece of a set of rows put in order, and the order
  is a CHOOSE (`InOrder`). That it exists for every finite set takes the least row
  first and the others in order (`OrderExists`, by the library's
  `SubsetInduction`, which takes a set and no operator). That a change behind a
  row leaves the pages before it compares the orders of two sets at the first
  place where they would differ (`BeginAlike`, `ChangeBehind`). From these,
  `PageIs`: a page read at its offset continues the pages before it.

Every invariant and action property of a passing run is thus stated by a theorem.
Model-checked only is liveness, which is out of the prover's reach:
`LockComesFree`, `QueuedArrives`, and the fairness in `ImplementsMailbox`.

## Where documents and code disagree

With a run (`findings` in `PROJECT.json`): a transfer overlapping a sale
(`InventoryService.cpp:199`), a converted document coming back
(`CreditRepository.cpp:72`, `SaleRepository.cpp:511`), a database of an earlier
version refused at every start (`DatabaseManager.cpp:65`), a scrolled search that
forgets its text (`MgmtControllers.cpp:119`).

The transfer: `TransferKeepsAggregate` speaks of the step in which a transfer itself
commits, and that is the step in which the trace ends.

Met while modelling, visible in the modules, and excepted by the property or kept
out of the passing runs by their instance:

Stock and products
- `registerAdjustment`, and `registerWaste` likewise (`InventoryService.cpp:96`),
  computes the new *aggregate* and writes it into the ledger row of the main
  warehouse, so with units elsewhere the aggregate ends above the figure the
  movement and the result report: with 2 in the main warehouse and 1 elsewhere, an
  adjustment of +1 leaves 5 (`tst_inventory_service.cpp:66` and `fases.md:88` have
  units in one warehouse only). `KardexIsCurrent` is claimed without adjustments, and
  says nothing of the shelves a transfer records;
- the product form can set a stock below what the other warehouses hold
  (`ProductRepository.cpp:433`), and its statements are not one transaction:
  `UnformedIsLedgerSum` speaks of products it has not written over, `LedgerInv`
  of all;
- a cancellation gives units back to the main warehouse, wherever they came from:
  `ShelvesRestored` speaks of sales of the main warehouse;
- a document converted from a sale clones its lines, and cancelling both returns
  the units twice (`SaleRepository.cpp:487`, `SalesService.cpp:573`): in `Stock`
  only sales are cancelled, which is what `UnitsAccountedFor` speaks of;
- a cyclic count whose mark is lost is applied again: `ClosedCountWasApplied`
  says at least once;
- seeded products have a stock but no ledger rows until the next start's
  backfill; a product born without units and first received at another warehouse
  has its stock counted twice by that backfill, said to insert only what is
  missing; a removal is two statements without a transaction, and nothing refuses
  to remove a component of a kit, not even between its look up and the insertion of
  the kit, which is then born naming a product there is not (`RowsAgree`,
  `KitsAreComplete` name what they except).

Documents, clients, till
- two cajas sell on credit to one client, each within the limit, together above
  it (`SalesService.cpp:409`): `DebtWithinLimit` is checked with one terminal;
- a payment overlapping another payment, an advance or a cancellation overwrites
  the row from its snapshot, loses the other payment or revives a cancelled sale
  (`CreditRepository.cpp:88`): `AbonosOnTheSale`, `CancelledForGood` with one;
- two cajas issue credit notes above the invoice (`SaleRepository.cpp:636`), open
  the till at once, or close it with an amount read before a sale
  (`CajaRepository.cpp:54`, `:100`): `TurnsAndNotesClose` with one;
- a sale in state *Pendiente* may be advanced to any state
  (`SaleRepository.cpp:588`), and an advance to *Pagada* does not discharge the
  client; instalments discharge the client only with the last one, by its own
  amount (`CreditRepository.cpp:96`): `DebtIsOpenCredit` excepts clients with
  instalments and its run has no advances, `CreditWithinLimit` says which
  documents it excepts;
- a client renamed or removed while it owes leaves sales that can neither be
  settled nor cancelled; a renaming is not checked without regard to case, so two
  clients may share a name and both be charged; updating a row removed meanwhile
  dereferences an empty optional (`OneDebtor` excepts those names);
- series of folios that come to write the same text make the creation of a type
  fail for ever, because the counter rolls back with it: two counters under one
  prefix (the till's "V" with another counter among them, which nothing refuses), or
  a prefix that is another one followed by figures ("NC" and 1001, "NC1" and 001), or
  the counter of the orders, which an order that was slow sets back.
  `SeriesNeverStuck` claims the next folio free while none has been in force
  (`Apart`), and that no other counter skips a number. `Counters::next` warns and goes on
  if its `UPDATE` fails; the model takes a refused statement as the end of the
  handler;
- if SQLite ends a transaction by itself and the handler ignores the result of
  that statement (`SalesService.cpp:484`), the rest runs in autocommit:
  `NothingHalfway` and `ImplementsStore` are checked with `EngineMayRollBack =
  FALSE`, and with TRUE they do not hold. A `SAVEPOINT` opened after that begins
  a transaction, and its release commits it.

Point of sale
- a serial of another product is taken by `setLineSerial` and `buildTotals`; a
  unit set by hand to *rma* and back keeps its sale, and the cancellation of that
  sale passes it by (`UnitFollowsSale` excepts units set by hand);
- two cajas paying with one code may exceed its limit (`PromoRepository.cpp:223`);
  a use is not given back by a cancellation; codes are looked up without regard to
  case and unique with it; `add` of an inactive promotion dereferences an empty
  optional;
- the cart shows retail totals while a wholesale client is charged wholesale.

Purchases
- two cajas may order under one number, since it is given outside of any transaction
  (`PurchaseService.cpp:34`); the primary key refuses the second, and `Purchases`,
  where an order is named by its row, has the first;
- two receptions of one order that overlap bring in more than the order shows;
  a payment that overlaps a reception loses the growth of the balance; a
  cancellation may overlap a reception (`Orders` excepts those orders and
  says nothing less of the others);
- a settled payable that grows stays *Pagada*, a payment of one cent of a settled
  one is taken, and the early-payment discount is reported and never applied.

Outbox
- a synchronisation starts when somebody clicks, never by a timer; `attempts`
  grows with a success only, so no row is ever *failed*, though the header promises
  retries with backoff; cancellations are not queued; a sale whose caja dies, or
  whose `INSERT` is refused, after the commit is never queued.

Authentication
- after a lock expires one wrong password locks again, where `MAP_PRO.md:129` and
  `AuthService.h` name three; two logins that overlap lose a count, and the later
  failure may write a lock away (`ThreeFailuresLock` excepts them);
- a login that stores an old password in the new format while an admin sets
  another one brings the old one back; a recovery code used at two cajas at once,
  and a token redeemed at two, are accepted twice;
- `updateUser` writes the password before it refuses the role; `confirm2fa`
  enables whatever secret is stored when it writes; a session keeps the role of a
  user that was changed, blocked or deleted; from the page that waits for a second
  factor there is no way back but to end the program. `requestRecovery`,
  `redeemRecovery`, `updateUser` and `regenerateRecoveryCodes` are called by tests
  only.

Settings, lists, categories, database
- the page sends all its fields, so saving a page loaded earlier puts the other
  cajas' older values back; `default_tax_rate` is not validated; what another caja
  saved is seen after the next load;
- seeds replace settings (`celulares.sql`, `INSERT OR REPLACE`), although the
  seed dialog and the documents say they do not;
- a short page followed by new rows skips the rows that fill it up; a change of
  the line of business between two pages mixes two lists; the count and the first
  page are two statements;
- a removal compares categories as they are written while saving a product
  compares them without regard to case; renaming, which no page does, leaves the
  products with the old name (`NothingOrphaned` excepts them);
- a torn copy, of a caja that died in `VACUUM INTO`, has the name of a backup and
  counts among the `keep` that are kept, as does one that is being written: what
  `BackupsRestore` says is kept are copies begun, and that those which ended are of one
  moment; removals of cajas that copy at once may leave fewer whole copies than
  `keep`;
- the names and times of the copies are read once and removed from the end of that
  list (`DatabaseManager.cpp:441`): a copy listed while another caja still wrote it is
  removed by the time it had then, though it may by now be the newest, where line 435
  and `SettingsPage.qml:408` say that the most recent are kept. `BackupsRestore` says
  only that as many others as are kept were written since it was begun;
- a file of a later version is altered before it is refused; when two processes
  start on an old file at once, the second `ALTER` fails and ends its process.

## Not modelled

Parts of the modelled components: lots and expiry dates, prices and taxes of the
lines of a sale, the split of mixed payments, discounts and dates of promotions,
warranties, ageing and interest (computations over amounts and dates); suppliers
(a form over one table without relations that a handler checks); the settings that
are a range check each; HMAC, base 32 and PBKDF2.

Components: reports and dashboard (read only), tickets, logging, metrics and crash
reports (write only), the user interface (each call of a controller is the start of
a handler here), the event bus (synchronous, after the commit, refreshing views),
the audit log (nothing reads it to decide), money, taxes and the electronic invoice
(pure functions of numbers and strings, without state, covered by unit tests).

## Plan

1. `Money`: rounding, rates and the split of mixed payments as pure functions
   against reference definitions, over bounded amounts.
2. Proofs: what is proved of `Sales` is so with one terminal or with no document
   advanced; a history of the handlers that overlapped, as in `Promotions`, would
   say the same of any number of terminals.
3. A composition of `Stock`, `Sales` and `Checkout` over one step of a sale, if
   smaller instances of the three leave room for it.
