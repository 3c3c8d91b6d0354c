# Retailify API: TLA+ verification

This directory holds TLA+ modules that model the server of the Retailify shop
(NestJS, Prisma, PostgreSQL), the TLC configurations that check them on small
instances, and TLAPS proofs of the properties for every instance. Paths below
are relative to `src/src/` unless they start with `prisma/`.

The server is one Node.js process and a database. Almost every hazard in it has
one source: a handler reads, decides and writes in several statements, other
handlers run between these statements, and any of them may fail. The models are
therefore about handlers as processes, and a statement as a step.

## 1. Inventory

### Components

**Cash register** (`system/points-of-sale/shifts`)
- State: `pointOfSale.balance`, `cashierShift`, the rows of `transaction`.
- Operations: open a shift (`create`, which deposits the starting cash), `deposit`,
  `withdrawal`, `update`, `close`; a nightly job `closeAllShifts`.
- Hard: no handler opens a transaction; the balance is checked in one statement and
  decremented in another; ledger row and balance are written side by side.
- Correct when: the till is what the ledger says but for half-done movements; it is
  overdrawn by no more than the race allows; shifts get closed, and are opened again only by an
  update that says so.

**Orders and refunds** (`system/orders`, `system/refunds`)
- State: `order`, `customerOrderItem`, `refund`, `refundItem`, the stock, the shift's flag.
- Operations: `create` of each; `findAll` and `findOne` read.
- Hard: checks before the transaction, row locks taken line by line, deadlocks, rollback.
- Correct when: the three levels of the stock agree, the stock is what the recorded
  documents leave of it, nothing is recorded in a shift that was closed before the call.

**Inventory adjustments** (`system/inventory-adjustments`)
- State: `inventoryAdjustment` and its lines, its reasons, the stock.
- Operations: `create`, `update`, `archive`, `restore`; `createReason`, `updateReason`,
  `removeReason`.
- Hard: each quantity is a statement of its own, outside any transaction; `archive`
  sends them outside the transaction it opens; no handler looks at `isArchived`.
- Correct when: what a document records is what its calls have moved.

**Goods receipts** (`system/goods-receipts`)
- State: receipts with their lines and invoices, the rows and totals of the stock, the
  supplier's debt.
- Operations: `create`, `update`, `archive`, `restore`.
- Hard: the record is written in a transaction and its effects before or after it; updates
  apply differences to what was read; a missing amount and an amount of 0 are mixed up;
  some updates always fail halfway.
- Correct when: stock and debt are what the receipts that are not archived say.

**Inventory transfers** (`system/inventory-transfers`)
- State: transfers and their items, reasons, the rows of the stock.
- Operations: `create`, `update`, `archive`, `restore`; the reasons' own.
- Hard: a destination row is looked up and then created; an update takes the row's quantity
  for the transfer's; `archive` and `restore` do not look at `isArchived`; a restore may create
  a row without a warehouse.
- Correct when: a transfer has moved what it says, and a variant has one row in a warehouse.

**Financial transactions, suppliers, custom operations**
- State: payments, `supplier.totalOutstandingBalance`.
- Operations: `create`, `update` of payments; the suppliers' and operations' records.
- Hard: payment and balance are written side by side, or one after the other; an update
  works with what it read.
- Correct when: the outstanding balance is what invoices and payments say.

**Warehouses and points of sale** (`system/warehouses`, `system/points-of-sale`)
- State: `isArchived`, and the goods that are kept.
- Operations: create, update, archive, restore.
- Hard: goods are counted when a warehouse is restored, in statements before the one that
  restores it, and not when it is archived.
- Correct when: a warehouse comes back empty.

**Staff sessions and accounts** (`system/auth`, `system/employees`, `system/users`)
- State: users, passwords, `rtHash`, allowed e-mails, pictures.
- Operations: sign up, log in, refresh, log out, password, `updateMe`; `create`, `update`,
  `remove` of employees.
- Hard: a token's hash is read, verified and overwritten in separate statements; users and
  allowed e-mails are two tables kept together by hand.
- Correct when: one refresh token at most is in force, and it came from a verification; the
  e-mail of a user is allowed, and nobody's is not.

**Storefront accounts, customers** (`storefront/auth`, `storefront/customers`, `system/customers`)
- State: one-time codes in memory, customers.
- Operations: `sendOtp`, `validateOtp`, `signUp`, refresh, log out, change of the number; the
  staff's create, update, remove.
- Hard: codes are lost with the process; calls come in an order; an e-mail is looked up
  before the insert; a number is stored in two forms.
- Correct when: whoever was told to sign up can; a code changes one number.

**Catalog** (`system/products`, `variants`, `categories`, `category-groups`, `characteristics`,
`brands`, `colors`)
- State: the tables and the files of the media.
- Operations: create, update, archive, restore, edits by batch; removals.
- Hard: what a product consists of is written side by side; titles repeat what other tables
  say, which are renamed; SKUs come from a count; checks of use come before removals; two services check each
  other's tables.
- Correct when: titles name what a product has, by a name that it has or had; media have their
  files; descriptions stay; the next SKU is free.

**Product import** (`system/import`)
- State: the catalog, its stock, a cache of the schema in memory.
- Operations: the import of a file, as upserts in one transaction.
- Correct when: what a file says is added once, to the right product, and totals follow rows.

**Lists and queries** (the `findAll` and `findAllInfiniteList` of every service,
`common/utils/db-helpers.ts`): cursors and pages over tables that others change, ordered by one
column that is not unique. Correct when what stays there, and does not tie, is shown, once.

**Simple catalogs, storage and SMS, application shell**: tables with one statement per
operation; calls of outside services; wiring. Section 7 says why these are not modelled.

### How they interact

Everything shares one database. Orders and refunds read the shift that the cash register
opens and closes. Orders, refunds, adjustments, transfers and receipts all increment the
same columns of the stock: `variantToWarehouse.warehouseQuantity`,
`variant.totalWarehouseQuantity`, `product.totalWarehouseQuantity`. Receipts and payments
share the supplier's debt; receipts and transfers create rows in the same warehouses, which
may be archived. Both kinds of accounts get their tokens from the same code. The staff and the
storefront write one table of customers. Products, imports and categories share the catalog. The
nightly job is a timer callback in the same process.

The hazards, each with its line and the properties about it, are listed under `hazards` in
`PROJECT.json`.

## 2. How the code is read

- A call of a handler is a process `c` in `Calls`, numbered by arrival; the number is also
  the id of the row it inserts. What is there to begin with has the id 0 (and 10 for a second
  category). A call that is over forgets what it knew, unless a property is about it.
- One Prisma call, with its nested writes, is atomic. `$transaction` is all or nothing, at
  PostgreSQL's default READ COMMITTED. `{ increment }` and `{ decrement }` are atomic.
- The writes of a `Promise.all` without a transaction execute in any order. Each may fail; the
  others are not called back. The reads that begin a handler are taken as one step.
- A restart ends every running call at once; what it had written stays, and what was in the
  memory of the process (codes, the cache of the import) is gone.
- Nothing strips what a DTO does not declare (`main.ts:12-17`), and an `update` that writes its body
  as it is (`data: updateShiftDto`) writes that too. Of such bodies the models have the `isOpened` of a shift
  (`Corrected`, `ReopenShift`), as closing is what properties are about; section 7 lists the others.
- The client names ids it was shown, or a wrong one. It may send any number the DTO lets pass:
  amounts and quantities are any integers unless an assumption says otherwise. In a receipt or
  a transfer it names a variant once.

There are two ways of writing a handler down. `CashRegister`, `Sales` and `Adjustments` each
have a program counter and places of their own, as theorems are proved about them. The later
modules share `Handlers`: a call is a sequence of *stages*, each a set of statements.

| `Handlers` | Code |
|---|---|
| `Receive` | the router calls the handler; its first stage is the read it begins with |
| `GoOn` | after a read: the statements the handler will send, stage by stage |
| `Refuse` | it throws before it has written anything |
| `Executed` | one statement of the stage is done; with the last one the next stage is sent |
| `Followed` | a statement is done and another one, of the same branch of `Promise.all`, is sent |
| `Lose` | a statement fails; those beside it still execute, the later stages are never sent |
| `Restart` | the process stops: all running calls are cut off |

`disturbed` is a history of the documents for which nothing is promised: two calls were at work
on one of them at once, a statement failed, or a restart cut a call off. Each service adds to it
the calls that do not leave what they should even by themselves, by a named definition
(`AccountedUpdate`, `AccountedReceiptUpdate`, `AccountedTransferUpdate`, `Unaccounted`,
`KeepsName`, `Misplaced`, `DisturbRivals`). These definitions are results: they say where the code loses track,
and the properties say that it does so nowhere else. `overlapped` says that two calls, of any
kind, were at work at once. No guard reads either.

Such a property says nothing of the hazard itself: the documents that a race, a failure or the
code's own omissions have spoiled are no violation of it. It says that nothing else spoils one. The
hazards in `PROJECT.json` have a note where this is so.

Times, texts and names are left out, except the number in the name of a shift, the titles of
products with the names that they copy, and the second in which a token is signed. `closedAt` is set with `isOpened = false`
and stands for it.

## 3. Modules

| Module | What it is |
|---|---|
| `Sums` | `SumTo(f, n)`: a finite sum as a recursive function |
| `DataProofs` | lemmas on sums (change in one place, difference, order, exchange of rows and columns) and on sequences of stages |
| `CashRegister` | `ShiftsService`: every operation that writes, and the nightly job |
| `CashRegisterProofs` | its theorems |
| `StockLevels` | abstract: lines applied at the three levels of the stock |
| `StockLevelsProofs` | the levels agree |
| `StockBook` | abstract, extends `StockLevels`: documents posted at once, only once |
| `Sales` | `OrdersService.create` and `RefundsService.create`; implements `StockBook` |
| `SalesProofs` | its theorems, the refinement among them |
| `Adjustments` | `InventoryAdjustmentsService`; implements `StockLevels` |
| `AdjustmentsProofs` | its theorems |
| `Staging`, `Handlers` | how a handler runs: stages of statements, failures, restarts |
| `HandlerSteps` | definitions by which the theorems speak of a step of a handler |
| `StockRows` | the rows of variants in warehouses, of which there may be none or several |
| `Payments` | `FinancialTransactionsService` and the suppliers' balances |
| `Receipts` | `GoodsReceiptsService` |
| `Transfers` | `InventoryTransfersService` |
| `Premises` | `WarehousesService`: archive and restore |
| `Warehousing` | the four services above, composed on the same rows and balances |
| `WarehousingProofs` | its types, the rows of variants, warehouses that come back into use |
| `BooksProofs` | its documents account for the stock and for the debts |
| `TokenGrants` | abstract: refresh tokens come into force by verification, once |
| `Sessions` | refresh tokens, in both `AuthService`s |
| `Staff` | `AuthService`, `UsersService`, `EmployeesService` |
| `Storefront` | storefront `AuthService` and `CustomersService`, and the staff's `CustomersService` |
| `Accounts` | the three modules above, composed; implements `TokenGrants` |
| `AccountsProofs` | its theorems |
| `Categories` | categories, their groups, characteristics, values, brands, colors |
| `Products` | `ProductsService`, `VariantsService`, the files of media |
| `ProductImport` | `ProductsImportService` |
| `Catalog` | the three modules above, composed |
| `Lists` | a client that reads any list of the application while others change it |
| `MCSales`, `MCAdjustments`, `MCWarehousing`, `MCAccounts`, `MCCatalog`, `MCLists` | instances for TLC |

`CashRegister` is checked as it is, with its constants given in the configurations.

There are three abstract specifications. `StockLevels` says only that increments reach the three
levels together. This is all that adjustments promise, as their quantities are separate
statements. `StockBook` adds that a document is one step. This holds for orders and
refunds, which use a transaction, and fails for adjustments. `TokenGrants` is what the two
`AuthService`s promise, with the staff and the customers as its accounts.

### CashRegister

| Action | Code (`shifts.service.ts`) |
|---|---|
| `CountShifts`, `InsertShift` | `create`: the count, the insert; then as `deposit` |
| `ShiftMissing`, `ShiftForbidden`, `GetShift` | `getShift` and the check of the cashier |
| `GetPosForDeposit`, `GetPosForWithdrawal` | the read of the till and the check of the balance |
| `CreateTransaction`, `UpdateBalance`, `LoseWrite` | the two statements of `Promise.all` |
| `CloseShift`, `UpdateShift`, `CloseAllShifts` | `close`, `update`, the `@Cron` job |
| `Restart` | the process stops and starts |

`call[c].stmt` tells which of the two writes of a cash movement are done; it outlives the
call, for `DriftExplained`. `ledger` has the rows of deposits and withdrawals only: orders and refunds
also insert rows that name a shift, and these do not move the till. An `update` writes what its body
says (`Corrected`): the starting cash, and `isOpened` if it is there, which the DTO does not declare. The role is that of the user's record as the service reads it.
Controllers admit only tokens of administrators, but the record may have changed since the
token was signed, so the branches for cashiers can be reached.

### Sales

A call checks (`Admitted`), fixes the rows of its document (`SoldLines`, `ReturnedLines`),
then runs a transaction that updates three database rows per line and keeps their locks
(`UpdateRow`, `WaitsFor`). `Commit` makes all of it visible. `DeadlockVictim` is PostgreSQL's
way out of a circle of waiting, and `Abort` a timeout, a lost connection, an item that is not
there or a restart. The code builds a document's rows in the order in which the reads of its
items finish, hence every permutation. `Stocked` tells which variants have a row in which
warehouse; an item without one is left out of the order, as in the code. The order in which one nested
update locks its rows, and deadlock detection, are PostgreSQL's and Prisma's, not this
repository's. They are marked external in the map.

### Adjustments

| Action | Code (`inventory-adjustments.service.ts`) |
|---|---|
| `Refuse`, `Begin*` | the reads at the start of a handler |
| `FindLines`, `FindNewLines` | the `findMany` of the rows of the document |
| `UpdateQuantity`, `LoseMove` | one of the statements of `updateQuantity` |
| `WriteHeader`, `LoseHeader` | the statement of the document beside them |
| `ContinueUpdate`, `WriteLines`, `LoseLines` | `updateInventoryAdjustmentProductVariants`, with `compareArrays` as `NewItems`, `Updated`, `Deleted` |
| `CommitArchive`, `LoseArchive` | the end of the transaction of `archive` |
| `Return`, `RejectFailed` | the end of the other handlers |
| `CountAdjustments`, `DeleteReason` | `removeReason` |

Two facts shape it. When a document has several lines for one row, the code takes
`inventoryAdjustments[0]` of an unordered read, hence the choice in `OnePerRow`. And
`deleteMany: deleted` gets whole objects, read with the relation `variantToWarehouse`
included. Prisma's scalar filters have no such field, so the client refuses the statement:
`WriteLines` has no step when a line has to be deleted, only `LoseLines`. The old quantities
are by then taken back.

`moved` and `disturbed` are history variables: what the calls on a document moved, and which
documents had calls that overlapped, failed, named a row twice, or came when the document was
archived already (or, for `restore`, was not). No guard reads them.

### Warehousing

`Receipts`, `Transfers`, `Payments` and `Premises` work on `rows[v][w]`, the sequence of the
quantities of the rows that variant `v` has in warehouse `w`, `total[v]` and
`balance[supplier]`. There can be several rows, as the pair is an index and not unique; `Nowhere`
is the warehouse of rows without one.

| Action | Code |
|---|---|
| `CreateReceipt`, `RecordReceipt` | `GoodsReceiptsService.create`: the reads; its transaction |
| `IncrementTotal`, `IncrementRows` | `incrementQuantity`, a statement each |
| `UpdateReceipt`, `RereadLines`, `WriteLine`, `RewriteReceipt`, `FailRefused` | `update`, stage by stage; the statement with new lines, that the database client refuses |
| `ArchiveReceipt`, `IncrementEverywhere`, `MarkReceipt` | `archive`, `restore` |
| `CreatePayment`, `UpdatePayment`, `WritePayment`, `UpdateBalance` | `FinancialTransactionsService` |
| `CreateTransfer`, `UpdateTransfer`, `ArchiveTransfer` | `InventoryTransfersService`: the reads, and `MovesOfUpdate`: which goods go where |
| `LookUp`, `Commit` | the rows that are found; the transaction |
| `CreateReason`, `CountTransfers`, `DeleteReason` | the reasons of transfers |
| `ArchiveWarehouse`, `CloseWarehouse`, `RestoreWarehouse`, `CountGoods`, `OpenWarehouse` | `WarehousesService` |

A transfer moves goods in one of five ways, each a function of the code: `Ship`
(`moveNewVtwsToDestinationWarehouse`), `Carry` (`moveExistingVtwsToNewWarehouse`), `Return`
(`moveVtwsToSourceWarehouse`), `Resend` (`moveVtwsToDestinationWarehouse`) and `Level`, the
correction of a quantity. The ways differ in what they do when a row is missing.

What the code does to itself, as `disturbed` has it:
- an update of a receipt that brings a new line fails after the stock has moved; one that
  leaves the supplier out takes the debt from the old supplier and then fails; a missing amount
  counts as 0, and an amount of 0 leaves nothing outstanding;
- `archive` of a receipt takes the quantities from the rows of *every* warehouse that has the variant;
- a transfer's correction takes what is in the row for what the transfer brought, so it is right
  only if nothing else is there;
- an update of a payment that leaves the amount or the supplier out counts the amount as 0, or
  moves no balance.

### Accounts

| Action | Code |
|---|---|
| `SignTokens`, `StoreHash` | `signTokens`, `updateRefreshTokenHash` |
| `RefreshToken`, `LogOut` | of both `AuthService`s |
| `SignUp`, `LogIn`, `InsertUser` | `system/auth` |
| `ReadUserForPassword`, `SetPassword` | `UsersService.updatePassword` |
| `CreateEmployee`, `UpdateAccount`, `UpdateUser`, `Allow`, `Disallow`, `RemoveEmployee`, `DeleteUser` | `EmployeesService`, `UsersService.updateMe` |
| `SetKey`, `UploadPicture` | the picture in `updateMe`: the row and the file |
| `SendOtp`, `ValidateOtp`, `FindCustomer`, `ForgetCode`, `GetCustomer`, `SignUpCustomer` | `storefront/auth` |
| `SendChangeOtp`, `AcceptCode` | `storefront/customers` |
| `CreateCustomer`, `UpdateCustomer`, `ReadCustomer`, `DeleteCustomer` | `system/customers` |
| `PassSecond`, `Crash` | the clock; the process with its codes |

A token is `<<account, second>>`, as `jsonwebtoken` signs nothing else: two tokens of one second
are equal. `TokenGrants` gets `InForce` from `session` (the hash in the row, or none) and
`verified` from the calls that have been admitted and have a `sign` or `store` statement
before them. A new password or a log-out revokes; a call that had been verified before
may still be granted a token afterwards, in the code and in `TokenGrants`.

A phone number has two forms in the table: the storefront writes a plus sign and the digits
(`TransformPhoneNumber`), the staff groups of digits (`formatInternational`). The unique index and
the lookups take them for different numbers. So a customer whom the staff has written is unknown
to the storefront and can sign up beside; numbers are unique form by form only (`TypeOK`).

`DisturbRivals` is about two users and one e-mail. A call that gives an e-mail to its user (it signs
up, is created or is updated) and one that takes the e-mail from another user each send a
statement on the user and one on the allowed e-mails, and nothing orders the four. So an employee
may be created with the e-mail that another one has just left, and lose it to the late `disallow` of
the update beside it; or a user signs up with the e-mail of somebody whose removal has not yet
disallowed it. The call that gives the e-mail is then disturbed. Three calls are needed to see this
(two on one user leave the e-mail free for the third); it showed when `EmailsAllowed` was to be
proved and its first invariant was not inductive.

### Catalog

| Action | Code |
|---|---|
| `CreateProduct`, `InsertProduct`, `InsertVariants` | `ProductsService.create`, `createProductVariants` |
| `UpdateProduct`, `RewriteProduct`, `ChangeMedia`, `DeleteFiles`, `ChangeColors`, `ChangeValues` | `update`, side by side |
| `BatchEdit`, `UpdateMany`, `DropColors`, `CreateColors`, `BatchProduct`, `ReadTitles`, `WriteTitles` | `batchEdit` |
| `ArchiveProduct`, `CreateVariant`, `UpdateVariant`, `ArchiveVariant` | `archive`, `restore`, `VariantsService` |
| `CreateAttribute`, `CountUsers`, `DeleteAttribute` | create and remove of characteristics, values, brands, colors; what the database does to rows that refer to them |
| `UpdateAttribute`, `RenameAttribute` | `update` of brands and colors: the read, the new name |
| `CreateCategory`, `InsertCategory`, `UpdateCategory`, `RewriteCategory`, `ArchiveCategory` | `CategoriesService` |
| `CreateGroup`, `UpdateGroup`, `RewriteGroup`, `ArchiveGroup`, `RestoreGroup` | `CategoryGroupsService` |
| `ReadSource`, `Import` | `ProductsImportService`: the header and source; its transaction at the commit |

A title is the record of the names it is put together from, as they are when it is put together
(`AssembleName`); `names` has the names of brands, colors and categories (their `productName`) that were
renamed, and the first name of each is written as its id. A SKU is the sequence of its parts. The
import is a fold over the entries of the file, which are runs of consecutive rows (`GroupRows`).

### Lists

`AllLists` has every list of the application, by what matters: whether it is scrolled or
paged, how it is ordered, how many rows it takes for its cursor, and whether its items are
archived, deleted or stay. Pages may also be ordered by a column that the client names
(`buildOrderByArray`). One reader reads one of them to its end, statement by statement, while
items come (`Create`, `Restore`), go (`Leave`) and get another key (`Move`).

No list has a second column for rows that tie on the first: `createdAt` is equal for rows of one
`createMany`, and names are not unique. So `Orders` has every order that a query may answer in, and each
query takes one anew. With such an order Prisma cuts the rows off before the cursor in its own memory,
after the database has applied the filter. `From` is therefore empty if the cursor's row is archived or
deleted: the scroll ends. How Prisma does this is not in this repository; it is marked external in
the map.

## 4. Runs

| Run | Module | Bounds | States | Properties |
|---|---|---|---|---|
| `cash` | CashRegister | 1 till, 1 administrator, amounts 1 and 2, 3 calls | 3.5 M | `TypeOK`, `DriftExplained`, `OverdraftBounded`, `CreatedShiftIsFunded` |
| `cash_live` | CashRegister | 2 tills, an administrator and a cashier, amount 1, 2 calls; fair | 36 k | `OldNamesNotReused`, `CallsEnd`, `ShiftsClose` |
| `overdrawn` | CashRegister | 1 till, amount 1, 3 calls | stops early | `NeverOverdrawn` (violated) |
| `sales` | MCSales | 2 variants of 1 product, 1 warehouse, 3 documents of up to 2 lines | 860 k | `TotalsAgree`, `StockConserved`, `ImplementsBook` |
| `sales_shifts` | MCSales | 3 shifts, 2 warehouses, one shift without a warehouse, one variant not kept in one; 2 documents; fair | 84 k | `TypeOK`, `NothingAfterClosing`, `CallsEnd` |
| `order_in_closed_shift` | MCSales | 1 shift, 1 variant, 2 documents | stops early | `OrderInOpenShift` (violated) |
| `adjustments` | MCAdjustments | 2 rows, 1 reason, quantities 1 and 2, 2 calls of up to 2 items | 1.2 M | `TypeOK`, `TotalsAgree`, `DocumentsAccountForStock`, `UpdateTakesEffect` |
| `reason_in_use` | MCAdjustments | 1 row, 3 calls | stops early | `ReasonsInUseStay` (violated) |
| `warehousing` | MCWarehousing | 2 variants, 2 warehouses (one archived), 2 suppliers, a document of each kind; 2 calls | 451 k | `TypeOK`, `StockAccounts`, `DebtAccounts`, `RowsUnique`, `RestoredEmpty` |
| `accounts` | MCAccounts | a user, a customer, 3 e-mails, 2 phones, 2 passwords, 2 seconds; 3 calls | 2.3 M | `TypeOK`, `EmailsAllowed`, `NoEmailLeft`, `FirstTimersCanSignUp`, `CodeChangesOnePhone`, `EmailsOfCustomersDiffer`, `GrantsTokens` |
| `catalog` | MCCatalog | 2 products (one imported), 2 categories, 1 group, 2 brands, 2 colors, another name, 3 media, 3 files, 2 warehouses; 2 calls | 788 k | `TypeOK`, `TitlesNameProducts`, `MediaHaveFiles`, `NextSkuFree`, `GroupsAndCategoriesDisjoint`, `TotalsFollowRows`, `DescriptionsStay`, `FileImported` |
| `lists` | MCLists | every list; 3 items, of which neighbours may tie, and room for one more; 1 or 2 at a time; 2 changes | 1.6 M | `TypeOK`, `AllShown`, `NothingRepeated` |

`NCalls`, `NDocs`, `MaxItems`, `LastSecond`, `Places` and what clients may ask for (`Requests`,
`Deliveries`, `Shipments`), and in `Lists` `Limits`, `Items`, `Keys` and `NChanges`, are the only bounds that
the code does not have. Deadlock is not
checked: a system that has served its last call may stop.

Why these bounds are enough:

- *Cash.* An overdraft needs a shift with cash and two withdrawals that race: three calls. With
  the amounts 1 and 2, one withdrawal can be larger than another and than the till. Both tills
  matter only to numbering and closing, hence the second instance. A shift's name needs two
  creates; that two suffice for `OldNamesNotReused` is not left to trust, as the theorem covers
  every number of calls.
- *Sales.* Two lines and two variants make circles of waiting; a third document lets two refunds
  of one order race. Quantity 2 tells a moved quantity from a moved unit.
- *Adjustments.* With two items there are new, updated, deleted and doubled lines, and two rows
  give the statements an order. A restore of what was archived takes a third call, which these
  bounds leave out; with one row and lines of one item, three calls hold as well (1.3 M states,
  `NVariants = 1`, `NCalls = 3`, `MaxItems = 1`), and the theorems cover any number.
- *Warehousing.* Every document that a call can change is there to begin with, so two calls can
  race on it, or follow each other: an archive after an update, a receipt into a warehouse that a
  transfer is creating a row in. One variant has no row in the second warehouse, so rows
  are created.
- *Accounts.* Codes need three calls: one that sends it and two that use it. Calls that need no
  code are in the first two, so that a log-in, a refresh, a log-out and a change of the password can meet in
  pairs; a third change of a user's e-mail can follow two that left it free. Two seconds are enough for two tokens that are equal and two that are not.
- *Catalog.* Two calls race on one product or on the taxonomy; a rename comes before, after or between the
  statements of a create or an edit by batch; a key is sent whose file an update has deleted. The files have a product in two
  runs of rows, two variants of a product, an unknown SKU, and a variant of another product.
- *Lists.* With one or two rows at a time, three items and one to come there are lists of up to four
  pages, that end in the middle of a page, at its end, and one after. Two changes suffice for a cursor
  that is archived and comes back, and for an item that moves over the cursor and returns. The list of
  categories takes several rows above its limit. Three changes hold as well for one row at a time (8.2 M
  states).

### What the properties say

Cash, sales and adjustments:
- `DriftExplained`: the till differs from its ledger exactly by the movements of which one of
  the two writes is done.
- `OverdraftBounded`: a till is negative only if granted withdrawals raced, and by no more than
  all of them but one. Negative amounts pass the DTO (`IsNumber`) and would break this: a
  "deposit" of a negative amount is not checked. `AmountsAssumption` excludes them.
- `CreatedShiftIsFunded`: a `create` that returned left its shift, the ledger row and the
  increment.
- `OldNamesNotReused`: overlapping creates may number alike, but a shift never gets the
  number of one that was there before its create counted.
- `ShiftsClose`: a shift that is open is closed in the end, however often it is opened again, and a closed
  one is opened only by an update whose body says so: not by one that only corrects the cash, whose
  handler read the shift before the job closed it.
- `CallsEnd`: liveness, below.
- `TotalsAgree`: totals of variants and products are the sums of the level below.
- `StockConserved`: the stock is what there was, less the sold, plus the returned rows.
- `ImplementsBook`: the refinement of `StockBook` by `Sales`.
- `NothingAfterClosing`: a call that arrives after the closing of a shift is not recorded in it,
  unless it is an administrator's refund, or an update opens the shift again (`ReopenShift`).
- `DocumentsAccountForStock`: for documents at rest that nothing disturbed, the recorded
  quantities are what was moved; and what was moved is the whole change of the stock.
- `UpdateTakesEffect`: an update that returns and was not disturbed leaves the lines it was sent.

Warehousing:
- `StockAccounts`: a receipt or transfer at rest has moved exactly what it says, to each row and
  total, however the calls on *other* documents ran beside it. Every step's effect is booked to
  the document of its call (`effect`), so a step that spoils another document's goods shows.
- `DebtAccounts`: the same for what is owed to each supplier.
- `RowsUnique`: calls one at a time never leave two rows for a variant in a warehouse. Two at
  once do.
- `RestoredEmpty`: calls one at a time never bring a warehouse back with goods in it.

Accounts:
- `GrantsTokens`: the refinement of `TokenGrants`: a token comes into force only for a
  call that was verified, by a password, a code or the token in force, and once for each.
- `EmailsAllowed`: a user's e-mail is allowed once no call is at work on the user, in whatever order
  the statements on the two tables ended, and the key of a picture has its file.
- `NoEmailLeft`: while nothing was disturbed, an e-mail without a user is allowed only if it was so
  from the start.
- `FirstTimersCanSignUp`: a code of which a caller was told "sign up" is still there, unless
  another code was sent, the number came to a customer, or the process restarted.
- `CodeChangesOnePhone`: `updateMyPhoneNumber` forgets the code before it awaits anything, so
  no two calls get past it.
- `EmailsOfCustomersDiffer`: without overlap, as only a lookup guards it.

Catalog:
- `TitlesNameProducts`: the title of an undisturbed product names the gender, the SKU, the category, the
  brand and a color that the product has now, after edits by batch whose parts execute in any order. It
  gives them a name that they have, or had: a title is a copy, and `UpdateAttribute` and
  `RewriteCategory` do not write titles.
- `MediaHaveFiles`: a product's media rows have files, while files are deleted beside rows. A product
  that is sent a key whose file is gone (by an update or an edit by batch) is disturbed.
- `NextSkuFree`: the number that the next product would get is free, unless an import brought a
  SKU that is a number.
- `GroupsAndCategoriesDisjoint`: a category and its group do not ask for one characteristic twice.
- `TotalsFollowRows`: totals of products and variants are those of the rows after any imports.
- `DescriptionsStay`: no product loses a brand, color or value that it has by the removal of it.
- `FileImported`: an import that succeeds adds what its file says, and to the products it says.

Lists:
- `AllShown`: a reader at the end was shown all that stayed and had a place of its own: an item that
  tied with the item of a cursor, or in pages with any other, may be skipped, as the next query may
  order the two the other way round. Excepted are a scroll that goes on from an item that is archived or
  deleted (it ends there) or has moved, pages from which something was removed or moved
  meanwhile, and a page between whose count and rows something came. The pages of variants ask for no
  order, so all their items tie and nothing is promised.
- `NothingRepeated`: no scroll shows an item twice that had a place of its own, unless the item of its
  cursor moved or was gone; pages do only if something came or moved meanwhile.

### Violations

Each shows that the code does what one of its messages or tests says it does not.

- `NeverOverdrawn`: two withdrawals read the balance before either decrements it.
- `OrderInOpenShift`: the shift is closed between the check and the transaction of an order.
- `ReasonsInUseStay`: an adjustment is recorded between the count and the removal of its
  reason; the database then clears its reason.

### Fairness

`WF` of `Serve(c)`: the event loop resumes a handler whose promise is settled, and the
database answers each statement, possibly with an error. It is weak and per call: the step of
a call stays enabled until taken, or until the call waits for a lock, whose holder is itself
served. There are finitely many calls, so none is overtaken forever. `WF` of `CloseAllShifts`:
the `@Cron` job fires every night, and while a shift is open it has something to do. Nothing is assumed of
clients, failures and restarts. `Adjustments` and the modules on `Handlers` have no liveness
property: their handlers neither wait for each other nor loop, so that a call ends because its
stages are finitely many, and a property would only say that.

## 5. Proofs

All theorems hold for any constants that satisfy the named assumptions: `CashAssumption` and
`AmountsAssumption`, `StockAssumption`, `DocsAssumption`, `SalesAssumption`,
`AdjustmentsAssumption`, `ItemsAssumption`, `CallsAssumption`, `SecondsAssumption`,
`RowsAssumption`, `ReceiptsAssumption`, `TransfersAssumption`, `OpeningAssumption`, `OpeningRowsUnique`,
`RequestsAssumption`. They ask for natural bounds, integer quantities, and a `None` that
is no id and no list of items. `OpeningAssumption` and `OpeningRowsUnique` say what there may be to begin with: in
`Accounts` the unique indexes of the tables hold and a user's e-mail is allowed; in `Warehousing`
a receipt owes what is not paid, a transfer has a variant once, and a variant has one row in a
warehouse or none. `RequestsAssumption` says what the DTOs let a client ask for. Only
`AmountsAssumption` excludes something clients may send. It serves `OverdraftIsBounded`;
`DriftIsExplained` needs integers only.

**Sums.** The library's induction theorems take an operator as parameter, which the
installed provers cannot use, so `DataProofs` derives induction over a set of naturals from
well-foundedness. From it follow `SumChange`, `SumMonotone`, `SumAdd` and `SumOfSums` (a
double sum can be taken by rows or by columns).

**CashRegister.** `TypeCorrect` uses `TypeOK` with a coherence predicate per call: what a
handler at each place has read, e.g. that a call that pays has a shift that exists and the till
of that shift. `TypeOK` alone is not inductive, since inserting a ledger row needs an existing shift.
- `DriftIsExplained`: every step changes both sides of the equation by the same summand
  (`SumChange`). It needs coherence so that row and balance name the same till.
- `OverdraftIsBounded`: the balance itself is no good for an induction, since it falls long
  after the check. `Free(p)`, the balance less what granted withdrawals have still to take, falls
  only at the check that grants one, and the check has just seen a balance that covers it. The
  invariant `SafeInv` is the property with `Free(p)` for the balance.
- `ShiftsKeepOldNames`: a shift's number is at most the number of shifts of its point of
  sale (`NumbersInv`), so a create that counts once the shift is there takes a larger one (`Older`).
- `CreatedShiftsAreFunded`: by the statements' states of `Settle`.

**StockLevels.** `LevelsAgree`: applying lines changes the total of a variant by the sum, over
the warehouses, of what moves in each. This is `SumOfSums` on the matrix of lines and
warehouses, and again on lines and variants for products. `Adjustments` and `Sales` inherit
`TotalsAgree` by refinement, without another look at sums.

**Sales.** `SalesInv` types what calls ask for and know, says that recorded documents are of
calls that ended, and that a call in its transaction has updated no more rows than it has.
- `SalesImplementBook`: a `Commit` is a `Post`, every other step leaves the book alone.
- `SalesConserveStock`: as in `DriftIsExplained`, with the lines of a document as the change.
- `SalesNothingAfterClosing`: for a fixed call and a shift that is closed while the call is idle and stays
  closed, the call can never be admitted to it.

**Adjustments.** `TablesTyped` and `CallsPlaced`: the latter says, per place in a handler,
which operations are there, that their document exists, and that only a working stage has
statements to send. `TypeOK` is not inductive without it, since a quantity that is sent has
the type of a line only because the document it was read from exists.
- `AdjustmentsTotalsAgree`: each `UpdateQuantity` is a step of `StockLevels`, all else stutters.
- `AdjustmentsAccountForStock`: the second half of `DocumentsAccountForStock`, what all calls
  moved is the whole change of the stock.
- `AdjustmentDocumentsAccount`: with its first half, that a document which is not disturbed
  records what its calls moved. That holds of documents at rest only, so the invariant `Books`
  says what holds meanwhile. At most one call is at work on such a document, and at each place of
  its handler (`Aim`) what has been moved, with what is still being moved, is what the document
  said when nothing was taken back yet (`find`, `header`), nothing once it was (`move` of an update
  or an archive, `lines`, `findNew`), or what it says now (`moveNew`, and `move` of a create or a
  restore). A statement that moves a line keeps the sum; one that writes the document comes where
  the sum does not count it. `Knows` adds what the handler's later steps rely on: the old lines it
  read are still those of the document, and the lines of a document are of different rows
  (`Distinct`), so that one line per row is all of them (`ChosenAll`). No other call can spoil
  that, since it would have to begin work on the document, which disturbs it.
- `UpdatesTakeEffect`: the lines an update leaves are the items it was sent. `WrittenLines` is
  about `compareArrays`: if no line is to be deleted, keeping the lines of equal quantity,
  rewriting the others and inserting the new items yields the items, one line for each. `Books`
  carries this to the return, which is three batches of statements later.

**Handlers.** Both `AccountsProofs` and `WarehousingProofs` begin with what each way of moving on
(`Executed`, `GoOn`, `Lose`, `Refuse`, `Receive`, `Restart`) leaves of a call's stages, and that it leaves
the other calls alone (`Alone`, `Stands`, `Ends`, `Resumes`); the proofs look into `Staged` no more. For
`Accounts`, whose handlers have two stages at most, that is the very stages that are left. For
`Warehousing` it is for any number of stages: what is left of them is what follows the empty ones at
their head (`StagedLeaves`).

**Accounts.** `Inv` has four parts. `CallsOK` says that every call that runs has what its handler
understands (`Understood`) and stands at a stage of its plan (`Plan`: the stages that this request can
lead to, with what the statements carry); `Tables` and `TypeOK` type the tables; `Fresh` says that who
is about to be inserted is not there. `Sending` reads off the plan what a statement that is about
to execute says of its call; almost every later step begins with it. `TypeOK` is not inductive
without the plans, as a row gets what a statement carries.
- `TypeCorrect`: by `Inv`.
- `CodesChangeOnePhone`: a code is in the map for one phone at most, a code that was accepted for none,
  and that of a call that has not sent it yet has been nowhere (`CodesInv`).
- `EmailsDiffer`: while `overlapped` is false there is one call at work, so what its read found free is
  free when it writes (`EmailInv`).
- `FirstTimersSignUp`: `OtpInv` adds that no customer has the number of a first timer and no call is
  about to forget its code, and that a `validateOtp` at work on an undisturbed number finds the code
  it showed still in force, or a customer with the number.
- `TokensGranted`: each step is a `Verify`, `Grant`, `Revoke` or `Drop` of `TokenGrants`, or a stutter; the
  stages of a plan have one `sign` or `store`, alone, so that a call is admitted for one account.
- `EmailsStayAllowed`: `AllowedInv` says of an undisturbed user that who disallows its e-mail is at work on
  it (`DisallowedByOwn`), and that its e-mail is allowed or somebody is at work on it; of an
  undisturbed call that it gives or has given its e-mail, and allows it or has allowed it, and that
  nobody is about to disallow the e-mail it has still to give (`CallKept`); that calls on one
  undisturbed user do not overlap (`OneChanging`). What a statement does is said once (`Does`), for
  its user; that it does nothing to others (`Elsewhere`) is a lemma of its own.
- `NoEmailStays`: `LeftInv`. While nothing is disturbed, an allowed e-mail was there to sign up with, has
  a user, is about to get one or is about to be disallowed; and who is about to take an e-mail from its user
  disallows it, if it is allowed, and is the only one about to give it to anybody.

**Warehousing.** A handler may send up to eight stages, so there is no list of plans as in `Accounts`.
`Inv` has what all handlers have in common. `Orderly`: the statements of a stage differ in kind or
variant, some kinds are alone in their stage (`Solo`), and a statement of a later stage has a later
kind (`Follows`, by `Rank`); so a kind of statement that is done does not come again. `Proper`: what
a statement says is of the right type, and its call was asked for something that sends it. `Tables`
and `Typed` type the rest. Each step keeps the first two by a lemma on its way to go on
(`ExecutedOnward`, `LoseOnward`, `ReadOnward`, `NextOnward`), and the tables because of what is proper.
- `TypeCorrect`: by `Inv`. That a commit leaves a transfer with items that are not empty needs what
  `deleteMany` leaves of a sequence, hence `WithoutType`, by induction.
- `RowsUniqueHolds`, `RestoredEmptyHolds`: `Solitary` says that while `overlapped` is false one call
  is at work, and that what it has found is still so: the rows that it is about to create are not there
  (`Fresh`), and where it is about to open a warehouse, what it has counted is none (`Counted`). A commit or
  a recorded receipt is the only step that adds rows (`LengthsOfSteps`), and nothing is created after it.

- `DebtsAccounted`, `StockAccounted`: neither property is inductive, as between two statements a
  document and the stock always differ. `Books` says of every account of a document (`Keys`: what is owed
  to a supplier, the total of a variant, its goods in a place) that what the calls have changed
  (`Entry`) and what the running call has still to send (`Due`, summed over its stages) are together what
  the document will say once the statement that writes it has executed (`Owes`, `Aim`), or says already.
  At most one statement of a stage bears on an account (`Single`), so a statement that executes moves
  its share from `Due` to `Entry` (`WorkExecuted`), whatever the order. For this a document that is
  not disturbed has one call at work (`Sole`), which leaves the others their books (`SameBook`); ids are new
  until their call inserts something (`Unborn`). An update of a receipt writes its lines one by one:
  `Tracks` says which are written, to be deleted or still to come. A transfer commits all its movements at
  once, so the movements found are those planned (`Prepared`, `Planned`), for rows that are still
  there (`Found`), and what each kind of movement carries is compared with the two places of the
  document, variant by variant (`Covers`, `Brought`). At rest there is nothing due, and the properties
  follow (`BooksHold`, `RestAccounts`).

**Only model-checked.** Liveness (`CallsEnd`, `ShiftsClose`), as the prover has neither
fairness nor `ENABLED`. The properties of `Lists`, which need, for any two orders of the rows that a
scroll was answered in, that they agree on what is before and after an item that ties with none; that
is not done.
`TotalsFollowRows` and `FileImported` of `Catalog`, which fold over tables and files, for the same
reason. The other properties of `Catalog` could be proved as those of `Warehousing` are, from an
invariant that says for each stage of its handlers what is known of a product; that is not done.

## 6. Plan

The modules of section 3 are written and checked, and the proofs of section 5 done. What is left
is `OrderPricing`: totals, discounts, payments and change, amounts of refunds, against a
reference definition. It is pure arithmetic on one call's data and interacts with nothing that is
modelled. And proofs for `Catalog`, of which `GroupsAndCategoriesDisjoint` and `DescriptionsStay`
come first: they rest on what the services read before they write.

## 7. Not modelled

- Tags, attributes of variants, import sources, the shop's own details, points of sale but for the till:
  one statement on one table each. So are the suppliers' and custom operations' own records.
- Storage and SMS: calls of outside services without state here, except for the files of media
  and pictures (`files`, `pictures`) and that a message that fails leaves its code.
- The application shell: wiring, validation and guards; its effect (who may call what, which
  values pass) is in the inputs of the models.
- The reading of spreadsheets and the mapping of their columns, but for whether there is a column
  for the SKU.
- Prices: of orders and refunds, and the selling prices that receipts set on variants. Packaging,
  texts, dates, tags.
- Filters and searches of lists: they select from the same tables with the same cursor and count.
- Renaming of characteristics and values, and the `name` of a category: nothing copies these names.
- Bodies with what their DTO does not declare (section 2), but for the `isOpened` of an update of a shift.
  The services write some forty bodies as they are or spread them into `data`, so that such a body may
  set any other column of its row: the name, cashier or point of sale of a shift; the balance of a point
  of sale (`points-of-sale.service.ts:264`); `isArchived` of a warehouse (`warehouses.service.ts:126-131`);
  a product's title or SKU (`products.service.ts:789`); the fields of a document beside its lines. What is checked and proved holds of clients that do not send them.
- Keys of media are sent for the products that they were uploaded for: an edit by batch that gives one
  product the key of a file that an update of another product is deleting is left out.
- In `Sales` and `Adjustments`: variants and warehouses that are removed while documents name them
  (`Stocked` is constant, and no line loses its row); a request that names a warehouse that is not
  there, which is refused before anything is written.
- In `Receipts`: the reads at the head of an update are one step. In `ProductImport`: the
  transaction is one step, at its commit; two imports at once would wait for each other's rows.
- Whether a refund may exceed its order, and what restoring a group of categories should do with
  its categories: the repository does not say, so there is nothing to check the code against.

## 8. Running

    tlc -workers 2 -config Sales.cfg MCSales
    tlapm SalesProofs.tla

Every property of a passing run has a mutant: a definition in the module, commented `Mutant of ...`,
which takes the place of the original and makes TLC report the property violated. They are
listed in `PROJECT.json`, with the map from definitions to source lines.
