# Verification of the Scope A supply chain

TLA+ models of `topology-supply-chain`: its stock, production, deliveries,
procurement, finance, master data, files and access rules, the pages that show
them, and the platform that executes commands and delivers messages, with the
TLC configurations that check them on small instances, and TLAPS proofs of the
properties that matter most for every value of the constants.

Paths below are relative to the repository. `apps/api` is the Fastify API that
owns every write, `apps/worker` delivers the outbox, `apps/web` is the client.

## 1. The system

All authoritative state is in one MySQL database. Each operation is a *command*:
`platform/commands.ts` opens a transaction, takes the idempotency row and the
write fence, runs the command's body, writes audit and outbox rows, stores the
response and commits. A body locks what it decides on (`FOR UPDATE`,
`FOR SHARE`) and throws when a condition does not hold; a throw rolls everything
back. Decisions by a second person (a transfer, a merge, a count variance, a
production variance, a shipment, an invoice, ...) are *approval requests* whose
approval runs an *effect* in the deciding command's transaction.

| Component | State it keeps | Operations | What is hard about it | What makes it correct |
|---|---|---|---|---|
| Stock tables | `inventory_batches` (five buckets), `inventory_movements`, warehouse status | written by all the components below | every command moves quantities between buckets in its own SQL | buckets never negative; movements add up to stock; goods are conserved |
| Stocktakes | `stocktakes`, `stocktake_counts`, `stocktake_adjustments` | open, submit count, finish round, decide variance | stays open for days while other commands want the same stock | the freeze holds; the snapshot is current when it is overwritten; one at a time per warehouse; independent recount |
| Transfers | `inventory_transfers`, approval request | request, review, ship, receive | goods are in no warehouse between ship and receive | shipped quantity arrives once; never into a closed warehouse |
| Purchase receipts | `purchase_receipts`, `received_quantity` | receive an item as one batch | retry, frozen or closed warehouse | received once |
| Quality inspections | `inspection_batches` | pass or fail a pending batch | provenance is looked up in other components' rows | every pending batch can be inspected |
| Warehouse master | `warehouses`, merge requests | create, deactivate, request and apply merge | blockers are spread over other tables; several merges wait at once | nothing enters a closed warehouse; a merged one leads to one that is not |
| Reservations | `inventory_reservations` | reserve | competition for one batch | locked stock is what reservations hold |
| Production orders | `execution_orders`, `production_material_lines`, `production_reports` | create, start, materials, complete, release, decide variance | consumption over several reservations; stocking after a review | use comes out of own reservations; no order over the allocation; stocked once |
| Shipments, returns | `delivery_batches`, `shipment_receipts`, `exceptions`, `product_returns` | plan, confirm, deviate, dispatch, receive, take back, inspect, dispose | partial returns; a rejected disposition ends in a status no command accepts | returned at most what was received; out of quarantine once |
| Approvals | `approval_requests`, step-up claims | decide | effects run long after the request was made | decided once, by someone else |
| Purchase plans, purchase orders | plan versions and items, orders, links | create, answer, settle, order, approve | quantities shared by several orders; reviews of lines that moved on | what was released over plan was approved; an ordered plan is final; nobody waits for nobody |
| Finance | payment requests, invoices, verdicts, allocations, exceptions, payments, corrections | verify, allocate, pay, invalidate, replace, refund, correct | two verifiers; statuses written by several commands; corrections of corrected records | two people verify; status and coverage tell the books; nothing booked back twice |
| Authentication, users | accounts, devices, sessions, challenges, roles | log in, step up, disable, assign, revoke | statements outside a transaction; codes and requests that outlive what they were about | a revoked session stays out; a role is held once; one code, one decision |
| Suppliers, master data, imports | suppliers, SKUs, terms, prices, BOMs, batches | enter, import, review | reviews of what has been rewritten meanwhile | prices disjoint; terms in force were approved; what waits has one review |
| Command executor | `command_idempotency`, `writer_fences` | run a command | same key again, concurrently, after a crash, after a commit of unknown outcome | at most once; same answer on retry |
| Web mutation client | pending keys in `sessionStorage` | submit, retry | a retry must be recognised as one | one intention, one effect |
| Outbox and worker | `outbox_messages` | claim, deliver, retry, pause, dead-letter, sweep reminders | leases, crashes, loops that end | nothing lost; one effect in the database; delivered before completed; settled in the end |
| Database client and pool | connections, their sessions in MySQL | query, execute, transaction, ping, close | every await races a deadline; what loses the race goes on: a late connection, a sent COMMIT, an open transaction | what a caller is told is true; a pooled connection is clean; the pool recovers |
| Files | objects in storage, `file_objects`, the scan's message, the form's pending key | upload, scan, download, use as evidence | the object is written before the command compares keys; the scan reads it later, the download later still | only what was found clean is served |
| Supplier performance | reviews, weight versions, shipment dates | rate, weigh, rank | the page's loads are answered in any order, saves in between | the ranking shown is of the selection, with no invented score |
| Pages (read models), audit log | none of their own | read, parse, show, offer | one row that does not parse takes the whole page down; OFFSET paging while rows are added | pages answer; what they offer can be done; no row is skipped |
| Notifications page, dashboard, exports, gateway, tooling | projections | queries, I/O | mostly formatting and I/O | - |

How they meet: the inventory commands share the stock tables; a stocktake
constrains all of them through the freeze (`lockInventoryFreeze`,
`stocktakes/support.ts`); production consumes what reservations locked;
approvals call back into the component that asked; every command goes through
the executor, called by the client, runs on a connection of the pool, and leaves
messages for the worker. The pages read the same tables outside transactions.

The hazards of this code, each at its line, are listed in `PROJECT.json`; the
properties below exist to meet them.

## 2. Modules

| Module | Models | Composition |
|---|---|---|
| `Stock` | the shared tables and the ways commands read and write them | state only |
| `Stocktake` | `stocktakes/writes.ts`, the freeze, the effect `stocktake_variance`, the unique outbox key of its messages | EXTENDS `Stock` |
| `Warehousing` | receipt, batch inspection, transfers with the effect `warehouse_transfer`, warehouses and their merges with the effect `warehouse_merge` | EXTENDS `Stocktake` (it asks about freezes) |
| `Production` | reservations, production orders, the effect `production_variance` | EXTENDS `Stocktake` |
| `Delivery` | shipments with the effect `shipment_deviation`, their receipt, returns | EXTENDS `Warehousing`, `Production`: it ships what orders made and takes stock back |
| `Inventory` | the composition: `Init`, `Next`, `Spec` and all properties | EXTENDS `Delivery` |
| `InventoryProofs` | theorems on the inventory and the pages over it | EXTENDS `StockReads`, `Sums`, TLAPS |
| `StockReads` | the pages over stock, stocktakes, warehouses, inspections, production, shipments and returns | EXTENDS `Inventory` |
| `Finance` | `finance/writes.ts`, the effect `financial_record_correction`, the worker's warning | stands alone: its orders and requests are constants |
| `FinanceReads` | GET /finance and the finance workspace of the web client | EXTENDS `Finance` |
| `Procurement` | `purchase-plans/writes.ts`, `purchase-orders/writes.ts` and the effects of their approvals | stands alone |
| `Catalog` | `suppliers/writes.ts`, `master-data/writes.ts`, `imports/writes.ts` and `supply-approval-effects.ts` | stands alone |
| `SupplyReads` | the pages over plans, orders, suppliers, prices and master data, and what their workspaces offer | EXTENDS `Procurement`, `Catalog` |
| `Performance` | ratings, weights, the ranking the server computes, and the workspace that loads it | EXTENDS `Catalog`, whose approved suppliers it ranks |
| `Access` | `auth/`, the account and role commands of `users/`, step-up claims | stands alone; its requests stand for those that bring any command |
| `Files` | `files/`, the worker's scan, the upload form, the paging of the audit log | stands alone |
| `AtMostOnce` | what the executor promises its callers | abstract |
| `CommandExecutor` | `platform/commands.ts`, `transaction` of `infrastructure/database.ts`, and MySQL as far as they depend on it | implements `AtMostOnce` (`INSTANCE ... WITH outcome <- entry`) |
| `CommandClient` | the pending key of `mutateJson` in the web client | EXTENDS `CommandExecutor`, whose requests it sends |
| `CallOutcome` | what the database client promises those who write with it | abstract |
| `Connections` | the whole database client of `infrastructure/database.ts`, its pool, and MySQL's sessions | implements `CallOutcome` (`INSTANCE ... WITH told <- ...`) |
| `OutboxWorker` | `apps/worker/src/server.ts` without the reminder sweep | stands alone: the commands only insert its messages |
| `Sums` | lemmas on sums over finite sets | for the proof modules |
| `ExecutorProofs`, `ConnectionsProofs`, `WorkerProofs` | theorems | each EXTENDS the module it is named for, and TLAPS |
| `AccessProofs` | theorems on sessions and roles, and on private files and the audit log | EXTENDS `Access`, `Files`, TLAPS |
| `FinanceProofs` | theorems on the finance tables and the page over them | EXTENDS `FinanceReads`, `Sums` |
| `SupplyProofs` | theorems on purchasing, the catalog, the pages over them and the rankings | EXTENDS `SupplyReads`, `Performance`, `Sums` |
| `MC...` | constants, scenes and symmetry for TLC | each EXTENDS what it instantiates |

### Why a command is one step

A command that commits is one action; one that throws changes nothing and is no
action. This is sound because in the modelled bodies every read that decides
something locks what it reads before anything depends on it:

* a stock command locks the freeze row of the warehouse (`resource_versions`,
  `warehouse_inventory_freeze`), which `openStocktake` and the stocktake
  commands lock too, and its batches `FOR UPDATE`;
* `reserveInventory` first reads a batch without a lock, but uses only its
  warehouse id, which never changes, and reads the batch again `FOR UPDATE`
  after the freeze row;
* `readReservationPool` reads reservations without a lock, but the order's
  `execution_orders` row is held `FOR UPDATE` by the command, and reserving for
  an order takes that row `FOR SHARE`;
* the provenance of an inspection and the blockers of a deactivation are plain
  reads after the row that the other commands also need was locked. Under
  MySQL's REPEATABLE READ (`docs/refactor/stage6-scope-a-acceptance.md:29`)
  a snapshot is taken at the first plain read, here after the lock was won.

Two transactions that lock in opposite order are a deadlock inside InnoDB, which
rolls one back: no step. So the model's interleavings are those of whole
commands of any number of users, which is where the hazards are: stocktakes,
transfers and orders live for days between their commands.

### Correspondence

| Code | Model |
|---|---|
| `inventory_batches` | `lot[b]` (owner, warehouse, SKU, how it came to be) and `qty[b][bucket]` |
| sum of the movements that change on-hand stock | `ledger[w][s]`; the types `inspection_pass`, `inspection_fail`, `production_release` move stock between buckets and are not summed |
| `warehouses.status` | `founded` (there is such a row), `active`; a merged one is the source of an approved `merge` |
| `stocktakes` / `_counts` / `_adjustments` | `task`, `count[t][round][b]` (round 0 the snapshot), `adj[t][b][bucket]` |
| `outbox_messages.deduplication_key` (UNIQUE) | `outbox`, for the stocktake commands: `Enqueue` has no outcome when the key is there |
| order item's received quantity | `received` |
| `inventory_transfers` with its approval request | `transfer` |
| `execution_orders` with `production_reports` | `order` |
| `production_material_lines` | `line` |
| `inventory_reservations` | `reservation` |
| `delivery_batches` with receipt and exception | `shipment` |
| `product_returns` with inspection and disposition | `returned` |

| Handler | Action |
|---|---|
| `openStocktake` | `OpenStocktake` |
| `stocktakeCommand` submit_count | `SubmitCount` |
| `stocktakeCommand` finish_round | `RequireRecount`, `CompleteStocktake`, `RequestVarianceApproval` |
| `decideApproval`, stocktake_variance | `ApproveVariance`, `RejectVariance` |
| `receivePurchase` | `ReceivePurchase` |
| `submitQualityInspection` (batch) | `InspectBatch` |
| transfer request, review, ship, receive | `RequestTransfer`, `ReviewTransfer`, `ShipTransfer`, `ReceiveTransfer` |
| `warehouseCommand` create, deactivate, request_merge | `CreateWarehouse`, `Deactivate`, `RequestMerge` |
| `decideApproval`, warehouse_merge | `ApproveMerge`, `RejectMerge` |
| shipment plan, confirm, deviation, dispatch | `PlanShipment`, `ConfirmShipment`, `RequestDeviation`, `Dispatch` |
| `decideApproval`, shipment_deviation | `DecideDeviation` |
| shipment receive, resolve_exception | `ReceiveShipment`, `ResolveException` |
| return receive, inspect, propose, review | `ReceiveReturn`, `InspectReturn`, `ProposeDisposition`, `ApproveDisposition`, `RejectDisposition` |
| `reserveInventory` | `Reserve` |
| production create, start, materials, release | `CreateOrder`, `StartOrder`, `ReportMaterials`, `ReleaseMaterials` |
| production complete | `CompleteOrder`, `RequestProductionVariance` |
| `decideApproval`, production_variance | `ApproveProduction`, `RejectOverproduction`, `RejectProduction` |

An approved restocking moves goods from quarantine to available stock and
writes one movement of type `return_restock`, although their receipt wrote one
already; it is therefore not summed into `ledger`, like the other types that
move stock between buckets.

### Finance, procurement, access and catalog

| Handler | Action |
|---|---|
| create_invoice, verify_invoice (and allocate) | `CreateInvoice`, `VerifyInvoice` |
| invalidate_invoice, link_replacement, release_risk | `InvalidateInvoice`, `LinkReplacement`, `ReleaseRisk` |
| record_payment, record_refund | `RecordPayment`, `RecordRefund` |
| request_correction, its decision | `RequestCorrection`, `ApplyCorrection`, `RejectCorrection` |
| the reminder sweep, overdue replacements | `WarnOverdue` |
| plan create, respond, finalize; decision of a version | `CreatePlan`, `RespondToPlan`, `Finalize`, `DecideVersion` |
| order create, respond | `CreateOrder`, `RespondToOrder` |
| decisions of over- and under-plan lines and of exceptions | `DecideDeviation`, `DecidePlanException`, `DecideOrderException` |
| login, verify, logout | `LoginWrong`, `LoginRight`, `VerifyLogin`, `FailChallenge`, `Logout` |
| authentication of a request: find the session, read roles, heartbeat | `FindSession`, `ReadRoles`, `Heartbeat`, `Revalidate` |
| create, reset_password, disable, restore, unlock | `CreateAccount`, `ResetPassword`, `DisableAccount`, `RestoreAccount`, `UnlockAccount` |
| assign_role, revoke_role, the list of users, their decision | `RequestRole`, `RequestRevocation`, `ListUsers`, `DecideRole` |
| step-up request, verify | `RequestStepUp`, `VerifyStepUp` |
| time: sessions, codes and roles run out | `TimePasses` |
| supplier create, import stage and commit | `CreateSupplier`, `StageImport`, `CommitSuppliers`, `DeferCommit` |
| SKU create, resubmit; supplier SKU; price; BOM | `CreateSku`, `ResubmitSku`, `WriteRelation`, `SetPrice`, `RequestPrice`, `CreateBom` |
| their decisions | `DecideSupplier`, `DecideSku`, `DecideRelation`, `DecidePrice`, `DecideBom` |

Tables that only grow are sequences, an id is a position. In `Access` the
statements that authenticate a request are steps of their own, because no
transaction holds them together, and a request that was let in commits its
command later (`Commits`); in the other modules the caller is simply someone
who may call. `Access` gives each user one device, and an assigned role a
period that is ahead, current or over. `Catalog` has one factory and one
finished SKU with BOMs.

### The executor and its caller

In the stock modules a command is one step. `CommandExecutor` opens that step
up. An attempt is one HTTP request: `pc` is how far the API got with it and `tx`
what MySQL made of its transaction, and the two part ways at a time-out, a
destroyed connection or a crash.

| Code | Model |
|---|---|
| a request with its key and digest; checks before the transaction | `Send`, `Refuse` |
| `beginTransaction` | `Begin` |
| `requireWriterFence` (FOR SHARE) | `CheckFence`; the lock is `shares` |
| INSERT IGNORE and SELECT ... FOR UPDATE of the key | `InsertKey`; the row's lock is `inserts`, and a rival waits for it (`Unrivalled`) |
| the body and the UPDATE to `completed`; a throw | `RunBody`, `FailBody` |
| `parseReplay` | `Replay` |
| `commit`: sent, done, acknowledged | `RunBody` or `Replay`, `DbCommit`, `Acknowledge` |
| `rollback` | `Rollback`, `RollbackNothing` |
| `transactionOutcomeUnknown`, the process dying | `Cancel` |
| a connection lost, a deadlock victim, a failing statement | `DbAbort`, `FailStatement` |
| UPDATE of `writer_fences` | `SetFence`, which waits for the shared locks |
| `mutateJson` | `Submit`, `Receive`, `Lose` |

The row of a key is only ever committed as `completed`: the INSERT of `pending`
and the UPDATE share one transaction. So the branches of the code for a
committed `pending` or `unknown` row (`COMMAND_IN_PROGRESS`) have no state to
fire in and are not actions; a rival waits for the lock instead. For the same
reason the drain checks of the release tooling, which count such rows, always
find none; what protects a command under way is its lock on the fence row.

### The worker

| Code | Model |
|---|---|
| a row of `outbox_messages` | `status`, `attempts`, `lockedBy`; `locked_at` older than the lease is `stale`, `available_at` in the past is `due` |
| rows a completion writes with it (notifications, scan status, the email's `sent`) | `effects` |
| `claim`, with the sweep of exhausted leases | `Claim`, `ClaimNothing` |
| `processMessage` | `CheckFence`, `Deliver`, `Finish` or `FinishPaused`; any error is `Throw` |
| `dispatchNotification`, `dispatchDomainEvent`, `complete`, the end of a scan | `Finish` |
| `fail`, `pause`, and either with the lease lost | `Fail`, `Pause`, `LoseLease` |
| the loop ending on an error, the process dying, its container restarting it | `Crash`, `Restart` |

Which of the claimable messages a claim takes is left open. A provider is a set
of accepted messages. `locked_by` is a random name per process; here a worker
keeps its name over a restart, which makes no difference as only a worker with
a message in hand asks whose lease it is. A pause writes `available_at` in the
database's own notation and time zone, which as text compares as past or as
hours ahead: both are outcomes of `Pause`.

### The database client

`Connections` opens up what the executor calls its transaction, for every call
of the client at once. `pc[o]` is the await a call is at; `wire[c]` is what was
sent on a connection and not yet read; `open` is what MySQL has begun for it. A
call that is cancelled stops waiting; the rest goes on.

| Code | Model |
|---|---|
| `acquireConnection`: asked for, given, refused, timed out | `Ask`, `Grant`, `NoConnection`, `GiveUp`, `Refuse`, `GrantTooLate` |
| `releaseLateConnection` | `LateConnection`, `NoLateConnection` |
| `query`, `execute`, `ping` | `Returns`, `Fails`, `Interrupt` |
| `transaction` | `Begun`, `BeginFails`, `Execute`, `Executed`, `CallbackThrows`, `CallbackReturns`, `CommitReturns`, `CommitFails`, `RollbackReturns`, `RollbackFails`, `Cancel` |
| `close` | `Close` |
| MySQL serves, refuses, loses a connection, notices a closed socket | `Serve`, `Reject`, `Lose`, `Vanish` |

mysql2 resets a connection when it is released (`resetOnRelease`); the model
does without, and shows that nothing depends on it.

### Files and the audit log

| Code | Model |
|---|---|
| the upload form and its pending key; the poll for a verdict | `Submit`, `Resume`, `Learn`, `GiveUp`, `LearnVerdict` |
| POST /files: object, then command; replay; error | `PutObject`, `StoreFile`, `ReplayUpload`, `Refuse`, `LoseUpload` |
| the worker's scan | `ScanFile`, `FinishScan`, `AbandonScan` |
| GET /files | `OpenDownload`, `AuditDownload`, `ReadObject` |
| `requireFile`, `requireCleanFile` in other commands | `UseAsEvidence` |
| GET /audit-logs with its page number | `ViewPage` |

### Pages

A page is an operator: `...Reply(viewer)` is 403, 503 or 200, from the roles
that scope it, the rows that scope selects and the parser of each column the
model has. `...Offered` and `...Blocker` are what the page or workspace derives
from these rows: a button, a count, an amount due. The `LIMIT` of a page is
above what the instances hold, except where it matters: payments of a finance
page (`PaymentLimit`) and purchase orders (`OrderLimit`). Selects of one page
are not in one transaction; rows are never deleted and a reference is read
before the row it names, so a page that answers in every state answers between
commits too.

In `Performance` the workspace is a program of its own: a selection or a save
starts a load (`Select`, `SaveSucceeds`), the server answers it at some moment
(`Serve`), and the answer is dropped unless it is the newest (`Receive`,
`IsNewest`). A save is `SaveReview` or `SaveWeights`, `CommitSave`,
`SaveFails`. A lost answer is the subject of `CommandClient`, not of this one.
Limits, export, anonymized names and previews are left out.

### Data

Data is cut to what the properties tell apart. A loop over rows that takes
`min(remaining, row)` from each is described by its outcome (`TakesInOrder`):
the one distribution that drains rows in order. Money, names, dates, audit rows
and versions are left out. An expected version that does not match is a throw,
hence no step. An order has one BOM component; all orders share one purchase
order item and one factory warehouse; an item is allocated to one warehouse.

## 3. What is checked

No fairness is assumed of users, requests or commands: they may stop at any
time, and what is said of them is safety. Two modules have fairness
(`FairSpec`).

* The worker: its polling loop goes on, a loop that ended stops the backend
  process it runs in (`apps/api/src/backend-server.ts:48`) and the container is
  started again (`restart: unless-stopped` in both compose files), a lease grows
  old, a delay passes, and an operator enables a fence again that was disabled.
  Nothing is assumed to make a delivery succeed. Crashes and disabled fences are
  bounded by `MaxFaults`: a worker that crashes for ever before each claim
  settles nothing.
* The database client: its timers fire, a connection that was asked for comes or
  fails, and MySQL notices that a socket was closed. Nothing makes MySQL answer a
  statement, or a callback return.

`CHECK_DEADLOCK FALSE` is set in every configuration because the system does
stop when each id of a bounded table, each attempt or each message has been used.

| Run | Question | Properties |
|---|---|---|
| `stock` | stocktakes, receipts, inspections, transfers, merges, shipments and returns meeting in pairs, and the pages over them | `OneOpenStocktake`, `RecountIsIndependent`, `MergesEnd`, `GoodsConserved`, `PagesAnswer`, `OffersHold`, `FrozenStockUntouched`, `ClosedWarehouseSealed`, `LeavesQuarantineOnce` |
| `production` | an order against a stocktake of what it uses, and two orders of one item | `TypeOK`, `SnapshotCurrent`, `LedgerBalances`, `LockedIsReserved` |
| `finance` | two invoices of one order over two payment requests, exceptions, refunds, corrections, and the page and workspace over them | `TwoVerifiers`, `CoverageIsAllocated`, `StatusTellsNet`, `RemediationBalanced`, `WorkspaceTrue`, `FundedWhenPaid` |
| `supply` | two versions of a plan and two orders; suppliers, SKUs, terms, prices and BOMs under review; ratings and their ranking; the pages over each | `PurchasesShown`, `CatalogShown`, `RankingShown`, `OverPlanApproved`, `WaitsForSomeone`, `PricesDisjoint`, `TermsAreApproved`, `TargetsWait`, `CompletePlanFixed` |
| `access` | accounts against two requests on their way; roles that are asked for, run out and are decided | `RolesAsDecided`, `RevokedStaysOut` |
| `files` | an upload retried, altered and scanned while files are served and used, and somebody pages through the log of it | `HarmlessOnly`, `NoGaps` |
| `executor` | three requests with two keys and two bodies, concurrent, cut off, rolled back, committed unheard | `KeepsPromise`, `CommitsBehindFence` |
| `connections` | two transactions, an execute and a ping over two connections, with every deadline, a fault and the close of the client | `CleanHandover`, `KeepsOutcome`, `PoolRecovers` |
| `worker` | two workers that lose leases, crash and meet disabled fences over a notification, the email its dispatch inserts, and a file scan | `EffectOnce`, `FinishedForGood`, `Settles` |
| `client` | finding | `DoneOnce` is violated |
| `revisable` | finding | `RejectedCountIsRevisable` is violated |
| `returns` | finding | `ReturnsListed` is violated |

Stock:

* `SnapshotCurrent`, `FrozenStockUntouched`: the freeze. The first says what an
  approval relies on days later, the second that no command gets past.
* `OneOpenStocktake`, `RecountIsIndependent`: the stocktake's own protocol. The
  second is checked at finish_round, yet must still hold at the review, after
  rejections and revised counts.
* `LedgerBalances`, `GoodsConserved`: the books. The first compares two tables
  that no command compares; the second relates stock to what was received,
  produced, consumed and corrected, with goods in transit, so a double receipt,
  a double decision or a lost batch breaks it.
* `LockedIsReserved`: reservations, consumption and orders. It exempts batches
  whose locked bucket a stocktake corrected: the code really lets the two drift
  apart there, and later consumption fails with 409.
* `ClosedWarehouseSealed`: the receipt of a transfer does not look at the
  warehouse's status; it is safe only because deactivation and merging refuse
  while a transfer is unfinished.
* `MergesEnd`: merges that wait at once, in a circle or a chain, are checked
  again when they are approved, so following them ends at an open end.
* `LeavesQuarantineOnce`: what is quarantined leaves by one decision.
* `PagesAnswer`: no sequence of commands writes a row a page then refuses to
  parse, with two exceptions it states exactly: an order whose deviation was
  rejected (`approvals/writes.ts:363` stores `rejected`, which
  `production-orders/index.ts:346-357` does not know) and a return whose
  disposition is under review (finding 3).
* `OffersHold`: what keeps a warehouse from being closed, what can be inspected
  and what can be ordered, as shown, are what the commands then ask.

Finance:

* `TwoVerifiers`, `CoverageIsAllocated`, `FundedWhenPaid`: an invoice counts
  when two people in two roles approved it; a request is covered by what its
  active allocations add up to, and paid only while covered.
* `StatusTellsNet`, `RemediationBalanced`: after any order of payments,
  invalidations, refunds and corrections the status of a request tells what was
  paid net, and an exception is resolved when replacement and refund make up for
  it.
* `WorkspaceTrue`: the page answers; the balance shown as due is what is unpaid,
  while the payments fit the page; what is offered for payment, verification,
  invalidation and remedy can be. (A paid request whose invoice is replaced is
  `generated` again and stays offered, with nothing due.)

Supply:

* `OverPlanApproved`: several orders draw on one line; what they release beyond
  the tolerance somebody approved.
* `WaitsForSomeone`, `CompletePlanFixed`: a plan version or order that waits has
  one review that is pending, and a plan that is ordered completely is final.
* `PricesDisjoint`, `TermsAreApproved`, `TargetsWait`: reviews decided in
  another order than they were asked for, about rows that were rewritten.
* `PurchasesShown`, `CatalogShown`: the pages answer, what the page of plans says
  was ordered is what the page of orders links, and no button is offered against
  a review that waits.
* `RankingShown`: when all is settled, the ranking shown is of the selection, no
  score was invented from a metric without data, and the newest load won.

Access, files and the platform:

* `RevokedStaysOut`: a request of a revoked session or disabled account is
  caught by the last of the statements, whatever the first ones read.
* `RolesAsDecided`: a decision has a code of its own, made for it, and a role
  that ran out, or was asked for twice, is not held twice.
* `HarmlessOnly`: uploads write objects before anybody compares keys, and scans
  and downloads read them later; still nothing is served, or taken as evidence,
  that the scanner did not find clean.
* `NoGaps`: paging by OFFSET through a log that grows at its front repeats rows
  and skips none.
* `KeepsPromise`: the executor implements `AtMostOnce`. A key is bound to one
  body, which takes effect once; an `ok` carries that one result; an error is
  true: the attempt it answers neither had nor will have an effect. It rests on
  the uniqueness of the key and on answering "unknown" whenever the fate of the
  transaction is not known.
* `CommitsBehindFence`: disabling a fence waits for the commands that passed it.
* `KeepsOutcome`: the client implements `CallOutcome`, with orphaned COMMITs of
  destroyed connections still served. One answer is exempt: an `execute`
  outside a transaction that is told "failed" because its connection was lost
  may have written.
* `CleanHandover`, `PoolRecovers`: no call inherits another's transaction or a
  reply that was not for it; in the end every call is answered and every
  connection back in the pool or closed.
* `EffectOnce`, `FinishedForGood`, `Settles`: workers that hold one message at
  the same time, because a lease ran out, do not both write; a late one does not
  bring a finished message back; each message is completed or declared dead in
  the end. A message may be dead although its provider accepted it, and may be
  accepted several times: providers get the deduplication key for that.

Every property of a passing run has a mutant of the code's logic in the module
it lives in, or whose tables it shows (the definitions commented "Mutant:"),
that the run refutes.

### Bounds

`stock` and `production` are unions of small instances: their next-state
relations (`StockSpec`, `ProductionSpec` in `MCInventory`) take the steps of
`Next` that stay within one *scene*, each a meeting of two or three components
with the ids it needs. In `stock`: two stocktakes of one warehouse
(`CountScene`), two transfers in either direction (`CarryScene`), a stocktake
against receipts, inspections and a transfer (`MeetScene`), two merges between
three warehouses (`MergeScene`), a merge against a transfer (`MoveScene`), two
returns of one shipment (`ReturnScene`), a stocktake against a shipment and a
return (`FreezeScene`), and one against production and shipment (`MakeScene`).
In `production`: an order against a stocktake that corrects stock
(`CountedOrder`), and two orders with reservations of two priorities
(`OrderPair`). A CONSTRAINT would keep the same states, after generating many
times as many around them.

`supply` puts three parts next to each other, not against each other: purchasing
changes none of the data it rests on, and the ranking only asks which suppliers
are approved, so each part moves while the others are as they began. Within a
part there are scenes again: `EntryScene`, `TermsScene`, `PriceScene` and
`BomScene` of the catalog, `ScoreScene` (what the server computes) and
`PageScene` (what the page makes of it) of performance. `access` is the union of
`AccountScene` and `RoleScene`.

Ids of tables are constants, inputs are bounded by `MaxTransfer`, `MaxReport`,
`MaxCount`, `Priorities`, `ScopesTried` and `Miscounted` (which buckets a count
may get wrong; a count is the snapshot or the snapshot with one bucket wrong).
Three batches allow a receipt, a produced batch and one split off it; the
fourth allows two sources of a transfer and its destination; two units make
partial consumption, over-delivery and short-delivery possible; two users are
the requester and the reviewer, or the first counter and the recounter, and are
interchangeable (a symmetry set). Three warehouses are the least in which a
merge into a merged one differs from a circle.

In `finance` two invoices over two requests split and share coverage;
`MaxExceptions` = 2, `MaxCorrections` = 2, `MaxPayments` = 3 and `MaxCases` = 3
together let one invoice be invalidated after it replaced another, and a record
be corrected that a correction wrote; `PaymentLimit` = 4 is passed by the ledger.
In `supply` a line of two units and one of one unit, and two orders of up to two
units, make within, over and under plan, and two orders of one line; three
reviews let one be decided while another waits; `OrderLimit` = 2 shows all of
them. Three days make a price that begins before, on and after another; three
requests and prices, and two BOM versions, overtake one another. In `access` two
attempts lock an account; two sessions and two challenges make one stale and one
fresh, and a role that is granted ahead of its period runs through all three. In
`files` two uploads are a first and a retry or a second file, two scans a failure
and a success, and pages of one row over a log of five let rows slide between
pages.

Three attempts are a first one, a retry and a rival of either; two keys and two
bodies make a reused key and an unrelated command. In `connections` four calls
outnumber two connections, so that somebody waits and a late connection is taken
over; one fault hits each call at each of its awaits, beside all time-outs. In
`worker` the number of attempts is small and differs by message (one, or two for
the email), so that last attempts and retries both occur; two faults let a crash
meet a pause.

### Findings

1. **A rejected recount cannot be revised** (`revisable`). The command accepts
   the new count, then enqueues `CountSubmitted` under the key of the first
   submission; the key is unique, so the command rolls back for good, and the
   stocktake with its freeze stays open.
   `docs/refactor/stage5-write-migration-plan.md:128` says a wrong count is
   reported again as a new revision.

2. **A form can be done twice** (`client`). `mutation-client.ts:254` drops the
   pending key on every definite error, also one that answers a *retry* of an
   attempt whose outcome is unknown: an expired session or a rejected fence
   says nothing about the first attempt. The next submission gets a new key.
   `docs/refactor/01-business-baseline.md:301` says a retry has no second
   result, `docs/refactor/stage5-write-migration-plan.md:198` forbids a new key
   for a command of unknown outcome.

3. **The page of returns is down while a disposition is under review**
   (`returns`). `returns/writes.ts:169` stores a proposed disposition as
   `pending`; the reader (`returns/index.ts:258`) knows `pending_supply_chain`,
   `approved` and `rejected`, as the schema (`runtime/schema.ts:610`) and the
   contract (`contracts/src/returns.ts:38`) do, and answers 503.

Met while modelling, and not the subject of a run:

* A batch stocked by an approved or rejected production variance has no
  provenance (`approvals/writes.ts:387` leaves `production_reports.batch_id`
  empty), so it can never be inspected: `Traceable` in `Warehousing`.
* Two versions of a BOM, both under review at once, are both in force when both
  are approved: `create_bom` (`master-data/writes.ts:344`) lists what to retire
  when it is requested.
* The page of production orders is down for an order whose deviation was
  rejected; `PagesAnswer` states it.
* A quality inspection asked to be `conditional` waits for an approval nothing
  ever creates.
* An upload form waits for a verdict that a dead scan never gives:
  `cancelPendingPlatformFileUpload` has no caller, and nothing deletes an object.
* The plan page adds up all versions under the heading of the current one, and
  its count of deviations that wait includes rejected ones.
* A factory no longer sees its supplier's prices while no relation is active;
  the list of users shows a role ahead of its period as held.
* In the performance workspace a reload overwrites a form being edited, and a
  supplier chosen under another tier stays selected; past quarters are scored
  with today's weights; a planned shipping date is free text
  (`shipments/writes.ts:47`) and one that is no date takes the page down.

## 4. What is proved

TLAPS checks these for every value of the constants that satisfies the named
ASSUMEs of the modules (ids are numbers, quantities natural, `Staff` a subset of
`Users`, the finished and component SKUs and the factory's warehouse exist, and
"none" is no warehouse; what a BOM takes per finished unit is positive, as
`master-data/writes.ts:358` asks; the sets that are summed over are finite; the
days that are tried are finitely many positive numbers, so that a period without
end ends after all of them; an import lists suppliers; a role's period is ahead,
current or over; weights are submitted as integers, of a selection the page has).

| Theorem | States |
|---|---|
| `TypeCorrect` | `Spec => []TypeOK`: no bucket is ever negative, no row malformed |
| `OneOpenAtATime` | `Spec => []OneOpenStocktake` |
| `SnapshotStaysCurrent` | `Spec => []SnapshotCurrent` |
| `FreezeHolds` | `Spec => FrozenStockUntouched` |
| `MergesTerminate` | `Spec => []MergesEnd`, for any number of warehouses and merges |
| `RecountsAreIndependent` | `Spec => []RecountIsIndependent` |
| `ClosedWarehousesStayEmpty` | `Spec => ClosedWarehouseSealed` |
| `QuarantineIsLeftOnce` | `Spec => LeavesQuarantineOnce` |
| `LockedStockIsReserved` | `Spec => []LockedIsReserved` |
| `StockMatchesLedger` | `Spec => []LedgerBalances` |
| `GoodsAreConserved` | `Spec => []GoodsConserved`, for any batches, stocktakes, items, transfers, orders, reservations, shipments and returns |
| `PagesAreAnswered` | `Spec => []PagesAnswer`: no page fails, but for two kinds of row |
| `OffersAreFounded` | `Spec => []OffersFounded`: what the pages offer is what the guards of the commands ask for |
| `TypesHold` | `FinanceSpec => []FinanceTypeOK` |
| `TwoPeopleVerify` | `FinanceSpec => []TwoVerifiers` |
| `CoverageHolds` | `FinanceSpec => []CoverageIsAllocated` |
| `StatusHolds` | `FinanceSpec => []StatusTellsNet` |
| `RemediationHolds` | `FinanceSpec => []RemediationBalanced` |
| `PaymentsAreFunded` | `FinanceSpec => FundedWhenPaid` |
| `WorkspaceIsTrue` | `FinanceSpec => []WorkspaceTrue`: what the page answers, what the workspace shows and offers |
| `ProcurementTypes` | `ProcurementSpec => []ProcurementTypeOK` |
| `CompletePlanStays` | `ProcurementSpec => CompletePlanFixed` |
| `SomeoneIsWaitedFor` | `ProcurementSpec => []WaitsForSomeone` |
| `DeviationsAreApproved` | `ProcurementSpec => []OverPlanApproved` |
| `PurchasesAreShown` | `ProcurementSpec => []PurchasesShown`: what the pages answer, count and offer |
| `CatalogTypes` | `CatalogSpec => []CatalogTypeOK` |
| `ReviewsMatchTargets` | `CatalogSpec => []TargetsWait` |
| `PricesFollow` | `CatalogSpec => []PricesDisjoint` |
| `TermsWereReviewed` | `CatalogSpec => []TermsAreApproved` |
| `CatalogIsShown` | `CatalogSpec => []CatalogShown`: what the pages answer and show |
| `RankingsAreShown` | `PerformanceSpec => []RankingShown`: scores, and what a settled page shows |
| `AccessTypes` | `AccessSpec => []AccessTypeOK` |
| `RolesWereDecided` | `AccessSpec => []RolesAsDecided` |
| `RevokedIsOut` | `AccessSpec => RevokedStaysOut` |
| `OnlyHarmlessIsServed` | `FilesSpec => []HarmlessOnly` |
| `PagingHidesNothing` | `FilesSpec => []NoGaps` |
| `ExecutorTypes` | `Spec => []TypeOK` of `CommandExecutor` |
| `AtMostOnceKept` | `Spec => KeepsPromise`: the refinement, for any requests, keys and bodies |
| `NothingBehindFence` | `Spec => CommitsBehindFence` |
| `HandoverIsClean` | `Spec => []CleanHandover`, for any calls and connections |
| `OutcomeKept` | `Spec => KeepsOutcome`: the refinement, for any calls and connections |
| `EffectsOnce`, `DeliveredBeforeDone`, `AttemptsLeft`, `FinalStays` | the safety of `OutboxWorker`: `EffectOnce`, `DeliveredFirst`, `AttemptLeft`, `FinishedForGood` |

`TypeOK` is not inductive: rejecting an overproduction gives the factory
`actual - planned`, a natural number only because an order under review that is
marked over produced more than it planned. `TypeInv` adds that (`OverIsOver`).
Each action has a lemma for each table it writes; what a bucket loses is bounded
by the guard of the UPDATE that takes it.

`OneOpenStocktake` is inductive given the type invariant. For the freeze,
`SnapshotCurrent` is strengthened by `Placed`: the lots a stocktake snapshotted
are in its warehouse, so that a frozen SKU of the warehouse covers them. The
central fact is `RespectsFreeze`: every command other than the stocktake's own
leaves the lots and quantities of each frozen warehouse and SKU as they are. It
is proved once per command from the freeze lookup in its guard, and both the
invariant and the action property follow; the one step that does change frozen
stock, `ApproveVariance`, closes the stocktake, and by `OneOpenStocktake` no
other one froze that warehouse.

`MergesEnd` says that every set of warehouses has one that was not merged into
the set. It rests on `MergedAreClosed`: a warehouse that was merged away is not
active, while both ends of a merge are when it is approved. So the merge that is
approved last leads out of every set it starts in.

The books of the inventory are proved from one description of what each command
does to stock. `Effect(h, l)` says that a step adds `h[b]` to what batch `b`
holds and `l[b]` to what is locked of it, leaves every batch there is where it
is, and keeps `Blank`: where there is no batch there is nothing. Each command has
one lemma that names its `h` and `l`: one batch inserted (`Only`), a walk through
batches (`Drained`), what reservations give (`Spent`), a correction of some
buckets (`Corrected`), nothing (`Zero`). Three accounts are then balanced against
the same effect.

* `LockedInv`: what is locked of a batch is the sum of what active reservations
  hold of it, and those are of batches that are there (`ReservedRows`). Using and
  releasing change both sides by the sum over the reservations of the batch.
* `LedgerInv`: what the batches of a warehouse and SKU hold is the ledger's total
  and the excess that is the factory's, which only rejected overproductions
  leave (`OwnedByFactory`).
* `GoodsInv`: what the batches of an SKU hold is `Due`, the sum of seven accounts
  (received, made, used, sent, brought back, corrected, on the way), each of
  which is a sum over all ids of its kind. Two facts about other tables are
  needed: a batch reserved from has the component's SKU while it is used
  (`MaterialPool`, `ReservedRows`), and a correction is of a batch that is there
  (`Adjusts`), so that no insertion gives an approved correction another SKU. A
  correction counts when it is approved and never changes afterwards; that the
  quantity it corrects is the snapshot's is `SnapshotCurrent`.

`LeavesQuarantineOnce` rests on `QuarantineInv`: the batch of a return was
inserted for it and for no other, and while the disposition waits it holds
exactly what was returned (`ReturnsHeld`). `RecountIsIndependent` is made
inductive by `RecountsPlaced`: second counts are of the batches a stocktake set
out to count, in or after its second round, and the step that ends that round
refuses a batch counted twice by one person. `ClosedWarehouseSealed` is an action
property of `CarriesOpen`: a transfer under way runs between two active
warehouses, because deactivating and merging both look for such transfers; every
other insertion checks the warehouse in its own guard.

`PagesAnswer` rests on `PagesInv`, which says what the parsers of the pages ask
of rows beyond their types: an order that is there makes something; what
shipments and stocktakes refer to is there; a return not inspected yet has no
disposition; a warehouse is merged once, into one that is there. That it is
merged once needs `MergedAreClosed`: it is not active any more, and only an
active one is merged. The two kinds of row `PagesAnswer` names are then exactly
those a page refuses.

`OffersFounded` is what `OffersHold` says without ENABLED: a warehouse shown with
stock or transfers, or being counted, is one that cannot be closed, and no other;
a batch shown as pending lies in a warehouse that is there; an item that is
offered has all of its allocation left. What a page sums over batches or counts
of transfers is zero just if no row is in the way, because no batch holds less
than nothing; and batches not of a return lie where they may because they were
placed in a warehouse that was active (`ClosedWarehouseSealed`).

The executor's invariant `Inv` has five parts besides the types: what the API is
at agrees with the state of the transaction (`PhaseInv`); who inserted the row of
a key holds it alone, and the row is absent, until the transaction ends
(`RivalInv`); whoever may still be told "ok" ran the body or read a result of the
same digest (`ResultInv`); a row was left by a committed transaction
(`EntryInv`); who is past the fence holds it enabled (`FenceInv`). None of the
properties is inductive without them: an error is true because a transaction
that is open or aborted has left no row, and a commit binds a free key because
its rivals waited.

`CleanHandover` and `KeepsOutcome` rest on `ConnInv`: a connection is free, held
by one call or gone (`PoolInv`, `Exclusive`); at each await of a call, what its
connection has open in MySQL, what is on the wire and whether its writes are
committed (`StageInv`); and what a call was told agrees with that (`AnswerInv`). A connection that a call lets go of is
released only from an await at which its transaction has ended and its reply was
read; from all others it is destroyed. And a call is told "failed" only where no
COMMIT of it can still be served: the COMMIT of an orphaned connection belongs
to a call that was told "unknown".

### Sums

Much of what matters here is a sum over rows. `Sums` proves what the folds of
the community modules compute on finite sets: that a sum splits off an element,
is monotone, is unchanged by what is outside the set, adds over disjoint sets.
The induction theorems of the TLAPS library take a predicate as a parameter,
which the installed provers cannot instantiate; instead each lemma takes a
least counterexample among the finite subsets, which exists because inclusion is
well founded on them, as a set of sets. So finite sums are within reach, while
recursion over other data stays out of it.

### Finance

`TwoVerifiers` rests on `VerdictInv`: verdicts are only given while an invoice
is 'received', no person has given both (`OneVerdictEach`, checked whichever
comes first), and an invoice that covers a request is verified or invalidated
(`AllocatedWasVerified`), so the verdicts it was allocated on stay.

`FinanceInv` adds what the sums need. Coverage: an allocation that is not active
does not count, and a request's `covered` is the sum of those that do; every
command that allocates, freezes or releases changes both by the same amount.
Books: a record's net is what its corrections leave of it, at most once
corrected, so the net of a request moves by exactly the record that is appended;
what may be paid is bounded by the guard on the total, and a correction that
moves money is applied to both requests. Exceptions: replaced and refunded
amounts are the sums of its links and records, and it resolves in the step that
makes up its affected amount. `FundedWhenPaid` is an action property of the
payment and correction commands, from coverage.

`WorkspaceTrue` needs three facts the tables' own properties do not (`PagesInv`):
an invoice still 'received' lacks a verdict and was rejected by nobody; the
invoice of an exception is 'invalidated', whatever becomes of the exception; and
a request that waits for invoices is not covered. The balance due is then a sum
of sums: a payment is what has no exception (`LedgerInv`), so the workspace's
paid amount of a request is its net, and the requests it leaves out have nothing
unpaid (`StatusTellsNet`).

### Procurement

`CompletePlanFixed` rests on `PlanInv`: all commands but one require a status
that a complete version does not have. The decision of a factory's exception
sets the status whatever it is; but while one is pending its version is
'disputed' (`DisputesStand`), because nothing else leads out of that status and
no version has two of them pending (`OneDispute`).

`WaitsForSomeone` rests on `WaitInv`, which matches documents that wait and open
reviews one to one: no two pending reviews of a kind are about the same
document, and each is about one whose status says so. A decision closes one
review and moves one document, and opens another review only with another
status.

`OverPlanApproved` rests on `OverInv`: what a plan line has as ordered is the sum
over all orders, so what is released is at most that; each order that took its
line beyond the tolerance when it was made has a review of its own that names
the line, and is released only after that was approved. The tolerance is a
rounded rate (`RateBps`), which is monotone, so the order that crosses the line
is the one that is found.

`PurchasesShown` combines these: a line of an order is part of what its plan has
as ordered, so the plan has the version it names, and the orders on one page link
no more than that. `NamesInv` says that each line shown as a deviation is in a
review that was not approved: finalizing and ordering mark just the lines they
name, and the approval that could end such a review also ends the mark.
`RefusedInv` says that an order whose deviation was rejected stays rejected.

### Catalog

`CatalogInv` is what makes the four properties of the catalog inductive.

`MatchInv`: for each type of review, the reviews that are open and the rows that
are pending are matched one to one. A relation can be written again while its
review waits, which leaves the older review open: it counts only as long as it
is about the current version (`Timely`), and a decision on another version is
refused. `TargetsWait` is read off this matching.

`PriceInv`: the agreements of a pair follow one another (`Follow`), and a
request that was asked for remembers the agreement it replaces (`Supersedes`):
that one began before the day asked for. Only the request whose agreement is
still the active one can be approved, so the next agreement begins after the
last one, which ends the day before. That, and not the order of decisions, keeps
prices disjoint.

`BomInv`: what a version retires began before it does, so that it still has a
day to end on, even after another version has ended it.

`ShownInv`: terms in force, other than those the factory set for its own tier-3
supplier, have an approved review of just the version before the one it made; a
SKU's status is that of its latest review; and whatever a relation names is
still there. `CatalogShown` combines all
of it, because a page fails when what one table refers to is missing in another.

### Rankings

`RankingShown` says two things. A score lies between the least and the largest
metric that has data and weight, and there is none without such a metric:
`ScoreBetween` shows it of the quotient of two sums, since each term of the one
is a weight times a metric and the other adds up those weights, and rounding
(`RoundedBetween`) does not leave a range of integers. That is so of whatever the
server answers, whenever it does (`ReplyIsTrue`).

A page that has settled shows its own selection, and the viewer's last ratings
and no other score of the viewer. `RankingInv` follows the newest request: it is
for what is selected, because selecting gives up the ones before it and starts
one; and its reply has the viewer's ratings (`Fresh`), unless one was saved
since, and then the page has not settled: another request is to come. Requests
given up are answered as well, but what they bring is dropped.

### Access

`RevokedStaysOut` holds however requests interleave, because the statement that
lets one through reads session and account in one go. `RolesAsDecided` rests on
`AccessInv`: what a request, a code or a role's review names is there (`Linked`),
so a new review finds no code used up before it; a step-up code is used up only
by the decision it was asked for, which takes the review out of "pending"
(`DecisionClaimed`), so no second code is; a role that waits has one assignment
that waits, and one in force at most one revocation (`ReviewedOnce`); and nobody
holds a role twice (`HeldOnce`), because requesting one looks at what waits as
well as at what is held.

### Files and the audit log

`FilesInv` holds uploads together by what storage may have: under a key that
names a content there is that content or nothing (`NamedByContent`), because the
sha256 is part of the name. So an object that is there never changes (`Kept`),
however many uploads write before anybody compares their idempotency keys, and
what the scanner found clean is still clean when it is read (`CleanStays`).
`FoundClean` then follows a verdict from the scan to the row, to the downloads
opened on it, to what was served and to the evidence taken. Without the sha256
in the name the invariant fails, and `HarmlessOnly` with it: the mutant
`ObjectKeyOfRequest`.

For the paging, `Unbroken(log, view)` says that the rows shown, of those that
were there at the first page, are a whole end of the log, at least as long as the
pages so far; `StaysUnbroken` that a row more does not change it, though it
may be committed below the last one: the last row is on the first page, so it was
shown. That rows differ (`Numbered`) makes `NoGaps`' "where the row is" a function.

### The worker

The worker's `WorkerInv` says what a worker knows of the message it works on:
it has read it (`JobRead`); while the lease is still its own, nobody counted
another attempt (`JobCurrent`); the completion of a message for a provider is
tried after it was accepted (`SentFirst`); and a row that is not inserted yet
has no history (`AbsentFresh`). A worker whose lease was taken finds out by the
`locked_by` guard of its UPDATE, and writes nothing.

### Model-checked only

Liveness (`Settles`, `PoolRecovers`) is out of the provers' reach, and so is
ENABLED: that what `OffersHold` says is offered can be done
(`OffersAreFounded` proves the rest of it), and `RejectedCountIsRevisable`. All
other invariants and action properties of the passing runs are theorems.

## 5. What is not modelled

* The page of notifications, exports, and the summaries of the dashboard.
* The scheduling of the reminder sweep. Its one effect on business rows is
  `WarnOverdue`; the wrong sides of a daily reminder's clock are not modelled.
* Quality rules, and the components of a BOM: rows that no other command reads
  before it decides.
* Inspections in parts and of execution orders (they write no stock), the page
  of past inspections, quality dispositions (a table without a command).
* The parsing, mapping and preview of imports, and the commit of other types
  than suppliers, which the code does not have.
* The web client beyond its pending keys, the upload form and the workspaces
  named above; the gateway, database tooling, migrations and generated schemas.
* LIMITs of pages other than those of payments and orders. More than 200
  suppliers take the internal page of supplier SKUs down, and the page of plans
  applies its limit before it filters by factory.

The hazard of reservations that nothing can release any more
(`production-orders/writes.ts:339`) asks what can still happen, which an
invariant does not say and fairness of users would not justify. The fence that a
worker reads before it calls a provider (`worker/src/server.ts:426`) is read
outside any transaction on purpose: a provider may be called behind a fence that
was disabled a moment ago.
