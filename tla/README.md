# Avrora ERP: TLA+ models, model checking and proofs

Avrora ERP runs a steel-structures plant: orders and their way through the shop, material stock, costings, contractors,
payments, an exchange of messages with 1C (UT), requests to the national catalogue of goods (NKT). The models here are
about the part of it that is hard to test: handlers that read, decide and write in separate statements while other
handlers do the same; scripts that rewrite tables of a plant at work; screens that show what a server said some time ago.

Three bodies of code are modelled. The *web client*, `src/frontend` (React, TanStack Query): what its screens ask, show,
offer and refresh. The *import scripts*, `src/backend/prisma` (TypeScript over Prisma): the files of 1C and of the plant
brought into the base. The *Go backend*, `src/backend-go` (gin and pgx over PostgreSQL): the handlers both of them meet.
They share four facts, and every module is built on them:

1. **Every HTTP request is a goroutine**, background jobs (the outbox ticker, the NKT worker) are goroutines of the
   same process, and a script is a process of its own. Nothing but the database coordinates them.
2. **The database runs at READ COMMITTED** and nobody asks for more; the scripts open no transaction at all. A transaction sees what others have committed
   by the time of each statement; it does not see later writes, and it does not lock what it only reads.
3. **Most handlers read before their transaction begins** (or have none), so what they decide on may be old by the time
   they write. Some writes repeat the condition (`UPDATE ... WHERE status = $old`), most do not (`WHERE id = $1`).
4. **A request may die between any two statements**: the server stops, the client disconnects (the request's context is
   passed to pgx), the database refuses. What is not committed is rolled back, what is committed stays.

So a step of a model is what the database makes atomic: one statement, or one transaction together with the values it
wrote from. What a request carries from its reads to its writes is part of the state.

## Contents

1. Inventory: the parts of the system
2. The modules and how they correspond to the code
3. Runs: what is checked and what it shows
4. Bounds
5. Fairness
6. Proofs
7. Where code and documentation disagree
8. What is not modelled
9. Plan

## 1. Inventory

Paths are relative to `src/backend-go/internal`, those of scripts to `src/backend/prisma`, those of screens to
`src/frontend/src`. "Hard" says what a test would hardly reach; "correct" what the part
has to guarantee.

### Order life cycle: `orderstate`, `modules/orders/orders.go`, `modules/orders/production_plan.go`

- *State.* `orders.status` (NEW, DRAFT, CONFIRMED, IN_PRODUCTION, READY_TO_SHIP, SHIPPED, CLOSED, CANCELLED);
  `order_lines` (qty, shipped_qty); `production_stages` (a mark per line and kind of work); finished goods movements;
  messages in the outbox.
- *Operations.* `transitionOrder` (a manager's move through the state machine), `UpdateProductionStage` (a mark of the
  shop, which may move the order and then posts finished goods and `production.completed` / `production.cancelled`),
  `Update` (PATCH, which accepts `status` among its columns), the production plan (writes stages without looking further).
- *Interacts with* 1C synchronisation (writes the same columns), acceptance acts (shipped quantities, evidence for
  closing), the finished goods warehouse (movements), the outbox (signals).
- *Hard.* Status derived from an order read earlier and stages committed so far; guards evaluated on one read and
  written over another; a completion posted, cancelled and posted again while lines are repriced.
- *Correct.* Signals alternate and agree with the status; a mark never undoes a cancellation, shipment or closing; a
  cancellation takes back exactly what is posted; closed orders have acts, shipped ones evidence of shipment.

### Synchronisation with 1C (UT): `onec`

- *State.* Head and lines of the order, its audit log.
- *Operations.* `SyncClientOrder` reads the order, asks 1C, overwrites head and lines in one transaction; matching by INN;
  synchronisation of supplier orders and customer payments.
- *Hard.* The request to 1C takes seconds between read and write; 1C may zero or change lines that have been posted.
- *Correct.* Our own progress is kept where 1C knows less (`NextStatus`, `KeepOurs`).

### Acceptance acts: `modules/finance/acceptance_acts.go`

- *State.* `acceptance_acts` with lines, `order_lines.shipped_qty`.
- *Operations.* Create: the act and its lines in a transaction, then a shipment per line in a transaction of its own.
- *Hard.* A stop between the act and the shipment of its lines; acts for an order that is being cancelled.
- *Correct.* Nothing is shipped that no act names.

### Outbox to 1C: `integration`, `modules/integration/handlers.go`

- *State.* `outbox_messages` (status, attempts, next attempt).
- *Operations.* Enqueue in the transaction of the change announced; `FlushOutbox` from a ticker (every five minutes)
  and from a button; Retry.
- *Hard.* Two flushes send and record the same rows; lost answers; a success that cannot be recorded; messages that
  overtake each other.
- *Correct.* Sent means taken; nothing is given up early; every message is settled in the end.

### Inbox from 1C: `modules/integration/inbox_handlers.go`

- *State.* `inbox_messages` (unique external key, status, attempts), and the warehouse that receipts write to.
- *Operations.* Receive (store once, then work off the oldest), the button, Retry; `onReceiptPosted` line by line.
- *Hard.* Nothing claims a document; one line of several fails; a stop after the last line and before the mark.
- *Correct.* Processed means applied; a repeated delivery changes nothing; nothing is given up early.

### Material stock and batches: `warehouse`, `modules/warehouse`

- *State.* `materials.stock_qty`, movements, `material_batches` (remaining quantity, owner of tolling metal, quarantine).
- *Operations.* Receive, tolling receipt, expense with `ConsumeFifo`, release from quarantine.
- *Hard.* Three tables written by separate statements outside any transaction, from values read before.
- *Correct.* At rest the three agree; a customer's metal goes to that customer's order, and first.

### National catalogue (NKT): `nkt`, `modules/nkt`

- *State.* `nkt_cards`, `nkt_queue` (a lock that expires), requests in the external catalogue.
- *Operations.* FillQueue, ProcessQueue (claim; file, moderate, poll or publish; write; requeue), passport, resubmit,
  decide on a duplicate, cancel.
- *Hard.* A call of up to 60 s between reading and writing the card, people editing meanwhile, answers lost after the
  catalogue has acted, the server stopping anywhere.
- *Correct.* No second request while the card has one; an NTIN only for a completed request; no card stays where it is.

### Import of customers and orders: `import-1c-csv.ts`, `import-extras.ts`, `dedupe-order-lines.ts`, `go-live.ts`

- *State.* Customers (by BIN or by a code made of the name), orders by number, lines, marks of the shop, acts, releases,
  the payments 1C counts; the files on disk.
- *Operations.* Import: customers, heads, lines, fuzzy payments. Extras: managers, acts, releases, exact payments. Removal of
  doubled lines. Go-live: thirty tables deleted, then everything fetched from a live 1C.
- *Interacts with* the shop's marks and the live synchronisation, which go on between any two statements.
- *Hard.* No transaction; a script may stop anywhere and is run again by a person; numbers repeat every year; a customer is
  spelt in several ways.
- *Correct.* The files arrive whole and once; one customer per organisation; what only the shop knows is kept.

### Import of purchases and stock: `import-1c-csv.ts`, `quarantine-inventory-batches.ts`, `lib/material-batches.ts`

- *State.* Orders to suppliers with lines and payments, batches (from a document, from the stock snapshot, from a live
  receipt), the stock of a material, aliases of names.
- *Operations.* Documents replaced line by line, payments, the snapshot deleted and rebuilt, the quarantine of prices, the
  resolution of a price for a quantity (FIFO, weighted average, chosen batches, last purchase).
- *Hard.* Replacing one's own rows among those of others; one wrong price among few; rounding.
- *Correct.* The snapshot is the file, live receipts stay, a quantity is priced in full and never out of quarantine.

### Import of the catalogue and prices: `import-catalog.ts`, `import-price-list.ts`, `backfill-price-list.ts`, `classify-articles-by-sheet.ts`, `mark-material-resale-articles.ts`, `import-damu.ts`

- *State.* Articles (price, history, in the price list, resold), compositions, norms, payments of credit lines.
- *Hard.* Scripts decide in memory on what they read at the start while people edit; two scripts mark the same column.
- *Correct.* A replaced composition and the price list are those of the file; what is made here is not hidden.

### Contractor requests and works: `modules/orders/contractor_*.go`, `pages/Production/ContractorWork.tsx`

- *State.* Requests (draft, sent, allocated, accepted, cancelled), works by order with a quantity, a share and a sum,
  supplier orders of 1C used as acts, deals in Bitrix24; in each tab the cached list, the card and the selection.
- *Operations.* Create, Update, SendToBitrix, Allocate, RemoveAllocation, Accept, Cancel; Assign, Accept and Remove of a
  direct work.
- *Hard.* Several statements per call and no transaction; sums computed in the browser and again on the server.
- *Correct.* Orders carry no more than the act, its sum to the last part, no more than the whole of a work is given away.

### Rights: `prisma/lib/field-access.ts`, `utils/fieldAccess.ts`, `utils/roles.ts`, `cmd/server/main.go`

- *State.* None: a matrix of roles over groups of fields, kept twice; the roles of every route; lists of roles at buttons.
- *Correct.* The tables agree, a button is not drawn for whom the server always refuses, nobody writes what is calculated.

### Screens and cache of the web client: `pages`, `components`, `hooks`, `App.tsx`, `api/client.ts`

- *State.* The cache of queries (what was answered, whether it is stale, whether a request is under way), the address
  (page, tab, drawers), modals and rows opened.
- *Operations.* Mount, refresh after a call, timers, the stream of events (`useLiveEvents.ts`), a failure or a lost answer.
- *Interacts with* the routes of the server: every call names by hand the keys to ask again.
- *Hard.* A key forgotten; an answer that overtakes a change; a screen that shows the same fact by another query.
- *Correct.* What this client was told of is asked again wherever it is shown; a polled screen catches up.

### Parts without a model

| Part | State | Hard | Correct |
|---|---|---|---|
| Reservations of batches (`warehouse/reservation_service.go`) | `batch_reservations`, `batch_override_requests` | check then insert (`:209`); two directors (`:312`); expiry over an override | one active reservation per batch and costing; a decision is final |
| Order costings (`ordercosting`) | versions with a status | two approvals at once (`service.go:715`) | at most one approved version per line |
| Nomenclature requests (`modules/misc`) | requests, articles | decision checked outside the transaction (`nomenclature_requests.go:265`) | one article per approved request |
| Purchase requests (`modules/warehouse`) | requests | a deal created and its number not stored | one deal per request |
| Deals (`modules/sales`) | deals, finished goods movements | the shipped status set again | one expense per shipment |
| Payments (`modules/finance`) | payments, sums on orders and documents | sums read outside the write (`payment_documents.go:613`) | the sum shown is the sum of the payments |
| Acts for a cancelled order (`finance/acceptance_acts.go:193`) | acts | the cancellation has already looked | no act after a cancellation |

Their screens are modelled; section 8 says why the rest stays out.

## 2. The modules and how they correspond to the code

```
OrderStatus  <-- OrderProduction --refines--> ProductionLedger
                      ^-- MCOrderProduction, OrderProductionProofs
Outbox        <-- MCOutbox, OrderProductionProofs
MaterialStock <-- MCMaterialStock, MaterialStockProofs
      ^-- instantiated by Inbox <-- MCInbox, InboxProofs      (Inbox --refines--> MaterialStock)
NktCard       <-- MCNktCard, NktCardProofs

OrderImport    <-- MCOrderImport, OrderImportProofs
BatchPrice <-- SupplyImport <-- MCSupplyImport, SupplyImportProofs
CatalogImport  <-- MCCatalogImport, NktCardProofs
ContractorWork <-- MCContractorWork, ContractorWorkProofs
SumProofs      <-- OrderProductionProofs, MaterialStockProofs, OrderImportProofs, SupplyImportProofs,
                   ContractorWorkProofs

AccessRights <-- ServerRoutes <-- ScreenBasics <-- ScreenOrders, ScreenWarehouse, ScreenCatalog,
                                                   ScreenWorks, ScreenMoney <-- WebClient <-- MCWebClient
```

An `MC...` module gives names to the instances the configurations use and holds nothing else. A `...Proofs` module holds
theorems about the modules it extends: OrderProductionProofs also those about the outbox its marks write to, NktCardProofs
those about both parts of the catalogue. Alternatives with a suffix (`Applies_NotRechecked`) stand next to the definition
they vary: they are what a plausible slip in that place of the code would be, and show that a property notices it; no
action uses them.

### OrderStatus: the state machine

No state; the operators that `OrderProduction` applies to what a request has read. `DeriveStatusFromStages`,
`MayCancel`, `MayShip`, `MayClose`, `MayConfirm`, `Transition` are the guards of `orderstate/statemachine.go`,
`guards.go` and `production_stages.go` for the context the handler fills; `NextStatus` and `KeepOurs` are those of
`onec/sync.go`. Two details of the code are kept because they matter:

- the handler passes no product lines (`ProductLineIDs: nil`), so the manual move to READY_TO_SHIP is always refused:
  `Transition` has no disjunct for it;
- one finished kind of work finishes a line, whichever it is (`LineDone`).

Checks of the request alone (role, comment, BIN of the customer, balance due) only refuse; they are left out.

### OrderProduction: one order under every writer of its status

| Variable | Code |
|---|---|
| `status`, `qty`, `shipped` | `orders.status`, `order_lines.qty`, `order_lines.shipped_qty` |
| `lines` | the rows of `order_lines`: any of `Lines` at first (an order 1C was the first to know has none), 1C inserts others |
| `marks` | `production_stages` by line and kind of work (a missing row reads as not started) |
| `made` | net of the order's release and cancellation movements of finished goods, by line |
| `ledger` | `production.completed` minus `production.cancelled` written to the outbox |
| `acts`, `acted` | number of acceptance acts and the quantities their lines name |
| `fgOut` | whether shipment movements cover the ordered quantity |
| `req` | each request in flight: its phase and what it has read |
| `bypassed` | observation: a status was written over one the writer had not seen, or past the state machine |

| Action | Code |
|---|---|
| `ReadOrder` | the read that begins marks, transitions and synchronisations: status, lines (`has`) and quantities |
| `StageMark`, `CommitMark`, `CommitMarkAndMove` | `UpdateProductionStage`: the transaction up to its last read, and its commit with or without a move (`UPDATE ... WHERE status = o.Status`), postings included |
| `PlanMark` | POST and PATCH of the production plan |
| `DecideMove`, `WriteMove` | `transitionOrder`: guards, then `UPDATE ... WHERE id` |
| `PatchStatus` | PATCH /orders/:id with `status` |
| `CommitSync` | the transaction of `SyncClientOrder`: the status, the quantities of the lines read with the order, lines of 1C that are not among them inserted |
| `CreateAct`, `ShipLine` | acceptance acts: the act, then each line |
| `PostRelease`, `PostShipment` | finished goods movements posted by hand |
| `Crash` | the end of a request at any point |

`CONSTANTS` switch 1C, the status column of PATCH and the production plan on and off, so that a run can say which
writers its claim survives.

### ProductionLedger: what the shop promises the rest of the factory

The abstract specification of marks: the order's output is posted or it is not, postings and cancellations alternate,
the order is ready only while its output is posted. `OrderProduction` implements it with
`posted <- ledger = 1`, `ready <- status = "READY_TO_SHIP"`, `trusted <- ~bypassed` (property `LedgerKept`).

### Outbox

`row` is `outbox_messages` (status, attempts, and the delay that is still to pass), `got` what 1C has taken (external:
it takes a message once however often it is sent), `work` what each concurrent `FlushOutbox` is doing: the rows it has
read with the attempts it saw, and whether the message at their head was accepted or refused. `Begin` is the SELECT of
due rows, `Accept` and `Refuse` the HTTP call (a refusal may hide that the message arrived), `WriteSent`,
`SentNotWritten` and `WriteFailed` the two UPDATEs and the failure of the first, `Retry` the button of the
administrator, `Stop` the end of a flush. `BackoffMinutes` is the table of the code, looked up with the attempt
already counted.

### MaterialStock

`stock`, `received` and `issued`, and `batch` are the three places a quantity is kept: `materials.stock_qty`, the
movements by type, and `material_batches` by place in the order of receipt date. `job` is what each request is doing
and the stock or the view of batches it has read. A receipt is `BeginReceipt` (reads the stock), `RecordReceipt`
(movement), `WriteStock` (an absolute value, as the code writes it), `CreateFromMovement`; a receipt of tolling metal
`AddTolling`, `RecordTolling`, `CreateFromMovement`; an expense `BeginExpense` (compares with the stock),
`RecordExpense`, `DeductStock` (relative), `Pick` (the SELECT of `ConsumeFifo`), one `Take` per batch, and `Answer`.
`Doubtful` abstracts the comparison of prices that puts a batch in quarantine: it may or may not, where there is
something to compare with. `torn` observes that a request died or a receipt wrote over a change it had not seen.

### Inbox

Composes with the warehouse: it declares the variables of MaterialStock, instantiates it, and a worker of the inbox is
one of its requests. `Deliver` and `Store` are `Receive` (look up, then insert under the unique key), `Read` is the SELECT
of `ProcessPending`, `BeginLine` and `ContinueLine` apply one line by the actions of MaterialStock, `UnknownMaterial`,
`MarkProcessed`, `MarkNotWritten`, `MarkFailed` are the outcomes, `LineDies` and `Stop` the ends of a worker, `Retry` and
`AddMaterial` what people do. Documents of types whose handlers write a single row are documents without lines.

### NktCard

One card. `card` and `queue` are its rows in `nkt_cards` and `nkt_queue`; `nkt` the requests in the catalogue (external,
modelled from the answers the client distinguishes); `worker` the single goroutine of `ProcessQueue`; `manager` a form
somebody has open. The worker's turn is `Claim` (lock), `ReadCard`, `Call`, one of the `Record...` actions (the UPDATE of
the card that the answer leads to) and `Requeue` (the write of the queue). `Outcomes`, `Filings` and `Readings` say what
a call may do to the catalogue and what may come back, including a call that was carried out and whose answer was lost.
`MayMean` is the status an answer leads to; "under revision" leads to one of two, for when the second call, for the duplicates, fails,
the card goes to rework as if there were none.
`SavePassport`, `OpenResubmit`, `Submit`, `Resubmit`, `OpenCall`, `FormCall`, `FormWrite` and `FormQueue` are what people
do, `Moderate` and `Vanish` what the catalogue does on its own, `Unlock` the expiry of a lock, `Stop` the end of the
server. Several cards share nothing but the order of the queue, so one is enough.

### OrderImport, SupplyImport, CatalogImport: scripts over a plant at work

All three have the same shape. `script` is the process under way: its name, the step it is at, the rows of the file still
to do (a set where the order of the file decides nothing, so that any order is checked) and what it has read; each statement of the script is an action that is enabled at its step (`ImportCustomer`,
`ReadOrder`, `WriteOrder`, `ReplaceLines`, `AddLine`, ... in the order of the source), `Crash` ends the process anywhere,
and `Start...` begins it, or another, again. The rest of the plant acts between any two statements: the shop and the live
1C (`Shop`, `LiveSync`), the warehouse (`Receive`, `Issue`, `Confirm`, `PayDocument`), people at forms (`EditComposition`,
`ApprovePrice`, `ChangePurchase`).

In `OrderImport` the file of contractors is an argument of each run, as `--contractors` is: `listed` are the organisations whose
BIN this run knows, chosen when the script starts. `Bin` is the real BIN of those and a code of the name (`slug`) for the rest;
`met` are the customers this run has come across, which it finds again by name (`ByName`). `unlisted`, an observation, collects
the organisations with a BIN that an import ran without the BIN of, until the base has no customers again. Acts and
releases are what the code takes them for: an act is its number and, where the act names it, its order (`ActNumber`), a release is its
number (`ReleaseNumber`). `ActRows` and `ReleaseRows` are the rows of the file under such a number, of whichever
document, and `NewReleases` asks the base once, at the start, what is already written. `Printed` counts the rows of a document in the file
of lines, the ones without a quantity among them: they cut the file into blocks (`Blocks`) but become no lines.

What a file says is data: a set of documents with number, year, amount and spelling of the customer (`OrderImport`), a
record of totals, lines and rows of stock (`SupplyImport`), rows of compositions, norms and prices (`CatalogImport`). The
pure parts of the scripts are operators over it: `Key` (`buildUniqueKeys`), `Placed` (`assignLinesToHeaders`), `Bin` and
`Found` (who a spelling is), `Nearest`, `Judged` (the quarantine), `Extra`, `Made`. `imported` and `done` hold the files of
the last import that nobody disturbed; the properties about "as in the file" speak of them, so a run in the middle of which
somebody edits claims nothing about the edited rows and everything about the next.

In `SupplyImport` the identity of a batch is a triple: whose it is (a receipt, a line of a document, a row of the snapshot),
the action or the run that wrote it, and the line or row. The code has UUIDs; the triple only makes "written by this run"
sayable, and no action decides on it but FIFO, which breaks ties by it. `held` is what the import carries in memory from
statement to statement: the healthy prices per material, the materials of the old snapshot, the sums of the new one, the
total of the document whose payment it is about to write. Names lead to materials by `known`, which people extend by
aliases while the import runs (`AddAlias`), so two rows of one file may be looked up differently. `Receive` judges a live
receipt by the prices of the material out of quarantine, `Issue` takes the oldest batches first, in quarantine or not.

In `CatalogImport` an article may be in the catalogue or only in the files, a row of a composition carries quantity and cost,
the first of repeated rows counts (`Accepted`) and the last of repeated norms (`NormPlan`). `from` is the number of edits
when the script began: while it is the number now, nobody has interfered.

`BatchPrice` is `lib/material-batches.ts` without state: money in hundredths and quantities in thousandths, rounded at each
product and quotient where the code rounds. The median is the mean of the two middle prices, found by rank instead of by
sorting; `Taken` is what a batch gives when all older ones have given, instead of a loop with a running rest. `Specific`, a batch asked for
by its id, is a set of answers: empty when the call is refused, because the batch is unknown, of another material, or in quarantine
without the caller's consent (`Asked`).

### ContractorWork

`reqs` and `works` are the tables (a row of `works` without a request is a share given from the card of an order), `tabs` the
list, the card and the selection each person's screen holds, `call` the call under way of each person with its next
statement. A handler is a chain of steps since it runs outside any transaction: `AllocateRow`, then `RedistributeRead` (the act
and the rows), one `RedistributeWrite` per row in the order they were decided, `AllocateStatus` or `Answer`; `Drop` ends a
call between any two of them, and `torn` records that a redistribution stopped half way. A share given from the card of an
order is a call as well (`BeginAssign` checks, `AssignRow` writes). Calls of different people interleave freely: `on` says which
request and order each is at work on, and `crossed`, an observation no action reads, collects those that two calls were at work
on at one time. All claims are about what has not been crossed, since the code gives none for the rest (section 7). A call of an act keeps in `base` the sum the modal took from the card (`asked`) and the one
the server puts on the orders (`amount`): a sum typed by hand is sent, an untouched one is not, and then the server reads the
document's total anew, which 1C may have changed to any of `DocSums`. `Parts` and `splitAmount` are the
server's arithmetic and `Preview` the browser's, over integers, each part rounded (`Rounded`) and the row decided last taking
the remainder, unless part of the batch is not allocated yet. Works are of one kind (routing stage); rates by the hour and
fixed rates are left out.

### AccessRights, ServerRoutes, Screen...

Constant-level descriptions, one definition per definition of the source. `ROLE_MATRIX`, `expandGrant`,
`permissionsForRoles` are the tables of the scripts and of the client; `Routes` gives each route the roles its middleware
admits and the facts its handler changes, `Reads` the roles each question is answered to. A *fact* stands for the columns
one screen or another shows together (`order.status`, `line.shipped`, `article.cost`).

A screen is a record: whom it is drawn for, the queries it mounts (key, who is answered, facts shown, whether a timer asks
again), the components it holds, its tabs, the panels it opens over itself, and the calls it offers with the gate they
stand behind and the keys they refresh. Hooks keep the source's names (`useTransitionOrderStatus`). Layout, filters,
sorting and paging are left out.

### WebClient

One query of the cache under watch, on one page. `page` and `watched` are chosen at the start, `tab` and `drawer` move
(`ChooseTab`, `Open`, `Show`, `Close`: drawers are parameters of the address and stay, modals and rows close with their
tab). `data`, `stale` and `fetch` are TanStack Query's: `Mount` asks when there is nothing or it is stale, `Invalidate` asks
again when the query is observed and marks it stale when not, `ServerReads`, `Lost`, `Answer` and `Fail` are a request (the
retry of the client is folded into `Lost`), `Tick` a timer, `GrowStale` the thirty seconds. A first load under way is not begun
again by a refresh. A failed routing or costing is answered with demonstration figures as a success (`Substituted`).

`Press` begins a call some layer in reach offers, `Serve` is the server's handler, `Refuse`, `Acknowledge`, `NoAnswer` its
ends (calls are not retried; a lost answer counts as a failure). `debt` are the changes this client was told of while the
layer of the button showed them by the watched query, and which an answer read after the change has not paid yet.
`mounted` are the components on the screen, `Starts` where each account starts: a page, and a key that something on it shows.
`ChangeElsewhere`, `CostEvent`, `HearEvent`, `MissEvent` are other windows and the stream, heard only where
`useLiveCostUpdates` is mounted. `Gaps` are the pairs of a call and a key that the code is known not to refresh; they are a
constant of the run, so that a new omission is noticed (section 7).

## 3. Runs: what is checked and what it shows

| Run | Asks |
|---|---|
| `order_marks` | Do marks, transitions, plan, acts and shipments, interleaved and stopped half way, keep signals and status in step (`LedgerAgrees`), move an order only from the status read (`MarkRespectsOthers`), and is there an act or the warehouse behind what is shipped or closed (`ShippedHasEvidence`, `ClosedHasAct`, `ShippedBackedByActs`)? |
| `order_sync` | When 1C and PATCH overwrite status and quantities: does a cancellation take back all that is posted (`CancelTakesBackAll`), and is it all a behaviour of the ledger (`LedgerKept`)? |
| `outbox_flushes` | With overlapping flushes, lost answers and unrecorded successes: is what is sent taken (`SentWasTaken`), nothing given up early (`DeadHasFailed`), and every message settled in the end and not reopened (`EveryMessageSettles`)? |
| `stock_issues` | Do stock, movements and batches agree at rest (`BooksAgree`); does metal go to its owner (`TollingStaysWithOwner`) and in the right order (`TakesInTurn`) when expenses overlap? |
| `inbox_documents` | Is what is processed applied and nothing given up early (`JournalIsTrue`), redelivery alone harmless (`RedeliveryIsHarmless`), and is all of it a behaviour of the warehouse (`WarehouseFollowed`)? |
| `nkt_card` | Is there never a second request (`OneRequest`), a fault behind every stray one (`StraysAreExplained`), a completed request behind every NTIN (`NtinIsEarned`), and does a card move on and a completion get noticed (`CardMovesOn`)? |
| `import_orders` | Do two scripts, stopped anywhere and repeated among marks and synchronisations, leave the lines of the file (`LinesAsInFile`), an order per document (`EveryDocumentHasItsOrder`), a customer per organisation whose BIN no import ran without (`CanonicalClientOnce`), of an act no more lines than the documents under its number have and of a release the movements of one run (`NothingWrittenTwice`), the shop's status (`ShopIsSpared`), and does the wipe respect the foreign keys (`WipeIsInOrder`)? |
| `supply_import` | Are stock and documents those of the file (`SnapshotIsFile`, `DocumentsAsInFile`), batches of live receipts and of documents outside the file left alone (`OthersBatchesStay`), exactly the mistakes put in quarantine wherever they stand (`OneMistakeOnly`), and is every quantity priced in full, by every method out of batches that count, and a batch in quarantine refused when asked for (`PriceCoversQuantity`)? |
| `catalog_import` | Are a replaced composition and the price list those of the file (`CompositionAsInFile`, `ListIsFile`), and does what is made here stay shown whichever script runs when (`MadeStaysShown`)? |
| `contractor_work` | With calls of two people interleaved and broken off: of what no two have met on, do orders carry no more than the act (`OrdersWithinAct`), its sum to the last part (`MoneyAddsUp`), no more than the whole of a work (`WholeWork`), and are the sums shown the sums written while the card is true, the sum of its document included (`ShownIsWritten`)? |
| `web_client` | On any page, with any tab and drawer: is what this client was told of asked again where it is shown (`ToldIsShown`), and does a polled query catch up (`PolledCatchesUp`)? |
| `client_cost` | Shows one sentence of the repository that the code does not keep (section 7). |

All runs but the last pass; the last finds its counterexample. The run `web_client` also evaluates the assumptions of
`MCWebClient` about the tables: buttons against routes (`ButtonsAgree`), the two tables of statuses against each other and
the state machine (`StatusesAgree`), rights (`RightsAreOrdered`), the groups of the shop floor (`GroupsCover`), debts
(`DebtsAreShown`), the stage of a product (`FinishedStageCounts`).

What the passing runs show, beyond that nothing broke:

- The condition in `UpdateProductionStage`'s UPDATE is what makes the signals alternate. Without it (`Applies_NotRechecked`)
  `LedgerAgrees`, `LedgerKept` and `MarkRespectsOthers` fail. It protects against other marks and transitions that have
  been written; `WriteMove`, which has no such condition, is what sets `bypassed`.
- `postProductionCancelled` sums what is still posted instead of the lines as they are now; with the latter
  (`RolledBack_CurrentLines`) 1C's repricing breaks `CancelTakesBackAll`.
- Attempts counted from stale reads may undercount, never overcount: a message is given up late, not early.
- `DeductStock` is relative where `WriteStock` is absolute; expenses therefore never tear the books, receipts do
  (`torn` records it, and `BooksAgree` claims nothing then).
- The worker's decisions stay right although it decides on a card read before its call, because nobody but the worker
  changes the number of the request.
- A card whose row of the queue has gone is brought back by `FillQueue` alone; with `FillQueue` leaving moderation out,
  `CardMovesOn` fails for a completed request.
- An import may be stopped anywhere: the next run that nobody disturbs restores what it claims, because it deletes its own
  rows before it writes them. `LinesAsInFile` fails without the deletion, `OthersBatchesStay` with a deletion of all rows of 1C.
- Keeping the status outside of NEW, DRAFT and CONFIRMED (`TakeStatus`) is what spares the shop; `Key_NumberOnly` shows that
  two documents of different years would otherwise become one order.
- A call on a request that stopped half way may leave sums that do not add up (`torn`); the next allocation, removal or act
  puts them right.
- Of all pairs of a call and a query shown together, the twelve of `KnownGaps` are the only ones the client does not refresh;
  narrowing any call's keys (`ActKeys_ActsOnly`) breaks `ToldIsShown`.

## 4. Bounds

Every bound is a CONSTANT named as a bound where it is declared, or the size of a set. What they cut off:

| Run | Instance | Why it is enough |
|---|---|---|
| `order_marks` | 2 requests, 2 product lines, 1 kind of work, net finished goods of a line up to 1, distance of signals up to 1, 1 act, without 1C | the order has none, either or both of the lines; two are needed for "the last of several products" and for an act that ships one and dies before the other, two requests for every race of a read with a write |
| `order_sync` | 2 requests, 1 line, which the order may lack until 1C inserts it, all writers of the status on, net up to 1, distance 1, no acts | repricing of one line between a completion and its cancellation, and a line that comes after one, are the cases in question; two lines with both writers on do not finish in time; signals are claimed only by `order_marks` |
| `outbox_flushes` | 2 messages, ticker with a batch of 1, button with a batch of 2, 2 attempts, 1 retry, 1 stop | the limit leaves a due message out, both flushes hold the same row, and the limit of attempts is reached |
| `stock_issues` | 2 requests, metal of one order and of the plant, 2 batches, quantities 1 and -2, 1 death | an expense over two batches with another in between; a sign typed by mistake |
| `inbox_documents` | 2 workers, a receipt of two lines whose second is unknown at first and a document without handler, 3 batches, 2 attempts, 1 mishap, 1 death | a document in part applied and taken up again, a worker going on to a second document, both workers on one document |
| `nkt_card` | 2 numbers, 3 passports (2 complete), 1 attempt, 1 resubmission, 1 fault | a second request is possible, its number observable, and the fault may be any lost call, vanished request or stop |
| `import_orders` | 2 documents under one number a year apart, the same number for their acts and for their releases, 1 line each and a row without quantity, 2 spellings of one customer with a BIN, runs with or without the file of contractors, a payment of each, 2 scripts, 1 act of the shop, 1 new export, statuses CONFIRMED and CLOSED | collision, alias, doubled line, a run that knows the BIN before or after one that does not, and a script repeated after a stop are all there; the second script may be any other |
| `supply_import` | 2 documents, 2 materials of which the second may be unknown at first, 2 exports of a document each (one wrong price of three and two rows of stock of one material; a line without quantity and a material that disappears from the stock), 3 scripts, 1 act of the server, quantities 0 and 800 to price and 700 received or issued | the third run is the one after a stop and a change of the file; the act falls before, between or after them; one document is always outside the file; a quantity of 800 is more than the oldest row of stock and less than both, and once 700 are issued more than all |
| `catalog_import` | any of 2 articles in the catalogue at first, 1 material, 2 operations, files with a repeated row, a price of zero, a norm replaced and one below zero, 3 scripts, 2 edits | any two scripts of the eight and a repetition, an edit before and after |
| `contractor_work` | 1 request, 2 orders, 1 act whose document has either of two sums at any time, a share of 60 %, quantities to 2, 2 people, 4 calls | create, allocate, accept and one more call: a second allocation, a removal, a repetition after a stop, a share given directly, while another is half way on the same request or on another order |
| `web_client`, `client_cost` | 3 accounts of five roles, 1 query under watch at a time, 1 button pressed, 1 change elsewhere, 1 panel over a page, drawers watched over the warehouse | a key is refreshed or not by one call; the change elsewhere lets an answer be behind. Queries do not influence each other, so each is watched in a behaviour of its own |

`Room` in MaterialStock starts a receipt only if a place for its batch is left: without it a receipt would hang for a
reason the code does not have. Observations (`failed` in Inbox) are counted only as far as a property looks.

Symmetry is declared for requests, lines and orders where they are interchangeable, and only in runs without liveness
properties. `CHECK_DEADLOCK FALSE` stands in the runs of systems that really come to rest: all messages settled, all
documents done with the bounds on retries used up, all slots taken.

## 5. Fairness

Safety properties are checked under `Spec`, without fairness. Outbox and NktCard have a
`FairSpec`; the `Spec` of WebClient states its own.

*Outbox.* `WF(Begin(Ticker))`: the server starts a flush every five minutes (`cmd/server/main.go:429`). `WF(Step(f))`:
a flush under way goes on, as each send ends by the timeout of its HTTP client. `WF(Elapse(m))`: time passes. Nothing is
asked of 1C, of the button or of the administrator, and `Stop` stays possible at any point of a flush up to its bound.

*NktCard.* `WF(FillQueue)` and `WF(Claim)`: `startNktWorkers` (`cmd/server/main.go:37-85`) fills the queue every 24 hours
and works it off every 15 minutes. `WF(Work)`: a step under way goes on, as the client gives up a call after 60 s
(`nkt/client.go:103`). `WF(Unlock)`: a lock expires. Nothing is asked of people or of moderators.

*WebClient.* `WF(Tick)`: an interval of TanStack Query goes on firing while a screen with the query is mounted. `WF(Fail)`:
a failed request is taken note of. `SF(ServerReads)`, `SF(Answer)`: not every answer is lost for ever; an HTTP request ends
by its timeout (`api/client.ts:9`), but `Lost` may come first any number of times, so nothing weaker would let a poll
succeed. `WF(HearEvent)`: a window that listens hears in the end; `MissEvent` stays possible. Nothing is asked of people, of
calls, or of changes elsewhere.

Delays are abstracted to "not yet": a row of the NKT queue may be due at any time, a failed message of the outbox once its
delay has run out. No property speaks of how long anything takes.

## 6. Proofs

TLC checks the instances above. The proof modules establish the same properties for every value of the constants: any
number of requests, lines, messages, batches, documents, retries and faults, with no assumption but those named in the
modules (`KindAssumption`, `BoundsAssumption`, `OutboxAssumption`, `StockAssumption`, `NktAssumption`, `InboxAssumption`,
`ImportAssumption`, `NoOneAssumption`, `SupplyAssumption`, `CatalogAssumption`, `ContractorAssumption`). What they assume: sets of
requests, documents and materials are finite (any size), bounds are numbers, the files have the shape the parsers give them, rows of one file are told apart,
requests to contractors and orders have different ids, and the value that stands for "no row" is not one of the rows.

| Theorem | States |
|---|---|
| OrderProductionProofs: `TypeCorrect` | `TypeOK`; net finished goods never fall below zero |
| `SignalsAgree` | `LedgerAgrees` |
| `ClosedOrdersHaveActs`, `ShipmentsAreBacked`, `ShipmentsHaveActs` | `ClosedHasAct`, `ShippedHasEvidence`, `ShippedBackedByActs` |
| `MarksRespectOthers`, `CancellationsTakeBackAll` | `MarkRespectsOthers`, `CancelTakesBackAll` |
| `MarksKeepLedger` | OrderProduction implements ProductionLedger |
| `OutboxTypes`, `SentMessagesArrived`, `NoneGivenUpEarly`, `SettledMessagesStay` | `OutboxTypeOK`, `SentWasTaken`, `DeadHasFailed`, `SettledStays` |
| MaterialStockProofs: `StockTypes`, `BooksAlwaysAgree` | `TypeOK`, `BooksAgree` |
| `BooksBetweenStatements` | `Books`: between any two statements the three records differ by what the requests in flight have still to write |
| `TollingStays`, `TakenInTurn` | `TollingStaysWithOwner`, `TakesInTurn` |
| InboxProofs: `JournalTrue`, `RedeliveryHarmless` | `JournalIsTrue`, `RedeliveryIsHarmless` |
| `InboxFollowsWarehouse` | Inbox implements MaterialStock |
| NktCardProofs: `NktTypes`, `StraysExplained`, `NtinsEarned`, `NoSecondRequest` | `TypeOK`, `StraysAreExplained`, `NtinIsEarned`, `OneRequest` |
| `CompositionsFollowFile`, `PriceListFollowsFile`, `MadeIsNotHidden` | `CompositionAsInFile`, `ListIsFile`, `MadeStaysShown` of CatalogImport |
| OrderImportProofs: `ScriptsGoOn` | the inductive invariant `ImportInv` |
| `WipeMeetsNoRow`, `LinesStayAsInFile`, `OneOrderPerDocument` | `WipeIsInOrder`, `LinesAsInFile`, `EveryDocumentHasItsOrder` |
| `OneCustomerPerBin`, `SupplementWritesOnce`, `ScriptsSpareTheShop` | `CanonicalClientOnce`, `NothingWrittenTwice`, `ShopIsSpared` |
| SupplyImportProofs: `SupplyGoesOn` | the inductive invariant `SupplyInv` |
| `StockAsInFile`, `DocumentsOnce`, `MistakesOnly` | `SnapshotIsFile`, `DocumentsAsInFile`, `OneMistakeOnly` |
| `OthersStay`, `QuantityCovered` | `OthersBatchesStay`, `PriceCoversQuantity` |
| ContractorWorkProofs: `PartsAddUp`, `PartsBounded` | the parts of a sum, for any sum and any rows: they add up to it when the whole is allocated, and each is right to half a unit for every row there is |
| `AllocationStaysWithinAct`, `SharesStayWithinWork` | `OrdersWithinAct`, `WholeWork` |
| `ActSumIsDistributed`, `PreviewIsWritten` | `MoneyAddsUp`, `ShownIsWritten` |

**The argument in each.** None of the invariants is inductive by itself, and always for the same reason: it speaks of
the database, and a request about to write carries a decision taken on an older one. The strengthening says what of that
decision is still true.

- *Orders.* `Carried(q)`: a request that decided on SHIPPED has its evidence still
  (acts and shipments only grow, `EvidenceStays`), one that decided on CLOSED has its act, and a staged mark goes from
  one status of the corridor to another. `OrderInv` is `TypeOK`, `CarriedByAll` and the three invariants. A write that finds the
  status it has read (`Applies`) moves status and signal together; one that does not is `WriteMove` on a changed status,
  and sets `bypassed`. The refinement follows from the invariant: every step is a `Post`, `Cancel`, `Leave`,
  `Overwrite` or a stutter of ProductionLedger. For the quantities, `Backing`: what is shipped of a line and what the acts
  under way have still to ship of it (`OnTheWay`, a sum over all requests) never exceeds what the acts name; an act is
  committed before its shipment and a request that dies only forgets to ship.
- *Outbox.* `OutboxInv`: a flush in phase "accepted" has handed over the message at its head (`HandedOver`); neither a
  row that is not sent (`RowsCountFailures`) nor a copy a flush holds (`CopiesCountFailures`) counts more attempts than
  have failed; a dead row has counted them all (`DeadIsExhausted`). Attempts written from a stale copy are therefore too few, never
  too many.
- *Material stock.* `IssueInv`: for an expense that has read its view of the batches (`InHand`), what it still has to
  visit fits its order, no batch holds more than it saw, and what it has passed is used up as long as it still needs
  metal; slots never used hold nothing. Batches only shrink and never change owner or place, so the order taken from the view
  remains right however far the quantities have moved. `Books` is stronger than `BooksAgree`: not only at rest but, unless `torn`, between
  any two statements the three records differ by exactly what the requests under way have written to one and not yet
  to the next (`StockDues`, `BatchDues`); that is the theorem `BooksBetweenStatements`. At rest nothing is due, the
  differences vanish, and `BooksAlwaysAgree` follows.
- *Inbox.* `InboxInv`: a row of the journal counts no more attempts than failed (`RowsTrue`), and a worker that is past a
  line has seen it applied (`LinesDone`). Its workers are requests of the warehouse, so every step of a worker is a step
  of a receipt or leaves the warehouse alone (`WarehouseStep`); that is the refinement. For redelivery, `CalmInv`: as long
  as nothing has failed, died, been retried by hand or overlapped, documents in hand are held apart (`HeldApart`) and a line has
  been received just when its document is processed or a worker is past it (`AppliedOnce`).
- *NKT.* `NktInv`: what the worker has in hand fits the card as it is *now* (`WorkerFits`, `InHandFits`), the same for a
  form (`FormFits`), and a number on the card exists in the catalogue (`NumberGiven`). It is inductive because only the worker
  changes `card.request`, a completed request never becomes anything else, and each stray costs a fault: the lemmas
  `OutcomeFacts` and `OutcomeEvolves` say what a call may do, `NoMoreStrays` and `OneMoreStray` count.
- *Import of orders.* `ImportInv` says of every step of every script what is done and what is left. `WipeGoesOn`: the
  tables left to wipe are the tail of `WipeOrder`, and those before it are empty unless the server wrote since. `ImportGoesOn`:
  documents no longer to do have their order; lines written and lines to write add up to the copies of the document.
  `CustomersClean`, an invariant of its own beside it: no organisation with a BIN, unless an import ran without that, has a
  customer by code, and an import under way knows the BIN of every organisation it has not marked as unlisted; `NewCustomers`
  says where a customer that appears comes from, script or live 1C. `StatusRead`: what the
  import read of a status is still right for every order the shop has held since. `SupplementGoesOn`: lines of acts written are
  no more than the rows under their number (`ActRowsFinite`), and a run writes under the numbers of releases it found unwritten
  only. `CopyStays`: of doubled lines one is not on the list to delete.
  Keys of documents are shown to tell documents apart (`KeyIsKey`, `KeysDiffer`), which is what
  `OneOrderPerDocument` rests on.
- *Import of purchases.* `SupplyInv` has two halves. What holds whatever happens: the identities of batches tell their
  source and their run and are unique (`IdsTold`), documents no longer to do have the total and the lines written so far
  (`DocsWritten`), and once the old batches are removed all batches of the documents in the file, and later of the snapshot,
  are of this run (`OldRemoved`). What holds while nobody else writes (`Calm`): the batches of a document are those of the
  lines judged so far (`BatchesAsInFile`), payments (`PaidAsInFile`), the sums in memory and in the snapshot are those of the rows
  read so far (`SnapshotAsInFile`), and the healthy prices are prices of sound lines (`JudgedWell`). The last is where the
  median comes in: it is half the sum of two prices of the list (`MedianOfTwo`), so a price that agrees with all sound ones is never far
  from it, and one that stands out of all of them on one side (`SameSide`) always is (`NearIsFine`, `FarIsAnomaly`, with
  both roundings). `AfterEnd` carries all of it past the end of the script.
- *Catalogue.* `CatalogInv`: as long as nobody has acted since the script began, its purchase prices are still those of the
  base, what a replacement has done with is as in the file, quantity and cost, with nothing else beside it (`Replaced`; the rows
  accepted of a file have places of their own, `AcceptedApart`, so none overwrites another), and what it means to hide
  is not made here (`HideRun`). The marks of the price list go the way of the list whatever people do (`PricesRun`), as they do
  not touch marks. When a script ends, `DoneFacts` takes over what was true of its last step.
- *Contractors.* `CWInv`: what a call is about to write was checked against rows that read the same now (`CallsOK`), a
  request has one row for an order (`OneRowOf`), the orders stay within the act and the works within a hundred per cent, and the
  rows of an act carry its parts unless a call is about to write them or one stopped before it had (`Balance`); each but for
  what has been crossed. While parts are written, each row written carries its part and those not written have the quantities
  that were read. What keeps the check true until the write is not a lock, for the code has none: it is that of two calls at
  work on one thing, that thing is crossed (`Exclusive`), that the row a call has yet to insert is named by nobody else
  (`NewIds`), and that a step touches no request and gives away no more of an order than those it is on (`Frame`). So every
  action is proved twice: that the other calls stand (`CallKeeps`, once for all actions, from `Frame`), and that the caller's own
  does (`CallerKeeps`). Even of what is crossed some structure is kept, and has to be: two calls that met on a request may still
  be the only ones on its order, so a row never changes its request or order. The arithmetic is about rounding: parts other
  than the last are each half a unit away (`RoundedClose`, `SumSlack`), which bounds the remainder the last one takes.
- *Prices.* `TakenInAll`: what the batches give, oldest first, is the quantity or all there is, by induction over the sets
  of batches that contain everything older than their members, removing the youngest. `OlderFirst` is the order.
  For a batch asked for by its id the theorem says as well when there is an answer: just when the batch is of the material and out
  of quarantine or consented to.

`SumProofs` is the library under five of the proof modules. The folds of the community modules recurse by CHOOSE, and the induction
theorems of the prover's library take an operator as a parameter, which its backends cannot instantiate; `SubsetInduction`
states induction over finite sets with a *set* of subsets instead, and from it follow that a sum exists, changes by what one
element changes, ignores zeros and survives a renaming of the elements.

**What is only model-checked.** Liveness (`EveryMessageSettles`, `CardMovesOn`, `PolledCatchesUp`, `CostReachesScreen`):
fairness and ENABLED are beyond the prover used; of the first, that a settled message stays settled is a safety property and
proved. `ToldIsShown` and everything about the screens: `Together` in WebClient is declared RECURSIVE, which takes
the prover's arithmetic away from every module that reaches it; the tables are constants anyway, and TLC evaluates all of
them. Of a request or an order two of the contractors' calls have met on nothing is claimed, because what could be is false.

## 7. Where code and documentation disagree

One is a run that ends in a counterexample:

| Run | The repository says | The code does |
|---|---|---|
| `client_cost` | "пересчёт себестоимости в одном окне сразу обновляет «Спецификации» и «Прайс» в другом" (`hooks/useLiveEvents.ts:8`) | `useLiveCostUpdates` is mounted on the specifications only; the prices in another window keep the old cost |

Others were met while modelling and are recorded here without a run of their own; where a property would say the
opposite, the models follow the code.

- Two marks finishing the last two products at once each see the other unfinished; the order stays short of READY_TO_SHIP,
  and no manual move leads there (`modules/orders/orders.go:1442`; the comment at 1412 says "Заказ готов, когда изготовлены
  ВСЕ его изделия").
- A cancellation signal overtakes a completion waiting for its delay (`integration/service.go:259`), against "после того,
  как production.completed уже ушёл" (`modules/orders/orders.go:1780`).
- `ConsumeFifo` does not look at `price_anomaly` (`warehouse/service.go:188`), against "такая партия не участвует в
  автоматическом FIFO" (`09_COSTING_AND_STAGES.md:357`).
- A second webhook applies an inbox document while the first is at it (`modules/integration/inbox_handlers.go:42`), against
  "повторная доставка того же externalKey не применяется дважды" (`schema.prisma:1837`).
- After a publication the NKT card keeps READY_TO_PUBLISH, so the worker publishes again instead of asking (`nkt/service.go:709`;
  the comment at 708 says the next poll brings the NTIN).
- Two expenses may overdraw the stock: the comparison at `modules/warehouse/warehouse_stock_handlers.go:494` is not
  repeated by the write (comment at 491). Concurrent FIFO may overdraw a batch likewise (`warehouse/service.go:233`).
- A receipt writes the stock as an absolute value (`warehouse/receipt.go:110`) and loses concurrent changes;
  `TZ_ERP_Production_Planning (1).md:66` calls the stock "сумма движений".
- A document taken up again after an error begins with its first line, so lines applied before get a second batch
  (`modules/integration/inbox_handlers.go:600`), against `integration/service.go:255-256`.
- Two flushes may count one attempt between them (`integration/service.go:294`).
- Delays are 2, 4, 8, 16 minutes (`integration/service.go:298`), not 1, 2, 4, 8, 16 (comment at 42).
- After 1C has written a status past READY_TO_SHIP, or moved an order into it, the next mark sends a signal with no
  counterpart (`modules/orders/orders.go:1489`), and 1C may take an order out of production
  (`onec/sync.go:822` writes a status computed from an old read, against `08_INTEGRATION_1C.md:222`).
- PATCH /orders/:id writes the status without an audit row (`modules/orders/orders.go:1968` against `02_BUSINESS_LOGIC.md:197`).
- An act may be created for a cancelled order (`modules/finance/acceptance_acts.go:193`), and is committed before its
  shipment (`:343`).
- `production.posted` has a handler but is not among the types the webhook admits (`modules/integration/handlers.go:31-38`).
- `Resubmit` falls back to Enqueue only on an error, and rescheduling a row that is not there is none
  (`nkt/service.go:821-826`).
- `SavePassport` says the status returns to the start from REWORK and REJECTED too (`nkt/service.go:735-738`); the list
  at 744 has neither.
- Lines of an order are deleted and written again by an import, and the marks of the shop go with them
  (`prisma/import-1c-csv.ts:577`, ON DELETE CASCADE of `production_stages`).
- Documents of one number get keys of their own only within one export; two exports with one of them each overwrite the
  same order (`prisma/import-1c-csv.ts:118`: a number that is alone keeps its bare form).
- Without `--contractors` the import gives a new customer a code of its name for a BIN (`prisma/import-1c-csv.ts:442`); an import
  that has the file, or the live 1C unless it spells the name the same (`onec/sync.go:519-574`), then adds a second customer with the BIN. `CanonicalClientOnce`
  claims nothing of such an organisation (`unlisted`).
- Releases are told by their number, and what is written is read once (`prisma/import-extras.ts:275-296`): two releases of one
  number in a file each write the lines of both.
- An act that does not name its order is told by its number (`prisma/import-extras.ts:206`, `:246`): of two, the first gets the
  lines of both, and the second is never written.
- Two synchronisations at once may both insert the same line of 1C: each looks for it among the lines it read before the
  transaction (`onec/sync.go:883-915`).
- "Предпросмотр акта обязан показать те же копейки, которые запишутся" (`pages/Production/ContractorWork.tsx:58-59`), yet the modal leaves the
  sum out of the call when it is that of the card (`:685-690`), and the server takes the document's total of that
  moment (`modules/orders/contractor_requests.go:954-955`, `:984-985`): if 1C has changed it, other sums are written than shown.
- When the duplicates of a request under revision cannot be fetched, the card goes to rework (`nkt/service.go:598`), though
  there may be duplicates to decide on.
- Stopped between the deletion of the old snapshot and the update of the stock, the import forgets which materials were in it,
  and those the new file lacks keep their stock (`prisma/import-1c-csv.ts:866`).
- The quarantine script flags a batch again whose price a person has confirmed, when it is run again
  (`prisma/quarantine-inventory-batches.ts:40`).
- Payments of a credit line are attached to the last contract of a bank; when the next file brings a new sheet, the same
  payment is counted on two contracts (`prisma/import-damu.ts:156` against 211).
- When two calls meet on it, a request is allocated past its act and an order is given away more than whole
  (`modules/orders/contractor_requests.go:754-839`, `modules/orders/contractor_work.go:586`): each call checks sums it read
  before the other wrote.
- Calls and the queries they leave old on the button's own screen, the constant `KnownGaps`: AddBomItem, PutNorm and
  PromoteActual leave the list of articles and the gaps of articles; AddBomItem the card of the article; Recalculate the list
  of articles and the costing by routing; DecideNomenclature the gaps of articles; DecidePriceReview the digest of prices;
  DecideOverride the reservations about to expire.
- A failed request for a routing or a costing shows demonstration figures as the article's own (`hooks/useRouting.ts:71`, `:80`).
- `api/catalog.ts:20-22` calls PATCH and DELETE of `/bom-items/:id`, which no route serves (`cmd/server/main.go:289`).
- A sales manager sees the prices, and GET /price-reviews refuses him; the cell of the site is offered to more roles than the
  route admits; clearing an anomaly is not offered to the planner, who may; the inbox of orders on an administrator's own page
  is in a branch that is never reached (`pages/MyWork.tsx`).
- The sheet of details on the shop floor saves in two calls; when the second fails, the repetition is refused because the share
  is taken already (`pages/Production/shopfloor/DetailsSheet.tsx`). Errors of single ids in a batch acceptance are
  swallowed (`pages/Production/ContractorWork.tsx:1041`).
- A passport completed between the worker's read and its write leaves a complete card DATA_INCOMPLETE; a poll answered
  before a cancellation overwrites it (`nkt/service.go:885`); a slow Resubmit writes MODERATION over HAS_NTIN (`:814`).

## 8. What is not modelled

- *Within the components modelled:* creation, editing and deletion of orders, drawings and the production calendar; the
  cascade of costs a receipt starts; matching of customers by INN in the live exchange; external references and journal
  queries; bodies of requests and the attribute schema of NKT; organisations, warehouses and stock movements the imports
  create on the way; tranches and schedules of credit lines; rates by the hour or fixed of contractors; the columns, filters
  and forms of the screens, the change of page and of account, entries of the cache nobody looks at for five minutes, the
  print and design pages. They keep no state the properties tell apart.
- *Simplified inside the models:* the SUM a cancellation posts and its INSERT are one step (`modules/orders/orders.go:1810`; the
  order's row is locked by then, and a release posted between the two counts as one posted after both); the two levels of the share
  taken, of an order and of its lines (`modules/orders/contractor_work.go:599-631`), are one, and `Same` looks at request and order
  only (`contractor_requests.go:759-767`); the columns `accepted_at` (`:1041`), contractor and rate (`:578`) are not kept, so
  their UPDATEs are no steps; the wipe is of the six tables the scripts here write, of about thirty (payments and deals refer to
  customers as well, `prisma/go-live.ts:68`); the live 1C is taken to know the BIN of every organisation that has one.
- *Claimed of part of the behaviours only:* `BooksAgree` excludes receipts that ran over another request and requests that died half
  way (both do part the books); `OrdersWithinAct`, `WholeWork`, `MoneyAddsUp` and `ShownIsWritten` cover stops and repetitions
  but not two calls that meet on one request or order; `SnapshotIsFile` and `CompositionAsInFile` speak of a run nobody stopped or
  disturbed at its end, so materials that left the file while a run was stopped, and rows an engineer edits meanwhile, are outside; `OneRequest` is
  about the number on the card, and a number lost by an overwritten write is `StraysAreExplained`'s; `ToldIsShown` leaves out
  `KnownGaps`, failed refetches and first loads under way.
- *Reservations, costings, nomenclature requests, purchase requests, deals, payments:* the handlers of table "Parts without a
  model"; they are the plan (section 9).
- *Costing arithmetic* (`costing`, labour, pricing): pure decimal formulas without state, covered by unit tests; small
  integer instances would say little about rounding of money.
- *Catalogue and routing forms, Damu forms on the server:* writes of single rows, or one transaction.
- *Dashboards and the overdue job:* read-only queries and one idempotent UPDATE.
- *Accounts and event stream on the server:* stateless checks of a token; a mutex around a map of buffered channels.
- *Bitrix24 client, the mock of 1C:* an external service, and a stand-in for one.
- *Seeds, demonstration data, rotation of passwords, `check-data.ts`:* written once into an empty base, or reading only.
- *Time as a number:* delays and expiries are events that happen sooner or later.

## 9. Plan

Done: the order life cycle with 1C and acts, the outbox, the warehouse, the inbox, the NKT card; the import scripts;
contractor requests; rights, screens and cache of the web client.

Next, in this order:

1. **BatchReservation.** Reserve, expire, request and decide an override, with two directors and the expiry job.
   Abstract specification: a reservation goes from ACTIVE to one of RELEASED, EXPIRED, OVERRIDDEN and no further.
2. **CostingVersions.** Build, Approve, MarkOrdered per order line, composed with BatchReservation.
3. **Decisions.** One pattern, three users: nomenclature requests, price reviews, purchase requests handed to Bitrix24.
4. **Payments.** Customer payments and payment documents: sums recomputed after the write against sums read before it.
5. **More proofs:** `ToldIsShown` of WebClient, once the components of a page are a recursive function instead of a RECURSIVE
   operator; which of the contractors' claims about a request two calls have met on come back with the next one alone.
