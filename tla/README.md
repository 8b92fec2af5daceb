# Formal models of the hybrid retail / Cafe backend

TLA+ models of the parts of `src/backend/app` in which several actors share
state over time: the durable synchronization between a **Local Hub** (a shop's
own PostgreSQL database and FastAPI process) and the **Cloud Gateway**, the
tables, orders and bills of a cafe, the retail counter, the stock room, and the
doors through which guests, devices and staff come in. Small instances are
model-checked with TLC; every safety property that TLC checks is also proved,
for every value of the constants, with TLAPS. Liveness is model-checked only.

    tlc -workers 2 -config Shop.cfg MCShop
    tlapm DurableInboxProofs.tla

## 1. Inventory

| Component | State it keeps | Operations | What makes it correct | Modules |
|---|---|---|---|---|
| Durable inbox (`sync/service.py`) | `sync_inbox`, `sync_aggregate_versions`, `sync_dead_letters` | stage, consume, batch, retry dead letter | effects once and in version order; receipts and dead letters tell the truth; every row settles | `DurableInbox` |
| Durable outbox (`sync/service.py`, `sync/cafe_orders.py`, `services/cloud_transport.py`) | `sync_outbox`, `sync_dead_letters` | enqueue with the business change, push batch, retry dead letter | no published event is lost or taken for another | `OrderMirror` |
| Cloud mirror of an order (`services/hc3_cloud_orders.py`) | `cloud_orders`, `cloud_order_events`, `sync_receipts` | apply a local event | the copy follows the hub's order and catches up | `OrderMirror` |
| Cloud intake and command queue (`hc3_cloud_orders.py`, `routes/hc3_cloud.py`, `sync/cafe_orders.py`) | `cloud_orders`, `cloud_idempotency_keys`, `sync_commands` | create (idempotent), pull, import, acknowledge | one order per key at the price the guest saw; every order reaches the hub | `CloudOrders` |
| Menu publication (`cloud_coordination.py`, `cafe_cloud_publication.py`) and menu card (`cafe.py`) | snapshots and their states; items, categories | publish, edit, mark sold out | one active menu; a sold-out mark is not undone unseen | `CloudOrders`, `MenuCard` |
| Writer lease and fencing (`routes/hc4_cloud.py`, `cloud_gateway.py`) | `writer_leases`, heartbeats, continuity references | heartbeat, acquire, create reference | one writer per epoch, takeover only after expiry | `WriterLease` |
| Worker and continuity mode (`sync/worker.py`, `services/continuity.py`) | worker memory, `continuity_states`, reconciliation runs | `run_once`, reconcile, manual reconcile/retry | the mode shown tells of dead letters; the worker comes back to live | `ContinuityMode` |
| Signed requests (`cloud_gateway.py`) | registrations, nonces | verify, revoke | a signed request is carried out at most once | `SignedRequests` |
| Tables, sessions, guests (`cafe.py`, `public_cafe*.py`) | tables, codes, table sessions, guest accesses, rate buckets | open, close, move, rotate, scan, bill request | one open session per table; old codes die; guests stay in their branch; the limit holds | `CafeTable`, `TableCodes`, `RateWindow` |
| Cafe orders (`cafe_staff_orders.py`, `cafe_order_engine.py`, `public_cafe_ordering.py`) | `cafe_orders` with version and history | create, transition | legal transitions only | `CafeTable`, `OrderMirror`, `TakeawayBills` |
| Cafe billing (`cafe_billing.py`) | bills, invoice, stock, payments | bill a session / an order, collect | each order is billed once, stock leaves once, no overpayment | `CafeTable`, `TakeawayBills` |
| Invoices (`invoices.py`) | invoices, items, taxes, payments, sales | draft, issue, pay, cancel | stock and ledger follow; totals add up | `RetailCounter`, `BillMath` |
| Customers (`customers.py`) | ledger, opening balance, credit limit | edit, debit, receipt | the ledger follows the money | `RetailCounter` |
| Stock, purchase orders, sales (`inventory.py`, `purchase_orders.py`, `sales.py`) | levels, movements, orders | adjust, order, receive, sell, cancel | level = sum of movements; on_order = what is owed | `StockRoom` |
| Reorder advice (`reorder.py`) | none (computed) | advise | a sale never calms the alarm | `ReorderAdvice` |
| Products, barcodes, prices (`routes/products.py`, `barcodes.py`) | products, barcodes, price history | create, edit | a code names one product | `ProductCatalog` |
| Settings, tax operation, numbers (`business_settings.py`, `tax_operation.py`) | profile, registrations, sequences | register, activate, number | GST only when registered; numbers without gap | `TaxOperation`, `InvoiceNumbers` |
| Accounts, scoping (`deps.py`, `db/scoping.py`, `routes/ventures.py`, `auth.py`) | users, token versions | login, logout, assign | withdrawn tokens stay out; writable is readable | `Ventures` |
| Dashboards, exports, forecasting, AI | none (read-only) | queries | - | - |

**How the components interact.** Retail and Cafe services change business rows
in a database transaction; a change to an order that came from the cloud adds an
outbox row to the *same* transaction. One background worker per hub
(`LocalSyncWorker.run_forever`) cycles: signed heartbeat, writer lease, pull of
cloud commands into the inbox, inbox batch, outbox batch, reconciliation. The
inbox hands events to handlers (`import_cloud_cafe_order`, the continuity
reference handler) which run inside the transaction of the receipt. The cloud
is a request/response service on a database of its own; the two sides share no
state but messages, and every message may be lost, repeated or late.

**What is hard.** Reordered and conflicting versions of one aggregate; a second
worker with a stale batch; crashes between the two commits; answers lost after
the effect; requests executed after the sender has given up; leases that lapse
while their owner believes in them; operators who retry dead letters at any
time; on the hub itself, requests that read a session before locking it.
`PROJECT.json` lists each hazard at the line where it bites, with the property
that would catch it.

## 2. Modules

| Module | Models | Abstract spec | Proofs |
|---|---|---|---|
| `DurableInbox` | inbox half of `sync/service.py` | `AggregateLog` | `DurableInboxProofs` |
| `WriterLease` | lease rows, hub cycles, continuity references | - | `WriterLeaseProofs` |
| `OrderMirror` | one cloud order from import to its mirrored status | `StatusFeed` | `OrderMirrorProofs` |
| `CafeTable` | the visits to one table, their orders, bills and payments | `BillBook` | `CafeTableProofs` |
| `CloudOrders` | menu snapshots, orders of guests, the command queue, the import | - | `DoorsProofs` |
| `ContinuityMode` | the worker's cycle, the state row, the operators' requests | - | `DurableInboxProofs`, last section |
| `RetailCounter`, `TakeawayBills`, `BillMath`, `ProductCatalog` (`MCShop`) | retail invoices, takeaway bills, the arithmetic of a bill, products with codes and prices | - | `ShopProofs` |
| `StockRoom`, `TaxOperation`, `InvoiceNumbers`, `ReorderAdvice` (`MCBackOffice`) | the back office | - | `BackOfficeProofs` |
| `TableCodes`, `RateWindow`, `SignedRequests`, `Ventures`, `MenuCard` (`MCDoors`) | what lets a request in, and the menu card | - | `DoorsProofs` |
| `SumLemmas` | sums over finite sets, as the proofs use them | - | itself |

The MC modules give TLC the data of an instance and the symmetry. `MCShop`,
`MCBackOffice` and `MCDoors` check several modules in one run: these share no
variable, so the next-state relation lets one of them move while all the others
are in their initial state. The states explored are the sum, not the product, of
the modules' own, and every invariant is checked in all of them. What two of
them do to one row is modelled inside one module (both payment routes in
`CafeTable`, the retail cashier in `TakeawayBills`, adjustments beside receipts
in `StockRoom`).

Definitions whose comment says *slip* (`PositionLax`, `GrantKeepsEpoch`, ...) are
not part of a specification: each is a plausible bug, next to the definition it
would replace, and `PROJECT.json` names the property that notices it.

**The database.** PostgreSQL runs at READ COMMITTED, and the ORM keeps an object
as it was first loaded: a handler decides on what it read, and its commit writes
only the columns whose value differs from that. A request that reads without a
lock is therefore two steps in every module (`Begin.../Commit...`, or a record in
`pending`, `errand`, `desk`, `edit`, `request`), a request that locks the row
with the statement that reads it is one, and unique indexes are guards of the
commit.

### DurableInbox

`Stage` is the worker staging what it pulled (`stage_inbox_event`), `SelectBatch`
reads the ids of the first `BatchLimit` due rows without a lock, `ProcessRecord`
locks one row of the batch, in a session of its own, and runs
`_apply_inbox_record`. That function is the disjunction `ApplyRecord`, one disjunct
per return of the code: answered from its receipt, unsupported, gap, same version,
older version, handler failed, handler succeeded. The row is read under its lock,
but - as in the code - nobody looks again whether it is still due.

Two transactions read a row before they lock it, and are two steps.
`consume_incoming_event` stages and applies at once, whatever the back-off says.
For a new event that is one step (`ConsumeNew`); for an event with a row,
`stage_inbox_event` has read that row without a lock, and the locking select that
follows hands back the object the session holds: `BeginConsume` reads,
`FinishConsume` locks and runs `ApplyRecord` on what was read. Its `row` argument
is the row as the session has it, `stored` the row in the table; `Flushed` leaves a
column alone that is what was read, since the session writes no such column. So a
consume may write over a row that a worker has settled since. `retry_dead_letter`
(`BeginRetry`, `FinishRetry`) locks the letter and only reads the row; the lock
makes a transaction that dead-letters the same row wait. `overtaken` is a history
variable: the dead letters that a stale consume has written over.

Abstractions: of `next_attempt_at` the model keeps whether it is null, ahead or
passed; a handler is a choice between success and the two kinds of failure; an
aborted transaction is a stuttering step; `sync_checkpoints` is written and never
read, so it is left out. Two transactions that both insert an aggregate's first
version row collide on its unique key: the loser aborts and its exception leaves
the batch loop, which is `Crash`.

### WriterLease

`lease` is the `writer_leases` row, `epoch` the worker's in-memory
`fencing_epoch`, `local` the epoch stored in `continuity_states`, `created` the
epoch under which the cloud accepted a continuity reference. A cycle is
`Heartbeat` (409, own lease, or ask for the lease), `Acquire`, `Pull`,
`ApplyReference`*, `EndCycle`. `AcquireUnanswered`, `AcquireAbandoned` with
`LateAcquire`, `HeartbeatLost`, `Restart` and `LeaseExpires` are the faults.

An acquire and its arriving answer are one step: the hub waits at most 15 s for
the answer, a lease lasts at least 15 s (90 by default), and nothing else reads
the worker's memory in between. Whether the hub thinks its lease is alive is
nondeterministic, because its clock may differ from the cloud's. `lease/renew`
is not called by the worker and is left out. The configured scope of a hub is
taken to be the one its device is registered for. An operator's retry during an
inbox batch takes effect at the next one.

### OrderMirror

The hub's side: `Import` (`import_cloud_cafe_order`), `Transition`
(`transition_order` with `VALID_TRANSITIONS`), `MarkBilled` and `CloseSettled`
(`cafe_billing.py`, which raise the order's version and enqueue nothing). The
outbox is a sequence of rows, each an immutable event with its delivery state
and its dead letter. `SelectBatch`/`Skip`/`Send` are `process_outbox_batch`; the
HTTP request is executed inside the transaction that writes the row, hence
`RequestLost`, `AnswerLost`, `Abandoned` (executed later, `LateDelivery`) and
`Crash`. `Answer` and `Execute` are `apply_local_sync_event`: a known event or an
old version is a duplicate, a gap is a 409, an unknown status a 400, and
`_raise_sync_http` makes every 4xx but 429 permanent.

Abstractions: back-off is the flag `waiting`; `attempt_count` is only compared
with `MaxAttempts` and stops there; `SYNC_DEVICE_ID` is configured (without it
the API never enqueues a status); the rows of the order fit into one batch
(50 by default). Re-linking an order whose link row is missing is left out.

### CafeTable

`session` holds the `table_sessions` rows of successive visits to one table,
`order` the `cafe_orders` rows with the invoice that charges them
(`billed_invoice_id`), `invoice` the active invoice of each session. An action is
a transaction, except for requests that decide on a session they read without a
lock: an order, a guest's bill request, closing by staff, and a payment by the
retail route. The first two do lock the row later, but a locking select of an
object that the ORM session already holds does not refresh it, so what was read
first still decides; closing and the retail payment take no lock. `pending` is what
such a request has read, and its second half writes the version it read plus one,
or the `paid_amount` it read plus its own, as the code does. Billing is in two halves
because a clerk reviews `quote_table_session` before `bill_table_session`, which
itself locks session, orders and lines. The unique index
`uq_table_sessions_one_active_per_table` is `TableFreeFor`, a guard of the steps
that open a session or write a stale active status; a request it stops fails.

An invoice is its `paid_amount` and the sum of its `invoice_payments` rows, which
agree until two payments have read the same amount. `CollectInvoicePayment` is the
cafe's route, under the invoice's lock; `BeginInvoicePayment`/`AddInvoicePayment` is
the retail route, which knows nothing of tables, locks nothing and writes from what
it has read - also over a settlement that has closed the visit. `mixed` marks the
invoices to which that has happened; what is claimed of the others, and of all of
them, is in `InvoiceReconciles` and `Settled`.

Abstractions: an order stands for its lines, which move and are billed together;
every bill comes to the same total (`GrandTotal`), of which any part may be paid;
`status`, `payment_status` and `balance_due` follow from `paid_amount`, with which
they are written; an open balance needs a customer, who is left out; moving a
session to another table is left out; codes and guest accesses are in `TableCodes`.

### CloudOrders

The cloud's side: `BuildPublication`/`BeginPublish`/`CommitPublish` (a snapshot is
staged, the active one superseded, the new one activated), `ReadForOrder` and
`InsertOrder` (`create_cloud_order` looks for its key, then inserts against a
unique index), `PullCommands` with a limit, `Acknowledge`. The hub's side:
`ImportOrder`, `ImportReference`, `RetryImport`, `ChangeHub`. A reference and a
rejected import are never acknowledged, so they fill the batch; `OrdersArrive` says
what is left of the promise. What happens inside the inbox is `DurableInbox`'s.

### ContinuityMode

`worker` is the cycle of `run_once` with what it has read, `state` the
`continuity_states` row, `letters` the rows with a dead letter. The worker locks
the row before it reads it and holds it during a reconciliation; `Load`/`Answer`
is an operator's request (view, status, reconcile) that reads without a lock and
writes only what it changed. `crossed` marks that the last write was of a request
that something had overtaken; two properties are about what holds otherwise, and
the two liveness properties about what heals. Counts are "none or some", ages are
a flag, back-off is another failed cycle.

### RetailCounter, TakeawayBills, BillMath, ProductCatalog

`RetailCounter`: drafts, issue, collection, cancellation, receipts on account and
opening balances. Only the stock row is locked, from the check of an issue to its
commit, so an issue is read, check and commit. `TakeawayBills`: takeaway and
counter orders with their transitions, bills under an Idempotency-Key (look for
the key, lock order and invoice counter, commit), collection at the cafe under the
invoice's lock and by the retail route without one. `BillMath`: place of supply,
line amounts, tax rows and totals as the code rounds them, in paise; a line is
added per step so that the sums are those of every short bill over the given
prices, quantities, discounts and rates. `ProductCatalog`: a barcode is kept in a
column and in a row of another table, and an edit reads both before it commits.

Columns that an UPDATE leaves out keep their value: `Saved`, `Updated`, `Edited`
and `Changed`, in the modules that need it, write the columns of an UPDATE over
the row that is there.

### StockRoom, TaxOperation, InvoiceNumbers, ReorderAdvice

`StockRoom`: a purchase order is locked by the statement that reads it, and so are
the rows of receipts and sales; a manual adjustment reads without a lock and
writes an absolute value. (The lock of a purchase order is asked for by a select
with a joined, eager load; PostgreSQL refuses `FOR UPDATE` on the nullable side of
an outer join, so a database that is asked so fails such a request instead of
letting it through. The model has the lock.) `TaxOperation`: two admins save
settings, register, unregister and activate, days pass; `UpsertBusinessProfile` may
write any mode, for the check of `default_tax_mode` in the route and the
registration that the form creates are left out, which allows more than the code
does.

`InvoiceNumbers`: clerks draft under the lock of the sequence rows their query
returns (`seen`), admins save forms. A form writes every column of a row: label
(prefix, padding and suffix, which make the text of a number), counter, type, branch
and flag. The texts of two labels may coincide; of one label, different counters
have different texts. `seen` may leave out a row that an edit has made eligible
while the query waited. What a form has changed of a counter or label, and which
labels a sequence has had, is kept in `edited` and `worn`: the properties are about
sequences that count alone. Left out: new sequences (all are set up at the start),
moving one to another company (which is like switching it off), and
`ensure_invoice_sequence_available`, whose key holds a free text, the fiscal year.

`ReorderAdvice`: one product, its
sales in the last days and its deliveries; the advice is a function of the state.

### TableCodes, RateWindow, SignedRequests, Ventures, MenuCard

`TableCodes`: one table that is moved, closed and given new codes while guests scan
it and waiters open visits; a guest's bill request that has read its visit before
it ended brings it back. `sittings` counts the times a visit has become active, and
a closing remembers what it had seen of them. `RateWindow`: one bucket, requests
that take the time before they wait for its lock. `SignedRequests`: copies of
signed calls, nonces that expire, a clock. `Ventures`: tokens, logout and
assignment of one account, and the two pieces of code that decide what it may read
and write, also of rows whose branch is NULL (customers, chat sessions).
`MenuCard`: one item with its branch and category, forms with a version, the
sold-out switch, the categories' form without one; `vetted` is the place the last
form committed was checked for. `raced`, `overlapped`, `collided`, `crossed`,
`overwritten` in these modules are history variables: they mark that an overlap the
code does not prevent has happened, so that a property can say what holds without
it and, wherever the code heals, that it does.

## 3. What is checked

| Run | Instance | States (about) | Shows |
|---|---|---|---|
| `inbox` | 1 worker, 1 consume at a time, batches of 1, versions 1, 2 and a rival for 1, 2 attempts, 1 manual retry of each letter, crashes, symmetry | 2 160 000 | the safety properties of the inbox |
| `inbox_live` | 1 worker, 1 consume at a time, batches of 1, an unsupported event, 1 manual retry, crashes that end | 530 000 | every row settles |
| `lease` | 2 hubs, 1 reference, 3 epochs, one fault of each kind, symmetry | 660 000 | fencing, exclusion, takeover |
| `lease_live` | as above without a lost acquire answer | 66 000 | hubs reconnect |
| `lease_wedge` | 1 hub, 1 lost acquire answer | | a disagreement with the runbook, section 5 |
| `mirror` | 2 workers, 3 rows, 2 attempts, one fault of each kind, an attentive operator | 460 000 | nothing lost, in order, the copy catches up |
| `cafe` | 2 visits, 2 orders, 2 requests at once, bills of 2 units paid in parts, symmetry | 760 000 | one active session, bills that reconcile and stand |
| `cloud` | 2 publications, 3 attempts under 2 keys, 1 reference, 2 prices, batches of 2 | 560 000 | one menu, one order per key, agreed prices, orders arrive |
| `continuity` | 1 row, 1 operator, 1 restart | 660 000 | attention is shown and kept; the worker gets back to live; no deadlock |
| `shop` | 3 retail invoices, 1 customer, 2 requests; 2 takeaway orders, 4 bills, 1 cashier; bills of 2 lines; 2 products, 2 codes, 2 edits | 820 000 | stock, ledger, credit, keys, payments; totals and taxes; catalogue |
| `back_office` | 2 purchase orders, 2 products, 1 adjustment at a time; 2 saves; 2 invoices, 2 clerks, 2 forms, 3 sequences; 8 kinds of shelf, 3 days | 770 000 | stock, tax, numbers, advice |
| `doors` | 1 table, 2 branches, 2 codes; 3 hits; 2 calls, 2 copies; 1 account, 2 companies; 1 item, 2 categories | 1 190 000 | codes, limit, nonces, tokens, scope, card |

**Why the bounds are enough.** The inbox compares a version with the current one as
gap, next, same or older: versions 1 and 2 with a rival give all four, in every
order of delivery, and two attempts give both sides of the attempt budget. A
consume holds a row it has read while the worker selects, applies and dead-letters
it and an operator retries it, which is every overlap of two transactions on a row;
a second worker, which reads under its lock, does less than a second consume would.
A batch of one is an id read without a lock. One retry of a letter puts back a
dead-lettered row, and one that a stale consume has processed. Versions beyond 2
repeat the same comparisons, which the proofs confirm. The lease needs a first
owner, a takeover and a return: three epochs. The mirror needs the import and two
transitions to have an event that is a successor and a predecessor. One fault of
each kind is what makes a counterexample here; the safety proofs cover any number.
The table needs a second visit for a revived session to meet its successor, a
second order for a bill to leave one behind, and two requests for one stale write
to race another; its proofs, too, cover any number. In the newer modules a hazard
is a pair: two issues of one invoice, two collections, two edits, two rotations, a
scan beside a move, so two requests (or one, where a locked request is the other
side) give every order of their halves. A bill of two units is paid in one part or
two, so that a part payment can be late for a settlement. Three retail invoices are
two that compete for one unit of stock and one credit limit, and a walk-in's that
takes no stock; four bills are two rivals with one key, one of another order with
its own key and one that reuses the first. The numbers of a sequence run to 2, two
forms are saved (one to change and one to change back), and three sequences are one
of the branch, one of the company with the same type and one of the other type. A
second category gives two forms at once something to disagree on, one company-wide
place and one branch are enough for a misfit. The prices, quantities and rates of
`BillMath` are those at which roundings differ: halves of odd amounts, a rate whose
half has three decimals, an amount that rounds to zero. The clock of
`SignedRequests` passes the end of a nonce's life; that of `RateWindow` runs
through two windows.

**Fairness.** `run_forever` polls without end, so the worker's own steps are
weakly fair (`Work`, `Cycle`, `WorkerStep`, `CycleStep`, `PullCommands`, `Import`,
`Acknowledge`), and time passes, so back-offs elapse. A worker that crashes for ever
does nothing: the inbox asks that crashes end, not how many there are, and that an
operator's retry that has its lock commits. `ContinuityMode` adds strong
fairness for a row to settle: the row is tried in cycle after cycle, and its
budget of attempts ends that, which is `RowsSettle` of `DurableInbox`. Deliveries,
transitions, crashes, expiries, guests and operators owe nothing - except in
`AttendedSpec`, whose point is an operator who attends to open dead letters. The
other modules state no fairness: nobody is obliged to order, to pay or to edit.
Deadlock is checked in `continuity`, whose worker never stops; elsewhere the
system may rest.

**Properties of each kind.** In the newer modules the runs check one property per
module, the conjunction of its type invariant and its named parts, so that a part
reads on its own and `PROJECT.json` lists a slip for every part that matters:

| Property | Module | Parts |
|---|---|---|
| `CounterBooks` | RetailCounter | stock accounts for sales, the ledger follows the money, the row never overstates, the credit check holds |
| `TakeawayBooks` | TakeawayBills | one invoice per key, closed is paid for, the cafe collects exactly, the credit limit is kept |
| `BillAddsUp` | BillMath | the totals and the tax rows add up, a split tax is within a paisa, a local sale carries no IGST |
| `StockExplained` | StockRoom | on order is owed, movements explain the level, received in full, approved as submitted |
| `TaxHolds` | TaxOperation | no GST day without a registration, but for saves that crossed |
| `NumbersHold` | InvoiceNumbers | numbers are consecutive and a number held stays free, in sequences that count alone |
| `AdviceHolds` | ReorderAdvice | what is suggested suffices, a sale never calms the alarm |
| `CatalogAgrees` | ProductCatalog | a code names one product unless edits overlapped on both, rows match the column, the history leads to the prices |
| `ModeTellsTruth` | ContinuityMode | dead letters are shown, live hides none |
| `AsAgreed` | CloudOrders | one menu, one order per key, one price from the menu to the hub |
| `TableHolds` | TableCodes | a rotation clears earlier codes, guests stay in their branch, a closed table holds only visits that became active after the closing looked |
| `LimitHolds` | RateWindow | the bucket counts what it admits, windows do not overlap |
| `SignedHolds` | SignedRequests | a signed call is accepted once |
| `AccountHolds` | Ventures | withdrawn tokens stay out, staff keep to a branch, what is writable is readable but for rows without a branch |
| `CardHolds` | MenuCard | an item stays where it was checked unless edits collided, only a category's edit strands it there, sold out stays |

The first four modules keep their properties apart: invariants that relate queue
rows to effects, letters or the cloud's table and orders to invoices
(`VersionTracksEffects`, `NothingLost`, `BillsReconcile`, ...); action properties
(`SettledUntilRetried`, `SentStaysSent`, `TakeoverNeedsExpiry`, `ChargesStand`);
refinement (`KeepsPromise`, `FollowsFeed`, `KeepsBook`). Liveness is stated by
`RowsSettle`, `Reconnects`, `CatchesUp`, `OrdersArrive`, `LettersHoldAttention` and
`LiveAgain`.

## 4. What is proved

Every invariant, action property and refinement that a run checks is a theorem,
for any sets of events, aggregates, workers, hubs, requests, orders, products and
so on, and for any bounds. Each proof has the same shape: an inductive invariant,
one lemma per action that keeps it, and the property from the invariant and, for an
action property, from one step of the specification. What TLC shows on an instance
and what the theorem says for all of them is the same formula.

**Assumptions.** Each module names its own, with its constants: `InboxAssumption`
(events have an aggregate and a version of at least 1, `MaxAttempts` is positive),
`LeaseAssumption`, `TableAssumption` and so on. They say three kinds of things: of
which type a setting is, that a set is finite where the code sums over it, and that
a value standing for "no row" is none of the rows. None says how many of anything
there are. TLC evaluates them on every run.

**Sums.** What is on order, what a customer owes and what a bill comes to are sums
over sets of any size. `SumLemmas` proves what the other modules need of
`SumFunctionOnSet`: any element can be taken out, a sum changes by what one summand
does, grows with its summands, and looks at nothing but them. An induction over a
finite set is an argument about a smallest counterexample, for which inclusion of
finite sets is well founded (`SetInduction`).

### Core

- **Inbox.** `TypeOK` and `VersionTracksEffects` are not enough: that a
  dead-lettered row never has a committed effect needs to know what each row status
  says about the aggregate's version. `IInv` adds, per row, that an absent row is
  fresh, a processed row's version has been reached, a row that still waits has
  attempts left or was retried by hand, only supported events commit, and a
  committed row is processed or on its way to be so again. Of the transactions that
  have read a row they do not hold it says what the reading is still good for: what
  a consume has read was a waiting row with an attempt left (`ReadingOK`), so that
  whatever it writes over keeps within the limit; a retry holds a letter, and a row
  it has read as pending cannot be dead-lettered before it ends (`RetryOK`). An
  open letter lies on a dead-lettered row or on one a consume has written over
  (`OpenIsDead`).
- **Lease.** The epochs a hub may ever hold are those granted to it, grants to
  two hubs are disjoint, and the latest grant belongs to the row's owner. What a
  reference was created under is an epoch of the row, so only the hub at that
  epoch records it.
- **Mirror.** The versions of the outbox's events are strictly increasing and
  event *i* has a version of at least *i + 1*, while the cloud's recorded
  versions are 1, 2, 3, ... without a gap. So only the next outbox event can be
  recorded, and an event that is answered as an old version is the very event
  that is already known. This is why the cloud may drop old versions silently.
- **Table.** `TypeOK`, `OneActiveSession` and `BillsReconcile` are inductive
  together, with `PaymentsRead`: what a retail payment has read is at most what was
  received, for payments received only grow. So `paid_amount` never claims more
  than they do, a closed order's payments always cover it, and the bills that count
  as settled are those whose payments cover them; that `paid_amount` agrees with
  them excepts the invoices of `mixed`. The status of a session is no help: a stale
  guest request may turn a billed session back, and staff may then quote it again.
  What protects a charge is the order's own status, which no transition leaves once
  it is billed, and the look for an active invoice before a bill. That every order
  is charged at most once (`ImplementsBook`) follows from these two.
- **Mode.** `ModeTellsTruth` is inductive as it stands; `crossed` carries what a
  request that was overtaken may have done.

### Back office (`BackOfficeProofs`)

- **Stock** (`StockIsExplained`). What a product has on order changes by what one
  order is owed; the status of an order says whether it is owed anything, so a
  receipt, a cancellation and a submission each change one summand and the level by
  the same amount.
- **Tax** (`TaxAlwaysHolds`). While no two saves have crossed, the profile a save
  has read is the one in the row. The invariant says of each save under way that it
  turns sound settings into sound ones.
- **Numbers** (`NumbersAlwaysHold`). That a sequence has no gap needs to know what
  its locks are good for: two drafts never hold one row, and the label and the counter
  a draft has read are still those of the row, because a form waits for it. That the
  index never refuses a held number then follows. Sequences whose counter or label a
  form has changed, or that share a text with another one, are excepted, because in
  them neither is true; branch, type and flag may be edited at any time.
- **Advice** (`AdviceAlwaysHolds`). Two inequalities about rounded quotients of
  rounded averages, for all quantities: `RoundedIs` says which multiples a
  rounded quotient lies between, and the rest is comparison of those.

### Shop (`ShopProofs`)

- **Counter** (`CounterBooksHold`, `InvoicesIssuedOnce`). The invariant says, for
  each kind of request, which of the values it has read can still be relied on
  when it commits: collected amounts only grow, the stock row it holds is as it was,
  and a checked credit limit stays good where all invoices of the buyer sell one
  stocked product, because the lock on its row then keeps other issues to that buyer
  out.
- **Takeaway** (`TakeawayBooksHold`). A bill is made under two locks: that of its
  order, so that the amount it numbered is the one it books, and that of the
  invoice counter of the branch, so that in one branch one bill at a time is between
  the credit check and the commit. The invariant carries that bill's debt along with
  the sum of the others. (Across branches the limit is not kept, and not claimed.)
- **Bill** (`BillAlwaysAddsUp`). The totals run along with the lines. Each line
  adds as much to the tax rows of a kind as to the total of that kind; the rows of
  a line are not in the set before, so the sum over the rows grows by theirs.
  Half-up rounding is compared by its defining inequalities, as for the advice.
- **Catalog** (`CatalogAlwaysAgrees`). For an edit that nothing has overlapped the
  rows of its product are still those it looked at, so that its one change leaves
  the product with the row of its code and no other. A product is out of this as
  soon as two edits of it have overlapped. The proof is what showed that
  `CodeNamesOneProduct` needs its exception: without it the invariant does not
  close, and TLC finds the history told in section 5 with three edits and four
  barcode rows, which the instance of `shop` is too small for. With three edits and
  four rows the property as it is now holds in 1 160 000 states.

### Doors (`DoorsProofs`)

- **Table codes** (`TableAlwaysHolds`). Codes and visits only grow: a code keeps its
  branch and stays revoked, a visit keeps its branch. What a request has read of them
  is therefore still true when it writes. A closed visit may be revived by a late bill
  request, but not unnoticed: it gets a `sitting` of its own, later than what any
  closing of the table has looked at, and the property speaks of visits that had
  become active when the closing looked.
- **Rate limit** (`RateLimitHolds`). Whoever decides holds the lock on the bucket,
  and alone; the count it has read is the one in the row. The time it took before
  it had the lock may be older than the window, which the invariant allows for.
- **Signed calls** (`SignedAlwaysHolds`). A call is carried out while its timestamp is
  within the skew, and its nonce is kept for twice the skew after that, which is when
  the last copy ceases to be in time. A delivery that took its time before waiting
  decides up to `Delay` later: the property excepts calls whose timestamp was ahead
  of the clock by nearly the whole skew, and the invariant shows that nothing else
  has to be excepted.
- **Accounts** (`AccountAlwaysHolds`). Unless requests overlapped, the version in
  the row is the greatest there has been, so a token with another version is one
  that was withdrawn. What an account may write it may read, unless the row belongs to
  no branch: the guard of writes lets those through, the filter of reads does not.
- **Menu card** (`CardAlwaysHolds`). Until two edits collide a version has one
  content, so an edit whose form still has the row's version knows what it
  overwrites. Every edit checks a place, a branch with a category, and leaves the item
  there if its version is still the row's; what strands the item in that place is
  then an edit of the category.
- **Cloud** (`AlwaysAsAgreed`). Unless two publications raced, the one under way
  has seen every active one. Each attempt that is past its reads carries the price
  of the publication its key was scanned from; the unique key leaves one attempt
  to win; every order command in the queue has that order behind it, however long
  the queue.

Only model-checked: liveness (`RowsSettle`, `Reconnects`, `CatchesUp`,
`OrdersArrive`, `LettersHoldAttention`, `LiveAgain`), which needs fairness and
ENABLED and is out of the prover's reach. `OrdersArrive` and `LettersHoldAttention`
are written without `~>` and a plain `<>`, which cost TLC a second copy of the state
graph; `ArrivalIsLedTo` and `AttentionNeedsOneLetter` prove that nothing is lost by
it, because orders and letters, once there, stay.

## 5. Where code and documents disagree

- **Wedge after one lost acquire answer** (run `lease_wedge`). The lease lapses,
  the worker acquires it again, the answer is lost. The cloud's row is now one
  epoch ahead; from then on every heartbeat is refused (`cloud_gateway.py:168`)
  and the acquire that would repair the epoch is never sent. The runbook (line
  132) says the lease is reacquired. A restart of the worker, which forgets its
  epoch, helps.

The next ones are stated as definitions of the modules, which the code violates,
and are not among the runs:

- **One lost request stalls an order's mirror** (`CatchesUp` under `FairSpec` of
  `OrderMirror`, without an operator): its successor in the same batch is answered
  409 and dead-lettered at once, although the runbook (lines 62-63) says lost
  acknowledgements are retried and retryable failures stay queued.
- **Billing and closing are not pushed** (`ClosedIsPushed`), although the phase
  plan (line 145) lists both.
- **A guest's late bill request revives an ended session** (`EndedStaysEnded` of
  `CafeTable`): it overwrites `closed` with `bill_requested` (MV-FR-035 asks for
  an authorized, audited correction). The index stops it only when a new party
  sits down.
- **Staff may close a session with an unpaid invoice** (`ClosedMeansSettled`); the
  step plan (line 1109) lets a table close only after valid settlement.
- **A guest's retry may be answered 404** (`RetriesReturnOrder` of `CloudOrders`):
  the publication is looked up before the key. The addendum (line 103) says that
  retries return the same order reference.

These are steps of the models and have no property of their own, because the
models say exactly what happens and a property could only repeat it:

- a reference the cloud accepted before a hub's own lease lapsed is refused after
  the hub has acquired it again, since its epoch is an earlier one (the TRD, line
  251, says that references are imported exactly once);
- an order that read its session while it was open is placed although the session
  has ended since (MV-FR-034), by the same stale read as above;
- a bill may differ from its quote: the expected version is that of the session,
  which orders do not raise (the technical requirements, line 805, ask for a 409);
- a concurrent duplicate of a bill with the same key gets a 409 and not the first
  bill, which a later repeat does get;
- dead letters are never resolved, so `attention_required` is for good; a requested
  reconciliation reports `live` with queues pending or the cloud out of reach until
  the worker's next report (the runbook, line 17);
- a restarted worker does not know its scope until its first contact and leaves
  the row as it was;
- two publications that race leave two active menus until the next one that does
  not race; commands that are never acknowledged can fill a batch for ever;
- an invoice settled by the retail route leaves its cafe order and session billed
  for ever; a retail payment that overlaps another payment, by either route, writes
  `paid_amount` and status from what it had read: one payment is lost from the invoice
  row (not from `invoice_payments` or the ledger), the invoice of a visit or an order
  that has been closed may be partly paid again, and its balance collected twice;
- a consume of an event that a worker dead-letters meanwhile writes what it had
  decided over the dead-lettered row: the row waits or is processed, its letter stays
  open, and an operator's retry of that letter puts a processed row back to pending,
  to be answered from its receipt;
- a transition of a mirrored order after its bill is published with a version that
  the cloud refuses for good, since the bill raised the version unpublished;
- a cancellation that read a draft before it was issued marks the issued invoice
  cancelled while its stock, sale and ledger stand;
- two edits of a customer's opening balance book the difference twice;
- a counter set back by an admin fails every later draft of its sequence, one set
  forward leaves a gap; a form may give a sequence a prefix, suffix or padding whose
  numbers another sequence has already issued;
- two saves of the tax settings that cross can leave GST active without a
  registration;
- two rotations that overlap leave two live codes, of which a revocation kills the
  newest; a table moved during a visit blocks scans of its code; a table that was
  closed may hold a visit that overlapped the closing, or an old one that a late
  bill request has revived;
- an account confined to a branch may write rows without a branch (customers, chat
  sessions), which it cannot read;
- a token version is written as the value read plus one, so two withdrawals at once
  can revive an old token; two assignments at once mix their columns;
- `update_menu_category` does not look at the items it strands; two edits of an item
  at once can give two contents one version, and one that moves it to another category
  beside one that moves it to another branch can leave it where neither has checked;
- two edits of a product that both found no barcode row insert two; the leftover
  row blocks its code and can make later saves fail on the unique index. Three
  edits, each overlapping another on each of two products, can leave one code in the
  column of one product and in a row of the other: an edit that leaves a row as it
  was does not notice that another has taken it away, and brings the code back in
  the column. Entries
  of the price history may carry stale values of columns that did not change;
- halves of a tax that both round to zero write one IGST row of zero instead; a
  half rate is printed rounded while the amount uses the exact one; state name and
  state code of the place of supply may come from different sources;
- reorder advice ignores what is already on order (as `PRD.md:570` has it), and a
  target at or below the threshold never clears its alarm.

## 6. Plan

Next, in order of importance:

1. Proofs about what overlaps leave behind: which of the exceptions in the
   properties (`raced`, `overlapped`, `crossed`, `collided`, `overwritten`) heal
   with the next step that overlaps nothing, as `RotationClearsEarlier` does.
2. An abstract ledger that `RetailCounter` and `TakeawayBills` both implement.
3. Moving a session to another table; expiry of guest accesses.

## 7. What is not modelled, and why

Dashboards, exports, forecasting and AI answers only read and compute; audit
entries are appended and never read back by the program; masters (categories,
suppliers, branches, payment modes) are single rows without a life of their own.
The frontend talks to the API and keeps nothing authoritative; migrations, seeds
and deployment scripts run once. Cryptography (signatures, hashing, tokens) is
represented by what it achieves. Pairing of devices, password changes, filters,
searches and the rendering of invoices are left out. Numeric back-off delays and
jitter are abstracted to "later".
