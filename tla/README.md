# Shul Store Manager: TLA+ models and proofs

The Shul Store Manager is an offline-first point of sale: a *manager* (an Electron
application over one SQLite file), optional *kiosks* that order through it over
the local network, card processors reached over the network, and an optional
cloud store through which several managers merge their data. This directory holds
TLA+ modules translated from its TypeScript source, TLC runs that check them on
small instances, and TLAPS proofs that carry the main results to every instance.

`PROJECT.json` names, for every definition that models code, the source lines it
stands for, and lists the components, the hazards, the findings and the theorems.

Contents: [the system](#the-system) · [how the code is modelled](#how-the-code-is-modelled) ·
[modules](#the-modules) · [runs](#the-runs) · [findings](#what-the-violation-runs-show) ·
[fairness](#fairness) · [proofs](#the-proofs) · [not modelled](#what-is-not-modelled) ·
[plan](#plan)

## The system

| Component (source) | State it keeps | Operations | Hard behaviour | What makes it correct |
| --- | --- | --- | --- | --- |
| Card processor adapters (`packages/payments`) | a durable store per charge reference and per refund operation; the terminal or processor behind it | `createCharge`, `getChargeStatus`, `refundCharge`, `getRefundStatus` | lost, unclear and late answers; polling deadlines; a terminal that decides when nobody listens | a lost answer is never a decline; the store keeps what was learned |
| Payment service, charges (`payment-service.ts`) | the journal `payment_transactions` | `charge`, `finalize`, `reconcile`, `reconcileAll`, `resolveNeedsAttention` | awaits over shared rows, crash between two transactions, retries of one cart | a cart is charged once; no money is written off; a sale has its charge |
| Stock reservations (`store-database.ts`, triggers in `migrations.ts`) | `payment_inventory_reservations` | reserve, consume, release | competition for the last units | what is held is neither sold to others nor lost |
| Payment service, refunds (`payment-service.ts`, `refunds.ts`) | `refund_intents`, `refunds`, `refund_items` | `refund`, `listRefundAttention`, `resolveRefundAttention`, `recordRefund` | the answer is lost after the money moved; the same operation called twice; crash after "sent" | the processor is asked once; the books hold real refunds only |
| Checkout (`completeSale`) | `sales`, `sale_items`, `payments`, `benefit_payments`, `inventory_movements`, `cash_movements`, `daily_closes` | complete a sale under a completion key, with cash, terminal, account, benefit or card tenders; close the day | a replay of the same key; tax and benefits to the cent; receipt numbers from a range; a drawer closed on the day of a refund | one sale per key; the tenders are the total; an honest drawer is never short |
| Customer accounts | `customer_ledger`, `account_payments` | charge, pay, refund to the account, statement | credit limit against edits of it; replayed operation ids | the ledger and the documents explain each other; no credit nobody agreed to |
| Catalog and inventory | `products`, `product_barcodes`, movements, sale prices | edit, activate, movements | edits while a charge holds the product | stock is the sum of the movements |
| Stock counts | `stock_counts`, `stock_count_lines` | start, record, finish, apply, cancel | sales between the expected figure and the correction; a second application | a correction loses nothing that moved since |
| Sync outbox and engine (`packages/sync`, `sync-outbox.ts`) | `sync_outbox`, cursor, single-flight flag, backoff | `pushCycle`, `pullCycle`, backfill | acknowledged but not marked; lost and late requests; an engine replaced during a cycle | nothing is lost, order is kept, cursor passes nothing unapplied |
| Pull merge and restore (`applyPulledEvents`, `sync-restore.ts`) | every synced table, `sync_applied_events`, `sync_conflicts` | apply a page of events, restore a fresh device | two devices write at once; an event the database refuses; a machine lost in the middle of its history | devices end with the same rows; revocation is for good; what is restored is what was uploaded |
| Cloud transports and account (`*-supabase-transport.ts`, `cloud-account.ts`, `configureAccountStore` in `main.ts`) | tokens and store id in a file, store id and receipt prefix in the database | sign in and out, join the store of the account, claim a prefix, HTTP calls | raced claims, a step of joining that fails after earlier ones were written, refreshes that sign out | what was uploaded stays in one store; prefixes of a store differ |
| Backups (`backup.ts`) | backup files, the image vault | create, verify, rotate, collect images, restore | a crash between two file operations; a shared image | every backup left is whole; a restore has a way back |
| Kiosk server (`kiosk-server.ts`) | pairing code, token hashes, attempts | pair, authenticate, catalog, charge, status, revoke | revoked tokens, answers lost on the way | only paired kiosks charge |
| Kiosk client and application | `inFlightCharge` in a state file, the screens | charge, poll, pair, sign in | an answer lost after the card was taken; a crash; a bad disk | no cart is paid twice, no charge forgotten |
| Manager main process (`electron/main.ts`) | the timers and the IPC table | start-up sweep, ten-minute sweep beside the kiosk server, IPC | handlers interleave at awaits | every unresolved charge is swept while kiosks are served |
| Staff session (`session.ts`) and accounts | accounts with PINs, the signed-in person, one elevation, the idle lock | sign in, approve, lock, edit accounts | an approval used by another call; a stale list of accounts | an owner remains; one approval, one act |
| Cash drawer (`drawer.ts`) | none | kick | none | - |
| Price tags (`esl.ts`) | links with push status and attempts | link, push, retry | a price that changes during a push; sales that begin and end | the tag shows the price the register charges |
| Purchase orders and mail (`purchase-orders.ts`, `mail.ts`) | buying list, orders, receipts, queued mail | suggest, draft, send, receive in parts, cancel | a crash between sending a mail and marking it; an order cancelled while it is mailed | goods are received once, an order is mailed once |
| Arithmetic (`packages/shared`: checkout, pricing, refunds) | none | tax, shares, remainders | rounding and remainders | parts add up to the whole |
| Reports, labels, templates | none | queries and layout | none | - |
| Manager user interface | the checkout screen's cart, panel and completion key; lists as they were loaded | complete, charge, park, retry; staff section; stock count window | which ways out of a panel renew the key; a charge answered late; stale lists | a receipt is of the customer's own sale |
| Schema migrations (`migrations.ts`) | the schema and its triggers | upgrade | runs once, alone | - |

Components meet in three places. The *database* is shared by everything in the
manager: IPC handlers, kiosk requests, timers and the sync engine run on one
JavaScript thread and interleave only where one awaits. *Awaited calls* lead to the
processors, the cloud, mail servers and tags; what was read before such a call may be
stale after it. *Completion keys, charge references, operation ids and event ids*
tie a retried request to what it did before.

## How the code is modelled

The manager is one JavaScript thread over SQLite, and SQLite calls are synchronous.
Code between two `await`s therefore runs alone, and a handler that does not await is
one atomic step. Two things can still come between the lines of such a piece of code,
and both are modelled:

- the process can die *between two database transactions* of it. The variable
  `thread` says where a multi-transaction piece of code stands. While it is not idle no
  other handler runs; only the outside world and a crash can take a step;
- an *awaited call* ends later. The variables `call` and `rec` hold the calls being
  awaited, one entry per call. A crash forgets them; what they set in motion
  outside goes on.

Data are abstracted to what the properties tell apart: a charge is its reference, a
cart its completion key (which is also the idempotency key the interface sends) with
quantities per product, money is whether the terminal took it. Wording, masking of
card numbers, configuration hashes and the encryption of secrets are left out, and
"the configuration is gone" remains as a choice of the environment.

Operators named with a comment "Fault: ..." are not part of any specification. Each is a
plausible wrong version of the definition after it; the mutants listed in
`PROJECT.json` use it in its place and TLC must then find the property violated.

## The modules

### `CardProcessors`: the adapters and the terminal

For each charge reference: `call` (the `createCharge` call as the service awaits it), `terminal`
(what the card terminal did), `store` (the adapter's durable record); `adapter` is the
configured processor and never changes in a run (replacing it is `ReconcileBlocked`).
`SendCharge` is the call itself; `TerminalAsks` and `TerminalDecides` are the terminal, which
owes nothing: a request may be lost, a customer may walk away. `SimulatedAnswer`,
`ReaderAnswer`, `KeyStored`, `PostFails` and `PollAnswer` are the ways in which the three
adapters end or continue a call. `StatusAtOnce` and `StatusLooks` are `getChargeStatus`,
split where it awaits. The BBPOS adapter throws when the report does not settle a
charge; USAePay without a request key is `pending` for ever; a simulated charge that
was pending turns out approved.

### `PaymentLifecycle`: the charge from request to sale

Extends `CardProcessors`. State: `journal` (status, linked sale, attention reason), `hold`
(the reservation), `sale` per completion key, `stock`, `adjusted` and `lost` (movements
that are not sales), `active`, `up`, `thread`, `rec`.

| Action | Code |
| --- | --- |
| `Charge` | `validate`, the replay look-up, `createPaymentTransaction` with its reservation, then the call |
| `ChargeResumes` | the rest of `charge`: status written, reservation released if refused, on to `finalize` if approved |
| `CompleteCardSale`, `CardSaleFails` | `completeSale` for an approved charge: one transaction, or its roll-back |
| `MarkFinalized`, `FinalizationFails` | the transaction after it |
| `ReconcileAsks`, `StatusAnswers`, `ReconcileResumes`, `ReconcileBlocked` | `reconcile`, split at its await, acting on the row it read before |
| `Void`, `Retry` | `resolveNeedsAttention` |
| `CashSale`, `AddMovement`, `SetActive` | the rest of the store as far as a charge meets it |
| `Crash`, `Restart` | the process |

The journal's triggers are `Legal` (which transitions they allow) and the guards of
`Record` and `Flag`: an illegal update aborts and the handler throws.

### `StockReservation`: the promise to the rest of the store

An abstract specification over `hold`, `sale` and `stock` alone: stock is set aside for a
charge only if nobody else holds it and its cart has no other charge; what is set
aside becomes the one sale of that cart or is given back, in one step. The property
`KeepsPromise` says that `PaymentLifecycle` implements it, the crashes, threads and
late answers being stutters or one of its steps.

### `RefundIntents`: refunds of one sale

State: `intent` (the state of each operation's intent), `record` (how it is recorded),
`returned`, `stock` and `saleStatus` (what `recordRefund` changes together), `call`, `thread`,
`up`, and the processor's `open` (requests under way), `given` (money given back) and
`known` (the adapter's store). `StartRefund`, `SendRefund`, `ConfigUnavailable`, `GoOn`, `GiveUp`,
`Book`, `AlreadyBooked`, `BookFails`, `FailBook` and `Complete` are the pieces of `refund`;
`ResumeRefund` and `LookUp` are `resolveRefundAttention` and a repeated `refund` of an operation
that was sent, which ask `getRefundStatus` and never `refundCharge`. Amounts in cents are
not in this module: quantities stand for them.

### `TwoWaySync`: the managers of one store and the cloud

A write is named `<<device, n>>`, the n-th event of that device's outbox, which stands for
its random event id. It carries the `version` of the row it tells of, which is the write itself
unless it announces an older one again. State per device: `outbox`, `pushed` (the rows with a `pushed_at`), `db`
(which version of each shared row it shows, its kiosks, its numbered rows, the events it
has applied, the pull cursor) and `cycle` (the cycles under way). Shared: `cloud`
(`store_sync_events`; the position is the server id), `posted` (push requests that may
still arrive), `merge` (the transaction of `applyPulledEvents`, while it runs) and `clock`.

| Action | Code |
| --- | --- |
| `Edit` | an upsert of a setting, category, product or customer: row and outbox event in one transaction |
| `Announce` | `createSalePrice`, `deleteSalePrice`: the event of the product once more, with the version and the time stamp the device shows, because a sale price is no part of a product row and does not touch `updated_at` |
| `PairKiosk`, `RevokeKiosk`, `KioskCutOff` | `createKiosk`, `revokeKiosk`: row and event are *not* in one transaction, and a crash may come in between |
| `AppendRow` | sales, movements, ledger rows: immutable, numbered `MAX(sequence) + 1` of this database |
| `StartCycle` | `pushCycle`: the oldest events that are not marked, sent to the cloud; without any, the pull |
| `PushArrives` | the cloud inserts what it does not have, whenever the request arrives (external) |
| `PushAcknowledged`, `PushFails` | the batch is marked, or not; in both cases the pull follows |
| `ListArrives`, `PullFails` | `listEventsSince`: the first rows after the cursor that are not the device's own |
| `BeginMerge`, `ApplyOne`, `MergeAborts`, `MergeCommits` | `applyPulledEvents`: one transaction, an event at a time, rolled back when the database refuses one |
| `Crash` | the manager dies: its cycles are gone, requests that left go on |

`EditWins` and `KioskWins` are `localSyncVersion` and the comparison in `applyPulledEvents`; they keep
two oddities of the code: in a tie of time stamps the incoming event id is compared with the id
of the device's own latest edit of the row, whoever wrote the version it shows; and an
unrevoked kiosk loses where the device has no row of it, because `revokedAt` is then undefined
and not null. `Overlap` is how many cycles of one device run at a time: the engine is
single-flight, but an engine that was replaced (`recreateSyncEngine`) ends its cycle beside
those of its successor.

### `SharedHistory`: what the managers promise each other

A device learns of a write only together with, or after, everything its writer knew when
making it. The foreign keys between synced tables rely on exactly this. `KeepsCausalOrder`
says that `TwoWaySync` implements it, where `known` is what a device wrote or applied, and the
`basis` of a write is read off the order of the cloud and the cursor its writer had.

### `StoreArithmetic`: cents and thousandths

Operators only, the pure functions of `packages/shared`: rounding, sale prices, a cart line with
tax on top or included, the share of a partial refund. `StoreBooks` computes every amount with
them, so the runs of the books check them on amounts that do not divide evenly.

### `StoreBooks`: the books of one store

State: `sale`, `payment` and `refund` by completion key and operation id, the customer `ledger`,
`customer` and settings, `stock`, cash `moved`, `closed` days and the `till` that somebody could
count; `foreign` are receipt numbers that were pulled; `accepted` remembers every request the
store said yes to. `CompleteSale` is `completeSale` with every tender that asks no processor
(each of its refusals is a guard of its own), `ReplaySale` its answer to a key it knows
(`SameSale`, `validateExistingSaleMatch`), `RecordAccountPayment` and `ReplayAccountPayment`,
`RecordRefund` (`calculateRefund`, `recordRefund`; its `below` is explained next), `RecordCashMovement`, `RecordDailyClose`
(`dailyReport` as `Report`), `Edit` and `NextDay` the rest. Requests are a constant: which keys,
carts and tenders are sent, in which order and how often, is any choice of the environment.

Quantities are exact thousandths, but SQLite adds them as REAL numbers, and whether a sale is "refunded"
is decided by comparing such a sum with the quantity sold, without a tolerance. 0.7 and 0.1 add
up to less than 0.8. `RecordRefund` therefore chooses which of the weighed lines that are now back in
several parts (`MayFallShort`) stay `below` what was sold; such a sale stays "completed".

### `BuyingList` and `OrderMail`: from low stock to delivery

`BuyingList` has stock, vendors and links, the rows of the buying list, the `sheet` a screen shows
and the orders. Every reader refreshes the list first (`Refreshed`, `refreshBuyingList`), and
`CreatePurchaseOrder` orders from the sheet, however old it is; `ReceivePurchaseOrder` takes
deliveries in parts and posts the stock, `RowsReleased` and `Cancelled` give rows back. `OrderMail`
extends it with the queue of e-mails: `SendByMail` marks the order, `EnqueueEmail` is the next
transaction, and the drain of `MailWorker` goes through `worker` = "next", "publishing", "sending" on
the rows it read when it began. The mail server may deliver and lose its answer; the operator
cancels the order, asks for the mail again or removes the account meanwhile; the manager crashes.

### `PriceTags`: shelf tags and their push queue

A link has a status, attempts and an id, so that a push whose link was replaced writes nothing.
`DriverStep` is one step of the four-second poll: read the queue (`markSaleBoundaryPriceTags`
included), start a push with the price of that moment (`airing`), end it with success or failure.
Assigning a tag, "push now" and saving the settings each start a pass of the queue as well. Without an access
point every push of a pass fails (`PushRefused`, the `NullEslProvider`).
`Pull` brings a price from another device, which marks nothing: those products, and those whose
push was overtaken by a change, are in `overtaken` (history) and left out of the property, because the
code leaves them stale.

### `KioskCharge`: a kiosk that charges cards

Main process (`inFlight`, `call`, `polling`, `timer`), the state file (`file`, with the chain of
writes: `dirty`, `broken`), the `screen` and its `cart`, and the manager at the other end (`tx`, `active`).
`encrypts` is what `safeStorage.isEncryptionAvailable()` answered at the last start: without it a written
state has no token, and one that was written before cannot be read.
`Charge` writes down the charge before it asks; `ChargeTaken`, `ChargeRefused`, `ChargeDenied` and
`ChargeLost` are what becomes of the request, `ChargeAnswered` its answer; `Poll`, `PollAnswered`,
`PollDenied`, `PollLost` the poll, which goes on by its own timer (`PollsOn`). `Pair`, `CloudSignIn`,
`Revoke`, `Crash` and `Restart` change who the kiosk is. A kiosk signed in to the cloud account
charges on its own (`SellLocally`).

### `Register`: the checkout screen

The cart, the payment panel, the completion `key` of the cart, the status of a charge, the receipt
shown, parked sales, and what the main process made of the requests (`sales`, `txs`). `Complete`
and `SaleAnswered`, `InitiateCharge` and `ChargeAnswered` are split at their awaits; `Leave` loses the
screen's memory; `ScanUnknown` opens the product form from any panel.

### `StockCount`: counting while the store sells

The three states of a count, its lines, the window that drives it. `posted` counts applications,
`since` what moved after the count was finished (history).

### `Backups` and `StoreRestore`: what is saved comes back

`Backups` has the database file, the backup folder with the kind of each file, the image `vault`
and the image folder, and the stages of a restore, with crashes between copy, swap and opening.
`BackUp` is the whole of `createBackup`: copy, images into the vault, rotation (`Kept`), collection of
images nobody refers to (`Collected`), in one step. `StoreRestore` has a store of one product, one customer, one
charge and one kiosk, whose history goes to the outbox (also by the first backfill of an old store)
and is uploaded in batches (`Upload`), which the manager may not live to mark. Outbox and cloud are
sets of events with ids and sequences; the order in which they are replayed (`Before`: by sequence, refunds
last) is the code's sorting. `Replayed` applies them one after the other. `LoseMachine` ends the machine at
any point, `Restore` replays the cloud and keeps the result if it passes `VerifyRestoreIntegrity`, or is
refused (`RefuseRestore`); `Adopt` and `StopBeforeAdopt` are what main.ts does after. `kept` (history) is
the store as it was when the last uploaded event was written.

### `Access`: staff mode

Accounts with PINs that lock, the session with its role and permissions of the moment of signing
in, an owner's approval (`Elevate`) and its use (`Call`), idle expiry, and the settings screen that
saves whole accounts from the list it loaded (`shown`). `permits` are approvals given in this session
and not used yet; `overdrawn` is set when a request goes through without permission or permit
(history).

### `CloudAccount`: managers join the store of an account

Tokens and store id are in a file (`account`, `stored`), store id, prefix and "claimed" in the
database (`local`), and nothing writes them together. `SignIn` saves the tokens and reads what the
device is; `IdentityAnswered` is the answer of `POST /api/store/account` with the rest of
`afterSignIn` and `configureAccountStore` up to its first await (`Configure`); `ClaimFound`,
`ClaimMissing`, `PrefixesRead`, `ClaimAccepted`, `ClaimRaced` and `ClaimAnswerLost` are the requests of
`claimDevicePrefix`; `Joined` is the restore of an empty manager and the new engine. `JoinFails` may end any
of these, signing out as well if it was the refresh of the tokens, `SignOut` and `Boot` come at any
time, and a boot goes on from what was written. `Sell` numbers a sale with `nextReceiptNumber`, `Push` and
`Pull` are the engine, which works for the store of the database with the tokens of the file. The
cloud is external: one store per account, prefixes unique within a store, events unique by their
id. `under` and `joined` (history) say which store had confirmed the prefix a sale was numbered
with, `astray` which managers changed their store under a claimed prefix.

### `BackOffice`: the manager's application

Extends `StoreBooks` and takes, each by an `INSTANCE` with variables of its own, the components
of the manager that share no state with the books or each other: `Count` (`StockCount`), `Till`
(`Register`), `Copies` (`Backups`), `Cloud` (`StoreRestore`), `Door` (`Access`), `Managers`
(`CloudAccount`). A step of the application (`OfficeNext`) is a step of one of them, and
`OfficeAssumption` is what they assume of their constants. The properties of the books are checked
and proved under their own names, those of the other components under the names `BackOffice` gives them.

### `Remote`: what waits for somebody else

The same for the parts that wait for a vendor, the access point of the tags or the manager on the network.
It extends `OrderMail` and takes `Shelf` (`PriceTags`) and `Kiosk` (`KioskCharge`), again with variables
of their own: an order does not read a tag, and a kiosk that charges is, to the manager, the payment
service. `RemoteNext` is a step of one of the three (`SendOrders`, `PushPrices`, `ServeShoppers`), and
`RemoteAssumption` what they assume of their constants.

### `MC...` and `...Proofs`

`MCPaymentLifecycle`, `MCRefundIntents`, `MCTwoWaySync`, `MCStoreBooks`, `MCBackOffice` and `MCRemote`
give the constants their values for TLC. In `MCBackOffice` and `MCRemote` a behaviour plays one
*scene*: one component takes its steps, the others keep their initial state. The run then explores
the sum of the components' states and not their product, which would add interleavings of steps that
cannot see each other and nothing else (that this loses nothing is how the applications
are composed, which the lemmas `OfficeImplements` and `RemoteImplements` say). Where a component of `Remote` has two scenes they narrow its steps further: orders that
are mailed and orders that are delivered, a kiosk with a good and with a bad disk, are looked at apart.
In `MCBackOffice` the cloud scene loses acknowledgements only of an outbox that was not backfilled
(`BackfillIsMarked`; of the longer one it still uploads every prefix), its last machine, which nothing
could restore, only gets restored (`NothingFollows`), and a machine that stopped in `createKiosk`, of
which nothing is promised until the next restore, uploads but trades no more (`NoTradeUnpromised`). The theorems know no scenes. `PaymentLifecycleProofs`, `RefundIntentsProofs`, `TwoWaySyncProofs`,
`StoreBooksProofs`, `RestoreProofs`, `BackOfficeProofs` and `RemoteProofs` hold the theorems,
`SumTheorems` the lemmas about sums they share.

## The runs

| Run | What it checks | Bounds |
| --- | --- | --- |
| `charges` | type invariant; `SaleBacked`, `HoldsMatchJournal`, `StockLedger`, `FailureHasCause`, `NoMoneyWrittenOff`, `SalesRespectHolds`, and `KeepsPromise` (refinement) | two carts that want 2 and 1 of the last 2 pieces, one charge each, one reconciler, at most one unit lost, one product that is taken off and put back on sale, each of the three processors |
| `one_cart` | `NeverChargedTwice`, `SweepSettles` (liveness) | one cart, two attempts to pay with references of their own; the product is taken off and put back on sale; the kiosk server runs |
| `refunds` | type invariant, `AskedOnce`, `RecordedIsReal`, `CompletedIsRecorded`, `RefundLedger`, `SettledStays` | three operations that want 4 of 2 pieces (two by card, one by hand; one damaged), two concurrent calls, each of the three processors |
| `two_way_sync` | type invariant, `PushedIsInCloud`, `CloudIsOrdered`, `NothingSkipped`, `AppliedTookEffect`, `RowsAgree`, and `KeepsCausalOrder` (refinement) | two devices, one write of `a` and two of `b`, one product both edit and announce again, batches of one, pages of two, one cycle of a device at a time, clocks that agree, no two equal time stamps |
| `kiosk_sync` | `AppliedTookEffect`, now about revocations and sales at a kiosk | the same, with one kiosk that `b` pairs instead of the row |
| `back_office`, books | `BooksExplained`, `DrawerCountedRight`, `CentsAddUp`, `RepliesAreRecorded`, `CreditIsReturnedGoods` | six sale requests under three keys, two payments under one operation id, five refunds under two; a weighed product of $7.99 with a scheduled discount and a piece of $2.50 taxed with 8.88 %; two customers, limit $6; two receipt numbers left; two days, drawer movements on the last one only, one edit |
| `back_office`, count | `CountCorrects` | one product, two counts, two movements, each count applied up to twice |
| `back_office`, till | `OneSalePerCustomer` | one product, two completion keys, one charge, one parked sale |
| `back_office`, copies and cloud | `RestoresGiveBack` | one image, three backups, one of each kind kept, one sale; three events and what a backfill adds, three machines, one version of the product |
| `back_office`, door | `OwnersDecide` | two accounts, one permission, two attempts, clock 0 .. 1 |
| `back_office`, claims and moves | `ManagersKeepApart` | two devices, one of which uploaded a sale under an id of its own before, one account, a sign-in each; one device, two accounts, three sign-ins; two sales of a device |
| `remote`, mail and deliveries | `OrdersFollow`, `Settles` | one product, two orders; two mails, two attempts, one lost answer, one crash, one operator's retry, one change of the account; two vendors, up to three units received, one edit of the list |
| `remote`, tags | `TagsTellThePrice`, `Settles` | one product, two tags, two prices and one sale that begins and ends, two attempts, three edits, one pulled price |
| `remote`, kiosk and revoked | `KioskTellsTheTruth`, `Settles` | two charges, one crash and a token that is lost with it, paired or in the cloud; one charge, one crash, a disk that fails, one revocation |
| `stranded_approval`, `attention_after_sale`, `weighted_hold`, `over_refund`, `sync_stuck` | one documented promise each, which the code breaks | see below |

Why these bounds are enough to be interesting. Two charges are the fewest that compete
for stock or for a cart, and no handler relates more than two. One reconciler beside
`charge` gives two concurrent awaits on one row, which is where stale reads bite; the
proofs hold for any number. With two pieces and carts of two and one, each order
of the two decides differently who is served. Two refund callers are the fewest that
settle one intent twice; three operations over two pieces force a refusal at every
place where the limit is checked. Crash and restart are unbounded in number. The only
bounds of these runs that cut behaviour are `AdjustedRange` (how far non-sale movements
move a product) and `Retirable` (which products are taken off sale).

In the sync runs a push needs two requests to empty the outbox of `b` and a page can hold two
events, so that requests of one device overtake each other, are repeated after a lost
answer, and a page is cut in the middle of what it should bring. Two cycles of one device
at a time, or one more write, exceed five million states; overlapping cycles are
left to the proofs, which hold for any number of devices, cycles and writes and for any
sizes. `MaxWrites` bounds the writes, `Hosts` which devices pair kiosks.

What they show. `NeverChargedTwice`: however often a cart is submitted and whatever
dies in between, the terminal is asked for a card for at most one of its charges (the
idempotency key is looked up with the stored row, which outlives every crash).
`NoMoneyWrittenOff`: no silence, deadline or lost answer turns an approval into a
decline. `SaleBacked` and `StockLedger`: repeated and concurrent finalizations make one
sale, with one deduction. `HoldsMatchJournal`: stock is held for exactly the charges
that nobody has decided. `FailureHasCause`: an approved charge can be refused its goods
only if its cart was sold another way or stock was destroyed. `AskedOnce` and
`RecordedIsReal`: a refund is never sent twice, and a refund found again after a lost
answer is one that took place. `RefundLedger` and `SettledStays`: two calls of one
operation that come back in either order settle it once. `PushedIsInCloud`: no lost
acknowledgement or crash makes a device forget an event nobody else has. `CloudIsOrdered`:
requests that arrive late or twice neither double events nor swap them. `NothingSkipped`:
no cursor passes an event its device has not dealt with and would never ask for again.
`KeepsCausalOrder`: no sale arrives before its product. `RowsAgree` and `AppliedTookEffect`: the
merge does not depend on who pulls when, and a revocation is never undone. Both
are stated for clocks that agree. With a clock that is ahead TLC finds both violated, with
two equal time stamps `RowsAgree`: a local edit is not compared with the version
it replaces, and the tie-break looks at the device's own latest edit only. The
documentation promises nothing for these cases, so they are named as assumptions (the
constants `Skew` and `SameInstant`, and `ClocksAgree` in the theorems) and not as findings.

`TypesHold` of the two composed runs is the conjunction of the components' type invariants.
`BooksExplained`: every entry of the ledger has its document and every document its entry,
statements join without a gap, and goods left once. `RepliesAreRecorded`: whatever was accepted, also
as a repetition, is in the books as it was asked for, under a number of its own.
`CentsAddUp`: a benefit that pays a part and waives its tax leaves a remainder that is right to
the cent, and parts of a line give back the line exactly; a sale is "refunded" only if all of it
came back, and always then unless weighed goods came back in several parts (here 800 as 700 and 100). `CreditIsReturnedGoods`: a payment
never makes credit where the store takes none. `DrawerCountedRight`: reports, statements and the
till agree, also on the day of a late refund. `CountCorrects`: however long a review takes, what was
sold meanwhile is not lost; that a second application corrects once more is part of the
statement. `OneSalePerCustomer`: no order of retries, parking, declined and late charges shows one
customer's receipt to the next, but one (see the list below). `RestoresGiveBack`: no rotation takes the
images of a backup that stays, a restore can be undone, and a lost machine comes back as it was
at its last uploaded event. `OwnersDecide`: staff mode cannot be left without an owner, and an
approval covers one act. `ManagersKeepApart`: claims that race, lost answers, crashes and other accounts
on the same machine never split what a manager uploaded over two stores, nor let two managers
number their sales alike with prefixes one store has confirmed. `OrdersFollow`: a vendor gets an order once, and once more at most per
lost answer or crash; deliveries in parts, cancellations and the buying list agree.
`TagsTellThePrice`: a synced tag shows the price the register charges. `KioskTellsTheTruth`: whatever
dies or is lost, a kiosk knows the charge that is not settled and charges a cart again only
if it took no money. `Settles`: queued mails, pending tags and a kiosk's charge do not wait for ever (a tag: its
link does not stay "pending"; a push that failed too often ends in "error").

In these scenes one of a thing is usually enough because nothing relates two (tags, backups of
one kind, staff accounts of one role); where something relates two there are two (orders, price
tags, charges of a kiosk, completion keys, counts). The bounds that cut behaviour are the
numbers in the `WITH` clauses; they count faults and edits, not steps.

## What the violation runs show

Each of these checks one sentence of the documentation and finds a behaviour of the code
that breaks it. The traces are short; `PROJECT.json` "findings" quotes the sentences.

- `stranded_approval` (`ApprovalsSettle`). The approval is one transaction, the sale a later
  one. A manager that dies in between leaves a charge `approved` without a sale. The sweep
  selects `initiated` and `unknown`, the operator's list `needs-attention`: nobody ever
  sees it, and its stock stays held. (A poll of the same charge by its kiosk, or a
  replay of the same request, would finish it; nothing guarantees either.)
- `attention_after_sale` (`AttentionIsUnsold`). `reconcile` flags the row it read before its
  status call; if the charge was finalized meanwhile, a paid and sold charge ends as
  `needs-attention`, in no list.
- `weighted_hold` (`FailureHasCause`). Reservations of products sold by weight count
  units, stock and sales count thousandths: the hold protects a thousandth of what it
  should.
- `over_refund` (`MoneyBackWithinSale`). The refundable quantity counts recorded refunds only.
  While a card refund is at the processor, or after a crash left its intent `sent`,
  another refund of the same pieces is accepted. Intents that are `sent` are in no
  list and the form makes a new operation id each time.
- `sync_stuck` (`EveryoneHears`, under `FairSpec`). Movements and ledger rows are numbered with the
  next value of a UNIQUE column of the local database, and pulled rows keep the number
  they came with. Two managers that each sell once before they hear of each other use the
  same number; each refuses the page of the other, rolls it back with its cursor, and
  pulls the same page for ever.

## Fairness

`FairSpec` of `PaymentLifecycle` is used by `one_cart` and `stranded_approval`:

- `WF(Restart)`: a manager that died is started again. `SweepSettles` and
  `ApprovalsSettle` speak of runs in which it finally stays up, since a manager that keeps
  dying settles nothing;
- `WF(ThreadStep)`: synchronous code runs on;
- `SF(AdapterStep(c))`, `SF(ChargeResumes(c))`: an adapter call ends with an answer, an error or
  its deadline, and its continuation is run by the event loop. Strong, because other
  handlers make the thread busy in between; the loop's queue passes over nobody;
- `SF(Sweep(c))`: the ten-minute sweep, which lists every `initiated` or `unknown` charge. Its timer is
  started together with the kiosk server (`main.ts:1022`, `main.ts:2536`) and stopped with it, so `Sweep`
  has the guard `KioskServing`, and `SweepSettles` is about a manager whose kiosk server runs. The other
  two sweeps are not relied upon: one comes with the window at start-up, which nobody owes a manager that stays
  up, one when an owner opens the checkout screen (`payments:reconcileTransactions` is an owner's call);
- `SF(StatusAnswers(w))`, `SF(ReconcileResumes(w))`: the same for status calls.

The terminal, the customer and the operator owe nothing. `SweepSettles` excludes USAePay: a
charge whose request key was lost stays `unknown` until somebody voids it, which the
code does on purpose. Without the kiosk server a pending charge may stay as it is until the next
start or until an owner looks; `docs/payments.md` promises no more than that.

`FairSpec` of `TwoWaySync` is used by `sync_stuck`. `WF(StartCycle)`: the engine's timer starts a cycle
at start-up, every few minutes and sooner after a failure. `SF(InTime)`,
`SF(PushAcknowledged)`, `SF(ListArrives)`: of the requests that are repeated for ever some arrive
while their cycle waits, and are answered; a network that never works would refute
everything. `SF(BeginMerge)`, `SF(ApplyOne)`, `SF(MergeAborts)`, `SF(MergeCommits)`: synchronous code that
only a crash interrupts. Nobody has to write.

`SceneFairness` of `MCRemote`, for `Settles`, is what the components state of themselves. The mail worker (`WF(WorkerStep)`): `main.ts` wakes it by a timer,
and an SMTP connection ends by its timeouts; `WF(EnqueueEmail)`: the second transaction of a send, which
only a crash prevents; `WF(Restart)`. The tag driver (`WF(DriverStep)`): polled every four seconds while
an access point is set, and its HTTP requests have a timeout. The kiosk: its timers run
(`WF(PollSent)`), writes of its file end well or badly, requests are taken, refused or lost, answers
are handled (`WF`); `SF(PollAnswered \/ PollDenied)`: of the polls that are repeated for ever some reach
the manager, whose own sweep settles the charge there (`WF(ManagerSettles(c))` for charges without an
outcome, which `SweepSettles` shows for the manager). Nobody has to buy, pair, edit or retry.

## The proofs

The proof modules follow one pattern: an inductive invariant `IInv`, a lemma that `Init`
establishes it, a lemma per group of actions that a step keeps it, and theorems
`Spec => []P` and `Spec => [][A]_vars` that follow. `IInv` was also run through TLC as an
invariant before it was proved.

`PaymentLifecycleProofs`, from `LifecycleAssumption` only (what the constants are, no sizes):

- `TypeCorrect`, `SalesAreBacked`, `HoldsFollowTheJournal`, `CustomersPayOnce`,
  `MoneyIsNotWrittenOff`, `HoldsAreRespected`, `StockIsAccountedFor`, `FailuresHaveACause`,
  `ThePromiseIsKept`.
- `IInv` adds what these do not say by themselves. A charge without a row left no trace
  outside (`NoTrace`), so a new charge is new everywhere; one row per key
  (`OneChargePerKey`) is why the terminal is asked once; an approval anywhere
  (in the answer of a call, in a status call, in the store, in the journal) is an approval
  of the terminal (`ApprovalIsReal`), and a refusal a refusal unless the processor is the
  simulated one (`RefusalIsReal`); a call is about a charge that has a row
  (`AskedAboutARow`); where the thread stands fits the journal (`ThreadPosition`); a linked
  charge is sold (`LinkedIsSold`); with `HoldsMatchJournal` these carry `SaleBacked`.
- `StockIsAccountedFor` is about the set `Sold` of carts with a sale: a step either leaves it alone or
  adds one cart to it and takes that cart's units off the shelf.
- `FailuresHaveACause` needs one more invariant (`Covered`): of a product no movement has
  taken below what is held, the shelf has all that the undecided charges hold, and the products of
  a charge that holds stock are on sale. `FailureHasCause` and the refinement
  `ThePromiseIsKept` are theorems for stores that sell by the piece (`Weighted = {}`): with weighted
  products both are false, as `weighted_hold` shows.

`RefundIntentsProofs`, from `RefundAssumption`:

- `TypeCorrect` (with: never more recorded as refunded than sold), `RefundsAreAskedOnce`,
  `RecordsAreReal`, `CompletionsAreRecorded`, `RefundsBalance`, `SettledForGood`.
- `IInv`: the journal says "sent" before anything is under way or given (`SentFirst`), what the
  adapter remembers is real (`RememberedIsReal`), what a caller carries back is real
  (`CallSound`), and the thread stands at a place that fits its operation
  (`ThreadSound`).

`TwoWaySyncProofs`, from `SyncAssumption`, for any number of devices, writes and overlapping cycles:

- `TypeCorrect`, `PushedReachesTheCloud`, `CloudKeepsOrder`, `NothingIsSkipped`, and `CausalOrderIsKept`,
  the refinement of `SharedHistory`.
- `IInv` says what is under way. A batch leaves no gap before an event that is not in the cloud
  yet (`Closed`), so that a request may arrive at any time, after any other, and the
  cloud stays ordered. A cycle that waits for a request that is gone finds the batch in the
  cloud (`CycleSound`), so that an answer is proof of delivery. A page leaves out only what
  its device wrote itself, or has passed (`PageSound`), even if another cycle of the device
  has committed since. And what a device has applied is *exactly* what others
  wrote up to its cursor (`StoresSound`), which gives `NothingSkipped` and carries the
  refinement: the basis of a new write is all its device knows, and the cursor of a device
  that pulls the write has passed that basis, too.

In the same module, from `SyncAssumption` and `ClocksAgree` (no skew, no two equal time stamps):

- `AppliedEventsTakeEffect` and `DevicesAgreeOnRows`. The invariant `TInv`: time stamps name versions of a
  row (an announcement carries an older version with the stamp it had), and every database, also the one
  of a transaction under way, shows of each row the newest version among those its device knows. That
  every version that is shown or carried was once written (`VersionsWritten`) is part of `IInv`.

`StoreBooksProofs`, from `BooksAssumption`, `RequestAssumption` (what a request can be: positive
carts that are not empty, a customer for a sale on account, payments and movements above zero) and `NullAssumption` (null is no row), for any catalog, customers,
requests, tax rate and number of days. Every property of the books is a theorem:

- `TypeCorrect`. With it go that the ledger and the closes are finite and that a sale has a customer
  exactly when it went on account (`Typed`); sums mean nothing otherwise.
- `RepliesRecorded`. The invariant `Replied` keeps, for each request that was answered, the sale or the
  payment under its key, which no later step touches except to mark a sale refunded; `ReceiptsApart`
  is why the sale is found by its number too: a new number is above all this store used in
  its range, and no pulled sale has it.
- `BooksAreExplained`. `Booked` finds for every document on account its entry, and counts the entries
  (`EntriesCounted`): there are as many as documents, so each has one and none is left over.
  Sequences are their numbers in order (`LedgerNumbered`). `Stocked` says that the stock is what it began with, less what was sold, plus what
  was put back, as sums over all sales and refunds.
- `DrawerIsRight`. What the till counts day by day (`Balanced`) equals what the report derives from the
  documents of the day; nothing is dated later than today (`Dated`), so that a close
  stays right (`NeverShort`) and the sums of a day that is over do not move.
- `CreditIsReturned`. A refund is not negative (`RefundsPay`), and a store that takes credit today has
  been seen to (`CreditSeen`); then each payment leaves the balance plus what was credited for
  goods where it was, or above zero (`Solvent`).
- `EveryCentIsKept`. `Tendered`: the lines of a sale add up to its total, and its tenders do, for
  every tax rate and rounding. `RefundsSound`: of each line, what came back never exceeds its
  quantity, subtotal and tax, and meets them when the last unit comes back; that rests on a rounded
  share being bounded by what is left (`RoundRatioBounded`). The amount of a refund
  is the sum of its parts, so what was paid back for a sale adds up by refund and by line. A sale is
  "refunded" only when nothing is left to give back. The converse is claimed for lines sold by the piece
  and lines that come back at once, because the sums of parts of weighed goods are compared as REAL numbers.

`RestoreProofs`, from `RestoreAssumption`, for any price, number of events, uploads and machines:

- `TypeCorrect` and `RestoreIsTheStore`. `RestoredIsTheStore` compares the store of a restore with `kept`, and says
  nothing about how either came about; the invariant `RestoreInv` therefore says what events are of a
  store. `From(base, E, s)`: the store `s` is what the events `E` make of `base`, that is the newest price,
  charge and settings among them and the union of their rows. `History`: on the machine this holds
  of the store and all events there are; of each event still to be uploaded it holds of the store it was
  written in and the events up to it; and of `kept` and the cloud, once the cloud is `Whole`. So the
  argument never follows a replay in progress: an event that is written comes after all others and carries what changed
  (`FromGrown`), the backfill adds events that all tell what the store has now (`FromTold`), and
  an upload moves the boundary between cloud and outbox.
- That it may speak of sets of events, though the code replays a list, is `ReplayedIs`: the recursion of
  `Replayed` has exactly one solution on finitely many events (`ReplayExists`, `ReplayUnique`), because
  among them there is a last one (`LastIs`); and by induction over their subsets what it computes is
  `From` (`ReplayedFrom`).
- `Numbered` is what the order rests on: ids are unique, sequences are unique but for settings
  saved on a fresh machine, what is not uploaded yet comes after everything in the cloud, and each event
  carries rows of its kind only. `Staged` says what a machine has before, during and after a restore.
- A restore is not refused because every store that can be uploaded would pass the checks (`Sound`):
  the running balance of the ledger is a sum (`SumTheorems`), each new entry comes after all others, and no
  number is given twice. Two stores that the same events make differ at most in the kiosk's token
  and in settings that were never uploaded (`KeptIsRestored`).

`BackOfficeProofs`, about the composed application `OfficeSpec`, from `OfficeAssumption`. Each component has
an inductive invariant of its own, and `OfficeImplements` carries what follows from it to the application:
every behaviour of the application is one of each component, the steps of the others being
stutters. That lemma holds by the way `OfficeNext` is put together, from components without a common variable:
it is a step of the argument and no evidence about the code, whose components were found to be
separate by reading it. Nothing below depends on the scenes in which TLC plays the components.

- `OfficeTypes`: `TypesHold`, the type invariants of all components, the books included.
- `CountsCorrect`, for any products, counts and number of applications. The invariant says of a finished
  count that the stock is what was expected, plus what moved since, plus the difference once for every
  application (`Explained`); an unfinished one has no history (`Untouched`), and the window
  works on a count that was started (`Opened`).
- `CustomersGetTheirSale`, for any goods, tenders, number of charges and parked sales. A completion key that is
  anywhere, on the screen, in a request, a sale or a parked cart, is not newer than the one in use
  (`KeysGivenOut`), which is why a new key is new to the main process. The receipt that is shown, or
  that the answer under way will show, is a sale that was made of this cart, unless the
  cart was touched under its key (`ReceiptIsMade`). Only the card panel asks about a charge
  (`ChargeHolds`), and an approved charge and the sale it pays agree (`ChargesPay`).
- `BackupsCanBeRestored` is `RestoresGiveBack`, both halves. Local backups, for any images, kinds and numbers
  kept: rotation leaves no more than it should and never
  touches the copy just made (`FewAreKept`, by counting), nor a backup of another kind; the vault
  has the images with which every backup that is left was made (`FolderOK`); and the copy made before a
  restore stays until a newer one replaces it, and has the sales of the database it replaces (`SafetyCopyKept`).
  The restore from the cloud: the theorem of `RestoreProofs` through an instance.
- `OwnersAlwaysDecide`, for any accounts, permissions and time limits. The invariant adds that an elevation
  is an approval that is not used yet (`Permitted`). That the last owner stays is `updateStaff`'s count of
  active owners, read in the transaction that writes.
- `ManagersStayApart`, for any devices, accounts, sign-ins and sales. `ManagersInv` adds that a prefix a manager
  believes to be confirmed is registered to it, and that the prefixes of its numbered sales are (`Confirmed`), which
  holds because the prefix is written only after the cloud said yes; that the
  registrations of a store are unique by device and by prefix (`Unique`); that what was acknowledged
  is in the store of `sync_settings` (`OneStore`), since `configureAccountStore` changes that id only before
  the first acknowledgement; and that the sets a maximum is taken of are finite (`FinitelyMany`).

`RemoteProofs`, about `RemoteSpec`, from `RemoteAssumption`, along the same lines: an inductive invariant per
component, and the lemma `RemoteImplements`, again true by the way `RemoteNext` is put together, carries what
follows to the composition. `RemoteTypes` are the
type invariants of all of them.

- `OrdersAreFollowed`, for any products, vendors, orders, mails, faults and edits of the list. `ListInv` says
  of the rows that a product has one suggestion at most and waits only for an order that can
  still come (`InLine`); this is what `refreshBuyingList`, `cancel`, `receive` and the merge of two vendors keep
  in turn, each assuming what the others left. Stock is what it began with, less what was sold, plus
  what was received, a sum over the orders (`StockExplained`); an order is received exactly when
  nothing is missing (`OrdersAccounted`). `MailInv` says that an order has one mail (`OwnMail`), that the
  drain holds each mail that is not sent once (`Draining`), and of each mail, one by one, that it arrived
  once, and once more for each lost answer and each crash (`ArrivedOnce`); `MailedOnce`, a sum over the
  mails of an order, follows because there is one.
- `TagsShowThePrice`, for any products, tags, prices, sales, retries and edits. A queue that was read is out of date as
  soon as a product is edited or its link replaced, so the invariant says what is still true of each
  push in it: it has the id of the link it was read from, and the link that has its product
  or tag now is not synced, or its product is in `overtaken` (`QueueUpToDate`). No two of a queue
  share a link, a product or a tag (`QueueApart`), which is where the queue being a permutation of the pending
  links is used: a surjection between finite sets of one size is injective.
- `KioskKnowsItsCharges`, for any number of charges, crashes and revocations, disks that fail and kiosks that
  cannot encrypt. `KioskTellsTheTruth` speaks of memory alone and is not inductive: a crash goes back to
  the file. `Remembers` says the file names the unsettled charge, too, and `Flight` that a charge is in
  the file before it is asked for. A cart whose charge may have taken money is hidden by the
  panel of a payment or of its recovery (`CartCovered`), so that "Pay" cannot be touched for it.
  A charge made in the cloud is settled where it was made (`InCloud`): a manager that answers "error"
  for a charge it does not know would be believed otherwise. All of it holds until the operator pairs the kiosk again
  while a poll is due (`crossed`); types and numbers (`Types`, `Counted`, `Calls`) hold beyond.

`SumTheorems`. The models add amounts with `SumFunction` of the community modules, whose recursion over the
subsets of a domain comes with no theorem. The module proves that the recursion has one solution on a
finite domain, by well-founded induction over the subsets of a finite set, and derives what the proofs
cite: a sum over a disjoint union, of one element more or changed, of two functions, over a
partition into groups, its sign, and its monotonicity. All of them speak of functions and
sets as values, so they can be cited like any other fact; the library's theorems about folds take an
operator as a parameter, which the provers cannot instantiate.

Checked by TLC only:

- `SweepSettles`, `Settles` and `EveryoneHears`: liveness under fairness is out of the prover's reach.
- The violation runs.

## What is not modelled

- *Replacing the processor* is one step, `ReconcileBlocked`; a charge keeps the
  adapter it was made with, as the frozen configuration in the journal does.
- *Rows from other devices, in the charge lifecycle.* A pulled event can deactivate a product
  that a charge of this device holds, or bring an unresolved charge of another device.
  `PaymentLifecycle` covers this device's own handlers, and `TwoWaySync` leaves out the
  payment journal; both in one are more than TLC can explore.
- *The edges of the sync.* Events that cannot be read; edits the database refuses because of a
  name or barcode that another row has; the conflict log, the last-sync times and the pause
  of a lapsed subscription. The cloud is external: that server ids become visible in their order is
  assumed of it. `Edit` is one transaction, as its upserts are; `ensureProductPlu` writes the
  product and its event apart, and a PLU given just before a crash, which no other device hears of, is
  not modelled. Nor are the sale prices themselves, which are never synced.
- *The account.* When tokens expire and are refreshed in advance, the subscription with its grace
  period, the exchange with Google, the last receipt number of a prefix
  (`validateReceiptPrefix`), and the engine with a pasted key, which ends where an account begins.
- *Pairing codes, rate limits, connection tests*: each guards one request by itself.
- *Editing* of products, categories, customers, vendors, templates and settings as far as it is one
  write of one row that nothing else reads in a race; barcodes and weigh labels, layouts, the
  cash drawer, reports other than the daily one, the screens that are forms over one call.
- *Schema upgrades*: run once, alone, before anything else; the schema is modelled as the
  last migration leaves it.

## Observations without a run

What the models and the reading behind them also show. Each is a behaviour of the code that no
document of the repository contradicts in a sentence a run could refute, or one that a property
names as its exception.

- *Books.* Benefits are computed with the product's price, also on a line with the price of a scale
  label (`Labelled`). The cash remainder of a benefit sale is refunded wholly in cash. An identical
  replay of a benefit sale is refused, because `sales.tender_type` keeps 'external_terminal', while
  an external-terminal request with the same cart is taken for it. A sale made after the close of
  its day is in no close.
- *Counts and orders.* A finished count can be applied twice. An order posts whole units where stock
  of weighted products is thousandths. A row added to the buying list above its threshold is
  removed at once. A crash between marking an order sent and queueing its mail leaves an order
  that is sent and a mail that is not. An order cancelled while its mail is under way is mailed all the
  same.
- *Sweeps.* Without the kiosk server nothing looks for an unresolved charge on its own while the manager stays up,
  though the checkout screen tells the cashier that it is resolved in the background.
- *Price tags.* A push overtaken by a price change is marked synced with the old price; a pulled
  price never marks the tag; the count of attempts is never set back.
- *Kiosk.* Signed in to the cloud, a refused charge stays in flight for ever, and an unknown one is
  polled once. One failed write of the state file rejects every later one. Pairing again forgets a
  charge in flight and leaves its timer. After "unreachable" the previous customer's cart is back.
- *Checkout screen.* "New sale" keeps the charge status of the panel (the exception of
  `OneSalePerCustomer`). A declined charge that is retried under its key is refused as a conflict.
  Resuming a parked sale replaces the cart. A charge that needs attention has no branch on the screen.
- *Backups and restore.* Rotation may delete the very backup that is chosen before it is copied,
  and sales rung during the copy are lost. A restore downloads at most 500 events through the account
  transport. A crash between replay and adoption leaves a store without its cloud; settings saved
  before a restore keep their place in the outbox; a crash in `createKiosk` between row and event makes
  later restores fail (the exceptions of `RestoredIsTheStore`). A machine that still runs after
  its store was restored elsewhere uses the same numbers.
- *Account.* A claim that fails while a manager signs in leaves the sync enabled with the unclaimed
  prefix 1, and the next start runs the engine: its receipts collide with those of the manager that
  was given prefix 1, and pages with them are refused. The same happens to sales rung before a device
  joins a store where prefix 1 is taken. A manager that changes its store keeps its old prefix if
  the claim in the new one fails (the exception of `ManagersKeepApart`). A sign-in that is refused because
  the PC "is linked to a different cloud store and cannot be merged" has saved the id of that store in the
  file by then, and the next start joins it. `setCloudStoreId` leaves the pull cursor where it was. An event whose answer was
  lost and that is sent again for another store is acknowledged, though only the first store
  has it. Any failed refresh of the tokens signs out, a lost connection included; one
  that ends after the owner signed out writes tokens back.
- *Staff.* An account created while staff mode is off makes `createFirstOwner` refuse, so that staff
  mode can never be turned on. A session keeps the role and permissions it signed in with. Wrong
  approval PINs of a cashier lock every owner.

## Plan

Modelled and checked: the charge lifecycle, refunds, the sync and its merge, the books, counts, orders
and mail, price tags, the kiosk, the checkout screen, backups, the restore, staff mode and the cloud
account. Every safety property and every refinement of the passing runs is a theorem as well.

What is left, in the order in which it would add most:

1. A device that joins a store other devices write to, in `TwoWaySync`, and the payment journal of two
   devices.
