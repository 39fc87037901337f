# Kalia Store in TLA+

A model of the store that sells digital accounts through a Telegram bot: what
its HTTP handlers, its worker's jobs, its bot, PostgreSQL, the payment gateway, its
admins and the customer do to each other. TLC checks every property on small instances;
TLAPS proves the safety properties for instances of any size.

## The system

| Part | State | Operations |
|---|---|---|
| Order service (`internal/service/order.go`) | orders, accounts' reservations | `CreateOrder`, `Cancel`, `CleanupExpired` |
| Payment service (`internal/service/payment.go`) | orders, payments, payment events | `HandleNotification`, `ReconcilePending`, `ConfirmPayment`, `ForceSettle`, all through `applyTransition` |
| Delivery service (`internal/service/delivery.go`) | deliveries, accounts sold, orders fulfilled | `DeliverOrder`, called by the payment service, by `Redeliver` and by `RetryFailed` |
| Repositories (`internal/repository`) | the tables | one SQL statement or two per method |
| Worker (`internal/worker`, `cmd/worker`) | the list of the run in progress | reconciler, expiry cleanup, delivery retry, each on a ticker and in a goroutine of its own |
| API (`internal/handler`, `internal/app`, `cmd/api`) | none | routes of buyers (bot), admins and the gateway |
| Gateways (`internal/payment`) | the transactions, at the provider | Midtrans; TemanQRIS, whose settlements a human confirms; a fake for development |
| Administration (`service/account.go`, `service/product.go`) | accounts, products | batch intake, edit, enable, delete, a forced delete |
| Transactions (`internal/repository/repository.go`) | row locks | `WithTx`: commit, roll-back |
| Telegram content (`service/telegram.go`) | menus, static responses | create, edit, enable, delete, resolve |
| Settings, admins | their tables | upserts, bootstrap of the first admin |
| Bot (`bot/src`) | menu cache, orders being polled | REST calls |
| Dashboard (`dashboard/src`) | none that matters here | REST calls |

API and worker are separate processes that share nothing but the database. A
buyer's request reserves an account and inserts the order in one transaction,
then calls the gateway, then stores the payment. Settlement reaches the order by
four ways - webhook, reconciler, manual confirmation, development helper - which
meet in `applyTransition`, and the one that moves the order to PAID goes on to
deliver it, outside any transaction.

What is hard: PENDING orders are closed by five kinds of goroutine, three of
which (cleanup, `Cancel`, the roll-back of `CreateOrder`) do not look at the order
under its lock; the release of an account does not check whose it is; events are
recorded before they are applied; an edit of an account writes a status it read
earlier, and deletions take rows away that requests still hold; transactions lock the
same rows in different orders; a charge is posted again although the first may have
been made; the bot's cache is filled by answers that overtake each other; delivery follows a committed settlement and may
never start; a message may be sent whose outcome is unknown; a list a job read is
old by the time it gets to its end. `PROJECT.json` has the list of hazards, each
with its line and the properties aimed at it.

What makes each part correct: an order's status moves along its state machine
once; money precedes goods; reservations and sales agree with the orders they are
for; nothing sold is sold again; whatever is paid is delivered, tried again when
it fails, and not tried for ever; whatever is not paid gives its account back; what a
customer is offered is free, what he is shown can be paid, and what he has got stays on
record; every transaction, request and poll ends.

## The modules

| Module | Models |
|---|---|
| `Tables` | the tables' columns that matter and the repository methods, one operator each |
| `Frames` | goroutines: their program counters and local variables; the gateway, the customer and the clock |
| `OrderService`, `PaymentService`, `DeliveryService` | the services, one action per stretch of code between two points where others can interleave |
| `Store` | all of them together; specification, fairness, properties |
| `MCStore` | symmetry for the small instances |
| `Ledger` | the abstract specification of the stock: who owns which account, who has got credentials |
| `StoreLedger` | the refinement mapping, and the claim that `Store` implements `Ledger` |
| `StoreProofs`, `LedgerProofs`, `PaymentProofs`, `DeliveryProofs` | theorems about `Store`: types and settlement; the stock; notifications; deliveries |
| `Inventory` | products and accounts under administration, with deletions and foreign keys, beside the orders on the same rows |
| `RowLocks` | each kind of transaction as the sequence of row locks it takes, those of foreign keys included; deadlock and its detection |
| `GatewayPromise` | the abstract specification of `payment.Gateway`: what `CreateCharge` may report |
| `MidtransClient` | `CreateCharge` over a network that loses requests and answers, with the retries of `do()` |
| `Qris` | the static-to-dynamic conversion of a QRIS payload on strings, and what it should do, on tags and polynomials |
| `Purchase` | one purchase: the bot's `startOrder` and `pollOrder`, `CreateOrder`, and the gateway, composed of the three above |
| `TelegramContent` | menus and responses |
| `BotMenus` | the bot's menu cache, keyboard and command handlers over `TelegramContent` |
| `MCInventory`, `MCRowLocks`, `MCPurchase`, `MCBotMenus` | symmetry, and the payloads, amounts and titles of the small instances |
| `InventoryProofs`, `RowLocksProofs`, `PurchaseProofs`, `BotMenusProofs` | theorems |

`Store` extends the three services, which extend `Frames`, which extends `Tables`.
The services say which repository operators run in one transaction by conjoining
them. A transaction is one action, because PostgreSQL commits it as a whole and its
writers hold the row locks; what is read *without* a lock and used later is split off:
`CancelRead`/`CancelCommit`, the lists of the jobs (`todo`), the order loaded by
`DeliverOrder` (`snap`). `DeliverOrder` is five steps: load, claim, send, and either
finalize or record the failure.

A frame is the state of a goroutine between steps: `pc`, the order `cur`, the loaded
status `snap`, the gateway status `note` to apply, `hook` (it is in
`HandleNotification`), `newlyPaid`, and `todo`. A `CreateOrder` call has its
frame in `createPc`, by order.

`Faults` turns on what may go wrong: `charge` (a call to the gateway fails,
with or without the transaction having been made), `persist` (the payment row cannot
be stored), `db` (any statement fails, or the process dies: `Fail`, `FailOne`,
`AbandonCreate`), `send` (Telegram refuses), `ambiguous` (the message arrived and the
answer did not). `Requests`, `Jobs` and `Reported` say which requests, jobs and
gateway statuses a deployment has. Without "settlement" in `Reported` the gateway is TemanQRIS.

Simplifications, all of them of data: one product; one gateway transaction per order,
which therefore stands for its id in `payment_events`; the order stands for its
`order_ref`; amounts, texts and credentials are left out; card captures do not exist
(the store creates QRIS charges); a job's list is complete, so `WORKER_BATCH_LIMIT` is
at least the number of orders, and its order is arbitrary; a PENDING order is "new",
"old" (past `WORKER_POLL_MIN_AGE`) or "overdue" (past `expires_at`), which assumes the
former is the shorter, as the defaults of 2 and 15 minutes are. Rows are not deleted in
`Store`; they are in `Inventory`.
An error that `applyTransition` discards inside a transaction (`_ =`) aborts it in
PostgreSQL, so it is a failure of the transaction. The look-ups between claim and
send change nothing; their failure is `Fail` at "send".

Bounds, both without effect on behaviour: `AttemptCap` stops counting attempts one past
`MaxAttempts`, which is all the code compares; `SendCap` counts messages as 0, 1, more.

### The other models

The models beside `Store` each take one part of what it abstracts from and look into it.

`Inventory` has the tables of the administration with their foreign keys. A row is NONE
before its INSERT and DELETED after its DELETE. `task` holds what a dashboard request has read, or
has deleted and not committed: `UpdateAccountRead` and `UpdateAccountWrite` are the two
halves of `AccountService.Update`, `ForceOrders`, `ForceAccounts` and `ForceProduct` the
statements of `forceDelete`, whose rows are locked until it commits (`LockedAccounts`,
`DoomedOrders`). Orders run through their life in as many steps as touch these rows; they close
under their lock only, so that what goes wrong is the administration's doing. `overwrote`
(accounts whose status an edit changed) and `handed` are history variables.

`RowLocks` opens up the transactions, which are atomic elsewhere. A transaction is the sequence of
its locks with their modes; which rows block which is PostgreSQL's table of lock modes. Foreign
keys lock too: the deletion of an account updates the orders that point at it (ON DELETE SET
NULL) and then looks for their deliveries (RESTRICT), that of an order updates accounts and
deletes deliveries, that of a product looks for accounts and orders. Orders may share an account
(`accountOf`): one that expired still points at it when another reserves it. A forced deletion
(`ForceDelete(k)`) deletes the orders that are there and meets those committed since, `k + 1` to `N`,
only through their accounts.

`MidtransClient` and `Purchase` open up the one step by which `Store` makes a charge. `call`
is where `do()` is, `late` a POST that was given up and may still arrive. `GatewayPromise` states what is
left for `Store` to rely on, and `Purchase` implements it with either provider
(`KeepsPromise`). For TemanQRIS, `txn` stands for the code that can be paid. `Purchase`
knows of an order's status only what the bot tells apart: PENDING or not.

`Qris` is about text, so its payloads are strings. `crc16CCITT` shifts and XORs 16-bit numbers as
the code does; `Check` divides polynomials over GF(2). The code searches strings
(`StripCRC`, `Stripped`, `Priced`); `Dynamic` works on a sequence of tags and encodes it.

In `TelegramContent` a command is a word and how it was typed, which is what
`normalizeCommand` removes. `BotMenus` has a program counter per handler; every `await` is a
step, as in Node. A message is a text, typed or on a button that may be as old as the chat, and
goes to the first handler that takes it: one that begins like a command, also the label of a
menu without a title, to `resolveCommand` (`Command`), any other to `handleMenuButton` (`Tap`).
Left out are commands that `bot.hears` does not take for one, such as `/-x`, and titles that begin with a slash. `sawOn` and `sawOff` are history variables for `AnswerHeld`.

## The runs

The first five are instances of `MCStore`, with `MaxAttempts = 2` and, unless stated, one account.
Two orders are what it takes for one to get the account of the other; two
handlers, or a handler and a job, for one order to be worked on twice.

| Run | Instance | Shows |
|---|---|---|
| `gateway` | 2 orders, 1 handler, all jobs, genuine and tampered notifications, failing charges | `MoneyBehindPaid`, `HolderLinked`, `SoldAfterDispatch`, `SettledOnce`, `SoldForever` |
| `faults` | 1 order, 1 handler, all jobs, webhook, confirm, cancel, redeliver, every fault | `TypeOK`, `PaidBeforeDispatch`, `ProcessedTookEffect` |
| `lawful` | 2 orders, 2 handlers, reconciler and retry, failing sends | the documented guarantees, and `KeepsLedger` |
| `live` | 2 orders, 1 handler, reconciler and retry, failing sends | `PaidIsAttempted`, `RetriesConclude`, `SettlementHonoured` |
| `cleanup` | 2 orders, 1 handler, all jobs, no faults | `OverdueIsClosed` |
| `stock` | `MCInventory`: 2 admins, 2 orders, 1 product, 1 account | `SharedOnlyByOverwrite`, `HandedStaysOnRecord`, `OfferedIsFree` |
| `menus` | `MCBotMenus`: 2 handlers, 2 menus, 1 response, 1 word | `TypeOK`, `OneRowPerCommand`, `AnswerHeld`, `MenusCatchUp` |
| `purchase` | `MCPurchase`: 1 order, both providers, 6 payloads, 3 amounts, 3 polls | `QrIsPayable`, `ShownIsPayable`, `OncePerOrder`, `ToldUnlessExhausted`, `KeepsPromise`, `PollEnds`, `RequestConcludes` |
| `locks` | `MCRowLocks`: 3 transactions of any kinds on 2 orders that share an account | `CirclesAreCrossed`, `EveryTxnEnds` |

`gateway` and `faults` show what the code guarantees with everything running. `lawful` and `live`
leave out what breaks the documentation's promises, one thing at a time
put back by the three runs that end in a counterexample:

| Run | Puts back | Refutes |
|---|---|---|
| `double_sell` | the cleanup job, second buyer | `NoDoubleSell` (`account.go:300`) |
| `stuck_paid` | a crash | `PaidIsAttempted` (`payment.go:97`) |
| `lost_money` | the cleanup job | `SettlementHonoured` (`order.go:321`) |

`lawful` is not a made-up system: it is the store without the cleanup job and without the
admin's cancel, and with a gateway and a database that answer `CreateOrder`. Deadlock is not
checked: when all orders are closed and no request comes, nothing is left to do.

The bounds of the others. `stock`: one account is what two orders compete for, and two admins are
what it takes for an edit, a deletion and a forced deletion to overlap; the theorems below
have no bounds. `menus`: two handlers are what it takes for one answer to overtake
another, and two rows for a command to be taken. `purchase`: an order is independent of every other one
here; `PollMax = 3` leaves room for a failed poll, a failed message and a success. The payloads are the kinds the
conversion tells apart: none configured, with and without blanks around it, without its CRC and with
"6304" in a postal code, a merchant whose CRC reads 6304, and one without a country;
the amounts have no digit to pay, one and ten, so that the length field has two. `locks`: with one
order each exception of `CirclesAreCrossed` is met in a circle of two, and two orders of one account
make circles of three possible; the theorem is for any number. The transactions are numbered by their kinds
at the start (`MCSpec`), since SYMMETRY is not sound for `EveryTxnEnds`.

Deadlock is checked in `menus`. It is not in `stock` and `purchase`, where everything may
be sold, deleted or over, nor in `locks`, where all transactions have ended; that they do is `EveryTxnEnds`.

Every property of a passing run has a mutant of the code in the modules (a dropped guard, a
forgotten column, a swapped order) that makes TLC refute it.

### Known divergences

Three have runs (`double_sell`, `stuck_paid`, `lost_money`). Others were met while modelling;
the comments that promise otherwise are quoted in brackets:

* The cleanup job writes EXPIRED over orders that were paid or delivered since it listed them
  (`order.go:331`; README, "state transitions are forward-only"). `double_sell` is its consequence.
* `Cancel` checks a status it read without a lock: an order settled in between is cancelled though
  PAID (`order.go:286`; "only PENDING orders can be cancelled").
* A redelivery that overlaps a delivery sends the credentials twice (`delivery.go:63`; README,
  "ensure credentials are sent once").
* The copy of a notification whose first handling failed is acknowledged and dropped as a duplicate
  (`payment.go:61`; "Duplicate webhook; already handled").
* An edit of an account writes back the status it had read, and sells a reserved or sold account
  again (`account.go:105`): the exception in `SharedOnlyByOverwrite`.
* A forced delete removes SOLD accounts and their history (`product.go:208`; `product.go:182`,
  "still refuses when SOLD accounts exist"; `account.go:255` of the repository, "deliveries FK would block
  them"): the deliveries have gone with the orders. `HandedStaysOnRecord` is of products that are still there.
* An account that an order has reserved can be deleted; the paid order then has no account and its
  delivery fails until its attempts are used up (`account.go:136`; `account.go:145`, "account has a
  delivery/order record and can't be deleted", which is true of deliveries only).
* Transactions lock the same rows in different orders. Closing and settling take the order before
  the account; `Finalize` the account before the order, `MarkFailed` and `CreatePending` the delivery before
  the order, and the deletion of an account (`account.go:244` of the repository) that account before
  the orders that point at it. So `Cancel`, the cleanup job or a closing transition can deadlock with a
  delivery, and with an admin who deletes the account; a forced delete with either, with another
  one that saw fewer orders, and with the purchase of a chosen account or a plain delete, which
  lock the product first. One transaction is then aborted: a delivery that was sent stays PENDING.
* A menu title with outer blanks is trimmed on its button and not where the button is looked up
  (`keyboards.js:43`, `bot.js:286`; `bot.js:279`, "resolves a tapped dynamic menu button"): the button does
  nothing.
* A merchant's static code whose CRC happens to be 6304 loses its last four characters only, and the
  dynamic code is malformed (`qris.go:44`): `Unlucky`.
* A product may cost nothing (`product.go:71`), and TemanQRIS refuses to charge nothing: it can be
  offered and never bought.
* When Telegram refuses `answerCbQuery` or the last form of the code, `startOrder` ends before
  `pollOrder` (`bot.js:179`, `bot.js:220`): the account stays reserved until the cleanup job
  takes it back, and the bot never tells how the order went.

### Fairness

`FairSpec` adds weak fairness for each goroutine's own steps (`Service(p)`): the Go scheduler
runs a goroutine that can run, every statement returns at last (all calls have a context or a
client timeout), and `Scheduler.Run` starts a job again on every tick (`scheduler.go:50`). Time
passes: `Tick` is weakly fair. Nothing is assumed of requests, notifications, payments,
faults, or the choice between `SendOk` and `SendError`: `RetriesConclude` holds though every
message fails, because attempts run out. No strong fairness is used.

`Purchase` assumes that a request and a handler that can go on do so (`RequestNext`, `ChatNext`, `PollNext`:
the Go scheduler and Node's event loop), and that a POST is answered or its
client's fifteen seconds end (`CallNext`). That a poll goes on takes it that the bot's `fetch` ends, which
`api.js` leaves to the default timeouts of its platform. Crashes, lost answers, payments and the rest of the store are
free. `RowLocks` assumes that a lock that can be granted is, and that PostgreSQL looks for
deadlocks (`deadlock_timeout`). `BotMenus` assumes nothing: `MenusCatchUp` says
in its premise that answers go on arriving.

## The proofs

`StoreProofs` and `LedgerProofs` prove for all values of the constants, from the three assumptions
`NullAssumption`, `AttemptsAssumption` and `DeploymentAssumption`:

* `TypeCorrect`: `TypeOK`, by a lemma per group of actions.
* `DispatchedIsPaid`: `PaidBeforeDispatch`. It is not inductive: what a goroutine does to an
  order depends on a check it made several steps ago. `PaidInv` adds that a goroutine
  past the check (`Delivering`) works on a paid order, that one that is busy has an order, and
  that a PENDING order was never paid. It holds because `paid_at` is never cleared.
* `SettledIsOnce`: `SettledOnce`, from `PaidInv` and the guard under the row lock.
* `SoldIsForever` and `HoldersAreLinked`: in every deployment, whatever fails. `LedgerProofs`
  first classifies each step of the store by what it does to the stock (`StockStep`), once, and
  proves the invariants for seven kinds of step instead of some thirty actions.
* `OrderKeepsItsAccount` and `NoAccountSoldTwice`: under `ClosesUnderLock`, a condition on the
  constants: no cleanup job, no cancel requests, no roll-back of `CreateOrder`. Crashes,
  failing sends, duplicates, redeliveries and any number of handlers are allowed. `StockInv` adds that
  nobody is about to write a decision taken without the lock. `double_sell` shows that the
  condition is needed.
* `StoreKeepsLedger`: under the same condition `Store` implements `Ledger`. The mapping tells
  paid orders by `paid_at`, since their status goes on changing; `OpenReserved` (an open order's
  account is RESERVED, not SOLD) is needed for a closing step to be a closing step of the ledger.

`PaymentProofs` follows a notification from its receipt to its effect. Its lemmas say what a step
does to the frame of each goroutine (`NoteStep`: one begins to apply something, marks an event,
or keeps what it has) and that only orders that exist are worked on (`Placed`).

* `PaidHasMoney`: `MoneyBehindPaid`. A goroutine applies a settlement some steps after the
  gateway reported it; `MoneyInv` says that whoever is about to apply one has it from a
  transaction that is settled, and a settled one stays so, since only `CreateOrder` opens one, once.
* `ProcessedHasEffect`: `ProcessedTookEffect`, in every deployment. `EffectInv` adds that a
  goroutine about to mark an event has seen its order moved. No order becomes PENDING again.
* `DuplicatesAreHandled`: `DuplicateIsHandled`, under `EventsAreApplied`: no tampered notification and no
  failing statement. `HandledInv`: a recorded event whose order is PENDING is in the hands of a
  goroutine (`InHand`), which can let go of it only by applying it. The condition is needed: a
  handler that fails between the INSERT of the event and its application leaves an order
  PENDING whose copies are dropped.

`DeliveryProofs` first classifies a goroutine's steps by what they do to deliveries (`WalkStep`)
and then works through four invariants, which need more conditions from one to the next.

* `SoldIsDispatched`: `SoldAfterDispatch`, in every deployment, on the stock steps of `LedgerProofs`.
* `AttemptsStayBounded`: `AttemptsBounded`, under `NobodyRedelivers`. `DeliverOrder` does not look
  at the bound, only the retry job's query does, so the bound depends on there being one deliverer:
  `BusyInv` says that no two goroutines deliver one order (`OneEach`), that the one that settled
  it delivers it until it has FAILED and the retry job from then on (`BusyRow`), and that the job's list
  is still true when it gets to its end (`ListFresh`), though it was read in one step and used in others.
* `DispatchedOnce`: `AtMostOnceDispatch`, under `SendsAreCertain` too: no statement or process fails
  after a message was sent, and Telegram does not report an error for a message that
  arrived. Refused messages, duplicates, cancellations and the cleanup job are allowed. `SentInv`: who
  may still send has not sent (`UnsentYet`), what is FAILED was not received (`FailedUnsent`).
* `DeliveredRowsAgree` and `OrdersMoveForward`: `DeliveredAgree` and `ForwardOnly`, under `ClosesUnderLock` and
  `NobodyRedelivers`, whatever fails. `AgreeInv` adds that a paid order is not closed (`PaidStays`)
  and that the order `DeliverOrder` has loaded is not stale (`SnapFresh`), from which `RecordFailure`
  and `Finalize` take the only ways the README draws.

These conditions are of the constants: they say which requests, jobs and faults a deployment
has, so that one theorem covers all interleavings of the others. Each leaves out only what breaks
the property; "Known divergences" says how.

The other proof modules need no condition beyond the named assumptions of their modules, but for
one about data, in `BotTypeCorrect`.

* `InventoryProofs`: all three properties of `stock`, and `TypeOK`. `IInv` says where a request can be when its
  row is in some state (`Stages`), what foreign keys keep true between statements (`Catalogue`,
  `Links`, `Recorded`), that a forced delete has locked rows of its product only (`TasksAgree`), and, per
  account, that whoever has a claim to one that no edit overwrote is its holder, and it is RESERVED or
  SOLD (`HeldByClaimant`). From the last, sharing and what is offered follow.
* `PurchaseProofs`: `ShownIsPayable`, `OncePerOrder` and `ToldUnlessExhausted` from `PInv`: an answer of
  the gateway stands for a transaction (`Backed`), a request past the charge or the INSERT has one
  and its row (`Stored`), the bot has a code only from a request that was answered (`Answered`), and every
  message but the last went unacknowledged (`Told`). And that `Purchase` implements
  `GatewayPromise`, step by step.
* `RowLocksProofs`: `CirclesAreCrossed` for any number of transactions, orders and accounts, whichever
  orders share an account. `LInv` is mutual exclusion of conflicting locks; what else is used is the
  order of each transaction's locks, which for a forced delete has no bound (`ForceDeleteLocks`).
  Without a crossing there are two cases. With a forced delete in the circle nobody has the product
  before it (`Closer`): whoever has its order waits for an account, whose owner waits for nobody or is
  a forced delete too (`OrderThenAccount`); so all are forced deletes (`DeletionsInBetween`), of which only one
  gets past the first order (`OneDeletion`). Without one, all waits lead from the product to an order
  and from an order to an account, and end there (`NoChainOfPlain`).
* `BotMenusProofs`: `OneRowPerCommand`, from uniqueness of the stored commands, which are all normalized;
  `TypeOK`, if there is a word at all to be a command (`BotTypeCorrect`); and `AnswerHeld`
  (`AnswersHeld`), where the answer is computed by the API in one step and shown in a later one.

With these, every invariant of a passing run, and every action property and refinement, is also
a theorem, but for `QrIsPayable`. Each inductive invariant was model-checked on small instances before it
was proved.

Model-checked only: the liveness properties `PaidIsAttempted`, `RetriesConclude`, `SettlementHonoured`,
`OverdueIsClosed`, `MenusCatchUp`, `PollEnds`, `RequestConcludes` and `EveryTxnEnds`, since fairness and ENABLED
are beyond the prover; and `QrIsPayable`: what the conversion of a payload computes is a fact about
strings, whose CRC and encoding are recursive. TLC evaluates it for each of the payloads and amounts
of `purchase`, and only these; it does not hold of the merchants that `Unlucky` leaves out.

## Not modelled, and the plan

Worth doing next, in this order:

1. The safety half of the liveness properties: the measures that go down with each retry and each poll.
2. The admin's stale edit beside the running store, with a `violation` run against the README's
   "two customers can never be sold the same account".
3. The batch limit of the jobs' lists (`WORKER_BATCH_LIMIT`), which now exceeds the number of orders.

Left out, and why:

* Authentication, rate limits: hashing, token signing and a limiter of the framework around a read of
  one row. The bootstrap of the first admin counts and then inserts; the unique user name decides.
* Settings: upserts of single rows of display text.
* Configuration: parsing. The values that matter are constants of the models.
* `GetStatus` of the gateways, signatures: their results are the environment of `Store` (`Notices`,
  `ReconcileOne`, `NotifyBadSignature`).
* The bot's catalogue and detail screens keep no state; texts and pictures; the dashboard; logging;
  graceful shutdown and ticker drift.
* The verification harness and the test doubles are tests.
