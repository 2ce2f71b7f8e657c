# Formal model of OpenCashier

OpenCashier is a payment gateway: merchants create orders over a signed API,
a hosted cashier page opens payment sessions at Alipay, WeChat Pay, Stripe
(PayPal's adapter is a stub), the providers report payments by webhook, and the platform notifies the
merchant until it answers `success`. This directory holds TLA+ models of the
parts in which concurrency, failures and ordering matter, the TLC
configurations that check them and TLAPS proofs of the central invariants.

    tlc -workers 4 -config OrderSafety.cfg MCOrderLifecycle.tla
    tlapm OrderLifecycle_proofs.tla

## 1. The system

The API (`src/apps/api`) is a NestJS application over PostgreSQL through
Prisma. Handlers are `async`: they interleave at every `await`, in one process
and between processes, and meet only in the database and at the providers.
Transactions run at the default level, READ COMMITTED; no row is locked for a
handler, except by the dispatcher's claim (`FOR UPDATE SKIP LOCKED`).

| Component | State it keeps | Operations | What is hard about it |
|---|---|---|---|
| Orders (`payment-store.service.ts`) | `pay_order` | create, query, close, synchronise with the provider, expire, record a payment | the same payment found by a query, a close and several webhooks; a read and a write of the order in separate statements |
| Attempts (`payment-attempt.service.ts`) | `pay_attempt` | create, ready, failed, success, cancelled, three lookups | unconditional writes in the order handlers arrive |
| Cashier (`cashier.service.ts`) | none of its own | open a session for every channel, reuse, expire | everything is decided from one snapshot of the attempts |
| Webhooks (`notify.service.ts`) | `channel_event_log` | receive, verify, match to an attempt, record | repeated, concurrent and late deliveries; a crash between the payment and the log |
| Channel adapters (`payment/channels`) | cached clients | create, query, close, refund | answers that are lost after the provider acted |
| Refunds (`createRefund`) | `refund_order` | create, settle, compensate | a limit checked before the insert; a catch block that reads any row of the number |
| Merchant notifications (`merchant-notify-dispatcher.service.ts`) | `notify_task` | claim, deliver, retry, dead-letter, replay | several instances, leases, answers from before a replay |
| Idempotency (`idempotency.service.ts`) | `idempotency_record` | register a nonce, execute once, replay, expire, sweep | an expired row deleted by a request that read it earlier |
| Request signing, admin sessions | none | sign, verify | pure functions |
| Order creation (`createOrder`) | `pay_order` | authenticate, check channels, find, insert | several requests for one merchant order number |
| Platform configuration (`platform-config.service.ts`) | `platform_config`, two caches in memory | save a draft, publish, clear, reload, preview | several statements per call; reloads finishing out of order; a cache that is behind |
| Provider configuration (`channel-provider-config.service.ts`) | none | completeness and mode of each provider, client configuration | what counts as the same configuration |
| Provider clients (adapters, `stripe-client.service.ts`) | one client slot per adapter | get or build a client, validate, verify a webhook | one slot for all applications, previews and orders; a promise awaited by several |
| Cashier page (`CashierPage.tsx`) | the session shown, the request awaited | poll, choose a channel, redirect, return | answers to requests a later tick has cancelled |
| Merchant quickstart (`examples/merchant-quickstart`) | a file of orders | check out, receive a notification, show a result | a query's answer against a notification; a restart during a write |
| Merchants, admin, dashboards | `merchant_app` and others | CRUD | single-row writes |
| SDK, WeChat Pay SDK, other web pages | none | HTTP clients, React pages | time limits |

How they interact: the merchant API passes the signature guard, which registers
a nonce (Idempotency), and wraps writes in `execute` (Idempotency). Queries,
closes and the cashier call `syncOrderIfNeeded`, which asks an adapter and, like
a webhook, records what it learns through `markOrderPaidFromChannel` or
`markOrderClosedEntity`. A recorded payment or refund inserts a `notify_task` in
the same transaction; the dispatcher picks it up from there. Every call to a
provider first reads the settings in force for the order's application from the
caches of the platform configuration and takes a client for them from the
adapter's slot. The payer's browser knows only the cashier's endpoints; the
merchant's shop knows the order API and the notifications.

`PROJECT.json` lists every component with its status, and under "hazards" each
place where the code can go wrong in a way that a test would hardly reach.

### What makes each component correct

* Orders: a payment is told exactly once each time it is recorded; an order is
  paid only if a provider holds a paid trade; a payment is found in the end.
* Attempts: SUCCESS only for a trade of its own that was paid.
* Cashier: one open session per provider while the page is merely reloaded.
* Webhooks: an acknowledged event has had its effect, whatever crashed.
* Refunds: a SUCCESS has money behind it, paid out or accepted by the provider; one
  provider call per refund number; the limit holds; the order's status follows its refunds.
* Notifications: SUCCESS only if the merchant accepted it, DEAD only after all
  retries, settled tasks stay so, every task is settled in the end.
* Idempotency: a nonce passes once, executions of one key never run side by
  side, every success answered for a key is the same while results stay stored.
* Order creation: an answer is about the order that was asked for, whoever
  created it.
* Configuration: the process answers from what the table holds; a publication
  publishes the draft it then deletes; a preview governs its own request only.
* Clients: a request runs on a client of the configuration it asked for.
* Checkout: a known payment is shown, and the shop forgets it only to answers
  that did not know it.

## 2. The modules

| Module | Models | State | Used by |
|---|---|---|---|
| `OrderLifecycle` | orders, attempts, cashier, webhooks, providers | tables of one order, trades at the providers, the requests | `MCOrderLifecycle`, `OrderLifecycle_proofs`, `OrderAlone_proofs`, `OrderClosed_proofs` |
| `OrderLedger` | abstract: what a merchant may rely on about one order | standing, payer, captured, told | instanced by `OrderLifecycle` |
| `RefundSaga` | `createRefund` | refunds of one paid order, payouts, requests | `MCRefundSaga`, `RefundSaga_proofs` |
| `NotifyDispatcher` | the dispatcher | `notify_task` rows, jobs in flight, lease, trace ids | `NotifyDispatcher_proofs` |
| `MerchantNotification` | abstract: what a merchant is promised | outcome, tries, heard | instanced by `NotifyDispatcher` |
| `Idempotency` | nonces and idempotency keys | the row of each action, requests | `MCIdempotency`, `Idempotency_proofs` |
| `ProviderConfig` | what the settings of a provider mean, what the forms send | none (operators) | `PlatformConfig` |
| `PlatformConfig` | saving, publishing, clearing and reloading settings | table, caches, calls, master key | `ProviderClients` |
| `ProviderClients` | composes `PlatformConfig` with the client slots, previews and webhook verification | slot, clients, requests that need one | `MCProviderClients`, `ProviderClients_proofs` |
| `OrderCreation` | `createOrder` for one merchant order number | the order's row, requests | `CashierPage` |
| `CashierPage` | the browser, the hosted entry and the session endpoint | page, request in flight | `Checkout` |
| `Checkout` | composes the two with the shop, its file, its result page and notifications | the shop's handlers and file | `MCCheckout`, `Checkout_proofs` |

**How code becomes actions.** A handler is a process with a program counter
`req[r].pc`; each action is one database statement, one transaction or one
provider call, and handlers interleave between any two. Values that a handler
read and still holds are fields of `req[r]` (`seen`, `att`, `closing`, `total`,
the dispatcher's `job`); this is where stale state comes from. A failed provider
call, a crash, a database error and an outlived lease each take one of
`MaxFaults` faults and leave everything already written in place. Helpers shared
by several handlers have a continuation, `req[r].ret`.

**OrderLifecycle.** One order is enough: orders share no rows. `BeginRequest`
starts a query, a close or a cashier page with `markExpiredOrders`;
`ReadOrder`, `FindLatest`, `QueryChannel` are `syncOrderIfNeeded`;
`MarkAttemptSuccess`, `MarkOrderPaid`, `RereadOrder` are
`markOrderPaidFromChannel`; `MarkAttemptCancelled`, `ReadForClose`,
`WriteClosed` are the close path with `markOrderClosedEntity`, whose read and
write are two steps because they are two statements in the code; `PickClose`,
`CloseAtChannel`, `CancelAttempt` are the rest of `closeOrder`;
`SnapshotAttempts` to `MarkAttemptFailed` are `getCashierSession`;
`DeliverEvent` to `MarkProcessed` and `NotifyError` are the three webhook
handlers. What an adapter makes of a trade, and a webhook of an event, are operators
of their own (`QueryAnswer`, `ClosesAt`, `LeavesAt`, `FollowUp`, `SessionFollowUp`).
A channel is one provider. Alipay and WeChat Pay name a trade by the
platform's order number, so all their attempts share one trade; a Stripe attempt
has a Checkout Session of its own (`SessionChannels`). The providers, the payer
and the deadline are the environment. `reachable` says whether webhooks arrive at
all, `overwrites` counts how often a close overwrote a payment and `overlapped`
remembers that two handlers have run at once: the last two are history only.

**OrderLedger.** What all that comes to for the merchant, in five actions: a
provider captures money, the order becomes paid by a provider that has captured
(each time with one more notification), it is given up while unpaid, a payment is
overwritten, and requests meet. `Standing` and `CapturedBy` in `OrderLifecycle`
are the refinement mapping: most steps of the handlers, and every fault, are
stutters of the ledger; the steps that are not are single statements, whatever
the handler read before.

**RefundSaga.** `CheckLimit` (first half of the first transaction) and
`InsertRefund` (its second half) are separate steps because READ COMMITTED lets
another request insert between them. `SettleRefund` is the second transaction,
`ReadFailed` and `MarkFailed` the catch block, `StepFails` an error that reaches
it. `calls`, `overlapped` are history; `payout` is the provider's own record, and
`AlipayAnswer` and `StripeAnswer` what the adapters make of its answer: Alipay's takes
one that states a fee for a success, also of a refund that was only accepted and may
be given up later.
Amounts are whole cents, and a sum over refunds is the number of the cents in it
(`Cents`, `Total`): this says what Prisma's `_sum` computes without a recursion
over sets, which the prover could not follow.

**NotifyDispatcher.** `Claim` is the one SQL statement of `claimDueTasks`; the
fence `Owns` is the `trace_id` condition of `markTaskSuccess` and
`scheduleRetry`; `Replay` is the operator's replay. Time appears only as a row
being due or not: `BackoffEnds`, and `LeaseOutlived` for a delivery that takes
longer than the lease.

**Idempotency.** One nonce and one key: rows of different keys never meet. Row
ids are the ones that no row and no request remembers, so ids are never confused
and the state space stays finite. The history variables of a key start again
when its row expires, 24 hours later by design. A statement may fail after it has
committed (`WriteAnswer`): the catch block then deletes a result that another
request may already have been answered with, and `withdrawn` remembers it.

**ProviderConfig, PlatformConfig.** A group of settings is a function from the
fields that are set to their texts; fields the code always asks for together
(an account's identity and private key, say) are one field, and a text is good or
`Broken`. The groups share no key of the table and none of the caches, so a
behaviour follows one group, chosen in `ConfigInit`. `BeginUpsert`,
`BeginActivate` and `BeginClear` are the synchronous part of a call, which reads
the *caches*; `WriteDraft` to `Clear` are its SQL statements, `ReadTable` and
`ApplyTable` the two halves of `reloadCache`. A value is stored under a key that
names its environment, scope, application and entry; `reloadCache` files each row
under what `ParseStorageKey` makes of its key (`Filed`). `Sent` is what the callers send: a
form of the console starts from the list, which hides secrets (a form is opened
and sent in one step), and a merchant's code sends a whole configuration.
A secret is stored under the master key of the process that wrote it, and a
restart may bring another key. `suspect` is history: it remembers that calls
overlapped or one failed after its first statement, until a reload or a restart
settles it.

**ProviderClients.** `GetClient` is the `getClient` of the three adapters:
Alipay puts a promise in the slot (`Resolve`, `ImportFails` settle it for
everyone who awaits it), WeChat Pay takes the new key before a constructor that
may throw, Stripe just constructs. `Enter` is the synchronous part of an
adapter's operation, `Execute` and `Answer` what follows each `await`;
`CurrentValue` is what a read after an `await` finds, the preview in a
validation's own async context and the cache elsewhere. Orders, validations with
and without a preview, notifications and Stripe's webhook with its candidates are
the uses of the slot. The provider is external: it knows an account or not.

**OrderCreation, CashierPage, Checkout.** One merchant order number and one
purchase. `FindOrder`, `InsertOrder` and `FindConflicting` are three statements.
`StartLoad` is the loading effect of the page with the clean-up that makes it deaf
to the previous request, whose answer is then `stale`; `Tick` is its three-second
timer. A provider has one channel. A session is read in one step here: how it is
opened is `OrderLifecycle`. So are learning of a payment (`LearnPayment`) and the
delivery of a notification (`Notify`, where the merchant's handler runs and the
dispatcher may or may not hear its answer): these are the modules
`OrderLifecycle` and `NotifyDispatcher`. A close is two steps as there,
`ReadForClose` and `WriteClosed`, so that it overwrites a payment recorded between
them; `overwritten` remembers that one has. `Executed` is what the SDK makes of a
reply: the data of an envelope, or an error. In the shop, the record of a creation,
of a query and of a notification are the three writers of the file.
`RestartShop` may find the file cut off, and the shop then starts from none.

## 3. What is checked

The order and idempotency runs check deadlock as well: some handler can always
begin or go on. The others do not: they really stop, once every task is settled
and the replays are used up, every refund number is taken, `MaxCalls` requests
have been served, or the payer has left and the order is over.

| Run | Configuration | Shows |
|---|---|---|
| `order_safety` | 2 handlers, Alipay and Stripe, 2 attempts, 1 fault, all operations (3.2M states) | `TaskPerPayment`, `PaymentIsReal`, `SuccessfulAttemptIsPaid`, `ProcessedPaymentIsTold`, `RepeatsNeedConcurrency` and refinement of `OrderLedger` (`KeepsLedger`) under any interleaving; `OneSessionPerChannel`, `ClosedIsUnpayable` until two handlers overlap |
| `order_liveness` | 2 handlers, Stripe (a session for each attempt), 2 attempts, 1 fault, all operations, fair (1.2M states) | `PaymentIsTold` where webhooks arrive; where none does, `PollingFindsLatest`: the merchant that polls learns of a payment of the latest attempt, even if a crash or a failed call came while the page was opened, unless the order expires or is closed |
| `order_other_channel` | 1 handler, Alipay and Stripe, no fault, fair | violation of `PollingFindsPayment` |
| `order_missed_webhook` | 1 handler, query and cashier, fair | violation of `QueryIsFallback` |
| `order_late_close` | 2 handlers | violation of `QueryConfirmsNotification` |
| `notify` | 2 instances, 2 tasks, batches of 1, 1 back-off, 1 replay, 1 fault, fair (1.9M states) | `SuccessWasHeard`, `DeadAfterAllTries`, `RepeatsNeedFaults`, `SettledIsFinal`, refinement of `MerchantNotification` (`KeepsPromise`), and `EveryTaskSettles` |
| `refund_safety` | 2 requests, 3 numbers, amounts 1 and 2 of 2 paid, 1 fault | `SuccessIsBacked`, `OneRefundPerNumber`, `OvershootIsBounded` under any interleaving; `LimitHolds`, `OrderFollowsRefunds`, `FailedIsNotPaidOut` until two requests overlap |
| `refund_over_limit` | 2 requests, 2 numbers, no fault | violation of `WithinPaid` |
| `idempotency` | 2 requests, nonce and write, 2 fingerprints, 2 faults, fair (2.1M states) | `NonceIsAcceptedOnce`, `OneExecution`, `AnswersAgree`, `EffectsNeedFaults`, `ProcessingEnds` |
| `provider_clients` | 2 calls, 2 uses, 3 requests in all, 1 application beside the shared scope, 1 fault, any group (0.4M states) | `CacheFollowsTable`, `DraftsArePublished`, `OwnClient`, `PreviewsArePrivate` |
| `provider_stale_client` | 1 call, 2 uses, 3 requests in all | violation of `ValidatedIsEffective` |
| `checkout` | 2 creation requests, a channel that redirects and one with a code, 1 result page, any number of restarts of the shop, fair (1.3M states) | `CreationAnswersMatch`, `PaymentStaysKnown`, `PaidIsShown` |

**Where concurrency breaks a property.** Some things the code promises hold for
one handler at a time and fail when two overlap: the state that was read is not
the state that is written. Rather than drop them, they are stated with
`~overlapped`: they then show that nothing else (faults, late events, expiry,
other channels) breaks them.

**What the code does not promise.** Three properties name the case in which the code
itself gives way, and show that there is no other. `SuccessIsBacked`: an Alipay
refund may be SUCCESS before its money has moved, since the adapter takes an amount
without `fund_change` for a success. `PaymentStaysKnown`: a query's answer read before
the payment was recorded, or while a close had overwritten it (finding 2), takes
SUCCESS from the shop's file. `AnswersAgree`: a result whose update committed and was
still reported as failed is deleted, and a retry executes again.

**Findings.** The violation runs record five disagreements.
(1) After the deadline an order is EXPIRED and no query asks the provider any
more, so a payment made in time whose webhook was lost is never found, although
the merchant guide calls the query the fallback. (2) A close that read the order
before the payment was recorded overwrites it with CLOSED: the merchant was told
PAY_SUCCESS and every query says CLOSED. A repeated webhook records the payment
again and tells it again. (3) Two concurrent refunds both pass the limit check
and reserve more than was paid. (4) The WeChat Pay adapter takes the key of a new
configuration before the constructor of its client, which throws on a key it
cannot parse; the slot then pairs the new key with the client of the
configuration before. Validated a second time, the same unusable configuration is
served by that client and reported valid, although the endpoint is there to
validate whether a configuration is effective. `OwnClient` names this case as its
one exception. (5) A query asks the provider about the latest attempt only, while the
cashier page opens an attempt for each channel: a payment of an older attempt whose
webhook was lost is never found, although the merchant guide says that the system
can query orders when notifications fail.

**Bounds.** Two handlers are enough for every race listed as a hazard: each is
about one handler acting on what another has changed; a third handler can add
only another instance of the same pair. Two attempts give an older and a latest
attempt, one per provider or two of one; two channels give one shared trade and
one trade per session. The fair runs are the smaller ones: `order_liveness` has one
channel, whose attempts do not share a trade, so that a payment can be of an older
attempt, and a batch of `notify` is one task (the proofs cover every batch size), so that
tasks wait for each other. One fault is enough to crash between any two steps, and
liveness runs show recovery from it. Handlers are reused, so sequences of
requests are unbounded. Replays, tries and refunds are bounded by small numbers
named in the cfg files; the proofs below remove these bounds for what they cover.
In `provider_clients` three requests are enough for every pair of calls with a
use between their steps, for a save, a publication and a use of it, and for two
uses that meet in the slot while a call changes what they asked with; texts are
two good ones, a broken one and the two modes. In `checkout` the second creation
request has another caller's channels, the third list names a channel the
application may not use, and one result page is enough for a query that is older
than a notification.

**Fairness.** A handler that has begun runs on (`WF` of its steps): Node
schedules it, and a provider call ends or times out. Where webhooks arrive,
providers repeat the event of a payment until it is acknowledged (`SF` of a delivery:
it is disabled while all handlers are busy; nothing is assumed about events that close). Where none arrives, the merchant keeps
querying. The cron job fires every ten seconds, back-offs and leases end.
The page's timer runs (`WF` of `Tick`). The session endpoint
answers again and again, and again and again an answer arrives before the next
tick (`SF` of `ServeLoad` and `ReceiveLoad`): a tick cancels the request before
it, so both steps are disabled over and over, and with an endpoint that always
takes longer than three seconds the page would really never show the payment.
Nothing is assumed about payers, operators, merchants' answers, or a merchant
retrying a call.

## 4. What is proved

The proofs hold for every value of the constants that satisfies the `ASSUME` of
the module: any number of handlers, channels, attempts, tasks, instances,
back-offs and faults.

`OrderLifecycle_proofs` (from `OrderAssumption`):

* `TypeCorrect`: `Spec => []TypeOK`. `TypeOK` alone is not inductive: a handler
  about to write row `att` must know that the row exists. `Inv` adds, for every
  request, `Fits`: the attempt, the attempt to close and the event it holds
  exist where its program counter uses them; an event it reports as a payment
  and a success it is about to record belong to a trade that is paid. Each action
  has a lemma; the shared ones (`MovePreserves`, `StatusPreserves`,
  `TradePreserves`, `LogPreserves`, ...) rest on `Monotone`: rows stay, with
  their channel, and a paid trade stays paid.
* `OneTaskPerPayment`: `payTasks = overwrites + (1 if paid)`, inductive with
  `TypeOK`: the conditional update and the insert are one transaction.
* `PaymentsAreReal` and `SuccessesArePaid`: from `Inv`, since the last conjunct
  of `Fits` says that whoever is about to write knows a paid trade, and a paid
  trade stays paid however stale the answer.
* `ProcessedPaymentsAreTold`: needs the shape of a webhook handler, `Tells`. Only
  a webhook handler reaches the statement that writes PROCESSED, and one that
  reports a payment reaches it by way of `MarkOrderPaid`, after which, by
  `OneTaskPerPayment`, some task exists; tasks are never taken back
  (`TasksGrow`).

`OrderAlone_proofs` (from `OrderAssumption`), about handlers that run one at a
time and how much is lost when they do not:

* `PaidStaysPaid`: `PaidIsFinal` is not inductive, since a close writes CLOSED
  without looking. `Alone` adds that, unless handlers have overlapped, at most one
  is active and whoever is at `writeClosed` sees a pending order: it got there by
  its own read, and nobody else has moved since.
* `HandlersKeepLedger`: `Spec => Ledger!LedgerSpec`, from `Inv` and `Alone`. No
  handler moves money (`HandlersMoveNoMoney`: only the payer's step makes a trade
  paid); whoever records a payment names a provider that has it
  (`RecorderIsCaptured`, by `Fits`); a write of CLOSED over a payment needs an
  overlap (`Alone`); everything else leaves the ledger as it is or gives an unpaid
  order up. It implies `PaidIsFinal`.
* `RepeatsAreBounded` (with finitely many handlers): every further notification of
  one order needs a close that overwrote a payment. `Budget` counts them: once the
  order has left the pending states, only the closes that read it before
  (`Closers`) can overwrite it, each once, and no new ones appear, so tasks made
  plus closes still to come never exceed the handlers.
* `SessionsAreReused`: while the order can be paid and handlers run alone, a
  channel has one reusable attempt at most. `OneOpen` says where the cashier is
  about to open a session that the channels still to do have nothing open, and the
  one it works on only the attempt it has just created; `OthersOpenNothing`, that
  no other step makes an attempt reusable.

`OrderClosed_proofs` (from `OrderAssumption`) proves `ClosedIsSettled`, that an
order closed undisturbed cannot be paid any more, in two invariants.

* `TradeInv` holds of every interleaving. `TradesFit`: a trade exists only for an
  attempt, a session is never merely offered, and one whose number was stored is
  open or over. `KnowsTrade`: what a request was told of a closed trade is still
  so.
* `ClosedInv` is about handlers that run alone and without a fault on attempts of
  one session channel. Each part is there because the proof of another needs it.
  `Sees`: the pending status a handler read is still the order's. `LooksAtLatest`:
  the attempt it asks about, and the one it closes, is the latest. `Closes`: it
  deals with the trade at the provider before it cancels the attempt and writes
  CLOSED. `Undone`: an attempt that is over left a trade that is over. `Tidy`: so
  only the latest attempt can matter to a close, which is true as long as
  the page reuses the open session (`OneOpen` of `OrderAlone_proofs`). Past the
  deadline it does not, and a second session appears beside an open one; `Resting`
  says that the order is then not closed and that no close can get to it: the first
  statement of a query, a close or a page expires it, and a webhook of a session
  channel cancels no order.

`NotifyDispatcher_proofs` (from `DispatcherAssumption`):

* `TypeCorrect`; `SuccessIsHeard`, `DeadAfterTries`, `SettledStays`. The
  invariant has two parts. `RowFits`: only a RETRYING row carries a trace id, and
  its retry count is at most the failures that happened. `JobFits`: a job whose
  trace id the row still carries was claimed in the row's present epoch and from
  its present retry count, and no two jobs of a task share a trace id. The fence
  is exactly what makes this inductive: an answer from before a replay or from an
  earlier claim meets another trace id. `Local` is the shape of a step of one
  job, and `LocalPreserves` the argument for all other jobs.
* `RepeatsArePaidFor` (with finitely many instances): `Budget` adds to the
  acceptances so far the jobs that may still bring one (`Delivering`) and one if
  the task can be claimed (`Claimable`); the sum is at most one plus replays plus
  faults. A claim turns the claimable task into a job, an acceptance uses the job
  up, a retry gives the job back to the schedule, and only replays, crashes, lost
  answers and outlived leases make the sum grow.
* `DispatcherKeepsPromise`: `Spec => Promised!NotificationSpec`, one step per
  action, each mapped to a step of the promise or a stutter.

`Idempotency_proofs` (from `IdempotencyAssumption`): `TypeCorrect`,
`NoncesCountOnce`, `ExecutionsAreExclusive`, `OneAnswer` and `RepeatsNeedFaults`,
that is, every safety property of the module. The invariant has two parts.
`RowsFit` ties the history to the live row: a nonce was accepted once when its
row was created, an effect in excess of the faults is that of the live row, and,
unless a result was withdrawn, all answers are the row's. `Fits` ties a request to its row: whoever owns a row
(from the insert to its last step) is alone, and the row is live, and unanswered
until the result is stored;
whoever is about to delete a row by id saw that very row expired, and ids are
never handed out again. The second is why a slow purge cannot delete the row of
a running execution. That no execution outlives its row (24 hours) is the
guard of `Expire`.

`RefundSaga_proofs` (from `RefundAssumption`): `SuccessesAreBacked`,
`NumbersRefundOnce` and `FailuresMoveNothing`. The invariant says that between
the insert and the last write one request owns the refund: nobody else calls the
provider for it or settles it, and nobody was notified yet. The catch block of
another request may turn the row FAILED at any moment, which is why a row's
status and its notifications are related in one direction only. What backs a success
keeps backing it: a provider pays out or gives up what it has accepted and never
takes back what it has paid. For
`FailuresMoveNothing`, `Orderly` adds that untroubled requests run alone and that
one in the catch block has a refund that was refused or never asked for.

The same module proves what is said about sums: `RefundTypes` (the module's
`TypeOK`), `OvershootBound`, `LimitKept` and `StatusFollows`. `RefundAssumption`
makes requests and refund numbers finite, since a sum is a cardinality. The
lemmas of the section on totals are what the rest needs of them: a total is a
number, grows with its set, and changes by what one member changes
(`TotalMoves`, `SumMoves`). `StepShapes` says what each step does to the row, the
order and the request, and three invariants follow.

* `Sized`: a row's amount is at least a cent and at most what was paid, and is
  that of the request that owns it. The first holds only because the limit check
  is passed with a sum that is not negative.
* `Load`: the reservations, and what the requests past the check may still add to
  them (`Held`), are at most one paid amount per request. A request brings its
  share in when it passes the check, since the sum it read was within the limit
  by itself; the insert moves the amount from the request to the table, and so
  does a settlement of a row that the catch block of another request had turned
  FAILED meanwhile. `OvershootIsBounded` alone is not inductive: it forgets the
  requests that have passed.
* `InTurn`: until requests overlap, whoever has read a sum still holds it when it
  writes (`Reserves`), and an order that is REFUND_ALL has nothing left that a
  catch block could take back.

`ProviderClients_proofs` (from the assumptions of `PlatformConfig` and
`ProviderClients`): `TypeCorrect`, `CacheIsCurrent`, `DraftsPublished`,
`ClientsAreOwn`, `PreviewsStayPrivate`, all safety properties of the module.
The invariant has these parts. `Current`: unless suspect, at most one call is in
flight, and what it has yet to write or apply agrees with the table; that the
cache is the table with nothing in flight is not inductive without saying what a
call on its way holds. `ClientsFit`: the slot's client was built from the slot's
key, and so was the client a use awaits, or no WeChat Pay client could be built
from the key; clients are only ever appended, so an index stays good.
`TablesPublished`: the active values in the table, in the cache and in the
snapshot of a reload have all been published; the reload in flight is why the
cache alone would not do. The proof of `TypeOK` is about the values: what merging,
restricting and the forms make of settings are settings of the group again.

`Checkout_proofs` (from `CreationAssumption` and `CheckoutAssumption`):
`TypeCorrect`, `AnswersMatch` and `PaymentsStayKnown`. `CreationFits` says that a
request that answers or looks the order up again has an order to find, and
`Stays` that an order keeps its body and channels: together they keep old answers
true. `Rises` adds, for every step but the write of a close, that a recorded payment
stays; that write is what `overwritten` remembers, and `ShopFits` says that a payment
recorded and not overwritten is in the order and in every answer read then. `PageFits`: what a page shows or is about to
receive knows no more than the order, and a page that shows a payment waits for
no answer at all, since nothing on it starts a request. Also by `ShopFits`, until the shop has recorded the order it
created, nobody else writes its entry, so `recordCreatedOrder`, which overwrites
whatever is there, overwrites nothing.

Model-checked only: the five liveness properties, `PaymentIsTold`,
`PollingFindsLatest`, `EveryTaskSettles`, `ProcessingEnds` and `PaidIsShown`,
since fairness and ENABLED are outside the prover. Every invariant and every
action property of the passing runs is proved.

## 5. Not modelled

* Cryptography, signatures, formats, URLs, amounts other than refunds, logging.
* Request signing and admin sessions (a request is signed well or refused), the
  SDK's key choice and parsing of responses: pure functions of one message.
* Creating and editing applications, lists, dashboards, health, scripts:
  single-row writes and reads, or no state at all. Of the console's pages only
  what its settings form sends is modelled; that a validation answer may arrive
  after the form was edited is listed as a hazard, but the API asks for no
  validation before a save.
* Which trade number `createRefund` chooses when an order has attempts at several
  providers: the provider refuses a wrong one, as it may refuse any refund.
* The choice among several channels of one provider on the cashier page.
* PayPal: its adapter implements no operation, so the channel is only ever
  disabled.

## 6. Plan

Done, in this order: `OrderLifecycle`, `NotifyDispatcher` with
`MerchantNotification`, `RefundSaga`, `Idempotency` and the proofs of all four;
`ProviderConfig`, `PlatformConfig` and `ProviderClients`; `OrderCreation`,
`CashierPage` and their composition `Checkout`; the proofs of the two
compositions; the proofs of what holds of an order while handlers run alone, of
the dispatcher's repeats and of failed refunds; the sums of refunds and their
limits; `ClosedIsUnpayable`; `OrderLedger` and the proof that `OrderLifecycle`
implements it.

Next, most important first:

1. An abstract refund and an abstract execution of a key that `RefundSaga` and
   `Idempotency` refine.
2. Refunds on an order that may be closed or paid again at the same time, as a
   composition of `RefundSaga` with `OrderLifecycle`.
3. `Checkout` over `OrderLedger` in place of its one step `LearnPayment`.
