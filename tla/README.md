# Usage reporting, payments and the gateway's shared state: TLA+ models and proofs

This directory specifies the parts of the repository whose correctness depends
on what happens between several processes: the upload of usage figures from
CC Switch to the sidecar, and, in the sub2api backend, payment orders and their
refunds, idempotency keys and the system operation lock, concurrency slots, the
billing of requests, and the refresh of OAuth tokens. Each part is a TLA+
specification translated from the source, checked with TLC on small instances;
its safety properties are proved with TLAPS for every instance.

1. [Inventory](#1-inventory)
2. [The usage pipeline](#2-the-usage-pipeline)
3. [Payment orders and refunds](#3-payment-orders-and-refunds)
4. [Idempotency keys and the system operation lock](#4-idempotency-keys-and-the-system-operation-lock)
5. [The gateway: slots, billing, tokens](#5-the-gateway-slots-billing-tokens)
6. [The runs](#6-the-runs)
7. [Findings and known deviations](#7-findings-and-known-deviations)
8. [The proofs](#8-the-proofs)
9. [Not modelled](#9-not-modelled)

To repeat a check: `tlc -config MCPipelineSafe.cfg MCUsagePipeline` (section 6
lists the runs); to repeat a proof: `tlapm UsagePipelineProof.tla` (section 8
lists the proof modules).

## 1. Inventory

```
 CC Switch ──writes──> proxy_request_logs (SQLite)
                             │ reads, read only
   GUI, scheduler thread, daemon, CLI ──> reporter.run ──> state file + lock
                             │ POST /api/v1/usage/report
                             v
        sidecar (or backend_patch) ──> external_usage_daily (PostgreSQL)

 payment provider <──> sub2api backend instances <──> PostgreSQL, Redis
                          ^               │
     users, administrators, clients       └──> upstream accounts (OAuth)
```

Names are files under `src/`; `service/` stands for
`src/sub2api/backend/internal/service/`.

| Component | State it keeps | Operations, and who it talks to | What is hard | What makes it correct | Model |
|---|---|---|---|---|---|
| Usage reporter (`cc_usage_reporter/reporter.py`, `state.py`, `database.py`, `sub2api_client.py`) | state file with one signature per bucket and a watermark; a lock file | `run`: load, lock, load again, aggregate the log, send changed buckets in batches, save after each batch. Reads CC Switch's SQLite log, posts to the sidecar | concurrent callers, a crash between the server's commit and the client's save, a timeout whose request is still under way, a lost state file, a partly rejected batch | nothing counted twice, nothing skipped that the server lacks, the table catches up with the log | `UsageReporter` |
| Usage sidecar (`sidecar/main.go`) | table `external_usage_daily` | `HandleReport`: authenticate, validate, one upsert for the batch | reports that arrive late or in another order; two items of one key in a statement | a row never exceeds what was logged | `UsageSidecar` |
| backend_patch (`backend_patch/handler`, `repository`) | the same table | the same report with another login | as for the sidecar | as for the sidecar | the sidecar's, partly |
| Scheduler, daemon, GUI (`scheduler.py`, `daemon.py`, `gui.py`) | thread, stop and wake events | start, stop, wake, periodic `run` | stop and start around a running report; a wake consumed by the wrong wait | at most one thread; wakes are not lost | callers only |
| Payment orders (`service/payment_order*.go`, `payment_fulfillment.go`) | order rows, audit log | create, cancel, expire, verify, notify, fulfil, retry. Calls the provider, redeem codes, subscriptions and affiliates | duplicate notifications, pay/cancel/expire races, several server instances, failure between any two statements, lost replies | one credit, only for a payment, and none forgotten | `PaymentFulfillment` |
| Refunds (`payment_refund.go`) | refund columns of the order, audit log | request, plan, execute, finalise, restore | two administrators at once, pending answers of the provider, a rollback that fails | deduction and refund happen together and once | `PaymentRefund` |
| Redeem codes (`redeem_service.go`, `repository/redeem_code_repo.go`) | codes | create, use | concurrent use | used once | as an order uses them |
| Subscriptions (`subscription_service.go`) | term and usage windows per user and group | assign, extend, expire | read and write of `expires_at` in different transactions | a purchased term is never lost | as an order uses them |
| Affiliates (`affiliate_service.go`) | quota, frozen quota | bind, accrue, thaw, transfer | duplicate accrual | one rebate per order | as an order uses them |
| Idempotency keys (`idempotency.go`, `repository/idempotency_repo.go`) | one record per key | claim, execute, finish, replay, reclaim, clean up | lock expiry under a slow owner, old times, rows that come and go between two reads | an effect happens once per key, and its answer is kept | `Idempotency` |
| System operation lock (`system_operation_lock_service.go`) | one record of the same table | acquire, renew, release | a holder that dies or outlasts its lease | one update, rollback or restart at a time | `SystemOperationLock` |
| Concurrency slots (`concurrency_service.go`, `repository/concurrency_cache.go`) | Redis sets of slots, wait counters | acquire, release, wait, clean up | crash while holding a slot, lost replies, disconnects beside the handler | never above the limit; slots come back | `ConcurrencySlots` |
| Billing cache, usage billing (`billing_cache_service.go`, `repository/usage_billing_repo.go`) | Redis copy of balances, queue of writes, dedup keys and archive | check, bill once, deduct, invalidate | dropped queue entries, stale cache fill after a deduction, doubled records | a request is charged once; the cache agrees in the end | `UsageBilling` |
| OAuth token refresh (`oauth_refresh_api.go`, `token_refresh_service.go`) | account credentials, Redis lock, token cache | refresh under a lock, race recovery, retry | several refreshers with a one-time refresh token | the newest token is stored, no account disabled for nothing | `OAuthTokenRefresh` |
| Platform quota flusher (`user_platform_quota_flusher.go`) | dirty set | flush | a write of the administrator under a flush | the database agrees in the end | |
| Scheduler snapshots and outbox (`scheduler_snapshot_service.go`) | snapshot buckets, outbox watermark | poll, rebuild, full rebuild | several instances, a failed event, watermark lag | no change is skipped | |
| Leader lock (`leader_lock.go`) | Redis key or advisory lock | acquire, release | expiry under a slow leader | one leader for as long as the key lives | |
| User message queue (`user_msg_queue_service.go`) | a Redis lock per account | acquire, release, clean up | orphaned locks | one sender at a time | |
| Usage record pool (`usage_record_worker_pool.go`) | bounded queue, worker count | submit, scale, stop | queue at its limit, stop under load | no accepted task is lost | in `UsageBilling`, without its size |
| Websocket pool (`openai_ws_pool.go`) | connections per account | acquire, release, evict | limit and eviction races | never above the limit | |
| E-mail queue, gateway forwarding, authentication, monitoring, frontend, ent | request-scoped or generated | | mostly data transformation and I/O | | |

`PROJECT.json` lists every component with its status and, under `hazards`, each
place in the code at which one of these difficulties bites.

**Composition.** `UsagePipeline` composes reporter, sidecar and wire.
`PaymentRefund` continues where `PaymentFulfillment` ends: the latter shows that
none of its calls changes a `COMPLETED` order, the former begins there.
`Idempotency` and `SystemOperationLock` are two clients of one table,
`IdempotencyStore`. `ConcurrencySlots`, `UsageBilling` and `OAuthTokenRefresh`
share no state: a request passes through all three, and each of them leaves it
open when a request of the other kind begins or ends.

## 2. The usage pipeline

| Module | Models |
|---|---|
| `UsageWire` | what the two sides share: buckets, report bodies, HTTP connections |
| `UsageSidecar` | `HandleReport` and the table |
| `UsageReporter` | `reporter.run` with state file, lock and snapshot, for any number of callers |
| `UsagePipeline` | the composition, the disturbances, fairness and the properties |
| `UsageLedger` | the abstract specification: a copy of the log that only catches up |
| `UsagePipelineProof` | theorems |
| `MCUsagePipeline` | instances for TLC |

**Data.** A bucket is one (UTC day, app type, model, requested model)
aggregate; buckets are numbers in the order in which the reporter sorts them.
The seven cumulative figures of a bucket are represented by its request count:
the log only grows, so every further request changes the figures, and equal
signatures mean equal counts. `RowOf` stands for `normalizeItem`: the unique key
under which the sidecar stores a bucket, or `Invalid`.

**State.** `log` is `proxy_request_logs`; `file` is the state file (`Missing`
when absent or not JSON); `lock` is the holder of `<state file>.lock`. For each
caller, `pc` is its place in `run`, `mem` its `State._data`, `snap` the values
it read, `pending` the buckets left to send, `conn` the connection on which it
waits. `net` holds the connections and `rows` the table.

**Actions.** `NewState` is the `State` constructor, which loads the file before
the lock is taken. `Acquire` is `locked()` with the second load, `LockTimeout`
the ten failed attempts on Windows. `Read` aggregates the log and selects the
changed buckets. `Login`, `Post`, `BatchDone` (compare the counts, mark, save)
and `BatchFailed` are one round of the upload loop. `Finish` sets the watermark
and saves. `HandleReport` and `RefuseReport` are the sidecar's answers. `Abort`
ends a run at any place: a kill, a timeout, or any exception of database, file
or login. `AbandonedMayLand` says whether a report survives its client: with
`TRUE`, a request whose client is gone may still be processed at any later time,
after newer ones too.

**Composition.** A step is a step of one caller (`RunStep`, `GiveUp`), of the
sidecar (`Serve`), a new request in the log (`Grow`), or a disturbance
(`Disturb`: abort, dry run, refused report, lost state file). Disturbances are
bounded by `MaxFaults`, because a machine on which every run is killed promises
nothing; they may happen anywhere.

**Refinement.** `KeepsLedger` says that the pipeline implements `UsageLedger`
with `logged <- Usage(log)` and `stored` the row of each bucket: processes,
files, locks, messages and repeated reports disappear, and what is left is a
table that only moves closer to the log.

**Fairness.** `WF(RunStep(p))`: something starts `run` again and again (the
scheduler's interval, the daemon's loop, the user), and a started run goes on.
`WF(Serve(c))`: the sidecar processes what reaches it. Weak fairness is enough;
nobody is promised the lock, only that somebody makes progress.

## 3. Payment orders and refunds

| Module | Models |
|---|---|
| `PaymentFulfillment` | orders from creation to the credit, with every caller of the fulfilment |
| `PaymentRefund` | an order from `COMPLETED` on |
| `OrderBooks` | the abstract specification of `PaymentFulfillment`: the entries of an order's money, one after the other |
| `RefundAccount` | the abstract specification of `PaymentRefund`: deduction, payment back, closing |
| `PaymentFulfillmentProof`, `PaymentRefundProof` | theorems |
| `MCPaymentFulfillment`, `MCPaymentRefund` | instances for TLC |

**State of an order.** `status`, `type`, `paidAt` are columns of the order row;
`overdue` and `inGrace` are what `expires_at` and `updated_at` say about now.
`code` is the redeem code that belongs to a balance order, `audit` the audit
actions that the code reads back, `upstream` the payment at the provider.
`credits` and `rebates` count the successful credits of user and inviter; the
code has no such counters, they are what the properties are about. `acked`
records that a notification was answered with success, after which a provider
stops repeating it.

**Workers.** A worker is a goroutine of some server instance that executes one
call; `job` says which call, for which order, and what it does next. A step is
one database statement, one transaction or one provider call.

| Place | Code |
|---|---|
| `invoke` | `CreateOrder` after the insert: `invokeProvider`, or `FAILED` |
| `query` | `checkPaidWithOptions`: ask the provider |
| `close`, `cancel` | `CancelPayment` at the provider; the conditional update of `cancelCore` |
| `toPaid`, `already` | the conditional update of `toPaid`; `alreadyProcessed` when it changed nothing |
| `reset` | `RetryFulfillment` after its checks |
| `execute`, `lock` | the status check and the conditional update to `RECHARGING` |
| `lookup`, `create`, `redeem` | `doBalance` |
| `group`, `assign`, `log` | `doSub` |
| `rebate` | `applyAffiliateRebateForOrder` |
| `complete`, `fail` | `markCompleted`, `markFailed` |

A call that read the row earlier acts on what it read: `Cancel`, `Expire`,
`Verify` and `RetryFulfillment` check the status when they start, and
`ExecuteFulfillment` before `LockOrder`; by the next step the row may be
another one. That is where the interleavings bite.

**Faults.** `FaultKinds` selects which may happen; each kind may happen
`MaxFaults` times, in any combination with the others.

| Kind | Stands for |
|---|---|
| `error` | a statement or a precondition fails anywhere in a call, from the read of the order to `markFailed`; nothing is written |
| `reply` | the statement was executed, its caller sees an error |
| `audit` | the audit log cannot be written (only logged) or read (taken for "no") |
| `abandon` | the call ends here: the process dies, its context is cancelled, or a check of `confirmPayment` fails |
| `query` | the provider does not answer the query, or not with a valid amount |
| `lookup` | the provider of a notification, or the order in `alreadyProcessed`, cannot be read, and the notification is answered with success |

**Refinement.** `KeepsBooks` says that the service implements `OrderBooks`.
`paid` is the provider's view, `recorded` is `paidAt`, `settled` means that one
of the two rebate rows is in the audit log, `completed` is the status; workers,
codes, the other audit rows and every other status disappear. What is left is
that each step of the service makes at most one entry, in the order paid,
recorded, credited, settled, completed. `exempt` is the one concession: a
subscription may be credited again once an audit row or a reply has been lost.

**Fairness.** `WF(Proceed(w))`: a call goes on. `SF` of an unacknowledged
notification: the provider repeats it until it is answered with success.
`SF(Sweep)`: the expiry service runs every minute. `WF(Late)`: time passes.
Notification and sweep need a free worker, and strong fairness grants them one
now and then: the pool of workers is a bound of the model, the server starts a
goroutine for each call. Real providers stop repeating after a number of
attempts; a bounded number of faults asks for a bounded number of repetitions.

**Refunds.** `PaymentRefund` follows one order through `RequestRefund`,
`PrepareRefund` (the plan is made from a row that may be outdated later),
`ExecuteRefund` (`LockRefund`, `DeductFirst`, the provider's answer, then
rollback and restore, pending, or success) and `QueryAndFinalizeRefund`
(`FinalizeRefund` to `FinalDeduction`). `taken` counts how often the order's
amount, or the days of its subscription, has been taken back from the user;
`gateway` is the refund at the provider. `Async` says whether the provider may
answer "pending", `Traced` whether the order has a trade number: `gwRefund`
calls an order without one refunded and asks no provider (`GatewaySkipped`).
Calls overlap freely at a provider that answers at once. `crossed`, a history
variable, counts the calls that begin while another one works on a refund that
may be pending, up to `MaxCrossed`; the safety properties that rely on the order
being locked end with the first of them (section 7 says how). Its faults are
`error`, `rollback` (the deduction cannot be given back), `audit`, `reply` (the
provider's answer is lost) and `abandon`. `WF(Proceed(w))` is all its liveness
property needs.

`KeepsAccount` says that the refund implements `RefundAccount`: the deduction is
taken once and undone only while the provider has not paid back (or where it may
pay after its answer), the provider pays back once, and then the order is closed
for good. An order without a trade number is closed with nothing paid back
(`owed` is `traced`). `Reliable` is how long this lasts: the audit log works, no
answer of the provider is lost and, at a provider that may answer "pending",
nothing fails and one call is made at a time.
Failed statements, failed rollbacks and crashes at a provider that answers at
once are part of the promise; why pending refunds need more is in section 7.

## 4. Idempotency keys and the system operation lock

| Module | Models |
|---|---|
| `IdempotencyStore` | the statements of `idempotency_repo.go` on one row, and its clock |
| `Idempotency` | `IdempotencyCoordinator.Execute` and the cleanup of expired rows |
| `OnceOnly` | the abstract specification of a key: who runs the operation, and whether its success is kept |
| `SystemOperationLock` | `Acquire`, `Release` and `renewLoop`, as the update, rollback and restart handlers use them |
| `IdempotencyProof`, `SystemOperationLockProof` | theorems |
| `MCIdempotency`, `MCSystemOperationLock` | instances for TLC |

**Time.** Times are relative: `row.lock` and `row.left` are the ticks until
`locked_until` and `expires_at`. The code compares with a `now` taken when the
call began; `job[c].age` is the number of ticks since, and every comparison of
an old time adds it. `MaxDelay` bounds that age until a claim, `MaxRun` the time
of an execution: the code bounds neither, so both are conditions of what is
shown, stated in `RunAssumption` and `LeaseAssumption`.

**Actions.** `Create`, `Get`, `TryReclaim`, `Reget` are the statements of a
claim with what `Execute` does after each; `Succeed` and `Fail` end an
execution; `Stop` is a death, a cancelled context (a client that hangs up is
one) or a failed statement at any place; `CleanupOnce` deletes an expired row,
also one in `processing`. For the lock, `Renew` and `RenewFails` are the turns of
`renewLoop`, `Release` marks the row as succeeded or failed. `owed` and
`crossed` are history: for how long an answered success is to be replayed, and
whether a success was reclaimed by a caller that had read the expired record it
replaced (`TryReclaim` compares status and lock, not `expires_at`).

**Refinement.** `RunsOnce` says that the coordinator implements `OnceOnly` until
`crossed` is set: rows, claims, reads of long ago and the cleanup disappear, and
what is left is a key that lets one caller at a time run the operation, and
nobody as long as an answered success is owed.

**Fairness.** Callers go on or die (`WF(Step(c))`), the clock and the cleanup's
ticker run (`WF(Tick)`, `WF(CleanupOnce)`).

## 5. The gateway: slots, billing, tokens

| Module | Models |
|---|---|
| `ConcurrencySlots` | slots and wait queues of one user and its accounts |
| `UsageBilling` | eligibility, billing and cached balance of one user |
| `OAuthTokenRefresh` | the refresh of one account's token |
| `ConcurrencySlotsProof`, `UsageBillingProof`, `OAuthTokenRefreshProof` | theorems |
| `MCConcurrencySlots`, `MCUsageBilling`, `MCOAuthTokenRefresh` | instances for TLC |

**Slots.** A pool is a sorted set in Redis. `left[r][k]` is the time that the
slot of request `r` in pool `k` has left; `lost[k]` are the members that no
request will remove, because a release failed, the reply of an acquire was lost,
or the process crashed. A request takes a slot of the user, then of an account,
waiting in between (`Try`, `Count`, `Obtain`, `GiveUp`, `Uncount`), is forwarded,
and ends, retries or switches the account (`Finish`). `Drop` is the callback of a
client that has gone, which releases slots beside the handler at any time;
`Crash` and `Startup` are the death of the process and the cleanup when it comes
up again; after `StartupFails` the process serves without the cleanup
(`wire.go:242`), at every start if need be. Fairness: `WF` of `Step`, `Drop`,
`Startup` and `Tick`.

**Billing.** `Begin`, `Check`, `Load`, `Serve` are a request up to the submission
of its usage record. `task[r]` holds two copies of that record, since a record
may be submitted twice; `Claim`, `Look`, `Commit` are the statements of the
billing transaction (insert of the dedup key, look into the archive, commit with
the deduction), `Sync` the queued deduction of the cached balance. `writes` is
the queue of cache writes together with the tasks its workers have taken, and
`Write(n)` executes any of them: the workers race. When the queue is full, a
deduction is executed at once; when the balance is used up, the cached one is
deleted instead. Faults drop, double or fail each of these steps. Fairness: `WF`
of `Request` (the user goes on sending), `Task`, `Write(1)`, `Age`, `Expire` and
`Renew`.

**Tokens.** Credentials are numbered as the provider issues them, and each
refresh token is good for one refresh. A caller is a request (`GetAccessToken`)
or the background service of an instance; both go through `RefreshIfNeeded`:
mutex of the instance, lock in Redis, second read, refresh, race recovery,
write. `due` and `urgent` are the windows in which service and requests
refresh. Around it: the token cache with the version check (`CheckTokenVersion`,
`SetAccessToken`), its invalidation, the account that is disabled or deferred.
Kinds of faults: `redis`, `slow` (a refresh outlives the lock), `read`, `write`,
`network`, `reply` (the provider has rotated, nobody hears of it), `crash`.
Fairness: `WF` of every caller's step, of the services' tickers and of expiring
keys; `SF(LockMutex)`, since Go's mutex hands over to waiters. The lock in Redis
promises nobody anything, and nothing is assumed of it.

## 6. The runs

Each run is `tlc -config <cfg> <module>`; `PROJECT.json` names both.

| Run (distinct states) | Bounds | Checks |
|---|---|---|
| `pipeline_safe` (365,304) | 2 callers, 2 buckets in two rows, batches of 1, log of 3, 2 connections, 2 disturbances; an abandoned report is lost | `MarkedIsStored`, `FinishedIsStored`, `MarksNeverRegress`, `KeepsLedger`, `Converges` |
| `pipeline_late` (414,235) | the same with batches of 2 of which the sidecar rejects one; an abandoned report may arrive later | `NoOvercount`, `RejectedIsUnmarked` |
| `payment` (2,785,123) | 1 order, 2 workers, six kinds of faults once each, 1 retry | `CreditedOnce`, `CreditNeedsPayment`, `CompletedIsCredited`, `AckedIsRecorded`, `KeepsBooks` |
| `payment_live` (242,227) | 1 order, 2 workers, 2 `error` and 2 `abandon`, no retry | `PaidCompletes`, `PaidSettles` |
| `refund` (1,027,366) | 2 workers, both kinds of providers, with and without trade number, five kinds of faults once each, 1 crossing call on a refund that may be pending | `DeductedOnce`, `RefundOnRecord`, `RefundedIsDeducted`, `RefundedIsFinal`, `KeepsAccount`, `RefundingEnds` |
| `idempotency` (1,343,608) | 3 callers, 2 payloads, lock of 2 ticks, record of 3, times up to 1 tick old, executions of 1 tick | `OneExecutor`, `AckedIsRecorded`, `ReplayIsOwn`, `RepeatReplays`, `RunsOnce`, `KeyFreed` |
| `system_lock` (1,207,612) | 3 callers, 2 operation ids, lease of 4 ticks, renewal every tick, 1 failed renewal | `OneOperation`, `LeaseCovers`, `LeaseEnds` |
| `slots` (241,896) | 3 requests, 2 slots of the user, 1 of the account, queue of 1, TTL of 2 ticks, 1 retry or switch, 1 fault besides failed cleanups at startup | `SlotLimit`, `QueueLimit`, `SlotsFollowRequest`, `SlotsFreed` |
| `billing` (482,349) | 2 requests that cost 2 each, a balance of 3, 1 top-up, queue of 1, 1 fault | `ChargedOnce`, `SpentThenRefused` |
| `token_refresh` (358,808) | a request and a service on one instance, a service on another; 2 credentials, 2 attempts, 2 faults | `NewestIsKept`, `DisabledIsDead`, `CachesNoOlder`, `CredentialsNeverRegress`, `RenewsOrFails` |
| `pipeline_late_stale` | as `pipeline_late` with every bucket valid and 1 disturbance | `Converges` fails |
| `system_lock_outlasts` | 2 callers, an operation may outlast its lease | `OneOperation` fails |

**Why the bounds are enough.**

- *Pipeline.* Two buckets in batches of one give a run two rounds with a save
  between them, so that it can stop with one bucket marked; a log of three lets
  a bucket grow twice and an outdated snapshot be two versions old. Two callers
  are one that holds the lock and one that loaded the file before. Two
  disturbances allow a crash and a second one during the recovery from it.
- *Payments and refunds.* Two workers are a fulfilment and a competitor for the
  lock, or a call that changes the row under it; orders share no variable. Each
  kind of fault may happen once next to all the others, so that a lost reply
  can meet a failed audit write and a crash. One crossing call is enough for
  every deviation that crossing causes (section 7). In `payment_live` two failed
  statements are the one that ends the fulfilment and the one of `markFailed`.
- *Idempotency and lock.* Three callers are one that executes, one that read the
  row before, and one that comes later; the times are the least that satisfy
  the assumptions with every comparison on either side of its boundary.
- *Slots.* Three requests fill the user's two slots and queue for a third, two
  of them compete for the account's one.
- *Billing.* The second request overdraws the balance; the top-up lets it
  happen again. A queue of one is full at the second write.
- *Tokens.* Request and service share an instance's mutex; the other service
  shares only Redis. Two faults allow Redis to fail and an instance to die, or
  both refreshers to lose an answer.

The proofs of section 8 do not depend on any of these bounds.

**Deadlock.** Checked everywhere but in the runs of payments and refunds: with
its retries used up, an order that is closed and unpaid, or refunded, is simply
finished.

**What the properties say.**

- *Pipeline.* `NoOvercount`: a row never exceeds the log, whatever is sent
  again. `MarkedIsStored`: a bucket is skipped only if the sidecar has it;
  `RejectedIsUnmarked`: never if the sidecar rejects it. `FinishedIsStored`: a
  run that has sent everything leaves exactly what it read in the table.
  `MarksNeverRegress`: no saved signature returns to an older snapshot.
  `KeepsLedger`: the refinement of section 2. `Converges`: when the log stops
  growing, the table catches up and stays.
- *Payments.* `CreditedOnce`: an order is credited once, as long as the audit log
  works and no statement takes effect that its caller sees fail.
  `CreditNeedsPayment`: only for a payment on record. `CompletedIsCredited`:
  `COMPLETED` means credited, and the rebate is given once and only then.
  `AckedIsRecorded`: no payment is acknowledged and forgotten, unless a read
  behind the notification failed. `KeepsBooks`: the refinement of section 3,
  which also says that no credit follows `COMPLETED` and nothing takes it away.
  `PaidCompletes`: with one fault, a failed statement anywhere or a call that
  dies, a payment is credited without help, or recorded as too late, or the order
  is `Stranded`: left in `PAID` or `RECHARGING` with nobody working on it, by a
  failure between `toPaid` and the lock or at `markFailed`, or by a crash. With
  two faults it need not be credited either way, because a duplicate
  notification that read `FAILED` loses the lock to another worker and is
  acknowledged, and nobody comes when the winner fails as well. `PaidSettles`
  states what is left then: an order that is not `Stranded` is `COMPLETED`, or
  `FAILED`, where an administrator can retry. `Stranded` names the places at
  which the code falls short of `docs/PAYMENT.md` (section 7); the two properties
  show that failed statements and crashes do so at no other.
- *Refunds.* `DeductedOnce`: the user gives the amount back once, whatever is
  repeated. `RefundOnRecord`: a refund that the provider made and answered is not
  offered again. `RefundedIsDeducted`: `REFUNDED` needs the deduction and, for an
  order with a trade number, the provider's refund; `RefundedIsFinal`: it stays.
  `KeepsAccount`: the refinement of section 3; above all, no rollback follows the
  provider's refund. All but `RefundOnRecord` hold until calls cross on a refund
  that may be pending, and for all others without that condition.
  `RefundingEnds`: `REFUNDING` is left again, unless something fails, calls that
  cross included.
- *Idempotency.* `OneExecutor`: one execution at a time per key.
  `AckedIsRecorded`: an answered success stays on record until it expires.
  `ReplayIsOwn`: a replay answers the same payload. `RepeatReplays`: a call that
  begins while a success is on record never executes. `RunsOnce`: the refinement
  of section 4. `KeyFreed`: a key left in `processing` by a dead caller becomes
  usable.
- *System lock.* `OneOperation`, `LeaseCovers`, `LeaseEnds`: one operation at a
  time, under its own lease, and the lock of a dead holder becomes free.
- *Slots.* `SlotLimit`, `QueueLimit`: the limits hold, up to the increments of
  the wait counter that failed open. `SlotsFollowRequest`: a request is forwarded
  under a slot of its user and one of its account, unless its client has gone,
  and none is left when it has ended. `SlotsFreed`: leaked slots come back under
  any traffic.
- *Billing.* `ChargedOnce`: a request is charged once. `SpentThenRefused`: a user
  who goes on sending spends its money and is then refused for good, however the
  cache writes are ordered or lost.
- *Tokens.* `NewestIsKept`: the refresh token the provider takes next is stored
  or about to be. `CredentialsNeverRegress`: no write replaces newer credentials.
  `DisabledIsDead`: an account is disabled only when its token is dead.
  `CachesNoOlder`: no request caches a token older than the one stored when it
  began. `RenewsOrFails`: a token about to expire is refreshed, or the account
  disabled.

Every property of a passing run has a mutant in `PROJECT.json`: a plausible bug
in one definition (an upsert that adds, no second load under the lock, an
unconditional update to `RECHARGING`, a cleanup that reuses ids, a limit compared
with `<=`, ...) under which the same run finds the property violated. The mutated
forms stand next to the definitions, marked "Mutant".

## 7. Findings and known deviations

**Runs that find a violation.**

| Run | The code | What a document or test says |
|---|---|---|
| `pipeline_late_stale` | The upsert (`sidecar/main.go:449`) has no version: a report whose client has timed out can be processed after a newer one and puts the older total back. The client's signature says "sent", so no later run repairs it until the bucket grows. | `README.md:41` and `reporter.py:61`: the upsert makes repeated reports idempotent |
| `system_lock_outlasts` | `TryReclaim` leaves the previous operation's id in `request_fingerprint`, `ExtendProcessingLock` looks for the new one (`idempotency_repo.go:147`), and `renewLoop` stops at its first turn. An operation longer than the lease then runs next to another one. | `system_operation_lock_service_test.go:65`: `locked_until` is renewed while the lock is held |

**Deviations met while modelling**, with the constants under which the models
show them, where they do.

Usage pipeline:

- The watermark is read after the upload (`reporter.py:133`), the totals before
  it, while `state.py:4` calls it the largest `created_at` the report covered.
  Nothing of the upload depends on it. (`WatermarkCovered` as an invariant of
  `pipeline_safe`.)
- A batch with a rejected item ends the run (`reporter.py:119`), and the next
  run begins with the same batch; the buckets behind it never arrive.
  (`RowOf <- RowOfPoison` with `BatchSize = 1` and `Converges`.)
- A client `batch_size` above the sidecar's `max_items` is answered 400 on every
  run (`main.go:274`).
- Buckets whose names differ only in surrounding blanks share a row
  (`main.go:383`); two machines that keep the default `source` share all their
  rows (`config.py:97`). The theorems assume that rows are not shared.

Payments (`payment_fulfillment.go` unless named):

- A failed read or lock update after `toPaid` (`:213-215`, `:224`, `:237-240`)
  or a crash there leaves `PAID`; a failed `markFailed` (`:654`) or a crash after
  the lock leaves `RECHARGING`. Notifications are then answered "is being
  processed" (`:193`), the sweep looks at `PENDING` only, and for `RECHARGING`
  the administrator's retry is refused too (`:671`), while `docs/PAYMENT.md:214`
  promises that no manual intervention is needed and `:252` that a failed credit
  ends as `FAILED`. (Without `Stranded(o)`, `PaidCompletes` and `PaidSettles`
  fail in `payment_live`.)
- A notification whose provider cannot be resolved, because of a database error
  too, is answered with success (`payment_webhook_handler.go:97`).
  (`FaultKinds = {"lookup"}` with `PaidCompletes`.)
- A subscription is protected from a second assignment by an audit row written
  after it, outside its transaction (`:441`), and a failed read of the audit log
  counts as "no" (`:456`): the reason for the conditions of `CreditedOnce`.

Refunds (`payment_refund.go`):

- An order without a trade number is `REFUNDED` although the provider was not
  asked (`:333-336`), while `docs/PAYMENT.md:255` calls that a completed refund.
  EasyPay's popup mode creates an order without one (`easypay.go:122-147`), and
  if the payment is confirmed by a query whose answer names none, `toPaid` stores
  an empty number. (Without `traced =>`, `RefundedIsDeducted` fails in `refund`.)
- `QueryAndFinalizeRefund` (`:406`) checks `REFUND_PENDING` on a row it has read
  and takes no lock: two calls at once both deduct, where
  `payment_refund_test.go:363-404` expects one deduction. It also writes
  `REFUNDED` (`:562`) while a second `ExecuteRefund` holds `REFUNDING`; when the
  provider refuses the latter, `restoreStatus` (`:642`) writes `COMPLETED` over
  it, and the order is offered for refund again. (Without `crossed = 0`,
  `DeductedOnce` and `RefundedIsFinal` fail in `refund`.)
- A pending refund is protected neither from a failure nor from a crash: after a
  rollback that failed, a retry answered "pending" notes that nothing was
  deducted. (The condition `async => Undisturbed` of `DeductedOnce`.)
- `restoreStatus` drops the error of its update (`:642`), and a call that dies
  after the update to `REFUNDING` leaves it there. (The condition of
  `RefundingEnds`.)

Idempotency: a caller that has read an expired record may reclaim the success
that meanwhile replaced it, since `TryReclaim` does not look at `expires_at`
again (`idempotency.go:292`); the operation is then executed a second time.
(`crossed`, the condition of `AckedIsRecorded` and `RepeatReplays`.)
`DeleteExpired` selects expired rows and deletes them by id
(`idempotency_repo.go:221-231`); a row reclaimed between the two is not checked
again by PostgreSQL's default isolation. `CleanupOnce` is atomic and leaves this
out.

Slots:

- A slot is never renewed: a request longer than the fifteen minutes of its TTL
  goes on without it (`concurrency_cache.go:61`). (The guard of `Tick`.)
- The cleanup at startup removes the slots and wait counters of every other
  live instance (`wire.go:242`). One instance is modelled.
- A client that disconnects frees the slot while the upstream request goes on
  (`gateway_helper.go:160`). `SlotLimit` counts the slots that are held.
- A leaked wait counter lives as long as the traffic that refreshes its TTL.

Billing: a balance loaded from the database is written to the cache after the
deductions of others, and since every deduction renews the TTL
(`billing_cache.go:82`), the wrong value lives as long as the user is active;
`SpentThenRefused` holds because the value reaches zero in the end. A commit
whose reply is lost is charged but has neither usage log nor cache update.

Tokens:

- The lock has no owner (`oauth_refresh_api.go:104`): a release deletes the key
  whoever has set it. With a Redis that fails, or a refresh slower than the
  lock, an account may be disabled although another refresh is about to store
  good credentials (the condition of `DisabledIsDead`).
- A crash, a lost answer or a failed write after the provider has rotated the
  token loses it, and the account must be authorised again by hand (the
  condition of `NewestIsKept`).
- `CheckTokenVersion` and the write to the cache are two steps
  (`token_cache_invalidator.go:78`): a token replaced between them stays in the
  cache for its TTL.
- `refresh_token_reused`, the answer of OpenAI, is not covered by the race
  recovery, which knows `invalid_grant`.

Subscriptions: two orders of one user for one group read the same `expires_at`
outside the transactions that extend it (`subscription_service.go:181`), and one
of the terms is lost. The models count assignments per order and do not show it.

## 8. The proofs

The theorems are about safety. Each rests on an inductive invariant, because the
property by itself does not exclude states from which one step breaks it; the
invariants were checked with TLC before they were proved. TLAPS proves neither
liveness under fairness (it has no `ENABLED`) nor inductions over data; the
former stay with TLC, and no module needs the latter, since none declares a
recursive operator.

`TypeCorrect` states the module's `TypeOK`, which no run repeats.

| Module | Theorem | Property | Assumes |
|---|---|---|---|
| `UsagePipelineProof` | `TypeCorrect` | | |
| | `MarksMonotone` | `MarksNeverRegress` | |
| | `NeverOvercounts` | `NoOvercount` | `OneItemPerRow(Storable)` |
| | `MarkedStaysStored` | `MarkedIsStored` | the same, `~ AbandonedMayLand` |
| | `FinishedStaysStored` | `FinishedIsStored` | the same |
| | `RowsMonotone` | `RowsNeverRegress` | the same |
| | `PipelineIsLedger` | `KeepsLedger` | the same |
| | `RejectedStaysUnmarked` | `RejectedIsUnmarked` | |
| `PaymentFulfillmentProof` | `TypeCorrect` | | |
| | `NoFulfillmentRace` | `OneFulfiller` | |
| | `PaidBeforeCredit` | `CreditNeedsPayment` | |
| | `BalanceOnce` | `BalanceCreditedOnce` | |
| | `CompletedMeansCredited` | `CompletedIsCredited` | |
| | `CompletedStays` | `CompletedIsFinal` | |
| | `AckMeansRecorded` | `AckedIsRecorded` | |
| | `OneCredit` | `CreditedOnce` | |
| | `ServiceKeepsBooks` | `KeepsBooks` | |
| `PaymentRefundProof` | `TypeCorrect` | | |
| | `TakenOnce` | `DeductedOnce` | |
| | `RefundStaysRecorded` | `RefundOnRecord` | |
| | `RefundMeansDeducted` | `RefundedIsDeducted` | |
| | `RefundStays` | `RefundedIsFinal` | |
| | `RefundKeepsAccount` | `KeepsAccount` | |
| `IdempotencyProof` | `TypeCorrect` | | |
| | `ExecutedAlone` | `OneExecutor` | |
| | `AnsweredIsKept` | `AckedIsRecorded` | |
| | `ReplaysAreOwn` | `ReplayIsOwn` | |
| | `RepeatsNeverRun` | `RepeatReplays` | |
| | `KeyRefines` | `RunsOnce` | |
| `SystemOperationLockProof` | `TypeCorrect` | | `~ Outlasts` |
| | `OperationsExclude` | `OneOperation` | `~ Outlasts` |
| | `LeaseHolds` | `LeaseCovers` | `~ Outlasts` |
| `ConcurrencySlotsProof` | `TypeCorrect` | | |
| | `LimitHolds` | `SlotLimit` | |
| | `QueueHolds` | `QueueLimit` | |
| | `SlotsAreMatched` | `SlotsFollowRequest` | |
| `UsageBillingProof` | `TypeCorrect` | | |
| | `BilledOnce` | `ChargedOnce` | |
| `OAuthTokenRefreshProof` | `TypeCorrect` | | |
| | `NeverRegress` | `CredentialsNeverRegress` | |
| | `NewestKept` | `NewestIsKept` | |
| | `DisabledOnlyDead` | `DisabledIsDead` | |
| | `CachesNothingOlder` | `CachesNoOlder` | |

All of them hold for any number of actors, faults and bounds that satisfy the
assumptions (`ASSUME`) of the modules; "Assumes" names what is needed besides.
Some properties have a condition in their own statement (no lost reply, no
failed audit write, no `crossed` reclaim or refund call); section 7 says what
happens without.

**Usage pipeline.** `OneItemPerRow(Storable)` says that no two buckets share a
key of the table. `~ AbandonedMayLand` is the condition without which
`pipeline_late_stale` shows that a row does go back. The parts of the invariant:

- `ConnInv`: a caller that awaits an answer has a connection (needed for the
  types already, since `BatchDone` reads it);
- `LockInv`: exactly the holder of the lock is between `Acquire` and the end of
  the run, hence there is only one;
- `BoundInv`: every number that lies anywhere (file, memory, snapshot, report on
  the wire) is at most what the log has for its bucket. A report that arrives
  late was bounded when it was sent, and the log has only grown: this is why
  `NeverOvercounts` needs no condition on the network;
- `HolderInv`: the holder's memory agrees with the file (when there is one) and
  is not ahead of its snapshot. This is what the second load under the lock
  establishes, and `MarksMonotone` follows from it. These four make `MarkInv`;
- `StoreInv`: what is marked in memory or in the file is stored (`MemStored`,
  `MarkedIsStored`), the snapshot of the lock's holder is at least as new as the
  table (`SnapAhead`), every report under way belongs to the caller that awaits
  it (`ReportsOwned`, which is where `~ AbandonedMayLand` is used), pending
  buckets are not empty, and an answer that accepts a whole batch means that its
  values are stored (`AcceptedStored`);
- `SentOrPending`: what a run has read is still to be sent or is marked in its
  memory. With `MemStored` and `SnapAhead` it gives `FinishedIsStored`: at the
  end of a run the table holds exactly what the run read.

`PipelineIsLedger` then maps the steps: a new request in the log is the ledger's
`Log`, an upsert is `CatchUp` (by `BoundInv` and `SnapAhead`), and every other
step leaves log and table alone. `RejectedStaysUnmarked` needs none of the
conditions: the connection of a caller that waits carries its own report
(`AwaitsOwn`), because an abandoned one keeps its connection busy, and an answer
that rejects nothing is about storable buckets only (`AcceptedStorable`).

**Payment orders.** `IInv` consists of `TypeOK`, `RowInv` (what each row says by
itself: credits of a balance order follow its redeem code, a rebate has its
audit row, a paid status has `paidAt` and a payment at the provider), `JobInv`
with `PlaceInv` (what a worker's place says about its order: the type on either
branch of the fulfilment, that the credit has been given from `rebate` on, that
a creation is not yet payable) and `Alone` (at most one worker of an order is in
the fulfilment, and the order is `RECHARGING` meanwhile). `Alone` carries the
rest: it is the reason why what a worker knows about its order stays true while
others act. `OneCredit` adds `OnceInv`, which ties a subscription's credit to
its audit row or to the worker that is about to write it. An abandoned call
between the two leaves the order in `RECHARGING` (`Held`), where no second
attempt can begin: the flaw that strands the order is what keeps it from being
credited twice. `ServiceKeepsBooks` maps each step to an entry of `OrderBooks`
or to none. It needs `IInv` for the entries' guards, `OnceInv` for the single
credit, `SettledInv` (nobody reaches the completion before a rebate row is in
the audit log, and no row leaves it) and, for the exemption, that an order keeps
its type once it exists (`RowStays`). `BalanceCreditedOnce`, `CompletedIsFinal`
and `OneFulfiller` are stronger statements that no run repeats.

**Refunds.** `Exclusive` says that `REFUNDING` is a lock: between the update to
`REFUNDING` and the one that leaves it, one call works, and what has been taken
from the user follows from that call's place (`EnoughTaken`, `OnceTaken`).
`QueryAndFinalizeRefund` does not take the lock. It runs only on a refund that
may be pending (`SyncOnly`), where the argument needs one call at a time
(`Serial`); so `IInv` keeps all of this, `Orderly`, until calls have crossed on
such a refund, and for every other one without a condition. `Refunded` and
`Recorded` tie the status to the provider. The types (`TypeStep`) and
`RefundStaysRecorded` need no condition. `RefundKeepsAccount` has one lemma per
entry of the account. Faults and crossings are only counted up
(`ReliableSofar`), so that `OnceTaken` says at a deduction that nothing is
deducted and at a rollback that something is, and `Recorded` that a call which
may still roll back works for a provider that has not paid.

**Idempotency.** The key is `ClaimsAreOld`: a caller that has read an expired
lock may still try to take the row after somebody else has, and status and
fingerprint look the same to it. It is kept out because its time is older than
the other's claim, so that the lock written by that claim is not past for it.
`ExecutorHolds` says that row and lock outlast the execution, `OwedStays` that
an answered success outlasts its promise, `RepeatsWait` that a repeated call
gets no further than its first read. `KeyRefines` maps a claim that wins to
`Run`, the end of an execution to `Succeed` or `Fail`, a tick to `Pass` and the
loss of a record to `Forget`; that nobody else runs at a claim is `OneExecutor`,
and that nothing is owed then is `OwedStays`.

**System operation lock.** `Covered` is an account of time: the lease of a holder
ends `Timeout` ticks after its latest renewal, and since then the failed
renewals and the one that is due account for all the ticks (`Budget`).
`~ Outlasts` excludes what `system_lock_outlasts` shows.

**Slots.** A slot is taken only when the members of the pool, those that nobody
knows included, are fewer than its limit (`OneMore`). Counter and failed-open
increments together count at least those who wait (`Counted`); the floor of the
decrement at zero lets them count more, never less. The rest says who can be
where: `DownIsIdle`, `AtAccount`. `HeldByPlace` says for each place of the
handler which slots a request may hold there and which it must; between the wait
for a slot and the next step it may or may not have one, and a request whose
client has gone may have lost any.

**Billing.** A charge is a step of a transaction that looked for the key some
steps earlier. `OneTransaction`: the insert of a key makes a second transaction
wait; `KeyUnclaimed`: the key it did not find is still absent when it charges;
`KeyPerCharge`: a request with a key was charged once, one without never. The
types need `MoneyIn`, which bounds the balance by the money that has come in so
far; the products in it are why `Products` is a lemma.

**Tokens.** The argument does not lean on the lock, which several callers may
hold. It is the provider that lets one refresh through: who is about to store new
credentials is alone in having them (`Alone`), and they are newer than what is
stored (`Bounds`). `CacheInv` relates a request's copy of the account to what was
stored when the request began. Only `DisabledOnlyDead` needs the lock
(`LockInv`): while Redis works, one caller is between second read and write
(`Exclusive`), its read is fresh, and a refused token is dead.

**Only model-checked**: the liveness properties (`Converges`, `PaidCompletes`,
`PaidSettles`, `RefundingEnds`, `KeyFreed`, `LeaseEnds`, `SlotsFreed`,
`SpentThenRefused`, `RenewsOrFails`).

## 9. Not modelled

The repository has some 480,000 lines, most of them generated (`ent`), user
interface, request translation between the APIs of model providers, and
administration. The models cover the code in which several actors share state
and an order of events nobody tested can do harm; by lines that is a small part,
and modelling request translation would not change what can go wrong between
processes.

Abstracted inside the modelled parts:

- *Amounts, currencies, provider selection, limits, e-mails, texts.* An order is
  credited or refunded in full or not, since `confirmPayment` lets only its own
  amount through; a notification that fails its checks changes nothing.
- *Subscription terms and windows; affiliate quotas.* Whether a rebate is due
  and how much is a choice of the model.
- *Torn reads of the log.* SQLite is opened with `immutable=1`; the model reads
  the log atomically.
- *Several machines, and buckets that share a row* (section 7).
- *Stored answers.* Redaction and truncation of replayed bodies, metrics, key
  syntax, calls without a key; a renewal is one statement. The handlers that
  execute without a record when the store is unavailable
  (`admin/idempotency_helper.go:94-103`) promise nothing per key.
- *Answers of the sidecar without counts.* `reporter.py:117-118` takes a missing
  `accepted` or `rejected` for full success; the sidecar always sends both.
- *Slots:* the unlimited case (`maxConcurrency` 0), load figures for the
  selection of accounts, several instances.
- *Billing:* the balance check of the authentication middleware (on its own
  snapshot of the user), subscription mode, API key quotas and rate limits,
  platform quotas, RPM, circuit breaker, sharing of loads by singleflight, size
  of the pool.
- *Tokens:* platforms whose policy differs (Gemini, Antigravity), manual
  re-authorisation (which a refresh under way may overwrite), privacy settings.

Not modelled at all:

| Component | Why |
|---|---|
| scheduler snapshots and outbox | rebuilds a Redis copy of database rows, which the modelled parts only assume to be possibly old |
| platform quota flusher | optional (`flusher_enabled` is off by default); its known race with administrators is documented in its source |
| leader lock | no modelled component needs it to be safe |
| user message queue | a Redis lock with a delay: the hazards of the slots on a smaller scale |
| websocket pool | in-process, under a mutex per account |
| threads and events of the usage scheduler | they decide when a run starts, which the pipeline leaves open |
| e-mail queue, authentication, monitoring, frontend, ent | best effort, request-scoped, observing, user interface, generated |
