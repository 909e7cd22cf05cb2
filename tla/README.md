# TLA+ models of the pepnetcom.org backend

pepnetcom.org sells academic, SIWES, consultancy, trading and marketing services. The
backend (`src/backend`, TypeScript: Hono, tRPC, Prisma over PostgreSQL, Redis, BullMQ) runs as
several web and worker processes that share nothing but the database, Redis and three payment
gateways. No handler takes a database lock across its reads and writes: two requests interleave
at every `await`. These modules model four parts of it: the money (paying for an order, the other
writers of the order's status, the Redis lock around both, refunds, and the access that is sold for a
price until it ends); the accounts, their sessions and their second factor; the processes with their
outbox, their broadcasts, their live feed and their shutdown; and the edge of the API as a browser meets
it, with pagination, retries, rate limits and idempotency keys.

- [Inventory](#inventory)
- [What is modelled](#what-is-modelled)
- [Runs](#runs)
- [What the code does otherwise](#what-the-code-does-otherwise)
- [Proofs](#proofs)
- [Not modelled](#not-modelled)
- [Plan](#plan)

## Inventory

Paths are relative to `src/backend/src`.

| Component | State | Operations | What makes it correct |
|---|---|---|---|
| Checkout `modules/payments/payments.service.ts`, `invoice.service.ts` | `payments`, `invoices`, sessions at the gateway | `initiatePayment`, `verifyPayment` | an order is confirmed once, only for its exact price, with its invoice; SUCCESS is not lost |
| Entitlements: same service, `trade-strategies/`, `signals/`, `jobs/workers/subscription-*` | `strategy_purchases`, `subscriptions`, `signal_subscriptions` | purchase, subscribe, cancel, expire | access only for captured money; one ACTIVE purchase; access starts once for a payment |
| Orders `modules/orders`, `modules/siwes/report-upload.service.ts` | `orders.status`, `order_assignments`, the status history | create, updateStatus, cancel, assignStaff, uploadReport | transitions follow the status machine |
| Refunds `modules/payments/refund.service.ts` | `refund_requests` | requestRefund, updateStatus, approveRefund | no more returned than paid; REFUNDED means returned |
| Lock `shared/concurrency/distributed-lock.ts` | Redis keys | withLock | exclusion within the lease; no lock for ever |
| Webhooks `http/routes/webhooks` | none | one handler per gateway | any delivery order is harmless |
| Outbox `events/outbox`, `event-bus.ts` | `outbox_events` | claimPending, relay, markProcessed, markFailed | no event held by two relays; retries counted; no event starves |
| Jobs `jobs/`, `server.ts` | BullMQ queues, `dead_letter_jobs` | workers, schedulers, dead letters | a broadcast reaches nobody twice in one run, and somebody when it is complete |
| Processes `server.ts` | what runs in a process | start, gracefulShutdown, the timeout | in-flight work is finished, and the shutdown ends |
| Live feed `modules/signals`, `http/app.ts`, `frontend/hooks/use-signal-feed.ts` | signals, open streams, the Redis subscription | create, close, publish, deliver, connect | one copy per stream, in order |
| Accounts `modules/auth`, `modules/users`, `frontend/lib/auth.ts` | `users`, `sessions`, Redis one-use tokens, the cookie of the site | register, login, 2FA, refresh, logout, reset, change, verify, update, deactivate | one-use things are used once; sessions end when they should, and only then |
| Idempotency and rate limits `shared/concurrency/idempotency.ts`, `shared/rate-limit` | Redis keys | withIdempotencyKey, rateLimit | one run per key; nobody is shut out for good |
| Pagination `shared/pagination`, `frontend/hooks/use-cursor-pagination.ts` | the cursor stack and the query cache of a tab | list, next, previous | no row is skipped, and the walk ends |
| Access control `shared/rbac` | none | permission table | |
| Support tickets, CMS, communication, settings, uploads, analytics, service desks | one table each | create, read, update, delete | |
| Push, SMS, storage, WhatsApp | none | calls of outside services | |
| Routers, validation, user interface | none shared | routing, forms, pages | |

How they interact. A client (or the gateway's webhook) calls checkout; checkout calls the
gateway, reads and writes orders through `OrdersRepository`, and runs inside `withLock`. Refunds
call the same gateway, write the payment row and call `OrdersService.updateStatus`. Staff and
clients call the order handlers at any time. The expiry check queues renewal jobs; administrators queue
broadcasts and publish signals, which Redis carries to every process and each process to its streams.
The site keeps the two tokens of a session in one cookie and refreshes them when a page
asks for the session. Every request of one address passes the same Redis counter first. The
outbox relay hands events to an in-process bus, but nothing in the repository calls `createEvent` or
registers a handler: it is modelled as the part that will be called.

What is hard: stale reads before an await, leases that end while their holder works, sessions paid
after the row moved on, webhooks duplicated, late or lost, processes that die between two
writes, answers that are lost after their effect, pages read while their rows change. `PROJECT.json` lists each at its line under `hazards`, with the properties that cover it.

## What is modelled

| Module | Models | Role |
|---|---|---|
| `OrderStatus` | `order-status.state-machine.ts` | the table and `CanTransition` |
| `LeaseLock` | `withLock` | the lock alone; instantiated by the modules that use it |
| `OrderLedger` | nothing: a promise | abstract specification: an order is funded, then settled once, with its invoice |
| `AccessLedger` | nothing: a promise | abstract specification: access starts once for a payment, and what was sold for good does not end |
| `EventLedger` | nothing: a promise | abstract specification: an event is emitted once per claim, returns a counted number of times, and rests when done, failed or stranded |
| `OrderCheckout` | checkout and the order handlers | the core |
| `Refunds` | `refund.service.ts` over `OrderCheckout` | composition: checkout's steps go on beside the refunds' |
| `Entitlements` | the other three targets of `payments.service.ts`, their cancellation, the two subscription jobs | a component of its own: it shares the lock and the gateway with checkout, but no row |
| `Accounts` | `auth.service.ts`, `auth.router.ts`, `users.service.ts`, the cookie of `lib/auth.ts` | a component of its own |
| `Deployment` | `server.ts`, the outbox, the broadcast queue, the live feed | composition: what runs in a process ends with it |
| `Storefront` | pagination and its hook, the query client, the rate limiter, `withIdempotencyKey` | composition: every request passes the limiter |
| `MCOrderCheckout`, `MCRefunds`, `MCEntitlements`, `MCAccounts`, `MCDeployment`, `MCStorefront` | | symmetry and mixes for TLC |
| `LeaseLockProofs`, `OrderCheckoutProofs`, `OrderCheckoutLeaseProofs`, `EntitlementsProofs`, `StorefrontProofs`, `DeploymentProofs`, `AccountsProofs`, `RefundsProofs` | | theorems |

### OrderCheckout

Each request in progress is a record `req[r]`; its `pc` names the await it stands at and its
other fields are the handler's local variables, so what a handler read before an await stays as it
was read. One action is the code between two awaits:

- `initiatePayment`: `InitiateRead` (the order must be payable), `InitiateList` (the existing
  attempts), `InitiateOpen` (the gateway opens a session), `InitiateWrite` (reuse a PENDING row or
  create one; the customer gets the session's address). A row that several PENDING rows compete for
  is any of them; the code takes the newest. A write that the database rejects leaves a session at
  the gateway whose address nobody has.
- `verifyPayment`: `VerifyFind` (client or webhook, any reference, any gateway name, any number of
  times), `VerifyLock` or `VerifyConflict`, then inside the lock `VerifyReread`, `VerifyAsk`,
  `VerifyFail`, `VerifyOrder`, `VerifyFlag`, `VerifyCommit` or `VerifyRollback`, `VerifyRelease`.
  The transaction is one step, as Serializable isolation makes it, and
  `ConstraintsAllow` is the two unique indexes it may violate. The code catches a duplicate invoice
  inside the transaction, but PostgreSQL has aborted it by then: nothing of it is kept.
- The gateway is `session`: unused, opened, offered to the customer, then captured with the right
  amount (`paid`) or not (`mispaid`). It is external; a gateway answers only for its own sessions.
- `cancel` writes twice, `updateStatus` and `uploadReport` once, `assignStaff` inserts the
  assignment first; each has its read and its writes apart, with no condition on what it overwrites.
- `Die` ends a request anywhere (its lock stays), `Throw` is an await that rejects inside the lock
  (`finally` releases), `LockExpires` is Redis. `LeasesLapse` says whether a key may expire
  while its holder still works.

`Verifying` maps the requests inside the lock to the `working` variable of `LeaseLock`;
`Ledger` maps sessions to the `funded` variable of `OrderLedger`.

### Refunds

`call[c]` is a refund call in progress, like `req[r]`; `returned[p]` is what the gateway gave back,
external like the sessions. `WriteByHand` is `updateStatus` with any status but APPROVED, which
overwrites the row whatever it holds. Amounts are hundredths of the currency, so
that the tolerance of 0.01 is `Epsilon` = 1. `mishaps` is a history variable that no guard
reads: it records when a status was written by hand, when a PROCESSED refund was sent to the gateway
again, and when a call that had paid was cut short or outlived its lock. Each property says which of
these it tolerates. A gateway is not assumed to refuse a refund that exceeds the
capture: what is checked is the backend's own accounting.

### Entitlements

A *grant* is a row of `strategy_purchases`, `subscriptions` or `signal_subscriptions`, and what it is
for decides which handlers touch it. The rows are those of one customer. The three ways to buy differ in
their queries (`Rivals`: a strategy asks for its own active purchase, a plan for any active plan
of its kind) and in one read (`BuyRecheck`: `createSubscription` goes straight to the
payment, the other two read the row once more), and are one chain of actions:
`BuyRead`, `BuyPending` (take up a PENDING row) or `BuyCreate`, `BuyRecheck`, `BuyPayment` (is there a
PENDING payment to reuse?), `BuyOpen`, `BuyWrite`. A payment points at one grant at most, and at most
one payment points at a grant: the relation is an optional one-to-one, and the service creates a payment with a nested
`connect`. When another payment is connected to the grant already (a FAILED one in a retry, a PENDING one that two
creations both missed), Prisma sets its foreign key to NULL before it inserts the new row. That is `Replace`: `payment[p]` is
a row with the grant it points at or `None`. A detached payment keeps its session, which the
customer may still pay. Verification is `doVerifyPayment` again; it looks for what the payment
is for inside the lock, compares with the price of that grant, and commits to the grant that the payment points at by
the time of the transaction. A payment that points at nothing has no amount to compare with and becomes SUCCESS on any capture,
and gives no access. `IndexAllows` is the partial index on ACTIVE purchases. The write of a creation may also fail, for one
on the unique column when another creation for the grant commits between Prisma's two statements.

Access ends by `CancelSubscription` (a platform plan, whatever its status), `SetSubscriberStatus` (a
signal plan, any status by hand) and the jobs: `ExpiryCheck` reads the plans that are over or soon will
be, `ExpiryEnqueue` adds a renewal job whose id contains the day (BullMQ ignores a second one),
`RenewRead` and `RenewWrite` are the renewal worker, which charges nothing and writes EXPIRED. Either may
fail half-way. There are no clocks: `EndReached` may come at any time and `NewDay` frees the job ids.

`Access` maps the module to `AccessLedger`: a purchase of a strategy is sold for good when its row is created
(`SoldForGood`), the money of a payment is there when a session that was offered for it is captured at its exact price
(`Captured`), the payment is settled when it is SUCCESS (`Paid`), and a grant is in force while ACTIVE (`InForce`). The ledger
counts payments and not grants, because one grant may have several in the course of time; a detached one settles and starts
nothing. The payment and the access of a signal plan are left out, because its status may be written
by hand.

### Accounts

One account; what relates two accounts is nothing but the unique address. `row[s]` is the `sessions` row
and `token[s]` what the backend makes of its access token, so that a deleted row and a revoked token stay
apart as they are in the code: `logout` deletes the one and revokes the other in either order
(`Promise.all`), and a change of password deletes rows only. `cookie[f]` is the cookie of the browser in
which the family of sessions `f` began; `Reply` is NextAuth writing it, `SignOut` the user menu, which
calls no handler of the backend. A password is the number of changes before it, so that "older" can be
said; `row[s].password` is the password that was proved for the session. `WritePassword` is of the reset by
link and of the change by its owner; the sweep that follows is a step of its own (`ResetSweep`,
`ChangeSweep`), and requests that read the account earlier go on after it: `late` marks the sessions they
create. `Throw` is an await that fails, and inside a refresh it is caught by the jwt callback, which keeps
the old tokens. `history` is read by the properties alone.

A behaviour calls the operations of one *mix*, a set such as {create, login, forgot, reset, throw}; the
model of a real account calls all of them, and every theorem about the module holds for any set of
mixes. `MCAccounts` lists the eleven that are run and together fire every action.

### Deployment

`process[p]` goes up, closing, draining, stopped; a crash or the 15 s timer makes it killed, from any
of the first three. `Ends` is what a process takes with it: runs of the relay, streams, requests, undelivered
messages, and the hold on jobs, which BullMQ gives to another worker once (`Stalled`). A run of the relay is a
record like `req[r]`: `RelayTick` claims (one UPDATE over SKIP LOCKED rows), then per event `RelayEmit`,
`RelayMark`, and if the mark fails `RelayRead` and `RelayFail`; each write may succeed and still report an
error. The interval of the code ticks every 5 s whether the last run has ended or not, and so may `RelayTick`.
Only the events of a claim are ordered (`Oldest`): RETURNING promises no order. `emitted`, `mailed`,
`log` and `gap` are histories; `gap[p]` is set when a message is published while the subscription of p is
down, which is Redis pub/sub's only failure. `Outbox` maps the module to `EventLedger`: an event is claimed while a
run has it still to emit, emitted while the run has yet to settle its row, and otherwise what its row says; a row
that is PROCESSING and that no run holds is stranded (`PhaseOf`). `last[c]` is the last message a tab had or could have had.
Behaviours have mixes of activities here as well.

### Storefront

Rows are numbered in the order of creation and listed newest first. Every list of the code asks for
PageLimit + 1 rows from the cursor on, the cursor's own row included: `Found`, `PageOf`. The tab is a
stack of cursors and a cache from cursors to pages; `Fetch` answers the query of one cursor, `Refetch`
reads a page again while it is shown, `Unanswered` is the retry rule of the query client.
If the cursor's row has left the list Prisma's answer depends on the query it makes, and both answers are
allowed; one of them is an empty page, behind which all later rows are missed. `NothingIsSkipped` says that there is no other
way to miss a row that stays in the list. `Enter` puts every request behind the counter: `Incr` and `Expire` are two awaits, and the
process may die between them. The payment call under an idempotency key is `KeyGet`, `KeyRun`, `KeySet`.

## Runs

All runs are of model values; the sets of rows, sessions, requests, refunds and calls are
interchangeable and reduced by symmetry in the passing safety runs. Deadlock is not checked: all
calls are optional and the rows are bounded, so the system may stop (orders in a terminal status,
rows used up).

| Run | Question | Bounds |
|---|---|---|
| `checkout_races` | Is an order confirmed once and only for its money, whatever interleaves and even if leases lapse? Does checkout implement `OrderLedger` and `LeaseLock`? | 1 order, 2 rows, 2 sessions, 2 requests |
| `checkout_leases` | When every verify ends within its lease: is SUCCESS final, is the invoice there exactly with it, is a verify alone? Does every request return and every lock end, whatever dies? | 1 row, 1 session, 2 gateways, 2 requests, `LeasesLapse` FALSE |
| `refunds` | Is what the rows say was returned returned, and within the price? | 1 payment, 2 refunds of 50 or 51 of 100, 2 calls beside 1 request |
| `entitlements` | Is there no access without its money, no strategy bought twice and no payment without its access, even if leases lapse? | 1 strategy, 2 purchases, 2 payments, 2 sessions, 2 requests |
| `entitlements_access` | Does access start once for a payment and its money, whichever payments are replaced? Does buying implement `AccessLedger`? | a strategy and a platform plan, 1 row, 2 payments, 2 sessions, 2 requests, `LeasesLapse` FALSE |
| `entitlements_end` | Does a plan that is over and renews itself expire? | a strategy, a platform plan and a signal plan, 1 row, 2 payments, 1 session, 2 requests, `LeasesLapse` FALSE |
| `accounts` | Does a changed password end the older sessions, does a refresh sign nobody out, are backup codes used once by logins that do not overlap, does the cookie hold a session that exists when refreshes do not overlap and are answered? | 1 account, 3 sessions, 2 links, 2 batches of 2 codes, 2 requests, 2 changes of password; 11 mixes |
| `deployment` | Are events claimed once, mails sent once per run, messages streamed once? Does the outbox implement `EventLedger`? Does a shutdown end, and cleanly if it is not forced? | 2 processes, 2 events claimed one at a time, 2 relays, 1 broadcast to 2 users, 1 signal with 3 messages, 1 tab, 1 request; 5 mixes |
| `storefront` | Is no row skipped between pages with rows, does the walk end, is an exceeded limit with a time to live forgotten, is a kept answer replayed to the calls after it? | 1 tab, 3 rows of at most 4, pages of 2, a limit of 2, 1 key, 2 requests, 3 visits; 4 mixes |
| `checkout_cancelled`, `refunds_twice`, `entitlements_detached` | Three statements of comments that the code does not keep, below | as small as shows it |

Why the bounds are enough. Nothing relates two orders: rows, sessions and locks belong to one
order, so one order shows what any can do. Two rows and two sessions are the least where two
initiates race, a row is pointed away from a paid session, and two verifies hold different keys
for one order. Two requests in progress give every pairwise interleaving, and each runs any number of
handlers in sequence. `StaffTargets` contains only PENDING_PAYMENT, the status a
storefront order needs before it can become PAID; the theorems cover every value of every constant.
Refunds of 50 and 51 give sums below, at, and above the price within and beyond the tolerance;
`ReturnedBound` stops a gateway that has given the price back, after which any further refund
is already a violation. Two purchases and two sessions of one strategy are the least that
the index has to tell apart; a plan has no rival that any query or index relates to its
row, so one row that may become any of the kinds is enough in `entitlements_access` and `entitlements_end`. Two payments
are one and the one that takes its place, with a session each in `entitlements_access`. The lapse of leases is
left to `entitlements`, where the properties hold in spite of it. Three sessions are a refreshed one,
its successor and another device; two batches are one set of codes and its replacement; two requests are again every
pairwise interleaving. Two processes are one that ends and one that takes over; two events and a claim of one
are the least where an older event can be preferred for ever; a third message is a signal closed twice. Four rows and
pages of two give a first, a middle and a last page and a row created or hidden between them; a limit of two is
reached by the two requests or by the retries of one. The mixes of a run leave out only combinations of
activities that share no variable or whose interaction another mix has: relay runs, jobs and streams meet
in nothing but the process they run in.

Fairness. In `checkout_leases`: a request that can go on does (the event loop resumes every
settled await; a gateway call has its own timeout, and its failure is also a step) and Redis drops a
key at its time to live. No caller, staff member, customer or gateway is assumed to act.
Whether a *payment* is ever verified is not claimed: a webhook that meets a held lock or an error is
answered 200 and is not sent again, and nothing else must call `verify`. In `entitlements_end`: days pass,
the check is scheduled every day (the BullMQ repeat pattern), a waiting renewal job is taken up, and the steps
of the jobs that may fail (`ExpiryEnqueue`, `RenewWrite`) do not fail on every day, which is strong
fairness; no request is assumed to move. In `deployment`: timers fire (`ForcedExit`), the platform starts a process that
ended, a run of the relay goes from await to await, and the interval fires infinitely often if it infinitely often
could (strong fairness over all processes together: any of them may stop between two ticks). Clients, requests,
jobs and a clean exit are owed nothing, so a stream may stay open for ever. In `storefront`: requests
go on, Redis forgets, the query of a page that is shown is sent, and the reader presses Next, which is the
premise of the question; failures may come at any step.

## What the code does otherwise

Three statements have a run that violates them; the text each quotes is in `PROJECT.json`.

- `CancelledIsNotForcedToPaid`: the order is read before the transaction and written PAID in it;
  a cancel between the two is lost (`payments.service.ts:302` says it is not forced).
- `ApprovalsWithinPrice`: approving a PROCESSED refund passes the balance check, which leaves that
  refund out, and asks the gateway to pay again.
- `NoSilentMismatch`: two creations for one purchase each connect a payment to it, the second detaches the first, and
  the session of the first can still be paid. Verifying it compares no amounts, since it points at nothing, and writes
  SUCCESS (`payments.service.ts:281-282` says that a mismatch never silently succeeds).

Seven more are stated beside the properties of their modules, each with a configuration of its own that is not among
the runs: `tlc -config X.cfg M` shows the violation. Six of them are the other half of a property that a passing run
checks and that names the race as its exception.

| Statement | Configuration, module | What the code does | What a run checks instead |
|---|---|---|---|
| `ReturnedStaysRefunded` (`payments.service.ts:247-248`: processed payments "short-circuit before we re-hit the gateway") | `RefundsReverified`, `MCRefunds` | the guards know SUCCESS only: a verify of a REFUNDED payment asks the gateway again and writes FAILED or FLAGGED | `ReturnedIsNotSuccess` |
| `VerifiedCanLogIn` (`auth.service.ts:176`: "Please verify your email before logging in") | `AccountsVerified`, `MCAccounts` | `verifyEmail` writes `emailVerified` only; the account stays PENDING_VERIFICATION and login repeats the message | |
| `CodesAreSingleUse` (`auth.service.ts:222`: "single-use by design") | `AccountsCodes`, `MCAccounts` | two logins that read the backup codes together each write what they read less their own: the later brings back a used code | `CodesMatchShown` |
| `ResetForcesLogin` (`auth.service.ts:373`: "force re-login everywhere") | `AccountsReset`, `MCAccounts` | a refresh that passed its check before a reset creates its session after the sweep | `OldPasswordsEnd` |
| `AlwaysCurrent` (`client.tsx:29`: "always has a current token") | `AccountsLost`, `MCAccounts` | the old session is deleted before the answer is out: if that is lost, or two tabs refresh at once, the cookie keeps a session that is gone | `CookieIsCurrent` |
| `KeyRunsOnce` (`idempotency.ts:6-10`: "instead of re-running the handler") | `StorefrontTwice`, `MCStorefront` | calls of one key that overlap both miss the cache and both run | `ReplaysTheAnswer` |
| `LimitEnds` (`rate-limiter.ts:22`: "Retry in ... seconds") | `StorefrontStranded`, `MCStorefront` | a request that ends between INCR and EXPIRE leaves a counter without end | `LimitIsForgotten` |

What follows was met while modelling and is in the models, or beside them, without a run of its own.

- Payments. A verify that outlived its lock writes FAILED over SUCCESS (`payments.service.ts:276`; 375-378
  say the lock is not solely relied upon); `SuccessIsFinal` is therefore stated for leases that do not lapse. DRAFT is payable
  (74) but DRAFT to PAID is no transition, so a correct payment of a draft is FLAGGED. A payment that a later
  creation detached gives no access though its exact price was paid.
- Outbox. `markProcessed` may fail after the event was emitted, and the event is then emitted again, up to
  four times, though `outbox.repository.ts:16-20` says it can never be processed twice. `emit` swallows what a
  handler throws, so a failed handler is PROCESSED. Rows that a crashed relay had claimed stay PROCESSING. Nothing awaits a
  relay at exit.
- Shutdown. `server.close` waits for streams that clients keep open, so with one viewer the workers are
  never closed and the 15 s timer ends the process (`server.ts:93-95` says in-flight jobs finish). If
  the record of a dead job cannot be written, it is lost.
- Feed. CLOSED may be published before CREATED, since each is published after its own row. The plan is
  checked when a stream is opened and not again.
- Sessions. A change of password beside a refresh of the same browser deletes the session that the refresh just created
  (`auth.service.ts:404-406` says the user is not signed out). `handleUnauthorized`, which would notice that a
  cookie is dead, is never called. The user menu signs out of the site and leaves the session and its
  tokens alive. INACTIVE accounts can
  log in, with tokens that every call refuses. A revocation lasts to the token's expiry, which is accepted
  for 60 s more. A Redis failure in `revokeAccessToken` is swallowed.
- Pages. The next page repeats the last row of the page before, and a page of one row would never move (the
  schema allows it, no page asks for it). A page whose cursor's row left the list may be empty, and an empty
  or failed page has no buttons. Rows with one `createdAt` are not modelled.
- Keys. Errors are kept for 24 h like answers, and the site never sends the header.
- Broadcasts. A job that stalls is run again from its beginning and mails its recipients again; `MailedOncePerRun` counts runs.
- Tickets. `reply` writes the status by a stale read and reopens a ticket that was closed meanwhile.

## Proofs

Checked by TLAPS for every value of the constants, under the named assumptions of the modules, which say
what kind of value a constant is: `None` is none of the values it stands beside, the statuses written by hand
are statuses, a bound is a number, a mix is a set of activities. Five say more, and the code gives them:
`PageLimit` is above 1 (a page of one row never moves), the batches of backup codes are sets apart,
a broadcast has a recipient, a price exceeds the tolerance of the refunds, and the refund rows of all time are
finitely many (their sum would mean nothing otherwise). Beyond that nothing is assumed of sizes: a list, a page, the
sets of rows, sessions, processes and requests may have any.

- `LeaseLockProofs`: `LockTyped`; `LockExcludes`, assuming that leases do not lapse, from
  "whoever works under a key owns it".
- `OrderCheckoutProofs`: `CheckoutTyped`, `OneSuccess`, `MoneyIsHeld`, `FlaggedIsHeld`, `RefinesLedger`, with lapsing
  leases allowed. The properties are not inductive: that a commit is funded depends on what the
  request learnt four awaits ago. `IInv` adds that
  a row belongs to an order and points at a session of that order (`RowsInv`, `SessionsInv`),
  what the local variables of a request hold at each await (`JobInv`: past `VerifyAsk` the session is
  captured, at `verify_commit` it is captured with the right amount), that one request at a time offers
  a session (`OpenersInv`), and that an order has one confirmation exactly if it has an
  invoice, and then it is funded (`BooksInv`). `Kept` gathers what every step leaves alone (a row
  keeps its order, captured money stays captured); each handler step then has a lemma of its own.
  `RefinesLedger` maps `Capture` to `Fund`, `VerifyCommit` to `Settle`, everything else to
  stuttering. `BooksAlwaysAgree` is what it comes to in any one state: invoice, history and money agree.
  `MovesAreLegal` and `CancelledStays` are about the status of an order, whose checks are all made before an await. They
  hold of every behaviour in which no two handlers are between the read and the write of one order's status
  (`NoRaces`; one order can still be served by any number of handlers, one after the other, and different orders
  at once). What is inductive there is `ReadingInv`: what a handler remembers of an order is still true when it
  writes. They are the other half of the run `checkout_cancelled`: the race it shows is the only way to
  the states that the code rules out.
- `OrderCheckoutLeaseProofs`: `SuccessFinal`, `InvoicedExactly`, `VerifiesAlone` assume that leases do not
  lapse, and rest on `LeaseInv`: a request past the lock owns it, and between its re-read and its commit
  the payment is not SUCCESS. `RefinesLock` needs no such assumption: entering the body is `Acquire`, leaving it
  `Release` or `Die`, and every other step leaves the key and those who work under it as they are.
- `EntitlementsProofs`: `EntitlementsTyped`, `AccessIsFunded`, `BoughtOnce`, `PaidIsActivated`, with lapsing
  leases allowed and any statuses written by hand, and whichever payments are detached, from the assumptions of `Entitlements` (the three kinds of
  offers are disjoint, `None` is none of the values). `IInv` is built like that of checkout, and adds that a
  plan about to be renewed is a platform plan, so that the renewal job cannot touch a purchase. What a payment points at may change between the awaits of its verify, so
  `IInv` relates the session a request asked about to the payment it was offered for, and not only to its grant,
  and a payment may lose its grant but never gets another.
  `PaidForGood`, `StartsOnce` and `RefinesAccess` assume that leases do not lapse and rest on `LeaseInv` of that module.
  `RefinesAccess` maps `BuyCreate` of a strategy to `SellForGood`, `Capture` to `Fund`, the commit of a verify to
  `Start`, or to `Settle` if the payment was detached, a cancellation and `RenewWrite` of a plan to `End`, everything else to stuttering. It says more than
  `StartsOnce` and `PaidForGood` together, so it is the one that `entitlements_access` checks. `RefinesLock` says of
  the keys of grants what it says of those of orders, and `VerifiesAlone` follows from `LeaseInv`.
- `StorefrontProofs`: `StorefrontTyped`, `NothingSkipped`, `AnswersReplayed`, `WalksGoDown`. `NothingIsSkipped` speaks of the
  pages a reader went through; what is inductive is `TabInv`: the stack of cursors of a tab goes down, and each page of
  its cache either holds every row that stayed in the list from its cursor down to its next one (`Covers`) or is empty because
  its cursor's row left (`Blank`). A page is the newest
  rows of those found, so the lemmas under it are that a set of numbers has a least and a greatest
  element. `KeyInv` relates what Redis keeps under a key to the calls that run under it. `WalksGoDown` is the safety half
  of `WalkEnds`: its `WalkInv` has every page of the cache lead on from below one of its rows, whatever is
  hidden meanwhile, so that the stack of a tab falls strictly and fits in the list.
- `DeploymentProofs`: `DeploymentTyped`, `ClaimsDisjoint`, `RetriesCounted`, `MailedOnce`, `OneCopy`, `ExitsClean`, `RefinesOutbox`. The
  activities of a process share nothing but its life, so `IInv` is a conjunction of one invariant for each: a
  run of the relay holds rows that are PROCESSING and that no other run holds (`EventInv`, `RunInv`,
  `HeldOnce`); a job has mailed those it has still to mail once for each stall at most (`JobInv`); what waits on a
  subscription is the end of what was published, and what a tab has is all before it (`QueueInv`, `StreamInv`); a
  process past the close of its server runs no request (`LifeInv`). Each activity's steps keep the invariants of the
  others because they leave their variables alone, but for the ends of a process, which every one of them meets.
  `RefinesOutbox` maps `RelayTick` to `Claim`, `RelayEmit` to `Emit`, and to `LetGo` whatever ends a run's hold on
  events: a mark, a failure, or the end of a process, which lets go of all events of all its runs in one step. It
  contains that an event is emitted once per claim, and it rests on `HeldOnce` (the phase of an event would be
  ambiguous without it) and on the count of retries that `RetriesCounted` states.
- `AccountsProofs`: `AccountsTyped`, `CodesMatch`, `OldPasswords`, `FamiliesKept`, `CookiesCurrent`, `DeadStayDead`, with any number of
  sessions, requests and changes of password. All rest on `BaseInv`: a session that exists is in a family
  that was opened, and whoever holds a session holds one that exists or existed, in its family. The steps that change neither rows nor
  passwords nor the cookie are recognised once (`Quiet`) and dismissed together. `OldPasswordsEnd` needs `OldInv`:
  a session, or a request about to open one, that was proved with an older password is covered by a request that wrote
  the present one and has still to delete, by a late opening, or by a change that stopped half way. `FamilyIsKept` needs
  that a family has a live row that no refresh in progress is about to delete (`FamilyInv`): a
  refresh deletes the row it was called with, and only when it has created another. `CookieIsCurrent` needs that, while refreshes
  of a family do not overlap and their answers arrive, one request at a time is on its way to the browser with that family (`CookieInv`), and that
  the session it brings is live and of the family it was asked with (`PairInv`).
  `DeadStayDead` is an action property with `BaseInv` under it: a session is created by a login, in a family of its own, or by a
  refresh that had found a session of its family live. It says what a logout or the sweep after a change of password
  is worth: once the refreshes that had passed their check are over, the family is closed for good.
- `RefundsProofs`: `RefundsTyped`, `RefundedReturned`, `WithinPrice`, `ReturnedNotSuccess`, `ProcessedReturned`,
  `BooksAlwaysBalance`, and what checkout promises beside refunds: `CheckoutBeside`, `RefundsKeepLedger`, `RefundsKeepLock`. The sum of the amounts of some rows is
  shown to be the number of the hundredths in them (`SumIsCents`, by the least set of rows for which it is not), so that facts on
  sums follow from facts on cardinalities. The properties are not inductive, because a refund counts in `returned`
  two awaits before it counts in the rows. `Paid(p)` is the rows recorded and those about to be. `MoneyInv` says that
  they sum to no more than was returned, whatever is cut short; `CleanInv` that, while nothing went wrong, they sum to
  exactly that, one call at most is inside the lock, and what it read as already refunded is still so. `CallInv` is what a
  call's variables hold at each await, and `Moves` all that checkout may do to a payment meanwhile. `BooksAlwaysBalance`
  joins the two: where nothing went wrong and nobody is approving, rows and gateway agree to the hundredth.
  `RefinesRefundLock` maps approvals to `LeaseLock`, and `ApprovesAlone` is `LockExcludes` of `LeaseLockProofs`, carried
  over by it with no invariant of its own.

Model-checked only: liveness (`LocksAreFreed`, `RequestsReturn`, `EndedPlansExpire`, `ShutdownEnds`, `EventsAreClaimed`,
`WalkEnds`, `LimitIsForgotten`), which is beyond the prover. Every other property that a passing run checks is also a theorem.

Some theorems state properties that no run lists: `BooksAgree`, `OnlyLegalMoves`, `BooksBalance`,
`DeadFamiliesStay`, `WalkGoesDown`, `RetriesAreCounted`, the two refinements of the lock in `Refunds` and `Entitlements` and
their `ApprovalsExclude` and `VerifiesExclude`. Each is a definition of its module and can be put into the configuration of
the module's run as an INVARIANT or a PROPERTY (`OnlyLegalMoves` with `CONSTRAINT NoRaces`).

## Not modelled

The implementation is some 20,000 lines, and most of them are not behaviour in the sense of a state machine: pages, forms and
components of the site (half of the files), input schemas, routers that pass a call on, and services that create, read, update
and delete rows of one table (CMS, settings, academic and marketing forms, uploads, analytics). A model of
those would restate them. What carries state from one await, request or process to the next is in the modules above;
a larger share of the lines could be mapped only by widening the ranges past what the definitions say.

Of entitlements, refunds (which leave the access as it is) and taking a strategy off sale are left
out; no property is stated of a signal plan's end, which no job looks at, nor of a plan without
autoRenew, which nothing expires. Of the workers, those that send a notification, an invoice or a report, and the
analytics rollup, are left out: they read and send. Input validation, ownership checks, prices computed from
catalogues, invoice numbers, the content of mails, logging and styling are left out: no
property here depends on them. Ownership, access control and webhook signatures decide *who* may
call; the models let anybody who may. Orders exist from the start in DRAFT, the status every
creation path gives them. Clocks are not modelled: a lease, a token, a session or a Redis entry ends at any time its
assumptions allow.

## Plan

1. `OrderStatus`, `LeaseLock`, `OrderLedger`, `AccessLedger`, `OrderCheckout`, `Refunds`, `Entitlements`, their runs and theorems: done.
2. `Accounts`, `Deployment`, `Storefront` and their runs: done.
3. The proofs of the three and of `Refunds`: done.
4. `AccessLedger` and that `Entitlements` implements it: done.
5. `EventLedger` and that `Deployment` implements it; the locks of `Refunds` and `Entitlements`: done.
6. Left: abstract specifications of a family of sessions and of the live feed, and that `Accounts` and
   `Deployment` implement them; the reply and the closing of support tickets.
