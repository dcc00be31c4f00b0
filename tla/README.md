# A verification project for the 学徒行 backend

The repository is a FastAPI service (`src/app`) over MySQL (SQLAlchemy async,
`REPEATABLE READ`), Redis and an RQ worker. It sells study products and VIP
plans, pays from a wallet or through WeChat Pay, refunds, keeps a point ledger,
and lets points be exchanged for trips that are then signed, scheduled, checked
in and completed. The README of the repository makes promises about money,
stock and idempotency; the modules here say what those promises are, model the
code that should keep them, check them with TLC and prove the ones that hold
for every number of orders and sessions.

## Inventory

| Component | State it keeps | Operations | Works with | Hard behaviours | Correct when |
|---|---|---|---|---|---|
| Orders after creation (`services/order_service.py`, `api/commerce.py`, `api/admin.py`) | `commerce_orders`, items, entitlements, learning profile, VIP columns | pay from wallet, WeChat, mock; sync; notifications; timeout; refund request, refund, refund query | wallet, points, WeChat Pay, RQ, Redis stock | row read before its lock and used after; late and repeated notifications; lost commits; one-shot job | sold once, canceled or refunded once, refund undoes the sale, money returns the way it came |
| Order creation (`OrderService.create_order`) | `idem:order:*` and `stock:*` keys, product row, order row | check, reserve key, lock product, deduct in Redis, insert, commit, roll back | Redis, MySQL, RQ | Redis is outside the transaction; retries race; process death | one order per key, stock never oversold, Redis equals MySQL without faults |
| Wallet (`adjust_user_wallet`, payment, refund) | `user_accounts.balance`, `wallet_transactions` | debit, credit, adjust | orders | balance written from a stale user row | at most one refund per order, none without a charge |
| Timeout job (`tasks/order_tasks.py`) | RQ delayed job, `timeout_job_scheduled` | enqueue, run, sweep | orders, WeChat Pay | queue failure, job not retried | every unpaid study order ends |
| WeChat Pay client (`services/wechat_pay_service.py`) | none locally; trade and refund at WeChat | create, query, close, refund, verify, decrypt | orders | calls fail before or after they take effect | trade closed before the order is canceled |
| Sessions and authentication (`core/database.py`, `core/security.py`) | identity map, snapshot | load user and commit, rollback at the end | everything | loaded objects are not refreshed by `FOR UPDATE` | decisions are made on current rows (they are not: see Findings) |
| Point ledger (`services/point_service.py`) | `point_ledgers`, `point_lots`, `user_accounts.points` | credit, debit, refund, revoke, expire | orders, trips, check-in, invitations | idempotency keys reused, expired lots refunded, stale balance | balance is the sum of active lots and of the ledger |
| Travel orders (`api/travel_orders.py`, `api/admin.py`, `services/travel_order_service.py`) | `travel_orders`: status, contract, fulfilment, QR token | exchange, sign, review, schedule, QR, check-in, start, complete, exception, cancel, review of the trip | points, route stock | unlocked read-modify-write against cancellation; cancelled orders brought back | points and place returned exactly once, contract before the trip, a token verified once |
| Reviewed rows: products, routes, certifications, custom requests (`api/commerce.py`, `api/admin.py`, `api/verification.py`, `api/custom_travel.py`) | content, review and shelf status, product stock, its Redis counter | create, edit, submit, review, toggle, `sync_stock` | order creation, public pages | edit against review; absolute stock against concurrent deductions; failures between Redis and MySQL | what takes effect was vetted; the counter leaves the stock only for a known reason |
| Accounts and sessions (`api/auth.py`, `api/merchant.py`, `api/admin.py`, `core/auth.py`) | accounts, schools, sessions, password hashes | register, apply, review, log in and out, disable, reset | login gate | a login that loaded the account before the change commits after it; an outdated hash is written again | a revocation misses at most the logins under way, the password is never one in between |
| Invitations (`api/auth.py`, `api/admin.py`) | `invite_relations`, reward rows | bind, reward, review, backfill, freeze | points | relation looked for in an old snapshot; freeze against payment | one reward per relation, marks tell the truth |
| Login guard, slider captcha (`core/`) | Redis counters, challenges, tickets | fail, lock, expire; issue, verify, consume | login | read and write are two commands; cache errors are swallowed | a ticket admits nobody who comes after its first use, a challenge is solved once, a lock ends |
| Learning (`api/commerce.py`) | profile, check-in records, legacy `study_orders`, entitlements | centre, profile, onboarding, check-in, mock payment | points, standard orders | snapshot against concurrent requests; entitlements of two order tables | days counted once, a paid order has its entitlement |
| Published configuration (`api/admin.py`, `api/public.py`) | draft, publications, copy in Redis | save, publish, read, cache | mini program | delete of the copy races its storing; Redis refuses | the public comes to see the last publication |
| Snowflake ids (`core/snowflake.py`) | sequence, last timestamp | `next_id` | all numbers | overflow in a millisecond, clock going back, restart | ids are unique |
| Support (`api/support.py`) | connections, presence, unread counters | connect, send, type, read, close | websockets | handlers of several sockets commit one row; dead sockets | presence and counters match reality |
| Content, settings, assets, statistics, migration | rows and files | single-row editing, reading, start-up scripts | – | – | listed in `PROJECT.json` with the reason they are left out |

`PROJECT.json` lists every hazard with its line and the properties aimed at it.

## Modules

| Module | What it is |
|---|---|
| `PurchaseContract` | What the order system promises: place, settle, withdraw, refund, adjust. |
| `CommerceOrders` | The order after its creation, with wallet, WeChat Pay, timeout job and stale sessions. |
| `MCCommerceOrders` | Model values and the symmetry of sessions for its runs. |
| `CommerceOrdersProofs` | Its inductive invariant and the theorems. |
| `OrderCreation` | `create_order` and the cancellation step by step over MySQL and Redis, with faults. |
| `MCOrderCreation` | Model values for its run. |
| `OrderCreationProofs` | Its inductive invariant, the theorems, and the refinement of `PurchaseContract`. |
| `TravelOrders`, `MCTravelOrders` | The life of a travel order, with handlers that load and commit without a lock. |
| `TravelOrdersProofs` | Its theorems, from what each handler's write has in common. |
| `PointLedger`, `MCPointLedger` | Balance, ledger rows, lots and allocations of one account. |
| `PointLedgerProofs` | Sums over finite sets, the greedy draw, and the theorems about the account: types, lots, ledger, balance, blocked expiry. |
| `LoginGate` | Failure counter and slider captcha, Redis command by Redis command. |
| `Accounts` | An account of any kind, its session, and the logins under way. |
| `Invitations` | The relations of one invitee and their rewards. |
| `Decoration` | Publications and their copy in Redis. |
| `Learning` | Profile, check-ins, onboarding, entitlements of both order tables. |
| `Snowflake` | The id generator under a clock that moves at will. |
| `MCServices` | One of the six modules above per behaviour: they share no state. |
| `ServicesProofs`, `LoginGateProofs` | Theorems about `Accounts`, `Learning`, `Snowflake`, `Invitations` and `Decoration`; about `LoginGate`. |
| `Support`, `MCSupport` | A conversation with its sockets, presence and counters. |
| `SupportProofs` | Theorems about presence and unread counters. |
| `Listings`, `MCCatalog` | A row under review, and a product's stock and counter. |
| `ListingsProofs` | Theorems about vetting and about the counter. |

### CommerceOrders and the code

`order[o]` is the `commerce_orders` row with the columns the code decides on
(`status`, `payment_status`, `payment_method`, `transaction_id`,
`refund_status`, `refund_no`, the item's `stock_deducted`,
`timeout_job_scheduled`). `balance`, `ledger`, `purchases` and `refundTx` are
the wallet and its transaction rows, `ents` the active entitlements, `vip` the
VIP periods granted, `rewards` the purchase reward's row in `point_ledgers`,
whose idempotency key is unique. `wx`, `wxr` and `notes` are WeChat's side and
external: they are modelled from the trade and refund states the code tells
apart.

The heart of the model is `req[s]`, the SQLAlchemy session of a request.
`get_current_user` loads the user and commits (`Authenticate`); the endpoint
loads the order without a lock (`Load`); then it locks the row. With
`expire_on_commit=False`, and without `populate_existing`, the locking select
returns the object of the identity map unchanged. So the tests and the new
values come from what was loaded, and the flush writes the columns that differ
from the loaded value (`Flush`, `Column`) over whatever is in the row by then.
Handlers whose first access to the row is the locking read (notifications,
timeout job, refund) are one step, since the lock is held until their commit.
`Abort` is a request that ends with a rollback at any point: a deadlock victim,
a timeout, an unanswered call.

`Overlap` decides whether other work may happen while a session is open. The
runs about stale sessions set it, the runs about the serial system clear it.

Abstractions. All orders belong to one user and have one item. Time is left
out: a queued job may run at any moment, which includes the moment after the
payment window. A trade whose JSAPI parameters never reached the user (the
request died before its answer) cannot be paid, and is not modelled. `CLOSED`
stands for the trade states closed, revoked and failed. Signatures, amounts
in messages and their validation are taken as passed: a message that fails
them has no effect.

### OrderCreation and the code

Every step between two awaits that matter is an action: the look-up by
idempotency key, `SET NX` of the Redis key, the locking read of the product,
`SET NX` and `DECRBY` of the counter, the insert and commit, and the exception
handlers. `lock` is the product's row lock. `Crash`, `DatabaseFails`,
`RedisFails`, `CancelFails` and `RedisRestarts` are the faults; `faulty`
records that one happened, so that the two properties which can only hold
without faults say so. Two details of the code that the model keeps: the
handler of the `IntegrityError` reads `user.id` after the rollback expired it,
raises, and the outer handler cleans up a second time; and a raw redis-py error
of `decrby` is not a `RedisUnavailableError`, so it reaches the outermost
handler with the deduction list as it was.

### The other modules and the code

One idea of the code recurs and decides the shape of the modules: a handler
loads rows without a lock, computes, and at commit the session writes the
columns it gave another value. Where that is so, the handler is two steps, one
that loads (`Open`, `Load`, `Look`, `Enter`, `Begin`, `verify_password`) and the
handler's own action; a handler whose first access locks the row is one step. A
locking read is current, but does not refresh an object the session holds
already; a plain read shows the snapshot of the transaction's first plain read;
a unique key is checked against what is committed. History variables (`clean`,
`stale`, `raced`, `crossed`, `slipped`, `muddled`) record that a commit really
went over something that had changed, so that a property can say exactly which
overlap it needs excluded, and no more. Others count what a race does, so that
the property can bound it instead: `spent` (requests that held a ticket when it
was deleted first), `inflight` and `late` (logins a revocation found under way,
sessions they opened after it), `returned` (orders ever refunded), and `drift`
in `Listings` (in which direction the counter may be off, and since when).

- `TravelOrders`. `row[o]` has the columns the handlers test; `debits` and
  `refunds` count the point ledger's rows, `verified` the successful
  verification records per token. The two lists normalise what they load
  (`Normalised`), so reading orders is a write. Exchange and cancellation lock.
- `PointLedger`. A ledger row is named by its idempotency key. The greedy loop
  of a debit is `Draw`, in closed form: a lot gives what is still missing after
  the lots before it. `Lapse` is the expiry, capped by the balance; the key of
  its row is the largest lot id, which a refund can make fall due again. `Total`
  is a sum over a finite set; `EventsAssumption` says that the trips, purchases,
  invitations and adjustments of an account are finitely many.
- `LoginGate`. Every Redis command is a step. The captcha's commands go through
  helpers that swallow errors (`Cache`): up to `MaxLost` have no effect. Reading a
  ticket (`consume_read`) and deleting it (`consume_delete`) are two commands, so
  requests that read it together are all admitted; what holds is that nobody
  else is.
- `Accounts`. `kind` makes it a user's, an administrator's or a merchant's
  account; passwords are numbers, `outdated` a hash that is not argon2 or that
  `check_needs_rehash` calls outdated. A login that loaded such a hash writes its
  password back over a reset, and a login that loaded the account before a
  revocation opens its session after it: both are in the model.
- `Invitations`. Review, backfill and binding act on the snapshot `Look` took.
- `Decoration`. Two publications that read the same highest version get equal
  versions (`tied`), and the newest is then either.
- `Learning`. `rights[t][i]` is the entitlement granted by order `i` of table
  `t`; the code finds it by `i` alone. `mark_order_paid` decides on the order as
  its session loaded it (`unpaid`), so an order paid or refunded since is paid
  again.
- `Snowflake`. `Tick` sets the clock to any value; `Restart` forgets the
  generators. 4096 sequence numbers are `SeqSize`.
- `Support`. The connection manager is `connections`, a socket's handler
  `sock[s]`. A handler whose first sync fails leaves its socket with the manager
  (`sync_fails`): it is not in its `try` block yet.
- `Listings`. `listing` is the kind of row, `work[r]` a request with the row it
  loaded and the row it wants. An administrator may approve content seen in an
  earlier state (`"blind review"`). `order[o]` is a unit of stock on its way
  between the counter and the row. A standard order takes it from the counter
  under the product's lock, then from the row; a cancellation or refund gives it
  back to the counter, then, with its commit, to the row. In between, the commit
  may fail, the server may die, and a raw error of the Redis client, which is not
  a `RedisUnavailableError`, ends the request with its command applied or not
  (`pre_deduct_breaks`, `rollback_fails`, `UnitLost`, `persist_fails`,
  `refresh_fails`, `restore_aborts`, `restore_fails`). A study order's mock payment
  takes a unit from the row alone (`mock_pay`).

## Runs

| Run | Instance | Shows |
|---|---|---|
| `commerce_overlap` | 1 study order, 2 sessions, all four pay endpoints, all failures | Whatever stale sessions do: legal status pairs, wallet refunds backed by a charge and made once, a refund revokes all access, a WeChat order is refunded locally only after WeChat's success. |
| `commerce_serial` | a study and a VIP order, 1 session, no overlap, all failures | The system implements `PurchaseContract`; a canceled order's trade is dead; money returns through its channel; stock is conserved. |
| `commerce_rewarded` | a study and a VIP order, 2 overlapping sessions, rewards on, reliable queue, wallet and mock payment | The reward's unique key stops a second sale; every unpaid study order ends. |
| `order_creation` | 3 requests, 2 keys, stock 3 and quantity 2, all faults | One order per key, Redis aligned and keys released without faults, contract kept in MySQL, every request ends. |
| `travel_orders` | 1 order, 2 sessions, 2 tokens, 1 place | Points and place are returned once even when a cancelled order is revived and cancelled again. Until a stale commit: no pickup or trip without an approved contract, a token is verified once, and a cancelled order is left only through an exception or a rejected contract. |
| `point_ledger` | 1 early session against locked work; 1 trip, purchase, invitation and adjustment; 3 days, 4 lots | A lot is never overspent, the lots never hold more than the ledger books, whatever stale balances were written; without one, balance, lots and ledger agree. Expiry is blocked only after a refund into an expired lot. |
| `services` | 2 requests or logins per component, 3 relations, 3 publications, 3 days, 2 ids per millisecond | The twelve properties of the six small components. |
| `support` | 2 sockets of different roles, 1 reader, 2 messages | Presence and unread counters are right at rest unless the last change overlapped, and are put right by the next undisturbed one. |
| `catalog` | 2 requests on a row of any kind, or 2 requests and 2 orders of an administrator's product; 3 contents, stock 1 or unlimited, counter within 2 | Nothing takes effect unvetted unless two writers overlapped. The counter is the stock corrected by the orders under way, and is lower or higher only after one of the events that `CounterStraysForAReason` names. |
| `double_charge` | violation of `ChargedOnce` | Finding 1 |
| `pay_after_cancel` | violation of `CanceledIsFinal` | Finding 2 |
| `lost_timeout_job` | violation of `UnpaidOrdersEnd` | Finding 3 |

Bounds. Two sessions suffice for one to act on what the other has changed; a
third request of the same order appears when a session is closed and opened
again, which is not bounded. Two orders of different kinds share the wallet and
the user row. `Quantity = 2` tells one sale's entitlements from one item;
`Stock0 = 2` makes the last items interesting; `Balance0 = 1` allows one
payment, and one adjustment a second. In `order_creation`, three requests over
two keys give every pairing of retry and competitor, and with a stock of 3 and
a quantity of 2 only one order fits at a time, so that the second request meets
an insufficient stock, and a cancellation lets it succeed. In the newer runs two
requests make every pair of handlers overlap, and each is reopened without
bound; `point_ledger` has a single early session because the work it races (the
notification, the administrator) locks first and needs none. A trip of 2 points
against credits of 1 draws on several lots; three days let a lot expire, be
refunded into and expire again. `MaxTokens`, `MaxLots`, `MaxContent`,
`MaxMessages`, `MaxPublications`, `MaxResets`, `MaxEpoch`, `MaxTickets` and
`MaxLost` cap counters that only grow; each is large enough for the second
event that matters (a reissued token, an opening lot besides the credits, an
edit after an approval, a publication across another, a reset after a reset).
`MaxTickets = 2` allows a second ticket for one challenge; `MaxAttempts = 1`
makes the second of two requests past the check the one too many (the theorem
is about any `MaxAttempts`); `MaxClock = 2` with two ids per millisecond allows an
overflow and a clock that goes back.
In `catalog` a behaviour is about the review or about the stock (`focus`):
orders do not touch what a review decides, and the counter does not depend on
who decided. Two orders, of one unit each, let one take or return a unit while
the other is between its two stores; `MaxCounter = 2` lets the counter be off by
more than the whole stock in both directions. Deadlock checking is
off in the runs of `CommerceOrders` and `OrderCreation`, where the system may
really be finished (every order ended, every request answered), and on in the
others.

Fairness. `WF(Timeout(o))`: the RQ worker runs a job that is due.
`WF(SessionStep(s))`: a request with an open session takes its next step or is
rolled back; the server does not keep it open. In `OrderCreation`, weak fairness
of the request's steps and of `CancelCommit`: the event loop and the worker go
on with what they started. In `MCServices`, weak fairness of `WindowPasses` and
of `expire`: a Redis key with a time to live is dropped when it is over. No
fairness is assumed of users, WeChat,
administrators or faults. The order timeout of `commerce_rewarded` is checked
without the WeChat endpoints: there the one-shot job may find the user paying or
the query failing and is not retried, and the code does not claim otherwise.

Each property of a passing run has a mutant in `PROJECT.json`: a definition of
the model changed the way a mistake in the code would change it, for which TLC
finds the property violated. The mutated forms stand before the definitions
they alter.

## Findings

1. `double_charge`. Two overlapping balance payments of one order both pass the
   test on the row they loaded and both charge it (`order_service.py`, lines
   249–256), while README.md:325 says a repeated request never charges twice.
   With purchase rewards on, the unique key of `point_ledgers` rolls the second
   back, which is what `RewardKeyStopsDoubleSale` shows and proves.
2. `pay_after_cancel`. A payment that loaded the order before the timeout job
   canceled it makes the canceled order paid after its stock went back on sale;
   README.md:326 says locking the row prevents it.
3. `lost_timeout_job`. When the queue refuses the job, the fallback calls
   `asyncio.run` inside the running event loop, which raises; the row is never
   marked and the sweep never finds it, against its own docstring.

## Proofs

`CommerceOrdersProofs` proves, for every finite set of orders, every set of
sessions, and every price, quantity, stock, balance and score allowed by the
three assumptions of `CommerceOrders`:

- `TypeCorrect`, `StatusPairsHold`, `WalletRefundsAreBacked`,
  `RefundsRevokeAccess`, `RewardKeyIsEnough`: the invariants of the runs;
- `RefundsWaitForWechat`: the action property.

None of the invariants is inductive by itself: what a session will flush depends
on what it loaded. `IInv` adds:

- about rows and sessions (`RowInv`): a session holds an order that exists, saw
  it pending and unpaid, and never saw the method of the mock endpoint, which no
  pending order has. A flush therefore leads from any legal pair to a legal one,
  and a payment by the mock endpoint always writes its method;
- about money (`MoneyInv`): a paid order whose method is `balance` has a
  `purchase` row, and so has an order that turned from WeChat to the wallet
  while a session that loaded it as WeChat's was open. That session would leave
  the method unwritten, and the refund would go to the wallet; the invariant
  says that the wallet has been charged by then;
- about the sale (`SaleInv`): a rewarded order without its reward row has no
  charge and no entitlement, so a payment that meets no conflict is the first;
- about WeChat (`NotesTrue`): a notified success is the refund's state, so a
  repeated notification tells the truth.

What `MarkOrderPaid`, `Flush`, `CancelUnpaidOrder` and `FinalizeRefund` do to a
row is stated once, in lemmas; each part of the invariant then has one step per
action. `IInv` was checked with TLC before it was proved.

`OrderCreationProofs` proves, for all finite sets of requests and keys, every
quantity and every initial stock (`CreationAssumption`):

- with faults: `TypeCorrect` (the stock is a natural number, so nothing is
  oversold), `RetriesCreateOneOrder`, `WorkIsLocked`, and
  `CreationKeepsContract`, the refinement of `PurchaseContract`;
- without faults so far: `RedisStaysAligned`, `FailedRequestsUnblock`.

Its invariant has two parts. `Core` holds whatever fails: the lock belongs to
the one who works, the stock a request checked is still there when it deducts
it, one order is counted per row, a request past its commit is alone with its
key and its timeout job is not enqueued yet, a cancellation in progress holds a
pending order, and the list of deductions says whether `DECRBY` was answered.
`FaultFree` holds until the first fault: the stock key exists from the first
deduction on (otherwise `INCRBY` would start from zero), the counter is aligned,
and a blocking key has an order or a request past its reservation behind it (the
property alone is not inductive: the last request that keeps it true may be the
one that is refused). The counting argument adds and removes one request or one
cancellation at a time with the library's facts on cardinality. The commit of
an order maps to `Place`, that of a cancellation to `Withdraw`, every other step
to stuttering.

The second half of `CommerceOrdersProofs` is about the serial system: under
`~Overlap`, with any number of orders, every failure and both payment channels,
`CanceledTradesAreDead`, `RefundsUseTheirChannel`, `StockIsConserved` and
`OrdersKeepContract`, the refinement of `PurchaseContract`. It also proves there
the two properties Findings 1 and 2 refute, `OrdersAreChargedOnce` and
`CancellationIsFinal`: overlapping sessions are the only cause of both. The
invariant `SerialInv` has two parts. `SessionInv`: at most one session is open,
what it loaded is what the rows hold, and what it was told by WeChat is still
true; a flush then writes exactly the new row (`FreshFlush`). `OrderInv`: in each
state of an order, `Tidy` says what was charged, refunded and taken from stock,
through which channel, and what WeChat's trade may be; no property is inductive
without it, since a refund is decided on columns written at the payment.
`StepKinds` sorts every step into a placement, a sale, a move, a withdrawal, a
return or something aside, and each result is then proved per kind.

The other proof modules treat the other components; none bounds the number of
requests.

- `TravelOrdersProofs` (finite orders, any stock, `MaxTokens > 0`). The handlers
  differ in what they test and write; `Lawful` and `TokenStep` collect what the
  theorems need of the row a handler makes of the row it loaded, and
  `HandlerWrites` proves it once, one step per handler. `PointsAreReturnedOnce`
  and `SeatsAreConserved` hold whatever stale rows are written, because only
  exchange and cancellation, which lock, touch those columns; the counting of
  places needs that an order with its place given back exists (`SeatInv`).
  `ContractComesFirst` needs that a completed order is completed in both its
  columns, `TokensAreVerifiedOnce` that a token not yet issued is on no row and
  in no session (`TokensFresh`). These, with `CancelledIsLeftTwoWays` and
  `CompletionIsFinal`, hold until a stale commit.
- `ServicesProofs`. `RevocationsMissOnlyLogins` (finitely many logins) counts
  the logins that loaded the account before the last revocation: each either
  leaves or opens one session, and no login under way is newer than the last
  revocation (`RevocationInv`); `PasswordsNewestOrFirst`, where `PasswordInv` says
  that an outdated hash, stored or loaded by a login however stale, is of the
  very first password, since every later one is hashed anew;
  `PaidOrdersHaveRights`, where `RightsInv` ties the entitlements a snapshot
  shows to orders that exist; `DaysAreCountedOnce`, where `HistoryInv` says that
  the profile's date is the last day with a record, except for the date 0 of a
  profile from before the records, which is therefore the only record a request
  may add from its snapshot; `IdsAreDistinct`, where
  `SnowInv` says that every id given out is at or before the generator's last
  timestamp and sequence, or the generator waits for the next millisecond. For
  finitely many transactions, `RewardsMatchMarks`, which needs that only
  existing relations are paid and that a snapshot shows no more than there was
  (`RewardInv`), and `BindingsAreBounded`, which counts the transactions that
  had not seen a relation: each makes one at most. For the publications,
  `PublicationsAreOrdered`: the n-th commit has number n, its version is bounded
  by the commits and saves so far, which gives the types, and versions increase
  with the commits until two publications overlap (`ConfigInv`). Hence
  `VisitorsReadTheLast`, and `StaleCopiesOnlyDrain`: between two commits no step
  adds a stale publication to those that Redis or a visitor holds. That is the
  safety half of `CopyCatchesUp`; the other half is the fairness of the copy's
  expiry: a visitor stores what it holds at most once, and that copy expires. `ConfigInv` and both
  properties were checked with TLC (two publishers, two visitors, three
  publications) before they were proved.
- `LoginGateProofs` (finitely many requests). `FailuresAreBounded` counts the
  requests past the check; `TicketsAdmitReaders` needs that a ticket not issued
  is held by nobody and that one which was used is deleted, so that the requests
  holding it only become fewer (`TicketInv`); `ChallengesAreUsedOnce` follows a challenge whose
  verifications do not overlap (`Untouched`).
- `PointLedgerProofs` (finitely many trips, purchases, invitations and
  adjustments, any sessions, amounts, lots and days). `ExpiryIsBlockedByRefundsOnly`:
  as long as no refund has put points back, an expiry row names a lot that was
  opened and is not active (`ExpiryInv`), so the largest due lot has none.
  `PointsTyped`, `LotsAreNeverOverspent`, `LotsAreBacked` and `BooksBalance` are
  about sums, in four layers:
  - *Induction.* The library's induction rules take an operator, which the
    provers cannot instantiate; from the well-founded order of the naturals
    follows a form that speaks of a set instead (`CountingUp` for numbers,
    `AddingElements` for finite sets).
  - *Sums.* `Total` unfolds to a recursive function that takes the elements in
    an order nobody chose. It exists (`AddsExists`) and does not depend on the
    order (`SumRemoves`); hence what one changed summand, a part, or two sums
    added up do to it (`SumChanges`, `SumOfPart`, `SumAdds`).
  - *The draw.* `DrawnFromPrefix`: after the usable lots up to some expiry the
    loop of `debit_locked` has taken the amount or all they hold, whichever is
    less. So the draws add up to the amount once the shortage check has passed
    (`DrawsAddUp`), and none exceeds its lot.
  - *The invariant* `PointsInv`. No property is inductive by itself. `Allocated`
    adds that the allocations of a booked and unrefunded trip make up its price,
    without which a refund would put back another amount than it books, and
    that an expense not booked has none; `Unused` that the id the next lot gets
    holds nothing. `Books` adds to the balance that only active lots hold points:
    otherwise the historical points computed by `_ensure_lot_coverage` would be
    wrong. Each operation has one lemma (`CreditBooks`, `DebitBooks`,
    `RefundBooks`, `RevocationBooks`, `DashboardBooks`): the account's part holds
    for any balance the caller brings, `Books` when that balance, and for an
    exchange the sum over its snapshot, was current. `PointsInv` was checked
    with TLC before it was proved.
- `SupportProofs`. `UnreadCountsAreFresh`, and `PresenceIsRight`, which needs
  `PresenceInv`: a wrong flag has a handler on its way to put it right
  (`Pending`, `Departing`), or the last synchronisation was disturbed.
- `ListingsProofs`. `EffectiveRowsAreVetted` needs what each kind of open request
  has set (`WorkOK`). `CounterStraysOnlyForAReason` (finitely many orders): each
  order has a weight, what it adds to what the counter should show
  (`ExpectedMoves`), and every step either sets the counter, and records how it is
  off (`Settles`), or moves it by as much as the expected value, or records the
  difference (`Carries`); `OrderAccounted` has one step per action. `CounterInv`
  adds that one order at a time holds the product's lock, with finite stock, and
  that only a product that exists has a counter and orders.

Every invariant and action property of the passing runs is stated by a theorem.
Only model-checked: the liveness properties (`UnpaidOrdersEnd`, `RequestsEnd`,
`LockoutEnds`, `CopyCatchesUp`), since liveness under fairness is outside the
prover's reach.

## Plan

Done: the orders, their creation, the trips, the point ledger, accounts, login,
invitations, learning, publication, ids, support and the reviewed rows, each
with its runs and theorems. What would come next:

1. `CommerceOrders` composed with `PointLedger`, so that a refund that takes
   back a reward meets the expiry of its lot; each side of this is checked
   alone today.
2. A bound in seconds on how long `Decoration` serves a stale copy: the copy's
   time to live would have to be counted, where `expire` is a step today.

## Not modelled

- Cryptography: password hashing (a number and a flag here), tokens, WeChat's
  signatures and encryption. Drawing the captcha, image and file handling,
  object storage: input and output without protocol state.
- Schema migration, seeding and the command line: scripts run before the
  service starts.
- Announcements, articles, asset lists, settings documents (contract template,
  travel matching, uploads, VIP plans), deletion of a school, the manual VIP
  date: single-row writes of one administrator on which no other handler bases
  a decision; the normalisation of the settings is data validation.
- Statistics, dashboards, lists and details: they only read. The lists of
  travel orders, which also write, are modelled.
- The refund number is made by a generator created per request: two refunds in
  one millisecond get the same number and WeChat refuses the second. There is
  nothing to explore beyond that sentence.
- Several server processes: the service runs as one, and the connection
  manager and the id generators are its memory.
- Field validation and the layout of requests and responses.
