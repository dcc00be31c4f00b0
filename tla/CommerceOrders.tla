--------------------------- MODULE CommerceOrders ---------------------------
(***************************************************************************)
(* The life of a `commerce_orders` row after its creation: payment from    *)
(* the wallet, through WeChat Pay or (in development) through the mock     *)
(* endpoint, the one-shot timeout job that cancels an unpaid order, and    *)
(* the refund, local or through WeChat.  All orders belong to one user,    *)
(* and every order has one item: a study product (all of one product with  *)
(* finite stock) or, for VipOrders, a VIP plan.                            *)
(*                                                                         *)
(* A request owns one SQLAlchemy session.  `expire_on_commit=False` and a  *)
(* `select ... with_for_update()` without `populate_existing` leave an     *)
(* object that is already in the session's identity map as it was first    *)
(* loaded.  An endpoint that loads the order (or, through authentication,  *)
(* the user) before it locks the row therefore decides on what it loaded,  *)
(* and its flush writes only the columns that differ from the loaded       *)
(* values.  Such endpoints are modelled step by step with the loaded       *)
(* values in req[s]; handlers whose first access is the locking read are   *)
(* one step, because the row lock is held until their commit.              *)
(***************************************************************************)
EXTENDS Integers, FiniteSets

CONSTANTS
  Orders,          \* the order rows that may be created
  VipOrders,       \* the ones create_vip_order creates
  Sessions,        \* concurrently open database sessions of the user's requests
  Endpoints,       \* pay endpoints in use: "balance", "mock", "wechat", "sync"
  Price,           \* payable_amount of an order
  Quantity,        \* quantity of a study item
  Stock0,          \* initial stock of the study product
  Balance0,        \* initial wallet balance
  PurchaseScore,   \* points the PointRule awards for a study order, 0 when disabled
  VipPurchaseScore,\* points it awards for a VIP order, 0 when disabled
  MaxAdjustments,  \* bound: wallet adjustments an administrator makes
  EnqueueMayFail,  \* whether queue.enqueue_in may raise
  ProviderMayFail, \* whether a call to WeChat Pay may fail
  Overlap          \* whether requests of the user may overlap with other work

ASSUME OrdersAssumption ==
  /\ IsFiniteSet(Orders)
  /\ VipOrders \subseteq Orders
  /\ Endpoints \subseteq {"balance", "mock", "wechat", "sync"}

ASSUME NumbersAssumption ==
  /\ Price \in Nat \ {0}
  /\ Quantity \in Nat \ {0}
  /\ Stock0 \in Nat
  /\ Balance0 \in Nat
  /\ PurchaseScore \in Nat
  /\ VipPurchaseScore \in Nat
  /\ MaxAdjustments \in Nat

ASSUME SwitchesAssumption ==
  /\ EnqueueMayFail \in BOOLEAN
  /\ ProviderMayFail \in BOOLEAN
  /\ Overlap \in BOOLEAN

VARIABLES
  order,      \* commerce_orders row, with its item's stock_deducted
  stock,      \* study_products.stock in MySQL
  balance,    \* user_accounts.balance
  ledger,     \* sum of the wallet_transactions rows, income minus expense
  purchases,  \* number of `purchase` rows in wallet_transactions, per order
  refundTx,   \* number of `refund` rows in wallet_transactions, per order
  ents,       \* active user_entitlements rows, per order
  vip,        \* VIP periods the user's vip_expires_at accounts for
  profile,    \* whether the user's learning_profiles row exists (user_id is unique)
  rewards,    \* purchase reward of the order in the point ledger
  job,        \* the delayed RQ job: "none", "queued" or "ran"
  adjusted,   \* wallet adjustments made so far
  wx,         \* WeChat Pay: state of the order's trade (external)
  wxr,        \* WeChat Pay: state of the order's refund (external)
  notes,      \* WeChat Pay: refund results it has notified and may repeat
  req         \* the open sessions

db == <<order, stock, balance, ledger, purchases, refundTx, ents, vip,
        profile, rewards>>
vars == <<db, job, adjusted, wx, wxr, notes, req>>

Study == Orders \ VipOrders

Rewarded(o) == IF o \in VipOrders THEN VipPurchaseScore > 0 ELSE PurchaseScore > 0

Row == [status    : {"absent", "pending", "paid", "canceled"},
        pay       : {"absent", "pending", "paid", "canceled", "refunded"},
        method    : {"balance", "wechat", "mock"},
        txn       : {"none", "wallet", "wechat", "mock"},
        refund    : {"none", "requested", "processing", "success",
                     "abnormal", "closed"},
        refundNo  : BOOLEAN,
        deducted  : BOOLEAN,
        scheduled : BOOLEAN]

Absent == [status |-> "absent", pay |-> "absent", method |-> "balance",
           txn |-> "none", refund |-> "none", refundNo |-> FALSE,
           deducted |-> FALSE, scheduled |-> TRUE]

TradeStates == {"NONE", "NOTPAY", "USERPAYING", "SUCCESS", "CLOSED", "REFUND"}
RefundStates == {"NONE", "PROCESSING", "SUCCESS", "ABNORMAL", "CLOSED"}

\* A session that has authenticated the user holds the user row; one that has
\* loaded the order also holds the order row and the snapshot's other answers.
User == [pc : {"user"}, balance : Int, vip : Nat]
Request == [pc      : {"loaded", "queried"},
            op      : {"balance", "mock", "wechat", "sync"},
            order   : Orders,
            seen    : Row,
            balance : Int,
            vip     : Nat,
            profile : BOOLEAN,
            trade   : TradeStates]
Closed == [pc |-> "closed"]

TypeOK ==
  /\ order \in [Orders -> Row]
  /\ stock \in Int
  /\ balance \in Int
  /\ ledger \in Int
  /\ purchases \in [Orders -> Nat]
  /\ refundTx \in [Orders -> Nat]
  /\ ents \in [Orders -> Nat]
  /\ vip \in Nat
  /\ profile \in BOOLEAN
  /\ rewards \in [Orders -> {"none", "granted", "revoked"}]
  /\ job \in [Orders -> {"none", "queued", "ran"}]
  /\ adjusted \in 0..MaxAdjustments
  /\ wx \in [Orders -> TradeStates]
  /\ wxr \in [Orders -> RefundStates]
  /\ notes \in [Orders -> SUBSET {"SUCCESS", "ABNORMAL", "CLOSED"}]
  /\ req \in [Sessions -> Request \cup User \cup {Closed}]

Init ==
  /\ order = [o \in Orders |-> Absent]
  /\ stock = Stock0
  /\ balance = Balance0
  /\ ledger = 0
  /\ purchases = [o \in Orders |-> 0]
  /\ refundTx = [o \in Orders |-> 0]
  /\ ents = [o \in Orders |-> 0]
  /\ vip = 0
  /\ profile \in BOOLEAN
  /\ rewards = [o \in Orders |-> "none"]
  /\ job = [o \in Orders |-> "none"]
  /\ adjusted = 0
  /\ wx = [o \in Orders |-> "NONE"]
  /\ wxr = [o \in Orders |-> "NONE"]
  /\ notes = [o \in Orders |-> {}]
  /\ req = [s \in Sessions |-> Closed]

-----------------------------------------------------------------------------
(* Sessions *)

\* Work outside session s may start: always, unless requests do not overlap.
Quiet == Overlap \/ \A s \in Sessions : req[s] = Closed

Close(s) == req' = [req EXCEPT ![s] = Closed]

\* A flushed column takes the new value only if that differs from the loaded one.
Column(current, loaded, new) == IF new = loaded THEN current ELSE new

\* UPDATE commerce_orders with the columns the session changed.
Flush(current, loaded, new) ==
  [status    |-> Column(current.status, loaded.status, new.status),
   pay       |-> Column(current.pay, loaded.pay, new.pay),
   method    |-> Column(current.method, loaded.method, new.method),
   txn       |-> Column(current.txn, loaded.txn, new.txn),
   refund    |-> Column(current.refund, loaded.refund, new.refund),
   refundNo  |-> Column(current.refundNo, loaded.refundNo, new.refundNo),
   deducted  |-> Column(current.deducted, loaded.deducted, new.deducted),
   scheduled |-> Column(current.scheduled, loaded.scheduled, new.scheduled)]

-----------------------------------------------------------------------------
(* Creation *)

\* _mark_timeout_job_unscheduled: asyncio.run raises inside the running event
\* loop of the request, the exception is logged, and the row stays as it is.
MarkUnscheduled(row) == row

Pending(method, deducted) ==
  [Absent EXCEPT !.status = "pending", !.pay = "pending",
                 !.method = method, !.deducted = deducted]

\* create_order, with its Redis side left to the OrderCreation module: the
\* stock is checked and deducted under the product's row lock, then the
\* timeout job is enqueued.
CreateOrder(o, method) ==
  /\ Quiet
  /\ o \in Study
  /\ order[o].status = "absent"
  /\ stock >= Quantity
  /\ stock' = stock - Quantity
  /\ \/ /\ order' = [order EXCEPT ![o] = Pending(method, TRUE)]
        /\ job' = [job EXCEPT ![o] = "queued"]
     \/ /\ EnqueueMayFail
        /\ order' = [order EXCEPT ![o] = MarkUnscheduled(Pending(method, TRUE))]
        /\ job' = job
  /\ UNCHANGED <<balance, ledger, purchases, refundTx, ents, vip, profile,
                 rewards, adjusted, wx, wxr, notes, req>>

\* create_vip_order: no stock, and no timeout job.
CreateVipOrder(o, method) ==
  /\ Quiet
  /\ o \in VipOrders
  /\ order[o].status = "absent"
  /\ order' = [order EXCEPT ![o] = Pending(method, FALSE)]
  /\ UNCHANGED <<stock, balance, ledger, purchases, refundTx, ents, vip,
                 profile, rewards, job, adjusted, wx, wxr, notes, req>>

-----------------------------------------------------------------------------
(* Payment *)

\* The tests of mark_order_paid and pay_with_balance on the loaded row.
Payable(row) == row.status = "pending" /\ row.pay # "paid"

\* Mutant: point_ledgers without its unique idempotency key.
PayConflictNoKey(o, hasProfile) == o \in Study /\ ~hasProfile /\ profile

\* A unique key rejects the commit of a payment: the reward's idempotency key
\* in point_ledgers, or learning_profiles.user_id.  hasProfile is what the
\* session's snapshot says.
PayConflict(o, hasProfile) ==
  \/ Rewarded(o) /\ rewards[o] # "none"
  \/ o \in Study /\ ~hasProfile /\ profile

\* Mutant: the order's own status is forgotten.
MarkOrderPaidHalf(o, seen, seenVip, method, txn) ==
  /\ order' = [order EXCEPT ![o] =
        Flush(@, seen, [seen EXCEPT !.pay = "paid", !.method = method, !.txn = txn])]
  /\ vip' = IF o \in VipOrders THEN seenVip + 1 ELSE vip
  /\ ents' = IF o \in Study THEN [ents EXCEPT ![o] = @ + Quantity] ELSE ents
  /\ profile' = (profile \/ o \in Study)
  /\ UNCHANGED rewards

\* Mutant: one entitlement whatever the quantity.
MarkOrderPaidOnce(o, seen, seenVip, method, txn) ==
  /\ order' = [order EXCEPT ![o] =
        Flush(@, seen, [seen EXCEPT !.status = "paid", !.pay = "paid",
                                    !.method = method, !.txn = txn])]
  /\ vip' = IF o \in VipOrders THEN seenVip + 1 ELSE vip
  /\ ents' = IF o \in Study THEN [ents EXCEPT ![o] = @ + 1] ELSE ents
  /\ profile' = (profile \/ o \in Study)
  /\ UNCHANGED rewards

\* mark_order_paid up to its commit: the row, the entitlements or the VIP
\* period, the learning profile and the reward.
MarkOrderPaid(o, seen, seenVip, method, txn) ==
  /\ order' = [order EXCEPT ![o] =
        Flush(@, seen, [seen EXCEPT !.status = "paid", !.pay = "paid",
                                    !.method = method, !.txn = txn])]
  /\ vip' = IF o \in VipOrders THEN seenVip + 1 ELSE vip
  /\ ents' = IF o \in Study THEN [ents EXCEPT ![o] = @ + Quantity] ELSE ents
  /\ profile' = (profile \/ o \in Study)
  /\ rewards' = IF Rewarded(o) THEN [rewards EXCEPT ![o] = "granted"]
                               ELSE rewards

\* Authentication loads the user and commits; the user is not refreshed later.
Authenticate(s) ==
  /\ Quiet
  /\ req[s] = Closed
  /\ req' = [req EXCEPT ![s] = [pc |-> "user", balance |-> balance, vip |-> vip]]
  /\ UNCHANGED <<db, job, adjusted, wx, wxr, notes>>

\* The endpoint loads the order without a lock, which starts a transaction and
\* its snapshot.  The loaded row is never refreshed, so its tests are decided
\* here; a row that fails them ends the request without an effect.
Load(s, op, o) ==
  /\ op \in Endpoints
  /\ req[s].pc = "user"
  /\ Payable(order[o])
  /\ op = "sync" => order[o].method = "wechat"
  /\ req' = [req EXCEPT ![s] =
        [pc |-> "loaded", op |-> op, order |-> o, seen |-> order[o],
         balance |-> req[s].balance, vip |-> req[s].vip, profile |-> profile,
         trade |-> "NONE"]]
  /\ UNCHANGED <<db, job, adjusted, wx, wxr, notes>>

\* The request fails or its transaction is the victim of a deadlock: rollback.
Abort(s) ==
  /\ req[s] # Closed
  /\ Close(s)
  /\ UNCHANGED <<db, job, adjusted, wx, wxr, notes>>

\* pay_with_balance: the wallet is debited from the balance the session holds.
PayWithBalance(s) ==
  LET r == req[s] IN
  /\ r.pc = "loaded" /\ r.op = "balance"
  /\ r.balance >= Price
  /\ ~PayConflict(r.order, r.profile)
  /\ MarkOrderPaid(r.order, r.seen, r.vip, "balance", "wallet")
  /\ balance' = r.balance - Price
  /\ ledger' = ledger - Price
  /\ purchases' = [purchases EXCEPT ![r.order] = @ + 1]
  /\ Close(s)
  /\ UNCHANGED <<stock, refundTx, job, adjusted, wx, wxr, notes>>

\* mock_pay_standard_order, development and test environments only.
MockPay(s) ==
  LET r == req[s] IN
  /\ r.pc = "loaded" /\ r.op = "mock"
  /\ ~PayConflict(r.order, r.profile)
  /\ MarkOrderPaid(r.order, r.seen, r.vip, "mock", "mock")
  /\ Close(s)
  /\ UNCHANGED <<stock, balance, ledger, purchases, refundTx, job, adjusted,
                 wx, wxr, notes>>

\* wechat_pay_standard_order: create_jsapi_payment opens (or reopens) the trade,
\* then the payment method is written on the row that was loaded before it.
WechatPay(s) ==
  LET r == req[s] IN
  /\ r.pc = "loaded" /\ r.op = "wechat"
  /\ wx[r.order] \in {"NONE", "NOTPAY"}
  /\ wx' = [wx EXCEPT ![r.order] = "NOTPAY"]
  /\ order' = [order EXCEPT ![r.order] =
                 Flush(@, r.seen, [r.seen EXCEPT !.method = "wechat"])]
  /\ Close(s)
  /\ UNCHANGED <<stock, balance, ledger, purchases, refundTx, ents, vip,
                 profile, rewards, job, adjusted, wxr, notes>>

\* sync_wechat_standard_order asks WeChat for the trade's state ...
SyncQuery(s) ==
  /\ req[s].pc = "loaded" /\ req[s].op = "sync"
  /\ wx[req[s].order] # "NONE"
  /\ req' = [req EXCEPT ![s].pc = "queried", ![s].trade = wx[req[s].order]]
  /\ UNCHANGED <<db, job, adjusted, wx, wxr, notes>>

\* ... and applies a successful payment to the row it loaded before asking.
SyncApply(s) ==
  LET r == req[s] IN
  /\ r.pc = "queried" /\ r.trade = "SUCCESS"
  /\ ~PayConflict(r.order, r.profile)
  /\ MarkOrderPaid(r.order, r.seen, r.vip, "wechat", "wechat")
  /\ Close(s)
  /\ UNCHANGED <<stock, balance, ledger, purchases, refundTx, job, adjusted,
                 wx, wxr, notes>>

\* Mutant: the item keeps its stock_deducted flag.
CancelKeepsFlag(o, seen) ==
  /\ Payable(seen)
  /\ order' = [order EXCEPT ![o] =
        Flush(@, seen, [seen EXCEPT !.status = "canceled", !.pay = "canceled"])]
  /\ stock' = IF seen.deducted /\ stock >= 0 THEN stock + Quantity ELSE stock
  /\ UNCHANGED <<balance, ledger, purchases, refundTx, ents, vip, profile,
                 rewards>>

\* cancel_unpaid_order on the loaded row: the item's stock goes back to a
\* product with finite stock, and the order and its payment are canceled.
CancelUnpaidOrder(o, seen) ==
  /\ Payable(seen)
  /\ order' = [order EXCEPT ![o] =
        Flush(@, seen, [seen EXCEPT !.status = "canceled", !.pay = "canceled",
                                    !.deducted = FALSE])]
  /\ stock' = IF seen.deducted /\ stock >= 0 THEN stock + Quantity ELSE stock
  /\ UNCHANGED <<balance, ledger, purchases, refundTx, ents, vip, profile,
                 rewards>>

\* A trade that WeChat reports closed, revoked or failed cancels the order.
SyncCancel(s) ==
  /\ req[s].pc = "queried" /\ req[s].trade = "CLOSED"
  /\ CancelUnpaidOrder(req[s].order, req[s].seen)
  /\ Close(s)
  /\ UNCHANGED <<job, adjusted, wx, wxr, notes>>

\* apply_wechat_payment_result from the notification endpoint.  The locking
\* read comes first, so the row is current; a paid, refunded or canceled order
\* ends the request without an effect.  A notification may be repeated.
PayNotify(o) ==
  /\ Quiet
  /\ wx[o] \in {"SUCCESS", "REFUND"}
  /\ Payable(order[o])
  /\ ~PayConflict(o, profile)
  /\ MarkOrderPaid(o, order[o], vip, "wechat", "wechat")
  /\ UNCHANGED <<stock, balance, ledger, purchases, refundTx, job, adjusted,
                 wx, wxr, notes, req>>

-----------------------------------------------------------------------------
(* The timeout job: cancel_unpaid_order_by_no, run once by the RQ worker *)

\* Mutant: only the sweep looks for unpaid orders.
TimeoutDueSweepOnly(o) == order[o].status = "pending" /\ ~order[o].scheduled

\* The delayed job is due, or the sweep selects the row.
TimeoutDue(o) ==
  job[o] = "queued" \/ (order[o].status = "pending" /\ ~order[o].scheduled)

JobRuns(o) == job' = [job EXCEPT ![o] = "ran"]

\* WeChat does not know the trade, or it is over: nothing to close.
TradeOver(o) == wx[o] \in {"NONE", "CLOSED", "REFUND"}

\* close_transaction of a trade that is not paid yet.
CloseTrade(o) ==
  wx' = IF order[o].method = "wechat" /\ wx[o] = "NOTPAY"
        THEN [wx EXCEPT ![o] = "CLOSED"] ELSE wx

\* Mutant: the trade at WeChat is left open.
TimeoutCancelNoClose(o) ==
  /\ Quiet
  /\ TimeoutDue(o)
  /\ order[o].method = "wechat" => TradeOver(o) \/ wx[o] = "NOTPAY"
  /\ CancelUnpaidOrder(o, order[o])
  /\ JobRuns(o)
  /\ UNCHANGED <<adjusted, wx, wxr, notes, req>>

\* Cancels, after closing at WeChat a trade that is not paid yet.
TimeoutCancel(o) ==
  /\ Quiet
  /\ TimeoutDue(o)
  /\ order[o].method = "wechat" => TradeOver(o) \/ wx[o] = "NOTPAY"
  /\ CancelUnpaidOrder(o, order[o])
  /\ CloseTrade(o)
  /\ JobRuns(o)
  /\ UNCHANGED <<adjusted, wxr, notes, req>>

\* A payment WeChat already has is booked instead.
TimeoutPaid(o) ==
  /\ Quiet
  /\ TimeoutDue(o)
  /\ order[o].method = "wechat" /\ wx[o] = "SUCCESS"
  /\ Payable(order[o])
  /\ ~PayConflict(o, profile)
  /\ MarkOrderPaid(o, order[o], vip, "wechat", "wechat")
  /\ JobRuns(o)
  /\ UNCHANGED <<stock, balance, ledger, purchases, refundTx, adjusted, wx,
                 wxr, notes, req>>

\* The job leaves the order alone: it is not pending any more (its trade is
\* closed all the same), the user is paying, or a call to WeChat failed (query
\* or close).  It is not retried.
TimeoutSkip(o) ==
  /\ Quiet
  /\ TimeoutDue(o)
  /\ \/ ~Payable(order[o]) /\ CloseTrade(o)
     \/ /\ order[o].method = "wechat" /\ (wx[o] = "USERPAYING" \/ ProviderMayFail)
        /\ wx' = wx
  /\ JobRuns(o)
  /\ UNCHANGED <<db, adjusted, wxr, notes, req>>

-----------------------------------------------------------------------------
(* Refund *)

Paid(row) == row.status = "paid" /\ row.pay = "paid"

\* Mutant: no look for an earlier refund row.
FinalizeRefundAgain(o, walletRefund) ==
  /\ Paid(order[o])
  /\ balance' = IF walletRefund THEN balance + Price ELSE balance
  /\ ledger' = IF walletRefund THEN ledger + Price ELSE ledger
  /\ refundTx' = IF walletRefund THEN [refundTx EXCEPT ![o] = @ + 1] ELSE refundTx
  /\ ents' = [ents EXCEPT ![o] = 0]
  /\ order' = [order EXCEPT ![o].status = "canceled", ![o].pay = "refunded",
                            ![o].refund = "success", ![o].refundNo = TRUE]
  /\ UNCHANGED <<stock, rewards, purchases, vip, profile>>

\* Mutant: only as many entitlements expire as the item's quantity.
FinalizeRefundOneSale(o, walletRefund) ==
  /\ Paid(order[o])
  /\ ents' = [ents EXCEPT ![o] = IF @ > Quantity THEN @ - Quantity ELSE 0]
  /\ order' = [order EXCEPT ![o].status = "canceled", ![o].pay = "refunded",
                            ![o].refund = "success", ![o].refundNo = TRUE]
  /\ UNCHANGED <<balance, ledger, refundTx, stock, rewards, purchases, vip,
                 profile>>

\* finalize_refund: the money back to the wallet once, the reward revoked, the
\* entitlements expired, the stock restored; a VIP period stays granted.
FinalizeRefund(o, walletRefund) ==
  LET back == walletRefund /\ refundTx[o] = 0 IN
  /\ Paid(order[o])
  /\ balance' = IF back THEN balance + Price ELSE balance
  /\ ledger' = IF back THEN ledger + Price ELSE ledger
  /\ refundTx' = IF back THEN [refundTx EXCEPT ![o] = @ + 1] ELSE refundTx
  /\ rewards' = IF rewards[o] = "granted"
                THEN [rewards EXCEPT ![o] = "revoked"] ELSE rewards
  /\ ents' = [ents EXCEPT ![o] = 0]
  /\ stock' = IF order[o].deducted /\ stock >= 0 THEN stock + Quantity ELSE stock
  /\ order' = [order EXCEPT ![o].status = "canceled", ![o].pay = "refunded",
                            ![o].refund = "success", ![o].refundNo = TRUE,
                            ![o].deducted = FALSE]
  /\ UNCHANGED <<purchases, vip, profile>>

\* request_standard_order_refund
RequestRefund(o) ==
  /\ Quiet
  /\ Paid(order[o])
  /\ order[o].refund \notin {"requested", "processing"}
  /\ order' = [order EXCEPT ![o].refund = "requested"]
  /\ UNCHANGED <<stock, balance, ledger, purchases, refundTx, ents, vip,
                 profile, rewards, job, adjusted, wx, wxr, notes, req>>

\* provider_status.lower()
Lower(status) == [PROCESSING |-> "processing", SUCCESS |-> "success",
                  ABNORMAL |-> "abnormal", CLOSED |-> "closed"][status]

\* A WeChat refund in progress is asked after instead of being created again.
Awaiting(row) == row.refund = "processing" /\ row.method = "wechat"

\* Mutant: the wallet never gets its money back.
AdminRefundLocalNoMoney(o) ==
  /\ Quiet
  /\ order[o].method # "wechat"
  /\ FinalizeRefund(o, FALSE)
  /\ UNCHANGED <<job, adjusted, wx, wxr, notes, req>>

\* refund_commerce_order of an order that was not paid through WeChat.
AdminRefundLocal(o) ==
  /\ Quiet
  /\ order[o].method # "wechat"
  /\ FinalizeRefund(o, order[o].method = "balance")
  /\ UNCHANGED <<job, adjusted, wx, wxr, notes, req>>

\* create_wechat_refund, external: WeChat accepts one full refund of a paid
\* trade; asked again under the same number it answers with the refund's state.
\* The order's own number is used again when the row has one.
ProviderRefund(o, status) ==
  \/ /\ wx[o] = "SUCCESS" /\ wxr[o] = "NONE"
     /\ status \in {"PROCESSING", "SUCCESS"}
     /\ wx' = [wx EXCEPT ![o] = "REFUND"]
     /\ wxr' = [wxr EXCEPT ![o] = status]
     /\ notes' = IF status = "SUCCESS"
                 THEN [notes EXCEPT ![o] = @ \cup {"SUCCESS"}] ELSE notes
  \/ /\ order[o].refundNo /\ wxr[o] # "NONE"
     /\ status = wxr[o]
     /\ UNCHANGED <<wx, wxr, notes>>

\* Mutant: a refund WeChat has only accepted counts as done.
ApplyRefundEarly(o, status) == FinalizeRefund(o, FALSE)

\* The result of a WeChat refund is written to the row, and a success finalized.
ApplyRefundStatus(o, status) ==
  \/ status = "SUCCESS" /\ FinalizeRefund(o, FALSE)
  \/ /\ status # "SUCCESS"
     /\ order' = [order EXCEPT ![o].refund = Lower(status), ![o].refundNo = TRUE]
     /\ UNCHANGED <<stock, balance, ledger, purchases, refundTx, ents, vip,
                    profile, rewards>>

\* refund_commerce_order of an order paid through WeChat.
AdminRefundWechat(o, status) ==
  /\ Quiet
  /\ order[o].method = "wechat" /\ ~Awaiting(order[o])
  /\ Paid(order[o])
  /\ ProviderRefund(o, status)
  /\ ApplyRefundStatus(o, status)
  /\ UNCHANGED <<job, adjusted, req>>

\* WeChat accepts the refund, and the request fails before its commit.
AdminRefundLost(o, status) ==
  /\ Quiet
  /\ ProviderMayFail
  /\ order[o].method = "wechat" /\ ~Awaiting(order[o])
  /\ Paid(order[o])
  /\ ProviderRefund(o, status)
  /\ UNCHANGED <<db, job, adjusted, req>>

\* refund_commerce_order while the refund is in progress: query_wechat_refund.
AdminRefundQuery(o) ==
  /\ Quiet
  /\ Awaiting(order[o]) /\ order[o].pay # "refunded"
  /\ wxr[o] # "NONE"
  /\ ApplyRefundStatus(o, wxr[o])
  /\ UNCHANGED <<job, adjusted, wx, wxr, notes, req>>

\* wechat_refund_notification, delivered late, repeatedly or out of order.  A
\* success for an order that is not paid ends without an effect; any other
\* result is written whatever the row says.
RefundNotify(o, status) ==
  /\ Quiet
  /\ status \in notes[o]
  /\ \/ status = "SUCCESS" /\ FinalizeRefund(o, FALSE)
     \/ /\ status # "SUCCESS"
        /\ order' = [order EXCEPT ![o].refund = Lower(status)]
        /\ UNCHANGED <<stock, balance, ledger, purchases, refundTx, ents, vip,
                       profile, rewards>>
  /\ UNCHANGED <<job, adjusted, wx, wxr, notes, req>>

-----------------------------------------------------------------------------
(* The rest of the wallet, and WeChat Pay itself *)

\* adjust_user_wallet by the price of an order, up or down.
AdjustWallet(amount) ==
  /\ Quiet
  /\ adjusted < MaxAdjustments
  /\ balance + amount >= 0
  /\ balance' = balance + amount
  /\ ledger' = ledger + amount
  /\ adjusted' = adjusted + 1
  /\ UNCHANGED <<order, stock, purchases, refundTx, ents, vip, profile,
                 rewards, job, wx, wxr, notes, req>>

\* External: the user opens the payment sheet, and confirms it or leaves it.
UserPays(o) ==
  /\ \/ wx[o] = "NOTPAY" /\ wx' = [wx EXCEPT ![o] = "USERPAYING"]
     \/ wx[o] = "USERPAYING" /\ wx' = [wx EXCEPT ![o] = "SUCCESS"]
     \/ wx[o] = "USERPAYING" /\ wx' = [wx EXCEPT ![o] = "NOTPAY"]
  /\ UNCHANGED <<db, job, adjusted, wxr, notes, req>>

\* External: an unpaid trade expires.
TradeExpires(o) ==
  /\ wx[o] = "NOTPAY"
  /\ wx' = [wx EXCEPT ![o] = "CLOSED"]
  /\ UNCHANGED <<db, job, adjusted, wxr, notes, req>>

\* External: a refund in progress ends, an abnormal one is repaired by hand.
RefundEnds(o, status) ==
  /\ \/ wxr[o] = "PROCESSING" /\ status \in {"SUCCESS", "ABNORMAL", "CLOSED"}
     \/ wxr[o] = "ABNORMAL" /\ status = "SUCCESS"
  /\ wxr' = [wxr EXCEPT ![o] = status]
  /\ notes' = [notes EXCEPT ![o] = @ \cup {status}]
  /\ UNCHANGED <<db, job, adjusted, wx, req>>

-----------------------------------------------------------------------------
SessionStep(s) ==
  \/ PayWithBalance(s)
  \/ MockPay(s)
  \/ WechatPay(s)
  \/ SyncQuery(s)
  \/ SyncApply(s)
  \/ SyncCancel(s)
  \/ Abort(s)

Timeout(o) == TimeoutCancel(o) \/ TimeoutPaid(o) \/ TimeoutSkip(o)

RefundStep(o) ==
  \/ RequestRefund(o)
  \/ AdminRefundLocal(o)
  \/ AdminRefundQuery(o)
  \/ \E status \in RefundStates :
       \/ AdminRefundWechat(o, status)
       \/ AdminRefundLost(o, status)
       \/ RefundNotify(o, status)
       \/ RefundEnds(o, status)

Next ==
  \/ \E o \in Orders, method \in {"balance", "wechat"} :
       CreateOrder(o, method) \/ CreateVipOrder(o, method)
  \/ \E s \in Sessions : Authenticate(s) \/ SessionStep(s)
  \/ \E s \in Sessions, op \in Endpoints, o \in Orders : Load(s, op, o)
  \/ \E o \in Orders : PayNotify(o) \/ Timeout(o) \/ RefundStep(o)
                       \/ UserPays(o) \/ TradeExpires(o)
  \/ \E amount \in {Price, -Price} : AdjustWallet(amount)

Spec == Init /\ [][Next]_vars

\* The RQ worker runs a job that is due, and a request does not stay open.
Fairness == /\ \A o \in Orders : WF_vars(Timeout(o))
            /\ \A s \in Sessions : WF_vars(SessionStep(s))

FairSpec == Spec /\ Fairness

-----------------------------------------------------------------------------
(* Properties of every behaviour, overlapping requests included *)

\* status and payment_status always form one of the pairs the code means,
\* although stale sessions write the two columns over each other's commits.
StatusPairs ==
  \A o \in Orders :
    <<order[o].status, order[o].pay>> \in
      {<<"absent", "absent">>, <<"pending", "pending">>, <<"paid", "paid">>,
       <<"canceled", "canceled">>, <<"canceled", "refunded">>}

\* finalize_refund gives money to the wallet at most once per order, and only
\* for an order whose purchase was taken from the wallet.
WalletRefundBacked ==
  \A o \in Orders : /\ refundTx[o] <= 1
                    /\ refundTx[o] <= purchases[o]

\* A refunded order gives access to nothing: finalize_refund expires every
\* entitlement, those of a second, stale payment included.
RefundRevokesAccess ==
  \A o \in Orders : order[o].pay = "refunded" => ents[o] = 0

\* While purchases earn points, the reward's unique key in point_ledgers makes
\* a second payment of the order roll back: one charge, one set of entitlements.
RewardKeyStopsDoubleSale ==
  \A o \in Orders :
    Rewarded(o) => purchases[o] <= 1 /\ ents[o] <= Quantity

\* An order paid through WeChat is refunded locally only once WeChat reports
\* the refund successful; refund_commerce_order and the notification agree.
RefundWaitsForWechat ==
  [][\A o \in Orders :
       (/\ order[o].method = "wechat" /\ order[o].pay = "paid"
        /\ order[o]'.pay = "refunded")
          => wxr[o]' = "SUCCESS"]_vars

-----------------------------------------------------------------------------
(* Properties that need requests not to overlap *)

\* README: a repeated request never charges an order twice; one `purchase`
\* row of wallet_transactions per order.
ChargedOnce == \A o \in Orders : purchases[o] <= 1

\* README: automatic cancellation locks the row so that payment and
\* cancellation do not both change the order: canceled is final.
CanceledIsFinal ==
  [][\A o \in Orders :
       order[o].status = "canceled" => order[o]'.status = "canceled"]_vars

\* Canceling restores the stock once: what is for sale and what orders hold
\* add up to the initial stock.
StockConserved ==
  stock + Quantity * Cardinality({o \in Orders : order[o].deducted}) = Stock0

\* README: the timeout job closes an unpaid WeChat trade before it cancels, so
\* that nobody can pay for a canceled order.
CanceledTradeIsDead ==
  \A o \in Orders :
    order[o].pay = "canceled" => wx[o] \notin {"NOTPAY", "USERPAYING", "SUCCESS"}

\* A refund returns the money through the channel it came from.
RefundThroughPaymentChannel ==
  \A o \in Orders :
    order[o].pay = "refunded" =>
      /\ order[o].txn = "wallet" => refundTx[o] = 1
      /\ order[o].txn = "wechat" => wxr[o] = "SUCCESS"

\* The contract the orders keep: see PurchaseContract.
ContractState(row) ==
  IF row.pay = "refunded" THEN "refunded" ELSE row.status

Contract ==
  INSTANCE PurchaseContract WITH
    state   <- [o \in Orders |-> ContractState(order[o])],
    charged <- [o \in Orders |-> Price * (purchases[o] - refundTx[o])],
    access  <- ents,
    held    <- [o \in Orders |-> order[o].deducted],
    shelf   <- stock,
    wallet  <- balance,
    periods <- vip

\* Every step of the order system is a step of the contract or invisible to it.
KeepsContract == Contract!Spec

\* Every order that holds stock is eventually paid or canceled: the timeout
\* job takes care of the ones nobody pays.
UnpaidOrdersEnd ==
  \A o \in Study : order[o].status = "pending" ~> order[o].status # "pending"
=============================================================================
