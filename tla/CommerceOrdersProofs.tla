------------------------ MODULE CommerceOrdersProofs ------------------------
(***************************************************************************)
(* Proofs about CommerceOrders, for every set of orders and sessions, every *)
(* price, quantity, stock and balance.                                     *)
(***************************************************************************)
EXTENDS CommerceOrders, FiniteSetTheorems, TLAPS

Status == {"absent", "pending", "paid", "canceled"}
Pay == {"absent", "pending", "paid", "canceled", "refunded"}
Method == {"balance", "wechat", "mock"}
Txn == {"none", "wallet", "wechat", "mock"}

-----------------------------------------------------------------------------
(* What the shared parts of the handlers do to the types *)

\* UPDATE with the changed columns of a session gives a row again.
LEMMA FlushType ==
  ASSUME NEW current \in Row, NEW loaded \in Row, NEW new \in Row
  PROVE  Flush(current, loaded, new) \in Row
BY DEF Flush, Column, Row

\* A payment booked by mark_order_paid keeps the types of what it writes.
LEMMA MarkOrderPaidType ==
  ASSUME TypeOK, NEW o \in Orders, NEW seen \in Row, NEW seenVip \in Nat,
         NEW method \in Method, NEW txn \in Txn,
         MarkOrderPaid(o, seen, seenVip, method, txn)
  PROVE  /\ order' \in [Orders -> Row]
         /\ vip' \in Nat
         /\ ents' \in [Orders -> Nat]
         /\ profile' \in BOOLEAN
         /\ rewards' \in [Orders -> {"none", "granted", "revoked"}]
<1> DEFINE new == [seen EXCEPT !.status = "paid", !.pay = "paid",
                               !.method = method, !.txn = txn]
<1>1. order' \in [Orders -> Row]
  <2>1. new \in Row
    BY DEF Row, Method, Txn
  <2>2. Flush(order[o], seen, new) \in Row
    <3>1. order[o] \in Row
      BY DEF TypeOK
    <3> QED BY <2>1, <3>1, FlushType
  <2> QED BY <2>2 DEF MarkOrderPaid, TypeOK
<1>2. vip' \in Nat
  BY DEF MarkOrderPaid, TypeOK
<1>3. ents' \in [Orders -> Nat]
  BY NumbersAssumption DEF MarkOrderPaid, TypeOK
<1>4. profile' \in BOOLEAN
  BY DEF MarkOrderPaid, TypeOK
<1>5. rewards' \in [Orders -> {"none", "granted", "revoked"}]
  BY DEF MarkOrderPaid, TypeOK
<1> QED BY <1>1, <1>2, <1>3, <1>4, <1>5

\* The variables every booking, cancellation and refund may write.
DbType ==
  /\ order \in [Orders -> Row]
  /\ stock \in Int
  /\ balance \in Int
  /\ ledger \in Int
  /\ purchases \in [Orders -> Nat]
  /\ refundTx \in [Orders -> Nat]
  /\ ents \in [Orders -> Nat]
  /\ vip \in Nat
  /\ profile \in BOOLEAN
  /\ rewards \in [Orders -> {"none", "granted", "revoked"}]

\* The variables outside the database.
RestType ==
  /\ job \in [Orders -> {"none", "queued", "ran"}]
  /\ adjusted \in 0..MaxAdjustments
  /\ wx \in [Orders -> TradeStates]
  /\ wxr \in [Orders -> RefundStates]
  /\ notes \in [Orders -> SUBSET {"SUCCESS", "ABNORMAL", "CLOSED"}]
  /\ req \in [Sessions -> Request \cup User \cup {Closed}]

\* TypeOK in its two halves.
LEMMA TypeSplit == /\ TypeOK <=> DbType /\ RestType
                   /\ TypeOK' <=> DbType' /\ RestType'
BY DEF TypeOK, DbType, RestType

\* cancel_unpaid_order keeps the types of the database.
LEMMA CancelType ==
  ASSUME TypeOK, NEW o \in Orders, NEW seen \in Row, CancelUnpaidOrder(o, seen)
  PROVE  DbType'
<1> DEFINE new == [seen EXCEPT !.status = "canceled", !.pay = "canceled",
                               !.deducted = FALSE]
<1>1. order' \in [Orders -> Row]
  <2>1. new \in Row
    BY DEF Row
  <2>2. order[o] \in Row
    BY DEF TypeOK
  <2>3. Flush(order[o], seen, new) \in Row
    BY <2>1, <2>2, FlushType
  <2> QED BY <2>3 DEF CancelUnpaidOrder, TypeOK
<1>2. stock' \in Int
  BY NumbersAssumption DEF CancelUnpaidOrder, TypeOK
<1> QED BY <1>1, <1>2 DEF CancelUnpaidOrder, TypeOK, DbType

\* finalize_refund keeps the types of the database.
LEMMA FinalizeType ==
  ASSUME TypeOK, NEW o \in Orders, NEW walletRefund, FinalizeRefund(o, walletRefund)
  PROVE  DbType'
<1>1. order' \in [Orders -> Row]
  <2>1. order[o] \in Row
    BY DEF TypeOK
  <2>2. [order[o] EXCEPT !.status = "canceled", !.pay = "refunded",
                         !.refund = "success", !.refundNo = TRUE,
                         !.deducted = FALSE] \in Row
    BY <2>1 DEF Row
  <2> QED BY <2>2 DEF FinalizeRefund, TypeOK
<1>2. balance' \in Int /\ ledger' \in Int /\ stock' \in Int
  BY NumbersAssumption DEF FinalizeRefund, TypeOK
<1>3. refundTx' \in [Orders -> Nat] /\ ents' \in [Orders -> Nat]
  BY DEF FinalizeRefund, TypeOK
<1>4. rewards' \in [Orders -> {"none", "granted", "revoked"}]
  BY DEF FinalizeRefund, TypeOK
<1> QED BY <1>1, <1>2, <1>3, <1>4 DEF FinalizeRefund, TypeOK, DbType

\* A booking keeps the types of the database, whatever it does to the wallet.
LEMMA PaidType ==
  ASSUME TypeOK, NEW o \in Orders, NEW seen \in Row, NEW seenVip \in Nat,
         NEW method \in Method, NEW txn \in Txn,
         MarkOrderPaid(o, seen, seenVip, method, txn),
         balance' \in Int, ledger' \in Int, purchases' \in [Orders -> Nat],
         UNCHANGED <<stock, refundTx>>
  PROVE  DbType'
BY MarkOrderPaidType DEF DbType, TypeOK

\* A session that has loaded an order.
HasOrder(r) == r.pc \in {"loaded", "queried"}

\* Such a session of a typed state is a typed request.
LEMMA OpenRequest ==
  ASSUME TypeOK, NEW s \in Sessions, HasOrder(req[s])
  PROVE  req[s] \in Request
BY DEF TypeOK, User, Closed, HasOrder

\* A step that closes a session and leaves the rest outside the database alone.
LEMMA CloseType ==
  ASSUME TypeOK, NEW s \in Sessions, Close(s),
         UNCHANGED <<job, adjusted, wxr, notes>>,
         wx' \in [Orders -> TradeStates]
  PROVE  RestType'
BY DEF TypeOK, RestType, Close

-----------------------------------------------------------------------------
(* Type correctness *)

\* The initial state is typed.
LEMMA InitType == Init => TypeOK
BY NumbersAssumption
   DEF Init, TypeOK, Row, Absent, TradeStates, RefundStates

\* The steps of a session keep the types.
LEMMA SessionType ==
  ASSUME TypeOK, NEW s \in Sessions, SessionStep(s)
  PROVE  TypeOK'
<1> DEFINE r == req[s]
<1>1. CASE PayWithBalance(s)
  <2>1. req[s] \in Request
    BY <1>1, OpenRequest DEF PayWithBalance, HasOrder
  <2>2. r.order \in Orders /\ r.seen \in Row /\ r.vip \in Nat /\ r.balance \in Int
    BY <2>1 DEF Request
  <2>3. balance' \in Int /\ ledger' \in Int /\ purchases' \in [Orders -> Nat]
    BY <1>1, <2>2, NumbersAssumption DEF PayWithBalance, TypeOK
  <2>4. /\ MarkOrderPaid(r.order, r.seen, r.vip, "balance", "wallet")
        /\ UNCHANGED <<stock, refundTx>>
    BY <1>1 DEF PayWithBalance
  <2>5. DbType'
    <3>1. "balance" \in Method /\ "wallet" \in Txn
      BY DEF Method, Txn
    <3> QED BY <2>2, <2>3, <2>4, <3>1, PaidType
  <2>6. RestType'
    <3>1. wx' \in [Orders -> TradeStates]
      BY <1>1 DEF PayWithBalance, TypeOK
    <3> QED BY <1>1, <3>1, CloseType DEF PayWithBalance
  <2> QED BY <2>5, <2>6, TypeSplit
<1>2. CASE MockPay(s)
  <2>1. req[s] \in Request
    BY <1>2, OpenRequest DEF MockPay, HasOrder
  <2>2. r.order \in Orders /\ r.seen \in Row /\ r.vip \in Nat
    BY <2>1 DEF Request
  <2>3. balance' \in Int /\ ledger' \in Int /\ purchases' \in [Orders -> Nat]
    BY <1>2 DEF MockPay, TypeOK
  <2>4. /\ MarkOrderPaid(r.order, r.seen, r.vip, "mock", "mock")
        /\ UNCHANGED <<stock, refundTx>>
    BY <1>2 DEF MockPay
  <2>5. DbType'
    <3>1. "mock" \in Method /\ "mock" \in Txn
      BY DEF Method, Txn
    <3> QED BY <2>2, <2>3, <2>4, <3>1, PaidType
  <2>6. RestType'
    <3>1. wx' \in [Orders -> TradeStates]
      BY <1>2 DEF MockPay, TypeOK
    <3> QED BY <1>2, <3>1, CloseType DEF MockPay
  <2> QED BY <2>5, <2>6, TypeSplit
<1>3. CASE WechatPay(s)
  <2>1. req[s] \in Request
    BY <1>3, OpenRequest DEF WechatPay, HasOrder
  <2>2. r.order \in Orders /\ r.seen \in Row
    BY <2>1 DEF Request
  <2>3. [r.seen EXCEPT !.method = "wechat"] \in Row
    BY <2>2 DEF Row
  <2>4. Flush(order[r.order], r.seen, [r.seen EXCEPT !.method = "wechat"]) \in Row
    <3>1. order[r.order] \in Row
      BY <2>2 DEF TypeOK
    <3> QED BY <2>2, <2>3, <3>1, FlushType
  <2>5. DbType'
    BY <1>3, <2>2, <2>4 DEF WechatPay, TypeOK, DbType
  <2>6. RestType'
    <3>1. wx' \in [Orders -> TradeStates]
      BY <1>3, <2>2 DEF WechatPay, TypeOK, TradeStates
    <3> QED BY <1>3, <3>1, CloseType DEF WechatPay
  <2> QED BY <2>5, <2>6, TypeSplit
<1>4. CASE SyncQuery(s)
  <2>1. req[s] \in Request
    BY <1>4, OpenRequest DEF SyncQuery, HasOrder
  <2>2. wx[r.order] \in TradeStates
    BY <2>1 DEF Request, TypeOK
  <2>3. [r EXCEPT !.pc = "queried", !.trade = wx[r.order]] \in Request
    BY <2>1, <2>2 DEF Request
  <2>4. RestType'
    BY <1>4, <2>3 DEF SyncQuery, TypeOK, RestType
  <2>5. DbType'
    BY <1>4 DEF SyncQuery, TypeOK, DbType, db
  <2> QED BY <2>4, <2>5, TypeSplit
<1>5. CASE SyncApply(s)
  <2>1. req[s] \in Request
    BY <1>5, OpenRequest DEF SyncApply, HasOrder
  <2>2. r.order \in Orders /\ r.seen \in Row /\ r.vip \in Nat
    BY <2>1 DEF Request
  <2>3. balance' \in Int /\ ledger' \in Int /\ purchases' \in [Orders -> Nat]
    BY <1>5 DEF SyncApply, TypeOK
  <2>4. /\ MarkOrderPaid(r.order, r.seen, r.vip, "wechat", "wechat")
        /\ UNCHANGED <<stock, refundTx>>
    BY <1>5 DEF SyncApply
  <2>5. DbType'
    <3>1. "wechat" \in Method /\ "wechat" \in Txn
      BY DEF Method, Txn
    <3> QED BY <2>2, <2>3, <2>4, <3>1, PaidType
  <2>6. RestType'
    <3>1. wx' \in [Orders -> TradeStates]
      BY <1>5 DEF SyncApply, TypeOK
    <3> QED BY <1>5, <3>1, CloseType DEF SyncApply
  <2> QED BY <2>5, <2>6, TypeSplit
<1>6. CASE SyncCancel(s)
  <2>1. req[s] \in Request
    BY <1>6, OpenRequest DEF SyncCancel, HasOrder
  <2>2. r.order \in Orders /\ r.seen \in Row
    BY <2>1 DEF Request
  <2>3. DbType'
    BY <1>6, <2>2, CancelType DEF SyncCancel
  <2>4. RestType'
    <3>1. wx' \in [Orders -> TradeStates]
      BY <1>6 DEF SyncCancel, TypeOK
    <3> QED BY <1>6, <3>1, CloseType DEF SyncCancel
  <2> QED BY <2>3, <2>4, TypeSplit
<1>7. CASE Abort(s)
  BY <1>7 DEF Abort, Close, TypeOK, db
<1> QED BY <1>1, <1>2, <1>3, <1>4, <1>5, <1>6, <1>7 DEF SessionStep

\* Order creation keeps the types.
LEMMA CreateType ==
  ASSUME TypeOK, NEW o \in Orders, NEW method \in {"balance", "wechat"},
         CreateOrder(o, method) \/ CreateVipOrder(o, method)
  PROVE  TypeOK'
<1>1. Pending(method, TRUE) \in Row /\ Pending(method, FALSE) \in Row
  BY DEF Pending, Absent, Row
<1>2. CASE CreateOrder(o, method)
  <2>1. order' = [order EXCEPT ![o] = Pending(method, TRUE)]
    BY <1>2 DEF CreateOrder, MarkUnscheduled
  <2>2. order' \in [Orders -> Row]
    BY <1>1, <2>1 DEF TypeOK
  <2>3. stock' \in Int
    BY <1>2, NumbersAssumption DEF CreateOrder, TypeOK
  <2>4. job' \in [Orders -> {"none", "queued", "ran"}]
    BY <1>2 DEF CreateOrder, TypeOK
  <2> QED BY <1>2, <2>2, <2>3, <2>4 DEF CreateOrder, TypeOK
<1>3. CASE CreateVipOrder(o, method)
  BY <1>1, <1>3 DEF CreateVipOrder, TypeOK
<1> QED BY <1>2, <1>3

\* Opening a session keeps the types.
LEMMA LoadType ==
  ASSUME TypeOK, NEW s \in Sessions, NEW op \in Endpoints, NEW o \in Orders,
         Load(s, op, o)
  PROVE  TypeOK'
<1>1. req[s] \in User
  BY DEF Load, TypeOK, User, Request, Closed
<1>2. [pc |-> "loaded", op |-> op, order |-> o, seen |-> order[o],
       balance |-> req[s].balance, vip |-> req[s].vip, profile |-> profile,
       trade |-> "NONE"] \in Request
  BY <1>1, OrdersAssumption DEF TypeOK, User, Request, TradeStates
<1> QED BY <1>2 DEF Load, TypeOK, db

\* Authentication keeps the types.
LEMMA AuthenticateType ==
  ASSUME TypeOK, NEW s \in Sessions, Authenticate(s)
  PROVE  TypeOK'
<1>1. [pc |-> "user", balance |-> balance, vip |-> vip] \in User
  BY DEF TypeOK, User
<1> QED BY <1>1 DEF Authenticate, TypeOK, db

\* The payment notification and the timeout job keep the types.
LEMMA JobType ==
  ASSUME TypeOK, NEW o \in Orders, PayNotify(o) \/ Timeout(o)
  PROVE  TypeOK'
<1>1. order[o] \in Row /\ vip \in Nat /\ "wechat" \in Method /\ "wechat" \in Txn
  BY DEF TypeOK, Method, Txn
<1>2. CASE PayNotify(o)
  <2>1. /\ MarkOrderPaid(o, order[o], vip, "wechat", "wechat")
        /\ UNCHANGED <<stock, balance, ledger, purchases, refundTx>>
    BY <1>2 DEF PayNotify
  <2>2. DbType'
    BY <1>1, <2>1, PaidType DEF TypeOK
  <2>3. RestType'
    BY <1>2 DEF PayNotify, TypeOK, RestType
  <2> QED BY <2>2, <2>3, TypeSplit
<1>3. CASE TimeoutPaid(o)
  <2>1. /\ MarkOrderPaid(o, order[o], vip, "wechat", "wechat")
        /\ UNCHANGED <<stock, balance, ledger, purchases, refundTx>>
    BY <1>3 DEF TimeoutPaid
  <2>2. DbType'
    BY <1>1, <2>1, PaidType DEF TypeOK
  <2>3. RestType'
    BY <1>3 DEF TimeoutPaid, JobRuns, TypeOK, RestType
  <2> QED BY <2>2, <2>3, TypeSplit
<1>4. CASE TimeoutCancel(o)
  <2>1. DbType'
    BY <1>1, <1>4, CancelType DEF TimeoutCancel
  <2>2. RestType'
    BY <1>4 DEF TimeoutCancel, CloseTrade, JobRuns, TypeOK, RestType, TradeStates
  <2> QED BY <2>1, <2>2, TypeSplit
<1>5. CASE TimeoutSkip(o)
  <2>1. wx' \in [Orders -> TradeStates]
    BY <1>5 DEF TimeoutSkip, CloseTrade, TypeOK, TradeStates
  <2> QED BY <1>5, <2>1 DEF TimeoutSkip, JobRuns, TypeOK, db
<1> QED BY <1>2, <1>3, <1>4, <1>5 DEF Timeout

\* Writing the result of a WeChat refund to the row keeps the types.
LEMMA RefundStatusType ==
  ASSUME TypeOK, NEW o \in Orders,
         NEW status \in {"PROCESSING", "SUCCESS", "ABNORMAL", "CLOSED"},
         ApplyRefundStatus(o, status)
  PROVE  DbType'
<1>1. CASE status = "SUCCESS"
  BY <1>1, FinalizeType DEF ApplyRefundStatus
<1>2. CASE status # "SUCCESS"
  <2>1. PICK low \in {"processing", "success", "abnormal", "closed"} :
          low = Lower(status)
    BY DEF Lower
  <2>2. order' = [order EXCEPT ![o].refund = low, ![o].refundNo = TRUE]
    BY <1>2, <2>1 DEF ApplyRefundStatus
  <2>3. [order[o] EXCEPT !.refund = low, !.refundNo = TRUE] \in Row
    <3>1. order[o] \in Row
      BY DEF TypeOK
    <3> QED BY <3>1 DEF Row
  <2>4. order' \in [Orders -> Row]
    BY <2>2, <2>3 DEF TypeOK
  <2> QED BY <1>2, <2>4 DEF ApplyRefundStatus, TypeOK, DbType
<1> QED BY <1>1, <1>2

\* A refund asked of WeChat has a status, and WeChat's state stays typed.
LEMMA ProviderType ==
  ASSUME TypeOK, NEW o \in Orders, NEW status \in RefundStates,
         ProviderRefund(o, status), UNCHANGED <<job, adjusted, req>>
  PROVE  /\ status \in {"PROCESSING", "SUCCESS", "ABNORMAL", "CLOSED"}
         /\ RestType'
<1>1. status # "NONE"
  BY DEF ProviderRefund
<1>2. wx' \in [Orders -> TradeStates] /\ wxr' \in [Orders -> RefundStates]
  BY DEF ProviderRefund, TypeOK, TradeStates
<1>3. notes' \in [Orders -> SUBSET {"SUCCESS", "ABNORMAL", "CLOSED"}]
  BY DEF ProviderRefund, TypeOK
<1> QED BY <1>1, <1>2, <1>3 DEF RefundStates, RestType, TypeOK

\* Every refund step keeps the types.
LEMMA RefundType ==
  ASSUME TypeOK, NEW o \in Orders, RefundStep(o)
  PROVE  TypeOK'
<1>1. CASE RequestRefund(o)
  <2>1. [order[o] EXCEPT !.refund = "requested"] \in Row
    <3>1. order[o] \in Row
      BY DEF TypeOK
    <3> QED BY <3>1 DEF Row
  <2> QED BY <1>1, <2>1 DEF RequestRefund, TypeOK
<1>2. CASE AdminRefundLocal(o)
  <2>1. DbType'
    BY <1>2, FinalizeType DEF AdminRefundLocal
  <2>2. RestType'
    BY <1>2 DEF AdminRefundLocal, TypeOK, RestType
  <2> QED BY <2>1, <2>2, TypeSplit
<1>3. CASE AdminRefundQuery(o)
  <2>1. wxr[o] \in {"PROCESSING", "SUCCESS", "ABNORMAL", "CLOSED"}
    BY <1>3 DEF AdminRefundQuery, TypeOK, RefundStates
  <2>2. DbType'
    BY <1>3, <2>1, RefundStatusType DEF AdminRefundQuery
  <2>3. RestType'
    BY <1>3 DEF AdminRefundQuery, TypeOK, RestType
  <2> QED BY <2>2, <2>3, TypeSplit
<1>4. ASSUME NEW status \in RefundStates, AdminRefundWechat(o, status)
      PROVE  TypeOK'
  <2>1. status \in {"PROCESSING", "SUCCESS", "ABNORMAL", "CLOSED"} /\ RestType'
    BY <1>4, ProviderType DEF AdminRefundWechat
  <2>2. DbType'
    BY <1>4, <2>1, RefundStatusType DEF AdminRefundWechat
  <2> QED BY <2>1, <2>2, TypeSplit
<1>5. ASSUME NEW status \in RefundStates, AdminRefundLost(o, status)
      PROVE  TypeOK'
  <2>1. RestType'
    BY <1>5, ProviderType DEF AdminRefundLost
  <2>2. DbType'
    BY <1>5 DEF AdminRefundLost, TypeOK, DbType, db
  <2> QED BY <2>1, <2>2, TypeSplit
<1>6. ASSUME NEW status \in RefundStates, RefundNotify(o, status)
      PROVE  TypeOK'
  <2>1. status \in {"SUCCESS", "ABNORMAL", "CLOSED"}
    BY <1>6 DEF RefundNotify, TypeOK
  <2>2. CASE status = "SUCCESS"
    <3>1. DbType'
      BY <1>6, <2>2, FinalizeType DEF RefundNotify
    <3>2. RestType'
      BY <1>6 DEF RefundNotify, TypeOK, RestType
    <3> QED BY <3>1, <3>2, TypeSplit
  <2>3. CASE status # "SUCCESS"
    <3>1. Lower(status) \in {"abnormal", "closed"}
      BY <2>1, <2>3 DEF Lower
    <3>2. [order[o] EXCEPT !.refund = Lower(status)] \in Row
      BY <3>1 DEF TypeOK, Row
    <3> QED BY <1>6, <2>3, <3>2 DEF RefundNotify, TypeOK
  <2> QED BY <2>2, <2>3
<1>7. ASSUME NEW status \in RefundStates, RefundEnds(o, status)
      PROVE  TypeOK'
  <2>1. status \in {"SUCCESS", "ABNORMAL", "CLOSED"}
    BY <1>7 DEF RefundEnds
  <2>2. wxr' \in [Orders -> RefundStates]
    BY <1>7 DEF RefundEnds, TypeOK
  <2>3. notes' \in [Orders -> SUBSET {"SUCCESS", "ABNORMAL", "CLOSED"}]
    BY <1>7, <2>1 DEF RefundEnds, TypeOK
  <2> QED BY <1>7, <2>2, <2>3 DEF RefundEnds, TypeOK, db
<1> QED BY <1>1, <1>2, <1>3, <1>4, <1>5, <1>6, <1>7 DEF RefundStep

\* Every step keeps the types.
LEMMA NextType == TypeOK /\ [Next]_vars => TypeOK'
<1> SUFFICES ASSUME TypeOK, [Next]_vars PROVE TypeOK'
  OBVIOUS
<1>1. ASSUME NEW o \in Orders, NEW method \in {"balance", "wechat"},
             CreateOrder(o, method) \/ CreateVipOrder(o, method)
      PROVE  TypeOK'
  BY <1>1, CreateType
<1>2. ASSUME NEW s \in Sessions, NEW op \in Endpoints, NEW o \in Orders,
             Load(s, op, o)
      PROVE  TypeOK'
  BY <1>2, LoadType
<1>3. ASSUME NEW s \in Sessions, Authenticate(s) \/ SessionStep(s) PROVE TypeOK'
  BY <1>3, AuthenticateType, SessionType
<1>4. ASSUME NEW o \in Orders, PayNotify(o) \/ Timeout(o) PROVE TypeOK'
  BY <1>4, JobType
<1>5. ASSUME NEW o \in Orders, RefundStep(o) PROVE TypeOK'
  BY <1>5, RefundType
<1>6. ASSUME NEW o \in Orders, UserPays(o) \/ TradeExpires(o) PROVE TypeOK'
  BY <1>6 DEF UserPays, TradeExpires, TypeOK, TradeStates, db
<1>7. ASSUME NEW amount \in {Price, -Price}, AdjustWallet(amount) PROVE TypeOK'
  BY <1>7, NumbersAssumption DEF AdjustWallet, TypeOK
<1>8. CASE UNCHANGED vars
  BY <1>8 DEF vars, db, TypeOK
<1> QED BY <1>1, <1>2, <1>3, <1>4, <1>5, <1>6, <1>7, <1>8 DEF Next

\* Every variable keeps its type: in particular no refund status reaches a row
\* that provider_status.lower() would not produce.
THEOREM TypeCorrect == Spec => []TypeOK
BY InitType, NextType, PTL DEF Spec

-----------------------------------------------------------------------------
(* The inductive invariant of overlapping requests *)

\* What an open session holds: a row that was pending when it was loaded, and a
\* WeChat order only when the sync endpoint asks for it.
SessionsSound ==
  \A s \in Sessions :
    HasOrder(req[s]) =>
      /\ req[s].seen.status = "pending" /\ req[s].seen.pay = "pending"
      /\ req[s].seen.method # "mock"
      /\ req[s].pc = "queried" => req[s].op = "sync"
      /\ req[s].op = "sync" => req[s].seen.method = "wechat"

\* A session is open on an order that exists.
SessionOrdersExist ==
  \A s \in Sessions :
    HasOrder(req[s]) => order[req[s].order].status # "absent"

\* An order that turned from WeChat to the wallet while a session was open has
\* been charged: the session would leave the method as it is.
SwitchedIsCharged ==
  \A s \in Sessions :
    /\ HasOrder(req[s])
    /\ req[s].seen.method = "wechat"
    /\ order[req[s].order].method = "balance"
    => purchases[req[s].order] >= 1

\* The mock endpoint's method is only found on an order that is not pending.
PendingMethod ==
  \A o \in Orders : order[o].status = "pending" => order[o].method # "mock"

\* An order paid by wallet has been charged.
WalletPaidIsCharged ==
  \A o \in Orders :
    Paid(order[o]) /\ order[o].method = "balance" => purchases[o] >= 1

\* While purchases earn points, an order without its reward was never sold.
RewardMarksSale ==
  \A o \in Orders :
    Rewarded(o) /\ rewards[o] = "none" => purchases[o] = 0 /\ ents[o] = 0

\* A success WeChat has notified is the refund's state.
NotesTrue ==
  \A o \in Orders : "SUCCESS" \in notes[o] => wxr[o] = "SUCCESS"

RowInv == StatusPairs /\ PendingMethod /\ SessionsSound /\ SessionOrdersExist
MoneyInv == SwitchedIsCharged /\ WalletPaidIsCharged /\ WalletRefundBacked
SaleInv == RewardMarksSale /\ RewardKeyStopsDoubleSale /\ RefundRevokesAccess

IInv == TypeOK /\ RowInv /\ MoneyInv /\ SaleInv /\ NotesTrue

-----------------------------------------------------------------------------
(* What the shared parts of the handlers do to a row *)

\* A session that holds an order after the step held the same before it.
SessionsMayClose == \A s \in Sessions : HasOrder(req'[s]) => req'[s] = req[s]

\* mark_order_paid on a row loaded as pending: it ends paid whatever is in the
\* table by then, and its method is written only if the session changed it.
LEMMA BookedRow ==
  ASSUME TypeOK, NEW o \in Orders, NEW seen \in Row, NEW seenVip,
         NEW method \in Method, NEW txn \in Txn,
         seen.status = "pending", seen.pay = "pending",
         MarkOrderPaid(o, seen, seenVip, method, txn)
  PROVE  /\ order'[o].status = "paid"
         /\ order'[o].pay = "paid"
         /\ order'[o].method = Column(order[o].method, seen.method, method)
         /\ \A p \in Orders \ {o} : order'[p] = order[p]
<1> DEFINE new == [seen EXCEPT !.status = "paid", !.pay = "paid",
                               !.method = method, !.txn = txn]
           row == Flush(order[o], seen, new)
<1>1. order' = [order EXCEPT ![o] = row]
  BY DEF MarkOrderPaid
<1>2. new.status = "paid" /\ new.pay = "paid" /\ new.method = method
  BY DEF Row
<1>3. row.status = "paid" /\ row.pay = "paid"
      /\ row.method = Column(order[o].method, seen.method, method)
  <2> HIDE DEF new
  <2> QED BY <1>2 DEF Flush, Column
<1>4. order'[o] = row /\ \A p \in Orders \ {o} : order'[p] = order[p]
  <2> HIDE DEF row
  <2> QED BY <1>1 DEF TypeOK
<1> QED BY <1>3, <1>4

\* cancel_unpaid_order on a row loaded as pending: it ends canceled whatever is
\* in the table by then.
LEMMA CanceledRow ==
  ASSUME TypeOK, NEW o \in Orders, NEW seen \in Row,
         seen.status = "pending", seen.pay = "pending",
         CancelUnpaidOrder(o, seen)
  PROVE  /\ order'[o].status = "canceled"
         /\ order'[o].pay = "canceled"
         /\ order'[o].method = order[o].method
         /\ \A p \in Orders \ {o} : order'[p] = order[p]
<1> DEFINE new == [seen EXCEPT !.status = "canceled", !.pay = "canceled",
                               !.deducted = FALSE]
           row == Flush(order[o], seen, new)
<1>1. order' = [order EXCEPT ![o] = row]
  BY DEF CancelUnpaidOrder
<1>2. new.status = "canceled" /\ new.pay = "canceled" /\ new.method = seen.method
  BY DEF Row
<1>3. row.status = "canceled" /\ row.pay = "canceled"
      /\ row.method = order[o].method
  <2> HIDE DEF new
  <2> QED BY <1>2 DEF Flush, Column
<1>4. order'[o] = row /\ \A p \in Orders \ {o} : order'[p] = order[p]
  <2> HIDE DEF row
  <2> QED BY <1>1 DEF TypeOK
<1> QED BY <1>3, <1>4

\* finalize_refund changes the current row of a paid order.
LEMMA RefundedRow ==
  ASSUME TypeOK, NEW o \in Orders, NEW walletRefund, FinalizeRefund(o, walletRefund)
  PROVE  /\ order'[o].status = "canceled"
         /\ order'[o].pay = "refunded"
         /\ order'[o].method = order[o].method
         /\ \A p \in Orders \ {o} : order'[p] = order[p]
<1> DEFINE row == [order[o] EXCEPT !.status = "canceled", !.pay = "refunded",
                                   !.refund = "success", !.refundNo = TRUE,
                                   !.deducted = FALSE]
<1>1. order' = [order EXCEPT ![o] = row]
  BY DEF FinalizeRefund
<1>2. row.status = "canceled" /\ row.pay = "refunded"
      /\ row.method = order[o].method
  BY DEF TypeOK, Row
<1>3. order'[o] = row /\ \A p \in Orders \ {o} : order'[p] = order[p]
  <2> HIDE DEF row
  <2> QED BY <1>1 DEF TypeOK
<1> QED BY <1>2, <1>3

-----------------------------------------------------------------------------
(* The invariant is kept: payments *)

\* What a payment endpoint does to the purchases, by its payment method, and
\* what it has to know when its session leaves the method as it is.
ChargesFor(o, seen, method) ==
  \/ method = "balance" /\ purchases' = [purchases EXCEPT ![o] = @ + 1]
  \/ method = "mock" /\ purchases' = purchases /\ seen.method # "mock"
  \/ /\ method = "wechat" /\ purchases' = purchases
     /\ seen.method = "wechat" /\ order[o].method = "balance" => purchases[o] >= 1

\* Booking a payment keeps the invariant, stale row or not.
LEMMA BookingKeeps ==
  ASSUME IInv, NEW o \in Orders, NEW seen \in Row, NEW seenVip, NEW hasProfile,
         NEW method \in Method, NEW txn \in Txn,
         seen.status = "pending", seen.pay = "pending",
         ~PayConflict(o, hasProfile),
         MarkOrderPaid(o, seen, seenVip, method, txn),
         ChargesFor(o, seen, method),
         UNCHANGED refundTx,
         SessionsMayClose
  PROVE  RowInv' /\ MoneyInv' /\ SaleInv'
<1> USE DEF IInv
<1>1. /\ order'[o].status = "paid"
      /\ order'[o].pay = "paid"
      /\ order'[o].method = Column(order[o].method, seen.method, method)
      /\ \A p \in Orders \ {o} : order'[p] = order[p]
  BY BookedRow
<1>2. /\ purchases'[o] >= purchases[o]
      /\ \A p \in Orders \ {o} : purchases'[p] = purchases[p]
  BY DEF ChargesFor, TypeOK
<1>3. order'[o].method = "balance" => purchases'[o] >= 1
  BY <1>1 DEF ChargesFor, Column, TypeOK
<1>4. RowInv'
  <2>1. StatusPairs'
    BY <1>1 DEF RowInv, StatusPairs
  <2>2. PendingMethod'
    BY <1>1 DEF RowInv, PendingMethod
  <2>3. SessionsSound'
    BY DEF RowInv, SessionsSound, SessionsMayClose
  <2>4. SessionOrdersExist'
    BY <1>1, OpenRequest DEF RowInv, SessionOrdersExist, SessionsMayClose, Request
  <2> QED BY <2>1, <2>2, <2>3, <2>4 DEF RowInv
<1>5. MoneyInv'
  <2>1. SwitchedIsCharged'
    <3> SUFFICES ASSUME NEW s \in Sessions, HasOrder(req'[s]),
                        req'[s].seen.method = "wechat",
                        order'[req'[s].order].method = "balance"
                 PROVE  purchases'[req'[s].order] >= 1
      BY DEF SwitchedIsCharged
    <3>1. req'[s] = req[s] /\ req[s].order \in Orders
      BY OpenRequest DEF SessionsMayClose, Request
    <3>2. CASE req[s].order = o
      BY <1>3, <3>1, <3>2
    <3>3. CASE req[s].order # o
      BY <1>1, <1>2, <3>1, <3>3 DEF MoneyInv, SwitchedIsCharged
    <3> QED BY <3>2, <3>3
  <2>2. WalletPaidIsCharged'
    BY <1>1, <1>2, <1>3 DEF MoneyInv, WalletPaidIsCharged, Paid
  <2>3. WalletRefundBacked'
    <3>1. \A p \in Orders : purchases'[p] >= purchases[p]
      BY <1>2 DEF TypeOK
    <3>2. \A p \in Orders : purchases[p] \in Nat /\ purchases'[p] \in Nat
                            /\ refundTx[p] \in Nat
      BY DEF TypeOK, ChargesFor
    <3> QED BY <3>1, <3>2 DEF MoneyInv, WalletRefundBacked
  <2> QED BY <2>1, <2>2, <2>3 DEF MoneyInv
<1>6. SaleInv'
  <2>1. \A p \in Orders \ {o} : ents'[p] = ents[p] /\ rewards'[p] = rewards[p]
    BY DEF MarkOrderPaid, TypeOK
  <2>2. Rewarded(o) => /\ rewards[o] = "none" /\ rewards'[o] = "granted"
                       /\ purchases[o] = 0 /\ ents[o] = 0
    BY DEF PayConflict, MarkOrderPaid, SaleInv, RewardMarksSale, TypeOK
  <2>3. Rewarded(o) => purchases'[o] <= 1 /\ ents'[o] <= Quantity
    BY <2>2, NumbersAssumption DEF MarkOrderPaid, ChargesFor, TypeOK
  <2>4. RewardMarksSale'
    BY <1>2, <2>1, <2>2 DEF SaleInv, RewardMarksSale, Rewarded
  <2>5. RewardKeyStopsDoubleSale'
    BY <1>2, <2>1, <2>3 DEF SaleInv, RewardKeyStopsDoubleSale, Rewarded
  <2>6. RefundRevokesAccess'
    BY <1>1, <2>1 DEF SaleInv, RefundRevokesAccess
  <2> QED BY <2>4, <2>5, <2>6 DEF SaleInv
<1> QED BY <1>4, <1>5, <1>6

-----------------------------------------------------------------------------
(* The invariant is kept: cancellation and refund *)

\* Canceling keeps the invariant, stale row or not.
LEMMA CancelKeeps ==
  ASSUME IInv, NEW o \in Orders, NEW seen \in Row,
         seen.status = "pending", seen.pay = "pending",
         CancelUnpaidOrder(o, seen), SessionsMayClose
  PROVE  RowInv' /\ MoneyInv' /\ SaleInv'
<1> USE DEF IInv
<1>1. /\ order'[o].status = "canceled"
      /\ order'[o].pay = "canceled"
      /\ order'[o].method = order[o].method
      /\ \A p \in Orders \ {o} : order'[p] = order[p]
  BY CanceledRow
<1>2. UNCHANGED <<purchases, refundTx, ents, rewards>>
  BY DEF CancelUnpaidOrder
<1>3. RowInv'
  <2>1. StatusPairs' /\ PendingMethod' /\ SessionsSound'
    BY <1>1 DEF RowInv, StatusPairs, PendingMethod, SessionsSound,
                SessionsMayClose
  <2>2. SessionOrdersExist'
    BY <1>1, OpenRequest DEF RowInv, SessionOrdersExist, SessionsMayClose, Request
  <2> QED BY <2>1, <2>2 DEF RowInv
<1>4. MoneyInv'
  <2>1. SwitchedIsCharged'
    <3> SUFFICES ASSUME NEW s \in Sessions, HasOrder(req'[s]),
                        req'[s].seen.method = "wechat",
                        order'[req'[s].order].method = "balance"
                 PROVE  purchases'[req'[s].order] >= 1
      BY DEF SwitchedIsCharged
    <3>1. req'[s] = req[s] /\ req[s].order \in Orders
      BY OpenRequest DEF SessionsMayClose, Request
    <3>2. order[req[s].order].method = "balance"
      BY <1>1, <3>1
    <3> QED BY <1>2, <3>1, <3>2 DEF MoneyInv, SwitchedIsCharged
  <2>2. WalletPaidIsCharged'
    BY <1>1, <1>2 DEF MoneyInv, WalletPaidIsCharged, Paid
  <2>3. WalletRefundBacked'
    BY <1>2 DEF MoneyInv, WalletRefundBacked
  <2> QED BY <2>1, <2>2, <2>3 DEF MoneyInv
<1>5. SaleInv'
  <2>1. RewardMarksSale' /\ RewardKeyStopsDoubleSale'
    BY <1>2 DEF SaleInv, RewardMarksSale, RewardKeyStopsDoubleSale, Rewarded
  <2>2. RefundRevokesAccess'
    BY <1>1, <1>2 DEF SaleInv, RefundRevokesAccess
  <2> QED BY <2>1, <2>2 DEF SaleInv
<1> QED BY <1>3, <1>4, <1>5

\* Finalizing a refund keeps the invariant, provided money goes to the wallet
\* only for an order whose method is the wallet.
LEMMA FinalizeKeeps ==
  ASSUME IInv, NEW o \in Orders, NEW walletRefund \in BOOLEAN,
         walletRefund => order[o].method = "balance",
         FinalizeRefund(o, walletRefund), SessionsMayClose
  PROVE  RowInv' /\ MoneyInv' /\ SaleInv'
<1> USE DEF IInv
<1>1. /\ order'[o].status = "canceled"
      /\ order'[o].pay = "refunded"
      /\ order'[o].method = order[o].method
      /\ \A p \in Orders \ {o} : order'[p] = order[p]
  BY RefundedRow
<1>2. UNCHANGED purchases
  BY DEF FinalizeRefund
<1>3. RowInv'
  <2>1. StatusPairs' /\ PendingMethod' /\ SessionsSound'
    BY <1>1 DEF RowInv, StatusPairs, PendingMethod, SessionsSound,
                SessionsMayClose
  <2>2. SessionOrdersExist'
    BY <1>1, OpenRequest DEF RowInv, SessionOrdersExist, SessionsMayClose, Request
  <2> QED BY <2>1, <2>2 DEF RowInv
<1>4. MoneyInv'
  <2>1. SwitchedIsCharged'
    <3> SUFFICES ASSUME NEW s \in Sessions, HasOrder(req'[s]),
                        req'[s].seen.method = "wechat",
                        order'[req'[s].order].method = "balance"
                 PROVE  purchases'[req'[s].order] >= 1
      BY DEF SwitchedIsCharged
    <3>1. req'[s] = req[s] /\ req[s].order \in Orders
      BY OpenRequest DEF SessionsMayClose, Request
    <3>2. order[req[s].order].method = "balance"
      BY <1>1, <3>1
    <3> QED BY <1>2, <3>1, <3>2 DEF MoneyInv, SwitchedIsCharged
  <2>2. WalletPaidIsCharged'
    BY <1>1, <1>2 DEF MoneyInv, WalletPaidIsCharged, Paid
  <2>3. WalletRefundBacked'
    <3>1. \A p \in Orders \ {o} : refundTx'[p] = refundTx[p]
      BY DEF FinalizeRefund, TypeOK
    <3>2. refundTx'[o] <= 1 /\ refundTx'[o] <= purchases[o]
      <4>1. CASE walletRefund /\ refundTx[o] = 0
        <5>1. purchases[o] >= 1
          BY <4>1 DEF FinalizeRefund, MoneyInv, WalletPaidIsCharged
        <5>2. refundTx'[o] = 1
          BY <4>1 DEF FinalizeRefund, TypeOK
        <5> QED BY <5>1, <5>2 DEF TypeOK
      <4>2. CASE ~(walletRefund /\ refundTx[o] = 0)
        BY <4>2 DEF FinalizeRefund, MoneyInv, WalletRefundBacked
      <4> QED BY <4>1, <4>2
    <3> QED BY <1>2, <3>1, <3>2 DEF MoneyInv, WalletRefundBacked
  <2> QED BY <2>1, <2>2, <2>3 DEF MoneyInv
<1>5. SaleInv'
  <2>1. /\ ents'[o] = 0
        /\ \A p \in Orders \ {o} : ents'[p] = ents[p] /\ rewards'[p] = rewards[p]
        /\ rewards'[o] = "none" => rewards[o] = "none"
    BY DEF FinalizeRefund, TypeOK
  <2>2. RewardMarksSale'
    BY <1>2, <2>1 DEF SaleInv, RewardMarksSale, Rewarded
  <2>3. RewardKeyStopsDoubleSale'
    BY <1>2, <2>1, NumbersAssumption DEF SaleInv, RewardKeyStopsDoubleSale, Rewarded
  <2>4. RefundRevokesAccess'
    BY <1>1, <2>1 DEF SaleInv, RefundRevokesAccess
  <2> QED BY <2>2, <2>3, <2>4 DEF SaleInv
<1> QED BY <1>3, <1>4, <1>5

-----------------------------------------------------------------------------
(* The invariant is kept: the other steps *)

\* The columns and counters the invariant reads, but for a method that becomes
\* WeChat's.
SameSale ==
  /\ \A p \in Orders :
       /\ order'[p].status = order[p].status
       /\ order'[p].pay = order[p].pay
       /\ order'[p].method \in {order[p].method, "wechat"}
  /\ UNCHANGED <<purchases, refundTx, ents, rewards>>

\* A step that only changes other columns, or moves an order to WeChat, keeps
\* the invariant.
LEMMA SameSaleKeeps ==
  ASSUME IInv, SameSale, SessionsMayClose
  PROVE  RowInv' /\ MoneyInv' /\ SaleInv'
<1> USE DEF IInv
<1>1. RowInv'
  <2>1. StatusPairs' /\ PendingMethod' /\ SessionsSound'
    BY DEF RowInv, StatusPairs, PendingMethod, SessionsSound, SessionsMayClose,
           SameSale
  <2>2. SessionOrdersExist'
    BY OpenRequest DEF RowInv, SessionOrdersExist, SessionsMayClose, Request, SameSale
  <2> QED BY <2>1, <2>2 DEF RowInv
<1>2. MoneyInv'
  <2>1. SwitchedIsCharged'
    BY OpenRequest
       DEF MoneyInv, SwitchedIsCharged, SessionsMayClose, Request, SameSale
  <2>2. WalletPaidIsCharged' /\ WalletRefundBacked'
    BY DEF MoneyInv, WalletPaidIsCharged, WalletRefundBacked, Paid, SameSale
  <2> QED BY <2>1, <2>2 DEF MoneyInv
<1>3. SaleInv'
  BY DEF SaleInv, RewardMarksSale, RewardKeyStopsDoubleSale,
         RefundRevokesAccess, Rewarded, SameSale
<1> QED BY <1>1, <1>2, <1>3

\* Creation keeps the invariant.
LEMMA CreateKeeps ==
  ASSUME IInv, NEW o \in Orders, NEW method \in {"balance", "wechat"},
         CreateOrder(o, method) \/ CreateVipOrder(o, method)
  PROVE  RowInv' /\ MoneyInv' /\ SaleInv'
<1> USE DEF IInv
<1>1. UNCHANGED <<purchases, refundTx, ents, rewards, req>>
  BY DEF CreateOrder, CreateVipOrder
<1>2. order[o].status = "absent"
  BY DEF CreateOrder, CreateVipOrder
<1>3. /\ order'[o].status = "pending" /\ order'[o].pay = "pending"
      /\ order'[o].method = method
      /\ \A p \in Orders \ {o} : order'[p] = order[p]
  <2>1. PICK held \in BOOLEAN :
          order' = [order EXCEPT ![o] = Pending(method, held)]
    BY DEF CreateOrder, CreateVipOrder, MarkUnscheduled
  <2>2. /\ order'[o] = Pending(method, held)
        /\ \A p \in Orders \ {o} : order'[p] = order[p]
    BY <2>1 DEF TypeOK
  <2> QED BY <2>2 DEF Pending, Absent
<1>4. ASSUME NEW s \in Sessions, HasOrder(req[s])
      PROVE  req[s].order \in Orders \ {o}
  BY <1>2, <1>4, OpenRequest DEF RowInv, SessionOrdersExist, Request
<1>5. RowInv'
  <2>1. StatusPairs' /\ PendingMethod' /\ SessionsSound'
    BY <1>1, <1>3 DEF RowInv, StatusPairs, PendingMethod, SessionsSound
  <2>2. SessionOrdersExist'
    BY <1>1, <1>3, <1>4 DEF RowInv, SessionOrdersExist
  <2> QED BY <2>1, <2>2 DEF RowInv
<1>6. MoneyInv'
  <2>1. SwitchedIsCharged'
    BY <1>1, <1>3, <1>4 DEF MoneyInv, SwitchedIsCharged
  <2>2. WalletPaidIsCharged' /\ WalletRefundBacked'
    BY <1>1, <1>3 DEF MoneyInv, WalletPaidIsCharged, WalletRefundBacked, Paid
  <2> QED BY <2>1, <2>2 DEF MoneyInv
<1>7. SaleInv'
  BY <1>1, <1>3 DEF SaleInv, RewardMarksSale, RewardKeyStopsDoubleSale,
                    RefundRevokesAccess, Rewarded
<1> QED BY <1>5, <1>6, <1>7

\* Opening a session keeps the invariant.
LEMMA LoadKeeps ==
  ASSUME IInv, NEW s \in Sessions, NEW op \in Endpoints, NEW o \in Orders,
         Load(s, op, o)
  PROVE  RowInv' /\ MoneyInv' /\ SaleInv'
<1> USE DEF IInv
<1>1. UNCHANGED <<order, purchases, refundTx, ents, rewards>>
  BY DEF Load, db
<1>2. /\ req'[s].pc = "loaded" /\ req'[s].op = op
      /\ req'[s].order = o /\ req'[s].seen = order[o]
      /\ \A t \in Sessions \ {s} : req'[t] = req[t]
  BY DEF Load, TypeOK
<1>3. /\ order[o].status = "pending" /\ order[o].pay = "pending"
      /\ order[o].method # "mock"
      /\ op = "sync" => order[o].method = "wechat"
  BY DEF Load, Payable, RowInv, StatusPairs, PendingMethod
<1>4. RowInv'
  <2>1. StatusPairs' /\ PendingMethod'
    BY <1>1 DEF RowInv, StatusPairs, PendingMethod
  <2>2. SessionsSound'
    BY <1>2, <1>3 DEF RowInv, SessionsSound
  <2>3. SessionOrdersExist'
    BY <1>1, <1>2, <1>3 DEF RowInv, SessionOrdersExist
  <2> QED BY <2>1, <2>2, <2>3 DEF RowInv
<1>5. MoneyInv'
  <2>1. SwitchedIsCharged'
    BY <1>1, <1>2 DEF MoneyInv, SwitchedIsCharged
  <2>2. WalletPaidIsCharged' /\ WalletRefundBacked'
    BY <1>1 DEF MoneyInv, WalletPaidIsCharged, WalletRefundBacked, Paid
  <2> QED BY <2>1, <2>2 DEF MoneyInv
<1>6. SaleInv'
  BY <1>1 DEF SaleInv, RewardMarksSale, RewardKeyStopsDoubleSale,
              RefundRevokesAccess, Rewarded
<1> QED BY <1>4, <1>5, <1>6

\* Every step of a session keeps the invariant: here the stale row matters.
LEMMA SessionKeeps ==
  ASSUME IInv, NEW s \in Sessions, SessionStep(s)
  PROVE  RowInv' /\ MoneyInv' /\ SaleInv'
<1> DEFINE r == req[s]
<1> USE DEF IInv
<1>0. ASSUME HasOrder(req[s])
      PROVE  /\ r \in Request /\ r.order \in Orders /\ r.seen \in Row
             /\ r.seen.status = "pending" /\ r.seen.pay = "pending"
             /\ r.seen.method # "mock"
             /\ r.pc = "queried" => r.seen.method = "wechat"
  BY <1>0, OpenRequest DEF Request, RowInv, SessionsSound
<1>1. ASSUME Close(s) PROVE SessionsMayClose
  BY <1>1 DEF Close, Closed, HasOrder, SessionsMayClose, TypeOK
<1>2. CASE PayWithBalance(s)
  <2>1. HasOrder(req[s])
    BY <1>2 DEF PayWithBalance, HasOrder
  <2>2. /\ MarkOrderPaid(r.order, r.seen, r.vip, "balance", "wallet")
        /\ ~PayConflict(r.order, r.profile)
        /\ ChargesFor(r.order, r.seen, "balance")
        /\ UNCHANGED refundTx /\ Close(s)
    BY <1>2 DEF PayWithBalance, ChargesFor
  <2>3. "balance" \in Method /\ "wallet" \in Txn
    BY DEF Method, Txn
  <2> QED BY <1>0, <1>1, <2>1, <2>2, <2>3, BookingKeeps
<1>3. CASE MockPay(s)
  <2>1. HasOrder(req[s])
    BY <1>3 DEF MockPay, HasOrder
  <2>2. /\ MarkOrderPaid(r.order, r.seen, r.vip, "mock", "mock")
        /\ ~PayConflict(r.order, r.profile)
        /\ ChargesFor(r.order, r.seen, "mock")
        /\ UNCHANGED refundTx /\ Close(s)
    BY <1>0, <1>3, <2>1 DEF MockPay, ChargesFor
  <2>3. "mock" \in Method /\ "mock" \in Txn
    BY DEF Method, Txn
  <2> QED BY <1>0, <1>1, <2>1, <2>2, <2>3, BookingKeeps
<1>4. CASE WechatPay(s)
  <2>1. HasOrder(req[s])
    BY <1>4 DEF WechatPay, HasOrder
  <2> DEFINE new == [r.seen EXCEPT !.method = "wechat"]
             row == Flush(order[r.order], r.seen, new)
  <2>2. new.status = r.seen.status /\ new.pay = r.seen.pay /\ new.method = "wechat"
    BY <1>0, <2>1 DEF Row
  <2>3. /\ row.status = order[r.order].status
        /\ row.pay = order[r.order].pay
        /\ row.method \in {order[r.order].method, "wechat"}
    <3> HIDE DEF new
    <3> QED BY <2>2 DEF Flush, Column
  <2>4. order' = [order EXCEPT ![r.order] = row]
    BY <1>4 DEF WechatPay
  <2>5. SameSale
    <3>1. /\ order'[r.order] = row
          /\ \A p \in Orders \ {r.order} : order'[p] = order[p]
      <4> HIDE DEF row
      <4> QED BY <1>0, <2>1, <2>4 DEF TypeOK
    <3>2. UNCHANGED <<purchases, refundTx, ents, rewards>>
      BY <1>4 DEF WechatPay
    <3> HIDE DEF row
    <3> QED BY <2>3, <3>1, <3>2 DEF SameSale
  <2>6. SessionsMayClose
    BY <1>1, <1>4 DEF WechatPay
  <2> QED BY <2>5, <2>6, SameSaleKeeps
<1>5. CASE SyncQuery(s)
  <2>1. HasOrder(req[s])
    BY <1>5 DEF SyncQuery, HasOrder
  <2>2. /\ UNCHANGED <<order, purchases, refundTx, ents, rewards>>
        /\ req[s].op = "sync"
    BY <1>5 DEF SyncQuery, db
  <2>3. /\ req'[s].seen = r.seen /\ req'[s].op = r.op
        /\ req'[s].order = r.order
        /\ \A t \in Sessions \ {s} : req'[t] = req[t]
    <3>1. req' = [req EXCEPT ![s] = [r EXCEPT !.pc = "queried",
                                              !.trade = wx[r.order]]]
      BY <1>5 DEF SyncQuery, TypeOK
    <3>2. /\ req'[s] = [r EXCEPT !.pc = "queried", !.trade = wx[r.order]]
          /\ \A t \in Sessions \ {s} : req'[t] = req[t]
      BY <3>1 DEF TypeOK
    <3> QED BY <1>0, <2>1, <3>2 DEF Request
  <2>4. RowInv'
    <3>1. StatusPairs' /\ PendingMethod'
      BY <2>2 DEF RowInv, StatusPairs, PendingMethod
    <3>2. SessionsSound'
      BY <2>1, <2>2, <2>3 DEF RowInv, SessionsSound
    <3>3. SessionOrdersExist'
      BY <2>1, <2>2, <2>3 DEF RowInv, SessionOrdersExist
    <3> QED BY <3>1, <3>2, <3>3 DEF RowInv
  <2>5. MoneyInv'
    <3>1. SwitchedIsCharged'
      BY <2>1, <2>2, <2>3 DEF MoneyInv, SwitchedIsCharged
    <3>2. WalletPaidIsCharged' /\ WalletRefundBacked'
      BY <2>2 DEF MoneyInv, WalletPaidIsCharged, WalletRefundBacked, Paid
    <3> QED BY <3>1, <3>2 DEF MoneyInv
  <2>6. SaleInv'
    BY <2>2 DEF SaleInv, RewardMarksSale, RewardKeyStopsDoubleSale,
                RefundRevokesAccess, Rewarded
  <2> QED BY <2>4, <2>5, <2>6
<1>6. CASE SyncApply(s)
  <2>1. HasOrder(req[s]) /\ r.pc = "queried"
    BY <1>6 DEF SyncApply, HasOrder
  <2>2. r.seen.method = "wechat"
        /\ (order[r.order].method = "balance" => purchases[r.order] >= 1)
    BY <1>0, <2>1 DEF MoneyInv, SwitchedIsCharged
  <2>3. /\ MarkOrderPaid(r.order, r.seen, r.vip, "wechat", "wechat")
        /\ ~PayConflict(r.order, r.profile)
        /\ ChargesFor(r.order, r.seen, "wechat")
        /\ UNCHANGED refundTx /\ Close(s)
    BY <1>6, <2>2 DEF SyncApply, ChargesFor
  <2>4. "wechat" \in Method /\ "wechat" \in Txn
    BY DEF Method, Txn
  <2> QED BY <1>0, <1>1, <2>1, <2>3, <2>4, BookingKeeps
<1>7. CASE SyncCancel(s)
  <2>1. HasOrder(req[s])
    BY <1>7 DEF SyncCancel, HasOrder
  <2>2. CancelUnpaidOrder(r.order, r.seen) /\ Close(s)
    BY <1>7 DEF SyncCancel
  <2> QED BY <1>0, <1>1, <2>1, <2>2, CancelKeeps
<1>8. CASE Abort(s)
  <2>1. SameSale /\ SessionsMayClose
    BY <1>1, <1>8 DEF Abort, SameSale, db
  <2> QED BY <2>1, SameSaleKeeps
<1> QED BY <1>2, <1>3, <1>4, <1>5, <1>6, <1>7, <1>8 DEF SessionStep

\* The payment notification and the timeout job keep the invariant.
LEMMA JobKeeps ==
  ASSUME IInv, NEW o \in Orders, PayNotify(o) \/ Timeout(o)
  PROVE  RowInv' /\ MoneyInv' /\ SaleInv'
<1> USE DEF IInv
<1>1. SessionsMayClose
  BY DEF PayNotify, Timeout, TimeoutCancel, TimeoutPaid, TimeoutSkip,
         SessionsMayClose
<1>2. order[o] \in Row /\ "wechat" \in Method /\ "wechat" \in Txn
  BY DEF TypeOK, Method, Txn
<1>3. Payable(order[o]) => order[o].status = "pending" /\ order[o].pay = "pending"
  BY DEF Payable, RowInv, StatusPairs
<1>4. CASE PayNotify(o) \/ TimeoutPaid(o)
  <2>1. /\ MarkOrderPaid(o, order[o], vip, "wechat", "wechat")
        /\ ~PayConflict(o, profile)
        /\ Payable(order[o])
        /\ ChargesFor(o, order[o], "wechat")
        /\ UNCHANGED refundTx
    BY <1>4 DEF PayNotify, TimeoutPaid, ChargesFor
  <2> QED BY <1>1, <1>2, <1>3, <2>1, BookingKeeps
<1>5. CASE TimeoutCancel(o)
  <2>1. CancelUnpaidOrder(o, order[o]) /\ Payable(order[o])
    BY <1>5 DEF TimeoutCancel, CancelUnpaidOrder
  <2> QED BY <1>1, <1>2, <1>3, <2>1, CancelKeeps
<1>6. CASE TimeoutSkip(o)
  <2>1. SameSale
    BY <1>6 DEF TimeoutSkip, SameSale, db
  <2> QED BY <1>1, <2>1, SameSaleKeeps
<1> QED BY <1>4, <1>5, <1>6 DEF Timeout

\* Writing the result of a WeChat refund keeps the invariant.
LEMMA RefundStatusKeeps ==
  ASSUME IInv, NEW o \in Orders, NEW status, ApplyRefundStatus(o, status),
         UNCHANGED req
  PROVE  RowInv' /\ MoneyInv' /\ SaleInv'
<1> USE DEF IInv
<1>1. SessionsMayClose
  BY DEF SessionsMayClose
<1>2. CASE FinalizeRefund(o, FALSE)
  BY <1>1, <1>2, FinalizeKeeps
<1>3. CASE ~FinalizeRefund(o, FALSE)
  <2>1. PICK low :
          /\ order' = [order EXCEPT ![o].refund = low, ![o].refundNo = TRUE]
          /\ UNCHANGED <<purchases, refundTx, ents, rewards>>
    BY <1>3 DEF ApplyRefundStatus
  <2>2. /\ order'[o] = [order[o] EXCEPT !.refund = low, !.refundNo = TRUE]
        /\ \A p \in Orders \ {o} : order'[p] = order[p]
    BY <2>1 DEF TypeOK
  <2>3. SameSale
    <3>1. order[o] \in Row
      BY DEF TypeOK
    <3>2. /\ order'[o].status = order[o].status
          /\ order'[o].pay = order[o].pay
          /\ order'[o].method = order[o].method
      BY <2>2, <3>1 DEF Row
    <3> QED BY <2>1, <2>2, <3>2 DEF SameSale
  <2> QED BY <1>1, <2>3, SameSaleKeeps
<1> QED BY <1>2, <1>3

\* Every refund step keeps the invariant.
LEMMA RefundKeeps ==
  ASSUME IInv, NEW o \in Orders, RefundStep(o)
  PROVE  RowInv' /\ MoneyInv' /\ SaleInv'
<1> USE DEF IInv
<1>1. UNCHANGED req /\ SessionsMayClose
  BY DEF RefundStep, RequestRefund, AdminRefundLocal, AdminRefundQuery,
         AdminRefundWechat, AdminRefundLost, RefundNotify, RefundEnds,
         SessionsMayClose
<1>2. CASE RequestRefund(o)
  <2>1. /\ order'[o] = [order[o] EXCEPT !.refund = "requested"]
        /\ \A p \in Orders \ {o} : order'[p] = order[p]
    BY <1>2 DEF RequestRefund, TypeOK
  <2>2. order'[o].status = order[o].status /\ order'[o].pay = order[o].pay
        /\ order'[o].method = order[o].method
    BY <2>1 DEF TypeOK, Row
  <2>3. SameSale
    BY <1>2, <2>1, <2>2 DEF RequestRefund, SameSale
  <2> QED BY <1>1, <2>3, SameSaleKeeps
<1>3. CASE AdminRefundLocal(o)
  <2>1. FinalizeRefund(o, order[o].method = "balance")
    BY <1>3 DEF AdminRefundLocal
  <2>2. (order[o].method = "balance") \in BOOLEAN
    OBVIOUS
  <2> QED BY <1>1, <2>1, <2>2, FinalizeKeeps
<1>4. CASE AdminRefundQuery(o)
  BY <1>1, <1>4, RefundStatusKeeps DEF AdminRefundQuery
<1>5. ASSUME NEW status \in RefundStates, AdminRefundWechat(o, status)
      PROVE  RowInv' /\ MoneyInv' /\ SaleInv'
  BY <1>1, <1>5, RefundStatusKeeps DEF AdminRefundWechat
<1>6. ASSUME NEW status \in RefundStates,
             AdminRefundLost(o, status) \/ RefundEnds(o, status)
      PROVE  RowInv' /\ MoneyInv' /\ SaleInv'
  <2>1. SameSale
    BY <1>6 DEF AdminRefundLost, RefundEnds, SameSale, db
  <2> QED BY <1>1, <2>1, SameSaleKeeps
<1>7. ASSUME NEW status \in RefundStates, RefundNotify(o, status)
      PROVE  RowInv' /\ MoneyInv' /\ SaleInv'
  <2>1. CASE FinalizeRefund(o, FALSE)
    BY <1>1, <2>1, FinalizeKeeps
  <2>2. CASE ~FinalizeRefund(o, FALSE)
    <3>1. PICK low :
            /\ order' = [order EXCEPT ![o].refund = low]
            /\ UNCHANGED <<purchases, refundTx, ents, rewards>>
      BY <1>7, <2>2 DEF RefundNotify
    <3>2. /\ order'[o] = [order[o] EXCEPT !.refund = low]
          /\ \A p \in Orders \ {o} : order'[p] = order[p]
      BY <3>1 DEF TypeOK
    <3>3. order'[o].status = order[o].status /\ order'[o].pay = order[o].pay
          /\ order'[o].method = order[o].method
      BY <3>2 DEF TypeOK, Row
    <3>4. SameSale
      BY <3>1, <3>2, <3>3 DEF SameSale
    <3> QED BY <1>1, <3>4, SameSaleKeeps
  <2> QED BY <2>1, <2>2
<1> QED BY <1>2, <1>3, <1>4, <1>5, <1>6, <1>7 DEF RefundStep

\* What WeChat has notified stays true: a refund that succeeded is final.
LEMMA NotesKeep ==
  ASSUME TypeOK, NotesTrue, [Next]_vars
  PROVE  NotesTrue'
<1>1. CASE UNCHANGED <<wxr, notes>>
  BY <1>1 DEF NotesTrue
<1>2. ASSUME NEW o \in Orders, NEW status, ProviderRefund(o, status)
      PROVE  NotesTrue'
  BY <1>2 DEF ProviderRefund, NotesTrue, TypeOK
<1>3. ASSUME NEW o \in Orders, NEW status, RefundEnds(o, status)
      PROVE  NotesTrue'
  BY <1>3 DEF RefundEnds, NotesTrue, TypeOK
<1>4. ASSUME NEW o \in Orders, RefundStep(o) PROVE NotesTrue'
  BY <1>1, <1>2, <1>3, <1>4
     DEF RefundStep, RequestRefund, AdminRefundLocal, AdminRefundQuery,
         AdminRefundWechat, AdminRefundLost, RefundNotify
<1>5. ASSUME NEW s \in Sessions, Authenticate(s) \/ SessionStep(s)
      PROVE  UNCHANGED <<wxr, notes>>
  BY <1>5 DEF Authenticate, SessionStep, PayWithBalance, MockPay, WechatPay, SyncQuery,
              SyncApply, SyncCancel, Abort
<1>6. ASSUME NEW o \in Orders,
             PayNotify(o) \/ Timeout(o) \/ UserPays(o) \/ TradeExpires(o)
      PROVE  UNCHANGED <<wxr, notes>>
  BY <1>6 DEF PayNotify, Timeout, TimeoutCancel, TimeoutPaid, TimeoutSkip,
              UserPays, TradeExpires
<1>7. ASSUME NEW o \in Orders, NEW method,
             CreateOrder(o, method) \/ CreateVipOrder(o, method)
      PROVE  UNCHANGED <<wxr, notes>>
  BY <1>7 DEF CreateOrder, CreateVipOrder
<1>8. ASSUME NEW s, NEW op, NEW o, Load(s, op, o) PROVE UNCHANGED <<wxr, notes>>
  BY <1>8 DEF Load
<1>9. ASSUME NEW amount, AdjustWallet(amount) PROVE UNCHANGED <<wxr, notes>>
  BY <1>9 DEF AdjustWallet
<1>10. CASE UNCHANGED vars
  BY <1>1, <1>10 DEF vars
<1>11. CASE Next
  BY <1>1, <1>4, <1>5, <1>6, <1>7, <1>8, <1>9, <1>11 DEF Next
<1> QED BY <1>10, <1>11

-----------------------------------------------------------------------------
(* The theorems of overlapping requests *)

\* The initial state satisfies the invariant.
LEMMA InitInv == Init => IInv
<1> SUFFICES ASSUME Init PROVE IInv
  OBVIOUS
<1>1. TypeOK
  BY InitType
<1>2. \A o \in Orders : order[o].status = "absent" /\ order[o].pay = "absent"
                        /\ order[o].method = "balance"
  BY DEF Init, Absent
<1>3. /\ \A s \in Sessions : ~HasOrder(req[s])
      /\ \A o \in Orders : /\ purchases[o] = 0 /\ refundTx[o] = 0
                           /\ ents[o] = 0 /\ notes[o] = {}
  BY DEF Init, Closed, HasOrder
<1>4. RowInv
  BY <1>2, <1>3 DEF RowInv, StatusPairs, PendingMethod, SessionsSound,
                    SessionOrdersExist
<1>5. MoneyInv
  BY <1>2, <1>3 DEF MoneyInv, SwitchedIsCharged, WalletPaidIsCharged,
                    WalletRefundBacked, Paid
<1>6. SaleInv
  BY <1>3, NumbersAssumption
     DEF SaleInv, RewardMarksSale, RewardKeyStopsDoubleSale, RefundRevokesAccess
<1>7. NotesTrue
  BY <1>3 DEF NotesTrue
<1> QED BY <1>1, <1>4, <1>5, <1>6, <1>7 DEF IInv

\* Every step keeps the invariant.
LEMMA NextInv == IInv /\ [Next]_vars => IInv'
<1> SUFFICES ASSUME IInv, [Next]_vars PROVE IInv'
  OBVIOUS
<1>1. TypeOK' /\ NotesTrue'
  BY NextType, NotesKeep DEF IInv
<1>2. RowInv' /\ MoneyInv' /\ SaleInv'
  <2>1. ASSUME NEW o \in Orders, NEW method \in {"balance", "wechat"},
               CreateOrder(o, method) \/ CreateVipOrder(o, method)
        PROVE  RowInv' /\ MoneyInv' /\ SaleInv'
    BY <2>1, CreateKeeps
  <2>2. ASSUME NEW s \in Sessions, NEW op \in Endpoints, NEW o \in Orders,
               Load(s, op, o)
        PROVE  RowInv' /\ MoneyInv' /\ SaleInv'
    BY <2>2, LoadKeeps
  <2>3. ASSUME NEW s \in Sessions, Authenticate(s) \/ SessionStep(s)
        PROVE  RowInv' /\ MoneyInv' /\ SaleInv'
    <3>1. CASE Authenticate(s)
      <4>1. SameSale /\ SessionsMayClose
        BY <3>1 DEF Authenticate, SameSale, SessionsMayClose, HasOrder, db, IInv,
                    TypeOK
      <4> QED BY <4>1, SameSaleKeeps
    <3> QED BY <2>3, <3>1, SessionKeeps
  <2>4. ASSUME NEW o \in Orders, PayNotify(o) \/ Timeout(o)
        PROVE  RowInv' /\ MoneyInv' /\ SaleInv'
    BY <2>4, JobKeeps
  <2>5. ASSUME NEW o \in Orders, RefundStep(o)
        PROVE  RowInv' /\ MoneyInv' /\ SaleInv'
    BY <2>5, RefundKeeps
  <2>6. ASSUME NEW o \in Orders, UserPays(o) \/ TradeExpires(o)
        PROVE  RowInv' /\ MoneyInv' /\ SaleInv'
    <3>1. SameSale /\ SessionsMayClose
      BY <2>6 DEF UserPays, TradeExpires, SameSale, SessionsMayClose, db
    <3> QED BY <3>1, SameSaleKeeps
  <2>7. ASSUME NEW amount \in {Price, -Price}, AdjustWallet(amount)
        PROVE  RowInv' /\ MoneyInv' /\ SaleInv'
    <3>1. SameSale /\ SessionsMayClose
      BY <2>7 DEF AdjustWallet, SameSale, SessionsMayClose
    <3> QED BY <3>1, SameSaleKeeps
  <2>8. CASE UNCHANGED vars
    <3>1. SameSale /\ SessionsMayClose
      BY <2>8 DEF vars, db, SameSale, SessionsMayClose
    <3> QED BY <3>1, SameSaleKeeps
  <2> QED BY <2>1, <2>2, <2>3, <2>4, <2>5, <2>6, <2>7, <2>8 DEF Next
<1> QED BY <1>1, <1>2 DEF IInv

\* The invariant holds in every reachable state.
THEOREM Invariance == Spec => []IInv
BY InitInv, NextInv, PTL DEF Spec

\* Stale sessions never tear an order's two status columns apart.
THEOREM StatusPairsHold == Spec => []StatusPairs
BY Invariance, PTL DEF IInv, RowInv

\* The wallet gets at most one refund per order, and only after a charge.
THEOREM WalletRefundsAreBacked == Spec => []WalletRefundBacked
BY Invariance, PTL DEF IInv, MoneyInv

\* A refunded order gives no access, stale second payments included.
THEOREM RefundsRevokeAccess == Spec => []RefundRevokesAccess
BY Invariance, PTL DEF IInv, SaleInv

\* While purchases earn points, no order is charged or delivered twice.
THEOREM RewardKeyIsEnough == Spec => []RewardKeyStopsDoubleSale
BY Invariance, PTL DEF IInv, SaleInv

-----------------------------------------------------------------------------
(* Refunds wait for WeChat *)

\* No order becomes refunded in this step.
NoRefund == \A p \in Orders : order'[p].pay = "refunded" => order[p].pay = "refunded"

\* What RefundWaitsForWechat says of one step.
WaitsForWechat ==
  \A o \in Orders :
    (/\ order[o].method = "wechat" /\ order[o].pay = "paid"
     /\ order[o]'.pay = "refunded")
       => wxr[o]' = "SUCCESS"

\* Sessions refund nothing.
LEMMA SessionRefundsNothing ==
  ASSUME IInv, NEW s \in Sessions, SessionStep(s)
  PROVE  NoRefund
<1> DEFINE r == req[s]
<1>0. ASSUME HasOrder(req[s])
      PROVE  /\ r.order \in Orders /\ r.seen \in Row
             /\ r.seen.status = "pending" /\ r.seen.pay = "pending"
  BY <1>0, OpenRequest DEF IInv, Request, RowInv, SessionsSound
<1>1. ASSUME NEW method \in Method, NEW txn \in Txn, HasOrder(req[s]),
             MarkOrderPaid(r.order, r.seen, r.vip, method, txn)
      PROVE  NoRefund
  BY <1>0, <1>1, BookedRow DEF NoRefund, IInv
<1>2. CASE PayWithBalance(s) \/ MockPay(s) \/ SyncApply(s)
  <2>1. HasOrder(req[s])
    BY <1>2 DEF PayWithBalance, MockPay, SyncApply, HasOrder
  <2>2. PICK method \in Method, txn \in Txn :
          MarkOrderPaid(r.order, r.seen, r.vip, method, txn)
    BY <1>2 DEF PayWithBalance, MockPay, SyncApply, Method, Txn
  <2> QED BY <1>1, <2>1, <2>2
<1>3. CASE WechatPay(s)
  <2>1. HasOrder(req[s])
    BY <1>3 DEF WechatPay, HasOrder
  <2> DEFINE new == [r.seen EXCEPT !.method = "wechat"]
             row == Flush(order[r.order], r.seen, new)
  <2>2. new.pay = r.seen.pay
    BY <1>0, <2>1 DEF Row
  <2>3. row.pay = order[r.order].pay
    <3> HIDE DEF new
    <3> QED BY <2>2 DEF Flush, Column
  <2>4. /\ order'[r.order] = row
        /\ \A p \in Orders \ {r.order} : order'[p] = order[p]
    <3>1. order' = [order EXCEPT ![r.order] = row]
      BY <1>3 DEF WechatPay
    <3> HIDE DEF row
    <3> QED BY <1>0, <2>1, <3>1 DEF IInv, TypeOK
  <2> HIDE DEF row
  <2> QED BY <2>3, <2>4 DEF NoRefund
<1>4. CASE SyncCancel(s)
  <2>1. HasOrder(req[s]) /\ CancelUnpaidOrder(r.order, r.seen)
    BY <1>4 DEF SyncCancel, HasOrder
  <2> QED BY <1>0, <2>1, CanceledRow DEF NoRefund, IInv
<1>5. CASE SyncQuery(s) \/ Abort(s)
  BY <1>5 DEF SyncQuery, Abort, NoRefund, db
<1> QED BY <1>2, <1>3, <1>4, <1>5 DEF SessionStep

\* Neither creation nor loading, notification, timeout, WeChat or the wallet
\* refunds an order.
LEMMA OtherStepsRefundNothing ==
  ASSUME IInv, [Next]_vars,
         ~\E s \in Sessions : SessionStep(s),
         ~\E o \in Orders : RefundStep(o)
  PROVE  NoRefund
<1> USE DEF IInv
<1>1. ASSUME NEW o \in Orders, NEW method \in {"balance", "wechat"},
             CreateOrder(o, method) \/ CreateVipOrder(o, method)
      PROVE  NoRefund
  <2>1. PICK held \in BOOLEAN :
          order' = [order EXCEPT ![o] = Pending(method, held)]
    BY <1>1 DEF CreateOrder, CreateVipOrder, MarkUnscheduled
  <2>2. /\ order'[o] = Pending(method, held)
        /\ \A p \in Orders \ {o} : order'[p] = order[p]
    BY <2>1 DEF TypeOK
  <2>3. order'[o].pay = "pending"
    BY <2>2 DEF Pending, Absent
  <2> QED BY <2>2, <2>3 DEF NoRefund
<1>2. ASSUME NEW o \in Orders, PayNotify(o) \/ Timeout(o)
      PROVE  NoRefund
  <2>1. order[o] \in Row /\ "wechat" \in Method /\ "wechat" \in Txn
    BY DEF TypeOK, Method, Txn
  <2>2. Payable(order[o]) => order[o].status = "pending" /\ order[o].pay = "pending"
    BY DEF Payable, RowInv, StatusPairs
  <2>3. CASE PayNotify(o) \/ TimeoutPaid(o)
    <3>1. /\ MarkOrderPaid(o, order[o], vip, "wechat", "wechat")
          /\ Payable(order[o])
      BY <2>3 DEF PayNotify, TimeoutPaid
    <3> QED BY <2>1, <2>2, <3>1, BookedRow DEF NoRefund
  <2>4. CASE TimeoutCancel(o)
    <3>1. CancelUnpaidOrder(o, order[o]) /\ Payable(order[o])
      BY <2>4 DEF TimeoutCancel, CancelUnpaidOrder
    <3> QED BY <2>1, <2>2, <3>1, CanceledRow DEF NoRefund
  <2>5. CASE TimeoutSkip(o)
    BY <2>5 DEF TimeoutSkip, NoRefund, db
  <2> QED BY <1>2, <2>3, <2>4, <2>5 DEF Timeout
<1>3. CASE UNCHANGED order
  BY <1>3 DEF NoRefund
<1>4. ASSUME NEW o \in Orders, UserPays(o) \/ TradeExpires(o)
      PROVE  UNCHANGED order
  BY <1>4 DEF UserPays, TradeExpires, db
<1>5. ASSUME NEW amount, AdjustWallet(amount) PROVE UNCHANGED order
  BY <1>5 DEF AdjustWallet
<1>6. /\ \A s, op, o : Load(s, op, o) => UNCHANGED order
      /\ \A s : Authenticate(s) => UNCHANGED order
  BY DEF Load, Authenticate, db
<1>7. CASE UNCHANGED vars
  BY <1>3, <1>7 DEF vars, db
<1> QED BY <1>1, <1>2, <1>3, <1>4, <1>5, <1>6, <1>7 DEF Next

\* A refund step finalizes an order paid through WeChat only on a success.
LEMMA RefundStepWaits ==
  ASSUME IInv, NEW o \in Orders, RefundStep(o)
  PROVE  WaitsForWechat
<1> USE DEF IInv
<1>1. ASSUME NEW walletRefund, FinalizeRefund(o, walletRefund),
             order[o].method = "wechat" => wxr'[o] = "SUCCESS"
      PROVE  WaitsForWechat
  BY <1>1, RefundedRow DEF WaitsForWechat
<1>2. ASSUME NEW low, \/ order' = [order EXCEPT ![o].refund = low]
                      \/ order' = [order EXCEPT ![o].refund = low,
                                                ![o].refundNo = TRUE]
      PROVE  WaitsForWechat
  <2>1. order[o] \in Row
    BY DEF TypeOK
  <2>2. /\ order'[o] \in {[order[o] EXCEPT !.refund = low],
                          [order[o] EXCEPT !.refund = low, !.refundNo = TRUE]}
        /\ \A p \in Orders \ {o} : order'[p] = order[p]
    BY <1>2 DEF TypeOK
  <2>3. order'[o].pay = order[o].pay
    BY <2>1, <2>2 DEF Row
  <2> QED BY <2>2, <2>3 DEF WaitsForWechat
<1>3. ASSUME NEW status, ApplyRefundStatus(o, status),
             status = "SUCCESS" => wxr'[o] = "SUCCESS"
      PROVE  WaitsForWechat
  BY <1>1, <1>2, <1>3 DEF ApplyRefundStatus
<1>4. CASE RequestRefund(o)
  BY <1>2, <1>4 DEF RequestRefund
<1>5. CASE AdminRefundLocal(o)
  BY <1>1, <1>5 DEF AdminRefundLocal
<1>6. CASE AdminRefundQuery(o)
  BY <1>3, <1>6 DEF AdminRefundQuery
<1>7. ASSUME NEW status \in RefundStates, AdminRefundWechat(o, status)
      PROVE  WaitsForWechat
  <2>1. wxr'[o] = status
    BY <1>7 DEF AdminRefundWechat, ProviderRefund, TypeOK
  <2> QED BY <1>3, <1>7, <2>1 DEF AdminRefundWechat
<1>8. ASSUME NEW status \in RefundStates, RefundNotify(o, status)
      PROVE  WaitsForWechat
  <2>1. status = "SUCCESS" => wxr'[o] = "SUCCESS"
    BY <1>8 DEF RefundNotify, NotesTrue
  <2>2. CASE status = "SUCCESS"
    BY <1>1, <1>8, <2>1, <2>2 DEF RefundNotify
  <2>3. CASE status # "SUCCESS"
    BY <1>2, <1>8, <2>3 DEF RefundNotify
  <2> QED BY <2>2, <2>3
<1>9. ASSUME NEW status \in RefundStates,
             AdminRefundLost(o, status) \/ RefundEnds(o, status)
      PROVE  WaitsForWechat
  BY <1>9 DEF AdminRefundLost, RefundEnds, WaitsForWechat, db
<1> QED BY <1>4, <1>5, <1>6, <1>7, <1>8, <1>9 DEF RefundStep

\* No local refund of a WeChat payment before WeChat reports its success.
THEOREM RefundsWaitForWechat == Spec => RefundWaitsForWechat
<1>1. ASSUME IInv, [Next]_vars PROVE WaitsForWechat
  <2>1. CASE \E s \in Sessions : SessionStep(s)
    BY <1>1, <2>1, SessionRefundsNothing DEF NoRefund, WaitsForWechat
  <2>2. CASE \E o \in Orders : RefundStep(o)
    BY <1>1, <2>2, RefundStepWaits
  <2>3. CASE /\ ~\E s \in Sessions : SessionStep(s)
             /\ ~\E o \in Orders : RefundStep(o)
    BY <1>1, <2>3, OtherStepsRefundNothing DEF NoRefund, WaitsForWechat
  <2> QED BY <2>1, <2>2, <2>3
<1>2. ASSUME IInv, [Next]_vars PROVE [WaitsForWechat]_vars
  BY <1>1, <1>2
<1> QED BY <1>2, Invariance, PTL DEF Spec, RefundWaitsForWechat, WaitsForWechat

-----------------------------------------------------------------------------
(* Requests that do not overlap: what a session loaded is still there *)

\* The trade at WeChat is over, or never was: nobody can pay it.
Dead == {"NONE", "CLOSED", "REFUND"}

\* At most one session is open.
Alone ==
  \A s, t \in Sessions : req[s] # Closed /\ req[t] # Closed => s = t

\* An open session holds the current user and the current row.
Fresh ==
  \A s \in Sessions :
    /\ req[s] # Closed => req[s].balance = balance /\ req[s].vip = vip
    /\ HasOrder(req[s]) => req[s].seen = order[req[s].order]

\* A trade reported closed stays closed.
ReportTrue ==
  \A s \in Sessions :
    req[s].pc = "queried" /\ req[s].trade = "CLOSED"
      => wx[req[s].order] = "CLOSED"

SessionInv == Alone /\ Fresh /\ ReportTrue

\* With every session closed there is nothing to be stale.
LEMMA ClosedSessions ==
  ASSUME \A s \in Sessions : req'[s] = Closed
  PROVE  SessionInv'
BY DEF SessionInv, Alone, Fresh, ReportTrue, Closed, HasOrder

\* Without overlap, other work starts only when every session is closed.
LEMMA QuietIsClosed ==
  ASSUME ~Overlap, Quiet
  PROVE  \A s \in Sessions : req[s] = Closed
BY DEF Quiet

\* The only open session closes.
LEMMA LastCloses ==
  ASSUME TypeOK, Alone, NEW s \in Sessions, req[s] # Closed, Close(s)
  PROVE  \A t \in Sessions : req'[t] = Closed
BY DEF TypeOK, Alone, Close

\* A flush of a session that holds the current row writes the new row.
LEMMA FreshFlush ==
  ASSUME NEW row \in Row, NEW new \in Row
  PROVE  Flush(row, row, new) = new
<1> DEFINE merged == Flush(row, row, new)
<1>1. merged \in Row
  BY FlushType
<1>2. /\ merged.status = new.status /\ merged.pay = new.pay
      /\ merged.method = new.method /\ merged.txn = new.txn
      /\ merged.refund = new.refund /\ merged.refundNo = new.refundNo
      /\ merged.deducted = new.deducted /\ merged.scheduled = new.scheduled
  BY DEF Flush, Column
<1> HIDE DEF merged
<1>3. merged = new
  BY <1>1, <1>2 DEF Row
<1> QED BY <1>3 DEF merged

-----------------------------------------------------------------------------
(* The kinds of step of the serial system *)

\* WeChat's side only moves on: what is over stays over, a trade that was never
\* opened is not paid, a successful refund stays one, and a refund begins only
\* for an order paid through WeChat.
WechatMoves ==
  \A p \in Orders :
    /\ wx[p] \in Dead => wx'[p] \in Dead
    /\ wx[p] = "NONE" => wx'[p] = "NONE"
    /\ wx[p] = "CLOSED" => wx'[p] = "CLOSED"
    /\ wxr[p] = "SUCCESS" => wxr'[p] = "SUCCESS"
    /\ wxr[p] = "NONE" /\ wxr'[p] # "NONE" =>
         order[p].status = "paid" /\ order[p].method = "wechat"

Placed(o) ==
  /\ order[o].status = "absent"
  /\ \E method \in {"balance", "wechat"} :
       order' = [order EXCEPT ![o] = Pending(method, o \in Study)]
  /\ o \in Study => stock >= Quantity
  /\ stock' = IF o \in Study THEN stock - Quantity ELSE stock
  /\ UNCHANGED <<balance, purchases, refundTx, ents, vip, wx, wxr>>

\* The row a payment leaves.
SoldRow(row, method, txn) ==
  [row EXCEPT !.status = "paid", !.pay = "paid", !.method = method, !.txn = txn]

Channels == {<<"balance", "wallet">>, <<"mock", "mock">>, <<"wechat", "wechat">>}

Sold(o, method, txn) ==
  /\ order[o].status = "pending"
  /\ <<method, txn>> \in Channels
  /\ order' = [order EXCEPT ![o] = SoldRow(order[o], method, txn)]
  /\ method = "balance" => /\ balance >= Price /\ balance' = balance - Price
                           /\ purchases' = [purchases EXCEPT ![o] = @ + 1]
  /\ method # "balance" => balance' = balance /\ purchases' = purchases
  /\ vip' = IF o \in VipOrders THEN vip + 1 ELSE vip
  /\ ents' = IF o \in Study THEN [ents EXCEPT ![o] = @ + Quantity] ELSE ents
  /\ UNCHANGED <<stock, refundTx, wx, wxr>>

\* The order is to be paid through WeChat from now on.
Moved(o) ==
  /\ order[o].status = "pending"
  /\ order' = [order EXCEPT ![o] = [order[o] EXCEPT !.method = "wechat"]]
  /\ wx' = [wx EXCEPT ![o] = "NOTPAY"]
  /\ wx[o] \in {"NONE", "NOTPAY"}
  /\ UNCHANGED <<stock, balance, purchases, refundTx, ents, vip, wxr>>

Withdrawn(o) ==
  /\ order[o].status = "pending"
  /\ order' = [order EXCEPT ![o] =
                 [order[o] EXCEPT !.status = "canceled", !.pay = "canceled",
                                  !.deducted = FALSE]]
  /\ stock' = IF order[o].deducted THEN stock + Quantity ELSE stock
  /\ wx'[o] \in Dead
  /\ WechatMoves
  /\ UNCHANGED <<balance, purchases, refundTx, ents, vip, wxr>>

Returned(o) ==
  /\ Paid(order[o])
  /\ order' = [order EXCEPT ![o] =
                 [order[o] EXCEPT !.status = "canceled", !.pay = "refunded",
                                  !.refund = "success", !.refundNo = TRUE,
                                  !.deducted = FALSE]]
  /\ order[o].method = "balance" =>
       /\ balance' = balance + Price
       /\ refundTx' = [refundTx EXCEPT ![o] = @ + 1]
  /\ order[o].method # "balance" => balance' = balance /\ refundTx' = refundTx
  /\ order[o].method = "wechat" => wxr'[o] = "SUCCESS"
  /\ ents' = [ents EXCEPT ![o] = 0]
  /\ stock' = IF order[o].deducted THEN stock + Quantity ELSE stock
  /\ WechatMoves
  /\ UNCHANGED <<purchases, vip>>

\* Nothing the contract speaks of, but for an adjusted wallet.
Aside ==
  /\ \A p \in Orders :
       /\ order'[p].status = order[p].status /\ order'[p].pay = order[p].pay
       /\ order'[p].method = order[p].method /\ order'[p].txn = order[p].txn
       /\ order'[p].deducted = order[p].deducted
  /\ \/ balance' = balance
     \/ \E amount \in {Price, -Price} :
          balance + amount >= 0 /\ balance' = balance + amount
  /\ WechatMoves
  /\ UNCHANGED <<stock, purchases, refundTx, ents, vip>>

KindOfStep ==
  \/ \E o \in Orders : \/ Placed(o) \/ Moved(o) \/ Withdrawn(o) \/ Returned(o)
                       \/ \E c \in Channels : Sold(o, c[1], c[2])
  \/ Aside

\* What the serial system knows of an order: nobody can pay a trade of an order
\* that is canceled or was not moved to WeChat; the charge, its return and the
\* channel belong to the state the order is in; only a payment through WeChat is
\* refunded there.
Tidy(o) ==
  /\ order[o].status = "absent" => ~order[o].deducted
  /\ order[o].status \in {"absent", "pending"} =>
       purchases[o] = 0 /\ refundTx[o] = 0 /\ ents[o] = 0
  /\ purchases[o] <= 1
  /\ order[o].status = "absent" => wx[o] = "NONE"
  /\ order[o].status = "pending" /\ order[o].method # "wechat" => wx[o] = "NONE"
  /\ order[o].pay = "canceled" => wx[o] \in Dead
  /\ wxr[o] # "NONE" =>
       order[o].status \in {"paid", "canceled"} /\ order[o].method = "wechat"
  /\ order[o].deducted => order[o].status \in {"pending", "paid"}
  /\ order[o].status = "paid" =>
       /\ <<order[o].method, order[o].txn>> \in Channels
       /\ refundTx[o] = 0
       /\ purchases[o] = IF order[o].method = "balance" THEN 1 ELSE 0
  /\ order[o].pay = "refunded" =>
       /\ order[o].txn = "wallet" => refundTx[o] = 1
       /\ order[o].txn = "wechat" => wxr[o] = "SUCCESS"

OrderInv == \A o \in Orders : Tidy(o)

SerialInv == SessionInv /\ stock >= 0 /\ balance >= 0 /\ OrderInv

-----------------------------------------------------------------------------
(* Every step of the serial system is of one of the kinds *)

\* A payment booked on the current row sells the order.
LEMMA BookingSells ==
  ASSUME IInv, NEW o \in Orders, NEW c \in Channels, Payable(order[o]),
         MarkOrderPaid(o, order[o], vip, c[1], c[2]),
         c[1] = "balance" => /\ balance >= Price /\ balance' = balance - Price
                             /\ purchases' = [purchases EXCEPT ![o] = @ + 1],
         c[1] # "balance" => balance' = balance /\ purchases' = purchases,
         UNCHANGED <<stock, refundTx, wx, wxr>>
  PROVE  Sold(o, c[1], c[2])
<1>1. order[o] \in Row /\ c[1] \in Method /\ c[2] \in Txn /\ <<c[1], c[2]>> \in Channels
  BY DEF IInv, TypeOK, Channels, Method, Txn
<1>2. SoldRow(order[o], c[1], c[2]) \in Row
  BY <1>1 DEF SoldRow, Row, Method, Txn
<1>3. Flush(order[o], order[o], SoldRow(order[o], c[1], c[2]))
        = SoldRow(order[o], c[1], c[2])
  BY <1>1, <1>2, FreshFlush
<1>4. order' = [order EXCEPT ![o] = SoldRow(order[o], c[1], c[2])]
  BY <1>3 DEF MarkOrderPaid, SoldRow
<1>5. order[o].status = "pending"
  BY DEF Payable
<1>6. /\ vip' = IF o \in VipOrders THEN vip + 1 ELSE vip
      /\ ents' = IF o \in Study THEN [ents EXCEPT ![o] = @ + Quantity] ELSE ents
  BY DEF MarkOrderPaid
<1> QED BY <1>1, <1>4, <1>5, <1>6 DEF Sold

\* A cancellation of the current row withdraws the order.
LEMMA CancelWithdraws ==
  ASSUME IInv, stock >= 0, NEW o \in Orders, CancelUnpaidOrder(o, order[o]),
         wx'[o] \in Dead, WechatMoves, UNCHANGED wxr
  PROVE  Withdrawn(o)
<1> DEFINE new == [order[o] EXCEPT !.status = "canceled", !.pay = "canceled",
                                   !.deducted = FALSE]
<1>1. order[o] \in Row
  BY DEF IInv, TypeOK
<1>2. new \in Row
  BY <1>1 DEF Row
<1>3. Flush(order[o], order[o], new) = new
  BY <1>1, <1>2, FreshFlush
<1>4. order' = [order EXCEPT ![o] = new]
  BY <1>3 DEF CancelUnpaidOrder
<1>5. order[o].status = "pending"
  BY DEF CancelUnpaidOrder, Payable
<1>6. /\ stock' = IF order[o].deducted THEN stock + Quantity ELSE stock
      /\ UNCHANGED <<balance, purchases, refundTx, ents, vip>>
  BY DEF CancelUnpaidOrder
<1> QED BY <1>4, <1>5, <1>6 DEF Withdrawn

\* finalize_refund returns the order, when it is called for its channel.
LEMMA FinalizeReturns ==
  ASSUME IInv, OrderInv, stock >= 0, NEW o \in Orders,
         NEW walletRefund \in BOOLEAN, FinalizeRefund(o, walletRefund),
         walletRefund <=> order[o].method = "balance",
         order[o].method = "wechat" => wxr'[o] = "SUCCESS",
         WechatMoves
  PROVE  Returned(o)
<1>1. Paid(order[o]) /\ refundTx[o] = 0
  BY DEF FinalizeRefund, OrderInv, Tidy, Paid
<1>2. order' = [order EXCEPT ![o] =
                 [order[o] EXCEPT !.status = "canceled", !.pay = "refunded",
                                  !.refund = "success", !.refundNo = TRUE,
                                  !.deducted = FALSE]]
  BY DEF FinalizeRefund
<1>3. /\ order[o].method = "balance" =>
           /\ balance' = balance + Price
           /\ refundTx' = [refundTx EXCEPT ![o] = @ + 1]
      /\ order[o].method # "balance" => balance' = balance /\ refundTx' = refundTx
  BY <1>1 DEF FinalizeRefund
<1>4. /\ ents' = [ents EXCEPT ![o] = 0]
      /\ stock' = IF order[o].deducted THEN stock + Quantity ELSE stock
      /\ UNCHANGED <<purchases, vip>>
  BY DEF FinalizeRefund
<1> QED BY <1>1, <1>2, <1>3, <1>4 DEF Returned

\* A step that leaves the row but for its refund columns is aside.
LEMMA RefundColumnsAside ==
  ASSUME IInv, NEW o \in Orders, NEW low,
         \/ order' = [order EXCEPT ![o].refund = low]
         \/ order' = [order EXCEPT ![o].refund = low, ![o].refundNo = TRUE],
         WechatMoves,
         UNCHANGED <<stock, balance, purchases, refundTx, ents, vip>>
  PROVE  Aside
<1>1. order[o] \in Row
  BY DEF IInv, TypeOK
<1>2. /\ order'[o] \in {[order[o] EXCEPT !.refund = low],
                        [order[o] EXCEPT !.refund = low, !.refundNo = TRUE]}
      /\ \A p \in Orders \ {o} : order'[p] = order[p]
  BY DEF IInv, TypeOK
<1>3. /\ order'[o].status = order[o].status /\ order'[o].pay = order[o].pay
      /\ order'[o].method = order[o].method /\ order'[o].txn = order[o].txn
      /\ order'[o].deducted = order[o].deducted
  BY <1>1, <1>2 DEF Row
<1> QED BY <1>2, <1>3 DEF Aside

\* Nothing at WeChat changes.
LEMMA WechatRests == UNCHANGED <<wx, wxr>> => WechatMoves
BY DEF WechatMoves, Dead

\* A session's step is of one of the kinds.
LEMMA SessionKinds ==
  ASSUME IInv, SerialInv, NEW s \in Sessions, SessionStep(s)
  PROVE  KindOfStep
<1> DEFINE r == req[s]
<1>0. ASSUME HasOrder(req[s])
      PROVE  /\ r \in Request /\ r.order \in Orders
             /\ r.seen = order[r.order] /\ r.balance = balance /\ r.vip = vip
             /\ Payable(r.seen)
  <2>1. r \in Request /\ r.order \in Orders /\ r # Closed
    BY <1>0, OpenRequest DEF Request, IInv, HasOrder, Closed
  <2>2. r.seen = order[r.order] /\ r.balance = balance /\ r.vip = vip
    BY <1>0, <2>1 DEF SerialInv, SessionInv, Fresh
  <2>3. Payable(r.seen)
    BY <1>0 DEF IInv, RowInv, SessionsSound, Payable
  <2> QED BY <2>1, <2>2, <2>3
<1>1. CASE PayWithBalance(s)
  <2>1. HasOrder(req[s])
    BY <1>1 DEF PayWithBalance, HasOrder
  <2>2. PICK c \in Channels : c = <<"balance", "wallet">>
    BY DEF Channels
  <2>3. c[1] = "balance" /\ c[2] = "wallet"
    BY <2>2
  <2>4. Sold(r.order, c[1], c[2])
    <3>1. MarkOrderPaid(r.order, order[r.order], vip, c[1], c[2])
      BY <1>0, <1>1, <2>1, <2>3 DEF PayWithBalance
    <3>2. /\ balance >= Price /\ balance' = balance - Price
          /\ purchases' = [purchases EXCEPT ![r.order] = @ + 1]
          /\ UNCHANGED <<stock, refundTx, wx, wxr>>
      BY <1>0, <1>1, <2>1 DEF PayWithBalance
    <3> QED BY <1>0, <2>1, <2>3, <3>1, <3>2, BookingSells
  <2> QED BY <1>0, <2>1, <2>4 DEF KindOfStep
<1>2. CASE MockPay(s)
  <2>1. HasOrder(req[s])
    BY <1>2 DEF MockPay, HasOrder
  <2>2. PICK c \in Channels : c = <<"mock", "mock">>
    BY DEF Channels
  <2>3. c[1] = "mock" /\ c[2] = "mock"
    BY <2>2
  <2>4. Sold(r.order, c[1], c[2])
    <3>1. MarkOrderPaid(r.order, order[r.order], vip, c[1], c[2])
      BY <1>0, <1>2, <2>1, <2>3 DEF MockPay
    <3>2. UNCHANGED <<balance, purchases, stock, refundTx, wx, wxr>>
      BY <1>2 DEF MockPay
    <3> QED BY <1>0, <2>1, <2>3, <3>1, <3>2, BookingSells
  <2> QED BY <1>0, <2>1, <2>4 DEF KindOfStep
<1>3. CASE WechatPay(s)
  <2>1. HasOrder(req[s])
    BY <1>3 DEF WechatPay, HasOrder
  <2> DEFINE new == [order[r.order] EXCEPT !.method = "wechat"]
  <2>2. order[r.order] \in Row
    BY <1>0, <2>1 DEF IInv, TypeOK
  <2>3. new \in Row
    BY <2>2 DEF Row
  <2>4. Flush(order[r.order], order[r.order], new) = new
    BY <2>2, <2>3, FreshFlush
  <2>5. order' = [order EXCEPT ![r.order] = new]
    BY <1>0, <1>3, <2>1, <2>4 DEF WechatPay
  <2>6. Moved(r.order)
    <3>1. order[r.order].status = "pending"
      BY <1>0, <2>1 DEF Payable
    <3>2. /\ wx' = [wx EXCEPT ![r.order] = "NOTPAY"]
          /\ wx[r.order] \in {"NONE", "NOTPAY"}
          /\ UNCHANGED <<stock, balance, purchases, refundTx, ents, vip, wxr>>
      BY <1>3 DEF WechatPay
    <3> QED BY <2>5, <3>1, <3>2 DEF Moved
  <2> QED BY <1>0, <2>1, <2>6 DEF KindOfStep
<1>4. CASE SyncApply(s)
  <2>1. HasOrder(req[s])
    BY <1>4 DEF SyncApply, HasOrder
  <2>2. PICK c \in Channels : c = <<"wechat", "wechat">>
    BY DEF Channels
  <2>3. c[1] = "wechat" /\ c[2] = "wechat"
    BY <2>2
  <2>4. Sold(r.order, c[1], c[2])
    <3>1. MarkOrderPaid(r.order, order[r.order], vip, c[1], c[2])
      BY <1>0, <1>4, <2>1, <2>3 DEF SyncApply
    <3>2. UNCHANGED <<balance, purchases, stock, refundTx, wx, wxr>>
      BY <1>4 DEF SyncApply
    <3> QED BY <1>0, <2>1, <2>3, <3>1, <3>2, BookingSells
  <2> QED BY <1>0, <2>1, <2>4 DEF KindOfStep
<1>5. CASE SyncCancel(s)
  <2>1. HasOrder(req[s]) /\ UNCHANGED <<wx, wxr>>
    BY <1>5 DEF SyncCancel, HasOrder
  <2>2. wx[r.order] = "CLOSED"
    BY <1>5 DEF SyncCancel, SerialInv, SessionInv, ReportTrue
  <2>3. CancelUnpaidOrder(r.order, order[r.order])
    BY <1>0, <1>5, <2>1 DEF SyncCancel
  <2>4. wx'[r.order] \in Dead /\ WechatMoves /\ stock >= 0
    BY <2>1, <2>2, WechatRests DEF Dead, SerialInv
  <2>5. Withdrawn(r.order)
    BY <1>0, <2>1, <2>3, <2>4, CancelWithdraws
  <2> QED BY <1>0, <2>1, <2>5 DEF KindOfStep
<1>6. CASE SyncQuery(s) \/ Abort(s)
  BY <1>6, WechatRests DEF SyncQuery, Abort, db, KindOfStep, Aside
<1> QED BY <1>1, <1>2, <1>3, <1>4, <1>5, <1>6 DEF SessionStep

\* The payment notification and the timeout job are of one of the kinds.
LEMMA JobKinds ==
  ASSUME IInv, SerialInv, NEW o \in Orders, PayNotify(o) \/ Timeout(o)
  PROVE  KindOfStep
<1>1. CASE PayNotify(o) \/ TimeoutPaid(o)
  <2>1. PICK c \in Channels : c = <<"wechat", "wechat">>
    BY DEF Channels
  <2>2. c[1] = "wechat" /\ c[2] = "wechat"
    BY <2>1
  <2>3. /\ MarkOrderPaid(o, order[o], vip, c[1], c[2])
        /\ Payable(order[o])
        /\ UNCHANGED <<balance, purchases, stock, refundTx, wx, wxr>>
    BY <1>1, <2>2 DEF PayNotify, TimeoutPaid
  <2>4. Sold(o, c[1], c[2])
    BY <2>2, <2>3, BookingSells
  <2> QED BY <2>4 DEF KindOfStep
<1>2. CASE TimeoutCancel(o)
  <2>1. CancelUnpaidOrder(o, order[o]) /\ UNCHANGED wxr
    BY <1>2 DEF TimeoutCancel
  <2>2. order[o].status = "pending"
    BY <2>1 DEF CancelUnpaidOrder, Payable
  <2>3. wx'[o] \in Dead /\ WechatMoves
    <3>1. CASE order[o].method = "wechat"
      BY <1>2, <3>1 DEF TimeoutCancel, TradeOver, CloseTrade, Dead, WechatMoves,
                        IInv, TypeOK
    <3>2. CASE order[o].method # "wechat"
      <4>1. wx[o] = "NONE"
        BY <2>2, <3>2 DEF SerialInv, OrderInv, Tidy
      <4>2. UNCHANGED <<wx, wxr>>
        BY <1>2, <3>2 DEF TimeoutCancel, CloseTrade
      <4> QED BY <4>1, <4>2, WechatRests DEF Dead
    <3> QED BY <3>1, <3>2
  <2>4. Withdrawn(o)
    BY <2>1, <2>3, CancelWithdraws DEF SerialInv
  <2> QED BY <2>4 DEF KindOfStep
<1>3. CASE TimeoutSkip(o)
  <2>1. WechatMoves
    BY <1>3 DEF TimeoutSkip, CloseTrade, WechatMoves, Dead, IInv, TypeOK
  <2> QED BY <1>3, <2>1 DEF TimeoutSkip, db, KindOfStep, Aside
<1> QED BY <1>1, <1>2, <1>3 DEF Timeout

\* A refund accepted by WeChat moves its side on.
LEMMA ProviderMoves ==
  ASSUME IInv, NEW o \in Orders, NEW status, ProviderRefund(o, status),
         Paid(order[o]), order[o].method = "wechat"
  PROVE  WechatMoves /\ wxr'[o] = status
BY DEF ProviderRefund, WechatMoves, Dead, Paid, IInv, TypeOK

\* Writing WeChat's answer returns the order or is aside.
LEMMA RefundStatusKinds ==
  ASSUME IInv, SerialInv, NEW o \in Orders, NEW status,
         ApplyRefundStatus(o, status), order[o].method = "wechat",
         wxr'[o] = status, WechatMoves
  PROVE  KindOfStep
<1>1. CASE status = "SUCCESS"
  <2>1. FinalizeRefund(o, FALSE)
    BY <1>1 DEF ApplyRefundStatus
  <2>2. Returned(o)
    BY <1>1, <2>1, FinalizeReturns DEF SerialInv
  <2> QED BY <2>2 DEF KindOfStep
<1>2. CASE status # "SUCCESS"
  <2>1. Aside
    BY <1>2, RefundColumnsAside DEF ApplyRefundStatus
  <2> QED BY <2>1 DEF KindOfStep
<1> QED BY <1>1, <1>2

\* Every refund step is of one of the kinds.
LEMMA RefundKinds ==
  ASSUME IInv, SerialInv, NEW o \in Orders, RefundStep(o)
  PROVE  KindOfStep
<1>1. CASE RequestRefund(o)
  <2>1. Aside
    BY <1>1, WechatRests, RefundColumnsAside DEF RequestRefund
  <2> QED BY <2>1 DEF KindOfStep
<1>2. CASE AdminRefundLocal(o)
  <2>1. PICK walletRefund \in BOOLEAN : walletRefund <=> order[o].method = "balance"
    OBVIOUS
  <2>2. FinalizeRefund(o, walletRefund) /\ WechatMoves /\ order[o].method # "wechat"
    BY <1>2, <2>1, WechatRests DEF AdminRefundLocal, FinalizeRefund
  <2>3. Returned(o)
    BY <2>1, <2>2, FinalizeReturns DEF SerialInv
  <2> QED BY <2>3 DEF KindOfStep
<1>3. CASE AdminRefundQuery(o)
  BY <1>3, WechatRests, RefundStatusKinds DEF AdminRefundQuery, Awaiting
<1>4. ASSUME NEW status \in RefundStates, AdminRefundWechat(o, status)
      PROVE  KindOfStep
  BY <1>4, ProviderMoves, RefundStatusKinds DEF AdminRefundWechat
<1>5. ASSUME NEW status \in RefundStates, AdminRefundLost(o, status)
      PROVE  KindOfStep
  BY <1>5, ProviderMoves DEF AdminRefundLost, db, KindOfStep, Aside
<1>6. ASSUME NEW status \in RefundStates, RefundEnds(o, status)
      PROVE  KindOfStep
  <2>1. WechatMoves
    BY <1>6 DEF RefundEnds, WechatMoves, Dead, IInv, TypeOK
  <2> QED BY <1>6, <2>1 DEF RefundEnds, db, KindOfStep, Aside
<1>7. ASSUME NEW status \in RefundStates, RefundNotify(o, status)
      PROVE  KindOfStep
  <2>1. WechatMoves
    BY <1>7, WechatRests DEF RefundNotify
  <2>2. CASE status = "SUCCESS"
    <3>1. FinalizeRefund(o, FALSE)
      BY <1>7, <2>2 DEF RefundNotify
    <3>2. wxr'[o] = "SUCCESS"
      BY <1>7, <2>2 DEF RefundNotify, IInv, NotesTrue
    <3>3. order[o].method # "balance"
      BY <1>7, <2>2, <3>2 DEF RefundNotify, SerialInv, OrderInv, Tidy
    <3>4. Returned(o)
      BY <2>1, <3>1, <3>2, <3>3, FinalizeReturns DEF SerialInv
    <3> QED BY <3>4 DEF KindOfStep
  <2>3. CASE status # "SUCCESS"
    <3>1. Aside
      BY <1>7, <2>1, <2>3, RefundColumnsAside DEF RefundNotify
    <3> QED BY <3>1 DEF KindOfStep
  <2> QED BY <2>2, <2>3
<1> QED BY <1>1, <1>2, <1>3, <1>4, <1>5, <1>6, <1>7 DEF RefundStep

\* Creating an order places it.
LEMMA CreateKinds ==
  ASSUME NEW o \in Orders, NEW method \in {"balance", "wechat"},
         CreateOrder(o, method) \/ CreateVipOrder(o, method)
  PROVE  Placed(o)
<1>1. CASE CreateOrder(o, method)
  <2>1. order' = [order EXCEPT ![o] = Pending(method, o \in Study)]
    <3>1. (o \in Study) = TRUE
      BY <1>1 DEF CreateOrder
    <3> QED BY <1>1, <3>1 DEF CreateOrder, MarkUnscheduled
  <2> QED BY <1>1, <2>1 DEF CreateOrder, Placed
<1>2. CASE CreateVipOrder(o, method)
  <2>1. order' = [order EXCEPT ![o] = Pending(method, o \in Study)]
    <3>1. (o \in Study) = FALSE
      BY <1>2 DEF CreateVipOrder, Study
    <3> QED BY <1>2, <3>1 DEF CreateVipOrder
  <2>2. o \notin Study
    BY <1>2 DEF CreateVipOrder, Study
  <2> QED BY <1>2, <2>1, <2>2 DEF CreateVipOrder, Placed
<1> QED BY <1>1, <1>2

\* Every step is of one of the kinds.
LEMMA StepKinds ==
  ASSUME IInv, SerialInv, [Next]_vars
  PROVE  KindOfStep
<1>1. ASSUME NEW o \in Orders, NEW method \in {"balance", "wechat"},
             CreateOrder(o, method) \/ CreateVipOrder(o, method)
      PROVE  KindOfStep
  BY <1>1, CreateKinds DEF KindOfStep
<1>2. ASSUME NEW s \in Sessions, NEW op \in Endpoints, NEW o \in Orders,
             Load(s, op, o)
      PROVE  KindOfStep
  BY <1>2, WechatRests DEF Load, db, KindOfStep, Aside
<1>3. ASSUME NEW s \in Sessions, Authenticate(s) \/ SessionStep(s)
      PROVE  KindOfStep
  <2>1. CASE Authenticate(s)
    BY <2>1, WechatRests DEF Authenticate, db, KindOfStep, Aside
  <2> QED BY <1>3, <2>1, SessionKinds
<1>4. ASSUME NEW o \in Orders, PayNotify(o) \/ Timeout(o) PROVE KindOfStep
  BY <1>4, JobKinds
<1>5. ASSUME NEW o \in Orders, RefundStep(o) PROVE KindOfStep
  BY <1>5, RefundKinds
<1>6. ASSUME NEW o \in Orders, UserPays(o) \/ TradeExpires(o) PROVE KindOfStep
  <2>1. WechatMoves
    BY <1>6 DEF UserPays, TradeExpires, WechatMoves, Dead, IInv, TypeOK
  <2> QED BY <1>6, <2>1 DEF UserPays, TradeExpires, db, KindOfStep, Aside
<1>7. ASSUME NEW amount \in {Price, -Price}, AdjustWallet(amount) PROVE KindOfStep
  BY <1>7, WechatRests DEF AdjustWallet, KindOfStep, Aside
<1>8. CASE UNCHANGED vars
  BY <1>8, WechatRests DEF vars, db, KindOfStep, Aside
<1> QED BY <1>1, <1>2, <1>3, <1>4, <1>5, <1>6, <1>7, <1>8 DEF Next

-----------------------------------------------------------------------------
(* The serial invariant is kept *)

\* A session step closes the only open session, or changes nothing it holds.
LEMMA SessionsStayFresh ==
  ASSUME ~Overlap, IInv, SerialInv, [Next]_vars
  PROVE  SessionInv'
<1> USE DEF SerialInv
<1>1. ASSUME Quiet, UNCHANGED req PROVE SessionInv'
  <2>1. \A s \in Sessions : req'[s] = Closed
    BY <1>1, QuietIsClosed
  <2> QED BY <2>1, ClosedSessions
<1>2. ASSUME NEW s \in Sessions, req[s] # Closed, Close(s) PROVE SessionInv'
  <2>1. \A t \in Sessions : req'[t] = Closed
    BY <1>2, LastCloses DEF SessionInv, IInv
  <2> QED BY <2>1, ClosedSessions
<1>3. ASSUME UNCHANGED <<order, balance, vip, req>>,
             \A p \in Orders : wx[p] = "CLOSED" => wx'[p] = "CLOSED"
      PROVE  SessionInv'
  <2>1. Alone' /\ Fresh'
    BY <1>3 DEF SessionInv, Alone, Fresh
  <2>2. ReportTrue'
    BY <1>3, OpenRequest DEF SessionInv, ReportTrue, HasOrder, Request, IInv
  <2> QED BY <2>1, <2>2 DEF SessionInv
<1>4. ASSUME NEW s \in Sessions, SessionStep(s) PROVE SessionInv'
  <2>1. CASE SyncQuery(s)
    <3>1. HasOrder(req[s]) /\ req[s] # Closed /\ UNCHANGED <<order, balance, vip, wx>>
      BY <2>1 DEF SyncQuery, HasOrder, Closed, db
    <3>2. req[s] \in Request
      BY <3>1, OpenRequest DEF IInv
    <3>3. req' = [req EXCEPT ![s] = [req[s] EXCEPT !.pc = "queried",
                                                  !.trade = wx[req[s].order]]]
      BY <2>1 DEF SyncQuery, IInv, TypeOK
    <3>4. /\ req'[s] = [req[s] EXCEPT !.pc = "queried", !.trade = wx[req[s].order]]
          /\ \A t \in Sessions \ {s} : req'[t] = req[t]
      BY <3>3 DEF IInv, TypeOK
    <3>5. /\ req'[s].order = req[s].order /\ req'[s].seen = req[s].seen
          /\ req'[s].balance = req[s].balance /\ req'[s].vip = req[s].vip
          /\ req'[s].trade = wx[req[s].order]
      BY <3>2, <3>4 DEF Request
    <3>6. Alone'
      BY <3>1, <3>4 DEF SessionInv, Alone
    <3>7. /\ req'[s].balance = balance' /\ req'[s].vip = vip'
          /\ req'[s].seen = order'[req'[s].order]
      BY <3>1, <3>5 DEF SessionInv, Fresh
    <3>8. Fresh'
      BY <3>1, <3>4, <3>7 DEF SessionInv, Fresh
    <3>9. ReportTrue'
      <4>1. req'[s].trade = wx'[req'[s].order]
        BY <3>1, <3>5
      <4> QED BY <3>1, <3>4, <4>1 DEF SessionInv, ReportTrue
    <3> QED BY <3>6, <3>8, <3>9 DEF SessionInv
  <2>2. CASE ~SyncQuery(s)
    <3>1. Close(s) /\ req[s] # Closed
      BY <1>4, <2>2 DEF SessionStep, PayWithBalance, MockPay, WechatPay, SyncApply,
                        SyncCancel, Abort, Closed
    <3> QED BY <1>2, <3>1
  <2> QED BY <2>1, <2>2
<1>5. ASSUME NEW s \in Sessions, Authenticate(s) PROVE SessionInv'
  <2>1. \A t \in Sessions : req[t] = Closed
    BY <1>5, QuietIsClosed DEF Authenticate
  <2>2. /\ req'[s] = [pc |-> "user", balance |-> balance, vip |-> vip]
        /\ \A t \in Sessions \ {s} : req'[t] = Closed
        /\ UNCHANGED <<balance, vip>>
    BY <1>5, <2>1 DEF Authenticate, db, IInv, TypeOK
  <2> QED BY <2>2 DEF SessionInv, Alone, Fresh, ReportTrue, HasOrder, Closed
<1>6. ASSUME NEW s \in Sessions, NEW op \in Endpoints, NEW o \in Orders,
             Load(s, op, o)
      PROVE  SessionInv'
  <2>1. req[s] # Closed /\ UNCHANGED <<order, balance, vip, wx>>
    BY <1>6 DEF Load, Closed, db
  <2>2. /\ req'[s] = [pc |-> "loaded", op |-> op, order |-> o, seen |-> order[o],
                      balance |-> req[s].balance, vip |-> req[s].vip,
                      profile |-> profile, trade |-> "NONE"]
        /\ \A t \in Sessions \ {s} : req'[t] = req[t]
    BY <1>6 DEF Load, IInv, TypeOK
  <2>3. /\ req'[s].balance = req[s].balance /\ req'[s].vip = req[s].vip
        /\ req'[s].order = o /\ req'[s].seen = order[o] /\ req'[s].pc = "loaded"
    BY <2>2
  <2>4. Alone'
    BY <2>1, <2>2 DEF SessionInv, Alone
  <2>5. Fresh'
    BY <2>1, <2>2, <2>3 DEF SessionInv, Fresh
  <2>6. ReportTrue'
    BY <2>1, <2>2, <2>3 DEF SessionInv, ReportTrue
  <2> QED BY <2>4, <2>5, <2>6 DEF SessionInv
<1>7. ASSUME NEW o \in Orders, UserPays(o) \/ TradeExpires(o) PROVE SessionInv'
  <2>1. /\ UNCHANGED <<order, balance, vip, req>>
        /\ \A p \in Orders : wx[p] = "CLOSED" => wx'[p] = "CLOSED"
    BY <1>7 DEF UserPays, TradeExpires, db, IInv, TypeOK
  <2> QED BY <1>3, <2>1
<1>8. ASSUME NEW o \in Orders, RefundStep(o) PROVE SessionInv'
  <2>1. ASSUME NEW status, RefundEnds(o, status) PROVE SessionInv'
    BY <1>3, <2>1 DEF RefundEnds, db
  <2> QED BY <1>1, <1>8, <2>1
          DEF RefundStep, RequestRefund, AdminRefundLocal, AdminRefundQuery,
              AdminRefundWechat, AdminRefundLost, RefundNotify
<1>9. ASSUME NEW o \in Orders, PayNotify(o) \/ Timeout(o) PROVE SessionInv'
  BY <1>1, <1>9 DEF PayNotify, Timeout, TimeoutCancel, TimeoutPaid, TimeoutSkip
<1>10. ASSUME NEW o \in Orders, NEW method,
              CreateOrder(o, method) \/ CreateVipOrder(o, method)
       PROVE  SessionInv'
  BY <1>1, <1>10 DEF CreateOrder, CreateVipOrder
<1>11. ASSUME NEW amount, AdjustWallet(amount) PROVE SessionInv'
  BY <1>1, <1>11 DEF AdjustWallet
<1>12. CASE UNCHANGED vars
  BY <1>3, <1>12 DEF vars, db
<1> QED BY <1>4, <1>5, <1>6, <1>7, <1>8, <1>9, <1>10, <1>11, <1>12 DEF Next

\* An order whose columns and counters stay stays tidy while WeChat moves on.
LEMMA UntouchedStaysTidy ==
  ASSUME NEW p \in Orders, Tidy(p), WechatMoves,
         order'[p].status = order[p].status, order'[p].pay = order[p].pay,
         order'[p].method = order[p].method, order'[p].txn = order[p].txn,
         order'[p].deducted = order[p].deducted,
         purchases'[p] = purchases[p], refundTx'[p] = refundTx[p],
         ents'[p] = ents[p]
  PROVE  Tidy(p)'
BY DEF Tidy, WechatMoves, Channels

\* Every kind of step keeps the orders tidy, and neither stock nor balance
\* falls below zero.
LEMMA OrdersStayTidy ==
  ASSUME IInv, SerialInv, KindOfStep
  PROVE  stock' >= 0 /\ balance' >= 0 /\ OrderInv'
<1> USE DEF IInv, SerialInv, OrderInv
<1>1. stock' >= 0 /\ balance' >= 0
  <2>1. stock' \in {stock, stock + Quantity}
        \/ (stock >= Quantity /\ stock' = stock - Quantity)
    BY DEF KindOfStep, Placed, Sold, Moved, Withdrawn, Returned, Aside
  <2>2. \/ balance' \in {balance, balance + Price}
        \/ balance >= Price /\ balance' = balance - Price
        \/ balance + (-Price) >= 0 /\ balance' = balance + (-Price)
    BY DEF KindOfStep, Placed, Sold, Moved, Withdrawn, Returned, Aside
  <2>3. stock' >= 0
    BY <2>1, NumbersAssumption DEF TypeOK
  <2>4. balance' >= 0
    BY <2>2, NumbersAssumption DEF TypeOK
  <2> QED BY <2>3, <2>4
<1>2. ASSUME NEW o \in Orders, Placed(o) PROVE OrderInv'
  <2>1. PICK method \in {"balance", "wechat"} :
          order' = [order EXCEPT ![o] = Pending(method, o \in Study)]
    BY <1>2 DEF Placed
  <2>2. /\ order'[o] = Pending(method, o \in Study)
        /\ \A p \in Orders \ {o} : order'[p] = order[p]
    BY <2>1 DEF TypeOK
  <2>3. order'[o].status = "pending" /\ order'[o].pay = "pending"
    BY <2>2 DEF Pending, Absent
  <2>4. Tidy(o)'
    BY <1>2, <2>3 DEF Placed, Tidy
  <2>5. ASSUME NEW p \in Orders \ {o} PROVE Tidy(p)'
    BY <1>2, <2>2, WechatRests, UntouchedStaysTidy DEF Placed
  <2> QED BY <2>4, <2>5
<1>3. ASSUME NEW o \in Orders, NEW c \in Channels, Sold(o, c[1], c[2])
      PROVE  OrderInv'
  <2>1. /\ order'[o] = SoldRow(order[o], c[1], c[2])
        /\ \A p \in Orders \ {o} : order'[p] = order[p]
    BY <1>3 DEF Sold, TypeOK
  <2>2. order[o] \in Row
    BY DEF TypeOK
  <2>3. /\ order'[o].status = "paid" /\ order'[o].pay = "paid"
        /\ order'[o].method = c[1] /\ order'[o].txn = c[2]
    BY <2>1, <2>2 DEF SoldRow, Row
  <2>4. order[o].status = "pending" /\ wxr'[o] = "NONE"
    BY <1>3 DEF Sold, Tidy
  <2>5. Tidy(o)'
    <3>1. refundTx'[o] = 0 /\ purchases[o] = 0
      BY <1>3, <2>4 DEF Sold, Tidy
    <3>2. purchases'[o] = IF c[1] = "balance" THEN 1 ELSE 0
      BY <1>3, <3>1 DEF Sold, TypeOK
    <3>3. <<c[1], c[2]>> \in Channels
      BY <1>3 DEF Sold
    <3> QED BY <2>3, <2>4, <3>1, <3>2, <3>3 DEF Tidy
  <2>6. ASSUME NEW p \in Orders \ {o} PROVE Tidy(p)'
    <3>1. /\ purchases'[p] = purchases[p] /\ refundTx'[p] = refundTx[p]
          /\ ents'[p] = ents[p] /\ WechatMoves
      BY <1>3, WechatRests DEF Sold, TypeOK
    <3> QED BY <2>1, <3>1, UntouchedStaysTidy
  <2> QED BY <2>5, <2>6
<1>4. ASSUME NEW o \in Orders, Moved(o) PROVE OrderInv'
  <2>1. /\ order'[o] = [order[o] EXCEPT !.method = "wechat"]
        /\ \A p \in Orders \ {o} : order'[p] = order[p]
    BY <1>4 DEF Moved, TypeOK
  <2>2. order[o] \in Row
    BY DEF TypeOK
  <2>3. /\ order'[o].status = order[o].status /\ order'[o].pay = order[o].pay
        /\ order'[o].method = "wechat" /\ order'[o].deducted = order[o].deducted
    BY <2>1, <2>2 DEF Row
  <2>4. order[o].status = "pending" /\ order[o].pay = "pending"
    BY <1>4 DEF Moved, RowInv, StatusPairs
  <2>5. Tidy(o)'
    BY <1>4, <2>3, <2>4 DEF Moved, Tidy
  <2>6. ASSUME NEW p \in Orders \ {o} PROVE Tidy(p)'
    <3>1. wx'[p] = wx[p] /\ wxr'[p] = wxr[p]
      BY <1>4 DEF Moved, TypeOK
    <3> QED BY <1>4, <2>1, <3>1 DEF Moved, Tidy
  <2> QED BY <2>5, <2>6
<1>5. ASSUME NEW o \in Orders, Withdrawn(o) PROVE OrderInv'
  <2>1. /\ order'[o] = [order[o] EXCEPT !.status = "canceled", !.pay = "canceled",
                                        !.deducted = FALSE]
        /\ \A p \in Orders \ {o} : order'[p] = order[p]
    BY <1>5 DEF Withdrawn, TypeOK
  <2>2. order[o] \in Row
    BY DEF TypeOK
  <2>3. /\ order'[o].status = "canceled" /\ order'[o].pay = "canceled"
        /\ ~order'[o].deducted
    BY <2>1, <2>2 DEF Row
  <2>4. order[o].status = "pending" /\ wxr'[o] = "NONE"
    BY <1>5 DEF Withdrawn, Tidy
  <2>5. Tidy(o)'
    BY <1>5, <2>3, <2>4 DEF Withdrawn, Tidy
  <2>6. ASSUME NEW p \in Orders \ {o} PROVE Tidy(p)'
    BY <1>5, <2>1, UntouchedStaysTidy DEF Withdrawn
  <2> QED BY <2>5, <2>6
<1>6. ASSUME NEW o \in Orders, Returned(o) PROVE OrderInv'
  <2>1. /\ order'[o] = [order[o] EXCEPT !.status = "canceled", !.pay = "refunded",
                                        !.refund = "success", !.refundNo = TRUE,
                                        !.deducted = FALSE]
        /\ \A p \in Orders \ {o} : order'[p] = order[p]
    BY <1>6 DEF Returned, TypeOK
  <2>2. order[o] \in Row
    BY DEF TypeOK
  <2>3. /\ order'[o].status = "canceled" /\ order'[o].pay = "refunded"
        /\ ~order'[o].deducted
        /\ order'[o].method = order[o].method /\ order'[o].txn = order[o].txn
    BY <2>1, <2>2 DEF Row
  <2>4. /\ order[o].status = "paid" /\ refundTx[o] = 0
        /\ <<order[o].method, order[o].txn>> \in Channels
    BY <1>6 DEF Returned, Paid, Tidy
  <2>5. /\ order[o].txn = "wallet" => refundTx'[o] = 1
        /\ order[o].txn = "wechat" => wxr'[o] = "SUCCESS"
    BY <1>6, <2>4 DEF Returned, Channels, TypeOK
  <2>6. wxr'[o] # "NONE" => order[o].method = "wechat"
    BY <1>6 DEF Returned, WechatMoves, Tidy
  <2>7. Tidy(o)'
    <3>1. purchases'[o] <= 1
      BY <1>6 DEF Returned, Tidy
    <3> QED BY <2>3, <2>5, <2>6, <3>1 DEF Tidy
  <2>8. ASSUME NEW p \in Orders \ {o} PROVE Tidy(p)'
    <3>1. /\ purchases'[p] = purchases[p] /\ refundTx'[p] = refundTx[p]
          /\ ents'[p] = ents[p] /\ WechatMoves
      BY <1>6 DEF Returned, TypeOK
    <3> QED BY <2>1, <3>1, UntouchedStaysTidy
  <2> QED BY <2>7, <2>8
<1>7. CASE Aside
  BY <1>7, UntouchedStaysTidy DEF Aside
<1> QED BY <1>1, <1>2, <1>3, <1>4, <1>5, <1>6, <1>7 DEF KindOfStep

\* The serial invariant holds initially.
LEMMA SerialInit == Init => SerialInv
<1> SUFFICES ASSUME Init PROVE SerialInv
  OBVIOUS
<1>1. SessionInv
  BY DEF Init, SessionInv, Alone, Fresh, ReportTrue, Closed, HasOrder
<1>2. stock >= 0 /\ balance >= 0 /\ OrderInv
  BY NumbersAssumption DEF Init, OrderInv, Tidy, Absent
<1> QED BY <1>1, <1>2 DEF SerialInv

\* In the serial system every session is fresh and every order tidy.
THEOREM SerialInvariance == ~Overlap /\ Spec => []SerialInv
<1> SUFFICES ASSUME ~Overlap PROVE Spec => []SerialInv
  OBVIOUS
<1>1. ASSUME IInv, SerialInv, [Next]_vars PROVE SerialInv'
  BY <1>1, StepKinds, OrdersStayTidy, SessionsStayFresh DEF SerialInv
<1> QED BY <1>1, SerialInit, Invariance, PTL DEF Spec

\* Without overlap nobody can pay for an order that was canceled unpaid.
THEOREM CanceledTradesAreDead == ~Overlap /\ Spec => []CanceledTradeIsDead
<1>1. SerialInv => CanceledTradeIsDead
  BY DEF SerialInv, OrderInv, Tidy, CanceledTradeIsDead, Dead
<1> QED BY <1>1, SerialInvariance, PTL

\* Without overlap a refund returns the money through the channel it came from.
THEOREM RefundsUseTheirChannel == ~Overlap /\ Spec => []RefundThroughPaymentChannel
<1>1. SerialInv => RefundThroughPaymentChannel
  BY DEF SerialInv, OrderInv, Tidy, RefundThroughPaymentChannel
<1> QED BY <1>1, SerialInvariance, PTL

\* Without overlap no order is charged twice: the double charge needs a session
\* that loaded the order before the first payment was committed.
THEOREM OrdersAreChargedOnce == ~Overlap /\ Spec => []ChargedOnce
<1>1. SerialInv => ChargedOnce
  BY DEF SerialInv, OrderInv, Tidy, ChargedOnce
<1> QED BY <1>1, SerialInvariance, PTL

-----------------------------------------------------------------------------
(* Stock, and the contract *)

Holding == {o \in Orders : order[o].deducted}

\* The orders that hold stock can be counted.
LEMMA HoldingFinite ==
  ASSUME TypeOK
  PROVE  IsFiniteSet(Holding) /\ Cardinality(Holding) \in Nat
<1>1. IsFiniteSet(Holding)
  BY OrdersAssumption, FS_Subset DEF Holding
<1> QED BY <1>1, FS_CardinalityType

\* Multiplication by one more or one less.
LEMMA OneMore ==
  ASSUME NEW q \in Nat, NEW n \in Int
  PROVE  q * (n + 1) = q * n + q /\ q * (n - 1) = q * n - q
OBVIOUS

\* An order takes stock from the shelf.
LEMMA StockTaken ==
  ASSUME IInv, NEW o \in Orders, ~order[o].deducted, order'[o].deducted,
         \A p \in Orders \ {o} : order'[p].deducted = order[p].deducted,
         StockConserved, stock' = stock - Quantity
  PROVE  StockConserved'
<1>1. Holding' = Holding \cup {o} /\ o \notin Holding
  BY DEF Holding
<1>2. Cardinality(Holding') = Cardinality(Holding) + 1
  BY <1>1, HoldingFinite, FS_AddElement DEF IInv
<1>3. Quantity * Cardinality(Holding') = Quantity * Cardinality(Holding) + Quantity
  BY <1>2, HoldingFinite, OneMore, NumbersAssumption DEF IInv
<1>4. stock + Quantity * Cardinality(Holding) = Stock0
  BY DEF StockConserved, Holding
<1>5. stock' + Quantity * Cardinality(Holding') = Stock0
  <2>1. PICK taken \in Int : taken = Quantity * Cardinality(Holding)
    BY HoldingFinite, NumbersAssumption DEF IInv
  <2> QED BY <1>3, <1>4, <2>1, NumbersAssumption DEF IInv, TypeOK
<1> QED BY <1>5 DEF StockConserved, Holding

\* An order puts its stock back on the shelf.
LEMMA StockPutBack ==
  ASSUME IInv, NEW o \in Orders, order[o].deducted, ~order'[o].deducted,
         \A p \in Orders \ {o} : order'[p].deducted = order[p].deducted,
         StockConserved, stock' = stock + Quantity
  PROVE  StockConserved'
<1>1. Holding' = Holding \ {o} /\ o \in Holding
  BY DEF Holding
<1>2. Cardinality(Holding') = Cardinality(Holding) - 1
  BY <1>1, HoldingFinite, FS_RemoveElement DEF IInv
<1>3. Quantity * Cardinality(Holding') = Quantity * Cardinality(Holding) - Quantity
  BY <1>2, HoldingFinite, OneMore, NumbersAssumption DEF IInv
<1>4. stock + Quantity * Cardinality(Holding) = Stock0
  BY DEF StockConserved, Holding
<1>5. stock' + Quantity * Cardinality(Holding') = Stock0
  <2>1. PICK taken \in Int : taken = Quantity * Cardinality(Holding)
    BY HoldingFinite, NumbersAssumption DEF IInv
  <2> QED BY <1>3, <1>4, <2>1, NumbersAssumption DEF IInv, TypeOK
<1> QED BY <1>5 DEF StockConserved, Holding

\* Neither stock nor who holds it changes.
LEMMA StockKept ==
  ASSUME \A p \in Orders : order'[p].deducted <=> order[p].deducted,
         StockConserved, stock' = stock
  PROVE  StockConserved'
<1>1. Holding' = Holding
  BY DEF Holding
<1> QED BY <1>1 DEF StockConserved, Holding

\* What each kind of step does to an order's row, column by column.
LEMMA KindRows ==
  ASSUME IInv, NEW o \in Orders
  PROVE  /\ Placed(o) =>
              /\ order'[o].status = "pending" /\ order'[o].pay = "pending"
              /\ order'[o].deducted <=> o \in Study
         /\ \A c \in Channels : Sold(o, c[1], c[2]) =>
              /\ order'[o].status = "paid" /\ order'[o].pay = "paid"
              /\ order'[o].deducted = order[o].deducted
         /\ Moved(o) =>
              /\ order'[o].status = order[o].status /\ order'[o].pay = order[o].pay
              /\ order'[o].deducted = order[o].deducted
         /\ Withdrawn(o) =>
              /\ order'[o].status = "canceled" /\ order'[o].pay = "canceled"
              /\ ~order'[o].deducted
         /\ Returned(o) =>
              /\ order'[o].status = "canceled" /\ order'[o].pay = "refunded"
              /\ ~order'[o].deducted
         /\ (Placed(o) \/ Moved(o) \/ Withdrawn(o) \/ Returned(o)
              \/ \E c \in Channels : Sold(o, c[1], c[2]))
              => \A p \in Orders \ {o} : order'[p] = order[p]
<1>1. order[o] \in Row /\ order \in [Orders -> Row]
  BY DEF IInv, TypeOK
<1>2. ASSUME Placed(o)
      PROVE  /\ order'[o].status = "pending" /\ order'[o].pay = "pending"
             /\ order'[o].deducted <=> o \in Study
  <2>1. PICK method \in {"balance", "wechat"} :
          order' = [order EXCEPT ![o] = Pending(method, o \in Study)]
    BY <1>2 DEF Placed
  <2>2. order'[o] = Pending(method, o \in Study)
    BY <1>1, <2>1
  <2> QED BY <2>2 DEF Pending, Absent
<1>3. ASSUME NEW c \in Channels, Sold(o, c[1], c[2])
      PROVE  /\ order'[o].status = "paid" /\ order'[o].pay = "paid"
             /\ order'[o].deducted = order[o].deducted
  BY <1>1, <1>3 DEF Sold, SoldRow, Row
<1>4. ASSUME Moved(o)
      PROVE  /\ order'[o].status = order[o].status /\ order'[o].pay = order[o].pay
             /\ order'[o].deducted = order[o].deducted
  BY <1>1, <1>4 DEF Moved, Row
<1>5. ASSUME Withdrawn(o)
      PROVE  /\ order'[o].status = "canceled" /\ order'[o].pay = "canceled"
             /\ ~order'[o].deducted
  BY <1>1, <1>5 DEF Withdrawn, Row
<1>6. ASSUME Returned(o)
      PROVE  /\ order'[o].status = "canceled" /\ order'[o].pay = "refunded"
             /\ ~order'[o].deducted
  BY <1>1, <1>6 DEF Returned, Row
<1>7. ASSUME Placed(o) \/ Moved(o) \/ Withdrawn(o) \/ Returned(o)
               \/ \E c \in Channels : Sold(o, c[1], c[2])
      PROVE  \A p \in Orders \ {o} : order'[p] = order[p]
  BY <1>1, <1>7 DEF Placed, Moved, Withdrawn, Returned, Sold
<1> QED BY <1>2, <1>3, <1>4, <1>5, <1>6, <1>7

\* Every kind of step conserves the stock.
LEMMA StockStep ==
  ASSUME IInv, SerialInv, StockConserved, KindOfStep
  PROVE  StockConserved'
<1>1. ASSUME NEW o \in Orders, Placed(o) PROVE StockConserved'
  <2>1. ~order[o].deducted
    BY <1>1 DEF Placed, SerialInv, OrderInv, Tidy
  <2>2. /\ order'[o].deducted <=> o \in Study
        /\ \A p \in Orders \ {o} : order'[p] = order[p]
    BY <1>1, KindRows
  <2>3. CASE o \in Study
    BY <1>1, <2>1, <2>2, <2>3, StockTaken DEF Placed
  <2>4. CASE o \notin Study
    BY <1>1, <2>1, <2>2, <2>4, StockKept DEF Placed
  <2> QED BY <2>3, <2>4
<1>2. ASSUME NEW o \in Orders, Withdrawn(o) \/ Returned(o) PROVE StockConserved'
  <2>1. /\ ~order'[o].deducted
        /\ \A p \in Orders \ {o} : order'[p] = order[p]
    BY <1>2, KindRows
  <2>2. CASE order[o].deducted
    BY <1>2, <2>1, <2>2, StockPutBack DEF Withdrawn, Returned
  <2>3. CASE ~order[o].deducted
    BY <1>2, <2>1, <2>3, StockKept DEF Withdrawn, Returned
  <2> QED BY <2>2, <2>3
<1>3. ASSUME NEW o \in Orders, NEW c \in Channels, Sold(o, c[1], c[2])
      PROVE  StockConserved'
  <2>1. /\ order'[o].deducted = order[o].deducted
        /\ \A p \in Orders \ {o} : order'[p] = order[p]
    BY <1>3, KindRows
  <2>2. stock' = stock
    BY <1>3 DEF Sold
  <2> QED BY <2>1, <2>2, StockKept
<1>4. ASSUME NEW o \in Orders, Moved(o) PROVE StockConserved'
  BY <1>4, KindRows, StockKept DEF Moved
<1>5. CASE Aside
  BY <1>5, StockKept DEF Aside
<1> QED BY <1>1, <1>2, <1>3, <1>4, <1>5 DEF KindOfStep

\* Without overlap what is for sale and what orders hold add up to the initial
\* stock: canceling and refunding restore it once.
THEOREM StockIsConserved == ~Overlap /\ Spec => []StockConserved
<1> SUFFICES ASSUME ~Overlap PROVE Spec => []StockConserved
  OBVIOUS
<1>1. Init => StockConserved
  <2> SUFFICES ASSUME Init PROVE StockConserved
    OBVIOUS
  <2>1. Holding = {}
    BY DEF Init, Holding, Absent
  <2>2. Cardinality(Holding) = 0
    BY <2>1, FS_EmptySet
  <2> QED BY <2>2, NumbersAssumption DEF Init, StockConserved, Holding
<1>2. ASSUME IInv, SerialInv, StockConserved, [Next]_vars PROVE StockConserved'
  BY <1>2, StepKinds, StockStep
<1>3. Spec => []SerialInv
  BY SerialInvariance
<1> QED BY <1>1, <1>2, <1>3, Invariance, PTL DEF Spec

\* The contract's view of the orders.
StateOf == [o \in Orders |-> ContractState(order[o])]
ChargedOf == [o \in Orders |-> Price * (purchases[o] - refundTx[o])]
HeldOf == [o \in Orders |-> order[o].deducted]

\* One order changes in the contract's view as its row does.
LEMMA ViewChanges ==
  ASSUME IInv, NEW o \in Orders, NEW st, NEW hold,
         ContractState(order'[o]) = st, order'[o].deducted = hold,
         \A p \in Orders \ {o} : order'[p] = order[p]
  PROVE  /\ StateOf' = [StateOf EXCEPT ![o] = st]
         /\ HeldOf' = [HeldOf EXCEPT ![o] = hold]
BY DEF StateOf, HeldOf

\* A charge, or its return, changes what the order has taken from the wallet.
LEMMA ChargeChanges ==
  ASSUME IInv, NEW o \in Orders,
         NEW n \in Int, n = purchases'[o] - refundTx'[o],
         \A p \in Orders \ {o} : /\ purchases'[p] = purchases[p]
                                 /\ refundTx'[p] = refundTx[p]
  PROVE  ChargedOf' = [ChargedOf EXCEPT ![o] = Price * n]
BY DEF ChargedOf

\* The initial state maps to the contract's.
LEMMA SerialContractInit == Init => Contract!Init
<1> SUFFICES ASSUME Init PROVE Contract!Init
  OBVIOUS
<1>1. \A o \in Orders : ContractState(order[o]) = "absent" /\ order[o].deducted = FALSE
  BY DEF Init, Absent, ContractState
<1>2. StateOf = [o \in Orders |-> "absent"] /\ HeldOf = [o \in Orders |-> FALSE]
  BY <1>1 DEF StateOf, HeldOf
<1>3. ChargedOf = [o \in Orders |-> 0]
  <2>1. \A o \in Orders : Price * (purchases[o] - refundTx[o]) = 0
    BY NumbersAssumption DEF Init
  <2> QED BY <2>1 DEF ChargedOf
<1> QED BY <1>2, <1>3 DEF Init, Contract!Init, StateOf, HeldOf, ChargedOf

\* An order's state in the contract, by its row.
LEMMA StateFacts ==
  ASSUME IInv, NEW o \in Orders
  PROVE  /\ order[o].status \in {"absent", "pending", "paid"} =>
              ContractState(order[o]) = order[o].status
         /\ StateOf[o] = ContractState(order[o])
         /\ HeldOf[o] = order[o].deducted
         /\ order[o].deducted \in BOOLEAN
<1>1. order[o] \in Row
  BY DEF IInv, TypeOK
<1>2. order[o].status \in {"absent", "pending", "paid"} => order[o].pay # "refunded"
  BY DEF IInv, RowInv, StatusPairs
<1> QED BY <1>1, <1>2 DEF ContractState, StateOf, HeldOf, Row

\* Creation is the contract's Place.
LEMMA PlacedIsPlace ==
  ASSUME IInv, NEW o \in Orders, Placed(o)
  PROVE  Contract!Place(o)
<1>1. StateOf[o] = "absent"
  BY StateFacts DEF Placed
<1>2. /\ order'[o].status = "pending" /\ order'[o].pay = "pending"
      /\ order'[o].deducted <=> o \in Study
      /\ \A p \in Orders \ {o} : order'[p] = order[p]
  BY KindRows
<1>3. order'[o].deducted = (o \notin VipOrders)
  <2>1. PICK method \in {"balance", "wechat"} :
          order' = [order EXCEPT ![o] = Pending(method, o \in Study)]
    BY DEF Placed
  <2>2. order'[o] = Pending(method, o \in Study)
    BY <2>1 DEF IInv, TypeOK
  <2>3. order'[o].deducted = (o \in Study)
    BY <2>2 DEF Pending, Absent
  <2> QED BY <2>3 DEF Study
<1>4. ContractState(order'[o]) = "pending"
  BY <1>2 DEF ContractState
<1>5. /\ StateOf' = [StateOf EXCEPT ![o] = "pending"]
      /\ HeldOf' = [HeldOf EXCEPT ![o] = (o \notin VipOrders)]
  BY <1>2, <1>3, <1>4, ViewChanges
<1>6. ChargedOf' = ChargedOf /\ UNCHANGED <<ents, balance, vip>>
  BY DEF Placed, ChargedOf
<1>7. \/ o \in VipOrders /\ stock' = stock
      \/ o \notin VipOrders /\ stock >= Quantity /\ stock' = stock - Quantity
  BY DEF Placed, Study
<1> QED BY <1>1, <1>5, <1>6, <1>7
        DEF Contract!Place, StateOf, HeldOf, ChargedOf

\* A payment is the contract's Settle, for the price or for nothing.
LEMMA SoldIsSettle ==
  ASSUME IInv, SerialInv, NEW o \in Orders, NEW c \in Channels,
         Sold(o, c[1], c[2])
  PROVE  Contract!Settle(o, 0) \/ Contract!Settle(o, Price)
<1>1. StateOf[o] = "pending"
  BY StateFacts DEF Sold
<1>2. /\ order'[o].status = "paid" /\ order'[o].pay = "paid"
      /\ order'[o].deducted = order[o].deducted
      /\ \A p \in Orders \ {o} : order'[p] = order[p]
  BY KindRows
<1>3. ContractState(order'[o]) = "paid"
  BY <1>2 DEF ContractState
<1>4. /\ StateOf' = [StateOf EXCEPT ![o] = "paid"]
      /\ HeldOf' = HeldOf
  <2>1. /\ StateOf' = [StateOf EXCEPT ![o] = "paid"]
        /\ HeldOf' = [HeldOf EXCEPT ![o] = order[o].deducted]
    BY <1>2, <1>3, ViewChanges
  <2>2. [HeldOf EXCEPT ![o] = order[o].deducted] = HeldOf
    BY DEF HeldOf
  <2> QED BY <2>1, <2>2
<1>5. purchases[o] = 0 /\ refundTx[o] = 0 /\ ents[o] = 0
  BY DEF Sold, SerialInv, OrderInv, Tidy
<1>6. \/ /\ o \in VipOrders /\ vip' = vip + 1 /\ ents' = ents
      \/ /\ o \notin VipOrders /\ vip' = vip
         /\ ents' = [ents EXCEPT ![o] = Quantity]
  <2>1. ents[o] + Quantity = Quantity
    BY <1>5, NumbersAssumption
  <2> QED BY <2>1 DEF Sold, Study
<1>7. stock' = stock
  BY DEF Sold
<1>8. CASE c[1] = "balance"
  <2>1. purchases'[o] - refundTx'[o] = 1
    BY <1>5, <1>8 DEF Sold, IInv, TypeOK
  <2>2. ChargedOf' = [ChargedOf EXCEPT ![o] = Price * 1]
    BY <1>8, <2>1, ChargeChanges DEF Sold, IInv, TypeOK
  <2>3. ChargedOf' = [ChargedOf EXCEPT ![o] = Price]
    <3>1. Price * 1 = Price
      BY NumbersAssumption
    <3> QED BY <2>2, <3>1
  <2>4. balance >= Price /\ balance' = balance - Price
    BY <1>8 DEF Sold
  <2>5. Contract!Settle(o, Price)
    BY <1>1, <1>4, <1>6, <1>7, <2>3, <2>4
       DEF Contract!Settle, StateOf, HeldOf, ChargedOf
  <2> QED BY <2>5
<1>9. CASE c[1] # "balance"
  <2>1. purchases'[o] - refundTx'[o] = 0
    BY <1>5, <1>9 DEF Sold
  <2>2. ChargedOf' = [ChargedOf EXCEPT ![o] = Price * 0]
    BY <1>9, <2>1, ChargeChanges DEF Sold
  <2>3. ChargedOf' = [ChargedOf EXCEPT ![o] = 0]
    <3>1. Price * 0 = 0
      BY NumbersAssumption
    <3> QED BY <2>2, <3>1
  <2>4. balance >= 0 /\ balance' = balance - 0
    BY <1>9 DEF Sold, SerialInv, IInv, TypeOK
  <2>5. Contract!Settle(o, 0)
    BY <1>1, <1>4, <1>6, <1>7, <2>3, <2>4
       DEF Contract!Settle, StateOf, HeldOf, ChargedOf
  <2> QED BY <2>5
<1> QED BY <1>8, <1>9

\* A cancellation is the contract's Withdraw.
LEMMA WithdrawnIsWithdraw ==
  ASSUME IInv, NEW o \in Orders, Withdrawn(o)
  PROVE  Contract!Withdraw(o)
<1>1. StateOf[o] = "pending" /\ HeldOf[o] = order[o].deducted
  BY StateFacts DEF Withdrawn
<1>2. /\ order'[o].status = "canceled" /\ order'[o].pay = "canceled"
      /\ ~order'[o].deducted
      /\ \A p \in Orders \ {o} : order'[p] = order[p]
  BY KindRows
<1>3. ContractState(order'[o]) = "canceled"
  BY <1>2 DEF ContractState
<1>4. order'[o].deducted = FALSE
  BY DEF Withdrawn, IInv, TypeOK, Row
<1>5. /\ StateOf' = [StateOf EXCEPT ![o] = "canceled"]
      /\ HeldOf' = [HeldOf EXCEPT ![o] = FALSE]
  BY <1>2, <1>3, <1>4, ViewChanges
<1>6. ChargedOf' = ChargedOf /\ UNCHANGED <<ents, balance, vip>>
  BY DEF Withdrawn, ChargedOf
<1>7. stock' = IF HeldOf[o] THEN stock + Quantity ELSE stock
  BY <1>1 DEF Withdrawn
<1> QED BY <1>1, <1>5, <1>6, <1>7
        DEF Contract!Withdraw, Contract!PutBack, StateOf, HeldOf, ChargedOf

\* A refund is the contract's Refund: it returns exactly what was charged.
LEMMA ReturnedIsRefund ==
  ASSUME IInv, SerialInv, NEW o \in Orders, Returned(o)
  PROVE  Contract!Refund(o)
<1>1. StateOf[o] = "paid" /\ HeldOf[o] = order[o].deducted
  BY StateFacts DEF Returned, Paid
<1>2. /\ order'[o].status = "canceled" /\ order'[o].pay = "refunded"
      /\ ~order'[o].deducted
      /\ \A p \in Orders \ {o} : order'[p] = order[p]
  BY KindRows
<1>3. ContractState(order'[o]) = "refunded"
  BY <1>2 DEF ContractState
<1>4. order'[o].deducted = FALSE
  BY DEF Returned, IInv, TypeOK, Row
<1>5. /\ StateOf' = [StateOf EXCEPT ![o] = "refunded"]
      /\ HeldOf' = [HeldOf EXCEPT ![o] = FALSE]
  BY <1>2, <1>3, <1>4, ViewChanges
<1>6. /\ refundTx[o] = 0
      /\ purchases[o] = IF order[o].method = "balance" THEN 1 ELSE 0
  BY DEF Returned, Paid, SerialInv, OrderInv, Tidy
<1>7. balance' = balance + ChargedOf[o]
  <2>1. CASE order[o].method = "balance"
    <3>1. ChargedOf[o] = Price
      BY <1>6, <2>1, NumbersAssumption DEF ChargedOf
    <3> QED BY <2>1, <3>1 DEF Returned
  <2>2. CASE order[o].method # "balance"
    <3>1. ChargedOf[o] = 0
      BY <1>6, <2>2, NumbersAssumption DEF ChargedOf
    <3> QED BY <2>2, <3>1 DEF Returned, IInv, TypeOK
  <2> QED BY <2>1, <2>2
<1>8. ChargedOf' = [ChargedOf EXCEPT ![o] = 0]
  <2>1. purchases'[o] - refundTx'[o] = 0
    BY <1>6 DEF Returned, IInv, TypeOK
  <2>2. \A p \in Orders \ {o} : /\ purchases'[p] = purchases[p]
                                /\ refundTx'[p] = refundTx[p]
    BY DEF Returned, IInv, TypeOK
  <2>3. ChargedOf' = [ChargedOf EXCEPT ![o] = Price * 0]
    BY <2>1, <2>2, ChargeChanges
  <2>4. Price * 0 = 0
    BY NumbersAssumption
  <2> QED BY <2>3, <2>4
<1>9. /\ stock' = IF HeldOf[o] THEN stock + Quantity ELSE stock
      /\ ents' = [ents EXCEPT ![o] = 0] /\ vip' = vip
  BY <1>1 DEF Returned
<1> QED BY <1>1, <1>5, <1>7, <1>8, <1>9
        DEF Contract!Refund, Contract!PutBack, StateOf, HeldOf, ChargedOf

\* Every kind of step is a step of the contract or invisible to it.
LEMMA SerialContractStep ==
  ASSUME IInv, SerialInv, KindOfStep
  PROVE  [Contract!Next]_(Contract!vars)
<1>1. ASSUME NEW o \in Orders, Placed(o) PROVE Contract!Next
  BY <1>1, PlacedIsPlace DEF Contract!Next
<1>2. ASSUME NEW o \in Orders, NEW c \in Channels, Sold(o, c[1], c[2])
      PROVE  Contract!Next
  BY <1>2, SoldIsSettle DEF Contract!Next
<1>3. ASSUME NEW o \in Orders, Withdrawn(o) PROVE Contract!Next
  BY <1>3, WithdrawnIsWithdraw DEF Contract!Next
<1>4. ASSUME NEW o \in Orders, Returned(o) PROVE Contract!Next
  BY <1>4, ReturnedIsRefund DEF Contract!Next
<1>5. ASSUME \A p \in Orders : /\ order'[p].status = order[p].status
                               /\ order'[p].pay = order[p].pay
                               /\ order'[p].deducted = order[p].deducted,
             UNCHANGED <<purchases, refundTx>>
      PROVE  StateOf' = StateOf /\ HeldOf' = HeldOf /\ ChargedOf' = ChargedOf
  BY <1>5 DEF StateOf, HeldOf, ChargedOf, ContractState
<1>6. ASSUME NEW o \in Orders, Moved(o) PROVE UNCHANGED Contract!vars
  <2>1. /\ \A p \in Orders : /\ order'[p].status = order[p].status
                             /\ order'[p].pay = order[p].pay
                             /\ order'[p].deducted = order[p].deducted
        /\ UNCHANGED <<stock, balance, purchases, refundTx, ents, vip>>
    BY <1>6, KindRows DEF Moved
  <2> QED BY <1>5, <2>1 DEF Contract!vars, StateOf, HeldOf, ChargedOf
<1>7. ASSUME Aside PROVE Contract!Next \/ UNCHANGED Contract!vars
  <2>1. /\ StateOf' = StateOf /\ HeldOf' = HeldOf /\ ChargedOf' = ChargedOf
        /\ UNCHANGED <<stock, ents, vip>>
    BY <1>5, <1>7 DEF Aside
  <2>2. CASE balance' = balance
    BY <2>1, <2>2 DEF Contract!vars, StateOf, HeldOf, ChargedOf
  <2>3. CASE \E amount \in {Price, -Price} :
               balance + amount >= 0 /\ balance' = balance + amount
    <3>1. Contract!Adjust
      BY <2>1, <2>3 DEF Contract!Adjust, StateOf, HeldOf, ChargedOf
    <3> QED BY <3>1 DEF Contract!Next
  <2> QED BY <1>7, <2>2, <2>3 DEF Aside
<1> QED BY <1>1, <1>2, <1>3, <1>4, <1>6, <1>7 DEF KindOfStep

\* Without overlap the order system implements its contract: an order is sold
\* once, canceled or refunded once, and a refund undoes exactly the sale.
THEOREM OrdersKeepContract == ~Overlap /\ Spec => KeepsContract
<1> SUFFICES ASSUME ~Overlap PROVE Spec => KeepsContract
  OBVIOUS
<1>1. ASSUME IInv, SerialInv, [Next]_vars
      PROVE  [Contract!Next]_(Contract!vars)
  BY <1>1, StepKinds, SerialContractStep
<1>2. Spec => []SerialInv
  BY SerialInvariance
<1> QED BY <1>1, <1>2, SerialContractInit, Invariance, PTL
        DEF Spec, KeepsContract, Contract!Spec

\* Without overlap a canceled order stays canceled: paying one needs a session
\* that loaded it while it was pending.
THEOREM CancellationIsFinal == ~Overlap /\ Spec => CanceledIsFinal
<1> SUFFICES ASSUME ~Overlap PROVE Spec => CanceledIsFinal
  OBVIOUS
<1> DEFINE Final == \A o \in Orders :
                      order[o].status = "canceled" => order[o]'.status = "canceled"
<1>1. ASSUME IInv, SerialInv, [Next]_vars PROVE Final
  <2>1. KindOfStep
    BY <1>1, StepKinds
  <2>2. ASSUME NEW o \in Orders,
               Placed(o) \/ Moved(o) \/ Withdrawn(o) \/ Returned(o)
                 \/ \E c \in Channels : Sold(o, c[1], c[2])
        PROVE  Final
    <3>1. \A p \in Orders \ {o} : order'[p] = order[p]
      BY <1>1, <2>2, KindRows
    <3>2. order[o].status = "canceled" => order'[o].status = "canceled"
      BY <1>1, <2>2, KindRows DEF Placed, Moved, Sold
    <3> QED BY <3>1, <3>2
  <2>3. CASE Aside
    BY <2>3 DEF Aside
  <2> QED BY <2>1, <2>2, <2>3 DEF KindOfStep
<1>2. Spec => []SerialInv
  BY SerialInvariance
<1> QED BY <1>1, <1>2, Invariance, PTL DEF Spec, CanceledIsFinal
=============================================================================
