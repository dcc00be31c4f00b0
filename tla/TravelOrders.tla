---------------------------- MODULE TravelOrders ----------------------------
(***************************************************************************)
(* The life of a `travel_orders` row: a route is exchanged for points, the *)
(* user signs a contract the platform reviews, pickup is arranged, a QR    *)
(* token is issued and verified, the trip starts and ends, and at any time *)
(* the order may be marked as an exception or cancelled.                   *)
(*                                                                         *)
(* Exchange and cancellation lock their rows before they read them and     *)
(* hold the locks until they commit: one step each.  Every other handler   *)
(* loads the row without a lock, decides on what it loaded, and at commit  *)
(* writes only the columns whose value it changed.  Such a handler is two  *)
(* steps, Open(s, o) and the handler's own action, and the columns it does *)
(* not change keep what others committed in between.                       *)
(*                                                                         *)
(* The route is approved and on sale throughout; what the debit and the    *)
(* refund do to the point ledger is the subject of PointLedger, here they  *)
(* are counted.                                                            *)
(***************************************************************************)
EXTENDS Integers, FiniteSets

CONSTANTS
  Orders,      \* travel_orders rows, named by their idempotency keys
  Free,        \* the ones whose route costs no points
  Sessions,    \* concurrently open database sessions
  Stock0,      \* initial travel_routes.stock
  MaxTokens    \* bound: QR tokens issued for one order

ASSUME OrdersAssumption == IsFiniteSet(Orders) /\ Free \subseteq Orders
ASSUME StockAssumption == Stock0 \in Nat
ASSUME TokensAssumption == MaxTokens \in Nat \ {0}

VARIABLES
  row,       \* travel_orders
  stock,     \* travel_routes.stock
  debits,    \* `travel_exchange` rows of the point ledger, per order
  refunds,   \* `travel_exchange_refund` rows of the point ledger, per order
  issued,    \* QR tokens issued so far, per order
  lapsed,    \* tokens whose qr_expires_at has passed, per order
  verified,  \* verification records with result success, per order and token
  reviews,   \* travel_route_reviews rows, per order
  req,       \* the open sessions
  clean      \* history: no session has committed over a row changed under it

books == <<stock, debits, refunds>>
vars == <<row, books, issued, lapsed, verified, reviews, req, clean>>

Contract == {"unsigned", "pending", "approved", "rejected"}

Fulfillment ==
  {"contract_pending", "contract_reviewing", "contract_rejected",
   "info_pending", "info_submitted", "pickup_confirmed", "user_confirmed",
   "qr_issued", "checked_in", "in_trip", "completed", "exception",
   "cancelled"}

ContractStage == {"contract_pending", "contract_reviewing", "contract_rejected"}
AwaitingCheckIn == {"user_confirmed", "qr_issued"}
NonCancellable == {"checked_in", "in_trip", "completed"}
UserCancellable == ContractStage \cup {"info_pending", "info_submitted"}

Tokens == 1..MaxTokens

\* token 0 is the empty qr_token; expiry names the token that qr_expires_at was
\* set for, 0 when it is null.
Row == [exists   : BOOLEAN,
        status   : {"created", "completed", "cancelled"},
        contract : Contract,
        fulfil   : Fulfillment,
        address  : BOOLEAN,
        token    : 0..MaxTokens,
        expiry   : 0..MaxTokens,
        refunded : BOOLEAN,
        restored : BOOLEAN]

Absent == [exists |-> FALSE, status |-> "created", contract |-> "unsigned",
           fulfil |-> "contract_pending", address |-> FALSE, token |-> 0,
           expiry |-> 0, refunded |-> FALSE, restored |-> FALSE]

Closed == [pc |-> "closed"]
Loaded == [pc : {"loaded"}, order : Orders, seen : Row]

TypeOK ==
  /\ row \in [Orders -> Row]
  /\ stock \in Int
  /\ debits \in [Orders -> Nat]
  /\ refunds \in [Orders -> Nat]
  /\ issued \in [Orders -> 0..MaxTokens]
  /\ lapsed \in [Orders -> SUBSET Tokens]
  /\ verified \in [Orders -> [Tokens -> Nat]]
  /\ reviews \in [Orders -> Nat]
  /\ req \in [Sessions -> Loaded \cup {Closed}]
  /\ clean \in [Orders -> BOOLEAN]

Init ==
  /\ row = [o \in Orders |-> Absent]
  /\ stock = Stock0
  /\ debits = [o \in Orders |-> 0]
  /\ refunds = [o \in Orders |-> 0]
  /\ issued = [o \in Orders |-> 0]
  /\ lapsed = [o \in Orders |-> {}]
  /\ verified = [o \in Orders |-> [t \in Tokens |-> 0]]
  /\ reviews = [o \in Orders |-> 0]
  /\ req = [s \in Sessions |-> Closed]
  /\ clean = [o \in Orders |-> TRUE]

-----------------------------------------------------------------------------
(* Exchange and cancellation: locked, one step.                            *)

\* The unique (user_id, idempotency_key) turns a second exchange with the key
\* into a read of the first one's order.  A user without enough points, or a
\* route without stock, changes nothing.
exchange_travel_route(o) ==
  /\ ~row[o].exists
  /\ stock > 0
  /\ row' = [row EXCEPT ![o].exists = TRUE]
  /\ stock' = stock - 1
  /\ debits' = [debits EXCEPT ![o] = @ + (IF o \in Free THEN 0 ELSE 1)]
  /\ UNCHANGED <<refunds, issued, lapsed, verified, reviews, req, clean>>

\* Mutant: the points_refunded flag is not looked at.
RefundAlways(o) == o \notin Free

RefundDue(o) == o \notin Free /\ ~row[o].refunded

\* Mutant: the stock_restored flag is not looked at.
SeatAlways(o) == row[o].exists

SeatDue(o) == ~row[o].restored

cancel_travel_order(o, adminOverride) ==
  /\ row[o].exists
  /\ row[o].fulfil \notin NonCancellable \cup {"cancelled"}
  /\ adminOverride \/ row[o].fulfil \in UserCancellable
  /\ refunds' = [refunds EXCEPT ![o] = @ + (IF RefundDue(o) THEN 1 ELSE 0)]
  /\ stock' = stock + (IF SeatDue(o) THEN 1 ELSE 0)
  /\ row' = [row EXCEPT ![o] =
               [row[o] EXCEPT !.status = "cancelled", !.fulfil = "cancelled",
                              !.token = 0, !.expiry = 0,
                              !.refunded = row[o].refunded \/ o \notin Free,
                              !.restored = TRUE]]
  /\ UNCHANGED <<debits, issued, lapsed, verified, reviews, req, clean>>

cancel_my_travel_order(o) == cancel_travel_order(o, FALSE)
admin_cancel_travel_order(o) == cancel_travel_order(o, TRUE)

-----------------------------------------------------------------------------
(* Unlocked handlers: load, decide, write the changed columns.             *)

Open(s, o) ==
  /\ req[s] = Closed
  /\ row[o].exists
  /\ req' = [req EXCEPT ![s] = [pc |-> "loaded", order |-> o, seen |-> row[o]]]
  /\ UNCHANGED <<row, books, issued, lapsed, verified, reviews, clean>>

\* The handler raises, or finds nothing to change.
Abandon(s) ==
  /\ req[s] # Closed
  /\ req' = [req EXCEPT ![s] = Closed]
  /\ UNCHANGED <<row, books, issued, lapsed, verified, reviews, clean>>

\* What the flush of a session makes of the current row.
Flushed(seen, new, cur) ==
  [exists   |-> cur.exists,
   status   |-> IF new.status # seen.status THEN new.status ELSE cur.status,
   contract |-> IF new.contract # seen.contract THEN new.contract ELSE cur.contract,
   fulfil   |-> IF new.fulfil # seen.fulfil THEN new.fulfil ELSE cur.fulfil,
   address  |-> IF new.address # seen.address THEN new.address ELSE cur.address,
   token    |-> IF new.token # seen.token THEN new.token ELSE cur.token,
   expiry   |-> IF new.expiry # seen.expiry THEN new.expiry ELSE cur.expiry,
   refunded |-> cur.refunded,
   restored |-> cur.restored]

Write(s, new) ==
  LET o == req[s].order IN
  /\ row' = [row EXCEPT ![o] = Flushed(req[s].seen, new, row[o])]
  /\ clean' = [clean EXCEPT ![o] = @ /\ row[o] = req[s].seen]
  /\ req' = [req EXCEPT ![s] = Closed]
  /\ UNCHANGED <<books, lapsed, reviews>>

NoToken == UNCHANGED <<issued, verified>>

normalize_fulfillment_status(item) ==
  IF item.contract = "approved"
     /\ item.fulfil \in {"contract_pending", "contract_reviewing"}
  THEN [item EXCEPT !.fulfil = "info_pending"]
  ELSE item

\* A list of orders normalises what it loads.
Normalised(s) ==
  /\ req[s] # Closed
  /\ normalize_fulfillment_status(req[s].seen) # req[s].seen
  /\ Write(s, normalize_fulfillment_status(req[s].seen))
  /\ NoToken

my_travel_orders(s) == Normalised(s)
orders(s) == Normalised(s)

sign_travel_contract(s) ==
  /\ req[s] # Closed
  /\ LET item == normalize_fulfillment_status(req[s].seen) IN
     /\ item.contract # "approved"
     /\ item.fulfil \in ContractStage
     /\ Write(s, [item EXCEPT !.contract = "pending",
                              !.fulfil = "contract_reviewing"])
  /\ NoToken

\* Mutant: a reviewed order proceeds, whatever the verdict.
review_contract_only(s, approved) ==
  /\ req[s] # Closed
  /\ LET item == req[s].seen IN
     /\ item.contract \in {"pending", "rejected"}
     /\ Write(s, [item EXCEPT
                    !.contract = IF approved THEN "approved" ELSE "rejected",
                    !.fulfil = IF @ \in ContractStage
                               THEN "info_pending" ELSE @])
  /\ NoToken

review_order_contract(s, approved) ==
  /\ req[s] # Closed
  /\ LET item == req[s].seen IN
     /\ item.contract \in {"pending", "rejected"}
     /\ Write(s,
          IF approved
          THEN [item EXCEPT !.contract = "approved",
                            !.fulfil = IF @ \in ContractStage
                                       THEN "info_pending" ELSE @]
          ELSE [item EXCEPT !.contract = "rejected",
                            !.fulfil = "contract_rejected"])
  /\ NoToken

submit_travel_pickup_info(s) ==
  /\ req[s] # Closed
  /\ LET item == normalize_fulfillment_status(req[s].seen) IN
     /\ item.contract = "approved"
     /\ item.fulfil \in {"info_pending", "info_submitted", "pickup_confirmed"}
     /\ Write(s, [item EXCEPT !.address = TRUE, !.fulfil = "info_submitted",
                              !.token = 0, !.expiry = 0])
  /\ NoToken

\* Mutant: a cancelled order can be scheduled.
schedule_cancelled_pickup(s) ==
  /\ req[s] # Closed
  /\ LET item == req[s].seen IN
     /\ item.contract = "approved"
     /\ item.address
     /\ item.fulfil \notin NonCancellable
     /\ Write(s, [item EXCEPT !.fulfil = "pickup_confirmed",
                              !.token = 0, !.expiry = 0])
  /\ NoToken

schedule_order_pickup(s) ==
  /\ req[s] # Closed
  /\ LET item == req[s].seen IN
     /\ item.contract = "approved"
     /\ item.address
     /\ item.fulfil \notin NonCancellable \cup {"cancelled"}
     /\ Write(s, [item EXCEPT !.fulfil = "pickup_confirmed",
                              !.token = 0, !.expiry = 0])
  /\ NoToken

\* The row with a new token, uuid4 and qr_expiry.
Issue(o, item) == [item EXCEPT !.token = issued[o] + 1, !.expiry = issued[o] + 1]

IssueIf(missing, s, item) ==
  LET o == req[s].order IN
  /\ missing => issued[o] < MaxTokens
  /\ Write(s, IF missing THEN Issue(o, item) ELSE item)
  /\ issued' = [issued EXCEPT ![o] = @ + (IF missing THEN 1 ELSE 0)]
  /\ UNCHANGED verified

confirm_travel_pickup(s) ==
  /\ req[s] # Closed
  /\ LET item == normalize_fulfillment_status(req[s].seen) IN
     /\ item.contract = "approved"
     /\ item.fulfil = "pickup_confirmed"
     /\ IssueIf(item.token = 0, s, [item EXCEPT !.fulfil = "user_confirmed"])

Expired(o, item) == item.expiry \in lapsed[o]

issue_order_qr(s) ==
  /\ req[s] # Closed
  /\ LET item == req[s].seen IN
     /\ item.fulfil \in AwaitingCheckIn
     /\ IssueIf(item.token = 0 \/ item.expiry = 0 \/ Expired(req[s].order, item),
                s, [item EXCEPT !.fulfil = "qr_issued"])

\* Mutant: the used token stays on the row.
check_in_keeping_token(s) ==
  /\ req[s] # Closed
  /\ LET item == req[s].seen
         o == req[s].order
     IN
     /\ item.fulfil \in AwaitingCheckIn
     /\ ~Expired(o, item)
     /\ item.token # 0
     /\ Write(s, [item EXCEPT !.fulfil = "checked_in"])
     /\ verified' = [verified EXCEPT ![o][item.token] = @ + 1]
  /\ UNCHANGED issued

\* The token presented is the right one or not; a wrong one, and an order that
\* does not await check-in, only leave a verification record (Abandon).
check_in_order(s) ==
  /\ req[s] # Closed
  /\ LET item == req[s].seen
         o == req[s].order
     IN
     /\ item.fulfil \in AwaitingCheckIn
     /\ \/ /\ Expired(o, item)
           /\ Write(s, [item EXCEPT !.token = 0])
           /\ UNCHANGED verified
        \/ /\ ~Expired(o, item)
           /\ item.token # 0
           /\ Write(s, [item EXCEPT !.fulfil = "checked_in", !.token = 0])
           /\ verified' = [verified EXCEPT ![o][item.token] = @ + 1]
  /\ UNCHANGED issued

start_order_trip(s) ==
  /\ req[s] # Closed
  /\ req[s].seen.fulfil \in {"checked_in", "in_trip"}
  /\ Write(s, [req[s].seen EXCEPT !.fulfil = "in_trip"])
  /\ NoToken

complete_order(s) ==
  /\ req[s] # Closed
  /\ req[s].seen.fulfil \in NonCancellable
  /\ Write(s, [req[s].seen EXCEPT !.fulfil = "completed", !.status = "completed"])
  /\ NoToken

mark_order_exception(s) ==
  /\ req[s] # Closed
  /\ req[s].seen.fulfil # "completed"
  /\ Write(s, [req[s].seen EXCEPT !.fulfil = "exception"])
  /\ NoToken

_review_eligible_order(s) ==
  req[s].seen.fulfil = "completed" /\ reviews[req[s].order] = 0

\* The unique order_id refuses a second review at commit.
create_route_review(s) ==
  /\ req[s] # Closed
  /\ _review_eligible_order(s)
  /\ LET o == req[s].order IN
     reviews' = [reviews EXCEPT ![o] = @ + 1]
  /\ req' = [req EXCEPT ![s] = Closed]
  /\ UNCHANGED <<row, books, issued, lapsed, verified, clean>>

\* Time passes a token's expiry.
Lapse(o) ==
  /\ \E t \in 1..issued[o] : lapsed' = [lapsed EXCEPT ![o] = @ \cup {t}]
  /\ UNCHANGED <<row, books, issued, verified, reviews, req, clean>>

-----------------------------------------------------------------------------
Handler(s) ==
  \/ my_travel_orders(s)
  \/ orders(s)
  \/ sign_travel_contract(s)
  \/ \E approved \in BOOLEAN : review_order_contract(s, approved)
  \/ submit_travel_pickup_info(s)
  \/ schedule_order_pickup(s)
  \/ confirm_travel_pickup(s)
  \/ issue_order_qr(s)
  \/ check_in_order(s)
  \/ start_order_trip(s)
  \/ complete_order(s)
  \/ mark_order_exception(s)
  \/ create_route_review(s)
  \/ Abandon(s)

Next ==
  \/ \E o \in Orders :
       \/ exchange_travel_route(o)
       \/ cancel_my_travel_order(o)
       \/ admin_cancel_travel_order(o)
       \/ Lapse(o)
  \/ \E s \in Sessions :
       \/ \E o \in Orders : Open(s, o)
       \/ Handler(s)

Spec == Init /\ [][Next]_vars

-----------------------------------------------------------------------------
(* Properties.                                                             *)

Held == {o \in Orders : row[o].exists /\ ~row[o].restored}

\* Whatever handlers overlap, and however often an order is brought back after
\* a cancellation and cancelled again, its points are taken once and given back
\* at most once, and the points_refunded flag tells which (cancel_travel_order).
PointsReturnedOnce ==
  \A o \in Orders :
    /\ debits[o] = (IF row[o].exists /\ o \notin Free THEN 1 ELSE 0)
    /\ refunds[o] = (IF row[o].refunded THEN 1 ELSE 0)
    /\ refunds[o] <= debits[o]

\* Every place that left the route's stock is held by exactly one order that
\* has not given it back: no cancellation, repeated cancellation or revival
\* creates or loses a place.
SeatsConserved == stock >= 0 /\ stock + Cardinality(Held) = Stock0

\* As long as no handler has committed over a row changed under it, an order
\* whose pickup or trip is under way has an approved contract, across
\* re-signing, re-review, exceptions and revived cancellations.
ContractBeforeTrip ==
  \A o \in Orders :
    clean[o] /\ row[o].fulfil \notin ContractStage \cup {"exception", "cancelled"}
      => row[o].contract = "approved"

\* As long as no handler has committed over a row changed under it, a QR token
\* is verified at most once, and a verified token is no longer on the row.
TokenVerifiedOnce ==
  \A o \in Orders, t \in Tokens :
    clean[o] => /\ verified[o][t] <= 1
                /\ verified[o][t] = 1 => row[o].token # t

\* Without a stale commit a cancelled order is left only by marking it an
\* exception or by rejecting its contract (the two handlers that do not look
\* at the cancellation).
WaysOutOfCancelled ==
  [][\A o \in Orders :
       clean'[o] /\ row[o].fulfil = "cancelled" /\ row'[o].fulfil # "cancelled"
         => row'[o].fulfil \in {"exception", "contract_rejected"}]_vars

\* Without a stale commit a completed trip stays completed: it is neither
\* cancelled, nor refunded, nor brought back to an earlier stage.
CompletedIsFinal ==
  [][\A o \in Orders :
       clean'[o] /\ row[o].fulfil = "completed"
         => /\ row'[o].fulfil = "completed"
            /\ row'[o].status = "completed"
            /\ refunds'[o] = refunds[o]]_vars
=============================================================================
