------------------------- MODULE TravelOrdersProofs -------------------------
(***************************************************************************)
(* Theorems about TravelOrders, for every finite set of orders, every set  *)
(* of sessions, every stock and every number of tokens.                    *)
(*                                                                         *)
(* The handlers differ in what they test and write, but the invariants     *)
(* need only a few facts about the row `new` a handler makes of the row    *)
(* it loaded.  Lawful collects them, HandlerWrites proves them once, one   *)
(* step per handler, and the theorems use nothing else of the handlers.    *)
(***************************************************************************)
EXTENDS TravelOrders, FiniteSetTheorems, TLAPS

Early == ContractStage \cup {"exception", "cancelled"}

\* What no unlocked handler touches.
Kept(item, new) ==
  /\ new.exists = item.exists
  /\ new.refunded = item.refunded
  /\ new.restored = item.restored

\* A handler leaves the contract stage only with an approved contract, leaves
\* a cancelled or completed order only in the known ways, and completes the
\* order's status with its trip.
Lawful(item, new) ==
  /\ new.fulfil \notin Early
       => new.contract = "approved"
          \/ (item.fulfil \notin Early /\ new.contract = item.contract)
  /\ item.fulfil = "cancelled"
       => new.fulfil \in {"cancelled", "exception", "contract_rejected"}
  /\ new.fulfil = "completed"
       => new.status = "completed"
          \/ (item.fulfil = "completed" /\ new.status = item.status)
  /\ item.fulfil = "completed" /\ item.contract = "approved"
       => new.fulfil = "completed"

\* A token is kept or cleared, or newly issued, or verified and cleared.
TokenStep(o, item, new) ==
  \/ new.token \in {0, item.token} /\ UNCHANGED <<issued, verified>>
  \/ /\ issued[o] < MaxTokens
     /\ new.token = issued[o] + 1
     /\ issued' = [issued EXCEPT ![o] = issued[o] + 1]
     /\ UNCHANGED verified
  \/ /\ item.token # 0
     /\ new.token = 0
     /\ verified' = [verified EXCEPT ![o][item.token] = @ + 1]
     /\ UNCHANGED issued

Writes(s) ==
  \E new \in Row :
    /\ Write(s, new)
    /\ Kept(req[s].seen, new)
    /\ Lawful(req[s].seen, new)
    /\ TokenStep(req[s].order, req[s].seen, new)

\* A step of a session that changes no order.
Idles(s) ==
  /\ req[s] # Closed
  /\ req' = [req EXCEPT ![s] = Closed]
  /\ reviews' \in [Orders -> Nat]
  /\ UNCHANGED <<row, books, issued, lapsed, verified, clean>>

-----------------------------------------------------------------------------
LEMMA OpenSession ==
  ASSUME TypeOK, NEW s \in Sessions, req[s] # Closed
  PROVE  req[s] \in Loaded /\ req[s].order \in Orders /\ req[s].seen \in Row
BY DEF TypeOK, Loaded

LEMMA NormalType ==
  ASSUME NEW item \in Row
  PROVE  /\ normalize_fulfillment_status(item) \in Row
         /\ Kept(item, normalize_fulfillment_status(item))
         /\ normalize_fulfillment_status(item).token = item.token
         /\ normalize_fulfillment_status(item).expiry = item.expiry
         /\ normalize_fulfillment_status(item).contract = item.contract
         /\ normalize_fulfillment_status(item).status = item.status
         /\ \/ normalize_fulfillment_status(item).fulfil = item.fulfil
            \/ /\ normalize_fulfillment_status(item).fulfil = "info_pending"
               /\ item.fulfil \in ContractStage
               /\ item.contract = "approved"
BY DEF normalize_fulfillment_status, Row, Kept, Fulfillment, ContractStage

LEMMA TokensType == 0 \in 0..MaxTokens
BY TokensAssumption

LEMMA HandlerOpen ==
  ASSUME NEW s \in Sessions, Handler(s)
  PROVE  req[s] # Closed
  BY DEF Handler, Normalised, my_travel_orders, orders, sign_travel_contract,
         review_order_contract, submit_travel_pickup_info, schedule_order_pickup,
         confirm_travel_pickup, issue_order_qr, check_in_order, start_order_trip,
         complete_order, mark_order_exception, create_route_review, Abandon

\* Every unlocked handler is lawful (or changes no order).
LEMMA HandlerWrites ==
  ASSUME TypeOK, NEW s \in Sessions, Handler(s)
  PROVE  Writes(s) \/ Idles(s)
<1> DEFINE item == req[s].seen
           o == req[s].order
           norm == normalize_fulfillment_status(item)
<1>0. req[s] # Closed
  BY HandlerOpen
<1>1. /\ item \in Row /\ o \in Orders
      /\ issued[o] \in 0..MaxTokens /\ issued \in [Orders -> 0..MaxTokens]
      /\ reviews \in [Orders -> Nat]
  BY <1>0, OpenSession DEF TypeOK
<1>n. /\ norm \in Row /\ Kept(item, norm)
      /\ norm.token = item.token /\ norm.contract = item.contract
      /\ norm.status = item.status
      /\ \/ norm.fulfil = item.fulfil
         \/ /\ norm.fulfil = "info_pending" /\ item.fulfil \in ContractStage
            /\ item.contract = "approved"
  BY <1>1, NormalType
<1> HIDE DEF norm, item, o
<1>2. CASE my_travel_orders(s) \/ orders(s)
  <2>1. Write(s, norm) /\ UNCHANGED <<issued, verified>>
    BY <1>2 DEF my_travel_orders, orders, Normalised, NoToken, norm, item
  <2>2. Lawful(item, norm) /\ TokenStep(o, item, norm)
    BY <2>1, <1>n, <1>1 DEF Lawful, TokenStep, Early, ContractStage, Row
  <2> QED BY <2>1, <2>2, <1>n DEF Writes, item, o
<1>3. CASE sign_travel_contract(s)
  <2> DEFINE new == [norm EXCEPT !.contract = "pending", !.fulfil = "contract_reviewing"]
  <2>1. Write(s, new) /\ UNCHANGED <<issued, verified>> /\ norm.fulfil \in ContractStage
    BY <1>3 DEF sign_travel_contract, NoToken, norm, item
  <2>2. new \in Row /\ Kept(item, new)
    BY <1>n DEF Row, Kept, Contract, Fulfillment
  <2>3. Lawful(item, new) /\ TokenStep(o, item, new)
    BY <2>1, <1>n, <1>1 DEF Lawful, TokenStep, Early, ContractStage, Row
  <2> QED BY <2>1, <2>2, <2>3 DEF Writes, item, o
<1>4. ASSUME NEW approved \in BOOLEAN, review_order_contract(s, approved)
      PROVE  Writes(s)
  <2> DEFINE yes == [item EXCEPT !.contract = "approved",
                                 !.fulfil = IF @ \in ContractStage
                                            THEN "info_pending" ELSE @]
             no == [item EXCEPT !.contract = "rejected", !.fulfil = "contract_rejected"]
             new == IF approved THEN yes ELSE no
  <2>1. Write(s, new) /\ UNCHANGED <<issued, verified>>
        /\ item.contract \in {"pending", "rejected"}
    BY <1>4 DEF review_order_contract, NoToken, item
  <2>2. new \in Row /\ Kept(item, new)
    BY <1>1 DEF Row, Kept, Contract, Fulfillment
  <2>3. Lawful(item, new) /\ TokenStep(o, item, new)
    BY <2>1, <1>1 DEF Lawful, TokenStep, Early, ContractStage, Row
  <2> QED BY <2>1, <2>2, <2>3 DEF Writes, item, o
<1>5. CASE submit_travel_pickup_info(s)
  <2> DEFINE new == [norm EXCEPT !.address = TRUE, !.fulfil = "info_submitted",
                                 !.token = 0, !.expiry = 0]
  <2>1. Write(s, new) /\ UNCHANGED <<issued, verified>> /\ norm.contract = "approved"
        /\ norm.fulfil \in {"info_pending", "info_submitted", "pickup_confirmed"}
    BY <1>5 DEF submit_travel_pickup_info, NoToken, norm, item
  <2>2. new \in Row /\ Kept(item, new)
    BY <1>n, TokensType DEF Row, Kept, Contract, Fulfillment
  <2>3. Lawful(item, new) /\ TokenStep(o, item, new)
    BY <2>1, <1>n, <1>1 DEF Lawful, TokenStep, Early, ContractStage, Row
  <2> QED BY <2>1, <2>2, <2>3 DEF Writes, item, o
<1>6. CASE schedule_order_pickup(s)
  <2> DEFINE new == [item EXCEPT !.fulfil = "pickup_confirmed", !.token = 0, !.expiry = 0]
  <2>1. Write(s, new) /\ UNCHANGED <<issued, verified>> /\ item.contract = "approved"
        /\ item.fulfil \notin NonCancellable \cup {"cancelled"}
    BY <1>6 DEF schedule_order_pickup, NoToken, item
  <2>2. new \in Row /\ Kept(item, new)
    BY <1>1, TokensType DEF Row, Kept, Contract, Fulfillment
  <2>3. Lawful(item, new) /\ TokenStep(o, item, new)
    BY <2>1, <1>1 DEF Lawful, TokenStep, Early, ContractStage, Row, NonCancellable
  <2> QED BY <2>1, <2>2, <2>3 DEF Writes, item, o
<1>7. ASSUME NEW missing \in BOOLEAN, NEW base \in Row, Kept(item, base),
             Lawful(item, base), base.token = item.token, IssueIf(missing, s, base)
      PROVE  Writes(s)
  <2>1. CASE ~missing
    <3>1. Write(s, base) /\ issued' = [issued EXCEPT ![o] = issued[o] + 0]
          /\ UNCHANGED verified
      BY <1>7, <2>1 DEF IssueIf, o
    <3>2. issued' = issued
      BY <3>1, <1>1
    <3>3. TokenStep(o, item, base)
      BY <3>1, <3>2, <1>7 DEF TokenStep
    <3> QED BY <3>1, <3>3, <1>7 DEF Writes, item, o
  <2>2. CASE missing
    <3> DEFINE new == Issue(o, base)
    <3>1. /\ Write(s, new) /\ issued[o] < MaxTokens /\ UNCHANGED verified
          /\ issued' = [issued EXCEPT ![o] = issued[o] + 1]
      BY <1>7, <2>2 DEF IssueIf, o
    <3>2. issued[o] + 1 \in 0..MaxTokens
      BY <3>1, <1>1, TokensAssumption
    <3>3. new \in Row /\ Kept(item, new) /\ new.token = issued[o] + 1
          /\ new.fulfil = base.fulfil /\ new.status = base.status
          /\ new.contract = base.contract
      BY <3>2, <1>7 DEF Row, Kept, Issue
    <3>4. Lawful(item, new)
      BY <3>3, <1>7 DEF Lawful
    <3>5. TokenStep(o, item, new)
      BY <3>1, <3>3 DEF TokenStep
    <3> QED BY <3>1, <3>3, <3>4, <3>5 DEF Writes, item, o
  <2> QED BY <2>1, <2>2
<1>8. CASE confirm_travel_pickup(s)
  <2> DEFINE base == [norm EXCEPT !.fulfil = "user_confirmed"]
  <2>1. IssueIf(norm.token = 0, s, base) /\ norm.contract = "approved"
        /\ norm.fulfil = "pickup_confirmed"
    BY <1>8 DEF confirm_travel_pickup, norm, item
  <2>2. base \in Row /\ Kept(item, base) /\ base.token = item.token
    BY <1>n DEF Row, Kept, Fulfillment
  <2>3. Lawful(item, base)
    BY <2>1, <1>n, <1>1 DEF Lawful, Early, ContractStage, Row
  <2> QED BY <2>1, <2>2, <2>3, <1>7
<1>9. CASE issue_order_qr(s)
  <2> DEFINE base == [item EXCEPT !.fulfil = "qr_issued"]
  <2>1. /\ IssueIf(item.token = 0 \/ item.expiry = 0 \/ Expired(o, item), s, base)
        /\ item.fulfil \in AwaitingCheckIn
    BY <1>9 DEF issue_order_qr, item, o
  <2>2. base \in Row /\ Kept(item, base) /\ base.token = item.token
    BY <1>1 DEF Row, Kept, Fulfillment
  <2>3. Lawful(item, base)
    BY <2>1, <1>1 DEF Lawful, Early, ContractStage, Row, AwaitingCheckIn
  <2>4. (item.token = 0 \/ item.expiry = 0 \/ Expired(o, item)) \in BOOLEAN
    OBVIOUS
  <2> HIDE DEF base
  <2> QED BY <2>1, <2>2, <2>3, <2>4, <1>7
<1>10. CASE check_in_order(s)
  <2>1. CASE Write(s, [item EXCEPT !.token = 0]) /\ UNCHANGED <<verified, issued>>
    <3> DEFINE new == [item EXCEPT !.token = 0]
    <3>1. new \in Row /\ Kept(item, new)
      BY <1>1, TokensType DEF Row, Kept
    <3>2. Lawful(item, new) /\ TokenStep(o, item, new)
      BY <2>1, <1>1 DEF Lawful, TokenStep, Row
    <3> QED BY <2>1, <3>1, <3>2 DEF Writes, item, o
  <2>2. CASE /\ item.token # 0 /\ item.fulfil \in AwaitingCheckIn
             /\ Write(s, [item EXCEPT !.fulfil = "checked_in", !.token = 0])
             /\ verified' = [verified EXCEPT ![o][item.token] = @ + 1]
             /\ UNCHANGED issued
    <3> DEFINE new == [item EXCEPT !.fulfil = "checked_in", !.token = 0]
    <3>1. new \in Row /\ Kept(item, new)
      BY <1>1, TokensType DEF Row, Kept, Fulfillment
    <3>2. Lawful(item, new)
      BY <2>2, <1>1 DEF Lawful, Row, Early, ContractStage, AwaitingCheckIn
    <3>3. TokenStep(o, item, new)
      BY <2>2, <1>1 DEF TokenStep, Row
    <3> QED BY <2>2, <3>1, <3>2, <3>3 DEF Writes, item, o
  <2> QED BY <1>10, <2>1, <2>2 DEF check_in_order, item, o
<1>11. CASE start_order_trip(s)
  <2> DEFINE new == [item EXCEPT !.fulfil = "in_trip"]
  <2>1. Write(s, new) /\ UNCHANGED <<issued, verified>>
        /\ item.fulfil \in {"checked_in", "in_trip"}
    BY <1>11 DEF start_order_trip, NoToken, item
  <2>2. new \in Row /\ Kept(item, new)
    BY <1>1 DEF Row, Kept, Fulfillment
  <2>3. Lawful(item, new) /\ TokenStep(o, item, new)
    BY <2>1, <1>1 DEF Lawful, TokenStep, Early, ContractStage, Row
  <2> QED BY <2>1, <2>2, <2>3 DEF Writes, item, o
<1>12. CASE complete_order(s)
  <2> DEFINE new == [item EXCEPT !.fulfil = "completed", !.status = "completed"]
  <2>1. Write(s, new) /\ UNCHANGED <<issued, verified>> /\ item.fulfil \in NonCancellable
    BY <1>12 DEF complete_order, NoToken, item
  <2>2. new \in Row /\ Kept(item, new)
    BY <1>1 DEF Row, Kept, Fulfillment
  <2>3. Lawful(item, new) /\ TokenStep(o, item, new)
    BY <2>1, <1>1 DEF Lawful, TokenStep, Early, ContractStage, Row, NonCancellable
  <2> QED BY <2>1, <2>2, <2>3 DEF Writes, item, o
<1>13. CASE mark_order_exception(s)
  <2> DEFINE new == [item EXCEPT !.fulfil = "exception"]
  <2>1. Write(s, new) /\ UNCHANGED <<issued, verified>> /\ item.fulfil # "completed"
    BY <1>13 DEF mark_order_exception, NoToken, item
  <2>2. new \in Row /\ Kept(item, new)
    BY <1>1 DEF Row, Kept, Fulfillment
  <2>3. Lawful(item, new) /\ TokenStep(o, item, new)
    BY <2>1, <1>1 DEF Lawful, TokenStep, Early, ContractStage, Row
  <2> QED BY <2>1, <2>2, <2>3 DEF Writes, item, o
<1>14. CASE create_route_review(s)
  <2>1. reviews' \in [Orders -> Nat]
    BY <1>14, <1>1 DEF create_route_review, o
  <2> QED BY <2>1, <1>14 DEF create_route_review, Idles
<1>15. CASE Abandon(s)
  BY <1>15, <1>1 DEF Abandon, Idles
<1> QED BY <1>2, <1>3, <1>4, <1>5, <1>6, <1>8, <1>9, <1>10, <1>11, <1>12, <1>13,
           <1>14, <1>15 DEF Handler

-----------------------------------------------------------------------------
(* What a write makes of the row.                                          *)

LEMMA FlushedRow ==
  ASSUME NEW seen \in Row, NEW new \in Row, NEW cur \in Row
  PROVE  /\ Flushed(seen, new, cur) \in Row
         /\ Kept(cur, Flushed(seen, new, cur))
         /\ Flushed(seen, new, cur).token \in {new.token, cur.token}
         /\ (cur = seen /\ Kept(seen, new)) => Flushed(seen, new, cur) = new
BY DEF Flushed, Row, Kept

\* The facts about a write that the invariants use.
LEMMA WriteFacts ==
  ASSUME TypeOK, NEW s \in Sessions, req[s] # Closed, Writes(s)
  PROVE  \E o \in Orders, item \in Row, new \in Row, out \in Row :
           /\ req[s].order = o /\ req[s].seen = item /\ req[s] # Closed
           /\ Lawful(item, new) /\ TokenStep(o, item, new)
           /\ Kept(row[o], out) /\ out.token \in {new.token, row[o].token}
           /\ row' = [row EXCEPT ![o] = out]
           /\ clean' = [clean EXCEPT ![o] = clean[o] /\ row[o] = item]
           /\ row[o] = item => out = new
           /\ req' = [req EXCEPT ![s] = Closed]
           /\ UNCHANGED <<books, lapsed, reviews>>
<1>1. PICK new \in Row : /\ Write(s, new) /\ Kept(req[s].seen, new)
                         /\ Lawful(req[s].seen, new)
                         /\ TokenStep(req[s].order, req[s].seen, new)
  BY DEF Writes
<1>2. req[s].order \in Orders /\ req[s].seen \in Row
  BY OpenSession
<1> DEFINE o == req[s].order
           item == req[s].seen
           out == Flushed(item, new, row[o])
<1>3. row[o] \in Row
  BY <1>2 DEF TypeOK
<1>4. /\ out \in Row /\ Kept(row[o], out) /\ out.token \in {new.token, row[o].token}
      /\ row[o] = item => out = new
  BY <1>1, <1>2, <1>3, FlushedRow
<1>5. /\ row' = [row EXCEPT ![o] = out]
      /\ clean' = [clean EXCEPT ![o] = clean[o] /\ row[o] = item]
      /\ req' = [req EXCEPT ![s] = Closed]
      /\ UNCHANGED <<books, lapsed, reviews>>
  BY <1>1 DEF Write
<1> HIDE DEF out
<1> QED BY <1>1, <1>2, <1>4, <1>5

-----------------------------------------------------------------------------
(* The kinds of step.                                                      *)

\* A step that touches neither an order nor what is counted about it.
Aside == UNCHANGED <<row, books, issued, verified, clean>>

LEMMA StepCases ==
  ASSUME TypeOK, [Next]_vars
  PROVE  \/ \E o \in Orders : exchange_travel_route(o)
         \/ \E o \in Orders, override \in BOOLEAN : cancel_travel_order(o, override)
         \/ \E s \in Sessions : req[s] # Closed /\ Writes(s)
         \/ \E s \in Sessions : Idles(s)
         \/ \E s \in Sessions, o \in Orders : Open(s, o)
         \/ \E o \in Orders : Lapse(o)
         \/ UNCHANGED vars
BY HandlerWrites, HandlerOpen
   DEF Next, cancel_my_travel_order, admin_cancel_travel_order

LEMMA CancelledRow ==
  ASSUME TypeOK, NEW o \in Orders, NEW override, cancel_travel_order(o, override)
  PROVE  \E out \in Row :
           /\ row' = [row EXCEPT ![o] = out]
           /\ row[o].exists /\ out.exists = row[o].exists
           /\ out.refunded = (row[o].refunded \/ o \notin Free)
           /\ out.restored = TRUE
           /\ out.fulfil = "cancelled" /\ out.status = "cancelled"
           /\ out.token = 0
           /\ row[o].fulfil \notin NonCancellable
<1> DEFINE refunded == row[o].refunded \/ o \notin Free
           out == [row[o] EXCEPT !.status = "cancelled", !.fulfil = "cancelled",
                                 !.token = 0, !.expiry = 0,
                                 !.refunded = refunded, !.restored = TRUE]
<1>1. row[o] \in Row
  BY DEF TypeOK
<1>2. refunded \in BOOLEAN
  OBVIOUS
<1>3. row[o].exists /\ row[o].fulfil \notin NonCancellable
  BY DEF cancel_travel_order
<1>5. row' = [row EXCEPT ![o] = out]
  BY DEF cancel_travel_order
<1> HIDE DEF refunded
<1>4. out \in Row /\ out.exists = row[o].exists /\ out.refunded = refunded
      /\ out.restored = TRUE /\ out.fulfil = "cancelled"
      /\ out.status = "cancelled" /\ out.token = 0
  BY <1>1, <1>2, TokensType DEF Row, Fulfillment
<1> HIDE DEF out
<1> QED BY <1>3, <1>4, <1>5 DEF refunded

LEMMA TypeStep ==
  ASSUME TypeOK, [Next]_vars
  PROVE  TypeOK'
<1>1. ASSUME NEW o \in Orders, exchange_travel_route(o)
      PROVE  TypeOK'
  <2>a. row[o] \in Row
    BY DEF TypeOK
  <2>b. [row[o] EXCEPT !.exists = TRUE] \in Row
    BY <2>a DEF Row
  <2>1. row' \in [Orders -> Row]
    BY <1>1, <2>b DEF exchange_travel_route, TypeOK
  <2>2. stock' \in Int /\ debits' \in [Orders -> Nat]
    BY <1>1 DEF exchange_travel_route, TypeOK
  <2> QED BY <1>1, <2>1, <2>2 DEF exchange_travel_route, TypeOK
<1>2. ASSUME NEW o \in Orders, NEW override \in BOOLEAN,
             cancel_travel_order(o, override)
      PROVE  TypeOK'
  <2>0. PICK out \in Row : row' = [row EXCEPT ![o] = out]
    BY <1>2, CancelledRow
  <2>1. row' \in [Orders -> Row]
    BY <2>0 DEF TypeOK
  <2>2. stock' \in Int /\ refunds' \in [Orders -> Nat]
    BY <1>2 DEF cancel_travel_order, TypeOK
  <2> QED BY <1>2, <2>1, <2>2 DEF cancel_travel_order, TypeOK
<1>3. ASSUME NEW s \in Sessions, req[s] # Closed, Writes(s)
      PROVE  TypeOK'
  <2>1. PICK o \in Orders, item \in Row, new \in Row, out \in Row :
          /\ TokenStep(o, item, new)
          /\ row' = [row EXCEPT ![o] = out]
          /\ clean' = [clean EXCEPT ![o] = clean[o] /\ row[o] = item]
          /\ req' = [req EXCEPT ![s] = Closed]
          /\ UNCHANGED <<books, lapsed, reviews>>
    BY <1>3, WriteFacts
  <2>2. row' \in [Orders -> Row] /\ clean' \in [Orders -> BOOLEAN]
        /\ req' \in [Sessions -> Loaded \cup {Closed}]
    BY <2>1 DEF TypeOK
  <2>3. issued' \in [Orders -> 0..MaxTokens]
    BY <2>1, TokensAssumption DEF TypeOK, TokenStep
  <2>4. verified' \in [Orders -> [Tokens -> Nat]]
    <3>1. CASE UNCHANGED verified
      BY <3>1 DEF TypeOK
    <3>2. CASE /\ item.token # 0
               /\ verified' = [verified EXCEPT ![o][item.token] = @ + 1]
      <4>1. item.token \in Tokens /\ verified[o] \in [Tokens -> Nat]
        BY <3>2, TokensAssumption DEF Row, Tokens, TypeOK
      <4> QED BY <3>2, <4>1 DEF TypeOK
    <3> QED BY <2>1, <3>1, <3>2 DEF TokenStep
  <2> QED BY <2>1, <2>2, <2>3, <2>4 DEF TypeOK, books
<1>4. ASSUME NEW s \in Sessions, Idles(s)
      PROVE  TypeOK'
  BY <1>4 DEF Idles, TypeOK, books
<1>5. ASSUME NEW s \in Sessions, NEW o \in Orders, Open(s, o)
      PROVE  TypeOK'
  <2>1. [pc |-> "loaded", order |-> o, seen |-> row[o]] \in Loaded
    BY DEF Loaded, TypeOK
  <2> QED BY <2>1, <1>5 DEF Open, TypeOK, books
<1>6. ASSUME NEW o \in Orders, Lapse(o)
      PROVE  TypeOK'
  <2>1. PICK t \in 1..issued[o] : lapsed' = [lapsed EXCEPT ![o] = @ \cup {t}]
    BY <1>6 DEF Lapse
  <2>2. t \in Tokens
    BY TokensAssumption DEF TypeOK, Tokens
  <2> QED BY <2>1, <2>2, <1>6 DEF Lapse, TypeOK, books
<1>7. CASE UNCHANGED vars
  BY <1>7 DEF vars, books, TypeOK
<1> QED BY StepCases, <1>1, <1>2, <1>3, <1>4, <1>5, <1>6, <1>7

LEMMA TypeInit == Init => TypeOK
<1> SUFFICES ASSUME Init PROVE TypeOK
  OBVIOUS
<1>1. Absent \in Row
  BY TokensType DEF Absent, Row, Contract, Fulfillment
<1> QED BY <1>1, TokensType, StockAssumption DEF Init, TypeOK, Tokens

\* Every column, counter and session of the travel orders keeps its type: no
\* handler, however stale, writes a status, token or count outside its range.
THEOREM TypeCorrect == Spec => []TypeOK
BY TypeInit, TypeStep, PTL DEF Spec

-----------------------------------------------------------------------------
(* Points.                                                                 *)

LEMMA PointsStep ==
  ASSUME TypeOK, PointsReturnedOnce, [Next]_vars
  PROVE  PointsReturnedOnce'
<1>1. ASSUME NEW o \in Orders, exchange_travel_route(o)
      PROVE  PointsReturnedOnce'
  BY <1>1 DEF exchange_travel_route, TypeOK, Row, PointsReturnedOnce
<1>2. ASSUME NEW o \in Orders, NEW override \in BOOLEAN,
             cancel_travel_order(o, override)
      PROVE  PointsReturnedOnce'
  <2>1. PICK out \in Row :
          /\ row' = [row EXCEPT ![o] = out]
          /\ row[o].exists /\ out.exists = row[o].exists
          /\ out.refunded = (row[o].refunded \/ o \notin Free)
    BY <1>2, CancelledRow
  <2>2. /\ refunds' = [refunds EXCEPT ![o] = refunds[o] +
                         (IF o \notin Free /\ ~row[o].refunded THEN 1 ELSE 0)]
        /\ debits' = debits
    BY <1>2 DEF cancel_travel_order, RefundDue
  <2>3. ASSUME NEW p \in Orders, p # o
        PROVE  row'[p] = row[p] /\ refunds'[p] = refunds[p]
    BY <2>1, <2>2, <2>3 DEF TypeOK
  <2>4. row'[o] = out
    BY <2>1 DEF TypeOK
  <2>5. refunds'[o] = refunds[o] +
          (IF o \notin Free /\ ~row[o].refunded THEN 1 ELSE 0)
    BY <2>2 DEF TypeOK
  <2>6. row[o] \in Row /\ out \in Row /\ refunds[o] \in Nat /\ debits[o] \in Nat
    BY DEF TypeOK
  <2>7. /\ debits[o] = (IF row[o].exists /\ o \notin Free THEN 1 ELSE 0)
        /\ refunds[o] = (IF row[o].refunded THEN 1 ELSE 0)
        /\ refunds[o] <= debits[o]
    BY DEF PointsReturnedOnce
  <2>8. /\ debits[o] = (IF out.exists /\ o \notin Free THEN 1 ELSE 0)
        /\ refunds'[o] = (IF out.refunded THEN 1 ELSE 0)
        /\ refunds'[o] <= debits[o]
    <3>1. CASE o \in Free
      <4>1. debits[o] = 0 /\ ~row[o].refunded
        BY <3>1, <2>6, <2>7
      <4>2. ~out.refunded /\ refunds'[o] = refunds[o]
        <5>1. ~out.refunded
          BY <3>1, <4>1, <2>1
        <5>2. refunds'[o] = refunds[o] + 0
          BY <3>1, <2>5
        <5> QED BY <5>1, <5>2, <2>6
      <4> QED BY <3>1, <4>1, <4>2, <2>7
    <3>2. CASE o \notin Free
      <4>1. debits[o] = 1 /\ out.exists /\ out.refunded
        BY <3>2, <2>1, <2>7
      <4>2. refunds'[o] = 1
        BY <3>2, <2>5, <2>6, <2>7
      <4> QED BY <3>2, <4>1, <4>2
    <3> QED BY <3>1, <3>2
  <2> QED BY <2>2, <2>3, <2>4, <2>8 DEF PointsReturnedOnce
<1>3. ASSUME NEW s \in Sessions, req[s] # Closed, Writes(s)
      PROVE  PointsReturnedOnce'
  <2>1. PICK o \in Orders, out \in Row :
          /\ Kept(row[o], out)
          /\ row' = [row EXCEPT ![o] = out]
          /\ UNCHANGED books
    BY <1>3, WriteFacts
  <2> QED BY <2>1 DEF Kept, books, PointsReturnedOnce, TypeOK
<1>4. CASE Aside
  BY <1>4 DEF Aside, books, PointsReturnedOnce
<1> QED BY StepCases, <1>1, <1>2, <1>3, <1>4
     DEF Aside, Idles, Open, Lapse, vars, books

\* An order's points are debited once, however often it is retried, and
\* refunded at most once, however often it is revived and cancelled again.
THEOREM PointsAreReturnedOnce == Spec => []PointsReturnedOnce
<1>1. Init => PointsReturnedOnce
  BY DEF Init, PointsReturnedOnce, Absent
<1> QED BY <1>1, TypeCorrect, PointsStep, PTL DEF Spec

-----------------------------------------------------------------------------
(* Places.  SeatsConserved needs that a row not yet inserted has given     *)
(* nothing back.                                                           *)

SeatInv == SeatsConserved /\ \A o \in Orders : row[o].restored => row[o].exists

LEMMA HeldFinite == IsFiniteSet(Held) /\ Cardinality(Held) \in Nat
BY OrdersAssumption, FS_Subset, FS_CardinalityType DEF Held

LEMMA SeatStep ==
  ASSUME TypeOK, SeatInv, [Next]_vars
  PROVE  SeatInv'
<1>1. ASSUME NEW o \in Orders, exchange_travel_route(o)
      PROVE  SeatInv'
  <2>1. Held' = Held \cup {o} /\ o \notin Held
    BY <1>1 DEF exchange_travel_route, TypeOK, Row, SeatInv, Held
  <2>2. Cardinality(Held') = Cardinality(Held) + 1
    BY <2>1, HeldFinite, FS_AddElement
  <2>3. stock' = stock - 1 /\ stock > 0
    BY <1>1 DEF exchange_travel_route
  <2>4. SeatsConserved'
    BY <2>2, <2>3, HeldFinite, StockAssumption DEF SeatsConserved, SeatInv, TypeOK
  <2>5. \A p \in Orders : row'[p].restored => row'[p].exists
    BY <1>1 DEF exchange_travel_route, TypeOK, Row, SeatInv
  <2> QED BY <2>4, <2>5 DEF SeatInv
<1>2. ASSUME NEW o \in Orders, NEW override \in BOOLEAN,
             cancel_travel_order(o, override)
      PROVE  SeatInv'
  <2>0. /\ row[o].exists
        /\ \A p \in Orders : row'[p].exists = row[p].exists
                             /\ row'[p].restored = (row[p].restored \/ p = o)
    BY <1>2 DEF cancel_travel_order, TypeOK, Row
  <2>1. Held' = Held \ {o}
    BY <2>0 DEF Held
  <2>2. o \in Held <=> ~row[o].restored
    BY <2>0 DEF Held
  <2>3. stock' = stock + (IF o \in Held THEN 1 ELSE 0)
    BY <1>2, <2>2 DEF cancel_travel_order, SeatDue
  <2>4. Cardinality(Held') = Cardinality(Held) - (IF o \in Held THEN 1 ELSE 0)
    BY <2>1, HeldFinite, FS_RemoveElement
  <2>5. SeatsConserved'
    BY <2>3, <2>4, HeldFinite, StockAssumption DEF SeatsConserved, SeatInv, TypeOK
  <2> QED BY <2>5, <2>0 DEF SeatInv
<1>3. ASSUME NEW s \in Sessions, req[s] # Closed, Writes(s)
      PROVE  SeatInv'
  <2>1. PICK o \in Orders, out \in Row :
          /\ Kept(row[o], out)
          /\ row' = [row EXCEPT ![o] = out]
          /\ UNCHANGED books
    BY <1>3, WriteFacts
  <2>2. \A p \in Orders : row'[p].exists = row[p].exists
                          /\ row'[p].restored = row[p].restored
    BY <2>1 DEF Kept, TypeOK
  <2>3. Held' = Held
    BY <2>2 DEF Held
  <2> QED BY <2>1, <2>2, <2>3 DEF SeatInv, SeatsConserved, books
<1>4. CASE Aside
  BY <1>4 DEF Aside, books, SeatInv, SeatsConserved, Held
<1> QED BY StepCases, <1>1, <1>2, <1>3, <1>4
     DEF Aside, Idles, Open, Lapse, vars, books

LEMMA SeatInit == Init => SeatInv
<1> SUFFICES ASSUME Init PROVE SeatInv
  OBVIOUS
<1>1. Held = {} /\ \A o \in Orders : ~row[o].restored
  BY DEF Init, Held, Absent
<1> QED BY <1>1, FS_EmptySet, StockAssumption DEF Init, SeatInv, SeatsConserved

\* The route's stock and the orders that hold a place always add up to the
\* initial stock, and the stock is never negative.
THEOREM SeatsAreConserved == Spec => []SeatsConserved
<1>1. SeatInv => SeatsConserved
  BY DEF SeatInv
<1> QED BY <1>1, SeatInit, SeatStep, TypeCorrect, PTL DEF Spec

-----------------------------------------------------------------------------
(* Contracts, completion, and the ways out of a cancellation.              *)

\* A session that commits over the row it loaded makes of it what its handler
\* decided; the row of no other order is touched.
LEMMA CleanWrite ==
  ASSUME TypeOK, NEW s \in Sessions, req[s] # Closed, Writes(s),
         NEW o \in Orders, clean'[o]
  PROVE  clean[o] /\ (row'[o] = row[o] \/ Lawful(row[o], row'[o]))
<1>1. PICK p \in Orders, item \in Row, new \in Row, out \in Row :
        /\ Lawful(item, new)
        /\ row' = [row EXCEPT ![p] = out]
        /\ clean' = [clean EXCEPT ![p] = clean[p] /\ row[p] = item]
        /\ row[p] = item => out = new
  BY WriteFacts
<1>2. CASE o # p
  BY <1>1, <1>2 DEF TypeOK
<1>3. CASE o = p
  <2>1. clean[o] /\ row[o] = item
    BY <1>1, <1>3 DEF TypeOK
  <2>2. row'[o] = new
    BY <1>1, <1>3, <2>1 DEF TypeOK
  <2> QED BY <1>1, <2>1, <2>2
<1> QED BY <1>2, <1>3

\* A clean order whose trip is completed has the status completed.
CompletedTogether ==
  \A o \in Orders :
    clean[o] /\ row[o].fulfil = "completed" => row[o].status = "completed"

LEMMA ContractStep ==
  ASSUME TypeOK, ContractBeforeTrip, CompletedTogether, [Next]_vars
  PROVE  ContractBeforeTrip' /\ CompletedTogether'
<1>1. ASSUME NEW o \in Orders, exchange_travel_route(o)
      PROVE  ContractBeforeTrip' /\ CompletedTogether'
  <2>1. clean' = clean
        /\ \A p \in Orders : /\ row'[p].fulfil = row[p].fulfil
                              /\ row'[p].contract = row[p].contract
                              /\ row'[p].status = row[p].status
    BY <1>1 DEF exchange_travel_route, TypeOK, Row
  <2> QED BY <2>1 DEF ContractBeforeTrip, CompletedTogether
<1>2. ASSUME NEW o \in Orders, NEW override \in BOOLEAN,
             cancel_travel_order(o, override)
      PROVE  ContractBeforeTrip' /\ CompletedTogether'
  <2>1. PICK out \in Row : row' = [row EXCEPT ![o] = out] /\ out.fulfil = "cancelled"
    BY <1>2, CancelledRow
  <2>2. clean' = clean
    BY <1>2 DEF cancel_travel_order
  <2> QED BY <2>1, <2>2 DEF TypeOK, ContractBeforeTrip, CompletedTogether
<1>3. ASSUME NEW s \in Sessions, req[s] # Closed, Writes(s)
      PROVE  ContractBeforeTrip' /\ CompletedTogether'
  <2> SUFFICES ASSUME NEW o \in Orders, clean'[o]
               PROVE  /\ row'[o].fulfil \notin Early => row'[o].contract = "approved"
                      /\ row'[o].fulfil = "completed" => row'[o].status = "completed"
    BY DEF ContractBeforeTrip, CompletedTogether, Early
  <2>1. clean[o] /\ (row'[o] = row[o] \/ Lawful(row[o], row'[o]))
    BY <1>3, CleanWrite
  <2>2. /\ row[o].fulfil \notin Early => row[o].contract = "approved"
        /\ row[o].fulfil = "completed" => row[o].status = "completed"
    BY <2>1 DEF ContractBeforeTrip, CompletedTogether, Early
  <2> QED BY <2>1, <2>2 DEF Lawful
<1>4. CASE Aside
  BY <1>4 DEF Aside, ContractBeforeTrip, CompletedTogether
<1> QED BY StepCases, <1>1, <1>2, <1>3, <1>4
     DEF Aside, Idles, Open, Lapse, vars, books

LEMMA ContractInit == Init => ContractBeforeTrip /\ CompletedTogether
BY DEF Init, Absent, ContractBeforeTrip, CompletedTogether, ContractStage

\* No order is picked up, checked in or on its trip without an approved
\* contract, as long as no handler has committed over a row changed under it.
THEOREM ContractComesFirst == Spec => []ContractBeforeTrip
BY ContractInit, ContractStep, TypeCorrect, PTL DEF Spec

LEMMA WaysOutStep ==
  ASSUME TypeOK, [Next]_vars, NEW o \in Orders,
         clean'[o], row[o].fulfil = "cancelled", row'[o].fulfil # "cancelled"
  PROVE  row'[o].fulfil \in {"exception", "contract_rejected"}
<1>1. ASSUME NEW p \in Orders, exchange_travel_route(p)
      PROVE  FALSE
  BY <1>1 DEF exchange_travel_route, TypeOK, Row
<1>2. ASSUME NEW p \in Orders, NEW override \in BOOLEAN,
             cancel_travel_order(p, override)
      PROVE  FALSE
  <2>1. PICK out \in Row : row' = [row EXCEPT ![p] = out] /\ out.fulfil = "cancelled"
    BY <1>2, CancelledRow
  <2> QED BY <2>1 DEF TypeOK
<1>3. ASSUME NEW s \in Sessions, req[s] # Closed, Writes(s)
      PROVE  row'[o].fulfil \in {"exception", "contract_rejected"}
  BY <1>3, CleanWrite DEF Lawful
<1> QED BY StepCases, <1>1, <1>2, <1>3 DEF Idles, Open, Lapse, vars, books

\* A cancelled order comes back only as an exception or with its contract
\* rejected, as long as no stale handler commits.
THEOREM CancelledIsLeftTwoWays == Spec => WaysOutOfCancelled
<1>1. TypeOK /\ [Next]_vars =>
        [\A o \in Orders :
           clean'[o] /\ row[o].fulfil = "cancelled" /\ row'[o].fulfil # "cancelled"
             => row'[o].fulfil \in {"exception", "contract_rejected"}]_vars
  BY WaysOutStep
<1> QED BY <1>1, TypeCorrect, PTL DEF Spec, WaysOutOfCancelled

LEMMA CompletedStep ==
  ASSUME TypeOK, ContractBeforeTrip, CompletedTogether, [Next]_vars,
         NEW o \in Orders, clean'[o], row[o].fulfil = "completed"
  PROVE  /\ row'[o].fulfil = "completed"
         /\ row'[o].status = "completed"
         /\ refunds'[o] = refunds[o]
<1>0. clean[o] => row[o].status = "completed" /\ row[o].contract = "approved"
  BY DEF CompletedTogether, ContractBeforeTrip, ContractStage
<1>1. ASSUME NEW p \in Orders, exchange_travel_route(p)
      PROVE  /\ row'[o].fulfil = "completed" /\ row'[o].status = "completed"
             /\ refunds'[o] = refunds[o]
  BY <1>0, <1>1 DEF exchange_travel_route, TypeOK, Row
<1>2. ASSUME NEW p \in Orders, NEW override \in BOOLEAN,
             cancel_travel_order(p, override)
      PROVE  /\ row'[o].fulfil = "completed" /\ row'[o].status = "completed"
             /\ refunds'[o] = refunds[o]
  <2>1. row[p].fulfil \notin NonCancellable /\ clean' = clean
    BY <1>2 DEF cancel_travel_order
  <2>2. p # o
    BY <2>1 DEF NonCancellable
  <2>3. row'[o] = row[o] /\ refunds'[o] = refunds[o]
    BY <1>2, <2>2 DEF cancel_travel_order, TypeOK
  <2> QED BY <1>0, <2>1, <2>3
<1>3. ASSUME NEW s \in Sessions, req[s] # Closed, Writes(s)
      PROVE  /\ row'[o].fulfil = "completed" /\ row'[o].status = "completed"
             /\ refunds'[o] = refunds[o]
  <2>1. clean[o] /\ (row'[o] = row[o] \/ Lawful(row[o], row'[o]))
    BY <1>3, CleanWrite
  <2>2. UNCHANGED books
    BY <1>3, WriteFacts
  <2> QED BY <1>0, <2>1, <2>2 DEF Lawful, books
<1>4. CASE Aside
  BY <1>0, <1>4 DEF Aside, books
<1> QED BY StepCases, <1>1, <1>2, <1>3, <1>4
     DEF Aside, Idles, Open, Lapse, vars, books

\* A completed trip stays completed and is not refunded, as long as no stale
\* handler commits.
THEOREM CompletionIsFinal == Spec => CompletedIsFinal
<1>1. TypeOK /\ ContractBeforeTrip /\ CompletedTogether /\ [Next]_vars =>
        [\A o \in Orders :
           clean'[o] /\ row[o].fulfil = "completed"
             => /\ row'[o].fulfil = "completed"
                /\ row'[o].status = "completed"
                /\ refunds'[o] = refunds[o]]_vars
  BY CompletedStep
<1>2. Spec => [](ContractBeforeTrip /\ CompletedTogether)
  BY ContractInit, ContractStep, TypeCorrect, PTL DEF Spec
<1> QED BY <1>1, <1>2, TypeCorrect, PTL DEF Spec, CompletedIsFinal

-----------------------------------------------------------------------------
(* Tokens.  The numbers of tokens not yet issued have not been verified    *)
(* and are on no row, loaded or stored: a new token is new.                *)

TokensFresh ==
  /\ \A o \in Orders : row[o].token <= issued[o]
  /\ \A s \in Sessions : req[s] # Closed => req[s].seen.token <= issued[req[s].order]
  /\ \A o \in Orders, t \in Tokens : t > issued[o] => verified[o][t] = 0

TokenInv == TokensFresh /\ TokenVerifiedOnce

LEMMA TokenWrite ==
  ASSUME TypeOK, TokenInv, NEW s \in Sessions, req[s] # Closed, Writes(s)
  PROVE  TokenInv'
<1>1. PICK o \in Orders, item \in Row, new \in Row, out \in Row :
        /\ req[s].order = o /\ req[s].seen = item
        /\ TokenStep(o, item, new)
        /\ out.token \in {new.token, row[o].token}
        /\ row' = [row EXCEPT ![o] = out]
        /\ clean' = [clean EXCEPT ![o] = clean[o] /\ row[o] = item]
        /\ row[o] = item => out = new
        /\ req' = [req EXCEPT ![s] = Closed]
  BY WriteFacts
<1>2. /\ item.token \in 0..MaxTokens /\ new.token \in 0..MaxTokens
      /\ out.token \in 0..MaxTokens /\ row[o].token \in 0..MaxTokens
      /\ issued[o] \in 0..MaxTokens
      /\ item.token <= issued[o] /\ row[o].token <= issued[o]
  BY <1>1 DEF TypeOK, Row, TokenInv, TokensFresh
<1>3. /\ row'[o] = out /\ clean'[o] = (clean[o] /\ row[o] = item)
      /\ \A p \in Orders : p # o => row'[p] = row[p] /\ clean'[p] = clean[p]
      /\ \A q \in Sessions : req'[q] # Closed => req'[q] = req[q] /\ req[q] # Closed
  BY <1>1 DEF TypeOK
<1>4. \A q \in Sessions : req[q] # Closed
        => req[q].order \in Orders /\ req[q].seen.token \in 0..MaxTokens
  BY OpenSession DEF Row
<1>5. CASE new.token \in {0, item.token} /\ UNCHANGED <<issued, verified>>
  <2>1. TokensFresh'
    BY <1>1, <1>2, <1>3, <1>5, TokensAssumption DEF TokenInv, TokensFresh
  <2>2. TokenVerifiedOnce'
    <3> SUFFICES ASSUME NEW p \in Orders, NEW t \in Tokens, clean'[p]
                 PROVE  verified'[p][t] <= 1 /\ (verified'[p][t] = 1 => row'[p].token # t)
      BY DEF TokenVerifiedOnce
    <3>1. CASE p # o
      BY <1>3, <1>5, <3>1 DEF TokenInv, TokenVerifiedOnce
    <3>2. CASE p = o
      <4>1. clean[o] /\ row[o] = item /\ row'[o] = new
        BY <1>1, <1>3, <3>2
      <4> QED BY <4>1, <1>5, <3>2, TokensAssumption
             DEF TokenInv, TokenVerifiedOnce, Tokens
    <3> QED BY <3>1, <3>2
  <2> QED BY <2>1, <2>2 DEF TokenInv
<1>6. CASE /\ issued[o] < MaxTokens
           /\ new.token = issued[o] + 1
           /\ issued' = [issued EXCEPT ![o] = issued[o] + 1]
           /\ UNCHANGED verified
  <2>0. /\ issued'[o] = issued[o] + 1
        /\ \A p \in Orders : p # o => issued'[p] = issued[p]
        /\ \A p \in Orders : /\ issued[p] \in Nat /\ issued'[p] \in Nat
                              /\ issued[p] <= issued'[p]
    BY <1>6 DEF TypeOK
  <2>1. TokensFresh'
    <3>1. \A p \in Orders : row'[p].token <= issued'[p]
      BY <1>1, <1>2, <1>3, <1>6, <2>0 DEF TokenInv, TokensFresh
    <3>2. \A q \in Sessions : req'[q] # Closed
            => req'[q].seen.token <= issued'[req'[q].order]
      BY <1>3, <1>4, <2>0 DEF TokenInv, TokensFresh
    <3>3. \A p \in Orders, t \in Tokens : t > issued'[p] => verified'[p][t] = 0
      <4> SUFFICES ASSUME NEW p \in Orders, NEW t \in Tokens, t > issued'[p]
                   PROVE  verified'[p][t] = 0
        OBVIOUS
      <4>1. t > issued[p]
        BY <2>0 DEF Tokens
      <4> QED BY <4>1, <1>6 DEF TokenInv, TokensFresh
    <3> QED BY <3>1, <3>2, <3>3 DEF TokensFresh
  <2>2. TokenVerifiedOnce'
    <3> SUFFICES ASSUME NEW p \in Orders, NEW t \in Tokens, clean'[p]
                 PROVE  verified'[p][t] <= 1 /\ (verified'[p][t] = 1 => row'[p].token # t)
      BY DEF TokenVerifiedOnce
    <3>1. CASE p # o
      BY <1>3, <1>6, <3>1 DEF TokenInv, TokenVerifiedOnce
    <3>2. CASE p = o
      <4>1. clean[o] /\ row'[o] = new
        BY <1>1, <1>3, <3>2
      <4>2. verified[o][t] <= 1
        BY <4>1 DEF TokenInv, TokenVerifiedOnce
      <4>3. t = issued[o] + 1 => verified[o][t] = 0
        BY <1>2, TokensAssumption DEF TokenInv, TokensFresh, Tokens
      <4> QED BY <4>1, <4>2, <4>3, <1>6, <3>2
    <3> QED BY <3>1, <3>2
  <2> QED BY <2>1, <2>2 DEF TokenInv
<1>7. CASE /\ item.token # 0
           /\ new.token = 0
           /\ verified' = [verified EXCEPT ![o][item.token] = @ + 1]
           /\ UNCHANGED issued
  <2>0. item.token \in Tokens
    BY <1>2, <1>7, TokensAssumption DEF Tokens
  <2>1. /\ verified'[o][item.token] = verified[o][item.token] + 1
        /\ \A t \in Tokens : t # item.token => verified'[o][t] = verified[o][t]
        /\ \A p \in Orders : p # o => verified'[p] = verified[p]
    BY <1>7, <2>0 DEF TypeOK
  <2>2. TokensFresh'
    <3>1. \A p \in Orders : row'[p].token <= issued'[p]
      BY <1>1, <1>2, <1>3, <1>7 DEF TokenInv, TokensFresh
    <3>2. \A q \in Sessions : req'[q] # Closed
            => req'[q].seen.token <= issued'[req'[q].order]
      BY <1>3, <1>7 DEF TokenInv, TokensFresh
    <3>3. \A p \in Orders, t \in Tokens : t > issued'[p] => verified'[p][t] = 0
      <4> SUFFICES ASSUME NEW p \in Orders, NEW t \in Tokens, t > issued[p]
                   PROVE  verified'[p][t] = 0
        BY <1>7
      <4>1. verified[p][t] = 0
        BY DEF TokenInv, TokensFresh
      <4>2. ~(p = o /\ t = item.token)
        BY <1>2, TokensAssumption DEF Tokens
      <4> QED BY <4>1, <4>2, <2>1
    <3> QED BY <3>1, <3>2, <3>3 DEF TokensFresh
  <2>3. TokenVerifiedOnce'
    <3> SUFFICES ASSUME NEW p \in Orders, NEW t \in Tokens, clean'[p]
                 PROVE  verified'[p][t] <= 1 /\ (verified'[p][t] = 1 => row'[p].token # t)
      BY DEF TokenVerifiedOnce
    <3>1. CASE p # o
      BY <1>3, <2>1, <3>1 DEF TokenInv, TokenVerifiedOnce
    <3>2. CASE p = o
      <4>1. clean[o] /\ row[o] = item /\ row'[o].token = 0
        BY <1>1, <1>3, <1>7, <3>2
      <4>2. verified[o][item.token] <= 1 /\ verified[o][item.token] # 1
            /\ verified[o][item.token] \in Nat /\ verified[o][t] <= 1
        BY <4>1, <2>0 DEF TokenInv, TokenVerifiedOnce, TypeOK
      <4>3. t # 0
        BY TokensAssumption DEF Tokens
      <4> QED BY <4>1, <4>2, <4>3, <2>1, <3>2
    <3> QED BY <3>1, <3>2
  <2> QED BY <2>2, <2>3 DEF TokenInv
<1> QED BY <1>1, <1>5, <1>6, <1>7 DEF TokenStep

LEMMA TokenNext ==
  ASSUME TypeOK, TokenInv, [Next]_vars
  PROVE  TokenInv'
<1>1. ASSUME NEW o \in Orders, exchange_travel_route(o)
      PROVE  TokenInv'
  <2>1. /\ UNCHANGED <<issued, verified, req, clean>>
        /\ \A p \in Orders : row'[p].token = row[p].token
    BY <1>1 DEF exchange_travel_route, TypeOK, Row
  <2> QED BY <2>1 DEF TokenInv, TokensFresh, TokenVerifiedOnce
<1>2. ASSUME NEW o \in Orders, NEW override \in BOOLEAN,
             cancel_travel_order(o, override)
      PROVE  TokenInv'
  <2>1. PICK out \in Row : row' = [row EXCEPT ![o] = out] /\ out.token = 0
    BY <1>2, CancelledRow
  <2>2. \A p \in Orders : row'[p].token \in {0, row[p].token}
    BY <2>1 DEF TypeOK
  <2>3. UNCHANGED <<issued, verified, req, clean>>
    BY <1>2 DEF cancel_travel_order
  <2>4. TokensFresh'
    <3>1. \A p \in Orders : 0 <= issued[p]
      BY DEF TypeOK
    <3> QED BY <3>1, <2>2, <2>3 DEF TokenInv, TokensFresh
  <2>5. TokenVerifiedOnce'
    BY <2>2, <2>3, TokensAssumption DEF TokenInv, TokenVerifiedOnce, Tokens
  <2> QED BY <2>4, <2>5 DEF TokenInv
<1>3. ASSUME NEW s \in Sessions, Idles(s)
      PROVE  TokenInv'
  <2>1. /\ UNCHANGED <<row, issued, verified, clean>>
        /\ \A q \in Sessions : req'[q] # Closed => req'[q] = req[q]
    BY <1>3 DEF Idles, TypeOK
  <2> QED BY <2>1 DEF TokenInv, TokensFresh, TokenVerifiedOnce
<1>4. ASSUME NEW s \in Sessions, NEW o \in Orders, Open(s, o)
      PROVE  TokenInv'
  <2>1. /\ UNCHANGED <<row, issued, verified, clean>>
        /\ req'[s] = [pc |-> "loaded", order |-> o, seen |-> row[o]]
        /\ \A q \in Sessions : q # s => req'[q] = req[q]
    BY <1>4 DEF Open, TypeOK
  <2> QED BY <2>1 DEF TokenInv, TokensFresh, TokenVerifiedOnce
<1>5. CASE UNCHANGED <<row, issued, verified, clean, req>>
  BY <1>5 DEF TokenInv, TokensFresh, TokenVerifiedOnce
<1> QED BY StepCases, TokenWrite, <1>1, <1>2, <1>3, <1>4, <1>5 DEF Lapse, vars

LEMMA TokenInit == Init => TokenInv
<1> SUFFICES ASSUME Init PROVE TokenInv
  OBVIOUS
<1>1. \A o \in Orders : row[o].token = 0 /\ issued[o] = 0
                        /\ \A t \in Tokens : verified[o][t] = 0
  BY DEF Init, Absent
<1>2. \A s \in Sessions : req[s] = Closed
  BY DEF Init
<1> QED BY <1>1, <1>2 DEF TokenInv, TokensFresh, TokenVerifiedOnce

\* A QR token is verified at most once and is then off the row, as long as no
\* handler has committed over a row changed under it.
THEOREM TokensAreVerifiedOnce == Spec => []TokenVerifiedOnce
<1>1. TokenInv => TokenVerifiedOnce
  BY DEF TokenInv
<1> QED BY <1>1, TokenInit, TokenNext, TypeCorrect, PTL DEF Spec
=============================================================================
