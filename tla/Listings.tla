------------------------------ MODULE Listings ------------------------------
(***************************************************************************)
(* One row that an administrator reviews before it takes effect: a study   *)
(* product or travel route of a merchant, a graduation certification, or a *)
(* custom travel request; and, for a product, its stock in MySQL and the   *)
(* counter Redis keeps of it.                                              *)
(*                                                                         *)
(* A request loads the row without a lock, and its commit writes the       *)
(* columns it gave another value.  Orders lock the row.  A standard order  *)
(* changes the counter first and the row with its commit, and any of its   *)
(* steps may fail: a raw error of the Redis client, whose command may have *)
(* been applied all the same, ends the request like any other exception.   *)
(* A study order changes the row alone.                                    *)
(***************************************************************************)
EXTENDS Integers, FiniteSets

CONSTANTS
  Requests,    \* requests on the row
  Orders,      \* orders of one unit of the product
  MaxContent,  \* bound: times somebody writes the content
  MaxStock,    \* bound: the finite stock an edit sets
  MaxCounter   \* bound: how far the counter goes in either direction

ASSUME ContentAssumption == MaxContent \in Nat
ASSUME StockAssumption == MaxStock \in Nat /\ MaxCounter \in Nat
ASSUME OrdersAssumption == IsFiniteSet(Orders)

Kinds == {"product", "route", "certification", "custom"}
Unlimited == -1
EditStocks == {Unlimited, MaxStock}
Reviews == {"absent", "pending", "approved", "rejected"}

VARIABLES
  listing,  \* what kind of row it is
  row,      \* the row
  work,     \* the requests
  written,  \* times the content was written
  order,    \* the orders
  counter,  \* stock:study_product:<id>, or None
  vetted,   \* history: contents an administrator wrote or approved having seen
  raced,    \* history: the last decision on the content overlapped another one
  drift     \* history: the counter has lost units, or has units too many

listingVars == <<listing, row, work, written, order, counter, vetted, raced,
                 drift>>

\* A row of the platform's own has no school.
Row == [own : BOOLEAN, review : Reviews, status : BOOLEAN, content : 0..MaxContent,
        stock : Unlimited..MaxStock + 1]
None == -MaxCounter - 1
Idle == [pc |-> "idle"]
Open == [pc : {"open"}, op : {"edit", "revise", "review", "blind review", "toggle"}, was : Row,
         new : Row]
Sync == [pc : {"sync"}, stock : 0..MaxStock + 1]

\* A standard order has taken a unit from the counter and is to deduct it from
\* the row ("held") or to give it back: the counter was exhausted ("refused"),
\* the commit met the unique key ("conflict"), or any error ("failing").  It has
\* deducted from the row, its request still running ("committed") or not
\* ("deducted"), or is giving the unit back to both ("returning").
TakenStates == {"held", "refused", "conflict", "failing"}
OrderStates == {"none", "study", "committed", "deducted", "returning"} \cup TakenStates
Drifts == {"short", "excess"}

ListingTypeOK ==
  /\ listing \in Kinds
  /\ row \in Row
  /\ work \in [Requests -> {Idle} \cup Open \cup Sync]
  /\ written \in 0..MaxContent
  /\ order \in [Orders -> OrderStates]
  /\ counter \in Int
  /\ vetted \subseteq 0..MaxContent
  /\ raced \in BOOLEAN
  /\ drift \subseteq Drifts

Absent == [own |-> FALSE, review |-> "absent", status |-> FALSE, content |-> 0,
           stock |-> 0]

ListingInit ==
  /\ listing \in Kinds
  /\ row = Absent
  /\ work = [r \in Requests |-> Idle]
  /\ written = 0
  /\ order = [o \in Orders |-> "none"]
  /\ counter = None
  /\ vetted = {}
  /\ raced = FALSE
  /\ drift = {}

In(S) == {o \in Orders : order[o] \in S}
Locked == In({"held", "refused", "returning"}) # {}
stockVars == <<order, counter, drift>>
reviewHistory == <<vetted, raced>>

-----------------------------------------------------------------------------
(* Requests on the row.                                                    *)

\* The request has loaded the row and set its columns.
Begin(r, op, new) ==
  /\ work[r] = Idle
  /\ work' = [work EXCEPT ![r] = [pc |-> "open", op |-> op, was |-> row, new |-> new]]
  /\ UNCHANGED <<listing, row, stockVars, reviewHistory>>

Writes == written < MaxContent /\ written' = written + 1

Resubmitted(stock) == [own |-> FALSE, review |-> "pending", status |-> FALSE,
                       content |-> written + 1, stock |-> stock]
Reviewed(yes) == [row EXCEPT !.review = IF yes THEN "approved" ELSE "rejected",
                             !.status = yes]

\* Creation commits a row nobody else knows.
Create(kind, new) ==
  /\ listing = kind
  /\ row = Absent
  /\ Writes
  /\ row' = new
  /\ UNCHANGED <<listing, work, stockVars, raced>>

merchant_create_product ==
  \E n \in EditStocks :
    Create("product", Resubmitted(n)) /\ UNCHANGED vetted
merchant_create_travel_route == Create("route", Resubmitted(0)) /\ UNCHANGED vetted
create_custom_travel_request == Create("custom", Resubmitted(0)) /\ UNCHANGED vetted

Approved(own, on, stock) == [own |-> own, review |-> "approved", status |-> on,
                             content |-> written + 1, stock |-> stock]

create_product ==
  \E n \in EditStocks, on \in BOOLEAN :
    Create("product", Approved(FALSE, on, n)) /\ vetted' = vetted \cup {written + 1}
create_route ==
  \E on \in BOOLEAN :
    Create("route", Approved(TRUE, on, 0)) /\ vetted' = vetted \cup {written + 1}

\* Mutant: an edit of an approved product leaves it approved and on sale.
merchant_update_approved(r) ==
  /\ listing = "product" /\ row # Absent
  /\ Writes
  /\ \E n \in EditStocks :
       Begin(r, "edit", IF row.review = "approved"
                        THEN [row EXCEPT !.content = written + 1, !.stock = n]
                        ELSE Resubmitted(n))

\* A merchant's edit takes the item off sale until it is reviewed again.
merchant_update_product(r) ==
  /\ listing = "product" /\ row # Absent
  /\ Writes
  /\ \E n \in EditStocks : Begin(r, "edit", Resubmitted(n))
merchant_update_travel_route(r) ==
  /\ listing = "route" /\ row # Absent /\ ~row.own
  /\ Writes
  /\ Begin(r, "edit", Resubmitted(0))

\* A certification may be submitted unless one is pending.
submit_graduation_certification(r) ==
  /\ listing = "certification" /\ row.review # "pending"
  /\ Writes
  /\ Begin(r, "edit", Resubmitted(0))

\* An administrator's edit decides nothing about the review ...
update_product(r) ==
  /\ listing = "product" /\ row # Absent
  /\ Writes
  /\ \E n \in EditStocks, on \in BOOLEAN :
       Begin(r, "revise", [row EXCEPT !.content = written + 1, !.stock = n,
                             !.status = on /\ row.review = "approved"])
\* ... except for a route of the platform's own; and one of a route may even
\* switch on what is not approved.
update_route(r) ==
  /\ listing = "route" /\ row # Absent
  /\ Writes
  /\ \E on \in BOOLEAN :
       Begin(r, "revise", [row EXCEPT !.content = written + 1, !.status = on,
                             !.review = IF row.own THEN "approved" ELSE @])

Toggle(r, kind) ==
  /\ listing = kind /\ row # Absent
  /\ \E on \in BOOLEAN :
       /\ on => row.review = "approved"
       /\ Begin(r, "toggle", [row EXCEPT !.status = on])
  /\ UNCHANGED written

set_product_status(r) == Toggle(r, "product")
merchant_set_product_status(r) == Toggle(r, "product")
toggle_route(r) == Toggle(r, "route")
merchant_set_travel_route_status(r) == ~row.own /\ Toggle(r, "route")

\* A review decides on the row as it is.  The administrator saw it in a list,
\* perhaps with an earlier content: a blind review.
Review(r, kind) ==
  /\ listing = kind /\ row # Absent
  /\ \E yes \in BOOLEAN, op \in {"review", "blind review"} :
       /\ op = "blind review" => row.content > 1
       /\ Begin(r, op, Reviewed(yes))
  /\ UNCHANGED written

review_product(r) == Review(r, "product")
review_route(r) == Review(r, "route")
review_graduation_certification(r) == Review(r, "certification")
admin_review_custom_travel_request(r) == Review(r, "custom")

Flushed(was, new) == [c \in DOMAIN row |-> IF new[c] # was[c] THEN new[c] ELSE row[c]]

\* The commit.  The row's unique key lets only one first submission through.
\* An edit of a product with finite stock goes on to the counter, with the
\* stock it reads back.
Commit(r) ==
  LET was   == work[r].was
      new   == Flushed(was, work[r].new)
      fresh == was.review = row.review /\ was.status = row.status
                 /\ was.content = row.content
      approves == work[r].new.review = "approved"
      lost  == was = Absent /\ row # Absent
  IN
  /\ work[r].pc = "open"
  /\ ~Locked
  /\ row' = IF lost THEN row ELSE new
  /\ work' = [work EXCEPT ![r] =
                IF ~lost /\ listing = "product" /\ work[r].op \in {"edit", "revise"}
                     /\ new.stock >= 0
                THEN [pc |-> "sync", stock |-> new.stock] ELSE Idle]
  /\ vetted' = CASE lost -> vetted
                 [] work[r].op = "revise" -> vetted \cup {work[r].new.content}
                 [] work[r].op = "review" /\ approves -> vetted \cup {was.content}
                 [] OTHER -> vetted
  /\ raced' = IF lost \/ work[r].op = "toggle" THEN raced
              ELSE \/ ~fresh
                   \/ work[r].op = "blind review" /\ approves
                   \/ raced /\ work[r].op = "revise"
  /\ UNCHANGED <<listing, written, stockVars>>

-----------------------------------------------------------------------------
(* Stock.                                                                  *)

\* What the counter should show: the stock without the units orders under way
\* have taken, with the one being given back.
Expected == row.stock - Cardinality(In(TakenStates)) + Cardinality(In({"returning"}))

\* History: how the counter is off when it is set to n.
Strays(n) == {d \in Drifts : \/ d = "short" /\ n < Expected
                             \/ d = "excess" /\ n > Expected}

\* Mutant: the counter is left as it was.
sync_nothing(r) ==
  /\ work[r].pc = "sync"
  /\ drift' = IF counter = None THEN drift ELSE Strays(work[r].stock)
  /\ work' = [work EXCEPT ![r] = Idle]
  /\ UNCHANGED <<listing, row, written, order, counter, reviewHistory>>

\* The counter, if there is one, is set to the stock the edit read back.
sync_stock(r) ==
  /\ work[r].pc = "sync"
  /\ counter' = IF counter = None THEN None ELSE work[r].stock
  /\ drift' = IF counter = None THEN drift ELSE Strays(work[r].stock)
  /\ work' = [work EXCEPT ![r] = Idle]
  /\ UNCHANGED <<listing, row, written, order, reviewHistory>>

\* Redis refuses; the edit stands.
sync_fails(r) ==
  /\ work[r].pc = "sync"
  /\ drift' = IF counter = None THEN drift ELSE Strays(counter)
  /\ work' = [work EXCEPT ![r] = Idle]
  /\ UNCHANGED <<listing, row, written, order, counter, reviewHistory>>

public_products == row.review = "approved" /\ row.status
public_routes == row.review = "approved" /\ row.status
resolve_user_identities == row.review = "approved"

\* The row is on sale, or counts as a certificate or as an accepted request.
Effective ==
  CASE listing = "product" -> public_products
    [] listing = "route" -> public_routes
    [] listing = "certification" -> resolve_user_identities
    [] listing = "custom" -> row.review = "approved"

itemVars == <<listing, work, written, reviewHistory>>

\* The row is locked and found on sale with stock.  An order of unlimited stock
\* touches neither row nor counter.
_validate_products(o) ==
  /\ listing = "product" /\ order[o] = "none"
  /\ ~Locked
  /\ Effective
  /\ row.stock > 0

\* SETNX: the counter is set to the stock if there is none.
Primed == IF counter = None THEN row.stock ELSE counter
PrimedDrift == IF counter = None THEN Strays(row.stock) ELSE drift

\* A unit is taken, also from an exhausted counter: the order is refused then.
_pre_deduct_stock(o) ==
  /\ _validate_products(o)
  /\ Primed > -MaxCounter
  /\ counter' = Primed - 1
  /\ drift' = PrimedDrift
  /\ order' = [order EXCEPT ![o] = IF Primed > 0 THEN "held" ELSE "refused"]
  /\ UNCHANGED <<row, itemVars>>

\* A command is applied and its answer lost: nothing is recorded as deducted.
pre_deduct_breaks(o) ==
  /\ _validate_products(o)
  /\ Primed > -MaxCounter
  /\ \/ counter = None /\ counter' = row.stock /\ drift' = PrimedDrift
     \/ counter' = Primed - 1 /\ drift' = PrimedDrift \cup {"short"}
  /\ UNCHANGED <<row, order, itemVars>>

\* INCRBY starts a missing key at 0.
incr_stock(causes) ==
  /\ counter < MaxCounter
  /\ counter' = IF counter = None THEN 1 ELSE counter + 1
  /\ drift' = (IF counter = None THEN Strays(0) ELSE drift) \cup causes

rollback_redis_stock(o) ==
  /\ order[o] \in {"refused", "conflict", "failing"}
  /\ order' = [order EXCEPT ![o] = "none"]
  /\ incr_stock({})
  /\ UNCHANGED <<row, itemVars>>

\* The first of two handlers: the client's error, with the increment applied or
\* not, leaves the list of deductions as it is, and the outer handler, having
\* ended the transaction, gives back again.
rollback_fails(o) ==
  /\ order[o] \in {"refused", "conflict"}
  /\ order' = [order EXCEPT ![o] = "failing"]
  /\ incr_stock({"excess"}) \/ UNCHANGED <<counter, drift>>
  /\ UNCHANGED <<row, itemVars>>

\* The server dies, or the last handler's increment is refused.
UnitLost(o) ==
  /\ order[o] \in TakenStates
  /\ order' = [order EXCEPT ![o] = "none"]
  /\ drift' = drift \cup {"short"}
  /\ UNCHANGED <<row, counter, itemVars>>

_persist_order(o) ==
  /\ order[o] = "held"
  /\ order' = [order EXCEPT ![o] = "committed"]
  /\ row' = [row EXCEPT !.stock = @ - 1]
  /\ UNCHANGED <<counter, drift, itemVars>>

\* The transaction is rolled back before the counter.
persist_fails(o) ==
  /\ order[o] = "held"
  /\ \E s \in {"conflict", "failing"} : order' = [order EXCEPT ![o] = s]
  /\ UNCHANGED <<row, counter, drift, itemVars>>

create_order(o) ==
  /\ order[o] = "committed"
  /\ order' = [order EXCEPT ![o] = "deducted"]
  /\ UNCHANGED <<row, counter, drift, itemVars>>

\* The refresh after the commit fails: the handler gives back a unit that the
\* order has.
refresh_fails(o) ==
  /\ order[o] = "committed"
  /\ order' = [order EXCEPT ![o] = "deducted"]
  /\ incr_stock({"excess"})
  /\ UNCHANGED <<row, itemVars>>

\* A cancellation or refund gives back to both if the stock is finite now.
\* Where Redis is not enabled the counter's part is logged and left.
restore_counter(o) ==
  /\ order[o] = "deducted"
  /\ ~Locked
  /\ row.stock <= MaxStock
  /\ \/ /\ row.stock >= 0
        /\ incr_stock({}) \/ (UNCHANGED counter /\ drift' = drift \cup {"short"})
        /\ order' = [order EXCEPT ![o] = "returning"]
     \/ /\ row.stock = Unlimited
        /\ order' = [order EXCEPT ![o] = "none"]
        /\ UNCHANGED <<counter, drift>>
  /\ UNCHANGED <<row, itemVars>>

\* The client's error aborts the cancellation, the increment applied.
restore_aborts(o) ==
  /\ order[o] = "deducted"
  /\ ~Locked
  /\ row.stock >= 0
  /\ incr_stock({"excess"})
  /\ UNCHANGED <<row, order, itemVars>>

restore_stock(o) ==
  /\ order[o] = "returning"
  /\ row' = [row EXCEPT !.stock = @ + 1]
  /\ order' = [order EXCEPT ![o] = "none"]
  /\ UNCHANGED <<counter, drift, itemVars>>

\* The commit fails or the server dies: the order keeps its unit, and so does
\* the counter.
restore_fails(o) ==
  /\ order[o] = "returning"
  /\ order' = [order EXCEPT ![o] = "deducted"]
  /\ drift' = drift \cup {"excess"}
  /\ UNCHANGED <<row, counter, itemVars>>

\* A study order looks at the stock, and its payment takes a unit from the row
\* without a word to Redis, unless there is an entitlement or nothing to take.
create_study_order(o) ==
  /\ listing = "product" /\ order[o] = "none"
  /\ Effective /\ row.stock # 0
  /\ order' = [order EXCEPT ![o] = "study"]
  /\ UNCHANGED <<row, counter, drift, itemVars>>

mock_pay(o) ==
  /\ order[o] = "study"
  /\ ~Locked
  /\ order' = [order EXCEPT ![o] = "none"]
  /\ \/ /\ row.stock > 0
        /\ row' = [row EXCEPT !.stock = @ - 1]
        /\ drift' = drift \cup {"excess"}
     \/ UNCHANGED <<row, drift>>
  /\ UNCHANGED <<counter, itemVars>>

\* Redis comes back without the key.
RedisForgets ==
  /\ counter # None
  /\ counter' = None
  /\ UNCHANGED <<row, order, drift, itemVars>>

RowNext ==
  \/ merchant_create_product \/ merchant_create_travel_route
  \/ create_custom_travel_request \/ create_product \/ create_route
  \/ \E r \in Requests :
       \/ merchant_update_product(r) \/ merchant_update_travel_route(r)
       \/ submit_graduation_certification(r) \/ update_product(r) \/ update_route(r)
       \/ set_product_status(r) \/ merchant_set_product_status(r)
       \/ toggle_route(r) \/ merchant_set_travel_route_status(r)
       \/ review_product(r) \/ review_route(r) \/ review_graduation_certification(r)
       \/ admin_review_custom_travel_request(r)
       \/ Commit(r) \/ sync_stock(r) \/ sync_fails(r)

OrderNext ==
  \/ RedisForgets
  \/ \E o \in Orders :
       \/ _pre_deduct_stock(o) \/ pre_deduct_breaks(o)
       \/ rollback_redis_stock(o) \/ rollback_fails(o) \/ UnitLost(o)
       \/ _persist_order(o) \/ persist_fails(o) \/ create_order(o) \/ refresh_fails(o)
       \/ restore_counter(o) \/ restore_aborts(o) \/ restore_stock(o) \/ restore_fails(o)
       \/ create_study_order(o) \/ mock_pay(o)

ListingNext == RowNext \/ OrderNext

ListingSpec == ListingInit /\ [][ListingNext]_listingVars

-----------------------------------------------------------------------------
(* Properties.                                                             *)

\* What the public sees, or a certificate that counts, is content that an
\* administrator wrote, or approved after seeing it, unless an edit or a
\* review was committed between the load and the commit of another, or an edit
\* between the administrator's look and the approval.
EffectiveIsVetted == Effective /\ ~raced => row.content \in vetted

\* When no edit is on its way to the counter, the Redis counter of a product
\* with finite stock is its stock, less the units that orders under way have
\* taken and with the one being given back, whatever edits, orders, returns and
\* losses of the key overlap.  Where it is not, something that strays in that
\* direction has happened since the counter was last set.  It is lower only after
\* a unit was lost (a server died between the two stores, an answer of Redis did
\* not arrive, a return found Redis disabled) or an edit or an increment of a
\* missing key set it too low; it is higher, and oversells, only after a unit
\* came twice (a return or a creation failed after its increment), a study order
\* took a unit from the row alone, or an edit or an order set it over the units
\* that orders had taken.
CounterStraysForAReason ==
  /\ \A r \in Requests : work[r].pc # "sync"
  /\ counter # None
  /\ row.stock >= 0
  => /\ counter < Expected => "short" \in drift
     /\ counter > Expected => "excess" \in drift
=============================================================================
