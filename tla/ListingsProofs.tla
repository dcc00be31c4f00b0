---------------------------- MODULE ListingsProofs ----------------------------
(***************************************************************************)
(* Proofs about reviewed rows and the stock counter, for any number of     *)
(* requests and of orders.                                                 *)
(***************************************************************************)
EXTENDS Listings, FiniteSetTheorems, TLAPS

Columns == {"own", "review", "status", "content", "stock"}
RowOK(x) == DOMAIN x = Columns /\ x.stock \in Int

\* What an open request has set, by the kind of request: a merchant's edit asks
\* for a review, a review and a switch leave content and stock alone.
WorkOK(w) ==
  /\ w.pc \in {"idle", "open", "sync"}
  /\ w.pc = "sync" => w.stock \in Nat
  /\ w.pc = "open" =>
       /\ RowOK(w.was) /\ RowOK(w.new)
       /\ w.op \in {"edit", "revise", "review", "blind review", "toggle"}
       /\ w.op = "edit" => w.new.review = "pending"
       /\ w.new.review # w.was.review => w.new.review # "absent"
       /\ w.op \in {"review", "blind review", "toggle"} =>
            w.new.content = w.was.content /\ w.new.stock = w.was.stock
       /\ w.op = "toggle" => w.new.review = w.was.review

ListingTypes ==
  /\ listing \in Kinds
  /\ RowOK(row)
  /\ work = [r \in Requests |-> work[r]]
  /\ \A r \in Requests : WorkOK(work[r])
  /\ order = [o \in Orders |-> order[o]]

LEMMA FlushedFacts ==
  ASSUME RowOK(row), NEW was, NEW new, RowOK(was), RowOK(new)
  PROVE  /\ RowOK(Flushed(was, new))
         /\ Flushed(was, new).review
              = (IF new.review # was.review THEN new.review ELSE row.review)
         /\ Flushed(was, new).content
              = (IF new.content # was.content THEN new.content ELSE row.content)
         /\ Flushed(was, new).stock
              = (IF new.stock # was.stock THEN new.stock ELSE row.stock)
<1>1. Flushed(was, new) = [c \in Columns |-> IF new[c] # was[c] THEN new[c] ELSE row[c]]
  BY DEF Flushed, RowOK
<1>2. DOMAIN Flushed(was, new) = Columns
  BY <1>1
<1>3. /\ Flushed(was, new).review
           = (IF new.review # was.review THEN new.review ELSE row.review)
      /\ Flushed(was, new).content
           = (IF new.content # was.content THEN new.content ELSE row.content)
      /\ Flushed(was, new).stock
           = (IF new.stock # was.stock THEN new.stock ELSE row.stock)
  BY <1>1 DEF Columns
<1> QED BY <1>2, <1>3 DEF RowOK

-----------------------------------------------------------------------------
(* The kinds of steps.                                                     *)

\* A row is created.
Creating ==
  /\ RowOK(row')
  /\ UNCHANGED <<listing, work, stockVars, raced>>
  /\ vetted \subseteq vetted'
  /\ row'.review = "approved" => row'.content \in vetted'
  /\ row = Absent

\* A request loads the row and sets its columns.
Beginning(r) ==
  /\ work[r] = Idle
  /\ WorkOK(work'[r]) /\ work'[r].pc = "open"
  /\ work' = [q \in Requests |-> IF q = r THEN work'[r] ELSE work[q]]
  /\ UNCHANGED <<listing, row, stockVars, reviewHistory>>

LEMMA CreationKinds ==
  ASSUME \/ merchant_create_product \/ merchant_create_travel_route
         \/ create_custom_travel_request \/ create_product \/ create_route
  PROVE  Creating
<1>1. ASSUME NEW kind, NEW n \in EditStocks \cup {0}, Create(kind, Resubmitted(n)),
             UNCHANGED vetted
      PROVE  Creating
  <2>1. row' = Resubmitted(n) /\ n \in Int
    BY <1>1, StockAssumption DEF Create, EditStocks, Unlimited
  <2> QED BY <1>1, <2>1 DEF Create, Creating, Resubmitted, RowOK, Columns
<1>2. ASSUME NEW kind, NEW own \in BOOLEAN, NEW on \in BOOLEAN,
             NEW n \in EditStocks \cup {0}, Create(kind, Approved(own, on, n)),
             vetted' = vetted \cup {written + 1}
      PROVE  Creating
  <2>1. row' = Approved(own, on, n) /\ n \in Int
    BY <1>2, StockAssumption DEF Create, EditStocks, Unlimited
  <2> QED BY <1>2, <2>1 DEF Create, Creating, Approved, RowOK, Columns
<1> QED BY <1>1, <1>2 DEF merchant_create_product, merchant_create_travel_route,
           create_custom_travel_request, create_product, create_route

LEMMA BeginFacts ==
  ASSUME ListingTypes, NEW r \in Requests, NEW op, NEW new, Begin(r, op, new),
         RowOK(new),
         op \in {"edit", "revise", "review", "blind review", "toggle"},
         op = "edit" => new.review = "pending",
         new.review # row.review => new.review # "absent",
         op \in {"review", "blind review", "toggle"} =>
           new.content = row.content /\ new.stock = row.stock,
         op = "toggle" => new.review = row.review
  PROVE  Beginning(r)
<1> DEFINE w == [pc |-> "open", op |-> op, was |-> row, new |-> new]
<1>1. WorkOK(w) /\ w.pc = "open"
  BY DEF WorkOK, ListingTypes
<1>2. work' = [work EXCEPT ![r] = w] /\ work[r] = Idle
      /\ UNCHANGED <<listing, row, stockVars, reviewHistory>>
  BY DEF Begin
<1> HIDE DEF w
<1>3. work'[r] = w /\ work' = [q \in Requests |-> IF q = r THEN w ELSE work[q]]
  BY <1>2 DEF ListingTypes
<1> QED BY <1>1, <1>2, <1>3 DEF Beginning

LEMMA BeginKinds ==
  ASSUME ListingTypes, NEW r \in Requests,
         \/ merchant_update_product(r) \/ merchant_update_travel_route(r)
         \/ submit_graduation_certification(r) \/ update_product(r) \/ update_route(r)
         \/ set_product_status(r) \/ merchant_set_product_status(r)
         \/ toggle_route(r) \/ merchant_set_travel_route_status(r)
         \/ review_product(r) \/ review_route(r) \/ review_graduation_certification(r)
         \/ admin_review_custom_travel_request(r)
  PROVE  Beginning(r)
<1>0. EditStocks \subseteq Int /\ RowOK(row)
  BY StockAssumption DEF EditStocks, Unlimited, ListingTypes
<1>1. ASSUME NEW n \in Int, Begin(r, "edit", Resubmitted(n))
      PROVE  Beginning(r)
  <2>1. RowOK(Resubmitted(n)) /\ Resubmitted(n).review = "pending"
    BY DEF RowOK, Resubmitted, Columns
  <2> QED BY <1>1, <2>1, BeginFacts
<1>2. CASE \/ merchant_update_product(r) \/ merchant_update_travel_route(r)
           \/ submit_graduation_certification(r)
  BY <1>0, <1>1, <1>2 DEF merchant_update_product, merchant_update_travel_route,
       submit_graduation_certification
<1>3. CASE update_product(r)
  <2>1. PICK n \in EditStocks, on \in BOOLEAN :
          Begin(r, "revise", [row EXCEPT !.content = written + 1, !.stock = n,
                                !.status = on /\ row.review = "approved"])
    BY <1>3 DEF update_product
  <2>2. /\ RowOK([row EXCEPT !.content = written + 1, !.stock = n,
                    !.status = on /\ row.review = "approved"])
        /\ [row EXCEPT !.content = written + 1, !.stock = n,
              !.status = on /\ row.review = "approved"].review = row.review
    BY <1>0 DEF RowOK, Columns
  <2> QED BY <2>1, <2>2, BeginFacts
<1>4. CASE update_route(r)
  <2>1. PICK on \in BOOLEAN :
          Begin(r, "revise", [row EXCEPT !.content = written + 1, !.status = on,
                                !.review = IF row.own THEN "approved" ELSE @])
    BY <1>4 DEF update_route
  <2>2. /\ RowOK([row EXCEPT !.content = written + 1, !.status = on,
                    !.review = IF row.own THEN "approved" ELSE @])
        /\ [row EXCEPT !.content = written + 1, !.status = on,
              !.review = IF row.own THEN "approved" ELSE @].review
             \in {"approved", row.review}
    BY <1>0 DEF RowOK, Columns
  <2> QED BY <2>1, <2>2, BeginFacts
<1>5. ASSUME NEW kind, Toggle(r, kind)
      PROVE  Beginning(r)
  <2>1. PICK on \in BOOLEAN : Begin(r, "toggle", [row EXCEPT !.status = on])
    BY <1>5 DEF Toggle
  <2>2. /\ RowOK([row EXCEPT !.status = on])
        /\ [row EXCEPT !.status = on].content = row.content
        /\ [row EXCEPT !.status = on].stock = row.stock
        /\ [row EXCEPT !.status = on].review = row.review
    BY <1>0 DEF RowOK, Columns
  <2> QED BY <2>1, <2>2, BeginFacts
<1>6. ASSUME NEW kind, Review(r, kind)
      PROVE  Beginning(r)
  <2>1. PICK yes \in BOOLEAN, op \in {"review", "blind review"} :
          Begin(r, op, Reviewed(yes))
    BY <1>6 DEF Review
  <2>2. /\ RowOK(Reviewed(yes))
        /\ Reviewed(yes).content = row.content
        /\ Reviewed(yes).stock = row.stock
        /\ Reviewed(yes).review \in {"approved", "rejected"}
    BY <1>0 DEF RowOK, Columns, Reviewed
  <2> QED BY <2>1, <2>2, BeginFacts
<1> QED BY <1>2, <1>3, <1>4, <1>5, <1>6
     DEF set_product_status, merchant_set_product_status, toggle_route,
         merchant_set_travel_route_status, review_product, review_route,
         review_graduation_certification, admin_review_custom_travel_request

\* A commit leaves the row alone or flushes what the request changed.
LEMMA CommitFacts ==
  ASSUME ListingTypes, NEW r \in Requests, Commit(r)
  PROVE  /\ RowOK(row') /\ ~Locked
         /\ work[r].pc = "open" /\ WorkOK(work[r]) /\ WorkOK(work'[r])
         /\ work' = [q \in Requests |-> IF q = r THEN work'[r] ELSE work[q]]
         /\ work'[r].pc \in {"idle", "sync"}
         /\ row' = row \/ row' = Flushed(work[r].was, work[r].new)
         /\ row' = row \/ work'[r].pc = "sync" \/ row'.stock < 0
              \/ listing # "product" \/ work[r].op \notin {"edit", "revise"}
         /\ UNCHANGED <<listing, stockVars>>
<1> DEFINE flushed == Flushed(work[r].was, work[r].new)
           lost == work[r].was = Absent /\ row # Absent
<1>1. WorkOK(work[r]) /\ RowOK(row) /\ work[r].pc = "open"
  BY DEF ListingTypes, Commit
<1>2. RowOK(flushed)
  BY <1>1, FlushedFacts DEF WorkOK
<1>3. /\ row' = (IF lost THEN row ELSE flushed)
      /\ work' = [work EXCEPT ![r] =
                    IF ~lost /\ listing = "product" /\ work[r].op \in {"edit", "revise"}
                         /\ flushed.stock >= 0
                    THEN [pc |-> "sync", stock |-> flushed.stock] ELSE Idle]
      /\ ~Locked /\ UNCHANGED <<listing, stockVars>>
  BY DEF Commit
<1> HIDE DEF flushed
<1>4. /\ work'[r] = IF ~lost /\ listing = "product" /\ work[r].op \in {"edit", "revise"}
                         /\ flushed.stock >= 0
                    THEN [pc |-> "sync", stock |-> flushed.stock] ELSE Idle
      /\ work' = [q \in Requests |-> IF q = r THEN work'[r] ELSE work[q]]
  BY <1>3 DEF ListingTypes
<1>5. flushed.stock \in Int
  BY <1>2 DEF RowOK
<1>6. WorkOK(work'[r]) /\ work'[r].pc \in {"idle", "sync"}
  BY <1>4, <1>5 DEF WorkOK, Idle
<1>7. row' = row \/ row' = flushed
  BY <1>3
<1>8. row' = row \/ work'[r].pc = "sync" \/ row'.stock < 0
        \/ listing # "product" \/ work[r].op \notin {"edit", "revise"}
  BY <1>3, <1>4, <1>5
<1>9. RowOK(row')
  BY <1>1, <1>2, <1>7
<1> QED BY <1>1, <1>3, <1>4, <1>6, <1>7, <1>8, <1>9 DEF flushed

\* A request that is done with the counter.
SyncEnds(r) ==
  /\ work[r].pc = "sync" /\ work[r].stock \in Nat
  /\ work' = [q \in Requests |-> IF q = r THEN Idle ELSE work[q]]
  /\ UNCHANGED <<listing, row, order, reviewHistory>>

LEMMA SyncKinds ==
  ASSUME ListingTypes, NEW r \in Requests, sync_stock(r) \/ sync_fails(r)
  PROVE  SyncEnds(r)
<1>1. /\ work[r].pc = "sync" /\ work' = [work EXCEPT ![r] = Idle]
      /\ UNCHANGED <<listing, row, order, reviewHistory>>
  BY DEF sync_stock, sync_fails
<1>2. work[r].stock \in Nat
  BY <1>1 DEF ListingTypes, WorkOK
<1> QED BY <1>1, <1>2 DEF SyncEnds, ListingTypes

\* A step of an order changes nothing of the row but its stock.
Ordering(o) ==
  /\ RowOK(row')
  /\ row'.review = row.review /\ row'.content = row.content
  /\ order' = [p \in Orders |-> IF p = o THEN order'[o] ELSE order[p]]
  /\ UNCHANGED <<listing, work, reviewHistory>>

OrderStep(o) ==
  \/ _pre_deduct_stock(o) \/ pre_deduct_breaks(o)
  \/ rollback_redis_stock(o) \/ rollback_fails(o) \/ UnitLost(o)
  \/ _persist_order(o) \/ persist_fails(o) \/ create_order(o) \/ refresh_fails(o)
  \/ restore_counter(o) \/ restore_aborts(o) \/ restore_stock(o) \/ restore_fails(o)
  \/ create_study_order(o) \/ mock_pay(o)

LEMMA OrderKinds ==
  ASSUME ListingTypes, NEW o \in Orders, OrderStep(o)
  PROVE  Ordering(o)
<1>0. RowOK(row) /\ order = [p \in Orders |-> order[p]]
  BY DEF ListingTypes
<1>1. ASSUME row' = row, UNCHANGED itemVars,
             order' = order \/ \E x : order' = [order EXCEPT ![o] = x]
      PROVE  Ordering(o)
  BY <1>0, <1>1 DEF Ordering, itemVars
<1>2. ASSUME NEW n \in Int, row' = [row EXCEPT !.stock = n], UNCHANGED itemVars,
             NEW x, order' = [order EXCEPT ![o] = x]
      PROVE  Ordering(o)
  <2>1. RowOK(row') /\ row'.review = row.review /\ row'.content = row.content
    BY <1>0, <1>2 DEF RowOK, Columns
  <2> QED BY <1>0, <1>2, <2>1 DEF Ordering, itemVars
<1>3. row.stock - 1 \in Int /\ row.stock + 1 \in Int
  BY <1>0 DEF RowOK
<1>4. CASE \/ _pre_deduct_stock(o) \/ pre_deduct_breaks(o)
           \/ rollback_redis_stock(o) \/ rollback_fails(o) \/ UnitLost(o)
  BY <1>1, <1>4 DEF _pre_deduct_stock, pre_deduct_breaks, rollback_redis_stock,
                    rollback_fails, UnitLost
<1>5. CASE \/ persist_fails(o) \/ create_order(o) \/ refresh_fails(o)
           \/ restore_counter(o) \/ restore_aborts(o) \/ restore_fails(o)
           \/ create_study_order(o)
  BY <1>1, <1>5 DEF persist_fails, create_order, refresh_fails, restore_counter,
                    restore_aborts, restore_fails, create_study_order
<1>6. CASE _persist_order(o)
  <2>1. row' = [row EXCEPT !.stock = row.stock - 1]
    BY <1>6 DEF _persist_order
  <2> QED BY <1>2, <1>3, <1>6, <2>1 DEF _persist_order
<1>7. CASE restore_stock(o)
  <2>1. row' = [row EXCEPT !.stock = row.stock + 1]
    BY <1>7 DEF restore_stock
  <2> QED BY <1>2, <1>3, <1>7, <2>1 DEF restore_stock
<1>8. CASE mock_pay(o)
  <2>1. row' = row \/ row' = [row EXCEPT !.stock = row.stock - 1]
    BY <1>8 DEF mock_pay
  <2>2. UNCHANGED itemVars /\ order' = [order EXCEPT ![o] = "none"]
    BY <1>8 DEF mock_pay
  <2> QED BY <1>1, <1>2, <1>3, <2>1, <2>2
<1> QED BY <1>4, <1>5, <1>6, <1>7, <1>8 DEF OrderStep

KindOfStep ==
  \/ Creating
  \/ \E r \in Requests : Beginning(r) \/ Commit(r) \/ sync_stock(r) \/ sync_fails(r)
  \/ \E o \in Orders : OrderStep(o)
  \/ RedisForgets
  \/ UNCHANGED listingVars

LEMMA StepKinds ==
  ASSUME ListingTypes, [ListingNext]_listingVars
  PROVE  KindOfStep
BY CreationKinds, BeginKinds DEF ListingNext, RowNext, OrderNext, OrderStep, KindOfStep

LEMMA ListingTypeStep ==
  ASSUME ListingTypes, [ListingNext]_listingVars
  PROVE  ListingTypes'
<1>1. CASE Creating
  BY <1>1 DEF Creating, stockVars, ListingTypes
<1>2. ASSUME NEW r \in Requests, WorkOK(work'[r]), RowOK(row'),
             UNCHANGED <<listing, order>>,
             work' = [q \in Requests |-> IF q = r THEN work'[r] ELSE work[q]]
      PROVE  ListingTypes'
  <2>1. \A q \in Requests : work'[q] = IF q = r THEN work'[r] ELSE work[q]
    BY <1>2
  <2>2. work' = [q \in Requests |-> work'[q]]
    BY <1>2
  <2> QED BY <1>2, <2>1, <2>2 DEF ListingTypes
<1>3. ASSUME NEW r \in Requests, Beginning(r)
      PROVE  ListingTypes'
  BY <1>2, <1>3 DEF Beginning, stockVars, ListingTypes
<1>4. ASSUME NEW r \in Requests, Commit(r)
      PROVE  ListingTypes'
  BY <1>2, <1>4, CommitFacts DEF stockVars
<1>5. ASSUME NEW r \in Requests, SyncEnds(r)
      PROVE  ListingTypes'
  <2>1. WorkOK(Idle)
    BY DEF WorkOK, Idle
  <2>2. work'[r] = Idle
    BY <1>5 DEF SyncEnds
  <2>3. work' = [q \in Requests |-> IF q = r THEN work'[r] ELSE work[q]]
    BY <1>5, <2>2 DEF SyncEnds
  <2> QED BY <1>2, <1>5, <2>1, <2>2, <2>3 DEF SyncEnds, ListingTypes
<1>6. ASSUME NEW o \in Orders, Ordering(o)
      PROVE  ListingTypes'
  <2>1. order' = [p \in Orders |-> order'[p]]
    BY <1>6 DEF Ordering
  <2> QED BY <1>6, <2>1 DEF Ordering, ListingTypes
<1>7. CASE RedisForgets \/ UNCHANGED listingVars
  BY <1>7 DEF RedisForgets, itemVars, listingVars, ListingTypes
<1> QED BY <1>1, <1>3, <1>4, <1>5, <1>6, <1>7, StepKinds, SyncKinds, OrderKinds
     DEF KindOfStep

LEMMA ListingTypesInit ==
  ASSUME ListingInit
  PROVE  ListingTypes
<1>1. WorkOK(Idle)
  BY DEF WorkOK, Idle
<1>2. RowOK(Absent)
  BY DEF RowOK, Columns, Absent
<1> QED BY <1>1, <1>2 DEF ListingInit, ListingTypes

-----------------------------------------------------------------------------
(* Review.                                                                 *)

\* An approved row, on sale or not, carries vetted content.
VettedInv == row.review = "approved" /\ ~raced => row.content \in vetted

LEMMA VettedStep ==
  ASSUME ListingTypes, VettedInv, [ListingNext]_listingVars
  PROVE  VettedInv'
<1>1. CASE Creating
  BY <1>1 DEF Creating, VettedInv
<1>2. ASSUME NEW r \in Requests, Beginning(r) \/ SyncEnds(r)
      PROVE  VettedInv'
  BY <1>2 DEF Beginning, SyncEnds, reviewHistory, VettedInv
<1>3. ASSUME NEW o \in Orders, Ordering(o)
      PROVE  VettedInv'
  BY <1>3 DEF Ordering, reviewHistory, VettedInv
<1>4. ASSUME NEW r \in Requests, Commit(r)
      PROVE  VettedInv'
  <2> DEFINE w == work[r]
             flushed == Flushed(w.was, w.new)
             lost == w.was = Absent /\ row # Absent
             approves == w.new.review = "approved"
             seenAsIs == /\ w.was.review = row.review /\ w.was.status = row.status
                         /\ w.was.content = row.content
  <2>1. /\ WorkOK(w) /\ w.pc = "open" /\ RowOK(w.was) /\ RowOK(w.new) /\ RowOK(row)
    BY <1>4, CommitFacts DEF WorkOK, ListingTypes
  <2>2. /\ row' = (IF lost THEN row ELSE flushed)
        /\ vetted' = CASE lost -> vetted
                       [] w.op = "revise" -> vetted \cup {w.new.content}
                       [] w.op = "review" /\ approves -> vetted \cup {w.was.content}
                       [] OTHER -> vetted
        /\ raced' = IF lost \/ w.op = "toggle" THEN raced
                    ELSE \/ ~seenAsIs
                         \/ w.op = "blind review" /\ approves
                         \/ raced /\ w.op = "revise"
    BY <1>4 DEF Commit
  <2>3. /\ flushed.review = (IF w.new.review # w.was.review THEN w.new.review
                             ELSE row.review)
        /\ flushed.content = (IF w.new.content # w.was.content THEN w.new.content
                              ELSE row.content)
    BY <2>1, FlushedFacts
  <2>4. /\ w.op \in {"edit", "revise", "review", "blind review", "toggle"}
        /\ w.op = "edit" => w.new.review = "pending"
        /\ w.op \in {"review", "blind review", "toggle"} => w.new.content = w.was.content
        /\ w.op = "toggle" => w.new.review = w.was.review
    BY <2>1 DEF WorkOK
  <2> HIDE DEF w, flushed, lost, approves, seenAsIs
  <2>5. CASE lost
    <3>1. row' = row
      BY <2>2, <2>5
    <3>2. vetted \subseteq vetted'
      BY <2>2
    <3>3. raced' = raced
      BY <2>2, <2>5
    <3> QED BY <3>1, <3>2, <3>3 DEF VettedInv
  <2>6. CASE ~lost /\ w.op = "toggle"
    <3>1. row'.review = row.review /\ row'.content = row.content
      BY <2>2, <2>3, <2>4, <2>6
    <3>2. vetted' = vetted /\ raced' = raced
      BY <2>2, <2>6
    <3> QED BY <3>1, <3>2 DEF VettedInv
  <2>7. ASSUME ~lost, w.op # "toggle", ~raced', row'.review = "approved"
        PROVE  row'.content \in vetted'
    <3>1. /\ seenAsIs /\ ~(w.op = "blind review" /\ approves)
      BY <2>2, <2>7
    <3>2. row'.review = w.new.review /\ row'.content = w.new.content
      BY <2>2, <2>3, <2>7, <3>1 DEF seenAsIs
    <3>3. w.op \in {"revise", "review"} /\ approves
      BY <2>4, <2>7, <3>1, <3>2 DEF approves
    <3>4. CASE w.op = "revise"
      BY <2>2, <2>7, <3>2, <3>4
    <3>5. CASE w.op = "review"
      BY <2>2, <2>4, <2>7, <3>2, <3>3, <3>5
    <3> QED BY <3>3, <3>4, <3>5
  <2> QED BY <2>5, <2>6, <2>7 DEF VettedInv
<1>5. CASE RedisForgets \/ UNCHANGED listingVars
  BY <1>5 DEF RedisForgets, itemVars, reviewHistory, listingVars, VettedInv
<1> QED BY <1>1, <1>2, <1>3, <1>4, <1>5, StepKinds, SyncKinds, OrderKinds
     DEF KindOfStep

\* What is on sale or counts as a certificate was written or approved, having
\* been seen, by an administrator, unless decisions on it overlapped.
THEOREM EffectiveRowsAreVetted == ListingSpec => []EffectiveIsVetted
<1>1. ListingInit => VettedInv
  BY DEF ListingInit, VettedInv, Absent
<1>2. ListingTypes /\ VettedInv => EffectiveIsVetted
  <2>1. ListingTypes /\ Effective => row.review = "approved"
    BY DEF ListingTypes, Kinds, Effective, public_products, public_routes,
           resolve_user_identities
  <2> QED BY <2>1 DEF VettedInv, EffectiveIsVetted
<1> QED BY <1>1, <1>2, ListingTypesInit, ListingTypeStep, VettedStep, PTL DEF ListingSpec

-----------------------------------------------------------------------------
(* The counter of a product's stock.                                       *)

\* How many units an order in a state adds to what the counter should show.
Weight(s) == IF s \in TakenStates THEN -1 ELSE IF s = "returning" THEN 1 ELSE 0

LEMMA OrderSets ==
  ASSUME NEW S
  PROVE  /\ IsFiniteSet(In(S)) /\ Cardinality(In(S)) \in Nat
         /\ IsFiniteSet(In(S)') /\ Cardinality(In(S)') \in Nat
<1>1. In(S) \subseteq Orders /\ In(S)' \subseteq Orders
  BY DEF In
<1>2. IsFiniteSet(In(S)) /\ IsFiniteSet(In(S)')
  BY <1>1, OrdersAssumption, FS_Subset
<1> QED BY <1>2, FS_CardinalityType

\* One order moves from one state to another.
LEMMA InMoves ==
  ASSUME order = [p \in Orders |-> order[p]], NEW o \in Orders, NEW s,
         order' = [order EXCEPT ![o] = s], NEW S
  PROVE  Cardinality(In(S)') = Cardinality(In(S)) + (IF s \in S THEN 1 ELSE 0)
                                                  - (IF order[o] \in S THEN 1 ELSE 0)
<1>0. order'[o] = s /\ \A p \in Orders : p # o => order'[p] = order[p]
  OBVIOUS
<1>1. IsFiniteSet(In(S)) /\ Cardinality(In(S)) \in Nat
  BY OrderSets
<1>2. CASE s \in S /\ order[o] \notin S
  <2>1. In(S)' = In(S) \cup {o} /\ o \notin In(S)
    BY <1>0, <1>2 DEF In
  <2>2. Cardinality(In(S)') = Cardinality(In(S)) + 1
    BY <1>1, <2>1, FS_AddElement
  <2> QED BY <1>1, <1>2, <2>2
<1>3. CASE s \notin S /\ order[o] \in S
  <2>1. In(S)' = In(S) \ {o} /\ o \in In(S)
    BY <1>0, <1>3 DEF In
  <2>2. Cardinality(In(S)') = Cardinality(In(S)) - 1
    BY <1>1, <2>1, FS_RemoveElement
  <2> QED BY <1>1, <1>3, <2>2
<1>4. CASE s \in S <=> order[o] \in S
  <2>1. In(S)' = In(S)
    BY <1>0, <1>4 DEF In
  <2> QED BY <1>1, <1>4, <2>1
<1> QED BY <1>2, <1>3, <1>4

LEMMA ExpectedMoves ==
  ASSUME ListingTypes, row'.stock \in Int, NEW o \in Orders, NEW s,
         order' = [order EXCEPT ![o] = s]
  PROVE  /\ Expected \in Int /\ Expected' \in Int
         /\ Expected' = Expected + (row'.stock - row.stock) + (Weight(s) - Weight(order[o]))
<1> DEFINE a == Cardinality(In(TakenStates))
           b == Cardinality(In({"returning"}))
           one(x, S) == IF x \in S THEN 1 ELSE 0
<1>1. /\ a \in Nat /\ b \in Nat /\ a' \in Nat /\ b' \in Nat /\ row.stock \in Int
  <2>1. a \in Nat /\ a' \in Nat
    BY OrderSets
  <2>2. b \in Nat /\ b' \in Nat
    BY OrderSets
  <2> QED BY <2>1, <2>2 DEF ListingTypes, RowOK
<1>2. /\ a' = a + one(s, TakenStates) - one(order[o], TakenStates)
      /\ b' = b + one(s, {"returning"}) - one(order[o], {"returning"})
  BY InMoves DEF ListingTypes, TakenStates
<1>3. Expected = row.stock - a + b /\ Expected' = row'.stock - a' + b'
  BY DEF Expected
<1>4. \A x : Weight(x) = one(x, {"returning"}) - one(x, TakenStates)
  BY DEF Weight, TakenStates
<1>5. /\ one(s, TakenStates) \in Int /\ one(order[o], TakenStates) \in Int
      /\ one(s, {"returning"}) \in Int /\ one(order[o], {"returning"}) \in Int
  OBVIOUS
<1>6. /\ Weight(s) = one(s, {"returning"}) - one(s, TakenStates)
      /\ Weight(order[o]) = one(order[o], {"returning"}) - one(order[o], TakenStates)
  BY <1>4
<1> HIDE DEF a, b, one
<1> QED BY <1>1, <1>2, <1>3, <1>5, <1>6

LEMMA ExpectedStays ==
  ASSUME ListingTypes, row'.stock = row.stock, order' = order
  PROVE  Expected \in Int /\ Expected' = Expected
<1>1. /\ Cardinality(In(TakenStates)) \in Nat /\ Cardinality(In({"returning"})) \in Nat
      /\ row.stock \in Int
  BY OrderSets DEF ListingTypes, RowOK
<1> QED BY <1>1 DEF Expected, In

\* A step accounts for what it does to the counter: the key is gone, or the
\* history says how it is off when it is set, or how it is off by more than it
\* was.
Settles ==
  /\ counter' < Expected' => "short" \in drift'
  /\ counter' > Expected' => "excess" \in drift'
Carries ==
  /\ counter # None /\ drift \subseteq drift'
  /\ counter' - counter < Expected' - Expected => "short" \in drift'
  /\ counter' - counter > Expected' - Expected => "excess" \in drift'
Accounted == counter' \in Int /\ (counter' = None \/ Settles \/ Carries)

LEMMA StraysFacts ==
  \A n : /\ n < Expected => "short" \in Strays(n)
         /\ n > Expected => "excess" \in Strays(n)
BY DEF Strays, Drifts

LEMMA StillAccounted ==
  ASSUME counter \in Int, Expected \in Int, Expected' \in Int,
         counter' = counter, drift \subseteq drift',
         Expected' > Expected => "short" \in drift',
         Expected' < Expected => "excess" \in drift'
  PROVE  Accounted
<1>1. CASE counter # None
  <2>1. counter' - counter = 0
    OBVIOUS
  <2>2. /\ 0 < Expected' - Expected => "short" \in drift'
        /\ 0 > Expected' - Expected => "excess" \in drift'
    <3>1. \A x, y \in Int : (0 < x - y => x > y) /\ (0 > x - y => x < y)
      OBVIOUS
    <3> QED BY <3>1
  <2> QED BY <1>1, <2>1, <2>2 DEF Accounted, Carries
<1> QED BY <1>1 DEF Accounted

LEMMA IncrAccounted ==
  ASSUME counter \in Int, Expected \in Int, NEW causes, incr_stock(causes),
         Expected' = Expected + 1 \/ (Expected' = Expected /\ "excess" \in causes)
  PROVE  Accounted
<1>1. CASE counter = None
  <2>1. counter' = 1 /\ Strays(0) \subseteq drift' /\ causes \subseteq drift'
    BY <1>1 DEF incr_stock
  <2>2. /\ 0 < Expected => "short" \in drift'
        /\ 0 > Expected => "excess" \in drift'
    BY <2>1, StraysFacts
  <2> QED BY <2>1, <2>2 DEF Accounted, Settles
<1>2. CASE counter # None
  <2>1. counter' = counter + 1 /\ drift \subseteq drift' /\ causes \subseteq drift'
    BY <1>2 DEF incr_stock
  <2> QED BY <1>2, <2>1 DEF Accounted, Carries
<1> QED BY <1>1, <1>2

\* The counter is set if there is none, and perhaps a unit is taken.
LEMMA PrimeAccounted ==
  ASSUME counter \in Int, Expected \in Int, row.stock \in Int,
         PrimedDrift \subseteq drift',
         \/ counter' = Primed - 1 /\ Expected' = Expected - 1
         \/ counter' = Primed - 1 /\ Expected' = Expected /\ "short" \in drift'
         \/ counter = None /\ counter' = Primed /\ Expected' = Expected
  PROVE  Accounted
<1>1. CASE counter = None
  <2>1. Primed = row.stock /\ Strays(row.stock) \subseteq drift'
    BY <1>1 DEF Primed, PrimedDrift
  <2>2. /\ row.stock < Expected => "short" \in drift'
        /\ row.stock > Expected => "excess" \in drift'
    BY <2>1, StraysFacts
  <2> QED BY <2>1, <2>2 DEF Accounted, Settles
<1>2. CASE counter # None
  <2>1. Primed = counter /\ drift \subseteq drift'
    BY <1>2 DEF Primed, PrimedDrift
  <2> QED BY <1>2, <2>1 DEF Accounted, Carries
<1> QED BY <1>1, <1>2

HoldStates == {"held", "refused", "returning"}
Holds(o) == order[o] \in HoldStates
NoSync == \A r \in Requests : work[r].pc # "sync"
Untouched == counter = None /\ \A o \in Orders : order[o] = "none"

\* One order at a time holds the product's lock, and its stock is finite then.
LockInv ==
  /\ \A o, p \in Orders : Holds(o) /\ Holds(p) => o = p
  /\ \A o \in Orders : Holds(o) => row.stock >= 0

\* Only a product that exists has a counter and orders.
CounterInv ==
  /\ counter \in Int
  /\ listing # "product" \/ row.review = "absent" => Untouched
  /\ LockInv
  /\ CounterStraysForAReason

LEMMA LockFacts == Locked <=> \E o \in Orders : Holds(o)
BY DEF Locked, In, Holds, HoldStates

\* An order takes the lock when it is free, keeps it, or leaves it.
LEMMA LockStep ==
  ASSUME ListingTypes, LockInv, NEW o \in Orders, NEW s,
         order' = [order EXCEPT ![o] = s],
         \/ ~Locked /\ row.stock >= 0 /\ row' = row
         \/ row' = row /\ (s \in HoldStates => Holds(o))
         \/ s \notin HoldStates /\ (Holds(o) \/ ~Locked)
  PROVE  LockInv'
<1>1. order'[o] = s /\ \A p \in Orders : p # o => order'[p] = order[p]
  BY DEF ListingTypes
<1>2. Holds(o)' <=> s \in HoldStates
  BY <1>1 DEF Holds
<1>3. \A p \in Orders : p # o => (Holds(p)' <=> Holds(p))
  BY <1>1 DEF Holds
<1>4. ~Locked => \A p \in Orders : ~Holds(p)
  BY LockFacts
<1> QED BY <1>2, <1>3, <1>4 DEF LockInv

LEMMA OrderAccounted ==
  ASSUME ListingTypes, CounterInv, NEW o \in Orders, OrderStep(o)
  PROVE  Accounted /\ LockInv' /\ (row'.stock >= 0 => row.stock >= 0)
<1>0. counter \in Int /\ row.stock \in Int /\ LockInv
  BY DEF CounterInv, ListingTypes, RowOK
<1>1. Expected \in Int /\ row'.stock \in Int
  <2>1. /\ Cardinality(In(TakenStates)) \in Nat /\ Cardinality(In({"returning"})) \in Nat
    BY OrderSets
  <2> QED BY <1>0, <2>1, OrderKinds DEF Expected, RowOK, Ordering
<1>2. /\ \A s \in TakenStates : Weight(s) = -1
      /\ Weight("returning") = 1
      /\ \A s \in {"none", "study", "committed", "deducted"} : Weight(s) = 0
  BY DEF Weight, TakenStates
<1>4. ASSUME order' = order, row' = row
      PROVE  Expected' = Expected /\ LockInv'
  BY <1>0, <1>4, ExpectedStays DEF LockInv, Holds
<1>5. CASE _pre_deduct_stock(o)
  <2>1. PICK s \in {"held", "refused"} : order' = [order EXCEPT ![o] = s]
    BY <1>5 DEF _pre_deduct_stock
  <2>2. /\ order[o] = "none" /\ ~Locked /\ row.stock > 0 /\ row' = row
        /\ counter' = Primed - 1 /\ drift' = PrimedDrift
    BY <1>5 DEF _pre_deduct_stock, _validate_products
  <2>3. Expected' = Expected - 1
    <3>1. Expected' = Expected + (row'.stock - row.stock) + (Weight(s) - Weight(order[o]))
      BY <1>1, <2>1, <2>2, ExpectedMoves
    <3>2. Weight(s) = -1 /\ Weight(order[o]) = 0
      BY <1>2, <2>1, <2>2 DEF TakenStates
    <3>3. row'.stock = row.stock
      BY <2>1, <2>2
    <3> QED BY <1>0, <1>1, <3>1, <3>2, <3>3
  <2>4. Accounted
    BY <1>0, <1>1, <2>2, <2>3, PrimeAccounted
  <2>5. row.stock >= 0
    BY <1>0, <2>2
  <2> QED BY <1>0, <2>1, <2>2, <2>4, <2>5, LockStep
<1>6. CASE pre_deduct_breaks(o)
  <2>1. /\ order' = order /\ row' = row
        /\ \/ counter = None /\ counter' = row.stock /\ drift' = PrimedDrift
           \/ counter' = Primed - 1 /\ drift' = PrimedDrift \cup {"short"}
    BY <1>6 DEF pre_deduct_breaks
  <2>2. counter = None => Primed = row.stock
    BY DEF Primed
  <2>3. PrimedDrift \subseteq drift'
    BY <2>1
  <2>4. Accounted
    BY <1>0, <1>1, <1>4, <2>1, <2>2, <2>3, PrimeAccounted
  <2> QED BY <1>4, <2>1, <2>4
<1>7. CASE rollback_redis_stock(o)
  <2>1. /\ order[o] \in TakenStates /\ order' = [order EXCEPT ![o] = "none"]
        /\ row' = row /\ incr_stock({})
    BY <1>7 DEF rollback_redis_stock, TakenStates
  <2>2. Expected' = Expected + 1
    <3>1. Expected' = Expected + (row'.stock - row.stock) + (Weight("none") - Weight(order[o]))
      BY <1>1, <2>1, ExpectedMoves
    <3>2. Weight("none") = 0 /\ Weight(order[o]) = -1
      BY <1>2, <2>1
    <3>3. row'.stock = row.stock
      BY <2>1
    <3> QED BY <1>0, <1>1, <3>1, <3>2, <3>3
  <2> QED BY <1>0, <1>1, <2>1, <2>2, IncrAccounted, LockStep DEF HoldStates
<1>8. CASE rollback_fails(o)
  <2>1. /\ order[o] \in TakenStates /\ order' = [order EXCEPT ![o] = "failing"]
        /\ row' = row /\ (incr_stock({"excess"}) \/ UNCHANGED <<counter, drift>>)
        /\ "failing" \in TakenStates
    BY <1>8 DEF rollback_fails, TakenStates
  <2>2. Expected' = Expected
    <3>1. Expected' = Expected + (row'.stock - row.stock) + (Weight("failing") - Weight(order[o]))
      BY <1>1, <2>1, ExpectedMoves
    <3>2. Weight("failing") = -1 /\ Weight(order[o]) = -1
      BY <1>2, <2>1
    <3>3. row'.stock = row.stock
      BY <2>1
    <3> QED BY <1>0, <1>1, <3>1, <3>2, <3>3
  <2>3. Accounted
    <3>1. CASE incr_stock({"excess"})
      BY <1>0, <1>1, <2>2, <3>1, IncrAccounted
    <3>2. CASE UNCHANGED <<counter, drift>>
      BY <1>0, <1>1, <2>2, <3>2, StillAccounted
    <3> QED BY <2>1, <3>1, <3>2
  <2> QED BY <1>0, <2>1, <2>3, LockStep DEF HoldStates
<1>9. CASE UnitLost(o)
  <2>1. /\ order[o] \in TakenStates /\ order' = [order EXCEPT ![o] = "none"]
        /\ row' = row /\ counter' = counter /\ drift' = drift \cup {"short"}
    BY <1>9 DEF UnitLost
  <2>2. Expected' = Expected + 1
    <3>1. Expected' = Expected + (row'.stock - row.stock) + (Weight("none") - Weight(order[o]))
      BY <1>1, <2>1, ExpectedMoves
    <3>2. Weight("none") = 0 /\ Weight(order[o]) = -1
      BY <1>2, <2>1
    <3>3. row'.stock = row.stock
      BY <2>1
    <3> QED BY <1>0, <1>1, <3>1, <3>2, <3>3
  <2>3. Accounted
    BY <1>0, <1>1, <2>1, <2>2, StillAccounted
  <2> QED BY <1>0, <2>1, <2>3, LockStep DEF HoldStates
<1>10. CASE _persist_order(o)
  <2>1. /\ order[o] = "held" /\ order' = [order EXCEPT ![o] = "committed"]
        /\ row' = [row EXCEPT !.stock = row.stock - 1] /\ UNCHANGED <<counter, drift>>
    BY <1>10 DEF _persist_order
  <2>2. row'.stock = row.stock - 1
    BY <2>1 DEF ListingTypes, RowOK, Columns
  <2>3. Expected' = Expected
    <3>1. Expected' = Expected + (row'.stock - row.stock) + (Weight("committed") - Weight(order[o]))
      BY <1>1, <2>1, <2>2, ExpectedMoves
    <3>2. Weight("committed") = 0 /\ Weight(order[o]) = -1
      BY <1>2, <2>1, <2>2 DEF TakenStates
    <3>3. row'.stock = row.stock - 1
      BY <2>1, <2>2
    <3> QED BY <1>0, <1>1, <3>1, <3>2, <3>3
  <2>4. Accounted
    BY <1>0, <1>1, <2>1, <2>3, StillAccounted
  <2>5. Holds(o)
    BY <2>1 DEF Holds, HoldStates
  <2>6. "committed" \notin HoldStates
    BY DEF HoldStates
  <2>7. LockInv'
    BY <1>0, <2>1, <2>5, <2>6, LockStep
  <2>8. row.stock >= 0
    BY <1>0, <2>5 DEF LockInv
  <2> QED BY <2>4, <2>7, <2>8
<1>11. CASE persist_fails(o)
  <2>1. PICK s \in {"conflict", "failing"} : order' = [order EXCEPT ![o] = s]
    BY <1>11 DEF persist_fails
  <2>2. order[o] = "held" /\ row' = row /\ UNCHANGED <<counter, drift>>
    BY <1>11 DEF persist_fails
  <2>3. Expected' = Expected
    <3>1. Expected' = Expected + (row'.stock - row.stock) + (Weight(s) - Weight(order[o]))
      BY <1>1, <2>1, <2>2, ExpectedMoves
    <3>2. Weight(s) = -1 /\ Weight(order[o]) = -1
      BY <1>2, <2>1, <2>2 DEF TakenStates
    <3>3. row'.stock = row.stock
      BY <2>1, <2>2
    <3> QED BY <1>0, <1>1, <3>1, <3>2, <3>3
  <2>4. Accounted
    BY <1>0, <1>1, <2>2, <2>3, StillAccounted
  <2> QED BY <1>0, <2>1, <2>2, <2>4, LockStep DEF HoldStates
<1>12. CASE create_order(o)
  <2>1. /\ order[o] = "committed" /\ order' = [order EXCEPT ![o] = "deducted"]
        /\ row' = row /\ UNCHANGED <<counter, drift>>
    BY <1>12 DEF create_order
  <2>2. Expected' = Expected
    <3>1. Expected' = Expected + (row'.stock - row.stock) + (Weight("deducted") - Weight(order[o]))
      BY <1>1, <2>1, ExpectedMoves
    <3>2. Weight("deducted") = 0 /\ Weight(order[o]) = 0
      BY <1>2, <2>1
    <3>3. row'.stock = row.stock
      BY <2>1
    <3> QED BY <1>0, <1>1, <3>1, <3>2, <3>3
  <2>3. Accounted
    BY <1>0, <1>1, <2>1, <2>2, StillAccounted
  <2> QED BY <1>0, <2>1, <2>3, LockStep DEF HoldStates
<1>13. CASE refresh_fails(o)
  <2>1. /\ order[o] = "committed" /\ order' = [order EXCEPT ![o] = "deducted"]
        /\ row' = row /\ incr_stock({"excess"})
    BY <1>13 DEF refresh_fails
  <2>2. Expected' = Expected
    <3>1. Expected' = Expected + (row'.stock - row.stock) + (Weight("deducted") - Weight(order[o]))
      BY <1>1, <2>1, ExpectedMoves
    <3>2. Weight("deducted") = 0 /\ Weight(order[o]) = 0
      BY <1>2, <2>1
    <3>3. row'.stock = row.stock
      BY <2>1
    <3> QED BY <1>0, <1>1, <3>1, <3>2, <3>3
  <2>3. Accounted
    BY <1>0, <1>1, <2>1, <2>2, IncrAccounted
  <2> QED BY <1>0, <2>1, <2>3, LockStep DEF HoldStates
<1>14. CASE restore_counter(o)
  <2>1. order[o] = "deducted" /\ ~Locked /\ row' = row
    BY <1>14 DEF restore_counter
  <2>2. ASSUME row.stock >= 0, order' = [order EXCEPT ![o] = "returning"]
        PROVE  Expected' = Expected + 1 /\ LockInv'
    <3>1. Expected' = Expected + 1
      <4>1. Expected' = Expected + (row'.stock - row.stock) + (Weight("returning") - Weight(order[o]))
        BY <1>1, <2>1, <2>2, ExpectedMoves
      <4>2. Weight("returning") = 1 /\ Weight(order[o]) = 0
        BY <1>2, <2>1, <2>2
      <4>3. row'.stock = row.stock
        BY <2>1, <2>2
      <4> QED BY <1>0, <1>1, <4>1, <4>2, <4>3
    <3> QED BY <1>0, <2>1, <2>2, <3>1, LockStep
  <2>3. CASE row.stock >= 0 /\ incr_stock({}) /\ order' = [order EXCEPT ![o] = "returning"]
    BY <1>0, <1>1, <2>1, <2>2, <2>3, IncrAccounted
  <2>4. CASE /\ row.stock >= 0 /\ UNCHANGED counter /\ drift' = drift \cup {"short"}
             /\ order' = [order EXCEPT ![o] = "returning"]
    BY <1>0, <1>1, <2>1, <2>2, <2>4, StillAccounted
  <2>5. CASE order' = [order EXCEPT ![o] = "none"] /\ UNCHANGED <<counter, drift>>
    <3>1. Expected' = Expected
      <4>1. Expected' = Expected + (row'.stock - row.stock) + (Weight("none") - Weight(order[o]))
        BY <1>1, <2>1, <2>5, ExpectedMoves
      <4>2. Weight("none") = 0 /\ Weight(order[o]) = 0
        BY <1>2, <2>1, <2>5
      <4>3. row'.stock = row.stock
        BY <2>1, <2>5
      <4> QED BY <1>0, <1>1, <4>1, <4>2, <4>3
    <3>2. Accounted
      BY <1>0, <1>1, <2>5, <3>1, StillAccounted
    <3> QED BY <1>0, <2>1, <2>5, <3>2, LockStep DEF HoldStates
  <2> QED BY <1>14, <2>3, <2>4, <2>5 DEF restore_counter
<1>15. CASE restore_aborts(o)
  <2>1. order' = order /\ row' = row /\ incr_stock({"excess"})
    BY <1>15 DEF restore_aborts
  <2>2. Accounted
    BY <1>0, <1>1, <1>4, <2>1, IncrAccounted
  <2> QED BY <1>4, <2>1, <2>2
<1>16. CASE restore_stock(o)
  <2>1. /\ order[o] = "returning" /\ order' = [order EXCEPT ![o] = "none"]
        /\ row' = [row EXCEPT !.stock = row.stock + 1] /\ UNCHANGED <<counter, drift>>
    BY <1>16 DEF restore_stock
  <2>2. row'.stock = row.stock + 1
    BY <2>1 DEF ListingTypes, RowOK, Columns
  <2>3. Expected' = Expected
    <3>1. Expected' = Expected + (row'.stock - row.stock) + (Weight("none") - Weight(order[o]))
      BY <1>1, <2>1, <2>2, ExpectedMoves
    <3>2. Weight("none") = 0 /\ Weight(order[o]) = 1
      BY <1>2, <2>1, <2>2
    <3>3. row'.stock = row.stock + 1
      BY <2>1, <2>2
    <3> QED BY <1>0, <1>1, <3>1, <3>2, <3>3
  <2>4. Accounted
    BY <1>0, <1>1, <2>1, <2>3, StillAccounted
  <2>5. Holds(o)
    BY <2>1 DEF Holds, HoldStates
  <2>6. row.stock >= 0
    BY <1>0, <2>5 DEF LockInv
  <2> QED BY <1>0, <2>1, <2>4, <2>5, <2>6, LockStep DEF HoldStates
<1>17. CASE restore_fails(o)
  <2>1. /\ order[o] = "returning" /\ order' = [order EXCEPT ![o] = "deducted"]
        /\ row' = row /\ counter' = counter /\ drift' = drift \cup {"excess"}
    BY <1>17 DEF restore_fails
  <2>2. Expected' = Expected - 1
    <3>1. Expected' = Expected + (row'.stock - row.stock) + (Weight("deducted") - Weight(order[o]))
      BY <1>1, <2>1, ExpectedMoves
    <3>2. Weight("deducted") = 0 /\ Weight(order[o]) = 1
      BY <1>2, <2>1
    <3>3. row'.stock = row.stock
      BY <2>1
    <3> QED BY <1>0, <1>1, <3>1, <3>2, <3>3
  <2>3. Accounted
    BY <1>0, <1>1, <2>1, <2>2, StillAccounted
  <2> QED BY <1>0, <2>1, <2>3, LockStep DEF HoldStates
<1>18. CASE create_study_order(o)
  <2>1. /\ order[o] = "none" /\ order' = [order EXCEPT ![o] = "study"]
        /\ row' = row /\ UNCHANGED <<counter, drift>>
    BY <1>18 DEF create_study_order
  <2>2. Expected' = Expected
    <3>1. Expected' = Expected + (row'.stock - row.stock) + (Weight("study") - Weight(order[o]))
      BY <1>1, <2>1, ExpectedMoves
    <3>2. Weight("study") = 0 /\ Weight(order[o]) = 0
      BY <1>2, <2>1
    <3>3. row'.stock = row.stock
      BY <2>1
    <3> QED BY <1>0, <1>1, <3>1, <3>2, <3>3
  <2>3. Accounted
    BY <1>0, <1>1, <2>1, <2>2, StillAccounted
  <2> QED BY <1>0, <2>1, <2>3, LockStep DEF HoldStates
<1>19. CASE mock_pay(o)
  <2>1. /\ order[o] = "study" /\ ~Locked /\ order' = [order EXCEPT ![o] = "none"]
        /\ counter' = counter
    BY <1>19 DEF mock_pay
  <2>2. LockInv'
    BY <1>0, <2>1, LockStep DEF HoldStates
  <2>3. CASE UNCHANGED <<row, drift>>
    <3>1. Expected' = Expected
      <4>1. Expected' = Expected + (row'.stock - row.stock) + (Weight("none") - Weight(order[o]))
        BY <1>1, <2>1, <2>3, ExpectedMoves
      <4>2. Weight("none") = 0 /\ Weight(order[o]) = 0
        BY <1>2, <2>1, <2>3
      <4>3. row'.stock = row.stock
        BY <2>1, <2>3
      <4> QED BY <1>0, <1>1, <4>1, <4>2, <4>3
    <3> QED BY <1>0, <1>1, <2>1, <2>2, <2>3, <3>1, StillAccounted
  <2>4. CASE /\ row.stock > 0 /\ row' = [row EXCEPT !.stock = row.stock - 1]
             /\ drift' = drift \cup {"excess"}
    <3>1. row'.stock = row.stock - 1
      BY <2>4 DEF ListingTypes, RowOK, Columns
    <3>2. Expected' = Expected - 1
      <4>1. Expected' = Expected + (row'.stock - row.stock) + (Weight("none") - Weight(order[o]))
        BY <1>1, <2>1, <3>1, ExpectedMoves
      <4>2. Weight("none") = 0 /\ Weight(order[o]) = 0
        BY <1>2, <2>1, <3>1
      <4>3. row'.stock = row.stock - 1
        BY <2>1, <3>1
      <4> QED BY <1>0, <1>1, <4>1, <4>2, <4>3
    <3>3. Accounted
      BY <1>0, <1>1, <2>1, <2>4, <3>2, StillAccounted
    <3>4. row.stock >= 0
      BY <1>0, <2>4
    <3> QED BY <2>2, <3>3, <3>4
  <2> QED BY <1>19, <2>3, <2>4 DEF mock_pay
<1> QED BY <1>5, <1>6, <1>7, <1>8, <1>9, <1>10, <1>11, <1>12, <1>13, <1>14, <1>15,
           <1>16, <1>17, <1>18, <1>19 DEF OrderStep

\* Orders concern a product that exists.
LEMMA OrderOfProduct ==
  ASSUME ListingTypes, CounterInv, NEW o \in Orders, OrderStep(o)
  PROVE  listing = "product" /\ row.review # "absent"
<1>1. order[o] # "none" => listing = "product" /\ row.review # "absent"
  BY DEF CounterInv, Untouched
<1>2. order[o] = "none" => listing = "product" /\ Effective
  BY DEF OrderStep, _pre_deduct_stock, pre_deduct_breaks, _validate_products,
         rollback_redis_stock, rollback_fails, UnitLost, TakenStates, _persist_order,
         persist_fails, create_order, refresh_fails, restore_counter, restore_aborts,
         restore_stock, restore_fails, create_study_order, mock_pay
<1> QED BY <1>1, <1>2 DEF Effective, public_products

LEMMA CounterStep ==
  ASSUME ListingTypes, CounterInv, [ListingNext]_listingVars
  PROVE  CounterInv'
<1>0. /\ row.stock \in Int /\ counter \in Int /\ LockInv /\ Expected \in Int
  BY OrderSets DEF ListingTypes, RowOK, CounterInv, Expected
<1>1. ASSUME row'.stock = row.stock, row'.review = "absent" => row.review = "absent",
             UNCHANGED <<listing, counter, order, drift>>, NoSync' => NoSync
      PROVE  CounterInv'
  <2>1. Expected' = Expected
    BY <1>1, ExpectedStays
  <2>2. LockInv'
    BY <1>0, <1>1 DEF LockInv, Holds
  <2>3. CounterStraysForAReason'
    BY <1>1, <2>1 DEF CounterInv, CounterStraysForAReason, NoSync
  <2> QED BY <1>1, <2>2, <2>3 DEF CounterInv, Untouched
<1>2. CASE Creating
  <2>1. Untouched
    BY <1>2 DEF Creating, Absent, CounterInv
  <2>2. Untouched' /\ \A o \in Orders : ~Holds(o)'
    BY <1>2, <2>1 DEF Creating, stockVars, Untouched, Holds, HoldStates
  <2>3. counter' = None /\ counter' \in Int
    BY <1>0, <1>2, <2>1 DEF Untouched, Creating, stockVars
  <2> QED BY <2>2, <2>3 DEF CounterInv, LockInv, CounterStraysForAReason
<1>3. ASSUME NEW r \in Requests, Beginning(r)
      PROVE  CounterInv'
  <2>1. NoSync' => NoSync
    BY <1>3 DEF Beginning, NoSync, Idle
  <2> QED BY <1>1, <1>3, <2>1 DEF Beginning, stockVars
<1>4. ASSUME NEW r \in Requests, Commit(r)
      PROVE  CounterInv'
  <2>1. /\ ~Locked /\ UNCHANGED <<listing, counter, order, drift>>
        /\ \A o \in Orders : ~Holds(o) /\ ~Holds(o)'
    BY <1>4, CommitFacts, LockFacts DEF stockVars, Holds
  <2>2. NoSync' => NoSync /\ work'[r].pc # "sync"
    BY <1>4, CommitFacts DEF NoSync
  <2>3. row'.review = "absent" => row.review = "absent"
    <3>1. WorkOK(work[r]) /\ work[r].pc = "open" /\ RowOK(row)
      BY <1>4, CommitFacts DEF ListingTypes
    <3>2. /\ RowOK(work[r].was) /\ RowOK(work[r].new)
          /\ work[r].new.review # work[r].was.review => work[r].new.review # "absent"
      BY <3>1 DEF WorkOK
    <3>3. CASE row' = row
      BY <3>3
    <3>4. CASE row' = Flushed(work[r].was, work[r].new)
      BY <3>1, <3>2, <3>4, FlushedFacts
    <3> QED BY <1>4, <3>3, <3>4, CommitFacts
  <2>4. CASE row'.stock = row.stock
    BY <1>1, <2>1, <2>2, <2>3, <2>4
  <2>5. LockInv' /\ (listing' # "product" \/ row'.review = "absent" => Untouched')
    BY <2>1, <2>3 DEF LockInv, CounterInv, Untouched
  <2>6. CASE listing # "product"
    <3>1. counter' = None
      BY <2>1, <2>6 DEF CounterInv, Untouched
    <3> QED BY <1>0, <2>1, <2>5, <3>1 DEF CounterInv, CounterStraysForAReason
  <2>7. CASE row'.stock # row.stock /\ listing = "product"
    <3>1. row' # row /\ row' = Flushed(work[r].was, work[r].new)
      BY <1>4, <2>7, CommitFacts
    <3>2. WorkOK(work[r]) /\ work[r].pc = "open" /\ RowOK(row) /\ row'.stock \in Int
      BY <1>4, CommitFacts DEF ListingTypes, RowOK
    <3>3. work[r].new.stock # work[r].was.stock
      <4>1. RowOK(work[r].was) /\ RowOK(work[r].new)
        BY <3>2 DEF WorkOK
      <4> QED BY <2>7, <3>1, <3>2, <4>1, FlushedFacts
    <3>4. work[r].op \in {"edit", "revise"}
      BY <3>2, <3>3 DEF WorkOK
    <3>5. ~NoSync' \/ row'.stock < 0
      BY <1>4, <2>2, <2>7, <3>1, <3>4, CommitFacts
    <3>6. CounterStraysForAReason'
      BY <3>2, <3>5 DEF CounterStraysForAReason, NoSync
    <3> QED BY <1>0, <2>1, <2>5, <3>6 DEF CounterInv
  <2> QED BY <2>4, <2>6, <2>7
<1>5. ASSUME NEW r \in Requests, sync_stock(r) \/ sync_fails(r)
      PROVE  CounterInv'
  <2>1. UNCHANGED <<listing, row, order>> /\ work[r].stock \in Nat
    BY <1>5, SyncKinds DEF SyncEnds
  <2>2. /\ counter' \in Int /\ (counter = None => counter' = None)
        /\ counter # None => drift' = Strays(counter')
    BY <1>0, <1>5, <2>1 DEF sync_stock, sync_fails
  <2>3. Expected' = Expected
    BY <2>1, ExpectedStays
  <2>4. counter # None => Settles
    BY <2>2, <2>3, StraysFacts DEF Settles
  <2>5. CounterStraysForAReason'
    BY <2>2, <2>4 DEF CounterStraysForAReason, Settles
  <2>6. LockInv' /\ (listing' # "product" \/ row'.review = "absent" => Untouched')
    BY <1>0, <2>1, <2>2 DEF LockInv, Holds, CounterInv, Untouched
  <2> QED BY <2>2, <2>5, <2>6 DEF CounterInv
<1>6. ASSUME NEW o \in Orders, OrderStep(o)
      PROVE  CounterInv'
  <2>1. Accounted /\ LockInv' /\ (row'.stock >= 0 => row.stock >= 0)
    BY <1>6, OrderAccounted
  <2>2. /\ listing' = "product" /\ row'.review # "absent" /\ NoSync' => NoSync
        /\ listing' = "product" /\ row'.review # "absent"
        /\ row'.stock \in Int
    BY <1>6, OrderKinds, OrderOfProduct DEF Ordering, NoSync, RowOK
  <2>3. Expected' \in Int
    <3>1. /\ Cardinality(In(TakenStates)') \in Nat
          /\ Cardinality(In({"returning"})') \in Nat
      BY OrderSets
    <3> QED BY <2>2, <3>1 DEF Expected
  <2>4. ASSUME NoSync', counter' # None, row'.stock >= 0
        PROVE  Settles
    <3>1. CASE Carries
      <4>1. /\ counter < Expected => "short" \in drift'
            /\ counter > Expected => "excess" \in drift'
        BY <2>1, <2>2, <2>4, <3>1 DEF Carries, CounterInv, CounterStraysForAReason, NoSync
      <4>2. counter' \in Int
        BY <2>1 DEF Accounted
      <4>3. /\ counter' - counter < Expected' - Expected => "short" \in drift'
            /\ counter' - counter > Expected' - Expected => "excess" \in drift'
        BY <3>1 DEF Carries
      <4>4. /\ counter' < Expected' =>
                 counter' - counter < Expected' - Expected \/ counter < Expected
            /\ counter' > Expected' =>
                 counter' - counter > Expected' - Expected \/ counter > Expected
        <5>1. \A c, d, x, y \in Int :
                /\ d < y => d - c < y - x \/ c < x
                /\ d > y => d - c > y - x \/ c > x
          OBVIOUS
        <5> QED BY <1>0, <2>3, <4>2, <5>1
      <4> QED BY <4>1, <4>3, <4>4 DEF Settles
    <3> QED BY <2>1, <2>4, <3>1 DEF Accounted
  <2>5. CounterStraysForAReason'
    BY <2>4 DEF CounterStraysForAReason, Settles, NoSync
  <2> QED BY <2>1, <2>2, <2>5 DEF CounterInv, Accounted
<1>7. CASE RedisForgets
  <2>1. counter' = None /\ UNCHANGED <<listing, row, order>>
    BY <1>7 DEF RedisForgets, itemVars
  <2>2. counter' \in Int
    BY <2>1, StockAssumption DEF None
  <2> QED BY <1>0, <2>1, <2>2
         DEF CounterInv, Untouched, LockInv, Holds, CounterStraysForAReason
<1>8. CASE UNCHANGED listingVars
  BY <1>1, <1>8 DEF listingVars, NoSync
<1> QED BY <1>2, <1>3, <1>4, <1>5, <1>6, <1>7, <1>8, StepKinds DEF KindOfStep

\* With no edit on its way to it, the Redis counter shows the stock corrected by
\* the orders under way, except after an event that strays in that direction: for
\* any number of requests and orders, whatever fails and whatever overlaps.
THEOREM CounterStraysOnlyForAReason == ListingSpec => []CounterStraysForAReason
<1>1. ListingInit => CounterInv
  <2> SUFFICES ASSUME ListingInit PROVE CounterInv
    OBVIOUS
  <2>1. counter = None /\ counter \in Int
    BY StockAssumption DEF ListingInit, None
  <2> QED BY <2>1 DEF ListingInit, CounterInv, Untouched, LockInv, Holds, HoldStates,
                      CounterStraysForAReason
<1>2. CounterInv => CounterStraysForAReason
  BY DEF CounterInv
<1> QED BY <1>1, <1>2, ListingTypesInit, ListingTypeStep, CounterStep, PTL
     DEF ListingSpec
=============================================================================
