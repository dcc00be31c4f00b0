----------------------------- MODULE PointLedger -----------------------------
(***************************************************************************)
(* The points of one user account: the balance `user_accounts.points`, the *)
(* append-only `point_ledgers`, the expiring `point_lots` a credit opens   *)
(* and the `point_lot_allocations` that say which lots an expense drew on. *)
(*                                                                         *)
(* Every operation of PointService runs under a lock of the account row    *)
(* and commits with its caller: one step.  But a locking read does not     *)
(* refresh an object the session already holds, so a handler whose account *)
(* was loaded by authentication (or by the search for an inviter) starts   *)
(* from the balance of that moment.  Such a handler is two steps, Load and *)
(* the operation.  A third, Read, takes the snapshot of a transaction that *)
(* reads before it locks: the exchange sums the lots of that snapshot.     *)
(* Lots are first loaded by locking reads and are always current.          *)
(***************************************************************************)
EXTENDS Integers, FiniteSets, FiniteSetsExt, Functions

CONSTANTS
  Trips,       \* travel orders paid with points
  Purchases,   \* commerce orders that earn a reward
  Invites,     \* invitations that earn a reward
  Adjusts,     \* administrator adjustments
  Sessions,    \* sessions that loaded the account before locking it
  Legacy,      \* points held before the ledger was introduced
  Cost,        \* travel_routes.price
  Score,       \* points earned by a check-in, a purchase or an invitation
  Adjust,      \* points an adjustment adds or takes
  ValidDays,   \* point_rules.valid_days
  LastDay,     \* bound: the days of the calendar are 0..LastDay
  MaxLots      \* bound: lots ever opened

ASSUME EventsAssumption ==
  \A S \in {Trips, Purchases, Invites, Adjusts} : IsFiniteSet(S)
ASSUME AmountsAssumption ==
  /\ Legacy \in Nat
  /\ {Cost, Score, Adjust, ValidDays} \subseteq Nat \ {0}
  /\ {LastDay, MaxLots} \subseteq Nat

VARIABLES
  points,   \* user_accounts.points
  ledger,   \* signed amount of the row with each idempotency key, 0 when absent
  lots,     \* point_lots
  made,     \* lots opened so far: their ids are 1..made
  taken,    \* allocations of an expense not yet restored, per lot
  now,      \* the date
  req,      \* the sessions that hold an account object
  stale     \* history: some session has committed what it computed from
            \* a balance or from lots that had changed under it

vars == <<points, ledger, lots, made, taken, now, req, stale>>

Days == 0..LastDay
Lots == 1..MaxLots

\* expires_at of a lot without expiry: it sorts last and never comes.
Never == LastDay + ValidDays + 1

Opening == <<"opening", 0>>
CheckIn(d) == <<"checkin", d>>
Trip(t) == <<"trip", t>>
Refund(t) == <<"refund", t>>
Purchase(p) == <<"purchase", p>>
Revocation(p) == <<"revoke", p>>
Invite(i) == <<"invite", i>>
Adjustment(a) == <<"adjust", a>>
Expiry(l) == <<"expired", l>>

Spends == {Trip(t) : t \in Trips} \cup {Adjustment(a) : a \in Adjusts}

\* The idempotency keys, unique per user.
Keys == {Opening} \cup Spends
        \cup {CheckIn(d) : d \in Days} \cup {Refund(t) : t \in Trips}
        \cup {Purchase(p) : p \in Purchases}
        \cup {Revocation(p) : p \in Purchases}
        \cup {Invite(i) : i \in Invites} \cup {Expiry(l) : l \in Lots}

Lot == [src    : Keys,
        orig   : Nat,
        rem    : Nat,
        exp    : 0..Never,
        status : {"absent", "active", "consumed", "expired", "revoked"}]

NoLot == [src |-> Opening, orig |-> 0, rem |-> 0, exp |-> Never,
          status |-> "absent"]

OpenLot(k, amount, exp) ==
  [src |-> k, orig |-> amount, rem |-> amount, exp |-> exp,
   status |-> "active"]

Closed == [pc |-> "closed"]
Loaded == [pc : {"loaded"}, points : Nat]
Reading == [pc : {"reading"}, points : Nat, lots : [Lots -> Lot]]

TypeOK ==
  /\ points \in Nat
  /\ ledger \in [Keys -> Int]
  /\ lots \in [Lots -> Lot]
  /\ made \in 0..MaxLots
  /\ taken \in [Spends -> [Lots -> Nat]]
  /\ now \in Days
  /\ req \in [Sessions -> Loaded \cup Reading \cup {Closed}]
  /\ stale \in BOOLEAN

Init ==
  /\ points = Legacy
  /\ ledger = [k \in Keys |-> 0]
  /\ lots = [l \in Lots |-> NoLot]
  /\ made = 0
  /\ taken = [k \in Spends |-> [l \in Lots |-> 0]]
  /\ now = 0
  /\ req = [s \in Sessions |-> Closed]
  /\ stale = FALSE

-----------------------------------------------------------------------------
(* The lots a query selects and what they hold.                            *)

Live(L) == {l \in Lots : L[l].status = "active" /\ L[l].rem > 0}
Due == {l \in Live(lots) : lots[l].exp <= now}
Usable(L) == {l \in Live(L) : L[l].exp > now}
\* func.sum over the selected rows.
Total(f, S) == SumFunctionOnSet(f, S)

Held(L, S) == Total([l \in Lots |-> L[l].rem], S)

\* ORDER BY expires_at (nulls last), id.
Before(L, l, m) == L[l].exp < L[m].exp \/ (L[l].exp = L[m].exp /\ l < m)

\* What the greedy loop of a debit takes from lot l.
Draw(L, amount, l) ==
  IF l \notin Usable(L) THEN 0
  ELSE LET ahead == Held(L, {m \in Usable(L) : Before(L, m, l)})
       IN  Min({L[l].rem, Max({0, amount - ahead})})

-----------------------------------------------------------------------------
(* PointService.  `balance` is the points attribute of the account object  *)
(* the caller holds.                                                       *)

find_ledger(k) == ledger[k] # 0

\* Mutant: the credit opens no lot.
credit_without_lot(balance, k, amount) ==
  /\ ~find_ledger(k)
  /\ made < MaxLots
  /\ points' = balance + amount
  /\ ledger' = [ledger EXCEPT ![k] = amount]
  /\ UNCHANGED <<lots, made, taken, now>>

credit_locked(balance, k, amount) ==
  /\ ~find_ledger(k)
  /\ made < MaxLots
  /\ points' = balance + amount
  /\ ledger' = [ledger EXCEPT ![k] = amount]
  /\ lots' = [lots EXCEPT ![made + 1] = OpenLot(k, amount, now + ValidDays)]
  /\ made' = made + 1
  /\ UNCHANGED <<taken, now>>

\* Mutant: expired lots keep what remained in them.
expire_keeping_lots == lots

\* The due lots, emptied.
expired_lots ==
  [l \in Lots |-> IF l \in Due
                  THEN [lots[l] EXCEPT !.rem = 0, !.status = "expired"]
                  ELSE lots[l]]

\* The amount of the expiry row.  When it is 0 although lots are due, the
\* balance is 0 and neither caller commits.
Lapse(balance) == Min({Held(lots, Due), balance})

LapseKey == Expiry(Max(Due))

\* A row with the same max_lot_id makes the flush fail: IntegrityError.
expire_due_locked(balance) ==
  /\ Due # {}
  /\ Lapse(balance) > 0
  /\ ~find_ledger(LapseKey)

Lapsed(balance) == [ledger EXCEPT ![LapseKey] = -Lapse(balance)]

\* Points no usable lot stands for.
Missing(balance, seen) == balance - Held(seen, Usable(seen))

\* _ensure_lot_coverage inserts its row under a key used once per user.
_ensure_lot_coverage(balance, seen) ==
  Missing(balance, seen) > 0 => ~find_ledger(Opening) /\ made < MaxLots

\* Mutant: the draws are not taken off the lots.
drawn_without_lots(L, amount) == L

drawn(L, amount) ==
  [l \in Lots |->
     LET d == Draw(L, amount, l) IN
     [L[l] EXCEPT !.rem = @ - d,
                  !.status = IF d > 0 /\ L[l].rem = d THEN "consumed" ELSE @]]

\* Expiry, coverage, then the greedy draw.  `seen` are the lots of the
\* transaction's snapshot, on which coverage is computed; the lots drawn on
\* are read with a lock.
debit_locked(balance, seen, k, amount) ==
  LET before  == balance - Lapse(balance)
      missing == Missing(before, seen)
      opened  == IF missing > 0
                 THEN [expired_lots EXCEPT ![made + 1] =
                         OpenLot(Opening, missing, Never)]
                 ELSE expired_lots
      book1   == IF Due # {} THEN Lapsed(balance) ELSE ledger
      book2   == IF missing > 0 THEN [book1 EXCEPT ![Opening] = missing]
                                ELSE book1
  IN
  /\ ~find_ledger(k)
  /\ Due # {} => expire_due_locked(balance)
  /\ before >= amount
  /\ _ensure_lot_coverage(before, seen)
  /\ Held(opened, Usable(opened)) >= amount
  /\ points' = before - amount
  /\ ledger' = [book2 EXCEPT ![k] = -amount]
  /\ lots' = drawn(opened, amount)
  /\ made' = IF missing > 0 THEN made + 1 ELSE made
  /\ taken' = [taken EXCEPT ![k] = [l \in Lots |-> Draw(opened, amount, l)]]
  /\ UNCHANGED now

refund_locked(balance, t) ==
  LET back == taken[Trip(t)] IN
  /\ find_ledger(Trip(t))
  /\ ~find_ledger(Refund(t))
  /\ points' = balance - ledger[Trip(t)]
  /\ ledger' = [ledger EXCEPT ![Refund(t)] = -ledger[Trip(t)]]
  /\ lots' = [l \in Lots |->
                IF back[l] = 0 THEN lots[l]
                ELSE [lots[l] EXCEPT !.rem = @ + back[l], !.status = "active",
                                     !.exp = IF @ <= now THEN now + ValidDays
                                             ELSE @]]
  /\ taken' = [taken EXCEPT ![Trip(t)] = [l \in Lots |-> 0]]
  /\ UNCHANGED <<made, now>>

\* Takes back what is left of a purchase's reward.
revoke_credit_locked(p) ==
  \E l \in Lots :
    /\ lots[l].src = Purchase(p) /\ lots[l].status # "absent"
    /\ ~find_ledger(Revocation(p)) /\ lots[l].status # "revoked"
    /\ LET amount == Min({lots[l].rem, points}) IN
       /\ points' = points - amount
       /\ ledger' = [ledger EXCEPT ![Revocation(p)] = -amount]
       /\ lots' = [lots EXCEPT
                     ![l].rem = @ - amount,
                     ![l].status = IF amount \in {0, lots[l].rem}
                                   THEN "revoked" ELSE @]
       /\ UNCHANGED <<made, taken, now>>

-----------------------------------------------------------------------------
(* The handlers.                                                           *)

\* The account object enters the session's identity map.
Load(s) ==
  /\ req[s] = Closed
  /\ req' = [req EXCEPT ![s] = [pc |-> "loaded", points |-> points]]
  /\ UNCHANGED <<points, ledger, lots, made, taken, now, stale>>

\* The first plain read of the transaction fixes its snapshot.
Read(s) ==
  /\ req[s].pc = "loaded"
  /\ req' = [req EXCEPT ![s] = [pc |-> "reading", points |-> req[s].points,
                                lots |-> lots]]
  /\ UNCHANGED <<points, ledger, lots, made, taken, now, stale>>

\* An error response, an IntegrityError, or a request that changes nothing.
Abandon(s) ==
  /\ req[s] # Closed
  /\ req' = [req EXCEPT ![s] = Closed]
  /\ UNCHANGED <<points, ledger, lots, made, taken, now, stale>>

Done(s) ==
  /\ req' = [req EXCEPT ![s] = Closed]
  /\ stale' = (stale \/ req[s].points # points)

\* The profile row is locked first, so the day's record is seen.
study_check_in(s) ==
  /\ req[s].pc = "loaded"
  /\ credit_locked(req[s].points, CheckIn(now), Score)
  /\ Done(s)

\* Payment from the wallet: the payer was loaded by authentication.
pay_with_balance(s, p) ==
  /\ req[s].pc = "loaded"
  /\ credit_locked(req[s].points, Purchase(p), Score)
  /\ Done(s)

\* Settlement by the payment provider loads the account with its lock.
mark_paid(p) ==
  /\ credit_locked(points, Purchase(p), Score)
  /\ UNCHANGED <<req, stale>>

\* Binding, first login, approval and backfill load the inviter, then lock it.
invite_reward(s, i) ==
  /\ req[s].pc = "loaded"
  /\ credit_locked(req[s].points, Invite(i), Score)
  /\ Done(s)

exchange_travel_route(s, t) ==
  /\ req[s].pc = "reading"
  /\ debit_locked(req[s].points, req[s].lots, Trip(t), Cost)
  /\ req' = [req EXCEPT ![s] = Closed]
  /\ stale' = (stale \/ req[s].points # points
                     \/ Held(req[s].lots, Usable(req[s].lots))
                          # Held(lots, Usable(lots)))

cancel_my_travel_order(s, t) ==
  /\ req[s].pc = "loaded"
  /\ refund_locked(req[s].points, t)
  /\ Done(s)

admin_cancel_travel_order(t) ==
  /\ refund_locked(points, t)
  /\ UNCHANGED <<req, stale>>

refund_order(p) ==
  /\ revoke_credit_locked(p)
  /\ UNCHANGED <<req, stale>>

adjust_user_points(a) ==
  /\ ~find_ledger(Adjustment(a))
  /\ \/ credit_locked(points, Adjustment(a), Adjust)
     \/ debit_locked(points, lots, Adjustment(a), Adjust)
  /\ UNCHANGED <<req, stale>>

\* The invitation page expires what is due, with the balance authentication
\* loaded.
invite_dashboard(s) ==
  /\ req[s].pc = "loaded"
  /\ expire_due_locked(req[s].points)
  /\ points' = req[s].points - Lapse(req[s].points)
  /\ ledger' = Lapsed(req[s].points)
  /\ lots' = expired_lots
  /\ UNCHANGED <<made, taken, now>>
  /\ Done(s)

Tick ==
  /\ now < LastDay
  /\ now' = now + 1
  /\ UNCHANGED <<points, ledger, lots, made, taken, req, stale>>

Next ==
  \/ Tick
  \/ \E s \in Sessions :
       \/ Load(s) \/ Read(s) \/ Abandon(s)
       \/ study_check_in(s) \/ invite_dashboard(s)
       \/ \E p \in Purchases : pay_with_balance(s, p)
       \/ \E i \in Invites : invite_reward(s, i)
       \/ \E t \in Trips :
            exchange_travel_route(s, t) \/ cancel_my_travel_order(s, t)
  \/ \E p \in Purchases : mark_paid(p) \/ refund_order(p)
  \/ \E t \in Trips : admin_cancel_travel_order(t)
  \/ \E a \in Adjusts : adjust_user_points(a)

Spec == Init /\ [][Next]_vars

-----------------------------------------------------------------------------
(* Properties.                                                             *)

Outstanding(l) == Total([k \in Spends |-> taken[k][l]], Spends)

\* However credits, debits, refunds, expiry and revocations interleave, what
\* remains in a lot and what its unrestored allocations took never exceed
\* what was credited to it (the loops of debit_locked and refund_locked).
LotNeverOverspent ==
  \A l \in Lots : lots[l].rem + Outstanding(l) <= lots[l].orig

BookSum == Total(ledger, Keys)

\* However stale the balances sessions wrote, the balance is never negative
\* and lots never hold more than the ledger accounts for: expiry and
\* revocation, capped by the balance, may only take more from lots than they
\* book.
LotsBackedByLedger == points >= 0 /\ Held(lots, Lots) <= BookSum

\* As long as no session has committed a balance computed from a stale
\* account object, the balance is what the lots hold plus the historical
\* points no opening row covers yet, and it is what the ledger adds up to.
BooksBalanceUntilStaleWrite ==
  ~stale => LET unopened == IF find_ledger(Opening) THEN 0 ELSE Legacy
            IN  /\ points = Held(lots, Live(lots)) + unopened
                /\ points = BookSum + unopened

\* The expiry row of a set of lots is keyed by the largest id: if that key is
\* used, expiry fails, and with it every exchange and every visit of the
\* invitation page.  This happens only after a cancelled trip has put points
\* back into an expired lot.
ExpiryBlockedOnlyAfterRefund ==
  Due # {} /\ find_ledger(LapseKey) =>
    \E t \in Trips : find_ledger(Refund(t))
=============================================================================
