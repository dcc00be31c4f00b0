---------------------------- MODULE OrderCreation ----------------------------
(***************************************************************************)
(* OrderService.create_order step by step, with the Redis idempotency key, *)
(* the Redis stock counter and the MySQL row it races with, and the        *)
(* cancellation that gives stock back.  Requests with the same idempotency *)
(* key are retries of one purchase.  Every order takes Quantity of one     *)
(* product with finite stock.                                              *)
(*                                                                         *)
(* The product row is locked by _load_products and by the cancellation     *)
(* until their commit or rollback.  Redis is not part of that transaction: *)
(* its counter is changed before the commit, and restored after the        *)
(* rollback.  faulty records that a process died, the database refused a   *)
(* commit, or a Redis command failed, so that a property can speak of      *)
(* behaviours without such a fault.                                        *)
(***************************************************************************)
EXTENDS Integers, FiniteSets

CONSTANTS
  Requests,  \* calls of create_order
  Keys,      \* idempotency keys of the user
  Quantity,  \* quantity an order takes
  Stock0,    \* initial stock
  NoOne,     \* the product row is not locked
  Missing    \* the Redis stock key does not exist

ASSUME CreationAssumption ==
  /\ IsFiniteSet(Requests) /\ IsFiniteSet(Keys)
  /\ Requests \cap Keys = {}
  /\ NoOne \notin Requests \cup Keys
  /\ Missing \notin Int
  /\ Quantity \in Nat \ {0}
  /\ Stock0 \in Nat

VARIABLES
  stock,      \* study_products.stock
  row,        \* status of the order created under each key
  created,    \* number of orders inserted under each key
  lock,       \* who holds the product row: a request, or the key being canceled
  redis,      \* stock:study_product:<id>
  idem,       \* whether idem:order:<user>:<key> exists
  pc,         \* where each request is
  key,        \* its idempotency key
  deducted,   \* whether its list of Redis deductions is not empty
  conflict,   \* whether it is in the handler of the IntegrityError
  cancel,     \* the timeout job of each key's order
  faulty      \* whether a fault has happened

mysql == <<stock, row, created, lock>>
cache == <<redis, idem>>
vars == <<mysql, cache, pc, key, deducted, conflict, cancel, faulty>>

Places == {"idle", "checked", "reserved", "validated", "primed", "short",
           "deducted", "committed", "failing", "restoring", "unlocking", "done"}

TypeOK ==
  /\ stock \in Nat
  /\ row \in [Keys -> {"absent", "pending", "canceled"}]
  /\ created \in [Keys -> Nat]
  /\ lock \in Requests \cup Keys \cup {NoOne}
  /\ redis \in Int \cup {Missing}
  /\ idem \in [Keys -> BOOLEAN]
  /\ pc \in [Requests -> Places]
  /\ key \in [Requests -> Keys]
  /\ deducted \in [Requests -> BOOLEAN]
  /\ conflict \in [Requests -> BOOLEAN]
  /\ cancel \in [Keys -> {"none", "due", "restored", "ran"}]
  /\ faulty \in BOOLEAN

Init ==
  /\ stock = Stock0
  /\ row = [k \in Keys |-> "absent"]
  /\ created = [k \in Keys |-> 0]
  /\ lock = NoOne
  /\ redis = Missing
  /\ idem = [k \in Keys |-> FALSE]
  /\ pc = [r \in Requests |-> "idle"]
  /\ key \in [Requests -> Keys]
  /\ deducted = [r \in Requests |-> FALSE]
  /\ conflict = [r \in Requests |-> FALSE]
  /\ cancel = [k \in Keys |-> "none"]
  /\ faulty = FALSE

Goto(r, place) == pc' = [pc EXCEPT ![r] = place]

Unlocked(r) == IF lock = r THEN NoOne ELSE lock

\* INCRBY and DECRBY start from zero when the key does not exist.
Incr(amount) == IF redis = Missing THEN amount ELSE redis + amount

-----------------------------------------------------------------------------
(* create_order *)

\* get_order_by_idempotency_key: an existing order is returned.  Otherwise the
\* transaction's snapshot has no order for this key, so a result found in the
\* Redis cache afterwards names an order the session cannot see.
CheckDb(r) ==
  /\ pc[r] = "idle"
  /\ Goto(r, IF row[key[r]] = "absent" THEN "checked" ELSE "done")
  /\ UNCHANGED <<mysql, cache, key, deducted, conflict, cancel, faulty>>

\* redis.setnx of the idempotency key; a key that exists is a conflict.
ReserveKey(r) ==
  /\ pc[r] = "checked"
  /\ idem' = [idem EXCEPT ![key[r]] = TRUE]
  /\ Goto(r, IF idem[key[r]] THEN "done" ELSE "reserved")
  /\ UNCHANGED <<mysql, redis, key, deducted, conflict, cancel, faulty>>

\* _load_products locks the product row, _validate_products checks its stock.
LoadProducts(r) ==
  /\ pc[r] = "reserved"
  /\ lock = NoOne
  /\ lock' = r
  /\ Goto(r, IF stock < Quantity THEN "failing" ELSE "validated")
  /\ UNCHANGED <<stock, row, created, cache, key, deducted, conflict, cancel,
                 faulty>>

\* _pre_deduct_stock: set_stock_if_absent ...
PrimeStock(r) ==
  /\ pc[r] = "validated"
  /\ redis' = IF redis = Missing THEN stock ELSE redis
  /\ Goto(r, "primed")
  /\ UNCHANGED <<mysql, idem, key, deducted, conflict, cancel, faulty>>

\* ... then DECRBY, and the answer tells whether the counter was enough.
DecrStock(r) ==
  /\ pc[r] = "primed"
  /\ redis' = Incr(-Quantity)
  /\ deducted' = [deducted EXCEPT ![r] = TRUE]
  /\ Goto(r, IF Incr(-Quantity) < 0 THEN "short" ELSE "deducted")
  /\ UNCHANGED <<mysql, idem, key, conflict, cancel, faulty>>

\* The counter was too low: _rollback_redis_stock, then InsufficientStockError.
RollbackShort(r) ==
  /\ pc[r] = "short"
  /\ redis' = Incr(Quantity)
  /\ deducted' = [deducted EXCEPT ![r] = FALSE]
  /\ Goto(r, "failing")
  /\ UNCHANGED <<mysql, idem, key, conflict, cancel, faulty>>

\* Mutant: commerce_orders without its unique (user_id, idempotency_key).
PersistOrderDuplicate(r) ==
  /\ pc[r] = "deducted"
  /\ row' = [row EXCEPT ![key[r]] = "pending"]
  /\ created' = [created EXCEPT ![key[r]] = @ + 1]
  /\ stock' = stock - Quantity
  /\ lock' = NoOne
  /\ Goto(r, "committed")
  /\ UNCHANGED <<cache, key, deducted, conflict, cancel, faulty>>

\* _persist_order: INSERT, stock deduction and commit; the unique constraint on
\* (user_id, idempotency_key) turns a second order into an IntegrityError.
PersistOrder(r) ==
  /\ pc[r] = "deducted"
  /\ \/ /\ row[key[r]] = "absent"
        /\ row' = [row EXCEPT ![key[r]] = "pending"]
        /\ created' = [created EXCEPT ![key[r]] = @ + 1]
        /\ stock' = stock - Quantity
        /\ lock' = NoOne
        /\ Goto(r, "committed")
        /\ UNCHANGED conflict
     \/ /\ row[key[r]] # "absent"
        /\ conflict' = [conflict EXCEPT ![r] = TRUE]
        /\ Goto(r, "failing")
        /\ UNCHANGED mysql
  /\ UNCHANGED <<cache, key, deducted, cancel, faulty>>

\* The result is cached and the timeout job enqueued, or the queue refuses it;
\* the idempotency key stays until its TTL.
Finish(r) ==
  /\ pc[r] = "committed"
  /\ cancel' \in {cancel, [cancel EXCEPT ![key[r]] = "due"]}
  /\ Goto(r, "done")
  /\ UNCHANGED <<mysql, cache, key, deducted, conflict, faulty>>

\* Mutant: the transaction stays open.
RollbackMissing(r) ==
  /\ pc[r] = "failing"
  /\ Goto(r, "restoring")
  /\ UNCHANGED <<mysql, cache, key, deducted, conflict, cancel, faulty>>

\* The exception handlers: db.rollback releases the product row ...
Rollback(r) ==
  /\ pc[r] = "failing"
  /\ lock' = Unlocked(r)
  /\ Goto(r, "restoring")
  /\ UNCHANGED <<stock, row, created, cache, key, deducted, conflict, cancel,
                 faulty>>

\* Mutant: the failed request keeps its Redis deduction.
RestoreStockMissing(r) ==
  /\ pc[r] = "restoring"
  /\ Goto(r, "unlocking")
  /\ UNCHANGED <<mysql, cache, key, deducted, conflict, cancel, faulty>>

\* ... _rollback_redis_stock gives the deduction back ...
RestoreStock(r) ==
  /\ pc[r] = "restoring"
  /\ redis' = IF deducted[r] THEN Incr(Quantity) ELSE redis
  /\ deducted' = [deducted EXCEPT ![r] = FALSE]
  /\ Goto(r, "unlocking")
  /\ UNCHANGED <<mysql, idem, key, conflict, cancel, faulty>>

\* Mutant: the key is left to its TTL.
ReleaseKeyMissing(r) ==
  /\ pc[r] = "unlocking"
  /\ Goto(r, "done")
  /\ UNCHANGED <<mysql, cache, key, deducted, conflict, cancel, faulty>>

\* ... and the idempotency key is deleted, whoever holds it by now.  The handler
\* of the IntegrityError then reads user.id, which the rollback has expired;
\* that raises in turn, and the outer handler does the same once more.
ReleaseKey(r) ==
  /\ pc[r] = "unlocking"
  /\ idem' = [idem EXCEPT ![key[r]] = FALSE]
  /\ Goto(r, IF conflict[r] THEN "failing" ELSE "done")
  /\ conflict' = [conflict EXCEPT ![r] = FALSE]
  /\ UNCHANGED <<mysql, redis, key, deducted, cancel, faulty>>

-----------------------------------------------------------------------------
(* cancel_unpaid_order, run once by the timeout job, which holds the order *)

\* The product row is locked and Redis is restored before the commit ...
CancelBegin(k) ==
  /\ cancel[k] = "due"
  /\ row[k] = "pending"
  /\ lock = NoOne
  /\ lock' = k
  /\ redis' = Incr(Quantity)
  /\ cancel' = [cancel EXCEPT ![k] = "restored"]
  /\ UNCHANGED <<stock, row, created, idem, pc, key, deducted, conflict, faulty>>

\* Mutant: only Redis gets the stock back.
CancelCommitRedisOnly(k) ==
  /\ cancel[k] = "restored"
  /\ row' = [row EXCEPT ![k] = "canceled"]
  /\ lock' = NoOne
  /\ cancel' = [cancel EXCEPT ![k] = "ran"]
  /\ UNCHANGED <<stock, created, cache, pc, key, deducted, conflict, faulty>>

\* ... which cancels the order and restores the database.
CancelCommit(k) ==
  /\ cancel[k] = "restored"
  /\ row' = [row EXCEPT ![k] = "canceled"]
  /\ stock' = stock + Quantity
  /\ lock' = NoOne
  /\ cancel' = [cancel EXCEPT ![k] = "ran"]
  /\ UNCHANGED <<created, cache, pc, key, deducted, conflict, faulty>>

-----------------------------------------------------------------------------
(* Time and faults *)

\* The idempotency key reaches its TTL.
KeyExpires(k) ==
  /\ idem[k]
  /\ idem' = [idem EXCEPT ![k] = FALSE]
  /\ UNCHANGED <<mysql, redis, pc, key, deducted, conflict, cancel, faulty>>

\* The process of request r dies; MySQL releases its locks.
Crash(r) ==
  /\ pc[r] \notin {"idle", "done"}
  /\ lock' = Unlocked(r)
  /\ Goto(r, "done")
  /\ faulty' = TRUE
  /\ UNCHANGED <<stock, row, created, cache, key, deducted, conflict, cancel>>

\* MySQL refuses the transaction, or fails after its commit at db.refresh:
\* both reach the exception handlers.
DatabaseFails(r) ==
  /\ pc[r] \in {"reserved", "deducted", "committed"}
  /\ Goto(r, "failing")
  /\ faulty' = TRUE
  /\ UNCHANGED <<mysql, cache, key, deducted, conflict, cancel>>

\* A Redis command raises a redis-py error, executed or not.  setnx turns it
\* into RedisUnavailableError and the request ends.  The stock commands do not,
\* so only the outermost handler sees the error, with the deduction list as it
\* was; an error inside that handler ends the request.
RedisFails(r) ==
  /\ \/ /\ pc[r] = "checked"
        /\ idem' \in {idem, [idem EXCEPT ![key[r]] = TRUE]}
        /\ redis' = redis
        /\ Goto(r, "done")
     \/ /\ pc[r] = "validated"
        /\ redis' \in {redis, IF redis = Missing THEN stock ELSE redis}
        /\ idem' = idem
        /\ Goto(r, "failing")
     \/ /\ pc[r] = "primed"
        /\ redis' \in {redis, Incr(-Quantity)}
        /\ idem' = idem
        /\ Goto(r, "failing")
     \/ /\ pc[r] = "short"
        /\ redis' \in {redis, Incr(Quantity)}
        /\ idem' = idem
        /\ Goto(r, "failing")
     \/ /\ pc[r] = "restoring" /\ deducted[r]
        /\ redis' \in {redis, Incr(Quantity)}
        /\ idem' = idem
        /\ Goto(r, IF conflict[r] THEN "failing" ELSE "done")
     \/ /\ pc[r] = "unlocking"
        /\ redis' = redis
        /\ idem' \in {idem, [idem EXCEPT ![key[r]] = FALSE]}
        /\ Goto(r, IF conflict[r] THEN "failing" ELSE "done")
  /\ conflict' = [conflict EXCEPT ![r] = FALSE]
  /\ faulty' = TRUE
  /\ UNCHANGED <<mysql, key, deducted, cancel>>

\* The cancellation's transaction does not commit; Redis keeps what it got.
CancelFails(k) ==
  /\ cancel[k] = "restored"
  /\ lock' = NoOne
  /\ cancel' = [cancel EXCEPT ![k] = "ran"]
  /\ faulty' = TRUE
  /\ UNCHANGED <<stock, row, created, cache, pc, key, deducted, conflict>>

\* Redis restarts empty.
RedisRestarts ==
  /\ redis # Missing
  /\ redis' = Missing
  /\ idem' = [k \in Keys |-> FALSE]
  /\ faulty' = TRUE
  /\ UNCHANGED <<mysql, pc, key, deducted, conflict, cancel>>

-----------------------------------------------------------------------------
RequestStep(r) ==
  \/ CheckDb(r) \/ ReserveKey(r) \/ LoadProducts(r) \/ PrimeStock(r)
  \/ DecrStock(r) \/ RollbackShort(r) \/ PersistOrder(r) \/ Finish(r)
  \/ Rollback(r) \/ RestoreStock(r) \/ ReleaseKey(r)

Fault ==
  \/ \E r \in Requests : Crash(r) \/ DatabaseFails(r) \/ RedisFails(r)
  \/ \E k \in Keys : CancelFails(k)
  \/ RedisRestarts

Next ==
  \/ \E r \in Requests : RequestStep(r)
  \/ \E k \in Keys : CancelBegin(k) \/ CancelCommit(k) \/ KeyExpires(k)
  \/ Fault

Spec == Init /\ [][Next]_vars

\* A request or a cancellation that can take its next step takes it.
FairSpec == /\ Spec
            /\ \A r \in Requests : WF_vars(RequestStep(r))
            /\ \A k \in Keys : WF_vars(CancelCommit(k))

-----------------------------------------------------------------------------
(* Properties *)

\* Retries under one idempotency key create one order, whatever becomes of the
\* Redis key: expired, deleted by another request, or lost with Redis.
OneOrderPerKey == \A k \in Keys : created[k] <= 1

\* At most one transaction works on the product row, and it is the one that
\* holds the lock; this is what makes check, deduction and commit one step.
RowLockHeld ==
  /\ \A r \in Requests :
       pc[r] \in {"validated", "primed", "short", "deducted"} => lock = r
  /\ \A k \in Keys : cancel[k] = "restored" => lock = k

InFlight == {r \in Requests : deducted[r] /\ pc[r] \notin {"committed", "done"}}
Restored == {k \in Keys : cancel[k] = "restored"}

\* Without a fault the Redis counter is the database's stock, less what
\* requests have deducted and not committed or returned, plus what
\* cancellations have restored and not committed.
RedisAligned ==
  ~faulty /\ redis # Missing =>
    redis = stock + Quantity * (Cardinality(Restored) - Cardinality(InFlight))

\* Without a fault a key that still blocks retries belongs to an order or to a
\* request in progress: a failed request can be retried at once.
KeyBlocksForAReason ==
  ~faulty => \A k \in Keys :
    idem[k] => \/ row[k] # "absent"
               \/ \E r \in Requests : key[r] = k /\ pc[r] \notin {"idle", "done"}

\* Every request ends and the product row is released in the end, faults or not.
RequestsEnd ==
  <>[](lock = NoOne /\ \A r \in Requests : pc[r] = "done")

\* In the database, creation and cancellation keep the purchase contract.
Contract ==
  INSTANCE PurchaseContract WITH
    Orders    <- Keys,
    VipOrders <- {},
    Price     <- 0,
    Balance0  <- 0,
    state     <- row,
    charged   <- [k \in Keys |-> 0],
    access    <- [k \in Keys |-> 0],
    held      <- [k \in Keys |-> row[k] = "pending"],
    shelf     <- stock,
    wallet    <- 0,
    periods   <- 0

\* Every step of creation is a step of the contract or invisible to it: an
\* order takes its stock when it appears and returns it when it is canceled.
KeepsContract == Contract!Spec
=============================================================================
