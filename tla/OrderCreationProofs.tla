------------------------- MODULE OrderCreationProofs -------------------------
(***************************************************************************)
(* For any number of requests, keys and any stock: OrderCreation keeps one *)
(* order per idempotency key and the product row's lock, never sells stock *)
(* it does not have, keeps Redis aligned while nothing fails, and          *)
(* implements PurchaseContract.                                            *)
(***************************************************************************)
EXTENDS OrderCreation, FiniteSetTheorems, TLAPS

\* Places between the locking read of the product and the commit.
Working == {"validated", "primed", "short", "deducted"}

\* The stock a request checked is still there when it deducts it.
StockSuffices == \A r \in Requests : pc[r] \in Working => stock >= Quantity

\* Orders are counted where they are: one per key that has a row.
CreatedCounts ==
  \A k \in Keys : created[k] = IF row[k] = "absent" THEN 0 ELSE 1

\* A request past its commit has an order, whose timeout job is not enqueued
\* yet; a cancellation holds a pending one.
RowsBehind ==
  /\ \A r \in Requests :
       pc[r] = "committed" => row[key[r]] # "absent" /\ cancel[key[r]] = "none"
  /\ \A r, q \in Requests :
       pc[r] = "committed" /\ pc[q] = "committed" /\ key[r] = key[q] => r = q
  /\ \A k \in Keys : row[k] = "absent" => cancel[k] = "none"
  /\ \A k \in Keys : cancel[k] = "restored" => row[k] = "pending"

\* The list of Redis deductions says whether DECRBY has been answered, and is
\* empty once _rollback_redis_stock has returned.
DeductionsTold ==
  \A r \in Requests :
    /\ pc[r] \in {"idle", "checked", "reserved", "validated", "primed", "unlocking"}
         => ~deducted[r]
    /\ pc[r] \in {"short", "deducted"} => deducted[r]

Core == TypeOK /\ RowLockHeld /\ StockSuffices /\ CreatedCounts /\ RowsBehind
        /\ DeductionsTold

\* Without a fault the stock key exists from the first deduction on.
PrimedBefore ==
  redis = Missing =>
    /\ \A k \in Keys : row[k] = "absent"
    /\ \A r \in Requests : pc[r] # "primed"
    /\ InFlight = {}

\* A key that blocks is held by an order or by a request that has reserved it.
KeyHeld ==
  \A k \in Keys :
    idem[k] => \/ row[k] # "absent"
               \/ \E r \in Requests : /\ key[r] = k
                                      /\ pc[r] \notin {"idle", "checked", "done"}

FaultFree == ~faulty => PrimedBefore /\ RedisAligned /\ KeyHeld

IInv == Core /\ FaultFree

-----------------------------------------------------------------------------
(* The core: types, locks, stock and rows *)

\* No request, no lock, no order: the core holds at the start.
LEMMA CoreInit == Init => Core
<1> SUFFICES ASSUME Init PROVE Core
  OBVIOUS
<1>1. TypeOK
  BY CreationAssumption DEF Init, TypeOK, Places
<1>2. RowLockHeld /\ StockSuffices
  BY DEF Init, RowLockHeld, StockSuffices, Working
<1>3. CreatedCounts /\ RowsBehind /\ DeductionsTold
  BY DEF Init, CreatedCounts, RowsBehind, DeductionsTold
<1>4. QED
  BY <1>1, <1>2, <1>3 DEF Core

\* One step per action of a request: what it does to rows, lock and stock.
LEMMA CoreRequest ==
  ASSUME Core, NEW r \in Requests, RequestStep(r)
  PROVE  Core'
<1> USE CreationAssumption DEF Core, TypeOK, RowLockHeld, StockSuffices,
        CreatedCounts, RowsBehind, DeductionsTold, Places, Working,
        Goto, Incr, Unlocked, mysql, cache
<1>1. CASE CheckDb(r)
  BY <1>1 DEF CheckDb
<1>2. CASE ReserveKey(r)
  BY <1>2 DEF ReserveKey
<1>3. CASE LoadProducts(r)
  BY <1>3 DEF LoadProducts
<1>4. CASE PrimeStock(r)
  BY <1>4 DEF PrimeStock
<1>5. CASE DecrStock(r)
  BY <1>5 DEF DecrStock
<1>6. CASE RollbackShort(r)
  BY <1>6 DEF RollbackShort
<1>7. CASE PersistOrder(r)
  <2>1. TypeOK'
    <3>1. stock - Quantity \in Nat /\ created[key[r]] + 1 \in Nat
      BY <1>7 DEF PersistOrder
    <3>2. /\ row' \in [Keys -> {"absent", "pending", "canceled"}]
          /\ created' \in [Keys -> Nat]
          /\ stock' \in Nat
      BY <1>7, <3>1 DEF PersistOrder
    <3>3. /\ lock' \in Requests \cup Keys \cup {NoOne}
          /\ pc' \in [Requests -> Places]
          /\ conflict' \in [Requests -> BOOLEAN]
      BY <1>7 DEF PersistOrder
    <3>4. QED
      BY <1>7, <3>2, <3>3 DEF PersistOrder
  <2>2. RowLockHeld' /\ StockSuffices'
    BY <1>7 DEF PersistOrder
  <2>3. CreatedCounts'
    BY <1>7 DEF PersistOrder
  <2>4. RowsBehind' /\ DeductionsTold'
    BY <1>7 DEF PersistOrder
  <2>5. QED
    BY <2>1, <2>2, <2>3, <2>4
<1>8. CASE Finish(r)
  BY <1>8 DEF Finish
<1>9. CASE Rollback(r)
  BY <1>9 DEF Rollback
<1>10. CASE RestoreStock(r)
  BY <1>10 DEF RestoreStock
<1>11. CASE ReleaseKey(r)
  BY <1>11 DEF ReleaseKey
<1>12. QED
  BY <1>1, <1>2, <1>3, <1>4, <1>5, <1>6, <1>7, <1>8, <1>9, <1>10, <1>11
     DEF RequestStep

\* The same for the cancellation and the expiry of a key.
LEMMA CoreCancel ==
  ASSUME Core, NEW k \in Keys, CancelBegin(k) \/ CancelCommit(k) \/ KeyExpires(k)
  PROVE  Core'
<1> USE CreationAssumption DEF Core, TypeOK, RowLockHeld, StockSuffices,
        CreatedCounts, RowsBehind, DeductionsTold, Working, Incr, mysql, cache
<1>1. CASE CancelBegin(k)
  BY <1>1 DEF CancelBegin
<1>2. CASE CancelCommit(k)
  BY <1>2 DEF CancelCommit
<1>3. CASE KeyExpires(k)
  BY <1>3 DEF KeyExpires
<1>4. QED
  BY <1>1, <1>2, <1>3

\* Faults lose steps, never locks that are still needed, rows or stock.
LEMMA CoreFault ==
  ASSUME Core, Fault
  PROVE  Core'
<1> USE CreationAssumption DEF Core, TypeOK, RowLockHeld, StockSuffices,
        CreatedCounts, RowsBehind, DeductionsTold, Places, Working,
        Goto, Incr, Unlocked, mysql, cache
<1>1. ASSUME NEW r \in Requests, Crash(r) PROVE Core'
  BY <1>1 DEF Crash
<1>2. ASSUME NEW r \in Requests, DatabaseFails(r) PROVE Core'
  BY <1>2 DEF DatabaseFails
<1>3. ASSUME NEW r \in Requests, RedisFails(r) PROVE Core'
  <2>1. /\ redis' \in Int \cup {Missing}
        /\ idem' \in [Keys -> BOOLEAN]
    <3>1. redis' \in {redis, Incr(-Quantity), Incr(Quantity), stock}
      BY <1>3 DEF RedisFails
    <3>2. idem' \in {idem, [idem EXCEPT ![key[r]] = TRUE],
                     [idem EXCEPT ![key[r]] = FALSE]}
      BY <1>3 DEF RedisFails
    <3>3. redis' \in Int \cup {Missing}
      BY <3>1
    <3>4. idem' \in [Keys -> BOOLEAN]
      BY <3>2
    <3>5. QED
      BY <3>3, <3>4
  <2>2. /\ pc' \in [Requests -> Places]
        /\ conflict' \in [Requests -> BOOLEAN]
        /\ \A q \in Requests : q # r => pc'[q] = pc[q]
        /\ pc'[r] \in {"done", "failing"}
    <3>1. Goto(r, "done") \/ Goto(r, "failing")
      BY <1>3 DEF RedisFails
    <3>2. conflict' = [conflict EXCEPT ![r] = FALSE]
      BY <1>3 DEF RedisFails
    <3>3. QED
      BY <3>1, <3>2
  <2>3. UNCHANGED <<stock, row, created, lock, key, deducted, cancel>> /\ faulty' = TRUE
    BY <1>3 DEF RedisFails
  <2>4. QED
    BY <2>1, <2>2, <2>3
<1>4. ASSUME NEW k \in Keys, CancelFails(k) PROVE Core'
  BY <1>4 DEF CancelFails
<1>5. CASE RedisRestarts
  BY <1>5 DEF RedisRestarts
<1>6. QED
  BY <1>1, <1>2, <1>3, <1>4, <1>5 DEF Fault

\* Every step of create_order, the cancellation and the faults keeps the core.
LEMMA CoreStep == Core /\ [Next]_vars => Core'
<1>1. CASE UNCHANGED vars
  BY <1>1 DEF vars, mysql, cache, Core, TypeOK, RowLockHeld, StockSuffices,
     CreatedCounts, RowsBehind, DeductionsTold
<1>2. QED
  BY <1>1, CoreRequest, CoreCancel, CoreFault DEF Next

\* The variables of create_order keep their types; in particular the product's
\* stock never falls below zero.
THEOREM TypeCorrect == Spec => []TypeOK
<1>1. Core => TypeOK
  BY DEF Core
<1>2. QED
  BY CoreInit, CoreStep, <1>1, PTL DEF Spec

\* Retries of one purchase create one order, whatever happens to the Redis key.
THEOREM RetriesCreateOneOrder == Spec => []OneOrderPerKey
<1>1. Core => OneOrderPerKey
  BY DEF Core, CreatedCounts, OneOrderPerKey
<1>2. QED
  BY CoreInit, CoreStep, <1>1, PTL DEF Spec

\* Only the holder of the product row works on it, crashes included.
THEOREM WorkIsLocked == Spec => []RowLockHeld
<1>1. Core => RowLockHeld
  BY DEF Core
<1>2. QED
  BY CoreInit, CoreStep, <1>1, PTL DEF Spec

-----------------------------------------------------------------------------
(* Without faults: the Redis counter and the idempotency keys *)

\* The stock key and the idempotency keys do not exist at the start.
LEMMA FaultFreeInit == Init => FaultFree
<1> SUFFICES ASSUME Init PROVE FaultFree
  OBVIOUS
<1>1. InFlight = {}
  BY DEF Init, InFlight
<1>2. QED
  BY <1>1 DEF Init, FaultFree, PrimedBefore, RedisAligned, KeyHeld

\* Deductions in flight and cancellations in progress can be counted.
LEMMA Counted ==
  ASSUME TypeOK
  PROVE  /\ IsFiniteSet(InFlight) /\ Cardinality(InFlight) \in Nat
         /\ IsFiniteSet(Restored) /\ Cardinality(Restored) \in Nat
<1>1. InFlight \subseteq Requests /\ Restored \subseteq Keys
  BY DEF InFlight, Restored
<1>2. QED
  BY <1>1, CreationAssumption, FS_Subset, FS_CardinalityType

\* One more or one less of a set of requests or cancellations.
LEMMA Shift ==
  \A q, a, b \in Int : /\ q * (a - (b + 1)) = q * (a - b) - q
                       /\ q * (a - (b - 1)) = q * (a - b) + q
                       /\ q * ((a + 1) - b) = q * (a - b) + q
                       /\ q * ((a - 1) - b) = q * (a - b) - q
  OBVIOUS

\* A step that changes none of the counters' arguments.
LEMMA AlignedFrame ==
  ASSUME RedisAligned, faulty' = faulty, redis' = redis, stock' = stock,
         InFlight' = InFlight, Restored' = Restored
  PROVE  RedisAligned'
  BY DEF RedisAligned

\* The request's deduction enters the counter when DECRBY is answered, and
\* leaves it with the commit or with the answer to INCRBY.
LEMMA AlignedRequest ==
  ASSUME Core, ~faulty, PrimedBefore, RedisAligned, NEW r \in Requests,
         RequestStep(r)
  PROVE  RedisAligned'
<1> USE DEF Core, Goto, mysql, cache
<1>a. /\ pc \in [Requests -> Places] /\ deducted \in [Requests -> BOOLEAN]
      /\ stock \in Int /\ Quantity \in Int /\ redis \in Int \cup {Missing}
      /\ Missing \notin Int
  BY CreationAssumption DEF TypeOK
<1>b. /\ IsFiniteSet(InFlight) /\ Cardinality(InFlight) \in Int
      /\ Cardinality(Restored) \in Int
  BY Counted
<1>1. CASE CheckDb(r)
  <2>1. InFlight' = InFlight /\ Restored' = Restored
    BY <1>1, <1>a DEF CheckDb, InFlight, Restored, DeductionsTold
  <2>2. QED
    BY <2>1, <1>1, AlignedFrame DEF CheckDb
<1>2. CASE ReserveKey(r)
  <2>1. InFlight' = InFlight /\ Restored' = Restored
    BY <1>2, <1>a DEF ReserveKey, InFlight, Restored, DeductionsTold
  <2>2. QED
    BY <2>1, <1>2, AlignedFrame DEF ReserveKey
<1>3. CASE LoadProducts(r)
  <2>1. InFlight' = InFlight /\ Restored' = Restored
    BY <1>3, <1>a DEF LoadProducts, InFlight, Restored, DeductionsTold
  <2>2. QED
    BY <2>1, <1>3, AlignedFrame DEF LoadProducts
<1>4. CASE PrimeStock(r)
  <2>1. InFlight' = InFlight /\ Restored' = Restored
    BY <1>4, <1>a DEF PrimeStock, InFlight, Restored, DeductionsTold
  <2>2. CASE redis # Missing
    BY <2>1, <2>2, <1>4, AlignedFrame DEF PrimeStock
  <2>3. CASE redis = Missing
    <3>1. InFlight = {} /\ Restored = {}
      BY <2>3 DEF PrimedBefore, RowsBehind, Restored
    <3>2. Cardinality(InFlight) = 0 /\ Cardinality(Restored) = 0
      BY <3>1, FS_EmptySet
    <3>3. redis' = stock /\ stock' = stock
      BY <1>4, <2>3 DEF PrimeStock
    <3>4. QED
      BY <2>1, <3>2, <3>3, <1>a DEF RedisAligned
  <2>4. QED
    BY <2>2, <2>3
<1>5. CASE DecrStock(r)
  <2>1. InFlight' = InFlight \cup {r} /\ r \notin InFlight /\ Restored' = Restored
    BY <1>5, <1>a DEF DecrStock, InFlight, Restored, DeductionsTold
  <2>2. Cardinality(InFlight') = Cardinality(InFlight) + 1
    BY <2>1, <1>b, FS_AddElement
  <2>3. redis # Missing /\ redis' = redis - Quantity /\ stock' = stock
    BY <1>5, <1>a DEF DecrStock, PrimedBefore, Incr
  <2>4. QED
    BY <2>1, <2>2, <2>3, <1>a, <1>b, Shift DEF RedisAligned
<1>6. CASE RollbackShort(r)
  <2>1. InFlight' = InFlight \ {r} /\ r \in InFlight /\ Restored' = Restored
    BY <1>6, <1>a DEF RollbackShort, InFlight, Restored, DeductionsTold
  <2>2. Cardinality(InFlight') = Cardinality(InFlight) - 1
    BY <2>1, <1>b, FS_RemoveElement
  <2>3. redis # Missing /\ redis' = redis + Quantity /\ stock' = stock
    BY <1>6, <1>a, <2>1 DEF RollbackShort, PrimedBefore, Incr
  <2>4. QED
    BY <2>1, <2>2, <2>3, <1>a, <1>b, Shift DEF RedisAligned
<1>7. CASE PersistOrder(r)
  <2>1. CASE row[key[r]] # "absent"
    <3>1. InFlight' = InFlight /\ Restored' = Restored
      BY <1>7, <2>1, <1>a DEF PersistOrder, InFlight, Restored, DeductionsTold
    <3>2. QED
      BY <3>1, <1>7, <2>1, AlignedFrame DEF PersistOrder
  <2>2. CASE row[key[r]] = "absent"
    <3>1. InFlight' = InFlight \ {r} /\ r \in InFlight /\ Restored' = Restored
      BY <1>7, <2>2, <1>a DEF PersistOrder, InFlight, Restored, DeductionsTold
    <3>2. Cardinality(InFlight') = Cardinality(InFlight) - 1
      BY <3>1, <1>b, FS_RemoveElement
    <3>3. redis # Missing /\ redis' = redis /\ stock' = stock - Quantity
      BY <1>7, <2>2, <1>a, <3>1 DEF PersistOrder, PrimedBefore
    <3>4. QED
      BY <3>1, <3>2, <3>3, <1>a, <1>b, Shift DEF RedisAligned
  <2>3. QED
    BY <2>1, <2>2
<1>8. CASE Finish(r)
  <2>1. InFlight' = InFlight /\ Restored' = Restored
    <3>1. InFlight' = InFlight
      BY <1>8, <1>a DEF Finish, InFlight
    <3>2. /\ key[r] \in Keys /\ cancel[key[r]] = "none"
          /\ cancel \in [Keys -> {"none", "due", "restored", "ran"}]
      BY <1>8 DEF Finish, RowsBehind, TypeOK
    <3>3. \A k \in Keys : cancel'[k] = "restored" <=> cancel[k] = "restored"
      BY <3>2, <1>8 DEF Finish
    <3>4. QED
      BY <3>1, <3>3 DEF Restored
  <2>2. QED
    BY <2>1, <1>8, AlignedFrame DEF Finish
<1>9. CASE Rollback(r)
  <2>1. InFlight' = InFlight /\ Restored' = Restored
    BY <1>9, <1>a DEF Rollback, InFlight, Restored
  <2>2. QED
    BY <2>1, <1>9, AlignedFrame DEF Rollback
<1>10. CASE RestoreStock(r)
  <2>1. CASE ~deducted[r]
    <3>1. InFlight' = InFlight /\ Restored' = Restored
      BY <1>10, <2>1, <1>a DEF RestoreStock, InFlight, Restored
    <3>2. QED
      BY <3>1, <1>10, <2>1, AlignedFrame DEF RestoreStock
  <2>2. CASE deducted[r]
    <3>1. InFlight' = InFlight \ {r} /\ r \in InFlight /\ Restored' = Restored
      BY <1>10, <2>2, <1>a DEF RestoreStock, InFlight, Restored
    <3>2. Cardinality(InFlight') = Cardinality(InFlight) - 1
      BY <3>1, <1>b, FS_RemoveElement
    <3>3. redis # Missing /\ redis' = redis + Quantity /\ stock' = stock
      BY <1>10, <2>2, <1>a, <3>1 DEF RestoreStock, PrimedBefore, Incr
    <3>4. QED
      BY <3>1, <3>2, <3>3, <1>a, <1>b, Shift DEF RedisAligned
  <2>3. QED
    BY <2>1, <2>2
<1>11. CASE ReleaseKey(r)
  <2>1. InFlight' = InFlight /\ Restored' = Restored
    BY <1>11, <1>a DEF ReleaseKey, InFlight, Restored, DeductionsTold
  <2>2. QED
    BY <2>1, <1>11, AlignedFrame DEF ReleaseKey
<1>12. QED
  BY <1>1, <1>2, <1>3, <1>4, <1>5, <1>6, <1>7, <1>8, <1>9, <1>10, <1>11
     DEF RequestStep

\* A cancellation enters the counter before its commit changes the stock.
LEMMA AlignedCancel ==
  ASSUME Core, ~faulty, PrimedBefore, RedisAligned, NEW k \in Keys,
         CancelBegin(k) \/ CancelCommit(k) \/ KeyExpires(k)
  PROVE  RedisAligned'
<1> USE DEF Core, mysql, cache
<1>a. /\ cancel \in [Keys -> {"none", "due", "restored", "ran"}]
      /\ stock \in Int /\ Quantity \in Int /\ redis \in Int \cup {Missing}
      /\ Missing \notin Int
  BY CreationAssumption DEF TypeOK
<1>b. /\ IsFiniteSet(Restored) /\ Cardinality(Restored) \in Int
      /\ Cardinality(InFlight) \in Int
  BY Counted
<1>1. CASE CancelBegin(k)
  <2>1. Restored' = Restored \cup {k} /\ k \notin Restored /\ InFlight' = InFlight
    BY <1>1, <1>a DEF CancelBegin, InFlight, Restored
  <2>2. Cardinality(Restored') = Cardinality(Restored) + 1
    BY <2>1, <1>b, FS_AddElement
  <2>3. redis # Missing /\ redis' = redis + Quantity /\ stock' = stock
    BY <1>1, <1>a DEF CancelBegin, PrimedBefore, Incr
  <2>4. QED
    BY <2>1, <2>2, <2>3, <1>a, <1>b, Shift DEF RedisAligned
<1>2. CASE CancelCommit(k)
  <2>1. Restored' = Restored \ {k} /\ k \in Restored /\ InFlight' = InFlight
    BY <1>2, <1>a DEF CancelCommit, InFlight, Restored
  <2>2. Cardinality(Restored') = Cardinality(Restored) - 1
    BY <2>1, <1>b, FS_RemoveElement
  <2>3. redis # Missing /\ redis' = redis /\ stock' = stock + Quantity
    BY <1>2, <1>a DEF CancelCommit, PrimedBefore, RowsBehind
  <2>4. QED
    BY <2>1, <2>2, <2>3, <1>a, <1>b, Shift DEF RedisAligned
<1>3. CASE KeyExpires(k)
  <2>1. InFlight' = InFlight /\ Restored' = Restored
    BY <1>3 DEF KeyExpires, InFlight, Restored
  <2>2. QED
    BY <2>1, <1>3, AlignedFrame DEF KeyExpires
<1>4. QED
  BY <1>1, <1>2, <1>3

\* A stock key that is still missing after the step was missing before it, and
\* only steps before the first deduction leave it missing.
LEMMA PrimedStep ==
  ASSUME Core, PrimedBefore,
         \/ \E r \in Requests : RequestStep(r)
         \/ \E k \in Keys : CancelBegin(k) \/ CancelCommit(k) \/ KeyExpires(k)
  PROVE  PrimedBefore'
<1> SUFFICES ASSUME redis' = Missing
             PROVE  /\ \A k \in Keys : row'[k] = "absent"
                    /\ \A r \in Requests : pc'[r] # "primed"
                    /\ InFlight' = {}
  BY DEF PrimedBefore
<1> USE CreationAssumption DEF Core, TypeOK, DeductionsTold, PrimedBefore,
        InFlight, RowsBehind, Goto, Incr, mysql, cache
<1>1. ASSUME NEW r \in Requests, RequestStep(r)
      PROVE  /\ \A k \in Keys : row'[k] = "absent"
             /\ \A q \in Requests : pc'[q] # "primed"
             /\ InFlight' = {}
  <2>1. CASE CheckDb(r) \/ ReserveKey(r) \/ LoadProducts(r)
    BY <2>1 DEF CheckDb, ReserveKey, LoadProducts
  <2>2. CASE PrimeStock(r) \/ DecrStock(r) \/ RollbackShort(r)
    BY <2>2 DEF PrimeStock, DecrStock, RollbackShort
  <2>3. CASE PersistOrder(r)
    BY <2>3 DEF PersistOrder
  <2>4. CASE Finish(r) \/ Rollback(r)
    BY <2>4 DEF Finish, Rollback
  <2>5. CASE RestoreStock(r) \/ ReleaseKey(r)
    BY <2>5 DEF RestoreStock, ReleaseKey
  <2>6. QED
    BY <1>1, <2>1, <2>2, <2>3, <2>4, <2>5 DEF RequestStep
<1>2. ASSUME NEW k \in Keys, CancelBegin(k) \/ CancelCommit(k) \/ KeyExpires(k)
      PROVE  /\ \A j \in Keys : row'[j] = "absent"
             /\ \A q \in Requests : pc'[q] # "primed"
             /\ InFlight' = {}
  BY <1>2 DEF CancelBegin, CancelCommit, KeyExpires
<1>3. QED
  BY <1>1, <1>2

\* A key is set by a request that goes on, and deleted by one that fails.
LEMMA KeyHeldStep ==
  ASSUME Core, KeyHeld,
         \/ \E r \in Requests : RequestStep(r)
         \/ \E k \in Keys : CancelBegin(k) \/ CancelCommit(k) \/ KeyExpires(k)
  PROVE  KeyHeld'
<1> USE DEF Core, TypeOK, Places, KeyHeld, RowsBehind, Goto, mysql, cache
<1>1. ASSUME NEW r \in Requests, RequestStep(r) PROVE KeyHeld'
  <2>1. CASE CheckDb(r)
    BY <2>1 DEF CheckDb
  <2>2. CASE ReserveKey(r)
    BY <2>2 DEF ReserveKey
  <2>3. CASE LoadProducts(r) \/ PrimeStock(r)
    BY <2>3 DEF LoadProducts, PrimeStock
  <2>4. CASE DecrStock(r) \/ RollbackShort(r)
    BY <2>4 DEF DecrStock, RollbackShort
  <2>5. CASE PersistOrder(r)
    BY <2>5 DEF PersistOrder
  <2>6. CASE Finish(r)
    BY <2>6 DEF Finish
  <2>7. CASE Rollback(r) \/ RestoreStock(r)
    BY <2>7 DEF Rollback, RestoreStock
  <2>8. CASE ReleaseKey(r)
    BY <2>8 DEF ReleaseKey
  <2>9. QED
    BY <1>1, <2>1, <2>2, <2>3, <2>4, <2>5, <2>6, <2>7, <2>8 DEF RequestStep
<1>2. ASSUME NEW k \in Keys, CancelBegin(k) \/ CancelCommit(k) \/ KeyExpires(k)
      PROVE  KeyHeld'
  BY <1>2 DEF CancelBegin, CancelCommit, KeyExpires
<1>3. QED
  BY <1>1, <1>2

\* A step that is not a fault keeps Redis in order.
LEMMA FaultFreeStep == IInv /\ [Next]_vars => FaultFree'
<1> SUFFICES ASSUME IInv, [Next]_vars, ~faulty'
             PROVE  (PrimedBefore /\ RedisAligned /\ KeyHeld)'
  BY DEF FaultFree
<1>1. CASE UNCHANGED vars
  <2>1. InFlight' = InFlight /\ Restored' = Restored
    BY <1>1 DEF vars, mysql, cache, InFlight, Restored
  <2>2. QED
    BY <1>1, <2>1 DEF vars, mysql, cache, IInv, FaultFree, PrimedBefore,
       RedisAligned, KeyHeld
<1>2. ~Fault
  BY DEF Fault, Crash, DatabaseFails, RedisFails, CancelFails, RedisRestarts
<1>3. CASE Next
  <2>1. /\ ~faulty
        /\ \/ \E r \in Requests : RequestStep(r)
           \/ \E k \in Keys : CancelBegin(k) \/ CancelCommit(k) \/ KeyExpires(k)
    BY <1>2, <1>3 DEF Next, RequestStep, CheckDb, ReserveKey, LoadProducts,
       PrimeStock, DecrStock, RollbackShort, PersistOrder, Finish, Rollback,
       RestoreStock, ReleaseKey, CancelBegin, CancelCommit, KeyExpires
  <2>2. QED
    BY <2>1, PrimedStep, KeyHeldStep, AlignedRequest, AlignedCancel
       DEF IInv, FaultFree
<1>4. QED
  BY <1>1, <1>3

\* The inductive invariant of create_order.
LEMMA Invariance == Spec => []IInv
<1>1. Init => IInv
  BY CoreInit, FaultFreeInit DEF IInv
<1>2. IInv /\ [Next]_vars => IInv'
  BY CoreStep, FaultFreeStep DEF IInv
<1>3. QED
  BY <1>1, <1>2, PTL DEF Spec

\* While nothing fails, the Redis counter is the database's stock, corrected by
\* what is in flight, for any number of concurrent requests.
THEOREM RedisStaysAligned == Spec => []RedisAligned
<1>1. IInv => RedisAligned
  BY DEF IInv, FaultFree, RedisAligned
<1>2. QED
  BY Invariance, <1>1, PTL

\* While nothing fails, a request that failed leaves no key behind that would
\* refuse its retry.
THEOREM FailedRequestsUnblock == Spec => []KeyBlocksForAReason
<1>1. IInv => KeyBlocksForAReason
  BY DEF IInv, FaultFree, KeyHeld, KeyBlocksForAReason
<1>2. QED
  BY Invariance, <1>1, PTL

-----------------------------------------------------------------------------
(* The database side implements PurchaseContract *)

\* The initial state maps to the contract's.
LEMMA ContractInit == Init => Contract!Init
<1> SUFFICES ASSUME Init PROVE Contract!Init
  OBVIOUS
<1>1. [k \in Keys |-> row[k] = "pending"] = [k \in Keys |-> FALSE]
  BY DEF Init
<1>2. QED
  BY <1>1 DEF Init, Contract!Init

\* The commit of a new order is Place, that of a cancellation Withdraw, and no
\* other step changes what the contract speaks of.
LEMMA ContractStep ==
  Core /\ [Next]_vars => [Contract!Next]_(Contract!vars)
<1> SUFFICES ASSUME Core, [Next]_vars PROVE [Contract!Next]_(Contract!vars)
  OBVIOUS
<1>a. row \in [Keys -> {"absent", "pending", "canceled"}] /\ key \in [Requests -> Keys]
      /\ stock \in Nat /\ Quantity \in Nat
  BY CreationAssumption DEF Core, TypeOK
<1>1. CASE UNCHANGED <<row, stock>>
  BY <1>1 DEF Contract!vars
<1>2. ASSUME NEW r \in Requests, NEW k \in Keys, k = key[r],
             PersistOrder(r), row[k] = "absent"
      PROVE  Contract!Place(k)
  <2>1. row' = [row EXCEPT ![k] = "pending"] /\ stock' = stock - Quantity
    BY <1>2 DEF PersistOrder
  <2>2. stock >= Quantity
    BY <1>2 DEF PersistOrder, Core, StockSuffices, Working
  <2>3. [j \in Keys |-> row'[j] = "pending"]
          = [[j \in Keys |-> row[j] = "pending"] EXCEPT ![k] = TRUE]
    BY <2>1, <1>a
  <2>4. QED
    BY <1>2, <1>a, <2>1, <2>2, <2>3 DEF Contract!Place
<1>3. ASSUME NEW k \in Keys, CancelCommit(k)
      PROVE  Contract!Withdraw(k)
  <2>1. row' = [row EXCEPT ![k] = "canceled"] /\ stock' = stock + Quantity
    BY <1>3 DEF CancelCommit
  <2>2. row[k] = "pending"
    BY <1>3 DEF CancelCommit, Core, RowsBehind
  <2>3. [j \in Keys |-> row'[j] = "pending"]
          = [[j \in Keys |-> row[j] = "pending"] EXCEPT ![k] = FALSE]
    BY <2>1, <1>a
  <2>4. QED
    BY <1>a, <2>1, <2>2, <2>3 DEF Contract!Withdraw, Contract!PutBack
<1>4. \/ UNCHANGED <<row, stock>>
      \/ \E r \in Requests : PersistOrder(r) /\ row[key[r]] = "absent"
      \/ \E k \in Keys : CancelCommit(k)
  <2>1. CASE UNCHANGED vars
    BY <2>1 DEF vars, mysql
  <2>2. ASSUME NEW r \in Requests, RequestStep(r)
        PROVE  \/ UNCHANGED <<row, stock>>
               \/ PersistOrder(r) /\ row[key[r]] = "absent"
    BY <2>2 DEF RequestStep, CheckDb, ReserveKey, LoadProducts, PrimeStock,
       DecrStock, RollbackShort, PersistOrder, Finish, Rollback, RestoreStock,
       ReleaseKey, mysql
  <2>3. ASSUME NEW k \in Keys, CancelBegin(k) \/ CancelCommit(k) \/ KeyExpires(k)
        PROVE  UNCHANGED <<row, stock>> \/ CancelCommit(k)
    BY <2>3 DEF CancelBegin, KeyExpires, mysql
  <2>4. CASE Fault
    BY <2>4 DEF Fault, Crash, DatabaseFails, RedisFails, CancelFails,
       RedisRestarts, mysql
  <2>5. QED
    BY <2>1, <2>2, <2>3, <2>4 DEF Next
<1>5. ASSUME NEW k \in Keys, Contract!Place(k) \/ Contract!Withdraw(k)
      PROVE  Contract!Next
  BY <1>5 DEF Contract!Next
<1>6. ASSUME NEW r \in Requests, PersistOrder(r), row[key[r]] = "absent"
      PROVE  Contract!Next
  <2>1. PICK k \in Keys : k = key[r]
    BY <1>a
  <2>2. Contract!Place(k)
    BY <2>1, <1>2, <1>6
  <2>3. QED
    BY <2>2, <1>5
<1>7. ASSUME NEW k \in Keys, CancelCommit(k)
      PROVE  Contract!Next
  BY <1>3, <1>5, <1>7
<1>8. QED
  BY <1>1, <1>4, <1>6, <1>7

\* Whatever crashes and failures do, an order takes its stock from the shelf
\* when it appears and returns it when it is canceled.
THEOREM CreationKeepsContract == Spec => KeepsContract
<1>1. Init => Contract!Init
  BY ContractInit
<1>2. Core /\ [Next]_vars => [Contract!Next]_(Contract!vars)
  BY ContractStep
<1>3. QED
  BY CoreInit, CoreStep, <1>1, <1>2, PTL DEF Spec, KeepsContract, Contract!Spec
=============================================================================
