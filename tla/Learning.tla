------------------------------ MODULE Learning ------------------------------
(***************************************************************************)
(* A user's learning centre: the learning_profiles row with its check-in   *)
(* count and onboarding version, the learning_checkin_records, and the     *)
(* user_entitlements that the deprecated study_orders and the              *)
(* commerce_orders grant.  The two order tables number their rows          *)
(* independently, and an entitlement names its order by that number alone. *)
(*                                                                         *)
(* The first plain read of a handler fixes the snapshot of its             *)
(* transaction: what it reads without a lock is as old as that.  Rows it   *)
(* locks, and unique keys, are current: one profile per user, one record   *)
(* per user and day.  A check-in, too, has fixed its snapshot when it      *)
(* locks the profile, but it decides on that current row and on the unique *)
(* keys: an older snapshot can only make it try an insert that the key     *)
(* refuses.  It is one step.                                               *)
(***************************************************************************)
EXTENDS Integers, FiniteSets

CONSTANTS
  Pupils,       \* requests of the user
  OrderIds,     \* ids used by both order tables
  Shelf0,       \* initial stock of the product
  LastDate,     \* bound: the days are 0..LastDate
  MaxVersion    \* bound: version of the onboarding questions

ASSUME PupilsAssumption == IsFiniteSet(Pupils)
ASSUME LearningBounds == {Shelf0, LastDate, MaxVersion} \subseteq Nat

VARIABLES
  profile,    \* learning_profiles
  records,    \* checkin_days of the day's record, 0 when there is none
  today,      \* the date
  study,      \* payment status of study_orders
  standard,   \* payment status of commerce_orders
  rights,     \* user_entitlements, by the table and the id of their order:
              \* "active" when one of the order's entitlements is
  shelf,      \* study_products.stock
  pupil,      \* the requests
  base,       \* history: check-ins counted before there were records
  answered,   \* history: the highest onboarding version committed
  slipped,    \* history: an onboarding committed over one it had not seen
  returned    \* history: standard orders that were ever refunded

learningVars == <<profile, records, today, study, standard, rights, shelf, pupil,
                  base, answered, slipped, returned>>

Dates == 0..LastDate
NoDate == -1

Profile == [exists : BOOLEAN, days : Nat, last : Dates \cup {NoDate},
            version : 0..MaxVersion]
NoProfile == [exists |-> FALSE, days |-> 0, last |-> NoDate, version |-> 0]

Tables == {"study", "standard"}
Outside == [pc |-> "outside"]
Inside == [pc : {"inside"}, profile : Profile, records : [Dates -> Nat],
           granted : SUBSET OrderIds, unpaid : SUBSET OrderIds]

LearningTypeOK ==
  /\ profile \in Profile
  /\ records \in [Dates -> Nat]
  /\ today \in Dates
  /\ study \in [OrderIds -> {"none", "pending", "paid"}]
  /\ standard \in [OrderIds -> {"none", "paid", "refunded"}]
  /\ rights \in [Tables -> [OrderIds -> {"none", "active", "expired"}]]
  /\ shelf \in Nat
  /\ pupil \in [Pupils -> Inside \cup {Outside}]
  /\ base \in Nat
  /\ answered \in 0..MaxVersion
  /\ slipped \in BOOLEAN
  /\ returned \subseteq OrderIds

\* A profile from before the records carries a count and the date 0.
LearningInit ==
  /\ \/ profile = NoProfile /\ base = 0
     \/ profile = [exists |-> TRUE, days |-> 2, last |-> 0, version |-> 0] /\ base = 2
  /\ records = [d \in Dates |-> 0]
  /\ today = 0
  /\ study = [i \in OrderIds |-> "none"]
  /\ standard = [i \in OrderIds |-> "none"]
  /\ rights = [t \in Tables |-> [i \in OrderIds |-> "none"]]
  /\ shelf = Shelf0
  /\ pupil = [p \in Pupils |-> Outside]
  /\ answered = 0
  /\ slipped = FALSE
  /\ returned = {}

Granted == {i \in OrderIds : \E t \in Tables : rights[t][i] # "none"}
Unpaid == {i \in OrderIds : standard[i] = "none"}

-----------------------------------------------------------------------------
(* A request's transaction.                                                *)

Enter(p) ==
  /\ pupil[p] = Outside
  /\ pupil' = [pupil EXCEPT ![p] = [pc |-> "inside", profile |-> profile,
                                    records |-> records, granted |-> Granted,
                                    unpaid |-> Unpaid]]
  /\ UNCHANGED <<profile, records, today, study, standard, rights, shelf, base,
                 answered, slipped, returned>>

Exit(p) ==
  /\ pupil[p] # Outside
  /\ pupil' = [pupil EXCEPT ![p] = Outside]

\* Nothing to do, an error response, or a duplicate key: all is rolled back.
Fail(p) ==
  /\ Exit(p)
  /\ UNCHANGED <<profile, records, today, study, standard, rights, shelf, base,
                 answered, slipped, returned>>

\* The profile is added if `seen` shows none; the unique user_id refuses it if
\* somebody else was faster.
AddProfile(seen, new) ==
  /\ seen.exists \/ ~profile.exists
  /\ profile' = [new EXCEPT !.exists = TRUE]

-----------------------------------------------------------------------------
(* Check-in and profile.                                                   *)

\* The record of the day a profile was last used, if the snapshot lacks it.
ensure_learning_checkin_record(item, seen) ==
  /\ item.last # NoDate
  /\ seen[item.last] = 0
  /\ records[item.last] = 0
  /\ records' = [records EXCEPT ![item.last] = IF item.days = 0 THEN 1 ELSE item.days]

learning_center(p) ==
  LET seen == pupil[p] IN
  /\ Exit(p)
  /\ \/ ~seen.profile.exists /\ AddProfile(seen.profile, profile)
        /\ UNCHANGED records
     \/ ensure_learning_checkin_record(seen.profile, seen.records)
        /\ UNCHANGED profile
  /\ UNCHANGED <<today, study, standard, rights, shelf, base, answered, slipped, returned>>

update_learning_profile(p) ==
  /\ Exit(p)
  /\ AddProfile(pupil[p].profile, profile)
  /\ UNCHANGED <<records, today, study, standard, rights, shelf, base, answered,
                 slipped, returned>>

\* The answers to an older version of the questions are ignored, by the
\* version the snapshot shows.
complete_learning_onboarding(p, v) ==
  /\ Exit(p)
  /\ v > pupil[p].profile.version
  /\ AddProfile(pupil[p].profile, [profile EXCEPT !.version = v])
  /\ answered' = IF v > answered THEN v ELSE answered
  /\ slipped' = (slipped \/ pupil[p].profile.version # profile.version)
  /\ UNCHANGED <<records, today, study, standard, rights, shelf, base, returned>>

\* Mutant: only the record tells whether today's check-in is done.
check_in_by_record ==
  /\ records[today] = 0
  /\ profile' = [profile EXCEPT !.exists = TRUE, !.days = @ + 1, !.last = today]
  /\ records' = [records EXCEPT ![today] = profile.days + 1]
  /\ UNCHANGED <<today, study, standard, rights, shelf, pupil, base, answered,
                 slipped, returned>>

\* A profile last used today has been checked in, with or without a record.
study_check_in ==
  /\ records[today] = 0
  /\ \/ /\ profile.last = today
        /\ ensure_learning_checkin_record(profile, records)
        /\ UNCHANGED profile
     \/ /\ profile.last # today
        /\ profile' = [profile EXCEPT !.exists = TRUE, !.days = @ + 1,
                                      !.last = today]
        /\ records' = [records EXCEPT ![today] = profile.days + 1]
  /\ UNCHANGED <<today, study, standard, rights, shelf, pupil, base, answered,
                 slipped, returned>>

DayPasses ==
  /\ today < LastDate
  /\ today' = today + 1
  /\ UNCHANGED <<profile, records, study, standard, rights, shelf, pupil, base,
                 answered, slipped, returned>>

-----------------------------------------------------------------------------
(* Entitlements.                                                           *)

\* The product's stock is looked at and not taken.
create_study_order(i) ==
  /\ study[i] = "none"
  /\ shelf # 0
  /\ study' = [study EXCEPT ![i] = "pending"]
  /\ UNCHANGED <<profile, records, today, standard, rights, shelf, pupil, base,
                 answered, slipped, returned>>

\* An entitlement with the order's id, of whichever table, means it is done.
grant_entitlement(i, seen) ==
  IF i \in seen.granted THEN UNCHANGED <<profile, rights, shelf>>
  ELSE /\ AddProfile(seen.profile, profile)
       /\ rights' = [rights EXCEPT !["study"][i] = "active"]
       /\ shelf' = IF shelf > 0 THEN shelf - 1 ELSE shelf

\* Order and product are read with a lock, before the snapshot.
mock_pay(p, i) ==
  /\ Exit(p)
  /\ study[i] = "pending"
  /\ study' = [study EXCEPT ![i] = "paid"]
  /\ grant_entitlement(i, pupil[p])
  /\ UNCHANGED <<records, today, standard, base, answered, slipped, returned>>

\* Mutant: an entitlement with the order's id means it is done here as well.
mark_paid_once(p, i) ==
  /\ Exit(p)
  /\ i \in pupil[p].unpaid
  /\ standard' = [standard EXCEPT ![i] = "paid"]
  /\ rights' = [rights EXCEPT !["standard"][i] = IF i \in Granted THEN @ ELSE "active"]
  /\ AddProfile(pupil[p].profile, profile)
  /\ UNCHANGED <<records, today, study, shelf, base, answered, slipped, returned>>

\* The standard order with the same id.  The payment locks its row and decides
\* on the object its session loaded earlier: an order that another payment has
\* settled since is paid again, and one that was refunded since is revived.
mark_order_paid(p, i) ==
  /\ Exit(p)
  /\ i \in pupil[p].unpaid
  /\ standard' = [standard EXCEPT ![i] = "paid"]
  /\ rights' = [rights EXCEPT !["standard"][i] = "active"]
  /\ AddProfile(pupil[p].profile, profile)
  /\ UNCHANGED <<records, today, study, shelf, base, answered, slipped, returned>>

\* Its refund expires every entitlement with the order's id.  It starts with the
\* order's lock.
finalize_refund(i) ==
  /\ standard[i] = "paid"
  /\ standard' = [standard EXCEPT ![i] = "refunded"]
  /\ rights' = [t \in Tables |-> [rights[t] EXCEPT ![i] = IF @ = "none" THEN @
                                                          ELSE "expired"]]
  /\ returned' = returned \cup {i}
  /\ UNCHANGED <<profile, records, today, study, shelf, pupil, base, answered,
                 slipped>>

LearningNext ==
  \/ DayPasses \/ study_check_in
  \/ \E i \in OrderIds : create_study_order(i) \/ finalize_refund(i)
  \/ \E p \in Pupils :
       \/ Enter(p) \/ Fail(p) \/ learning_center(p) \/ update_learning_profile(p)
       \/ \E v \in 1..MaxVersion : complete_learning_onboarding(p, v)
       \/ \E i \in OrderIds : mock_pay(p, i) \/ mark_order_paid(p, i)

LearningSpec == LearningInit /\ [][LearningNext]_learningVars

-----------------------------------------------------------------------------
(* Properties.                                                             *)

Recorded(S) == {d \in S : records[d] # 0}

\* Whatever requests of the user overlap, the profile counts every day with a
\* check-in once, on top of the check-ins from before there were records, each
\* record carries the count of its day, and the onboarding version is the
\* highest that was answered, unless two onboardings overlapped.
ProfileAgreesWithHistory ==
  LET since(d) == Cardinality(Recorded(1..d)) IN
  /\ base > 0 => profile.days = base + since(LastDate)
  /\ base = 0 => profile.days = Cardinality(Recorded(Dates))
  /\ \A d \in Recorded(1..LastDate) :
       records[d] = since(d) + (IF base > 0 THEN base
                                ELSE IF records[0] # 0 THEN 1 ELSE 0)
  /\ profile.last > 0 => records[profile.last] = profile.days
  /\ ~slipped => profile.version = answered

\* A paid study order has its entitlement, unless a standard order with the
\* same id has one or was ever refunded: the check for an existing entitlement
\* and the expiry at a refund go by the id alone, and a stale second payment
\* that revives the refunded standard order does not bring the other one's
\* entitlement back.  A paid standard order has an entitlement, whatever study
\* orders, refunds and payments that overlap them do, a refunded one has none.
RightsOfPaidOrders ==
  \A i \in OrderIds :
    /\ study[i] = "paid" => \/ rights["study"][i] = "active"
                            \/ rights["study"][i] = "none" /\ standard[i] # "none"
                            \/ rights["study"][i] = "expired" /\ i \in returned
    /\ standard[i] = "paid" => rights["standard"][i] = "active"
    /\ standard[i] = "refunded" => rights["standard"][i] = "expired"
=============================================================================
