--------------------------- MODULE ServicesProofs ---------------------------
(***************************************************************************)
(* Theorems about five components that share no state: Accounts, Learning, *)
(* Snowflake, Invitations and Decoration, each for any number of requests. *)
(***************************************************************************)
EXTENDS Accounts, Learning, Snowflake, Invitations, Decoration,
        FiniteSetTheorems, TLAPS

-----------------------------------------------------------------------------
(* Accounts.                                                               *)

\* Subsets of the logins are finite.
LEMMA LoginSets ==
  ASSUME NEW S \in SUBSET Logins
  PROVE  /\ IsFiniteSet(S) /\ Cardinality(S) \in Nat
         /\ \A T \in SUBSET S : Cardinality(T) \in Nat /\ Cardinality(T) <= Cardinality(S)
         /\ \A r \in S : Cardinality(S \ {r}) = Cardinality(S) - 1
BY LoginsAssumption, FS_Subset, FS_CardinalityType, FS_RemoveElement

LEMMA AccountTypes == AccountSpec => []AccountTypeOK
<1>1. AccountInit => AccountTypeOK
  <2> SUFFICES ASSUME AccountInit PROVE AccountTypeOK
    OBVIOUS
  <2>1. 0 \in 0..MaxResets /\ 0 \in 0..MaxEpoch
    BY AccountBounds
  <2>2. account \in Account
    BY <2>1 DEF AccountInit, Account
  <2> QED BY <2>1, <2>2 DEF AccountInit, AccountTypeOK
<1>2. ASSUME AccountTypeOK, [AccountNext]_accountVars
      PROVE  AccountTypeOK'
  <2> USE <1>2 DEF AccountTypeOK
  <2>1. CASE UNCHANGED accountVars
    BY <2>1 DEF accountVars, revocations
  <2>2. ASSUME NEW status \in {"pending", "active", "rejected", "disabled", "cancelled"},
               Become(status)
        PROVE  /\ account' \in Account /\ trying' \in [Logins -> Verified \cup {NotLoggingIn}]
               /\ UNCHANGED <<kind, outdated0, resets>>
    BY <2>2 DEF Become, Account
  <2>3. delete_sessions => /\ session' = NoSession /\ epoch' \in 0..MaxEpoch
                           /\ inflight' \in Nat /\ late' \in Nat
    BY AccountBounds, LoginSets DEF delete_sessions, Revoke
  <2>4. CASE reset_user_password \/ update_school_merchant_password
    <3>1. resets + 1 \in 0..MaxResets
      BY <2>4, AccountBounds DEF reset_user_password, update_school_merchant_password
    <3>2. Rehashed(resets + 1) \in Account
      BY <3>1 DEF Rehashed, Account
    <3> QED BY <2>3, <2>4, <3>1, <3>2
           DEF reset_user_password, update_school_merchant_password, revocations
  <2>5. CASE logout \/ merchant_logout \/ SessionExpires
    BY <2>5 DEF logout, merchant_logout, SessionExpires, revocations
  <2>6. ASSUME NEW r \in Logins, verify_password(r) \/ Refused(r)
        PROVE  AccountTypeOK'
    <3>1. [pc |-> "verified", seen |-> account, epoch |-> epoch] \in Verified
      BY DEF Verified
    <3> QED BY <2>6, <3>1 DEF verify_password, Refused, revocations
  <2>7. ASSUME NEW r \in Logins, build_auth_response(r),
               account' = account \/ verify_and_rehash_password(r)
        PROVE  AccountTypeOK'
    <3>1. trying[r] \in Verified
      BY <2>7 DEF build_auth_response, NotLoggingIn
    <3>2. trying[r].epoch \in 0..MaxEpoch /\ trying[r].seen.pw \in 0..MaxResets
      BY <3>1 DEF Verified, Account
    <3>3. account' \in Account
      BY <3>2, <2>7 DEF verify_and_rehash_password, Rehashed, Account
    <3>4. [opened |-> trying[r].epoch] \in Session
      BY <3>2 DEF Session
    <3>5. late' \in Nat
      BY <2>7 DEF build_auth_response
    <3> QED BY <2>7, <3>3, <3>4, <3>5 DEF build_auth_response
  <2>8. CASE wechat_first_login
    <3>1. [opened |-> epoch] \in Session
      BY DEF Session
    <3> QED BY <2>8, <2>2, <3>1 DEF wechat_first_login, revocations
  <2>9. ASSUME NEW status \in {"pending", "active", "disabled", "cancelled", "rejected"},
               update_user_status(status)
        PROVE  AccountTypeOK'
    BY <2>9, <2>2, <2>3 DEF update_user_status, Keep, revocations
  <2>10. CASE \/ register \/ apply_school \/ set_current_school_site
              \/ \E b \in BOOLEAN : \/ review_registration(b) \/ review_school_site(b)
                                    \/ toggle_school_site(b)
              \/ \E status \in {"pending", "active", "disabled", "rejected"} :
                   create_school_site(status) \/ update_school_site(status)
    BY <2>10, <2>2
       DEF register, apply_school, set_current_school_site, review_registration,
           review_school_site, toggle_school_site, create_school_site,
           update_school_site, Keep, revocations
  <2> QED BY <2>1, <2>4, <2>5, <2>6, <2>7, <2>8, <2>9, <2>10
         DEF AccountNext, login, admin_login, merchant_login, wechat_mini_login
<1> QED BY <1>1, <1>2, PTL DEF AccountSpec

\* No login under way is newer than the last revocation.
RevocationInv ==
  /\ AccountTypeOK
  /\ \A r \in Logins : trying[r] # NotLoggingIn => trying[r].epoch <= epoch
  /\ RevocationMissesOnlyLogins

LEMMA RevocationStep ==
  ASSUME RevocationInv, AccountTypeOK', [AccountNext]_accountVars
  PROVE  RevocationInv'
<1>0. /\ trying \in [Logins -> Verified \cup {NotLoggingIn}]
      /\ epoch \in Nat /\ inflight \in Nat /\ late \in Nat
      /\ Cardinality(Overtaken) \in Nat
  BY AccountBounds, LoginSets DEF RevocationInv, AccountTypeOK, Overtaken
<1>1. CASE UNCHANGED <<kind, trying, revocations>> /\ session' \in {session, NoSession}
  BY <1>1 DEF RevocationInv, RevocationMissesOnlyLogins, Overtaken, revocations
<1>2. ASSUME delete_sessions, UNCHANGED trying
      PROVE  RevocationInv'
  <2>1. /\ epoch' = epoch + 1 /\ late' = 0 /\ session' = NoSession
        /\ inflight' = Cardinality({r \in Logins : trying[r] # NotLoggingIn})
    BY <1>2 DEF delete_sessions, Revoke
  <2>2. Overtaken' \subseteq {r \in Logins : trying[r] # NotLoggingIn}
    BY <1>2 DEF Overtaken
  <2>3. Cardinality(Overtaken') \in Nat /\ Cardinality(Overtaken') <= inflight'
    BY <2>1, <2>2, LoginSets
  <2>4. \A r \in Logins : trying'[r] # NotLoggingIn => trying'[r].epoch <= epoch'
    <3>1. \A r \in Logins : trying[r] # NotLoggingIn => trying[r].epoch \in Nat
      BY <1>0 DEF Verified
    <3> QED BY <1>0, <1>2, <2>1, <3>1 DEF RevocationInv
  <2> QED BY <2>1, <2>3, <2>4 DEF RevocationInv, RevocationMissesOnlyLogins
<1>3. ASSUME NEW r \in Logins, verify_password(r)
      PROVE  RevocationInv'
  <2>1. /\ UNCHANGED <<kind, session, epoch, inflight, late>>
        /\ trying'[r].epoch = epoch
        /\ \A q \in Logins : q # r => trying'[q] = trying[q]
        /\ trying[r] = NotLoggingIn
    BY <1>0, <1>3 DEF verify_password, revocations
  <2>2. Overtaken' = Overtaken
    BY <1>0, <2>1 DEF Overtaken
  <2> QED BY <1>0, <2>1, <2>2 DEF RevocationInv, RevocationMissesOnlyLogins
<1>4. ASSUME NEW r \in Logins, trying' = [trying EXCEPT ![r] = NotLoggingIn],
             UNCHANGED epoch
      PROVE  /\ \A q \in Logins : trying'[q] # NotLoggingIn => trying'[q].epoch <= epoch'
             /\ Overtaken' = Overtaken \ {r}
             /\ Cardinality(Overtaken') \in Nat
             /\ Cardinality(Overtaken') <= Cardinality(Overtaken)
             /\ r \in Overtaken => Cardinality(Overtaken') = Cardinality(Overtaken) - 1
  <2>1. /\ \A q \in Logins : q # r => trying'[q] = trying[q]
        /\ trying'[r] = NotLoggingIn
    BY <1>0, <1>4
  <2>2. Overtaken' = Overtaken \ {r}
    BY <1>4, <2>1 DEF Overtaken
  <2>3. Overtaken \in SUBSET Logins /\ Overtaken \ {r} \in SUBSET Overtaken
    BY DEF Overtaken
  <2> QED BY <1>4, <2>1, <2>2, <2>3, LoginSets DEF RevocationInv
<1>5. ASSUME NEW r \in Logins, Refused(r)
      PROVE  RevocationInv'
  <2>1. /\ UNCHANGED <<kind, session, epoch, inflight, late>>
        /\ trying' = [trying EXCEPT ![r] = NotLoggingIn]
    BY <1>5 DEF Refused, revocations
  <2>2. /\ Cardinality(Overtaken') \in Nat
        /\ Cardinality(Overtaken') <= Cardinality(Overtaken)
        /\ \A q \in Logins : trying'[q] # NotLoggingIn => trying'[q].epoch <= epoch'
    BY <1>4, <2>1
  <2>3. late + Cardinality(Overtaken) <= inflight
    BY DEF RevocationInv, RevocationMissesOnlyLogins
  <2>4. late' + Cardinality(Overtaken') <= inflight'
    BY <1>0, <2>1, <2>2, <2>3
  <2> QED BY <2>1, <2>2, <2>4 DEF RevocationInv, RevocationMissesOnlyLogins
<1>6. ASSUME NEW r \in Logins, build_auth_response(r)
      PROVE  RevocationInv'
  <2>1. /\ UNCHANGED <<kind, epoch, inflight>>
        /\ trying' = [trying EXCEPT ![r] = NotLoggingIn]
        /\ session'.opened = trying[r].epoch
        /\ late' = IF trying[r].epoch < epoch THEN late + 1 ELSE late
        /\ trying[r] # NotLoggingIn
    BY <1>6 DEF build_auth_response, NotLoggingIn
  <2>2. r \in Overtaken <=> trying[r].epoch < epoch
    BY <2>1 DEF Overtaken
  <2>3. late' + Cardinality(Overtaken') <= inflight'
    <3>1. late + Cardinality(Overtaken) <= inflight
      BY DEF RevocationInv, RevocationMissesOnlyLogins
    <3>2. /\ Cardinality(Overtaken') \in Nat
          /\ Cardinality(Overtaken') <= Cardinality(Overtaken)
          /\ r \in Overtaken => Cardinality(Overtaken') = Cardinality(Overtaken) - 1
      BY <1>4, <2>1
    <3> QED BY <1>0, <2>1, <2>2, <3>1, <3>2
  <2>4. session'.opened < epoch' => late' > 0
    BY <1>0, <2>1
  <2> QED BY <1>4, <2>1, <2>3, <2>4 DEF RevocationInv, RevocationMissesOnlyLogins
<1>7. CASE wechat_first_login
  <2>1. /\ UNCHANGED <<kind, trying, epoch, inflight, late>>
        /\ session'.opened = epoch
    BY <1>7 DEF wechat_first_login, Become, revocations
  <2> QED BY <1>0, <2>1 DEF RevocationInv, RevocationMissesOnlyLogins, Overtaken
<1>8. ASSUME NEW status, update_user_status(status)
      PROVE  RevocationInv'
  BY <1>1, <1>2, <1>8 DEF update_user_status, Become, Keep
<1>9. CASE reset_user_password
  BY <1>2, <1>9 DEF reset_user_password
<1>10. CASE \/ UNCHANGED accountVars
            \/ logout \/ merchant_logout \/ SessionExpires
            \/ register \/ apply_school \/ update_school_merchant_password
            \/ set_current_school_site
            \/ \E b \in BOOLEAN : \/ review_registration(b) \/ review_school_site(b)
                                  \/ toggle_school_site(b)
            \/ \E status \in {"pending", "active", "disabled", "rejected"} :
                 create_school_site(status) \/ update_school_site(status)
  BY <1>1, <1>10
     DEF accountVars, logout, merchant_logout, SessionExpires, register,
         apply_school, update_school_merchant_password, set_current_school_site,
         review_registration, review_school_site, toggle_school_site,
         create_school_site, update_school_site, Become, Keep
<1> QED BY <1>3, <1>5, <1>6, <1>7, <1>8, <1>9, <1>10
     DEF AccountNext, login, admin_login, merchant_login, wechat_mini_login

\* A revocation ends every session, except the ones that logins under way at that
\* moment open after it, for any number of logins, resets and revocations.
THEOREM RevocationsMissOnlyLogins == AccountSpec => []RevocationMissesOnlyLogins
<1>1. AccountInit /\ AccountTypeOK => RevocationInv
  <2> SUFFICES ASSUME AccountInit, AccountTypeOK PROVE RevocationInv
    OBVIOUS
  <2>1. Overtaken = {} /\ \A r \in Logins : trying[r] = NotLoggingIn
    BY DEF AccountInit, Overtaken
  <2>2. Cardinality(Overtaken) = 0
    BY <2>1, FS_EmptySet
  <2> QED BY <2>1, <2>2 DEF AccountInit, NoSession, RevocationInv, RevocationMissesOnlyLogins
<1>2. RevocationInv => RevocationMissesOnlyLogins
  BY DEF RevocationInv
<1> QED BY <1>1, <1>2, RevocationStep, AccountTypes, PTL DEF AccountSpec

\* An outdated hash, stored or loaded by a login, is of the very first password.
PasswordInv ==
  /\ PasswordNewestOrFirst
  /\ account.outdated => outdated0 /\ account.pw = 0
  /\ \A r \in Logins : trying[r] # NotLoggingIn /\ trying[r].seen.outdated =>
       outdated0 /\ trying[r].seen.pw = 0

LEMMA PasswordStep ==
  ASSUME AccountTypeOK, PasswordInv, [AccountNext]_accountVars
  PROVE  PasswordInv'
<1>1. CASE UNCHANGED accountVars
  BY <1>1 DEF accountVars, PasswordInv, PasswordNewestOrFirst
<1>2. ASSUME NEW status, Become(status)
      PROVE  PasswordInv'
  BY <1>2 DEF Become, PasswordInv, PasswordNewestOrFirst, AccountTypeOK, Account
<1>3. CASE reset_user_password \/ update_school_merchant_password
  BY <1>3 DEF reset_user_password, update_school_merchant_password, Rehashed,
              PasswordInv, PasswordNewestOrFirst, AccountTypeOK, Account
<1>4. CASE logout \/ merchant_logout \/ SessionExpires
  BY <1>4 DEF logout, merchant_logout, SessionExpires, PasswordInv, PasswordNewestOrFirst
<1>5. ASSUME NEW r \in Logins, verify_password(r)
      PROVE  PasswordInv'
  <2>1. /\ UNCHANGED <<account, outdated0, resets>>
        /\ trying'[r].seen = account
        /\ \A q \in Logins : q # r => trying'[q] = trying[q]
    BY <1>5 DEF verify_password, AccountTypeOK
  <2> QED BY <2>1 DEF PasswordInv, PasswordNewestOrFirst
<1>6. ASSUME NEW r \in Logins, Refused(r)
      PROVE  PasswordInv'
  <2>1. /\ UNCHANGED <<account, outdated0, resets>>
        /\ \A q \in Logins : trying'[q] # NotLoggingIn => trying'[q] = trying[q]
    BY <1>6 DEF Refused, AccountTypeOK
  <2> QED BY <2>1 DEF PasswordInv, PasswordNewestOrFirst
<1>7. ASSUME NEW r \in Logins, build_auth_response(r),
             account' = account \/ verify_and_rehash_password(r)
      PROVE  PasswordInv'
  <2>1. /\ UNCHANGED <<outdated0, resets>>
        /\ trying[r].pc = "verified"
        /\ \A q \in Logins : trying'[q] # NotLoggingIn => trying'[q] = trying[q]
    BY <1>7 DEF build_auth_response, AccountTypeOK
  <2>2. trying[r] # NotLoggingIn
    BY <2>1 DEF NotLoggingIn
  <2>3. \/ account' = account
        \/ outdated0 /\ account'.pw = 0 /\ ~account'.outdated
    BY <2>2, <1>7 DEF PasswordInv, verify_and_rehash_password, Rehashed,
                      AccountTypeOK, Account
  <2> QED BY <2>1, <2>3 DEF PasswordInv, PasswordNewestOrFirst
<1> QED BY <1>1, <1>2, <1>3, <1>4, <1>5, <1>6, <1>7
     DEF AccountNext, login, admin_login, merchant_login, wechat_mini_login,
         wechat_first_login, register, apply_school, set_current_school_site,
         review_registration, review_school_site, toggle_school_site,
         create_school_site, update_school_site, update_user_status

\* However logins and resets race, the stored password is the newest or, of an
\* account that started with an outdated hash, the very first: for any number of
\* logins and resets.
THEOREM PasswordsNewestOrFirst == AccountSpec => []PasswordNewestOrFirst
<1>1. AccountInit => PasswordInv
  BY DEF AccountInit, PasswordInv, PasswordNewestOrFirst
<1>2. PasswordInv => PasswordNewestOrFirst
  BY DEF PasswordInv
<1> QED BY <1>1, <1>2, PasswordStep, AccountTypes, PTL DEF AccountSpec

-----------------------------------------------------------------------------
(* Learning.                                                               *)

OrderStates ==
  /\ study \in [OrderIds -> {"none", "pending", "paid"}]
  /\ standard \in [OrderIds -> {"none", "paid", "refunded"}]
  /\ rights \in [Tables -> [OrderIds -> {"none", "active", "expired"}]]
  /\ pupil = [p \in Pupils |-> pupil[p]]

\* An order that is not paid has granted nothing, and an entitlement a snapshot
\* shows is one of the legacy order or means that the standard order exists.
RightsInv ==
  /\ \A i \in OrderIds :
       /\ study[i] # "paid" => rights["study"][i] = "none"
       /\ standard[i] = "none" => rights["standard"][i] = "none"
  /\ \A p \in Pupils : pupil[p] # Outside =>
       \A i \in pupil[p].granted \cap OrderIds :
         rights["study"][i] # "none" \/ standard[i] # "none"
  /\ \A p \in Pupils : pupil[p] # Outside => pupil[p].unpaid \subseteq OrderIds
  /\ RightsOfPaidOrders

LEMMA RightsStep ==
  ASSUME OrderStates, RightsInv, [LearningNext]_learningVars
  PROVE  OrderStates' /\ RightsInv'
<1> DEFINE Goal == OrderStates' /\ RightsInv'
<1>1. ASSUME UNCHANGED <<study, standard, rights, returned>>,
             pupil' = [p \in Pupils |-> pupil'[p]],
             \A p \in Pupils : pupil'[p] # Outside => pupil'[p] = pupil[p]
      PROVE  Goal
  BY <1>1 DEF OrderStates, RightsInv, RightsOfPaidOrders
<1>2. ASSUME NEW p \in Pupils, Enter(p)
      PROVE  Goal
  <2>1. /\ UNCHANGED <<study, standard, rights, returned>>
        /\ pupil'[p].granted = Granted /\ pupil'[p].unpaid = Unpaid
        /\ \A q \in Pupils : q # p => pupil'[q] = pupil[q]
        /\ pupil' = [q \in Pupils |-> pupil'[q]]
    BY <1>2 DEF Enter, OrderStates
  <2>2. \A i \in Granted : rights["study"][i] # "none" \/ standard[i] # "none"
    BY DEF Granted, Tables, RightsInv
  <2> QED BY <2>1, <2>2 DEF OrderStates, RightsInv, RightsOfPaidOrders, Unpaid
<1>3. ASSUME NEW p \in Pupils, Exit(p)
      PROVE  /\ pupil' = [q \in Pupils |-> pupil'[q]]
             /\ \A q \in Pupils : pupil'[q] # Outside => pupil'[q] = pupil[q]
             /\ pupil[p] # Outside
  BY <1>3 DEF Exit, OrderStates
<1>4. ASSUME NEW p \in Pupils,
             Fail(p) \/ learning_center(p) \/ update_learning_profile(p)
      PROVE  Goal
  BY <1>1, <1>3, <1>4 DEF Fail, learning_center, update_learning_profile
<1>5. ASSUME NEW p \in Pupils, NEW v \in 1..MaxVersion,
             complete_learning_onboarding(p, v)
      PROVE  Goal
  BY <1>1, <1>3, <1>5 DEF complete_learning_onboarding
<1>6. ASSUME UNCHANGED <<study, standard, rights, returned, pupil>>
      PROVE  Goal
  BY <1>6 DEF OrderStates, RightsInv, RightsOfPaidOrders
<1>7. ASSUME NEW i \in OrderIds, create_study_order(i)
      PROVE  Goal
  <2>1. /\ UNCHANGED <<standard, rights, returned, pupil>>
        /\ study[i] = "none" /\ study' = [study EXCEPT ![i] = "pending"]
    BY <1>7 DEF create_study_order
  <2> QED BY <2>1 DEF OrderStates, RightsInv, RightsOfPaidOrders
<1>8. ASSUME NEW p \in Pupils, NEW i \in OrderIds, mock_pay(p, i)
      PROVE  Goal
  <2>1. /\ UNCHANGED <<standard, returned>>
        /\ study[i] = "pending" /\ study' = [study EXCEPT ![i] = "paid"]
        /\ grant_entitlement(i, pupil[p]) /\ Exit(p)
    BY <1>8 DEF mock_pay
  <2>2. rights["study"][i] = "none"
    BY <2>1 DEF RightsInv
  <2>3. CASE i \in pupil[p].granted
    <3>1. rights' = rights /\ standard[i] # "none"
      BY <2>1, <2>2, <2>3, <1>3 DEF grant_entitlement, RightsInv
    <3> QED BY <2>1, <2>2, <3>1, <1>3 DEF OrderStates, RightsInv, RightsOfPaidOrders
  <2>4. CASE i \notin pupil[p].granted
    <3>1. rights' = [rights EXCEPT !["study"][i] = "active"]
      BY <2>1, <2>4 DEF grant_entitlement
    <3>2. /\ rights' \in [Tables -> [OrderIds -> {"none", "active", "expired"}]]
          /\ rights'["study"][i] = "active"
          /\ \A j \in OrderIds : /\ j # i => rights'["study"][j] = rights["study"][j]
                                 /\ rights'["standard"][j] = rights["standard"][j]
      BY <3>1 DEF OrderStates, Tables
    <3>3. OrderStates'
      BY <2>1, <3>2, <1>3 DEF OrderStates
    <3>4. /\ study'[i] = "paid" /\ \A j \in OrderIds : j # i => study'[j] = study[j]
          /\ UNCHANGED <<standard, returned>>
      BY <2>1 DEF OrderStates
    <3>5. \A j \in OrderIds : rights["study"][j] # "none" => rights'["study"][j] # "none"
      BY <3>2
    <3>6. RightsOfPaidOrders'
      BY <3>2, <3>4 DEF RightsInv, RightsOfPaidOrders
    <3>7. \A q \in Pupils : pupil'[q] # Outside =>
            \A j \in pupil'[q].granted \cap OrderIds :
              rights'["study"][j] # "none" \/ standard'[j] # "none"
      BY <1>3, <2>1, <3>4, <3>5 DEF RightsInv
    <3>8. \A j \in OrderIds :
            /\ study'[j] # "paid" => rights'["study"][j] = "none"
            /\ standard'[j] = "none" => rights'["standard"][j] = "none"
      BY <3>2, <3>4 DEF RightsInv
    <3>9. \A q \in Pupils : pupil'[q] # Outside => pupil'[q].unpaid \subseteq OrderIds
      BY <1>3, <2>1 DEF RightsInv
    <3> QED BY <3>3, <3>6, <3>7, <3>8, <3>9 DEF RightsInv
  <2> QED BY <2>3, <2>4
<1>9. ASSUME NEW p \in Pupils, NEW i \in OrderIds, mark_order_paid(p, i)
      PROVE  Goal
  <2>1. /\ UNCHANGED <<study, returned>> /\ Exit(p)
        /\ standard' = [standard EXCEPT ![i] = "paid"]
        /\ rights' = [rights EXCEPT !["standard"][i] = "active"]
    BY <1>9 DEF mark_order_paid
  <2>2. /\ rights' \in [Tables -> [OrderIds -> {"none", "active", "expired"}]]
        /\ rights'["standard"][i] = "active"
        /\ \A j \in OrderIds : /\ j # i => rights'["standard"][j] = rights["standard"][j]
                               /\ rights'["study"][j] = rights["study"][j]
    BY <2>1 DEF OrderStates, Tables
  <2> QED BY <1>3, <2>1, <2>2 DEF OrderStates, RightsInv, RightsOfPaidOrders
<1>10. ASSUME NEW i \in OrderIds, finalize_refund(i)
       PROVE  Goal
  <2>1. /\ UNCHANGED <<study, pupil>>
        /\ returned' = returned \cup {i}
        /\ standard[i] = "paid" /\ standard' = [standard EXCEPT ![i] = "refunded"]
        /\ rights' = [t \in Tables |-> [rights[t] EXCEPT ![i] =
                        IF rights[t][i] = "none" THEN rights[t][i] ELSE "expired"]]
    BY <1>10 DEF finalize_refund
  <2>2. /\ rights' \in [Tables -> [OrderIds -> {"none", "active", "expired"}]]
        /\ \A t \in Tables :
             /\ rights'[t][i] = (IF rights[t][i] = "none" THEN "none" ELSE "expired")
             /\ \A j \in OrderIds : j # i => rights'[t][j] = rights[t][j]
    BY <2>1 DEF OrderStates
  <2>3. "study" \in Tables /\ "standard" \in Tables
    BY DEF Tables
  <2> QED BY <2>1, <2>2, <2>3 DEF OrderStates, RightsInv, RightsOfPaidOrders
<1> QED BY <1>2, <1>4, <1>5, <1>6, <1>7, <1>8, <1>9, <1>10
     DEF LearningNext, learningVars, DayPasses, study_check_in

\* A paid order of either table has its entitlement, also when a stale session
\* pays an order again after its refund, except where the id the two tables share
\* lets one order's payment or refund speak for the other.
THEOREM PaidOrdersHaveRights == LearningSpec => []RightsOfPaidOrders
<1>1. LearningInit => OrderStates /\ RightsInv
  BY DEF LearningInit, OrderStates, RightsInv, RightsOfPaidOrders, Tables
<1>2. RightsInv => RightsOfPaidOrders
  BY DEF RightsInv
<1> QED BY <1>1, <1>2, RightsStep, PTL DEF LearningSpec

-----------------------------------------------------------------------------
(* Learning: the profile and the check-in records.                         *)

\* A step leaves the columns of the profile that count the days alone.
SameDays == profile'.days = profile.days /\ profile'.last = profile.last

LEMMA ProfileWrites ==
  ASSUME LearningTypeOK
  PROVE  /\ \A seen : AddProfile(seen, profile) =>
              /\ profile' \in Profile /\ SameDays
              /\ profile'.version = profile.version
         /\ \A seen : \A v \in 0..MaxVersion :
              AddProfile(seen, [profile EXCEPT !.version = v]) =>
                profile' \in Profile /\ SameDays /\ profile'.version = v
BY DEF LearningTypeOK, Profile, AddProfile, SameDays

\* The record of a day is added with the count of the profile the request holds.
Opening(item) ==
  /\ item.last \in Dates /\ records[item.last] = 0
  /\ \E n \in Nat \ {0} : records' = [records EXCEPT ![item.last] = n]

LEMMA OpeningWrites ==
  ASSUME NEW item \in Profile, NEW seen, ensure_learning_checkin_record(item, seen)
  PROVE  Opening(item) /\ seen[item.last] = 0
<1>1. item.last \in Dates /\ item.days \in Nat
  BY DEF ensure_learning_checkin_record, Profile
<1>2. (IF item.days = 0 THEN 1 ELSE item.days) \in Nat \ {0}
  BY <1>1
<1> QED BY <1>1, <1>2 DEF ensure_learning_checkin_record, Opening

CheckingIn ==
  /\ records[today] = 0 /\ profile.last # today
  /\ profile' = [profile EXCEPT !.exists = TRUE, !.days = profile.days + 1,
                                !.last = today]
  /\ records' = [records EXCEPT ![today] = profile.days + 1]

LEMMA LearningTypes ==
  ASSUME LearningTypeOK, [LearningNext]_learningVars
  PROVE  LearningTypeOK'
<1>0. /\ NoDate = -1 /\ Shelf0 \in Nat /\ LastDate \in Nat /\ MaxVersion \in Nat
  BY LearningBounds DEF NoDate
<1>1. ASSUME NEW p \in Pupils, Exit(p)
      PROVE  /\ pupil' \in [Pupils -> Inside \cup {Outside}]
             /\ pupil[p] \in Inside
  BY <1>1 DEF Exit, LearningTypeOK
<1>2. ASSUME NEW p \in Pupils, Enter(p)
      PROVE  LearningTypeOK'
  <2>1. [pc |-> "inside", profile |-> profile, records |-> records,
         granted |-> Granted, unpaid |-> Unpaid] \in Inside
    BY DEF Inside, LearningTypeOK, Granted, Unpaid
  <2> QED BY <2>1, <1>2 DEF Enter, LearningTypeOK
<1>3. ASSUME NEW p \in Pupils, Fail(p)
      PROVE  LearningTypeOK'
  BY <1>1, <1>3 DEF Fail, LearningTypeOK
<1>4. ASSUME NEW item, Opening(item)
      PROVE  records' \in [Dates -> Nat]
  BY <1>4 DEF Opening, LearningTypeOK
<1>5. ASSUME NEW p \in Pupils, learning_center(p)
      PROVE  LearningTypeOK'
  <2>1. /\ pupil' \in [Pupils -> Inside \cup {Outside}]
        /\ pupil[p].profile \in Profile
        /\ UNCHANGED <<today, study, standard, rights, shelf, base, answered, slipped, returned>>
    BY <1>1, <1>5 DEF learning_center, Inside
  <2>2. profile' \in Profile /\ records' \in [Dates -> Nat]
    <3>1. CASE AddProfile(pupil[p].profile, profile) /\ UNCHANGED records
      BY <3>1, ProfileWrites DEF LearningTypeOK
    <3>2. CASE /\ ensure_learning_checkin_record(pupil[p].profile, pupil[p].records)
               /\ UNCHANGED profile
      BY <3>2, <2>1, <1>4, OpeningWrites DEF LearningTypeOK
    <3> QED BY <3>1, <3>2, <1>5 DEF learning_center
  <2> QED BY <2>1, <2>2 DEF LearningTypeOK
<1>6. ASSUME NEW p \in Pupils, update_learning_profile(p)
      PROVE  LearningTypeOK'
  BY <1>1, <1>6, ProfileWrites DEF update_learning_profile, LearningTypeOK
<1>7. ASSUME NEW p \in Pupils, NEW v \in 1..MaxVersion,
             complete_learning_onboarding(p, v)
      PROVE  LearningTypeOK'
  <2>1. /\ profile' \in Profile
        /\ pupil' \in [Pupils -> Inside \cup {Outside}]
    BY <1>1, <1>7, <1>0, ProfileWrites DEF complete_learning_onboarding
  <2>2. /\ answered' \in 0..MaxVersion /\ slipped' \in BOOLEAN
        /\ UNCHANGED <<records, today, study, standard, rights, shelf, base, returned>>
    BY <1>7, <1>0 DEF complete_learning_onboarding, LearningTypeOK
  <2> QED BY <2>1, <2>2 DEF LearningTypeOK
<1>8. CASE study_check_in
  <2>1. UNCHANGED <<today, study, standard, rights, shelf, pupil, base, answered, slipped, returned>>
    BY <1>8 DEF study_check_in
  <2>2. profile' \in Profile /\ records' \in [Dates -> Nat]
    <3>1. CASE ensure_learning_checkin_record(profile, records) /\ UNCHANGED profile
      BY <3>1, <1>4, OpeningWrites DEF LearningTypeOK
    <3>2. CASE CheckingIn
      <4>1. profile \in Profile /\ today \in Dates /\ records \in [Dates -> Nat]
        BY DEF LearningTypeOK
      <4>2. profile.days + 1 \in Nat
        BY <4>1 DEF Profile
      <4>3. profile' \in Profile
        BY <4>1, <4>2, <3>2, ZenonT(30) DEF CheckingIn, Profile
      <4> QED BY <4>1, <4>2, <4>3, <3>2 DEF CheckingIn
    <3> QED BY <3>1, <3>2, <1>8 DEF study_check_in, CheckingIn
  <2> QED BY <2>1, <2>2 DEF LearningTypeOK
<1>9. CASE DayPasses
  BY <1>9, <1>0 DEF DayPasses, LearningTypeOK, Dates
<1>10. ASSUME NEW i \in OrderIds, create_study_order(i)
       PROVE  LearningTypeOK'
  BY <1>10 DEF create_study_order, LearningTypeOK
<1>11. ASSUME NEW p \in Pupils, NEW i \in OrderIds, mark_order_paid(p, i)
       PROVE  LearningTypeOK'
  <2>1. profile' \in Profile /\ pupil' \in [Pupils -> Inside \cup {Outside}]
    BY <1>1, <1>11, ProfileWrites DEF mark_order_paid
  <2>2. rights' \in [Tables -> [OrderIds -> {"none", "active", "expired"}]]
    BY <1>11 DEF mark_order_paid, LearningTypeOK, Tables
  <2> QED BY <1>11, <2>1, <2>2 DEF mark_order_paid, LearningTypeOK
<1>12. ASSUME NEW i \in OrderIds, finalize_refund(i)
       PROVE  LearningTypeOK'
  <2>1. rights' \in [Tables -> [OrderIds -> {"none", "active", "expired"}]]
    BY <1>12 DEF finalize_refund, LearningTypeOK, Tables
  <2> QED BY <1>12, <2>1 DEF finalize_refund, LearningTypeOK
<1>13. ASSUME NEW p \in Pupils, NEW i \in OrderIds, mock_pay(p, i)
       PROVE  LearningTypeOK'
  <2>1. /\ pupil' \in [Pupils -> Inside \cup {Outside}]
        /\ study' = [study EXCEPT ![i] = "paid"]
        /\ grant_entitlement(i, pupil[p])
        /\ UNCHANGED <<records, today, standard, base, answered, slipped, returned>>
    BY <1>1, <1>13 DEF mock_pay
  <2>2. /\ profile' \in Profile /\ shelf' \in Nat
        /\ rights' \in [Tables -> [OrderIds -> {"none", "active", "expired"}]]
    <3>1. CASE i \in pupil[p].granted
      BY <2>1, <3>1 DEF grant_entitlement, LearningTypeOK
    <3>2. CASE i \notin pupil[p].granted
      <4>1. /\ AddProfile(pupil[p].profile, profile)
            /\ rights' = [rights EXCEPT !["study"][i] = "active"]
            /\ shelf' = IF shelf > 0 THEN shelf - 1 ELSE shelf
        BY <2>1, <3>2 DEF grant_entitlement
      <4>2. profile' \in Profile
        BY <4>1, ProfileWrites
      <4>3. shelf' \in Nat
        BY <4>1 DEF LearningTypeOK
      <4>4. rights' \in [Tables -> [OrderIds -> {"none", "active", "expired"}]]
        BY <4>1 DEF LearningTypeOK, Tables
      <4> QED BY <4>2, <4>3, <4>4
    <3> QED BY <3>1, <3>2
  <2> QED BY <2>1, <2>2 DEF LearningTypeOK
<1>14. CASE UNCHANGED learningVars
  BY <1>14 DEF learningVars, LearningTypeOK
<1> QED BY <1>2, <1>3, <1>5, <1>6, <1>7, <1>8, <1>9, <1>10, <1>11, <1>12, <1>13,
           <1>14 DEF LearningNext

Since(d) == Recorded(1..d)

\* What a profile holds at any moment: its date is the last day with a record
\* and not in the future, except that the date 0 of a profile from before the
\* records has none until it is asked for.
DaysInOrder ==
  /\ profile.last <= today
  /\ profile.last # NoDate => profile.days > 0
  /\ \A d \in Dates : records[d] # 0 => d <= profile.last
  /\ profile.last > 0 => records[profile.last] = profile.days
  /\ base > 0 => profile.last # NoDate
  /\ base = 0 /\ profile.last = 0 => records[0] # 0

\* A request that saw a date without a record saw the date of such a profile.
SnapshotsInOrder ==
  \A p \in Pupils : pupil[p] # Outside =>
    LET seen == pupil[p] IN
    seen.profile.last # NoDate /\ seen.records[seen.profile.last] = 0 =>
      seen.profile.last = 0 /\ base > 0

DaysCounted ==
  /\ base > 0 => profile.days = base + Cardinality(Since(LastDate))
  /\ base = 0 => profile.days = Cardinality(Recorded(Dates))
  /\ \A d \in Since(LastDate) :
       records[d] = Cardinality(Since(d)) + (IF base > 0 THEN base
                                             ELSE IF records[0] # 0 THEN 1 ELSE 0)

HistoryInv ==
  /\ LearningTypeOK
  /\ DaysInOrder
  /\ SnapshotsInOrder
  /\ DaysCounted
  /\ ~slipped => profile.version = answered

\* What a step may do to the days: nothing, add the record of the day 0 to a
\* profile from before the records, or count today.
DayStep ==
  \/ SameDays /\ UNCHANGED <<records, today>>
  \/ SameDays /\ UNCHANGED records /\ today' = today + 1
  \/ /\ SameDays /\ UNCHANGED today /\ base > 0 /\ records[0] = 0
     /\ \E n \in Nat \ {0} : records' = [records EXCEPT ![0] = n]
  \/ CheckingIn /\ UNCHANGED today

LEMMA LearningNumbers ==
  /\ NoDate = -1 /\ LastDate \in Nat /\ MaxVersion \in Nat
  /\ Dates \subseteq Nat /\ 0 \in Dates /\ Dates = {0} \cup 1..LastDate
BY LearningBounds DEF NoDate, Dates

LEMMA LastDayRecorded ==
  ASSUME LearningTypeOK, DaysInOrder, profile.last # NoDate,
         records[profile.last] = 0
  PROVE  profile.last = 0 /\ base > 0
<1>1. /\ profile.last \in Dates /\ profile.days \in Nat /\ base \in Nat
  BY DEF LearningTypeOK, Profile
<1> QED BY <1>1, LearningNumbers DEF DaysInOrder

LEMMA DayStepKinds ==
  ASSUME HistoryInv, [LearningNext]_learningVars
  PROVE  DayStep /\ base' = base
<1>1. ASSUME NEW p \in Pupils, Exit(p)
      PROVE  pupil[p] # Outside /\ pupil[p] \in Inside /\ pupil[p].profile \in Profile
  BY <1>1 DEF Exit, HistoryInv, LearningTypeOK, Inside
<1>2. LearningTypeOK /\ profile \in Profile
  BY DEF HistoryInv, LearningTypeOK
<1>3. ASSUME NEW p \in Pupils, learning_center(p)
      PROVE  DayStep /\ base' = base
  <2>1. CASE AddProfile(pupil[p].profile, profile) /\ UNCHANGED records
    BY <1>2, <1>3, <2>1, ProfileWrites DEF learning_center, DayStep
  <2>2. CASE /\ ensure_learning_checkin_record(pupil[p].profile, pupil[p].records)
             /\ UNCHANGED profile
    <3>1. /\ pupil[p] # Outside /\ pupil[p].profile \in Profile
          /\ UNCHANGED <<today, base>>
      BY <1>1, <1>3 DEF learning_center
    <3>2. /\ Opening(pupil[p].profile)
          /\ pupil[p].records[pupil[p].profile.last] = 0
      BY <3>1, <2>2, OpeningWrites
    <3>3. pupil[p].profile.last = 0 /\ base > 0
      BY <3>1, <3>2, LearningNumbers DEF HistoryInv, SnapshotsInOrder, Opening
    <3> QED BY <3>1, <3>2, <3>3, <2>2 DEF Opening, DayStep, SameDays
  <2> QED BY <2>1, <2>2, <1>3 DEF learning_center
<1>4. CASE study_check_in
  <2>1. /\ records[today] = 0 /\ UNCHANGED <<today, base>>
    BY <1>4 DEF study_check_in
  <2>2. CASE /\ profile.last = today /\ UNCHANGED profile
             /\ ensure_learning_checkin_record(profile, records)
    <3>1. Opening(profile) /\ profile.last # NoDate
      BY <1>2, <2>2, OpeningWrites DEF ensure_learning_checkin_record
    <3>2. profile.last = 0 /\ base > 0
      BY <3>1, <2>1, <2>2, <1>2, LastDayRecorded DEF HistoryInv
    <3> QED BY <3>1, <3>2, <2>1, <2>2 DEF Opening, DayStep, SameDays
  <2>3. CASE CheckingIn
    BY <2>1, <2>3 DEF DayStep
  <2> QED BY <2>2, <2>3, <1>4 DEF study_check_in, CheckingIn
<1>5. ASSUME NEW p \in Pupils, update_learning_profile(p)
      PROVE  DayStep /\ base' = base
  BY <1>2, <1>5, ProfileWrites DEF update_learning_profile, DayStep
<1>6. ASSUME NEW p \in Pupils, NEW v \in 1..MaxVersion,
             complete_learning_onboarding(p, v)
      PROVE  DayStep /\ base' = base
  <2>1. v \in 0..MaxVersion
    BY LearningNumbers
  <2> QED BY <1>2, <1>6, <2>1, ProfileWrites DEF complete_learning_onboarding, DayStep
<1>7. ASSUME NEW p \in Pupils, NEW i \in OrderIds, mock_pay(p, i)
      PROVE  DayStep /\ base' = base
  <2>1. AddProfile(pupil[p].profile, profile) \/ UNCHANGED profile
    BY <1>7 DEF mock_pay, grant_entitlement
  <2>2. SameDays
    BY <2>1, <1>2, ProfileWrites DEF SameDays
  <2> QED BY <1>7, <2>2 DEF mock_pay, DayStep
<1>8. ASSUME NEW p \in Pupils, NEW i \in OrderIds, mark_order_paid(p, i)
      PROVE  DayStep /\ base' = base
  <2>1. SameDays
    BY <1>2, <1>8, ProfileWrites DEF mark_order_paid
  <2> QED BY <1>8, <2>1 DEF mark_order_paid, DayStep
<1>9. CASE DayPasses
  BY <1>9 DEF DayPasses, DayStep, SameDays
<1>10. ASSUME UNCHANGED <<profile, records, today, base>>
       PROVE  DayStep /\ base' = base
  BY <1>10 DEF DayStep, SameDays
<1> QED BY <1>3, <1>4, <1>5, <1>6, <1>7, <1>8, <1>9, <1>10
     DEF LearningNext, learningVars, Enter, Fail, create_study_order, finalize_refund

LEMMA RecordedFinite ==
  ASSUME NEW S, S \subseteq Dates
  PROVE  /\ IsFiniteSet(Recorded(S)) /\ Cardinality(Recorded(S)) \in Nat
         /\ IsFiniteSet(Recorded(S)') /\ Cardinality(Recorded(S)') \in Nat
<1>1. IsFiniteSet(Dates)
  BY FS_Interval, LearningBounds DEF Dates
<1>2. Recorded(S) \in SUBSET Dates /\ Recorded(S)' \in SUBSET Dates
  BY DEF Recorded
<1> QED BY <1>1, <1>2, FS_Subset, FS_CardinalityType

\* The day 0 is counted apart from the days since.
LEMMA DayZeroApart ==
  Cardinality(Recorded(Dates)) =
    Cardinality(Since(LastDate)) + (IF records[0] # 0 THEN 1 ELSE 0)
<1>1. IsFiniteSet(Since(LastDate)) /\ Cardinality(Since(LastDate)) \in Nat
  BY RecordedFinite, LearningNumbers DEF Since
<1>2. 0 \notin Since(LastDate)
  BY DEF Since, Recorded
<1>3. CASE records[0] # 0
  <2>1. Recorded(Dates) = Since(LastDate) \cup {0}
    BY <1>3, LearningNumbers DEF Since, Recorded
  <2> QED BY <1>1, <1>2, <1>3, <2>1, FS_AddElement
<1>4. CASE records[0] = 0
  <2>1. Recorded(Dates) = Since(LastDate)
    BY <1>4, LearningNumbers DEF Since, Recorded
  <2> QED BY <1>1, <1>4, <2>1
<1> QED BY <1>3, <1>4

\* Until today's check-in no record is of today or later; it adds one day to
\* the count, and the records before it keep theirs.
LEMMA CheckInCounted ==
  ASSUME HistoryInv, CheckingIn, UNCHANGED <<today, base>>
  PROVE  DaysInOrder' /\ DaysCounted'
<1>0. /\ profile \in Profile /\ today \in Dates /\ records \in [Dates -> Nat]
      /\ base \in Nat
  BY DEF HistoryInv, LearningTypeOK
<1>1. /\ profile.days \in Nat /\ profile.last \in Dates \cup {NoDate}
      /\ today \in Nat /\ profile.last \in Int
  BY <1>0, LearningNumbers DEF Profile
<1>2. /\ profile'.days = profile.days + 1 /\ profile'.last = today
      /\ records'[today] = profile.days + 1
      /\ \A d \in Dates : d # today => records'[d] = records[d]
      /\ records[today] = 0
  BY <1>0 DEF CheckingIn, Profile
<1>3. profile.last < today /\ \A d \in Dates : records[d] # 0 => d < today
  <2>1. profile.last < today
    BY <1>1 DEF CheckingIn, HistoryInv, DaysInOrder
  <2> QED BY <2>1, <1>1, LearningNumbers DEF HistoryInv, DaysInOrder
<1>4. DaysInOrder'
  <2>1. \A d \in Dates : records'[d] # 0 => d <= today
    BY <1>2, <1>3, <1>1, LearningNumbers
  <2> QED BY <1>1, <1>2, <2>1, LearningNumbers DEF DaysInOrder
<1>5. Recorded(Dates)' = Recorded(Dates) \cup {today} /\ today \notin Recorded(Dates)
  <2>1. records'[today] # 0
    BY <1>1, <1>2
  <2> QED BY <2>1, <1>0, <1>2 DEF Recorded
<1>6. Cardinality(Recorded(Dates)') = Cardinality(Recorded(Dates)) + 1
  BY <1>5, RecordedFinite, FS_AddElement
<1>7. \A d \in Dates : d < today => Since(d)' = Since(d)
  BY <1>2, LearningNumbers DEF Since, Recorded, Dates
<1>8. CASE today = 0
  <2>1. base = 0
    BY <1>0, <1>1, <1>3, <1>8, LearningNumbers DEF HistoryInv, DaysInOrder
  <2>2. Since(LastDate)' = {}
    BY <1>2, <1>3, <1>8, LearningNumbers DEF Since, Recorded
  <2> QED BY <2>1, <2>2, <1>2, <1>4, <1>6 DEF HistoryInv, DaysCounted
<1>9. CASE today # 0
  <2>1. today \in 1..LastDate /\ records'[0] = records[0]
    BY <1>0, <1>2, <1>9, LearningNumbers
  <2>2. /\ Since(LastDate)' = Since(LastDate) \cup {today}
        /\ today \notin Since(LastDate)
    BY <2>1, <1>1, <1>2, LearningNumbers DEF Since, Recorded
  <2>3. /\ Cardinality(Since(LastDate)') = Cardinality(Since(LastDate)) + 1
        /\ Cardinality(Since(LastDate)) \in Nat
    BY <2>2, RecordedFinite, FS_AddElement, LearningNumbers DEF Since
  <2>4. Since(today)' = Since(LastDate)'
    BY <2>1, <1>2, <1>3, LearningNumbers DEF Since, Recorded, Dates
  <2>5. \A d \in Since(LastDate)' :
          records'[d] = Cardinality(Since(d)') + (IF base > 0 THEN base
                                           ELSE IF records'[0] # 0 THEN 1 ELSE 0)
    <3>1. ASSUME NEW d \in Since(LastDate)'
          PROVE  \/ d = today
                 \/ d \in Since(LastDate) /\ d \in Dates /\ d < today
      BY <2>2, <1>3, LearningNumbers DEF Since, Recorded
    <3>2. ASSUME NEW d \in Since(LastDate), d \in Dates, d < today
          PROVE  records'[d] = Cardinality(Since(d)') + (IF base > 0 THEN base
                                           ELSE IF records'[0] # 0 THEN 1 ELSE 0)
      <4>1. records'[d] = records[d]
        BY <1>2, <1>1, <3>2, LearningNumbers
      <4>2. Since(d)' = Since(d)
        BY <1>7, <3>2
      <4> QED BY <4>1, <4>2, <2>1 DEF HistoryInv, DaysCounted
    <3>3. records'[today] = Cardinality(Since(today)') + (IF base > 0 THEN base
                                           ELSE IF records'[0] # 0 THEN 1 ELSE 0)
      <4>1. CASE base > 0
        BY <4>1, <2>3, <2>4, <1>0, <1>2 DEF HistoryInv, DaysCounted
      <4>2. CASE ~(base > 0)
        <5>1. base = 0 /\ profile.days = Cardinality(Recorded(Dates))
          BY <4>2, <1>0 DEF HistoryInv, DaysCounted
        <5> QED BY <5>1, <4>2, <2>1, <2>3, <2>4, <1>2, DayZeroApart
      <4> QED BY <4>1, <4>2
    <3> QED BY <3>1, <3>2, <3>3
  <2>6. base > 0 => profile'.days = base + Cardinality(Since(LastDate)')
    BY <2>3, <1>0, <1>2 DEF HistoryInv, DaysCounted
  <2>7. base = 0 => profile'.days = Cardinality(Recorded(Dates)')
    BY <1>2, <1>6 DEF HistoryInv, DaysCounted
  <2> QED BY <2>5, <2>6, <2>7, <1>4 DEF DaysCounted
<1> QED BY <1>8, <1>9

LEMMA HistoryStep ==
  ASSUME HistoryInv, [LearningNext]_learningVars
  PROVE  HistoryInv'
<1>0. /\ LearningTypeOK /\ LearningTypeOK' /\ base' = base /\ DayStep
      /\ profile.last \in Int /\ today \in Int /\ base \in Nat
      /\ records \in [Dates -> Nat]
  <2>1. LearningTypeOK /\ LearningTypeOK' /\ base' = base /\ DayStep
    BY DayStepKinds, LearningTypes DEF HistoryInv
  <2> QED BY <2>1, LearningNumbers DEF LearningTypeOK, Profile
<1>1. DaysInOrder' /\ DaysCounted'
  <2>1. CASE /\ SameDays /\ UNCHANGED records
             /\ today' = today \/ today' = today + 1
    <3>1. \A S : Recorded(S)' = Recorded(S)
      BY <2>1 DEF Recorded
    <3>2. DaysCounted'
      BY <2>1, <3>1, <1>0 DEF HistoryInv, DaysCounted, SameDays, Since
    <3>3. DaysInOrder'
      BY <2>1, <1>0 DEF HistoryInv, DaysInOrder, SameDays
    <3> QED BY <3>2, <3>3
  <2>2. ASSUME SameDays, UNCHANGED today, base > 0, records[0] = 0,
               NEW n \in Nat \ {0}, records' = [records EXCEPT ![0] = n]
        PROVE  DaysInOrder' /\ DaysCounted'
    <3>1. \A d \in Dates : d # 0 => records'[d] = records[d]
      BY <2>2, <1>0
    <3>2. \A d \in Dates : Since(d)' = Since(d)
      BY <3>1, LearningNumbers DEF Since, Recorded, Dates
    <3>3. LastDate \in Dates /\ \A d \in Since(LastDate) : d \in Dates /\ d # 0
      BY LearningNumbers DEF Since, Recorded, Dates
    <3>4. DaysCounted'
      BY <3>1, <3>2, <3>3, <2>2, <1>0 DEF HistoryInv, DaysCounted, SameDays
    <3>5. profile.last >= 0 /\ profile.last \in Dates
      BY <2>2, <1>0, LearningNumbers DEF HistoryInv, DaysInOrder, LearningTypeOK, Profile
    <3>6. DaysInOrder'
      BY <3>1, <3>5, <2>2, <1>0, LearningNumbers DEF HistoryInv, DaysInOrder, SameDays
    <3> QED BY <3>4, <3>6
  <2>3. CASE CheckingIn /\ UNCHANGED today
    BY <2>3, <1>0, CheckInCounted
  <2> QED BY <1>0, <2>1, <2>2, <2>3 DEF DayStep
<1>2. SnapshotsInOrder'
  <2>1. ASSUME NEW p \in Pupils, Enter(p)
        PROVE  SnapshotsInOrder'
    <3>1. /\ pupil'[p].profile = profile /\ pupil'[p].records = records
          /\ \A q \in Pupils : q # p => pupil'[q] = pupil[q]
      BY <2>1, <1>0 DEF Enter, LearningTypeOK
    <3>2. profile.last # NoDate /\ records[profile.last] = 0 =>
            profile.last = 0 /\ base > 0
      BY <1>0, LastDayRecorded DEF HistoryInv
    <3> QED BY <3>1, <3>2, <1>0 DEF HistoryInv, SnapshotsInOrder
  <2>2. ASSUME NEW p \in Pupils, Exit(p)
        PROVE  SnapshotsInOrder'
    <3>1. \A q \in Pupils : pupil'[q] = pupil[q] \/ pupil'[q] = Outside
      BY <2>2, <1>0 DEF Exit, LearningTypeOK
    <3> QED BY <3>1, <1>0 DEF HistoryInv, SnapshotsInOrder
  <2>3. CASE UNCHANGED pupil
    BY <2>3, <1>0 DEF HistoryInv, SnapshotsInOrder
  <2> QED BY <2>1, <2>2, <2>3
       DEF LearningNext, learningVars, DayPasses, study_check_in, create_study_order,
           mark_order_paid, finalize_refund, Fail, learning_center,
           update_learning_profile, complete_learning_onboarding, mock_pay
<1>3. ~slipped' => profile'.version = answered'
  <2>1. ASSUME NEW p \in Pupils, NEW v \in 1..MaxVersion,
               complete_learning_onboarding(p, v), ~slipped'
        PROVE  profile'.version = answered'
    <3>1. v \in 0..MaxVersion /\ AddProfile(pupil[p].profile, [profile EXCEPT !.version = v])
      BY <2>1, LearningNumbers DEF complete_learning_onboarding
    <3>2. profile'.version = v
      BY <3>1, <1>0, ProfileWrites
    <3>3. /\ ~slipped /\ pupil[p].profile.version = profile.version
          /\ v > pupil[p].profile.version
          /\ answered' = IF v > answered THEN v ELSE answered
      BY <2>1 DEF complete_learning_onboarding
    <3> QED BY <3>2, <3>3 DEF HistoryInv
  <2>2. ASSUME UNCHANGED <<answered, slipped>>, profile'.version = profile.version
        PROVE  ~slipped' => profile'.version = answered'
    BY <2>2 DEF HistoryInv
  <2>3. ASSUME NEW p \in Pupils, learning_center(p)
        PROVE  UNCHANGED <<answered, slipped>> /\ profile'.version = profile.version
    BY <2>3, <1>0, ProfileWrites DEF learning_center
  <2>4. ASSUME NEW p \in Pupils, update_learning_profile(p)
        PROVE  UNCHANGED <<answered, slipped>> /\ profile'.version = profile.version
    BY <2>4, <1>0, ProfileWrites DEF update_learning_profile
  <2>5. ASSUME NEW p \in Pupils, NEW i \in OrderIds, mock_pay(p, i)
        PROVE  UNCHANGED <<answered, slipped>> /\ profile'.version = profile.version
    BY <2>5, <1>0, ProfileWrites DEF mock_pay, grant_entitlement
  <2>6. ASSUME NEW p \in Pupils, NEW i \in OrderIds, mark_order_paid(p, i)
        PROVE  UNCHANGED <<answered, slipped>> /\ profile'.version = profile.version
    BY <2>6, <1>0, ProfileWrites DEF mark_order_paid
  <2>7. CASE study_check_in
    <3>1. profile'.version = profile.version
      BY <2>7, <1>0 DEF study_check_in, LearningTypeOK, Profile
    <3> QED BY <3>1, <2>7, <2>2 DEF study_check_in
  <2> QED BY <2>1, <2>2, <2>3, <2>4, <2>5, <2>6, <2>7
       DEF LearningNext, learningVars, DayPasses, create_study_order,
           finalize_refund, Enter, Fail
<1> QED BY <1>0, <1>1, <1>2, <1>3 DEF HistoryInv

\* Whatever requests of the user overlap, the profile counts every day with a
\* check-in once, each record carries the count of its day, and the onboarding
\* version is the highest answered unless two onboardings overlapped: for any
\* number of requests, days and versions.
THEOREM DaysAreCountedOnce == LearningSpec => []ProfileAgreesWithHistory
<1>1. LearningInit => HistoryInv
  <2> SUFFICES ASSUME LearningInit PROVE HistoryInv
    OBVIOUS
  <2>1. LearningTypeOK
    <3>1. 0 \in 0..MaxVersion /\ 0 \in Dates /\ Shelf0 \in Nat
      BY LearningBounds, LearningNumbers
    <3>2. profile \in Profile /\ base \in Nat
      <4>1. NoProfile \in Profile
        BY <3>1 DEF Profile, NoProfile
      <4>2. [exists |-> TRUE, days |-> 2, last |-> 0, version |-> 0] \in Profile
        BY <3>1 DEF Profile
      <4>3. profile \in Profile
        BY <4>1, <4>2, Zenon DEF LearningInit
      <4>4. base \in Nat
        BY DEF LearningInit
      <4> QED BY <4>3, <4>4
    <3>3. /\ records \in [Dates -> Nat]
          /\ rights \in [Tables -> [OrderIds -> {"none", "active", "expired"}]]
          /\ pupil \in [Pupils -> Inside \cup {Outside}]
      BY DEF LearningInit
    <3> QED BY <3>1, <3>2, <3>3 DEF LearningInit, LearningTypeOK
  <2>2. Recorded(Dates) = {} /\ Since(LastDate) = {}
    BY LearningNumbers DEF LearningInit, Recorded, Since
  <2>3. DaysCounted
    BY <2>2, FS_EmptySet DEF LearningInit, NoProfile, DaysCounted
  <2>4. DaysInOrder
    BY LearningNumbers DEF LearningInit, NoProfile, DaysInOrder
  <2>5. SnapshotsInOrder /\ (~slipped => profile.version = answered)
    BY DEF LearningInit, NoProfile, SnapshotsInOrder
  <2> QED BY <2>1, <2>3, <2>4, <2>5 DEF HistoryInv
<1>2. HistoryInv => ProfileAgreesWithHistory
  BY DEF HistoryInv, DaysCounted, DaysInOrder, ProfileAgreesWithHistory, Since
<1> QED BY <1>1, <1>2, HistoryStep, PTL DEF LearningSpec

-----------------------------------------------------------------------------
(* Snowflake.                                                              *)

\* Until a restart is followed by a clock that went back, every id a generator
\* gave out lies before its last one, or it waits for the next millisecond.
SnowInv ==
  /\ SnowTypeOK
  /\ \A g \in waiting : gen[g] # New /\ waiting = {g}
  /\ \A g \in Generators : gen[g].last = -1 => gen[g] = New
  /\ ~rewound =>
       /\ ~repeated
       /\ \A g \in Generators : gen[g] # New =>
            \A i \in given[g] : \/ i.ts < gen[g].last
                                \/ /\ i.ts = gen[g].last
                                   /\ i.seq <= gen[g].sequence \/ g \in waiting

LEMMA IssueStep ==
  ASSUME SnowInv, NEW g \in Generators, NEW ts \in Clock,
         NEW seq \in 0..SeqSize - 1, Issue(g, ts, seq), waiting' = {},
         waiting \subseteq {g},
         \/ ts > gen[g].last
         \/ ts = gen[g].last /\ seq > gen[g].sequence /\ waiting = {}
  PROVE  SnowInv'
<1> DEFINE id == [ts |-> ts, seq |-> seq]
           next == [last |-> ts, sequence |-> seq]
<1>1. /\ gen' = [gen EXCEPT ![g] = next]
      /\ given' = [given EXCEPT ![g] = given[g] \cup {id}]
      /\ repeated' = (repeated \/ id \in given[g])
      /\ rewound' = (rewound \/ (gen[g] = New /\ \E i \in given[g] : i.ts >= ts))
      /\ clock' = clock
  BY DEF Issue
<1>2. /\ gen[g].last \in Clock \cup {-1} /\ gen[g].sequence \in 0..SeqSize - 1
      /\ given[g] \subseteq Id
  BY DEF SnowInv, SnowTypeOK
<1>3. next \in [last : Clock \cup {-1}, sequence : 0..SeqSize - 1] /\ id \in Id
      /\ next # New /\ next.last = ts /\ next.sequence = seq
      /\ id.ts = ts /\ id.seq = seq
  BY DEF Id, New, Clock
<1>4. SnowTypeOK'
  BY <1>1, <1>3 DEF SnowInv, SnowTypeOK
<1>5. /\ gen'[g] = next /\ given'[g] = given[g] \cup {id}
      /\ \A h \in Generators : h # g => gen'[h] = gen[h] /\ given'[h] = given[h]
  BY <1>1 DEF SnowInv, SnowTypeOK
<1>6. ASSUME ~rewound'
      PROVE  \A i \in given[g] : i.ts < ts \/ (i.ts = ts /\ i.seq < seq)
  <2> SUFFICES ASSUME NEW i \in given[g]
               PROVE  i.ts < ts \/ (i.ts = ts /\ i.seq < seq)
    OBVIOUS
  <2>1. i.ts \in 0..MaxClock /\ i.seq \in 0..SeqSize - 1
    BY <1>2 DEF Id, Clock
  <2>2. CASE gen[g] = New
    <3>1. ts \in Int /\ i.ts \in Int
      BY <2>1, ClockAssumption DEF Clock
    <3>2. ~(i.ts >= ts)
      BY <1>1, <1>6, <2>2
    <3> QED BY <3>1, <3>2
  <2>3. CASE gen[g] # New
    <3>1. i.ts < gen[g].last \/ (i.ts = gen[g].last
                                  /\ (i.seq <= gen[g].sequence \/ g \in waiting))
      BY <1>1, <1>6, <2>3 DEF SnowInv
    <3> QED BY <3>1, <2>1, <1>2, ClockAssumption, SeqAssumption DEF Clock
  <2> QED BY <2>2, <2>3
<1>7. ASSUME ~rewound'
      PROVE  ~repeated'
  <2>1. ~repeated
    BY <1>1, <1>7 DEF SnowInv
  <2>2. id \notin given[g]
    BY <1>3, <1>6, <1>7, ClockAssumption DEF Clock
  <2> QED BY <1>1, <2>1, <2>2
<1>8. ASSUME ~rewound', NEW h \in Generators, gen'[h] # New, NEW i \in given'[h]
      PROVE  i.ts < gen'[h].last \/ (i.ts = gen'[h].last /\ i.seq <= gen'[h].sequence)
  <2>1. CASE h = g
    <3>1. CASE i = id
      BY <2>1, <3>1, <1>3, <1>5, SeqAssumption
    <3>2. CASE i \in given[g]
      <4>1. i.seq \in 0..SeqSize - 1
        BY <3>2, <1>2 DEF Id
      <4> QED BY <2>1, <3>2, <4>1, <1>3, <1>5, <1>6, <1>8, SeqAssumption
    <3> QED BY <2>1, <3>1, <3>2, <1>5, <1>8
  <2>2. CASE h # g
    BY <2>2, <1>1, <1>5, <1>8 DEF SnowInv
  <2> QED BY <2>1, <2>2
<1>9. \A h \in Generators : gen'[h].last = -1 => gen'[h] = New
  BY <1>3, <1>5, ClockAssumption DEF SnowInv, Clock
<1> HIDE DEF id, next
<1> QED BY <1>4, <1>7, <1>8, <1>9 DEF SnowInv

LEMMA SnowStep ==
  ASSUME SnowInv, [SnowNext]_snowVars
  PROVE  SnowInv'
<1>1. CASE UNCHANGED snowVars
  BY <1>1 DEF snowVars, SnowInv, SnowTypeOK
<1>2. CASE Tick
  BY <1>2 DEF Tick, SnowInv, SnowTypeOK
<1>3. CASE Restart
  <2>1. New \in [last : Clock \cup {-1}, sequence : 0..SeqSize - 1]
    BY SeqAssumption DEF New
  <2> QED BY <1>3, <2>1 DEF Restart, SnowInv, SnowTypeOK
<1>4. ASSUME NEW g \in Generators, next_id(g)
      PROVE  SnowInv'
  <2> DEFINE following == (gen[g].sequence + 1) % SeqSize
  <2>0. /\ gen[g].last \in Clock \cup {-1} /\ gen[g].sequence \in 0..SeqSize - 1
        /\ clock \in Clock /\ waiting = {}
    BY <1>4 DEF SnowInv, SnowTypeOK, next_id
  <2>1. CASE clock > gen[g].last /\ Issue(g, clock, 0) /\ UNCHANGED waiting
    BY <2>0, <2>1, SeqAssumption, IssueStep
  <2>2. CASE clock = gen[g].last /\ following # 0
             /\ Issue(g, clock, following) /\ UNCHANGED waiting
    <3>1. following = gen[g].sequence + 1 /\ following \in 0..SeqSize - 1
      BY <2>0, <2>2, SeqAssumption
    <3> QED BY <2>0, <2>2, <3>1, IssueStep
  <2>3. CASE /\ clock = gen[g].last
             /\ waiting' = {g} /\ gen' = [gen EXCEPT ![g].sequence = 0]
             /\ UNCHANGED <<clock, given, repeated, rewound>>
    <3>1. /\ gen'[g].last = gen[g].last /\ gen'[g].sequence = 0
          /\ gen'[g] \in [last : Clock \cup {-1}, sequence : 0..SeqSize - 1]
          /\ gen' \in [Generators -> [last : Clock \cup {-1}, sequence : 0..SeqSize - 1]]
          /\ \A h \in Generators : h # g => gen'[h] = gen[h]
      BY <2>3, SeqAssumption DEF SnowInv, SnowTypeOK
    <3>2. gen[g].last # -1
      BY <2>0, <2>3, ClockAssumption DEF Clock
    <3>3. gen'[g] # New /\ gen[g] # New
      BY <3>1, <3>2 DEF New
    <3>4. SnowTypeOK'
      BY <2>3, <3>1 DEF SnowInv, SnowTypeOK
    <3>5. ASSUME ~rewound, NEW h \in Generators, gen'[h] # New, NEW i \in given[h]
          PROVE  i.ts < gen'[h].last \/ (/\ i.ts = gen'[h].last
                                         /\ i.seq <= gen'[h].sequence \/ h \in {g})
      BY <3>1, <3>3, <3>5, <2>0 DEF SnowInv
    <3> QED BY <2>3, <3>1, <3>2, <3>3, <3>4, <3>5 DEF SnowInv
  <2> QED BY <1>4, <2>1, <2>2, <2>3 DEF next_id
<1>5. ASSUME NEW g \in Generators, _wait_next_millis(g)
      PROVE  SnowInv'
  <2>1. /\ clock \in Clock /\ clock > gen[g].last /\ waiting = {g}
        /\ Issue(g, clock, 0) /\ waiting' = {}
    BY <1>5 DEF _wait_next_millis, SnowInv, SnowTypeOK
  <2> QED BY <2>1, SeqAssumption, IssueStep
<1> QED BY <1>1, <1>2, <1>3, <1>4, <1>5 DEF SnowNext

\* A kept generator gives no id out twice unless, after a restart, the clock
\* stood at or before the millisecond of an id it had given out: for every size
\* of the sequence and every course of the clock.
THEOREM IdsAreDistinct == SnowSpec => []IdsDistinct
<1>1. SnowInit => SnowInv
  <2> SUFFICES ASSUME SnowInit
               PROVE  SnowInv
    OBVIOUS
  <2>1. New \in [last : Clock \cup {-1}, sequence : 0..SeqSize - 1]
    BY SeqAssumption DEF New
  <2>2. 0 \in Clock
    BY ClockAssumption DEF Clock
  <2> QED BY <2>1, <2>2 DEF SnowInit, SnowInv, SnowTypeOK
<1>2. SnowInv => IdsDistinct
  BY DEF SnowInv, IdsDistinct
<1> QED BY <1>1, <1>2, SnowStep, PTL DEF SnowSpec

-----------------------------------------------------------------------------
(* Invitations.  The shape of the rows and of the snapshots.               *)

InviteTypes ==
  /\ relation \in [Relations -> Relation]
  /\ paid \in [Relations -> Nat]
  /\ visit \in [Visits -> Looking \cup {Away}]
  /\ spared \subseteq Relations

\* The rows are numbered without a gap.
Numbered == \E n \in Nat : Made = 1..n

\* A snapshot shows no row that does not exist.
SeenExists ==
  \A v \in Visits : visit[v] # Away =>
    \A i \in Relations : visit[v].seen[i].exists => relation[i].exists

\* Before the first transaction looks there is an account.
NobodyYet == invitee = "absent" => Made = {} /\ \A v \in Visits : visit[v] = Away

\* Nothing is paid for a row that does not exist, and one that was spared is
\* frozen for good: this is what makes RewardMatchesMark inductive.
PaidRowsExist ==
  /\ \A i \in Relations : ~relation[i].exists => paid[i] = 0
  /\ \A i \in spared : relation[i].exists /\ relation[i].frozen

RewardInv ==
  /\ InviteTypes
  /\ Numbered
  /\ SeenExists
  /\ NobodyYet
  /\ PaidRowsExist
  /\ RewardMatchesMark

-----------------------------------------------------------------------------
(* The ways in which a step changes the rows.                              *)

\* A row is made.
Making(i) ==
  /\ i \notin Made
  /\ Made' = Made \cup {i}
  /\ \E rewarded, abnormal \in BOOLEAN :
       /\ relation' = [relation EXCEPT ![i] =
                         [exists |-> TRUE, granted |-> rewarded, abnormal |-> abnormal,
                          frozen |-> FALSE]]
       /\ paid' = [paid EXCEPT ![i] = IF rewarded THEN 1 ELSE 0]
  /\ UNCHANGED <<spared, crossed>>

LEMMA MakingRelations ==
  ASSUME InviteTypes, Numbered, PaidRowsExist, NEW i \in Relations,
         NEW abnormal \in BOOLEAN, NEW reward \in BOOLEAN,
         NewRelation(i, abnormal, reward)
  PROVE  Making(i) /\ Numbered'
<1> DEFINE pays == reward /\ rule /\ ~abnormal
<1>1. PICK n \in Nat : Made = 1..n
  BY DEF Numbered
<1>2. Cardinality(Made) = n
  BY <1>1, FS_Interval
<1>3. i = n + 1 /\ i \notin Made
  BY <1>1, <1>2 DEF NewRelation
<1>4. relation' = [relation EXCEPT ![i] =
                     [exists |-> TRUE, granted |-> pays, abnormal |-> abnormal,
                      frozen |-> FALSE]]
  BY DEF NewRelation
<1>5. Made' = Made \cup {i}
  BY <1>4 DEF Made, InviteTypes
<1>6. paid[i] = 0
  BY <1>3 DEF Made, PaidRowsExist
<1>7. paid' = [paid EXCEPT ![i] = IF pays THEN 1 ELSE 0]
  BY <1>6 DEF NewRelation, InviteTypes
<1>8. Made' = 1..(n + 1)
  BY <1>1, <1>3, <1>5
<1>9. pays \in BOOLEAN
  OBVIOUS
<1>10. UNCHANGED <<spared, crossed>>
  BY DEF NewRelation
<1>11. Numbered'
  BY <1>8 DEF Numbered
<1> HIDE DEF pays
<1> QED BY <1>3, <1>4, <1>5, <1>7, <1>9, <1>10, <1>11 DEF Making

\* What a step may do to the rows and the rewards: nothing, make a row, pay for
\* rows a transaction saw as eligible, freeze a row.
RowsStep ==
  \/ UNCHANGED <<relation, paid, spared, crossed>>
  \/ \E i \in Relations : Making(i)
  \/ \E v \in Visits : /\ visit[v] # Away
                       /\ \E S \in SUBSET Eligible(visit[v].seen) : pay(v, S)
                       /\ UNCHANGED spared
  \/ \E i \in Relations : freeze_invite(i)

LEMMA GrantedRow ==
  ASSUME NEW x \in Relation
  PROVE  /\ [x EXCEPT !.granted = TRUE] \in Relation
         /\ [x EXCEPT !.granted = TRUE].granted
         /\ [x EXCEPT !.granted = TRUE].exists = x.exists
         /\ [x EXCEPT !.granted = TRUE].frozen = x.frozen
BY DEF Relation

LEMMA RewardRows ==
  ASSUME InviteTypes, SeenExists, PaidRowsExist, RewardMatchesMark, RowsStep
  PROVE  /\ relation' \in [Relations -> Relation]
         /\ paid' \in [Relations -> Nat]
         /\ spared' \subseteq Relations
         /\ Made \subseteq Made'
         /\ PaidRowsExist' /\ RewardMatchesMark'
<1> DEFINE Goal == /\ relation' \in [Relations -> Relation]
                   /\ paid' \in [Relations -> Nat]
                   /\ spared' \subseteq Relations
                   /\ Made \subseteq Made'
                   /\ PaidRowsExist' /\ RewardMatchesMark'
<1>1. CASE UNCHANGED <<relation, paid, spared, crossed>>
  BY <1>1 DEF InviteTypes, Made, PaidRowsExist, RewardMatchesMark
<1>2. ASSUME NEW i \in Relations, Making(i)
      PROVE  Goal
  <2>1. PICK pays \in BOOLEAN, abnormal \in BOOLEAN :
          /\ relation' = [relation EXCEPT ![i] =
                            [exists |-> TRUE, granted |-> pays, abnormal |-> abnormal,
                             frozen |-> FALSE]]
          /\ paid' = [paid EXCEPT ![i] = IF pays THEN 1 ELSE 0]
    BY <1>2 DEF Making
  <2>2. /\ relation' \in [Relations -> Relation] /\ paid' \in [Relations -> Nat]
        /\ relation'[i].exists /\ (relation'[i].granted <=> pays)
        /\ paid'[i] = (IF pays THEN 1 ELSE 0)
        /\ \A j \in Relations : j # i => relation'[j] = relation[j] /\ paid'[j] = paid[j]
    BY <2>1 DEF InviteTypes, Relation
  <2>3. i \notin Made /\ Made' = Made \cup {i} /\ UNCHANGED <<spared, crossed>>
    BY <1>2 DEF Making
  <2>4. i \notin spared
    BY <2>3 DEF PaidRowsExist, Made
  <2>5. PaidRowsExist'
    BY <2>2, <2>3, <2>4 DEF PaidRowsExist, InviteTypes
  <2>6. RewardMatchesMark'
    BY <2>2, <2>3, <2>4 DEF RewardMatchesMark, InviteTypes
  <2> QED BY <2>2, <2>3, <2>5, <2>6 DEF InviteTypes
<1>3. ASSUME NEW v \in Visits, visit[v] # Away,
             NEW S \in SUBSET Eligible(visit[v].seen), pay(v, S), spared' = spared
      PROVE  Goal
  <2>1. /\ S \subseteq Relations
        /\ \A i \in S : /\ visit[v].seen[i].exists /\ ~visit[v].seen[i].frozen
                        /\ relation[i].exists /\ paid[i] = 0
    BY <1>3 DEF Eligible, SeenExists, pay
  <2>2. /\ \A i \in S : /\ relation'[i] = [relation[i] EXCEPT !.granted = TRUE]
                        /\ paid'[i] = 1
        /\ \A i \in Relations \ S : relation'[i] = relation[i] /\ paid'[i] = paid[i]
        /\ paid' \in [Relations -> Nat]
    <3>1. /\ paid' = [i \in Relations |-> paid[i] + (IF i \in S THEN 1 ELSE 0)]
          /\ relation' = [i \in Relations |-> IF i \in S
                            THEN [relation[i] EXCEPT !.granted = TRUE] ELSE relation[i]]
      BY <1>3 DEF pay
    <3>2. \A i \in Relations : relation'[i] = IF i \in S
            THEN [relation[i] EXCEPT !.granted = TRUE] ELSE relation[i]
      BY <3>1
    <3>3. \A i \in Relations : paid[i] \in Nat
                              /\ paid'[i] = paid[i] + (IF i \in S THEN 1 ELSE 0)
      BY <3>1 DEF InviteTypes
    <3>4. paid' \in [Relations -> Nat]
      BY <3>1, <3>3
    <3>5. \A i \in S : relation'[i] = [relation[i] EXCEPT !.granted = TRUE]
      BY <2>1, <3>2
    <3>6. \A i \in S : paid'[i] = 1
      BY <2>1, <3>3
    <3>7. \A i \in Relations \ S : relation'[i] = relation[i]
      BY <3>2
    <3>8. \A i \in Relations \ S : paid'[i] = paid[i]
      BY <3>3
    <3> QED BY <3>4, <3>5, <3>6, <3>7, <3>8
  <2>3. relation' = [i \in Relations |-> relation'[i]]
    BY <1>3 DEF pay
  <2>4. \A i \in S : /\ relation'[i] \in Relation /\ relation'[i].granted
                     /\ relation'[i].exists
                     /\ (relation[i].frozen => relation'[i].frozen)
    <3> SUFFICES ASSUME NEW i \in S
                 PROVE  /\ relation'[i] \in Relation /\ relation'[i].granted
                        /\ relation'[i].exists
                        /\ (relation[i].frozen => relation'[i].frozen)
      OBVIOUS
    <3>1. relation[i] \in Relation /\ relation[i].exists
      BY <2>1 DEF InviteTypes
    <3>2. relation'[i] = [relation[i] EXCEPT !.granted = TRUE]
      BY <2>2
    <3> QED BY <3>1, <3>2, GrantedRow
  <2>5. relation' \in [Relations -> Relation]
    BY <2>1, <2>2, <2>3, <2>4 DEF InviteTypes
  <2>6. \A i \in S : i \in spared => i \in crossed'
    <3> SUFFICES ASSUME NEW i \in S, i \in spared
                 PROVE  i \in crossed'
      OBVIOUS
    <3>1. relation[i].frozen /\ ~visit[v].seen[i].frozen
      BY <2>1 DEF PaidRowsExist
    <3>2. relation[i] # visit[v].seen[i]
      BY <3>1
    <3> QED BY <1>3, <3>2 DEF pay
  <2>7. crossed \subseteq crossed'
    BY <1>3 DEF pay
  <2>8. PaidRowsExist'
    BY <1>3, <2>1, <2>2, <2>4 DEF PaidRowsExist, InviteTypes
  <2>9. RewardMatchesMark'
    <3>1. ASSUME NEW i \in Relations
          PROVE  /\ paid'[i] <= 1
                 /\ relation'[i].granted => paid'[i] = 1
                 /\ paid'[i] = 1 => relation'[i].granted \/ relation'[i].frozen
      <4>1. CASE i \in S
        <5>1. paid'[i] = 1
          BY <2>2, <4>1
        <5>2. relation'[i].granted
          BY <2>4, <4>1
        <5> QED BY <5>1, <5>2
      <4>2. CASE i \notin S
        BY <2>2, <4>2 DEF RewardMatchesMark
      <4> QED BY <4>1, <4>2
    <3>2. ASSUME NEW i \in spared' \ crossed'
          PROVE  paid'[i] = 0
      <4>1. i \in Relations \ S /\ i \in spared \ crossed
        BY <1>3, <2>6, <2>7 DEF InviteTypes
      <4> QED BY <2>2, <4>1 DEF RewardMatchesMark
    <3> QED BY <3>1, <3>2 DEF RewardMatchesMark
  <2>10. Made \subseteq Made'
    BY <2>1, <2>2, <2>4 DEF Made
  <2> QED BY <1>3, <2>2, <2>5, <2>8, <2>9, <2>10 DEF InviteTypes
<1>4. ASSUME NEW i \in Relations, freeze_invite(i)
      PROVE  Goal
  <2>1. /\ relation[i].exists
        /\ relation' = [relation EXCEPT ![i].frozen = TRUE, ![i].granted = FALSE]
        /\ spared' = IF paid[i] = 0 THEN spared \cup {i} ELSE spared
        /\ UNCHANGED <<paid, crossed>>
    BY <1>4 DEF freeze_invite
  <2>2. /\ relation' \in [Relations -> Relation]
        /\ relation'[i].exists /\ relation'[i].frozen /\ ~relation'[i].granted
        /\ \A j \in Relations : j # i => relation'[j] = relation[j]
    BY <2>1 DEF InviteTypes, Relation
  <2>3. PaidRowsExist'
    BY <2>1, <2>2 DEF PaidRowsExist, InviteTypes
  <2>4. RewardMatchesMark'
    BY <2>1, <2>2 DEF RewardMatchesMark, InviteTypes
  <2> QED BY <2>1, <2>2, <2>3, <2>4 DEF InviteTypes, Made
<1> QED BY <1>1, <1>2, <1>3, <1>4 DEF RowsStep

\* Every step of the specification is one of them.
LEMMA StepKinds ==
  ASSUME RewardInv, [InviteNext]_inviteVars
  PROVE  RowsStep /\ Numbered'
<1> USE DEF RewardInv
<1>1. CASE UNCHANGED <<relation, paid, spared, crossed>>
  BY <1>1 DEF RowsStep, Numbered, Made
<1>2. ASSUME NEW i \in Relations, NEW abnormal \in BOOLEAN, NEW reward \in BOOLEAN,
             NewRelation(i, abnormal, reward)
      PROVE  RowsStep /\ Numbered'
  BY <1>2, MakingRelations DEF RowsStep
<1>3. ASSUME NEW v \in Visits, visit[v].pc = "looking",
             NEW S \in SUBSET Eligible(visit[v].seen), pay(v, S), UNCHANGED spared
      PROVE  RowsStep /\ Numbered'
  <2>1. visit[v] # Away
    BY <1>3 DEF Away
  <2>2. Made' = Made
    BY <1>3 DEF pay, Made, InviteTypes, Relation
  <2> QED BY <1>3, <2>1, <2>2 DEF RowsStep, Numbered
<1>4. ASSUME NEW i \in Relations, freeze_invite(i)
      PROVE  RowsStep /\ Numbered'
  <2>1. Made' = Made
    BY <1>4 DEF freeze_invite, Made, InviteTypes, Relation
  <2> QED BY <1>4, <2>1 DEF RowsStep, Numbered
<1>5. CASE register_invited \/ wechat_invited
  BY <1>1, <1>2, <1>5 DEF register_invited, wechat_invited, NoNewRelation
<1>6. ASSUME NEW v \in Visits, NEW approved \in BOOLEAN, review_invited(v, approved)
      PROVE  RowsStep /\ Numbered'
  BY <1>1, <1>3, <1>6 DEF review_invited
<1>7. ASSUME NEW v \in Visits, backfill_invite_rewards(v)
      PROVE  RowsStep /\ Numbered'
  BY <1>3, <1>7 DEF backfill_invite_rewards
<1>8. ASSUME NEW v \in Visits, bind_invite(v)
      PROVE  RowsStep /\ Numbered'
  BY <1>2, <1>8 DEF bind_invite
<1>9. ASSUME NEW v \in Visits, Look(v) \/ Leave(v)
      PROVE  RowsStep /\ Numbered'
  BY <1>1, <1>9 DEF Look, Leave
<1>10. CASE update_point_rule \/ UNCHANGED inviteVars
  BY <1>1, <1>10 DEF update_point_rule, inviteVars
<1> QED BY <1>4, <1>5, <1>6, <1>7, <1>8, <1>9, <1>10 DEF InviteNext

\* A transaction looks at the rows as they are, goes on, or is over.
LEMMA VisitKinds ==
  ASSUME RewardInv, [InviteNext]_inviteVars
  PROVE  /\ visit' \in [Visits -> Looking \cup {Away}]
         /\ \A v \in Visits : \/ visit'[v] \in {visit[v], Away}
                              \/ /\ visit'[v] = [pc |-> "looking", seen |-> relation]
                                 /\ invitee # "absent" /\ relation' = relation
         /\ invitee' = "absent" =>
              /\ invitee = "absent" /\ relation' = relation /\ visit' = visit
<1> DEFINE Goal == /\ visit' \in [Visits -> Looking \cup {Away}]
                   /\ \A v \in Visits :
                        \/ visit'[v] \in {visit[v], Away}
                        \/ /\ visit'[v] = [pc |-> "looking", seen |-> relation]
                           /\ invitee # "absent" /\ relation' = relation
                   /\ invitee' = "absent" =>
                        /\ invitee = "absent" /\ relation' = relation /\ visit' = visit
<1> USE DEF RewardInv
<1>1. ASSUME NEW v \in Visits, Look(v)
      PROVE  Goal
  <2>1. [pc |-> "looking", seen |-> relation] \in Looking
    BY DEF Looking, InviteTypes
  <2> QED BY <1>1, <2>1 DEF Look, InviteTypes
<1>2. ASSUME NEW v \in Visits, visit' = [visit EXCEPT ![v] = Away], visit[v] # Away,
             invitee' # "absent" \/ invitee' = invitee
      PROVE  Goal
  BY <1>2 DEF InviteTypes, NobodyYet
<1>3. ASSUME NEW v \in Visits,
             \/ Leave(v) \/ bind_invite(v) \/ backfill_invite_rewards(v)
             \/ \E approved \in BOOLEAN : review_invited(v, approved)
      PROVE  Goal
  <2>0. visit' = [visit EXCEPT ![v] = Away] /\ (visit[v].pc = "looking" \/ visit[v] # Away)
    BY <1>3 DEF Leave, bind_invite, backfill_invite_rewards, review_invited
  <2>1. visit' = [visit EXCEPT ![v] = Away] /\ visit[v] # Away
    BY <2>0 DEF Away
  <2>2. invitee' # "absent" \/ invitee' = invitee
    BY <1>3 DEF Leave, bind_invite, backfill_invite_rewards, review_invited
  <2> QED BY <1>2, <2>1, <2>2
<1>4. CASE register_invited \/ wechat_invited
  BY <1>4 DEF register_invited, wechat_invited, InviteTypes
<1>5. ASSUME NEW i \in Relations, freeze_invite(i)
      PROVE  Goal
  BY <1>5 DEF freeze_invite, InviteTypes, NobodyYet, Made
<1>6. CASE update_point_rule \/ UNCHANGED inviteVars
  BY <1>6 DEF update_point_rule, inviteVars, InviteTypes
<1> QED BY <1>1, <1>3, <1>4, <1>5, <1>6 DEF InviteNext

LEMMA RewardStep ==
  ASSUME RewardInv, [InviteNext]_inviteVars
  PROVE  RewardInv'
<1>1. /\ relation' \in [Relations -> Relation]
      /\ paid' \in [Relations -> Nat]
      /\ spared' \subseteq Relations
      /\ Made \subseteq Made'
      /\ PaidRowsExist' /\ RewardMatchesMark' /\ Numbered'
  BY StepKinds, RewardRows DEF RewardInv
<1>2. InviteTypes'
  BY <1>1, VisitKinds DEF InviteTypes
<1>3. SeenExists'
  <2> SUFFICES ASSUME NEW v \in Visits, visit'[v] # Away, NEW i \in Relations,
                      visit'[v].seen[i].exists
               PROVE  relation'[i].exists
    BY DEF SeenExists
  <2>1. CASE visit'[v] = visit[v]
    BY <1>1, <2>1 DEF RewardInv, SeenExists, Made
  <2>2. CASE visit'[v] = [pc |-> "looking", seen |-> relation] /\ relation' = relation
    BY <2>2
  <2> QED BY <2>1, <2>2, VisitKinds
<1>4. NobodyYet'
  BY VisitKinds DEF RewardInv, NobodyYet, Made
<1> QED BY <1>1, <1>2, <1>3, <1>4 DEF RewardInv

LEMMA RewardInit ==
  ASSUME InviteInit
  PROVE  RewardInv
<1>1. NoRelation \in Relation
  BY DEF NoRelation, Relation
<1>2. InviteTypes
  BY <1>1 DEF InviteInit, InviteTypes
<1>3. Made = {} /\ \A i \in Relations : relation[i] = NoRelation
  BY DEF InviteInit, Made, NoRelation
<1>4. Numbered
  <2>1. Made = 1..0
    BY <1>3
  <2> QED BY <2>1 DEF Numbered
<1>5. PaidRowsExist /\ SeenExists /\ NobodyYet
  BY <1>3 DEF InviteInit, PaidRowsExist, SeenExists, NobodyYet
<1>6. RewardMatchesMark
  BY <1>3 DEF InviteInit, RewardMatchesMark, NoRelation
<1> QED BY <1>2, <1>4, <1>5, <1>6 DEF RewardInv

\* A relation is rewarded at most once, the marks agree with the ledger, and one
\* frozen before its reward is paid for only by a transaction that had looked.
THEOREM RewardsMatchMarks == InviteSpec => []RewardMatchesMark
<1>1. RewardInv => RewardMatchesMark
  BY DEF RewardInv
<1> QED BY <1>1, RewardInit, RewardStep, PTL DEF InviteSpec

-----------------------------------------------------------------------------
(* Binding.                                                                *)

LEMMA VisitCounts ==
  ASSUME NEW S \in SUBSET Visits
  PROVE  /\ Cardinality(S) \in Nat /\ Cardinality(Visits) \in Nat
         /\ Cardinality(S) <= Cardinality(Visits) /\ Cardinality(Visits) >= 1
         /\ \A T \in SUBSET S : Cardinality(T) \in Nat /\ Cardinality(T) <= Cardinality(S)
         /\ \A v \in S : Cardinality(S \ {v}) = Cardinality(S) - 1
<1>1. IsFiniteSet(S)
  BY VisitsAssumption, FS_Subset
<1>2. \A T \in SUBSET S : IsFiniteSet(T) /\ Cardinality(T) <= Cardinality(S)
  BY <1>1, FS_Subset
<1>3. \A v \in S : Cardinality(S \ {v}) = Cardinality(S) - 1
  BY <1>1, FS_RemoveElement
<1>4. Cardinality(Visits) \in Nat /\ Cardinality(Visits) # 0
  BY VisitsAssumption, FS_CardinalityType, FS_EmptySet
<1> QED BY <1>1, <1>2, <1>3, <1>4, VisitsAssumption, FS_Subset, FS_CardinalityType

LEMMA MadeCounts ==
  ASSUME Numbered
  PROVE  Cardinality(Made) \in Nat /\ IsFiniteSet(Made)
BY FS_Interval, FS_CardinalityType DEF Numbered

LEMMA BindingStep ==
  ASSUME RewardInv, BoundByUnawareOnly, [InviteNext]_inviteVars
  PROVE  BoundByUnawareOnly'
<1> DEFINE V == Cardinality(Visits)
           U == Cardinality(Unaware)
           M == Cardinality(Made)
<1>0. /\ V \in Nat /\ V >= 1 /\ U \in Nat /\ U <= V /\ M \in Nat /\ IsFiniteSet(Made)
      /\ Unaware \in SUBSET Visits /\ InviteTypes /\ Numbered
  BY VisitCounts, MadeCounts DEF Unaware, RewardInv
<1>1. ASSUME Made' = Made, Unaware' \subseteq Unaware
      PROVE  BoundByUnawareOnly'
  <2>1. Cardinality(Unaware') \in Nat /\ Cardinality(Unaware') <= U
    BY <1>0, <1>1, VisitCounts
  <2> QED BY <1>0, <1>1, <2>1 DEF BoundByUnawareOnly
<1>2. ASSUME NEW i \in Relations, Making(i)
      PROVE  Cardinality(Made') = M + 1
  BY <1>0, <1>2, FS_AddElement DEF Making
<1>3. ASSUME NEW v \in Visits, visit' = [visit EXCEPT ![v] = Away]
      PROVE  Unaware' \subseteq Unaware \ {v}
  BY <1>0, <1>3 DEF Unaware, Away, InviteTypes
<1>4. CASE register_invited \/ wechat_invited
  <2>1. Made = {} /\ Unaware' = {}
    <3>1. \A v \in Visits : visit'[v] = Away
      BY <1>4 DEF register_invited, wechat_invited, RewardInv, NobodyYet
    <3>2. Away.pc # "looking"
      BY DEF Away
    <3>3. Unaware' = {}
      BY <3>1, <3>2 DEF Unaware
    <3>4. Made = {}
      BY <1>4 DEF register_invited, wechat_invited, RewardInv, NobodyYet
    <3> QED BY <3>3, <3>4
  <2>2. M = 0 /\ Cardinality(Unaware') = 0
    BY <2>1, FS_EmptySet
  <2>3. CASE NoNewRelation
    BY <1>1, <2>1, <2>3 DEF NoNewRelation, Made
  <2>4. ASSUME NEW i \in Relations, NEW abnormal \in BOOLEAN, NEW reward \in BOOLEAN,
               NewRelation(i, abnormal, reward)
        PROVE  BoundByUnawareOnly'
    <3>1. Making(i)
      BY <2>4, MakingRelations DEF RewardInv
    <3>2. Cardinality(Made') = 1
      BY <1>0, <1>2, <2>2, <3>1
    <3> QED BY <1>0, <2>2, <3>2 DEF BoundByUnawareOnly
  <2> QED BY <1>4, <2>3, <2>4 DEF register_invited, wechat_invited
<1>5. ASSUME NEW v \in Visits, bind_invite(v)
      PROVE  BoundByUnawareOnly'
  <2>1. v \in Unaware /\ visit' = [visit EXCEPT ![v] = Away]
    BY <1>5 DEF bind_invite, Unaware
  <2>2. PICK i \in Relations, abnormal \in BOOLEAN : NewRelation(i, abnormal, TRUE)
    BY <1>5 DEF bind_invite
  <2>3. Making(i)
    BY <2>2, MakingRelations DEF RewardInv
  <2>4. Cardinality(Made') = M + 1
    BY <1>2, <2>3
  <2>5. Cardinality(Unaware \ {v}) = U - 1 /\ Unaware \ {v} \in SUBSET Visits
    BY <1>0, <2>1, VisitCounts
  <2>6. Cardinality(Unaware') \in Nat /\ Cardinality(Unaware') <= U - 1
    BY <1>3, <2>1, <2>5, VisitCounts
  <2>7. CASE Made = {}
    <3>1. M = 0
      BY <2>7, FS_EmptySet
    <3> QED BY <1>0, <2>4, <2>6, <3>1 DEF BoundByUnawareOnly
  <2>8. CASE Made # {}
    BY <1>0, <2>4, <2>6, <2>8 DEF BoundByUnawareOnly
  <2> QED BY <2>7, <2>8
<1>6. ASSUME NEW v \in Visits, Look(v)
      PROVE  BoundByUnawareOnly'
  <2>1. relation' = relation /\ visit' = [visit EXCEPT ![v] = [pc |-> "looking",
                                                              seen |-> relation]]
    BY <1>6 DEF Look
  <2>2. Made' = Made
    BY <2>1 DEF Made
  <2>3. CASE Made = {}
    BY <2>2, <2>3 DEF BoundByUnawareOnly
  <2>4. CASE Made # {}
    <3>1. Unaware' \subseteq Unaware
      BY <1>0, <2>1, <2>4 DEF Unaware, Made, InviteTypes
    <3> QED BY <1>1, <2>2, <3>1
  <2> QED BY <2>3, <2>4
<1>7. ASSUME NEW v \in Visits, relation' = relation
                 \/ \E S \in SUBSET Relations : pay(v, S),
             visit' = [visit EXCEPT ![v] = Away]
      PROVE  BoundByUnawareOnly'
  <2>1. Made' = Made
    <3>1. CASE relation' = relation
      BY <3>1 DEF Made
    <3>2. ASSUME NEW S \in SUBSET Relations, pay(v, S)
          PROVE  Made' = Made
      <4>1. \A j \in Relations : relation'[j] = IF j \in S
              THEN [relation[j] EXCEPT !.granted = TRUE] ELSE relation[j]
        BY <3>2 DEF pay
      <4>2. \A j \in Relations : relation'[j].exists = relation[j].exists
        BY <1>0, <4>1, GrantedRow DEF InviteTypes
      <4> QED BY <4>2 DEF Made
    <3> QED BY <1>7, <3>1, <3>2
  <2> QED BY <1>1, <1>3, <1>7, <2>1
<1>8. ASSUME NEW v \in Visits,
             \/ Leave(v) \/ backfill_invite_rewards(v)
             \/ \E approved \in BOOLEAN : review_invited(v, approved)
      PROVE  BoundByUnawareOnly'
  <2>1. Eligible(visit[v].seen) \subseteq Relations
    BY DEF Eligible
  <2> QED BY <1>7, <1>8, <2>1 DEF Leave, backfill_invite_rewards, review_invited
<1>9. ASSUME NEW i \in Relations, freeze_invite(i)
      PROVE  BoundByUnawareOnly'
  <2>1. Made' = Made
    BY <1>0, <1>9 DEF freeze_invite, Made, InviteTypes, Relation
  <2>2. Unaware' = Unaware
    BY <1>9 DEF freeze_invite, Unaware
  <2> QED BY <1>1, <2>1, <2>2
<1>10. CASE update_point_rule \/ UNCHANGED inviteVars
  BY <1>1, <1>10 DEF update_point_rule, inviteVars, Made, Unaware
<1> QED BY <1>4, <1>5, <1>6, <1>8, <1>9, <1>10 DEF InviteNext

\* However many transactions overlap, the invitee is bound no more often than
\* they can run at the same time.
THEOREM BindingsAreBounded == InviteSpec => []BoundByUnawareOnly
<1>1. InviteInit => BoundByUnawareOnly
  BY DEF InviteInit, BoundByUnawareOnly, Made, NoRelation
<1> QED BY <1>1, RewardInit, RewardStep, BindingStep, PTL DEF InviteSpec
-----------------------------------------------------------------------------
(* Decoration.                                                             *)

\* The publications are numbered in the order of their commits, no version is
\* beyond what publications and saves account for, and nobody holds a
\* publication that was never committed.
ConfigInv ==
  /\ ConfigTypeOK
  /\ Count \in Publications
  /\ DOMAIN published = 1..Count
  /\ \A n \in DOMAIN published : published[n] <= n + draft
  /\ \A p \in Publishers : publisher[p].last <= Count + draft
  /\ copy <= Count
  /\ \A v \in Visitors : visitor[v] <= Count
  /\ ~tied => \A m, n \in DOMAIN published : m < n => published[m] < published[n]

\* What Redis or a visitor may still serve that is not the last publication.
StaleCopies == ({copy} \cup {visitor[v] : v \in Visitors}) \ {0, Count}

\* The newest publication a visitor finds is the one committed last, unless two
\* publications overlapped.
NewestIsLast == ~tied => \A n \in DOMAIN published : newest(n) => n = Count

\* Between two commits no step adds a stale publication to those held.
StaleCopiesDrain == [][Count' = Count /\ ~tied => StaleCopies' \subseteq StaleCopies]_configVars

LEMMA ConfigInit0 == ConfigInit => ConfigInv
<1> SUFFICES ASSUME ConfigInit PROVE ConfigInv
  OBVIOUS
<1>1. DOMAIN published = {}
  BY DEF ConfigInit
<1>2. Count = 0
  BY <1>1, FS_EmptySet DEF Count
<1>3. /\ draft = 0 /\ copy = 0 /\ tied = FALSE
      /\ publisher = [p \in Publishers |-> Ready]
      /\ visitor = [v \in Visitors |-> 0]
  BY DEF ConfigInit
<1>4. 0 \in Publications /\ 0 \in Versions /\ 0 \in 0..MaxDraft
  BY PublicationsAssumption, DraftAssumption DEF Publications, Versions
<1>5. Ready \in [pc : {"idle", "read", "committed"}, last : Versions] /\ Ready.last = 0
  BY <1>4 DEF Ready
<1>6. ConfigTypeOK
  BY <1>1, <1>3, <1>4, <1>5 DEF ConfigTypeOK
<1>7. DOMAIN published = 1..Count
  BY <1>1, <1>2
<1> QED BY <1>1, <1>2, <1>3, <1>4, <1>5, <1>6, <1>7 DEF ConfigInv

\* A step that commits nothing leaves the versions alone; what remains is about
\* the rows it wrote.
LEMMA NothingCommitted ==
  ASSUME ConfigInv, UNCHANGED <<published, tied>>,
         draft' \in 0..MaxDraft, draft' >= draft,
         copy' \in Publications, copy' <= Count,
         visitor' \in [Visitors -> Publications],
         \A v \in Visitors : visitor'[v] <= Count,
         publisher' \in [Publishers -> [pc : {"idle", "read", "committed"}, last : Versions]],
         \A p \in Publishers : publisher'[p].last <= Count + draft'
  PROVE  ConfigInv'
<1>1. Count' = Count
  BY DEF Count
<1>2. ConfigTypeOK'
  BY DEF ConfigInv, ConfigTypeOK
<1>3. \A n \in DOMAIN published : published[n] \in Int /\ n \in Int
  BY PublicationsAssumption, DraftAssumption
     DEF ConfigInv, ConfigTypeOK, Versions, Publications
<1>4. draft \in Int /\ draft' \in Int
  BY DraftAssumption DEF ConfigInv, ConfigTypeOK
<1>5. \A n \in DOMAIN published : published[n] <= n + draft'
  BY <1>3, <1>4 DEF ConfigInv
<1> QED BY <1>1, <1>2, <1>5 DEF ConfigInv

\* A commit gets the next number, and, unless it ties, a version above all the
\* others.
LEMMA Committed ==
  ASSUME ConfigInv, NEW p \in Publishers, publish_commit(p)
  PROVE  ConfigInv' /\ Count' = Count + 1
<1> DEFINE next == publisher[p].last + 1
<1>1. /\ Count \in Nat /\ Count < MaxPublications
      /\ DOMAIN published = 1..Count
      /\ publisher[p].last \in Versions /\ publisher[p].last <= Count + draft
      /\ draft \in 0..MaxDraft
  BY PublicationsAssumption
     DEF ConfigInv, ConfigTypeOK, Publications, publish_commit
<1>2. DOMAIN published' = 1..Count + 1
  <2>1. DOMAIN published' = DOMAIN published \cup {Count + 1}
    BY DEF publish_commit
  <2> QED BY <1>1, <2>1
<1>3. Count' = Count + 1
  <2>1. Cardinality(1..Count + 1) = Count + 1
    BY <1>1, FS_Interval
  <2> QED BY <1>2, <2>1 DEF Count
<1>4. /\ \A n \in DOMAIN published : published'[n] = published[n]
      /\ published'[Count + 1] = next
  BY <1>1 DEF publish_commit
<1>5. next \in Versions /\ next <= Count + 1 + draft
  BY <1>1, PublicationsAssumption, DraftAssumption DEF Versions
<1>6. Count' \in Publications
  BY <1>1, <1>3, PublicationsAssumption DEF Publications
<1>7. DOMAIN published' = 1..Count'
  BY <1>2, <1>3
<1>8. UNCHANGED <<draft, copy, visitor>>
  BY DEF publish_commit
<1>9. /\ publisher' \in [Publishers -> [pc : {"idle", "read", "committed"}, last : Versions]]
      /\ \A q \in Publishers : publisher'[q].last = publisher[q].last
  BY DEF publish_commit, ConfigInv, ConfigTypeOK
<1>10. \A n \in 1..Count + 1 : n \in DOMAIN published \/ n = Count + 1
  BY <1>1
<1>11. \A n \in DOMAIN published' : published'[n] \in Versions /\ published'[n] <= n + draft'
  BY <1>2, <1>4, <1>5, <1>8, <1>10 DEF ConfigInv, ConfigTypeOK
<1>12. tied' \in BOOLEAN
  BY DEF publish_commit
<1>13. ConfigTypeOK'
  <2>1. DOMAIN published' \subseteq Publications
    BY <1>2, <1>1, PublicationsAssumption DEF Publications
  <2> QED BY <1>8, <1>9, <1>11, <1>12, <2>1 DEF ConfigInv, ConfigTypeOK
<1>14. \A q \in Publishers : publisher'[q].last <= Count' + draft'
  <2> SUFFICES ASSUME NEW q \in Publishers
               PROVE  publisher'[q].last <= Count' + draft'
    OBVIOUS
  <2>1. publisher[q].last \in Versions /\ publisher[q].last <= Count + draft
    BY DEF ConfigInv, ConfigTypeOK
  <2> QED BY <1>1, <1>3, <1>8, <1>9, <2>1, PublicationsAssumption, DraftAssumption
         DEF Versions
<1>15. copy' <= Count' /\ \A v \in Visitors : visitor'[v] <= Count'
  <2>1. /\ copy \in Publications /\ copy <= Count
        /\ \A v \in Visitors : visitor[v] \in Publications /\ visitor[v] <= Count
    BY DEF ConfigInv, ConfigTypeOK
  <2> QED BY <1>1, <1>3, <1>8, <2>1, PublicationsAssumption DEF Publications
<1>16. ~tied' => \A m, n \in DOMAIN published' : m < n => published'[m] < published'[n]
  <2> SUFFICES ASSUME ~tied', NEW m \in 1..Count + 1, NEW n \in 1..Count + 1, m < n
               PROVE  published'[m] < published'[n]
    BY <1>2
  <2>1. ~tied /\ \A k \in DOMAIN published : ~(published[k] >= next)
    BY DEF publish_commit
  <2>2. m \in DOMAIN published
    BY <1>1
  <2>3. CASE n \in DOMAIN published
    BY <1>4, <2>1, <2>2, <2>3 DEF ConfigInv
  <2>4. CASE n = Count + 1
    <3>1. published[m] \in Versions /\ ~(published[m] >= next)
      BY <2>1, <2>2 DEF ConfigInv, ConfigTypeOK
    <3> QED BY <1>4, <1>5, <2>2, <2>4, <3>1, PublicationsAssumption, DraftAssumption
           DEF Versions
  <2> QED BY <1>10, <2>3, <2>4
<1> QED BY <1>3, <1>6, <1>7, <1>11, <1>13, <1>14, <1>15, <1>16 DEF ConfigInv

LEMMA ConfigStep ==
  ASSUME ConfigInv, [ConfigNext]_configVars
  PROVE  ConfigInv'
<1>1. /\ draft \in 0..MaxDraft /\ draft \in Int
      /\ copy \in Publications /\ copy <= Count
      /\ visitor \in [Visitors -> Publications]
      /\ \A v \in Visitors : visitor[v] <= Count
      /\ publisher \in [Publishers -> [pc : {"idle", "read", "committed"}, last : Versions]]
      /\ \A p \in Publishers : publisher[p].last <= Count + draft
      /\ Count \in Nat
      /\ 0 \in Publications /\ 0 \in Versions
  BY PublicationsAssumption, DraftAssumption
     DEF ConfigInv, ConfigTypeOK, Publications, Versions
<1>2. CASE UNCHANGED configVars
  BY <1>1, <1>2, NothingCommitted DEF configVars
<1>3. CASE save_draft
  <2>1. /\ draft' = draft + 1 /\ draft' \in 0..MaxDraft
        /\ UNCHANGED <<published, copy, publisher, visitor, tied>>
    BY <1>1, <1>3, DraftAssumption DEF save_draft
  <2>2. \A p \in Publishers : publisher'[p].last <= Count + draft'
    BY <1>1, <2>1, PublicationsAssumption, DraftAssumption DEF Versions
  <2> QED BY <1>1, <2>1, <2>2, NothingCommitted
<1>4. CASE expire
  BY <1>1, <1>4, NothingCommitted DEF expire
<1>5. ASSUME NEW p \in Publishers, publish_read(p)
      PROVE  ConfigInv'
  <2>1. PICK w \in {draft} \cup {published[n] : n \in DOMAIN published} :
          publisher' = [publisher EXCEPT ![p] = [pc |-> "read", last |-> w]]
    BY <1>5 DEF publish_read
  <2>2. w \in Versions /\ w <= Count + draft
    <3>1. CASE w = draft
      BY <1>1, <3>1, PublicationsAssumption, DraftAssumption DEF Versions
    <3>2. ASSUME NEW n \in DOMAIN published, w = published[n]
          PROVE  w \in Versions /\ w <= Count + draft
      <4>1. n \in 1..Count /\ w \in Versions /\ w <= n + draft
        BY <3>2 DEF ConfigInv, ConfigTypeOK
      <4> QED BY <1>1, <4>1, PublicationsAssumption, DraftAssumption DEF Versions
    <3> QED BY <3>1, <3>2
  <2>3. /\ publisher' \in [Publishers -> [pc : {"idle", "read", "committed"}, last : Versions]]
        /\ \A q \in Publishers : publisher'[q].last <= Count + draft
    BY <1>1, <2>1, <2>2
  <2>4. UNCHANGED <<draft, published, copy, visitor, tied>>
    BY <1>5 DEF publish_read
  <2> QED BY <1>1, <2>3, <2>4, NothingCommitted
<1>6. ASSUME NEW p \in Publishers, publish_commit(p)
      PROVE  ConfigInv'
  BY <1>6, Committed
<1>7. ASSUME NEW p \in Publishers, publish_delete(p)
      PROVE  ConfigInv'
  <2>1. /\ publisher' \in [Publishers -> [pc : {"idle", "read", "committed"}, last : Versions]]
        /\ \A q \in Publishers : publisher'[q].last <= Count + draft
    BY <1>1, <1>7 DEF publish_delete, Ready
  <2>2. copy' \in Publications /\ copy' <= Count
    BY <1>1, <1>7 DEF publish_delete
  <2>3. UNCHANGED <<draft, published, visitor, tied>>
    BY <1>7 DEF publish_delete
  <2> QED BY <1>1, <2>1, <2>2, <2>3, NothingCommitted
<1>8. ASSUME NEW v \in Visitors, published_config(v)
      PROVE  ConfigInv'
  <2>1. PICK n \in DOMAIN published : visitor' = [visitor EXCEPT ![v] = n]
    BY <1>8 DEF published_config
  <2>2. n \in Publications /\ n <= Count
    BY <1>1 DEF ConfigInv, ConfigTypeOK
  <2>3. /\ visitor' \in [Visitors -> Publications]
        /\ \A u \in Visitors : visitor'[u] <= Count
    BY <1>1, <2>1, <2>2
  <2>4. UNCHANGED <<draft, published, copy, publisher, tied>>
    BY <1>8 DEF published_config
  <2> QED BY <1>1, <2>3, <2>4, NothingCommitted
<1>9. ASSUME NEW v \in Visitors, store_config(v)
      PROVE  ConfigInv'
  <2>1. copy' \in Publications /\ copy' <= Count
    BY <1>1, <1>9 DEF store_config
  <2>2. /\ visitor' \in [Visitors -> Publications]
        /\ \A u \in Visitors : visitor'[u] <= Count
    BY <1>1, <1>9 DEF store_config
  <2>3. UNCHANGED <<draft, published, publisher, tied>>
    BY <1>9 DEF store_config
  <2> QED BY <1>1, <2>1, <2>2, <2>3, NothingCommitted
<1> QED BY <1>2, <1>3, <1>4, <1>5, <1>6, <1>7, <1>8, <1>9 DEF ConfigNext

LEMMA NewestUnlessTied ==
  ASSUME ConfigInv
  PROVE  NewestIsLast
<1> SUFFICES ASSUME ~tied, NEW n \in DOMAIN published, newest(n), n # Count
             PROVE  FALSE
  BY DEF NewestIsLast
<1>1. Count \in Nat /\ n \in 1..Count /\ DOMAIN published = 1..Count
  BY PublicationsAssumption DEF ConfigInv, Publications
<1>2. Count \in DOMAIN published /\ n < Count
  BY <1>1
<1>3. published[n] < published[Count] /\ published[Count] <= published[n]
  BY <1>1, <1>2 DEF ConfigInv, newest, Highest
<1>4. published[n] \in Int /\ published[Count] \in Int
  BY <1>2, PublicationsAssumption, DraftAssumption DEF ConfigInv, ConfigTypeOK, Versions
<1> QED BY <1>3, <1>4

LEMMA DrainStep ==
  ASSUME ConfigInv, [ConfigNext]_configVars, Count' = Count, ~tied
  PROVE  StaleCopies' \subseteq StaleCopies
<1>1. visitor \in [Visitors -> Publications] /\ Count \in Nat
  BY PublicationsAssumption DEF ConfigInv, ConfigTypeOK, Publications
<1>2. \A x \in StaleCopies' : /\ x # 0 /\ x # Count
                              /\ x = copy' \/ \E u \in Visitors : x = visitor'[u]
  BY DEF StaleCopies
<1>3. ASSUME copy' \in {0, copy} \cup {visitor[u] : u \in Visitors},
             \A u \in Visitors : visitor'[u] \in {0, Count, visitor[u]}
      PROVE  StaleCopies' \subseteq StaleCopies
  BY <1>2, <1>3 DEF StaleCopies
<1>4. CASE \/ UNCHANGED configVars \/ save_draft \/ expire
           \/ \E p \in Publishers : publish_read(p) \/ publish_delete(p)
  BY <1>3, <1>4 DEF configVars, save_draft, expire, publish_read, publish_delete
<1>5. ASSUME NEW p \in Publishers, publish_commit(p)
      PROVE  FALSE
  <2>1. Count' = Count + 1
    BY <1>5, Committed
  <2> QED BY <1>1, <2>1
<1>6. ASSUME NEW v \in Visitors, published_config(v)
      PROVE  StaleCopies' \subseteq StaleCopies
  <2>1. PICK n \in DOMAIN published : newest(n) /\ visitor' = [visitor EXCEPT ![v] = n]
    BY <1>6 DEF published_config
  <2>2. n = Count
    BY <2>1, NewestUnlessTied DEF NewestIsLast
  <2>3. \A u \in Visitors : visitor'[u] \in {0, Count, visitor[u]}
    BY <1>1, <2>1, <2>2
  <2>4. copy' = copy
    BY <1>6 DEF published_config
  <2> QED BY <1>3, <2>3, <2>4
<1>7. ASSUME NEW v \in Visitors, store_config(v)
      PROVE  StaleCopies' \subseteq StaleCopies
  <2>1. copy' \in {0, copy} \cup {visitor[u] : u \in Visitors}
    BY <1>7 DEF store_config
  <2>2. \A u \in Visitors : visitor'[u] \in {0, Count, visitor[u]}
    BY <1>1, <1>7 DEF store_config
  <2> QED BY <1>3, <2>1, <2>2
<1> QED BY <1>4, <1>5, <1>6, <1>7 DEF ConfigNext

\* Redis and the visitors hold committed publications only, and the versions
\* keep the order of the commits until two publications overlap, for any number
\* of publishers and visitors and whatever Redis refuses.
THEOREM PublicationsAreOrdered == ConfigSpec => []ConfigInv
<1> QED BY ConfigInit0, ConfigStep, PTL DEF ConfigSpec

\* ORDER BY version DESC finds the publication committed last, as long as no
\* two publications overlapped.
THEOREM VisitorsReadTheLast == ConfigSpec => []NewestIsLast
<1> QED BY PublicationsAreOrdered, NewestUnlessTied, PTL

\* A stale publication is never brought back: between two commits, whoever
\* reads, stores, deletes or lets the copy expire, the stale publications Redis
\* or a visitor holds only become fewer.  The commit itself is the only step
\* that makes a held publication stale.
THEOREM StaleCopiesOnlyDrain == ConfigSpec => StaleCopiesDrain
<1>1. ConfigInv /\ [ConfigNext]_configVars
        => [Count' = Count /\ ~tied => StaleCopies' \subseteq StaleCopies]_configVars
  BY DrainStep
<1> QED BY <1>1, PublicationsAreOrdered, PTL DEF ConfigSpec, StaleCopiesDrain
=============================================================================
