------------------------------- MODULE Accounts -------------------------------
(***************************************************************************)
(* One account and its login session: how the account comes into being, is *)
(* reviewed, disabled and given a new password, and how logins that loaded *)
(* it earlier commit over that.  `kind` says whose account it is: a user's *)
(* or an administrator's (user_accounts, user_sessions) or a merchant's    *)
(* (school_sites, school_merchant_sessions).                               *)
(*                                                                         *)
(* A login is two steps: it loads the account and verifies the password    *)
(* against what it loaded, and later replaces the account's sessions by a  *)
(* new one.  The delete and the insert of the session lock its index range *)
(* until the commit, so an account has at most one session.  An            *)
(* administrator's handler overwrites columns without looking at them: one *)
(* step.                                                                   *)
(***************************************************************************)
EXTENDS Integers, FiniteSets

CONSTANTS
  Logins,       \* concurrent login requests
  MaxResets,    \* bound: passwords given to the account
  MaxEpoch      \* bound: revocations of the account's sessions

ASSUME AccountBounds == MaxResets \in Nat /\ MaxEpoch \in Nat
ASSUME LoginsAssumption == IsFiniteSet(Logins)

VARIABLES
  kind,      \* "user", "admin" or "merchant"
  account,   \* its row
  session,   \* its session, NoSession when there is none
  trying,    \* the login requests
  outdated0, \* history: the account started with an outdated hash
  resets,    \* history: passwords given so far
  epoch,     \* history: session revocations so far
  inflight,  \* history: logins under way at the last revocation
  late       \* history: sessions such logins have opened since

revocations == <<epoch, inflight, late>>
accountVars == <<kind, account, session, trying, outdated0, resets, revocations>>

Kinds == {"user", "admin", "merchant"}

\* For a merchant "active" is approved and on the shelf, "disabled" approved
\* and off it.  pw is the number of the password whose hash is stored, outdated
\* tells that the hash is not argon2 or was made with other parameters than
\* PasswordHasher's, which do not change while the program runs.
Account == [status : {"absent", "pending", "active", "rejected", "disabled",
                      "cancelled"},
            pw : 0..MaxResets,
            outdated : BOOLEAN]

NoSession == [opened |-> -1]
Session == [opened : 0..MaxEpoch]

NotLoggingIn == [pc |-> "idle"]
Verified == [pc : {"verified"}, seen : Account, epoch : 0..MaxEpoch]

AccountTypeOK ==
  /\ kind \in Kinds
  /\ account \in Account
  /\ session \in Session \cup {NoSession}
  /\ trying \in [Logins -> Verified \cup {NotLoggingIn}]
  /\ outdated0 \in BOOLEAN
  /\ resets \in 0..MaxResets
  /\ epoch \in 0..MaxEpoch
  /\ inflight \in Nat
  /\ late \in Nat

\* Administrators, and accounts with an outdated hash, are there from the start.
AccountInit ==
  /\ kind \in Kinds
  /\ outdated0 \in BOOLEAN
  /\ account = [status |-> IF kind = "admin" \/ outdated0 THEN "active" ELSE "absent",
                pw |-> 0, outdated |-> outdated0]
  /\ session = NoSession
  /\ trying = [r \in Logins |-> NotLoggingIn]
  /\ resets = 0
  /\ epoch = 0
  /\ inflight = 0
  /\ late = 0

Exists == account.status # "absent"

-----------------------------------------------------------------------------
(* The account.                                                            *)

Become(status) ==
  /\ account' = [account EXCEPT !.status = status]
  /\ UNCHANGED <<kind, trying, outdated0, resets>>

Keep == UNCHANGED <<session, revocations>>

\* History: a revocation, and the logins it finds under way.
Revoke ==
  /\ epoch < MaxEpoch
  /\ epoch' = epoch + 1
  /\ inflight' = Cardinality({r \in Logins : trying[r] # NotLoggingIn})
  /\ late' = 0

\* Mutant: the session is left alone.
keep_session == Revoke /\ UNCHANGED session

\* The account's sessions are deleted in the same transaction.
delete_sessions == Revoke /\ session' = NoSession

\* The unique phone makes a second registration fail.
register ==
  /\ kind = "user" /\ account.status = "absent"
  /\ Become("pending") /\ Keep

apply_school ==
  /\ kind = "merchant" /\ account.status = "absent"
  /\ Become("pending") /\ Keep

create_school_site(status) ==
  /\ kind = "merchant" /\ account.status = "absent"
  /\ Become(status) /\ Keep

\* A rejection does not end the sessions of an account that had been active.
review_registration(approved) ==
  /\ kind = "user" /\ Exists
  /\ Become(IF approved THEN "active" ELSE "rejected") /\ Keep

update_user_status(status) ==
  /\ kind = "user" /\ Exists
  /\ Become(status)
  /\ IF status \in {"disabled", "cancelled", "rejected"}
     THEN delete_sessions
     ELSE Keep

Rehashed(pw) == [account EXCEPT !.pw = pw, !.outdated = FALSE]

reset_user_password ==
  /\ kind = "user" /\ Exists
  /\ resets < MaxResets
  /\ resets' = resets + 1
  /\ account' = Rehashed(resets + 1)
  /\ delete_sessions
  /\ UNCHANGED <<kind, trying, outdated0>>

\* A merchant's new password leaves its sessions open.
update_school_merchant_password ==
  /\ kind = "merchant" /\ Exists
  /\ resets < MaxResets
  /\ resets' = resets + 1
  /\ account' = Rehashed(resets + 1)
  /\ UNCHANGED <<kind, session, trying, outdated0, revocations>>

review_school_site(approved) ==
  /\ kind = "merchant" /\ Exists
  /\ Become(IF approved THEN "active" ELSE "rejected") /\ Keep

toggle_school_site(enabled) ==
  /\ kind = "merchant" /\ account.status \in {"active", "disabled"}
  /\ Become(IF enabled THEN "active" ELSE "disabled") /\ Keep

\* The current school is on the shelf; the review is not looked at and still
\* decides whether its merchant may log in.
set_current_school_site ==
  /\ kind = "merchant" /\ account.status = "disabled"
  /\ Become("active") /\ Keep

update_school_site(status) ==
  /\ kind = "merchant" /\ Exists
  /\ Become(status) /\ Keep

-----------------------------------------------------------------------------
(* Logging in.                                                             *)

\* The account is loaded and the password matches the hash that was loaded
\* (or WeChat vouches for the user).  A wrong password changes nothing here.
verify_password(r) ==
  /\ trying[r] = NotLoggingIn
  /\ Exists
  /\ trying' = [trying EXCEPT ![r] = [pc |-> "verified", seen |-> account,
                                      epoch |-> epoch]]
  /\ UNCHANGED <<kind, account, session, outdated0, resets, revocations>>

\* 403, an error, or a client that goes away.
Refused(r) ==
  /\ trying[r] # NotLoggingIn
  /\ trying' = [trying EXCEPT ![r] = NotLoggingIn]
  /\ UNCHANGED <<kind, account, session, outdated0, resets, revocations>>

build_auth_response(r) ==
  /\ trying[r].pc = "verified"
  /\ trying[r].seen.status = "active"
  /\ session' = [opened |-> trying[r].epoch]
  /\ late' = IF trying[r].epoch < epoch THEN late + 1 ELSE late
  /\ trying' = [trying EXCEPT ![r] = NotLoggingIn]
  /\ UNCHANGED <<kind, outdated0, resets, epoch, inflight>>

\* Mutant: every login stores the hash of the password it was given.
rehash_always(r) == account' = Rehashed(trying[r].seen.pw)

\* A hash that is not argon2, or that check_needs_rehash calls outdated, is
\* replaced by one of the password just verified, whatever is stored by now.
verify_and_rehash_password(r) ==
  account' = IF trying[r].seen.outdated
             THEN Rehashed(trying[r].seen.pw)
             ELSE account

login(r) ==
  kind = "user" /\ build_auth_response(r) /\ verify_and_rehash_password(r)

admin_login(r) ==
  kind = "admin" /\ build_auth_response(r) /\ verify_and_rehash_password(r)

merchant_login(r) ==
  kind = "merchant" /\ build_auth_response(r) /\ verify_and_rehash_password(r)

wechat_mini_login(r) ==
  kind = "user" /\ build_auth_response(r) /\ UNCHANGED account

\* Somebody's first login with WeChat makes the account, active at once.
wechat_first_login ==
  /\ kind = "user" /\ account.status = "absent"
  /\ Become("active")
  /\ session' = [opened |-> epoch]
  /\ UNCHANGED revocations

\* The account a request with the session's token is served for.
_load_session_user == session # NoSession /\ account.status = "active"

logout ==
  /\ kind # "merchant" /\ _load_session_user
  /\ session' = NoSession
  /\ UNCHANGED <<kind, account, trying, outdated0, resets, revocations>>

\* The token is deleted without looking at the school.
merchant_logout ==
  /\ kind = "merchant" /\ session # NoSession
  /\ session' = NoSession
  /\ UNCHANGED <<kind, account, trying, outdated0, resets, revocations>>

SessionExpires ==
  /\ session # NoSession
  /\ session' = NoSession
  /\ UNCHANGED <<kind, account, trying, outdated0, resets, revocations>>

AccountNext ==
  \/ register \/ apply_school \/ wechat_first_login
  \/ reset_user_password \/ update_school_merchant_password
  \/ set_current_school_site
  \/ logout \/ merchant_logout \/ SessionExpires
  \/ \E approved \in BOOLEAN :
       review_registration(approved) \/ review_school_site(approved)
  \/ \E enabled \in BOOLEAN : toggle_school_site(enabled)
  \/ \E status \in {"pending", "active", "disabled", "cancelled", "rejected"} :
       update_user_status(status)
  \/ \E status \in {"pending", "active", "disabled", "rejected"} :
       create_school_site(status) \/ update_school_site(status)
  \/ \E r \in Logins :
       \/ verify_password(r) \/ Refused(r) \/ login(r) \/ admin_login(r)
       \/ merchant_login(r) \/ wechat_mini_login(r)

AccountSpec == AccountInit /\ [][AccountNext]_accountVars

-----------------------------------------------------------------------------
(* Properties.                                                             *)

\* The logins that loaded the account before the last revocation.
Overtaken == {r \in Logins : trying[r] # NotLoggingIn /\ trying[r].epoch < epoch}

\* A revocation (a password reset, a status that ends sessions) deletes the
\* session and misses only the logins under way: the sessions such logins have
\* opened since, with the ones they may still open, are no more than the logins
\* it found, and a user's session from before it is one of those.  So it is final
\* when nobody is logging in, however often the account is enabled again.
RevocationMissesOnlyLogins ==
  /\ late + Cardinality(Overtaken) <= inflight
  /\ kind = "user" /\ session # NoSession /\ session.opened < epoch => late > 0

\* Whatever resets and logins race each other, the stored password is the newest
\* one or, when the account started with an outdated hash, the very first, which
\* a login that had verified it wrote back: never one in between.
PasswordNewestOrFirst == account.pw = resets \/ (outdated0 /\ account.pw = 0)
=============================================================================
