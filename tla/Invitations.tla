----------------------------- MODULE Invitations -----------------------------
(***************************************************************************)
(* The invite_relations rows of one invitee and the rewards paid for them: *)
(* made by registration, by the first login with WeChat or by binding an   *)
(* invitation code later, paid at once, at the review of the registration  *)
(* or by a backfill, and frozen by an administrator.                       *)
(*                                                                         *)
(* Binding, review and backfill take the snapshot of their transaction     *)
(* before they lock an account, and look for relations in that snapshot:   *)
(* two steps, Look and the handler.  The unique key of a reward's ledger   *)
(* row is checked by the database against the rows that are committed.     *)
(***************************************************************************)
EXTENDS Integers, FiniteSets

CONSTANTS
  Visits,       \* concurrent transactions
  MaxRelations  \* bound: rows for the invitee

ASSUME VisitsAssumption == IsFiniteSet(Visits) /\ Visits # {}
ASSUME RelationsAssumption == MaxRelations \in Nat

VARIABLES
  rule,      \* the point rule rewards invitations
  invitee,   \* status of the invitee's account
  relation,  \* invite_relations
  paid,      \* ledger rows with key invite-reward:<id>, per relation
  visit,     \* the transactions
  spared,    \* history: relations frozen before anything was paid for them
  crossed    \* history: relations written by a transaction that had looked
             \* before somebody else changed them

inviteVars == <<rule, invitee, relation, paid, visit, spared, crossed>>

Relations == 1..MaxRelations

Relation == [exists   : BOOLEAN,
             granted  : BOOLEAN,
             abnormal : BOOLEAN,
             frozen   : BOOLEAN]

NoRelation == [exists |-> FALSE, granted |-> FALSE, abnormal |-> FALSE,
               frozen |-> FALSE]

Away == [pc |-> "away"]
Looking == [pc : {"looking"}, seen : [Relations -> Relation]]

InviteTypeOK ==
  /\ rule \in BOOLEAN
  /\ invitee \in {"absent", "pending", "active", "rejected"}
  /\ relation \in [Relations -> Relation]
  /\ paid \in [Relations -> Nat]
  /\ visit \in [Visits -> Looking \cup {Away}]
  /\ spared \subseteq Relations
  /\ crossed \subseteq Relations

InviteInit ==
  /\ rule \in BOOLEAN
  /\ invitee = "absent"
  /\ relation = [i \in Relations |-> NoRelation]
  /\ paid = [i \in Relations |-> 0]
  /\ visit = [v \in Visits |-> Away]
  /\ spared = {}
  /\ crossed = {}

Made == {i \in Relations : relation[i].exists}

-----------------------------------------------------------------------------
(* Making relations.                                                       *)

\* The next row, abnormal when its device id was used before, paid at once if
\* `reward` and the rule allow it.
NewRelation(i, abnormal, reward) ==
  LET pay == reward /\ rule /\ ~abnormal IN
  /\ i = Cardinality(Made) + 1
  /\ relation' = [relation EXCEPT ![i] =
                    [exists |-> TRUE, granted |-> pay, abnormal |-> abnormal,
                     frozen |-> FALSE]]
  /\ paid' = [paid EXCEPT ![i] = @ + (IF pay THEN 1 ELSE 0)]
  /\ UNCHANGED <<rule, spared, crossed>>

NoNewRelation == UNCHANGED <<rule, relation, paid, spared, crossed>>

\* With or without an invitation code; nothing is paid before the review.
register_invited ==
  /\ invitee = "absent"
  /\ invitee' = "pending"
  /\ \/ \E i \in Relations, abnormal \in BOOLEAN : NewRelation(i, abnormal, FALSE)
     \/ NoNewRelation
  /\ UNCHANGED visit

wechat_invited ==
  /\ invitee = "absent"
  /\ invitee' = "active"
  /\ \/ \E i \in Relations, abnormal \in BOOLEAN : NewRelation(i, abnormal, TRUE)
     \/ NoNewRelation
  /\ UNCHANGED visit

\* The snapshot of a transaction.
Look(v) ==
  /\ visit[v] = Away
  /\ invitee # "absent"
  /\ visit' = [visit EXCEPT ![v] = [pc |-> "looking", seen |-> relation]]
  /\ UNCHANGED <<rule, invitee, relation, paid, spared, crossed>>

\* Nothing to do, an error response, or the duplicate key of a reward paid
\* meanwhile: the whole transaction is rolled back.
Leave(v) ==
  /\ visit[v] # Away
  /\ visit' = [visit EXCEPT ![v] = Away]
  /\ UNCHANGED <<rule, invitee, relation, paid, spared, crossed>>

\* Mutant: an existing relation is not looked for.
bind_again(v) ==
  /\ visit[v].pc = "looking"
  /\ invitee = "active"
  /\ \E i \in Relations, abnormal \in BOOLEAN : NewRelation(i, abnormal, TRUE)
  /\ visit' = [visit EXCEPT ![v] = Away]
  /\ UNCHANGED invitee

\* Both accounts are locked, yet the relation is looked for in the snapshot.
bind_invite(v) ==
  /\ visit[v].pc = "looking"
  /\ invitee = "active"
  /\ \A i \in Relations : ~visit[v].seen[i].exists
  /\ \E i \in Relations, abnormal \in BOOLEAN : NewRelation(i, abnormal, TRUE)
  /\ visit' = [visit EXCEPT ![v] = Away]
  /\ UNCHANGED invitee

-----------------------------------------------------------------------------
(* Paying for them.                                                        *)

Eligible(seen) == {i \in Relations : /\ seen[i].exists
                                     /\ ~seen[i].granted
                                     /\ ~seen[i].abnormal
                                     /\ ~seen[i].frozen}

\* Mutant: the key of the reward's ledger row is not unique.
pay_regardless(v, S) ==
  /\ \A i \in S : paid[i] < 2
  /\ paid' = [i \in Relations |-> paid[i] + (IF i \in S THEN 1 ELSE 0)]
  /\ relation' = [i \in Relations |-> IF i \in S
                                      THEN [relation[i] EXCEPT !.granted = TRUE]
                                      ELSE relation[i]]
  /\ crossed' = crossed \cup {i \in S : relation[i] # visit[v].seen[i]}

\* The rewards of S, each with its unique key, and score_granted.
pay(v, S) ==
  /\ \A i \in S : paid[i] = 0
  /\ paid' = [i \in Relations |-> paid[i] + (IF i \in S THEN 1 ELSE 0)]
  /\ relation' = [i \in Relations |-> IF i \in S
                                      THEN [relation[i] EXCEPT !.granted = TRUE]
                                      ELSE relation[i]]
  /\ crossed' = crossed \cup {i \in S : relation[i] # visit[v].seen[i]}

\* One relation the snapshot shows as unpaid is paid for, unless the rule is
\* off or the inviter is no longer active.
review_invited(v, approved) ==
  /\ visit[v].pc = "looking"
  /\ invitee' = IF approved THEN "active" ELSE "rejected"
  /\ \/ approved /\ rule /\ \E i \in Eligible(visit[v].seen) : pay(v, {i})
     \/ UNCHANGED <<relation, paid, crossed>>
  /\ visit' = [visit EXCEPT ![v] = Away]
  /\ UNCHANGED <<rule, spared>>

backfill_invite_rewards(v) ==
  /\ visit[v].pc = "looking"
  /\ rule
  /\ invitee = "active"
  /\ pay(v, Eligible(visit[v].seen))
  /\ visit' = [visit EXCEPT ![v] = Away]
  /\ UNCHANGED <<rule, invitee, spared>>

\* The mark is taken away, a reward that was paid is not.
freeze_invite(i) ==
  /\ relation[i].exists
  /\ relation' = [relation EXCEPT ![i].frozen = TRUE, ![i].granted = FALSE]
  /\ spared' = IF paid[i] = 0 THEN spared \cup {i} ELSE spared
  /\ UNCHANGED <<rule, invitee, paid, visit, crossed>>

update_point_rule ==
  /\ rule' = ~rule
  /\ UNCHANGED <<invitee, relation, paid, visit, spared, crossed>>

InviteNext ==
  \/ register_invited \/ wechat_invited \/ update_point_rule
  \/ \E i \in Relations : freeze_invite(i)
  \/ \E v \in Visits :
       \/ Look(v) \/ Leave(v) \/ bind_invite(v) \/ backfill_invite_rewards(v)
       \/ \E approved \in BOOLEAN : review_invited(v, approved)

InviteSpec == InviteInit /\ [][InviteNext]_inviteVars

-----------------------------------------------------------------------------
(* Properties.                                                             *)

Unaware == {v \in Visits : visit[v].pc = "looking"
                           /\ \A i \in Relations : ~visit[v].seen[i].exists}

\* Once an invitee is bound, the relations made and the open transactions that
\* still see none are together never more than transactions run at the same
\* time: nobody who looks after a binding makes another, so an invitee is bound
\* at most once for each transaction that was under way.
BoundByUnawareOnly ==
  Made # {} => Cardinality(Made) + Cardinality(Unaware) <= Cardinality(Visits)

\* Whatever reviews, backfills and freezes overlap, a relation is rewarded at
\* most once, it is marked as granted only if it was, and one that was paid
\* for and carries no mark is frozen, so that no backfill picks it up again.
\* A relation frozen before its reward is never paid for, unless by a review
\* or a backfill that had looked at it before.
RewardMatchesMark ==
  /\ \A i \in Relations :
       /\ paid[i] <= 1
       /\ relation[i].granted => paid[i] = 1
       /\ paid[i] = 1 => relation[i].granted \/ relation[i].frozen
  /\ \A i \in spared \ crossed : paid[i] = 0
=============================================================================
