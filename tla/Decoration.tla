----------------------------- MODULE Decoration -----------------------------
(***************************************************************************)
(* The decoration configuration of the mini program: its draft, its        *)
(* published versions, and the copy of the newest one that Redis keeps for *)
(* the public endpoint.  A publication reads the highest version, inserts  *)
(* the next, and deletes the copy; a visitor who finds no copy reads the   *)
(* newest publication and stores it.  Redis may refuse any of these calls. *)
(***************************************************************************)
EXTENDS Integers, FiniteSets

CONSTANTS
  Publishers,       \* requests that publish
  Visitors,         \* requests for the public configuration
  MaxPublications,  \* bound: publications
  MaxDraft          \* bound: saves of the draft

ASSUME PublicationsAssumption == MaxPublications \in Nat
ASSUME DraftAssumption == MaxDraft \in Nat

VARIABLES
  draft,       \* version of the draft, 0 before there is one
  published,   \* the publications, in the order of their commits
  copy,        \* the publication Redis holds, 0 if none
  publisher,   \* the publishing requests
  visitor,     \* the publication a visitor read and has not stored, 0 if none
  tied   \* history: a publication did not get the highest version

configVars == <<draft, published, copy, publisher, visitor, tied>>

Publications == 0..MaxPublications
Versions == 0..MaxPublications + MaxDraft
Count == Cardinality(DOMAIN published)

ConfigTypeOK ==
  /\ draft \in 0..MaxDraft
  /\ DOMAIN published \subseteq Publications
  /\ \A n \in DOMAIN published : published[n] \in Versions
  /\ copy \in Publications
  /\ publisher \in [Publishers -> [pc : {"idle", "read", "committed"}, last : Versions]]
  /\ visitor \in [Visitors -> Publications]
  /\ tied \in BOOLEAN

Ready == [pc |-> "idle", last |-> 0]

ConfigInit ==
  /\ draft = 0
  /\ published = [n \in {} |-> 0]
  /\ copy = 0
  /\ publisher = [p \in Publishers |-> Ready]
  /\ visitor = [v \in Visitors |-> 0]
  /\ tied = FALSE

Highest(v) == \A n \in DOMAIN published : published[n] <= v

\* The version counts the saves.
save_draft ==
  /\ draft < MaxDraft
  /\ draft' = draft + 1
  /\ UNCHANGED <<published, copy, publisher, visitor, tied>>

\* The highest version of any row, drafts included.
publish_read(p) ==
  /\ publisher[p].pc = "idle"
  /\ Count < MaxPublications
  /\ \E v \in {draft} \cup {published[n] : n \in DOMAIN published} :
       /\ Highest(v) /\ draft <= v
       /\ publisher' = [publisher EXCEPT ![p] = [pc |-> "read", last |-> v]]
  /\ UNCHANGED <<draft, published, copy, visitor, tied>>

publish_commit(p) ==
  LET next == publisher[p].last + 1 IN
  /\ publisher[p].pc = "read"
  /\ Count < MaxPublications
  /\ published' = [n \in DOMAIN published \cup {Count + 1} |->
                     IF n \in DOMAIN published THEN published[n] ELSE next]
  /\ tied' = (tied \/ \E n \in DOMAIN published : published[n] >= next)
  /\ publisher' = [publisher EXCEPT ![p].pc = "committed"]
  /\ UNCHANGED <<draft, copy, visitor>>

publish_delete(p) ==
  /\ publisher[p].pc = "committed"
  /\ copy' \in {0, copy}
  /\ publisher' = [publisher EXCEPT ![p] = Ready]
  /\ UNCHANGED <<draft, published, visitor, tied>>

\* Mutant: the oldest publication is read.
oldest(n) ==
  /\ n \in DOMAIN published
  /\ \A m \in DOMAIN published : published[n] <= published[m]

\* ORDER BY version DESC leaves the choice among equal versions open.
newest(n) == n \in DOMAIN published /\ Highest(published[n])

\* A visitor for whom Redis answers changes nothing.
published_config(v) ==
  /\ visitor[v] = 0
  /\ \E n \in DOMAIN published :
       newest(n) /\ visitor' = [visitor EXCEPT ![v] = n]
  /\ UNCHANGED <<draft, published, copy, publisher, tied>>

store_config(v) ==
  /\ visitor[v] # 0
  /\ copy' \in {visitor[v], copy}
  /\ visitor' = [visitor EXCEPT ![v] = 0]
  /\ UNCHANGED <<draft, published, publisher, tied>>

\* The copy lives for 600 seconds.
expire ==
  /\ copy # 0
  /\ copy' = 0
  /\ UNCHANGED <<draft, published, publisher, visitor, tied>>

ConfigNext ==
  \/ save_draft \/ expire
  \/ \E p \in Publishers : publish_read(p) \/ publish_commit(p) \/ publish_delete(p)
  \/ \E v \in Visitors : published_config(v) \/ store_config(v)

ConfigSpec == ConfigInit /\ [][ConfigNext]_configVars

-----------------------------------------------------------------------------
(* Properties.                                                             *)

\* After the last publication the copy served to the public comes to be the
\* last publication for good, whatever visitors stored across it and whatever
\* Redis refused, unless two publications overlapped: an entry that is stale
\* lives no longer than its time, and nobody can store another one.
CopyCatchesUp == <>[](copy # 0 /\ ~tied => copy = Count)
=============================================================================
