--------------------------- MODULE LoginGateProofs ---------------------------
(***************************************************************************)
(* Proofs about the login guard and the slider captcha, for any number of  *)
(* requests, challenges and tickets.                                       *)
(***************************************************************************)
EXTENDS LoginGate, FiniteSetTheorems, TLAPS

Places == {Idle, [pc |-> "allowed"], [pc |-> "checking"]} \cup Verifying \cup Holding

\* The counter has a time to live while it exists.
GateTypes == GateTypeOK /\ (attempts > 0 => ttl > 0)

\* What a request carries depends on where it stands.
LEMMA PlaceFacts ==
  ASSUME GateTypeOK, NEW r \in Requests
  PROVE  /\ gate \in [Requests -> Places]
         /\ gate[r].pc = "verifying" => /\ gate[r].id \in Challenges
                                        /\ gate[r].seen \in 0..MaxWrong
         /\ gate[r].pc = "holding" => gate[r].ticket \in Tickets
<1>1. gate[r] \in Places /\ gate \in [Requests -> Places]
  BY DEF GateTypeOK, Places
<1>2. CASE gate[r] \in Verifying
  BY <1>1, <1>2 DEF Verifying
<1>3. CASE gate[r] \in Holding
  BY <1>1, <1>3 DEF Holding
<1>4. CASE gate[r] \in {Idle, [pc |-> "allowed"], [pc |-> "checking"]}
  BY <1>1, <1>4 DEF Idle
<1> QED BY <1>1, <1>2, <1>3, <1>4 DEF Places

\* A request that goes somewhere leaves the others where they are.
LEMMA GotoFacts ==
  ASSUME GateTypeOK, NEW r \in Requests,
         NEW pc \in {"idle", "allowed", "checking"}, Goto(r, pc)
  PROVE  /\ gate' \in [Requests -> Places]
         /\ gate'[r].pc = pc
         /\ \A q \in Requests : q # r => gate'[q] = gate[q]
<1>1. gate \in [Requests -> Places]
  BY PlaceFacts
<1>2. [pc |-> pc] \in Places /\ [pc |-> pc].pc = pc
  BY DEF Places, Idle
<1> QED BY <1>1, <1>2 DEF Goto

-----------------------------------------------------------------------------
(* Types.                                                                  *)

LEMMA GateTypeStep ==
  ASSUME GateTypes, [GateNext]_gateVars
  PROVE  GateTypes'
<1> USE GateAssumption
<1>0. /\ gate \in [Requests -> Places]
      /\ attempts \in Nat /\ ttl \in 0..Window /\ issued \in 0..MaxTickets
      /\ lost \in 0..MaxLost
  BY DEF GateTypes, GateTypeOK, Places
<1>1. CASE UNCHANGED gateVars
  BY <1>1 DEF gateVars, guard, store, history, GateTypes, GateTypeOK
<1>2. CASE WindowPasses
  <2>1. ttl' \in 0..Window /\ attempts' \in Nat /\ (attempts' > 0 => ttl' > 0)
    BY <1>0, <1>2 DEF WindowPasses, GateTypes
  <2>2. UNCHANGED <<store, gate, history>>
    BY <1>2 DEF WindowPasses
  <2> QED BY <2>1, <2>2 DEF store, history, GateTypes, GateTypeOK
<1>3. CASE save_slider_captcha_settings
  BY <1>3 DEF save_slider_captcha_settings, guard, history, GateTypes, GateTypeOK
<1>4. ASSUME NEW c \in Challenges, create_slider_challenge(c)
      PROVE  GateTypes'
  <2>1. lost' \in 0..MaxLost
    BY <1>0, <1>4 DEF create_slider_challenge, Cache
  <2>2. challenge' \in [Challenges -> NoChallenge..MaxWrong]
    BY <1>4 DEF create_slider_challenge, Cache, GateTypes, GateTypeOK, NoChallenge, MaxWrong
  <2> QED BY <1>4, <2>1, <2>2 DEF create_slider_challenge, guard, GateTypes, GateTypeOK
<1>5. ASSUME NEW c \in Challenges, ChallengeExpires(c)
      PROVE  GateTypes'
  <2>1. challenge' \in [Challenges -> NoChallenge..MaxWrong]
    BY <1>5 DEF ChallengeExpires, GateTypes, GateTypeOK, NoChallenge, MaxWrong
  <2> QED BY <1>5, <2>1 DEF ChallengeExpires, guard, history, GateTypes, GateTypeOK
<1>6. ASSUME NEW t \in Tickets, TicketExpires(t)
      PROVE  GateTypes'
  BY <1>6 DEF TicketExpires, guard, history, GateTypes, GateTypeOK
<1>7. ASSUME NEW r \in Requests, gate' \in [Requests -> Places],
             UNCHANGED <<guard, store, history>>
      PROVE  GateTypes'
  BY <1>7 DEF guard, store, history, GateTypes, GateTypeOK, Places
<1>8. ASSUME NEW r \in Requests,
             ensure_login_allowed(r) \/ consume_nothing(r) \/ GiveUp(r)
      PROVE  GateTypes'
  BY <1>7, <1>8, GotoFacts DEF ensure_login_allowed, consume_nothing, GiveUp, GateTypes
<1>9. ASSUME NEW r \in Requests, NEW t \in Tickets, consume_read(r, t)
      PROVE  GateTypes'
  <2>1. [pc |-> "holding", ticket |-> t] \in Places
    BY DEF Places, Holding
  <2>2. gate' \in [Requests -> Places]
    BY <1>0, <1>9, <2>1 DEF consume_read
  <2> QED BY <1>7, <1>9, <2>2 DEF consume_read
<1>10. ASSUME NEW r \in Requests, NEW c \in Challenges, verify_read(r, c)
       PROVE  GateTypes'
  <2>1. challenge[c] \in 0..MaxWrong
    BY <1>10 DEF verify_read, GateTypes, GateTypeOK, NoChallenge, MaxWrong
  <2>2. [pc |-> "verifying", id |-> c, seen |-> challenge[c]] \in Places
    BY <2>1 DEF Places, Verifying
  <2>3. gate' \in [Requests -> Places]
    BY <1>0, <1>10, <2>2 DEF verify_read
  <2> QED BY <1>10, <2>3 DEF verify_read, guard, store, GateTypes, GateTypeOK, Places
<1>11. ASSUME NEW r \in Requests, record_login_failure(r) \/ clear_login_failures(r)
       PROVE  GateTypes'
  <2>1. gate' \in [Requests -> Places]
    BY <1>11, GotoFacts DEF record_login_failure, clear_login_failures, GateTypes
  <2>2. attempts' \in Nat /\ ttl' \in 0..Window /\ (attempts' > 0 => ttl' > 0)
    BY <1>0, <1>11 DEF record_login_failure, clear_login_failures
  <2>3. UNCHANGED <<store, history>>
    BY <1>11 DEF record_login_failure, clear_login_failures
  <2> QED BY <2>1, <2>2, <2>3 DEF store, history, GateTypes, GateTypeOK, Places
<1>12. ASSUME NEW r \in Requests, consume_delete(r)
       PROVE  GateTypes'
  <2>1. gate' \in [Requests -> Places] /\ gate[r].ticket \in Tickets
    BY <1>12, GotoFacts, PlaceFacts DEF consume_delete, GateTypes
  <2>2. lost' \in 0..MaxLost /\ ticket' \in [Tickets -> {"unused", "live", "gone"}]
    BY <1>0, <1>12 DEF consume_delete, Cache, GateTypes, GateTypeOK
  <2>3. accepted' \in [Tickets -> Nat] /\ spent' \in [Tickets -> Nat]
    <3>1. \A t \in Tickets : Cardinality(Holders(t)) \in Nat
      BY RequestsAssumption, FS_Subset, FS_CardinalityType DEF Holders
    <3> QED BY <1>12, <2>1, <3>1 DEF consume_delete, Spend, GateTypes, GateTypeOK
  <2> QED BY <1>12, <2>1, <2>2, <2>3 DEF consume_delete, guard, GateTypes, GateTypeOK, Places
<1>13. ASSUME NEW r \in Requests, verify_exhausted(r)
       PROVE  GateTypes'
  <2>1. gate' \in [Requests -> Places] /\ gate[r].id \in Challenges
    BY <1>13, GotoFacts, PlaceFacts DEF verify_exhausted, GateTypes
  <2>2. lost' \in 0..MaxLost
    BY <1>0, <1>13 DEF verify_exhausted, cache_delete_challenge, Cache
  <2>3. challenge' \in [Challenges -> NoChallenge..MaxWrong]
    BY <1>13 DEF verify_exhausted, cache_delete_challenge, Cache, GateTypes,
                 GateTypeOK, NoChallenge, MaxWrong
  <2> QED BY <1>13, <2>1, <2>2, <2>3 DEF verify_exhausted, guard, GateTypes, GateTypeOK, Places
<1>14. ASSUME NEW r \in Requests, verify_wrong(r)
       PROVE  GateTypes'
  <2>1. /\ gate' \in [Requests -> Places] /\ gate[r].id \in Challenges
        /\ gate[r].seen \in 0..MaxWrong /\ gate[r].seen < MaxWrong
    BY <1>14, GotoFacts, PlaceFacts DEF verify_wrong, GateTypes
  <2>2. lost' \in 0..MaxLost
    BY <1>0, <1>14 DEF verify_wrong, Cache
  <2>3. gate[r].seen + 1 \in NoChallenge..MaxWrong
    BY <2>1 DEF NoChallenge, MaxWrong
  <2>4. challenge' \in [Challenges -> NoChallenge..MaxWrong]
    BY <1>14, <2>3 DEF verify_wrong, Cache, GateTypes, GateTypeOK
  <2>5. wrong' \in [Challenges -> Nat]
    <3>1. wrong \in [Challenges -> Nat] /\ wrong[gate[r].id] + 1 \in Nat
      BY <2>1 DEF GateTypes, GateTypeOK
    <3>2. wrong' = [wrong EXCEPT ![gate[r].id] = wrong[gate[r].id] + 1]
      BY <1>14 DEF verify_wrong
    <3> QED BY <3>1, <3>2
  <2> QED BY <1>14, <2>1, <2>2, <2>4, <2>5 DEF verify_wrong, guard, GateTypes, GateTypeOK, Places
<1>15. ASSUME NEW r \in Requests, verify_right(r)
       PROVE  GateTypes'
  <2>1. gate' \in [Requests -> Places] /\ gate[r].id \in Challenges
    BY <1>15, GotoFacts, PlaceFacts DEF verify_right, GateTypes
  <2>2. lost' \in 0..MaxLost /\ issued' \in 0..MaxTickets
    BY <1>0, <1>15 DEF verify_right, cache_delete_challenge, Cache
  <2>3. challenge' \in [Challenges -> NoChallenge..MaxWrong]
    BY <1>15 DEF verify_right, cache_delete_challenge, Cache, GateTypes,
                 GateTypeOK, NoChallenge, MaxWrong
  <2>4. /\ solved' \in [Challenges -> Nat]
        /\ ticket' \in [Tickets -> {"unused", "live", "gone"}]
    <3>1. solved \in [Challenges -> Nat] /\ solved[gate[r].id] + 1 \in Nat
      BY <2>1 DEF GateTypes, GateTypeOK
    <3>2. solved' = [solved EXCEPT ![gate[r].id] = solved[gate[r].id] + 1]
      BY <1>15 DEF verify_right
    <3>3. ticket' \in [Tickets -> {"unused", "live", "gone"}]
      BY <1>15 DEF verify_right, GateTypes, GateTypeOK
    <3> QED BY <3>1, <3>2, <3>3
  <2> QED BY <1>15, <2>1, <2>2, <2>3, <2>4 DEF verify_right, guard, GateTypes, GateTypeOK, Places
<1> QED BY <1>1, <1>2, <1>3, <1>4, <1>5, <1>6, <1>8, <1>9, <1>10, <1>11, <1>12,
           <1>13, <1>14, <1>15 DEF GateNext

\* The login guard and the captcha keep their types.
THEOREM GateTypeCorrect == GateSpec => []GateTypeOK
<1>1. GateInit => GateTypes
  BY GateAssumption
     DEF GateInit, GateTypes, GateTypeOK, NoChallenge, MaxWrong, Idle, Tickets
<1>2. GateTypes => GateTypeOK
  BY DEF GateTypes
<1> QED BY <1>1, <1>2, GateTypeStep, PTL DEF GateSpec

LEMMA GateTypesHold == GateSpec => []GateTypes
<1>1. GateInit => GateTypes
  BY GateAssumption
     DEF GateInit, GateTypes, GateTypeOK, NoChallenge, MaxWrong, Idle, Tickets
<1> QED BY <1>1, GateTypeStep, PTL DEF GateSpec

-----------------------------------------------------------------------------
(* The failure counter.                                                    *)

\* A step of a request that does not take it into a set of requests leaves the
\* set as it is or smaller.
LEMMA SetBounds ==
  ASSUME NEW S \in SUBSET Requests
  PROVE  /\ IsFiniteSet(S)
         /\ Cardinality(S) \in Nat
         /\ Cardinality(S) <= Cardinality(Requests)
         /\ Cardinality(Requests) \in Nat
         /\ \A T \in SUBSET S : Cardinality(T) \in Nat /\ Cardinality(T) <= Cardinality(S)
         /\ \A r \in S : Cardinality(S \ {r}) = Cardinality(S) - 1
<1>1. IsFiniteSet(S)
  BY RequestsAssumption, FS_Subset
<1>2. \A T \in SUBSET S : IsFiniteSet(T) /\ Cardinality(T) <= Cardinality(S)
  BY <1>1, FS_Subset
<1>3. \A r \in S : Cardinality(S \ {r}) = Cardinality(S) - 1
  BY <1>1, FS_RemoveElement
<1> QED BY <1>1, <1>2, <1>3, RequestsAssumption, FS_Subset, FS_CardinalityType

LEMMA GuardStep ==
  ASSUME GateTypes, FailuresBounded, [GateNext]_gateVars
  PROVE  FailuresBounded'
<1> DEFINE R == Cardinality(Requests)
           P == Cardinality(PastGuard)
<1>0. /\ attempts \in Nat /\ MaxAttempts \in Nat /\ MaxAttempts >= 1
      /\ P \in Nat /\ R \in Nat
  BY GateAssumption, SetBounds DEF GateTypes, GateTypeOK, PastGuard
<1>1. ASSUME attempts' \in Nat, attempts' <= attempts, PastGuard' \subseteq PastGuard
      PROVE  FailuresBounded'
  <2>1. Cardinality(PastGuard') \in Nat /\ Cardinality(PastGuard') <= P
    BY <1>1, SetBounds DEF PastGuard
  <2> QED BY <1>0, <1>1, <2>1 DEF FailuresBounded
<1>2. ASSUME NEW r \in Requests, ensure_login_allowed(r)
      PROVE  FailuresBounded'
  <2>1. attempts' = attempts /\ attempts < MaxAttempts
    BY <1>2 DEF ensure_login_allowed, guard
  <2>2. Cardinality(PastGuard') \in Nat /\ Cardinality(PastGuard') <= R
    BY SetBounds DEF PastGuard
  <2> QED BY <1>0, <2>1, <2>2 DEF FailuresBounded
<1>3. ASSUME NEW r \in Requests, record_login_failure(r)
      PROVE  FailuresBounded'
  <2>1. r \in PastGuard /\ PastGuard' \subseteq PastGuard \ {r} /\ attempts' = attempts + 1
    BY <1>3, GotoFacts DEF record_login_failure, PastGuard, GateTypes
  <2>2. Cardinality(PastGuard \ {r}) = P - 1
    BY <2>1, SetBounds DEF PastGuard
  <2>3. /\ Cardinality(PastGuard') \in Nat
        /\ Cardinality(PastGuard') <= Cardinality(PastGuard \ {r})
    <3>1. PastGuard \ {r} \in SUBSET Requests
      BY DEF PastGuard
    <3> QED BY <2>1, <3>1, SetBounds
  <2> QED BY <1>0, <2>1, <2>2, <2>3 DEF FailuresBounded
<1>4. ASSUME UNCHANGED <<attempts, gate>>
      PROVE  FailuresBounded'
  BY <1>4 DEF FailuresBounded, PastGuard
<1>5. ASSUME NEW r \in Requests, gate[r].pc \in {"allowed", "holding"},
             NEW pc \in {"idle", "checking"}, Goto(r, pc), UNCHANGED guard
      PROVE  FailuresBounded'
  <2>1. PastGuard' \subseteq PastGuard
    BY <1>5, GotoFacts DEF PastGuard, GateTypes
  <2> QED BY <1>0, <1>1, <1>5, <2>1 DEF guard
<1>6. ASSUME NEW r \in Requests, Goto(r, "idle"), attempts' \in {0, attempts}
      PROVE  FailuresBounded'
  <2>1. PastGuard' \subseteq PastGuard
    BY <1>6, GotoFacts DEF PastGuard, GateTypes
  <2> QED BY <1>0, <1>1, <1>6, <2>1
<1>7. ASSUME NEW r \in Requests, NEW t \in Tickets, consume_read(r, t)
      PROVE  FailuresBounded'
  <2>1. PastGuard' \subseteq PastGuard /\ attempts' = attempts
    BY <1>7, PlaceFacts DEF consume_read, PastGuard, GateTypes, guard
  <2> QED BY <1>0, <1>1, <2>1
<1>8. ASSUME NEW r \in Requests, NEW c \in Challenges, verify_read(r, c)
      PROVE  FailuresBounded'
  <2>1. PastGuard' \subseteq PastGuard /\ attempts' = attempts
    BY <1>8, PlaceFacts DEF verify_read, PastGuard, GateTypes, guard
  <2> QED BY <1>0, <1>1, <2>1
<1>9. CASE WindowPasses
  BY <1>0, <1>1, <1>9 DEF WindowPasses, PastGuard
<1>10. CASE \/ UNCHANGED gateVars \/ save_slider_captcha_settings
            \/ \E c \in Challenges : create_slider_challenge(c) \/ ChallengeExpires(c)
            \/ \E t \in Tickets : TicketExpires(t)
  BY <1>4, <1>10 DEF gateVars, guard, save_slider_captcha_settings,
       create_slider_challenge, ChallengeExpires, TicketExpires
<1>11. ASSUME NEW r \in Requests,
              \/ verify_exhausted(r) \/ verify_wrong(r) \/ verify_right(r)
              \/ clear_login_failures(r) \/ GiveUp(r)
       PROVE  FailuresBounded'
  BY <1>6, <1>11 DEF verify_exhausted, verify_wrong, verify_right,
       clear_login_failures, GiveUp, guard
<1>12. ASSUME NEW r \in Requests, consume_nothing(r) \/ consume_delete(r)
       PROVE  FailuresBounded'
  BY <1>5, <1>12 DEF consume_nothing, consume_delete
<1> QED BY <1>2, <1>3, <1>7, <1>8, <1>9, <1>10, <1>11, <1>12 DEF GateNext

\* In no window are more wrong passwords tried than login_max_attempts and the
\* other requests that passed the check with the last one allowed.
THEOREM FailuresAreBounded == GateSpec => []FailuresBounded
<1>1. GateInit => FailuresBounded
  <2> SUFFICES ASSUME GateInit
               PROVE  FailuresBounded
    OBVIOUS
  <2>1. PastGuard = {}
    BY DEF GateInit, PastGuard, Idle
  <2>2. Cardinality(PastGuard) = 0 /\ Cardinality(Requests) \in Nat
    BY <2>1, FS_EmptySet, SetBounds
  <2> QED BY <2>2, GateAssumption DEF GateInit, FailuresBounded
<1> QED BY <1>1, GuardStep, GateTypesHold, PTL DEF GateSpec

-----------------------------------------------------------------------------
(* Tickets.                                                                *)

\* While no command was lost, a ticket that was used is deleted; tickets are
\* issued in the order of their numbers.
TicketInv ==
  /\ \A t \in Tickets : t > issued => ticket[t] = "unused"
  /\ \A t \in Tickets : ticket[t] = "unused" => Holders(t) = {}
  /\ lost = 0 => \A t \in Tickets : ticket[t] # "gone" => spent[t] = 0
  /\ TicketAdmitsOnlyReaders

LEMMA TicketStep ==
  ASSUME GateTypes, TicketInv, [GateNext]_gateVars
  PROVE  TicketInv'
<1>0. /\ lost \in Nat /\ issued \in Nat
      /\ accepted \in [Tickets -> Nat] /\ spent \in [Tickets -> Nat]
      /\ ticket \in [Tickets -> {"unused", "live", "gone"}]
      /\ gate \in [Requests -> Places]
  BY GateAssumption DEF GateTypes, GateTypeOK, Places
<1>1. ASSUME NEW t \in Tickets, accepted'[t] = accepted[t], spent'[t] = spent[t],
             Holders(t)' \subseteq Holders(t), lost = 0
      PROVE  AdmitsOnlyReaders(t)'
  <2>1. /\ Cardinality(Holders(t)') \in Nat /\ Cardinality(Holders(t)) \in Nat
        /\ Cardinality(Holders(t)') <= Cardinality(Holders(t))
    BY <1>1, SetBounds DEF Holders
  <2>2. AdmitsOnlyReaders(t)
    BY <1>1 DEF TicketInv, TicketAdmitsOnlyReaders
  <2> QED BY <1>0, <1>1, <2>1, <2>2 DEF AdmitsOnlyReaders
<1>3. ASSUME UNCHANGED <<ticket, issued, accepted, spent>>, lost' \in Nat, lost' = 0 => lost = 0,
             \A t \in Tickets : Holders(t)' \subseteq Holders(t)
      PROVE  TicketInv'
  <2>1. TicketAdmitsOnlyReaders'
    BY <1>1, <1>3 DEF TicketAdmitsOnlyReaders
  <2> QED BY <1>3, <2>1 DEF TicketInv
<1>4. lost' \in Nat /\ (lost' = 0 => lost = 0) /\ (lost' # lost => lost' # 0)
  BY <1>0, SMTT(30) DEF GateNext, gateVars, guard, store, history, WindowPasses,
     save_slider_captcha_settings, create_slider_challenge, ChallengeExpires,
     TicketExpires, verify_exhausted, verify_wrong, verify_right,
     ensure_login_allowed, consume_nothing, consume_delete, record_login_failure,
     clear_login_failures, GiveUp, verify_read, consume_read, Cache,
     cache_delete_challenge
<1>5. ASSUME NEW r \in Requests, NEW pc \in {"idle", "allowed", "checking"}, Goto(r, pc)
      PROVE  \A t \in Tickets : Holders(t)' \subseteq Holders(t) \ {r}
  BY <1>5, GotoFacts DEF Holders, GateTypes
<1>6. CASE \/ UNCHANGED gateVars \/ WindowPasses \/ save_slider_captcha_settings
           \/ \E c \in Challenges : create_slider_challenge(c) \/ ChallengeExpires(c)
  <2>1. UNCHANGED <<ticket, issued, accepted, spent, gate>>
    BY <1>6 DEF gateVars, store, history, WindowPasses, save_slider_captcha_settings,
         create_slider_challenge, ChallengeExpires
  <2> QED BY <1>3, <1>4, <2>1 DEF Holders
<1>7. ASSUME NEW r \in Requests,
             \/ verify_exhausted(r) \/ verify_wrong(r) \/ ensure_login_allowed(r)
             \/ consume_nothing(r) \/ record_login_failure(r)
             \/ clear_login_failures(r) \/ GiveUp(r)
      PROVE  TicketInv'
  <2>1. UNCHANGED <<ticket, issued, accepted, spent>>
    BY <1>7 DEF verify_exhausted, verify_wrong, ensure_login_allowed, consume_nothing,
         record_login_failure, clear_login_failures, GiveUp, store, history
  <2>2. Goto(r, "idle") \/ Goto(r, "allowed") \/ Goto(r, "checking")
    BY <1>7 DEF verify_exhausted, verify_wrong, ensure_login_allowed, consume_nothing,
         record_login_failure, clear_login_failures, GiveUp
  <2>3. \A t \in Tickets : Holders(t)' \subseteq Holders(t)
    BY <1>5, <2>2
  <2> QED BY <1>3, <1>4, <2>1, <2>3
<1>8. ASSUME NEW t \in Tickets, TicketExpires(t)
      PROVE  TicketInv'
  <2>1. /\ ticket[t] = "live" /\ ticket' = [ticket EXCEPT ![t] = "gone"]
        /\ UNCHANGED <<issued, accepted, spent, gate, lost>>
    BY <1>8 DEF TicketExpires, history
  <2>2. TicketAdmitsOnlyReaders'
    BY <2>1 DEF TicketInv, TicketAdmitsOnlyReaders, AdmitsOnlyReaders, Holders
  <2>3. \A u \in Tickets : ticket'[u] = "unused" => Holders(u)' = {}
    BY <1>0, <2>1 DEF TicketInv, Holders
  <2> QED BY <1>0, <2>1, <2>2, <2>3 DEF TicketInv
<1>9. ASSUME NEW r \in Requests, NEW c \in Challenges, verify_read(r, c)
      PROVE  TicketInv'
  <2>1. UNCHANGED <<ticket, issued, accepted, spent>>
    BY <1>9 DEF verify_read, store
  <2>2. \A t \in Tickets : Holders(t)' \subseteq Holders(t)
    BY <1>0, <1>9 DEF verify_read, Holders
  <2> QED BY <1>3, <1>4, <2>1, <2>2
<1>10. ASSUME NEW r \in Requests, NEW t \in Tickets, consume_read(r, t)
       PROVE  TicketInv'
  <2>1. ticket[t] = "live" /\ UNCHANGED <<ticket, issued, accepted, spent, lost>>
    BY <1>10 DEF consume_read, store, history
  <2>2. \A u \in Tickets : u # t => Holders(u)' \subseteq Holders(u)
    BY <1>0, <1>10 DEF consume_read, Holders
  <2>3. lost = 0 => AdmitsOnlyReaders(t)'
    BY <2>1 DEF TicketInv, TicketAdmitsOnlyReaders, AdmitsOnlyReaders
  <2>4. TicketAdmitsOnlyReaders'
    BY <1>1, <2>1, <2>2, <2>3 DEF TicketAdmitsOnlyReaders
  <2>5. \A u \in Tickets : ticket'[u] = "unused" => Holders(u)' = {}
    BY <2>1, <2>2 DEF TicketInv
  <2> QED BY <2>1, <2>4, <2>5 DEF TicketInv
<1>11. ASSUME NEW r \in Requests, NEW t \in Tickets, t = gate[r].ticket,
              consume_delete(r)
       PROVE  TicketInv'
  <2>1. r \in Holders(t) /\ issued' = issued
    BY <1>11 DEF consume_delete, Holders
  <2>2. /\ \A u \in Tickets : u # t => accepted'[u] = accepted[u]
        /\ accepted'[t] \in {accepted[t], accepted[t] + 1}
        /\ \A u \in Tickets : u # t => spent'[u] = spent[u]
        /\ spent'[t] = IF spent[t] = 0 THEN Cardinality(Holders(t)) ELSE spent[t]
    BY <1>0, <1>11, <2>1 DEF consume_delete, Spend
  <2>3. /\ ticket' \in {ticket, [ticket EXCEPT ![t] = "gone"]}
        /\ lost' = 0 => ticket' = [ticket EXCEPT ![t] = "gone"]
    BY <1>0, <1>11 DEF consume_delete, Cache
  <2>4. \A u \in Tickets : Holders(u)' \subseteq Holders(u) \ {r}
    BY <1>5, <1>11 DEF consume_delete
  <2>5. ASSUME lost' = 0
        PROVE  AdmitsOnlyReaders(t)'
    <3>1. Cardinality(Holders(t) \ {r}) = Cardinality(Holders(t)) - 1
      BY <2>1, SetBounds DEF Holders
    <3>2. Holders(t) \ {r} \in SUBSET Requests
      BY DEF Holders
    <3>3. /\ Cardinality(Holders(t)') \in Nat
          /\ Cardinality(Holders(t)') <= Cardinality(Holders(t) \ {r})
      BY <2>1, <2>4, <3>2, SetBounds
    <3>4. Cardinality(Holders(t)) \in Nat
      BY SetBounds DEF Holders
    <3>5. accepted[t] \in Nat /\ accepted'[t] \in Nat
      BY <1>0, <2>1, <2>2
    <3>6. accepted'[t] + Cardinality(Holders(t)') <= accepted[t] + Cardinality(Holders(t))
      BY <2>2, <3>1, <3>3, <3>4, <3>5
    <3>7. AdmitsOnlyReaders(t)
      BY <1>4, <2>5 DEF TicketInv, TicketAdmitsOnlyReaders
    <3>8. Cardinality(Holders(t)) # 0
      BY <3>1, <3>3, <3>4, <3>2, SetBounds
    <3> QED BY <1>0, <2>2, <3>3, <3>4, <3>5, <3>6, <3>7, <3>8 DEF AdmitsOnlyReaders
  <2>6. \A u \in Tickets : u # t => Holders(u)' \subseteq Holders(u)
    BY <2>4
  <2>7. TicketAdmitsOnlyReaders'
    BY <1>1, <1>4, <2>2, <2>5, <2>6 DEF TicketAdmitsOnlyReaders
  <2>8. \A u \in Tickets : u > issued' => ticket'[u] = "unused"
    <3>1. ticket[t] # "unused"
      BY <2>1 DEF TicketInv
    <3> QED BY <1>0, <2>1, <2>3, <3>1 DEF TicketInv
  <2>9. lost' = 0 => \A u \in Tickets : ticket'[u] # "gone" => spent'[u] = 0
    BY <1>0, <1>4, <2>1, <2>2, <2>3 DEF TicketInv
  <2>10. \A u \in Tickets : ticket'[u] = "unused" => Holders(u)' = {}
    BY <1>0, <2>3, <2>4 DEF TicketInv
  <2> QED BY <2>7, <2>8, <2>9, <2>10 DEF TicketInv
<1>12. ASSUME NEW r \in Requests, verify_right(r)
       PROVE  TicketInv'
  <2>1. /\ issued' = issued + 1 /\ UNCHANGED <<accepted, spent>>
        /\ \E x \in {"live", "gone"} : ticket' = [ticket EXCEPT ![issued + 1] = x]
        /\ Goto(r, "idle")
        /\ issued + 1 \in Tickets
    BY <1>0, <1>12, GateAssumption DEF verify_right, Tickets
  <2>2. \A t \in Tickets : Holders(t)' \subseteq Holders(t)
    BY <1>5, <2>1
  <2>3. TicketAdmitsOnlyReaders'
    BY <1>1, <1>4, <2>1, <2>2 DEF TicketAdmitsOnlyReaders
  <2>4. ticket[issued + 1] = "unused"
    BY <1>0, <2>1 DEF TicketInv
  <2>5. lost = 0 => \A t \in Tickets : ticket'[t] # "gone" => spent'[t] = 0
    BY <1>0, <2>1, <2>4 DEF TicketInv
  <2>6. \A t \in Tickets : t > issued' => ticket'[t] = "unused"
    <3>1. Tickets \subseteq Int
      BY DEF Tickets
    <3> QED BY <1>0, <2>1, <3>1 DEF TicketInv
  <2>7. \A t \in Tickets : ticket'[t] = "unused" => Holders(t)' = {}
    BY <1>0, <2>1, <2>2, <2>4 DEF TicketInv
  <2> QED BY <1>4, <2>3, <2>5, <2>6, <2>7 DEF TicketInv
<1>13. ASSUME NEW r \in Requests, consume_delete(r)
       PROVE  TicketInv'
  BY <1>11, <1>13, PlaceFacts DEF consume_delete, GateTypes
<1> QED BY <1>6, <1>7, <1>8, <1>9, <1>10, <1>12, <1>13 DEF GateNext

\* Unless a delete was lost, a ticket admits only requests that had read it when
\* it was deleted first: one that comes later is refused.
THEOREM TicketsAdmitReaders == GateSpec => []TicketAdmitsOnlyReaders
<1>1. GateInit => TicketInv
  <2> SUFFICES ASSUME GateInit
               PROVE  TicketInv
    OBVIOUS
  <2>1. \A t \in Tickets : Holders(t) = {}
    BY DEF GateInit, Holders, Idle
  <2>3. TicketAdmitsOnlyReaders
    BY DEF GateInit, TicketAdmitsOnlyReaders, AdmitsOnlyReaders
  <2> QED BY <2>1, <2>3 DEF GateInit, TicketInv
<1>2. TicketInv => TicketAdmitsOnlyReaders
  BY DEF TicketInv
<1> QED BY <1>1, <1>2, TicketStep, GateTypesHold, PTL DEF GateSpec

-----------------------------------------------------------------------------
(* Challenges.                                                             *)

Verifies(r, c) == gate[r].pc = "verifying" /\ gate[r].id = c

\* What Redis and the one request verifying a challenge know of it is the number
\* of wrong positions tried, and that it has not been solved.
Untouched(c) ==
  /\ challenge[c] # NoChallenge => challenge[c] = wrong[c] /\ solved[c] = 0
  /\ \A r \in Requests : Verifies(r, c) =>
       /\ gate[r].seen = wrong[c] /\ solved[c] = 0
       /\ \A q \in Requests : Verifies(q, c) => q = r
  /\ c \notin drawnUp => /\ challenge[c] = NoChallenge
                         /\ wrong[c] = 0 /\ solved[c] = 0
                         /\ \A r \in Requests : ~Verifies(r, c)
  /\ solved[c] <= 1 /\ wrong[c] <= MaxWrong

ChallengeInv == lost = 0 => \A c \in Challenges \ overlapped : Untouched(c)

LEMMA ChallengeStep ==
  ASSUME GateTypes, ChallengeInv, [GateNext]_gateVars
  PROVE  ChallengeInv'
<1>0. /\ lost \in Nat
      /\ challenge \in [Challenges -> NoChallenge..MaxWrong]
      /\ solved \in [Challenges -> Nat] /\ wrong \in [Challenges -> Nat]
      /\ gate \in [Requests -> Places]
      /\ overlapped \subseteq Challenges
  BY GateAssumption DEF GateTypes, GateTypeOK, Places
<1>1. ASSUME UNCHANGED <<challenge, solved, wrong, drawnUp, overlapped>>,
             lost' = 0 => lost = 0,
             \A r \in Requests, c \in Challenges :
               Verifies(r, c)' => Verifies(r, c) /\ gate'[r] = gate[r]
      PROVE  ChallengeInv'
  BY <1>1 DEF ChallengeInv, Untouched
<1>2. ASSUME NEW r \in Requests, NEW pc \in {"idle", "allowed", "checking"}, Goto(r, pc)
      PROVE  /\ \A q \in Requests, c \in Challenges :
                  Verifies(q, c)' => Verifies(q, c) /\ gate'[q] = gate[q]
             /\ \A c \in Challenges : ~Verifies(r, c)'
  BY <1>2, GotoFacts DEF Verifies, GateTypes
<1>3. CASE \/ UNCHANGED gateVars \/ WindowPasses \/ save_slider_captcha_settings
           \/ \E t \in Tickets : TicketExpires(t)
  BY <1>1, <1>3 DEF gateVars, store, history, WindowPasses,
       save_slider_captcha_settings, TicketExpires, Verifies
<1>4. ASSUME NEW r \in Requests,
             \/ ensure_login_allowed(r) \/ consume_nothing(r) \/ GiveUp(r)
             \/ record_login_failure(r) \/ clear_login_failures(r)
      PROVE  ChallengeInv'
  <2>1. UNCHANGED <<challenge, solved, wrong, drawnUp, overlapped, lost>>
    BY <1>4 DEF ensure_login_allowed, consume_nothing, GiveUp, record_login_failure,
         clear_login_failures, store, history
  <2>2. Goto(r, "idle") \/ Goto(r, "allowed") \/ Goto(r, "checking")
    BY <1>4 DEF ensure_login_allowed, consume_nothing, GiveUp, record_login_failure,
         clear_login_failures
  <2> QED BY <1>1, <1>2, <2>1, <2>2
<1>5. ASSUME NEW r \in Requests, consume_delete(r)
      PROVE  ChallengeInv'
  <2>1. /\ UNCHANGED <<challenge, solved, wrong, drawnUp, overlapped>>
        /\ lost' = 0 => lost = 0
        /\ Goto(r, "idle") \/ Goto(r, "checking")
    BY <1>0, <1>5 DEF consume_delete, Cache
  <2> QED BY <1>1, <1>2, <2>1
<1>6. ASSUME NEW r \in Requests, NEW t \in Tickets, consume_read(r, t)
      PROVE  ChallengeInv'
  <2>1. UNCHANGED <<challenge, solved, wrong, drawnUp, overlapped, lost>>
    BY <1>6 DEF consume_read, store, history
  <2>2. \A q \in Requests, c \in Challenges :
          Verifies(q, c)' => Verifies(q, c) /\ gate'[q] = gate[q]
    BY <1>0, <1>6 DEF consume_read, Verifies
  <2> QED BY <1>1, <2>1, <2>2
<1>7. ASSUME NEW c \in Challenges, ChallengeExpires(c)
      PROVE  ChallengeInv'
  BY <1>0, <1>7 DEF ChallengeExpires, history, ChallengeInv, Untouched, Verifies
<1>8. ASSUME NEW c \in Challenges, create_slider_challenge(c)
      PROVE  ChallengeInv'
  <2> SUFFICES ASSUME lost' = 0, NEW d \in Challenges \ overlapped'
               PROVE  Untouched(d)'
    BY DEF ChallengeInv
  <2>1. /\ lost = 0 /\ challenge' = [challenge EXCEPT ![c] = 0]
        /\ c \notin drawnUp /\ drawnUp' = drawnUp \cup {c}
        /\ UNCHANGED <<gate, solved, wrong, overlapped>>
    BY <1>0, <1>8 DEF create_slider_challenge, Cache
  <2>2. Untouched(d)
    BY <2>1 DEF ChallengeInv
  <2> QED BY <1>0, <2>1, <2>2 DEF Untouched, Verifies
<1>9. ASSUME NEW r \in Requests, NEW c \in Challenges, verify_read(r, c)
      PROVE  ChallengeInv'
  <2> SUFFICES ASSUME lost' = 0, NEW d \in Challenges \ overlapped'
               PROVE  Untouched(d)'
    BY DEF ChallengeInv
  <2>1. /\ UNCHANGED <<challenge, drawnUp, solved, wrong, lost>>
        /\ overlapped \subseteq overlapped' /\ challenge[c] # NoChallenge
        /\ gate[r] = Idle
    BY <1>9 DEF verify_read, store
  <2>2. Untouched(d)
    BY <2>1 DEF ChallengeInv
  <2>3. /\ gate'[r].pc = "verifying" /\ gate'[r].id = c /\ gate'[r].seen = challenge[c]
        /\ \A q \in Requests : q # r => gate'[q] = gate[q]
    BY <1>0, <1>9 DEF verify_read
  <2>4. d = c => \A q \in Requests : ~Verifies(q, c)
    BY <1>9 DEF verify_read, Verifies
  <2>5. CASE d = c
    <3>1. \A q \in Requests : Verifies(q, d)' => q = r
      BY <2>3, <2>4, <2>5 DEF Verifies
    <3> QED BY <2>1, <2>2, <2>3, <2>5, <3>1 DEF Untouched, Verifies
  <2>6. CASE d # c
    <3>1. \A q \in Requests : Verifies(q, d)' => Verifies(q, d) /\ gate'[q] = gate[q]
      BY <2>3, <2>6 DEF Verifies
    <3> QED BY <2>1, <2>2, <3>1 DEF Untouched
  <2> QED BY <2>5, <2>6
<1>10. ASSUME NEW r \in Requests, NEW c \in Challenges, c = gate[r].id,
              gate[r].pc = "verifying", Goto(r, "idle"),
              UNCHANGED <<drawnUp, overlapped>>, lost' = 0 => lost = 0,
              \A d \in Challenges : d # c => /\ challenge'[d] = challenge[d]
                                             /\ wrong'[d] = wrong[d]
                                             /\ solved'[d] = solved[d],
              lost = 0 /\ Untouched(c) /\ c \in drawnUp /\ lost' = 0 =>
                /\ challenge'[c] # NoChallenge =>
                     challenge'[c] = wrong'[c] /\ solved'[c] = 0
                /\ solved'[c] <= 1 /\ wrong'[c] <= MaxWrong
       PROVE  ChallengeInv'
  <2> SUFFICES ASSUME lost' = 0, NEW d \in Challenges \ overlapped'
               PROVE  Untouched(d)'
    BY DEF ChallengeInv
  <2>1. Untouched(d)
    BY <1>10 DEF ChallengeInv
  <2>2. CASE d = c
    <3>1. Verifies(r, c)
      BY <1>10 DEF Verifies
    <3>2. c \in drawnUp
      BY <2>1, <2>2, <3>1 DEF Untouched
    <3>3. \A q \in Requests : ~Verifies(q, d)'
      BY <1>2, <1>10, <2>1, <2>2, <3>1 DEF Untouched
    <3> QED BY <1>10, <2>1, <2>2, <3>2, <3>3 DEF Untouched
  <2>3. CASE d # c
    BY <1>2, <1>10, <2>1, <2>3 DEF Untouched
  <2> QED BY <2>2, <2>3
<1>11. ASSUME NEW r \in Requests, verify_exhausted(r)
       PROVE  ChallengeInv'
  <2>1. PICK c \in Challenges : c = gate[r].id
    BY <1>11, PlaceFacts DEF verify_exhausted, GateTypes
  <2>2. /\ gate[r].pc = "verifying" /\ Goto(r, "idle")
        /\ UNCHANGED <<drawnUp, overlapped, wrong, solved>>
        /\ lost' = 0 => lost = 0 /\ challenge' = [challenge EXCEPT ![c] = NoChallenge]
        /\ challenge' \in {challenge, [challenge EXCEPT ![c] = NoChallenge]}
    BY <1>0, <1>11, <2>1 DEF verify_exhausted, cache_delete_challenge, Cache
  <2>3. \A d \in Challenges : d # c => challenge'[d] = challenge[d]
    BY <1>0, <2>2
  <2>4. lost' = 0 => challenge'[c] = NoChallenge
    BY <1>0, <2>2
  <2> QED BY <1>10, <2>1, <2>2, <2>3, <2>4 DEF Untouched
<1>12. ASSUME NEW r \in Requests, verify_wrong(r)
       PROVE  ChallengeInv'
  <2>1. PICK c \in Challenges : c = gate[r].id
    BY <1>12, PlaceFacts DEF verify_wrong, GateTypes
  <2>2. /\ gate[r].pc = "verifying" /\ Goto(r, "idle")
        /\ gate[r].seen < MaxWrong
        /\ UNCHANGED <<drawnUp, overlapped, solved>>
        /\ wrong' = [wrong EXCEPT ![c] = wrong[c] + 1]
        /\ lost' = 0 => lost = 0 /\ challenge' = [challenge EXCEPT ![c] = gate[r].seen + 1]
        /\ challenge' \in {challenge, [challenge EXCEPT ![c] = gate[r].seen + 1]}
    BY <1>0, <1>12, <2>1 DEF verify_wrong, Cache
  <2>3. \A d \in Challenges : d # c => challenge'[d] = challenge[d] /\ wrong'[d] = wrong[d]
    BY <1>0, <2>2
  <2>4. lost' = 0 => challenge'[c] = gate[r].seen + 1 /\ wrong'[c] = wrong[c] + 1
    BY <1>0, <2>2
  <2>5. Untouched(c) => gate[r].seen = wrong[c] /\ solved[c] = 0
    BY <2>1, <2>2 DEF Untouched, Verifies
  <2>6. Untouched(c) /\ lost' = 0 => /\ challenge'[c] = wrong'[c] /\ solved'[c] = 0
                                     /\ wrong'[c] <= MaxWrong
    BY <1>0, <2>2, <2>4, <2>5 DEF MaxWrong
  <2> QED BY <1>10, <2>1, <2>2, <2>3, <2>6
<1>13. ASSUME NEW r \in Requests, verify_right(r)
       PROVE  ChallengeInv'
  <2>1. PICK c \in Challenges : c = gate[r].id
    BY <1>13, PlaceFacts DEF verify_right, GateTypes
  <2>2. /\ gate[r].pc = "verifying" /\ Goto(r, "idle")
        /\ UNCHANGED <<drawnUp, overlapped, wrong>>
        /\ solved' = [solved EXCEPT ![c] = solved[c] + 1]
        /\ lost' = 0 => lost = 0 /\ challenge' = [challenge EXCEPT ![c] = NoChallenge]
        /\ challenge' \in {challenge, [challenge EXCEPT ![c] = NoChallenge]}
    BY <1>0, <1>13, <2>1 DEF verify_right, cache_delete_challenge, Cache
  <2>3. \A d \in Challenges : d # c => challenge'[d] = challenge[d] /\ solved'[d] = solved[d]
    BY <1>0, <2>2
  <2>4. lost' = 0 => challenge'[c] = NoChallenge
    BY <1>0, <2>2
  <2>5. Untouched(c) => solved'[c] = 1 /\ wrong'[c] <= MaxWrong
    BY <1>0, <2>1, <2>2 DEF Untouched, Verifies
  <2> QED BY <1>10, <2>1, <2>2, <2>3, <2>4, <2>5
<1> QED BY <1>3, <1>4, <1>5, <1>6, <1>7, <1>8, <1>9, <1>11, <1>12, <1>13 DEF GateNext

\* A challenge whose verifications do not overlap earns one ticket and takes
\* three wrong positions at most, as long as no cache command is lost.
THEOREM ChallengesAreUsedOnce == GateSpec => []ChallengeUsedOnceUnlessOverlapped
<1>1. GateInit => ChallengeInv
  BY DEF GateInit, ChallengeInv, Untouched, Verifies, Idle, MaxWrong
<1>2. ChallengeInv => ChallengeUsedOnceUnlessOverlapped
  BY DEF ChallengeInv, Untouched, ChallengeUsedOnceUnlessOverlapped
<1> QED BY <1>1, <1>2, ChallengeStep, GateTypesHold, PTL DEF GateSpec
=============================================================================
