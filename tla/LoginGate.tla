------------------------------ MODULE LoginGate ------------------------------
(***************************************************************************)
(* What stands before a password check: the failure counter of login_guard *)
(* and the slider captcha.  Both live in Redis and no handler holds a lock *)
(* on them: a request reads a key and acts on what it read in a later      *)
(* command, with the commands of other requests in between.                *)
(*                                                                         *)
(* The captcha goes through the cache helpers, which swallow every Redis   *)
(* error: a delete or a write of theirs may silently not happen.  The      *)
(* counter goes through the client itself, whose errors end the request.   *)
(***************************************************************************)
EXTENDS Integers, FiniteSets

CONSTANTS
  Requests,      \* concurrent requests of one client for one account
  Challenges,    \* challenge ids
  MaxAttempts,   \* login_max_attempts
  Window,        \* login_attempt_window_seconds, in ticks
  MaxTickets,    \* bound: tickets issued
  MaxLost        \* bound: cache commands that silently fail

ASSUME RequestsAssumption == IsFiniteSet(Requests) /\ Requests # {}
ASSUME GateAssumption ==
  /\ {MaxAttempts, Window} \subseteq Nat \ {0}
  /\ {MaxTickets, MaxLost} \subseteq Nat

VARIABLES
  attempts,    \* security:login:<key>, 0 when the key is absent
  ttl,         \* its time to live
  captcha,     \* the `enabled` setting of the captcha
  challenge,   \* attempts recorded in slider:challenge:<id>, NoChallenge if absent
  drawnUp,     \* challenge ids handed out
  ticket,      \* slider:ticket:<id>: "unused", "live" or "gone"
  issued,      \* tickets issued so far
  gate,        \* the requests
  solved,      \* history: tickets earned with a challenge
  wrong,       \* history: wrong positions tried on a challenge
  accepted,    \* history: logins a ticket let through
  spent,       \* history: requests that held a ticket when it was deleted first
  overlapped,  \* history: challenges two requests were verifying at once
  lost         \* history: cache commands that failed

guard == <<attempts, ttl>>
store == <<captcha, challenge, drawnUp, ticket, issued>>
history == <<solved, wrong, accepted, spent, overlapped, lost>>
gateVars == <<guard, store, gate, history>>

NoChallenge == -1
MaxWrong == 3
Tickets == 1..MaxTickets

Idle == [pc |-> "idle"]
Verifying == [pc : {"verifying"}, id : Challenges, seen : 0..MaxWrong]
Holding == [pc : {"holding"}, ticket : Tickets]

GateTypeOK ==
  /\ attempts \in Nat
  /\ ttl \in 0..Window
  /\ captcha \in BOOLEAN
  /\ challenge \in [Challenges -> NoChallenge..MaxWrong]
  /\ drawnUp \subseteq Challenges
  /\ ticket \in [Tickets -> {"unused", "live", "gone"}]
  /\ issued \in 0..MaxTickets
  /\ gate \in [Requests -> {Idle, [pc |-> "allowed"], [pc |-> "checking"]}
                           \cup Verifying \cup Holding]
  /\ solved \in [Challenges -> Nat]
  /\ wrong \in [Challenges -> Nat]
  /\ accepted \in [Tickets -> Nat]
  /\ spent \in [Tickets -> Nat]
  /\ overlapped \subseteq Challenges
  /\ lost \in 0..MaxLost

GateInit ==
  /\ attempts = 0
  /\ ttl = 0
  /\ captcha = TRUE
  /\ challenge = [c \in Challenges |-> NoChallenge]
  /\ drawnUp = {}
  /\ ticket = [t \in Tickets |-> "unused"]
  /\ issued = 0
  /\ gate = [r \in Requests |-> Idle]
  /\ solved = [c \in Challenges |-> 0]
  /\ wrong = [c \in Challenges |-> 0]
  /\ accepted = [t \in Tickets |-> 0]
  /\ spent = [t \in Tickets |-> 0]
  /\ overlapped = {}
  /\ lost = 0

Goto(r, pc) == gate' = [gate EXCEPT ![r] = [pc |-> pc]]

\* A cache helper either has its effect or swallows the error.
Cache(effect, none) ==
  \/ effect /\ UNCHANGED lost
  \/ none /\ lost < MaxLost /\ lost' = lost + 1

-----------------------------------------------------------------------------
(* Challenges.                                                             *)

create_slider_challenge(c) ==
  /\ captcha
  /\ c \notin drawnUp
  /\ drawnUp' = drawnUp \cup {c}
  /\ Cache(challenge' = [challenge EXCEPT ![c] = 0], UNCHANGED challenge)
  /\ UNCHANGED <<guard, captcha, ticket, issued, gate, solved, wrong,
                 accepted, spent, overlapped>>

\* The first command of verify_slider_challenge: the challenge is read.
verify_read(r, c) ==
  /\ gate[r] = Idle
  /\ challenge[c] # NoChallenge
  /\ gate' = [gate EXCEPT ![r] = [pc |-> "verifying", id |-> c,
                                  seen |-> challenge[c]]]
  /\ overlapped' = IF \E q \in Requests : gate[q].pc = "verifying" /\ gate[q].id = c
                   THEN overlapped \cup {c} ELSE overlapped
  /\ UNCHANGED <<guard, store, solved, wrong, accepted, spent, lost>>

cache_delete_challenge(c) ==
  Cache(challenge' = [challenge EXCEPT ![c] = NoChallenge], UNCHANGED challenge)

\* Three attempts are recorded: the challenge is dropped.
verify_exhausted(r) ==
  /\ gate[r].pc = "verifying"
  /\ gate[r].seen >= MaxWrong
  /\ cache_delete_challenge(gate[r].id)
  /\ Goto(r, "idle")
  /\ UNCHANGED <<guard, captcha, drawnUp, ticket, issued, solved, wrong,
                 accepted, spent, overlapped>>

\* The challenge is written back with the attempt counted on top of what was
\* read, also when it has been solved, deleted or expired since.
verify_wrong(r) ==
  LET c == gate[r].id IN
  /\ gate[r].pc = "verifying"
  /\ gate[r].seen < MaxWrong
  /\ wrong' = [wrong EXCEPT ![c] = @ + 1]
  /\ Cache(challenge' = [challenge EXCEPT ![c] = gate[r].seen + 1],
           UNCHANGED challenge)
  /\ Goto(r, "idle")
  /\ UNCHANGED <<guard, captcha, drawnUp, ticket, issued, solved, accepted,
                 spent, overlapped>>

\* Mutant: the solved challenge is not deleted.
verify_keeping_challenge(r) ==
  LET c == gate[r].id IN
  /\ gate[r].pc = "verifying"
  /\ gate[r].seen < MaxWrong
  /\ issued < MaxTickets
  /\ issued' = issued + 1
  /\ solved' = [solved EXCEPT ![c] = @ + 1]
  /\ ticket' = [ticket EXCEPT ![issued + 1] = "live"]
  /\ Goto(r, "idle")
  /\ UNCHANGED <<guard, captcha, challenge, drawnUp, wrong, accepted,
                 spent, overlapped, lost>>

\* The challenge is deleted and a ticket issued; each command may be lost.
verify_right(r) ==
  LET c == gate[r].id IN
  /\ gate[r].pc = "verifying"
  /\ gate[r].seen < MaxWrong
  /\ issued < MaxTickets
  /\ issued' = issued + 1
  /\ solved' = [solved EXCEPT ![c] = @ + 1]
  /\ \/ cache_delete_challenge(c)
        /\ ticket' = [ticket EXCEPT ![issued + 1] = "live"]
     \/ /\ lost < MaxLost /\ lost' = lost + 1
        /\ challenge' = [challenge EXCEPT ![c] = NoChallenge]
        /\ ticket' = [ticket EXCEPT ![issued + 1] = "gone"]
  /\ Goto(r, "idle")
  /\ UNCHANGED <<guard, captcha, drawnUp, wrong, accepted, spent, overlapped>>

\* Challenges and tickets carry a time to live.
ChallengeExpires(c) ==
  /\ challenge[c] # NoChallenge
  /\ challenge' = [challenge EXCEPT ![c] = NoChallenge]
  /\ UNCHANGED <<guard, captcha, drawnUp, ticket, issued, gate, history>>

TicketExpires(t) ==
  /\ ticket[t] = "live"
  /\ ticket' = [ticket EXCEPT ![t] = "gone"]
  /\ UNCHANGED <<guard, captcha, challenge, drawnUp, issued, gate, history>>

save_slider_captcha_settings ==
  /\ captcha' = ~captcha
  /\ UNCHANGED <<guard, challenge, drawnUp, ticket, issued, gate, history>>

-----------------------------------------------------------------------------
(* The way of a login to its password check.                               *)

\* Mutant: a refused attempt counts as a failure and renews the window.
ensure_and_count(r) ==
  /\ gate[r] = Idle
  /\ IF attempts < MaxAttempts
     THEN Goto(r, "allowed") /\ UNCHANGED guard
     ELSE ttl' = Window /\ UNCHANGED <<gate, attempts>>
  /\ UNCHANGED <<store, history>>

ensure_login_allowed(r) ==
  /\ gate[r] = Idle
  /\ attempts < MaxAttempts
  /\ Goto(r, "allowed")
  /\ UNCHANGED <<guard, store, history>>

\* consume_slider_ticket while the captcha is switched off.
consume_nothing(r) ==
  /\ gate[r].pc = "allowed"
  /\ ~captcha
  /\ Goto(r, "checking")
  /\ UNCHANGED <<guard, store, history>>

\* Its first command: the ticket is read.
consume_read(r, t) ==
  /\ gate[r].pc = "allowed"
  /\ captcha
  /\ ticket[t] = "live"
  /\ gate' = [gate EXCEPT ![r] = [pc |-> "holding", ticket |-> t]]
  /\ UNCHANGED <<guard, store, history>>

\* The requests that have read a ticket and not yet deleted it.
Holders(t) == {r \in Requests : gate[r].pc = "holding" /\ gate[r].ticket = t}

\* History: the first delete of a ticket finds these requests holding it.
Spend(t) ==
  spent' = [spent EXCEPT ![t] = IF @ = 0 THEN Cardinality(Holders(t)) ELSE @]

\* Mutant: the ticket stays valid after its use.
consume_keeping(r) ==
  LET t == gate[r].ticket IN
  /\ gate[r].pc = "holding"
  /\ accepted[t] <= Cardinality(Requests)
  /\ accepted' = [accepted EXCEPT ![t] = @ + 1]
  /\ Spend(t)
  /\ Goto(r, "checking")
  /\ UNCHANGED <<guard, store, solved, wrong, overlapped, lost>>

\* Its second: the ticket is deleted.  A ticket of another scope is deleted
\* too, and refused.
consume_delete(r) ==
  LET t == gate[r].ticket IN
  /\ gate[r].pc = "holding"
  /\ Cache(ticket' = [ticket EXCEPT ![t] = "gone"], UNCHANGED ticket)
  /\ \/ Goto(r, "checking") /\ accepted' = [accepted EXCEPT ![t] = @ + 1]
     \/ Goto(r, "idle") /\ UNCHANGED accepted
  /\ Spend(t)
  /\ UNCHANGED <<guard, captcha, challenge, drawnUp, issued, solved, wrong,
                 overlapped>>

\* Mutant: the failure is counted twice.
record_twice(r) ==
  /\ gate[r].pc = "checking"
  /\ attempts' = attempts + 2
  /\ ttl' = Window
  /\ Goto(r, "idle")
  /\ UNCHANGED <<store, history>>

\* INCR and EXPIRE in one MULTI.
record_login_failure(r) ==
  /\ gate[r].pc = "checking"
  /\ attempts' = attempts + 1
  /\ ttl' = Window
  /\ Goto(r, "idle")
  /\ UNCHANGED <<store, history>>

clear_login_failures(r) ==
  /\ gate[r].pc = "checking"
  /\ attempts' = 0
  /\ ttl' = 0
  /\ Goto(r, "idle")
  /\ UNCHANGED <<store, history>>

\* An error response, or a client or server that goes away.
GiveUp(r) ==
  /\ gate[r] # Idle
  /\ Goto(r, "idle")
  /\ UNCHANGED <<guard, store, history>>

\* Redis counts the window down and drops the counter at its end.
WindowPasses ==
  /\ attempts > 0
  /\ ttl' = ttl - 1
  /\ attempts' = IF ttl = 1 THEN 0 ELSE attempts
  /\ UNCHANGED <<store, gate, history>>

GateNext ==
  \/ WindowPasses \/ save_slider_captcha_settings
  \/ \E c \in Challenges : create_slider_challenge(c) \/ ChallengeExpires(c)
  \/ \E t \in Tickets : TicketExpires(t)
  \/ \E r \in Requests :
       \/ verify_exhausted(r) \/ verify_wrong(r) \/ verify_right(r)
       \/ ensure_login_allowed(r) \/ consume_nothing(r) \/ consume_delete(r)
       \/ record_login_failure(r) \/ clear_login_failures(r) \/ GiveUp(r)
       \/ \E c \in Challenges : verify_read(r, c)
       \/ \E t \in Tickets : consume_read(r, t)

\* Redis keeps time.
GateSpec == GateInit /\ [][GateNext]_gateVars /\ WF_gateVars(WindowPasses)

-----------------------------------------------------------------------------
(* Properties.                                                             *)

PastGuard == {r \in Requests : gate[r].pc \in {"allowed", "holding", "checking"}}

\* Checking the counter and counting the failure are two commands, so more
\* wrong passwords than login_max_attempts may be tried in a window, but never
\* more than the requests that passed the check together allow.
FailuresBounded ==
  attempts + Cardinality(PastGuard) <= MaxAttempts + Cardinality(Requests) - 1

\* Nobody is admitted before a ticket is deleted first, and then no more than
\* held it, those still holding it included.
AdmitsOnlyReaders(t) ==
  IF spent[t] = 0
  THEN accepted[t] = 0
  ELSE accepted[t] + Cardinality(Holders(t)) <= spent[t]

\* Reading a ticket and deleting it are two commands, so a ticket may admit
\* more than one login: all that had read it when consume_slider_ticket deleted
\* it first.  Unless a delete was lost it admits no others, so a request that
\* comes after the first use is refused.
TicketAdmitsOnlyReaders == lost = 0 => \A t \in Tickets : AdmitsOnlyReaders(t)

\* When its verifications do not overlap and no cache command is lost, a
\* challenge earns at most one ticket and is tried wrongly at most three times.
ChallengeUsedOnceUnlessOverlapped ==
  lost = 0 => \A c \in Challenges \ overlapped :
                solved[c] <= 1 /\ wrong[c] <= MaxWrong

\* A lockout ends: a refused login does not renew the window, and only the
\* finitely many requests already past the check can.
LockoutEnds == attempts >= MaxAttempts ~> attempts < MaxAttempts
=============================================================================
