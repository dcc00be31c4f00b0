---------------------------- MODULE SupportProofs ----------------------------
(***************************************************************************)
(* Proofs about presence and unread counters of a support conversation, for *)
(* any number of sockets, readers and messages.                            *)
(***************************************************************************)
EXTENDS Support, TLAPS

States == {At("off"), At("joining"), At("receiving"), At("leaving"), At("failed")}
            \cup Syncing \cup Casting \cup Sending

\* The handlers that ask for nothing more than to stay connected, or are gone.
LEMMA StateFacts ==
  ASSUME NEW x \in States
  PROVE  /\ x.pc \in {"off", "joining", "receiving", "leaving", "failed", "syncing",
                      "casting", "sending"}
         /\ x.pc = "off" => x = At("off")
         /\ x.pc = "failed" => x = At("failed")
         /\ x.pc = "receiving" => x = At("receiving")
         /\ x.pc = "syncing" => x.then \in {"receiving", "off"} /\ x.was \in Flags
                                /\ x.now \in Flags
         /\ x.pc = "casting" => x.then \in {"receiving", "off"}
         /\ x.pc = "sending" => x.was \in Count
<1>1. CASE x \in {At("off"), At("joining"), At("receiving"), At("leaving"), At("failed")}
  BY <1>1 DEF At
<1>2. CASE x \in Syncing
  BY <1>2 DEF Syncing
<1>3. CASE x \in Casting
  BY <1>3 DEF Casting
<1>4. CASE x \in Sending
  BY <1>4 DEF Sending
<1> QED BY <1>1, <1>2, <1>3, <1>4 DEF States

LEMMA SomeStates ==
  /\ \A pc \in {"off", "joining", "receiving", "leaving", "failed"} :
       At(pc) \in States /\ At(pc).pc = pc
  /\ \A t \in {"receiving", "off"} : [pc |-> "casting", then |-> t] \in States
  /\ \A w \in Count : [pc |-> "sending", was |-> w] \in States
  /\ \A t \in {"receiving", "off"}, w, n \in Flags :
       [pc |-> "syncing", was |-> w, now |-> n, then |-> t] \in States
<1>1. \A pc \in {"off", "joining", "receiving", "leaving", "failed"} :
        At(pc) \in States /\ At(pc).pc = pc
  BY DEF At, States
<1>2. \A t \in {"receiving", "off"} : [pc |-> "casting", then |-> t] \in Casting
  BY DEF Casting
<1>3. \A w \in Count : [pc |-> "sending", was |-> w] \in Sending
  BY DEF Sending
<1>4. \A t \in {"receiving", "off"}, w, n \in Flags :
        [pc |-> "syncing", was |-> w, now |-> n, then |-> t] \in Syncing
  BY DEF Syncing
<1> QED BY <1>1, <1>2, <1>3, <1>4 DEF States

-----------------------------------------------------------------------------
(* Unread counters.                                                        *)

SocketTypes ==
  /\ unread \in Count
  /\ online \in Flags
  /\ sock \in [Sockets -> States]

ReadTypes ==
  /\ fresh \in Count
  /\ muddled \in Flags
  /\ \A q \in Readers : reader[q] # NoReader =>
       reader[q].role \in Roles /\ reader[q].was \in Nat /\ reader[q].fresh \in Nat
  /\ reader = [q \in Readers |-> reader[q]]

\* Every step of a socket takes its handler to one of the states.
LEMMA SocketStep ==
  ASSUME SocketTypes, [Next]_vars
  PROVE  SocketTypes'
<1>1. ASSUME NEW s \in Sockets, NEW x \in States, sock' = [sock EXCEPT ![s] = x]
      PROVE  sock' \in [Sockets -> States]
  BY <1>1 DEF SocketTypes
<1>2. CASE \/ create_conversation \/ create_order_conversation \/ close_conversation
           \/ UNCHANGED vars
           \/ \E q \in Readers : user_messages(q) \/ admin_messages(q) \/ merchant_messages(q)
  BY <1>2 DEF create_conversation, create_order_conversation, close_conversation, Opened,
       vars, user_messages, admin_messages, merchant_messages, list_messages,
       conversation, SocketTypes
<1>3. ASSUME NEW q \in Readers, mark_read(q)
      PROVE  SocketTypes'
  <2>1. UNCHANGED <<online, sock>>
    BY <1>3 DEF mark_read
  <2>2. unread' \in Count
    BY <1>3 DEF mark_read, SocketTypes, Count
  <2> QED BY <2>1, <2>2 DEF SocketTypes
<1>4. ASSUME NEW s \in Sockets, connect(s) \/ disconnect(s) \/ commit_fails(s)
      PROVE  SocketTypes'
  <2>1. \E pc \in {"joining", "leaving"} : sock' = [sock EXCEPT ![s] = At(pc)]
    BY <1>4 DEF connect, disconnect, commit_fails
  <2>2. UNCHANGED <<unread, online>>
    BY <1>4 DEF connect, disconnect, commit_fails, conversation
  <2> QED BY <1>1, <2>1, <2>2, SomeStates DEF SocketTypes
<1>5. ASSUME NEW s \in Sockets, sync_load(s)
      PROVE  SocketTypes'
  <2>1. is_online \in Flags /\ online \in Flags
    BY DEF is_online, Flags, SocketTypes
  <2>2. UNCHANGED <<unread, online>>
    BY <1>5 DEF sync_load, conversation
  <2>3. \E t \in {"receiving", "off"} :
          sock' = [sock EXCEPT ![s] = [pc |-> "syncing", was |-> online,
                                       now |-> is_online, then |-> t]]
    BY <1>5 DEF sync_load
  <2> QED BY <1>1, <2>1, <2>2, <2>3, SomeStates DEF SocketTypes
<1>6. ASSUME NEW s \in Sockets, sync_commit(s)
      PROVE  SocketTypes'
  <2>1. /\ sock[s].then \in {"receiving", "off"} /\ sock[s].now \in Flags
        /\ sock[s].was \in Flags
    BY <1>6, StateFacts DEF sync_commit, SocketTypes
  <2>2. online' \in Flags
    BY <1>6, <2>1 DEF sync_commit, SocketTypes, Flags
  <2>3. sock' = [sock EXCEPT ![s] = [pc |-> "casting", then |-> sock[s].then]]
        /\ unread' = unread
    BY <1>6 DEF sync_commit
  <2> QED BY <1>1, <2>1, <2>2, <2>3, SomeStates DEF SocketTypes
<1>7. ASSUME NEW s \in Sockets, sync_fails(s)
      PROVE  SocketTypes'
  <2>1. \E pc \in {"off", "failed"} : sock' = [sock EXCEPT ![s] = At(pc)]
    BY <1>7 DEF sync_fails
  <2>2. UNCHANGED <<unread, online>>
    BY <1>7 DEF sync_fails, conversation
  <2> QED BY <1>1, <2>1, <2>2, SomeStates DEF SocketTypes
<1>8. ASSUME NEW s \in Sockets, ClientGoes(s)
      PROVE  SocketTypes'
  BY <1>8 DEF ClientGoes, conversation, SocketTypes
<1>9. ASSUME NEW s \in Sockets, receive_message(s)
      PROVE  SocketTypes'
  <2>1. sock' = [sock EXCEPT ![s] = [pc |-> "sending", was |-> unread]]
        /\ UNCHANGED <<unread, online>>
    BY <1>9 DEF receive_message, conversation
  <2> QED BY <1>1, <2>1, SomeStates DEF SocketTypes
<1>10. ASSUME NEW s \in Sockets, commit_message(s)
       PROVE  SocketTypes'
  <2>1. sock[s].was \in Count
    BY <1>10, StateFacts DEF commit_message, SocketTypes
  <2>2. unread' \in Count
    BY <1>10, <2>1 DEF commit_message, SocketTypes, Count
  <2>3. sock' = [sock EXCEPT ![s] = [pc |-> "casting", then |-> "receiving"]]
        /\ online' = online
    BY <1>10 DEF commit_message
  <2> QED BY <1>1, <2>2, <2>3, SomeStates DEF SocketTypes
<1>11. ASSUME NEW s \in Sockets, typing(s)
       PROVE  SocketTypes'
  <2>1. sock' = [sock EXCEPT ![s] = [pc |-> "casting", then |-> "receiving"]]
        /\ UNCHANGED <<unread, online>>
    BY <1>11 DEF typing, conversation
  <2> QED BY <1>1, <2>1, SomeStates DEF SocketTypes
<1>12. ASSUME NEW s \in Sockets, cast(s)
       PROVE  SocketTypes'
  <2>1. sock[s].then \in {"receiving", "off"}
    BY <1>12, StateFacts DEF cast, SocketTypes
  <2>2. sock' = [sock EXCEPT ![s] = At(sock[s].then)] /\ UNCHANGED <<unread, online>>
    BY <1>12 DEF cast, conversation
  <2> QED BY <1>1, <2>1, <2>2, SomeStates DEF SocketTypes
<1> QED BY <1>2, <1>3, <1>4, <1>5, <1>6, <1>7, <1>8, <1>9, <1>10, <1>11, <1>12 DEF Next

UnreadInv == ReadTypes /\ UnreadCountsFresh

LEMMA UnreadStep ==
  ASSUME SocketTypes, UnreadInv, [Next]_vars
  PROVE  UnreadInv'
<1>1. ASSUME UNCHANGED <<unread, fresh, muddled, reader>>
      PROVE  UnreadInv'
  BY <1>1 DEF UnreadInv, ReadTypes, UnreadCountsFresh
<1>2. ASSUME NEW q \in Readers, NEW role \in Roles, list_messages(q, role)
      PROVE  UnreadInv'
  <2>1. UNCHANGED <<unread, fresh, muddled>>
    BY <1>2 DEF list_messages, conversation, history
  <2>2. unread[role] \in Nat /\ fresh[role] \in Nat
    BY DEF SocketTypes, UnreadInv, ReadTypes, Count
  <2>3. ReadTypes'
    BY <1>2, <2>1, <2>2 DEF list_messages, UnreadInv, ReadTypes
  <2> QED BY <2>1, <2>3 DEF UnreadInv, UnreadCountsFresh
<1>3. ASSUME NEW q \in Readers, NEW role \in Roles, role = reader[q].role, mark_read(q)
      PROVE  UnreadInv'
  <2> DEFINE was == reader[q].was
             had == reader[q].fresh
             clean == was = unread[role] /\ had = fresh[role]
  <2>1. /\ was \in Nat /\ had \in Nat /\ unread[role] \in Nat /\ fresh[role] \in Nat
    BY <1>3 DEF mark_read, SocketTypes, UnreadInv, ReadTypes, Count
  <2>2. /\ unread' = [unread EXCEPT ![role] = IF was = 0 THEN unread[role] ELSE 0]
        /\ fresh' = [fresh EXCEPT ![role] = IF fresh[role] >= had
                                            THEN fresh[role] - had ELSE 0]
        /\ muddled' = [muddled EXCEPT ![role] =
                         ~clean /\ (muddled[role] \/ was # 0 \/ had # 0)]
        /\ reader' = [reader EXCEPT ![q] = NoReader]
    BY <1>3 DEF mark_read
  <2>3. fresh' \in Count
    BY <2>1, <2>2 DEF UnreadInv, ReadTypes, Count
  <2>4. muddled' \in Flags
    BY <2>2 DEF UnreadInv, ReadTypes, Flags
  <2>5. ReadTypes'
    BY <2>2, <2>3, <2>4 DEF UnreadInv, ReadTypes
  <2>6. ASSUME ~muddled'[role]
        PROVE  unread'[role] = fresh'[role]
    <3>1. /\ unread'[role] = (IF was = 0 THEN unread[role] ELSE 0)
          /\ fresh'[role] = (IF fresh[role] >= had THEN fresh[role] - had ELSE 0)
      BY <2>2 DEF SocketTypes, UnreadInv, ReadTypes, Count
    <3>2. clean \/ (~muddled[role] /\ was = 0 /\ had = 0)
      BY <2>2, <2>6 DEF UnreadInv, ReadTypes, Flags
    <3>3. CASE clean
      BY <2>1, <3>1, <3>3
    <3>4. CASE ~muddled[role] /\ was = 0 /\ had = 0
      <4>1. unread[role] = fresh[role]
        BY <3>4 DEF UnreadInv, UnreadCountsFresh
      <4> QED BY <2>1, <3>1, <3>4, <4>1
    <3> QED BY <3>2, <3>3, <3>4
  <2>7. \A r \in Roles : r # role => /\ unread'[r] = unread[r] /\ fresh'[r] = fresh[r]
                                     /\ muddled'[r] = muddled[r]
    BY <2>2 DEF SocketTypes, UnreadInv, ReadTypes, Count, Flags
  <2>8. UnreadCountsFresh'
    BY <2>6, <2>7 DEF UnreadInv, UnreadCountsFresh
  <2> QED BY <2>5, <2>8 DEF UnreadInv
<1>4. ASSUME NEW s \in Sockets, commit_message(s)
      PROVE  UnreadInv'
  <2>1. sock[s].was \in Count
    BY <1>4, StateFacts DEF commit_message, SocketTypes
  <2>2. fresh' \in Count
    BY <1>4 DEF commit_message, UnreadInv, ReadTypes, Count
  <2>3. muddled' \in Flags
    BY <1>4 DEF commit_message, UnreadInv, ReadTypes, Flags
  <2>4. ReadTypes'
    BY <1>4, <2>2, <2>3 DEF commit_message, UnreadInv, ReadTypes
  <2>5. ASSUME NEW role \in Roles, ~muddled'[role]
        PROVE  unread'[role] = fresh'[role]
    <3>1. ~muddled[role]
      BY <1>4, <2>5 DEF commit_message
    <3>2. unread[role] = fresh[role]
      BY <3>1 DEF UnreadInv, UnreadCountsFresh
    <3>3. CASE role \in Roles \ {RoleOf[s]}
      <4>1. sock[s].was[role] = unread[role]
        BY <1>4, <2>5, <3>3 DEF commit_message
      <4>2. unread'[role] = sock[s].was[role] + 1 /\ fresh'[role] = fresh[role] + 1
        BY <1>4, <3>3 DEF commit_message
      <4> QED BY <3>2, <4>1, <4>2
    <3>4. CASE role \notin Roles \ {RoleOf[s]}
      <4>1. unread'[role] = unread[role] /\ fresh'[role] = fresh[role]
        BY <1>4, <3>4 DEF commit_message
      <4> QED BY <3>2, <4>1
    <3> QED BY <3>3, <3>4
  <2> QED BY <2>4, <2>5 DEF UnreadInv, UnreadCountsFresh
<1>5. CASE \/ create_conversation \/ create_order_conversation \/ close_conversation
           \/ UNCHANGED vars
  BY <1>1, <1>5 DEF create_conversation, create_order_conversation, close_conversation,
       Opened, vars, history
<1>6. ASSUME NEW s \in Sockets,
             \/ connect(s) \/ sync_load(s) \/ sync_commit(s) \/ sync_fails(s)
             \/ ClientGoes(s) \/ disconnect(s) \/ receive_message(s)
             \/ commit_fails(s) \/ typing(s) \/ cast(s)
      PROVE  UnreadInv'
  BY <1>1, <1>6 DEF connect, sync_load, sync_commit, sync_fails, ClientGoes, disconnect,
       receive_message, commit_fails, typing, cast, conversation, history
<1>7. ASSUME NEW q \in Readers, mark_read(q)
      PROVE  UnreadInv'
  <2>1. reader[q].role \in Roles
    BY <1>7 DEF mark_read, UnreadInv, ReadTypes
  <2> QED BY <1>3, <1>7, <2>1
<1>8. ASSUME NEW q \in Readers,
             user_messages(q) \/ admin_messages(q) \/ merchant_messages(q)
      PROVE  UnreadInv'
  <2>1. {"user", "admin", "merchant"} \subseteq Roles
    BY DEF Roles
  <2> QED BY <1>2, <1>8, <2>1 DEF user_messages, admin_messages, merchant_messages
<1> QED BY <1>4, <1>5, <1>6, <1>7, <1>8 DEF Next

LEMMA SocketInit == Init => SocketTypes
<1> SUFFICES ASSUME Init PROVE SocketTypes
  OBVIOUS
<1>1. At("off") \in States
  BY SomeStates
<1>2. Zero \in Count /\ Nobody \in Flags
  BY DEF Zero, Nobody, Count, Flags
<1> QED BY <1>1, <1>2 DEF Init, SocketTypes

\* A role's unread counter is the number of messages no read returned to it,
\* unless a counter loaded before another commit was written back after it.
THEOREM UnreadCountsAreFresh == Spec => []UnreadCountsFresh
<1>1. Init => UnreadInv
  <2> SUFFICES ASSUME Init PROVE UnreadInv
    OBVIOUS
  <2>1. Zero \in Count /\ Nobody \in Flags
    BY DEF Zero, Nobody, Count, Flags
  <2> QED BY <2>1 DEF Init, UnreadInv, ReadTypes, UnreadCountsFresh
<1>2. UnreadInv => UnreadCountsFresh
  BY DEF UnreadInv
<1> QED BY <1>1, <1>2, SocketInit, SocketStep, UnreadStep, PTL DEF Spec

-----------------------------------------------------------------------------
(* Presence.                                                               *)

\* A handler that has yet to synchronise: it is on its way to do so, or its
\* client has gone and it will notice.
Pending(s) ==
  \/ sock[s].pc \in {"joining", "leaving", "syncing"}
  \/ /\ s \notin alive
     /\ \/ sock[s].pc \in {"receiving", "sending"}
        \/ sock[s].pc = "casting" /\ sock[s].then = "receiving"

\* A handler on its way out: the manager no longer holds its socket.
Departing(s) ==
  \/ sock[s].pc = "leaving"
  \/ sock[s].pc \in {"syncing", "casting"} /\ sock[s].then = "off"

PresenceInv ==
  /\ \A s \in Sockets : Departing(s) => s \notin connections
  /\ connections \subseteq Sockets
  /\ ~drift => online = is_online \/ \E s \in Sockets : Pending(s)

\* A broadcast removes only sockets whose handlers have yet to synchronise, or
\* presence drifts.
LEMMA BroadcastFacts ==
  ASSUME SocketTypes, PresenceInv, broadcast
  PROVE  /\ connections' \subseteq connections
         /\ ~drift' => /\ ~drift
                       /\ connections' = connections \/ \E s \in Sockets : Pending(s)
<1>1. PICK dead \in SUBSET (connections \ alive) :
        /\ connections' = connections \ dead
        /\ drift' = (drift \/ \E d \in dead : sock[d] \in {At("off"), At("failed")})
  BY DEF broadcast
<1>2. ASSUME ~drift', NEW d \in dead
      PROVE  d \in Sockets /\ Pending(d)
  <2>1. /\ d \in Sockets /\ d \notin alive /\ d \in connections
        /\ sock[d] \notin {At("off"), At("failed")}
    BY <1>1, <1>2 DEF PresenceInv
  <2>2. sock[d] \in States
    BY <2>1 DEF SocketTypes
  <2>3. /\ sock[d].pc \in {"joining", "receiving", "leaving", "syncing", "casting",
                           "sending"}
        /\ sock[d].pc = "casting" => sock[d].then \in {"receiving", "off"}
    BY <2>1, <2>2, StateFacts
  <2>4. ~Departing(d)
    BY <2>1 DEF PresenceInv
  <2> QED BY <2>1, <2>3, <2>4 DEF Departing, Pending
<1>3. ~drift' => ~drift
  BY <1>1
<1>4. CASE dead = {}
  BY <1>1, <1>3, <1>4
<1>5. CASE dead # {}
  BY <1>1, <1>2, <1>3, <1>5
<1> QED BY <1>4, <1>5

LEMMA PresenceStep ==
  ASSUME SocketTypes, PresenceInv, [Next]_vars
  PROVE  PresenceInv'
<1>1. ASSUME UNCHANGED <<online, connections, sock, alive, drift>>
      PROVE  PresenceInv'
  BY <1>1 DEF PresenceInv, is_online, Departing, Pending
<1>2. ASSUME NEW s \in Sockets, NEW x \in States, sock' = [sock EXCEPT ![s] = x]
      PROVE  sock'[s] = x /\ \A r \in Sockets : r # s => sock'[r] = sock[r]
  BY <1>2 DEF SocketTypes
\* A step of one handler that keeps online and drift, takes no other handler
\* anywhere and leaves this one pending if it was.
<1>3. ASSUME NEW s \in Sockets,
             UNCHANGED <<online, connections, drift>>,
             \A r \in Sockets : r # s => sock'[r] = sock[r],
             alive' \subseteq alive,
             Pending(s) => Pending(s)', Departing(s)' => Departing(s)
      PROVE  PresenceInv'
  <2>1. \A r \in Sockets : (Pending(r) => Pending(r)') /\ (Departing(r)' => Departing(r))
    BY <1>3 DEF Pending, Departing
  <2>2. is_online' = is_online
    BY <1>3 DEF is_online
  <2> QED BY <1>3, <2>1, <2>2 DEF PresenceInv
\* A step that leaves its own handler pending.
<1>4. ASSUME NEW s \in Sockets, Pending(s)',
             connections' \subseteq Sockets,
             \A r \in Sockets : r # s => sock'[r] = sock[r],
             \A r \in Sockets : r # s /\ r \in connections' => r \in connections,
             Departing(s)' => s \notin connections'
      PROVE  PresenceInv'
  <2>1. \A r \in Sockets : r # s => (Departing(r)' => Departing(r))
    BY <1>4 DEF Departing
  <2> QED BY <1>4, <2>1 DEF PresenceInv
<1>5. CASE \/ create_conversation \/ create_order_conversation \/ UNCHANGED vars
           \/ \E q \in Readers : \/ user_messages(q) \/ admin_messages(q)
                                 \/ merchant_messages(q) \/ mark_read(q)
  BY <1>1, <1>5 DEF create_conversation, create_order_conversation, Opened, vars,
       user_messages, admin_messages, merchant_messages, list_messages, mark_read,
       conversation, history
<1>6. CASE close_conversation
  <2>1. broadcast /\ UNCHANGED <<online, sock, alive>>
    BY <1>6 DEF close_conversation
  <2>2. \A r \in Sockets : (Pending(r)' <=> Pending(r)) /\ (Departing(r)' <=> Departing(r))
    BY <2>1 DEF Pending, Departing
  <2>3. connections' = connections => is_online' = is_online
    BY DEF is_online
  <2> QED BY <2>1, <2>2, <2>3, BroadcastFacts DEF PresenceInv
<1>7. ASSUME NEW s \in Sockets, connect(s)
      PROVE  PresenceInv'
  <2>1. /\ connections' = connections \cup {s} /\ sock' = [sock EXCEPT ![s] = At("joining")]
    BY <1>7 DEF connect
  <2>2. sock'[s].pc = "joining" /\ \A r \in Sockets : r # s => sock'[r] = sock[r]
    BY <1>2, <2>1, SomeStates
  <2>3. Pending(s)' /\ ~Departing(s)'
    BY <2>2 DEF Pending, Departing
  <2> QED BY <1>4, <2>1, <2>2, <2>3 DEF PresenceInv
<1>8. ASSUME NEW s \in Sockets, disconnect(s) \/ commit_fails(s)
      PROVE  PresenceInv'
  <2>1. /\ connections' = connections \ {s} /\ sock' = [sock EXCEPT ![s] = At("leaving")]
    BY <1>8 DEF disconnect, commit_fails
  <2>2. sock'[s].pc = "leaving" /\ \A r \in Sockets : r # s => sock'[r] = sock[r]
    BY <1>2, <2>1, SomeStates
  <2>3. Pending(s)'
    BY <2>2 DEF Pending
  <2> QED BY <1>4, <2>1, <2>2, <2>3 DEF PresenceInv
<1>9. ASSUME NEW s \in Sockets, sync_load(s)
      PROVE  PresenceInv'
  <2>1. /\ connections' = connections
        /\ sock'[s].pc = "syncing"
        /\ sock'[s].then = (IF sock[s].pc = "joining" THEN "receiving" ELSE "off")
        /\ \A r \in Sockets : r # s => sock'[r] = sock[r]
        /\ sock[s].pc \in {"joining", "leaving"}
    BY <1>9 DEF sync_load, SocketTypes
  <2>2. Pending(s)' /\ (Departing(s)' => Departing(s))
    BY <2>1 DEF Pending, Departing
  <2> QED BY <1>4, <2>1, <2>2 DEF PresenceInv
<1>10. ASSUME NEW s \in Sockets, sync_commit(s)
       PROVE  PresenceInv'
  <2>1. /\ sock[s].then \in {"receiving", "off"} /\ sock[s].pc = "syncing"
    BY <1>10, StateFacts DEF sync_commit, SocketTypes
  <2>2. /\ connections' = connections
        /\ sock'[s].pc = "casting" /\ sock'[s].then = sock[s].then
        /\ \A r \in Sockets : r # s => sock'[r] = sock[r]
    BY <1>10 DEF sync_commit, SocketTypes
  <2>3. \A r \in Sockets : Departing(r)' => Departing(r)
    BY <2>1, <2>2 DEF Departing
  <2>4. ASSUME ~drift'
        PROVE  online' = is_online'
    <3>1. sock[s].was = online /\ sock[s].now = is_online
      BY <1>10, <2>4 DEF sync_commit
    <3>2. online' = [role \in Roles |-> IF is_online[role] # online[role]
                                        THEN is_online[role] ELSE online[role]]
      BY <1>10, <3>1 DEF sync_commit
    <3>3. online' = [role \in Roles |-> is_online[role]]
      BY <3>2
    <3>4. is_online' = is_online
      BY <2>2 DEF is_online
    <3> QED BY <3>3, <3>4 DEF is_online
  <2> QED BY <2>2, <2>3, <2>4 DEF PresenceInv
<1>11. ASSUME NEW s \in Sockets, sync_fails(s)
       PROVE  PresenceInv'
  <2>1. /\ connections' = connections /\ drift'
        /\ \E pc \in {"off", "failed"} : sock' = [sock EXCEPT ![s] = At(pc)]
    BY <1>11 DEF sync_fails
  <2>2. sock'[s].pc \in {"off", "failed"} /\ \A r \in Sockets : r # s => sock'[r] = sock[r]
    BY <1>2, <2>1, SomeStates
  <2>3. \A r \in Sockets : Departing(r)' => Departing(r)
    BY <2>2 DEF Departing
  <2> QED BY <2>1, <2>3 DEF PresenceInv
<1>12. ASSUME NEW s \in Sockets, ClientGoes(s)
       PROVE  PresenceInv'
  <2>1. UNCHANGED <<online, connections, drift, sock>> /\ alive' = alive \ {s}
    BY <1>12 DEF ClientGoes, conversation, history
  <2>2. (Pending(s) => Pending(s)') /\ (Departing(s)' => Departing(s))
    BY <2>1 DEF Pending, Departing
  <2> QED BY <1>3, <2>1, <2>2
<1>13. ASSUME NEW s \in Sockets, receive_message(s) \/ typing(s) \/ commit_message(s)
       PROVE  PresenceInv'
  <2>1. UNCHANGED <<online, connections, drift, alive>>
    BY <1>13 DEF receive_message, typing, commit_message, conversation, history
  <2>2. /\ sock'[s].pc \in {"sending", "casting"}
        /\ sock'[s].pc = "casting" => sock'[s].then = "receiving"
        /\ \A r \in Sockets : r # s => sock'[r] = sock[r]
    BY <1>13 DEF receive_message, typing, commit_message, SocketTypes
  <2>3. sock[s].pc \in {"receiving", "sending"}
    BY <1>13 DEF receive_message, typing, commit_message, At
  <2>4. (Pending(s) => Pending(s)') /\ (Departing(s)' => Departing(s))
    BY <2>1, <2>2, <2>3 DEF Pending, Departing
  <2> QED BY <1>3, <2>1, <2>2, <2>4
<1>14. ASSUME NEW s \in Sockets, cast(s)
       PROVE  PresenceInv'
  <2>1. /\ sock[s].then \in {"receiving", "off"} /\ sock[s].pc = "casting"
        /\ broadcast /\ UNCHANGED <<online, alive>>
        /\ sock' = [sock EXCEPT ![s] = At(sock[s].then)]
    BY <1>14, StateFacts DEF cast, SocketTypes, conversation
  <2>2. /\ sock'[s].pc = sock[s].then
        /\ \A r \in Sockets : r # s => sock'[r] = sock[r]
    BY <1>2, <2>1, SomeStates
  <2>3. \A r \in Sockets : (Pending(r) => Pending(r)') /\ (Departing(r)' => Departing(r))
    BY <2>1, <2>2 DEF Pending, Departing
  <2>4. connections' = connections => is_online' = is_online
    BY DEF is_online
  <2> QED BY <2>1, <2>3, <2>4, BroadcastFacts DEF PresenceInv
<1> QED BY <1>5, <1>6, <1>7, <1>8, <1>9, <1>10, <1>11, <1>12, <1>13, <1>14 DEF Next

\* When every handler is at rest the presence flags are those of the manager,
\* unless the last synchronisation was disturbed.
THEOREM PresenceIsRight == Spec => []PresenceRightAtRest
<1>1. Init => PresenceInv
  <2> SUFFICES ASSUME Init PROVE PresenceInv
    OBVIOUS
  <2>1. online = is_online
    BY DEF Init, Nobody, is_online
  <2>2. \A s \in Sockets : sock[s].pc = "off"
    BY DEF Init, At
  <2> QED BY <2>1, <2>2 DEF Init, PresenceInv, Departing
<1>2. SocketTypes /\ PresenceInv => PresenceRightAtRest
  BY DEF PresenceInv, PresenceRightAtRest, AtRest, Pending
<1> QED BY <1>1, <1>2, SocketInit, SocketStep, PresenceStep, PTL DEF Spec
=============================================================================
