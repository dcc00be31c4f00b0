------------------------------- MODULE Support -------------------------------
(***************************************************************************)
(* One support conversation: the websockets connected to it, the presence  *)
(* flags and unread counters of its support_conversations row, and the     *)
(* requests that read its messages.                                        *)
(*                                                                         *)
(* The connection manager is memory of the server process.  The row is     *)
(* loaded, changed and committed without a lock, by each socket's handler  *)
(* and by each request on its own: what a handler loaded may have changed  *)
(* when it commits, and only columns it gave another value are written.    *)
(***************************************************************************)
EXTENDS Integers

CONSTANTS
  Sockets,      \* websockets
  RoleOf,       \* the role a socket connects as
  Readers,      \* requests that read the messages
  MaxMessages   \* bound: messages committed

Roles == {"user", "admin", "merchant"}

ASSUME SocketRoles == RoleOf \in [Sockets -> Roles]
ASSUME MessagesAssumption == MaxMessages \in Nat

VARIABLES
  kind,         \* conversation_type, "none" before the row is created
  status,       \* status of the conversation
  unread,       \* unread_user, unread_admin, unread_merchant
  online,       \* user_online, admin_online, merchant_online
  connections,  \* the sockets the manager holds
  sock,         \* the socket handlers
  alive,        \* the sockets whose client is still there
  reader,       \* the reading requests
  sent,         \* messages committed so far
  fresh,        \* history: messages of others not yet returned to a role
  muddled,      \* history: roles whose counter was last written from a stale
                \* value
  drift         \* history: the last change of presence was not a clean sync

vars == <<kind, status, unread, online, connections, sock, alive, reader, sent,
          fresh, muddled, drift>>

Count == [Roles -> Nat]
Flags == [Roles -> BOOLEAN]

At(pc) == [pc |-> pc]
Syncing == [pc : {"syncing"}, then : {"receiving", "off"}, was : Flags, now : Flags]
Casting == [pc : {"casting"}, then : {"receiving", "off"}]
Sending == [pc : {"sending"}, was : Count]
NoReader == [pc |-> "away"]
ReadingAs == [pc : {"reading"}, role : Roles, was : Nat, fresh : Nat]

TypeOK ==
  /\ kind \in {"none", "platform", "study_order"}
  /\ status \in {"open", "closed"}
  /\ unread \in Count
  /\ online \in Flags
  /\ connections \subseteq Sockets
  /\ sock \in [Sockets -> {At("off"), At("joining"), At("receiving"),
                           At("leaving"), At("failed")}
                          \cup Syncing \cup Casting \cup Sending]
  /\ alive \subseteq Sockets
  /\ reader \in [Readers -> ReadingAs \cup {NoReader}]
  /\ sent \in 0..MaxMessages
  /\ fresh \in Count
  /\ muddled \in Flags
  /\ drift \in BOOLEAN

Nobody == [role \in Roles |-> FALSE]
Zero == [role \in Roles |-> 0]

Init ==
  /\ kind = "none"
  /\ status = "open"
  /\ unread = Zero
  /\ online = Nobody
  /\ connections = {}
  /\ sock = [s \in Sockets |-> At("off")]
  /\ alive = {}
  /\ reader = [q \in Readers |-> NoReader]
  /\ sent = 0
  /\ fresh = Zero
  /\ muddled = Nobody
  /\ drift = FALSE

conversation == <<kind, status, unread, online>>
history == <<fresh, muddled, drift>>

is_online == [role \in Roles |-> \E s \in connections : RoleOf[s] = role]

-----------------------------------------------------------------------------
(* The conversation.                                                       *)

\* The row is created, or opened again.
Opened(type) ==
  /\ kind \in {"none", type}
  /\ kind' = type
  /\ status' = "open"
  /\ UNCHANGED <<unread, online, connections, sock, alive, reader, sent, history>>

\* The user's conversation with the platform.
create_conversation == Opened("platform")

\* The conversation about one paid order, with the school that sold it.
create_order_conversation == Opened("study_order")

\* A merchant's school is the one of an order conversation, and of no other.
Admits(role) == kind # "none" /\ (role = "merchant" => kind = "study_order")

\* A payload is sent to every socket the manager holds.  The ones found closed
\* are removed from it, without a sync; their handlers, where they still run,
\* synchronise when they notice.
broadcast ==
  \E dead \in SUBSET (connections \ alive) :
    /\ connections' = connections \ dead
    /\ drift' = (drift \/ \E d \in dead : sock[d] \in {At("off"), At("failed")})

\* The status is committed, then broadcast.
close_conversation ==
  /\ kind # "none"
  /\ status' = "closed"
  /\ broadcast
  /\ UNCHANGED <<kind, unread, online, sock, alive, reader, sent, fresh, muddled>>

\* The conversation is loaded and its messages are listed.
list_messages(q, role) ==
  /\ reader[q] = NoReader
  /\ Admits(role)
  /\ reader' = [reader EXCEPT ![q] = [pc |-> "reading", role |-> role,
                                      was |-> unread[role],
                                      fresh |-> fresh[role]]]
  /\ UNCHANGED <<conversation, connections, sock, alive, sent, history>>

\* Mutant: the counter of another role is reset.
mark_read_of_user(q) ==
  LET role == reader[q].role IN
  /\ reader[q] # NoReader
  /\ unread' = [unread EXCEPT !["user"] = 0]
  /\ fresh' = [fresh EXCEPT ![role] = @ - reader[q].fresh]
  /\ muddled' = [muddled EXCEPT ![role] = FALSE]
  /\ reader' = [reader EXCEPT ![q] = NoReader]
  /\ UNCHANGED <<kind, status, online, connections, sock, alive, sent, drift>>

\* Its commit: the counter is set to 0, written only if it was not 0 already.
mark_read(q) ==
  LET role  == reader[q].role
      clean == reader[q].was = unread[role] /\ reader[q].fresh = fresh[role]
  IN
  /\ reader[q] # NoReader
  /\ unread' = [unread EXCEPT ![role] = IF reader[q].was = 0 THEN @ ELSE 0]
  /\ fresh' = [fresh EXCEPT ![role] = IF @ >= reader[q].fresh
                                      THEN @ - reader[q].fresh ELSE 0]
  /\ muddled' = [muddled EXCEPT ![role] = ~clean /\ (@ \/ reader[q].was # 0
                                                       \/ reader[q].fresh # 0)]
  /\ reader' = [reader EXCEPT ![q] = NoReader]
  /\ UNCHANGED <<kind, status, online, connections, sock, alive, sent, drift>>

user_messages(q) == list_messages(q, "user")
admin_messages(q) == list_messages(q, "admin")
merchant_messages(q) == list_messages(q, "merchant")

-----------------------------------------------------------------------------
(* Sockets.                                                                *)

\* authorize_support_websocket, then the manager takes the socket.
connect(s) ==
  /\ sock[s] = At("off")
  /\ Admits(RoleOf[s])
  /\ connections' = connections \cup {s}
  /\ alive' = alive \cup {s}
  /\ sock' = [sock EXCEPT ![s] = At("joining")]
  /\ UNCHANGED <<conversation, reader, sent, history>>

\* sync_presence loads the row and sets the flags from the manager.
sync_load(s) ==
  /\ sock[s].pc \in {"joining", "leaving"}
  /\ sock' = [sock EXCEPT ![s] =
                [pc |-> "syncing", was |-> online, now |-> is_online,
                 then |-> IF sock[s].pc = "joining" THEN "receiving" ELSE "off"]]
  /\ UNCHANGED <<conversation, connections, alive, reader, sent, history>>

\* Its commit writes the flags it changed; what follows is a broadcast.
sync_commit(s) ==
  /\ sock[s].pc = "syncing"
  /\ online' = [role \in Roles |->
                  IF sock[s].now[role] # sock[s].was[role]
                  THEN sock[s].now[role] ELSE online[role]]
  /\ drift' = ~(sock[s].was = online /\ sock[s].now = is_online)
  /\ sock' = [sock EXCEPT ![s] = [pc |-> "casting", then |-> sock[s].then]]
  /\ UNCHANGED <<kind, status, unread, connections, alive, reader, sent, fresh, muddled>>

\* The database fails.  A socket that was joining is closed with its handler
\* and stays with the manager: the handler was not in its try block yet.
sync_fails(s) ==
  /\ sock[s].pc = "syncing"
  /\ drift' = TRUE
  /\ alive' = alive \ {s}
  /\ sock' = [sock EXCEPT ![s] = IF sock[s].then = "off" THEN At("off")
                                 ELSE At("failed")]
  /\ UNCHANGED <<conversation, connections, reader, sent, fresh, muddled>>

ClientGoes(s) ==
  /\ s \in alive
  /\ alive' = alive \ {s}
  /\ UNCHANGED <<conversation, connections, sock, reader, sent, history>>

\* Mutant: presence is not synchronised when a client goes.
disconnect_silently(s) ==
  /\ sock[s] = At("receiving")
  /\ s \notin alive
  /\ connections' = connections \ {s}
  /\ sock' = [sock EXCEPT ![s] = At("off")]
  /\ UNCHANGED <<conversation, alive, reader, sent, history>>

\* The handler waiting for the next event notices.
disconnect(s) ==
  /\ sock[s] = At("receiving")
  /\ s \notin alive
  /\ connections' = connections \ {s}
  /\ sock' = [sock EXCEPT ![s] = At("leaving")]
  /\ UNCHANGED <<conversation, alive, reader, sent, history>>

\* A message event: the conversation is loaded and must be open.
receive_message(s) ==
  /\ sock[s] = At("receiving")
  /\ s \in alive
  /\ status = "open"
  /\ sent < MaxMessages
  /\ sock' = [sock EXCEPT ![s] = [pc |-> "sending", was |-> unread]]
  /\ UNCHANGED <<conversation, connections, alive, reader, sent, history>>

\* The message and the counters of the other two roles are committed.
commit_message(s) ==
  LET others == Roles \ {RoleOf[s]} IN
  /\ sock[s].pc = "sending"
  /\ sent < MaxMessages
  /\ sent' = sent + 1
  /\ unread' = [role \in Roles |-> IF role \in others THEN sock[s].was[role] + 1
                                   ELSE unread[role]]
  /\ fresh' = [role \in Roles |-> IF role \in others THEN fresh[role] + 1
                                  ELSE fresh[role]]
  /\ muddled' = [role \in Roles |-> muddled[role]
                    \/ (role \in others /\ sock[s].was[role] # unread[role])]
  /\ sock' = [sock EXCEPT ![s] = [pc |-> "casting", then |-> "receiving"]]
  /\ UNCHANGED <<kind, status, online, connections, alive, reader, drift>>

\* A typing event goes to everybody.
typing(s) ==
  /\ sock[s] = At("receiving")
  /\ s \in alive
  /\ sock' = [sock EXCEPT ![s] = [pc |-> "casting", then |-> "receiving"]]
  /\ UNCHANGED <<conversation, connections, alive, reader, sent, history>>

\* The broadcast that ends the connect, a disconnect, a message or an event.
cast(s) ==
  /\ sock[s].pc = "casting"
  /\ broadcast
  /\ sock' = [sock EXCEPT ![s] = At(sock[s].then)]
  /\ UNCHANGED <<conversation, alive, reader, sent, fresh, muddled>>

\* The commit fails and the socket's handler ends through its error path, which
\* synchronises and does not broadcast: a cast that removes nobody.
commit_fails(s) ==
  /\ sock[s].pc = "sending"
  /\ connections' = connections \ {s}
  /\ sock' = [sock EXCEPT ![s] = At("leaving")]
  /\ UNCHANGED <<conversation, alive, reader, sent, history>>

Next ==
  \/ create_conversation \/ create_order_conversation \/ close_conversation
  \/ \E q \in Readers :
       user_messages(q) \/ admin_messages(q) \/ merchant_messages(q) \/ mark_read(q)
  \/ \E s \in Sockets :
       \/ connect(s) \/ sync_load(s) \/ sync_commit(s) \/ sync_fails(s)
       \/ ClientGoes(s) \/ disconnect(s) \/ receive_message(s)
       \/ commit_message(s) \/ commit_fails(s) \/ typing(s) \/ cast(s)

Spec == Init /\ [][Next]_vars

-----------------------------------------------------------------------------
(* Properties.                                                             *)

AtRest ==
  \A s \in Sockets : \/ sock[s].pc \in {"off", "failed"}
                     \/ sock[s].pc = "receiving" /\ s \in alive

\* When no handler is joining, leaving or sending, the presence flags of the
\* row are those of the connection manager, unless the last synchronisation
\* overlapped another one or a change of the connections, or failed.
PresenceRightAtRest == AtRest /\ ~drift => online = is_online

\* A role's unread counter is the number of messages of others that no read
\* returned to it, unless a counter loaded before somebody else's commit was
\* written back after it; the next undisturbed read puts it right again.
UnreadCountsFresh == \A role \in Roles : ~muddled[role] => unread[role] = fresh[role]
=============================================================================
