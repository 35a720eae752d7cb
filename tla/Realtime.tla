------------------------------ MODULE Realtime ------------------------------
(***************************************************************************)
(* The WebSocket that tells a member's open clients what changed for him     *)
(* (api/routes/realtime.py).  One coroutine per socket on one event loop: it *)
(* is interrupted at its awaits only.  Every two seconds, or on a frame of   *)
(* the client, it compares a snapshot of the database with the last one.     *)
(***************************************************************************)
EXTENDS Naturals

CONSTANTS
    Sockets,        \* connections a client may have
    Member,         \* the account a socket authenticates as
    MaxNews         \* bound: changes of a snapshot

VARIABLES
    socket,         \* where the coroutine of each socket is
    connected,      \* sockets whose client is still there
    registry,       \* _connections, in the memory of the process
    news,           \* snapshot of each account: notifications, unread, last message
    told,           \* the snapshot the client of each socket was last told of
    presence        \* the event each coroutine is sending, and the sockets left

realtimeVars == <<socket, connected, registry, news, told, presence>>
-----------------------------------------------------------------------------
MembersOnline == {Member[s] : s \in registry}
SocketsOf(u) == {s \in registry : Member[s] = u}
Live == {"open", "relaying"}
Silent == [left |-> {}]

RealtimeInit ==
    /\ socket = [s \in Sockets |-> "away"]
    /\ connected = {} /\ registry = {}
    /\ news = [u \in {Member[s] : s \in Sockets} |-> 0]
    /\ told = [s \in Sockets |-> 0]
    /\ presence = [s \in Sockets |-> Silent]

Connect(s) ==
    /\ socket[s] = "away"
    /\ socket' = [socket EXCEPT ![s] = "authenticating"]
    /\ connected' = connected \cup {s}
    /\ UNCHANGED <<registry, news, told, presence>>

\* Registered, snapshot taken, "connected" sent; a member who was offline is
\* announced to every registered socket.
Authenticate(s) ==
    /\ socket[s] = "authenticating" /\ s \in connected
    /\ socket' = [socket EXCEPT ![s] = "open"]
    /\ registry' = registry \cup {s}
    /\ told' = [told EXCEPT ![s] = news[Member[s]]]
    /\ presence' = IF SocketsOf(Member[s]) = {}
                   THEN [presence EXCEPT ![s] = [left |-> registry']] ELSE presence
    /\ UNCHANGED <<connected, news>>

\* No token within five seconds, a token that is refused, a client gone.
Refuse(s) ==
    /\ socket[s] = "authenticating"
    /\ socket' = [socket EXCEPT ![s] = "away"]
    /\ connected' = connected \ {s}
    /\ UNCHANGED <<registry, news, told, presence>>

\* A notification or a message is committed, read or removed.
Change(u) ==
    /\ news[u] < MaxNews
    /\ news' = [news EXCEPT ![u] = @ + 1]
    /\ UNCHANGED <<socket, connected, registry, told, presence>>

Leave(s) ==
    /\ s \in connected
    /\ connected' = connected \ {s}
    /\ UNCHANGED <<socket, registry, news, told, presence>>

\* A frame of the client, typing or read, is relayed to the other members.
Relay(s) ==
    /\ socket[s] = "open" /\ s \in connected /\ presence[s] = Silent
    /\ socket' = [socket EXCEPT ![s] = "relaying"]
    /\ presence' = [presence EXCEPT ![s] = [left |-> registry \ SocketsOf(Member[s])]]
    /\ UNCHANGED <<connected, registry, news, told>>

\* Mutant: the rows are those the session first read.
SnapshotFirstRead(s) == told[s]

Snapshot(s) == news[Member[s]]

\* After the timeout of the receive, or a frame, the snapshots are compared.
Poll(s) ==
    /\ socket[s] \in Live /\ s \in connected /\ presence[s] = Silent
    /\ socket[s] = "relaying" \/ told[s] # Snapshot(s)
    /\ socket' = [socket EXCEPT ![s] = "open"]
    /\ told' = [told EXCEPT ![s] = Snapshot(s)]
    /\ UNCHANGED <<connected, registry, news, presence>>

\* Mutant: what the coroutine registered stays.
EndingRegistered(s) ==
    /\ socket' = [socket EXCEPT ![s] = "ending"]
    /\ presence' = [presence EXCEPT ![s] = Silent]
    /\ UNCHANGED registry

\* The finally clause: removed first, then announced if it was the last socket.
Ending(s) ==
    /\ socket' = [socket EXCEPT ![s] = "ending"]
    /\ registry' = registry \ {s}
    /\ presence' = [presence EXCEPT ![s] =
           IF s \in registry /\ SocketsOf(Member[s]) = {s}
           THEN [left |-> registry \ {s}] ELSE Silent]

\* The receive raises WebSocketDisconnect.
Disconnect(s) ==
    /\ socket[s] \in Live /\ s \notin connected /\ presence[s] = Silent
    /\ Ending(s)
    /\ UNCHANGED <<connected, news, told>>

\* One await of _broadcast_to_users.  A client that has gone swallows the frame;
\* or the send raises RuntimeError, and its socket is dropped from the registry;
\* or it raises WebSocketDisconnect, which ends the coroutine that was sending.
SendPresence(s, r) ==
    /\ r \in presence[s].left
    /\ UNCHANGED <<connected, news, told>>
    /\ \/ /\ presence' = [presence EXCEPT ![s].left = @ \ {r}]
          /\ UNCHANGED <<socket, registry>>
       \/ /\ r \in registry \ connected
          /\ presence' = [presence EXCEPT ![s].left = @ \ {r}]
          /\ registry' = registry \ {r}
          /\ UNCHANGED socket
       \/ /\ r \in registry \ connected /\ socket[s] \in Live
          /\ Ending(s)
       \/ /\ r \in registry \ connected /\ socket[s] = "ending"
          /\ presence' = [presence EXCEPT ![s] = Silent]
          /\ UNCHANGED <<socket, registry>>

\* Nothing left to send: the coroutine returns.
End(s) ==
    /\ socket[s] = "ending" /\ presence[s] = Silent
    /\ socket' = [socket EXCEPT ![s] = "away"]
    /\ connected' = connected \ {s}
    /\ UNCHANGED <<registry, news, told, presence>>

Coroutine(s) ==
    \/ Authenticate(s) \/ Refuse(s) \/ Poll(s) \/ Disconnect(s) \/ End(s)
    \/ \E r \in Sockets : SendPresence(s, r)

RealtimeNext ==
    \/ \E s \in Sockets : Connect(s) \/ Leave(s) \/ Relay(s) \/ Coroutine(s)
    \/ \E u \in DOMAIN news : Change(u)

-----------------------------------------------------------------------------
RealtimeTypeOK ==
    /\ socket \in [Sockets -> {"away", "authenticating", "open", "relaying", "ending"}]
    /\ connected \subseteq Sockets
    /\ news \in [{Member[s] : s \in Sockets} -> 0..MaxNews]

\* Only open sockets are in the registry: what is sent goes to a coroutine's client.
RegistryIsOpen == \A s \in registry : socket[s] \in Live

\* A client that stays is eventually told of what changed.
ToldOfNews ==
    \A s \in Sockets :
        (socket[s] \in Live /\ told[s] # news[Member[s]])
            ~> (socket[s] \notin Live \/ s \notin connected \/ told[s] = news[Member[s]])

\* A client that left is eventually out of the registry: nobody stays online.
GoneAreForgotten ==
    \A s \in Sockets : (s \in registry /\ s \notin connected) ~> s \notin registry
=============================================================================
