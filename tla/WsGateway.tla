------------------------------ MODULE WsGateway ------------------------------
(***************************************************************************)
(* The WebSocket gateway: the ConnectionManager of ws/gateway.py, the      *)
(* handler of each socket (ws/handlers.py) and the one pub/sub listener    *)
(* that broadcasts (ws/pubsub.py), all coroutines of one event loop.       *)
(*                                                                         *)
(* connect and disconnect run under the manager's lock and change its      *)
(* state without an await in between, so each is one action; a broadcast   *)
(* awaits between any two sockets and takes no lock until it cleans up.    *)
(***************************************************************************)
EXTENDS Integers, FiniteSets

CONSTANTS
    Socket,                   \* websocket objects, one handler each
    Sub,                      \* token subjects
    Tenant,
    SubOf,                    \* the subject of a socket's token
    TenantOf,                 \* the tenant of a socket's token
    MAX_CONNECTIONS_PER_SUB

ASSUME GatewayAssumption ==
    /\ SubOf \in [Socket -> Sub]
    /\ TenantOf \in [Socket -> Tenant]
    /\ MAX_CONNECTIONS_PER_SUB \in Nat
    /\ IsFiniteSet(Socket)

VARIABLES
    conn,        \* where each socket and its handler are
    rooms,       \* sockets in the room of their tenant: _rooms
    subs,        \* connection count of each subject: _subs
    pending,     \* sockets of the snapshot the broadcast has yet to send to
    dead,        \* sockets the broadcast found dead and has yet to drop
    listening    \* the listener's task has not ended

gatewayVars == << conn, rooms, subs, pending, dead, listening >>

\* gone: the peer or the server has closed the socket, the handler has not run
\* its finally block yet; rejected: closed with 4008, or never accepted.
ConnState == { "new", "open", "gone", "rejected", "finished" }

GatewayTypeOK ==
    /\ conn \in [Socket -> ConnState]
    /\ rooms \subseteq Socket
    /\ subs \in [Sub -> Nat]
    /\ pending \subseteq Socket
    /\ dead \subseteq Socket
    /\ listening \in BOOLEAN

Init ==
    /\ conn = [s \in Socket |-> "new"]
    /\ rooms = {}
    /\ subs = [u \in Sub |-> 0]
    /\ pending = {}
    /\ dead = {}
    /\ listening = TRUE

-----------------------------------------------------------------------------

HasRoom(u) == subs[u] < MAX_CONNECTIONS_PER_SUB

\* ConnectionManager.connect: counted and in the room, or refused with 4008.
Connect(s) ==
    /\ conn[s] = "new"
    /\ HasRoom(SubOf[s])
    /\ conn' = [conn EXCEPT ![s] = "open"]
    /\ rooms' = rooms \cup {s}
    /\ subs' = [subs EXCEPT ![SubOf[s]] = @ + 1]
    /\ UNCHANGED << pending, dead, listening >>

Reject(s) ==
    /\ conn[s] = "new"
    /\ ~HasRoom(SubOf[s])
    /\ conn' = [conn EXCEPT ![s] = "rejected"]
    /\ UNCHANGED << rooms, subs, pending, dead, listening >>

\* websocket.accept() raises: the peer has left, nothing was counted yet.
AcceptFails(s) ==
    /\ conn[s] = "new"
    /\ HasRoom(SubOf[s])
    /\ conn' = [conn EXCEPT ![s] = "rejected"]
    /\ UNCHANGED << rooms, subs, pending, dead, listening >>

\* The peer goes away, or the handler closes the socket on a tenant mismatch.
Close(s) ==
    /\ conn[s] = "open"
    /\ conn' = [conn EXCEPT ![s] = "gone"]
    /\ UNCHANGED << rooms, subs, pending, dead, listening >>

\* Mutant: a socket that a broadcast has already taken out of its room is not
\* counted down, and neither is any other.
DisconnectLeaky(s) ==
    /\ rooms' = rooms \ {s}
    /\ UNCHANGED subs

\* Mutant: the room keeps the socket.
DisconnectKeepsRoom(s) ==
    /\ UNCHANGED rooms
    /\ subs' = [subs EXCEPT ![SubOf[s]] = IF @ > 0 THEN @ - 1 ELSE @]

\* Mutant: the count goes below zero.
DisconnectUnclamped(s) ==
    /\ rooms' = rooms \ {s}
    /\ subs' = [subs EXCEPT ![SubOf[s]] = @ - 1]

\* ConnectionManager.disconnect.  The room is tested for the socket, the count
\* is not: a second call for the same socket counts down again.
Disconnect(s) ==
    /\ rooms' = rooms \ {s}
    /\ subs' = [subs EXCEPT ![SubOf[s]] = IF @ > 0 THEN @ - 1 ELSE @]

\* The finally block of triage_websocket.
FinishHandler(s) ==
    /\ conn[s] = "gone"
    /\ conn' = [conn EXCEPT ![s] = "finished"]
    /\ Disconnect(s)
    /\ UNCHANGED << pending, dead, listening >>

\* The listener is sequential: the next message waits for this broadcast.
StartBroadcast(tenant) ==
    /\ listening
    /\ pending = {} /\ dead = {}
    /\ pending' = { s \in rooms : TenantOf[s] = tenant }
    /\ pending' # {}
    /\ UNCHANGED << conn, rooms, subs, dead, listening >>

\* Mutant: a send to a socket that is no longer open blocks.
SendBlocks(s) ==
    /\ s \in pending /\ conn[s] = "open"
    /\ pending' = pending \ {s}
    /\ UNCHANGED << conn, rooms, subs, dead, listening >>

\* Mutant: a slow peer is taken for a dead one.
SendDropsSlow(s) ==
    /\ s \in pending
    /\ pending' = pending \ {s}
    /\ dead' \in { dead, dead \cup {s} }
    /\ UNCHANGED << conn, rooms, subs, listening >>

\* An open socket gets the message.  One that is no longer open is dead, by its
\* client_state or by a failing send, unless the transport has not noticed.
Send(s) ==
    /\ s \in pending
    /\ pending' = pending \ {s}
    /\ dead' \in IF conn[s] = "open" THEN {dead} ELSE { dead, dead \cup {s} }
    /\ UNCHANGED << conn, rooms, subs, listening >>

\* The loop over dead, after the loop over the snapshot.
DropDead(s) ==
    /\ pending = {} /\ s \in dead
    /\ dead' = dead \ {s}
    /\ Disconnect(s)
    /\ UNCHANGED << conn, pending, listening >>

\* psubscribe or get_message raises: the task ends and nothing starts another.
\* Errors of a broadcast are caught, so it ends only between two of them.
ListenerEnds ==
    /\ listening
    /\ pending = {} /\ dead = {}
    /\ listening' = FALSE
    /\ UNCHANGED << conn, rooms, subs, pending, dead >>

\* No socket is left to connect or to close.
Quiescent ==
    /\ \A s \in Socket : conn[s] \in {"rejected", "finished"}
    /\ pending = {} /\ dead = {}
    /\ UNCHANGED gatewayVars

Next ==
    \/ \E s \in Socket : \/ Connect(s) \/ Reject(s) \/ AcceptFails(s)
                         \/ Close(s)
                         \/ FinishHandler(s) \/ Send(s) \/ DropDead(s)
    \/ \E tenant \in Tenant : StartBroadcast(tenant)
    \/ ListenerEnds
    \/ Quiescent

Spec == Init /\ [][Next]_gatewayVars

\* The event loop runs what is ready; peers need not connect or leave, and
\* nothing has to be published.  That Send is fair means that a send comes to an
\* end: the gateway sets no timeout, but uvicorn closes a connection whose peer
\* answers no ping, and the send then raises.
Fairness == \A s \in Socket : WF_gatewayVars(FinishHandler(s))
                              /\ WF_gatewayVars(Send(s))
                              /\ WF_gatewayVars(DropDead(s))

FairSpec == Spec /\ Fairness

-----------------------------------------------------------------------------
\* Properties

\* Sockets whose handler has been counted and has not finished.
Live(u) == { s \in Socket : SubOf[s] = u /\ conn[s] \in {"open", "gone"} }

Open(u) == { s \in Live(u) : conn[s] = "open" }

\* A subject is never locked out by connections that are over: the count that
\* connect tests never exceeds the handlers that still run, however broadcasts
\* and handlers interleave their disconnects.
NoLockout == \A u \in Sub : subs[u] <= Cardinality(Live(u))

\* A socket whose handler has finished is in no room, so no later broadcast takes
\* it into its snapshot, even if one that is under way still drops it.
NoGhosts == \A s \in Socket : conn[s] \in {"rejected", "finished"} => s \notin rooms

\* An open socket stays in its room: no disconnect of a broadcast takes away a
\* socket that would still receive events.
OpenIsReachable == \A s \in Socket : conn[s] = "open" => s \in rooms

\* A broadcast that has begun ends, so the listener takes the next message or,
\* if Redis fails it, ends without leaving a dead socket half dropped, whatever
\* connects and leaves meanwhile.
BroadcastEnds == (pending # {} \/ dead # {}) ~> (pending = {} /\ dead = {})

\* gateway.py:1, "per-sub connection limits": no subject has more open
\* sockets than the limit.  The double decrement breaks it.
LimitHolds == \A u \in Sub : Cardinality(Open(u)) <= MAX_CONNECTIONS_PER_SUB

=============================================================================
