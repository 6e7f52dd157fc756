--------------------------- MODULE WsGatewayProofs ---------------------------
(***************************************************************************)
(* Invariance proofs about WsGateway, for every finite set of sockets, any *)
(* subjects and tenants and every connection limit.                        *)
(***************************************************************************)
EXTENDS WsGateway, TLAPS, FiniteSetTheorems

\* A room holds sockets whose handler has been counted and has not finished.
RoomsAreLive == \A s \in rooms : conn[s] \in {"open", "gone"}

\* A broadcast only knows sockets that have been in a room.
PendingWasLive == \A s \in pending : conn[s] \in {"open", "gone", "finished"}

\* A broadcast never takes an open socket for a dead one.
DeadIsOver == \A s \in dead : conn[s] \in {"gone", "finished"}

RoomInv == /\ GatewayTypeOK
           /\ OpenIsReachable
           /\ RoomsAreLive
           /\ PendingWasLive
           /\ DeadIsOver

-----------------------------------------------------------------------------
\* Rooms

LEMMA RoomInvInit == Init => RoomInv
BY DEF Init, RoomInv, GatewayTypeOK, ConnState, OpenIsReachable, RoomsAreLive,
       PendingWasLive, DeadIsOver

\* disconnect keeps the types and takes nothing but s out of a room.
LEMMA DisconnectEffect ==
    ASSUME GatewayTypeOK, NEW s \in Socket, Disconnect(s)
    PROVE  /\ rooms' = rooms \ {s}
           /\ subs' \in [Sub -> Nat]
           /\ \A u \in Sub : subs'[u] <= subs[u]
           /\ subs'[SubOf[s]] = IF subs[SubOf[s]] > 0 THEN subs[SubOf[s]] - 1
                                                      ELSE 0
<1>1. SubOf[s] \in Sub
  BY GatewayAssumption
<1>2. \A n \in Nat : (IF n > 0 THEN n - 1 ELSE n) \in Nat
  OBVIOUS
<1> QED
  BY <1>1, <1>2 DEF Disconnect, GatewayTypeOK

LEMMA RoomInvNext == RoomInv /\ [Next]_gatewayVars => RoomInv'
<1> SUFFICES ASSUME RoomInv, [Next]_gatewayVars
             PROVE  RoomInv'
  OBVIOUS
<1> USE GatewayAssumption
<1> USE DEF RoomInv, GatewayTypeOK, ConnState, OpenIsReachable, RoomsAreLive,
            PendingWasLive, DeadIsOver
<1>1. ASSUME NEW s \in Socket, Connect(s)
      PROVE  RoomInv'
  <2>1. subs' \in [Sub -> Nat]
    BY <1>1 DEF Connect
  <2> QED
    BY <1>1, <2>1 DEF Connect
<1>2. ASSUME NEW s \in Socket, Reject(s) \/ AcceptFails(s)
      PROVE  RoomInv'
  BY <1>2 DEF Reject, AcceptFails
<1>3. ASSUME NEW s \in Socket, Close(s)
      PROVE  RoomInv'
  BY <1>3 DEF Close
<1>4. ASSUME NEW s \in Socket, FinishHandler(s)
      PROVE  RoomInv'
  <2>1. /\ rooms' = rooms \ {s}
        /\ subs' \in [Sub -> Nat]
    BY <1>4, DisconnectEffect DEF FinishHandler
  <2> QED
    BY <1>4, <2>1 DEF FinishHandler
<1>5. ASSUME NEW s \in Socket, Send(s)
      PROVE  RoomInv'
  <2>1. dead' = dead \/ (dead' = dead \cup {s} /\ conn[s] # "open")
    BY <1>5 DEF Send
  <2>2. s \in pending /\ pending' = pending \ {s}
    BY <1>5 DEF Send
  <2>3. UNCHANGED << conn, rooms, subs, listening >>
    BY <1>5 DEF Send
  <2> QED
    BY <2>1, <2>2, <2>3
<1>6. ASSUME NEW s \in Socket, DropDead(s)
      PROVE  RoomInv'
  <2>1. /\ rooms' = rooms \ {s}
        /\ subs' \in [Sub -> Nat]
    BY <1>6, DisconnectEffect DEF DropDead
  <2> QED
    BY <1>6, <2>1 DEF DropDead
<1>7. ASSUME NEW tenant \in Tenant, StartBroadcast(tenant)
      PROVE  RoomInv'
  BY <1>7 DEF StartBroadcast
<1>8. ASSUME ListenerEnds
      PROVE  RoomInv'
  BY <1>8 DEF ListenerEnds
<1>9. CASE UNCHANGED gatewayVars
  BY <1>9 DEF gatewayVars
<1> QED
  BY <1>1, <1>2, <1>3, <1>4, <1>5, <1>6, <1>7, <1>8, <1>9 DEF Next, Quiescent

LEMMA RoomInvariant == Spec => []RoomInv
BY RoomInvInit, RoomInvNext, PTL DEF Spec

\* The gateway keeps the types of its state.
THEOREM GatewayTyped == Spec => []GatewayTypeOK
<1>1. RoomInv => GatewayTypeOK
  BY DEF RoomInv
<1> QED
  BY <1>1, RoomInvariant, PTL

\* Once a handler has finished, its socket is in no room, whether the handler or
\* a broadcast disconnected it, so that no later broadcast reaches for it.
THEOREM RoomsForgetTheFinished == Spec => []NoGhosts
<1>1. RoomInv => NoGhosts
  BY DEF RoomInv, RoomsAreLive, NoGhosts
<1> QED
  BY <1>1, RoomInvariant, PTL

\* However handlers and broadcasts disconnect, no open socket is ever taken out
\* of its room.
THEOREM RoomsHoldTheOpen == Spec => []OpenIsReachable
<1>1. RoomInv => OpenIsReachable
  BY DEF RoomInv
<1> QED
  BY <1>1, RoomInvariant, PTL

-----------------------------------------------------------------------------
\* Connection counts

LEMMA LiveIsFinite ==
    ASSUME NEW u \in Sub
    PROVE  /\ IsFiniteSet(Live(u))
           /\ Cardinality(Live(u)) \in Nat
<1>1. Live(u) \subseteq Socket
  BY DEF Live
<1> QED
  BY <1>1, GatewayAssumption, FS_Subset, FS_CardinalityType

LEMMA NoLockoutInit == Init => NoLockout
<1> SUFFICES ASSUME Init, NEW u \in Sub
             PROVE  subs[u] <= Cardinality(Live(u))
  BY DEF NoLockout
<1> QED
  BY LiveIsFinite DEF Init

\* connect adds as much to the count as to the live handlers.
LEMMA ConnectCounts ==
    ASSUME GatewayTypeOK, NoLockout, NEW s \in Socket, Connect(s)
    PROVE  NoLockout'
<1> SUFFICES ASSUME NEW u \in Sub
             PROVE  subs'[u] <= Cardinality(Live(u)')
  BY DEF NoLockout
<1>1. subs[u] \in Nat /\ subs[u] <= Cardinality(Live(u))
  BY DEF GatewayTypeOK, NoLockout
<1>2. CASE u = SubOf[s]
  <2>1. Live(u)' = Live(u) \cup {s} /\ s \notin Live(u)
    BY <1>2 DEF Connect, Live, GatewayTypeOK
  <2>2. Cardinality(Live(u)') = Cardinality(Live(u)) + 1
    BY <2>1, LiveIsFinite, FS_AddElement
  <2>3. subs'[u] = subs[u] + 1
    BY <1>2 DEF Connect, GatewayTypeOK
  <2> QED
    BY <1>1, <2>2, <2>3, LiveIsFinite
<1>3. CASE u # SubOf[s]
  <2>1. Live(u)' = Live(u) /\ subs'[u] = subs[u]
    BY <1>3 DEF Connect, Live, GatewayTypeOK
  <2> QED
    BY <1>1, <2>1
<1> QED
  BY <1>2, <1>3

\* A finished handler takes at most as much from the live handlers as its
\* disconnect takes from the count.
LEMMA FinishCounts ==
    ASSUME GatewayTypeOK, NoLockout, NEW s \in Socket, FinishHandler(s)
    PROVE  NoLockout'
<1> SUFFICES ASSUME NEW u \in Sub
             PROVE  subs'[u] <= Cardinality(Live(u)')
  BY DEF NoLockout
<1>1. subs[u] \in Nat /\ subs[u] <= Cardinality(Live(u))
  BY DEF GatewayTypeOK, NoLockout
<1>2. Disconnect(s)
  BY DEF FinishHandler
<1>3. CASE u = SubOf[s]
  <2>1. Live(u)' = Live(u) \ {s} /\ s \in Live(u)
    BY <1>3 DEF FinishHandler, Live, GatewayTypeOK
  <2>2. Cardinality(Live(u)') = Cardinality(Live(u)) - 1
    BY <2>1, LiveIsFinite, FS_RemoveElement
  <2>3. Cardinality(Live(u)') \in Nat
    BY <2>1, LiveIsFinite, FS_RemoveElement, FS_CardinalityType
  <2>4. subs'[u] = IF subs[u] > 0 THEN subs[u] - 1 ELSE 0
    BY <1>2, <1>3, DisconnectEffect
  <2> QED
    BY <1>1, <2>2, <2>3, <2>4, LiveIsFinite
<1>4. CASE u # SubOf[s]
  <2>1. Live(u)' = Live(u)
    BY <1>4 DEF FinishHandler, Live, GatewayTypeOK
  <2>2. subs'[u] = subs[u]
    BY <1>2, <1>4 DEF Disconnect, GatewayTypeOK
  <2> QED
    BY <1>1, <2>1, <2>2
<1> QED
  BY <1>3, <1>4

LEMMA NoLockoutNext == RoomInv /\ NoLockout /\ [Next]_gatewayVars => NoLockout'
<1> SUFFICES ASSUME GatewayTypeOK, NoLockout, [Next]_gatewayVars
             PROVE  NoLockout'
  BY DEF RoomInv
<1>1. ASSUME NEW s \in Socket, Connect(s)
      PROVE  NoLockout'
  BY <1>1, ConnectCounts
<1>2. ASSUME NEW s \in Socket, FinishHandler(s)
      PROVE  NoLockout'
  BY <1>2, FinishCounts
<1>3. ASSUME NEW s \in Socket, DropDead(s)
      PROVE  NoLockout'
  <2> SUFFICES ASSUME NEW u \in Sub
               PROVE  subs'[u] <= Cardinality(Live(u)')
    BY DEF NoLockout
  <2>1. Live(u)' = Live(u)
    BY <1>3 DEF DropDead, Live
  <2>2. subs'[u] <= subs[u] /\ subs'[u] \in Nat
    BY <1>3, DisconnectEffect DEF DropDead
  <2> QED
    BY <2>1, <2>2, LiveIsFinite DEF NoLockout, GatewayTypeOK
\* The other steps leave the counts and the live handlers alone.
<1>4. ASSUME UNCHANGED subs,
             \A s \in Socket : conn'[s] \in {"open", "gone"}
                                 <=> conn[s] \in {"open", "gone"}
      PROVE  NoLockout'
  <2>1. \A u \in Sub : Live(u)' = Live(u)
    BY <1>4 DEF Live
  <2> QED
    BY <1>4, <2>1 DEF NoLockout
<1>5. ASSUME NEW s \in Socket, Reject(s) \/ AcceptFails(s) \/ Close(s) \/ Send(s)
      PROVE  NoLockout'
  BY <1>4, <1>5 DEF Reject, AcceptFails, Close, Send, GatewayTypeOK
<1>6. ASSUME NEW tenant \in Tenant, StartBroadcast(tenant)
      PROVE  NoLockout'
  BY <1>4, <1>6 DEF StartBroadcast
<1>7. ASSUME ListenerEnds
      PROVE  NoLockout'
  BY <1>4, <1>7 DEF ListenerEnds
<1>8. CASE UNCHANGED gatewayVars
  BY <1>4, <1>8 DEF gatewayVars
<1> QED
  BY <1>1, <1>2, <1>3, <1>5, <1>6, <1>7, <1>8 DEF Next, Quiescent

\* The count that connect tests never exceeds the handlers that still run, so
\* connections that are over never keep a subject out.
THEOREM NeverLockedOut == Spec => []NoLockout
BY RoomInvariant, NoLockoutInit, NoLockoutNext, PTL DEF Spec

=============================================================================
