---------------------------- MODULE PacketProofs ----------------------------
(***************************************************************************)
(* Proofs about the data packets of RouteDiscovery, for every number of    *)
(* packets and every length of the queue: each packet is in one place      *)
(* (OneFate), it fails for a cause (FailsForCause), and the node           *)
(* implements the safety of PacketService (KeepsPromise).                  *)
(***************************************************************************)
EXTENDS RouteDiscoveryProofs

-----------------------------------------------------------------------------
(* Every packet has one fate. *)

\* OneFate with its four places written out.
Fates ==
  /\ 1..sent = Ids(loopback) \cup Ids(queue) \cup delivered \cup failed
  /\ Ids(loopback) \cap Ids(queue) = {}
  /\ Ids(loopback) \cap delivered = {}
  /\ Ids(loopback) \cap failed = {}
  /\ Ids(queue) \cap delivered = {}
  /\ Ids(queue) \cap failed = {}
  /\ delivered \cap failed = {}
  /\ \A p, q \in loopback \cup queue : p.id = q.id => p = q

LEMMA FatesIsOneFate == Fates <=> OneFate
<1> DEFINE places == <<Ids(loopback), Ids(queue), delivered, failed>>
<1>1. /\ places[1] = Ids(loopback) /\ places[2] = Ids(queue)
      /\ places[3] = delivered /\ places[4] = failed
  OBVIOUS
<1>2. 1..4 = {1, 2, 3, 4}
  OBVIOUS
<1> HIDE DEF places
<1>3. UNION {places[i] : i \in 1..4} = Ids(loopback) \cup Ids(queue) \cup delivered \cup failed
  <2>1. UNION {places[i] : i \in 1..4} = places[1] \cup places[2] \cup places[3] \cup places[4]
    BY <1>2
  <2>2. QED BY <1>1, <2>1
<1>4. (\A i, j \in 1..4 : i # j => places[i] \cap places[j] = {})
      <=> /\ places[1] \cap places[2] = {} /\ places[1] \cap places[3] = {}
          /\ places[1] \cap places[4] = {} /\ places[2] \cap places[3] = {}
          /\ places[2] \cap places[4] = {} /\ places[3] \cap places[4] = {}
  BY <1>2
<1>5. QED BY <1>1, <1>3, <1>4 DEF Fates, OneFate, places

PInv == IInv /\ Fates

\* A step that moves packets of the queue to delivered and failed.
LEMMA QueueMoves ==
  ASSUME PInv, NEW D \in SUBSET queue, NEW F \in SUBSET (queue \ D),
         queue' = (queue \ D) \ F, delivered' = delivered \cup Ids(D),
         failed' = failed \cup Ids(F), UNCHANGED <<loopback, sent>>
  PROVE  Fates'
<1>1. \A p, q \in loopback \cup queue : p.id = q.id => p = q
  BY DEF PInv, Fates
<1>2. Ids(queue) = Ids(queue') \cup Ids(D) \cup Ids(F)
  BY DEF Ids
<1>3. /\ Ids(queue') \cap Ids(D) = {} /\ Ids(queue') \cap Ids(F) = {}
      /\ Ids(D) \cap Ids(F) = {}
  BY <1>1 DEF Ids
<1>4. Ids(loopback') = Ids(loopback) /\ sent' = sent
  BY DEF Ids
<1>5. \A p, q \in loopback' \cup queue' : p.id = q.id => p = q
  BY <1>1
<1>6. QED BY <1>2, <1>3, <1>4, <1>5 DEF PInv, Fates

\* A step that leaves the packets alone.
LEMMA PacketsUnchanged ==
  ASSUME PInv, UNCHANGED packetVars
  PROVE  Fates'
BY DEF PInv, Fates, packetVars, Ids

LEMMA ClearQueueFates ==
  ASSUME PInv, NEW d, SendPacketFromQueue(d) \/ DropPacketWithDst(d), UNCHANGED <<loopback, sent>>
  PROVE  Fates'
<1> DEFINE X == Expired(queue)
           W == WithDst(queue, d)
<1>1. X \subseteq queue /\ W \subseteq queue /\ X \cap W = {} /\ PurgeQueue(queue) = queue \ X
  BY DEF Expired, WithDst, PurgeQueue
<1> HIDE DEF X, W
<1>2. CASE SendPacketFromQueue(d)
  <2>1. queue' = (queue \ W) \ X /\ delivered' = delivered \cup Ids(W)
        /\ failed' = failed \cup Ids(X)
    BY <1>1, <1>2 DEF SendPacketFromQueue, X, W
  <2>2. X \in SUBSET (queue \ W)
    BY <1>1
  <2>3. QED BY <1>1, <2>1, <2>2, QueueMoves
<1>3. CASE DropPacketWithDst(d)
  <2>1. queue' = (queue \ {}) \ (X \cup W) /\ delivered' = delivered \cup Ids({})
        /\ failed' = failed \cup Ids(X \cup W)
    BY <1>1, <1>3 DEF DropPacketWithDst, Ids, X, W
  <2>2. X \cup W \in SUBSET (queue \ {})
    BY <1>1
  <2>3. QED BY <2>1, <2>2, QueueMoves
<1>4. QED BY <1>2, <1>3

LEMMA RouteOutputFates ==
  ASSUME PInv, NEW d \in Addr, RouteOutput(d)
  PROVE  Fates'
<1> DEFINE n == sent + 1
           p == [id |-> n, dst |-> d, live |-> TRUE]
<1>1. sent \in Nat /\ loopback \subseteq Packet /\ queue \subseteq Packet
  BY IInvParts, BoundsAssumption DEF PInv, PacketsOK
<1>2. sent' = n /\ 1..n = 1..sent \cup {n} /\ n \notin 1..sent
  BY <1>1 DEF RouteOutput
<1>3. n \notin Ids(loopback) \cup Ids(queue) \cup delivered \cup failed
  BY <1>2 DEF PInv, Fates
<1>4. queue' = queue /\ failed' = failed
  BY DEF RouteOutput
<1>5. p.id = n
  OBVIOUS
<1>6. \/ delivered' = delivered \cup {n} /\ loopback' = loopback
      \/ delivered' = delivered /\ loopback' = loopback \cup {p}
  BY DEF RouteOutput
<1> HIDE DEF n, p
<1>7. CASE delivered' = delivered \cup {n} /\ loopback' = loopback
  BY <1>2, <1>3, <1>4, <1>7 DEF PInv, Fates
<1>8. CASE delivered' = delivered /\ loopback' = loopback \cup {p}
  <2>1. Ids(loopback') = Ids(loopback) \cup {n}
    BY <1>5, <1>8 DEF Ids
  <2>2. \A q, r \in loopback' \cup queue' : q.id = r.id => q = r
    BY <1>3, <1>4, <1>5, <1>8 DEF PInv, Fates, Ids
  <2>3. QED BY <1>2, <1>3, <1>4, <1>8, <2>1, <2>2 DEF PInv, Fates
<1>9. QED BY <1>6, <1>7, <1>8

LEMMA DeferredRouteOutputFates ==
  ASSUME PInv, NEW p, DeferredRouteOutput(p)
  PROVE  Fates'
<1> DEFINE X == Expired(queue)
           E == Evicted(queue, MaxQueueLen)
<1>1. queue \subseteq Packet /\ p \in loopback
  BY IInvParts DEF PInv, PacketsOK, DeferredRouteOutput
<1>2. X \subseteq queue /\ E \subseteq PurgeQueue(queue) /\ PurgeQueue(queue) = queue \ X
  BY <1>1, EvictedInQueue DEF Expired, PurgeQueue
<1>3. ~IsQueued(queue, p)
  BY <1>1 DEF IsQueued, PurgeQueue, PInv, Fates, Ids
<1>4. /\ queue' = (queue \ (X \cup E)) \cup {p} /\ failed' = failed \cup Ids(X \cup E)
      /\ loopback' = loopback \ {p} /\ delivered' = delivered /\ sent' = sent
  BY <1>2, <1>3 DEF DeferredRouteOutput, Enqueue, EnqueueDrops
<1> DEFINE F == X \cup E
<1>5. F \subseteq queue
  BY <1>2
<1> HIDE DEF F
<1>6. queue' = (queue \ F) \cup {p} /\ failed' = failed \cup Ids(F)
  BY <1>4 DEF F
<1>7. \A q, r \in loopback \cup queue : q.id = r.id => q = r
  BY DEF PInv, Fates
<1>8. /\ Ids(loopback) = Ids(loopback') \cup {p.id}
      /\ p.id \notin Ids(loopback')
  BY <1>1, <1>4, <1>7 DEF Ids
<1>9. /\ Ids(queue') = Ids(queue \ F) \cup {p.id}
      /\ Ids(queue) = Ids(queue \ F) \cup Ids(F)
      /\ Ids(queue \ F) \cap Ids(F) = {}
  BY <1>5, <1>6, <1>7 DEF Ids
<1>10. \A q, r \in loopback' \cup queue' : q.id = r.id => q = r
  <2>1. loopback' \cup queue' \subseteq loopback \cup queue
    BY <1>1, <1>4, <1>6
  <2>2. QED BY <1>7, <2>1
<1>11. /\ 1..sent = Ids(loopback) \cup Ids(queue) \cup delivered \cup failed
       /\ Ids(loopback) \cap Ids(queue) = {} /\ Ids(loopback) \cap delivered = {}
       /\ Ids(loopback) \cap failed = {} /\ Ids(queue) \cap delivered = {}
       /\ Ids(queue) \cap failed = {} /\ delivered \cap failed = {}
  BY DEF PInv, Fates
<1> HIDE DEF X, E
<1>12. /\ 1..sent' = Ids(loopback') \cup Ids(queue') \cup delivered' \cup failed'
       /\ Ids(loopback') \cap Ids(queue') = {} /\ Ids(loopback') \cap delivered' = {}
       /\ Ids(loopback') \cap failed' = {} /\ Ids(queue') \cap delivered' = {}
       /\ Ids(queue') \cap failed' = {} /\ delivered' \cap failed' = {}
  <2>1. 1..sent' = Ids(loopback') \cup Ids(queue') \cup delivered' \cup failed'
    BY <1>4, <1>6, <1>8, <1>9, <1>11
  <2>2. Ids(loopback') \subseteq Ids(loopback) /\ Ids(F) \subseteq Ids(queue)
        /\ Ids(queue \ F) \subseteq Ids(queue) /\ p.id \in Ids(loopback)
    BY <1>8, <1>9
  <2>3. Ids(loopback') \cap Ids(queue') = {}
    BY <1>8, <1>9, <1>11, <2>2
  <2>4. Ids(loopback') \cap failed' = {}
    BY <1>6, <1>11, <2>2
  <2>5. Ids(queue') \cap failed' = {}
    BY <1>6, <1>9, <1>11, <2>2
  <2>6. delivered' \cap failed' = {}
    BY <1>4, <1>6, <1>11, <2>2
  <2>7. Ids(queue') \cap delivered' = {}
    BY <1>4, <1>9, <1>11, <2>2
  <2>8. Ids(loopback') \cap delivered' = {}
    BY <1>4, <1>11, <2>2
  <2>9. QED BY <2>1, <2>3, <2>4, <2>5, <2>6, <2>7, <2>8
<1>13. QED BY <1>10, <1>12 DEF Fates

LEMMA PacketLifetimePassesFates ==
  ASSUME PInv, NEW p \in queue, PacketLifetimePasses(p)
  PROVE  Fates'
<1> DEFINE e == [p EXCEPT !.live = FALSE]
<1>1. e.id = p.id
  BY IInvParts DEF PInv, PacketsOK, Packet
<1>2. queue' = (queue \ {p}) \cup {e} /\ UNCHANGED <<loopback, sent, delivered, failed>>
  BY DEF PacketLifetimePasses
<1> HIDE DEF e
<1>3. Ids(queue') = Ids(queue) /\ Ids(loopback') = Ids(loopback)
  BY <1>1, <1>2 DEF Ids
<1>4. \A q, r \in loopback' \cup queue' : q.id = r.id => q = r
  BY <1>1, <1>2 DEF PInv, Fates, Ids
<1>5. QED BY <1>2, <1>3, <1>4 DEF PInv, Fates

LEMMA RouteRequestTimerExpireFates ==
  ASSUME PInv, NEW d \in Addr, RouteRequestTimerExpire(d)
  PROVE  Fates'
<1>1. UNCHANGED <<loopback, sent>>
  BY DEF RouteRequestTimerExpire
<1>2. \/ SendPacketFromQueue(d) \/ DropPacketWithDst(d)
      \/ UNCHANGED <<queue, delivered, failed>>
  BY DEF RouteRequestTimerExpire, RouteFound, TakesRoute, GiveUp, Retry
<1>3. QED BY <1>1, <1>2, ClearQueueFates, PacketsUnchanged DEF packetVars

\* A message leaves the packets alone or is an RREP that sends some on.
LEMMA MessagePackets ==
  ASSUME NextMessage
  PROVE  \/ UNCHANGED packetVars
         \/ \E d \in Addr : SendPacketFromQueue(d) /\ UNCHANGED <<loopback, sent>>
<1>1. ASSUME NEW s \in Addr, RecvIgnored(s) \/ RecvReplyAck(s)
      PROVE  UNCHANGED packetVars
  BY <1>1 DEF RecvIgnored, RecvReplyAck, OnlyTable
<1>2. ASSUME NEW s \in Addr, NEW seq \in SeqNos, RecvHello(s, seq)
      PROVE  UNCHANGED packetVars
  BY <1>2 DEF RecvHello, OnlyTable
<1>3. ASSUME NEW s \in Addr, NEW dsts \in SUBSET Addr, RecvError(s, dsts)
      PROVE  UNCHANGED packetVars
  BY <1>3 DEF RecvError, OnlyTable
<1>4. ASSUME NEW s \in Addr, NEW d \in Addr, NEW o \in Addr \cup {Me}, NEW seq \in SeqNos,
             NEW hop \in HopCounts, RecvReply(s, d, o, seq, hop)
      PROVE  \/ UNCHANGED packetVars
             \/ SendPacketFromQueue(d) /\ UNCHANGED <<loopback, sent>>
  BY <1>4 DEF RecvReply, OwnReply, packetVars
<1>5. ASSUME NEW s \in Addr, NEW o \in Addr, NEW d \in Addr \cup {Me}, NEW seq \in SeqNos,
             NEW ask \in SeqNos \cup {Unknown}, NEW hop \in HopCounts,
             RecvRequest(s, o, d, seq, ask, hop)
      PROVE  UNCHANGED packetVars
  BY <1>5 DEF RecvRequest, OnlyTable
<1>6. QED BY <1>1, <1>2, <1>3, <1>4, <1>5 DEF NextMessage

LEMMA NextFates == PInv /\ [Next]_vars => Fates'
<1> SUFFICES ASSUME PInv, [Next]_vars PROVE Fates'
  OBVIOUS
<1>1. CASE NextPacket
  BY <1>1, RouteOutputFates, DeferredRouteOutputFates DEF NextPacket
<1>2. CASE NextTimer
  BY <1>2, PacketsUnchanged, RouteRequestTimerExpireFates
     DEF NextTimer, RunDeferredRequest, RreqRateLimitTimerExpire
<1>3. CASE NextMessage
  BY <1>3, MessagePackets, PacketsUnchanged, ClearQueueFates
<1>4. CASE Environment
  BY <1>4, PacketsUnchanged, PacketLifetimePassesFates
     DEF Environment, SendRerrWhenBreaksLinkToNextHop, LifetimePasses, LookupRoute, OnlyTable
<1>5. CASE UNCHANGED vars
  BY <1>5, PacketsUnchanged DEF vars, packetVars
<1>6. QED BY <1>1, <1>2, <1>3, <1>4, <1>5 DEF Next

LEMMA InitFates == Init => Fates
<1> SUFFICES ASSUME Init PROVE Fates
  OBVIOUS
<1>1. Ids({}) = {} /\ 1..0 = {}
  BY DEF Ids
<1>2. QED BY <1>1 DEF Init, Fates

LEMMA PacketInvariance == Spec => []PInv
<1>1. Init => PInv
  BY InitIInv, InitFates DEF PInv
<1>2. PInv /\ [Next]_vars => PInv'
  BY NextIInv, NextFates DEF PInv
<1>3. QED BY <1>1, <1>2, PTL DEF Spec

\* PacketsHaveOneFate: no data packet is lost, answered twice, or both given a
\* route and handed to its error callback.
THEOREM PacketsHaveOneFate == Spec => []OneFate
<1>1. PInv => OneFate
  BY FatesIsOneFate DEF PInv
<1>2. QED BY <1>1, PacketInvariance, PTL

-----------------------------------------------------------------------------
(* Why packets fail. *)

\* A cause for a queued packet to be handed to its error callback.
Cause(p) ==
  \/ ~p.live
  \/ /\ p = Oldest(PurgeQueue(queue)) /\ Cardinality(PurgeQueue(queue)) = MaxQueueLen
     /\ ~(Ids(queue') \subseteq Ids(queue))
  \/ ~Present(rt', p.dst)

\* Only these three operations add to failed.
LEMMA WhoFails ==
  ASSUME PInv, [Next]_vars, NEW p \in queue, p.id \in failed'
  PROVE  \/ p \in Expired(queue)
         \/ p \in Evicted(queue, MaxQueueLen) /\ ~(Ids(queue') \subseteq Ids(queue))
         \/ \E d \in Addr : GiveUp(Purge(rt), d) /\ p \in WithDst(queue, d)
<1>1. p.id \notin failed /\ \A q \in queue : q.id = p.id => q = p
  BY DEF PInv, Fates, Ids
<1>2. Expired(queue) \subseteq queue /\ \A d \in Addr : WithDst(queue, d) \subseteq queue
  BY DEF Expired, WithDst, PurgeQueue
<1>3. Evicted(queue, MaxQueueLen) \subseteq queue
  BY IInvParts, EvictedInQueue DEF PInv, PacketsOK, PurgeQueue
<1>4. ASSUME NEW d, SendPacketFromQueue(d)
      PROVE  p \in Expired(queue)
  BY <1>1, <1>2, <1>4 DEF SendPacketFromQueue, Ids
<1>5. ASSUME NEW q, DeferredRouteOutput(q)
      PROVE  \/ p \in Expired(queue)
             \/ p \in Evicted(queue, MaxQueueLen) /\ ~(Ids(queue') \subseteq Ids(queue))
  <2>1. p \in EnqueueDrops(queue, q, MaxQueueLen)
    BY <1>1, <1>2, <1>3, <1>5 DEF DeferredRouteOutput, EnqueueDrops, Ids
  <2>2. ASSUME ~IsQueued(queue, q)
        PROVE  ~(Ids(queue') \subseteq Ids(queue))
    <3>1. q \in queue' /\ q \in loopback
      BY <1>5, <2>2 DEF DeferredRouteOutput, Enqueue
    <3>2. q.id \in Ids(queue') /\ q.id \notin Ids(queue)
      BY <3>1 DEF PInv, Fates, Ids
    <3>3. QED BY <3>2
  <2>3. QED BY <2>1, <2>2 DEF EnqueueDrops
<1>6. ASSUME NEW d \in Addr, GiveUp(Purge(rt), d)
      PROVE  p \in Expired(queue) \/ p \in WithDst(queue, d)
  BY <1>1, <1>2, <1>6 DEF GiveUp, DropPacketWithDst, Ids
<1>7. CASE NextPacket
  BY <1>1, <1>5, <1>7 DEF NextPacket, RouteOutput
<1>8. CASE NextTimer
  BY <1>1, <1>4, <1>6, <1>8 DEF NextTimer, RunDeferredRequest, RreqRateLimitTimerExpire,
     packetVars, RouteRequestTimerExpire, RouteFound, Retry
<1>9. CASE NextMessage
  BY <1>1, <1>4, <1>9, MessagePackets DEF packetVars
<1>10. CASE Environment
  BY <1>1, <1>10 DEF Environment, SendRerrWhenBreaksLinkToNextHop, LifetimePasses,
     LookupRoute, PacketLifetimePasses, OnlyTable, packetVars
<1>11. CASE UNCHANGED vars
  BY <1>1, <1>11 DEF vars
<1>12. QED BY <1>7, <1>8, <1>9, <1>10, <1>11 DEF Next

LEMMA FailsForCauseStep ==
  ASSUME PInv, [Next]_vars, NEW p \in queue, p.id \in failed'
  PROVE  Cause(p)
<1>1. CASE p \in Expired(queue)
  BY <1>1 DEF Expired, Cause
<1>2. CASE p \in Evicted(queue, MaxQueueLen) /\ ~(Ids(queue') \subseteq Ids(queue))
  BY <1>2 DEF Evicted, Cause
<1>3. ASSUME NEW d \in Addr, GiveUp(Purge(rt), d), p \in WithDst(queue, d)
      PROVE  Cause(p)
  BY <1>3 DEF GiveUp, DeleteRoute, Purge, Present, NoRoute, WithDst, Cause
<1>4. QED BY <1>1, <1>2, <1>3, WhoFails

\* PacketsFailForCause: a queued packet reaches its error callback only because
\* it expired, a new packet evicted it from a full queue, or its route was given up.
THEOREM PacketsFailForCause == Spec => FailsForCause
<1>1. PInv /\ [Next]_vars => [\A p \in queue : p.id \in failed' =>
       \/ ~p.live
       \/ /\ p = Oldest(PurgeQueue(queue)) /\ Cardinality(PurgeQueue(queue)) = MaxQueueLen
          /\ ~(Ids(queue') \subseteq Ids(queue))
       \/ ~Present(rt', p.dst)]_vars
  BY FailsForCauseStep DEF Cause
<1>2. QED BY <1>1, PacketInvariance, PTL DEF Spec, FailsForCause

-----------------------------------------------------------------------------
(* The refinement of PacketService. *)

\* A step either hands over a packet or only adds to delivered and failed.
LEMMA PacketStep ==
  ASSUME [Next]_vars
  PROVE  \/ \E d \in Addr : RouteOutput(d)
         \/ sent' = sent /\ delivered \subseteq delivered' /\ failed \subseteq failed'
<1>1. ASSUME NEW d, SendPacketFromQueue(d) \/ DropPacketWithDst(d)
      PROVE  delivered \subseteq delivered' /\ failed \subseteq failed'
  BY <1>1 DEF SendPacketFromQueue, DropPacketWithDst
<1>2. CASE NextPacket
  BY <1>2 DEF NextPacket, DeferredRouteOutput
<1>3. CASE NextTimer
  BY <1>1, <1>3 DEF NextTimer, RunDeferredRequest, RreqRateLimitTimerExpire, packetVars,
     RouteRequestTimerExpire, RouteFound, GiveUp, Retry
<1>4. CASE NextMessage
  BY <1>1, <1>4, MessagePackets DEF packetVars
<1>5. CASE Environment
  BY <1>5 DEF Environment, SendRerrWhenBreaksLinkToNextHop, LifetimePasses, LookupRoute,
     PacketLifetimePasses, OnlyTable, packetVars
<1>6. CASE UNCHANGED vars
  BY <1>6 DEF vars
<1>7. QED BY <1>2, <1>3, <1>4, <1>5, <1>6 DEF Next

\* In a step that hands no packet over, what becomes settled was unsettled.
LEMMA SettleStep ==
  ASSUME PInv, Fates', sent' = sent, delivered \subseteq delivered', failed \subseteq failed'
  PROVE  Service!Settle
<1> DEFINE r == delivered' \ delivered
           e == failed' \ failed
<1>1. delivered' \cup failed' \subseteq 1..sent /\ delivered' \cap failed' = {}
  BY DEF Fates
<1>2. r \in SUBSET Service!Unsettled
  BY <1>1 DEF Service!Unsettled
<1>3. e \in SUBSET (Service!Unsettled \ r)
  BY <1>1 DEF Service!Unsettled
<1>4. delivered' = delivered \cup r /\ failed' = failed \cup e
  OBVIOUS
<1> HIDE DEF r, e
<1>5. QED BY <1>2, <1>3, <1>4 DEF Service!Settle

LEMMA ServiceStep ==
  PInv /\ Fates' /\ [Next]_vars => [Service!ServiceNext]_(Service!serviceVars)
<1> SUFFICES ASSUME PInv, Fates', [Next]_vars
             PROVE  Service!ServiceNext
  OBVIOUS
<1>1. ASSUME NEW d \in Addr, RouteOutput(d)
      PROVE  Service!Submit
  BY <1>1 DEF RouteOutput, Service!Submit
<1>2. QED BY <1>1, PacketStep, SettleStep DEF Service!ServiceNext

\* NodeKeepsPromise: route discovery implements the safety of PacketService:
\* every data packet is settled at most once, and only once it was handed over.
THEOREM NodeKeepsPromise == Spec => KeepsPromise
<1>1. Init => Service!ServiceInit
  BY DEF Init, Service!ServiceInit
<1>2. PInv /\ PInv' /\ [Next]_vars => [Service!ServiceNext]_(Service!serviceVars)
  BY ServiceStep DEF PInv
<1>3. QED BY <1>1, <1>2, PacketInvariance, PTL DEF Spec, KeepsPromise, Service!ServiceSpec

=============================================================================
